---------------------------- MODULE ConfigStore ----------------------------
(***************************************************************************)
(* The dashboard's in-memory config (dashboard/config_store.py): one       *)
(* action per public mutator, each one edit of the whole, and the load and *)
(* save that tie it to a file.  What a mutator writes besides ratings,     *)
(* relays, priorities, spaces and the recorder's keys is the template's    *)
(* shape.                                                                  *)
(***************************************************************************)
EXTENDS ClonedPanel

CONSTANTS
  Files,      \* configs a file or an import may hold, as written
  Names,      \* entity_type -> the ids make_defaults and its counter give, in
              \* order, and the template name made from the first
  Forms,      \* entity forms the edit page may post
  Spaces,     \* tab selections of the panel page
  Totals,     \* total_tabs values of the panel form
  Capacities, \* capacities of the battery form, None where it posts none
  MaxLoads,   \* bound on the files and imports opened
  MaxEdits    \* bound on the changes made

ASSUME StoreValues == MaxLoads \in Nat /\ MaxEdits \in Nat

\* Only a template's profile may be missing; a posted nameplate is a figure, and a
\* file's snapshots are those record_recorder_snapshots took of a loaded config.
ASSUME StoredConfigs ==
  /\ \A f \in Files : IsConfig(f)
  /\ \A form \in Forms :
       /\ "nameplate" \in DOMAIN form => form.nameplate # Absent
       /\ "locked" \in DOMAIN form => form.locked \in BOOLEAN
       /\ "tabs" \in DOMAIN form => form.tabs \subseteq Nat
  /\ None \notin Totals

VARIABLES
  config,     \* ConfigStore._state
  dirty,      \* ConfigStore._dirty
  disk,       \* the file the editor was loaded from
  loads,      \* files and imports opened (the bound)
  edits       \* changes made (the bound)

storeVars == <<config, dirty, disk, loads, edits>>

Blank == [old |-> FALSE, tabs |-> 32, model |-> None, templates |-> << >>,
          circuits |-> << >>, feed |-> None, section |-> None, bess |-> NoBess, drive |-> None,
          source |-> None]

Init ==
  /\ config = Blank
  /\ dirty = FALSE
  /\ disk = Blank
  /\ loads = 0
  /\ edits = 0

----------------------------------------------------------------------------
(* Loading and saving.                                                     *)

\* load_from_file: of the files there are, or again of the one the editor saved.
LoadFromFile(f) ==
  /\ loads < MaxLoads \/ f = disk
  /\ loads' = IF f = disk THEN loads ELSE loads + 1
  /\ LET read == Normalise(f) IN Valid(read) /\ config' = read
  /\ disk' = f
  /\ dirty' = FALSE
  /\ UNCHANGED edits

\* load_from_yaml of an import: the same, but no file holds it.
Import(f) ==
  /\ loads < MaxLoads
  /\ loads' = loads + 1
  /\ LET read == Normalise(f) IN Valid(read) /\ config' = read
  /\ dirty' = TRUE
  /\ UNCHANGED <<disk, edits>>

\* Mutant: a save that leaves the unsaved-changes flag up.
SaveLeavesDirty ==
  /\ config' = Normalise(config)
  /\ disk' = config'
  /\ UNCHANGED <<dirty, edits, loads>>

\* save_to_file normalises the state in place before it validates.
SaveToFile ==
  /\ config' = Normalise(config)
  /\ IF Valid(config')
     THEN disk' = config' /\ dirty' = FALSE
     ELSE UNCHANGED <<disk, dirty>>
  /\ UNCHANGED <<edits, loads>>

----------------------------------------------------------------------------
(* ConfigStore.edit: the change is made on a copy, normalised and          *)
(* validated, and kept only if the panel would load it.                    *)

\* Mutant: validated as posted, then normalised, on the state itself.
EditInPlace(changed) ==
  /\ edits < MaxEdits
  /\ config' = IF Valid(changed) THEN Normalise(changed) ELSE changed
  /\ dirty' = TRUE
  /\ edits' = edits + 1
  /\ UNCHANGED <<disk, loads>>

Edit(changed) ==
  /\ edits < MaxEdits
  /\ LET kept == Normalise(changed) IN Valid(kept) /\ config' = kept
  /\ dirty' = TRUE
  /\ edits' = edits + 1
  /\ UNCHANGED <<disk, loads>>

\* A mutator that returns before changing anything: the edit around it still
\* normalises what it keeps, and leaves the unsaved-changes flag alone.
NoEdit ==
  /\ LET kept == Normalise(config) IN Valid(kept) /\ config' = kept
  /\ UNCHANGED <<dirty, disk, edits, loads>>

\* The saved config's definition, exported, and imported as a config: the clone of
\* the tree it publishes.  The export runs the file as a panel would.
ImportDefinition ==
  /\ ~dirty
  /\ LET loaded == Normalise(disk)
     IN /\ Valid(loaded)
        /\ Publishable(loaded)
        /\ Importable(Published(loaded))
        /\ Edit(FromDefinition(Published(loaded)))

OnTemplate(c, id, tpl) == [c EXCEPT !.templates[c.circuits[id].template] = tpl]

\* _mark_user_modified: only a template with a recorder entity is flagged.
Marked(tpl) == [tpl EXCEPT !.user = @ \/ tpl.recorder # None]

UpdatePanelConfig(total) ==
  /\ total % 2 = 0
  /\ Edit([config EXCEPT !.tabs = total])

----------------------------------------------------------------------------
(* The battery section.                                                    *)

DefaultBess ==
  [enabled |-> TRUE, capacity |-> DefaultCapacity, mode |-> "self-consumption",
   rate |-> FALSE, hours |-> "static"]

\* A section that is created is enabled; one there is keeps its flag.
BessOf(c) == IF c.bess.enabled = None THEN [c.bess EXCEPT !.enabled = TRUE] ELSE c.bess

AddBess == Edit([config EXCEPT !.bess = DefaultBess])
RemoveBess == Edit([config EXCEPT !.bess = NoBess])

\* update_bess_config, update_bess_active_days: create the section, set figures.
UpdateBess(capacity) ==
  Edit([config EXCEPT !.bess =
          [BessOf(config) EXCEPT !.capacity = IF capacity = None THEN @ ELSE capacity]])

UpdateBatteryChargeMode(mode, label) ==
  LET bess == BessOf(config)
      ruled == IF mode = "custom"
               THEN IF label THEN [bess EXCEPT !.mode = mode, !.rate = TRUE, !.hours = "none"]
                    ELSE [bess EXCEPT !.mode = mode]
               ELSE [bess EXCEPT !.mode = mode, !.rate = FALSE]
  IN Edit([config EXCEPT !.bess = ruled])

\* update_battery_profile, apply_battery_preset.
UpdateBatteryProfile ==
  Edit([config EXCEPT !.bess = [BessOf(config) EXCEPT !.hours = "static"]])

----------------------------------------------------------------------------
(* Recorder replay.                                                        *)

RecordRecorderSnapshots(map) ==
  LET source == IF config.source = None
                THEN [origin |-> None, map |-> << >>, snapshots |-> << >>]
                ELSE config.source
      kept == [t \in DOMAIN map \cap DOMAIN config.templates |-> config.templates[t]]
  IN Edit([config EXCEPT !.source =
             [source EXCEPT !.map = IF map = << >> THEN @ ELSE map,
                            !.snapshots = kept]])

\* update_config_from_scrape: the seeds of templates named after the source's
\* spaces, and last_synced.
UpdateFromScrape(seeded) ==
  /\ seeded \subseteq DOMAIN config.templates
  /\ IF seeded = {} /\ config.source = None
     THEN NoEdit
     ELSE Edit([config EXCEPT !.templates =
            [t \in DOMAIN @ |-> IF t \in seeded THEN [@[t] EXCEPT !.seeds = "fresh"] ELSE @[t]]])

RecorderFor(c, t) ==
  IF c.source # None /\ t \in DOMAIN c.source.map
  THEN c.source.map[t] ELSE c.templates[t].recorder

RestoreRecorder(id) ==
  LET t == config.circuits[id].template
      snapped == config.source # None /\ t \in DOMAIN config.source.snapshots
      restored == IF snapped THEN config.source.snapshots[t]
                  ELSE [config.templates[t] EXCEPT !.recorder = RecorderFor(config, t),
                                                   !.user = FALSE]
  IN IF RecorderFor(config, t) = None
     THEN NoEdit
     ELSE Edit([config EXCEPT !.templates[t] = restored])

ToggleUserModified(id) ==
  LET tpl == TemplateOf(config, id)
  IN IF tpl.recorder = None
     THEN NoEdit
     ELSE Edit(OnTemplate(config, id, [tpl EXCEPT !.user = ~@]))

----------------------------------------------------------------------------
(* Entities.                                                               *)

\* update_entity, for a form that posts some of the fields.  A nameplate drops
\* the circuit's own figures and flags the template whatever _dirty says.
UpdateEntity(id, form) ==
  LET tpl == TemplateOf(config, id)
      circuit == config.circuits[id]
      posts(field) == field \in DOMAIN form
      written ==
        [tpl EXCEPT !.priority = IF posts("priority") THEN form.priority ELSE @,
                    !.locked = IF posts("locked") THEN form.locked ELSE @,
                    !.rated = IF posts("nameplate") THEN form.nameplate ELSE @,
                    !.shape = IF posts("shape") THEN "edited" ELSE @]
      marked == IF posts("nameplate") \/ posts("_dirty") THEN Marked(written) ELSE written
      placed ==
        [circuit EXCEPT !.tabs = IF posts("tabs") THEN form.tabs ELSE @,
                        !.over = IF posts("nameplate") THEN None ELSE @,
                        !.tuned = IF posts("nameplate") THEN FALSE
                                  ELSE IF posts("power") THEN form.power ELSE @]
  IN Edit([OnTemplate(config, id, marked) EXCEPT !.circuits[id] = placed])

\* update_active_days, update_entity_profile, apply_preset, update_evse_schedule,
\* apply_evse_preset: the template's schedule.
Reschedule(id) ==
  Edit(OnTemplate(config, id, Marked([TemplateOf(config, id) EXCEPT !.shape = "edited"])))

UnmappedTabs(c) ==
  (1..c.tabs) \ UNION {c.circuits[id].tabs : id \in DOMAIN c.circuits}

DefaultTemplate(type) ==
  [device |-> type, priority |-> IF type = "evse" THEN "OFF_GRID" ELSE "NEVER",
   locked |-> type = "pv", commissioned |-> FALSE, neverBackup |-> FALSE,
   rated |-> DefaultRating(type), top |-> None, recorder |-> None, user |-> FALSE,
   seeds |-> "none", shape |-> "default"]

FreeNames(c, type) ==
  {i \in DOMAIN Names[type].ids : Names[type].ids[i] \notin DOMAIN c.circuits}

FreeName(c, type) ==
  Names[type].ids[CHOOSE i \in FreeNames(c, type) : \A j \in FreeNames(c, type) : i <= j]

\* The template is named after the type's first id, whichever id the entity gets.
WithEntity(c, type, tabs) ==
  LET id == FreeName(c, type)
      name == Names[type].template
      circuit == [template |-> name, tabs |-> tabs, over |-> None, tuned |-> FALSE]
  IN [c EXCEPT
        !.templates = [t \in DOMAIN @ \cup {name} |->
                         IF t = name THEN DefaultTemplate(type) ELSE @[t]],
        !.circuits = [k \in DOMAIN @ \cup {id} |-> IF k = id THEN circuit ELSE @[k]]]

\* A circuit goes on the lowest free space; without one the edit is refused.
AddEntity(type) ==
  LET free == UnmappedTabs(config)
      lowest == {t \in free : \A u \in free : t <= u}
  IN /\ FreeNames(config, type) # {}
     /\ type = "circuit" => free # {}
     /\ Edit(WithEntity(config, type, IF type = "circuit" THEN lowest ELSE {}))

AddEntityFromTabs(tabs) ==
  /\ Cardinality(tabs) \in 1..2
  /\ DoublePoleOK(tabs)
  /\ tabs \subseteq UnmappedTabs(config)
  /\ FreeNames(config, "circuit") # {}
  /\ Edit(WithEntity(config, "circuit", tabs))

\* A pv.feed naming the circuit goes with it, and so does a template no other
\* circuit uses.
DeleteEntity(id) ==
  LET left == DOMAIN config.circuits \ {id}
      t == config.circuits[id].template
      used == \E other \in left : config.circuits[other].template = t
  IN Edit([config EXCEPT
             !.circuits = [k \in left |-> @[k]],
             !.feed = IF @ = id THEN None ELSE @,
             !.templates = [n \in (IF used THEN DOMAIN @ ELSE DOMAIN @ \ {t}) |-> @[n]]])

----------------------------------------------------------------------------
Next ==
  \/ \E f \in Files : LoadFromFile(f) \/ Import(f)
  \/ LoadFromFile(disk)
  \/ SaveToFile
  \/ ImportDefinition
  \/ \E total \in Totals : UpdatePanelConfig(total)
  \/ AddBess \/ RemoveBess \/ UpdateBatteryProfile
  \/ \E capacity \in Capacities : UpdateBess(capacity)
  \/ \E mode \in {"self-consumption", "custom"}, label \in BOOLEAN :
       UpdateBatteryChargeMode(mode, label)
  \/ \E recorded \in SUBSET DOMAIN config.templates :
       \/ RecordRecorderSnapshots([t \in recorded |-> "sensor"])
       \/ UpdateFromScrape(recorded)
  \/ \E id \in DOMAIN config.circuits :
       \/ RestoreRecorder(id)
       \/ ToggleUserModified(id)
       \/ Reschedule(id)
       \/ DeleteEntity(id)
       \/ \E form \in Forms : UpdateEntity(id, form)
  \/ \E type \in DOMAIN Names : AddEntity(type)
  \/ \E tabs \in Spaces : AddEntityFromTabs(tabs)

Spec == Init /\ [][Next]_storeVars
----------------------------------------------------------------------------
(* Properties.                                                             *)

\* "A save cannot be refused for an edit": what save_to_file makes of the state
\* before it validates is loadable too.
SaveIsNeverRefused == config # Blank => Valid(Normalise(config))

\* After any edit a circuit's rating has one source, its template's profile: no copy
\* is left at the template's top level, in an override or in the pv section, for a
\* later edit of the profile to disagree with, however the file had stated it
\* (pv_rating.py's module docstring).
EditsSettleRatings ==
  [][edits' # edits => \A t \in DOMAIN config'.templates : Claims(config', t) = {}]_storeVars

\* No two circuits start on one space; nothing in the code refuses that they do.
Apart(c) ==
  \A a, b \in DOMAIN c.circuits :
    /\ a # b
    /\ c.circuits[a].tabs # {} /\ c.circuits[b].tabs # {}
    => FirstSpace(PublishedCircuit(c, a)) # FirstSpace(PublishedCircuit(c, b))

\* "A clone republishes what it read" (clone.py): whatever the edits made of the
\* config, the panel a clone makes of the tree it publishes loads, and publishes
\* the same battery and the same circuits at the same spaces, with the same three
\* locks, priorities, fed devices and ratings, though no lock has a published value
\* of its own.  A size of nothing, which the editor lets one enter, is the one thing
\* a clone reads as not stated (clone.py:1003 and 1058).
CloneRepublishes ==
  LET tree == Published(config)
      clone == Normalise(Translated(tree))
  IN (config # Blank /\ Apart(config) /\ Publishable(config) /\ Placed(tree) # {})
       => Valid(clone) /\ Facts(Published(clone)) = Facts(Sized(tree))

\* The store implements the editor of one file it promises to be: edits are
\* all-or-nothing and unsaved, and the file changes only by a save of them.
Promise == INSTANCE EditStore WITH
  content <- config, disk <- disk, Loads <- Valid, Settle <- Normalise
KeepsPromise == Promise!Spec
=============================================================================
