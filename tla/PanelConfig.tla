---------------------------- MODULE PanelConfig ----------------------------
(***************************************************************************)
(* A panel's config as every loader reads it: normalised, so that a        *)
(* circuit's rating has one source, then validated.  The engine, the       *)
(* dashboard on load, edit and save, and the history generator run the     *)
(* same two functions (config_defaults.py, pv_rating.py, validation.py).   *)
(*                                                                         *)
(* A config is a record                                                    *)
(*   old        the firmware names a SPAN release before 202639            *)
(*   tabs       panel_config.total_tabs                                    *)
(*   model      the number its panel_config.model ends in, or None         *)
(*   templates  template name -> template                                  *)
(*   circuits   circuit id -> circuit                                      *)
(*   feed       pv.feed, or None                                           *)
(*   section    pv.nameplate_capacity_w, or None                           *)
(*   bess       the bess section: enabled (None where there is no section), *)
(*              capacity (nameplate_capacity_kwh, or None) and the schedule  *)
(*   drive      the circuit evse.feed names, or None                       *)
(*   source     panel_source, or None                                      *)
(* A template's "shape" is everything it says that these functions do not  *)
(* read: its power figures, schedule, inverter and HVAC type.              *)
(***************************************************************************)
EXTENDS Integers, FiniteSets

CONSTANTS
  None,          \* a key that is not there
  Absent,        \* the rating of a template that has no energy_profile at all
  NotWatts,      \* a rating that is not a number
  DefaultWatts,  \* the nameplate of the default PV profile
  Commissionable \* device types with a commissioned template: "pv", though the
                 \* validator asks nothing of the type

ASSUME ConfigValues ==
  /\ None # Absent /\ NotWatts \notin {None, Absent}
  /\ DefaultWatts \notin {None, Absent, NotWatts}
  /\ "pv" \in Commissionable

TemplateKeys ==
  {"device", "priority", "locked", "commissioned", "neverBackup", "rated", "top",
   "recorder", "user", "seeds", "shape"}

\* A template, whose profile alone may be missing.
IsTemplate(tpl) ==
  /\ DOMAIN tpl = TemplateKeys
  /\ tpl.top # Absent
  /\ tpl.locked \in BOOLEAN /\ tpl.commissioned \in BOOLEAN /\ tpl.neverBackup \in BOOLEAN
  /\ tpl.commissioned => tpl.device \in Commissionable

AllRated(templates) == \A t \in DOMAIN templates : templates[t].rated # Absent

\* A config; the recorder's snapshots in its source are templates as loaded.
IsConfig(c) ==
  /\ DOMAIN c = {"old", "tabs", "model", "templates", "circuits", "feed", "section", "bess",
                 "drive", "source"}
  /\ c.section # Absent
  /\ c.model # None \/ c.tabs # None
  /\ \A t \in DOMAIN c.templates : IsTemplate(c.templates[t])
  /\ IsFiniteSet(DOMAIN c.circuits)
  /\ \A id \in DOMAIN c.circuits :
       /\ DOMAIN c.circuits[id] = {"template", "tabs", "over", "tuned"}
       /\ c.circuits[id].over # Absent
       /\ c.circuits[id].tabs \subseteq Nat
  /\ c.source # None =>
       /\ DOMAIN c.source = {"origin", "map", "snapshots"}
       /\ \A t \in DOMAIN c.source.snapshots : IsTemplate(c.source.snapshots[t])
       /\ AllRated(c.source.snapshots)

----------------------------------------------------------------------------
(* Which PV circuit the pv section describes (pv_section.py).              *)

TemplateOf(c, id) == c.templates[c.circuits[id].template]

PvCircuits(c) ==
  {id \in DOMAIN c.circuits :
     /\ c.circuits[id].template \in DOMAIN c.templates
     /\ TemplateOf(c, id).device = "pv"}

Unbindable == "unbindable"

Bound(c) ==
  IF c.feed # None
  THEN IF c.feed \in PvCircuits(c) THEN c.feed ELSE Unbindable
  ELSE IF Cardinality(PvCircuits(c)) = 1 THEN CHOOSE id \in PvCircuits(c) : TRUE
  ELSE IF Cardinality(PvCircuits(c)) > 1 /\ c.old THEN Unbindable
  ELSE None

----------------------------------------------------------------------------
(* The rating plan (pv_rating.py).  A claim is one legacy place that rates *)
(* a template's circuits: its top level, a circuit's overrides, or the pv  *)
(* section.  "stale" says a released dashboard could have left it beside   *)
(* the edit it made to the profile.                                        *)

Users(c, t) == {id \in DOMAIN c.circuits : c.circuits[id].template = t}

SectionCircuit(c) ==
  IF c.section = None \/ Bound(c) = Unbindable THEN None ELSE Bound(c)

SectionConflict(c) ==
  /\ c.section # None
  /\ Bound(c) = None
  /\ Cardinality(PvCircuits(c)) > 1

Claims(c, t) ==
  LET users == Users(c, t)
      top == c.templates[t].top
  IN (IF top = None THEN {}
      ELSE {[at |-> "top", value |-> top, circuit |-> None, stale |-> TRUE]})
     \cup {[at |-> "override", value |-> c.circuits[id].over, circuit |-> id,
            stale |-> Cardinality(users) = 1] :
             id \in {u \in users : c.circuits[u].over # None}}
     \cup {[at |-> "section", value |-> c.section, circuit |-> id, stale |-> FALSE] :
             id \in {u \in users : c.section # None /\ u = SectionCircuit(c)}}

\* What a template's claims come to.  rated is the profile's own rating, which
\* counts as stated unless the loader filled it in (t \in unstated).
RatingPlan(c, t, unstated) ==
  LET claims == Claims(c, t)
      stated == IF t \in unstated THEN None ELSE c.templates[t].rated
      values == {k.value : k \in claims}
      unrated == Users(c, t) \ {k.circuit : k \in claims}
      keep(refused) == [rating |-> None, removed |-> {}, refused |-> refused]
  IN IF claims = {} THEN keep(FALSE)
     ELSE IF NotWatts \in values THEN keep(TRUE)
     ELSE IF stated # None
     THEN [rating  |-> None,
           removed |-> {k \in claims : k.value = stated \/ k.stale},
           refused |-> \E k \in claims : k.value # stated /\ ~k.stale]
     ELSE IF Cardinality(values) > 1 THEN keep(TRUE)
     ELSE IF (\A k \in claims : k.circuit # None) /\ unrated # {} THEN keep(TRUE)
     ELSE [rating |-> CHOOSE v \in values : TRUE, removed |-> claims, refused |-> FALSE]

RatingConflicts(c) ==
  \/ SectionConflict(c)
  \/ \E t \in DOMAIN c.templates :
       /\ c.templates[t].rated # Absent
       /\ RatingPlan(c, t, {}).refused

\* Mutant: the profile takes the rating, a circuit's override of it stays.
FoldKeepsOverrides(c, unstated) ==
  [c EXCEPT !.templates = [t \in DOMAIN c.templates |->
     LET plan == RatingPlan(c, t, unstated)
     IN [c.templates[t] EXCEPT !.rated = IF plan.rating = None THEN @ ELSE plan.rating,
                               !.top = None]]]

FoldLegacyRatings(c, unstated) ==
  LET plan == [t \in DOMAIN c.templates |-> RatingPlan(c, t, unstated)]
      removed(t, at) == {k.circuit : k \in {r \in plan[t].removed : r.at = at}}
      known(id) == c.circuits[id].template \in DOMAIN c.templates
  IN [c EXCEPT
        !.templates = [t \in DOMAIN c.templates |->
           [c.templates[t] EXCEPT
              !.rated = IF plan[t].rating = None THEN @ ELSE plan[t].rating,
              !.top = IF removed(t, "top") = {} THEN @ ELSE None]],
        !.circuits = [id \in DOMAIN c.circuits |->
           [c.circuits[id] EXCEPT
              !.over = IF known(id) /\ id \in removed(c.circuits[id].template, "override")
                       THEN None ELSE @]],
        !.section = IF \E t \in DOMAIN c.templates : removed(t, "section") # {}
                    THEN None ELSE @]

----------------------------------------------------------------------------
(* The one normaliser (config_defaults.normalize_config).                  *)

DefaultRating(device) == IF device = "pv" THEN DefaultWatts ELSE None

Normalise(c) ==
  LET defaulted == {t \in DOMAIN c.templates : c.templates[t].rated = Absent}
      filled == [c EXCEPT !.templates = [t \in DOMAIN c.templates |->
                   IF t \in defaulted
                   THEN [c.templates[t] EXCEPT !.rated = DefaultRating(c.templates[t].device)]
                   ELSE c.templates[t]]]
  IN FoldLegacyRatings(filled, defaulted)

----------------------------------------------------------------------------
(* Validation (validation.py).                                             *)

CommissionedOK(c, t) ==
  LET tpl == c.templates[t]
  IN tpl.commissioned => /\ tpl.priority = "NEVER"
                         /\ tpl.locked
                         /\ ~tpl.neverBackup
                         /\ ~c.old

DoublePoleOK(tabs) ==
  Cardinality(tabs) = 2 => \E a \in tabs : a + 2 \in tabs

CircuitOK(c, id) ==
  /\ c.circuits[id].template \in DOMAIN c.templates
  /\ c.circuits[id].tabs = {} => TemplateOf(c, id).device \in {"pv", "evse"}
  /\ DoublePoleOK(c.circuits[id].tabs)

SourceOK(c) == c.source # None => c.source.origin # None

\* validate_yaml_config: what the panel would load.
Valid(c) ==
  /\ DOMAIN c.templates # {}
  /\ \A t \in DOMAIN c.templates : CommissionedOK(c, t)
  /\ DOMAIN c.circuits # {}
  /\ \A id \in DOMAIN c.circuits : CircuitOK(c, id)
  /\ Bound(c) # Unbindable
  /\ ~RatingConflicts(c)
  /\ SourceOK(c)

=============================================================================
