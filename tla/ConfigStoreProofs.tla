------------------------- MODULE ConfigStoreProofs -------------------------
(***************************************************************************)
(* The config store, for every set of files, forms and bounds.  First, it  *)
(* implements the editor of one file (EditStore) whatever the loader's     *)
(* normaliser and validator compute: that argument uses only where each    *)
(* action calls them.  Then, what the two compute: what the loader accepts *)
(* it accepts again, so that a save is never refused, and an edit leaves   *)
(* each rating one source.  Last, what a clone makes of a published tree:  *)
(* it publishes the same.                                                  *)
(***************************************************************************)
EXTENDS ConfigStore, FiniteSetTheorems, WellFoundedInduction, TLAPS

(* An edit that is kept is a change of the promised editor: loadable,      *)
(* unsaved, and not in the file.                                           *)
LEMMA EditIsChange ==
  ASSUME NEW changed, Edit(changed)
  PROVE  Promise!Change
BY DEF Edit, Promise!Change

(* A mutator that changes nothing at most settles the content.             *)
LEMMA NoEditIsTouch ==
  ASSUME NoEdit
  PROVE  Promise!Touch
BY DEF NoEdit, Promise!Touch

(* What each action of the store is to the promised editor.                *)
LEMMA StepIsPromised ==
  ASSUME Next
  PROVE  Promise!Next
<1>1. CASE \E f \in Files : LoadFromFile(f) \/ Import(f)
  <2>1. PICK f \in Files : LoadFromFile(f) \/ Import(f)
    BY <1>1
  <2>2. CASE LoadFromFile(f)
    BY <2>2 DEF LoadFromFile, Promise!Open, Promise!Next
  <2>3. CASE Import(f)
    BY <2>3 DEF Import, Promise!Change, Promise!Next
  <2> QED BY <2>1, <2>2, <2>3
<1>2. CASE LoadFromFile(disk)
  BY <1>2 DEF LoadFromFile, Promise!Open, Promise!Next
<1>3. CASE SaveToFile
  <2>1. CASE Valid(config')
    BY <1>3, <2>1 DEF SaveToFile, Promise!Save, Promise!Next
  <2>2. CASE ~Valid(config')
    BY <1>3, <2>2 DEF SaveToFile, Promise!Touch, Promise!Next
  <2> QED BY <2>1, <2>2
<1>4. CASE \/ ImportDefinition
           \/ \E total \in Totals : UpdatePanelConfig(total)
           \/ AddBess \/ RemoveBess \/ UpdateBatteryProfile
           \/ \E capacity \in Capacities : UpdateBess(capacity)
           \/ \E mode \in {"self-consumption", "custom"}, label \in BOOLEAN :
                UpdateBatteryChargeMode(mode, label)
  <2>1. PICK changed : Edit(changed)
    BY <1>4 DEF ImportDefinition, UpdatePanelConfig, AddBess, RemoveBess, UpdateBess,
                UpdateBatteryProfile, UpdateBatteryChargeMode
  <2> QED BY <2>1, EditIsChange DEF Promise!Next
<1>5. CASE \E recorded \in SUBSET DOMAIN config.templates :
             \/ RecordRecorderSnapshots([t \in recorded |-> "sensor"])
             \/ UpdateFromScrape(recorded)
  <2>1. \/ \E changed : Edit(changed)
        \/ NoEdit
    BY <1>5 DEF RecordRecorderSnapshots, UpdateFromScrape
  <2> QED BY <2>1, EditIsChange, NoEditIsTouch DEF Promise!Next
<1>6. CASE \E id \in DOMAIN config.circuits :
             \/ RestoreRecorder(id)
             \/ ToggleUserModified(id)
             \/ Reschedule(id)
             \/ DeleteEntity(id)
             \/ \E form \in Forms : UpdateEntity(id, form)
  <2>1. PICK id \in DOMAIN config.circuits :
             \/ RestoreRecorder(id)
             \/ ToggleUserModified(id)
             \/ Reschedule(id)
             \/ DeleteEntity(id)
             \/ \E form \in Forms : UpdateEntity(id, form)
    BY <1>6
  <2>2. \/ \E changed : Edit(changed)
        \/ NoEdit
    <3>1. CASE RestoreRecorder(id) BY <3>1 DEF RestoreRecorder
    <3>2. CASE ToggleUserModified(id) BY <3>2 DEF ToggleUserModified
    <3>3. CASE Reschedule(id) BY <3>3 DEF Reschedule
    <3>4. CASE DeleteEntity(id) BY <3>4 DEF DeleteEntity
    <3>5. CASE \E form \in Forms : UpdateEntity(id, form)
      BY <3>5 DEF UpdateEntity
    <3> QED BY <2>1, <3>1, <3>2, <3>3, <3>4, <3>5
  <2> QED BY <2>2, EditIsChange, NoEditIsTouch DEF Promise!Next
<1>7. CASE \/ \E type \in DOMAIN Names : AddEntity(type)
           \/ \E tabs \in Spaces : AddEntityFromTabs(tabs)
  <2>1. PICK changed : Edit(changed)
    BY <1>7 DEF AddEntity, AddEntityFromTabs
  <2> QED BY <2>1, EditIsChange DEF Promise!Next
<1> QED BY <1>1, <1>2, <1>3, <1>4, <1>5, <1>6, <1>7 DEF Next

(* A template's locks, which publish no value of their own, are read back  *)
(* from the settable and controllable marks of any circuit on it, whatever *)
(* its priority: the two facts CloneRepublishes rests on.  A commissioned  *)
(* circuit must feed its inverter for that, and a never-backup one be one  *)
(* the emitter publishes.                                                  *)
THEOREM LocksSurviveClone ==
  ASSUME NEW c, NEW id \in DOMAIN c.circuits,
         c.circuits[id].template \in DOMAIN c.templates,
         TemplateOf(c, id).locked \in BOOLEAN,
         TemplateOf(c, id).commissioned \in BOOLEAN,
         TemplateOf(c, id).neverBackup \in BOOLEAN,
         Valid(c), Publishable(c),
         TemplateOf(c, id).commissioned => id \in InverterFeeds(c)
  PROVE  LET read == TranslatedTemplate(PublishedCircuit(c, id))
         IN /\ read.locked = TemplateOf(c, id).locked
            /\ read.commissioned = TemplateOf(c, id).commissioned
            /\ read.neverBackup = TemplateOf(c, id).neverBackup
<1> DEFINE tpl == TemplateOf(c, id)
           published == PublishedCircuit(c, id)
<1>1. tpl.commissioned => /\ tpl.priority = "NEVER"
                          /\ tpl.locked
                          /\ ~tpl.neverBackup
  BY DEF Valid, CommissionedOK, TemplateOf
<1>2. tpl.neverBackup => tpl.priority = "OFF_GRID"
  BY DEF Publishable
<1>3. /\ published.priority = tpl.priority
      /\ published.settable = (~tpl.neverBackup /\ ~tpl.commissioned)
      /\ published.controllable = ~tpl.locked
  BY DEF PublishedCircuit
<1>4. tpl.commissioned => published.feeds = "pv"
  BY DEF PublishedCircuit
<1> HIDE DEF tpl, published
<1>5. tpl.locked \in BOOLEAN /\ tpl.commissioned \in BOOLEAN /\ tpl.neverBackup \in BOOLEAN
  BY DEF tpl
<1>6. Commissioned(published) = tpl.commissioned
  BY <1>1, <1>2, <1>3, <1>4, <1>5 DEF Commissioned
<1>7. NeverBackup(published) = tpl.neverBackup
  BY <1>1, <1>2, <1>3, <1>5, <1>6 DEF NeverBackup
<1>8. (~published.controllable) = tpl.locked
  BY <1>3, <1>5
<1> QED BY <1>6, <1>7, <1>8 DEF TranslatedTemplate, tpl, published

(* The store keeps the editor's promise in every behaviour: an edit is all *)
(* of its change or none and leaves the config unsaved, only a load from   *)
(* the file shows it clean, and only a save writes it.                     *)
THEOREM StoreKeepsPromise == Spec => KeepsPromise
<1>1. Init => dirty = FALSE
  BY DEF Init
<1>2. [Next]_storeVars => [Promise!Next]_Promise!vars
  BY StepIsPromised DEF storeVars, Promise!vars
<1> QED BY <1>1, <1>2, PTL DEF Spec, KeepsPromise, Promise!Spec
----------------------------------------------------------------------------
(* What is edited and saved.  The state is a config whose every template   *)
(* has a profile, and one the panel would load unless no file was opened;  *)
(* what the file holds is at least a config.                               *)
Editable(c) == IsConfig(c) /\ AllRated(c.templates)

StoreInv ==
  /\ Editable(config)
  /\ IsConfig(disk)
  /\ config # Blank => Valid(config)

(* The circuits named by the claims of one kind that a plan removes.       *)
Removed(c, t, u, at) == {k.circuit : k \in {r \in RatingPlan(c, t, u).removed : r.at = at}}

(* What the fold leaves of a template and of a circuit.                    *)
FoldedTemplate(c, u, t) ==
  [c.templates[t] EXCEPT
     !.rated = IF RatingPlan(c, t, u).rating = None THEN @ ELSE RatingPlan(c, t, u).rating,
     !.top = IF Removed(c, t, u, "top") = {} THEN @ ELSE None]

FoldedCircuit(c, u, id) ==
  [c.circuits[id] EXCEPT
     !.over = IF /\ c.circuits[id].template \in DOMAIN c.templates
                 /\ id \in Removed(c, c.circuits[id].template, u, "override")
              THEN None ELSE @]

(* The fold, key by key.                                                   *)
LEMMA FoldKeys ==
  ASSUME NEW c, IsConfig(c), NEW u
  PROVE  LET d == FoldLegacyRatings(c, u)
         IN /\ DOMAIN d = DOMAIN c
            /\ d.old = c.old /\ d.tabs = c.tabs /\ d.model = c.model /\ d.feed = c.feed
            /\ d.bess = c.bess /\ d.drive = c.drive /\ d.source = c.source
            /\ d.templates = [t \in DOMAIN c.templates |-> FoldedTemplate(c, u, t)]
            /\ d.circuits = [id \in DOMAIN c.circuits |-> FoldedCircuit(c, u, id)]
            /\ d.section = IF \E t \in DOMAIN c.templates : Removed(c, t, u, "section") # {}
                           THEN None ELSE c.section
<1> DEFINE plan == [t \in DOMAIN c.templates |-> RatingPlan(c, t, u)]
           removed(t, at) == {k.circuit : k \in {r \in plan[t].removed : r.at = at}}
           known(id) == c.circuits[id].template \in DOMAIN c.templates
           T == [t \in DOMAIN c.templates |->
                   [c.templates[t] EXCEPT
                      !.rated = IF plan[t].rating = None THEN @ ELSE plan[t].rating,
                      !.top = IF removed(t, "top") = {} THEN @ ELSE None]]
           C == [id \in DOMAIN c.circuits |->
                   [c.circuits[id] EXCEPT
                      !.over = IF known(id) /\ id \in removed(c.circuits[id].template, "override")
                               THEN None ELSE @]]
           S == IF \E t \in DOMAIN c.templates : removed(t, "section") # {}
                THEN None ELSE c.section
<1>1. FoldLegacyRatings(c, u) = [c EXCEPT !.templates = T, !.circuits = C, !.section = S]
  BY DEF FoldLegacyRatings
<1>2. \A t \in DOMAIN c.templates : \A at : removed(t, at) = Removed(c, t, u, at)
  BY DEF Removed
<1>3. T = [t \in DOMAIN c.templates |-> FoldedTemplate(c, u, t)]
  <2>1. ASSUME NEW t \in DOMAIN c.templates
        PROVE  plan[t] = RatingPlan(c, t, u) /\ removed(t, "top") = Removed(c, t, u, "top")
    BY <1>2
  <2> HIDE DEF plan, removed
  <2> QED BY <2>1 DEF FoldedTemplate
<1>4. C = [id \in DOMAIN c.circuits |-> FoldedCircuit(c, u, id)]
  <2>1. ASSUME NEW id \in DOMAIN c.circuits
        PROVE  (known(id) /\ id \in removed(c.circuits[id].template, "override"))
               = (known(id) /\ id \in Removed(c, c.circuits[id].template, u, "override"))
    BY <1>2
  <2> HIDE DEF plan, removed
  <2> QED BY <2>1 DEF FoldedCircuit
<1>5. S = IF \E t \in DOMAIN c.templates : Removed(c, t, u, "section") # {}
          THEN None ELSE c.section
  BY <1>2
<1>6. DOMAIN c = {"old", "tabs", "model", "templates", "circuits", "feed", "section", "bess",
                  "drive", "source"}
  BY DEF IsConfig
<1> HIDE DEF T, C, S
<1> QED BY <1>1, <1>3, <1>4, <1>5, <1>6

(* A template keeps all but its rating, a circuit all but its own.         *)
LEMMA FoldedKeeps ==
  ASSUME NEW c, IsConfig(c), NEW u
  PROVE  /\ \A t \in DOMAIN c.templates :
              LET tpl == c.templates[t]
                  d == FoldedTemplate(c, u, t)
              IN /\ DOMAIN d = TemplateKeys
                 /\ d.device = tpl.device /\ d.priority = tpl.priority
                 /\ d.locked = tpl.locked /\ d.commissioned = tpl.commissioned
                 /\ d.neverBackup = tpl.neverBackup
                 /\ d.rated = IF RatingPlan(c, t, u).rating = None THEN tpl.rated
                              ELSE RatingPlan(c, t, u).rating
                 /\ d.top = IF Removed(c, t, u, "top") = {} THEN tpl.top ELSE None
         /\ \A id \in DOMAIN c.circuits :
              LET d == FoldedCircuit(c, u, id)
              IN /\ DOMAIN d = {"template", "tabs", "over", "tuned"}
                 /\ d.template = c.circuits[id].template /\ d.tabs = c.circuits[id].tabs
                 /\ d.over = IF /\ c.circuits[id].template \in DOMAIN c.templates
                                /\ id \in Removed(c, c.circuits[id].template, u, "override")
                             THEN None ELSE c.circuits[id].over
<1>1. ASSUME NEW t \in DOMAIN c.templates
      PROVE  DOMAIN c.templates[t] = TemplateKeys
  BY DEF IsConfig, IsTemplate
<1>2. ASSUME NEW id \in DOMAIN c.circuits
      PROVE  DOMAIN c.circuits[id] = {"template", "tabs", "over", "tuned"}
  BY DEF IsConfig
<1> QED BY <1>1, <1>2 DEF FoldedTemplate, FoldedCircuit, TemplateKeys

(* A claim is what it says: a top level, an override or the section.       *)
LEMMA ClaimsAre ==
  ASSUME NEW c, NEW t, NEW k \in Claims(c, t)
  PROVE  \/ /\ k = [at |-> "top", value |-> c.templates[t].top, circuit |-> None, stale |-> TRUE]
            /\ c.templates[t].top # None
         \/ \E id \in Users(c, t) :
              /\ k = [at |-> "override", value |-> c.circuits[id].over, circuit |-> id,
                      stale |-> Cardinality(Users(c, t)) = 1]
              /\ c.circuits[id].over # None
         \/ \E id \in Users(c, t) :
              /\ k = [at |-> "section", value |-> c.section, circuit |-> id, stale |-> FALSE]
              /\ c.section # None /\ id = SectionCircuit(c)
BY DEF Claims

LEMMA ClaimsHave ==
  ASSUME NEW c, NEW t
  PROVE  /\ c.templates[t].top # None =>
              [at |-> "top", value |-> c.templates[t].top, circuit |-> None, stale |-> TRUE]
                 \in Claims(c, t)
         /\ \A id \in Users(c, t) : c.circuits[id].over # None =>
              [at |-> "override", value |-> c.circuits[id].over, circuit |-> id,
               stale |-> Cardinality(Users(c, t)) = 1] \in Claims(c, t)
         /\ \A id \in Users(c, t) : c.section # None /\ id = SectionCircuit(c) =>
              [at |-> "section", value |-> c.section, circuit |-> id, stale |-> FALSE]
                 \in Claims(c, t)
BY DEF Claims

(* A plan that refuses nothing removes every claim.                        *)
LEMMA AcceptedPlan ==
  ASSUME NEW c, NEW t, ~RatingPlan(c, t, {}).refused
  PROVE  RatingPlan(c, t, {}).removed = Claims(c, t)
BY DEF RatingPlan

(* A plan that refuses one rates nothing, and removes only what agrees     *)
(* with the profile or may be stale.                                       *)
LEMMA RefusedPlan ==
  ASSUME NEW c, NEW t, RatingPlan(c, t, {}).refused
  PROVE  LET plan == RatingPlan(c, t, {})
             rated == c.templates[t].rated
         IN /\ plan.rating = None
            /\ \/ plan.removed = {}
               \/ /\ rated # None
                  /\ \A k \in plan.removed : k.value = rated \/ k.stale
                  /\ \E k \in Claims(c, t) : k.value # rated /\ ~k.stale
BY DEF RatingPlan

(* Which circuit the section describes hangs on the circuits and their     *)
(* devices alone.                                                          *)
LEMMA SameBound ==
  ASSUME NEW c, NEW d, d.feed = c.feed, d.old = c.old,
         DOMAIN d.templates = DOMAIN c.templates, DOMAIN d.circuits = DOMAIN c.circuits,
         \A id \in DOMAIN c.circuits : d.circuits[id].template = c.circuits[id].template,
         \A t \in DOMAIN c.templates : d.templates[t].device = c.templates[t].device
  PROVE  PvCircuits(d) = PvCircuits(c) /\ Bound(d) = Bound(c)
<1>1. PvCircuits(d) = PvCircuits(c)
  BY DEF PvCircuits, TemplateOf
<1> QED BY <1>1 DEF Bound

(* The fold leaves that circuit, and who uses which template.              *)
LEMMA FoldBound ==
  ASSUME NEW c, IsConfig(c), NEW u
  PROVE  LET d == FoldLegacyRatings(c, u)
         IN /\ PvCircuits(d) = PvCircuits(c) /\ Bound(d) = Bound(c)
            /\ \A t : Users(d, t) = Users(c, t)
<1> DEFINE d == FoldLegacyRatings(c, u)
<1>1. /\ d.feed = c.feed /\ d.old = c.old
      /\ d.templates = [t \in DOMAIN c.templates |-> FoldedTemplate(c, u, t)]
      /\ d.circuits = [id \in DOMAIN c.circuits |-> FoldedCircuit(c, u, id)]
  BY FoldKeys
<1>2. /\ \A t \in DOMAIN c.templates : d.templates[t].device = c.templates[t].device
      /\ \A id \in DOMAIN c.circuits : d.circuits[id].template = c.circuits[id].template
  BY <1>1, FoldedKeeps
<1>3. DOMAIN d.templates = DOMAIN c.templates /\ DOMAIN d.circuits = DOMAIN c.circuits
  BY <1>1
<1> HIDE DEF d
<1>4. PvCircuits(d) = PvCircuits(c) /\ Bound(d) = Bound(c)
  BY <1>1, <1>2, <1>3, SameBound
<1>5. \A t : Users(d, t) = Users(c, t)
  BY <1>2, <1>3 DEF Users
<1> QED BY <1>4, <1>5 DEF d

(* What the fold makes of the places that can rate a template's circuits.  *)
LEMMA FoldAt ==
  ASSUME NEW c, IsConfig(c), NEW u, NEW t \in DOMAIN c.templates
  PROVE  LET d == FoldLegacyRatings(c, u)
         IN /\ d.templates[t].top = IF Removed(c, t, u, "top") = {}
                                    THEN c.templates[t].top ELSE None
            /\ d.templates[t].rated = IF RatingPlan(c, t, u).rating = None
                                      THEN c.templates[t].rated ELSE RatingPlan(c, t, u).rating
            /\ \A id \in Users(c, t) :
                  d.circuits[id].over = IF id \in Removed(c, t, u, "override")
                                        THEN None ELSE c.circuits[id].over
            /\ d.section = IF \E r \in DOMAIN c.templates : Removed(c, r, u, "section") # {}
                           THEN None ELSE c.section
<1> DEFINE d == FoldLegacyRatings(c, u)
<1>1. /\ d.templates[t] = FoldedTemplate(c, u, t)
      /\ \A id \in DOMAIN c.circuits : d.circuits[id] = FoldedCircuit(c, u, id)
      /\ d.section = IF \E r \in DOMAIN c.templates : Removed(c, r, u, "section") # {}
                     THEN None ELSE c.section
  <2>1. /\ d.templates = [r \in DOMAIN c.templates |-> FoldedTemplate(c, u, r)]
        /\ d.circuits = [id \in DOMAIN c.circuits |-> FoldedCircuit(c, u, id)]
        /\ d.section = IF \E r \in DOMAIN c.templates : Removed(c, r, u, "section") # {}
                       THEN None ELSE c.section
    BY FoldKeys
  <2> HIDE DEF d
  <2> QED BY <2>1
<1> HIDE DEF d
<1>2. \A id \in Users(c, t) : id \in DOMAIN c.circuits /\ c.circuits[id].template = t
  BY DEF Users
<1>3. \A id \in Users(c, t) :
         d.circuits[id].over = IF id \in Removed(c, t, u, "override")
                               THEN None ELSE c.circuits[id].over
  BY <1>1, <1>2, FoldedKeeps
<1>4. /\ d.templates[t].top = IF Removed(c, t, u, "top") = {}
                              THEN c.templates[t].top ELSE None
      /\ d.templates[t].rated = IF RatingPlan(c, t, u).rating = None
                                THEN c.templates[t].rated ELSE RatingPlan(c, t, u).rating
  BY <1>1, FoldedKeeps
<1> QED BY <1>1, <1>3, <1>4 DEF d

(* A template whose claims are all accepted has none left.                 *)
LEMMA AcceptedSettles ==
  ASSUME NEW c, IsConfig(c), NEW t \in DOMAIN c.templates, ~RatingPlan(c, t, {}).refused
  PROVE  Claims(FoldLegacyRatings(c, {}), t) = {}
<1> DEFINE d == FoldLegacyRatings(c, {})
           gone(at) == Removed(c, t, {}, at)
<1>1. /\ c.templates[t].top # None => gone("top") # {}
      /\ \A id \in Users(c, t) : c.circuits[id].over # None => id \in gone("override")
      /\ \A id \in Users(c, t) :
            c.section # None /\ id = SectionCircuit(c) => id \in gone("section")
  <2>1. ASSUME NEW k \in Claims(c, t) PROVE k.circuit \in gone(k.at)
    BY AcceptedPlan DEF Removed
  <2> HIDE DEF gone
  <2>2. c.templates[t].top # None => gone("top") # {}
    <3> DEFINE k == [at |-> "top", value |-> c.templates[t].top, circuit |-> None, stale |-> TRUE]
    <3>1. k.at = "top" /\ (c.templates[t].top # None => k \in Claims(c, t))
      BY ClaimsHave
    <3> HIDE DEF k
    <3> QED BY <2>1, <3>1
  <2>3. ASSUME NEW id \in Users(c, t), c.circuits[id].over # None PROVE id \in gone("override")
    <3> DEFINE k == [at |-> "override", value |-> c.circuits[id].over, circuit |-> id,
                     stale |-> Cardinality(Users(c, t)) = 1]
    <3>1. k.at = "override" /\ k.circuit = id /\ k \in Claims(c, t)
      BY <2>3, ClaimsHave
    <3> HIDE DEF k
    <3> QED BY <2>1, <3>1
  <2>4. ASSUME NEW id \in Users(c, t), c.section # None, id = SectionCircuit(c)
        PROVE  id \in gone("section")
    <3> DEFINE k == [at |-> "section", value |-> c.section, circuit |-> id, stale |-> FALSE]
    <3>1. k.at = "section" /\ k.circuit = id /\ k \in Claims(c, t)
      BY <2>4, ClaimsHave
    <3> HIDE DEF k
    <3> QED BY <2>1, <3>1
  <2> QED BY <2>2, <2>3, <2>4
<1>2. /\ d.templates[t].top = IF gone("top") = {} THEN c.templates[t].top ELSE None
      /\ \A id \in Users(c, t) :
            d.circuits[id].over = IF id \in gone("override") THEN None ELSE c.circuits[id].over
      /\ d.section = IF \E r \in DOMAIN c.templates : Removed(c, r, {}, "section") # {}
                     THEN None ELSE c.section
  BY FoldAt
<1>3. Bound(d) = Bound(c) /\ Users(d, t) = Users(c, t)
  BY FoldBound
<1> HIDE DEF d, gone
<1>4. d.templates[t].top = None
  BY <1>1, <1>2
<1>5. ASSUME NEW id \in Users(c, t) PROVE d.circuits[id].over = None
  BY <1>1, <1>2
<1>6. ASSUME NEW id \in Users(d, t) PROVE ~(d.section # None /\ id = SectionCircuit(d))
  <2> SUFFICES ASSUME d.section # None, id = SectionCircuit(d) PROVE FALSE
    OBVIOUS
  <2>1. c.section # None /\ \A r \in DOMAIN c.templates : Removed(c, r, {}, "section") = {}
    BY <1>2
  <2>2. id = SectionCircuit(c) /\ id \in Users(c, t)
    BY <1>3, <2>1 DEF SectionCircuit
  <2>3. id \in gone("section")
    BY <2>1, <2>2, <1>1
  <2> QED BY <2>1, <2>3 DEF gone
<1>7. \A k : k \notin Claims(d, t)
  BY <1>3, <1>4, <1>5, <1>6, ClaimsAre
<1> QED BY <1>7 DEF d

(* What one template's plan refuses, no other template's plan takes away:  *)
(* a section's claim is on the one circuit it describes.                   *)
LEMMA SectionClaimStays ==
  ASSUME NEW c, IsConfig(c), NEW t \in DOMAIN c.templates, NEW id \in Users(c, t),
         c.section # None, id = SectionCircuit(c), Removed(c, t, {}, "section") = {}
  PROVE  FoldLegacyRatings(c, {}).section = c.section
<1>1. ASSUME NEW r \in DOMAIN c.templates, Removed(c, r, {}, "section") # {}
      PROVE  FALSE
  <2>1. PICK k \in RatingPlan(c, r, {}).removed : k.at = "section"
    BY <1>1 DEF Removed
  <2>2. RatingPlan(c, r, {}).removed \subseteq Claims(c, r)
    BY DEF RatingPlan
  <2>3. SectionCircuit(c) \in Users(c, r)
    BY <2>1, <2>2, ClaimsAre
  <2>4. r = t
    BY <2>3 DEF Users
  <2> QED BY <1>1, <2>4
<1> QED BY <1>1, FoldAt, ZenonT(40)

(* Claims are what the places that make them say.                          *)
LEMMA SameClaims ==
  ASSUME NEW c, NEW d, NEW t, Users(d, t) = Users(c, t), d.templates[t].top = c.templates[t].top,
         \A id \in Users(c, t) : d.circuits[id].over = c.circuits[id].over,
         \A id \in Users(c, t) :
           (d.section # None /\ id = SectionCircuit(d)) = (c.section # None /\ id = SectionCircuit(c)),
         \A id \in Users(c, t) : c.section # None /\ id = SectionCircuit(c) => d.section = c.section
  PROVE  Claims(d, t) = Claims(c, t)
<1> DEFINE top(x) == IF x.templates[t].top = None THEN {}
                     ELSE {[at |-> "top", value |-> x.templates[t].top, circuit |-> None,
                            stale |-> TRUE]}
           overs(x) == {[at |-> "override", value |-> x.circuits[id].over, circuit |-> id,
                         stale |-> Cardinality(Users(x, t)) = 1] :
                          id \in {u \in Users(x, t) : x.circuits[u].over # None}}
           sections(x) == {[at |-> "section", value |-> x.section, circuit |-> id, stale |-> FALSE] :
                             id \in {u \in Users(x, t) : x.section # None /\ u = SectionCircuit(x)}}
<1>1. top(d) = top(c)
  OBVIOUS
<1>2. overs(d) = overs(c)
  OBVIOUS
<1>3. sections(d) = sections(c)
  <2>1. {u \in Users(d, t) : d.section # None /\ u = SectionCircuit(d)}
        = {u \in Users(c, t) : c.section # None /\ u = SectionCircuit(c)}
    OBVIOUS
  <2> QED BY <2>1
<1>4. Claims(d, t) = top(d) \cup overs(d) \cup sections(d)
  BY DEF Claims
<1>5. Claims(c, t) = top(c) \cup overs(c) \cup sections(c)
  BY DEF Claims
<1> HIDE DEF top, overs, sections
<1> QED BY <1>1, <1>2, <1>3, <1>4, <1>5

(* A template with a refused claim is refused again: the claim is still    *)
(* there, and so is what it disagrees with.                                *)
LEMMA RefusedStays ==
  ASSUME NEW c, IsConfig(c), NEW t \in DOMAIN c.templates, RatingPlan(c, t, {}).refused
  PROVE  /\ RatingPlan(FoldLegacyRatings(c, {}), t, {}).refused
         /\ FoldLegacyRatings(c, {}).templates[t].rated = c.templates[t].rated
<1> DEFINE d == FoldLegacyRatings(c, {})
           gone(at) == Removed(c, t, {}, at)
           rated == c.templates[t].rated
<1>1. /\ d.templates[t].top = IF gone("top") = {} THEN c.templates[t].top ELSE None
      /\ d.templates[t].rated = rated
      /\ \A id \in Users(c, t) :
            d.circuits[id].over = IF id \in gone("override") THEN None ELSE c.circuits[id].over
      /\ d.section \in {None, c.section}
  <2>1. RatingPlan(c, t, {}).rating = None
    BY RefusedPlan
  <2> QED BY <2>1, FoldAt
<1>2. Bound(d) = Bound(c) /\ Users(d, t) = Users(c, t)
  BY FoldBound
<1>3. ASSUME NEW id \in Users(c, t), c.section # None, id = SectionCircuit(c),
             gone("section") = {}
      PROVE  d.section = c.section
  BY <1>3, SectionClaimStays
<1> HIDE DEF d
<1>4. CASE RatingPlan(c, t, {}).removed = {}
  <2>1. \A at : gone(at) = {}
    BY <1>4 DEF Removed
  <2>2. \A id \in Users(c, t) :
          (d.section # None /\ id = SectionCircuit(d)) = (c.section # None /\ id = SectionCircuit(c))
    BY <1>1, <1>2, <1>3, <2>1 DEF SectionCircuit
  <2>3. ASSUME NEW id \in Users(c, t) PROVE d.circuits[id].over = c.circuits[id].over
    BY <1>1, <2>1
  <2>4. d.templates[t].top = c.templates[t].top
    BY <1>1, <2>1
  <2>5. \A id \in Users(c, t) : c.section # None /\ id = SectionCircuit(c) => d.section = c.section
    BY <1>3, <2>1
  <2>6. Claims(d, t) = Claims(c, t)
    BY <1>2, <2>2, <2>3, <2>4, <2>5, SameClaims
  <2>7. RatingPlan(d, t, {}) = RatingPlan(c, t, {})
    BY <2>6, <1>1, <1>2 DEF RatingPlan
  <2> QED BY <2>7, <1>1 DEF d
<1>5. CASE RatingPlan(c, t, {}).removed # {}
  <2>1. /\ rated # None
        /\ \A k \in RatingPlan(c, t, {}).removed : k.value = rated \/ k.stale
    BY <1>5, RefusedPlan
  <2>2. PICK k \in Claims(c, t) : k.value # rated /\ ~k.stale
    BY <1>5, RefusedPlan
  <2>3. RatingPlan(c, t, {}).removed \subseteq Claims(c, t)
    BY DEF RatingPlan
  <2>4. k \notin RatingPlan(c, t, {}).removed
    BY <2>1, <2>2
  <2>5. k \in Claims(d, t)
    <3>1. CASE \E id \in Users(c, t) :
                 /\ k = [at |-> "override", value |-> c.circuits[id].over, circuit |-> id,
                         stale |-> Cardinality(Users(c, t)) = 1]
                 /\ c.circuits[id].over # None
      <4>1. PICK id \in Users(c, t) :
                 /\ k = [at |-> "override", value |-> c.circuits[id].over, circuit |-> id,
                         stale |-> Cardinality(Users(c, t)) = 1]
                 /\ c.circuits[id].over # None
        BY <3>1
      <4>2. ASSUME NEW r \in RatingPlan(c, t, {}).removed, r.at = "override", r.circuit = id
            PROVE  FALSE
        <5>1. r = k
          BY <2>3, <4>1, <4>2, ClaimsAre
        <5> QED BY <5>1, <2>4
      <4>3. id \notin gone("override")
        BY <4>2 DEF Removed
      <4>4. d.circuits[id].over = c.circuits[id].over
        BY <1>1, <4>3
      <4> QED BY <1>2, <4>1, <4>4, ClaimsHave
    <3>2. CASE \E id \in Users(c, t) :
                 /\ k = [at |-> "section", value |-> c.section, circuit |-> id, stale |-> FALSE]
                 /\ c.section # None /\ id = SectionCircuit(c)
      <4>1. PICK id \in Users(c, t) :
                 /\ k = [at |-> "section", value |-> c.section, circuit |-> id, stale |-> FALSE]
                 /\ c.section # None /\ id = SectionCircuit(c)
        BY <3>2
      <4>2. ASSUME NEW r \in RatingPlan(c, t, {}).removed, r.at = "section"
            PROVE  FALSE
        <5>1. r = k
          BY <2>3, <4>1, <4>2, ClaimsAre
        <5> QED BY <5>1, <2>4
      <4>3. gone("section") = {}
        BY <4>2 DEF Removed
      <4>4. d.section = c.section
        BY <4>1, <4>3, <1>3
      <4>5. id = SectionCircuit(d)
        BY <4>1, <4>4, <1>2 DEF SectionCircuit
      <4> QED BY <1>2, <4>1, <4>4, <4>5, ClaimsHave
    <3> QED BY <2>2, <3>1, <3>2, ClaimsAre
  <2>6. RatingPlan(d, t, {}).refused
    BY <1>1, <2>1, <2>2, <2>5 DEF RatingPlan
  <2> QED BY <2>6, <1>1 DEF d
<1> QED BY <1>4, <1>5

----------------------------------------------------------------------------
(* The normaliser: it fills in the profiles that are missing, then folds.  *)
Unstated(c) == {t \in DOMAIN c.templates : c.templates[t].rated = Absent}

FilledTemplate(c, t) ==
  IF t \in Unstated(c)
  THEN [c.templates[t] EXCEPT !.rated = DefaultRating(c.templates[t].device)]
  ELSE c.templates[t]

Filled(c) == [c EXCEPT !.templates = [t \in DOMAIN c.templates |-> FilledTemplate(c, t)]]

LEMMA NormaliseIsFold ==
  ASSUME NEW c
  PROVE  Normalise(c) = FoldLegacyRatings(Filled(c), Unstated(c))
BY DEF Normalise, Filled, FilledTemplate, Unstated

LEMMA FilledKeys ==
  ASSUME NEW c, IsConfig(c)
  PROVE  LET f == Filled(c)
         IN /\ IsConfig(f) /\ AllRated(f.templates)
            /\ f.old = c.old /\ f.tabs = c.tabs /\ f.model = c.model /\ f.feed = c.feed
            /\ f.bess = c.bess /\ f.drive = c.drive /\ f.source = c.source
            /\ f.section = c.section /\ f.circuits = c.circuits
            /\ DOMAIN f.templates = DOMAIN c.templates
            /\ \A t \in DOMAIN c.templates :
                 /\ f.templates[t].device = c.templates[t].device
                 /\ f.templates[t].priority = c.templates[t].priority
                 /\ f.templates[t].locked = c.templates[t].locked
                 /\ f.templates[t].commissioned = c.templates[t].commissioned
                 /\ f.templates[t].neverBackup = c.templates[t].neverBackup
                 /\ f.templates[t].top = c.templates[t].top
                 /\ c.templates[t].rated # Absent => f.templates[t].rated = c.templates[t].rated
<1> DEFINE f == Filled(c)
           T == [t \in DOMAIN c.templates |-> FilledTemplate(c, t)]
<1>1. \A t \in DOMAIN c.templates :
         DOMAIN c.templates[t] = TemplateKeys /\ c.templates[t].top # Absent
  BY DEF IsConfig, IsTemplate
<1>2. \A v : DefaultRating(v) # Absent
  BY ConfigValues DEF DefaultRating
<1>3. ASSUME NEW t \in DOMAIN c.templates
      PROVE  LET tpl == FilledTemplate(c, t)
             IN /\ DOMAIN tpl = TemplateKeys /\ tpl.rated # Absent
                /\ tpl.device = c.templates[t].device /\ tpl.priority = c.templates[t].priority
                /\ tpl.locked = c.templates[t].locked
                /\ tpl.commissioned = c.templates[t].commissioned
                /\ tpl.neverBackup = c.templates[t].neverBackup /\ tpl.top = c.templates[t].top
                /\ c.templates[t].rated # Absent => tpl.rated = c.templates[t].rated
  <2>1. CASE t \in Unstated(c)
    BY <2>1, <1>1, <1>2 DEF FilledTemplate, TemplateKeys, Unstated
  <2>2. CASE t \notin Unstated(c)
    BY <2>2, <1>1 DEF FilledTemplate, Unstated
  <2> QED BY <2>1, <2>2
<1>4. /\ f.templates = T /\ DOMAIN f = DOMAIN c
      /\ f.old = c.old /\ f.tabs = c.tabs /\ f.model = c.model /\ f.feed = c.feed
      /\ f.bess = c.bess /\ f.drive = c.drive /\ f.source = c.source
      /\ f.section = c.section /\ f.circuits = c.circuits
  BY DEF Filled, IsConfig
<1>5. /\ DOMAIN T = DOMAIN c.templates
      /\ \A t \in DOMAIN c.templates : T[t] = FilledTemplate(c, t)
  OBVIOUS
<1> HIDE DEF f, T
<1>6. AllRated(f.templates)
  BY <1>3, <1>4, <1>5 DEF AllRated
<1>7. IsConfig(f)
  BY <1>1, <1>3, <1>4, <1>5 DEF IsConfig, IsTemplate
<1> QED BY <1>3, <1>4, <1>5, <1>6, <1>7 DEF f

(* A claim is a figure, or at least something that was written.            *)
LEMMA ClaimedValues ==
  ASSUME NEW c, IsConfig(c), NEW t \in DOMAIN c.templates, NEW k \in Claims(c, t)
  PROVE  k.value # Absent
<1>1. /\ c.templates[t].top # Absent /\ c.section # Absent
      /\ \A id \in Users(c, t) : c.circuits[id].over # Absent
  BY DEF IsConfig, IsTemplate, Users
<1> QED BY <1>1, ClaimsAre

(* A plan rates a template at one of its claims, if at all.                *)
LEMMA PlanRates ==
  ASSUME NEW c, NEW t, NEW u
  PROVE  \/ RatingPlan(c, t, u).rating = None
         \/ \E k \in Claims(c, t) : RatingPlan(c, t, u).rating = k.value
<1> DEFINE claims == Claims(c, t)
           values == {k.value : k \in claims}
<1>1. claims # {} => (CHOOSE v \in values : TRUE) \in values
  OBVIOUS
<1>2. \/ RatingPlan(c, t, u).rating = None
      \/ claims # {} /\ RatingPlan(c, t, u).rating = (CHOOSE v \in values : TRUE)
  BY DEF RatingPlan
<1> QED BY <1>1, <1>2

(* What the normaliser makes is a config whose templates are all rated.    *)
LEMMA FoldIsEditable ==
  ASSUME NEW c, Editable(c), NEW u
  PROVE  Editable(FoldLegacyRatings(c, u))
<1> DEFINE d == FoldLegacyRatings(c, u)
<1> USE DEF Editable
<1>1. /\ DOMAIN d = DOMAIN c /\ d.source = c.source /\ d.section \in {None, c.section}
      /\ d.model = c.model /\ d.tabs = c.tabs
      /\ d.templates = [t \in DOMAIN c.templates |-> FoldedTemplate(c, u, t)]
      /\ d.circuits = [id \in DOMAIN c.circuits |-> FoldedCircuit(c, u, id)]
  BY FoldKeys
<1>2. ASSUME NEW t \in DOMAIN c.templates
      PROVE  IsTemplate(FoldedTemplate(c, u, t)) /\ FoldedTemplate(c, u, t).rated # Absent
  <2>1. RatingPlan(c, t, u).rating # Absent
    <3>1. \/ RatingPlan(c, t, u).rating = None
          \/ \E k \in Claims(c, t) : RatingPlan(c, t, u).rating = k.value
      BY PlanRates
    <3> QED BY <3>1, ClaimedValues, ConfigValues
  <2>2. c.templates[t].rated # Absent /\ IsTemplate(c.templates[t])
    BY DEF AllRated, IsConfig
  <2> QED BY <2>1, <2>2, FoldedKeeps, ConfigValues DEF IsTemplate
<1>3. ASSUME NEW id \in DOMAIN c.circuits
      PROVE  /\ DOMAIN FoldedCircuit(c, u, id) = {"template", "tabs", "over", "tuned"}
             /\ FoldedCircuit(c, u, id).over # Absent
             /\ FoldedCircuit(c, u, id).tabs \subseteq Nat
  <2>1. c.circuits[id].over # Absent /\ c.circuits[id].tabs \subseteq Nat
    BY DEF IsConfig
  <2> QED BY <2>1, FoldedKeeps, ConfigValues
<1> HIDE DEF d
<1>4. IsConfig(d)
  BY <1>1, <1>2, <1>3, ConfigValues DEF IsConfig
<1>5. AllRated(d.templates)
  BY <1>1, <1>2 DEF AllRated
<1> QED BY <1>4, <1>5 DEF d

LEMMA NormalisedIsEditable ==
  ASSUME NEW c, IsConfig(c)
  PROVE  Editable(Normalise(c))
BY NormaliseIsFold, FilledKeys, FoldIsEditable DEF Editable

(* Normalising a config that is rated is folding it.                       *)
LEMMA EditableFolds ==
  ASSUME NEW c, Editable(c)
  PROVE  Normalise(c) = FoldLegacyRatings(Filled(c), {})
<1>1. Unstated(c) = {}
  BY DEF Unstated, Editable, AllRated
<1> QED BY <1>1, NormaliseIsFold

(* What an edit keeps has one source for each rating.                      *)
LEMMA KeptIsSettled ==
  ASSUME NEW c, Editable(c), Valid(Normalise(c))
  PROVE  \A t \in DOMAIN Normalise(c).templates : Claims(Normalise(c), t) = {}
<1> DEFINE f == Filled(c)
           d == FoldLegacyRatings(f, {})
<1>1. Normalise(c) = d /\ ~RatingConflicts(d)
  BY EditableFolds DEF Valid
<1>2. IsConfig(f) /\ AllRated(f.templates)
  BY FilledKeys DEF Editable
<1> HIDE DEF f
<1>3. DOMAIN d.templates = DOMAIN f.templates
  <2>1. d.templates = [t \in DOMAIN f.templates |-> FoldedTemplate(f, {}, t)]
    BY <1>2, FoldKeys
  <2> QED BY <2>1
<1>4. ASSUME NEW t \in DOMAIN f.templates, RatingPlan(f, t, {}).refused
      PROVE  FALSE
  <2>1. RatingPlan(d, t, {}).refused /\ d.templates[t].rated # Absent
    BY <1>2, <1>4, RefusedStays DEF AllRated
  <2> QED BY <1>1, <1>3, <2>1 DEF RatingConflicts
<1>5. \A t \in DOMAIN f.templates : Claims(d, t) = {}
  BY <1>2, <1>4, AcceptedSettles
<1> HIDE DEF d
<1> QED BY <1>1, <1>3, <1>5

(* What is loadable stays so when it is normalised again.                  *)
LEMMA NormalisedAgain ==
  ASSUME NEW c, Editable(c), Valid(c)
  PROVE  Valid(Normalise(c))
<1> DEFINE f == Filled(c)
           d == FoldLegacyRatings(f, {})
<1>1. Normalise(c) = d
  BY EditableFolds
<1>2. /\ IsConfig(f) /\ AllRated(f.templates)
      /\ f.old = c.old /\ f.feed = c.feed /\ f.source = c.source /\ f.section = c.section
      /\ f.circuits = c.circuits
      /\ DOMAIN f.templates = DOMAIN c.templates
      /\ \A t \in DOMAIN c.templates :
           /\ f.templates[t].device = c.templates[t].device
           /\ f.templates[t].priority = c.templates[t].priority
           /\ f.templates[t].locked = c.templates[t].locked
           /\ f.templates[t].commissioned = c.templates[t].commissioned
           /\ f.templates[t].neverBackup = c.templates[t].neverBackup
           /\ f.templates[t].top = c.templates[t].top
           /\ f.templates[t].rated = c.templates[t].rated
  <2>1. IsConfig(c) /\ \A t \in DOMAIN c.templates : c.templates[t].rated # Absent
    BY DEF Editable, AllRated
  <2> QED BY <2>1, FilledKeys
<1> HIDE DEF f
<1>3. PvCircuits(f) = PvCircuits(c) /\ Bound(f) = Bound(c)
  BY <1>2, SameBound
<1>4. \A t : Users(f, t) = Users(c, t)
  BY <1>2 DEF Users
<1>5. ASSUME NEW t \in DOMAIN f.templates PROVE ~RatingPlan(f, t, {}).refused
  <2>1. Claims(f, t) = Claims(c, t)
    <3>1. SectionCircuit(f) = SectionCircuit(c)
      BY <1>2, <1>3 DEF SectionCircuit
    <3> QED BY <3>1, <1>2, <1>4, SameClaims
  <2>2. RatingPlan(f, t, {}) = RatingPlan(c, t, {})
    <3>1. f.templates[t].rated = c.templates[t].rated /\ Users(f, t) = Users(c, t)
      BY <1>2, <1>4
    <3> QED BY <2>1, <3>1 DEF RatingPlan
  <2>3. c.templates[t].rated # Absent /\ t \in DOMAIN c.templates
    BY <1>2 DEF Editable, AllRated
  <2> QED BY <2>2, <2>3 DEF Valid, RatingConflicts
<1>6. \A t \in DOMAIN f.templates : Claims(d, t) = {}
  BY <1>2, <1>5, AcceptedSettles
<1>7. /\ d.old = f.old /\ d.feed = f.feed /\ d.source = f.source
      /\ d.section \in {None, f.section}
      /\ DOMAIN d.templates = DOMAIN f.templates /\ DOMAIN d.circuits = DOMAIN f.circuits
      /\ \A t \in DOMAIN f.templates :
           /\ d.templates[t].device = f.templates[t].device
           /\ d.templates[t].priority = f.templates[t].priority
           /\ d.templates[t].locked = f.templates[t].locked
           /\ d.templates[t].commissioned = f.templates[t].commissioned
           /\ d.templates[t].neverBackup = f.templates[t].neverBackup
      /\ \A id \in DOMAIN f.circuits :
           d.circuits[id].template = f.circuits[id].template
           /\ d.circuits[id].tabs = f.circuits[id].tabs
  <2>1. /\ d.templates = [t \in DOMAIN f.templates |-> FoldedTemplate(f, {}, t)]
        /\ d.circuits = [id \in DOMAIN f.circuits |-> FoldedCircuit(f, {}, id)]
        /\ d.old = f.old /\ d.feed = f.feed /\ d.source = f.source
        /\ d.section \in {None, f.section}
    BY <1>2, FoldKeys
  <2> HIDE DEF d
  <2> QED BY <1>2, <2>1, FoldedKeeps
<1>8. PvCircuits(d) = PvCircuits(f) /\ Bound(d) = Bound(f)
  BY <1>2, FoldBound
<1> HIDE DEF d
<1>9. ~RatingConflicts(d)
  <2>1. ~SectionConflict(c)
    BY DEF Valid, RatingConflicts
  <2>2. ~SectionConflict(d)
    BY <2>1, <1>2, <1>3, <1>7, <1>8 DEF SectionConflict
  <2>3. ASSUME NEW t \in DOMAIN d.templates PROVE ~RatingPlan(d, t, {}).refused
    BY <1>6, <1>7 DEF RatingPlan
  <2> QED BY <2>2, <2>3 DEF RatingConflicts
<1>10. \A t \in DOMAIN d.templates : CommissionedOK(d, t)
  BY <1>2, <1>7 DEF Valid, CommissionedOK
<1>11. \A id \in DOMAIN d.circuits : CircuitOK(d, id)
  BY <1>2, <1>7 DEF Valid, CircuitOK, TemplateOf
<1>12. SourceOK(d) /\ Bound(d) # Unbindable
  BY <1>2, <1>3, <1>7, <1>8 DEF Valid, SourceOK
<1>13. DOMAIN d.templates # {} /\ DOMAIN d.circuits # {}
  BY <1>2, <1>7 DEF Valid
<1> QED BY <1>1, <1>9, <1>10, <1>11, <1>12, <1>13 DEF Valid

----------------------------------------------------------------------------
(* Every mutator makes an editable config of an editable one.              *)
LEMMA FieldsEdited ==
  ASSUME NEW c, Editable(c), NEW v
  PROVE  /\ v # None => Editable([c EXCEPT !.tabs = v])
         /\ Editable([c EXCEPT !.bess = v]) /\ Editable([c EXCEPT !.feed = v])
BY DEF Editable, IsConfig

LEMMA TemplatesEdited ==
  ASSUME NEW c, Editable(c), NEW T, AllRated(T), \A t \in DOMAIN T : IsTemplate(T[t])
  PROVE  Editable([c EXCEPT !.templates = T])
BY DEF Editable, IsConfig

LEMMA TemplateEdited ==
  ASSUME NEW c, Editable(c), NEW t, NEW tpl, IsTemplate(tpl), tpl.rated # Absent
  PROVE  Editable([c EXCEPT !.templates[t] = tpl])
<1> DEFINE T == [c.templates EXCEPT ![t] = tpl]
<1>1. \A r \in DOMAIN c.templates : IsTemplate(c.templates[r]) /\ c.templates[r].rated # Absent
  BY DEF Editable, IsConfig, AllRated
<1>2. AllRated(T) /\ \A r \in DOMAIN T : IsTemplate(T[r])
  BY <1>1 DEF AllRated
<1>3. [c EXCEPT !.templates[t] = tpl] = [c EXCEPT !.templates = T]
  OBVIOUS
<1> HIDE DEF T
<1> QED BY <1>2, <1>3, TemplatesEdited

LEMMA CircuitsEdited ==
  ASSUME NEW c, Editable(c), NEW C, IsFiniteSet(DOMAIN C),
         \A id \in DOMAIN C : /\ DOMAIN C[id] = {"template", "tabs", "over", "tuned"}
                              /\ C[id].over # Absent
                              /\ C[id].tabs \subseteq Nat
  PROVE  Editable([c EXCEPT !.circuits = C])
BY DEF Editable, IsConfig

(* An edit of an editable config, in whatever state it is made, leaves the *)
(* store as it must be.                                                    *)
LEMMA EditKeepsStore ==
  ASSUME StoreInv, NEW changed, Editable(changed), Edit(changed)
  PROVE  StoreInv'
<1>1. config' = Normalise(changed) /\ Valid(config') /\ disk' = disk
  BY DEF Edit
<1>2. Editable(config')
  BY <1>1, NormalisedIsEditable DEF Editable
<1> QED BY <1>1, <1>2 DEF StoreInv

LEMMA KnownTemplate ==
  ASSUME StoreInv, NEW id \in DOMAIN config.circuits
  PROVE  /\ config.circuits[id].template \in DOMAIN config.templates
         /\ IsTemplate(TemplateOf(config, id)) /\ TemplateOf(config, id).rated # Absent
<1>1. config # Blank
  BY DEF Blank
<1>2. config.circuits[id].template \in DOMAIN config.templates
  BY <1>1 DEF StoreInv, Valid, CircuitOK
<1> QED BY <1>2 DEF StoreInv, Editable, IsConfig, AllRated, TemplateOf

LEMMA MarkedIsTemplate ==
  ASSUME NEW tpl, IsTemplate(tpl), tpl.rated # Absent
  PROVE  IsTemplate(Marked(tpl)) /\ Marked(tpl).rated # Absent
BY DEF Marked, IsTemplate, TemplateKeys

(* The changes of the panel's fields, its battery and its source.          *)
LEMMA PanelChanges ==
  ASSUME StoreInv, \/ \E total \in Totals : UpdatePanelConfig(total)
                   \/ AddBess \/ RemoveBess \/ UpdateBatteryProfile
                   \/ \E capacity \in Capacities : UpdateBess(capacity)
                   \/ \E mode \in {"self-consumption", "custom"}, label \in BOOLEAN :
                        UpdateBatteryChargeMode(mode, label)
  PROVE  \E changed : Editable(changed) /\ Edit(changed)
<1>1. Editable(config)
  BY DEF StoreInv
<1>2. \/ \E v \in Totals : Edit([config EXCEPT !.tabs = v])
      \/ \E v : Edit([config EXCEPT !.bess = v])
  BY DEF UpdatePanelConfig, AddBess, RemoveBess, UpdateBess, UpdateBatteryProfile,
         UpdateBatteryChargeMode
<1> QED BY <1>1, <1>2, FieldsEdited, StoredConfigs

LEMMA SnapshotChange ==
  ASSUME StoreInv, NEW map, RecordRecorderSnapshots(map)
  PROVE  \E changed : Editable(changed) /\ Edit(changed)
<1> DEFINE source == IF config.source = None
                     THEN [origin |-> None, map |-> << >>, snapshots |-> << >>]
                     ELSE config.source
           kept == [t \in DOMAIN map \cap DOMAIN config.templates |-> config.templates[t]]
           new == [source EXCEPT !.map = IF map = << >> THEN @ ELSE map, !.snapshots = kept]
           changed == [config EXCEPT !.source = new]
<1>1. Edit(changed)
  BY DEF RecordRecorderSnapshots
<1>2. /\ \A t \in DOMAIN kept : IsTemplate(kept[t])
      /\ AllRated(kept)
  BY DEF StoreInv, Editable, IsConfig, AllRated
<1>3. DOMAIN source = {"origin", "map", "snapshots"}
  BY DEF StoreInv, Editable, IsConfig
<1> HIDE DEF source, kept
<1>4. DOMAIN new = {"origin", "map", "snapshots"} /\ new.snapshots = kept
  BY <1>3
<1> HIDE DEF new
<1>5. Editable(changed)
  BY <1>2, <1>4 DEF StoreInv, Editable, IsConfig
<1> QED BY <1>1, <1>5

LEMMA ScrapeChange ==
  ASSUME StoreInv, NEW seeded, UpdateFromScrape(seeded)
  PROVE  NoEdit \/ \E changed : Editable(changed) /\ Edit(changed)
<1> DEFINE T == [t \in DOMAIN config.templates |->
                   IF t \in seeded THEN [config.templates[t] EXCEPT !.seeds = "fresh"]
                   ELSE config.templates[t]]
<1>1. NoEdit \/ Edit([config EXCEPT !.templates = T])
  BY DEF UpdateFromScrape
<1>2. \A t \in DOMAIN config.templates :
         IsTemplate(config.templates[t]) /\ config.templates[t].rated # Absent
  BY DEF StoreInv, Editable, IsConfig, AllRated
<1>3. AllRated(T) /\ \A t \in DOMAIN T : IsTemplate(T[t])
  BY <1>2 DEF AllRated, IsTemplate, TemplateKeys
<1> HIDE DEF T
<1> QED BY <1>1, <1>3, TemplatesEdited DEF StoreInv

(* The changes of one circuit.                                             *)
LEMMA RestoreChange ==
  ASSUME StoreInv, NEW id \in DOMAIN config.circuits, RestoreRecorder(id)
  PROVE  NoEdit \/ \E changed : Editable(changed) /\ Edit(changed)
<1> DEFINE t == config.circuits[id].template
           restored == IF config.source # None /\ t \in DOMAIN config.source.snapshots
                       THEN config.source.snapshots[t]
                       ELSE [config.templates[t] EXCEPT !.recorder = RecorderFor(config, t),
                                                        !.user = FALSE]
<1>1. NoEdit \/ Edit([config EXCEPT !.templates[t] = restored])
  BY SMTT(30) DEF RestoreRecorder
<1>2. IsTemplate(restored) /\ restored.rated # Absent
  <2>1. CASE config.source # None /\ t \in DOMAIN config.source.snapshots
    BY <2>1, SMTT(30) DEF StoreInv, Editable, IsConfig, AllRated
  <2>2. CASE ~(config.source # None /\ t \in DOMAIN config.source.snapshots)
    BY <2>2, KnownTemplate DEF TemplateOf, IsTemplate, TemplateKeys
  <2> QED BY <2>1, <2>2
<1> HIDE DEF t, restored
<1> QED BY <1>1, <1>2, TemplateEdited DEF StoreInv

LEMMA ToggleChange ==
  ASSUME StoreInv, NEW id \in DOMAIN config.circuits, ToggleUserModified(id) \/ Reschedule(id)
  PROVE  NoEdit \/ \E changed : Editable(changed) /\ Edit(changed)
<1> DEFINE tpl == TemplateOf(config, id)
           t == config.circuits[id].template
           toggled == [tpl EXCEPT !.user = ~@]
           edited == [tpl EXCEPT !.shape = "edited"]
<1>1. \/ NoEdit
      \/ Edit([config EXCEPT !.templates[t] = toggled])
      \/ Edit([config EXCEPT !.templates[t] = Marked(edited)])
  BY DEF ToggleUserModified, Reschedule, OnTemplate
<1>2. IsTemplate(tpl) /\ tpl.rated # Absent
  BY KnownTemplate
<1> HIDE DEF tpl
<1>3. /\ IsTemplate(toggled) /\ toggled.rated # Absent
      /\ IsTemplate(edited) /\ edited.rated # Absent
  BY <1>2 DEF IsTemplate, TemplateKeys
<1> HIDE DEF toggled, edited, t
<1>4. IsTemplate(Marked(edited)) /\ Marked(edited).rated # Absent
  BY <1>3, MarkedIsTemplate
<1> QED BY <1>1, <1>3, <1>4, TemplateEdited DEF StoreInv

LEMMA FormChange ==
  ASSUME StoreInv, NEW id \in DOMAIN config.circuits, NEW form \in Forms, UpdateEntity(id, form)
  PROVE  \E changed : Editable(changed) /\ Edit(changed)
<1> DEFINE tpl == TemplateOf(config, id)
           t == config.circuits[id].template
           circuit == config.circuits[id]
           posts(field) == field \in DOMAIN form
           written ==
             [tpl EXCEPT !.priority = IF posts("priority") THEN form.priority ELSE @,
                         !.locked = IF posts("locked") THEN form.locked ELSE @,
                         !.rated = IF posts("nameplate") THEN form.nameplate ELSE @,
                         !.shape = IF posts("shape") THEN "edited" ELSE @]
           marked == IF posts("nameplate") \/ posts("_dirty") THEN Marked(written) ELSE written
           placed ==
             [circuit EXCEPT !.tabs = IF posts("tabs") THEN form.tabs ELSE @,
                             !.over = IF posts("nameplate") THEN None ELSE @,
                             !.tuned = IF posts("nameplate") THEN FALSE
                                       ELSE IF posts("power") THEN form.power ELSE @]
           one == [config EXCEPT !.templates[t] = marked]
           C == [config.circuits EXCEPT ![id] = placed]
<1>1. Edit([one EXCEPT !.circuits[id] = placed])
  BY DEF UpdateEntity, OnTemplate
<1>2. IsTemplate(tpl) /\ tpl.rated # Absent
  BY KnownTemplate
<1>3. /\ posts("nameplate") => form.nameplate # Absent
      /\ posts("locked") => form.locked \in BOOLEAN
      /\ posts("tabs") => form.tabs \subseteq Nat
  BY StoredConfigs
<1>4. IsTemplate(written) /\ written.rated # Absent
  <2> HIDE DEF tpl
  <2> QED BY <1>2, <1>3 DEF IsTemplate, TemplateKeys
<1>5. IsTemplate(marked) /\ marked.rated # Absent
  <2> HIDE DEF written
  <2> QED BY <1>4, MarkedIsTemplate
<1>6. \A i \in DOMAIN config.circuits :
         /\ DOMAIN config.circuits[i] = {"template", "tabs", "over", "tuned"}
         /\ config.circuits[i].over # Absent
         /\ config.circuits[i].tabs \subseteq Nat
  BY DEF StoreInv, Editable, IsConfig
<1>7. /\ DOMAIN placed = {"template", "tabs", "over", "tuned"} /\ placed.over # Absent
      /\ placed.tabs \subseteq Nat
  BY <1>3, <1>6, ConfigValues
<1> HIDE DEF marked, placed
<1>8. Editable(one)
  <2> HIDE DEF t
  <2> QED BY <1>5, TemplateEdited DEF StoreInv
<1>9. one.circuits = config.circuits /\ "circuits" \in DOMAIN one
  BY DEF StoreInv, Editable, IsConfig
<1> HIDE DEF one
<1>10. [one EXCEPT !.circuits[id] = placed] = [one EXCEPT !.circuits = C]
  BY <1>9
<1>11. \A i \in DOMAIN C : /\ DOMAIN C[i] = {"template", "tabs", "over", "tuned"}
                           /\ C[i].over # Absent
                           /\ C[i].tabs \subseteq Nat
  BY <1>6, <1>7
<1>12. IsFiniteSet(DOMAIN C)
  BY DEF StoreInv, Editable, IsConfig
<1> HIDE DEF C
<1>13. Editable([one EXCEPT !.circuits = C])
  BY <1>8, <1>11, <1>12, CircuitsEdited
<1> QED BY <1>1, <1>10, <1>13

LEMMA DeleteChange ==
  ASSUME StoreInv, NEW id \in DOMAIN config.circuits, DeleteEntity(id)
  PROVE  \E changed : Editable(changed) /\ Edit(changed)
<1> DEFINE left == DOMAIN config.circuits \ {id}
           t == config.circuits[id].template
           used == \E other \in left : config.circuits[other].template = t
           C == [k \in left |-> config.circuits[k]]
           F == IF config.feed = id THEN None ELSE config.feed
           T == [n \in (IF used THEN DOMAIN config.templates ELSE DOMAIN config.templates \ {t})
                   |-> config.templates[n]]
           changed == [config EXCEPT !.circuits = C, !.feed = F, !.templates = T]
<1>1. Edit(changed)
  BY DEF DeleteEntity
<1>2. DOMAIN T \subseteq DOMAIN config.templates
      /\ \A n \in DOMAIN T : T[n] = config.templates[n]
  OBVIOUS
<1>3. DOMAIN C \subseteq DOMAIN config.circuits
      /\ \A k \in DOMAIN C : C[k] = config.circuits[k]
  OBVIOUS
<1> HIDE DEF T, C, F
<1>4. IsFiniteSet(DOMAIN C)
  BY <1>3, FS_Subset DEF StoreInv, Editable, IsConfig
<1>5. Editable([config EXCEPT !.circuits = C])
  <2>1. \A k \in DOMAIN C : /\ DOMAIN C[k] = {"template", "tabs", "over", "tuned"}
                            /\ C[k].over # Absent
                            /\ C[k].tabs \subseteq Nat
    BY <1>3 DEF StoreInv, Editable, IsConfig
  <2> QED BY <2>1, <1>4, CircuitsEdited DEF StoreInv
<1>6. Editable([[config EXCEPT !.circuits = C] EXCEPT !.feed = F])
  BY <1>5, FieldsEdited
<1>7. AllRated(T) /\ \A n \in DOMAIN T : IsTemplate(T[n])
  BY <1>2 DEF StoreInv, Editable, IsConfig, AllRated
<1>8. Editable([[[config EXCEPT !.circuits = C] EXCEPT !.feed = F] EXCEPT !.templates = T])
  BY <1>6, <1>7, TemplatesEdited
<1> QED BY <1>1, <1>8

LEMMA AddChange ==
  ASSUME StoreInv, \/ \E type \in DOMAIN Names : AddEntity(type)
                   \/ \E tabs \in Spaces : AddEntityFromTabs(tabs)
  PROVE  \E changed : Editable(changed) /\ Edit(changed)
<1>1. PICK type, tabs : Edit(WithEntity(config, type, tabs)) /\ tabs \subseteq UnmappedTabs(config)
  <2>1. CASE \E tabs \in Spaces : AddEntityFromTabs(tabs)
    BY <2>1 DEF AddEntityFromTabs
  <2>2. CASE \E type \in DOMAIN Names : AddEntity(type)
    <3>1. PICK type \in DOMAIN Names : AddEntity(type)
      BY <2>2
    <3> DEFINE lowest == {t \in UnmappedTabs(config) : \A u \in UnmappedTabs(config) : t <= u}
    <3>2. Edit(WithEntity(config, type, IF type = "circuit" THEN lowest ELSE {}))
      BY <3>1 DEF AddEntity
    <3>3. lowest \subseteq UnmappedTabs(config) /\ {} \subseteq UnmappedTabs(config)
      OBVIOUS
    <3> HIDE DEF lowest
    <3> QED BY <3>2, <3>3
  <2> QED BY <2>1, <2>2
<1> DEFINE id == FreeName(config, type)
           name == Names[type].template
           circuit == [template |-> name, tabs |-> tabs, over |-> None, tuned |-> FALSE]
           T == [t \in DOMAIN config.templates \cup {name} |->
                   IF t = name THEN DefaultTemplate(type) ELSE config.templates[t]]
           C == [k \in DOMAIN config.circuits \cup {id} |->
                   IF k = id THEN circuit ELSE config.circuits[k]]
           changed == [config EXCEPT !.templates = T, !.circuits = C]
<1>2. WithEntity(config, type, tabs) = changed
  BY DEF WithEntity
<1>3. IsTemplate(DefaultTemplate(type)) /\ DefaultTemplate(type).rated # Absent
  BY ConfigValues DEF DefaultTemplate, DefaultRating, IsTemplate, TemplateKeys
<1>4. AllRated(T) /\ \A t \in DOMAIN T : IsTemplate(T[t])
  <2>1. DOMAIN T = DOMAIN config.templates \cup {name}
    OBVIOUS
  <2>2. ASSUME NEW t \in DOMAIN T PROVE IsTemplate(T[t]) /\ T[t].rated # Absent
    <3>1. CASE t = name
      <4>1. T[t] = DefaultTemplate(type)
        BY <3>1, <2>1
      <4> QED BY <4>1, <1>3
    <3>2. CASE t # name
      <4>1. t \in DOMAIN config.templates /\ T[t] = config.templates[t]
        BY <3>2, <2>1
      <4> HIDE DEF T
      <4> QED BY <4>1 DEF StoreInv, Editable, IsConfig, AllRated
    <3> QED BY <3>1, <3>2
  <2> HIDE DEF T
  <2> QED BY <2>2 DEF AllRated
<1>5. \A k \in DOMAIN C : /\ DOMAIN C[k] = {"template", "tabs", "over", "tuned"}
                         /\ C[k].over # Absent
                         /\ C[k].tabs \subseteq Nat
  <2>1. DOMAIN C = DOMAIN config.circuits \cup {id}
    OBVIOUS
  <2>2. ASSUME NEW k \in DOMAIN C PROVE /\ DOMAIN C[k] = {"template", "tabs", "over", "tuned"}
                                        /\ C[k].over # Absent
                                        /\ C[k].tabs \subseteq Nat
    <3>1. CASE k = id
      <4>1. C[k] = circuit
        BY <3>1, <2>1
      <4>2. tabs \subseteq Nat
        BY <1>1 DEF UnmappedTabs
      <4> QED BY <4>1, <4>2, ConfigValues
    <3>2. CASE k # id
      <4>1. k \in DOMAIN config.circuits /\ C[k] = config.circuits[k]
        BY <3>2, <2>1
      <4> HIDE DEF C
      <4> QED BY <4>1 DEF StoreInv, Editable, IsConfig
    <3> QED BY <3>1, <3>2
  <2> QED BY <2>2
<1>6. IsFiniteSet(DOMAIN C)
  BY FS_AddElement DEF StoreInv, Editable, IsConfig
<1> HIDE DEF T, C
<1>7. Editable([config EXCEPT !.templates = T])
  BY <1>4, TemplatesEdited DEF StoreInv
<1>8. Editable([[config EXCEPT !.templates = T] EXCEPT !.circuits = C])
  BY <1>5, <1>6, <1>7, CircuitsEdited
<1> QED BY <1>1, <1>2, <1>8

LEMMA FiniteImage ==
  ASSUME NEW f, IsFiniteSet(DOMAIN f)
  PROVE  IsFiniteSet({f[x] : x \in DOMAIN f})
<1> DEFINE T == {f[x] : x \in DOMAIN f}
           g == [x \in DOMAIN f |-> f[x]]
<1>1. g \in [DOMAIN f -> T] /\ \A y \in T : \E x \in DOMAIN f : g[x] = y
  OBVIOUS
<1> HIDE DEF T, g
<1>2. g \in Surjection(DOMAIN f, T)
  BY <1>1 DEF Surjection
<1> QED BY <1>2, FS_Surjection DEF T

(* What a clone can rely on in a tree: it has a size, finitely many        *)
(* circuits at numbered spaces, and each publishes a figure, or nothing,   *)
(* for what it feeds.                                                      *)
IsTree(tree) ==
  /\ DOMAIN tree = {"old", "size", "battery", "circuits"}
  /\ tree.size # None
  /\ IsFiniteSet(tree.circuits)
  /\ \A circuit \in tree.circuits : circuit.power # Absent /\ circuit.spaces \subseteq Nat

LEMMA PublishedIsTree ==
  ASSUME NEW c, Editable(c), Valid(c)
  PROVE  IsTree(Published(c))
<1> DEFINE f == [id \in DOMAIN c.circuits |-> PublishedCircuit(c, id)]
           circuits == {f[id] : id \in DOMAIN f}
<1>1. /\ Published(c).circuits = circuits
      /\ Published(c).size = PublishedSize(c)
      /\ DOMAIN Published(c) = {"old", "size", "battery", "circuits"}
  BY DEF Published
<1>2. PublishedSize(c) # None
  BY DEF PublishedSize, Editable, IsConfig
<1>3. IsFiniteSet(circuits)
  <2>1. IsFiniteSet(DOMAIN f)
    BY DEF Editable, IsConfig
  <2> HIDE DEF f
  <2> QED BY <2>1, FiniteImage
<1>4. ASSUME NEW id \in DOMAIN c.circuits
      PROVE  /\ PublishedCircuit(c, id).power # Absent
             /\ PublishedCircuit(c, id).spaces \subseteq Nat
  <2>1. c.circuits[id].template \in DOMAIN c.templates
    BY DEF Valid, CircuitOK
  <2>2. NominalPower(c, id) # Absent
    BY <2>1, ConfigValues DEF NominalPower, TemplateOf, Editable, AllRated
  <2>3. PublishedCircuit(c, id).power = IF id \in InverterFeeds(c) THEN NominalPower(c, id)
                                       ELSE None
    BY DEF PublishedCircuit
  <2>4. /\ PublishedCircuit(c, id).spaces = c.circuits[id].tabs
        /\ c.circuits[id].tabs \subseteq Nat
    BY DEF PublishedCircuit, Editable, IsConfig
  <2> QED BY <2>2, <2>3, <2>4, ConfigValues
<1> QED BY <1>1, <1>2, <1>3, <1>4 DEF IsTree

(* A clone is an editable config.                                          *)
LEMMA CloneIsEditable ==
  ASSUME NEW tree, IsTree(tree)
  PROVE  Editable(Translated(tree))
<1> DEFINE firsts == {FirstSpace(circuit) : circuit \in Placed(tree)}
           at(s) == CHOOSE circuit \in Placed(tree) : FirstSpace(circuit) = s
           T == [t \in {CloneAt(s) : s \in firsts} |->
                   TranslatedTemplate(at(CHOOSE s \in firsts : CloneAt(s) = t))]
           C == [id \in {CircuitAt(s) : s \in firsts} |->
                   LET s == CHOOSE s \in firsts : CircuitAt(s) = id
                   IN [template |-> CloneAt(s), tabs |-> at(s).spaces,
                       over |-> None, tuned |-> FALSE]]
<1>1. Translated(tree) =
        [old |-> tree.old, tabs |-> TotalTabs(tree), model |-> tree.size, templates |-> T,
         circuits |-> C, feed |-> None, section |-> None, bess |-> TranslatedBess(tree),
         drive |-> None, source |-> None]
  BY Zenon DEF Translated
<1>2. ASSUME NEW s \in firsts PROVE at(s) \in Placed(tree)
  OBVIOUS
<1>3. ASSUME NEW t \in DOMAIN T PROVE IsTemplate(T[t]) /\ T[t].rated # Absent
  <2> DEFINE s == CHOOSE s \in firsts : CloneAt(s) = t
             tpl == TranslatedTemplate(at(s))
  <2>1. at(s) \in Placed(tree)
    BY <1>2
  <2>2. T[t] = tpl
    OBVIOUS
  <2> HIDE DEF T, at, s
  <2>3. Rating(at(s)) # Absent
    BY <2>1, ConfigValues DEF Rating, Placed, IsTree
  <2>4. /\ DOMAIN tpl = TemplateKeys
        /\ tpl.top = None /\ tpl.rated = Rating(at(s)) /\ tpl.device = Role(at(s))
        /\ tpl.locked \in BOOLEAN
        /\ tpl.commissioned = Commissioned(at(s))
        /\ tpl.neverBackup = NeverBackup(at(s))
    BY DEF TranslatedTemplate, TemplateKeys
  <2>5. Commissioned(at(s)) \in BOOLEAN /\ NeverBackup(at(s)) \in BOOLEAN
    BY DEF Commissioned, NeverBackup
  <2>6. Commissioned(at(s)) => Role(at(s)) \in Commissionable
    <3>1. None # "pv"
      BY NoneIsNoValue
    <3> QED BY <3>1, ConfigValues DEF Commissioned, Role
  <2> HIDE DEF tpl
  <2> QED BY <2>2, <2>3, <2>4, <2>5, <2>6, ConfigValues DEF IsTemplate
<1>4. ASSUME NEW id \in DOMAIN C
      PROVE  /\ DOMAIN C[id] = {"template", "tabs", "over", "tuned"}
             /\ C[id].over # Absent
             /\ C[id].tabs \subseteq Nat
  <2> DEFINE s == CHOOSE s \in firsts : CircuitAt(s) = id
  <2>1. at(s) \in Placed(tree)
    BY <1>2
  <2>2. C[id] = [template |-> CloneAt(s), tabs |-> at(s).spaces, over |-> None, tuned |-> FALSE]
    OBVIOUS
  <2> HIDE DEF C, at, s
  <2> QED BY <2>1, <2>2, ConfigValues DEF Placed, IsTree
<1>5. IsFiniteSet(DOMAIN C)
  <2> DEFINE f == [circuit \in Placed(tree) |-> CircuitAt(FirstSpace(circuit))]
  <2>1. IsFiniteSet(Placed(tree))
    BY FS_Subset DEF Placed, IsTree
  <2>2. DOMAIN C = {f[circuit] : circuit \in DOMAIN f} /\ DOMAIN f = Placed(tree)
    OBVIOUS
  <2> HIDE DEF f, C
  <2> QED BY <2>1, <2>2, FiniteImage
<1> HIDE DEF T, C
<1> QED BY <1>1, <1>3, <1>4, <1>5, ConfigValues DEF Editable, IsConfig, AllRated, IsTree

LEMMA DefinitionChange ==
  ASSUME StoreInv, ImportDefinition
  PROVE  \E changed : Editable(changed) /\ Edit(changed)
<1> DEFINE loaded == Normalise(disk)
           tree == Published(loaded)
           clone == Translated(tree)
<1>1. Valid(loaded) /\ Edit(FromDefinition(tree))
  BY DEF ImportDefinition
<1>2. Editable(loaded)
  BY NormalisedIsEditable DEF StoreInv
<1> HIDE DEF loaded
<1>3. IsTree(tree)
  BY <1>1, <1>2, PublishedIsTree
<1> HIDE DEF tree
<1>4. Editable(clone)
  BY <1>3, CloneIsEditable
<1>5. PICK v : FromDefinition(tree) = [clone EXCEPT !.bess = v]
  BY DEF FromDefinition
<1> HIDE DEF clone
<1>6. Editable([clone EXCEPT !.bess = v])
  BY <1>4, FieldsEdited
<1> QED BY <1>1, <1>5, <1>6

----------------------------------------------------------------------------
(* What a step of the store is: an edit of an editable config, or a load,  *)
(* a save or a settling of what it has.                                    *)
LEMMA NormalBlank == Normalise(Blank) = Blank
<1> DEFINE f == Filled(Blank)
<1>1. IsConfig(Blank) /\ Editable(Blank)
  BY ConfigValues, NoneIsNoValue, FS_EmptySet DEF Blank, IsConfig, Editable, AllRated
<1>2. f = Blank
  <2> DEFINE T == [t \in DOMAIN Blank.templates |-> FilledTemplate(Blank, t)]
  <2>1. DOMAIN Blank.templates = {}
    BY DEF Blank
  <2>2. T = << >>
    BY <2>1
  <2>3. f = [Blank EXCEPT !.templates = T]
    BY DEF Filled
  <2> HIDE DEF T
  <2> QED BY <2>2, <2>3 DEF Blank
<1>3. Normalise(Blank) = FoldLegacyRatings(Blank, {})
  BY <1>1, <1>2, EditableFolds
<1>4. FoldLegacyRatings(Blank, {}) = Blank
  <2> DEFINE d == FoldLegacyRatings(Blank, {})
  <2>1. DOMAIN Blank.templates = {} /\ DOMAIN Blank.circuits = {}
    BY DEF Blank
  <2>2. /\ d.templates = [t \in DOMAIN Blank.templates |-> FoldedTemplate(Blank, {}, t)]
        /\ d.circuits = [id \in DOMAIN Blank.circuits |-> FoldedCircuit(Blank, {}, id)]
        /\ DOMAIN d = DOMAIN Blank
        /\ d.old = Blank.old /\ d.tabs = Blank.tabs /\ d.model = Blank.model
        /\ d.feed = Blank.feed /\ d.bess = Blank.bess /\ d.source = Blank.source
        /\ d.drive = Blank.drive
        /\ d.section \in {None, Blank.section}
    BY <1>1, FoldKeys
  <2>3. \E T, C, S : d = [Blank EXCEPT !.templates = T, !.circuits = C, !.section = S]
    BY DEF FoldLegacyRatings
  <2> HIDE DEF d
  <2>4. d.templates = << >> /\ d.circuits = << >>
    BY <2>1, <2>2
  <2>5. d.section = None
    BY <2>2 DEF Blank
  <2> QED BY <2>2, <2>3, <2>4, <2>5 DEF Blank, d
<1> QED BY <1>3, <1>4

LEMMA SettledKeepsStore ==
  ASSUME StoreInv
  PROVE  /\ Editable(Normalise(config))
         /\ Normalise(config) # Blank => Valid(Normalise(config))
<1>1. Editable(Normalise(config))
  BY NormalisedIsEditable DEF StoreInv, Editable
<1>2. CASE config = Blank
  BY <1>1, <1>2, NormalBlank
<1>3. CASE config # Blank
  BY <1>1, <1>3, NormalisedAgain DEF StoreInv
<1> QED BY <1>2, <1>3

LEMMA StepEdits ==
  ASSUME StoreInv, Next
  PROVE  \/ \E changed : Editable(changed) /\ Edit(changed)
         \/ edits' = edits /\ StoreInv'
<1>1. CASE NoEdit
  BY <1>1, SettledKeepsStore DEF NoEdit, StoreInv
<1>2. CASE SaveToFile
  <2>1. /\ config' = Normalise(config) /\ edits' = edits
        /\ disk' = disk \/ disk' = config'
    BY <1>2 DEF SaveToFile
  <2> QED BY <2>1, SettledKeepsStore DEF StoreInv, Editable
<1>3. ASSUME NEW f, IsConfig(f), LoadFromFile(f) \/ Import(f)
      PROVE  edits' = edits /\ StoreInv'
  <2>1. /\ config' = Normalise(f) /\ Valid(config') /\ edits' = edits
        /\ disk' = disk \/ disk' = f
    BY <1>3 DEF LoadFromFile, Import
  <2>2. Editable(config')
    BY <1>3, <2>1, NormalisedIsEditable
  <2> QED BY <1>3, <2>1, <2>2 DEF StoreInv
<1>4. CASE \/ \E f \in Files : LoadFromFile(f) \/ Import(f)
           \/ LoadFromFile(disk)
  BY <1>3, <1>4, StoredConfigs DEF StoreInv
<1>5. CASE \E recorded \in SUBSET DOMAIN config.templates :
             \/ RecordRecorderSnapshots([t \in recorded |-> "sensor"])
             \/ UpdateFromScrape(recorded)
  BY <1>1, <1>5, SnapshotChange, ScrapeChange
<1>6. CASE \E id \in DOMAIN config.circuits :
             \/ RestoreRecorder(id)
             \/ ToggleUserModified(id)
             \/ Reschedule(id)
             \/ DeleteEntity(id)
             \/ \E form \in Forms : UpdateEntity(id, form)
  BY <1>1, <1>6, RestoreChange, ToggleChange, DeleteChange, FormChange
<1>7. CASE \/ \E total \in Totals : UpdatePanelConfig(total)
           \/ AddBess \/ RemoveBess \/ UpdateBatteryProfile
           \/ \E capacity \in Capacities : UpdateBess(capacity)
           \/ \E mode \in {"self-consumption", "custom"}, label \in BOOLEAN :
                UpdateBatteryChargeMode(mode, label)
  BY <1>7, PanelChanges
<1> QED BY <1>2, <1>4, <1>5, <1>6, <1>7, DefinitionChange, AddChange DEF Next

LEMMA StoreHolds == Spec => []StoreInv
<1>1. Init => StoreInv
  BY ConfigValues, NoneIsNoValue, FS_EmptySet DEF Init, Blank, StoreInv, Editable, IsConfig, AllRated
<1>2. StoreInv /\ [Next]_storeVars => StoreInv'
  <2> SUFFICES ASSUME StoreInv, [Next]_storeVars PROVE StoreInv'
    OBVIOUS
  <2>1. CASE Next
    BY <2>1, StepEdits, EditKeepsStore
  <2>2. CASE UNCHANGED storeVars
    BY <2>2 DEF storeVars, StoreInv
  <2> QED BY <2>1, <2>2
<1> QED BY <1>1, <1>2, PTL DEF Spec

(* A save cannot be refused for an edit: what the loader accepted once it  *)
(* accepts again after the normaliser that every save runs first.          *)
THEOREM SavesAreAccepted == Spec => []SaveIsNeverRefused
<1>1. StoreInv => SaveIsNeverRefused
  BY NormalisedAgain DEF StoreInv, SaveIsNeverRefused
<1> QED BY <1>1, StoreHolds, PTL

(* After any edit every circuit's rating has one source: a legacy place    *)
(* that still rated it would be refused with the edit or folded away.      *)
THEOREM EditsLeaveOneRating == Spec => EditsSettleRatings
<1>1. StoreInv /\ [Next]_storeVars =>
        [edits' # edits => \A t \in DOMAIN config'.templates : Claims(config', t) = {}]_storeVars
  <2> SUFFICES ASSUME StoreInv, Next, edits' # edits
               PROVE  \A t \in DOMAIN config'.templates : Claims(config', t) = {}
    OBVIOUS
  <2>1. PICK changed : Editable(changed) /\ Edit(changed)
    BY StepEdits
  <2>2. config' = Normalise(changed) /\ Valid(Normalise(changed))
    BY <2>1 DEF Edit
  <2> QED BY <2>1, <2>2, KeptIsSettled
<1> QED BY <1>1, StoreHolds, PTL DEF Spec, EditsSettleRatings
----------------------------------------------------------------------------
(* What a clone of a published tree publishes.  It names what it makes of  *)
(* a circuit after its first space; the provers know nothing of decimal    *)
(* numerals, so that names tell all spaces apart (TellsApart(Nat)) is a    *)
(* hypothesis, which TLC evaluates for a panel's (SpacesAreNamed).         *)
CloneId(circuit) == CircuitAt(FirstSpace(circuit))
CloneName(circuit) == CloneAt(FirstSpace(circuit))

(* What a loadable config publishes of a circuit that has spaces.          *)
IsPlaced(circuit) ==
  /\ circuit = [spaces |-> circuit.spaces, priority |-> circuit.priority,
                settable |-> circuit.settable, controllable |-> circuit.controllable,
                feeds |-> circuit.feeds, power |-> circuit.power]
  /\ circuit.spaces \subseteq Nat /\ circuit.spaces # {} /\ DoublePoleOK(circuit.spaces)
  /\ circuit.controllable \in BOOLEAN
  /\ circuit.settable = (~NeverBackup(circuit) /\ ~Commissioned(circuit))
  /\ circuit.feeds \in {"pv", "evse", None}
  /\ circuit.feeds = "pv" => circuit.power # None
  /\ circuit.feeds # "pv" => circuit.power = None

(* And of the panel: no two such circuits start on one space, and one      *)
(* before 202639 has one inverter at most and nothing commissioned.        *)
IsPublished(tree) ==
  /\ IsTree(tree)
  /\ \A x \in Placed(tree) : IsPlaced(x)
  /\ \A x, y \in Placed(tree) : FirstSpace(x) = FirstSpace(y) => x = y
  /\ \A x, y \in Placed(tree) : tree.old /\ x.feeds = "pv" /\ y.feeds = "pv" => x = y
  /\ \A x \in Placed(tree) : Commissioned(x) => ~tree.old

LEMMA FirstSpaceIsOne ==
  ASSUME NEW circuit, circuit.spaces \subseteq Nat, circuit.spaces # {}
  PROVE  FirstSpace(circuit) \in circuit.spaces
<1> DEFINE Less == OpToRel(<, Nat)
           S == circuit.spaces
<1>1. PICK s \in S : \A r \in S : ~ (<<r, s>> \in Less)
  <2>1. IsWellFoundedOn(Less, Nat)
    BY NatLessThanWellFounded
  <2>2. S \subseteq Nat /\ S # {}
    OBVIOUS
  <2> HIDE DEF Less, S
  <2> QED BY <2>1, <2>2, WFMin, Zenon
<1>2. ASSUME NEW r \in S PROVE s <= r
  <2>1. r \in Nat /\ s \in Nat
    OBVIOUS
  <2>2. r < s => <<r, s>> \in Less
    BY <2>1 DEF OpToRel
  <2>3. ~ (r < s)
    BY <1>1, <2>2
  <2> HIDE DEF Less, S
  <2> QED BY <2>1, <2>3
<1> HIDE DEF Less
<1> QED BY <1>2 DEF FirstSpace

(* The locks of a circuit the config publishes, read back from it.  What   *)
(* is commissioned feeds its inverter.                                     *)
LEMMA PublishedLocks ==
  ASSUME Commissionable = {"pv"}, NEW c, Editable(c), Valid(c), Publishable(c),
         NEW id \in DOMAIN c.circuits
  PROVE  LET x == PublishedCircuit(c, id)
         IN /\ Commissioned(x) = TemplateOf(c, id).commissioned
            /\ NeverBackup(x) = TemplateOf(c, id).neverBackup
            /\ Commissioned(x) => ~c.old
<1> DEFINE tpl == TemplateOf(c, id)
<1>1. c.circuits[id].template \in DOMAIN c.templates
  BY DEF Valid, CircuitOK
<1>2. /\ tpl.locked \in BOOLEAN /\ tpl.commissioned \in BOOLEAN /\ tpl.neverBackup \in BOOLEAN
      /\ tpl.commissioned => tpl.device \in Commissionable
  BY <1>1 DEF Editable, IsConfig, IsTemplate, TemplateOf
<1>3. tpl.commissioned => id \in PvCircuits(c) /\ ~c.old
  BY <1>1, <1>2 DEF PvCircuits, Valid, CommissionedOK, TemplateOf
<1>4. IsFiniteSet(PvCircuits(c))
  BY FS_Subset DEF PvCircuits, Editable, IsConfig
<1>5. tpl.commissioned => id \in InverterFeeds(c)
  <2> SUFFICES ASSUME tpl.commissioned PROVE id \in InverterFeeds(c)
    OBVIOUS
  <2>1. id \in PvCircuits(c) /\ ~c.old
    BY <1>3
  <2>2. CASE Cardinality(PvCircuits(c)) < 2
    <3>1. Cardinality(PvCircuits(c)) = 1
      <4>1. Cardinality(PvCircuits(c)) \in Nat /\ Cardinality(PvCircuits(c)) # 0
        BY <1>4, <2>1, FS_CardinalityType, FS_EmptySet
      <4> QED BY <4>1, <2>2
    <3>2. PICK y : PvCircuits(c) = {y}
      BY <1>4, <3>1, FS_Singleton
    <3>3. Bound(c) = id
      BY <2>1, <3>1, <3>2 DEF Bound, Valid
    <3> QED BY <2>1, <2>2, <3>3 DEF InverterFeeds
  <2>3. CASE ~(Cardinality(PvCircuits(c)) < 2)
    BY <2>1, <2>3 DEF InverterFeeds
  <2> QED BY <2>2, <2>3
<1>6. LET read == TranslatedTemplate(PublishedCircuit(c, id))
      IN read.commissioned = tpl.commissioned /\ read.neverBackup = tpl.neverBackup
  BY <1>1, <1>2, <1>5, LocksSurviveClone
<1>7. /\ Commissioned(PublishedCircuit(c, id)) = tpl.commissioned
      /\ NeverBackup(PublishedCircuit(c, id)) = tpl.neverBackup
  BY <1>6 DEF TranslatedTemplate
<1> QED BY <1>3, <1>7

(* Every tree a loadable config publishes is one.                          *)
LEMMA ConfigPublishes ==
  ASSUME Commissionable = {"pv"}, NEW c, Editable(c), Valid(c), Publishable(c), Apart(c)
  PROVE  IsPublished(Published(c))
<1> DEFINE tree == Published(c)
<1>1. ASSUME NEW x \in Placed(tree)
      PROVE  \E id \in DOMAIN c.circuits : x = PublishedCircuit(c, id) /\ c.circuits[id].tabs # {}
  BY DEF Placed, Published, PublishedCircuit
<1>2. ASSUME NEW id \in DOMAIN c.circuits, c.circuits[id].tabs # {}
      PROVE  /\ IsPlaced(PublishedCircuit(c, id))
             /\ Commissioned(PublishedCircuit(c, id)) => ~c.old
  <2> DEFINE x == PublishedCircuit(c, id)
             tpl == TemplateOf(c, id)
  <2>1. /\ x = [spaces |-> x.spaces, priority |-> x.priority, settable |-> x.settable,
                controllable |-> x.controllable, feeds |-> x.feeds, power |-> x.power]
        /\ x.spaces = c.circuits[id].tabs
        /\ x.settable = (~tpl.neverBackup /\ ~tpl.commissioned)
        /\ x.controllable \in BOOLEAN
        /\ x.feeds \in {"pv", "evse", None}
        /\ x.feeds = "pv" => x.power = NominalPower(c, id)
        /\ x.feeds # "pv" => x.power = None
    <3>1. None # "pv"
      BY NoneIsNoValue
    <3> QED BY <3>1 DEF PublishedCircuit
  <2>2. NominalPower(c, id) # None
    BY ConfigValues DEF NominalPower
  <2>3. c.circuits[id].tabs \subseteq Nat /\ DoublePoleOK(c.circuits[id].tabs)
    BY DEF Editable, IsConfig, Valid, CircuitOK
  <2>4. /\ Commissioned(x) = tpl.commissioned /\ NeverBackup(x) = tpl.neverBackup
        /\ Commissioned(x) => ~c.old
    BY PublishedLocks
  <2> HIDE DEF x, tpl
  <2>5. IsPlaced(x)
    BY <1>2, <2>1, <2>2, <2>3, <2>4 DEF IsPlaced
  <2> QED BY <2>4, <2>5 DEF x
<1>3. ASSUME NEW x \in Placed(tree), NEW y \in Placed(tree), FirstSpace(x) = FirstSpace(y)
      PROVE  x = y
  <2>1. PICK a \in DOMAIN c.circuits : x = PublishedCircuit(c, a) /\ c.circuits[a].tabs # {}
    BY <1>1
  <2>2. PICK b \in DOMAIN c.circuits : y = PublishedCircuit(c, b) /\ c.circuits[b].tabs # {}
    BY <1>1
  <2>3. a = b
    BY <1>3, <2>1, <2>2 DEF Apart
  <2> QED BY <2>1, <2>2, <2>3
<1>4. ASSUME c.old, NEW x \in Placed(tree), NEW y \in Placed(tree), x.feeds = "pv", y.feeds = "pv"
      PROVE  x = y
  <2>1. PICK a \in DOMAIN c.circuits : x = PublishedCircuit(c, a)
    BY <1>1
  <2>2. PICK b \in DOMAIN c.circuits : y = PublishedCircuit(c, b)
    BY <1>1
  <2>3. a \in InverterFeeds(c) /\ b \in InverterFeeds(c)
    <3>1. None # "pv"
      BY NoneIsNoValue
    <3> QED BY <1>4, <2>1, <2>2, <3>1 DEF PublishedCircuit
  <2>4. InverterFeeds(c) \subseteq {Bound(c)}
    BY <1>4 DEF InverterFeeds
  <2> QED BY <2>1, <2>2, <2>3, <2>4
<1>5. IsTree(tree)
  BY PublishedIsTree
<1>6. tree.old = c.old
  BY DEF Published
<1> HIDE DEF tree
<1>7. \A x \in Placed(tree) : IsPlaced(x) /\ (Commissioned(x) => ~c.old)
  BY <1>1, <1>2
<1>8. \A x, y \in Placed(tree) : FirstSpace(x) = FirstSpace(y) => x = y
  BY <1>3
<1>9. \A x, y \in Placed(tree) : c.old /\ x.feeds = "pv" /\ y.feeds = "pv" => x = y
  BY <1>4
<1>10. IsPublished(tree)
  BY <1>5, <1>6, <1>7, <1>8, <1>9 DEF IsPublished
<1> QED BY <1>10 DEF tree

(* A config that is a clone of the tree, key by key.                       *)
IsCopyOf(d, x) ==
  LET tpl == d.templates[CloneName(x)]
      read == TranslatedTemplate(x)
  IN /\ tpl.device = read.device /\ tpl.priority = read.priority
     /\ tpl.locked = read.locked /\ tpl.commissioned = read.commissioned
     /\ tpl.neverBackup = read.neverBackup /\ tpl.rated = read.rated /\ tpl.top = None
     /\ d.circuits[CloneId(x)].template = CloneName(x)
     /\ d.circuits[CloneId(x)].tabs = x.spaces
     /\ d.circuits[CloneId(x)].over = None

IsCloneOf(d, tree) ==
  /\ d.old = tree.old /\ d.model = tree.size /\ d.bess = TranslatedBess(tree)
  /\ d.feed = None /\ d.section = None /\ d.drive = None /\ d.source = None
  /\ DOMAIN d.templates = {CloneName(x) : x \in Placed(tree)}
  /\ DOMAIN d.circuits = {CloneId(x) : x \in Placed(tree)}
  /\ \A x \in Placed(tree) : IsCopyOf(d, x)

LEMMA TranslatedIsClone ==
  ASSUME TellsApart(Nat), NEW tree, IsPublished(tree)
  PROVE  IsCloneOf(Translated(tree), tree)
<1> DEFINE firsts == {FirstSpace(circuit) : circuit \in Placed(tree)}
           at(s) == CHOOSE circuit \in Placed(tree) : FirstSpace(circuit) = s
           named(t) == CHOOSE s \in firsts : CloneAt(s) = t
           called(id) == CHOOSE s \in firsts : CircuitAt(s) = id
           T == [t \in {CloneAt(s) : s \in firsts} |-> TranslatedTemplate(at(named(t)))]
           C == [id \in {CircuitAt(s) : s \in firsts} |->
                   [template |-> CloneAt(called(id)), tabs |-> at(called(id)).spaces,
                    over |-> None, tuned |-> FALSE]]
<1>1. Translated(tree) =
        [old |-> tree.old, tabs |-> TotalTabs(tree), model |-> tree.size, templates |-> T,
         circuits |-> C, feed |-> None, section |-> None, bess |-> TranslatedBess(tree),
         drive |-> None, source |-> None]
  BY Zenon DEF Translated
<1>2. firsts \subseteq Nat
  <2>1. \A x \in Placed(tree) : FirstSpace(x) \in Nat
    BY FirstSpaceIsOne DEF IsPublished, IsPlaced
  <2> QED BY <2>1
<1>3. ASSUME NEW x \in Placed(tree)
      PROVE  /\ FirstSpace(x) \in firsts /\ at(FirstSpace(x)) = x
             /\ named(CloneName(x)) = FirstSpace(x) /\ called(CloneId(x)) = FirstSpace(x)
  <2>1. FirstSpace(x) \in firsts
    OBVIOUS
  <2>2. at(FirstSpace(x)) = x
    BY DEF IsPublished
  <2> HIDE DEF firsts
  <2>3. \A s \in firsts : CloneAt(s) = CloneName(x) => s = FirstSpace(x)
    BY <1>2, <2>1 DEF TellsApart, CloneName
  <2>4. \A s \in firsts : CircuitAt(s) = CloneId(x) => s = FirstSpace(x)
    BY <1>2, <2>1 DEF TellsApart, CloneId
  <2>5. CloneAt(FirstSpace(x)) = CloneName(x) /\ CircuitAt(FirstSpace(x)) = CloneId(x)
    BY DEF CloneName, CloneId
  <2> QED BY <2>1, <2>2, <2>3, <2>4, <2>5
<1>4. DOMAIN T = {CloneName(x) : x \in Placed(tree)} /\ DOMAIN C = {CloneId(x) : x \in Placed(tree)}
  BY DEF CloneName, CloneId
<1>5. ASSUME NEW x \in Placed(tree)
      PROVE  /\ T[CloneName(x)] = TranslatedTemplate(x)
             /\ C[CloneId(x)] = [template |-> CloneName(x), tabs |-> x.spaces,
                                 over |-> None, tuned |-> FALSE]
  <2>1. /\ at(named(CloneName(x))) = x /\ at(called(CloneId(x))) = x
        /\ CloneAt(called(CloneId(x))) = CloneName(x)
    <3>1. /\ at(FirstSpace(x)) = x /\ named(CloneName(x)) = FirstSpace(x)
          /\ called(CloneId(x)) = FirstSpace(x)
      BY <1>3
    <3> HIDE DEF at, named, called
    <3> QED BY <3>1 DEF CloneName
  <2>2. CloneName(x) \in {CloneAt(s) : s \in firsts} /\ CloneId(x) \in {CircuitAt(s) : s \in firsts}
    BY <1>3 DEF CloneName, CloneId
  <2>3. T[CloneName(x)] = TranslatedTemplate(at(named(CloneName(x))))
    <3> HIDE DEF at, named, firsts
    <3> QED BY <2>2
  <2>4. C[CloneId(x)] = [template |-> CloneAt(called(CloneId(x))),
                         tabs |-> at(called(CloneId(x))).spaces, over |-> None, tuned |-> FALSE]
    <3> HIDE DEF at, called, firsts
    <3> QED BY <2>2
  <2> HIDE DEF T, C, at, named, called
  <2> QED BY <2>1, <2>3, <2>4
<1> DEFINE d == Translated(tree)
<1>6. /\ d.old = tree.old /\ d.model = tree.size /\ d.bess = TranslatedBess(tree)
      /\ d.feed = None /\ d.section = None /\ d.drive = None /\ d.source = None
      /\ d.templates = T /\ d.circuits = C
  <2> HIDE DEF T, C
  <2> QED BY <1>1
<1> HIDE DEF T, C, d
<1>7. ASSUME NEW x \in Placed(tree) PROVE IsCopyOf(d, x)
  <2>1. TranslatedTemplate(x).top = None
    BY DEF TranslatedTemplate
  <2>2. d.templates[CloneName(x)] = TranslatedTemplate(x)
    BY <1>5, <1>6
  <2>3. d.circuits[CloneId(x)] = [template |-> CloneName(x), tabs |-> x.spaces,
                                  over |-> None, tuned |-> FALSE]
    BY <1>5, <1>6
  <2> QED BY <2>1, <2>2, <2>3 DEF IsCopyOf
<1>8. IsCloneOf(d, tree)
  BY <1>4, <1>6, <1>7 DEF IsCloneOf
<1> QED BY <1>8 DEF d

(* A clone's ratings are its templates' profiles: nothing else claims one. *)
LEMMA CloneClaimsNothing ==
  ASSUME NEW d, NEW tree, IsCloneOf(d, tree), NEW t \in DOMAIN d.templates
  PROVE  Claims(d, t) = {}
<1>1. d.templates[t].top = None /\ d.section = None
  BY DEF IsCloneOf, IsCopyOf
<1>2. \A id \in Users(d, t) : d.circuits[id].over = None
  BY DEF IsCloneOf, IsCopyOf, Users
<1>3. \A k : k \notin Claims(d, t)
  BY <1>1, <1>2, ClaimsAre
<1> QED BY <1>3

LEMMA NormalisedClone ==
  ASSUME NEW d, NEW tree, Editable(d), IsCloneOf(d, tree)
  PROVE  IsCloneOf(Normalise(d), tree)
<1> DEFINE f == Filled(d)
           n == FoldLegacyRatings(f, {})
<1>1. Normalise(d) = n
  BY EditableFolds
<1>2. \A t \in DOMAIN d.templates : d.templates[t].rated # Absent
  BY DEF Editable, AllRated
<1>3. /\ IsConfig(f) /\ f.old = d.old /\ f.model = d.model /\ f.feed = d.feed
      /\ f.bess = d.bess /\ f.source = d.source /\ f.section = d.section
      /\ f.drive = d.drive
      /\ f.circuits = d.circuits /\ DOMAIN f.templates = DOMAIN d.templates
      /\ \A t \in DOMAIN d.templates :
           /\ f.templates[t].device = d.templates[t].device
           /\ f.templates[t].priority = d.templates[t].priority
           /\ f.templates[t].locked = d.templates[t].locked
           /\ f.templates[t].commissioned = d.templates[t].commissioned
           /\ f.templates[t].neverBackup = d.templates[t].neverBackup
           /\ f.templates[t].top = d.templates[t].top
           /\ f.templates[t].rated = d.templates[t].rated
  <2>1. IsConfig(d)
    BY DEF Editable
  <2> HIDE DEF f
  <2> QED BY <1>2, <2>1, FilledKeys DEF f
<1>4. ASSUME NEW x \in Placed(tree)
      PROVE  /\ CloneName(x) \in DOMAIN d.templates
             /\ CloneId(x) \in DOMAIN d.circuits
  BY DEF IsCloneOf
<1> HIDE DEF f
<1>5. IsCloneOf(f, tree)
  <2>1. ASSUME NEW x \in Placed(tree) PROVE IsCopyOf(f, x)
    <3>1. IsCopyOf(d, x)
      BY DEF IsCloneOf
    <3> QED BY <1>3, <1>4, <3>1 DEF IsCopyOf
  <2> QED BY <1>3, <2>1 DEF IsCloneOf
<1>6. ASSUME NEW t \in DOMAIN f.templates
      PROVE  RatingPlan(f, t, {}).rating = None
  <2>1. Claims(f, t) = {}
    BY <1>5, CloneClaimsNothing
  <2> QED BY <2>1 DEF RatingPlan
<1>7. /\ n.old = f.old /\ n.model = f.model /\ n.feed = f.feed /\ n.bess = f.bess
      /\ n.source = f.source /\ n.section \in {None, f.section} /\ n.drive = f.drive
      /\ DOMAIN n.templates = DOMAIN f.templates /\ DOMAIN n.circuits = DOMAIN f.circuits
      /\ \A t \in DOMAIN f.templates : n.templates[t] = FoldedTemplate(f, {}, t)
      /\ \A id \in DOMAIN f.circuits : n.circuits[id] = FoldedCircuit(f, {}, id)
  <2>1. /\ n.templates = [t \in DOMAIN f.templates |-> FoldedTemplate(f, {}, t)]
        /\ n.circuits = [id \in DOMAIN f.circuits |-> FoldedCircuit(f, {}, id)]
        /\ n.old = f.old /\ n.model = f.model /\ n.feed = f.feed /\ n.bess = f.bess
        /\ n.source = f.source /\ n.section \in {None, f.section} /\ n.drive = f.drive
    BY <1>3, FoldKeys
  <2> HIDE DEF n
  <2> QED BY <2>1
<1> HIDE DEF n
<1>8. \A t \in DOMAIN f.templates :
        /\ n.templates[t].device = f.templates[t].device
        /\ n.templates[t].priority = f.templates[t].priority
        /\ n.templates[t].locked = f.templates[t].locked
        /\ n.templates[t].commissioned = f.templates[t].commissioned
        /\ n.templates[t].neverBackup = f.templates[t].neverBackup
        /\ n.templates[t].rated = f.templates[t].rated
        /\ n.templates[t].top \in {None, f.templates[t].top}
  BY <1>3, <1>6, <1>7, FoldedKeeps
<1>9. \A id \in DOMAIN f.circuits :
        /\ n.circuits[id].template = f.circuits[id].template
        /\ n.circuits[id].tabs = f.circuits[id].tabs
        /\ n.circuits[id].over \in {None, f.circuits[id].over}
  BY <1>3, <1>7, FoldedKeeps
<1>10. \A x \in Placed(tree) : CloneName(x) \in DOMAIN f.templates /\ CloneId(x) \in DOMAIN f.circuits
  BY <1>3, <1>4
<1>11. IsCloneOf(n, tree)
  <2>1. ASSUME NEW x \in Placed(tree) PROVE IsCopyOf(n, x)
    <3>1. IsCopyOf(f, x)
      BY <1>5 DEF IsCloneOf
    <3> QED BY <1>8, <1>9, <1>10, <3>1 DEF IsCopyOf
  <2> QED BY <1>5, <1>7, <2>1 DEF IsCloneOf
<1> QED BY <1>1, <1>11

(* Its PV circuits are those of the circuits that fed an inverter, and all *)
(* of them feed one again.                                                 *)
LEMMA CloneFeeds ==
  ASSUME TellsApart(Nat), NEW n, NEW tree, IsPublished(tree), IsCloneOf(n, tree)
  PROVE  /\ InverterFeeds(n) = {CloneId(x) : x \in {y \in Placed(tree) : y.feeds = "pv"}}
         /\ Bound(n) # Unbindable
<1> DEFINE pv == {y \in Placed(tree) : y.feeds = "pv"}
           P == PvCircuits(n)
<1>1. P = {CloneId(x) : x \in pv}
  <2>1. None # "pv"
    BY NoneIsNoValue
  <2>2. \A x \in Placed(tree) : (n.templates[CloneName(x)].device = "pv") = (x.feeds = "pv")
    BY <2>1 DEF IsCloneOf, IsCopyOf, TranslatedTemplate, Role
  <2>3. \A x \in Placed(tree) :
          /\ n.circuits[CloneId(x)].template = CloneName(x)
          /\ CloneName(x) \in DOMAIN n.templates
    BY DEF IsCloneOf, IsCopyOf
  <2>4. DOMAIN n.circuits = {CloneId(x) : x \in Placed(tree)}
    BY DEF IsCloneOf
  <2> QED BY <2>2, <2>3, <2>4 DEF PvCircuits, TemplateOf
<1>2. n.feed = None /\ n.old = tree.old
  BY DEF IsCloneOf
<1>3. \A id \in P : id # Unbindable
  <2>1. \A x \in Placed(tree) : FirstSpace(x) \in Nat
    BY FirstSpaceIsOne DEF IsPublished, IsPlaced
  <2>2. \A x \in Placed(tree) : CloneId(x) # Unbindable
    BY <2>1 DEF TellsApart, CloneId
  <2> QED BY <1>1, <2>2
<1>4. IsFiniteSet(P)
  <2> DEFINE f == [x \in pv |-> CloneId(x)]
  <2>1. IsFiniteSet(pv)
    BY FS_Subset DEF Placed, IsPublished, IsTree
  <2>2. DOMAIN f = pv /\ P = {f[x] : x \in DOMAIN f}
    BY <1>1
  <2> HIDE DEF f, pv, P
  <2> QED BY <2>1, <2>2, FiniteImage
<1>5. n.old => \A a, b \in P : a = b
  BY <1>1, <1>2 DEF IsPublished
<1>6. None # Unbindable
  BY NoneIsNoValue
<1> SUFFICES InverterFeeds(n) = P /\ Bound(n) # Unbindable
  BY <1>1
<1>7. CASE P = {}
  <2>1. Cardinality(P) = 0
    BY <1>7, FS_EmptySet
  <2>2. Bound(n) = None
    BY <1>2, <2>1 DEF Bound
  <2> QED BY <1>6, <1>7, <2>1, <2>2 DEF InverterFeeds
<1>8. CASE \E y : P = {y}
  <2>1. PICK y : P = {y}
    BY <1>8
  <2>2. Cardinality(P) = 1
    BY <2>1, FS_Singleton
  <2>3. Bound(n) = y
    BY <1>2, <2>1, <2>2 DEF Bound
  <2> QED BY <1>3, <2>1, <2>2, <2>3 DEF InverterFeeds
<1>9. CASE P # {} /\ \A y : P # {y}
  <2>1. Cardinality(P) \in Nat /\ Cardinality(P) # 0 /\ Cardinality(P) # 1
    BY <1>4, <1>9, FS_CardinalityType, FS_EmptySet, FS_Singleton
  <2>2. ~n.old
    <3>1. PICK y : y \in P
      BY <1>9
    <3>2. PICK z \in P : z # y
      BY <1>9, <3>1
    <3> QED BY <1>5, <3>1, <3>2
  <2>3. Bound(n) = None
    BY <1>2, <2>1, <2>2 DEF Bound
  <2> QED BY <1>6, <2>1, <2>2, <2>3 DEF InverterFeeds
<1> QED BY <1>7, <1>8, <1>9

(* It publishes each circuit as it was, but for a power of nothing.        *)
LEMMA ClonePublishes ==
  ASSUME TellsApart(Nat), NEW n, NEW tree, IsPublished(tree), IsCloneOf(n, tree),
         NEW x \in Placed(tree)
  PROVE  PublishedCircuit(n, CloneId(x)) = SizedCircuit(x)
<1> DEFINE id == CloneId(x)
           tpl == TemplateOf(n, id)
           p == PublishedCircuit(n, id)
<1>1. IsPlaced(x)
  BY DEF IsPublished
<1>2. /\ id \in DOMAIN n.circuits /\ n.circuits[id].template = CloneName(x)
      /\ CloneName(x) \in DOMAIN n.templates
      /\ n.circuits[id].tabs = x.spaces
      /\ tpl.device = Role(x) /\ tpl.priority = x.priority
      /\ tpl.locked = ~x.controllable /\ tpl.commissioned = Commissioned(x)
      /\ tpl.neverBackup = NeverBackup(x) /\ tpl.rated = Rating(x)
  BY DEF IsCloneOf, IsCopyOf, TemplateOf, TranslatedTemplate
<1>3. (id \in InverterFeeds(n)) = (x.feeds = "pv")
  <2>1. ASSUME NEW y \in Placed(tree), CloneId(y) = id PROVE y = x
    <3>1. FirstSpace(x) \in Nat /\ FirstSpace(y) \in Nat
      BY FirstSpaceIsOne DEF IsPublished, IsPlaced
    <3>2. FirstSpace(x) = FirstSpace(y)
      BY <2>1, <3>1 DEF TellsApart, CloneId
    <3> QED BY <3>2 DEF IsPublished
  <2>2. InverterFeeds(n) = {CloneId(y) : y \in {z \in Placed(tree) : z.feeds = "pv"}}
    BY CloneFeeds
  <2> QED BY <2>1, <2>2
<1>4. (id \in DriveFeeds(n)) = (x.feeds = "evse")
  <2>1. None # "evse"
    BY NoneIsNoValue
  <2>2. (id \in DriveFeeds(n)) = (tpl.device = "evse")
    BY <1>2 DEF DriveFeeds, IsCloneOf
  <2> QED BY <1>2, <2>1, <2>2 DEF Role
<1>5. p = [spaces |-> n.circuits[id].tabs, priority |-> tpl.priority,
           settable |-> ~tpl.neverBackup /\ ~tpl.commissioned,
           controllable |-> ~tpl.locked,
           feeds |-> IF id \in InverterFeeds(n) THEN "pv"
                     ELSE IF id \in DriveFeeds(n) THEN "evse" ELSE None,
           power |-> IF id \in InverterFeeds(n) THEN NominalPower(n, id) ELSE None]
  BY DEF PublishedCircuit
<1>6. x.feeds = "pv" =>
        NominalPower(n, id) = IF x.power > 0 THEN x.power ELSE DefaultWatts
  BY <1>1, <1>2 DEF NominalPower, Rating, IsPlaced
<1> DEFINE power == IF x.feeds = "pv" /\ ~(x.power > 0) THEN DefaultWatts ELSE x.power
<1> HIDE DEF tpl, id, p
<1>7. /\ (~tpl.neverBackup /\ ~tpl.commissioned) = x.settable
      /\ (~tpl.locked) = x.controllable
  BY <1>1, <1>2 DEF IsPlaced
<1>8. /\ (IF id \in InverterFeeds(n) THEN "pv"
          ELSE IF id \in DriveFeeds(n) THEN "evse" ELSE None) = x.feeds
      /\ (IF id \in InverterFeeds(n) THEN NominalPower(n, id) ELSE None) = power
  BY <1>1, <1>3, <1>4, <1>6 DEF IsPlaced
<1> HIDE DEF power
<1>9. p = [spaces |-> x.spaces, priority |-> x.priority, settable |-> x.settable,
           controllable |-> x.controllable, feeds |-> x.feeds, power |-> power]
  BY <1>2, <1>5, <1>7, <1>8
<1>10. x = [spaces |-> x.spaces, priority |-> x.priority, settable |-> x.settable,
            controllable |-> x.controllable, feeds |-> x.feeds, power |-> x.power]
  BY <1>1 DEF IsPlaced
<1>11. p = SizedCircuit(x)
  BY <1>9, <1>10 DEF SizedCircuit, power
<1> QED BY <1>11 DEF p, id

(* And it loads.                                                           *)
LEMMA CloneLoads ==
  ASSUME TellsApart(Nat), NEW n, NEW tree, IsPublished(tree), IsCloneOf(n, tree),
         Placed(tree) # {}
  PROVE  Valid(n)
<1>1. DOMAIN n.templates # {} /\ DOMAIN n.circuits # {}
  BY DEF IsCloneOf
<1>2. ASSUME NEW t \in DOMAIN n.templates PROVE CommissionedOK(n, t)
  <2>1. PICK x \in Placed(tree) : t = CloneName(x)
    BY DEF IsCloneOf
  <2>2. /\ n.old = tree.old
        /\ n.templates[t].commissioned = Commissioned(x)
        /\ n.templates[t].neverBackup = NeverBackup(x)
        /\ n.templates[t].priority = x.priority /\ n.templates[t].locked = ~x.controllable
    BY <2>1 DEF IsCloneOf, IsCopyOf, TranslatedTemplate
  <2>3. Commissioned(x) => /\ x.priority = "NEVER" /\ ~x.controllable
                           /\ ~NeverBackup(x) /\ ~tree.old
    BY DEF Commissioned, NeverBackup, IsPublished
  <2> QED BY <2>2, <2>3 DEF CommissionedOK
<1>3. ASSUME NEW id \in DOMAIN n.circuits PROVE CircuitOK(n, id)
  <2>1. PICK x \in Placed(tree) : id = CloneId(x)
    BY DEF IsCloneOf
  <2>2. /\ n.circuits[id].template \in DOMAIN n.templates
        /\ n.circuits[id].tabs = x.spaces
    BY <2>1 DEF IsCloneOf, IsCopyOf
  <2>3. x.spaces # {} /\ DoublePoleOK(x.spaces)
    BY DEF IsPublished, IsPlaced
  <2> QED BY <2>2, <2>3 DEF CircuitOK
<1>4. Bound(n) # Unbindable
  BY CloneFeeds
<1>5. ~RatingConflicts(n)
  <2>1. ~SectionConflict(n)
    BY DEF SectionConflict, IsCloneOf
  <2>2. ASSUME NEW t \in DOMAIN n.templates PROVE ~RatingPlan(n, t, {}).refused
    <3>1. Claims(n, t) = {}
      BY CloneClaimsNothing
    <3> QED BY <3>1 DEF RatingPlan
  <2> QED BY <2>1, <2>2 DEF RatingConflicts
<1>6. SourceOK(n)
  BY DEF SourceOK, IsCloneOf
<1> QED BY <1>1, <1>2, <1>3, <1>4, <1>5, <1>6 DEF Valid

(* A clone republishes what it read, whatever the edits made of the        *)
(* config: the panel made of the tree loads, and publishes the same        *)
(* battery and the same circuits at the same spaces, with the same locks,  *)
(* priorities, fed devices and ratings, but for a size of nothing, which a *)
(* clone takes for one not stated.  The files commission PV circuits only. *)
THEOREM ClonesRepublish ==
  ASSUME TellsApart(Nat), Commissionable = {"pv"}
  PROVE  Spec => []CloneRepublishes
<1>1. StoreInv => CloneRepublishes
  <2> DEFINE tree == Published(config)
             clone == Normalise(Translated(tree))
             again == Published(clone)
             sized == Sized(tree)
  <2> SUFFICES ASSUME StoreInv, config # Blank, Apart(config), Publishable(config),
                      Placed(tree) # {}
               PROVE  Valid(clone) /\ Facts(again) = Facts(sized)
    BY DEF CloneRepublishes
  <2>1. Editable(config) /\ Valid(config)
    BY DEF StoreInv
  <2>2. IsPublished(tree)
    BY <2>1, ConfigPublishes
  <2> HIDE DEF tree
  <2>3. IsCloneOf(clone, tree)
    <3>1. IsCloneOf(Translated(tree), tree)
      BY <2>2, TranslatedIsClone
    <3>2. Editable(Translated(tree))
      BY <2>2, CloneIsEditable DEF IsPublished
    <3> QED BY <3>1, <3>2, NormalisedClone
  <2> HIDE DEF clone
  <2>4. Valid(clone)
    BY <2>2, <2>3, CloneLoads
  <2>5. /\ sized.size = tree.size
        /\ sized.battery = IF tree.battery = 0 THEN None ELSE tree.battery
        /\ sized.circuits = {SizedCircuit(x) : x \in tree.circuits}
    BY <2>2 DEF Sized, IsPublished, IsTree
  <2>6. Placed(again) = Placed(sized)
    <3>1. DOMAIN clone.circuits = {CloneId(x) : x \in Placed(tree)}
      BY <2>3 DEF IsCloneOf
    <3>2. \A x \in Placed(tree) : PublishedCircuit(clone, CloneId(x)) = SizedCircuit(x)
      BY <2>2, <2>3, ClonePublishes
    <3>3. again.circuits = {PublishedCircuit(clone, id) : id \in DOMAIN clone.circuits}
      BY DEF Published
    <3>4. again.circuits = {SizedCircuit(x) : x \in Placed(tree)}
      BY <3>1, <3>2, <3>3
    <3>5. \A x \in tree.circuits : SizedCircuit(x).spaces = x.spaces
      BY DEF SizedCircuit
    <3> HIDE DEF again, sized
    <3> QED BY <2>5, <3>4, <3>5 DEF Placed
  <2>7. again.size = tree.size
    <3>1. clone.model = tree.size /\ tree.size # None
      BY <2>2, <2>3 DEF IsCloneOf, IsPublished, IsTree
    <3> QED BY <3>1 DEF Published, PublishedSize
  <2>8. again.battery = IF tree.battery = 0 THEN None ELSE tree.battery
    <3>1. clone.bess = TranslatedBess(tree)
      BY <2>3 DEF IsCloneOf
    <3>2. again.battery = PublishedBattery(clone)
      BY DEF Published
    <3>3. None # TRUE /\ None # 0
      <4>1. None \notin BOOLEAN /\ None \notin Int
        BY NoneIsNoValue
      <4>2. None # TRUE
        BY <4>1, Zenon
      <4>3. None # 0
        BY <4>1
      <4> QED BY <4>2, <4>3
    <3> HIDE DEF again
    <3>4. CASE tree.battery \in {None, 0}
      BY <3>1, <3>2, <3>3, <3>4 DEF TranslatedBess, NoBess, PublishedBattery
    <3>5. CASE tree.battery \notin {None, 0}
      BY <3>1, <3>2, <3>5 DEF TranslatedBess, PublishedBattery
    <3> QED BY <3>4, <3>5
  <2> HIDE DEF again, sized
  <2> QED BY <2>4, <2>5, <2>6, <2>7, <2>8 DEF Facts
<1> QED BY <1>1, StoreHolds, PTL
=============================================================================
