---------------------------- MODULE ClonedPanel ----------------------------
(***************************************************************************)
(* The two directions between a config and the device tree of its panel:   *)
(* what a config publishes (emitter_adapter/spec_generator.py, through the *)
(* emitter) and the config a clone makes of a tree (clone.py), which a     *)
(* definition import runs too (definition_import.py).                      *)
(*                                                                         *)
(* A tree is a record                                                      *)
(*   old       the panel names a SPAN release before 202639                *)
(*   size      the number its model ends in                                *)
(*   battery   the capacity of the battery it publishes, or None           *)
(*   circuits  a set of circuits: their spaces, load-shed priority and     *)
(*             whether it is settable, relay-controllable, the kind of     *)
(*             device they feed and that device's nominal power            *)
(* Names and identities, energy registers, breakers, lugs, the MID, an     *)
(* inverter no circuit feeds and the panel's own values are left out.      *)
(***************************************************************************)
EXTENDS PanelConfig, Sequences, TLC

----------------------------------------------------------------------------
(* What a config publishes.                                                *)

\* The circuits that feed an inverter: a panel before 202639, or with one PV
\* circuit, publishes the single device of the pv section.
InverterFeeds(c) ==
  IF Cardinality(PvCircuits(c)) < 2 \/ c.old
  THEN {Bound(c)} \cap PvCircuits(c)
  ELSE PvCircuits(c)

\* The circuits that feed a drive: the one evse.feed names, which takes the place
\* of those whose templates are drives'.
DriveFeeds(c) ==
  IF c.drive # None THEN {c.drive}
  ELSE {id \in DOMAIN c.circuits :
          /\ c.circuits[id].template \in DOMAIN c.templates
          /\ TemplateOf(c, id).device = "evse"}

NominalPower(c, id) ==
  IF TemplateOf(c, id).rated = None THEN DefaultWatts ELSE TemplateOf(c, id).rated

PublishedCircuit(c, id) ==
  LET tpl == TemplateOf(c, id)
  IN [spaces       |-> c.circuits[id].tabs,
      priority     |-> tpl.priority,
      settable     |-> ~tpl.neverBackup /\ ~tpl.commissioned,
      controllable |-> ~tpl.locked,
      feeds        |-> IF id \in InverterFeeds(c) THEN "pv"
                       ELSE IF id \in DriveFeeds(c) THEN "evse" ELSE None,
      power        |-> IF id \in InverterFeeds(c) THEN NominalPower(c, id) ELSE None]

\* panel_model: the config's own model outlives a change of total_tabs.
PublishedSize(c) == IF c.model # None THEN c.model ELSE c.tabs

\* An enabled battery of no stated capacity has 13.5 kWh (here in tenths).
DefaultCapacity == 135

PublishedBattery(c) ==
  IF c.bess.enabled # TRUE THEN None
  ELSE IF c.bess.capacity = None THEN DefaultCapacity ELSE c.bess.capacity

Published(c) ==
  [old |-> c.old, size |-> PublishedSize(c), battery |-> PublishedBattery(c),
   circuits |-> {PublishedCircuit(c, id) : id \in DOMAIN c.circuits}]

\* The emitter refuses a never-backup circuit at any priority but OFF_GRID, and the
\* manifest a rating that is not a number.  What the emitter makes of a circuit two
\* devices name as their feed is its own: such a config is left out.
Publishable(c) ==
  /\ \A id \in DOMAIN c.circuits :
       TemplateOf(c, id).neverBackup => TemplateOf(c, id).priority = "OFF_GRID"
  /\ \A id \in InverterFeeds(c) : NominalPower(c, id) # NotWatts
  /\ InverterFeeds(c) \cap DriveFeeds(c) = {}

----------------------------------------------------------------------------
(* What a clone reads.                                                     *)

\* A circuit's spaces are listed in order; the first names what is made of it.
FirstSpace(circuit) == CHOOSE s \in circuit.spaces : \A r \in circuit.spaces : s <= r
CircuitAt(space) == "circuit_" \o ToString(space)
CloneAt(space) == "clone_" \o ToString(space)

\* Names tell some spaces apart, and none is the word for a feed that is wrong.
TellsApart(spaces) ==
  /\ \A a, b \in spaces : a # b => CircuitAt(a) # CircuitAt(b) /\ CloneAt(a) # CloneAt(b)
  /\ \A a \in spaces : CircuitAt(a) # Unbindable

\* A circuit without info/spaces is skipped.
Placed(tree) == {circuit \in tree.circuits : circuit.spaces # {}}

StandardSizes == {16, 24, 32, 40, 48}

ASSUME SpacesAreNamed == \A size \in StandardSizes : TellsApart(1..size)

\* The published size, unless a circuit lies beyond it.
TotalTabs(tree) ==
  LET used == UNION {circuit.spaces : circuit \in tree.circuits}
      fits(size) == \A s \in used : s <= size
  IN IF fits(tree.size) THEN tree.size
     ELSE IF \E size \in StandardSizes : fits(size)
     THEN CHOOSE size \in StandardSizes :
            /\ fits(size)
            /\ \A other \in StandardSizes : fits(other) => size <= other
     ELSE CHOOSE s \in used : fits(s)

Role(circuit) == IF circuit.feeds = None THEN "circuit" ELSE circuit.feeds

\* The third lock: both others, at NEVER, on a circuit that feeds an inverter.
\* The circuit of a backup system, which the simulator's own tree does not
\* connect to its battery, is told by its name and left out.
Commissioned(circuit) ==
  /\ ~circuit.settable
  /\ ~circuit.controllable
  /\ circuit.priority = "NEVER"
  /\ circuit.feeds = "pv"

\* Mutant: the lock read from the priority's value instead of its $settable.
NeverBackupByValue(circuit) == circuit.priority = "OFF_GRID"

NeverBackup(circuit) ==
  /\ ~circuit.settable
  /\ ~Commissioned(circuit)
  /\ circuit.priority = "OFF_GRID"

\* The inverter rates the template of the circuit that feeds it, if it is rated at
\* all: a power of none, or below, is not copied.
Rating(circuit) == IF circuit.feeds = "pv" /\ circuit.power > 0 THEN circuit.power ELSE None

TranslatedTemplate(circuit) ==
  [device |-> Role(circuit), priority |-> circuit.priority,
   locked |-> ~circuit.controllable, commissioned |-> Commissioned(circuit),
   neverBackup |-> NeverBackup(circuit), rated |-> Rating(circuit), top |-> None,
   recorder |-> None, user |-> FALSE, seeds |-> "fresh", shape |-> "clone"]

\* A config with no bess section.
NoBess ==
  [enabled |-> None, capacity |-> None, mode |-> "self-consumption", rate |-> FALSE,
   hours |-> "none"]

\* A battery of no capacity is taken for an empty slot.
TranslatedBess(tree) ==
  IF tree.battery \in {None, 0} THEN NoBess
  ELSE [enabled |-> TRUE, capacity |-> tree.battery, mode |-> "custom", rate |-> FALSE,
        hours |-> "static"]

\* What a missing key is told from: numbers, kinds of device, flags.
ASSUME NoneIsNoValue ==
  /\ None \notin Int /\ None \notin BOOLEAN
  /\ None \notin {"pv", "evse", Unbindable}

\* translate_panel_tree: every circuit on a template of its own, both named after
\* its first space.
Translated(tree) ==
  LET at(s) == CHOOSE circuit \in Placed(tree) : FirstSpace(circuit) = s
      firsts == {FirstSpace(circuit) : circuit \in Placed(tree)}
      named(name(_)) == {name(s) : s \in firsts}
      space(name(_), n) == CHOOSE s \in firsts : name(s) = n
  IN [old |-> tree.old, tabs |-> TotalTabs(tree), model |-> tree.size,
      templates |-> [t \in named(CloneAt) |->
                       TranslatedTemplate(at(space(CloneAt, t)))],
      circuits |-> [id \in named(CircuitAt) |->
                      LET s == space(CircuitAt, id)
                      IN [template |-> CloneAt(s), tabs |-> at(s).spaces,
                          over |-> None, tuned |-> FALSE]],
      feed |-> None, section |-> None, bess |-> TranslatedBess(tree), drive |-> None,
      source |-> None]

\* The dispatch a definition carries for the battery: the emitter's own knows no
\* custom mode.
Dispatched(bess) == [bess EXCEPT !.mode = "self-consumption"]

FromDefinition(tree) ==
  [Translated(tree) EXCEPT !.bess = IF tree.battery = None THEN @ ELSE Dispatched(@)]

\* A definition whose battery does not survive translation is refused.
Importable(tree) == tree.battery # 0

----------------------------------------------------------------------------
(* What a clone is for.                                                    *)

\* What a consumer of the tree finds at the panel's spaces.
Facts(tree) == [size |-> tree.size, battery |-> tree.battery, circuits |-> Placed(tree)]

\* The tree with what states no size read as unstated: an inverter of no power has
\* the default one, and a battery of no capacity is not there.
SizedCircuit(circuit) ==
  IF circuit.feeds = "pv" /\ ~(circuit.power > 0)
  THEN [circuit EXCEPT !.power = DefaultWatts] ELSE circuit

Sized(tree) ==
  [tree EXCEPT !.battery = IF @ = 0 THEN None ELSE @,
               !.circuits = {SizedCircuit(circuit) : circuit \in @}]
=============================================================================
