--------------------------- MODULE MCConfigStore ---------------------------
(* Files of one or two PV circuits and a recorded kitchen, the ratings       *)
(* written in every place the loader knows, the locks a panel commissions; a *)
(* kitchen wired to a drive, with a battery switched off; forms of each      *)
(* field.                                                                    *)
EXTENDS ConfigStore

CONSTANTS Rated, Tops, Overs, Sections, Feeds

MCTemplate(device, priority, commissioned, neverBackup, rated, top, recorder) ==
  [device |-> device, priority |-> priority, locked |-> device = "pv",
   commissioned |-> commissioned, neverBackup |-> neverBackup, rated |-> rated, top |-> top,
   recorder |-> recorder, user |-> FALSE, seeds |-> "none", shape |-> "default"]

MCCircuit(template, tabs, over) ==
  [template |-> template, tabs |-> tabs, over |-> over, tuned |-> FALSE]

MCBess(wired) == IF wired THEN [DefaultBess EXCEPT !.enabled = FALSE] ELSE NoBess

MCFile(old, rated, top, over, section, feed, second, wired) ==
  [old |-> old, tabs |-> 6,
   model |-> IF second THEN 4 ELSE None,
   templates |->
     [solar_inverter_tpl |->
        MCTemplate("pv", "NEVER", ~old /\ top = None, FALSE, rated, top, None),
      clone_2 |-> MCTemplate("circuit", IF over = None THEN "NEVER" ELSE "OFF_GRID",
                             FALSE, over # None, None, None, "sensor")],
   circuits |->
     IF second
     THEN [solar_inverter |-> MCCircuit("solar_inverter_tpl", {1, 3}, over),
           kitchen |-> MCCircuit("clone_2", {2}, None),
           roof |-> MCCircuit("solar_inverter_tpl", {}, None)]
     ELSE [solar_inverter |-> MCCircuit("solar_inverter_tpl", {1, 3}, over),
           kitchen |-> MCCircuit("clone_2", {2}, None)],
   feed |-> feed, section |-> section, bess |-> MCBess(wired),
   drive |-> IF wired THEN "kitchen" ELSE None,
   source |-> [origin |-> "nt-1", map |-> << >>, snapshots |-> << >>]]

\* A feed decides which circuit the section describes only where there are two;
\* no rating has a say in what a drive is wired to.
MCFiles ==
  {MCFile(old, rated, top, over, section, feed[1], feed[2], FALSE) :
     old \in BOOLEAN, rated \in Rated, top \in Tops, over \in Overs,
     section \in Sections, feed \in {<<None, FALSE>>} \cup (Feeds \X {TRUE})}
  \cup
  {MCFile(old, 4000, None, over, None, feed[1], feed[2], TRUE) :
     old \in BOOLEAN, over \in Overs,
     feed \in {<<None, FALSE>>} \cup (Feeds \X {TRUE})}

MCNames ==
  [circuit |-> [ids |-> <<"new_circuit", "new_circuit_2">>, template |-> "new_circuit_tpl"],
   pv |-> [ids |-> <<"solar_inverter", "solar_inverter_2">>, template |-> "solar_inverter_tpl"]]

MCForms ==
  {[priority |-> "OFF_GRID"], [priority |-> "NEVER"], [locked |-> TRUE, _dirty |-> TRUE],
   [nameplate |-> 4000], [nameplate |-> 0], [power |-> TRUE], [tabs |-> {4}], [tabs |-> {1, 2}]}

MCSpaces == {{4}, {4, 6}, {1, 3}}
=============================================================================
