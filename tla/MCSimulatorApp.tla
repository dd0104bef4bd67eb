--------------------------- MODULE MCSimulatorApp ---------------------------
(***************************************************************************)
(* Small instances of SimulatorApp: two config files that may name the     *)
(* same serial, and a serial with two contents, as an edit leaves it.      *)
(***************************************************************************)
EXTENDS SimulatorApp

CONSTANTS a, c1, c1b, c2, broken, s1, s2

MCSerialOf == [c \in Contents |-> IF c = c2 THEN s2 ELSE s1]
MCInitialDisks == {[p \in Configs |-> IF p = a THEN c1 ELSE x] : x \in {c2, NoFile}}
MCBusyChoices == {{}, {BasePort}}
=============================================================================
