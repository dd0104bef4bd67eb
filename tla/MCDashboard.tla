---------------------------- MODULE MCDashboard ----------------------------
(* One default, the clone of one panel and a second name.                    *)
EXTENDS Dashboard, TLC

MCCloneFile == [p \in Panels |-> "clone"]
MCShipped ==
  [f \in {"default", "clone", "second"} |->
     IF f = "default" THEN [panel |-> None, marks |-> {}]
     ELSE IF f = "second" THEN [panel |-> "nt", marks |-> {"map"}] ELSE None]
MCSymmetry == Permutations(Slots)
=============================================================================
