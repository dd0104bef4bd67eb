-------------------------- MODULE MCSimulationTime --------------------------
(***************************************************************************)
(* An instance of SimulationTime for TLC: half hours, statistics of an     *)
(* hour, one entity recorded throughout and one whose sensor was away.     *)
(***************************************************************************)
EXTENDS SimulationTime, TLC

CONSTANTS load, pv

Hours == {t \in 0..LastWall : t % 2 = 0}

MCHistory == load :> Hours @@ pv :> {0, 4}

MCRecorded == load :> [t \in Hours |-> IF t % 4 = 0 THEN 3 ELSE 0]
              @@ pv :> [t \in {0, 4} |-> t]

\* Configs that keep wall time, that run faster, and that start at a set time.
MCParams == {[use |-> FALSE, accel |-> 1, start |-> Never],
             [use |-> TRUE, accel |-> 3, start |-> Never],
             [use |-> TRUE, accel |-> 1, start |-> 3]}

=============================================================================
