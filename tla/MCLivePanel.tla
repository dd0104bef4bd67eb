---- MODULE MCLivePanel ----
\* Two files of two circuits: a load the recorder saw every hour of, and one with an
\* hour it never saw, a load in one file and an array in the other.  A day has three
\* hours and a week two days.
EXTENDS LivePanel, TLC

CONSTANTS oven, pump, first, second

MCCircuits == {oven, pump}
MCFiles == {first, second}
MCSunlight == (0 :> 0) @@ (1 :> 10) @@ (2 :> 5)
MCRecorded ==
    (oven :> ((<<0, 0>> :> 2) @@ (<<0, 1>> :> 4) @@ (<<0, 2>> :> 6)
           @@ (<<1, 0>> :> 4) @@ (<<1, 1>> :> 4) @@ (<<1, 2>> :> 3)))
    @@ (pump :> ((<<0, 0>> :> 6) @@ (<<0, 1>> :> None) @@ (<<0, 2>> :> 3)
              @@ (<<1, 0>> :> 0) @@ (<<1, 1>> :> None) @@ (<<1, 2>> :> 0)))
MCTemplate(mode, entity, locked) ==
    [mode |-> mode, typical |-> Whole(3), own |-> None, most |-> Whole(20), day |-> None,
     cycle |-> "timed", smart |-> FALSE, modified |-> FALSE, entity |-> entity,
     priority |-> "NEVER", locked |-> locked]
MCShipped ==
    (first :> ((oven :> MCTemplate("consumer", TRUE, FALSE))
            @@ (pump :> MCTemplate("consumer", TRUE, TRUE))))
    @@ (second :> ((oven :> MCTemplate("consumer", FALSE, FALSE))
                @@ (pump :> MCTemplate("producer", TRUE, FALSE))))
MCTickSlots == {<<0, 1>>, <<1, 0>>}
MCDrawn == {[h \in Hours |-> IF h = 1 THEN Whole(1) ELSE Zero]}
====
