-------------------------------- MODULE Link --------------------------------
(***************************************************************************)
(* What a broker link promises to what is built on it (the docstrings of   *)
(* broker_link.py), with no clients, sockets, deadlines or back-off.       *)
(*                                                                         *)
(* The link is up on one session at a time, each later than the ones       *)
(* before, and never again once it is being closed.  An operation runs on  *)
(* the session that was live when it was called: it ends done or failed,   *)
(* it is recalled as soon as that session is no longer live, and it never  *)
(* outlasts the wait for the next.  One that fails on the live session     *)
(* takes it down.  A session is in service once every filter wanted has    *)
(* been asked for on it.                                                   *)
(***************************************************************************)
EXTENDS Naturals

CONSTANTS Users, Filters

VARIABLES
    phase,      \* the owner's: "new", "connecting", "up", "closing", "closed"
    dialling,   \* a connection is being made
    served,     \* the link has been up
    tries,      \* connections tried
    live,       \* the session operations are taken on, or 0
    inService,  \* the hook has run on the live session, its messages are read
    waiting,    \* the session each user's operation runs on, or 0
    recalled,   \* users whose operation's deadline is now
    wanted,     \* filters to route
    asked       \* filters asked for on the live session

owned == <<phase, dialling, served, tries>>
used == <<live, inService, waiting, recalled, wanted, asked>>
vars == <<owned, used>>

Init ==
    /\ phase = "new"
    /\ dialling = FALSE
    /\ served = FALSE
    /\ tries = 0
    /\ live = 0
    /\ inService = FALSE
    /\ waiting = [u \in Users |-> 0]
    /\ recalled = {}
    /\ wanted = {}
    /\ asked = {}

-----------------------------------------------------------------------------
\* The owner's side.  connect() is for the first connection only; later ones
\* are the link's own, and only once nothing is left of the session before.
Open ==
    /\ phase = "new"
    /\ phase' = "connecting"
    /\ dialling' = TRUE
    /\ tries' = tries + 1
    /\ UNCHANGED <<served, used>>

Opened ==
    /\ phase = "connecting"
    /\ served
    /\ phase' = "up"
    /\ UNCHANGED <<dialling, served, tries, used>>

Redial ==
    /\ phase = "up"
    /\ live = 0
    /\ ~dialling
    /\ \A u \in Users : waiting[u] = 0
    /\ dialling' = TRUE
    /\ tries' = tries + 1
    /\ UNCHANGED <<phase, served, used>>

DialEnds ==
    /\ dialling
    /\ dialling' = FALSE
    /\ UNCHANGED <<phase, served, tries, used>>

\* The first session is in service at once: nothing is built on the link yet.
Up ==
    /\ phase \in {"connecting", "up"}
    /\ dialling
    /\ dialling' = FALSE
    /\ served' = TRUE
    /\ live' = tries
    /\ asked' = {}
    /\ inService' = ~served
    /\ ~served => wanted = {}
    /\ UNCHANGED <<phase, tries, waiting, recalled, wanted>>

Close ==
    /\ phase \in {"connecting", "up"}
    /\ phase' = "closing"
    /\ UNCHANGED <<dialling, served, tries, used>>

Closed ==
    /\ phase = "closing"
    /\ live = 0
    /\ ~dialling
    /\ phase' = "closed"
    /\ UNCHANGED <<dialling, served, tries, used>>

-----------------------------------------------------------------------------
\* The session is over, and all that still runs on it is recalled at once.
Over ==
    /\ live' = 0
    /\ inService' = FALSE
    /\ asked' = {}

OthersOn(u) == {v \in Users \ {u} : waiting[v] = live}

Down ==
    /\ live # 0
    /\ Over
    /\ recalled' = recalled \union {u \in Users : waiting[u] = live}
    /\ UNCHANGED <<owned, waiting, wanted>>

\* The filters of the sessions before, in any order, and some that nobody
\* wants any more; then the hook.
Restore ==
    /\ live # 0
    /\ ~inService
    /\ \E f \in Filters : asked' = asked \union {f}
    /\ UNCHANGED <<owned, live, inService, waiting, recalled, wanted>>

Serve ==
    /\ live # 0
    /\ ~inService
    /\ wanted \subseteq asked
    /\ inService' = TRUE
    /\ UNCHANGED <<owned, live, waiting, recalled, wanted, asked>>

-----------------------------------------------------------------------------
\* The users' side.  A filter is recorded whether or not it can be asked for.
Begin(u) ==
    /\ waiting[u] = 0
    /\ waiting' = [waiting EXCEPT ![u] = live]
    /\ UNCHANGED <<owned, live, inService, recalled>>

Publish(u) == live # 0 /\ Begin(u) /\ UNCHANGED <<wanted, asked>>

Subscribe(u, f) ==
    /\ Begin(u)
    /\ wanted' = wanted \union {f}
    /\ asked' = IF live = 0 THEN asked ELSE asked \union {f}

Unsubscribe(u, f) ==
    /\ Begin(u)
    /\ wanted' = wanted \ {f}
    /\ asked' = IF live = 0 THEN asked ELSE asked \ {f}

Done(u) ==
    /\ waiting[u] # 0
    /\ waiting' = [waiting EXCEPT ![u] = 0]
    /\ recalled' = recalled \ {u}
    /\ UNCHANGED <<owned, live, inService, wanted, asked>>

\* Only an operation of the live session takes anything down with it.
Fails(u) ==
    /\ waiting[u] # 0
    /\ waiting' = [waiting EXCEPT ![u] = 0]
    /\ IF waiting[u] = live
       THEN Over /\ recalled' = (recalled \union OthersOn(u)) \ {u}
       ELSE UNCHANGED <<live, inService, asked>> /\ recalled' = recalled \ {u}
    /\ UNCHANGED <<owned, wanted>>

Use(u) ==
    \/ Publish(u)
    \/ \E f \in Filters : Subscribe(u, f) \/ Unsubscribe(u, f)

Next ==
    \/ Open \/ Opened \/ Redial \/ DialEnds \/ Up \/ Close \/ Closed
    \/ Down \/ Restore \/ Serve
    \/ \E u \in Users : phase # "new" /\ phase # "connecting" /\ Use(u)
    \/ \E u \in Users : Done(u) \/ Fails(u)

Spec == Init /\ [][Next]_vars
=============================================================================
