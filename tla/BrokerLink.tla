----------------------------- MODULE BrokerLink -----------------------------
(***************************************************************************)
(* The supervised connection of one panel to its broker                    *)
(* (emitter_adapter/broker_link.py): a supervisor task that dials a fresh  *)
(* client for each connection, the operations other tasks run on it, and   *)
(* the owner that calls connect() and disconnect().                        *)
(*                                                                         *)
(* One action is what a task does between two awaits.  Client k is the     *)
(* k-th aiomqtt.Client, and stands for its _Session too once connected;    *)
(* client 0 is None.                                                       *)
(***************************************************************************)
EXTENDS MqttBroker, FiniteSets

CONSTANTS
    Filters,      \* subscription filters
    Restorer      \* the supervisor, as the task whose operations restore filters

ASSUME LinkAssumption == Restorer \notin Callers

Tasks == Callers \union {Restorer}

VARIABLES
    owner,         \* "new", "connecting", "up", "closing", "closed"
    connected,     \* the future connect() awaits: "pending", "ok", "error"
    sup,           \* where _supervise is
    cur,           \* the client of the supervisor's current attempt
    reconnecting,  \* _supervise's flag
    cancelled,     \* supervisor.cancel() has been called
    session,       \* self._session
    deadline,      \* session._serving: "none", "armed", "due"
    failed,        \* sessions whose `failed' is set
    reported,      \* sessions whose `outage_reported' is set
    warned,        \* (history) outage warnings logged since the link was last up
    traced,        \* (history) a traceback was logged for its end since then
    on,            \* the session each task's operation is in flight on, or 0
    cut,           \* tasks whose operation's deadline was brought forward
    routes,        \* the filters of self._routes
    todo,          \* filters _restore has yet to send
    sent,          \* filters a SUBSCRIBE was sent for, per client
    orphans        \* clients held by _close_when_connected

alarms == <<reported, warned, traced>>
linkVars == <<owner, connected, sup, cur, reconnecting, cancelled, session, deadline,
              failed, reported, warned, traced, on, cut, routes, todo, sent, orphans>>
vars == <<brokerVars, linkVars>>

SupervisorStates == {"none", "connecting", "restoring", "reading", "leaving",
                     "sleeping", "done"}

TypeOK ==
    /\ BrokerTypeOK
    /\ owner \in {"new", "connecting", "up", "closing", "closed"}
    /\ connected \in {"pending", "ok", "error"}
    /\ sup \in SupervisorStates
    /\ cur \in 0..MaxClients
    /\ reconnecting \in BOOLEAN
    /\ cancelled \in BOOLEAN
    /\ session \in 0..MaxClients
    /\ deadline \in {"none", "armed", "due"}
    /\ failed \in SUBSET Clients
    /\ reported \in SUBSET Clients
    /\ warned \in Nat
    /\ traced \in BOOLEAN
    /\ on \in [Tasks -> 0..MaxClients]
    /\ cut \in SUBSET Tasks
    /\ routes \in SUBSET Filters
    /\ todo \in SUBSET Filters
    /\ sent \in [Clients -> SUBSET Filters]
    /\ orphans \in SUBSET Clients

Init ==
    /\ BrokerInit
    /\ owner = "new"
    /\ connected = "pending"
    /\ sup = "none"
    /\ cur = 0
    /\ reconnecting = FALSE
    /\ cancelled = FALSE
    /\ session = 0
    /\ deadline = "none"
    /\ failed = {}
    /\ reported = {}
    /\ warned = 0
    /\ traced = FALSE
    /\ on = [c \in Tasks |-> 0]
    /\ cut = {}
    /\ routes = {}
    /\ todo = {}
    /\ sent = [k \in Clients |-> {}]
    /\ orphans = {}

-----------------------------------------------------------------------------
(***************************************************************************)
(* Pieces of several actions.                                              *)
(***************************************************************************)
InFlight(k) == {c \in Tasks : on[c] = k}

\* Mutant of Abandon: the other operations keep their deadlines.
AbandonsNothing(k, c) == cut' = cut \ {c}

\* abandon(): every operation in flight on k, but c's, which has just ended.
Abandon(k, c) == cut' = (cut \union InFlight(k)) \ {c}

\* _report_outage(): the first sign of a session's outage logs, the others do not.
ReportOutage(k) ==
    /\ reported' = reported \union {k}
    /\ warned' = IF k \in reported THEN warned ELSE warned + 1
    /\ UNCHANGED traced

\* _withdraw(): a DISCONNECT behind a CONNECT nobody waits for any more.
Withdraw(k) == Leave(k, "DISCONNECT")

\* Mutant of LeaveSession: a failed session says goodbye like any other.
AlwaysDisconnects(k) == Leave(k, "DISCONNECT")

\* _leave(): a failed session's socket is closed, any other says goodbye.
LeaveSession(k) == Leave(k, IF k \in failed THEN "FIN" ELSE "DISCONNECT")

\* _exit() of a live client waits for the broker; a dead or a failed client
\* is left at once.
LeavingWaits(k) == sock[k] = "open" /\ k \notin failed

\* The serving block and the session around it end, for whatever reason.
EndServing ==
    /\ session' = 0
    /\ deadline' = "none"
    /\ todo' = {}
    /\ on' = [on EXCEPT ![Restorer] = 0]
    /\ Abandon(cur, Restorer)

Serving == sup \in {"restoring", "reading"}

-----------------------------------------------------------------------------
(***************************************************************************)
(* The owner: connect() and disconnect().                                  *)
(***************************************************************************)
DialNext ==
    /\ cur < MaxClients
    /\ cur' = cur + 1
    /\ Dial(cur + 1)
    /\ sup' = "connecting"

Connect ==
    /\ owner = "new"
    /\ owner' = "connecting"
    /\ DialNext
    /\ UNCHANGED <<connected, reconnecting, cancelled, session, deadline, failed,
                   alarms, on, cut, routes, todo, sent, orphans>>

ConnectReturns ==
    /\ owner = "connecting"
    /\ connected = "ok"
    /\ owner' = "up"
    /\ UNCHANGED <<brokerVars, connected, sup, cur, reconnecting, cancelled, session,
                   deadline, failed, alarms, on, cut, routes, todo, sent, orphans>>

\* disconnect(), from the owner or from a connect() that failed or was cancelled.
Disconnect ==
    /\ owner \in {"connecting", "up"}
    /\ owner' = "closing"
    /\ cancelled' = TRUE
    /\ UNCHANGED <<brokerVars, connected, sup, cur, reconnecting, session, deadline,
                   failed, alarms, on, cut, routes, todo, sent, orphans>>

DisconnectReturns ==
    /\ owner = "closing"
    /\ sup = "done"
    /\ owner' = "closed"
    /\ UNCHANGED <<brokerVars, connected, sup, cur, reconnecting, cancelled, session,
                   deadline, failed, alarms, on, cut, routes, todo, sent, orphans>>

Owner == Connect \/ ConnectReturns \/ Disconnect \/ DisconnectReturns

-----------------------------------------------------------------------------
(***************************************************************************)
(* Connecting: _connected_session up to its yield.                         *)
(***************************************************************************)
\* Mutant of SupConnected: a reconnect restores no filter.
SupConnectedBare ==
    /\ sup = "connecting"
    /\ ~cancelled
    /\ conn[cur] = "held"
    /\ sock[cur] = "open"
    /\ session' = cur
    /\ deadline' = "armed"
    /\ sup' = "reading"
    /\ todo' = {}
    /\ reconnecting' = TRUE
    /\ warned' = 0
    /\ traced' = FALSE
    /\ connected' = IF connected = "pending" THEN "ok" ELSE connected
    /\ UNCHANGED <<brokerVars, owner, cur, cancelled, failed, reported, on, cut,
                   routes, sent, orphans>>

\* Mutant of SupConnected: a cancellation that the connect swallows.
SupConnectedLate ==
    /\ sup = "connecting"
    /\ conn[cur] = "held"
    /\ sock[cur] = "open"
    /\ session' = cur
    /\ deadline' = "armed"
    /\ sup' = IF reconnecting THEN "restoring" ELSE "reading"
    /\ todo' = IF reconnecting THEN routes ELSE {}
    /\ reconnecting' = TRUE
    /\ warned' = 0
    /\ traced' = FALSE
    /\ connected' = IF connected = "pending" THEN "ok" ELSE connected
    /\ UNCHANGED <<brokerVars, owner, cur, cancelled, failed, reported, on, cut,
                   routes, sent, orphans>>

SupConnected ==
    /\ sup = "connecting"
    /\ ~cancelled
    /\ conn[cur] = "held"
    /\ sock[cur] = "open"
    /\ session' = cur
    /\ deadline' = "armed"
    /\ sup' = IF reconnecting THEN "restoring" ELSE "reading"
    /\ todo' = IF reconnecting THEN routes ELSE {}
    /\ reconnecting' = TRUE
    /\ warned' = 0
    /\ traced' = FALSE
    /\ connected' = IF connected = "pending" THEN "ok" ELSE connected
    /\ UNCHANGED <<brokerVars, owner, cur, cancelled, failed, reported, on, cut,
                   routes, sent, orphans>>

\* Mutant of SupConnectFails: a reconnect that fails ends the supervisor too.
SupConnectGivesUp ==
    /\ sup = "connecting"
    /\ ~cancelled
    /\ sock[cur] = "dead" \/ Faulty(cur)
    /\ Withdraw(cur)
    /\ sup' = "done"
    /\ connected' = IF connected # "pending" THEN connected ELSE "error"
    /\ UNCHANGED <<owner, cur, reconnecting, cancelled, session, deadline, failed,
                   alarms, on, cut, routes, todo, sent, orphans>>

\* Mutant of SupConnectFails: a refused reconnect warns of the outage again.
SupConnectFailsAloud ==
    /\ sup = "connecting"
    /\ ~cancelled
    /\ sock[cur] = "dead" \/ Faulty(cur)
    /\ Withdraw(cur)
    /\ sup' = IF reconnecting THEN "sleeping" ELSE "done"
    /\ connected' = IF reconnecting \/ connected # "pending" THEN connected ELSE "error"
    /\ warned' = IF reconnecting THEN warned + 1 ELSE warned
    /\ UNCHANGED <<owner, cur, reconnecting, cancelled, session, deadline, failed,
                   reported, traced, on, cut, routes, todo, sent, orphans>>

\* aiomqtt raised: refused, dropped, or no CONNACK in time.  The first connect
\* fails the start and ends the supervisor.
SupConnectFails ==
    /\ sup = "connecting"
    /\ ~cancelled
    /\ sock[cur] = "dead" \/ Faulty(cur)
    /\ Withdraw(cur)
    /\ sup' = IF reconnecting THEN "sleeping" ELSE "done"
    /\ connected' = IF reconnecting \/ connected # "pending" THEN connected ELSE "error"
    /\ UNCHANGED <<owner, cur, reconnecting, cancelled, session, deadline, failed,
                   alarms, on, cut, routes, todo, sent, orphans>>

\* Mutant of SupConnectCancelled: nobody is left to close the late client.
SupConnectForgotten ==
    /\ sup = "connecting"
    /\ cancelled
    /\ sup' = "done"
    /\ UNCHANGED <<brokerVars, owner, connected, cur, reconnecting, cancelled, session,
                   deadline, failed, alarms, on, cut, routes, todo, sent, orphans>>

\* The await was cancelled; the connect's thread runs on and its client is
\* handed to _close_when_connected.
SupConnectCancelled ==
    /\ sup = "connecting"
    /\ cancelled
    /\ orphans' = orphans \union {cur}
    /\ sup' = "done"
    /\ UNCHANGED <<brokerVars, owner, connected, cur, reconnecting, cancelled, session,
                   deadline, failed, alarms, on, cut, routes, todo, sent>>

\* _close_when_connected: a client that connected exits, one that did not is
\* withdrawn.  Either way a DISCONNECT follows its CONNECT.
OrphanCloses(k) ==
    /\ k \in orphans
    /\ conn[k] = "held" \/ sock[k] = "dead" \/ Faulty(k)
    /\ Withdraw(k)
    /\ orphans' = orphans \ {k}
    /\ UNCHANGED <<owner, connected, sup, cur, reconnecting, cancelled, session,
                   deadline, failed, alarms, on, cut, routes, todo, sent>>

-----------------------------------------------------------------------------
(***************************************************************************)
(* Serving: _restore, then the reader.                                     *)
(***************************************************************************)
RestoreSends ==
    /\ sup = "restoring"
    /\ ~cancelled
    /\ on[Restorer] = 0
    /\ \E f \in todo :
        /\ todo' = todo \ {f}
        /\ sent' = [sent EXCEPT ![cur] = @ \union {f}]
    /\ on' = [on EXCEPT ![Restorer] = cur]
    /\ UNCHANGED <<brokerVars, owner, connected, sup, cur, reconnecting, cancelled,
                   session, deadline, failed, alarms, cut, routes, orphans>>

RestoreAcknowledged ==
    /\ sup = "restoring"
    /\ ~cancelled
    /\ on[Restorer] # 0
    /\ conn[cur] = "held"
    /\ sock[cur] = "open"
    /\ on' = [on EXCEPT ![Restorer] = 0]
    /\ cut' = cut \ {Restorer}
    /\ UNCHANGED <<brokerVars, owner, connected, sup, cur, reconnecting, cancelled,
                   session, deadline, failed, alarms, routes, todo, sent, orphans>>

\* Every filter is restored: the hook runs and the reader starts.
RunHook ==
    /\ sup = "restoring"
    /\ ~cancelled
    /\ todo = {}
    /\ on[Restorer] = 0
    /\ sup' = "reading"
    /\ UNCHANGED <<brokerVars, owner, connected, cur, reconnecting, cancelled, session,
                   deadline, failed, alarms, on, cut, routes, todo, sent, orphans>>

\* A restore's operation failed: _fail, then out of the serving block and of
\* the session, which is left without a DISCONNECT, and into the back-off.
RestoreFails ==
    /\ sup = "restoring"
    /\ ~cancelled
    /\ on[Restorer] # 0
    /\ Restorer \in cut \/ sock[cur] = "dead" \/ Faulty(cur)
    /\ ReportOutage(cur)
    /\ failed' = failed \union {cur}
    /\ EndServing
    /\ Leave(cur, "FIN")
    /\ sup' = "sleeping"
    /\ UNCHANGED <<owner, connected, cur, reconnecting, cancelled, routes, sent, orphans>>

\* client.messages raised: the reader saw the link drop.
ReaderSeesDrop ==
    /\ sup = "reading"
    /\ ~cancelled
    /\ sock[cur] = "dead"
    /\ EndServing
    /\ LeaveSession(cur)
    /\ ReportOutage(cur)
    /\ sup' = "sleeping"
    /\ UNCHANGED <<owner, connected, cur, reconnecting, cancelled, failed, routes, sent,
                   orphans>>

\* The deadline an operation's failure brought forward: TimeoutError, already
\* reported by what failed.
DeadlineFires ==
    /\ Serving
    /\ ~cancelled
    /\ deadline = "due"
    /\ EndServing
    /\ LeaveSession(cur)
    /\ sup' = IF LeavingWaits(cur) THEN "leaving" ELSE "sleeping"
    /\ UNCHANGED <<owner, connected, cur, reconnecting, cancelled, failed, alarms,
                   routes, sent, orphans>>

\* Any other exception out of the serving block: logged with its traceback.
ServingRaises ==
    /\ Serving
    /\ ~cancelled
    /\ Faulty(cur)
    /\ EndServing
    /\ LeaveSession(cur)
    /\ sup' = IF LeavingWaits(cur) THEN "leaving" ELSE "sleeping"
    /\ traced' = TRUE
    /\ UNCHANGED <<owner, connected, cur, reconnecting, cancelled, failed, reported, warned,
                   routes, sent, orphans>>

\* disconnect()'s cancellation reaches the serving block.
ServingCancelled ==
    /\ Serving
    /\ cancelled
    /\ EndServing
    /\ LeaveSession(cur)
    /\ sup' = IF LeavingWaits(cur) THEN "leaving" ELSE "done"
    /\ UNCHANGED <<owner, connected, cur, reconnecting, cancelled, failed, alarms,
                   routes, sent, orphans>>

\* aiomqtt's exit is over: the broker closed the connection, the wait timed
\* out, or a cancellation cut it short.
LeaveEnds ==
    /\ sup = "leaving"
    /\ sup' = IF cancelled THEN "done" ELSE "sleeping"
    /\ UNCHANGED <<brokerVars, owner, connected, cur, reconnecting, cancelled, session,
                   deadline, failed, alarms, on, cut, routes, todo, sent, orphans>>

-----------------------------------------------------------------------------
(***************************************************************************)
(* The back-off.  The delay is a second or more.  An operation whose       *)
(* deadline is now raises in the next turn of the loop, and connect()      *)
(* returns in the next turn too, so neither is still to come when the      *)
(* delay is over.  The last client is dialled once the broker has settled  *)
(* the earlier ones, whose takeover would otherwise call for a client      *)
(* beyond the bound.                                                       *)
(***************************************************************************)
Settled(k) == conn[k] \in {"none", "gone"}

SleepEnds ==
    /\ sup = "sleeping"
    /\ ~cancelled
    /\ cut = {}
    /\ owner # "connecting"
    /\ cur + 1 = MaxClients => \A k \in 1..cur : Settled(k)
    /\ DialNext
    /\ UNCHANGED <<owner, connected, reconnecting, cancelled, session, deadline, failed,
                   alarms, on, cut, routes, todo, sent, orphans>>

SleepCancelled ==
    /\ sup = "sleeping"
    /\ cancelled
    /\ sup' = "done"
    /\ UNCHANGED <<brokerVars, owner, connected, cur, reconnecting, cancelled, session,
                   deadline, failed, alarms, on, cut, routes, todo, sent, orphans>>

\* The supervisor's steps but its catch-all and the two that a panel built on
\* the link takes part in.
SuperviseAlone ==
    \/ SupConnected \/ SupConnectFails \/ SupConnectCancelled
    \/ RestoreSends \/ RestoreAcknowledged \/ RestoreFails
    \/ ReaderSeesDrop \/ DeadlineFires \/ ServingCancelled
    \/ LeaveEnds \/ SleepCancelled

Supervise == SuperviseAlone \/ ServingRaises \/ RunHook \/ SleepEnds

-----------------------------------------------------------------------------
(***************************************************************************)
(* Operations.  With no session they raise BrokerUnavailable at once,      *)
(* which only subscribe() and unsubscribe() leave a trace of, in _routes.  *)
(***************************************************************************)
\* Mutant of StartOperation: the operation is counted on the next client.
StartOperationAhead(c) == on' = [on EXCEPT ![c] = session + 1]

StartOperation(c) == on' = [on EXCEPT ![c] = session]

Publish(c, t, v) ==
    /\ on[c] = 0
    /\ session # 0
    /\ StartOperation(c)
    /\ Send(session, [by |-> c, topic |-> t, value |-> v])
    /\ UNCHANGED <<owner, connected, sup, cur, reconnecting, cancelled, session, deadline,
                   failed, alarms, cut, routes, todo, sent, orphans>>

Subscribe(c, f) ==
    /\ on[c] = 0
    /\ routes' = routes \union {f}
    /\ StartOperation(c)
    /\ sent' = IF session = 0 THEN sent ELSE [sent EXCEPT ![session] = @ \union {f}]
    /\ UNCHANGED <<brokerVars, owner, connected, sup, cur, reconnecting, cancelled,
                   session, deadline, failed, alarms, cut, todo, orphans>>

Unsubscribe(c, f) ==
    /\ on[c] = 0
    /\ routes' = routes \ {f}
    /\ StartOperation(c)
    /\ sent' = IF session = 0 THEN sent ELSE [sent EXCEPT ![session] = @ \ {f}]
    /\ UNCHANGED <<brokerVars, owner, connected, sup, cur, reconnecting, cancelled,
                   session, deadline, failed, alarms, cut, todo, orphans>>

OperationDone(c) ==
    /\ on[c] # 0
    /\ sock[on[c]] = "open"
    /\ Acknowledged(c, on[c])
    /\ on' = [on EXCEPT ![c] = 0]
    /\ cut' = cut \ {c}
    /\ UNCHANGED <<brokerVars, owner, connected, sup, cur, reconnecting, cancelled,
                   session, deadline, failed, alarms, routes, todo, sent, orphans>>

\* Mutant of Fail: the failed session stays the live one.
FailKeepingTheSession(k, c) ==
    /\ ReportOutage(k)
    /\ UNCHANGED session
    /\ failed' = failed \union {k}
    /\ deadline' = IF cur = k /\ deadline # "none" THEN "due" ELSE deadline
    /\ Abandon(k, c)

\* _fail(): report the outage, take the session down, bring its deadline and
\* those of every other operation on it forward to now.
Fail(k, c) ==
    /\ ReportOutage(k)
    /\ session' = IF session = k THEN 0 ELSE session
    /\ failed' = failed \union {k}
    /\ deadline' = IF cur = k /\ deadline # "none" THEN "due" ELSE deadline
    /\ Abandon(k, c)

\* Cut short, refused by a socket that is gone, or never acknowledged.
OperationFails(c) ==
    /\ on[c] # 0
    /\ c \in cut \/ sock[on[c]] = "dead" \/ Faulty(on[c])
    /\ Fail(on[c], c)
    /\ on' = [on EXCEPT ![c] = 0]
    /\ UNCHANGED <<brokerVars, owner, connected, sup, cur, reconnecting, cancelled,
                   routes, todo, sent, orphans>>

Operate(c) ==
    \/ \E t \in Topics, v \in Payloads : Publish(c, t, v)
    \/ \E f \in Filters : Subscribe(c, f) \/ Unsubscribe(c, f)

OperationEnds(c) == OperationDone(c) \/ OperationFails(c)

Network == (Broker \/ Faults) /\ UNCHANGED linkVars

-----------------------------------------------------------------------------
\* The link's transport is built once connect() has returned.
Next ==
    \/ Owner
    \/ Supervise
    \/ \E k \in Clients : OrphanCloses(k)
    \/ \E c \in Callers : owner # "new" /\ owner # "connecting" /\ Operate(c)
    \/ \E c \in Callers : OperationEnds(c)
    \/ Network

Spec == Init /\ [][Next]_vars

-----------------------------------------------------------------------------
(***************************************************************************)
(* Safety.                                                                 *)
(***************************************************************************)

\* One client per connection, and none that nobody owns: a socket still open
\* is the supervisor's own or waits in _orphans to be closed.  So no client
\* the link gave up on holds the panel's id and will.
NoStrayClient ==
    \A k \in Clients : sock[k] \in {"open", "dead"} =>
        \/ k \in orphans
        \/ k = cur /\ sup \in {"connecting", "restoring", "reading"}

\* A client the link left has told the broker so, behind whatever it sent:
\* the broker that reads to the end of the stream lets go of the id.
LeftClientsSayGoodbye ==
    \A k \in Clients : sock[k] = "closed" => bye[k] # "no" \/ conn[k] = "gone"

\* Nothing waits on a dead socket: an operation whose session is no longer the
\* live one has its deadline at now.  The restore's own operation is covered
\* by the session's deadline as well.
NothingWaitsOnADeadSession ==
    \A c \in Tasks : on[c] # 0 /\ on[c] # session =>
        c \in cut \/ (c = Restorer /\ deadline = "due")

\* A failed operation ends the session: a session that failed while it is
\* served is no longer handed out, and its deadline has been brought forward.
FailedSessionEnds ==
    /\ session # 0 => session \notin failed /\ session = cur
    /\ Serving /\ cur \in failed => deadline = "due"

\* Once the reader runs on a live session, the broker has been asked for every
\* route: those restored, and those recorded since, even during the outage.
RoutesRestored ==
    sup = "reading" /\ session # 0 => routes \subseteq sent[session]

\* An outage is reported once (broker_link.py's docstring).  While the link is up
\* nothing is; from its end until it is up again one warning has been logged,
\* whichever of an operation, the restore and the reader saw it first, whatever
\* still fails on the old session, and however many reconnects are refused.  A
\* serving block that raised is logged with its traceback, which may be all.
\* Until disconnect(): what it cuts short may then report an outage of its own.
OutageReportedOnce ==
    /\ warned <= 1
    /\ session # 0 => warned = 0
    /\ reconnecting /\ ~cancelled /\ session = 0 => warned = 1 \/ traced

\* A failed session leaves without a DISCONNECT, however its block ends, so
\* the broker keeps the will that the panel's state then needs.
FailedSessionKeepsItsWill ==
    [][\A k \in failed : sock[k] = "open" /\ sock'[k] = "closed" => bye'[k] # "DISCONNECT"]_vars

(***************************************************************************)
(* The bookkeeping behind these: what relates the supervisor's place, the  *)
(* session it serves, the operations in flight and the clients left behind. *)
(* It is the inductive invariant of BrokerLinkProofs.                      *)
(***************************************************************************)
OwnerBooks ==
    /\ owner = "new" <=> sup = "none"
    /\ owner = "up" => connected = "ok"
    /\ connected = "ok" => reconnecting
    /\ owner \in {"closing", "closed"} => cancelled

SessionBooks ==
    /\ sup = "none" <=> cur = 0
    /\ Serving <=> deadline # "none"
    /\ session # 0 => Serving /\ session = cur
    /\ Serving /\ session = 0 => deadline = "due"
    /\ deadline = "due" => cur \in failed
    /\ failed \subseteq reported
    /\ \A k \in reported : k <= cur
    /\ sup = "connecting" => cur \notin reported

OperationBooks ==
    /\ \A c \in Tasks : on[c] <= cur /\ (sup = "connecting" => on[c] # cur)
    /\ on[Restorer] # 0 => sup = "restoring" /\ on[Restorer] = cur

ClientBooks ==
    /\ sup \in {"connecting", "restoring", "reading"} => sock[cur] \in {"open", "dead"}
    /\ orphans # {} => sup = "done"
    /\ \A k \in orphans : /\ sock[k] \in {"open", "dead"}
                          /\ k \notin failed
                          /\ \A c \in Tasks : on[c] # k
    /\ \A k \in Clients : sock[k] = "dead" => bye[k] # "no" \/ conn[k] = "gone"

RouteBooks ==
    /\ ~reconnecting /\ ~cancelled => routes = {}
    /\ sup = "restoring" /\ session # 0 => routes \subseteq sent[session] \union todo

\* The books balance: no session is handed out that is not the one being
\* served and unfailed, no operation is counted on a client that never
\* connected or was abandoned, and every route of a session under restore has
\* been sent or is still to be.
BooksBalance == OwnerBooks /\ SessionBooks /\ OperationBooks /\ ClientBooks /\ RouteBooks

(***************************************************************************)
(* What is built on the link sees its owner's phase, the session it can    *)
(* use and its own operations (Link).  The filters asked for are those of  *)
(* the live session; the restore's own operations are not a user's.        *)
(***************************************************************************)
Promise == INSTANCE Link WITH
    Users <- Callers,
    phase <- owner,
    dialling <- (sup = "connecting"),
    served <- reconnecting,
    tries <- cur,
    live <- session,
    inService <- (sup = "reading" /\ session # 0),
    waiting <- [c \in Callers |-> on[c]],
    recalled <- cut \ {Restorer},
    wanted <- routes,
    asked <- (IF session = 0 THEN {} ELSE sent[session])

\* The supervisor, its deadlines and its clients implement the link that
\* broker_link.py describes: whatever drops, fails or is cancelled, and in
\* whatever order the tasks learn of it, sessions follow one another, an
\* operation belongs to one of them, and a closed link stays down.
LinkPromised == Promise!Spec

(***************************************************************************)
(* Liveness, under the fairness of the panel built on the link, whose tick *)
(* keeps trying it.                                                        *)
(***************************************************************************)

\* The supervisor keeps the link up until disconnect(): once the faults are
\* over, it serves a session the broker holds, and goes on doing so.
LinkKeptUp ==
    <>[](owner = "up")
      => <>[](sup = "reading" /\ session = cur /\ conn[cur] = "held")

\* disconnect() returns, and from some point on no connection of the link's is
\* left at the broker: no orphan, no late connect.
NothingOutlivesTheLink ==
    <>[](owner \in {"closing", "closed"} => owner = "closed" /\ \A k \in Clients : Settled(k))
=============================================================================
