-------------------------- MODULE BrokerLinkProofs --------------------------
(***************************************************************************)
(* Proofs about the broker link, for every number of clients, callers,     *)
(* topics and filters.                                                     *)
(***************************************************************************)
EXTENDS BrokerLink, TLAPS

USE DEF Clients, Tasks, Payloads, alarms

\* What each part of the broker and of the network does keeps the types of the
\* connections.
LEMMA NetworkTypes == ASSUME BrokerTypeOK, Broker \/ Faults PROVE BrokerTypeOK'
<1>a. WillPublished \in [Topics -> Values \union {Lost, Empty}]
  BY BrokerAssumption DEF BrokerTypeOK, WillPublished
<1>1. ASSUME NEW k \in Clients, BrokerAccepts(k) PROVE BrokerTypeOK'
  BY <1>1, <1>a DEF BrokerTypeOK, BrokerAccepts
<1>2. ASSUME NEW k \in Clients, BrokerReads(k) PROVE BrokerTypeOK'
  <2>1. /\ Head(unread[k]) \in Packets
        /\ Tail(unread[k]) \in Seq(Packets)
    BY <1>2 DEF BrokerTypeOK, BrokerReads
  <2>2. retained' \in [Topics -> Values \union {Lost, Empty}]
    BY <1>2, <2>1 DEF BrokerTypeOK, BrokerReads, Packets
  <2>3. QED BY <1>2, <2>1, <2>2 DEF BrokerTypeOK, BrokerReads
<1>3. ASSUME NEW k \in Clients, BrokerReadsBye(k) PROVE BrokerTypeOK'
  BY <1>3, <1>a DEF BrokerTypeOK, BrokerReadsBye
<1>4. ASSUME NEW k \in Clients, ConnectRefused(k) PROVE BrokerTypeOK'
  BY <1>4 DEF BrokerTypeOK, ConnectRefused
<1>5. ASSUME NEW k \in Clients, ConnectionCut(k) PROVE BrokerTypeOK'
  BY <1>5, <1>a DEF BrokerTypeOK, ConnectionCut
<1>6. ASSUME NEW k \in Clients, SocketDies(k) PROVE BrokerTypeOK'
  BY <1>6 DEF BrokerTypeOK, SocketDies
<1>7. CASE BrokerRestarts
  BY <1>7 DEF BrokerTypeOK, BrokerRestarts
<1>8. QED
  BY <1>1, <1>2, <1>3, <1>4, <1>5, <1>6, <1>7 DEF Broker, BrokerTakes, Faults

\* So do the link's own calls on a connection.
LEMMA LeaveTypes ==
  ASSUME BrokerTypeOK, NEW k, NEW g \in {"DISCONNECT", "FIN"}, Leave(k, g)
  PROVE  BrokerTypeOK'
BY DEF BrokerTypeOK, Leave

LEMMA DialTypes ==
  ASSUME BrokerTypeOK, NEW k \in Clients, Dial(k) PROVE BrokerTypeOK'
BY DEF BrokerTypeOK, Dial

LEMMA SendTypes ==
  ASSUME BrokerTypeOK, NEW k \in Clients, NEW p \in Packets, Send(k, p) PROVE BrokerTypeOK'
<1>1. Append(unread[k], p) \in Seq(Packets)
  BY DEF BrokerTypeOK
<1>2. QED BY <1>1 DEF BrokerTypeOK, Send

LEMMA IdleTypes == ASSUME BrokerTypeOK, UNCHANGED brokerVars PROVE BrokerTypeOK'
BY DEF BrokerTypeOK, brokerVars

-----------------------------------------------------------------------------
\* A supervisor that has started has a client.
Typed == TypeOK /\ (sup # "none" => cur # 0)

LEMMA InitTyped == Init => Typed
<1>1. BrokerInit => BrokerTypeOK
  BY BrokerAssumption DEF BrokerInit, BrokerTypeOK
<1>2. 0 \in 0..MaxClients BY BrokerAssumption
<1>3. Init => /\ on \in [Tasks -> 0..MaxClients]
              /\ sent \in [Clients -> SUBSET Filters]
  BY <1>2 DEF Init
<1>4. Init => reported \in SUBSET Clients /\ warned = 0 /\ traced \in BOOLEAN
  BY Zenon DEF Init
<1>5. Init => warned \in Nat BY <1>4
<1>6. QED BY <1>1, <1>2, <1>3, <1>4, <1>5 DEF Init, Typed, TypeOK, SupervisorStates

LEMMA OwnerTyped == ASSUME Typed, Owner PROVE Typed'
<1> USE BrokerAssumption DEF Typed, TypeOK, SupervisorStates
<1>1. CASE Connect
  <2>1. cur + 1 \in Clients /\ DialNext BY <1>1 DEF Connect, DialNext
  <2>2. BrokerTypeOK' BY <2>1, DialTypes DEF DialNext
  <2>3. QED BY <1>1, <2>1, <2>2 DEF Connect, DialNext
<1>2. CASE ConnectReturns BY <1>2, IdleTypes DEF ConnectReturns
<1>3. CASE Disconnect BY <1>3, IdleTypes DEF Disconnect
<1>4. CASE DisconnectReturns BY <1>4, IdleTypes DEF DisconnectReturns
<1>5. QED BY <1>1, <1>2, <1>3, <1>4 DEF Owner

LEMMA ReportTyped ==
  ASSUME Typed, NEW k \in Clients, ReportOutage(k)
  PROVE  reported' \in SUBSET Clients /\ warned' \in Nat /\ traced' \in BOOLEAN
BY DEF Typed, TypeOK, ReportOutage

LEMMA EndServingTyped ==
  ASSUME Typed, EndServing
  PROVE  /\ session' \in 0..MaxClients
         /\ deadline' \in {"none", "armed", "due"}
         /\ todo' \in SUBSET Filters
         /\ on' \in [Tasks -> 0..MaxClients]
         /\ cut' \in SUBSET Tasks
BY BrokerAssumption DEF Typed, TypeOK, EndServing, Abandon, InFlight

LEMMA SupervisorTyped == ASSUME Typed, Supervise PROVE Typed'
<1> USE BrokerAssumption DEF Typed, TypeOK, SupervisorStates
<1>1. CASE SupConnected BY <1>1, IdleTypes DEF SupConnected
<1>2. CASE SupConnectFails
  <2>1. BrokerTypeOK' BY <1>2, LeaveTypes DEF SupConnectFails, Withdraw
  <2>2. QED BY <1>2, <2>1 DEF SupConnectFails
<1>3. CASE SupConnectCancelled BY <1>3, IdleTypes DEF SupConnectCancelled
<1>4. CASE RestoreSends
  <2>1. PICK f \in todo : todo' = todo \ {f} /\ sent' = [sent EXCEPT ![cur] = @ \union {f}]
    BY <1>4 DEF RestoreSends
  <2>2. sent' \in [Clients -> SUBSET Filters] /\ todo' \in SUBSET Filters
    BY <2>1
  <2>3. QED BY <1>4, <2>2, IdleTypes DEF RestoreSends
<1>5. CASE RestoreAcknowledged BY <1>5, IdleTypes DEF RestoreAcknowledged
<1>6. CASE RunHook BY <1>6, IdleTypes DEF RunHook
<1>7. CASE RestoreFails
  <2>1. BrokerTypeOK' BY <1>7, LeaveTypes DEF RestoreFails
  <2>2. failed' \in SUBSET Clients BY <1>7 DEF RestoreFails
  <2>3. QED BY <1>7, <2>1, <2>2, ReportTyped, EndServingTyped DEF RestoreFails
<1>8. CASE ReaderSeesDrop
  <2>1. BrokerTypeOK' BY <1>8, LeaveTypes DEF ReaderSeesDrop, LeaveSession
  <2>2. QED BY <1>8, <2>1, ReportTyped, EndServingTyped DEF ReaderSeesDrop
<1>9. CASE DeadlineFires \/ ServingRaises \/ ServingCancelled
  <2>1. BrokerTypeOK'
    BY <1>9, LeaveTypes DEF DeadlineFires, ServingRaises, ServingCancelled, LeaveSession
  <2>2. sup # "none" /\ sup' \in SupervisorStates
    BY <1>9 DEF DeadlineFires, ServingRaises, ServingCancelled, Serving
  <2>3. QED
    BY <1>9, <2>1, <2>2, EndServingTyped DEF DeadlineFires, ServingRaises, ServingCancelled
<1>10. CASE LeaveEnds BY <1>10, IdleTypes DEF LeaveEnds
<1>11. CASE SleepEnds
  <2>1. cur + 1 \in Clients /\ DialNext BY <1>11 DEF SleepEnds, DialNext
  <2>2. BrokerTypeOK' BY <2>1, DialTypes DEF DialNext
  <2>3. QED BY <1>11, <2>1, <2>2 DEF SleepEnds, DialNext
<1>12. CASE SleepCancelled BY <1>12, IdleTypes DEF SleepCancelled
<1>13. QED
  BY <1>1, <1>2, <1>3, <1>4, <1>5, <1>6, <1>7, <1>8, <1>9, <1>10, <1>11, <1>12
  DEF Supervise, SuperviseAlone

LEMMA OperationTyped ==
  ASSUME Typed, NEW c \in Callers, Operate(c) \/ OperationEnds(c) PROVE Typed'
<1> USE BrokerAssumption DEF Typed, TypeOK, SupervisorStates
<1>0. StartOperation(c) => on' \in [Tasks -> 0..MaxClients]
  BY DEF StartOperation
<1>1. ASSUME NEW t \in Topics, NEW v \in Payloads, Publish(c, t, v) PROVE Typed'
  <2>1. [by |-> c, topic |-> t, value |-> v] \in Packets BY DEF Packets
  <2>2. session \in Clients BY <1>1 DEF Publish
  <2>3. BrokerTypeOK' BY <1>1, <2>1, <2>2, SendTypes DEF Publish
  <2>4. QED BY <1>0, <1>1, <2>3 DEF Publish
<1>2. ASSUME NEW f \in Filters, Subscribe(c, f) PROVE Typed'
  <2>1. sent' \in [Clients -> SUBSET Filters] BY <1>2 DEF Subscribe
  <2>2. QED BY <1>0, <1>2, <2>1, IdleTypes DEF Subscribe
<1>3. ASSUME NEW f \in Filters, Unsubscribe(c, f) PROVE Typed'
  <2>1. sent' \in [Clients -> SUBSET Filters] BY <1>3 DEF Unsubscribe
  <2>2. QED BY <1>0, <1>3, <2>1, IdleTypes DEF Unsubscribe
<1>4. CASE OperationDone(c) BY <1>4, IdleTypes DEF OperationDone
<1>5. CASE OperationFails(c)
  <2>1. on[c] \in Clients BY <1>5 DEF OperationFails
  <2>2. Fail(on[c], c) BY <1>5 DEF OperationFails
  <2>a. failed' \in SUBSET Clients BY <2>1, <2>2 DEF Fail
  <2>b. cut' \in SUBSET Tasks BY <2>2 DEF Fail, Abandon, InFlight
  <2>c. session' \in 0..MaxClients /\ deadline' \in {"none", "armed", "due"}
    BY <2>2 DEF Fail
  <2>3. reported' \in SUBSET Clients /\ warned' \in Nat /\ traced' \in BOOLEAN
    BY <2>1, <2>2, ReportTyped DEF Fail
  <2>4. QED BY <1>5, <2>a, <2>b, <2>c, <2>3, IdleTypes DEF OperationFails
<1>6. QED BY <1>1, <1>2, <1>3, <1>4, <1>5 DEF Operate, OperationEnds

LEMMA TypedKept == ASSUME Typed, [Next]_vars PROVE Typed'
<1>1. CASE Owner BY <1>1, OwnerTyped
<1>2. CASE Supervise BY <1>2, SupervisorTyped
<1>3. ASSUME NEW k \in Clients, OrphanCloses(k) PROVE Typed'
  <2>1. BrokerTypeOK' BY <1>3, LeaveTypes DEF OrphanCloses, Withdraw, Typed, TypeOK
  <2>2. QED BY <1>3, <2>1 DEF OrphanCloses, Typed, TypeOK
<1>4. ASSUME NEW c \in Callers, Operate(c) \/ OperationEnds(c) PROVE Typed'
  BY <1>4, OperationTyped
<1>5. CASE Network
  <2>1. BrokerTypeOK' BY <1>5, NetworkTypes DEF Network, Typed, TypeOK
  <2>2. QED BY <1>5, <2>1 DEF Network, linkVars, Typed, TypeOK
<1>6. CASE UNCHANGED vars
  BY <1>6, IdleTypes DEF vars, linkVars, Typed, TypeOK
<1>7. QED BY <1>1, <1>2, <1>3, <1>4, <1>5, <1>6 DEF Next

\* The variables of the link and of its connections keep their types: every
\* step of the supervisor, its callers, the broker and the faults.
THEOREM TypeCorrect == Spec => []TypeOK
<1>1. Typed => TypeOK BY DEF Typed
<1>2. QED BY InitTyped, TypedKept, <1>1, PTL DEF Spec

-----------------------------------------------------------------------------
\* The owner's calls and the supervisor's start and end go together.
LEMMA OwnerBooksKept ==
  ASSUME Typed, OwnerBooks, SessionBooks, [Next]_vars PROVE OwnerBooks'
<1> USE DEF OwnerBooks, Typed, TypeOK, SupervisorStates
<1>1. CASE Owner
  BY <1>1 DEF Owner, Connect, DialNext, ConnectReturns, Disconnect, DisconnectReturns
<1>2. CASE SupConnected \/ SupConnectFails \/ SupConnectCancelled
  BY <1>2 DEF SupConnected, SupConnectFails, SupConnectCancelled
<1>3. CASE RestoreSends \/ RestoreAcknowledged \/ RunHook \/ RestoreFails
  BY <1>3 DEF RestoreSends, RestoreAcknowledged, RunHook, RestoreFails
<1>4. CASE ReaderSeesDrop \/ DeadlineFires \/ ServingRaises \/ ServingCancelled
  BY <1>4 DEF ReaderSeesDrop, DeadlineFires, ServingRaises, ServingCancelled, Serving
<1>5. CASE LeaveEnds \/ SleepEnds \/ SleepCancelled
  BY <1>5 DEF LeaveEnds, SleepEnds, DialNext, SleepCancelled
<1>6. ASSUME NEW k \in Clients, OrphanCloses(k) PROVE OwnerBooks'
  BY <1>6 DEF OrphanCloses
<1>7. ASSUME NEW c \in Callers, Operate(c) PROVE OwnerBooks'
  BY <1>7 DEF Operate, Publish, Subscribe, Unsubscribe
<1>8. ASSUME NEW c \in Callers, OperationEnds(c) PROVE OwnerBooks'
  BY <1>8 DEF OperationEnds, OperationDone, OperationFails
<1>9. CASE Network \/ UNCHANGED vars
  BY <1>9 DEF Network, vars, linkVars
<1>10. QED
  BY <1>1, <1>2, <1>3, <1>4, <1>5, <1>6, <1>7, <1>8, <1>9 DEF Next, Supervise, SuperviseAlone

\* What is known of the session and of the operations counted on it.
SessionInv == SessionBooks /\ OperationBooks /\ FailedSessionEnds

LEMMA SessionInvKept ==
  ASSUME Typed, OwnerBooks, SessionInv, [Next]_vars PROVE SessionInv'
<1> USE BrokerAssumption, LinkAssumption
    DEF SessionInv, SessionBooks, OperationBooks, FailedSessionEnds, Serving,
        Typed, TypeOK, SupervisorStates
<1>1. ASSUME DialNext, sup \in {"none", "sleeping"},
             UNCHANGED <<session, deadline, failed, reported, on>>
      PROVE  SessionInv'
  <2>1. cur' = cur + 1 /\ sup' = "connecting" /\ cur \in Nat BY <1>1 DEF DialNext
  <2>2. session = 0 /\ deadline = "none" BY <1>1
  <2>3. \A k \in reported : k <= cur' /\ k # cur'
    <3>1. ASSUME NEW k \in reported PROVE k <= cur' /\ k # cur'
      <4>1. k \in Nat /\ k <= cur OBVIOUS
      <4>2. QED BY <2>1, <4>1
    <3>2. QED BY <3>1
  <2>4. \A c \in Tasks : on[c] <= cur' /\ on[c] # cur'
    <3>1. ASSUME NEW c \in Tasks PROVE on[c] <= cur' /\ on[c] # cur'
      <4>1. on[c] \in Nat /\ on[c] <= cur OBVIOUS
      <4>2. QED BY <2>1, <4>1
    <3>2. QED BY <3>1
  <2>5. on[Restorer] = 0
    BY <1>1
  <2>6. SessionBooks' BY <1>1, <2>1, <2>2, <2>3
  <2>7. OperationBooks' BY <1>1, <2>1, <2>4, <2>5
  <2>8. FailedSessionEnds' BY <1>1, <2>1, <2>2
  <2>9. QED BY <2>6, <2>7, <2>8
<1>a. CASE Connect BY <1>a, <1>1 DEF Connect, OwnerBooks
<1>b. CASE SleepEnds BY <1>b, <1>1 DEF SleepEnds
<1>2. CASE ConnectReturns \/ Disconnect \/ DisconnectReturns
  BY <1>2 DEF ConnectReturns, Disconnect, DisconnectReturns
<1>3. CASE SupConnected
  BY <1>3 DEF SupConnected
<1>4. CASE SupConnectFails \/ SupConnectCancelled \/ LeaveEnds \/ SleepCancelled
  BY <1>4 DEF SupConnectFails, SupConnectCancelled, LeaveEnds, SleepCancelled
<1>5. CASE RestoreSends
  <2>1. on' = [on EXCEPT ![Restorer] = cur] /\ sup = "restoring"
        /\ UNCHANGED <<sup, cur, session, deadline, failed, reported>>
    BY <1>5 DEF RestoreSends
  <2>2. OperationBooks' BY <2>1
  <2>3. QED BY <2>1, <2>2
<1>c. CASE RestoreAcknowledged BY <1>c DEF RestoreAcknowledged
<1>d. CASE RunHook BY <1>d DEF RunHook
<1>6. CASE RestoreFails
  BY <1>6 DEF RestoreFails, EndServing, Abandon, ReportOutage
<1>7. CASE ReaderSeesDrop
  BY <1>7 DEF ReaderSeesDrop, EndServing, Abandon, ReportOutage
<1>8. CASE DeadlineFires \/ ServingRaises \/ ServingCancelled
  <2>1. /\ sup' \in {"leaving", "sleeping", "done"}
        /\ sup # "none"
        /\ EndServing
        /\ UNCHANGED <<cur, failed, reported>>
    BY <1>8 DEF DeadlineFires, ServingRaises, ServingCancelled
  <2>2. session' = 0 /\ deadline' = "none" /\ on' = [on EXCEPT ![Restorer] = 0]
    BY <2>1 DEF EndServing
  <2>3. SessionBooks' BY <2>1, <2>2
  <2>4. OperationBooks' BY <2>1, <2>2
  <2>5. QED BY <2>1, <2>2, <2>3, <2>4
<1>9. ASSUME NEW k \in Clients, OrphanCloses(k) PROVE SessionInv'
  BY <1>9 DEF OrphanCloses
<1>10. ASSUME NEW c \in Callers, Operate(c) PROVE SessionInv'
  <2>1. StartOperation(c) /\ UNCHANGED <<sup, cur, session, deadline, failed, reported>>
    BY <1>10 DEF Operate, Publish, Subscribe, Unsubscribe
  <2>2. c # Restorer /\ on' = [on EXCEPT ![c] = session] BY <2>1 DEF StartOperation
  <2>3. session <= cur /\ (sup = "connecting" => session # cur)
    <3>1. CASE session = 0 BY <3>1
    <3>2. CASE session # 0 BY <3>2
    <3>3. QED BY <3>1, <3>2
  <2>4. OperationBooks' BY <2>1, <2>2, <2>3
  <2>5. QED BY <2>1, <2>4
<1>11. ASSUME NEW c \in Callers, OperationDone(c) PROVE SessionInv'
  BY <1>11 DEF OperationDone
<1>12. ASSUME NEW c \in Callers, OperationFails(c) PROVE SessionInv'
  <2>1. /\ on[c] \in Nat /\ on[c] <= cur /\ (sup = "connecting" => on[c] # cur)
        /\ on' = [on EXCEPT ![c] = 0]
        /\ session' = IF session = on[c] THEN 0 ELSE session
        /\ failed' = failed \union {on[c]}
        /\ reported' = reported \union {on[c]}
        /\ deadline' = IF cur = on[c] /\ deadline # "none" THEN "due" ELSE deadline
        /\ UNCHANGED <<sup, cur>>
    BY <1>12 DEF OperationFails, Fail, ReportOutage
  <2>2. SessionBooks' BY <2>1
  <2>3. OperationBooks' BY <2>1
  <2>4. FailedSessionEnds' BY <2>1
  <2>5. QED BY <2>2, <2>3, <2>4
<1>13. CASE Network \/ UNCHANGED vars
  BY <1>13 DEF Network, vars, linkVars
<1>14. QED
  BY <1>a, <1>b, <1>2, <1>3, <1>4, <1>5, <1>c, <1>d, <1>6, <1>7, <1>8, <1>9, <1>10, <1>11,
     <1>12, <1>13
  DEF Next, Owner, Supervise, SuperviseAlone, OperationEnds

-----------------------------------------------------------------------------
\* An operation that loses its session loses its deadline with it.
LEMMA WaitsKept ==
  ASSUME Typed, SessionInv, NothingWaitsOnADeadSession, [Next]_vars
  PROVE  NothingWaitsOnADeadSession'
<1> USE LinkAssumption
    DEF NothingWaitsOnADeadSession, SessionInv, SessionBooks, OperationBooks, Typed, TypeOK
<1>1. CASE UNCHANGED <<on, session, cut, deadline>>
  BY <1>1
<1>2. CASE SupConnected
  BY <1>2 DEF SupConnected, Serving
<1>3. CASE RestoreSends
  BY <1>3 DEF RestoreSends, Serving
<1>4. CASE RestoreAcknowledged
  BY <1>4 DEF RestoreAcknowledged
<1>5. CASE EndServing
  BY <1>5 DEF EndServing, Abandon, InFlight
<1>6. ASSUME NEW c \in Callers, Operate(c) PROVE NothingWaitsOnADeadSession'
  <2>1. on' = [on EXCEPT ![c] = session] /\ UNCHANGED <<session, cut, deadline>>
    BY <1>6 DEF Operate, Publish, Subscribe, Unsubscribe, StartOperation
  <2>2. QED BY <2>1
<1>7. ASSUME NEW c \in Callers, OperationDone(c) PROVE NothingWaitsOnADeadSession'
  BY <1>7 DEF OperationDone
<1>8. ASSUME NEW c \in Callers, OperationFails(c) PROVE NothingWaitsOnADeadSession'
  <2>1. /\ on' = [on EXCEPT ![c] = 0]
        /\ session' = IF session = on[c] THEN 0 ELSE session
        /\ deadline = "due" => deadline' = "due"
        /\ cut' = (cut \union {d \in Tasks : on[d] = on[c]}) \ {c}
    BY <1>8 DEF OperationFails, Fail, Abandon, InFlight
  <2>2. QED BY <2>1
<1>9. QED
  BY <1>1, <1>2, <1>3, <1>4, <1>5, <1>6, <1>7, <1>8
  DEF Next, Owner, Connect, ConnectReturns, Disconnect, DisconnectReturns, DialNext,
      Supervise, SuperviseAlone, SupConnectFails, SupConnectCancelled, RunHook, RestoreFails,
      ReaderSeesDrop, DeadlineFires, ServingRaises, ServingCancelled, LeaveEnds, SleepEnds,
      SleepCancelled, OrphanCloses, OperationEnds, Network, vars, linkVars

\* The broker and the faults move a client's socket only from open to dead, and
\* then there is a goodbye for the broker to read, or it has dropped the
\* connection; neither is taken back.
LEMMA NetworkOnlyKills ==
  ASSUME BrokerTypeOK, Broker \/ Faults
  PROVE  \A k \in Clients :
           /\ \/ sock'[k] = sock[k]
              \/ /\ sock[k] = "open" /\ sock'[k] = "dead"
                 /\ bye'[k] # "no" \/ conn'[k] = "gone"
           /\ bye'[k] = "no" => bye[k] = "no"
           /\ conn[k] = "gone" => conn'[k] = "gone"
<1> USE DEF BrokerTypeOK
<1> SUFFICES ASSUME NEW k \in Clients
             PROVE  /\ \/ sock'[k] = sock[k]
                       \/ /\ sock[k] = "open" /\ sock'[k] = "dead"
                          /\ bye'[k] # "no" \/ conn'[k] = "gone"
                    /\ bye'[k] = "no" => bye[k] = "no"
                    /\ conn[k] = "gone" => conn'[k] = "gone"
  OBVIOUS
<1>1. ASSUME NEW j \in Clients, BrokerTakes(j)
      PROVE  /\ \/ sock'[k] = sock[k]
                \/ sock[k] = "open" /\ sock'[k] = "dead" /\ conn'[k] = "gone"
             /\ bye' = bye
             /\ conn[k] = "gone" => conn'[k] = "gone"
  <2>1. CASE BrokerAccepts(j)
    <3>1. /\ conn[j] = "dialled" /\ bye' = bye
          /\ conn'[k] = IF k = j THEN "held" ELSE IF conn[k] = "held" THEN "gone" ELSE conn[k]
          /\ sock'[k] = IF k # j /\ conn[k] = "held" /\ sock[k] = "open" THEN "dead" ELSE sock[k]
      BY <2>1 DEF BrokerAccepts
    <3>2. QED BY <3>1
  <2>2. CASE BrokerReads(j)
    BY <2>2 DEF BrokerReads
  <2>3. CASE BrokerReadsBye(j)
    BY <2>3 DEF BrokerReadsBye
  <2>4. QED BY <1>1, <2>1, <2>2, <2>3 DEF BrokerTakes
<1>2. ASSUME NEW j \in Clients, ConnectRefused(j) \/ ConnectionCut(j)
      PROVE  /\ \/ sock'[k] = sock[k]
                \/ sock[k] = "open" /\ sock'[k] = "dead" /\ conn'[k] = "gone"
             /\ bye' = bye
             /\ conn[k] = "gone" => conn'[k] = "gone"
  BY <1>2 DEF ConnectRefused, ConnectionCut
<1>3. ASSUME NEW j \in Clients, SocketDies(j)
      PROVE  /\ \/ sock'[k] = sock[k]
                \/ sock[k] = "open" /\ sock'[k] = "dead" /\ bye'[k] = "FIN"
             /\ bye'[k] = "no" => bye[k] = "no"
             /\ conn' = conn
  BY <1>3 DEF SocketDies
<1>4. CASE BrokerRestarts
  BY <1>4 DEF BrokerRestarts
<1>5. QED BY <1>1, <1>2, <1>3, <1>4 DEF Broker, Faults

\* Every client is the supervisor's, waits to be closed, or has said goodbye.
ClientInv == ClientBooks /\ NoStrayClient /\ LeftClientsSayGoodbye

LEMMA ClientsKept ==
  ASSUME Typed, OwnerBooks, SessionInv, ClientInv, [Next]_vars PROVE ClientInv'
<1> USE BrokerAssumption
    DEF ClientInv, ClientBooks, NoStrayClient, LeftClientsSayGoodbye, Typed, TypeOK, BrokerTypeOK
<1>1. ASSUME DialNext, sup \in {"none", "sleeping"}, UNCHANGED orphans PROVE ClientInv'
  <2>1. /\ cur' \in Clients /\ sup' = "connecting" /\ orphans = {}
        /\ sock' = [sock EXCEPT ![cur'] = "open"]
        /\ conn' = [conn EXCEPT ![cur'] = "dialled"]
        /\ bye' = bye
    BY <1>1 DEF DialNext, Dial
  <2>2. \A k \in Clients : sock[k] \notin {"open", "dead"} BY <1>1, <2>1
  <2>3. QED BY <1>1, <2>1, <2>2
<1>2. ASSUME sup \in {"connecting", "restoring", "reading"},
             sup' \in {"leaving", "sleeping", "done"},
             NEW g \in {"DISCONNECT", "FIN"}, Leave(cur, g), UNCHANGED <<cur, orphans>>
      PROVE  ClientInv'
  BY <1>2, SMTT(30) DEF Leave
<1>3. CASE SupConnectCancelled
  BY <1>3 DEF SupConnectCancelled, SessionInv, SessionBooks, OperationBooks, brokerVars
<1>4. ASSUME NEW k \in Clients, OrphanCloses(k) PROVE ClientInv'
  BY <1>4 DEF OrphanCloses, Withdraw, Leave
<1>5. ASSUME NEW c \in Callers, OperationFails(c) PROVE ClientInv'
  BY <1>5, SMTT(30) DEF OperationFails, Fail, brokerVars
<1>6. ASSUME NEW c \in Callers, Operate(c) PROVE ClientInv'
  <2>1. /\ on' = [on EXCEPT ![c] = session]
        /\ UNCHANGED <<conn, bye, sock, sup, cur, failed, orphans>>
    BY <1>6 DEF Operate, Publish, Subscribe, Unsubscribe, StartOperation, Send, brokerVars
  <2>2. session # 0 => orphans = {}
    BY DEF SessionInv, SessionBooks, Serving
  <2>3. \A k \in orphans, d \in Tasks : on'[d] # k
    BY <2>1, <2>2
  <2>4. QED BY <2>1, <2>3
<1>7. CASE Network
  <2>1. UNCHANGED <<sup, cur, failed, on, orphans>> BY <1>7 DEF Network, linkVars
  <2>2. \A k \in Clients :
           /\ \/ sock'[k] = sock[k]
              \/ /\ sock[k] = "open" /\ sock'[k] = "dead"
                 /\ bye'[k] # "no" \/ conn'[k] = "gone"
           /\ bye'[k] = "no" => bye[k] = "no"
           /\ conn[k] = "gone" => conn'[k] = "gone"
    BY <1>7, NetworkOnlyKills DEF Network
  <2>3. ClientBooks'
    BY <2>1, <2>2
  <2>4. NoStrayClient' /\ LeftClientsSayGoodbye'
    BY <2>1, <2>2
  <2>5. QED BY <2>3, <2>4
<1>8. CASE UNCHANGED <<brokerVars, sup, cur, failed, on, orphans>>
  BY <1>8 DEF brokerVars
\* Steps that serve a session the broker's side of which they leave alone.
<1>9. ASSUME UNCHANGED <<brokerVars, cur, failed, orphans>>,
             sup \in {"connecting", "restoring", "reading"},
             sup' \in {"restoring", "reading"},
             \A d \in Tasks : on'[d] \in {on[d], 0, cur}
      PROVE  ClientInv'
  BY <1>9 DEF brokerVars
<1>10. ASSUME UNCHANGED <<brokerVars, cur, failed, on, orphans>>,
              sup \in {"leaving", "sleeping"}, sup' \in {"sleeping", "done"}
       PROVE  ClientInv'
  BY <1>10 DEF brokerVars
<1>11. CASE Owner
  <2>1. CASE Connect
    BY <2>1, <1>1 DEF Connect, OwnerBooks
  <2>2. QED BY <1>11, <2>1, <1>8 DEF Owner, ConnectReturns, Disconnect, DisconnectReturns
<1>12. CASE Supervise
  <2>1. CASE SupConnected BY <2>1, <1>9 DEF SupConnected
  <2>2. CASE SupConnectFails BY <2>2, <1>2 DEF SupConnectFails, Withdraw
  <2>3. CASE RestoreSends \/ RestoreAcknowledged \/ RunHook
    BY <2>3, <1>9, SMTT(30) DEF RestoreSends, RestoreAcknowledged, RunHook
  <2>4. CASE RestoreFails BY <2>4, <1>2 DEF RestoreFails
  <2>5. CASE ReaderSeesDrop BY <2>5, <1>2 DEF ReaderSeesDrop, LeaveSession
  <2>6. CASE DeadlineFires \/ ServingRaises \/ ServingCancelled
    BY <2>6, <1>2 DEF DeadlineFires, ServingRaises, ServingCancelled, LeaveSession, Serving
  <2>7. CASE LeaveEnds \/ SleepCancelled BY <2>7, <1>10 DEF LeaveEnds, SleepCancelled
  <2>8. CASE SleepEnds BY <2>8, <1>1 DEF SleepEnds
  <2>9. QED
    BY <2>1, <2>2, <1>3, <2>3, <2>4, <2>5, <2>6, <2>7, <2>8, <1>12 DEF Supervise, SuperviseAlone
<1>13. ASSUME NEW c \in Callers, OperationDone(c) PROVE ClientInv'
  BY <1>13 DEF OperationDone, brokerVars
<1>14. QED
  BY <1>4, <1>5, <1>6, <1>7, <1>8, <1>11, <1>12, <1>13
  DEF Next, OperationEnds, vars, linkVars

-----------------------------------------------------------------------------
\* Every route is sent on a session, is still to be restored on it, or waits
\* for the next one.
RouteInv == RouteBooks /\ RoutesRestored

LEMMA RoutesKept ==
  ASSUME Typed, OwnerBooks, SessionInv, RouteInv, [Next]_vars PROVE RouteInv'
<1> USE DEF RouteInv, RouteBooks, RoutesRestored, Typed, TypeOK, OwnerBooks
<1> USE BrokerAssumption DEF SessionInv, SessionBooks, Serving
<1>1. CASE Owner
  BY <1>1 DEF Owner, Connect, DialNext, ConnectReturns, Disconnect, DisconnectReturns
<1>2. CASE SupConnected
  BY <1>2 DEF SupConnected
<1>3. CASE SupConnectFails \/ SupConnectCancelled \/ LeaveEnds \/ SleepEnds \/ SleepCancelled
  BY <1>3 DEF SupConnectFails, SupConnectCancelled, LeaveEnds, SleepEnds, DialNext, SleepCancelled
<1>4. CASE RestoreSends
  BY <1>4 DEF RestoreSends
<1>5. CASE RestoreAcknowledged \/ RunHook
  BY <1>5 DEF RestoreAcknowledged, RunHook
<1>6. CASE RestoreFails \/ ReaderSeesDrop \/ DeadlineFires \/ ServingRaises \/ ServingCancelled
  BY <1>6 DEF RestoreFails, ReaderSeesDrop, DeadlineFires, ServingRaises, ServingCancelled,
              EndServing
<1>7. ASSUME NEW k \in Clients, OrphanCloses(k) PROVE RouteInv'
  BY <1>7 DEF OrphanCloses
<1>8. ASSUME NEW c \in Callers, owner # "new", owner # "connecting", Operate(c) PROVE RouteInv'
  <2>1. reconnecting \/ cancelled BY <1>8
  <2>2. ASSUME NEW t \in Topics, NEW v \in Payloads, Publish(c, t, v) PROVE RouteInv'
    BY <2>2 DEF Publish
  <2>3. ASSUME NEW f \in Filters, Subscribe(c, f) PROVE RouteInv'
    BY <2>1, <2>3 DEF Subscribe
  <2>4. ASSUME NEW f \in Filters, Unsubscribe(c, f) PROVE RouteInv'
    BY <2>1, <2>4 DEF Unsubscribe
  <2>5. QED BY <1>8, <2>2, <2>3, <2>4 DEF Operate
<1>9. ASSUME NEW c \in Callers, OperationEnds(c) PROVE RouteInv'
  BY <1>9 DEF OperationEnds, OperationDone, OperationFails, Fail
<1>10. CASE Network \/ UNCHANGED vars
  BY <1>10 DEF Network, vars, linkVars
<1>11. QED
  BY <1>1, <1>2, <1>3, <1>4, <1>5, <1>6, <1>7, <1>8, <1>9, <1>10
  DEF Next, Supervise, SuperviseAlone

-----------------------------------------------------------------------------
(***************************************************************************)
(* The inductive invariant, and what follows from it.                      *)
(***************************************************************************)
LinkInv ==
    /\ Typed /\ OwnerBooks /\ SessionInv
    /\ NothingWaitsOnADeadSession /\ ClientInv /\ RouteInv

LEMMA LinkInvInitially == Init => LinkInv
<1>1. Init => OwnerBooks /\ SessionInv
  BY BrokerAssumption, LinkAssumption
  DEF Init, OwnerBooks, SessionInv, SessionBooks, OperationBooks, FailedSessionEnds,
      Serving
<1>2. Init => NothingWaitsOnADeadSession /\ RouteInv
  BY DEF Init, NothingWaitsOnADeadSession, RouteInv, RouteBooks, RoutesRestored
<1>3. Init => ClientInv
  BY DEF Init, BrokerInit, ClientInv, ClientBooks, NoStrayClient, LeftClientsSayGoodbye
<1>4. QED BY <1>1, <1>2, <1>3, InitTyped DEF LinkInv

LEMMA LinkInvKept == ASSUME LinkInv, [Next]_vars PROVE LinkInv'
BY TypedKept, OwnerBooksKept, SessionInvKept, WaitsKept, ClientsKept, RoutesKept
   DEF LinkInv, SessionInv

LEMMA LinkInvariant == Spec => []LinkInv
BY LinkInvInitially, LinkInvKept, PTL DEF Spec

\* The bookkeeping of the supervisor, its session, its operations and its
\* clients balances in every state.
THEOREM BooksAlwaysBalance == Spec => []BooksBalance
<1>1. LinkInv => BooksBalance
  BY DEF LinkInv, BooksBalance, SessionInv, ClientInv, RouteInv
<1>2. QED BY LinkInvariant, <1>1, PTL

\* A failed session is not handed out again, and is ended while it is served.
THEOREM FailuresEndSessions == Spec => []FailedSessionEnds
<1>1. LinkInv => FailedSessionEnds BY DEF LinkInv, SessionInv
<1>2. QED BY LinkInvariant, <1>1, PTL

\* No operation is left waiting on a session that has gone.
THEOREM NoOperationIsStranded == Spec => []NothingWaitsOnADeadSession
<1>1. LinkInv => NothingWaitsOnADeadSession BY DEF LinkInv
<1>2. QED BY LinkInvariant, <1>1, PTL

\* No connection outlives what owned it, and each one left says so.
THEOREM NoClientIsStrayed == Spec => [](NoStrayClient /\ LeftClientsSayGoodbye)
<1>1. LinkInv => NoStrayClient /\ LeftClientsSayGoodbye BY DEF LinkInv, ClientInv
<1>2. QED BY LinkInvariant, <1>1, PTL

\* A session that is read from has been asked for every route.
THEOREM EveryRouteIsRestored == Spec => []RoutesRestored
<1>1. LinkInv => RoutesRestored BY DEF LinkInv, RouteInv
<1>2. QED BY LinkInvariant, <1>1, PTL

\* However a failed session's block ends, its client leaves without the
\* DISCONNECT that would make the broker drop the panel's will.
THEOREM FailedSessionsKeepTheirWills == Spec => FailedSessionKeepsItsWill
<1> DEFINE Keeps == \A k \in failed :
                      sock[k] = "open" /\ sock'[k] = "closed" => bye'[k] # "DISCONNECT"
<1>1. ASSUME LinkInv, [Next]_vars PROVE Keeps
  <2> USE <1>1 DEF LinkInv, SessionInv, Typed, TypeOK, BrokerTypeOK
  <2>1. SUFFICES ASSUME NEW k \in failed, sock[k] = "open", sock'[k] = "closed"
                 PROVE  bye'[k] # "DISCONNECT"
    OBVIOUS
  <2>2. CASE Owner
    BY <2>1, <2>2 DEF Owner, Connect, DialNext, Dial, ConnectReturns, Disconnect,
                      DisconnectReturns, brokerVars
  <2>3. CASE SupConnectFails
    BY <2>1, <2>3 DEF SupConnectFails, Withdraw, Leave, SessionBooks
  <2>4. CASE RestoreFails
    BY <2>1, <2>4 DEF RestoreFails, Leave
  <2>5. CASE ReaderSeesDrop \/ DeadlineFires \/ ServingRaises \/ ServingCancelled
    BY <2>1, <2>5, ZenonT(40) DEF ReaderSeesDrop, DeadlineFires, ServingRaises, ServingCancelled,
                      LeaveSession, Leave
  <2>6. CASE SleepEnds
    BY <2>1, <2>6 DEF SleepEnds, DialNext, Dial
  <2>7. ASSUME NEW j \in Clients, OrphanCloses(j) PROVE bye'[k] # "DISCONNECT"
    BY <2>1, <2>7 DEF OrphanCloses, Withdraw, Leave, ClientInv, ClientBooks
  <2>8. ASSUME NEW c \in Callers, Operate(c) \/ OperationEnds(c)
        PROVE  bye'[k] # "DISCONNECT"
    BY <2>1, <2>8 DEF Operate, Publish, Subscribe, Unsubscribe, Send, OperationEnds,
                      OperationDone, OperationFails, brokerVars
  <2>9. CASE Network
    BY <2>1, <2>9, NetworkOnlyKills DEF Network
  <2>10. CASE UNCHANGED sock
    BY <2>1, <2>10
  <2>11. QED
    BY <2>2, <2>3, <2>4, <2>5, <2>6, <2>7, <2>8, <2>9, <2>10
    DEF Next, Supervise, SuperviseAlone, SupConnected, SupConnectCancelled, RestoreSends,
        RestoreAcknowledged, RunHook, LeaveEnds, SleepCancelled, brokerVars, vars
<1>2. LinkInv /\ [Next]_vars => [Keeps]_vars BY <1>1
<1>3. QED BY LinkInvariant, <1>2, PTL DEF Spec, FailedSessionKeepsItsWill

-----------------------------------------------------------------------------
(***************************************************************************)
(* An outage is reported once.                                             *)
(***************************************************************************)

\* Every operation in flight is on the supervisor's client: none outlives the
\* back-off.  While that client is served, or operations on it are still to
\* fail, what was logged since the link was last up is what it reported.
AlarmInv ==
    /\ OutageReportedOnce
    /\ \A c \in Tasks : on[c] # 0 => on[c] = cur
    /\ Serving \/ (\E c \in Tasks : on[c] # 0) => warned = IF cur \in reported THEN 1 ELSE 0

\* A step that reports an outage of the supervisor's client, while what was logged
\* is what that client reported: once it is over, one warning is.
LEMMA ReportIsOne ==
  ASSUME Typed, ReportOutage(cur), warned = IF cur \in reported THEN 1 ELSE 0
  PROVE  warned' = 1 /\ cur \in reported'
BY DEF ReportOutage

LEMMA AlarmsKept == ASSUME LinkInv, AlarmInv, [Next]_vars PROVE AlarmInv'
<1> USE BrokerAssumption, LinkAssumption
    DEF LinkInv, SessionInv, SessionBooks, OperationBooks, AlarmInv, OutageReportedOnce,
        Typed, TypeOK, SupervisorStates, Serving
<1>1. ASSUME DialNext, \A c \in Tasks : on[c] = 0, session = 0,
             UNCHANGED <<session, reconnecting, cancelled, reported, warned, traced, on>>
      PROVE  AlarmInv'
  BY <1>1 DEF DialNext
<1>2. CASE Connect
  <2>1. \A c \in Tasks : on[c] = 0
    BY <1>2 DEF Connect, OwnerBooks
  <2>2. QED BY <1>1, <1>2, <2>1 DEF Connect, OwnerBooks
<1>3. CASE SleepEnds
  <2>1. session = 0 /\ on[Restorer] = 0 /\ cut = {} BY <1>3 DEF SleepEnds
  <2>2. \A c \in Tasks : on[c] = 0 BY <2>1 DEF NothingWaitsOnADeadSession
  <2>3. QED BY <1>1, <1>3, <2>1, <2>2 DEF SleepEnds
<1>4. CASE SupConnected
  <2>1. \A c \in Tasks : on[c] = 0 BY <1>4 DEF SupConnected
  <2>2. QED BY <1>4, <2>1 DEF SupConnected
<1>5. CASE ConnectReturns \/ Disconnect \/ DisconnectReturns
  BY <1>5 DEF ConnectReturns, Disconnect, DisconnectReturns
<1>6. CASE SupConnectFails \/ SupConnectCancelled
  <2>1. \A c \in Tasks : on[c] = 0 BY <1>6 DEF SupConnectFails, SupConnectCancelled
  <2>2. session = 0 /\ sup' \in {"sleeping", "done"}
        /\ UNCHANGED <<cur, session, reconnecting, cancelled, reported, warned, traced, on>>
    BY <1>6 DEF SupConnectFails, SupConnectCancelled
  <2>3. QED BY <2>1, <2>2
<1>7. CASE RestoreSends
  BY <1>7 DEF RestoreSends
<1>8. CASE RestoreAcknowledged \/ RunHook \/ LeaveEnds \/ SleepCancelled
  BY <1>8 DEF RestoreAcknowledged, RunHook, LeaveEnds, SleepCancelled
<1>9. CASE RestoreFails \/ ReaderSeesDrop
  <2>1. warned' = 1 /\ cur \in reported' /\ session' = 0
    BY <1>9, ReportIsOne DEF RestoreFails, ReaderSeesDrop, EndServing
  <2>2. on' = [on EXCEPT ![Restorer] = 0] /\ cur' = cur
    BY <1>9 DEF RestoreFails, ReaderSeesDrop, EndServing
  <2>3. QED BY <2>1, <2>2
<1>10. CASE DeadlineFires \/ ServingRaises \/ ServingCancelled
  <2>1. /\ on' = [on EXCEPT ![Restorer] = 0] /\ session' = 0
        /\ sup' \in {"leaving", "sleeping", "done"}
        /\ UNCHANGED <<cur, reconnecting, cancelled, reported, warned>>
    BY <1>10 DEF DeadlineFires, ServingRaises, ServingCancelled, EndServing
  <2>2. warned = IF cur \in reported THEN 1 ELSE 0
    BY <1>10 DEF DeadlineFires, ServingRaises, ServingCancelled
  <2>3. cancelled' \/ traced' \/ warned = 1
    BY <1>10, <2>2 DEF DeadlineFires, ServingRaises, ServingCancelled
  <2>4. QED BY <2>1, <2>2, <2>3
<1>11. ASSUME NEW k \in Clients, OrphanCloses(k) PROVE AlarmInv'
  BY <1>11 DEF OrphanCloses
<1>12. ASSUME NEW c \in Callers, Operate(c) PROVE AlarmInv'
  <2>1. /\ on' = [on EXCEPT ![c] = session]
        /\ UNCHANGED <<cur, sup, session, reconnecting, cancelled, reported, warned, traced>>
    BY <1>12 DEF Operate, Publish, Subscribe, Unsubscribe, StartOperation
  <2>2. QED BY <2>1
<1>13. ASSUME NEW c \in Callers, OperationDone(c) PROVE AlarmInv'
  BY <1>13 DEF OperationDone
<1>14. ASSUME NEW c \in Callers, OperationFails(c) PROVE AlarmInv'
  <2>1. c \in Tasks /\ on[c] = cur /\ on[c] # 0 BY <1>14 DEF OperationFails
  <2>2. warned' = 1 /\ cur \in reported'
    BY <1>14, <2>1, ReportIsOne DEF OperationFails, Fail
  <2>3. session' = 0 /\ on' = [on EXCEPT ![c] = 0]
        /\ UNCHANGED <<cur, sup, reconnecting, cancelled>>
    BY <1>14, <2>1 DEF OperationFails, Fail
  <2>4. QED BY <2>1, <2>2, <2>3
<1>15. CASE Network \/ UNCHANGED vars
  BY <1>15 DEF Network, vars, linkVars
<1>16. QED
  BY <1>2, <1>3, <1>4, <1>5, <1>6, <1>7, <1>8, <1>9, <1>10, <1>11, <1>12, <1>13, <1>14, <1>15
  DEF Next, Owner, Supervise, SuperviseAlone, OperationEnds

\* While the link is up no outage is logged; from the end of a session until the
\* next one, exactly one warning is, for any order in which the reader, the
\* restore and the operations learn of it and any number of refused reconnects.
THEOREM OutagesAreReportedOnce == Spec => []OutageReportedOnce
<1>1. Init => AlarmInv
  BY LinkAssumption DEF Init, AlarmInv, OutageReportedOnce, Serving
<1>2. AlarmInv => OutageReportedOnce BY DEF AlarmInv
<1>3. QED BY LinkInvariant, AlarmsKept, <1>1, <1>2, PTL DEF Spec

-----------------------------------------------------------------------------
(***************************************************************************)
(* BrokerLink implements Link.                                             *)
(***************************************************************************)

\* No filter was sent for on a client before it is the session's.
FreshClients ==
    \A k \in Clients : k > cur \/ (k = cur /\ sup = "connecting") => sent[k] = {}

LEMMA FreshClientsKept ==
  ASSUME LinkInv, FreshClients, [Next]_vars PROVE FreshClients'
<1> USE BrokerAssumption
    DEF FreshClients, LinkInv, SessionInv, SessionBooks, Typed, TypeOK, BrokerTypeOK, Serving
<1>1. ASSUME cur' = cur, UNCHANGED sent, sup' = "connecting" => sup = "connecting"
      PROVE  FreshClients'
  BY <1>1
<1>2. ASSUME DialNext, UNCHANGED sent PROVE FreshClients'
  <2>1. cur' = cur + 1 /\ cur \in Nat BY <1>2 DEF DialNext
  <2>2. ASSUME NEW k \in Clients, k > cur' \/ k = cur' PROVE sent'[k] = {}
    <3>1. k \in Nat BY DEF Clients
    <3>2. k > cur BY <2>1, <2>2, <3>1
    <3>3. QED BY <1>2, <3>2
  <2>3. QED BY <2>2
<1>3. ASSUME NEW k \in Clients, k <= cur, sup # "connecting", NEW S \in SUBSET Filters,
             sent' = [sent EXCEPT ![k] = S], UNCHANGED <<cur, sup>>
      PROVE  FreshClients'
  <2>1. ASSUME NEW j \in Clients, j > cur PROVE sent'[j] = {}
    <3>1. j \in Nat /\ k \in Nat /\ cur \in Nat BY DEF Clients
    <3>2. j # k BY <1>3, <2>1, <3>1
    <3>3. QED BY <1>3, <2>1, <3>2
  <2>2. QED BY <1>3, <2>1
<1>4. CASE RestoreSends
  <2>1. PICK f \in todo : sent' = [sent EXCEPT ![cur] = @ \union {f}]
    BY <1>4 DEF RestoreSends
  <2>2. cur \in Clients /\ cur <= cur /\ sup = "restoring" /\ UNCHANGED <<cur, sup>>
    BY <1>4 DEF RestoreSends, Clients
  <2>3. sent[cur] \union {f} \in SUBSET Filters BY <2>2
  <2>4. QED BY <1>3, <2>1, <2>2, <2>3
<1>5. ASSUME NEW c \in Callers, Operate(c) PROVE FreshClients'
  <2>1. UNCHANGED <<cur, sup>>
    BY <1>5 DEF Operate, Publish, Subscribe, Unsubscribe
  <2>2. CASE UNCHANGED sent
    BY <1>1, <2>1, <2>2
  <2>3. ASSUME NEW f \in Filters, session # 0,
               \/ sent' = [sent EXCEPT ![session] = @ \union {f}]
               \/ sent' = [sent EXCEPT ![session] = @ \ {f}]
        PROVE  FreshClients'
    <3>1. session \in Clients /\ session <= cur /\ sup # "connecting"
      BY <2>3 DEF Clients
    <3>2. sent[session] \union {f} \in SUBSET Filters /\ sent[session] \ {f} \in SUBSET Filters
      BY <3>1
    <3>3. QED BY <1>3, <2>1, <2>3, <3>1, <3>2
  <2>4. QED BY <1>5, <2>2, <2>3 DEF Operate, Publish, Subscribe, Unsubscribe
<1>6. QED
  BY <1>1, <1>2, <1>4, <1>5
  DEF Next, Owner, Connect, ConnectReturns, Disconnect, DisconnectReturns, Supervise,
      SuperviseAlone, SupConnected, SupConnectFails, SupConnectCancelled, RestoreAcknowledged,
      RunHook, RestoreFails, ReaderSeesDrop, DeadlineFires, ServingRaises, ServingCancelled,
      LeaveEnds, SleepEnds, SleepCancelled, OrphanCloses, OperationEnds, OperationDone,
      OperationFails, Network, vars, linkVars

-----------------------------------------------------------------------------
\* What a user's operation runs on, as a step that touches one of them leaves it.
LEMMA UsersWait ==
  ASSUME Typed, NEW c \in Callers, NEW k, on' = [on EXCEPT ![c] = k]
  PROVE  [d \in Callers |-> on[d]]' = [[d \in Callers |-> on[d]] EXCEPT ![c] = k]
BY DEF Typed, TypeOK, Tasks

LEMMA UsersWaitOn ==
  ASSUME Typed, NEW k, on' = [on EXCEPT ![Restorer] = k]
  PROVE  UNCHANGED [d \in Callers |-> on[d]]
BY LinkAssumption DEF Typed, TypeOK, Tasks

\* However the serving block ends, the users see the session go, or saw it
\* gone already.
LEMMA EndIsDown ==
  ASSUME LinkInv, Serving, EndServing, sup' # "connecting", sup' # "reading",
         UNCHANGED <<owner, reconnecting, cur, routes>>
  PROVE  [Promise!Down]_Promise!vars
<1> USE LinkAssumption DEF LinkInv, SessionInv, SessionBooks, Typed, TypeOK, Serving
<1>1. /\ session' = 0
      /\ on' = [on EXCEPT ![Restorer] = 0]
      /\ cut' = (cut \union {c \in Tasks : on[c] = cur}) \ {Restorer}
  BY DEF EndServing, Abandon, InFlight
<1>2. UNCHANGED [d \in Callers |-> on[d]]
  BY <1>1, UsersWaitOn
<1>3. UNCHANGED Promise!owned
  BY DEF Promise!owned
<1>4. CASE session = 0
  <2>1. \A c \in Callers : on[c] = cur => c \in cut
    <3>1. cur # 0 OBVIOUS
    <3>2. QED BY <1>4, <3>1 DEF NothingWaitsOnADeadSession, Tasks
  <2>2. UNCHANGED (cut \ {Restorer})
    BY <1>1, <2>1 DEF Tasks
  <2>3. QED BY <1>1, <1>2, <1>3, <1>4, <2>2 DEF Promise!vars, Promise!used
<1>5. CASE session # 0
  <2>1. session = cur BY <1>5
  <2>2. (cut \ {Restorer})' = (cut \ {Restorer})
          \union {u \in Callers : [d \in Callers |-> on[d]][u] = session}
    BY <1>1, <2>1 DEF Tasks
  <2>3. QED BY <1>1, <1>2, <1>3, <1>5, <2>2 DEF Promise!Down, Promise!Over
<1>6. QED BY <1>4, <1>5

\* The owner's calls and the attempts to connect.
LEMMA OwnerIsPromised ==
  ASSUME LinkInv, FreshClients,
         Owner \/ SupConnected \/ SupConnectFails \/ SupConnectCancelled \/ SleepEnds
  PROVE  Promise!Next
<1> USE DEF LinkInv, OwnerBooks, SessionInv, SessionBooks, Serving, Promise!used, Promise!Next
<1>1. CASE Connect
  BY <1>1 DEF Connect, DialNext, Promise!Open
<1>2. CASE ConnectReturns
  BY <1>2 DEF ConnectReturns, Promise!Opened
<1>3. CASE Disconnect
  BY <1>3 DEF Disconnect, Promise!Close
<1>4. CASE DisconnectReturns
  BY <1>4 DEF DisconnectReturns, Promise!Closed
<1>5. CASE SupConnected
  <2>1. cur # 0 /\ sent[cur] = {}
    BY <1>5 DEF SupConnected, FreshClients, Typed, TypeOK, Clients
  <2>2. owner \in {"connecting", "up"}
    BY <1>5 DEF SupConnected, Typed, TypeOK
  <2>3. ~reconnecting => routes = {}
    BY <1>5 DEF SupConnected, RouteInv, RouteBooks
  <2>4. QED BY <1>5, <2>1, <2>2, <2>3 DEF SupConnected, Promise!Up
<1>6. CASE SupConnectFails \/ SupConnectCancelled
  BY <1>6 DEF SupConnectFails, SupConnectCancelled, Promise!DialEnds
<1>7. CASE SleepEnds
  <2>1. owner = "up" /\ session = 0
    BY <1>7 DEF SleepEnds, Typed, TypeOK
  <2>2. \A c \in Callers : on[c] = 0
    BY <1>7, <2>1, LinkAssumption DEF SleepEnds, NothingWaitsOnADeadSession, Tasks
  <2>3. QED BY <1>7, <2>1, <2>2 DEF SleepEnds, DialNext, Promise!Redial
<1>8. QED
  BY <1>1, <1>2, <1>3, <1>4, <1>5, <1>6, <1>7 DEF Owner

\* The restore asks for filters and the hook puts the session in service; on a
\* session that has failed meanwhile nobody sees either.
LEMMA RestoreIsPromised ==
  ASSUME LinkInv, RestoreSends \/ RestoreAcknowledged \/ RunHook
  PROVE  [Promise!Next]_Promise!vars
<1> USE DEF LinkInv, SessionInv, SessionBooks, Typed, TypeOK, Promise!owned, Promise!Next
<1>1. CASE RestoreSends
  <2>1. UNCHANGED [d \in Callers |-> on[d]]
    BY <1>1, UsersWaitOn DEF RestoreSends
  <2>2. CASE session = 0
    BY <1>1, <2>1, <2>2 DEF RestoreSends, Promise!vars, Promise!used
  <2>3. CASE session # 0
    <3>1. PICK f \in todo : sent' = [sent EXCEPT ![cur] = @ \union {f}]
      BY <1>1 DEF RestoreSends
    <3>2. session = cur /\ session' = cur /\ cur \in Clients /\ f \in Filters
      BY <1>1, <2>3 DEF RestoreSends, Clients
    <3>3. sent'[session'] = sent[session] \union {f}
      BY <3>1, <3>2 DEF BrokerTypeOK
    <3>4. QED BY <1>1, <2>1, <2>3, <3>2, <3>3 DEF RestoreSends, Promise!Restore
  <2>4. QED BY <2>2, <2>3
<1>2. CASE RestoreAcknowledged
  <2>1. UNCHANGED [d \in Callers |-> on[d]]
    BY <1>2, UsersWaitOn DEF RestoreAcknowledged
  <2>2. UNCHANGED (cut \ {Restorer})
    BY <1>2 DEF RestoreAcknowledged
  <2>3. QED BY <1>2, <2>1, <2>2 DEF RestoreAcknowledged, Promise!vars, Promise!used
<1>3. CASE RunHook
  <2>1. CASE session = 0
    BY <1>3, <2>1 DEF RunHook, Promise!vars, Promise!used
  <2>2. CASE session # 0
    <3>1. routes \subseteq sent[session]
      BY <1>3, <2>2 DEF RunHook, RouteInv, RouteBooks
    <3>2. QED BY <1>3, <2>2, <3>1 DEF RunHook, Promise!Serve
  <2>3. QED BY <2>1, <2>2
<1>4. QED BY <1>1, <1>2, <1>3

\* What the users call, and how it ends.
LEMMA UseIsPromised ==
  ASSUME LinkInv, NEW c \in Callers,
         \/ owner # "new" /\ owner # "connecting" /\ Operate(c)
         \/ OperationEnds(c)
  PROVE  Promise!Next
<1> USE LinkAssumption
    DEF LinkInv, SessionInv, SessionBooks, Typed, TypeOK, Tasks, Promise!owned, Promise!Next
<1>1. ASSUME NEW t \in Topics, NEW v \in Payloads, owner # "new", owner # "connecting",
             Publish(c, t, v)
      PROVE  Promise!Next
  <2>1. [d \in Callers |-> on[d]]' = [[d \in Callers |-> on[d]] EXCEPT ![c] = session]
    BY <1>1, UsersWait DEF Publish, StartOperation
  <2>2. Promise!Publish(c)
    BY <1>1, <2>1 DEF Publish, Promise!Publish, Promise!Begin
  <2>3. QED BY <1>1, <2>2 DEF Promise!Use
<1>2. ASSUME NEW f \in Filters, owner # "new", owner # "connecting", Subscribe(c, f)
      PROVE  Promise!Next
  <2>1. [d \in Callers |-> on[d]]' = [[d \in Callers |-> on[d]] EXCEPT ![c] = session]
    BY <1>2, UsersWait DEF Subscribe, StartOperation
  <2>2. session # 0 => session \in Clients
    BY DEF Clients
  <2>3. Promise!Subscribe(c, f)
    BY <1>2, <2>1, <2>2 DEF Subscribe, Promise!Subscribe, Promise!Begin
  <2>4. QED BY <1>2, <2>3 DEF Promise!Use
<1>3. ASSUME NEW f \in Filters, owner # "new", owner # "connecting", Unsubscribe(c, f)
      PROVE  Promise!Next
  <2>1. [d \in Callers |-> on[d]]' = [[d \in Callers |-> on[d]] EXCEPT ![c] = session]
    BY <1>3, UsersWait DEF Unsubscribe, StartOperation
  <2>2. session # 0 => session \in Clients
    BY DEF Clients
  <2>3. Promise!Unsubscribe(c, f)
    BY <1>3, <2>1, <2>2 DEF Unsubscribe, Promise!Unsubscribe, Promise!Begin
  <2>4. QED BY <1>3, <2>3 DEF Promise!Use
<1>4. CASE OperationDone(c)
  <2>1. [d \in Callers |-> on[d]]' = [[d \in Callers |-> on[d]] EXCEPT ![c] = 0]
    BY <1>4, UsersWait DEF OperationDone
  <2>2. Promise!Done(c)
    BY <1>4, <2>1 DEF OperationDone, Promise!Done
  <2>3. QED BY <2>2
<1>5. CASE OperationFails(c)
  <2>1. [d \in Callers |-> on[d]]' = [[d \in Callers |-> on[d]] EXCEPT ![c] = 0]
    BY <1>5, UsersWait DEF OperationFails
  <2>2. /\ on[c] # 0
        /\ session' = IF session = on[c] THEN 0 ELSE session
        /\ cut' = (cut \union {d \in Tasks : on[d] = on[c]}) \ {c}
        /\ UNCHANGED <<owner, sup, reconnecting, cur, routes, sent>>
    BY <1>5 DEF OperationFails, Fail, Abandon, InFlight
  <2>3. CASE on[c] = session
    <3>1. (cut \ {Restorer})' = ((cut \ {Restorer}) \union Promise!OthersOn(c)) \ {c}
      BY <2>2, <2>3 DEF Promise!OthersOn
    <3>2. Promise!Fails(c)
      BY <2>1, <2>2, <2>3, <3>1 DEF Promise!Fails, Promise!Over
    <3>3. QED BY <3>2
  <2>4. CASE on[c] # session
    <3>1. \A d \in Callers : on[d] = on[c] => d \in cut
      BY <2>2, <2>4 DEF NothingWaitsOnADeadSession
    <3>2. (cut \ {Restorer})' = (cut \ {Restorer}) \ {c}
      BY <2>2, <3>1
    <3>3. Promise!Fails(c)
      BY <2>1, <2>2, <2>4, <3>2 DEF Promise!Fails
    <3>4. QED BY <3>3
  <2>5. QED BY <2>3, <2>4
<1>6. QED
  BY <1>1, <1>2, <1>3, <1>4, <1>5 DEF Operate, OperationEnds

LEMMA LinkStepIsPromised ==
  ASSUME LinkInv, FreshClients, [Next]_vars PROVE [Promise!Next]_Promise!vars
<1>1. ASSUME UNCHANGED <<owner, sup, reconnecting, cur, session, on, cut, routes, sent>>
      PROVE  UNCHANGED Promise!vars
  BY <1>1 DEF Promise!vars, Promise!owned, Promise!used
<1>2. CASE Owner \/ SupConnected \/ SupConnectFails \/ SupConnectCancelled \/ SleepEnds
  BY <1>2, OwnerIsPromised
<1>3. CASE RestoreSends \/ RestoreAcknowledged \/ RunHook
  BY <1>3, RestoreIsPromised
<1>4. CASE RestoreFails \/ ReaderSeesDrop \/ DeadlineFires \/ ServingRaises \/ ServingCancelled
  <2>1. [Promise!Down]_Promise!vars
    BY <1>4, EndIsDown
    DEF RestoreFails, ReaderSeesDrop, DeadlineFires, ServingRaises, ServingCancelled, Serving
  <2>2. QED BY <2>1 DEF Promise!Next
<1>5. CASE LeaveEnds \/ SleepCancelled
  <2>1. session = 0 /\ session' = 0
    BY <1>5 DEF LeaveEnds, SleepCancelled, LinkInv, SessionInv, SessionBooks, Serving
  <2>2. UNCHANGED <<owner, reconnecting, cur, on, cut, routes, sent>>
        /\ sup # "connecting" /\ sup' # "connecting"
    BY <1>5 DEF LeaveEnds, SleepCancelled
  <2>3. QED BY <2>1, <2>2 DEF Promise!vars, Promise!owned, Promise!used
<1>6. ASSUME NEW k \in Clients, OrphanCloses(k) PROVE UNCHANGED Promise!vars
  BY <1>1, <1>6 DEF OrphanCloses
<1>7. ASSUME NEW c \in Callers,
             \/ owner # "new" /\ owner # "connecting" /\ Operate(c)
             \/ OperationEnds(c)
      PROVE  Promise!Next
  BY <1>7, UseIsPromised
<1>8. CASE Network \/ UNCHANGED vars
  BY <1>1, <1>8 DEF Network, vars, linkVars
<1>9. QED
  BY <1>2, <1>3, <1>4, <1>5, <1>6, <1>7, <1>8 DEF Next, Supervise, SuperviseAlone

\* What is built on the link can rely on what broker_link.py says of it:
\* sessions that follow one another, operations that belong to one of them and
\* fail with it, filters that are asked for before a session is in service,
\* and none of it once the link is closed.
THEOREM LinkKeepsPromise == Spec => LinkPromised
<1>1. Init => Promise!Init /\ FreshClients
  BY BrokerAssumption, LinkAssumption DEF Init, Promise!Init, FreshClients, Tasks
<1>2. Spec => []FreshClients
  BY <1>1, LinkInvariant, FreshClientsKept, PTL DEF Spec
<1>3. QED
  BY <1>1, <1>2, LinkInvariant, LinkStepIsPromised, PTL DEF Spec, LinkPromised, Promise!Spec
=============================================================================
