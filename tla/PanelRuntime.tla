---------------------------- MODULE PanelRuntime ----------------------------
(***************************************************************************)
(* One panel on the wire (emitter_adapter/runtime.py, transport.py and the *)
(* parts of panel.py that drive them): start_clone opens the link, builds  *)
(* the queueing transport and lets the emitter announce the panel's tree;  *)
(* the tick publishes what changed; the link's reconnect hook republishes  *)
(* the tree; stop_clone queues the final state, drains and disconnects.    *)
(*                                                                         *)
(* The transport is a bounded FIFO with one drainer, the link's only       *)
(* caller.  The emitter and the SDK under it are external: they submit     *)
(* items in the order written here and, as transport.py says of the SDK,   *)
(* submit nothing while the transport's is_running is false.               *)
(***************************************************************************)
EXTENDS BrokerLink, SequencesExt

CONSTANTS
    Drainer,      \* the transport's drainer task
    MaxPending,   \* the queue's bound
    MaxReadings,  \* bound: the panel's reading changes so many times
    DescTopic,    \* the root's $description
    PowerTopic,   \* a property the tick publishes
    Described,    \* the description's payload
    Ready, Final  \* payloads of the root's $state, on WillTopic

Readings == 0..MaxReadings

ASSUME RuntimeAssumption ==
    /\ Callers = {Drainer}
    /\ MaxReadings \in Nat
    /\ Topics = {WillTopic, DescTopic, PowerTopic}
    /\ WillTopic \notin {DescTopic, PowerTopic} /\ DescTopic # PowerTopic
    /\ Values = {Described, Ready, Final} \union Readings
    /\ Ready # Final
    /\ IsFiniteSet(Filters)

ASSUME QueueAssumption == MaxPending \in Nat \ {0}

VARIABLES
    phase,      \* "new", "running", "draining", "closing", "stopped"
    announced,  \* start_clone succeeded: the panel ran
    isRunning,  \* transport.is_running
    queue,      \* the transport's queue
    reading,    \* the emitter's current value of PowerTopic
    refused     \* history: topics whose last value found the queue full

runtimeVars == <<phase, announced, isRunning, queue, reading, refused>>
allVars == <<vars, runtimeVars>>

PublishItem(t, v) == [kind |-> "publish", topic |-> t, value |-> v]
SubscribeItem(f) == [kind |-> "subscribe", filter |-> f]

RuntimeInit ==
    /\ Init
    /\ phase = "new"
    /\ announced = FALSE
    /\ isRunning = FALSE
    /\ queue = <<>>
    /\ reading = 0
    /\ refused = {}

-----------------------------------------------------------------------------
(***************************************************************************)
(* What the emitter submits, in order.                                     *)
(***************************************************************************)
\* Mutant of Tree: ready goes out ahead of what it describes.
ReadyFirst(r) == << PublishItem(WillTopic, Ready),
                    PublishItem(DescTopic, Described),
                    PublishItem(PowerTopic, r) >>

Tree(r) == << PublishItem(DescTopic, Described),
              PublishItem(PowerTopic, r),
              PublishItem(WillTopic, Ready) >>

Announcement == SetToSeq({SubscribeItem(f) : f \in Filters}) \o Tree(reading)

Farewell == << PublishItem(WillTopic, Final),
               PublishItem(DescTopic, Empty),
               PublishItem(PowerTopic, Empty) >>

Room == MaxPending - Len(queue)

Named(items) ==
    {t \in Topics : \E i \in 1..Len(items) :
                        items[i].kind = "publish" /\ items[i].topic = t}

\* _submit() of each item in turn: the first that finds the queue full raises
\* TransportBacklogFull, and what came before it stays queued.
Taken(items) == SubSeq(items, 1, IF Len(items) <= Room THEN Len(items) ELSE Room)

Submit(items) ==
    /\ queue' = queue \o Taken(items)
    /\ refused' = (refused \union Named(items)) \ Named(Taken(items))

-----------------------------------------------------------------------------
(***************************************************************************)
(* start_clone.                                                            *)
(***************************************************************************)
StartClone == Connect /\ UNCHANGED runtimeVars

\* From connect()'s return to the runtime's is one turn of the loop.
StartSucceeds ==
    /\ ConnectReturns
    /\ Len(Announcement) <= Room
    /\ Submit(Announcement)
    /\ isRunning' = TRUE
    /\ phase' = "running"
    /\ announced' = TRUE
    /\ UNCHANGED reading

\* The emitter raised, having queued part of its tree: aclose(), which drains
\* that part, then disconnect().
StartRaises ==
    /\ ConnectReturns
    /\ \E n \in 0..Len(Announcement) : Submit(SubSeq(Announcement, 1, n))
    /\ isRunning' = FALSE
    /\ phase' = "draining"
    /\ UNCHANGED <<announced, reading>>

\* connect() raised, or its caller was cancelled.
ConnectRaises ==
    /\ owner = "connecting"
    /\ Disconnect
    /\ phase' = "closing"
    /\ UNCHANGED <<announced, isRunning, queue, reading, refused>>

-----------------------------------------------------------------------------
(***************************************************************************)
(* The tick and the reconnect hook.                                        *)
(***************************************************************************)
NextReading == IF reading < MaxReadings THEN reading + 1 ELSE reading

\* Mutant of RepublishTree: a reconnect restores the filters only.
NoRepublish ==
    /\ RunHook
    /\ UNCHANGED runtimeVars

\* The value is the emitter's before it is submitted, and panel.py logs what a
\* full queue raises and goes on.  Ticks are a second apart: with the link down,
\* where an item fails at once, what the last one queued is gone by the next.
Tick ==
    /\ phase = "running"
    /\ sup = "sleeping" => queue = <<>>
    /\ reading' = NextReading
    /\ Submit(<<PublishItem(PowerTopic, NextReading)>>)
    /\ UNCHANGED <<vars, phase, announced, isRunning>>

RepublishTree ==
    /\ RunHook
    /\ IF isRunning THEN Submit(Tree(reading)) ELSE UNCHANGED <<queue, refused>>
    /\ UNCHANGED <<phase, announced, isRunning, reading>>

-----------------------------------------------------------------------------
(***************************************************************************)
(* The drainer: one item at a time, dropped at once while the link is down.*)
(***************************************************************************)
\* Mutant of DrainerRuns: the drainer is cancelled when the stop begins.
DrainerStopsFirst == phase = "running"

DrainerRuns == phase \in {"running", "draining"}

DrainPublish ==
    /\ DrainerRuns
    /\ queue # <<>>
    /\ Head(queue).kind = "publish"
    /\ queue' = Tail(queue)
    /\ \/ Publish(Drainer, Head(queue).topic, Head(queue).value)
       \/ session = 0 /\ on[Drainer] = 0 /\ UNCHANGED vars
    /\ UNCHANGED <<phase, announced, isRunning, reading, refused>>

DrainSubscribe ==
    /\ DrainerRuns
    /\ queue # <<>>
    /\ Head(queue).kind = "subscribe"
    /\ queue' = Tail(queue)
    /\ Subscribe(Drainer, Head(queue).filter)
    /\ UNCHANGED <<phase, announced, isRunning, reading, refused>>

\* The queue's join(): every item taken has been seen through.
Joined == queue = <<>> /\ on[Drainer] = 0

-----------------------------------------------------------------------------
(***************************************************************************)
(* stop_clone.                                                             *)
(***************************************************************************)
\* Mutant of Stop: the emitter may go on submitting.
StopLeavesItRunning ==
    /\ phase = "running"
    /\ Submit(Farewell)
    /\ phase' = "draining"
    /\ UNCHANGED <<vars, announced, isRunning, reading>>

\* emitter.stop() queues the final state and clears the tree, then aclose()
\* stops the emitter submitting, all in one turn.  A full queue raises out of
\* emitter.stop(); the finally blocks close the transport and the link alike.
Stop ==
    /\ phase = "running"
    /\ Submit(Farewell)
    /\ isRunning' = FALSE
    /\ phase' = "draining"
    /\ UNCHANGED <<vars, announced, reading>>

\* Mutant of Drained: the client is closed in the same breath.
DrainedAtOnce ==
    /\ phase = "draining"
    /\ Disconnect
    /\ phase' = "closing"
    /\ UNCHANGED <<announced, isRunning, queue, reading, refused>>

\* join() returned: the drainer is cancelled and disconnect() begins.
Drained ==
    /\ phase = "draining"
    /\ Joined
    /\ Disconnect
    /\ phase' = "closing"
    /\ UNCHANGED <<announced, isRunning, queue, reading, refused>>

Stopped ==
    /\ DisconnectReturns
    /\ phase' = "stopped"
    /\ UNCHANGED <<announced, isRunning, queue, reading, refused>>

-----------------------------------------------------------------------------
\* A reconnect's delay is long enough for the drainer, which fails fast while
\* the link is down, to have emptied the queue.
Reconnect == SleepEnds /\ queue = <<>> /\ UNCHANGED runtimeVars

LinkStep ==
    /\ \/ SuperviseAlone
       \/ \E k \in Clients : OrphanCloses(k)
       \/ OperationEnds(Drainer)
       \/ Network
    /\ UNCHANGED runtimeVars

\* The serving block's catch-all is left out: nothing a panel subscribes to or
\* receives raises there.
RuntimeNext ==
    \/ StartClone \/ StartSucceeds \/ StartRaises \/ ConnectRaises
    \/ Tick \/ RepublishTree
    \/ DrainPublish \/ DrainSubscribe
    \/ Stop \/ Drained \/ Stopped
    \/ Reconnect
    \/ LinkStep

RuntimeSpec == RuntimeInit /\ [][RuntimeNext]_allVars

(***************************************************************************)
(* Each task that can run does: the panel's, the supervisor, the tick, the *)
(* drainer and the orphans' closing; and the broker reads, of one          *)
(* connection or another.  Nothing makes a fault or a stop happen.  A      *)
(* reconnect is a timer that elapses whatever the tick queues meanwhile,   *)
(* hence strong fairness.                                                  *)
(***************************************************************************)
RuntimeFairness ==
    /\ WF_allVars(\/ StartSucceeds \/ StartRaises
                  \/ ConnectRaises /\ connected = "error"
                  \/ Drained \/ Stopped)
    /\ WF_allVars((SuperviseAlone /\ UNCHANGED runtimeVars) \/ RepublishTree)
    /\ SF_allVars(Reconnect)
    /\ WF_allVars(Tick)
    /\ WF_allVars(\/ DrainPublish \/ DrainSubscribe
                  \/ OperationEnds(Drainer) /\ UNCHANGED runtimeVars)
    /\ WF_allVars(\E k \in Clients : OrphanCloses(k) /\ UNCHANGED runtimeVars)
    /\ WF_allVars((\E k \in Clients : BrokerTakes(k)) /\ UNCHANGED <<linkVars, runtimeVars>>)

RuntimeFairSpec == RuntimeSpec /\ RuntimeFairness

-----------------------------------------------------------------------------
(***************************************************************************)
(* Safety.                                                                 *)
(***************************************************************************)
AllSettled == \A k \in Clients : Settled(k)

\* stop_clone drains before it closes so that no stopped panel is left `ready'
\* on the broker: its final state arrives, or its session's will does.
StoppedPanelIsNotReady ==
    phase = "stopped" /\ announced /\ AllSettled => retained[WillTopic] # Ready

\* It is so of every panel whose final state the queue had room for, whatever
\* the link does while it drains.
QueuedFarewellIsHeard ==
    WillTopic \notin refused => StoppedPanelIsNotReady

\* A consumer that sees ready finds the description it refers to.
ReadyIsDescribed ==
    retained[WillTopic] = Ready => retained[DescTopic] = Described

\* With the link up and the queue drained, the broker holds the panel's current
\* tree, but for what a full queue refused: what outages and failures dropped
\* has been made good by the reconnect.
Undisturbed ==
    /\ phase = "running"
    /\ sup = "reading"
    /\ session # 0
    /\ conn[session] = "held"
    /\ sock[session] = "open"
    /\ Joined

TreeNow == [t \in Topics |->
    CASE t = WillTopic -> Ready
      [] t = DescTopic -> Described
      [] t = PowerTopic -> reading]

LiveTreeIsCurrent ==
    Undisturbed => \A t \in Topics \ refused : retained[t] = TreeNow[t]

\* The last word is the last word: once the final state is out, neither a
\* queued tree nor a republished one makes the panel ready again.
NoReadyAfterFinal ==
    [][retained[WillTopic] = Final => retained'[WillTopic] # Ready]_allVars

(***************************************************************************)
(* Liveness.                                                               *)
(***************************************************************************)
\* A stop ends: no operation the drain waits on is left waiting, and the link
\* closes.
StopEnds == []<>(phase \notin {"draining", "closing"})

\* A panel that keeps running is ready on the broker from some point on, unless
\* a full queue refused the `ready' of its last reconnect.
RunningPanelBecomesReady ==
    <>[](phase = "running" /\ WillTopic \notin refused) => <>[](retained[WillTopic] = Ready)
=============================================================================
