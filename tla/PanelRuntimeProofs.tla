------------------------- MODULE PanelRuntimeProofs -------------------------
(***************************************************************************)
(* Proofs about the panel on the wire, for every number of clients,        *)
(* readings and filters and for a queue of any size, full or not.          *)
(*                                                                         *)
(* Every step of the panel is a step of the link or leaves it alone, so    *)
(* the link's invariant holds here too.  What the broker ends up retaining *)
(* is then a matter of the items on their way to it: those queued, and     *)
(* those sent on a connection and not yet read.                            *)
(***************************************************************************)
EXTENDS PanelRuntime, BrokerLinkProofs, SequenceTheorems, FiniteSetTheorems

\* What is on its way: item i of the queue, packet i on connection k.
Says(s, i, t, v) ==
    i \in DOMAIN s /\ s[i].kind = "publish" /\ s[i].topic = t /\ s[i].value = v

Queued(i, t, v) == Says(queue, i, t, v)

Sent(k, i, t, v) ==
    i \in DOMAIN unread[k] /\ unread[k][i].topic = t /\ unread[k][i].value = v

QueuedReady == \E i \in Nat : Queued(i, WillTopic, Ready)
SentReady(k) == \E i \in Nat : Sent(k, i, WillTopic, Ready)

\* The panel is ready on the broker, or will be without another word of its own.
ReadyAbroad == retained[WillTopic] = Ready \/ \E k \in Clients : SentReady(k)

\* The final state, and any description but the tree's.
LastWords == {<<WillTopic, Final>>} \union {<<DescTopic, v>> : v \in Payloads \ {Described}}

Items == [kind : {"publish"}, topic : Topics, value : Payloads]
           \union [kind : {"subscribe"}, filter : Filters]

\* The broker reads what is sent on the session.
Live == session # 0 /\ conn[session] = "held"

\* A connection that will end without a DISCONNECT, so with its will.
Doomed(k) == bye[k] = "FIN" \/ k \in failed

\* A connection the broker holds that was served and owes the broker its will.
Served(k) ==
    /\ conn[k] = "held"
    /\ bye[k] # "DISCONNECT"
    /\ ~(k = cur /\ sup = "connecting")

\* A connection that ends with the will, or with the final state.
Ending(k) ==
    /\ conn[k] = "held"
    /\ Doomed(k) \/ \E i \in Nat : Sent(k, i, WillTopic, Final)

-----------------------------------------------------------------------------
RuntimeTypeOK ==
    /\ phase \in {"new", "running", "draining", "closing", "stopped"}
    /\ announced \in BOOLEAN
    /\ isRunning \in BOOLEAN
    /\ queue \in Seq(Items)
    /\ Len(queue) <= MaxPending
    /\ reading \in Readings
    /\ refused \in SUBSET Topics

PhaseBooks ==
    /\ phase = "new" <=> owner \in {"new", "connecting"}
    /\ phase = "closing" <=> owner = "closing"
    /\ phase = "stopped" <=> owner = "closed"
    /\ cancelled <=> owner \in {"closing", "closed"}
    /\ isRunning <=> phase = "running"
    /\ phase = "running" => announced
    /\ phase = "new" => ~announced
    /\ phase \notin {"running", "draining"} => queue = <<>> /\ on[Drainer] = 0
    /\ owner = "new" => ~reconnecting
    /\ owner = "connecting" => sup # "restoring" /\ (sup = "connecting" => ~reconnecting)

PipeBooks ==
    /\ \A j, k \in Clients : conn[j] = "held" /\ conn[k] = "held" => j = k
    /\ \A k \in Clients : k > cur => conn[k] = "none" /\ sock[k] = "none" /\ bye[k] = "no"
    /\ \A k \in Clients : unread[k] # <<>> =>
          /\ conn[k] = "held"
          /\ ~(k = cur /\ sup = "connecting")
          /\ on[Drainer] = k \/ Doomed(k)
    /\ session # 0 => conn[session] \in {"held", "gone"}

ByeBooks ==
    /\ \A k \in Clients : bye[k] # "no" => sock[k] \in {"dead", "closed"}
    /\ \A k \in Clients : bye[k] = "DISCONNECT" => sock[k] = "closed"
    /\ orphans # {} => cancelled
    /\ sup = "leaving" => cancelled

LeaveBooks ==
    /\ \A k \in Clients : k \in failed \/ on[Drainer] = k => bye[k] # "DISCONNECT"
    /\ \A k \in Clients : sock[k] = "none" => conn[k] = "none"

-----------------------------------------------------------------------------
LastWordBooks ==
    /\ \A w \in LastWords, i \in Nat :
          /\ Queued(i, w[1], w[2]) => /\ phase \notin {"new", "running"}
                                      /\ \A j \in Nat : Queued(j, WillTopic, Ready) => j < i
          /\ \A k \in Clients : Sent(k, i, w[1], w[2]) =>
                /\ phase \notin {"new", "running"}
                /\ ~QueuedReady
                /\ \A j \in Nat : Sent(k, j, WillTopic, Ready) => j < i
    /\ retained[WillTopic] = Final =>
          phase \notin {"new", "running"} /\ ~QueuedReady /\ \A k \in Clients : ~SentReady(k)

WillBooks ==
    /\ sup = "connecting" => ~QueuedReady
    /\ ~cancelled /\ ReadyAbroad => \E k \in Clients : Served(k)

FarewellBooks ==
    announced /\ phase # "running" /\ WillTopic \notin refused =>
      \/ \E i \in Nat : /\ Queued(i, WillTopic, Final)
                        /\ \A j \in Nat : Queued(j, WillTopic, Ready) => j < i
      \/ /\ ~QueuedReady
         /\ ReadyAbroad => \E k \in Clients : Ending(k)

\* The description a queued or a sent ready refers to is there, or ahead of it.
QueuedDescribed(k, i) ==
    \/ retained[DescTopic] = Described
    \/ \E h \in Nat : Sent(k, h, DescTopic, Described)
    \/ \E h \in Nat : h < i /\ Queued(h, DescTopic, Described)

SentDescribed(k, i) ==
    \/ retained[DescTopic] = Described
    \/ \E h \in Nat : h < i /\ Sent(k, h, DescTopic, Described)

\* No ready outlives the description that a queued or a sent item removes: there
\* is none, or the final state is ahead of it.
QueuedRevoked(k, i) ==
    \/ retained[WillTopic] # Ready /\ ~SentReady(k) /\ ~QueuedReady
    \/ \E h \in Nat : Sent(k, h, WillTopic, Final)
    \/ \E h \in Nat : h < i /\ Queued(h, WillTopic, Final)

SentRevoked(k, i) ==
    \/ retained[WillTopic] # Ready /\ ~SentReady(k)
    \/ \E h \in Nat : h < i /\ Sent(k, h, WillTopic, Final)

SentBooks ==
    \A k \in Clients, i \in Nat :
        /\ Sent(k, i, WillTopic, Ready) => SentDescribed(k, i)
        /\ \A v \in Payloads \ {Described} : Sent(k, i, DescTopic, v) => SentRevoked(k, i)

QueuedBooks ==
    \A k \in Clients, i \in Nat : Live /\ k = session =>
        /\ Queued(i, WillTopic, Ready) => QueuedDescribed(k, i)
        /\ \A v \in Payloads \ {Described} : Queued(i, DescTopic, v) => QueuedRevoked(k, i)

DescriptionBooks == ReadyIsDescribed /\ SentBooks /\ QueuedBooks

\* What the tree says of each topic.
Current(t) == IF t = WillTopic THEN Ready ELSE IF t = DescTopic THEN Described ELSE reading

\* The last word on t, on its way or retained, is v.
QueueSays(t, v) == \E i \in Nat : /\ Queued(i, t, v)
                                  /\ \A j \in Nat, u \in Payloads : j > i => ~Queued(j, t, u)
QueueSilent(t) == \A j \in Nat, u \in Payloads : ~Queued(j, t, u)
PipeSays(k, t, v) == \E i \in Nat : /\ Sent(k, i, t, v)
                                    /\ \A j \in Nat, u \in Payloads : j > i => ~Sent(k, j, t, u)
PipeSilent(k, t) == \A j \in Nat, u \in Payloads : ~Sent(k, j, t, u)

LastWord(k, t, v) ==
    \/ QueueSays(t, v)
    \/ QueueSilent(t) /\ PipeSays(k, t, v)
    \/ QueueSilent(t) /\ PipeSilent(k, t) /\ retained[t] = v

TreeBooks ==
    \A k \in Clients, t \in Topics, c \in Payloads :
        /\ phase = "running" /\ sup = "reading"
        /\ Live /\ k = session
        /\ c = Current(t) /\ t \notin refused
        => LastWord(k, t, c)

-----------------------------------------------------------------------------
(***************************************************************************)
(* The items of what the emitter submits.                                  *)
(***************************************************************************)
USE DEF Clients, Tasks, Payloads, alarms

LEMMA ItemsAre ==
  /\ \A t \in Topics, v \in Payloads : PublishItem(t, v) \in Items
  /\ \A f \in Filters : SubscribeItem(f) \in Items
  /\ {WillTopic, DescTopic, PowerTopic} \subseteq Topics
  /\ {Described, Ready, Final, Empty} \union Readings \subseteq Payloads
BY RuntimeAssumption, BrokerAssumption DEF Items, PublishItem, SubscribeItem

LEMMA TreeSays ==
  ASSUME NEW r \in Readings
  PROVE  /\ Tree(r) \in Seq(Items)
         /\ Len(Tree(r)) = 3
         /\ Tree(r)[1] = PublishItem(DescTopic, Described)
         /\ Tree(r)[2] = PublishItem(PowerTopic, r)
         /\ Tree(r)[3] = PublishItem(WillTopic, Ready)
BY ItemsAre DEF Tree

LEMMA FarewellSays ==
  /\ Farewell \in Seq(Items)
  /\ Len(Farewell) = 3
  /\ Farewell[1] = PublishItem(WillTopic, Final)
  /\ Farewell[2] = PublishItem(DescTopic, Empty)
  /\ Farewell[3] = PublishItem(PowerTopic, Empty)
BY ItemsAre DEF Farewell

Subscriptions == SetToSeq({SubscribeItem(f) : f \in Filters})

\* The /set filters, in some order.
LEMMA SubscriptionsAre ==
  /\ Subscriptions \in Seq(Items)
  /\ Len(Subscriptions) \in Nat
  /\ Len(Subscriptions) <= Cardinality(Filters)
  /\ \A i \in 1..Len(Subscriptions) : Subscriptions[i].kind = "subscribe"
<1> DEFINE S == {SubscribeItem(f) : f \in Filters}
<1>1. IsFiniteSet(S) /\ Cardinality(S) <= Cardinality(Filters)
  <2> DEFINE Sub == [f \in Filters |-> SubscribeItem(f)]
  <2>1. Sub \in Surjection(Filters, S) BY DEF Surjection
  <2>2. QED BY <2>1, RuntimeAssumption, FS_Surjection
<1>2. Cardinality(S) \in Nat /\ ExistsBijection(1..Cardinality(S), S)
  BY <1>1, FS_CardinalityType
<1>3. \E f \in [1..Cardinality(S) -> S] : IsInjective(f)
  BY <1>2 DEF ExistsBijection, Bijection, Injection, Surjection, IsInjective
<1>4. Subscriptions \in [1..Cardinality(S) -> S]
  BY <1>3 DEF Subscriptions, SetToSeq
<1>5. S \subseteq Items /\ \A x \in S : x.kind = "subscribe"
  BY ItemsAre DEF SubscribeItem
<1> HIDE DEF S
<1>6. Subscriptions \in Seq(Items) /\ Len(Subscriptions) = Cardinality(S)
  BY <1>2, <1>4, <1>5
<1>7. QED BY <1>1, <1>2, <1>4, <1>5, <1>6

\* c is s followed by the n items of t.
FollowedBy(c, s, t, n) ==
    /\ c \in Seq(Items)
    /\ Len(c) = Len(s) + n
    /\ \A i \in 1..(Len(s) + n) : c[i] = IF i <= Len(s) THEN s[i] ELSE t[i - Len(s)]

LEMMA Concatenated ==
  ASSUME NEW s \in Seq(Items), NEW t \in Seq(Items)
  PROVE  FollowedBy(s \o t, s, t, Len(t))
BY ConcatProperties DEF FollowedBy

LEMMA AnnouncementSays ==
  ASSUME reading \in Readings
  PROVE  /\ Announcement \in Seq(Items)
         /\ Len(Announcement) = Len(Subscriptions) + 3
         /\ \A i \in 1..Len(Subscriptions) : Announcement[i].kind = "subscribe"
         /\ Announcement[Len(Subscriptions) + 1] = PublishItem(DescTopic, Described)
         /\ Announcement[Len(Subscriptions) + 2] = PublishItem(PowerTopic, reading)
         /\ Announcement[Len(Subscriptions) + 3] = PublishItem(WillTopic, Ready)
<1>1. Announcement = Subscriptions \o Tree(reading) BY DEF Announcement, Subscriptions
<1>2. /\ Announcement \in Seq(Items)
      /\ Len(Announcement) = Len(Subscriptions) + 3
      /\ \A i \in 1..(Len(Subscriptions) + 3) :
            Announcement[i] = IF i <= Len(Subscriptions) THEN Subscriptions[i]
                              ELSE Tree(reading)[i - Len(Subscriptions)]
  <2>1. Subscriptions \in Seq(Items) /\ Tree(reading) \in Seq(Items) /\ Len(Tree(reading)) = 3
    BY SubscriptionsAre, TreeSays
  <2>2. FollowedBy(Subscriptions \o Tree(reading), Subscriptions, Tree(reading), Len(Tree(reading)))
    BY <2>1, Concatenated
  <2>3. FollowedBy(Announcement, Subscriptions, Tree(reading), 3)
    BY <1>1, <2>1, <2>2, Zenon
  <2>4. QED BY <2>3 DEF FollowedBy
<1>3. /\ Announcement[Len(Subscriptions) + 1] = Tree(reading)[1]
      /\ Announcement[Len(Subscriptions) + 2] = Tree(reading)[2]
      /\ Announcement[Len(Subscriptions) + 3] = Tree(reading)[3]
  <2>1. Len(Subscriptions) \in Nat BY SubscriptionsAre
  <2>2. ASSUME NEW j \in 1..3
        PROVE  Announcement[Len(Subscriptions) + j] = Tree(reading)[j]
    <3> DEFINE i == Len(Subscriptions) + j
    <3>1. i \in 1..(Len(Subscriptions) + 3) /\ ~(i <= Len(Subscriptions))
          /\ i - Len(Subscriptions) = j
      BY <2>1
    <3> HIDE DEF i
    <3>2. Announcement[i] = Tree(reading)[i - Len(Subscriptions)] BY <1>2, <3>1
    <3>3. QED BY <3>1, <3>2 DEF i
  <2>3. 1 \in 1..3 /\ 2 \in 1..3 /\ 3 \in 1..3 OBVIOUS
  <2>4. QED BY <2>2, <2>3, Zenon
<1>4. QED BY <1>2, <1>3, SubscriptionsAre, TreeSays

\* The topics a sequence of items names, in the words of Says.
LEMMA NamesAre ==
  ASSUME NEW s \in Seq(Items), NEW t \in Topics
  PROVE  t \in Named(s) <=> \E i \in 1..Len(s), v \in Payloads : Says(s, i, t, v)
<1>1. \A i \in 1..Len(s) : s[i] \in Items /\ i \in DOMAIN s OBVIOUS
<1>2. \A x \in Items : x.kind = "publish" => x.value \in Payloads BY DEF Items
<1>3. QED BY <1>1, <1>2 DEF Named, Says

\* t counts as refused once the first n of the items are taken.
StaysRefused(items, n, t) ==
    /\ t \in refused \/ \E i \in 1..Len(items), v \in Payloads : Says(items, i, t, v)
    /\ ~\E i \in 1..n, v \in Payloads : Says(items, i, t, v)

\* What Submit adds to the queue.
LEMMA SubmitAdds ==
  ASSUME RuntimeTypeOK, NEW items \in Seq(Items), Submit(items)
  PROVE  \E n \in 0..Len(items) :
           /\ Len(queue) + Len(items) <= MaxPending => n = Len(items)
           /\ n < Len(items) => Len(queue) + n = MaxPending
           /\ Len(queue) + n <= MaxPending
           /\ queue' \in Seq(Items)
           /\ Len(queue') = Len(queue) + n
           /\ \A i \in Nat : \A t, v : Queued(i, t, v)' <=>
                 \/ Queued(i, t, v)
                 \/ i - Len(queue) \in 1..n /\ Says(items, i - Len(queue), t, v)
           /\ \A t \in Topics : t \in refused' <=> StaysRefused(items, n, t)
<1> DEFINE n == IF Len(items) <= Room THEN Len(items) ELSE Room
           add == SubSeq(items, 1, n)
<1>1. /\ Len(queue) \in Nat /\ Len(items) \in Nat /\ MaxPending \in Nat
      /\ Room = MaxPending - Len(queue) /\ Room \in Nat
  BY QueueAssumption DEF RuntimeTypeOK, Room
<1>2. n \in 0..Len(items) /\ n <= Room BY <1>1
<1>3. \A i \in 1..n : items[i] \in Items BY <1>1, <1>2
<1>4. add \in Seq(Items) /\ Len(add) = n /\ \A i \in 1..n : add[i] = items[i]
  BY <1>2, <1>3, SubSeqProperties
<1>5. queue' = queue \o add /\ refused' = (refused \union Named(items)) \ Named(add)
  BY DEF Submit, Taken
<1> HIDE DEF add
<1>6. /\ queue' \in Seq(Items)
      /\ Len(queue') = Len(queue) + n
      /\ \A i \in 1..(Len(queue) + n) :
            queue'[i] = IF i <= Len(queue) THEN queue[i] ELSE add[i - Len(queue)]
  <2>1. queue \in Seq(Items) BY DEF RuntimeTypeOK
  <2>2. FollowedBy(queue \o add, queue, add, Len(add)) BY <1>4, <2>1, Concatenated
  <2>3. FollowedBy(queue', queue, add, n) BY <1>4, <1>5, <2>2, Zenon
  <2>4. QED BY <2>3 DEF FollowedBy
<1>7. n < Len(items) => Len(queue) + n = MaxPending BY <1>1
<1>8. Len(queue) + Len(items) <= MaxPending => n = Len(items) BY <1>1
<1> HIDE DEF n
<1>9. ASSUME NEW i \in Nat, NEW t, NEW v
      PROVE  Queued(i, t, v)' <=>
               \/ Queued(i, t, v)
               \/ i - Len(queue) \in 1..n /\ Says(items, i - Len(queue), t, v)
  <2>1. CASE i \in 1..Len(queue)
    BY <1>1, <1>2, <1>6, <2>1 DEF Queued, Says, RuntimeTypeOK
  <2>2. CASE i \in (Len(queue) + 1)..(Len(queue) + n)
    BY <1>1, <1>2, <1>4, <1>6, <2>2 DEF Queued, Says, RuntimeTypeOK
  <2>3. CASE i \notin 1..(Len(queue) + n)
    BY <1>1, <1>2, <1>6, <2>3 DEF Queued, Says, RuntimeTypeOK
  <2>4. QED BY <1>1, <1>2, <2>1, <2>2, <2>3
<1>10. ASSUME NEW t \in Topics
       PROVE  t \in refused' <=> StaysRefused(items, n, t)
  <2>1. t \in Named(items) <=> \E i \in 1..Len(items), v \in Payloads : Says(items, i, t, v)
    BY NamesAre
  <2>2. t \in Named(add) <=> \E i \in 1..n, v \in Payloads : Says(add, i, t, v)
    BY <1>4, NamesAre
  <2>3. \A i \in 1..n, v \in Payloads : Says(add, i, t, v) <=> Says(items, i, t, v)
    BY <1>1, <1>2, <1>4 DEF Says
  <2>4. QED BY <1>5, <2>1, <2>2, <2>3 DEF StaysRefused
<1>11. QED BY <1>1, <1>2, <1>6, <1>7, <1>8, <1>9, <1>10

\* Taking the head moves every other item up by one.
LEMMA TailMoves ==
  ASSUME RuntimeTypeOK, queue # <<>>, queue' = Tail(queue)
  PROVE  /\ queue' \in Seq(Items)
         /\ Len(queue') = Len(queue) - 1
         /\ Head(queue) \in Items
         /\ \A i \in Nat : \A t, v : Queued(i, t, v)' <=> i # 0 /\ Queued(i + 1, t, v)
<1>1. /\ Head(queue) \in Items
      /\ queue' \in Seq(Items)
      /\ Len(queue') = Len(queue) - 1
      /\ \A i \in 1..Len(queue') : queue'[i] = queue[i + 1]
  BY HeadTailProperties DEF RuntimeTypeOK
<1>2. Len(queue) \in Nat \ {0} BY EmptySeq DEF RuntimeTypeOK
<1>3. ASSUME NEW i \in Nat, NEW t, NEW v
      PROVE  Queued(i, t, v)' <=> i # 0 /\ Queued(i + 1, t, v)
  BY <1>1, <1>2 DEF Queued, Says, RuntimeTypeOK
<1>4. QED BY <1>1, <1>3

-----------------------------------------------------------------------------
(***************************************************************************)
(* The connections' pipes.                                                 *)
(***************************************************************************)
LEMMA SentIs ==
  ASSUME BrokerTypeOK, NEW k \in Clients, NEW i, NEW t, NEW v, Sent(k, i, t, v)
  PROVE  unread[k] # <<>> /\ i \in 1..Len(unread[k])
BY DEF Sent, BrokerTypeOK

LEMMA SendAdds ==
  ASSUME BrokerTypeOK, NEW k \in Clients, NEW p \in Packets, Send(k, p), conn[k] # "gone"
  PROVE  /\ unread'[k] # <<>> /\ \A j \in Clients \ {k} : unread'[j] = unread[j]
         /\ \A j \in Clients, i \in Nat : \A t, v : Sent(j, i, t, v)' <=>
              \/ Sent(j, i, t, v)
              \/ j = k /\ i = Len(unread[k]) + 1 /\ p.topic = t /\ p.value = v
<1>1. unread[k] \in Seq(Packets) BY DEF BrokerTypeOK
<1>2. unread' = [unread EXCEPT ![k] = Append(@, p)] BY DEF Send
<1>3. unread'[k] = Append(unread[k], p) /\ \A j \in Clients \ {k} : unread'[j] = unread[j]
  BY <1>2 DEF BrokerTypeOK
<1>4. /\ unread'[k] \in Seq(Packets)
      /\ Len(unread'[k]) = Len(unread[k]) + 1
      /\ \A i \in 1..Len(unread[k]) : unread'[k][i] = unread[k][i]
      /\ unread'[k][Len(unread[k]) + 1] = p
      /\ unread'[k] # <<>>
  BY <1>1, <1>3, AppendProperties
<1>5. ASSUME NEW j \in Clients, NEW i \in Nat, NEW t, NEW v
      PROVE  Sent(j, i, t, v)' <=>
              \/ Sent(j, i, t, v)
              \/ j = k /\ i = Len(unread[k]) + 1 /\ p.topic = t /\ p.value = v
  <2>1. CASE j # k BY <1>3, <2>1 DEF Sent
  <2>2. CASE j = k
    <3>1. /\ DOMAIN unread[k] = 1..Len(unread[k])
          /\ DOMAIN unread'[k] = 1..(Len(unread[k]) + 1)
          /\ Len(unread[k]) \in Nat
      BY <1>1, <1>4
    <3>2. CASE i \in 1..Len(unread[k])
      <4>1. unread'[k][i] = unread[k][i] /\ i # Len(unread[k]) + 1 BY <1>4, <3>1, <3>2
      <4>2. QED BY <2>2, <3>1, <3>2, <4>1 DEF Sent
    <3>3. CASE i = Len(unread[k]) + 1
      <4>1. i \notin DOMAIN unread[k] /\ i \in DOMAIN unread'[k] BY <3>1, <3>3
      <4>2. QED BY <1>4, <2>2, <3>3, <4>1 DEF Sent
    <3>4. CASE i \notin 1..(Len(unread[k]) + 1)
      <4>1. i \notin DOMAIN unread[k] /\ i \notin DOMAIN unread'[k] BY <3>1, <3>4
      <4>2. i # Len(unread[k]) + 1 BY <3>1, <3>4
      <4>3. QED BY <2>2, <4>1, <4>2 DEF Sent
    <3>5. QED BY <3>1, <3>2, <3>3, <3>4
  <2>3. QED BY <2>1, <2>2
<1>6. QED BY <1>3, <1>4, <1>5

LEMMA ReadMoves ==
  ASSUME BrokerTypeOK, NEW k \in Clients, BrokerReads(k)
  PROVE  /\ \A j \in Clients \ {k} : unread'[j] = unread[j]
         /\ Sent(k, 1, Head(unread[k]).topic, Head(unread[k]).value)
         /\ \A t, v : Sent(k, 1, t, v) => t = Head(unread[k]).topic /\ v = Head(unread[k]).value
         /\ retained' = [retained EXCEPT ![Head(unread[k]).topic] = Head(unread[k]).value]
         /\ Head(unread[k]).topic \in Topics
         /\ \A i \in Nat : \A t, v : Sent(k, i, t, v)' <=> i # 0 /\ Sent(k, i + 1, t, v)
<1>1. unread[k] \in Seq(Packets) /\ unread[k] # <<>> BY DEF BrokerTypeOK, BrokerReads
<1>2. unread'[k] = Tail(unread[k]) /\ \A j \in Clients \ {k} : unread'[j] = unread[j]
  BY DEF BrokerReads, BrokerTypeOK
<1>3. /\ Head(unread[k]) \in Packets
      /\ unread'[k] \in Seq(Packets)
      /\ Len(unread'[k]) = Len(unread[k]) - 1
      /\ \A i \in 1..Len(unread'[k]) : unread'[k][i] = unread[k][i + 1]
  BY <1>1, <1>2, HeadTailProperties
<1>4. Len(unread[k]) \in Nat \ {0} /\ Head(unread[k]) = unread[k][1]
  BY <1>1, EmptySeq
<1>5. ASSUME NEW i \in Nat, NEW t, NEW v
      PROVE  Sent(k, i, t, v)' <=> i # 0 /\ Sent(k, i + 1, t, v)
  <2>1. DOMAIN unread[k] = 1..Len(unread[k]) /\ DOMAIN unread'[k] = 1..Len(unread'[k])
    BY <1>1, <1>3
  <2>2. CASE i \in 1..Len(unread'[k])
    <3>1. unread'[k][i] = unread[k][i + 1] BY <1>3, <2>2
    <3>2. i # 0 /\ i \in DOMAIN unread'[k] /\ i + 1 \in DOMAIN unread[k]
      BY <1>3, <1>4, <2>1, <2>2
    <3>3. QED BY <3>1, <3>2 DEF Sent
  <2>3. CASE i \notin 1..Len(unread'[k])
    <3>1. i \notin DOMAIN unread'[k] BY <2>1, <2>3
    <3>2. i # 0 => i + 1 \notin DOMAIN unread[k] BY <1>3, <1>4, <2>1, <2>3
    <3>3. QED BY <3>1, <3>2 DEF Sent
  <2>4. QED BY <2>2, <2>3
<1>6. Sent(k, 1, Head(unread[k]).topic, Head(unread[k]).value)
  BY <1>1, <1>4 DEF Sent
<1>7. \A t, v : Sent(k, 1, t, v) => t = Head(unread[k]).topic /\ v = Head(unread[k]).value
  BY <1>4 DEF Sent
<1>8. QED BY <1>2, <1>3, <1>5, <1>6, <1>7 DEF BrokerReads, Packets

LEMMA SentSame ==
  ASSUME UNCHANGED unread
  PROVE  \A k \in Clients : \A i, t, v : Sent(k, i, t, v)' <=> Sent(k, i, t, v)
BY DEF Sent

LEMMA QueuedSame ==
  ASSUME UNCHANGED queue
  PROVE  \A i, t, v : Queued(i, t, v)' <=> Queued(i, t, v)
BY DEF Queued, Says

-----------------------------------------------------------------------------
(***************************************************************************)
(* Every step of the panel is a step of its link, or leaves it alone.      *)
(***************************************************************************)
LEMMA HeadIsItem ==
  ASSUME RuntimeTypeOK, queue # <<>>
  PROVE  \/ /\ Head(queue).kind = "publish"
            /\ Head(queue).topic \in Topics /\ Head(queue).value \in Payloads
         \/ Head(queue).kind = "subscribe" /\ Head(queue).filter \in Filters
<1>1. Head(queue) \in Items BY HeadTailProperties DEF RuntimeTypeOK
<1>2. QED BY <1>1 DEF Items

LEMMA RuntimeSteps ==
  ASSUME RuntimeTypeOK, PhaseBooks, [RuntimeNext]_allVars PROVE [Next]_vars
<1> USE DEF RuntimeTypeOK, PhaseBooks
<1>1. CASE StartClone \/ StartSucceeds \/ StartRaises \/ ConnectRaises \/ Drained \/ Stopped
  BY <1>1 DEF StartClone, StartSucceeds, StartRaises, ConnectRaises, Drained, Stopped, Next, Owner
<1>2. CASE Tick \/ Stop BY <1>2 DEF Tick, Stop
<1>3. CASE RepublishTree BY <1>3 DEF RepublishTree, Next, Supervise
<1>4. CASE DrainPublish
  <2>1. CASE UNCHANGED vars BY <2>1
  <2>2. CASE Publish(Drainer, Head(queue).topic, Head(queue).value)
    <3>1. Head(queue).topic \in Topics /\ Head(queue).value \in Payloads
      BY <1>4, HeadIsItem DEF DrainPublish
    <3>2. Operate(Drainer) BY <2>2, <3>1 DEF Operate
    <3>3. owner # "new" /\ owner # "connecting" BY <1>4 DEF DrainPublish, DrainerRuns
    <3>4. QED BY <3>2, <3>3, RuntimeAssumption DEF Next
  <2>3. QED BY <1>4, <2>1, <2>2 DEF DrainPublish
<1>5. CASE DrainSubscribe
  <2>1. Head(queue).filter \in Filters BY <1>5, HeadIsItem DEF DrainSubscribe
  <2>2. Operate(Drainer) BY <1>5, <2>1 DEF DrainSubscribe, Operate
  <2>3. owner # "new" /\ owner # "connecting" BY <1>5 DEF DrainSubscribe, DrainerRuns
  <2>4. QED BY <2>2, <2>3, RuntimeAssumption DEF Next
<1>6. CASE Reconnect BY <1>6 DEF Reconnect, Next, Supervise
<1>7. CASE LinkStep BY <1>7, RuntimeAssumption DEF LinkStep, Next, Supervise
<1>8. CASE UNCHANGED allVars BY <1>8 DEF allVars
<1>9. QED BY <1>1, <1>2, <1>3, <1>4, <1>5, <1>6, <1>7, <1>8 DEF RuntimeNext

-----------------------------------------------------------------------------
(***************************************************************************)
(* Types and phases.                                                       *)
(***************************************************************************)
LEMMA NextReadingIs == ASSUME reading \in Readings PROVE NextReading \in Readings
BY RuntimeAssumption DEF Readings, NextReading

LEMMA RuntimeTyped == ASSUME RuntimeTypeOK, [RuntimeNext]_allVars PROVE RuntimeTypeOK'
<1>1. ASSUME NEW items \in Seq(Items), Submit(items)
      PROVE  queue' \in Seq(Items) /\ Len(queue') <= MaxPending /\ refused' \in SUBSET Topics
  <2>1. queue' \in Seq(Items) /\ Len(queue') <= MaxPending BY <1>1, SubmitAdds
  <2>2. refused' \in SUBSET Topics BY <1>1 DEF Submit, Named, RuntimeTypeOK
  <2>3. QED BY <2>1, <2>2
<1>2. ASSUME queue # <<>>, queue' = Tail(queue)
      PROVE  queue' \in Seq(Items) /\ Len(queue') <= MaxPending
  <2>1. Len(queue) \in Nat /\ Len(queue) <= MaxPending BY DEF RuntimeTypeOK
  <2>2. QED BY <1>2, <2>1, TailMoves, QueueAssumption
<1>3. CASE StartSucceeds
  <2>1. Announcement \in Seq(Items) BY AnnouncementSays DEF RuntimeTypeOK
  <2>2. QED BY <1>1, <1>3, <2>1 DEF StartSucceeds, RuntimeTypeOK
<1>4. CASE StartRaises
  <2>1. PICK n \in 0..Len(Announcement) : Submit(SubSeq(Announcement, 1, n))
    BY <1>4 DEF StartRaises
  <2>2. Announcement \in Seq(Items) BY AnnouncementSays DEF RuntimeTypeOK
  <2>3. SubSeq(Announcement, 1, n) \in Seq(Items) BY <2>2, SubSeqProperties
  <2>4. QED BY <1>1, <1>4, <2>1, <2>3 DEF StartRaises, RuntimeTypeOK
<1>5. CASE Tick
  <2>1. NextReading \in Readings BY NextReadingIs DEF RuntimeTypeOK
  <2>2. <<PublishItem(PowerTopic, NextReading)>> \in Seq(Items) BY <2>1, ItemsAre
  <2>3. QED BY <1>1, <1>5, <2>1, <2>2 DEF Tick, RuntimeTypeOK
<1>6. CASE RepublishTree
  <2>1. Tree(reading) \in Seq(Items) BY TreeSays DEF RuntimeTypeOK
  <2>2. QED BY <1>1, <1>6, <2>1 DEF RepublishTree, RuntimeTypeOK
<1>7. CASE Stop BY <1>1, <1>7, FarewellSays DEF Stop, RuntimeTypeOK
<1>8. CASE DrainPublish \/ DrainSubscribe
  BY <1>2, <1>8 DEF DrainPublish, DrainSubscribe, RuntimeTypeOK
<1>9. CASE StartClone \/ ConnectRaises \/ Drained \/ Stopped \/ Reconnect \/ LinkStep
            \/ UNCHANGED allVars
  BY <1>9 DEF StartClone, ConnectRaises, Drained, Stopped, Reconnect, LinkStep, runtimeVars,
              allVars, RuntimeTypeOK
<1>10. QED BY <1>3, <1>4, <1>5, <1>6, <1>7, <1>8, <1>9 DEF RuntimeNext

LEMMA PhasesKept ==
  ASSUME LinkInv, RuntimeTypeOK, PhaseBooks, [RuntimeNext]_allVars PROVE PhaseBooks'
<1> USE DEF PhaseBooks
<1>0. /\ Drainer \in Callers /\ Drainer # Restorer
      /\ on \in [Tasks -> 0..MaxClients]
      /\ OwnerBooks
  BY RuntimeAssumption, LinkAssumption DEF LinkInv, Typed, TypeOK
<1>1. CASE StartClone
  BY <1>0, <1>1 DEF StartClone, Connect, DialNext, runtimeVars
<1>2. CASE StartSucceeds \/ StartRaises
  BY <1>0, <1>2 DEF StartSucceeds, StartRaises, ConnectReturns
<1>3. CASE ConnectRaises \/ Drained
  BY <1>0, <1>3 DEF ConnectRaises, Drained, Disconnect, Joined
<1>4. CASE Stopped
  BY <1>4 DEF Stopped, DisconnectReturns
<1>5. CASE Tick \/ Stop
  BY <1>5 DEF Tick, Stop, vars, linkVars
<1>6. CASE RepublishTree
  BY <1>6 DEF RepublishTree, RunHook
<1>7. CASE DrainPublish \/ DrainSubscribe
  BY <1>7 DEF DrainPublish, DrainSubscribe, DrainerRuns, Publish, Subscribe, vars, linkVars
<1>8. CASE Reconnect
  BY <1>0, <1>8 DEF Reconnect, SleepEnds, DialNext, runtimeVars
<1>9. CASE LinkStep
  <2>0. UNCHANGED runtimeVars BY <1>9 DEF LinkStep
  <2>1. CASE SuperviseAlone
    <3>1. UNCHANGED <<owner, cancelled>> /\ on'[Drainer] = on[Drainer]
      BY <1>0, <2>1 DEF SuperviseAlone, SupConnected, SupConnectFails, SupConnectCancelled,
        RestoreSends, RestoreAcknowledged, RestoreFails, ReaderSeesDrop, DeadlineFires,
        ServingCancelled, LeaveEnds, SleepCancelled, EndServing
    <3>2. CASE SupConnected BY <2>0, <3>1, <3>2, <1>0 DEF SupConnected, runtimeVars, OwnerBooks
    <3>3. CASE ~SupConnected
      <4>1. (UNCHANGED reconnecting /\ sup' \notin {"restoring", "connecting"}) \/ sup' = sup
        BY <2>1, <3>3 DEF SuperviseAlone, SupConnectFails, SupConnectCancelled,
          RestoreSends, RestoreAcknowledged, RestoreFails, ReaderSeesDrop, DeadlineFires,
          ServingCancelled, LeaveEnds, SleepCancelled, EndServing
      <4>2. UNCHANGED reconnecting
        BY <2>1, <3>3 DEF SuperviseAlone, SupConnectFails, SupConnectCancelled,
          RestoreSends, RestoreAcknowledged, RestoreFails, ReaderSeesDrop, DeadlineFires,
          ServingCancelled, LeaveEnds, SleepCancelled, EndServing
      <4>3. QED BY <2>0, <3>1, <4>1, <4>2 DEF runtimeVars
    <3>4. QED BY <3>2, <3>3
  <2>2. CASE \E k \in Clients : OrphanCloses(k)
    BY <2>0, <2>2 DEF OrphanCloses, runtimeVars
  <2>3. CASE OperationEnds(Drainer)
    BY <2>0, <2>3, <1>0 DEF OperationEnds, OperationDone, OperationFails, runtimeVars
  <2>4. CASE Network
    BY <2>0, <2>4 DEF Network, linkVars, runtimeVars
  <2>5. QED BY <1>9, <2>1, <2>2, <2>3, <2>4 DEF LinkStep
<1>10. CASE UNCHANGED allVars
  BY <1>10 DEF allVars, vars, linkVars, runtimeVars
<1>11. QED BY <1>1, <1>2, <1>3, <1>4, <1>5, <1>6, <1>7, <1>8, <1>9, <1>10 DEF RuntimeNext

-----------------------------------------------------------------------------
(***************************************************************************)
(* The connections: one held at a time, and what is unread on it.          *)
(***************************************************************************)
LinkTypes ==
    /\ BrokerTypeOK /\ cur \in 0..MaxClients /\ session \in 0..MaxClients
    /\ failed \in SUBSET Clients /\ orphans \in SUBSET Clients
    /\ on \in [Tasks -> 0..MaxClients]
    /\ sup \in SupervisorStates

LEMMA LinkTypesAre == LinkInv => LinkTypes
BY DEF LinkInv, Typed, TypeOK, LinkTypes

LEMMA NetworkKeepsPipes ==
  ASSUME LinkTypes, PipeBooks, ByeBooks, Network PROVE PipeBooks' /\ ByeBooks'
<1> USE DEF LinkTypes, PipeBooks, ByeBooks, BrokerTypeOK, Doomed
<1>0. /\ Broker \/ Faults
      /\ UNCHANGED <<cur, session, failed, orphans, on, sup, cancelled>>
  BY DEF Network, linkVars
<1>1. ASSUME NEW k \in Clients, BrokerAccepts(k) PROVE PipeBooks' /\ ByeBooks'
  BY <1>0, <1>1 DEF BrokerAccepts
<1>2. ASSUME NEW k \in Clients, BrokerReads(k) PROVE PipeBooks' /\ ByeBooks'
  <2>1. UNCHANGED <<conn, bye, sock>> /\ conn[k] = "held" /\ unread[k] # <<>>
        /\ \A j \in Clients \ {k} : unread'[j] = unread[j]
    BY <1>2 DEF BrokerReads
  <2>2. ByeBooks' BY <1>0, <2>1
  <2>3. ASSUME NEW j \in Clients, unread'[j] # <<>> PROVE unread[j] # <<>>
    BY <2>1, <2>3
  <2>4. PipeBooks' BY <1>0, <2>1, <2>3
  <2>5. QED BY <2>2, <2>4
<1>3. ASSUME NEW k \in Clients, BrokerReadsBye(k) PROVE PipeBooks' /\ ByeBooks'
  BY <1>0, <1>3 DEF BrokerReadsBye
<1>4. ASSUME NEW k \in Clients, ConnectRefused(k) PROVE PipeBooks' /\ ByeBooks'
  BY <1>0, <1>4 DEF ConnectRefused
<1>5. ASSUME NEW k \in Clients, ConnectionCut(k) PROVE PipeBooks' /\ ByeBooks'
  <2>1. /\ conn' = [conn EXCEPT ![k] = "gone"] /\ unread' = [unread EXCEPT ![k] = <<>>]
        /\ bye' = bye
    BY <1>5 DEF ConnectionCut
  <2>a. \A j \in Clients : sock'[j] = sock[j] \/ (sock[j] = "open" /\ sock'[j] = "dead")
    <3>1. CASE UNCHANGED sock BY <3>1
    <3>2. CASE sock' = [sock EXCEPT ![k] = IF @ = "open" THEN "dead" ELSE @] BY <3>2
    <3>3. QED BY <1>5, <3>1, <3>2 DEF ConnectionCut
  <2>2. conn[k] = "held" BY <1>5 DEF ConnectionCut
  <2>3. PipeBooks' BY <1>0, <2>1, <2>2, <2>a
  <2>4. ByeBooks' BY <1>0, <2>1, <2>a
  <2>5. QED BY <2>3, <2>4
<1>6. ASSUME NEW k \in Clients, SocketDies(k) PROVE PipeBooks' /\ ByeBooks'
  BY <1>0, <1>6 DEF SocketDies
<1>7. CASE BrokerRestarts
  BY <1>0, <1>7 DEF BrokerRestarts
<1>8. QED
  BY <1>0, <1>1, <1>2, <1>3, <1>4, <1>5, <1>6, <1>7 DEF Broker, BrokerTakes, Faults

\* A client leaves its connection.
LEMMA LeaveKeepsPipes ==
  ASSUME LinkTypes, PipeBooks, ByeBooks, NEW k \in Clients, k <= cur, k \notin orphans',
         NEW g \in {"DISCONNECT", "FIN"}, Leave(k, g),
         g = "DISCONNECT" => k \notin failed,
         UNCHANGED cur, session' \in {0, session}, failed \subseteq failed',
         orphans' \subseteq orphans, on'[Drainer] = on[Drainer],
         sup' # "connecting" \/ sup' = sup,
         sup' = "connecting" => sup = "connecting",
         cancelled => cancelled', sup' = "leaving" => cancelled'
  PROVE  PipeBooks' /\ ByeBooks'
<1> USE DEF LinkTypes, PipeBooks, ByeBooks, BrokerTypeOK, Doomed, Leave
<1>1. UNCHANGED <<conn, unread>> /\ sock' = [sock EXCEPT ![k] = "closed"]
      /\ \A j \in Clients \ {k} : bye'[j] = bye[j]
      /\ bye'[k] \in {bye[k], g}
      /\ bye[k] # "no" => bye'[k] = bye[k]
  OBVIOUS
<1>2. ByeBooks'
  <2>1. ASSUME NEW j \in Clients
        PROVE  /\ bye'[j] # "no" => sock'[j] \in {"dead", "closed"}
               /\ bye'[j] = "DISCONNECT" => sock'[j] = "closed"
    <3>1. CASE j = k BY <1>1, <3>1
    <3>2. CASE j # k BY <1>1, <3>2
    <3>3. QED BY <3>1, <3>2
  <2>2. (orphans' # {} => cancelled') /\ (sup' = "leaving" => cancelled')
    OBVIOUS
  <2>3. QED BY <2>1, <2>2
<1>3. PipeBooks' BY <1>1
<1>4. QED BY <1>2, <1>3

LEMMA DialKeepsPipes ==
  ASSUME LinkTypes, PipeBooks, ByeBooks, DialNext, session = 0,
         UNCHANGED <<session, failed, orphans, on, cancelled>>
  PROVE  PipeBooks' /\ ByeBooks'
<1> USE BrokerAssumption DEF LinkTypes, PipeBooks, ByeBooks, BrokerTypeOK, Doomed
<1>1. /\ cur + 1 \in Clients /\ cur' = cur + 1 /\ cur \in Nat
      /\ conn' = [conn EXCEPT ![cur + 1] = "dialled"]
      /\ sock' = [sock EXCEPT ![cur + 1] = "open"]
      /\ UNCHANGED <<unread, bye>>
      /\ sup' = "connecting"
  BY DEF DialNext, Dial
<1>2. conn[cur + 1] = "none" /\ unread[cur + 1] = <<>> /\ bye[cur + 1] = "no"
  BY <1>1
<1>3. PipeBooks'
  <2>1. ASSUME NEW k \in Clients, k > cur'
        PROVE  conn'[k] = "none" /\ sock'[k] = "none" /\ bye'[k] = "no"
    <3>1. k > cur /\ k # cur + 1 BY <1>1, <2>1
    <3>2. QED BY <1>1, <3>1
  <2>2. ASSUME NEW k \in Clients, unread'[k] # <<>>
        PROVE  conn'[k] = "held" /\ k # cur' /\ (on'[Drainer] = k \/ Doomed(k)')
    <3>1. k # cur + 1 /\ conn'[k] = conn[k] /\ unread[k] # <<>> BY <1>1, <1>2, <2>2
    <3>2. QED BY <1>1, <3>1
  <2>3. \A j, k \in Clients : conn'[j] = "held" /\ conn'[k] = "held" => j = k
    BY <1>1
  <2>4. QED BY <1>1, <2>1, <2>2, <2>3
<1>4. ByeBooks' BY <1>1, <1>2
<1>5. QED BY <1>3, <1>4

\* Steps of the supervisor that leave the connections alone.
LEMMA SupervisorKeepsPipes ==
  ASSUME LinkTypes, PipeBooks, ByeBooks,
         UNCHANGED <<conn, unread, bye, sock, cur, failed>>,
         on'[Drainer] = on[Drainer],
         session' = session \/ session' = 0 \/ conn[session'] = "held",
         sup' = "connecting" => sup = "connecting",
         orphans' # {} => cancelled', sup' = "leaving" => cancelled'
  PROVE  PipeBooks' /\ ByeBooks'
BY DEF LinkTypes, PipeBooks, ByeBooks, BrokerTypeOK, Doomed

LEMMA OperationKeepsPipes ==
  ASSUME LinkTypes, PipeBooks, ByeBooks, OperationEnds(Drainer)
  PROVE  PipeBooks' /\ ByeBooks'
<1> USE RuntimeAssumption, BrokerAssumption
    DEF LinkTypes, PipeBooks, ByeBooks, BrokerTypeOK, Doomed
<1>0. /\ UNCHANGED <<conn, unread, bye, sock, sup, cur, orphans, cancelled>>
      /\ on' = [on EXCEPT ![Drainer] = 0] /\ on[Drainer] # 0
  BY DEF OperationEnds, OperationDone, OperationFails, brokerVars
<1>1. CASE OperationDone(Drainer)
  <2>1. UNCHANGED <<failed, session>> BY <1>1 DEF OperationDone
  <2>2. unread[on[Drainer]] = <<>>
    <3>1. \A i \in DOMAIN unread[on[Drainer]] : unread[on[Drainer]][i].by # Drainer
      BY <1>1 DEF OperationDone, Acknowledged
    <3>2. on[Drainer] \in Clients /\ unread[on[Drainer]] \in Seq(Packets) BY <1>0
    <3>3. ASSUME unread[on[Drainer]] # <<>> PROVE FALSE
      <4>1. 1 \in DOMAIN unread[on[Drainer]] BY <3>2, <3>3, EmptySeq
      <4>2. unread[on[Drainer]][1] \in Packets BY <3>2, <4>1
      <4>3. QED BY <3>1, <4>1, <4>2 DEF Packets
    <3>4. QED BY <3>3
  <2>3. QED BY <1>0, <2>1, <2>2
<1>2. CASE OperationFails(Drainer)
  <2>1. failed' = failed \union {on[Drainer]} /\ session' \in {0, session}
    BY <1>2 DEF OperationFails, Fail
  <2>2. PipeBooks' BY <1>0, <2>1
  <2>3. ByeBooks' BY <1>0, <2>1
  <2>4. QED BY <2>2, <2>3
<1>3. QED BY <1>1, <1>2 DEF OperationEnds

\* disconnect() is not taken back.
LEMMA LinkOwnerStays ==
  ASSUME RuntimeTypeOK, PhaseBooks, [RuntimeNext]_allVars
  PROVE  owner \in {"closing", "closed"} => owner' \in {"closing", "closed"}
<1>1. [Next]_vars BY RuntimeSteps
<1>2. CASE UNCHANGED owner BY <1>2
<1>3. CASE Owner
  BY <1>3 DEF Owner, Connect, ConnectReturns, Disconnect, DisconnectReturns
<1>4. QED
  BY <1>1, <1>2, <1>3
  DEF Next, Supervise, SuperviseAlone, SupConnected, SupConnectFails, SupConnectCancelled,
      RestoreSends, RestoreAcknowledged, RestoreFails, RunHook, ReaderSeesDrop,
      DeadlineFires, ServingCancelled, ServingRaises, LeaveEnds, SleepEnds, SleepCancelled,
      OrphanCloses, Operate, Publish, Subscribe, Unsubscribe, OperationEnds, OperationDone,
      OperationFails, Network, linkVars, vars

LEMMA PipesKept ==
  ASSUME LinkInv, RuntimeTypeOK, PhaseBooks, PipeBooks, ByeBooks, [RuntimeNext]_allVars
  PROVE  PipeBooks' /\ ByeBooks'
<1>0. /\ LinkTypes /\ SessionBooks /\ ClientBooks /\ OperationBooks
      /\ sup # "none" => cur \in Clients
      /\ Drainer \in Tasks /\ Drainer # Restorer
  BY LinkTypesAre, RuntimeAssumption, LinkAssumption, BrokerAssumption
     DEF LinkInv, SessionInv, ClientInv, LinkTypes, SessionBooks
<1>c. cancelled => cancelled'
  <2>1. PhaseBooks' BY PhasesKept
  <2>2. owner \in {"closing", "closed"} => owner' \in {"closing", "closed"} BY LinkOwnerStays
  <2>3. QED BY <2>1, <2>2 DEF PhaseBooks
<1>1. CASE StartClone \/ Reconnect
  <2>1. DialNext /\ session = 0 /\ UNCHANGED <<session, failed, orphans, on, cancelled>>
    BY <1>0, <1>1 DEF StartClone, Connect, Reconnect, SleepEnds, SessionBooks, Serving, LinkInv,
       OwnerBooks
  <2>2. QED BY <1>0, <2>1, DialKeepsPipes
<1>2. CASE StartSucceeds \/ StartRaises \/ Stopped \/ ConnectRaises \/ Drained \/ Tick \/ Stop
             \/ RepublishTree \/ UNCHANGED allVars
  <2>1. /\ UNCHANGED <<conn, unread, bye, sock, cur, failed, on, session, orphans>>
        /\ sup' = sup \/ sup' = "reading"
    BY <1>2 DEF StartSucceeds, StartRaises, Stopped, ConnectRaises, Drained, Tick, Stop,
        RepublishTree, ConnectReturns, DisconnectReturns, Disconnect, RunHook, vars, linkVars,
        brokerVars, allVars
  <2>2. QED BY <1>0, <1>c, <2>1, SupervisorKeepsPipes DEF ByeBooks
<1>3. CASE DrainPublish \/ DrainSubscribe
  <2>1. CASE UNCHANGED vars
    <3>1. UNCHANGED <<conn, unread, bye, sock, cur, failed, on, session, orphans, sup>>
      BY <2>1 DEF vars, linkVars, brokerVars
    <3>2. QED BY <1>0, <1>c, <3>1, SupervisorKeepsPipes DEF ByeBooks
  <2>2. ASSUME NEW t \in Topics, NEW v \in Payloads, Publish(Drainer, t, v)
        PROVE  PipeBooks' /\ ByeBooks'
    <3>1. /\ UNCHANGED <<conn, bye, sock, sup, cur, session, failed, orphans, cancelled>>
          /\ on' = [on EXCEPT ![Drainer] = session] /\ on[Drainer] = 0 /\ session # 0
      BY <2>2 DEF Publish, StartOperation, Send
    <3>2. \A k \in Clients \ {session} : unread'[k] = unread[k]
      BY <1>0, <2>2 DEF Publish, Send, LinkTypes, BrokerTypeOK
    <3>3. session \in Clients /\ session = cur /\ sup # "connecting"
      BY <1>0, <3>1, BrokerAssumption DEF LinkTypes, SessionBooks, Serving
    <3>4. conn[session] # "held" => unread' = unread
      BY <2>2, <3>3 DEF Publish, Send, PipeBooks
    <3>5. on'[Drainer] = session BY <1>0, <3>1 DEF LinkTypes
    <3>6. PipeBooks'
      <4>1. ASSUME NEW k \in Clients, unread'[k] # <<>>
            PROVE  conn'[k] = "held" /\ ~(k = cur' /\ sup' = "connecting")
                   /\ (on'[Drainer] = k \/ Doomed(k)')
        <5>1. CASE k = session
          BY <3>1, <3>3, <3>4, <3>5, <4>1, <5>1 DEF PipeBooks
        <5>2. CASE k # session
          <6>1. unread[k] # <<>> BY <3>2, <4>1, <5>2
          <6>2. Doomed(k) BY <3>1, <6>1 DEF PipeBooks
          <6>3. QED BY <3>1, <6>1, <6>2 DEF PipeBooks, Doomed
        <5>3. QED BY <5>1, <5>2
      <4>2. QED BY <3>1, <4>1 DEF PipeBooks
    <3>7. ByeBooks' BY <3>1 DEF ByeBooks
    <3>8. QED BY <3>6, <3>7
  <2>3. ASSUME NEW f, Subscribe(Drainer, f) PROVE PipeBooks' /\ ByeBooks'
    <3>1. /\ UNCHANGED <<conn, unread, bye, sock, sup, cur, session, failed, orphans, cancelled>>
          /\ on[Drainer] = 0
      BY <2>3 DEF Subscribe, brokerVars
    <3>2. \A k \in Clients : on[Drainer] # k BY <3>1
    <3>3. PipeBooks' BY <3>1, <3>2 DEF PipeBooks, Doomed
    <3>4. ByeBooks' BY <3>1 DEF ByeBooks
    <3>5. QED BY <3>3, <3>4
  <2>4. CASE DrainPublish
    <3>1. Head(queue).topic \in Topics /\ Head(queue).value \in Payloads
      BY <2>4, HeadIsItem DEF DrainPublish
    <3>2. QED BY <2>1, <2>2, <2>4, <3>1 DEF DrainPublish
  <2>5. QED BY <1>3, <2>3, <2>4 DEF DrainSubscribe
<1>4. CASE LinkStep
  <2>1. CASE SupConnected \/ SupConnectCancelled \/ RestoreSends \/ RestoreAcknowledged
               \/ LeaveEnds \/ SleepCancelled
    <3>1. UNCHANGED <<conn, unread, bye, sock, cur, failed>>
      BY <2>1 DEF SupConnected, SupConnectCancelled, RestoreSends, RestoreAcknowledged,
         LeaveEnds, SleepCancelled, brokerVars
    <3>2. on'[Drainer] = on[Drainer]
      BY <1>0, <2>1 DEF SupConnected, SupConnectCancelled, RestoreSends, RestoreAcknowledged,
         LeaveEnds, SleepCancelled, LinkTypes
    <3>3. /\ session' = session \/ session' = 0 \/ conn[session'] = "held"
          /\ sup' # "connecting" /\ sup' # "leaving"
      BY <2>1 DEF SupConnected, SupConnectCancelled, RestoreSends, RestoreAcknowledged,
         LeaveEnds, SleepCancelled
    <3>4. orphans' # {} => cancelled'
      BY <1>c, <2>1 DEF SupConnected, SupConnectCancelled, RestoreSends, RestoreAcknowledged,
         LeaveEnds, SleepCancelled, ByeBooks
    <3>5. QED BY <1>0, <3>1, <3>2, <3>3, <3>4, SupervisorKeepsPipes
  <2>2. CASE SupConnectFails
    <3>1. /\ Leave(cur, "DISCONNECT") /\ cur \notin failed /\ sup = "connecting"
          /\ cur \in Clients /\ orphans = {}
          /\ UNCHANGED <<cur, session, failed, orphans, on, cancelled>>
          /\ sup' \in {"sleeping", "done"}
      BY <1>0, <2>2 DEF SupConnectFails, Withdraw, SessionBooks, ClientBooks
    <3>2. QED BY <1>0, <3>1, LeaveKeepsPipes
  <2>3. CASE RestoreFails \/ ReaderSeesDrop \/ DeadlineFires \/ ServingCancelled
    <3>1. /\ cur \in Clients /\ orphans = {} /\ Serving
          /\ UNCHANGED <<cur, orphans, cancelled>>
          /\ EndServing
          /\ failed \subseteq failed'
      BY <1>0, <2>3 DEF RestoreFails, ReaderSeesDrop, DeadlineFires, ServingCancelled,
         ClientBooks, Serving
    <3>2. session' = 0 /\ on'[Drainer] = on[Drainer]
      BY <1>0, <3>1 DEF EndServing, LinkTypes
    <3>3. \E g \in {"DISCONNECT", "FIN"} : Leave(cur, g) /\ (g = "DISCONNECT" => cur \notin failed)
      BY <2>3 DEF RestoreFails, ReaderSeesDrop, DeadlineFires, ServingCancelled, LeaveSession
    <3>4. /\ sup' \in {"leaving", "sleeping", "done"}
          /\ sup' = "leaving" => cancelled'
      BY <1>0, <2>3 DEF RestoreFails, ReaderSeesDrop, DeadlineFires, ServingCancelled,
         LeavingWaits, SessionBooks
    <3>5. QED BY <1>0, <3>1, <3>2, <3>3, <3>4, LeaveKeepsPipes
  <2>4. ASSUME NEW k \in Clients, OrphanCloses(k) PROVE PipeBooks' /\ ByeBooks'
    <3>1. /\ Leave(k, "DISCONNECT") /\ k \in orphans /\ orphans' = orphans \ {k}
          /\ UNCHANGED <<cur, session, failed, on, sup, cancelled>>
      BY <2>4 DEF OrphanCloses, Withdraw
    <3>2. k \notin failed /\ sock[k] # "none" BY <1>0, <3>1 DEF ClientBooks
    <3>3. k <= cur BY <1>0, <3>2 DEF PipeBooks, LinkTypes
    <3>4. sup' = "leaving" => cancelled' BY <3>1 DEF ByeBooks
    <3>5. QED BY <1>0, <3>1, <3>2, <3>3, <3>4, LeaveKeepsPipes
  <2>5. CASE OperationEnds(Drainer) BY <1>0, <2>5, OperationKeepsPipes
  <2>6. CASE Network BY <1>0, <2>6, NetworkKeepsPipes
  <2>7. QED
    BY <1>4, <2>1, <2>2, <2>3, <2>4, <2>5, <2>6 DEF LinkStep, SuperviseAlone
<1>5. QED BY <1>1, <1>2, <1>3, <1>4 DEF RuntimeNext

-----------------------------------------------------------------------------
(***************************************************************************)
(* What the emitter's items say, and how they move.                        *)
(***************************************************************************)
LEMMA ThreeWords ==
  ASSUME NEW s, DOMAIN s = 1..3, NEW t1, NEW v1, NEW t2, NEW v2, NEW t3, NEW v3,
         s[1] = PublishItem(t1, v1), s[2] = PublishItem(t2, v2), s[3] = PublishItem(t3, v3),
         NEW i, NEW t, NEW v
  PROVE  Says(s, i, t, v) <=> \/ i = 1 /\ t = t1 /\ v = v1
                              \/ i = 2 /\ t = t2 /\ v = v2
                              \/ i = 3 /\ t = t3 /\ v = v3
BY DEF Says, PublishItem

LEMMA TreeWords ==
  ASSUME NEW r \in Readings, NEW i, NEW t, NEW v
  PROVE  Says(Tree(r), i, t, v) <=> \/ i = 1 /\ t = DescTopic /\ v = Described
                                    \/ i = 2 /\ t = PowerTopic /\ v = r
                                    \/ i = 3 /\ t = WillTopic /\ v = Ready
<1>1. DOMAIN Tree(r) = 1..3 BY TreeSays
<1>2. QED BY <1>1, TreeSays, ThreeWords

LEMMA FarewellWords ==
  ASSUME NEW i, NEW t, NEW v
  PROVE  Says(Farewell, i, t, v) <=> \/ i = 1 /\ t = WillTopic /\ v = Final
                                     \/ i = 2 /\ t = DescTopic /\ v = Empty
                                     \/ i = 3 /\ t = PowerTopic /\ v = Empty
<1>1. DOMAIN Farewell = 1..3 BY FarewellSays
<1>2. QED BY <1>1, FarewellSays, ThreeWords

LEMMA TickWords ==
  ASSUME NEW r \in Readings
  PROVE  /\ <<PublishItem(PowerTopic, r)>> \in Seq(Items)
         /\ Len(<<PublishItem(PowerTopic, r)>>) = 1
         /\ \A i, t, v : Says(<<PublishItem(PowerTopic, r)>>, i, t, v)
                           <=> i = 1 /\ t = PowerTopic /\ v = r
BY ItemsAre DEF Says, PublishItem

LEMMA AnnouncementWords ==
  ASSUME reading \in Readings, NEW i \in Int, NEW t, NEW v
  PROVE  Says(Announcement, i, t, v) <=>
           \/ i = Len(Subscriptions) + 1 /\ t = DescTopic /\ v = Described
           \/ i = Len(Subscriptions) + 2 /\ t = PowerTopic /\ v = reading
           \/ i = Len(Subscriptions) + 3 /\ t = WillTopic /\ v = Ready
<1> DEFINE N == Len(Subscriptions)
<1>1. N \in Nat BY SubscriptionsAre
<1>2. DOMAIN Announcement = 1..(N + 3) BY AnnouncementSays
<1>3. \A j \in 1..N : Announcement[j].kind = "subscribe" BY AnnouncementSays
<1>4. /\ Announcement[N + 1] = PublishItem(DescTopic, Described)
      /\ Announcement[N + 2] = PublishItem(PowerTopic, reading)
      /\ Announcement[N + 3] = PublishItem(WillTopic, Ready)
  BY AnnouncementSays
<1> HIDE DEF N
<1>5. CASE i \in 1..N BY <1>1, <1>2, <1>3, <1>5 DEF Says, N
<1>6. CASE i = N + 1 BY <1>1, <1>2, <1>4, <1>6 DEF Says, PublishItem, N
<1>7. CASE i = N + 2 BY <1>1, <1>2, <1>4, <1>7 DEF Says, PublishItem, N
<1>8. CASE i = N + 3 BY <1>1, <1>2, <1>4, <1>8 DEF Says, PublishItem, N
<1>9. CASE i \notin 1..(N + 3) BY <1>1, <1>2, <1>9 DEF Says, N
<1>10. QED BY <1>1, <1>5, <1>6, <1>7, <1>8, <1>9

LEMMA PrefixWords ==
  ASSUME NEW s \in Seq(Items), NEW n \in 0..Len(s)
  PROVE  /\ SubSeq(s, 1, n) \in Seq(Items)
         /\ \A i, t, v : Says(SubSeq(s, 1, n), i, t, v) <=> i \in 1..n /\ Says(s, i, t, v)
<1>1. \A i \in 1..n : s[i] \in Items OBVIOUS
<1>2. /\ SubSeq(s, 1, n) \in Seq(Items)
      /\ Len(SubSeq(s, 1, n)) = n
      /\ \A i \in 1..n : SubSeq(s, 1, n)[i] = s[i]
  BY <1>1, SubSeqProperties
<1>3. DOMAIN SubSeq(s, 1, n) = 1..n /\ 1..n \subseteq DOMAIN s BY <1>2
<1>4. QED BY <1>2, <1>3 DEF Says

\* The queue of the first start is the announcement, or as much of it as the
\* emitter got out.
LEMMA StartQueues ==
  ASSUME RuntimeTypeOK, PhaseBooks, StartSucceeds \/ StartRaises
  PROVE  /\ phase = "new" /\ queue = <<>> /\ UNCHANGED <<unread, retained, conn, session>>
         /\ \E N \in Nat :
              /\ \A i \in Nat : \A t, v : Queued(i, t, v)' =>
                    \/ i = N + 1 /\ t = DescTopic /\ v = Described
                    \/ i = N + 2 /\ t = PowerTopic /\ v = reading
                    \/ /\ i = N + 3 /\ t = WillTopic /\ v = Ready
                       /\ Queued(N + 1, DescTopic, Described)'
              /\ StartSucceeds =>
                    /\ Queued(N + 1, DescTopic, Described)'
                    /\ Queued(N + 2, PowerTopic, reading)'
                    /\ Queued(N + 3, WillTopic, Ready)'
<1>0. PICK N \in Nat : N = Len(Subscriptions) BY SubscriptionsAre
<1>1. phase = "new" /\ queue = <<>> /\ UNCHANGED <<unread, retained, conn, session>>
  BY DEF StartSucceeds, StartRaises, ConnectReturns, PhaseBooks, brokerVars
<1>2. Announcement \in Seq(Items) /\ Len(Announcement) = N + 3
  BY <1>0, AnnouncementSays DEF RuntimeTypeOK
<1>3. PICK n \in 0..(N + 3) : /\ Submit(SubSeq(Announcement, 1, n))
                              /\ StartSucceeds => n = N + 3
  <2>1. CASE StartSucceeds
    <3>1. SubSeq(Announcement, 1, N + 3) = Announcement BY <1>2, SubSeqFull
    <3>2. Submit(SubSeq(Announcement, 1, N + 3)) BY <2>1, <3>1 DEF StartSucceeds
    <3>3. N + 3 \in 0..(N + 3) BY <1>0
    <3>4. QED BY <3>2, <3>3
  <2>2. CASE StartRaises
    <3>1. PICK n \in 0..Len(Announcement) : Submit(SubSeq(Announcement, 1, n))
      BY <2>2 DEF StartRaises
    <3>2. ~StartSucceeds BY <2>2 DEF StartSucceeds, StartRaises
    <3>3. QED BY <1>2, <3>1, <3>2
  <2>3. QED BY <2>1, <2>2
<1> DEFINE items == SubSeq(Announcement, 1, n)
<1>4. /\ items \in Seq(Items)
      /\ \A i, t, v : Says(items, i, t, v) <=> i \in 1..n /\ Says(Announcement, i, t, v)
  BY <1>2, PrefixWords
<1>5. Len(items) = n
  <2>1. \A i \in 1..n : Announcement[i] \in Items BY <1>2
  <2>2. QED BY <2>1, SubSeqProperties
<1> HIDE DEF items
<1>6. Len(queue) = 0 /\ \A i, t, v : ~Queued(i, t, v)
  BY <1>1 DEF Queued, Says
<1>7. PICK m \in 0..n : /\ Len(queue) + n <= MaxPending => m = n
                        /\ Len(queue') = Len(queue) + m
                        /\ \A i \in Nat : \A t, v : Queued(i, t, v)' <=>
                             \/ Queued(i, t, v)
                             \/ i - Len(queue) \in 1..m /\ Says(items, i - Len(queue), t, v)
  <2>1. Submit(items) BY <1>3 DEF items
  <2>2. QED BY <2>1, <1>4, <1>5, SubmitAdds
<1>8. m \in 0..(N + 3) /\ (StartSucceeds => m = N + 3)
  BY <1>0, <1>2, <1>3, <1>6, <1>7, QueueAssumption DEF StartSucceeds, Room
<1>9. \A i \in Nat : \A t, v : Queued(i, t, v)' <=> i \in 1..m /\ Says(Announcement, i, t, v)
  <2>1. ASSUME NEW i \in Nat, NEW t, NEW v
        PROVE  Queued(i, t, v)' <=> i \in 1..m /\ Says(Announcement, i, t, v)
    <3>1. i - Len(queue) = i BY <1>6
    <3>2. Queued(i, t, v)' <=> i \in 1..m /\ Says(items, i, t, v)
      BY <1>6, <1>7, <1>8, <3>1
    <3>3. QED BY <1>4, <1>7, <3>2
  <2>2. QED BY <2>1
<1>10. \A i \in Nat : \A t, v : Says(Announcement, i, t, v) <=>
           \/ i = N + 1 /\ t = DescTopic /\ v = Described
           \/ i = N + 2 /\ t = PowerTopic /\ v = reading
           \/ i = N + 3 /\ t = WillTopic /\ v = Ready
  BY <1>0, AnnouncementWords DEF RuntimeTypeOK
<1>11. \A i \in Nat : \A t, v : Queued(i, t, v)' =>
           \/ i = N + 1 /\ t = DescTopic /\ v = Described
           \/ i = N + 2 /\ t = PowerTopic /\ v = reading
           \/ /\ i = N + 3 /\ t = WillTopic /\ v = Ready
              /\ Queued(N + 1, DescTopic, Described)'
  <2>1. ASSUME NEW i \in Nat, NEW t, NEW v, Queued(i, t, v)'
        PROVE  \/ i = N + 1 /\ t = DescTopic /\ v = Described
               \/ i = N + 2 /\ t = PowerTopic /\ v = reading
               \/ /\ i = N + 3 /\ t = WillTopic /\ v = Ready
                  /\ Queued(N + 1, DescTopic, Described)'
    <3>1. i \in 1..m /\ Says(Announcement, i, t, v) BY <1>9, <2>1
    <3>2. CASE i = N + 3
      <4>1. N + 1 \in 1..m /\ N + 1 \in Nat BY <1>0, <3>1, <3>2
      <4>2. Queued(N + 1, DescTopic, Described)' BY <1>9, <1>10, <4>1
      <4>3. QED BY <1>0, <1>10, <3>1, <3>2, <4>2
    <3>3. CASE i # N + 3 BY <1>10, <3>1, <3>3
    <3>4. QED BY <3>2, <3>3
  <2>2. QED BY <2>1
<1>12. StartSucceeds => /\ Queued(N + 1, DescTopic, Described)'
                        /\ Queued(N + 2, PowerTopic, reading)'
                        /\ Queued(N + 3, WillTopic, Ready)'
  <2>1. SUFFICES ASSUME StartSucceeds PROVE /\ Queued(N + 1, DescTopic, Described)'
                        /\ Queued(N + 2, PowerTopic, reading)'
                        /\ Queued(N + 3, WillTopic, Ready)'
    OBVIOUS
  <2>2. m = N + 3 BY <1>8, <2>1
  <2>3. N + 1 \in 1..m /\ N + 1 \in Nat /\ N + 2 \in 1..m /\ N + 2 \in Nat
        /\ N + 3 \in 1..m /\ N + 3 \in Nat
    BY <1>0, <2>2
  <2>6. Queued(N + 1, DescTopic, Described)' BY <1>9, <1>10, <2>3
  <2>7. Queued(N + 2, PowerTopic, reading)'
    <3>1. Says(Announcement, N + 2, PowerTopic, reading) BY <1>10, <2>3
    <3>2. reading' = reading BY <2>1 DEF StartSucceeds
    <3>3. PICK r : r = reading OBVIOUS
    <3>4. Queued(N + 2, PowerTopic, r)' BY <1>9, <2>3, <3>1, <3>3
    <3>5. QED BY <3>2, <3>3, <3>4 DEF Queued
  <2>8. Queued(N + 3, WillTopic, Ready)' BY <1>9, <1>10, <2>3
  <2>9. QED BY <2>6, <2>7, <2>8
<1>13. QED BY <1>1, <1>11, <1>12

\* A tick that finds no room is remembered as refused.
LEMMA TickQueues ==
  ASSUME RuntimeTypeOK, Tick
  PROVE  \E n \in 0..1 :
           /\ \A i \in Nat : \A t, v : Queued(i, t, v)' <=>
                \/ Queued(i, t, v)
                \/ n = 1 /\ i = Len(queue) + 1 /\ t = PowerTopic /\ v = NextReading
           /\ n = 0 => PowerTopic \in refused'
           /\ \A t \in Topics \ {PowerTopic} : t \in refused' <=> t \in refused
<1>1. NextReading \in Readings BY NextReadingIs DEF RuntimeTypeOK
<1>2. PICK items \in Seq(Items) :
         /\ items = <<PublishItem(PowerTopic, NextReading)>> /\ Len(items) = 1
         /\ \A i, t, v : Says(items, i, t, v) <=> i = 1 /\ t = PowerTopic /\ v = NextReading
  BY <1>1, TickWords
<1>3. Submit(items) BY <1>2 DEF Tick
<1>4. Len(queue) \in Nat BY DEF RuntimeTypeOK
<1>5. PICK n \in 0..1 :
        /\ \A i \in Nat : \A t, v : Queued(i, t, v)' <=>
             \/ Queued(i, t, v)
             \/ i - Len(queue) \in 1..n /\ Says(items, i - Len(queue), t, v)
        /\ \A t \in Topics : t \in refused' <=> StaysRefused(items, n, t)
  BY <1>2, <1>3, SubmitAdds
<1>6. ASSUME NEW i \in Nat, NEW t, NEW v
      PROVE  Queued(i, t, v)' <=>
               \/ Queued(i, t, v)
               \/ n = 1 /\ i = Len(queue) + 1 /\ t = PowerTopic /\ v = NextReading
  BY <1>2, <1>4, <1>5
<1>7. n = 0 => PowerTopic \in refused'
  <2>1. Says(items, 1, PowerTopic, NextReading) /\ 1 \in 1..1 BY <1>2
  <2>2. PowerTopic \in Topics /\ NextReading \in Payloads BY <1>1, ItemsAre
  <2>3. n = 0 => 1..n = {} OBVIOUS
  <2>4. QED BY <1>2, <1>5, <2>1, <2>2, <2>3 DEF StaysRefused
<1>8. \A t \in Topics \ {PowerTopic} : t \in refused' <=> t \in refused
  BY <1>2, <1>5 DEF StaysRefused
<1>9. QED BY <1>6, <1>7, <1>8

\* What a republished tree, or as much of it as fits, puts in the queue.
LEMMA RepublishQueues ==
  ASSUME RuntimeTypeOK, isRunning, RepublishTree
  PROVE  \E n \in 0..3 :
           /\ \A i \in Nat : \A t, v : Queued(i, t, v)' <=>
                \/ Queued(i, t, v)
                \/ n >= 1 /\ i = Len(queue) + 1 /\ t = DescTopic /\ v = Described
                \/ n >= 2 /\ i = Len(queue) + 2 /\ t = PowerTopic /\ v = reading
                \/ n >= 3 /\ i = Len(queue) + 3 /\ t = WillTopic /\ v = Ready
           /\ n < 1 => DescTopic \in refused'
           /\ n < 2 => PowerTopic \in refused'
           /\ n < 3 => WillTopic \in refused'
<1>1. PICK items \in Seq(Items) :
         /\ items = Tree(reading) /\ Len(items) = 3
         /\ \A i, t, v : Says(items, i, t, v) <=> \/ i = 1 /\ t = DescTopic /\ v = Described
                                                  \/ i = 2 /\ t = PowerTopic /\ v = reading
                                                  \/ i = 3 /\ t = WillTopic /\ v = Ready
  BY TreeSays, TreeWords DEF RuntimeTypeOK
<1>2. Submit(items) BY <1>1 DEF RepublishTree
<1>3. Len(queue) \in Nat BY DEF RuntimeTypeOK
<1>4. PICK n \in 0..3 :
        /\ \A i \in Nat : \A t, v : Queued(i, t, v)' <=>
             \/ Queued(i, t, v)
             \/ i - Len(queue) \in 1..n /\ Says(items, i - Len(queue), t, v)
        /\ \A t \in Topics : t \in refused' <=> StaysRefused(items, n, t)
  BY <1>1, <1>2, SubmitAdds
<1>5. ASSUME NEW i \in Nat, NEW t, NEW v
      PROVE  Queued(i, t, v)' <=>
                \/ Queued(i, t, v)
                \/ n >= 1 /\ i = Len(queue) + 1 /\ t = DescTopic /\ v = Described
                \/ n >= 2 /\ i = Len(queue) + 2 /\ t = PowerTopic /\ v = reading
                \/ n >= 3 /\ i = Len(queue) + 3 /\ t = WillTopic /\ v = Ready
  BY <1>1, <1>3, <1>4
<1>6. /\ DescTopic \in Topics /\ PowerTopic \in Topics /\ WillTopic \in Topics
      /\ Described \in Payloads /\ reading \in Payloads /\ Ready \in Payloads
  BY ItemsAre DEF RuntimeTypeOK
<1>7. n < 1 => DescTopic \in refused'
  <2>1. Says(items, 1, DescTopic, Described) /\ 1 \in 1..3 BY <1>1
  <2>2. \A i, v : Says(items, i, DescTopic, v) => i = 1 BY <1>1, RuntimeAssumption
  <2>3. n < 1 => 1 \notin 1..n OBVIOUS
  <2>4. QED BY <1>1, <1>4, <1>6, <2>1, <2>2, <2>3 DEF StaysRefused
<1>8. n < 2 => PowerTopic \in refused'
  <2>1. Says(items, 2, PowerTopic, reading) /\ 2 \in 1..3 BY <1>1
  <2>2. \A i, v : Says(items, i, PowerTopic, v) => i = 2 BY <1>1, RuntimeAssumption
  <2>3. n < 2 => 2 \notin 1..n OBVIOUS
  <2>4. QED BY <1>1, <1>4, <1>6, <2>1, <2>2, <2>3 DEF StaysRefused
<1>9. n < 3 => WillTopic \in refused'
  <2>1. Says(items, 3, WillTopic, Ready) /\ 3 \in 1..3 BY <1>1
  <2>2. \A i, v : Says(items, i, WillTopic, v) => i = 3 BY <1>1, RuntimeAssumption
  <2>3. n < 3 => 3 \notin 1..n OBVIOUS
  <2>4. QED BY <1>1, <1>4, <1>6, <2>1, <2>2, <2>3 DEF StaysRefused
<1>10. QED BY <1>5, <1>7, <1>8, <1>9

\* So with the final state.
LEMMA StopQueues ==
  ASSUME RuntimeTypeOK, Stop
  PROVE  \E n \in 0..3 :
           /\ n < 1 => WillTopic \in refused'
           /\ \A i \in Nat : \A t, v : Queued(i, t, v)' <=>
                \/ Queued(i, t, v)
                \/ n >= 1 /\ i = Len(queue) + 1 /\ t = WillTopic /\ v = Final
                \/ n >= 2 /\ i = Len(queue) + 2 /\ t = DescTopic /\ v = Empty
                \/ n >= 3 /\ i = Len(queue) + 3 /\ t = PowerTopic /\ v = Empty
<1>1. PICK items \in Seq(Items) :
         /\ items = Farewell /\ Len(items) = 3
         /\ \A i, t, v : Says(items, i, t, v) <=> \/ i = 1 /\ t = WillTopic /\ v = Final
                                                  \/ i = 2 /\ t = DescTopic /\ v = Empty
                                                  \/ i = 3 /\ t = PowerTopic /\ v = Empty
  BY FarewellSays, FarewellWords
<1>2. Submit(items) BY <1>1 DEF Stop
<1>3. Len(queue) \in Nat BY DEF RuntimeTypeOK
<1>4. PICK n \in 0..3 :
        /\ \A i \in Nat : \A t, v : Queued(i, t, v)' <=>
             \/ Queued(i, t, v)
             \/ i - Len(queue) \in 1..n /\ Says(items, i - Len(queue), t, v)
        /\ \A t \in Topics : t \in refused' <=> StaysRefused(items, n, t)
  BY <1>1, <1>2, SubmitAdds
<1>5. ASSUME NEW i \in Nat, NEW t, NEW v
      PROVE  Queued(i, t, v)' <=>
                \/ Queued(i, t, v)
                \/ n >= 1 /\ i = Len(queue) + 1 /\ t = WillTopic /\ v = Final
                \/ n >= 2 /\ i = Len(queue) + 2 /\ t = DescTopic /\ v = Empty
                \/ n >= 3 /\ i = Len(queue) + 3 /\ t = PowerTopic /\ v = Empty
  BY <1>1, <1>3, <1>4
<1>6. n < 1 => WillTopic \in refused'
  <2>1. Says(items, 1, WillTopic, Final) /\ 1 \in 1..3 BY <1>1
  <2>2. WillTopic \in Topics /\ Final \in Payloads BY ItemsAre
  <2>3. n < 1 => 1..n = {} OBVIOUS
  <2>4. QED BY <1>1, <1>4, <2>1, <2>2, <2>3 DEF StaysRefused
<1>7. QED BY <1>5, <1>6

-----------------------------------------------------------------------------
(***************************************************************************)
(* What the broker and the faults do to what is retained and what is       *)
(* unread: a packet is read; a connection is lost or taken over and its    *)
(* will appears, or the broker forgets everything; a DISCONNECT is read;   *)
(* or neither moves.                                                       *)
(***************************************************************************)
Cleared ==
    /\ retained' = WillPublished \/ retained' = [t \in Topics |-> Empty]
    /\ \A k \in Clients : unread'[k] = <<>>
    /\ ~Live'

GoodbyeRead(k) == BrokerReadsBye(k) /\ bye[k] = "DISCONNECT"

Steady ==
    /\ UNCHANGED <<unread, retained>>
    /\ \A k \in Clients : bye'[k] \in {bye[k], "FIN"}
    /\ \/ \A k \in Clients : conn[k] # "held"
       \/ \A k \in Clients : conn'[k] = "held" <=> conn[k] = "held"
    /\ Live' => Live

LEMMA NetworkKinds ==
  ASSUME LinkTypes, PipeBooks, Network
  PROVE  \/ \E k \in Clients : BrokerReads(k) \/ GoodbyeRead(k)
         \/ Steady
         \/ Cleared
<1> USE DEF LinkTypes, BrokerTypeOK
<1>0. /\ Broker \/ Faults
      /\ session' = session
      /\ session # 0 => session \in Clients /\ conn[session] \in {"held", "gone"}
      /\ \A k \in Clients : unread[k] # <<>> => conn[k] = "held"
  BY BrokerAssumption DEF Network, linkVars, PipeBooks
<1>1. ASSUME NEW k \in Clients, BrokerAccepts(k) PROVE Steady \/ Cleared
  <2>1. /\ conn[k] = "dialled"
        /\ \A j \in Clients \ {k} : conn'[j] = IF conn[j] = "held" THEN "gone" ELSE conn[j]
        /\ \A j \in Clients : unread'[j] = IF j # k /\ conn[j] = "held" THEN <<>> ELSE unread[j]
        /\ UNCHANGED bye
    BY <1>1 DEF BrokerAccepts
  <2>2. ~Live' BY <1>0, <2>1 DEF Live
  <2>3. CASE \E j \in Clients : conn[j] = "held"
    <3>1. retained' = WillPublished BY <1>1, <2>3 DEF BrokerAccepts
    <3>2. \A j \in Clients : unread'[j] = <<>> BY <1>0, <2>1
    <3>3. QED BY <2>2, <3>1, <3>2 DEF Cleared
  <2>4. CASE ~\E j \in Clients : conn[j] = "held"
    <3>1. retained' = retained BY <1>1, <2>4 DEF BrokerAccepts
    <3>2. unread' = unread BY <1>1, <2>4 DEF BrokerAccepts
    <3>3. QED BY <2>1, <2>2, <2>4, <3>1, <3>2 DEF Steady
  <2>5. QED BY <2>3, <2>4
<1>2. ASSUME NEW k \in Clients, BrokerReadsBye(k) PROVE GoodbyeRead(k) \/ Cleared
  <2>1. CASE bye[k] = "FIN"
    <3>1. /\ retained' = WillPublished /\ conn[k] = "held" /\ unread[k] = <<>>
          /\ UNCHANGED unread /\ conn' = [conn EXCEPT ![k] = "gone"]
      BY <1>2, <2>1 DEF BrokerReadsBye
    <3>2. \A j \in Clients : unread'[j] = <<>> BY <1>0, <3>1 DEF PipeBooks
    <3>3. ~Live' BY <1>0, <3>1 DEF PipeBooks, Live
    <3>4. QED BY <3>1, <3>2, <3>3 DEF Cleared
  <2>2. QED BY <1>2, <2>1 DEF GoodbyeRead, BrokerReadsBye
<1>3. ASSUME NEW k \in Clients, ConnectRefused(k) \/ SocketDies(k) PROVE Steady
  BY <1>0, <1>3 DEF ConnectRefused, SocketDies, Steady, Live
<1>4. ASSUME NEW k \in Clients, ConnectionCut(k) PROVE Cleared
  <2>1. /\ retained' = WillPublished /\ unread' = [unread EXCEPT ![k] = <<>>]
        /\ conn[k] = "held" /\ conn' = [conn EXCEPT ![k] = "gone"]
    BY <1>4 DEF ConnectionCut
  <2>2. \A j \in Clients : unread'[j] = <<>> BY <1>0, <2>1 DEF PipeBooks
  <2>3. ~Live' BY <1>0, <2>1 DEF PipeBooks, Live
  <2>4. QED BY <2>1, <2>2, <2>3 DEF Cleared
<1>5. CASE BrokerRestarts
  BY <1>0, <1>5 DEF BrokerRestarts, Cleared, Live
<1>6. QED BY <1>0, <1>1, <1>2, <1>3, <1>4, <1>5 DEF Broker, BrokerTakes, Faults

\* The drainer sends the head of the queue on the session, where the broker
\* reads it if it holds the connection; what is dropped or sent on a connection
\* the broker has closed goes nowhere.
LEMMA DrainMoves ==
  ASSUME LinkInv, PipeBooks, RuntimeTypeOK, DrainPublish
  PROVE  /\ \A i \in Nat : \A t, v : Queued(i, t, v)' <=> i # 0 /\ Queued(i + 1, t, v)
         /\ UNCHANGED <<retained, conn, bye, sock, phase, announced, isRunning, reading,
                        refused, session, failed, sup, cur, cancelled>>
         /\ DrainerRuns
         /\ session # 0 => on'[Drainer] = session
         /\ \E t0 \in Topics, v0 \in Payloads :
              /\ Queued(1, t0, v0)
              /\ \A t, v : Queued(1, t, v) => t = t0 /\ v = v0
              /\ \/ /\ Live
                    /\ \A k \in Clients, i \in Nat : \A t, v : Sent(k, i, t, v)' <=>
                         \/ Sent(k, i, t, v)
                         \/ k = session /\ i = Len(unread[k]) + 1 /\ t = t0 /\ v = v0
                 \/ ~Live /\ UNCHANGED unread
<1>1. /\ queue # <<>> /\ queue' = Tail(queue) /\ DrainerRuns
      /\ UNCHANGED <<phase, announced, isRunning, reading, refused>>
  BY DEF DrainPublish
<1>2. PICK t0 \in Topics, v0 \in Payloads :
        Head(queue).kind = "publish" /\ t0 = Head(queue).topic /\ v0 = Head(queue).value
  BY <1>1, HeadIsItem DEF DrainPublish
<1>3. Queued(1, t0, v0) /\ \A t, v : Queued(1, t, v) => t = t0 /\ v = v0
  <2>1. Head(queue) = queue[1] /\ 1 \in DOMAIN queue BY <1>1, EmptySeq DEF RuntimeTypeOK
  <2>2. QED BY <1>2, <2>1 DEF Queued, Says
<1>4. CASE Publish(Drainer, t0, v0)
  <2>1. /\ Send(session, [by |-> Drainer, topic |-> t0, value |-> v0])
        /\ UNCHANGED <<retained, conn, bye, sock, session, failed, sup, cur, cancelled>>
        /\ session # 0
        /\ on' = [on EXCEPT ![Drainer] = session]
    BY <1>4 DEF Publish, Send, StartOperation
  <2>2. BrokerTypeOK /\ session \in Clients /\ on'[Drainer] = session
    BY <2>1, LinkTypesAre, RuntimeAssumption, BrokerAssumption DEF LinkTypes
  <2>3. [by |-> Drainer, topic |-> t0, value |-> v0] \in Packets
    BY RuntimeAssumption DEF Packets
  <2>4. CASE Live
    <3>1. conn[session] # "gone" BY <2>4 DEF Live
    <3>2. PICK p \in Packets : p = [by |-> Drainer, topic |-> t0, value |-> v0] BY <2>3
    <3>3. p.topic = t0 /\ p.value = v0 BY <3>2
    <3>4. Send(session, p) BY <2>1, <3>2
    <3>5. \A k \in Clients, i \in Nat : \A t, v : Sent(k, i, t, v)' <=>
            \/ Sent(k, i, t, v)
            \/ k = session /\ i = Len(unread[k]) + 1 /\ t = t0 /\ v = v0
      BY <2>2, <3>1, <3>3, <3>4, SendAdds
    <3>6. QED BY <1>1, <1>3, <2>1, <2>2, <2>4, <3>5, TailMoves
  <2>5. CASE ~Live
    <3>1. conn[session] = "gone" BY <2>1, <2>5 DEF Live, PipeBooks
    <3>2. UNCHANGED unread BY <2>1, <3>1 DEF Send
    <3>3. QED BY <1>1, <1>3, <2>1, <2>2, <2>5, <3>2, TailMoves
  <2>6. QED BY <2>4, <2>5
<1>5. CASE session = 0 /\ UNCHANGED vars
  <2>1. UNCHANGED <<retained, conn, bye, sock, session, failed, sup, cur, cancelled, unread>>
        /\ ~Live
    BY <1>5 DEF vars, linkVars, brokerVars, Live
  <2>2. QED BY <1>1, <1>3, <1>5, <2>1, TailMoves
<1>6. QED BY <1>2, <1>4, <1>5 DEF DrainPublish

LEMMA SubscribeMoves ==
  ASSUME RuntimeTypeOK, DrainSubscribe
  PROVE  /\ \A i \in Nat : \A t, v : Queued(i, t, v)' <=> i # 0 /\ Queued(i + 1, t, v)
         /\ \A t, v : ~Queued(1, t, v)
         /\ UNCHANGED <<unread, retained, conn, bye, sock, phase, announced, isRunning, reading,
                        refused, session, failed, sup, cur, cancelled>>
<1>1. queue # <<>> /\ queue' = Tail(queue) BY DEF DrainSubscribe
<1>2. \A t, v : ~Queued(1, t, v)
  BY <1>1, EmptySeq DEF DrainSubscribe, Queued, Says, RuntimeTypeOK
<1>3. UNCHANGED <<unread, retained, conn, bye, sock, phase, announced, isRunning, reading,
                  refused, session, failed, sup, cur, cancelled>>
  BY DEF DrainSubscribe, Subscribe, brokerVars
<1>4. QED BY <1>1, <1>2, <1>3, TailMoves

\* Steps that move no item.
Quiet ==
    /\ UNCHANGED <<queue, unread, retained, announced, reading, refused>>
    /\ phase' = phase \/ phase' \in {"closing", "stopped"}

LEMMA RuntimeKinds ==
  ASSUME PhaseBooks, [RuntimeNext]_allVars
  PROVE  \/ StartSucceeds \/ StartRaises \/ Tick \/ Stop \/ DrainPublish \/ DrainSubscribe
         \/ RepublishTree /\ isRunning
         \/ Network /\ UNCHANGED runtimeVars
         \/ Quiet
<1>1. CASE StartClone \/ Reconnect
  BY <1>1 DEF StartClone, Connect, Reconnect, SleepEnds, DialNext, Dial, runtimeVars, Quiet
<1>2. CASE ConnectRaises \/ Drained \/ Stopped
  BY <1>2 DEF ConnectRaises, Drained, Stopped, Disconnect, DisconnectReturns, brokerVars, Quiet
<1>3. CASE RepublishTree /\ ~isRunning
  BY <1>3 DEF RepublishTree, RunHook, brokerVars, Quiet
<1>4. CASE LinkStep /\ ~Network
  <2>1. UNCHANGED runtimeVars BY <1>4 DEF LinkStep
  <2>2. UNCHANGED <<unread, retained>>
    BY <1>4 DEF LinkStep, SuperviseAlone, SupConnected, SupConnectFails, SupConnectCancelled,
        RestoreSends, RestoreAcknowledged, RestoreFails, ReaderSeesDrop, DeadlineFires,
        ServingCancelled, LeaveEnds, SleepCancelled, OrphanCloses, OperationEnds, OperationDone,
        OperationFails, Withdraw, LeaveSession, Leave, brokerVars
  <2>3. QED BY <2>1, <2>2 DEF Quiet, runtimeVars
<1>5. CASE UNCHANGED allVars
  BY <1>5 DEF allVars, vars, brokerVars, runtimeVars, Quiet
<1>6. QED BY <1>1, <1>2, <1>3, <1>4, <1>5 DEF RuntimeNext, LinkStep

-----------------------------------------------------------------------------
(***************************************************************************)
(* Nothing is ready behind a last word.                                    *)
(***************************************************************************)
LEMMA WordsDiffer ==
  /\ \A w \in LastWords : /\ ~(w[1] = WillTopic /\ w[2] = Ready)
                          /\ ~(w[1] = DescTopic /\ w[2] = Described)
                          /\ w[1] # PowerTopic
  /\ Final # Ready /\ Lost # Ready /\ Empty # Ready /\ Lost # Final /\ Empty # Final
  /\ Described # Empty
  /\ WillTopic # DescTopic /\ WillTopic # PowerTopic /\ DescTopic # PowerTopic
BY RuntimeAssumption, BrokerAssumption DEF LastWords

LEMMA LastWordsByNetwork ==
  ASSUME LinkTypes, PipeBooks, LastWordBooks, Network, UNCHANGED runtimeVars
  PROVE  LastWordBooks'
<1>1. UNCHANGED <<queue, phase>> BY DEF runtimeVars
<1>2. /\ \A i \in Nat : \A t, v : Queued(i, t, v)' <=> Queued(i, t, v)
      /\ QueuedReady' <=> QueuedReady
  <2>1. \A i, t, v : Queued(i, t, v)' <=> Queued(i, t, v) BY <1>1, QueuedSame
  <2>2. QED BY <2>1 DEF QueuedReady
<1>3. ASSUME \A k \in Clients, i \in Nat : \A t, v : Sent(k, i, t, v)' => Sent(k, i, t, v),
             retained'[WillTopic] = Final => retained[WillTopic] = Final
      PROVE  LastWordBooks'
  BY <1>1, <1>2, <1>3 DEF LastWordBooks, SentReady
<1>4. CASE UNCHANGED <<unread, retained>> BY <1>3, <1>4, SentSame
<1>5. CASE Cleared
  <2>1. \A k \in Clients : unread'[k] = <<>> BY <1>5 DEF Cleared
  <2>2. \A k \in Clients, i \in Nat : \A t, v : Sent(k, i, t, v)' => Sent(k, i, t, v)
    BY <2>1 DEF Sent
  <2>3. retained'[WillTopic] # Final
    BY <1>5, WordsDiffer, BrokerAssumption
       DEF Cleared, WillPublished, LinkTypes, BrokerTypeOK
  <2>4. QED BY <1>3, <2>2, <2>3
<1>6. ASSUME NEW k \in Clients, BrokerReads(k) PROVE LastWordBooks'
  <2>0. BrokerTypeOK /\ conn[k] = "held" BY <1>6 DEF LinkTypes, BrokerReads
  <2>1. /\ \A i \in Nat : \A t, v : Sent(k, i, t, v)' <=> i # 0 /\ Sent(k, i + 1, t, v)
        /\ Sent(k, 1, Head(unread[k]).topic, Head(unread[k]).value)
        /\ retained' = [retained EXCEPT ![Head(unread[k]).topic] = Head(unread[k]).value]
        /\ \A j \in Clients \ {k} : unread'[j] = unread[j]
    BY <1>6, <2>0, ReadMoves
  <2>2. \A j \in Clients \ {k} : \A i, t, v : ~Sent(j, i, t, v) /\ ~Sent(j, i, t, v)'
    <3>1. \A j \in Clients \ {k} : unread[j] = <<>> BY <2>0 DEF PipeBooks
    <3>2. QED BY <2>1, <3>1 DEF Sent
  <2>3. ASSUME NEW w \in LastWords, NEW i \in Nat
        PROVE  /\ Queued(i, w[1], w[2])' =>
                    /\ phase' \notin {"new", "running"}
                    /\ \A j \in Nat : Queued(j, WillTopic, Ready)' => j < i
               /\ \A m \in Clients : Sent(m, i, w[1], w[2])' =>
                    /\ phase' \notin {"new", "running"}
                    /\ ~QueuedReady'
                    /\ \A j \in Nat : Sent(m, j, WillTopic, Ready)' => j < i
    <3>1. Queued(i, w[1], w[2])' =>
                    /\ phase' \notin {"new", "running"}
                    /\ \A j \in Nat : Queued(j, WillTopic, Ready)' => j < i
      BY <1>1, <1>2 DEF LastWordBooks
    <3>2. ASSUME Sent(k, i, w[1], w[2])'
          PROVE  /\ phase' \notin {"new", "running"}
                 /\ ~QueuedReady'
                 /\ \A j \in Nat : Sent(k, j, WillTopic, Ready)' => j < i
      <4>1. Sent(k, i + 1, w[1], w[2]) /\ i + 1 \in Nat BY <2>1, <3>2
      <4>2. /\ phase \notin {"new", "running"}
            /\ ~QueuedReady
            /\ \A j \in Nat : Sent(k, j, WillTopic, Ready) => j < i + 1
        BY <4>1 DEF LastWordBooks
      <4>3. ASSUME NEW j \in Nat, Sent(k, j, WillTopic, Ready)' PROVE j < i
        <5>1. Sent(k, j + 1, WillTopic, Ready) /\ j + 1 \in Nat BY <2>1, <4>3
        <5>2. j + 1 < i + 1 BY <4>2, <5>1
        <5>3. QED BY <5>2
      <4>4. QED BY <1>1, <1>2, <4>2, <4>3
    <3>3. QED BY <2>2, <3>1, <3>2
  <2>4. ASSUME retained'[WillTopic] = Final
        PROVE  /\ phase' \notin {"new", "running"}
               /\ ~QueuedReady'
               /\ \A m \in Clients : ~SentReady(m)'
    <3>1. CASE Head(unread[k]).topic # WillTopic
      <4>1. retained[WillTopic] = Final
        BY <2>0, <2>1, <2>4, <3>1, BrokerAssumption DEF BrokerTypeOK
      <4>2. phase \notin {"new", "running"} /\ ~QueuedReady /\ ~SentReady(k)
        BY <4>1 DEF LastWordBooks
      <4>3. ~SentReady(k)' BY <2>1, <4>2 DEF SentReady
      <4>4. QED BY <1>1, <1>2, <2>2, <4>2, <4>3 DEF SentReady
    <3>2. CASE Head(unread[k]).topic = WillTopic
      <4>1. Head(unread[k]).value = Final
        BY <2>0, <2>1, <2>4, <3>2, BrokerAssumption DEF BrokerTypeOK
      <4>2. Sent(k, 1, WillTopic, Final) BY <2>1, <3>2, <4>1
      <4>3. PICK w \in LastWords : w[1] = WillTopic /\ w[2] = Final
        <5>1. <<WillTopic, Final>> \in LastWords BY DEF LastWords
        <5>2. QED BY <5>1
      <4>4. /\ phase \notin {"new", "running"} /\ ~QueuedReady
            /\ \A j \in Nat : Sent(k, j, WillTopic, Ready) => j < 1
        BY <4>2, <4>3 DEF LastWordBooks
      <4>5. ~SentReady(k)'
        <5>1. ASSUME NEW j \in Nat, Sent(k, j, WillTopic, Ready)' PROVE FALSE
          <6>1. j # 0 /\ Sent(k, j + 1, WillTopic, Ready) /\ j + 1 \in Nat BY <2>1, <5>1
          <6>2. j + 1 < 1 BY <4>4, <6>1
          <6>3. QED BY <6>2
        <5>2. QED BY <5>1 DEF SentReady
      <4>6. QED BY <1>1, <1>2, <2>2, <4>4, <4>5 DEF SentReady
    <3>3. QED BY <3>1, <3>2
  <2>5. QED BY <2>3, <2>4 DEF LastWordBooks
<1>7. QED BY <1>4, <1>5, <1>6, NetworkKinds DEF Steady, GoodbyeRead, BrokerReadsBye

LEMMA NoWordsYet ==
  ASSUME LastWordBooks, phase \in {"new", "running"}
  PROVE  /\ \A w \in LastWords, i \in Nat :
               ~Queued(i, w[1], w[2]) /\ \A k \in Clients : ~Sent(k, i, w[1], w[2])
         /\ retained[WillTopic] # Final
BY DEF LastWordBooks

LEMMA LastWordsKept ==
  ASSUME LinkInv, RuntimeTypeOK, PhaseBooks, PipeBooks, LastWordBooks, [RuntimeNext]_allVars
  PROVE  LastWordBooks'
<1>0. LinkTypes /\ BrokerTypeOK BY LinkTypesAre DEF LinkTypes
<1>1. CASE Quiet
  <2>1. /\ \A i, t, v : Queued(i, t, v)' <=> Queued(i, t, v)
        /\ \A k \in Clients : \A i, t, v : Sent(k, i, t, v)' <=> Sent(k, i, t, v)
        /\ retained' = retained
        /\ phase' = phase \/ phase' \notin {"new", "running"}
    BY <1>1, QueuedSame, SentSame DEF Quiet
  <2>2. QED BY <2>1 DEF LastWordBooks, QueuedReady, SentReady
\* Steps that move no packet and start from a phase before any last word.
<1>2. ASSUME UNCHANGED <<unread, retained>>, phase \in {"new", "running"},
             \A w \in LastWords, i \in Nat : Queued(i, w[1], w[2])' =>
                 /\ phase' \notin {"new", "running"}
                 /\ \A j \in Nat : Queued(j, WillTopic, Ready)' => j < i
      PROVE  LastWordBooks'
  <2>1. \A k \in Clients : \A i, t, v : Sent(k, i, t, v)' <=> Sent(k, i, t, v)
    BY <1>2, SentSame
  <2>2. /\ \A w \in LastWords, i \in Nat : \A k \in Clients : ~Sent(k, i, w[1], w[2])'
        /\ retained'[WillTopic] # Final
    BY <1>2, <2>1, NoWordsYet
  <2>3. QED BY <1>2, <2>2 DEF LastWordBooks
<1>3. CASE StartSucceeds \/ StartRaises
  <2>1. /\ phase = "new" /\ UNCHANGED <<unread, retained>>
        /\ \E N \in Nat : \A i \in Nat : \A t, v : Queued(i, t, v)' =>
                    \/ i = N + 1 /\ t = DescTopic /\ v = Described
                    \/ i = N + 2 /\ t = PowerTopic /\ v = reading
                    \/ i = N + 3 /\ t = WillTopic /\ v = Ready
    BY <1>3, StartQueues
  <2>2. \A w \in LastWords, i \in Nat : ~Queued(i, w[1], w[2])'
    BY <2>1, WordsDiffer
  <2>3. QED BY <1>2, <2>1, <2>2
<1>4. CASE Tick
  <2>1. phase = "running" /\ UNCHANGED <<unread, retained>>
    BY <1>4 DEF Tick, vars, brokerVars
  <2>2. \A w \in LastWords, i \in Nat : ~Queued(i, w[1], w[2])'
    BY <1>4, <2>1, TickQueues, NoWordsYet, WordsDiffer
  <2>3. QED BY <1>2, <2>1, <2>2
<1>5. CASE RepublishTree /\ isRunning
  <2>1. phase = "running" /\ UNCHANGED <<unread, retained>>
    BY <1>5 DEF RepublishTree, RunHook, brokerVars, PhaseBooks
  <2>2. \E n \in 0..3 : \A i \in Nat : \A t, v : Queued(i, t, v)' <=>
                \/ Queued(i, t, v)
                \/ n >= 1 /\ i = Len(queue) + 1 /\ t = DescTopic /\ v = Described
                \/ n >= 2 /\ i = Len(queue) + 2 /\ t = PowerTopic /\ v = reading
                \/ n >= 3 /\ i = Len(queue) + 3 /\ t = WillTopic /\ v = Ready
    BY <1>5, RepublishQueues
  <2>3. \A w \in LastWords, i \in Nat : ~Queued(i, w[1], w[2])'
    BY <2>1, <2>2, NoWordsYet, WordsDiffer
  <2>4. QED BY <1>2, <2>1, <2>3
<1>6. CASE Stop
  <2>1. phase = "running" /\ phase' = "draining" /\ UNCHANGED <<unread, retained>>
    BY <1>6 DEF Stop, vars, brokerVars
  <2>2. PICK n \in 0..3 : \A i \in Nat : \A t, v : Queued(i, t, v)' <=>
                \/ Queued(i, t, v)
                \/ n >= 1 /\ i = Len(queue) + 1 /\ t = WillTopic /\ v = Final
                \/ n >= 2 /\ i = Len(queue) + 2 /\ t = DescTopic /\ v = Empty
                \/ n >= 3 /\ i = Len(queue) + 3 /\ t = PowerTopic /\ v = Empty
    BY <1>6, StopQueues
  <2>3. ASSUME NEW w \in LastWords, NEW i \in Nat, Queued(i, w[1], w[2])',
               NEW j \in Nat, Queued(j, WillTopic, Ready)'
        PROVE  j < i
    <3>1. Len(queue) \in Nat BY DEF RuntimeTypeOK
    <3>2. i > Len(queue) BY <2>1, <2>2, <2>3, <3>1, NoWordsYet
    <3>3. Queued(j, WillTopic, Ready) BY <2>2, <2>3, WordsDiffer
    <3>4. j <= Len(queue) BY <3>3 DEF Queued, Says, RuntimeTypeOK
    <3>5. QED BY <3>1, <3>2, <3>4
  <2>4. QED BY <1>2, <2>1, <2>3
<1>7. CASE DrainSubscribe
  <2>1. /\ \A i \in Nat : \A t, v : Queued(i, t, v)' <=> i # 0 /\ Queued(i + 1, t, v)
        /\ UNCHANGED <<unread, retained, phase>>
    BY <1>7, SubscribeMoves
  <2>2. \A k \in Clients : \A i, t, v : Sent(k, i, t, v)' <=> Sent(k, i, t, v)
    BY <2>1, SentSame
  <2>3. QueuedReady' => QueuedReady BY <2>1 DEF QueuedReady
  <2>4. ASSUME NEW w \in LastWords, NEW i \in Nat, Queued(i, w[1], w[2])'
        PROVE  /\ phase' \notin {"new", "running"}
               /\ \A j \in Nat : Queued(j, WillTopic, Ready)' => j < i
    <3>1. Queued(i + 1, w[1], w[2]) /\ i + 1 \in Nat BY <2>1, <2>4
    <3>2. /\ phase \notin {"new", "running"}
          /\ \A j \in Nat : Queued(j, WillTopic, Ready) => j < i + 1
      BY <3>1 DEF LastWordBooks
    <3>3. ASSUME NEW j \in Nat, Queued(j, WillTopic, Ready)' PROVE j < i
      <4>1. Queued(j + 1, WillTopic, Ready) /\ j + 1 \in Nat BY <2>1, <3>3
      <4>2. j + 1 < i + 1 BY <3>2, <4>1
      <4>3. QED BY <4>2
    <3>4. QED BY <2>1, <3>2, <3>3
  <2>5. QED BY <2>1, <2>2, <2>3, <2>4 DEF LastWordBooks, SentReady
<1>8. CASE DrainPublish
  <2>1. /\ \A i \in Nat : \A t, v : Queued(i, t, v)' <=> i # 0 /\ Queued(i + 1, t, v)
        /\ UNCHANGED <<retained, phase>>
        /\ phase \notin {"new"}
    BY <1>8, DrainMoves DEF DrainerRuns
  <2>2. PICK t0 \in Topics, v0 \in Payloads :
              /\ Queued(1, t0, v0)
              /\ \A t, v : Queued(1, t, v) => t = t0 /\ v = v0
              /\ \/ /\ Live
                    /\ \A k \in Clients, i \in Nat : \A t, v : Sent(k, i, t, v)' <=>
                         \/ Sent(k, i, t, v)
                         \/ k = session /\ i = Len(unread[k]) + 1 /\ t = t0 /\ v = v0
                 \/ ~Live /\ UNCHANGED unread
    BY <1>8, DrainMoves
  <2>3. \A k \in Clients, i \in Nat : \A t, v : Sent(k, i, t, v)' =>
          \/ Sent(k, i, t, v)
          \/ k = session /\ i = Len(unread[k]) + 1 /\ t = t0 /\ v = v0
    BY <2>2, SentSame
  <2>4. QueuedReady' => QueuedReady BY <2>1 DEF QueuedReady
  <2>5. ASSUME NEW w \in LastWords, NEW i \in Nat, Queued(i, w[1], w[2])'
        PROVE  /\ phase' \notin {"new", "running"}
               /\ \A j \in Nat : Queued(j, WillTopic, Ready)' => j < i
    <3>1. Queued(i + 1, w[1], w[2]) /\ i + 1 \in Nat BY <2>1, <2>5
    <3>2. /\ phase \notin {"new", "running"}
          /\ \A j \in Nat : Queued(j, WillTopic, Ready) => j < i + 1
      BY <3>1 DEF LastWordBooks
    <3>3. ASSUME NEW j \in Nat, Queued(j, WillTopic, Ready)' PROVE j < i
      <4>1. Queued(j + 1, WillTopic, Ready) /\ j + 1 \in Nat BY <2>1, <3>3
      <4>2. j + 1 < i + 1 BY <3>2, <4>1
      <4>3. QED BY <4>2
    <3>4. QED BY <2>1, <3>2, <3>3
  <2>6. ASSUME NEW w \in LastWords, NEW i \in Nat, NEW k \in Clients, Sent(k, i, w[1], w[2])'
        PROVE  /\ phase' \notin {"new", "running"}
               /\ ~QueuedReady'
               /\ \A j \in Nat : Sent(k, j, WillTopic, Ready)' => j < i
    <3>1. CASE Sent(k, i, w[1], w[2])
      <4>1. /\ phase \notin {"new", "running"} /\ ~QueuedReady
            /\ \A j \in Nat : Sent(k, j, WillTopic, Ready) => j < i
        BY <3>1 DEF LastWordBooks
      <4>2. ~(t0 = WillTopic /\ v0 = Ready) BY <2>2, <4>1 DEF QueuedReady
      <4>3. QED BY <2>1, <2>3, <2>4, <4>1, <4>2
    <3>2. CASE k = session /\ i = Len(unread[k]) + 1 /\ w[1] = t0 /\ w[2] = v0
      <4>1. /\ phase \notin {"new", "running"}
            /\ \A j \in Nat : Queued(j, WillTopic, Ready) => j < 1
        BY <2>2, <3>2 DEF LastWordBooks
      <4>2. ~QueuedReady'
        <5>1. ASSUME NEW j \in Nat, Queued(j, WillTopic, Ready)' PROVE FALSE
          <6>1. j # 0 /\ Queued(j + 1, WillTopic, Ready) /\ j + 1 \in Nat BY <2>1, <5>1
          <6>2. j + 1 < 1 BY <4>1, <6>1
          <6>3. QED BY <6>2
        <5>2. QED BY <5>1 DEF QueuedReady
      <4>3. ASSUME NEW j \in Nat, Sent(k, j, WillTopic, Ready)' PROVE j < i
        <5>1. Sent(k, j, WillTopic, Ready) BY <2>3, <3>2, <4>3, WordsDiffer
        <5>2. j \in 1..Len(unread[k]) /\ Len(unread[k]) \in Nat
          BY <1>0, <5>1, SentIs DEF BrokerTypeOK
        <5>3. QED BY <3>2, <5>2
      <4>4. QED BY <2>1, <4>1, <4>2, <4>3
    <3>3. QED BY <2>3, <2>6, <3>1, <3>2
  <2>7. ASSUME retained'[WillTopic] = Final
        PROVE  /\ phase' \notin {"new", "running"} /\ ~QueuedReady'
               /\ \A k \in Clients : ~SentReady(k)'
    <3>1. phase \notin {"new", "running"} /\ ~QueuedReady /\ \A k \in Clients : ~SentReady(k)
      BY <2>1, <2>7 DEF LastWordBooks
    <3>2. ~(t0 = WillTopic /\ v0 = Ready) BY <2>2, <3>1 DEF QueuedReady
    <3>3. \A k \in Clients : ~SentReady(k)' BY <2>3, <3>1, <3>2 DEF SentReady
    <3>4. QED BY <2>1, <2>4, <3>1, <3>3
  <2>8. QED BY <2>5, <2>6, <2>7 DEF LastWordBooks
<1>9. CASE Network /\ UNCHANGED runtimeVars
  BY <1>0, <1>9, LastWordsByNetwork
<1>10. QED BY <1>1, <1>3, <1>4, <1>5, <1>6, <1>7, <1>8, <1>9, RuntimeKinds

-----------------------------------------------------------------------------
(***************************************************************************)
(* How connections end.                                                    *)
(***************************************************************************)
LEMMA LeavesKept ==
  ASSUME LinkInv, RuntimeTypeOK, PhaseBooks, PipeBooks, ByeBooks, LeaveBooks,
         [RuntimeNext]_allVars
  PROVE  LeaveBooks'
<1>0. /\ LinkTypes /\ SessionBooks /\ ClientBooks /\ OperationBooks
      /\ sup # "none" => cur \in Clients
      /\ Drainer \in Tasks /\ Drainer # Restorer
  BY LinkTypesAre, RuntimeAssumption, LinkAssumption, BrokerAssumption
     DEF LinkInv, SessionInv, ClientInv, LinkTypes, SessionBooks
<1>a. cancelled => on[Drainer] = 0 BY DEF PhaseBooks
<1> USE DEF LeaveBooks, LinkTypes, BrokerTypeOK
\* Steps that end no connection.
<1>1. ASSUME UNCHANGED bye, failed' \subseteq failed \union {on[Drainer]},
             on'[Drainer] \in {on[Drainer], 0} \/ on'[Drainer] = session,
             \A k \in Clients : sock'[k] = "none" => sock[k] = "none" /\ conn'[k] = conn[k]
      PROVE  LeaveBooks'
  <2>1. ASSUME NEW k \in Clients, k \in failed' \/ on'[Drainer] = k PROVE bye[k] # "DISCONNECT"
    <3>1. CASE k \in failed \/ on[Drainer] = k BY <3>1
    <3>2. CASE k = session
      <4>1. sock[k] \in {"open", "dead"} BY <1>0, <3>2 DEF SessionBooks, ClientBooks, Serving
      <4>2. QED BY <4>1 DEF ByeBooks
    <3>3. QED BY <1>1, <2>1, <3>1, <3>2
  <2>2. QED BY <1>1, <2>1
\* A client leaves.
<1>2. ASSUME NEW k \in Clients, NEW g \in {"DISCONNECT", "FIN"}, Leave(k, g),
             failed' \subseteq failed \union {k}, on'[Drainer] = on[Drainer],
             g = "DISCONNECT" => k \notin failed' /\ on[Drainer] # k,
             k \in failed' => bye[k] # "DISCONNECT"
      PROVE  LeaveBooks'
  <2>1. /\ UNCHANGED conn /\ sock' = [sock EXCEPT ![k] = "closed"]
        /\ \A j \in Clients \ {k} : bye'[j] = bye[j]
        /\ bye'[k] \in {bye[k], g}
    BY <1>2 DEF Leave
  <2>2. QED BY <1>2, <2>1
<1>3. CASE StartClone \/ Reconnect
  <2>1. /\ sock' = [sock EXCEPT ![cur + 1] = "open"] /\ conn' = [conn EXCEPT ![cur + 1] = "dialled"]
        /\ UNCHANGED <<bye, failed, on>>
    BY <1>3 DEF StartClone, Connect, Reconnect, SleepEnds, DialNext, Dial
  <2>2. ASSUME NEW k \in Clients, sock'[k] = "none"
        PROVE  sock[k] = "none" /\ conn'[k] = conn[k]
    <3>1. k # cur + 1 BY <1>0, <2>1, <2>2
    <3>2. QED BY <1>0, <2>1, <2>2, <3>1
  <2>3. QED BY <1>1, <2>1, <2>2
<1>4. CASE StartSucceeds \/ StartRaises \/ Stopped \/ ConnectRaises \/ Drained \/ Tick \/ Stop
             \/ RepublishTree \/ UNCHANGED allVars
  <2>1. UNCHANGED <<conn, bye, sock, failed, on>>
    BY <1>4 DEF StartSucceeds, StartRaises, Stopped, ConnectRaises, Drained, Tick, Stop,
        RepublishTree, ConnectReturns, DisconnectReturns, Disconnect, RunHook, vars, linkVars,
        brokerVars, allVars
  <2>2. QED BY <1>1, <2>1
<1>5. CASE DrainPublish \/ DrainSubscribe
  <2>1. UNCHANGED <<conn, bye, sock, failed>> /\ on'[Drainer] \in {on[Drainer], session}
    BY <1>0, <1>5 DEF DrainPublish, DrainSubscribe, Publish, Subscribe, StartOperation, Send,
       vars, linkVars, brokerVars
  <2>2. QED BY <1>1, <2>1
<1>6. CASE LinkStep
  <2>1. CASE SupConnected \/ SupConnectCancelled \/ RestoreSends \/ RestoreAcknowledged
               \/ LeaveEnds \/ SleepCancelled
    <3>1. UNCHANGED <<conn, bye, sock, failed>> /\ on'[Drainer] = on[Drainer]
      BY <1>0, <2>1 DEF SupConnected, SupConnectCancelled, RestoreSends, RestoreAcknowledged,
         LeaveEnds, SleepCancelled, brokerVars
    <3>2. QED BY <1>1, <3>1
  <2>2. CASE SupConnectFails
    <3>1. /\ Leave(cur, "DISCONNECT") /\ cur \notin failed /\ cur \in Clients
          /\ UNCHANGED <<failed, on>> /\ on[Drainer] # cur
      BY <1>0, <2>2 DEF SupConnectFails, Withdraw, SessionBooks, OperationBooks
    <3>2. QED BY <1>2, <3>1
  <2>3. CASE RestoreFails \/ ReaderSeesDrop \/ DeadlineFires \/ ServingCancelled
    <3>1. cur \in Clients /\ Serving /\ EndServing /\ failed' \subseteq failed \union {cur}
      BY <1>0, <2>3 DEF RestoreFails, ReaderSeesDrop, DeadlineFires, ServingCancelled, Serving
    <3>2. on'[Drainer] = on[Drainer] BY <1>0, <3>1 DEF EndServing
    <3>3. bye[cur] # "DISCONNECT" BY <1>0, <3>1 DEF ClientBooks, Serving, ByeBooks
    <3>4. CASE RestoreFails \/ DeadlineFires
      <4>1. Leave(cur, "FIN")
        BY <1>0, <3>4 DEF RestoreFails, DeadlineFires, LeaveSession, SessionBooks
      <4>2. QED BY <1>2, <3>1, <3>2, <3>3, <4>1
    <3>5. CASE ReaderSeesDrop
      <4>1. sock[cur] = "dead" /\ LeaveSession(cur) /\ UNCHANGED failed
        BY <3>5 DEF ReaderSeesDrop
      <4>2. /\ UNCHANGED <<bye, conn>> /\ sock' = [sock EXCEPT ![cur] = "closed"]
        BY <4>1 DEF LeaveSession, Leave
      <4>3. QED BY <1>1, <3>2, <4>1, <4>2
    <3>6. CASE ServingCancelled
      <4>1. on[Drainer] = 0 /\ LeaveSession(cur) /\ UNCHANGED failed
        BY <1>a, <3>6 DEF ServingCancelled
      <4>2. PICK g \in {"DISCONNECT", "FIN"} :
               Leave(cur, g) /\ (g = "DISCONNECT" => cur \notin failed)
        BY <4>1 DEF LeaveSession
      <4>3. QED BY <1>2, <3>1, <3>2, <3>3, <4>1, <4>2
    <3>7. QED BY <2>3, <3>4, <3>5, <3>6
  <2>4. ASSUME NEW k \in Clients, OrphanCloses(k) PROVE LeaveBooks'
    <3>1. Leave(k, "DISCONNECT") /\ k \in orphans /\ UNCHANGED <<failed, on>>
      BY <2>4 DEF OrphanCloses, Withdraw
    <3>2. k \notin failed /\ on[Drainer] # k BY <1>0, <3>1 DEF ClientBooks
    <3>3. QED BY <1>2, <3>1, <3>2
  <2>5. CASE OperationEnds(Drainer)
    <3>1. UNCHANGED <<conn, bye, sock>> /\ failed' \subseteq failed \union {on[Drainer]}
          /\ on'[Drainer] = 0
      BY <1>0, <2>5 DEF OperationEnds, OperationDone, OperationFails, Fail, brokerVars
    <3>2. QED BY <1>1, <3>1
  <2>6. CASE Network
    <3>0. UNCHANGED <<failed, on>> /\ (Broker \/ Faults) BY <2>6 DEF Network, linkVars
    <3>1. ASSUME NEW k \in Clients
          PROVE  /\ bye'[k] \in {bye[k], "FIN"}
                 /\ sock'[k] = "none" => sock[k] = "none" /\ conn'[k] = conn[k]
      <4>1. ASSUME NEW j \in Clients, BrokerAccepts(j) \/ BrokerReads(j) \/ BrokerReadsBye(j)
            PROVE  /\ bye'[k] \in {bye[k], "FIN"}
                   /\ sock'[k] = "none" => sock[k] = "none" /\ conn'[k] = conn[k]
        <5>1. CASE BrokerAccepts(j) BY <1>0, <5>1 DEF BrokerAccepts
        <5>2. CASE BrokerReads(j) BY <1>0, <5>2 DEF BrokerReads
        <5>3. CASE BrokerReadsBye(j) BY <1>0, <5>3 DEF BrokerReadsBye
        <5>4. QED BY <4>1, <5>1, <5>2, <5>3
      <4>2. ASSUME NEW j \in Clients, ConnectRefused(j) \/ SocketDies(j)
            PROVE  /\ bye'[k] \in {bye[k], "FIN"}
                   /\ sock'[k] = "none" => sock[k] = "none" /\ conn'[k] = conn[k]
        BY <1>0, <4>2 DEF ConnectRefused, SocketDies
      <4>3. ASSUME NEW j \in Clients, ConnectionCut(j)
            PROVE  /\ bye'[k] \in {bye[k], "FIN"}
                   /\ sock'[k] = "none" => sock[k] = "none" /\ conn'[k] = conn[k]
        <5>1. UNCHANGED bye /\ conn[j] = "held" /\ conn' = [conn EXCEPT ![j] = "gone"]
          BY <4>3 DEF ConnectionCut
        <5>2. CASE UNCHANGED sock BY <1>0, <5>1, <5>2
        <5>3. CASE sock' = [sock EXCEPT ![j] = IF @ = "open" THEN "dead" ELSE @]
          BY <1>0, <5>1, <5>3
        <5>4. QED BY <4>3, <5>2, <5>3 DEF ConnectionCut
      <4>4. CASE BrokerRestarts BY <1>0, <4>4 DEF BrokerRestarts
      <4>5. QED BY <3>0, <4>1, <4>2, <4>3, <4>4 DEF Broker, BrokerTakes, Faults
    <3>2. QED BY <3>0, <3>1
  <2>7. QED
    BY <1>6, <2>1, <2>2, <2>3, <2>4, <2>5, <2>6 DEF LinkStep, SuperviseAlone
<1>7. QED BY <1>3, <1>4, <1>5, <1>6 DEF RuntimeNext

\* Away from the network a connection is neither gained nor lost, and before
\* disconnect() one that was served does not say DISCONNECT.
LEMMA ConnectionsKept ==
  ASSUME LinkInv, PipeBooks, ByeBooks, [RuntimeNext]_allVars, ~(Network /\ UNCHANGED runtimeVars)
  PROVE  /\ \A k \in Clients : conn'[k] = "held" <=> conn[k] = "held"
         /\ \A k \in Clients : Doomed(k) => Doomed(k)'
         /\ ~cancelled' => \A k \in Clients : Served(k) => Served(k)'
<1>0. /\ LinkTypes /\ SessionBooks /\ ClientBooks
      /\ sup # "none" => cur \in Clients
  BY LinkTypesAre, BrokerAssumption DEF LinkInv, SessionInv, ClientInv, LinkTypes, SessionBooks
<1> DEFINE Goal == /\ \A k \in Clients : conn'[k] = "held" <=> conn[k] = "held"
                   /\ \A k \in Clients : Doomed(k) => Doomed(k)'
                   /\ ~cancelled' => \A k \in Clients : Served(k) => Served(k)'
<1> USE DEF LinkTypes, BrokerTypeOK, Doomed, Served
\* Steps that end no connection.
<1>1. ASSUME UNCHANGED <<conn, bye, cur>>, failed \subseteq failed',
             sup' = "connecting" => sup = "connecting"
      PROVE  Goal
  BY <1>1
\* A client leaves.
<1>2. ASSUME NEW k \in Clients, NEW g \in {"DISCONNECT", "FIN"}, Leave(k, g),
             UNCHANGED cur, failed \subseteq failed', sup' = "connecting" => sup = "connecting",
             g = "DISCONNECT" => cancelled' \/ (k = cur /\ sup = "connecting")
      PROVE  Goal
  <2>1. /\ UNCHANGED conn
        /\ bye' = IF sock[k] = "open" THEN [bye EXCEPT ![k] = g] ELSE bye
    BY <1>2 DEF Leave
  <2>2. \A j \in Clients \ {k} : bye'[j] = bye[j] BY <1>0, <2>1
  <2>3. bye'[k] \in {bye[k], g} /\ (bye[k] # "no" => bye'[k] = bye[k])
    BY <1>0, <2>1 DEF ByeBooks
  <2>4. \A j \in Clients : Doomed(j) => Doomed(j)' BY <1>2, <2>2, <2>3
  <2>5. ASSUME ~cancelled', NEW j \in Clients, Served(j) PROVE Served(j)'
    BY <1>2, <2>1, <2>2, <2>3, <2>5
  <2>6. QED BY <2>1, <2>4, <2>5
<1>3. CASE StartClone \/ Reconnect
  <2>1. /\ conn' = [conn EXCEPT ![cur + 1] = "dialled"] /\ cur' = cur + 1 /\ cur < MaxClients
        /\ UNCHANGED <<bye, failed>>
    BY <1>3 DEF StartClone, Connect, Reconnect, SleepEnds, DialNext, Dial
  <2>2. cur + 1 \in Clients /\ conn[cur + 1] = "none" /\ cur \in Nat
    BY <1>0, <2>1, BrokerAssumption DEF PipeBooks
  <2>3. \A k \in Clients : conn'[k] = "held" <=> conn[k] = "held" BY <1>0, <2>1, <2>2
  <2>4. ASSUME NEW k \in Clients, Served(k) PROVE Served(k)'
    <3>1. k # cur + 1 BY <2>2, <2>4
    <3>2. QED BY <2>1, <2>3, <2>4, <3>1
  <2>5. QED BY <2>1, <2>3, <2>4
<1>4. CASE StartSucceeds \/ StartRaises \/ Stopped \/ ConnectRaises \/ Drained \/ Tick \/ Stop
             \/ RepublishTree \/ UNCHANGED allVars
  <2>1. UNCHANGED <<conn, bye, cur, failed>> /\ sup' \in {sup, "reading"}
    BY <1>4 DEF StartSucceeds, StartRaises, Stopped, ConnectRaises, Drained, Tick, Stop,
        RepublishTree, ConnectReturns, DisconnectReturns, Disconnect, RunHook, vars, linkVars,
        brokerVars, allVars
  <2>2. QED BY <1>1, <2>1
<1>5. CASE DrainPublish \/ DrainSubscribe
  <2>1. UNCHANGED <<conn, bye, cur, failed, sup>>
    BY <1>5 DEF DrainPublish, DrainSubscribe, Publish, Subscribe, Send, vars, linkVars, brokerVars
  <2>2. QED BY <1>1, <2>1
<1>6. CASE LinkStep
  <2>1. CASE SupConnected \/ SupConnectCancelled \/ RestoreSends \/ RestoreAcknowledged
               \/ LeaveEnds \/ SleepCancelled
    <3>1. UNCHANGED <<conn, bye, cur, failed>> /\ sup' # "connecting"
      BY <2>1 DEF SupConnected, SupConnectCancelled, RestoreSends, RestoreAcknowledged,
         LeaveEnds, SleepCancelled, brokerVars
    <3>2. QED BY <1>1, <3>1
  <2>2. CASE SupConnectFails
    <3>1. /\ Leave(cur, "DISCONNECT") /\ cur \in Clients /\ sup = "connecting"
          /\ UNCHANGED <<cur, failed>>
      BY <1>0, <2>2 DEF SupConnectFails, Withdraw
    <3>2. QED BY <1>2, <3>1
  <2>3. CASE RestoreFails \/ ReaderSeesDrop \/ DeadlineFires \/ ServingCancelled
    <3>1. /\ cur \in Clients /\ failed \subseteq failed' /\ UNCHANGED cur
          /\ sup' # "connecting"
      BY <1>0, <2>3 DEF RestoreFails, ReaderSeesDrop, DeadlineFires, ServingCancelled, Serving
    <3>2. CASE RestoreFails \/ DeadlineFires
      <4>1. Leave(cur, "FIN")
        BY <1>0, <3>2 DEF RestoreFails, DeadlineFires, LeaveSession, SessionBooks
      <4>2. QED BY <1>2, <3>1, <4>1
    <3>3. CASE ReaderSeesDrop
      <4>1. sock[cur] = "dead" /\ LeaveSession(cur) BY <3>3 DEF ReaderSeesDrop
      <4>2. UNCHANGED <<bye, conn>> BY <4>1 DEF LeaveSession, Leave
      <4>3. QED BY <1>1, <3>1, <4>2
    <3>4. CASE ServingCancelled
      <4>1. cancelled' /\ LeaveSession(cur) BY <3>4 DEF ServingCancelled
      <4>2. QED BY <1>2, <3>1, <4>1 DEF LeaveSession
    <3>5. QED BY <2>3, <3>2, <3>3, <3>4
  <2>4. ASSUME NEW k \in Clients, OrphanCloses(k) PROVE Goal
    <3>1. Leave(k, "DISCONNECT") /\ k \in orphans /\ UNCHANGED <<cur, failed, sup, cancelled>>
      BY <2>4 DEF OrphanCloses, Withdraw
    <3>2. cancelled' BY <3>1 DEF ByeBooks
    <3>3. QED BY <1>2, <3>1, <3>2
  <2>5. CASE OperationEnds(Drainer)
    <3>1. UNCHANGED <<conn, bye, cur, sup>> /\ failed \subseteq failed'
      BY <2>5 DEF OperationEnds, OperationDone, OperationFails, Fail, brokerVars
    <3>2. QED BY <1>1, <3>1
  <2>6. QED
    BY <1>6, <2>1, <2>2, <2>3, <2>4, <2>5 DEF LinkStep, SuperviseAlone
<1>7. QED BY <1>3, <1>4, <1>5, <1>6 DEF RuntimeNext

\* Away from the network the session begins to be live only when a connect
\* succeeds.
LEMMA LiveBegins ==
  ASSUME LinkInv, PipeBooks, ByeBooks, [RuntimeNext]_allVars, ~(Network /\ UNCHANGED runtimeVars)
  PROVE  Live' => \/ Live /\ session' = session
                  \/ SupConnected /\ UNCHANGED runtimeVars
<1>0. /\ LinkTypes /\ SessionBooks
      /\ \A k \in Clients : conn'[k] = "held" <=> conn[k] = "held"
  BY LinkTypesAre, ConnectionsKept DEF LinkInv, SessionInv
<1>1. CASE session' \in {0, session}
  BY <1>0, <1>1, BrokerAssumption DEF Live, LinkTypes
<1>2. CASE ~SupConnected
  <2>1. session' \in {0, session}
    BY <1>2 DEF RuntimeNext, StartClone, StartSucceeds, StartRaises, ConnectRaises, Tick,
        RepublishTree, DrainPublish, DrainSubscribe, Stop, Drained, Stopped, Reconnect, LinkStep,
        Connect, ConnectReturns, Disconnect, DisconnectReturns, RunHook, Publish, Subscribe,
        SleepEnds, SuperviseAlone, SupConnectFails, SupConnectCancelled, RestoreSends,
        RestoreAcknowledged, RestoreFails, ReaderSeesDrop, DeadlineFires, ServingCancelled,
        EndServing, LeaveEnds, SleepCancelled, OrphanCloses, OperationEnds, OperationDone,
        OperationFails, Fail, Network, vars, linkVars, allVars
  <2>2. QED BY <1>1, <2>1
<1>3. CASE SupConnected /\ ~UNCHANGED runtimeVars
  <2>1. session' = cur /\ sup = "connecting" /\ sup' \in {"restoring", "reading"} /\ session' # 0
        /\ cancelled' = cancelled /\ owner' = owner
    BY <1>0, <1>3, BrokerAssumption DEF SupConnected, SessionBooks, LinkTypes
  <2>2. FALSE
    BY <1>3, <2>1 DEF RuntimeNext, StartClone, StartSucceeds, StartRaises, ConnectRaises, Tick,
        RepublishTree, DrainPublish, DrainSubscribe, Stop, Drained, Stopped, Reconnect, LinkStep,
        Connect, ConnectReturns, Disconnect, DisconnectReturns, RunHook, Publish, Subscribe,
        SleepEnds, DialNext, vars, linkVars, allVars
  <2>3. QED BY <2>2
<1>4. QED BY <1>2, <1>3

\* What the broker reads was on its way; what is cleared leaves nothing ready.
LEMMA ReadKeepsAbroad ==
  ASSUME BrokerTypeOK, NEW k \in Clients, BrokerReads(k), ReadyAbroad' PROVE ReadyAbroad
<1>1. /\ \A i \in Nat : \A t, v : Sent(k, i, t, v)' <=> i # 0 /\ Sent(k, i + 1, t, v)
      /\ Sent(k, 1, Head(unread[k]).topic, Head(unread[k]).value)
      /\ retained' = [retained EXCEPT ![Head(unread[k]).topic] = Head(unread[k]).value]
      /\ \A j \in Clients \ {k} : unread'[j] = unread[j]
  BY ReadMoves
<1>2. CASE retained'[WillTopic] = Ready
  <2>1. retained[WillTopic] = Ready \/ Sent(k, 1, WillTopic, Ready)
    BY <1>1, <1>2, BrokerAssumption DEF BrokerTypeOK
  <2>2. QED BY <2>1 DEF ReadyAbroad, SentReady
<1>3. ASSUME NEW j \in Clients, SentReady(j)' PROVE ReadyAbroad
  <2>1. PICK i \in Nat : Sent(j, i, WillTopic, Ready)' BY <1>3 DEF SentReady
  <2>2. CASE j = k
    <3>1. Sent(k, i + 1, WillTopic, Ready) /\ i + 1 \in Nat BY <1>1, <2>1, <2>2
    <3>2. QED BY <3>1 DEF ReadyAbroad, SentReady
  <2>3. CASE j # k
    <3>1. Sent(j, i, WillTopic, Ready) BY <1>1, <2>1, <2>3 DEF Sent
    <3>2. QED BY <3>1 DEF ReadyAbroad, SentReady
  <2>4. QED BY <2>2, <2>3
<1>4. QED BY <1>2, <1>3 DEF ReadyAbroad

LEMMA ClearedIsQuiet ==
  ASSUME BrokerTypeOK, Cleared
  PROVE  /\ ~ReadyAbroad' /\ retained'[WillTopic] \in {Lost, Empty}
         /\ \A k \in Clients : \A i, t, v : ~Sent(k, i, t, v)'
<1>1. retained'[WillTopic] \in {Lost, Empty}
  BY BrokerAssumption DEF Cleared, WillPublished, BrokerTypeOK
<1>2. \A k \in Clients : \A i, t, v : ~Sent(k, i, t, v)' BY DEF Cleared, Sent
<1>3. QED BY <1>1, <1>2, WordsDiffer DEF ReadyAbroad, SentReady

\* A connection that was served, and is not the live session, is doomed.
LEMMA ServedIsDoomed ==
  ASSUME LinkInv, PipeBooks, ByeBooks, LeaveBooks, ~cancelled, ~Live,
         NEW k \in Clients, Served(k)
  PROVE  Doomed(k)
<1>1. /\ LinkTypes /\ SessionBooks /\ ClientBooks /\ NoStrayClient /\ LeftClientsSayGoodbye
  BY LinkTypesAre DEF LinkInv, SessionInv, ClientInv
<1>2. conn[k] = "held" /\ bye[k] # "DISCONNECT" /\ ~(k = cur /\ sup = "connecting")
  BY DEF Served
<1>3. sock[k] \in {"open", "dead", "closed"}
  BY <1>1, <1>2 DEF LeaveBooks, LinkTypes, BrokerTypeOK
<1>4. CASE sock[k] = "open"
  <2>1. k = cur /\ sup \in {"restoring", "reading"}
    BY <1>1, <1>2, <1>4 DEF NoStrayClient, ByeBooks
  <2>2. session = 0 BY <1>1, <1>2, <2>1 DEF SessionBooks, Live
  <2>3. QED BY <1>1, <2>1, <2>2 DEF SessionBooks, Serving, Doomed
<1>5. CASE sock[k] \in {"dead", "closed"}
  <2>1. bye[k] = "FIN"
    BY <1>1, <1>2, <1>5 DEF ClientBooks, LeftClientsSayGoodbye, LinkTypes, BrokerTypeOK
  <2>2. QED BY <2>1 DEF Doomed
<1>6. QED BY <1>3, <1>4, <1>5

\* The live session is served.
LEMMA LiveIsServed ==
  ASSUME LinkInv, ByeBooks, Live PROVE session \in Clients /\ Served(session)
<1>1. LinkTypes /\ SessionBooks /\ ClientBooks
  BY LinkTypesAre DEF LinkInv, SessionInv, ClientInv
<1>2. session \in Clients /\ session = cur /\ sup \in {"restoring", "reading"}
  BY <1>1, BrokerAssumption DEF Live, SessionBooks, Serving, LinkTypes
<1>3. QED BY <1>1, <1>2 DEF Live, ClientBooks, ByeBooks, Served

\* What the steps away from the network do to the ready items on their way.
LEMMA ReadyMoves ==
  ASSUME LinkInv, RuntimeTypeOK, PhaseBooks, PipeBooks, [RuntimeNext]_allVars,
         ~(Network /\ UNCHANGED runtimeVars)
  PROVE  /\ ReadyAbroad' => ReadyAbroad \/ (DrainPublish /\ Live)
         /\ QueuedReady' => QueuedReady \/ StartSucceeds \/ StartRaises \/ RepublishTree
         /\ sup' = "connecting" => sup = "connecting" \/ queue' = <<>>
<1>1. CASE Quiet
  <2>1. /\ \A i, t, v : Queued(i, t, v)' <=> Queued(i, t, v)
        /\ \A k \in Clients : \A i, t, v : Sent(k, i, t, v)' <=> Sent(k, i, t, v)
        /\ retained' = retained
    BY <1>1, QueuedSame, SentSame DEF Quiet
  <2>2. (ReadyAbroad' <=> ReadyAbroad) /\ (QueuedReady' <=> QueuedReady)
    BY <2>1 DEF ReadyAbroad, SentReady, QueuedReady
  <2>3. sup' = "connecting" => sup = "connecting" \/ queue' = <<>>
    <3>1. CASE StartClone
      BY <3>1 DEF StartClone, Connect, runtimeVars, PhaseBooks
    <3>2. CASE ~StartClone
      BY <3>2 DEF RuntimeNext, StartSucceeds, StartRaises, ConnectRaises, Tick,
        RepublishTree, DrainPublish, DrainSubscribe, Stop, Drained, Stopped, Reconnect, LinkStep,
        ConnectReturns, Disconnect, DisconnectReturns, RunHook, Publish, Subscribe,
        SuperviseAlone, SupConnected, SupConnectFails, SupConnectCancelled, RestoreSends,
        RestoreAcknowledged, RestoreFails, ReaderSeesDrop, DeadlineFires, ServingCancelled,
        EndServing, LeaveEnds, SleepCancelled, OrphanCloses, OperationEnds, OperationDone,
        OperationFails, Fail, Network, vars, linkVars, allVars, runtimeVars
    <3>3. QED BY <3>1, <3>2
  <2>4. QED BY <2>2, <2>3
\* The steps that queue something leave the connections alone.
<1>2. ASSUME UNCHANGED <<unread, retained>> PROVE ReadyAbroad' <=> ReadyAbroad
  BY <1>2, SentSame DEF ReadyAbroad, SentReady
<1>3. CASE StartSucceeds \/ StartRaises \/ (RepublishTree /\ isRunning)
  <2>1. UNCHANGED <<unread, retained>> /\ sup' \in {sup, "reading"}
    BY <1>3 DEF StartSucceeds, StartRaises, RepublishTree, ConnectReturns, RunHook, brokerVars
  <2>2. QED BY <1>2, <1>3, <2>1
<1>4. CASE Tick \/ Stop
  <2>1. UNCHANGED <<unread, retained, sup>> BY <1>4 DEF Tick, Stop, vars, linkVars, brokerVars
  <2>2. CASE Tick
    <3>1. QueuedReady' => QueuedReady BY <2>2, TickQueues, WordsDiffer DEF QueuedReady
    <3>2. QED BY <1>2, <2>1, <3>1
  <2>3. CASE Stop
    <3>1. PICK n \in 0..3 : \A i \in Nat : \A t, v : Queued(i, t, v)' <=>
                \/ Queued(i, t, v)
                \/ n >= 1 /\ i = Len(queue) + 1 /\ t = WillTopic /\ v = Final
                \/ n >= 2 /\ i = Len(queue) + 2 /\ t = DescTopic /\ v = Empty
                \/ n >= 3 /\ i = Len(queue) + 3 /\ t = PowerTopic /\ v = Empty
      BY <2>3, StopQueues
    <3>2. QueuedReady' => QueuedReady BY <3>1, WordsDiffer DEF QueuedReady
    <3>3. QED BY <1>2, <2>1, <3>2
  <2>4. QED BY <1>4, <2>2, <2>3
<1>5. CASE DrainSubscribe
  <2>1. /\ \A i \in Nat : \A t, v : Queued(i, t, v)' <=> i # 0 /\ Queued(i + 1, t, v)
        /\ UNCHANGED <<unread, retained, sup>>
    BY <1>5, SubscribeMoves
  <2>2. QueuedReady' => QueuedReady BY <2>1 DEF QueuedReady
  <2>3. QED BY <1>2, <2>1, <2>2
<1>6. CASE DrainPublish
  <2>1. /\ \A i \in Nat : \A t, v : Queued(i, t, v)' <=> i # 0 /\ Queued(i + 1, t, v)
        /\ UNCHANGED <<retained, sup>>
        /\ Live \/ UNCHANGED unread
    BY <1>6, DrainMoves
  <2>2. QueuedReady' => QueuedReady BY <2>1 DEF QueuedReady
  <2>3. QED BY <1>2, <1>6, <2>1, <2>2
<1>7. QED BY <1>1, <1>3, <1>4, <1>5, <1>6, RuntimeKinds

-----------------------------------------------------------------------------
(***************************************************************************)
(* While the panel runs, what is ready has a will behind it.               *)
(***************************************************************************)
LEMMA WillsKept ==
  ASSUME LinkInv, RuntimeTypeOK, PhaseBooks, PipeBooks, ByeBooks, LeaveBooks, WillBooks,
         [RuntimeNext]_allVars
  PROVE  WillBooks'
<1>0. LinkTypes /\ BrokerTypeOK /\ OwnerBooks BY LinkTypesAre DEF LinkTypes, LinkInv
<1>1. CASE ~(Network /\ UNCHANGED runtimeVars)
  <2>1. ASSUME sup' = "connecting" PROVE ~QueuedReady'
    <3>1. CASE queue' = <<>> BY <3>1 DEF QueuedReady, Queued, Says
    <3>2. CASE sup = "connecting"
      <4>1. ~StartSucceeds /\ ~StartRaises
        BY <1>0, <3>2 DEF StartSucceeds, StartRaises, ConnectReturns, OwnerBooks, PhaseBooks
      <4>2. ~RepublishTree BY <3>2 DEF RepublishTree, RunHook
      <4>3. QED BY <1>1, <3>2, <4>1, <4>2, ReadyMoves DEF WillBooks
    <3>3. QED BY <1>1, <2>1, <3>1, <3>2, ReadyMoves
  <2>2. ASSUME ~cancelled', ReadyAbroad' PROVE \E k \in Clients : Served(k)'
    <3>1. \E k \in Clients : Served(k)
      <4>1. CASE Live BY <4>1, LiveIsServed
      <4>2. CASE ReadyAbroad
        <5>1. ~cancelled
          <6>1. PhaseBooks' BY PhasesKept
          <6>2. owner \in {"closing", "closed"} => owner' \in {"closing", "closed"}
            BY LinkOwnerStays
          <6>3. QED BY <2>2, <6>1, <6>2 DEF PhaseBooks
        <5>2. QED BY <4>2, <5>1 DEF WillBooks
      <4>3. QED BY <1>1, <2>2, <4>1, <4>2, ReadyMoves
    <3>2. QED BY <1>1, <2>2, <3>1, ConnectionsKept
  <2>3. QED BY <2>1, <2>2 DEF WillBooks
<1>2. CASE Network /\ UNCHANGED runtimeVars
  <2>1. UNCHANGED <<queue, sup, cur, cancelled, failed>> BY <1>2 DEF Network, linkVars, runtimeVars
  <2>2. QueuedReady' <=> QueuedReady BY <2>1, QueuedSame DEF QueuedReady
  <2>3. ASSUME ~cancelled', ReadyAbroad' PROVE \E k \in Clients : Served(k)'
    <3>1. ASSUME NEW k \in Clients, BrokerReads(k) PROVE \E j \in Clients : Served(j)'
      <4>1. ReadyAbroad BY <1>0, <2>3, <3>1, ReadKeepsAbroad
      <4>2. UNCHANGED <<conn, bye>> BY <3>1 DEF BrokerReads
      <4>3. PICK j \in Clients : Served(j) BY <2>1, <2>3, <4>1 DEF WillBooks
      <4>4. Served(j)' BY <2>1, <4>2, <4>3 DEF Served
      <4>5. QED BY <4>4
    <3>2. ASSUME NEW k \in Clients, GoodbyeRead(k) PROVE FALSE
      <4>1. UNCHANGED <<unread, retained>> /\ bye[k] = "DISCONNECT" /\ conn[k] = "held"
        BY <3>2 DEF GoodbyeRead, BrokerReadsBye
      <4>2. ReadyAbroad BY <2>3, <4>1, SentSame DEF ReadyAbroad, SentReady
      <4>3. PICK j \in Clients : Served(j) BY <2>1, <2>3, <4>2 DEF WillBooks
      <4>4. QED BY <4>1, <4>3 DEF Served, PipeBooks
    <3>3. CASE Steady
      <4>1. ReadyAbroad BY <2>3, <3>3, SentSame DEF Steady, ReadyAbroad, SentReady
      <4>2. PICK j \in Clients : Served(j) BY <2>1, <2>3, <4>1 DEF WillBooks
      <4>3. Served(j)' BY <2>1, <3>3, <4>2 DEF Served, Steady
      <4>4. QED BY <4>3
    <3>4. CASE Cleared BY <1>0, <2>3, <3>4, ClearedIsQuiet
    <3>5. QED BY <1>0, <1>2, <3>1, <3>2, <3>3, <3>4, NetworkKinds
  <2>4. QED BY <2>1, <2>2, <2>3 DEF WillBooks
<1>3. QED BY <1>1, <1>2

-----------------------------------------------------------------------------
(***************************************************************************)
(* Once the panel has stopped running, what is ready is about to end.      *)
(***************************************************************************)
LEMMA EndingByNetwork ==
  ASSUME LinkTypes, PipeBooks, LeaveBooks, LastWordBooks, LastWordBooks',
         Network, UNCHANGED runtimeVars, ReadyAbroad',
         ReadyAbroad => \E k \in Clients : Ending(k)
  PROVE  \E k \in Clients : Ending(k)'
<1>0. BrokerTypeOK /\ UNCHANGED failed BY DEF LinkTypes, Network, linkVars
<1>1. ASSUME NEW k \in Clients, BrokerReads(k) PROVE \E j \in Clients : Ending(j)'
  <2>1. PICK j \in Clients : Ending(j) BY <1>0, <1>1, ReadKeepsAbroad
  <2>2. j = k /\ conn'[k] = "held" /\ UNCHANGED bye
    BY <1>1, <2>1 DEF Ending, BrokerReads, PipeBooks
  <2>3. CASE Doomed(k) BY <1>0, <2>2, <2>3 DEF Doomed, Ending
  <2>4. ASSUME NEW i \in Nat, Sent(k, i, WillTopic, Final) PROVE \E h \in Clients : Ending(h)'
    <3>1. /\ \A h \in Nat : \A t, v : Sent(k, h, t, v)' <=> h # 0 /\ Sent(k, h + 1, t, v)
          /\ \A t, v : Sent(k, 1, t, v) => t = Head(unread[k]).topic /\ v = Head(unread[k]).value
          /\ retained' = [retained EXCEPT ![Head(unread[k]).topic] = Head(unread[k]).value]
          /\ \A h \in Clients \ {k} : unread'[h] = unread[h] /\ unread[h] = <<>>
      BY <1>0, <1>1, ReadMoves DEF BrokerReads, PipeBooks
    <3>2. CASE i = 1
      <4>1. retained'[WillTopic] = Final
        BY <1>0, <2>4, <3>1, <3>2, BrokerAssumption DEF BrokerTypeOK
      <4>2. retained'[WillTopic] # Ready /\ \A h \in Clients : ~SentReady(h)'
        BY <4>1, WordsDiffer DEF LastWordBooks
      <4>3. QED BY <4>2 DEF ReadyAbroad
    <3>3. CASE i # 1
      <4>1. i \in 1..Len(unread[k]) BY <1>0, <2>4, SentIs
      <4>2. i - 1 \in Nat /\ i - 1 # 0 /\ (i - 1) + 1 = i BY <3>3, <4>1
      <4>3. Sent(k, i - 1, WillTopic, Final)' BY <2>4, <3>1, <4>2
      <4>4. QED BY <2>2, <4>2, <4>3 DEF Ending
    <3>4. QED BY <3>2, <3>3
  <2>5. QED BY <2>1, <2>2, <2>3, <2>4 DEF Ending
<1>2. ASSUME NEW k \in Clients, GoodbyeRead(k) PROVE FALSE
  <2>1. /\ UNCHANGED <<unread, retained>> /\ bye[k] = "DISCONNECT" /\ conn[k] = "held"
        /\ unread[k] = <<>>
    BY <1>2 DEF GoodbyeRead, BrokerReadsBye
  <2>2. ReadyAbroad BY <2>1, SentSame DEF ReadyAbroad, SentReady
  <2>3. PICK j \in Clients : Ending(j) BY <2>2
  <2>4. j = k BY <2>1, <2>3 DEF Ending, PipeBooks
  <2>5. ~Doomed(k) BY <2>1 DEF LeaveBooks, Doomed
  <2>6. QED BY <1>0, <2>1, <2>3, <2>4, <2>5, SentIs DEF Ending
<1>3. CASE Steady
  <2>1. \A k \in Clients : \A i, t, v : Sent(k, i, t, v)' <=> Sent(k, i, t, v)
    BY <1>3, SentSame DEF Steady
  <2>2. ReadyAbroad BY <1>3, <2>1 DEF Steady, ReadyAbroad, SentReady
  <2>3. PICK j \in Clients : Ending(j) BY <2>2
  <2>4. conn'[j] = "held" /\ (Doomed(j) => Doomed(j)')
    BY <1>0, <1>3, <2>3 DEF Steady, Ending, Doomed
  <2>5. QED BY <2>1, <2>3, <2>4 DEF Ending
<1>4. CASE Cleared BY <1>0, <1>4, ClearedIsQuiet
<1>5. QED BY <1>1, <1>2, <1>3, <1>4, NetworkKinds

LEMMA FarewellsKept ==
  ASSUME LinkInv, RuntimeTypeOK, PhaseBooks, PipeBooks, ByeBooks, LeaveBooks,
         LastWordBooks, WillBooks, FarewellBooks, [RuntimeNext]_allVars
  PROVE  FarewellBooks'
<1>0. LinkTypes /\ BrokerTypeOK BY LinkTypesAre DEF LinkTypes
<1>n. CASE Network /\ UNCHANGED runtimeVars
  <2>1. UNCHANGED <<queue, announced, phase, refused>> BY <1>n DEF runtimeVars
  <2>2. /\ \A i, t, v : Queued(i, t, v)' <=> Queued(i, t, v)
        /\ QueuedReady' <=> QueuedReady
    BY <2>1, QueuedSame DEF QueuedReady
  <2>3. LastWordBooks' BY LastWordsKept
  <2>4. ASSUME ReadyAbroad => \E k \in Clients : Ending(k)
        PROVE  ReadyAbroad' => \E k \in Clients : Ending(k)'
    BY <1>0, <1>n, <2>3, <2>4, EndingByNetwork
  <2>5. QED BY <2>1, <2>2, <2>4 DEF FarewellBooks
<1> DEFINE Away == ~(Network /\ UNCHANGED runtimeVars)
<1>e. ASSUME Away, NEW k \in Clients, Ending(k), UNCHANGED unread PROVE Ending(k)'
  BY <1>e, SentSame, ConnectionsKept DEF Ending
<1>1. CASE Away /\ Quiet
  <2>1. /\ \A i, t, v : Queued(i, t, v)' <=> Queued(i, t, v)
        /\ \A k \in Clients : \A i, t, v : Sent(k, i, t, v)' <=> Sent(k, i, t, v)
        /\ UNCHANGED <<retained, announced, unread, refused>>
    BY <1>1, QueuedSame, SentSame DEF Quiet
  <2>2. (ReadyAbroad' <=> ReadyAbroad) /\ (QueuedReady' <=> QueuedReady)
    BY <2>1 DEF ReadyAbroad, SentReady, QueuedReady
  <2>3. phase' # "running" => phase # "running"
    <3>1. PhaseBooks' BY PhasesKept
    <3>2. UNCHANGED isRunning \/ StartSucceeds \/ StartRaises \/ Stop
      BY DEF RuntimeNext, StartClone, ConnectRaises, Tick, RepublishTree, DrainPublish,
        DrainSubscribe, Drained, Stopped, Reconnect, LinkStep, runtimeVars, allVars
    <3>3. ~Stop
      BY <1>1 DEF Stop, Quiet, PhaseBooks
    <3>4. (StartSucceeds \/ StartRaises) => phase = "new"
      BY DEF StartSucceeds, StartRaises, ConnectReturns, PhaseBooks
    <3>5. QED BY <3>1, <3>2, <3>3, <3>4 DEF PhaseBooks
  <2>4. QED BY <1>1, <1>e, <2>1, <2>2, <2>3 DEF FarewellBooks
<1>2. CASE StartSucceeds \/ StartRaises
  BY <1>2 DEF StartSucceeds, StartRaises, ConnectReturns, PhaseBooks, FarewellBooks
<1>3. CASE Tick \/ (RepublishTree /\ isRunning)
  BY <1>3 DEF Tick, RepublishTree, PhaseBooks, FarewellBooks
<1>4. CASE Stop
  <2>0. SUFFICES ASSUME WillTopic \notin refused' PROVE FarewellBooks' BY DEF FarewellBooks
  <2>1. phase = "running" /\ Len(queue) \in Nat BY <1>4 DEF Stop, RuntimeTypeOK
  <2>2. PICK n \in 0..3 :
           /\ n < 1 => WillTopic \in refused'
           /\ \A i \in Nat : \A t, v : Queued(i, t, v)' <=>
                \/ Queued(i, t, v)
                \/ n >= 1 /\ i = Len(queue) + 1 /\ t = WillTopic /\ v = Final
                \/ n >= 2 /\ i = Len(queue) + 2 /\ t = DescTopic /\ v = Empty
                \/ n >= 3 /\ i = Len(queue) + 3 /\ t = PowerTopic /\ v = Empty
    BY <1>4, StopQueues
  <2>3. n >= 1 BY <2>0, <2>2
  <2>4. PICK i \in Nat : i = Len(queue) + 1 BY <2>1
  <2>5. Queued(i, WillTopic, Final)' BY <2>2, <2>3, <2>4
  <2>6. ASSUME NEW j \in Nat, Queued(j, WillTopic, Ready)' PROVE j < i
    <3>1. Queued(j, WillTopic, Ready) BY <2>2, <2>6, WordsDiffer
    <3>2. j \in 1..Len(queue) BY <3>1 DEF Queued, Says, RuntimeTypeOK
    <3>3. QED BY <2>1, <2>4, <3>2
  <2>7. QED BY <2>5, <2>6 DEF FarewellBooks
<1>5. CASE Away /\ DrainSubscribe
  <2>1. /\ \A i \in Nat : \A t, v : Queued(i, t, v)' <=> i # 0 /\ Queued(i + 1, t, v)
        /\ \A t, v : ~Queued(1, t, v)
        /\ UNCHANGED <<unread, retained, phase, announced, refused>>
    BY <1>5, SubscribeMoves DEF DrainSubscribe
  <2>2. QueuedReady' => QueuedReady BY <2>1 DEF QueuedReady
  <2>3. ReadyAbroad' => ReadyAbroad BY <2>1, SentSame DEF ReadyAbroad, SentReady
  <2>4. ASSUME NEW i \in Nat, Queued(i, WillTopic, Final),
               \A j \in Nat : Queued(j, WillTopic, Ready) => j < i
        PROVE  FarewellBooks'
    <3>0. i # 0 BY <2>4 DEF Queued, Says, RuntimeTypeOK
    <3>1. i # 0 /\ i # 1 BY <2>1, <2>4, <3>0
    <3>2. i - 1 \in Nat /\ i - 1 # 0 /\ (i - 1) + 1 = i BY <3>1
    <3>3. Queued(i - 1, WillTopic, Final)' BY <2>1, <2>4, <3>2
    <3>4. ASSUME NEW j \in Nat, Queued(j, WillTopic, Ready)' PROVE j < i - 1
      <4>1. Queued(j + 1, WillTopic, Ready) /\ j + 1 \in Nat BY <2>1, <3>4
      <4>2. QED BY <2>4, <4>1
    <3>5. QED BY <3>2, <3>3, <3>4 DEF FarewellBooks
  <2>5. QED BY <1>5, <1>e, <2>1, <2>2, <2>3, <2>4 DEF FarewellBooks
<1>6. CASE Away /\ DrainPublish
  <2>1. /\ \A i \in Nat : \A t, v : Queued(i, t, v)' <=> i # 0 /\ Queued(i + 1, t, v)
        /\ UNCHANGED <<retained, phase, announced, refused, conn, failed, bye, session>>
        /\ DrainerRuns
    BY <1>6, DrainMoves
  <2>2. PICK t0 \in Topics, v0 \in Payloads :
              /\ Queued(1, t0, v0)
              /\ \A t, v : Queued(1, t, v) => t = t0 /\ v = v0
              /\ \/ /\ Live
                    /\ \A k \in Clients, i \in Nat : \A t, v : Sent(k, i, t, v)' <=>
                         \/ Sent(k, i, t, v)
                         \/ k = session /\ i = Len(unread[k]) + 1 /\ t = t0 /\ v = v0
                 \/ ~Live /\ UNCHANGED unread
    BY <1>6, DrainMoves
  <2>3. QueuedReady' => QueuedReady BY <2>1 DEF QueuedReady
  <2>4. ASSUME ~(t0 = WillTopic /\ v0 = Ready), ReadyAbroad' PROVE ReadyAbroad
    BY <2>1, <2>2, <2>4, SentSame DEF ReadyAbroad, SentReady
  <2>5. ASSUME NEW k \in Clients, Ending(k) PROVE Ending(k)'
    BY <2>1, <2>2, <2>5, SentSame DEF Ending, Doomed
  <2>6. SUFFICES ASSUME announced, phase # "running", WillTopic \notin refused
                 PROVE  FarewellBooks'
    BY <2>1 DEF FarewellBooks
  <2>7. ASSUME NEW i \in Nat, Queued(i, WillTopic, Final),
               \A j \in Nat : Queued(j, WillTopic, Ready) => j < i
        PROVE  FarewellBooks'
    <3>0. i # 0 BY <2>7 DEF Queued, Says, RuntimeTypeOK
    <3>1. CASE i # 1
      <4>1. i - 1 \in Nat /\ i - 1 # 0 /\ (i - 1) + 1 = i BY <3>0, <3>1
      <4>2. Queued(i - 1, WillTopic, Final)' BY <2>1, <2>7, <4>1
      <4>3. ASSUME NEW j \in Nat, Queued(j, WillTopic, Ready)' PROVE j < i - 1
        <5>1. Queued(j + 1, WillTopic, Ready) /\ j + 1 \in Nat BY <2>1, <4>3
        <5>2. QED BY <2>7, <5>1
      <4>4. QED BY <4>1, <4>2, <4>3 DEF FarewellBooks
    <3>2. CASE i = 1
      <4>1. t0 = WillTopic /\ v0 = Final BY <2>2, <2>7, <3>2
      <4>2. ~QueuedReady'
        <5>1. ASSUME NEW j \in Nat, Queued(j, WillTopic, Ready)' PROVE FALSE
          <6>1. j # 0 /\ Queued(j + 1, WillTopic, Ready) /\ j + 1 \in Nat BY <2>1, <5>1
          <6>2. j + 1 < 1 BY <2>7, <3>2, <6>1
          <6>3. QED BY <6>2
        <5>2. QED BY <5>1 DEF QueuedReady
      <4>3. ASSUME ReadyAbroad' PROVE \E k \in Clients : Ending(k)'
        <5>1. ReadyAbroad BY <2>4, <4>1, <4>3, WordsDiffer
        <5>2. ~cancelled BY <2>1 DEF DrainerRuns, PhaseBooks
        <5>3. CASE Live
          <6>1. session \in Clients /\ conn[session] = "held"
            BY <5>3, LiveIsServed DEF Live
          <6>2. PICK k \in Clients : k = session BY <6>1
          <6>3. PICK h \in Nat : h = Len(unread[k]) + 1 BY <1>0 DEF BrokerTypeOK
          <6>4. Sent(k, h, WillTopic, Final)' BY <2>2, <4>1, <5>3, <6>2, <6>3
          <6>5. conn'[k] = "held" BY <2>1, <6>1, <6>2
          <6>6. QED BY <6>4, <6>5 DEF Ending
        <5>4. CASE ~Live
          <6>1. PICK k \in Clients : Served(k) BY <5>1, <5>2 DEF WillBooks
          <6>2. Doomed(k) BY <5>2, <5>4, <6>1, ServedIsDoomed
          <6>3. Ending(k) BY <6>1, <6>2 DEF Ending, Served
          <6>4. QED BY <2>5, <6>3
        <5>5. QED BY <5>3, <5>4
      <4>4. QED BY <4>2, <4>3 DEF FarewellBooks
    <3>3. QED BY <3>1, <3>2
  <2>8. ASSUME ~QueuedReady, ReadyAbroad => \E k \in Clients : Ending(k)
        PROVE  FarewellBooks'
    <3>1. ~(t0 = WillTopic /\ v0 = Ready) BY <2>2, <2>8 DEF QueuedReady
    <3>2. ReadyAbroad' => \E k \in Clients : Ending(k)' BY <2>4, <2>5, <2>8, <3>1
    <3>3. QED BY <2>3, <2>8, <3>2 DEF FarewellBooks
  <2>9. QED BY <2>6, <2>7, <2>8 DEF FarewellBooks
<1>7. QED BY <1>n, <1>1, <1>2, <1>3, <1>4, <1>5, <1>6, RuntimeKinds

-----------------------------------------------------------------------------
(***************************************************************************)
(* What is ready is described.                                             *)
(***************************************************************************)
\* A description's removal is behind every ready.
LEMMA RemovalIsLast ==
  ASSUME LastWordBooks, NEW v \in Payloads \ {Described}, NEW i \in Nat
  PROVE  /\ Queued(i, DescTopic, v) => /\ phase \notin {"new", "running"}
                                       /\ \A j \in Nat : Queued(j, WillTopic, Ready) => j < i
         /\ \A k \in Clients : Sent(k, i, DescTopic, v) =>
               /\ phase \notin {"new", "running"}
               /\ ~QueuedReady
               /\ \A j \in Nat : Sent(k, j, WillTopic, Ready) => j < i
<1>1. <<DescTopic, v>> \in LastWords BY DEF LastWords
<1>2. PICK w \in LastWords : w[1] = DescTopic /\ w[2] = v BY <1>1
<1>3. QED BY <1>2 DEF LastWordBooks

\* So is the final state.
LEMMA FinalIsLast ==
  ASSUME LastWordBooks, NEW i \in Nat, NEW k \in Clients, Sent(k, i, WillTopic, Final)
  PROVE  ~QueuedReady /\ \A j \in Nat : Sent(k, j, WillTopic, Ready) => j < i
<1>1. <<WillTopic, Final>> \in LastWords BY DEF LastWords
<1>2. PICK w \in LastWords : w[1] = WillTopic /\ w[2] = Final BY <1>1
<1>3. QED BY <1>2 DEF LastWordBooks

\* What the broker has and is sent stays described when neither moves.
LEMMA SentStaysDescribed ==
  ASSUME ReadyIsDescribed, SentBooks, UNCHANGED <<unread, retained>>
  PROVE  ReadyIsDescribed' /\ SentBooks'
<1>1. \A k \in Clients : \A i, t, v : Sent(k, i, t, v)' <=> Sent(k, i, t, v) BY SentSame
<1>2. QED BY <1>1 DEF ReadyIsDescribed, SentBooks, SentDescribed, SentRevoked, SentReady

LEMMA QueuedStaysDescribed ==
  ASSUME DescriptionBooks, UNCHANGED <<unread, retained, queue>>,
         Live' => Live /\ session' = session
  PROVE  DescriptionBooks'
<1>1. /\ \A k \in Clients : \A i, t, v : Sent(k, i, t, v)' <=> Sent(k, i, t, v)
      /\ \A i, t, v : Queued(i, t, v)' <=> Queued(i, t, v)
  BY SentSame, QueuedSame
<1>2. QueuedBooks'
  BY <1>1 DEF DescriptionBooks, QueuedBooks, QueuedDescribed, QueuedRevoked, SentReady, QueuedReady
<1>3. QED BY <1>2, SentStaysDescribed DEF DescriptionBooks

\* Nor does it when what is queued is described and removes nothing ahead of the
\* final state.
LEMMA SubmittedIsDescribed ==
  ASSUME DescriptionBooks, UNCHANGED <<unread, retained, conn, session>>,
         \A h \in Nat : Queued(h, DescTopic, Described) => Queued(h, DescTopic, Described)',
         \A i \in Nat : Queued(i, WillTopic, Ready)' =>
            \/ Queued(i, WillTopic, Ready)
            \/ \E h \in Nat : h < i /\ Queued(h, DescTopic, Described)',
         \A i \in Nat, v \in Payloads \ {Described} : Queued(i, DescTopic, v)' =>
            \E h \in Nat : h < i /\ Queued(h, WillTopic, Final)'
  PROVE  DescriptionBooks'
<1>1. \A k \in Clients : \A i, t, v : Sent(k, i, t, v)' <=> Sent(k, i, t, v) BY SentSame
<1>2. ASSUME NEW k \in Clients, NEW i \in Nat, Live', k = session'
      PROVE  /\ Queued(i, WillTopic, Ready)' => QueuedDescribed(k, i)'
             /\ \A v \in Payloads \ {Described} :
                   Queued(i, DescTopic, v)' => QueuedRevoked(k, i)'
  <2>1. Live /\ k = session BY <1>2 DEF Live
  <2>2. ASSUME Queued(i, WillTopic, Ready)' PROVE QueuedDescribed(k, i)'
    <3>1. CASE Queued(i, WillTopic, Ready)
      <4>1. QueuedDescribed(k, i) BY <2>1, <3>1 DEF DescriptionBooks, QueuedBooks
      <4>2. QED BY <1>1, <4>1 DEF QueuedDescribed
    <3>2. QED BY <2>2, <3>1 DEF QueuedDescribed
  <2>3. QED BY <2>2 DEF QueuedRevoked
<1>3. QueuedBooks' BY <1>2 DEF QueuedBooks
<1>4. QED BY <1>3, SentStaysDescribed DEF DescriptionBooks

\* The packet the broker reads was the first on the only connection it holds.
LEMMA PacketIsRead ==
  ASSUME LinkTypes, PipeBooks, NEW k \in Clients, BrokerReads(k)
  PROVE  \E t0 \in Topics, v0 \in Payloads :
            /\ Sent(k, 1, t0, v0)
            /\ \A t, v : Sent(k, 1, t, v) => t = t0 /\ v = v0
            /\ \A t \in Topics : retained'[t] = IF t = t0 THEN v0 ELSE retained[t]
            /\ \A i \in Nat : \A t, v : Sent(k, i, t, v)' <=> i # 0 /\ Sent(k, i + 1, t, v)
            /\ \A j \in Clients \ {k} : unread'[j] = unread[j] /\ unread[j] = <<>>
<1>1. BrokerTypeOK /\ conn[k] = "held" BY DEF LinkTypes, BrokerReads
<1>2. Head(unread[k]) \in Packets
  BY <1>1, HeadTailProperties DEF BrokerReads, BrokerTypeOK
<1>3. PICK t0 \in Topics, v0 \in Payloads :
        t0 = Head(unread[k]).topic /\ v0 = Head(unread[k]).value
  BY <1>2 DEF Packets
<1>4. retained' = [retained EXCEPT ![t0] = v0] BY <1>1, <1>3, ReadMoves
<1>5. \A t \in Topics : retained'[t] = IF t = t0 THEN v0 ELSE retained[t]
  BY <1>1, <1>4 DEF BrokerTypeOK
<1>6. QED BY <1>1, <1>3, <1>5, ReadMoves DEF PipeBooks

LEMMA DescribedByReading ==
  ASSUME LinkTypes, PipeBooks, LastWordBooks, DescriptionBooks, UNCHANGED <<queue, session>>,
         NEW k \in Clients, BrokerReads(k)
  PROVE  DescriptionBooks'
<1>0. BrokerTypeOK /\ conn[k] = "held" /\ UNCHANGED conn BY DEF LinkTypes, BrokerReads
<1>1. PICK t0 \in Topics, v0 \in Payloads :
        /\ Sent(k, 1, t0, v0)
        /\ \A t, v : Sent(k, 1, t, v) => t = t0 /\ v = v0
        /\ \A t \in Topics : retained'[t] = IF t = t0 THEN v0 ELSE retained[t]
        /\ \A i \in Nat : \A t, v : Sent(k, i, t, v)' <=> i # 0 /\ Sent(k, i + 1, t, v)
        /\ \A j \in Clients \ {k} : unread'[j] = unread[j] /\ unread[j] = <<>>
  BY PacketIsRead
<1>2. \A t \in Topics : retained'[t] = IF t = t0 THEN v0 ELSE retained[t]
  BY <1>1
<1>3. WillTopic \in Topics /\ DescTopic \in Topics BY ItemsAre
<1>4. \A i, t, v : Queued(i, t, v)' <=> Queued(i, t, v) BY QueuedSame
<1>5. QueuedReady' <=> QueuedReady BY <1>4 DEF QueuedReady
<1>6. ASSUME NEW h \in Nat, NEW t, NEW v, Sent(k, h, t, v)
      PROVE  (t = t0 /\ v = v0) \/ (h - 1 \in Nat /\ Sent(k, h - 1, t, v)')
  <2>1. h \in 1..Len(unread[k]) BY <1>0, <1>6, SentIs
  <2>2. CASE h = 1 BY <1>1, <1>6, <2>2
  <2>3. CASE h # 1
    <3>1. h - 1 \in Nat /\ h - 1 # 0 /\ (h - 1) + 1 = h BY <2>1, <2>3
    <3>2. QED BY <1>1, <1>6, <3>1
  <2>4. QED BY <2>2, <2>3
<1>7. SentReady(k)' => SentReady(k) BY <1>1 DEF SentReady
\* The packet read is no description taken away from a ready.
<1>8. ASSUME t0 = DescTopic, v0 # Described
      PROVE  retained[WillTopic] # Ready /\ ~SentReady(k) /\ ~QueuedReady
  <2>1. SentRevoked(k, 1) BY <1>1, <1>8 DEF DescriptionBooks, SentBooks
  <2>2. ~\E h \in Nat : h < 1 /\ Sent(k, h, WillTopic, Final)
    BY <1>0, SentIs
  <2>3. QED BY <1>1, <1>8, <2>1, <2>2, RemovalIsLast DEF SentRevoked
\* Once the final state is read nothing is ready.
<1>9. ASSUME t0 = WillTopic, v0 = Final
       PROVE  retained'[WillTopic] # Ready /\ ~SentReady(k)' /\ ~QueuedReady
  <2>1. ~QueuedReady /\ \A j \in Nat : Sent(k, j, WillTopic, Ready) => j < 1
    BY <1>1, <1>9, FinalIsLast
  <2>2. ASSUME NEW j \in Nat, Sent(k, j, WillTopic, Ready)' PROVE FALSE
    <3>1. j # 0 /\ j + 1 \in Nat /\ Sent(k, j + 1, WillTopic, Ready) BY <1>1, <2>2
    <3>2. j + 1 < 1 BY <2>1, <3>1
    <3>3. QED BY <3>2
  <2>3. QED BY <1>2, <1>3, <1>9, <2>1, <2>2, WordsDiffer DEF SentReady
<1>10. ReadyIsDescribed'
  <2>1. SUFFICES ASSUME retained'[WillTopic] = Ready PROVE retained'[DescTopic] = Described
    BY DEF ReadyIsDescribed
  <2>2. CASE t0 = WillTopic
    <3>1. v0 = Ready BY <1>2, <1>3, <2>1, <2>2
    <3>2. SentDescribed(k, 1) BY <1>1, <2>2, <3>1 DEF DescriptionBooks, SentBooks
    <3>3. ~\E h \in Nat : h < 1 /\ Sent(k, h, DescTopic, Described)
      BY <1>0, SentIs
    <3>4. QED BY <1>2, <1>3, <2>2, <3>2, <3>3, WordsDiffer DEF SentDescribed
  <2>3. CASE t0 # WillTopic
    <3>1. retained[WillTopic] = Ready BY <1>2, <1>3, <2>1, <2>3
    <3>2. retained[DescTopic] = Described
      BY <3>1 DEF DescriptionBooks, ReadyIsDescribed
    <3>3. QED BY <1>2, <1>3, <1>8, <3>1, <3>2
  <2>4. QED BY <2>2, <2>3
<1>11. ASSUME NEW i \in Nat
       PROVE  /\ Sent(k, i, WillTopic, Ready)' => SentDescribed(k, i)'
              /\ \A v \in Payloads \ {Described} : Sent(k, i, DescTopic, v)' => SentRevoked(k, i)'
  <2>1. ASSUME Sent(k, i, WillTopic, Ready)' PROVE SentDescribed(k, i)'
    <3>1. i + 1 \in Nat /\ Sent(k, i + 1, WillTopic, Ready) BY <1>1, <2>1
    <3>2. SentDescribed(k, i + 1) /\ SentReady(k)
      BY <3>1 DEF DescriptionBooks, SentBooks, SentReady
    <3>3. CASE retained[DescTopic] = Described
      BY <1>2, <1>3, <1>8, <3>2, <3>3 DEF SentDescribed
    <3>4. ASSUME NEW h \in Nat, h < i + 1, Sent(k, h, DescTopic, Described)
          PROVE  SentDescribed(k, i)'
      <4>1. CASE t0 = DescTopic /\ v0 = Described
        BY <1>2, <1>3, <4>1 DEF SentDescribed
      <4>2. CASE h - 1 \in Nat /\ Sent(k, h - 1, DescTopic, Described)'
        BY <3>4, <4>2 DEF SentDescribed
      <4>3. QED BY <1>6, <3>4, <4>1, <4>2
    <3>5. QED BY <3>2, <3>3, <3>4 DEF SentDescribed
  <2>2. ASSUME NEW v \in Payloads \ {Described}, Sent(k, i, DescTopic, v)'
        PROVE  SentRevoked(k, i)'
    <3>0. \A t, u : Sent(k, i, t, u)' => Sent(k, i + 1, t, u) BY <1>1
    <3>1. i + 1 \in Nat /\ Sent(k, i + 1, DescTopic, v) BY <2>2, <3>0
    <3>2. SentRevoked(k, i + 1) BY <3>1 DEF DescriptionBooks, SentBooks
    <3>3. CASE retained[WillTopic] # Ready /\ ~SentReady(k)
      <4>1. ~(t0 = WillTopic /\ v0 = Ready) BY <1>1, <3>3 DEF SentReady
      <4>2. QED BY <1>2, <1>3, <1>7, <3>3, <4>1 DEF SentRevoked
    <3>4. ASSUME NEW h \in Nat, h < i + 1, Sent(k, h, WillTopic, Final)
          PROVE  SentRevoked(k, i)'
      <4>1. CASE t0 = WillTopic /\ v0 = Final BY <1>9, <4>1 DEF SentRevoked
      <4>2. CASE h - 1 \in Nat /\ Sent(k, h - 1, WillTopic, Final)'
        BY <3>4, <4>2 DEF SentRevoked
      <4>3. QED BY <1>6, <3>4, <4>1, <4>2
    <3>5. QED BY <3>2, <3>3, <3>4 DEF SentRevoked
  <2>3. QED BY <2>1, <2>2
<1>12. SentBooks'
  <2>1. \A j \in Clients \ {k} : \A i, t, v : ~Sent(j, i, t, v)' BY <1>1 DEF Sent
  <2>2. QED BY <1>11, <2>1 DEF SentBooks
<1>13. ASSUME NEW i \in Nat, Live', k = session'
       PROVE  /\ Queued(i, WillTopic, Ready)' => QueuedDescribed(k, i)'
              /\ \A v \in Payloads \ {Described} :
                    Queued(i, DescTopic, v)' => QueuedRevoked(k, i)'
  <2>0. Live /\ k = session BY <1>0, <1>13 DEF Live
  <2>1. ASSUME Queued(i, WillTopic, Ready)' PROVE QueuedDescribed(k, i)'
    <3>1. Queued(i, WillTopic, Ready) /\ QueuedReady BY <1>4, <2>1 DEF QueuedReady
    <3>2. QueuedDescribed(k, i) BY <2>0, <3>1 DEF DescriptionBooks, QueuedBooks
    <3>3. CASE retained[DescTopic] = Described
      BY <1>2, <1>3, <1>8, <3>1, <3>3 DEF QueuedDescribed
    <3>4. ASSUME NEW h \in Nat, Sent(k, h, DescTopic, Described) PROVE QueuedDescribed(k, i)'
      <4>1. CASE t0 = DescTopic /\ v0 = Described
        BY <1>2, <1>3, <4>1 DEF QueuedDescribed
      <4>2. CASE h - 1 \in Nat /\ Sent(k, h - 1, DescTopic, Described)'
        BY <4>2 DEF QueuedDescribed
      <4>3. QED BY <1>6, <3>4, <4>1, <4>2
    <3>5. ASSUME NEW h \in Nat, h < i, Queued(h, DescTopic, Described)
          PROVE  QueuedDescribed(k, i)'
      BY <1>4, <3>5 DEF QueuedDescribed
    <3>6. QED BY <3>2, <3>3, <3>4, <3>5 DEF QueuedDescribed
  <2>2. ASSUME NEW v \in Payloads \ {Described}, Queued(i, DescTopic, v)'
        PROVE  QueuedRevoked(k, i)'
    <3>1. QueuedRevoked(k, i) BY <1>4, <2>0, <2>2 DEF DescriptionBooks, QueuedBooks
    <3>2. CASE retained[WillTopic] # Ready /\ ~SentReady(k) /\ ~QueuedReady
      <4>1. ~(t0 = WillTopic /\ v0 = Ready) BY <1>1, <3>2 DEF SentReady
      <4>2. QED BY <1>2, <1>3, <1>5, <1>7, <3>2, <4>1 DEF QueuedRevoked
    <3>3. ASSUME NEW h \in Nat, Sent(k, h, WillTopic, Final) PROVE QueuedRevoked(k, i)'
      <4>1. CASE t0 = WillTopic /\ v0 = Final BY <1>5, <1>9, <4>1 DEF QueuedRevoked
      <4>2. CASE h - 1 \in Nat /\ Sent(k, h - 1, WillTopic, Final)'
        BY <4>2 DEF QueuedRevoked
      <4>3. QED BY <1>6, <3>3, <4>1, <4>2
    <3>4. ASSUME NEW h \in Nat, h < i, Queued(h, WillTopic, Final) PROVE QueuedRevoked(k, i)'
      BY <1>4, <3>4 DEF QueuedRevoked
    <3>5. QED BY <3>1, <3>2, <3>3, <3>4 DEF QueuedRevoked
  <2>3. QED BY <2>1, <2>2
<1>14. QueuedBooks'
  <2>1. \A j \in Clients : Live' /\ j = session' => j = k
    BY <1>0 DEF Live, PipeBooks
  <2>2. QED BY <1>13, <2>1 DEF QueuedBooks
<1>15. QED BY <1>10, <1>12, <1>14 DEF DescriptionBooks

LEMMA DescribedByDraining ==
  ASSUME LinkInv, RuntimeTypeOK, PipeBooks, LastWordBooks, DescriptionBooks,
         DrainPublish \/ DrainSubscribe
  PROVE  DescriptionBooks'
<1>0. BrokerTypeOK BY LinkTypesAre DEF LinkTypes
<1>1. /\ \A i \in Nat : \A t, v : Queued(i, t, v)' <=> i # 0 /\ Queued(i + 1, t, v)
      /\ UNCHANGED <<retained, conn, session>>
  BY DrainMoves, SubscribeMoves
<1>2. QueuedReady' => QueuedReady BY <1>1 DEF QueuedReady
\* What waited ahead of an item still does, unless it is the head.
<1>3. ASSUME NEW i \in Nat, NEW h \in Nat, h < i + 1, NEW t, NEW v, Queued(h, t, v)
      PROVE  \/ h = 1
             \/ \E g \in Nat : g < i /\ Queued(g, t, v)'
  <2>1. h # 0 BY <1>3 DEF Queued, Says, RuntimeTypeOK
  <2>2. SUFFICES ASSUME h # 1 PROVE \E g \in Nat : g < i /\ Queued(g, t, v)' OBVIOUS
  <2>3. PICK g \in Nat : g = h - 1 BY <2>1
  <2>4. g < i /\ g # 0 /\ g + 1 = h BY <1>3, <2>1, <2>2, <2>3
  <2>5. Queued(g, t, v)' BY <1>1, <1>3, <2>4
  <2>6. QED BY <2>4, <2>5
\* The head is no packet that is sent: a subscription, or dropped.
<1>4. CASE DrainSubscribe \/ (DrainPublish /\ ~Live)
  <2>1. UNCHANGED unread BY <1>4, DrainMoves, SubscribeMoves
  <2>2. \A k \in Clients : \A i, t, v : Sent(k, i, t, v)' <=> Sent(k, i, t, v) BY <2>1, SentSame
  <2>3. ASSUME NEW k \in Clients, NEW i \in Nat, Live', k = session'
        PROVE  /\ Queued(i, WillTopic, Ready)' => QueuedDescribed(k, i)'
               /\ \A v \in Payloads \ {Described} :
                     Queued(i, DescTopic, v)' => QueuedRevoked(k, i)'
    <3>1. Live /\ k = session BY <1>1, <2>3 DEF Live
    <3>2. \A t, v : ~Queued(1, t, v) BY <1>4, <3>1, SubscribeMoves
    <3>3. ASSUME Queued(i, WillTopic, Ready)' PROVE QueuedDescribed(k, i)'
      <4>1. i + 1 \in Nat /\ Queued(i + 1, WillTopic, Ready) BY <1>1, <3>3
      <4>2. QueuedDescribed(k, i + 1) BY <3>1, <4>1 DEF DescriptionBooks, QueuedBooks
      <4>3. ASSUME NEW h \in Nat, h < i + 1, Queued(h, DescTopic, Described)
            PROVE  QueuedDescribed(k, i)'
        BY <1>3, <3>2, <4>3 DEF QueuedDescribed
      <4>4. QED BY <1>1, <2>2, <4>2, <4>3 DEF QueuedDescribed
    <3>4. ASSUME NEW v \in Payloads \ {Described}, Queued(i, DescTopic, v)'
          PROVE  QueuedRevoked(k, i)'
      <4>0. \A t, u : Queued(i, t, u)' => Queued(i + 1, t, u) BY <1>1
      <4>1. i + 1 \in Nat /\ Queued(i + 1, DescTopic, v) BY <3>4, <4>0
      <4>2. QueuedRevoked(k, i + 1) BY <3>1, <4>1 DEF DescriptionBooks, QueuedBooks
      <4>3. SentReady(k)' <=> SentReady(k) BY <2>2 DEF SentReady
      <4>4. ASSUME NEW h \in Nat, h < i + 1, Queued(h, WillTopic, Final)
            PROVE  QueuedRevoked(k, i)'
        BY <1>3, <3>2, <4>4 DEF QueuedRevoked
      <4>5. QED BY <1>1, <1>2, <2>2, <4>2, <4>3, <4>4 DEF QueuedRevoked
    <3>5. QED BY <3>3, <3>4
  <2>4. QueuedBooks' BY <2>3 DEF QueuedBooks
  <2>5. QED BY <1>1, <2>1, <2>4, SentStaysDescribed DEF DescriptionBooks
\* The head is sent on the live session, behind what is unread there.
<1>5. CASE DrainPublish /\ Live
  <2>1. PICK s \in Clients : s = session
    BY <1>5, LinkTypesAre, BrokerAssumption DEF LinkTypes, Live
  <2>2. PICK L \in Nat : L = Len(unread[s]) BY <1>0 DEF BrokerTypeOK
  <2>3. PICK t0 \in Topics, v0 \in Payloads :
          /\ Queued(1, t0, v0)
          /\ \A t, v : Queued(1, t, v) => t = t0 /\ v = v0
          /\ \A k \in Clients, i \in Nat : \A t, v : Sent(k, i, t, v)' <=>
               \/ Sent(k, i, t, v)
               \/ k = session /\ i = Len(unread[k]) + 1 /\ t = t0 /\ v = v0
    BY <1>5, DrainMoves
  <2>4. \A k \in Clients, i \in Nat : \A t, v : Sent(k, i, t, v)' <=>
               \/ Sent(k, i, t, v)
               \/ k = s /\ i = L + 1 /\ t = t0 /\ v = v0
    BY <2>1, <2>2, <2>3
  <2>5. \A h : \A t, v : Sent(s, h, t, v) => h \in Nat /\ h < L + 1
    <3>1. ASSUME NEW h, NEW t, NEW v, Sent(s, h, t, v) PROVE h \in Nat /\ h < L + 1
      <4>1. h \in 1..L BY <1>0, <2>2, <3>1, SentIs
      <4>2. QED BY <4>1
    <3>2. QED BY <3>1
  <2>6. Sent(s, L + 1, t0, v0)'
    <3>1. PICK g \in Nat : g = L + 1 OBVIOUS
    <3>2. Sent(s, g, t0, v0)' BY <2>4, <3>1
    <3>3. QED BY <3>1, <3>2
  <2>7. t0 = WillTopic /\ v0 = Ready => QueuedReady BY <2>3 DEF QueuedReady
  <2>8. ReadyIsDescribed' BY <1>1 DEF DescriptionBooks, ReadyIsDescribed
  <2>9. ASSUME NEW k \in Clients, NEW i \in Nat
        PROVE  /\ Sent(k, i, WillTopic, Ready)' => SentDescribed(k, i)'
               /\ \A v \in Payloads \ {Described} : Sent(k, i, DescTopic, v)' => SentRevoked(k, i)'
    <3>1. ASSUME Sent(k, i, WillTopic, Ready) PROVE SentDescribed(k, i)'
      <4>1. SentDescribed(k, i) BY <3>1 DEF DescriptionBooks, SentBooks
      <4>2. QED BY <1>1, <2>4, <4>1 DEF SentDescribed
    <3>2. ASSUME k = s, i = L + 1, t0 = WillTopic, v0 = Ready PROVE SentDescribed(k, i)'
      <4>1. QueuedDescribed(s, 1) BY <1>5, <2>1, <2>3, <3>2 DEF DescriptionBooks, QueuedBooks
      <4>2. ~\E h \in Nat : h < 1 /\ Queued(h, DescTopic, Described)
        BY DEF Queued, Says, RuntimeTypeOK
      <4>3. retained[DescTopic] = Described \/ \E h \in Nat : Sent(s, h, DescTopic, Described)
        BY <4>1, <4>2 DEF QueuedDescribed
      <4>4. QED BY <1>1, <2>4, <2>5, <3>2, <4>3 DEF SentDescribed
    <3>3. ASSUME NEW v \in Payloads \ {Described}, Sent(k, i, DescTopic, v)
          PROVE  SentRevoked(k, i)'
      <4>1. SentRevoked(k, i) BY <3>3 DEF DescriptionBooks, SentBooks
      <4>2. ~(t0 = WillTopic /\ v0 = Ready) BY <2>7, <3>3, RemovalIsLast
      <4>3. SentReady(k)' => SentReady(k) BY <2>4, <4>2 DEF SentReady
      <4>4. QED BY <1>1, <2>4, <4>1, <4>3 DEF SentRevoked
    <3>4. ASSUME NEW v \in Payloads \ {Described}, k = s, i = L + 1, t0 = DescTopic, v0 = v
          PROVE  SentRevoked(k, i)'
      <4>1. QueuedRevoked(s, 1) BY <1>5, <2>1, <2>3, <3>4 DEF DescriptionBooks, QueuedBooks
      <4>2. ~\E h \in Nat : h < 1 /\ Queued(h, WillTopic, Final)
        BY DEF Queued, Says, RuntimeTypeOK
      <4>3. ~(t0 = WillTopic /\ v0 = Ready) BY <3>4, WordsDiffer
      <4>4. SentReady(k)' => SentReady(k) BY <2>4, <4>3 DEF SentReady
      <4>5. CASE retained[WillTopic] # Ready /\ ~SentReady(s)
        BY <1>1, <3>4, <4>4, <4>5 DEF SentRevoked
      <4>6. ASSUME NEW h \in Nat, Sent(s, h, WillTopic, Final) PROVE SentRevoked(k, i)'
        <5>1. h < i BY <2>5, <3>4, <4>6
        <5>2. Sent(k, h, WillTopic, Final)' BY <2>4, <3>4, <4>6
        <5>3. QED BY <5>1, <5>2 DEF SentRevoked
      <4>7. QED BY <4>1, <4>2, <4>5, <4>6 DEF QueuedRevoked
    <3>5. QED BY <2>4, <3>1, <3>2, <3>3, <3>4
  <2>10. ASSUME NEW i \in Nat
         PROVE  /\ Queued(i, WillTopic, Ready)' => QueuedDescribed(s, i)'
                /\ \A v \in Payloads \ {Described} :
                      Queued(i, DescTopic, v)' => QueuedRevoked(s, i)'
    <3>0. \A t, u : Queued(i, t, u)' => Queued(i + 1, t, u) BY <1>1
    <3>1. ASSUME NEW h \in Nat, h < i + 1, NEW t, NEW v, Queued(h, t, v)
          PROVE  \/ \E g \in Nat : Sent(s, g, t, v)'
                 \/ \E g \in Nat : g < i /\ Queued(g, t, v)'
      <4>1. CASE h = 1
        <5>1. t = t0 /\ v = v0 BY <2>3, <3>1, <4>1
        <5>2. PICK g \in Nat : g = L + 1 OBVIOUS
        <5>3. Sent(s, g, t, v)' BY <2>4, <5>1, <5>2
        <5>4. QED BY <5>3
      <4>2. QED BY <1>3, <3>1, <4>1
    <3>2. ASSUME Queued(i, WillTopic, Ready)' PROVE QueuedDescribed(s, i)'
      <4>1. i + 1 \in Nat /\ Queued(i + 1, WillTopic, Ready) BY <3>0, <3>2
      <4>2. QueuedDescribed(s, i + 1) BY <1>5, <2>1, <4>1 DEF DescriptionBooks, QueuedBooks
      <4>3. CASE retained[DescTopic] = Described BY <1>1, <4>3 DEF QueuedDescribed
      <4>4. ASSUME NEW h \in Nat, Sent(s, h, DescTopic, Described) PROVE QueuedDescribed(s, i)'
        BY <2>4, <4>4 DEF QueuedDescribed
      <4>5. ASSUME NEW h \in Nat, h < i + 1, Queued(h, DescTopic, Described)
            PROVE  QueuedDescribed(s, i)'
        BY <3>1, <4>5 DEF QueuedDescribed
      <4>6. QED BY <4>2, <4>3, <4>4, <4>5 DEF QueuedDescribed
    <3>3. ASSUME NEW v \in Payloads \ {Described}, Queued(i, DescTopic, v)'
          PROVE  QueuedRevoked(s, i)'
      <4>1. i + 1 \in Nat /\ Queued(i + 1, DescTopic, v) BY <3>0, <3>3
      <4>2. QueuedRevoked(s, i + 1) BY <1>5, <2>1, <4>1 DEF DescriptionBooks, QueuedBooks
      <4>3. CASE retained[WillTopic] # Ready /\ ~SentReady(s) /\ ~QueuedReady
        <5>1. SentReady(s)' => SentReady(s) BY <2>4, <2>7, <4>3 DEF SentReady
        <5>2. QED BY <1>1, <1>2, <4>3, <5>1 DEF QueuedRevoked
      <4>4. ASSUME NEW h \in Nat, Sent(s, h, WillTopic, Final) PROVE QueuedRevoked(s, i)'
        BY <2>4, <4>4 DEF QueuedRevoked
      <4>5. ASSUME NEW h \in Nat, h < i + 1, Queued(h, WillTopic, Final)
            PROVE  QueuedRevoked(s, i)'
        BY <3>1, <4>5 DEF QueuedRevoked
      <4>6. QED BY <4>2, <4>3, <4>4, <4>5 DEF QueuedRevoked
    <3>4. QED BY <3>2, <3>3
  <2>11. SentBooks' BY <2>9 DEF SentBooks
  <2>12. QueuedBooks'
    <3>1. \A k \in Clients : k = session' => k = s BY <1>1, <2>1
    <3>2. QED BY <2>10, <3>1 DEF QueuedBooks
  <2>13. QED BY <2>8, <2>11, <2>12 DEF DescriptionBooks
<1>6. QED BY <1>4, <1>5

LEMMA DescriptionsKept ==
  ASSUME LinkInv, RuntimeTypeOK, PhaseBooks, PipeBooks, ByeBooks, LastWordBooks, WillBooks,
         DescriptionBooks, [RuntimeNext]_allVars
  PROVE  DescriptionBooks'
<1>0. LinkTypes /\ BrokerTypeOK BY LinkTypesAre DEF LinkTypes
<1>1. CASE Network /\ UNCHANGED runtimeVars
  <2>1. UNCHANGED <<queue, session>> BY <1>1 DEF Network, linkVars, runtimeVars
  <2>2. ASSUME NEW k \in Clients, BrokerReads(k) PROVE DescriptionBooks'
    BY <1>0, <2>1, <2>2, DescribedByReading
  <2>3. CASE Steady BY <2>1, <2>3, QueuedStaysDescribed DEF Steady
  <2>4. ASSUME NEW k \in Clients, GoodbyeRead(k) PROVE DescriptionBooks'
    <3>1. UNCHANGED <<unread, retained>> /\ conn' = [conn EXCEPT ![k] = "gone"]
      BY <2>4 DEF GoodbyeRead, BrokerReadsBye
    <3>2. Live' => Live
      BY <1>0, <2>1, <3>1, BrokerAssumption DEF Live, LinkTypes, BrokerTypeOK
    <3>3. QED BY <2>1, <3>1, <3>2, QueuedStaysDescribed
  <2>5. CASE Cleared
    <3>1. /\ retained'[WillTopic] # Ready
          /\ \A k \in Clients : \A i, t, v : ~Sent(k, i, t, v)'
      BY <1>0, <2>5, ClearedIsQuiet, WordsDiffer
    <3>2. ~Live' BY <2>5 DEF Cleared
    <3>3. ReadyIsDescribed' BY <3>1 DEF ReadyIsDescribed
    <3>4. SentBooks' BY <3>1 DEF SentBooks
    <3>5. QueuedBooks' BY <3>2 DEF QueuedBooks
    <3>6. QED BY <3>3, <3>4, <3>5 DEF DescriptionBooks
  <2>6. QED BY <1>0, <1>1, <2>2, <2>3, <2>4, <2>5, NetworkKinds
<1>2. CASE Quiet /\ ~(Network /\ UNCHANGED runtimeVars)
  <2>1. UNCHANGED <<unread, retained, queue>> BY <1>2 DEF Quiet
  <2>2. CASE Live' => Live /\ session' = session BY <2>1, <2>2, QueuedStaysDescribed
  \* The link comes up with nothing ready about it.
  <2>3. CASE SupConnected
    <3>1. /\ sup = "connecting" /\ ~cancelled
          /\ session' = cur /\ conn[cur] = "held" /\ cur \in Clients
      BY <1>0, <2>3, BrokerAssumption DEF SupConnected, LinkInv, SessionInv, SessionBooks, LinkTypes
    <3>2. \A i, t, v : Queued(i, t, v)' <=> Queued(i, t, v) BY <2>1, QueuedSame
    <3>3. ~QueuedReady /\ ~QueuedReady' BY <3>1, <3>2 DEF WillBooks, QueuedReady
    <3>4. \A k \in Clients : ~Served(k) BY <3>1 DEF Served, PipeBooks
    <3>5. ~ReadyAbroad BY <3>1, <3>4 DEF WillBooks
    <3>6. retained'[WillTopic] # Ready /\ \A k \in Clients : ~SentReady(k)'
      BY <2>1, <3>5, SentSame DEF ReadyAbroad, SentReady
    <3>7. QueuedBooks' BY <3>3, <3>6 DEF QueuedBooks, QueuedRevoked, QueuedReady
    <3>8. QED BY <2>1, <3>7, SentStaysDescribed DEF DescriptionBooks
  <2>4. QED BY <1>2, <2>2, <2>3, LiveBegins
<1>3. CASE StartSucceeds \/ StartRaises
  <2>1. queue = <<>> /\ UNCHANGED <<unread, retained, conn, session>> BY <1>3, StartQueues
  <2>2. \A h, t, v : ~Queued(h, t, v) BY <2>1 DEF Queued, Says
  <2>3. PICK N \in Nat : \A i \in Nat : \A t, v : Queued(i, t, v)' =>
                    \/ i = N + 1 /\ t = DescTopic /\ v = Described
                    \/ i = N + 2 /\ t = PowerTopic /\ v = reading
                    \/ /\ i = N + 3 /\ t = WillTopic /\ v = Ready
                       /\ Queued(N + 1, DescTopic, Described)'
    BY <1>3, StartQueues
  <2>4. ASSUME NEW i \in Nat, Queued(i, WillTopic, Ready)'
        PROVE  \E h \in Nat : h < i /\ Queued(h, DescTopic, Described)'
    <3>1. i = N + 3 /\ Queued(N + 1, DescTopic, Described)' BY <2>3, <2>4, WordsDiffer
    <3>2. PICK h \in Nat : h = N + 1 OBVIOUS
    <3>3. QED BY <3>1, <3>2
  <2>5. \A i \in Nat, v \in Payloads \ {Described} : ~Queued(i, DescTopic, v)'
    BY <2>3, WordsDiffer
  <2>6. QED BY <2>1, <2>2, <2>4, <2>5, SubmittedIsDescribed
<1>4. CASE Tick
  <2>1. phase = "running" /\ UNCHANGED <<unread, retained, conn, session>>
    BY <1>4 DEF Tick, vars, linkVars, brokerVars
  <2>2. PICK n \in 0..1 : \A i \in Nat : \A t, v : Queued(i, t, v)' <=>
                \/ Queued(i, t, v)
                \/ n = 1 /\ i = Len(queue) + 1 /\ t = PowerTopic /\ v = NextReading
    BY <1>4, TickQueues
  <2>3. \A i \in Nat, v \in Payloads \ {Described} : ~Queued(i, DescTopic, v)'
    BY <2>1, <2>2, RemovalIsLast, WordsDiffer
  <2>4. \A i \in Nat : Queued(i, WillTopic, Ready)' => Queued(i, WillTopic, Ready)
    BY <2>2, WordsDiffer
  <2>5. \A i \in Nat : Queued(i, DescTopic, Described) => Queued(i, DescTopic, Described)'
    BY <2>2
  <2>6. QED BY <2>1, <2>3, <2>4, <2>5, SubmittedIsDescribed
<1>5. CASE RepublishTree /\ isRunning
  <2>1. phase = "running" /\ UNCHANGED <<unread, retained, conn, session>>
    BY <1>5 DEF RepublishTree, RunHook, brokerVars, PhaseBooks
  <2>2. PICK L \in Nat : L = Len(queue) BY DEF RuntimeTypeOK
  <2>3. PICK n \in 0..3 : \A i \in Nat : \A t, v : Queued(i, t, v)' <=>
                \/ Queued(i, t, v)
                \/ n >= 1 /\ i = L + 1 /\ t = DescTopic /\ v = Described
                \/ n >= 2 /\ i = L + 2 /\ t = PowerTopic /\ v = reading
                \/ n >= 3 /\ i = L + 3 /\ t = WillTopic /\ v = Ready
    BY <1>5, <2>2, RepublishQueues
  <2>4. \A i \in Nat, v \in Payloads \ {Described} : ~Queued(i, DescTopic, v)'
    BY <2>1, <2>3, RemovalIsLast, WordsDiffer
  <2>5. ASSUME NEW i \in Nat, Queued(i, WillTopic, Ready)', ~Queued(i, WillTopic, Ready)
        PROVE  \E h \in Nat : h < i /\ Queued(h, DescTopic, Described)'
    <3>1. n >= 3 /\ i = L + 3 BY <2>3, <2>5, WordsDiffer
    <3>2. PICK h \in Nat : h = L + 1 OBVIOUS
    <3>3. Queued(h, DescTopic, Described)' BY <2>3, <3>1, <3>2
    <3>4. QED BY <3>1, <3>2, <3>3
  <2>6. \A i \in Nat : Queued(i, DescTopic, Described) => Queued(i, DescTopic, Described)'
    BY <2>3
  <2>7. QED BY <2>1, <2>4, <2>5, <2>6, SubmittedIsDescribed
<1>6. CASE Stop
  <2>1. phase = "running" /\ UNCHANGED <<unread, retained, conn, session>>
    BY <1>6 DEF Stop, vars, linkVars, brokerVars
  <2>2. PICK L \in Nat : L = Len(queue) BY DEF RuntimeTypeOK
  <2>3. PICK n \in 0..3 : \A i \in Nat : \A t, v : Queued(i, t, v)' <=>
                \/ Queued(i, t, v)
                \/ n >= 1 /\ i = L + 1 /\ t = WillTopic /\ v = Final
                \/ n >= 2 /\ i = L + 2 /\ t = DescTopic /\ v = Empty
                \/ n >= 3 /\ i = L + 3 /\ t = PowerTopic /\ v = Empty
    BY <1>6, <2>2, StopQueues
  <2>4. \A i \in Nat : Queued(i, WillTopic, Ready)' => Queued(i, WillTopic, Ready)
    BY <2>3, WordsDiffer
  <2>5. \A i \in Nat : Queued(i, DescTopic, Described) => Queued(i, DescTopic, Described)'
    BY <2>3
  <2>6. ASSUME NEW i \in Nat, NEW v \in Payloads \ {Described}, Queued(i, DescTopic, v)'
        PROVE  \E h \in Nat : h < i /\ Queued(h, WillTopic, Final)'
    <3>1. ~Queued(i, DescTopic, v) BY <2>1, RemovalIsLast
    <3>2. n >= 2 /\ i = L + 2 BY <2>3, <2>6, <3>1, WordsDiffer
    <3>3. PICK h \in Nat : h = L + 1 OBVIOUS
    <3>4. Queued(h, WillTopic, Final)' BY <2>3, <3>2, <3>3
    <3>5. QED BY <3>2, <3>3, <3>4
  <2>7. QED BY <2>1, <2>4, <2>5, <2>6, SubmittedIsDescribed
<1>7. CASE DrainPublish \/ DrainSubscribe BY <1>7, DescribedByDraining
<1>8. QED BY <1>1, <1>2, <1>3, <1>4, <1>5, <1>6, <1>7, RuntimeKinds

-----------------------------------------------------------------------------
(***************************************************************************)
(* While the panel runs and its link serves, the last word on each topic,  *)
(* on its way or retained, is the current tree's.                          *)
(***************************************************************************)
LEMMA WordStays ==
  ASSUME UNCHANGED <<queue, unread, retained>>,
         NEW k \in Clients, NEW t, NEW c, LastWord(k, t, c)
  PROVE  LastWord(k, t, c)'
<1>1. /\ \A i, s, u : Sent(k, i, s, u)' <=> Sent(k, i, s, u)
      /\ \A i, s, u : Queued(i, s, u)' <=> Queued(i, s, u)
  BY SentSame, QueuedSame
<1>2. QED BY <1>1 DEF LastWord, QueueSays, QueueSilent, PipeSays, PipeSilent

\* The queue's last word survives the head's leaving it, if it was not the head.
LEMMA QueueShifts ==
  ASSUME RuntimeTypeOK,
         \A i \in Nat : \A t, v : Queued(i, t, v)' <=> i # 0 /\ Queued(i + 1, t, v),
         NEW t, NEW c
  PROVE  /\ QueueSilent(t) => QueueSilent(t)'
         /\ \A i \in Nat : /\ i # 1 /\ Queued(i, t, c)
                           /\ \A j \in Nat, u \in Payloads : j > i => ~Queued(j, t, u)
                           => QueueSays(t, c)'
         /\ (\A j \in Nat, u \in Payloads : j > 1 => ~Queued(j, t, u)) => QueueSilent(t)'
<1>0. \A j \in Nat : j + 1 \in Nat OBVIOUS
<1>1. QueueSilent(t) => QueueSilent(t)' BY <1>0 DEF QueueSilent
<1>2. ASSUME NEW i \in Nat, i # 1, Queued(i, t, c),
             \A j \in Nat, u \in Payloads : j > i => ~Queued(j, t, u)
      PROVE  QueueSays(t, c)'
  <2>1. i # 0 BY <1>2 DEF Queued, Says, RuntimeTypeOK
  <2>2. PICK g \in Nat : g = i - 1 BY <2>1
  <2>3. g # 0 /\ g + 1 = i BY <1>2, <2>1, <2>2
  <2>4. Queued(g, t, c)' BY <1>2, <2>3
  <2>5. ASSUME NEW j \in Nat, NEW u \in Payloads, j > g PROVE ~Queued(j, t, u)'
    <3>1. j + 1 \in Nat /\ j + 1 > i BY <2>3, <2>5
    <3>2. ~Queued(j + 1, t, u) BY <1>2, <3>1
    <3>3. QED BY <3>2
  <2>6. QED BY <2>4, <2>5 DEF QueueSays
<1>3. ASSUME \A j \in Nat, u \in Payloads : j > 1 => ~Queued(j, t, u) PROVE QueueSilent(t)'
  <2>1. ASSUME NEW j \in Nat, NEW u \in Payloads, Queued(j, t, u)' PROVE FALSE
    <3>1. j # 0 /\ Queued(j + 1, t, u) BY <2>1
    <3>2. j + 1 \in Nat /\ j + 1 > 1 BY <3>1
    <3>3. QED BY <1>3, <3>1, <3>2
  <2>2. QED BY <2>1 DEF QueueSilent
<1>4. QED BY <1>1, <1>2, <1>3

\* What is submitted leaves alone what it does not speak of.
LEMMA WordUntouched ==
  ASSUME UNCHANGED <<unread, retained>>, NEW t,
         \A i \in Nat : \A u : Queued(i, t, u)' <=> Queued(i, t, u),
         NEW k \in Clients, NEW c, LastWord(k, t, c)
  PROVE  LastWord(k, t, c)'
<1>1. \A i, s, u : Sent(k, i, s, u)' <=> Sent(k, i, s, u) BY SentSame
<1>2. QED BY <1>1 DEF LastWord, QueueSays, QueueSilent, PipeSays, PipeSilent

\* The broker reads a packet of the session.
LEMMA WordIsRead ==
  ASSUME LinkTypes, PipeBooks, NEW k \in Clients, BrokerReads(k), UNCHANGED queue,
         NEW t \in Topics, NEW c \in Payloads, LastWord(k, t, c)
  PROVE  LastWord(k, t, c)'
<1>1. PICK t0 \in Topics, v0 \in Payloads :
            /\ Sent(k, 1, t0, v0)
            /\ \A s, v : Sent(k, 1, s, v) => s = t0 /\ v = v0
            /\ \A s \in Topics : retained'[s] = IF s = t0 THEN v0 ELSE retained[s]
            /\ \A i \in Nat : \A s, v : Sent(k, i, s, v)' <=> i # 0 /\ Sent(k, i + 1, s, v)
  BY PacketIsRead
<1>2. \A i, s, u : Queued(i, s, u)' <=> Queued(i, s, u) BY QueuedSame
<1>3. CASE QueueSays(t, c) BY <1>2, <1>3 DEF LastWord, QueueSays
<1>4. CASE QueueSilent(t) /\ PipeSays(k, t, c)
  <2>1. QueueSilent(t)' BY <1>2, <1>4 DEF QueueSilent
  <2>2. PICK i \in Nat : /\ Sent(k, i, t, c)
                         /\ \A j \in Nat, u \in Payloads : j > i => ~Sent(k, j, t, u)
    BY <1>4 DEF PipeSays
  <2>3. i # 0 BY <2>2, SentIs DEF LinkTypes
  <2>4. CASE i = 1
    <3>1. t = t0 /\ c = v0 BY <1>1, <2>2, <2>4
    <3>2. retained'[t] = c BY <1>1, <3>1
    <3>3. ASSUME NEW j \in Nat, NEW u \in Payloads, Sent(k, j, t, u)' PROVE FALSE
      <4>1. j # 0 /\ Sent(k, j + 1, t, u) BY <1>1, <3>3
      <4>2. j + 1 \in Nat /\ j + 1 > i BY <2>4, <4>1
      <4>3. QED BY <2>2, <4>1, <4>2
    <3>4. PipeSilent(k, t)' BY <3>3 DEF PipeSilent
    <3>5. QED BY <2>1, <3>2, <3>4 DEF LastWord
  <2>5. CASE i # 1
    <3>1. PICK g \in Nat : g = i - 1 BY <2>3
    <3>2. g # 0 /\ g + 1 = i BY <2>3, <2>5, <3>1
    <3>3. Sent(k, g, t, c)' BY <1>1, <2>2, <3>2
    <3>4. ASSUME NEW j \in Nat, NEW u \in Payloads, j > g PROVE ~Sent(k, j, t, u)'
      <4>1. j + 1 \in Nat /\ j + 1 > i BY <3>2, <3>4
      <4>2. ~Sent(k, j + 1, t, u) BY <2>2, <4>1
      <4>3. QED BY <1>1, <4>2
    <3>5. PipeSays(k, t, c)' BY <3>3, <3>4 DEF PipeSays
    <3>6. QED BY <2>1, <3>5 DEF LastWord
  <2>6. QED BY <2>4, <2>5
<1>5. CASE QueueSilent(t) /\ PipeSilent(k, t) /\ retained[t] = c
  <2>1. QueueSilent(t)' BY <1>2, <1>5 DEF QueueSilent
  <2>2. \A j \in Nat : j + 1 \in Nat OBVIOUS
  <2>3. PipeSilent(k, t)' BY <1>1, <1>5, <2>2 DEF PipeSilent
  <2>4. t # t0 BY <1>1, <1>5 DEF PipeSilent
  <2>5. retained'[t] = c BY <1>1, <1>5, <2>4
  <2>6. QED BY <2>1, <2>3, <2>5 DEF LastWord
<1>6. QED BY <1>3, <1>4, <1>5 DEF LastWord

\* The drainer sends an item on the session.
LEMMA WordIsSent ==
  ASSUME LinkInv, RuntimeTypeOK, PipeBooks, DrainPublish, Live,
         NEW k \in Clients, k = session, NEW t \in Topics, NEW c \in Payloads, LastWord(k, t, c)
  PROVE  LastWord(k, t, c)'
<1>0. BrokerTypeOK BY LinkTypesAre DEF LinkTypes
<1>1. PICK L \in Nat : L = Len(unread[k]) BY <1>0 DEF BrokerTypeOK
<1>2. /\ \A i \in Nat : \A s, v : Queued(i, s, v)' <=> i # 0 /\ Queued(i + 1, s, v)
      /\ UNCHANGED retained
  BY DrainMoves
<1>3. PICK t0 \in Topics, v0 \in Payloads :
          /\ Queued(1, t0, v0)
          /\ \A s, v : Queued(1, s, v) => s = t0 /\ v = v0
          /\ \A j \in Clients, i \in Nat : \A s, v : Sent(j, i, s, v)' <=>
               \/ Sent(j, i, s, v)
               \/ j = session /\ i = Len(unread[j]) + 1 /\ s = t0 /\ v = v0
  BY DrainMoves
<1>4. \A i \in Nat : \A s, v : Sent(k, i, s, v)' <=>
          Sent(k, i, s, v) \/ (i = L + 1 /\ s = t0 /\ v = v0)
  BY <1>1, <1>3
<1>5. \A i \in Nat : \A s, v : Sent(k, i, s, v) => i <= L
  <2>1. ASSUME NEW i \in Nat, NEW s, NEW v, Sent(k, i, s, v) PROVE i <= L
    <3>1. i \in 1..L BY <1>0, <1>1, <2>1, SentIs
    <3>2. QED BY <3>1
  <2>2. QED BY <2>1
<1>6. CASE QueueSays(t, c)
  <2>1. PICK i \in Nat : Queued(i, t, c) /\ \A j \in Nat, u \in Payloads : j > i => ~Queued(j, t, u)
    BY <1>6 DEF QueueSays
  <2>2. CASE i # 1
    <3>1. QueueSays(t, c)' BY <1>2, <2>1, <2>2, QueueShifts
    <3>2. QED BY <3>1 DEF LastWord
  <2>3. CASE i = 1
    <3>1. QueueSilent(t)' BY <1>2, <2>1, <2>3, QueueShifts
    <3>2. t = t0 /\ c = v0 BY <1>3, <2>1, <2>3
    <3>3. PICK g \in Nat : g = L + 1 OBVIOUS
    <3>4. Sent(k, g, t, c)' BY <1>4, <3>2, <3>3
    <3>5. \A j \in Nat, u \in Payloads : j > g => ~Sent(k, j, t, u)' BY <1>4, <1>5, <3>3
    <3>6. PipeSays(k, t, c)' BY <3>4, <3>5 DEF PipeSays
    <3>7. QED BY <3>1, <3>6 DEF LastWord
  <2>4. QED BY <2>2, <2>3
<1>7. CASE QueueSilent(t) /\ (PipeSays(k, t, c) \/ (PipeSilent(k, t) /\ retained[t] = c))
  <2>1. t # t0 BY <1>3, <1>7 DEF QueueSilent
  <2>2. \A i \in Nat : \A v : Sent(k, i, t, v)' <=> Sent(k, i, t, v) BY <1>4, <2>1
  <2>3. QueueSilent(t)' BY <1>2, <1>7, QueueShifts
  <2>4. QED BY <1>2, <1>7, <2>2, <2>3 DEF LastWord, PipeSays, PipeSilent
<1>8. QED BY <1>6, <1>7 DEF LastWord

\* A serving link that has its reader was connected for the first time, or has
\* had the tree republished.
LEMMA ReadingBegins ==
  ASSUME [RuntimeNext]_allVars, sup' = "reading"
  PROVE  sup = "reading" \/ SupConnected \/ RepublishTree
BY DEF RuntimeNext, StartClone, StartSucceeds, StartRaises, ConnectRaises, Tick, RepublishTree,
       DrainPublish, DrainSubscribe, Stop, Drained, Stopped, Reconnect, LinkStep, Connect,
       ConnectReturns, Disconnect, DisconnectReturns, Publish, Subscribe, SleepEnds, DialNext,
       SuperviseAlone, SupConnectFails, SupConnectCancelled, RestoreSends, RestoreAcknowledged,
       RestoreFails, ReaderSeesDrop, DeadlineFires, ServingCancelled, LeaveEnds, SleepCancelled,
       OrphanCloses, OperationEnds, OperationDone, OperationFails, Network, vars, linkVars, allVars

\* A running panel's link that connects is reconnecting, and restores first.
LEMMA ReconnectRestores ==
  ASSUME LinkInv, PhaseBooks, SupConnected, phase = "running" PROVE sup' = "restoring"
<1>1. owner \in {"new", "connecting", "up", "closing", "closed"} /\ OwnerBooks
  BY DEF LinkInv, Typed, TypeOK
<1>2. owner = "up" BY <1>1 DEF PhaseBooks
<1>3. QED BY <1>1, <1>2 DEF OwnerBooks, SupConnected

LEMMA QueuedWithin ==
  ASSUME RuntimeTypeOK, NEW i, NEW t, NEW v, Queued(i, t, v)
  PROVE  i \in 1..Len(queue)
BY DEF Queued, Says, RuntimeTypeOK

LEMMA TreesKept ==
  ASSUME LinkInv, RuntimeTypeOK, PhaseBooks, PipeBooks, ByeBooks, TreeBooks,
         [RuntimeNext]_allVars
  PROVE  TreeBooks'
<1>0. LinkTypes BY LinkTypesAre
<1>1. PICK r \in Readings : r = reading BY DEF RuntimeTypeOK
<1>2. PICK L \in Nat : L = Len(queue) BY DEF RuntimeTypeOK
<1>3. \A i : \A t, v : Queued(i, t, v) => i \in 1..L BY <1>2, QueuedWithin
<1>4. SUFFICES ASSUME NEW k \in Clients, NEW t \in Topics, NEW c \in Payloads,
                      phase' = "running", sup' = "reading", Live', k = session', c = Current(t)',
                      t \notin refused'
               PROVE  LastWord(k, t, c)'
  BY DEF TreeBooks
\* Steps that leave the session and the reading alone find the tree current.
<1>5. ASSUME phase = "running", sup = "reading", Live, k = session,
             UNCHANGED <<reading, refused>>
      PROVE  LastWord(k, t, c)
  BY <1>4, <1>5 DEF TreeBooks, Current
<1>6. CASE Network /\ UNCHANGED runtimeVars
  <2>1. UNCHANGED <<queue, reading, refused, phase, session, sup>>
    BY <1>6 DEF Network, linkVars, runtimeVars
  <2>2. ASSUME NEW j \in Clients, BrokerReads(j) PROVE LastWord(k, t, c)'
    <3>1. UNCHANGED conn /\ conn[j] = "held" BY <2>2 DEF BrokerReads
    <3>2. Live /\ j = k BY <1>4, <2>1, <3>1 DEF Live, PipeBooks
    <3>3. LastWord(k, t, c) BY <1>4, <1>5, <2>1, <3>2
    <3>4. QED BY <1>0, <2>1, <2>2, <3>2, <3>3, WordIsRead
  <2>3. ASSUME UNCHANGED <<unread, retained>>, Live PROVE LastWord(k, t, c)'
    <3>1. LastWord(k, t, c) BY <1>4, <1>5, <2>1, <2>3
    <3>2. QED BY <2>1, <2>3, <3>1, WordStays
  <2>4. CASE Steady BY <1>4, <2>3, <2>4 DEF Steady
  <2>5. ASSUME NEW j \in Clients, GoodbyeRead(j) PROVE LastWord(k, t, c)'
    <3>1. UNCHANGED <<unread, retained>> /\ conn' = [conn EXCEPT ![j] = "gone"]
      BY <2>5 DEF GoodbyeRead, BrokerReadsBye
    <3>2. Live BY <1>0, <1>4, <2>1, <3>1, BrokerAssumption DEF Live, LinkTypes, BrokerTypeOK
    <3>3. QED BY <2>3, <3>1, <3>2
  <2>6. CASE Cleared BY <1>4, <2>6 DEF Cleared
  <2>7. QED BY <1>0, <1>6, <2>2, <2>4, <2>5, <2>6, NetworkKinds
<1>7. CASE /\ Quiet
           /\ ~(Network /\ UNCHANGED runtimeVars)
           /\ ~(RepublishTree /\ isRunning)
  <2>1. UNCHANGED <<queue, unread, retained, reading, refused, phase>> /\ phase = "running"
    BY <1>4, <1>7 DEF Quiet
  <2>2. ~SupConnected BY <1>4, <2>1, ReconnectRestores
  <2>3. Live /\ k = session BY <1>4, <1>7, <2>2, LiveBegins
  <2>4. CASE sup = "reading"
    <3>1. LastWord(k, t, c) BY <1>5, <2>1, <2>3, <2>4
    <3>2. QED BY <2>1, <3>1, WordStays
  \* The hook of a running panel republishes.
  <2>5. ~RepublishTree BY <1>7, <2>1 DEF PhaseBooks
  <2>6. QED BY <1>4, <2>2, <2>4, <2>5, ReadingBegins
<1>8. CASE StartRaises \/ Stop BY <1>4, <1>8 DEF StartRaises, Stop
<1>9. CASE StartSucceeds
  <2>1. UNCHANGED reading BY <1>9 DEF StartSucceeds
  <2>2. PICK N \in Nat :
           /\ \A i \in Nat : \A s, v : Queued(i, s, v)' =>
                    \/ i = N + 1 /\ s = DescTopic /\ v = Described
                    \/ i = N + 2 /\ s = PowerTopic /\ v = reading
                    \/ i = N + 3 /\ s = WillTopic /\ v = Ready
           /\ Queued(N + 1, DescTopic, Described)'
           /\ Queued(N + 2, PowerTopic, reading)'
           /\ Queued(N + 3, WillTopic, Ready)'
    BY <1>9, StartQueues
  <2>3. PICK g1 \in Nat, g2 \in Nat, g3 \in Nat : g1 = N + 1 /\ g2 = N + 2 /\ g3 = N + 3 OBVIOUS
  <2>4. /\ \A i \in Nat : \A s, v : Queued(i, s, v)' =>
                    \/ i = g1 /\ s = DescTopic /\ v = Described
                    \/ i = g2 /\ s = PowerTopic /\ v = r
                    \/ i = g3 /\ s = WillTopic /\ v = Ready
        /\ Queued(g1, DescTopic, Described)'
        /\ Queued(g2, PowerTopic, r)'
        /\ Queued(g3, WillTopic, Ready)'
    BY <1>1, <2>1, <2>2, <2>3 DEF Queued
  <2>5. QueueSays(t, c)'
    <3>1. CASE t = WillTopic
      <4>1. c = Ready BY <1>4, <3>1 DEF Current
      <4>2. \A j \in Nat, u \in Payloads : j > g3 => ~Queued(j, t, u)'
        BY <2>4, <3>1, RuntimeAssumption
      <4>3. QED BY <2>4, <3>1, <4>1, <4>2 DEF QueueSays
    <3>2. CASE t = DescTopic
      <4>1. c = Described BY <1>4, <3>2, RuntimeAssumption DEF Current
      <4>2. \A j \in Nat, u \in Payloads : j > g1 => ~Queued(j, t, u)'
        BY <2>4, <3>2, RuntimeAssumption
      <4>3. QED BY <2>4, <3>2, <4>1, <4>2 DEF QueueSays
    <3>3. CASE t = PowerTopic
      <4>1. c = r BY <1>1, <1>4, <2>1, <3>3, RuntimeAssumption DEF Current
      <4>2. \A j \in Nat, u \in Payloads : j > g2 => ~Queued(j, t, u)'
        BY <2>4, <3>3, RuntimeAssumption
      <4>3. QED BY <2>4, <3>3, <4>1, <4>2 DEF QueueSays
    <3>4. QED BY <3>1, <3>2, <3>3, RuntimeAssumption
  <2>6. QED BY <2>5 DEF LastWord
<1>10. CASE Tick
  <2>1. /\ phase = "running" /\ UNCHANGED <<unread, retained, conn, session, sup>>
        /\ reading' = NextReading
    BY <1>10 DEF Tick, vars, linkVars, brokerVars
  <2>2. PICK v0 : v0 = NextReading OBVIOUS
  <2>3. PICK n \in 0..1 :
           /\ \A i \in Nat : \A s, v : Queued(i, s, v)' <=>
                \/ Queued(i, s, v)
                \/ n = 1 /\ i = L + 1 /\ s = PowerTopic /\ v = v0
           /\ n = 0 => PowerTopic \in refused'
           /\ \A s \in Topics \ {PowerTopic} : s \in refused' <=> s \in refused
    BY <1>2, <1>10, <2>2, TickQueues
  <2>4. Live /\ k = session BY <1>4, <2>1 DEF Live
  <2>5. CASE t = PowerTopic
    <3>1. c = v0 /\ n = 1 BY <1>4, <2>1, <2>2, <2>3, <2>5, RuntimeAssumption DEF Current
    <3>2. PICK g \in Nat : g = L + 1 OBVIOUS
    <3>3. Queued(g, t, c)' BY <2>3, <2>5, <3>1, <3>2
    <3>4. \A j \in Nat, u \in Payloads : j > g => ~Queued(j, t, u)' BY <1>3, <2>3, <3>2
    <3>5. QED BY <3>3, <3>4 DEF LastWord, QueueSays
  <2>6. CASE t # PowerTopic
    <3>1. c = Current(t) BY <1>4, <2>6, RuntimeAssumption DEF Current
    <3>2. LastWord(k, t, c) BY <1>4, <2>1, <2>3, <2>4, <2>6, <3>1 DEF TreeBooks
    <3>3. \A i \in Nat : \A u : Queued(i, t, u)' <=> Queued(i, t, u) BY <2>3, <2>6
    <3>4. QED BY <2>1, <3>2, <3>3, WordUntouched
  <2>7. QED BY <2>5, <2>6
<1>11. CASE RepublishTree /\ isRunning
  <2>1. UNCHANGED reading BY <1>11 DEF RepublishTree
  <2>2. PICK n \in 0..3 :
           /\ \A i \in Nat : \A s, v : Queued(i, s, v)' <=>
                \/ Queued(i, s, v)
                \/ n >= 1 /\ i = L + 1 /\ s = DescTopic /\ v = Described
                \/ n >= 2 /\ i = L + 2 /\ s = PowerTopic /\ v = r
                \/ n >= 3 /\ i = L + 3 /\ s = WillTopic /\ v = Ready
           /\ n < 1 => DescTopic \in refused'
           /\ n < 2 => PowerTopic \in refused'
           /\ n < 3 => WillTopic \in refused'
    BY <1>1, <1>2, <1>11, RepublishQueues
  <2>3. PICK g1 \in Nat, g2 \in Nat, g3 \in Nat : g1 = L + 1 /\ g2 = L + 2 /\ g3 = L + 3 OBVIOUS
  <2>4. \A i \in Nat : \A s, v : Queued(i, s, v)' <=>
                \/ Queued(i, s, v)
                \/ n >= 1 /\ i = g1 /\ s = DescTopic /\ v = Described
                \/ n >= 2 /\ i = g2 /\ s = PowerTopic /\ v = r
                \/ n >= 3 /\ i = g3 /\ s = WillTopic /\ v = Ready
    BY <2>2, <2>3
  <2>5. \A j \in Nat : \A s, v : j > L => ~Queued(j, s, v) BY <1>3
  <2>6. QueueSays(t, c)'
    <3>1. CASE t = WillTopic
      <4>1. c = Ready /\ n >= 3 BY <1>4, <2>2, <3>1 DEF Current
      <4>2. \A j \in Nat, u \in Payloads : j > g3 => ~Queued(j, t, u)'
        BY <2>3, <2>4, <2>5, <3>1, RuntimeAssumption
      <4>3. QED BY <2>4, <3>1, <4>1, <4>2 DEF QueueSays
    <3>2. CASE t = DescTopic
      <4>1. c = Described /\ n >= 1 BY <1>4, <2>2, <3>2, RuntimeAssumption DEF Current
      <4>2. \A j \in Nat, u \in Payloads : j > g1 => ~Queued(j, t, u)'
        BY <2>3, <2>4, <2>5, <3>2, RuntimeAssumption
      <4>3. QED BY <2>4, <3>2, <4>1, <4>2 DEF QueueSays
    <3>3. CASE t = PowerTopic
      <4>1. c = r /\ n >= 2 BY <1>1, <1>4, <2>1, <2>2, <3>3, RuntimeAssumption DEF Current
      <4>2. \A j \in Nat, u \in Payloads : j > g2 => ~Queued(j, t, u)'
        BY <2>3, <2>4, <2>5, <3>3, RuntimeAssumption
      <4>3. QED BY <2>4, <3>3, <4>1, <4>2 DEF QueueSays
    <3>4. QED BY <3>1, <3>2, <3>3, RuntimeAssumption
  <2>7. QED BY <2>6 DEF LastWord
<1>12. CASE DrainPublish \/ DrainSubscribe
  <2>1. /\ UNCHANGED <<retained, conn, phase, reading, refused, session, sup>>
        /\ \A i \in Nat : \A s, v : Queued(i, s, v)' <=> i # 0 /\ Queued(i + 1, s, v)
    BY <1>12, DrainMoves, SubscribeMoves
  <2>2. Live /\ k = session BY <1>4, <2>1 DEF Live
  <2>3. LastWord(k, t, c) BY <1>4, <1>5, <2>1, <2>2
  <2>4. CASE DrainPublish BY <2>2, <2>3, <2>4, WordIsSent
  <2>5. CASE DrainSubscribe
    <3>1. UNCHANGED unread /\ \A s, v : ~Queued(1, s, v) BY <2>5, SubscribeMoves
    <3>2. \A i, s, u : Sent(k, i, s, u)' <=> Sent(k, i, s, u) BY <3>1, SentSame
    <3>3. QueueSays(t, c) => QueueSays(t, c)'
      <4>1. SUFFICES ASSUME QueueSays(t, c) PROVE QueueSays(t, c)' OBVIOUS
      <4>2. PICK i \in Nat : /\ Queued(i, t, c)
                             /\ \A j \in Nat, u \in Payloads : j > i => ~Queued(j, t, u)
        BY <4>1 DEF QueueSays
      <4>3. i # 1 BY <3>1, <4>2
      <4>4. QED BY <2>1, <4>2, <4>3, QueueShifts
    <3>4. QueueSilent(t) => QueueSilent(t)' BY <2>1, QueueShifts
    <3>5. QED BY <2>1, <2>3, <3>2, <3>3, <3>4 DEF LastWord, PipeSays, PipeSilent
  <2>6. QED BY <1>12, <2>4, <2>5
<1>13. QED BY <1>6, <1>7, <1>8, <1>9, <1>10, <1>11, <1>12, RuntimeKinds

-----------------------------------------------------------------------------
(***************************************************************************)
(* The invariant, and what follows from it.                                *)
(***************************************************************************)
RuntimeInv ==
    /\ LinkInv
    /\ RuntimeTypeOK /\ PhaseBooks
    /\ PipeBooks /\ ByeBooks /\ LeaveBooks
    /\ LastWordBooks /\ WillBooks /\ FarewellBooks
    /\ DescriptionBooks /\ TreeBooks

LEMMA RuntimeInvInitially == RuntimeInit => RuntimeInv
<1> SUFFICES ASSUME RuntimeInit PROVE RuntimeInv OBVIOUS
<1>1. LinkInv BY LinkInvInitially DEF RuntimeInit
<1>2. /\ phase = "new" /\ announced = FALSE /\ isRunning = FALSE /\ queue = <<>> /\ reading = 0
      /\ refused = {}
      /\ owner = "new" /\ sup = "none" /\ cur = 0 /\ ~reconnecting /\ ~cancelled /\ session = 0
      /\ failed = {} /\ orphans = {}
      /\ on = [c \in Tasks |-> 0]
      /\ conn = [k \in Clients |-> "none"]
      /\ unread = [k \in Clients |-> <<>>]
      /\ bye = [k \in Clients |-> "no"]
      /\ sock = [k \in Clients |-> "none"]
      /\ retained = [t \in Topics |-> Empty]
  BY DEF RuntimeInit, Init, BrokerInit
<1>3. /\ Drainer \in Tasks /\ WillTopic \in Topics /\ DescTopic \in Topics
      /\ 0 \in Readings /\ Len(queue) = 0 /\ 0 <= MaxPending
  BY <1>2, RuntimeAssumption, QueueAssumption DEF Readings
<1>4. RuntimeTypeOK
  <2>1. queue \in Seq(Items) BY <1>2
  <2>2. Len(queue) <= MaxPending /\ reading \in Readings /\ phase = "new"
        /\ announced \in BOOLEAN /\ isRunning \in BOOLEAN /\ refused \in SUBSET Topics
    BY <1>2, <1>3
  <2>3. QED BY <2>1, <2>2 DEF RuntimeTypeOK
<1>5. PhaseBooks BY <1>2, <1>3 DEF PhaseBooks
<1>6. PipeBooks /\ ByeBooks BY <1>2 DEF PipeBooks, ByeBooks
<1>7. LeaveBooks BY <1>2 DEF LeaveBooks
<1>8. /\ \A i, t, v : ~Queued(i, t, v)
      /\ \A k \in Clients : \A i, t, v : ~Sent(k, i, t, v)
      /\ retained[WillTopic] = Empty
  BY <1>2, <1>3 DEF Queued, Says, Sent
<1>9. ~QueuedReady /\ ~ReadyAbroad BY <1>8, WordsDiffer DEF QueuedReady, ReadyAbroad, SentReady
<1>10. WillBooks /\ FarewellBooks /\ TreeBooks
  BY <1>2, <1>9 DEF WillBooks, FarewellBooks, TreeBooks
<1>11. LastWordBooks BY <1>8, WordsDiffer DEF LastWordBooks
<1>12. DescriptionBooks
  BY <1>8, WordsDiffer DEF DescriptionBooks, ReadyIsDescribed, SentBooks, QueuedBooks
<1>13. QED BY <1>1, <1>4, <1>5, <1>6, <1>7, <1>10, <1>11, <1>12 DEF RuntimeInv

LEMMA RuntimeInvKept == ASSUME RuntimeInv, [RuntimeNext]_allVars PROVE RuntimeInv'
<1> USE DEF RuntimeInv
<1>1. LinkInv' BY RuntimeSteps, LinkInvKept
<1>2. RuntimeTypeOK' /\ PhaseBooks' BY RuntimeTyped, PhasesKept
<1>3. PipeBooks' /\ ByeBooks' BY PipesKept
<1>4. LeaveBooks' BY LeavesKept
<1>5. LastWordBooks' BY LastWordsKept
<1>6. WillBooks' BY WillsKept
<1>7. FarewellBooks' BY FarewellsKept
<1>8. DescriptionBooks' BY DescriptionsKept
<1>9. TreeBooks' BY TreesKept
<1>10. QED BY <1>1, <1>2, <1>3, <1>4, <1>5, <1>6, <1>7, <1>8, <1>9

\* Every connection, session, queued item and packet on its way is where the
\* panel's phase and its link's say it may be.
THEOREM PanelIsAccountedFor == RuntimeSpec => []RuntimeInv
BY RuntimeInvInitially, RuntimeInvKept, PTL DEF RuntimeSpec

\* stop_clone's promise, where the queue had room for the final state: when a
\* panel that ran has stopped and the broker has let go of its connections, it
\* is not left `ready' there.
THEOREM QueuedFarewellsAreHeard == RuntimeSpec => []QueuedFarewellIsHeard
<1>1. RuntimeInv => QueuedFarewellIsHeard
  <2>1. SUFFICES ASSUME RuntimeInv, WillTopic \notin refused,
                        phase = "stopped", announced, AllSettled
                 PROVE  retained[WillTopic] # Ready
    BY DEF QueuedFarewellIsHeard, StoppedPanelIsNotReady
  <2>2. queue = <<>> BY <2>1 DEF RuntimeInv, PhaseBooks
  <2>3. \A i : ~Queued(i, WillTopic, Final) BY <2>2 DEF Queued, Says
  <2>4. \A k \in Clients : ~Ending(k) BY <2>1 DEF AllSettled, Settled, Ending
  <2>5. ~ReadyAbroad BY <2>1, <2>3, <2>4 DEF RuntimeInv, FarewellBooks
  <2>6. QED BY <2>5 DEF ReadyAbroad
<1>2. QED BY PanelIsAccountedFor, <1>1, PTL

\* The emitter's order and the transport's FIFO reach the broker: whoever sees
\* the panel ready can read its description.
THEOREM ReadyPanelsAreDescribed == RuntimeSpec => []ReadyIsDescribed
<1>1. RuntimeInv => ReadyIsDescribed BY DEF RuntimeInv, DescriptionBooks
<1>2. QED BY PanelIsAccountedFor, <1>1, PTL

\* The reconnect hook's promise: whatever outages and failures dropped, a panel
\* whose link serves and whose queue has drained shows its current tree, but for
\* the topics whose last value the queue had no room for.
THEOREM LiveTreesAreCurrent == RuntimeSpec => []LiveTreeIsCurrent
<1>1. RuntimeInv => LiveTreeIsCurrent
  <2>1. SUFFICES ASSUME RuntimeInv, Undisturbed
                 PROVE  \A t \in Topics \ refused : retained[t] = TreeNow[t]
    BY DEF LiveTreeIsCurrent
  <2>2. LinkTypes /\ BrokerTypeOK BY <2>1, LinkTypesAre DEF RuntimeInv, LinkTypes
  <2>3. PICK s \in Clients : s = session
    BY <2>1, <2>2, BrokerAssumption DEF Undisturbed, LinkTypes
  <2>4. /\ phase = "running" /\ sup = "reading" /\ Live /\ queue = <<>> /\ on[Drainer] = 0
        /\ sock[s] = "open"
    BY <2>1, <2>3 DEF Undisturbed, Joined, Live
  <2>5. unread[s] = <<>>
    <3>1. bye[s] = "no" BY <2>1, <2>4 DEF RuntimeInv, ByeBooks
    <3>2. s \notin failed
      BY <2>1, <2>3, BrokerAssumption DEF RuntimeInv, LinkInv, SessionInv, FailedSessionEnds
    <3>3. QED
      BY <2>1, <2>4, <3>1, <3>2, BrokerAssumption DEF RuntimeInv, PipeBooks, Doomed
  <2>6. ASSUME NEW t \in Topics \ refused PROVE retained[t] = Current(t)
    <3>1. Current(t) \in Payloads
      BY <2>1, RuntimeAssumption DEF Current, RuntimeInv, RuntimeTypeOK
    <3>2. LastWord(s, t, Current(t)) BY <2>1, <2>3, <2>4, <3>1 DEF RuntimeInv, TreeBooks
    <3>3. ~QueueSays(t, Current(t)) BY <2>4 DEF QueueSays, Queued, Says
    <3>4. ~PipeSays(s, t, Current(t)) BY <2>5 DEF PipeSays, Sent
    <3>5. QED BY <3>2, <3>3, <3>4 DEF LastWord
  <2>7. \A t \in Topics : TreeNow[t] = Current(t)
    BY RuntimeAssumption DEF Current, TreeNow
  <2>8. QED BY <2>6, <2>7
<1>2. QED BY PanelIsAccountedFor, <1>1, PTL

\* The final state is the last word: no item queued before it, and no tree a
\* reconnect republishes, makes the panel ready again.
THEOREM FinalStateIsFinal == RuntimeSpec => NoReadyAfterFinal
<1> DEFINE Stays == retained[WillTopic] = Final => retained'[WillTopic] # Ready
<1>1. ASSUME RuntimeInv, [RuntimeNext]_allVars PROVE Stays
  <2>1. SUFFICES ASSUME retained[WillTopic] = Final PROVE retained'[WillTopic] # Ready
    OBVIOUS
  <2>2. LinkTypes /\ BrokerTypeOK BY <1>1, LinkTypesAre DEF RuntimeInv, LinkTypes
  <2>3. ~ReadyAbroad BY <1>1, <2>1, WordsDiffer DEF RuntimeInv, LastWordBooks, ReadyAbroad
  <2>4. CASE UNCHANGED retained BY <2>1, <2>4, WordsDiffer
  <2>5. CASE Network
    <3>1. ASSUME NEW k \in Clients, BrokerReads(k) PROVE retained'[WillTopic] # Ready
      <4>1. ~ReadyAbroad' BY <2>2, <2>3, <3>1, ReadKeepsAbroad
      <4>2. QED BY <4>1 DEF ReadyAbroad
    <3>2. ASSUME NEW k \in Clients, GoodbyeRead(k) PROVE UNCHANGED retained
      BY <3>2 DEF GoodbyeRead, BrokerReadsBye
    <3>3. CASE Cleared
      <4>1. ~ReadyAbroad' BY <2>2, <3>3, ClearedIsQuiet
      <4>2. QED BY <4>1 DEF ReadyAbroad
    <3>4. QED BY <1>1, <2>2, <2>4, <2>5, <3>1, <3>2, <3>3, NetworkKinds DEF RuntimeInv, Steady
  <2>6. CASE StartSucceeds \/ StartRaises BY <1>1, <2>4, <2>6, StartQueues DEF RuntimeInv
  <2>7. CASE DrainPublish \/ DrainSubscribe
    BY <1>1, <2>4, <2>7, DrainMoves, SubscribeMoves DEF RuntimeInv
  <2>8. CASE Tick \/ Stop \/ RepublishTree
    BY <2>4, <2>8 DEF Tick, Stop, RepublishTree, RunHook, vars, brokerVars
  <2>9. CASE Quiet BY <2>4, <2>9 DEF Quiet
  <2>10. QED BY <1>1, <2>5, <2>6, <2>7, <2>8, <2>9, RuntimeKinds DEF RuntimeInv
<1>2. RuntimeInv /\ [RuntimeNext]_allVars => [Stays]_allVars BY <1>1
<1>3. QED BY PanelIsAccountedFor, <1>2, PTL DEF RuntimeSpec, NoReadyAfterFinal

\* The link inside a panel keeps its promise too: whatever the panel queues,
\* republishes and stops, each of its steps is one the link allows.
THEOREM PanelLinkKeepsPromise == RuntimeSpec => LinkPromised
<1>1. RuntimeInit => Promise!Init /\ FreshClients
  BY BrokerAssumption, LinkAssumption
     DEF RuntimeInit, Init, Promise!Init, FreshClients, Tasks
<1>2. ASSUME RuntimeInv, FreshClients, [RuntimeNext]_allVars
      PROVE  FreshClients' /\ [Promise!Next]_Promise!vars
  <2>1. [Next]_vars BY <1>2, RuntimeSteps DEF RuntimeInv
  <2>2. QED BY <1>2, <2>1, FreshClientsKept, LinkStepIsPromised DEF RuntimeInv
<1>3. RuntimeSpec => []FreshClients
  BY <1>1, <1>2, PanelIsAccountedFor, PTL DEF RuntimeSpec
<1>4. QED
  BY <1>1, <1>2, <1>3, PanelIsAccountedFor, PTL DEF RuntimeSpec, LinkPromised, Promise!Spec

=============================================================================
