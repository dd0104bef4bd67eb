----------------------------- MODULE MqttBroker -----------------------------
(***************************************************************************)
(* The MQTT broker and the TCP connections to it, as broker_link.py and    *)
(* its tests use them.  Neither the broker nor aiomqtt/paho is part of the *)
(* repository, so every definition here is external: it says what the link *)
(* relies on.                                                              *)
(*                                                                         *)
(* A connection is numbered by the aiomqtt.Client that dialled it.  Bytes  *)
(* on one connection are read in order: CONNECT, then the publishes in     *)
(* `unread', then the goodbye.  A broker that is frozen simply takes no    *)
(* step for as long as it is.  Retained topics survive a connection; a     *)
(* broker restart empties them, as the integration tests' broker does.     *)
(***************************************************************************)
EXTENDS Naturals, Sequences

CONSTANTS
    MaxClients,   \* bound: how many clients a behaviour may dial
    Callers,      \* the tasks that publish and subscribe through the link
    Topics,       \* retained topics
    Values,       \* payloads a caller publishes
    WillTopic,    \* the topic of the panel's will, its root $state
    Lost,         \* the will's payload
    Empty         \* an absent retained topic; published, it clears the topic

ASSUME BrokerAssumption ==
    /\ MaxClients \in Nat \ {0}
    /\ WillTopic \in Topics
    /\ Lost \notin Values
    /\ Empty \notin Values \union {Lost}

Clients == 1..MaxClients

Payloads == Values \union {Empty}

Packets == [by: Callers, topic: Topics, value: Payloads]

VARIABLES
    conn,       \* broker's view: "none", "dialled" (CONNECT unread), "held", "gone"
    unread,     \* publishes on the connection the broker has not read
    bye,        \* goodbye on the connection: "no", "DISCONNECT" or "FIN"
    sock,       \* client's view: "none", "open", "dead" (EOF seen), "closed" (left)
    retained    \* the broker's retained topics

brokerVars == <<conn, unread, bye, sock, retained>>

BrokerTypeOK ==
    /\ conn \in [Clients -> {"none", "dialled", "held", "gone"}]
    /\ unread \in [Clients -> Seq(Packets)]
    /\ bye \in [Clients -> {"no", "DISCONNECT", "FIN"}]
    /\ sock \in [Clients -> {"none", "open", "dead", "closed"}]
    /\ retained \in [Topics -> Values \union {Lost, Empty}]

BrokerInit ==
    /\ conn = [k \in Clients |-> "none"]
    /\ unread = [k \in Clients |-> <<>>]
    /\ bye = [k \in Clients |-> "no"]
    /\ sock = [k \in Clients |-> "none"]
    /\ retained = [t \in Topics |-> Empty]

(***************************************************************************)
(* What a client does to its connection.                                   *)
(***************************************************************************)
Dial(k) ==
    /\ conn' = [conn EXCEPT ![k] = "dialled"]
    /\ sock' = [sock EXCEPT ![k] = "open"]
    /\ UNCHANGED <<unread, bye, retained>>

\* Leave k's connection.  Nothing more is sent on a socket already dead.
Leave(k, goodbye) ==
    /\ bye' = IF sock[k] = "open" THEN [bye EXCEPT ![k] = goodbye] ELSE bye
    /\ sock' = [sock EXCEPT ![k] = "closed"]
    /\ UNCHANGED <<conn, unread, retained>>

\* What is written to a connection the broker has closed goes nowhere.
Send(k, packet) ==
    /\ unread' = IF conn[k] = "gone" THEN unread
                 ELSE [unread EXCEPT ![k] = Append(@, packet)]
    /\ UNCHANGED <<conn, bye, sock, retained>>

\* Everything c sent on k has been read, so it has been acknowledged.
Acknowledged(c, k) ==
    /\ conn[k] = "held"
    /\ \A i \in DOMAIN unread[k] : unread[k][i].by # c

-----------------------------------------------------------------------------
WillPublished == [retained EXCEPT ![WillTopic] = Lost]

\* The client ids are the same, so a connection the broker accepts takes over
\* the one it holds: the old one is closed and its will published.
BrokerAccepts(k) ==
    /\ conn[k] = "dialled"
    /\ conn' = [j \in Clients |-> IF j = k THEN "held"
                                  ELSE IF conn[j] = "held" THEN "gone" ELSE conn[j]]
    /\ sock' = [j \in Clients |-> IF j # k /\ conn[j] = "held" /\ sock[j] = "open"
                                  THEN "dead" ELSE sock[j]]
    /\ unread' = [j \in Clients |-> IF j # k /\ conn[j] = "held" THEN <<>> ELSE unread[j]]
    /\ retained' = IF \E j \in Clients : conn[j] = "held" THEN WillPublished ELSE retained
    /\ UNCHANGED bye

BrokerReads(k) ==
    /\ conn[k] = "held"
    /\ unread[k] # <<>>
    /\ unread' = [unread EXCEPT ![k] = Tail(@)]
    /\ retained' = [retained EXCEPT ![Head(unread[k]).topic] = Head(unread[k]).value]
    /\ UNCHANGED <<conn, bye, sock>>

\* A DISCONNECT discards the will; a socket that only closes publishes it.
BrokerReadsBye(k) ==
    /\ conn[k] = "held"
    /\ unread[k] = <<>>
    /\ bye[k] # "no"
    /\ conn' = [conn EXCEPT ![k] = "gone"]
    /\ retained' = IF bye[k] = "FIN" THEN WillPublished ELSE retained
    /\ UNCHANGED <<unread, bye, sock>>

BrokerTakes(k) == BrokerAccepts(k) \/ BrokerReads(k) \/ BrokerReadsBye(k)

-----------------------------------------------------------------------------
(***************************************************************************)
(* Faults.  The last client dialled is spared them, so that a behaviour    *)
(* cannot use up its clients: `Faulty' is that bound.                      *)
(***************************************************************************)
Faulty(k) == k < MaxClients

\* The CONNECT is refused, or nothing is listening.
ConnectRefused(k) ==
    /\ Faulty(k)
    /\ conn[k] = "dialled"
    /\ conn' = [conn EXCEPT ![k] = "gone"]
    /\ sock' = [sock EXCEPT ![k] = IF @ = "open" THEN "dead" ELSE @]
    /\ UNCHANGED <<unread, bye, retained>>

\* The broker gives up on a connection it holds and publishes the will.  The
\* client sees the EOF, or, where the path is lost, sees nothing.
ConnectionCut(k) ==
    /\ Faulty(k)
    /\ conn[k] = "held"
    /\ conn' = [conn EXCEPT ![k] = "gone"]
    /\ unread' = [unread EXCEPT ![k] = <<>>]
    /\ retained' = WillPublished
    /\ \/ sock' = [sock EXCEPT ![k] = IF @ = "open" THEN "dead" ELSE @]
       \/ UNCHANGED sock
    /\ UNCHANGED bye

\* The client's side goes first: the broker reads the end of the stream later.
SocketDies(k) ==
    /\ Faulty(k)
    /\ sock[k] = "open"
    /\ sock' = [sock EXCEPT ![k] = "dead"]
    /\ bye' = [bye EXCEPT ![k] = "FIN"]
    /\ UNCHANGED <<conn, unread, retained>>

\* The broker restarts without persistence: no session, no will, nothing retained.
BrokerRestarts ==
    /\ \E k \in Clients : conn[k] = "held"
    /\ \A k \in Clients : conn[k] \in {"dialled", "held"} => Faulty(k)
    /\ conn' = [k \in Clients |-> IF conn[k] \in {"dialled", "held"} THEN "gone" ELSE conn[k]]
    /\ sock' = [k \in Clients |-> IF conn[k] \in {"dialled", "held"} /\ sock[k] = "open"
                                  THEN "dead" ELSE sock[k]]
    /\ unread' = [k \in Clients |-> <<>>]
    /\ retained' = [t \in Topics |-> Empty]
    /\ UNCHANGED bye

Broker == \E k \in Clients : BrokerTakes(k)

Faults ==
    \/ \E k \in Clients : ConnectRefused(k) \/ ConnectionCut(k) \/ SocketDies(k)
    \/ BrokerRestarts
=============================================================================
