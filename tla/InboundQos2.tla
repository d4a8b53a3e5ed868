---------------------------- MODULE InboundQos2 ----------------------------
(***************************************************************************)
(* QoS 2 publishing from one client to the broker: handle_publish() and    *)
(* handle_pubrel() of broker/broker.hpp with the session's table of the    *)
(* packet ids between PUBLISH and PUBREL (broker/session.hpp).             *)
(*                                                                         *)
(* The table survives the connection, is bounded, and forgets its oldest   *)
(* id when a client leaves more flows open than it holds.  The client is a *)
(* conforming one, with a window of its own, and not part of the           *)
(* repository; its actions are external.                                   *)
(***************************************************************************)
EXTENDS Integers, Sequences, FiniteSets

CONSTANTS
    MaxInbound,    \* the largest table
    MaxWindow,     \* the widest window a client may have
    PublisherIds,  \* packet ids the client uses
    MaxMessages,   \* bound: messages published in a behaviour
    MaxLosses      \* bound: connections lost in a behaviour

ASSUME InboundAssumption ==
    /\ MaxInbound \in Nat \ {0}
    /\ MaxWindow \in Nat \ {0}
    /\ MaxMessages \in Nat
    /\ MaxLosses \in Nat

Messages == 1..MaxMessages
NoMessage == 0

VARIABLES
    inbound,      \* Session::inbound_qos2
    online,       \* whether the session has a connection
    toBroker,     \* packets from the client
    toClient,     \* packets to the client
    capacity,     \* Traits::max_inbound_qos2
    window,       \* client: flows it keeps open at a time
    flights,      \* client: its open flows, oldest first
    published,    \* history: number of messages published
    routed,       \* history: how often each message was routed
    completed,    \* history: messages whose flow the client has completed
    forgotten,    \* history: messages whose id the table gave up
    losses        \* history: number of connections lost

vars == <<inbound, online, toBroker, toClient, capacity, window, flights, published,
          routed, completed, forgotten, losses>>
sizes == <<capacity, window>>

----------------------------------------------------------------------------
(* State.                                                                  *)

Packet == [type : {"publish", "pubrel", "pubrec", "pubcomp"}, id : PublisherIds,
           msg : Messages \cup {NoMessage}]

Pkt(t, id) == [type |-> t, id |-> id, msg |-> NoMessage]

Flight == [id : PublisherIds, msg : Messages, released : BOOLEAN]

Init ==
    /\ inbound = <<>>
    /\ online = TRUE
    /\ toBroker = <<>>
    /\ toClient = <<>>
    /\ capacity \in 1..MaxInbound
    /\ window \in 1..MaxWindow
    /\ flights = <<>>
    /\ published = 0
    /\ routed = [m \in Messages |-> 0]
    /\ completed = {}
    /\ forgotten = {}
    /\ losses = 0

\* has_inbound_qos2()
Tracked(id) == \E k \in DOMAIN inbound : inbound[k] = id

\* StaticVector::remove_ordered(): the tail moves up.
Without(s, k) == [j \in 1..(Len(s) - 1) |-> IF j < k THEN s[j] ELSE s[j + 1]]

\* remove_inbound_qos2(): ids are in the table once.
Untracked(id) ==
    IF Tracked(id) THEN Without(inbound, CHOOSE k \in DOMAIN inbound : inbound[k] = id)
    ELSE inbound

Full == Len(inbound) = capacity

\* Mutant: the newest id makes room.
TableEvictNewest(id) ==
    Append(IF Full THEN SubSeq(inbound, 1, Len(inbound) - 1) ELSE inbound, id)

\* The table with a new id in it: the oldest one makes room.
Table(id) == Append(IF Full THEN Tail(inbound) ELSE inbound, id)

----------------------------------------------------------------------------
(* The broker.                                                             *)

Arrived(t) == online /\ toBroker # <<>> /\ Head(toBroker).type = t

\* send_to(): a ring that refuses the answer costs the client its
\* connection, and what else it sent is not read any more.
Answers(p) ==
    \/ /\ toClient' = Append(toClient, p)
       /\ toBroker' = Tail(toBroker)
       /\ UNCHANGED <<online, losses>>
    \/ /\ losses < MaxLosses
       /\ losses' = losses + 1
       /\ online' = FALSE
       /\ toBroker' = <<>>
       /\ UNCHANGED toClient

\* Mutant: the id is entered before it is looked up.
HandlePublishEntered ==
    LET p == Head(toBroker) IN
    /\ Arrived("publish")
    /\ inbound' = IF Tracked(p.id) THEN inbound ELSE Table(p.id)
    /\ Answers(Pkt("pubrec", p.id))
    /\ UNCHANGED <<sizes, flights, published, routed, completed, forgotten>>

\* handle_publish() at QoS 2: an id in the table marks a message that has
\* been routed already.  A PUBLISH the client is not authorized for counts
\* as routed, to nobody.
HandlePublish ==
    LET p == Head(toBroker)
        first == ~Tracked(p.id)
    IN
    /\ Arrived("publish")
    /\ routed' = [routed EXCEPT ![p.msg] = IF first THEN @ + 1 ELSE @]
    /\ inbound' = IF first THEN Table(p.id) ELSE inbound
    /\ forgotten' = IF first /\ Full
                    THEN forgotten \cup {flights[k].msg : k \in
                            {j \in DOMAIN flights : flights[j].id = Head(inbound)}}
                    ELSE forgotten
    /\ Answers(Pkt("pubrec", p.id))
    /\ UNCHANGED <<sizes, flights, published, completed>>

\* Mutant: the id stays in the table.
HandlePubrelKeeps ==
    /\ Arrived("pubrel")
    /\ Answers(Pkt("pubcomp", Head(toBroker).id))
    /\ UNCHANGED <<inbound, sizes, flights, published, routed, completed, forgotten>>

\* Mutant: an id that is not in the table gets no answer.
HandlePubrelSilent ==
    LET id == Head(toBroker).id IN
    /\ Arrived("pubrel")
    /\ inbound' = Untracked(id)
    /\ IF Tracked(id)
       THEN Answers(Pkt("pubcomp", id))
       ELSE toBroker' = Tail(toBroker) /\ UNCHANGED <<toClient, online, losses>>
    /\ UNCHANGED <<sizes, flights, published, routed, completed, forgotten>>

\* handle_pubrel(): PUBCOMP is the answer, known id or not.
HandlePubrel ==
    LET id == Head(toBroker).id IN
    /\ Arrived("pubrel")
    /\ inbound' = Untracked(id)
    /\ Answers(Pkt("pubcomp", id))
    /\ UNCHANGED <<sizes, flights, published, routed, completed, forgotten>>

\* The connection is lost with everything under way in either direction.
ConnLost ==
    /\ online
    /\ losses < MaxLosses
    /\ losses' = losses + 1
    /\ online' = FALSE
    /\ toBroker' = <<>>
    /\ toClient' = <<>>
    /\ UNCHANGED <<inbound, sizes, flights, published, routed, completed, forgotten>>

----------------------------------------------------------------------------
(* The client.                                                             *)

OpenIds == {flights[k].id : k \in DOMAIN flights}

FlightOf(id) == CHOOSE k \in DOMAIN flights : flights[k].id = id

Publish(id) ==
    /\ online
    /\ published < MaxMessages
    /\ id \notin OpenIds
    /\ Len(flights) < window
    /\ published' = published + 1
    /\ flights' = Append(flights, [id |-> id, msg |-> published', released |-> FALSE])
    /\ toBroker' = Append(toBroker, [type |-> "publish", id |-> id, msg |-> published'])
    /\ UNCHANGED <<inbound, online, toClient, sizes, routed, completed, forgotten,
                   losses>>

\* PUBREC releases the message, PUBCOMP ends the flow.
ClientReceives ==
    LET p == Head(toClient) IN
    /\ toClient # <<>>
    /\ toClient' = Tail(toClient)
    /\ \/ /\ p.type = "pubrec"
          /\ flights' = [k \in DOMAIN flights |->
                            IF flights[k].id = p.id
                            THEN [flights[k] EXCEPT !.released = TRUE] ELSE flights[k]]
          /\ toBroker' = IF online THEN Append(toBroker, Pkt("pubrel", p.id)) ELSE toBroker
          /\ UNCHANGED completed
       \/ /\ p.type = "pubcomp"
          /\ flights' = IF p.id \in OpenIds THEN Without(flights, FlightOf(p.id))
                        ELSE flights
          /\ completed' = completed \cup
                {flights[k].msg : k \in {j \in DOMAIN flights : flights[j].id = p.id}}
          /\ UNCHANGED toBroker
    /\ UNCHANGED <<inbound, online, sizes, published, routed, forgotten, losses>>

\* The client comes back and takes up every open flow where it was.
Reconnect ==
    /\ ~online
    /\ online' = TRUE
    /\ toClient' = <<>>
    /\ toBroker' = [k \in DOMAIN flights |->
            IF flights[k].released THEN Pkt("pubrel", flights[k].id)
            ELSE [type |-> "publish", id |-> flights[k].id, msg |-> flights[k].msg]]
    /\ UNCHANGED <<inbound, sizes, flights, published, routed, completed, forgotten,
                   losses>>

----------------------------------------------------------------------------
(* Specification.                                                          *)

Next ==
    \/ HandlePublish
    \/ HandlePubrel
    \/ ConnLost
    \/ \E id \in PublisherIds : Publish(id)
    \/ ClientReceives
    \/ Reconnect

Spec == Init /\ [][Next]_vars

----------------------------------------------------------------------------
(* Properties.                                                             *)

\* Every variable has its type.
TypeOK ==
    /\ inbound \in Seq(PublisherIds) /\ Len(inbound) <= capacity
    /\ capacity \in 1..MaxInbound
    /\ online \in BOOLEAN
    /\ toBroker \in Seq(Packet)
    /\ toClient \in Seq(Packet)
    /\ flights \in Seq(Flight) /\ Len(flights) <= window
    /\ window \in 1..MaxWindow
    /\ published \in 0..MaxMessages
    /\ routed \in [Messages -> Nat]
    /\ completed \subseteq Messages
    /\ forgotten \subseteq Messages
    /\ losses \in 0..MaxLosses

\* The state has its type, and the table holds ids of open flows only, each
\* once.  An id left behind would swallow the next message published under it.
TrackedOpen ==
    /\ TypeOK
    /\ \A k \in DOMAIN inbound : inbound[k] \in OpenIds
    /\ \A j, k \in DOMAIN inbound : inbound[j] = inbound[k] => j = k

\* A message whose flow is completed has been routed, and one is routed again
\* only if the table had to forget its id, which it never does while the client
\* keeps to the table's size.
RoutedOnce ==
    /\ \A m \in completed : routed[m] >= 1
    /\ \A m \in Messages : routed[m] > 1 => m \in forgotten
    /\ window <= capacity => forgotten = {}

====
