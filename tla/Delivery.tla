------------------------------ MODULE Delivery ------------------------------
(***************************************************************************)
(* QoS 1 and QoS 2 delivery from the broker to one persistent session      *)
(* (broker/session.hpp and enqueue(), pump_session(), resume_session() and *)
(* the acknowledgement handlers of broker/broker.hpp).                     *)
(*                                                                         *)
(* The session's queue outlives its connections.  A connection can be lost *)
(* at any moment with packets of both directions under way, and its output *)
(* ring can refuse a packet: a burst the broker sends on its own then      *)
(* pauses, an answer to the peer costs the peer its connection.            *)
(*                                                                         *)
(* The two send loops go entry by entry, so that the peer may read while   *)
(* they run.  The peer is a conforming MQTT client and not part of the     *)
(* repository; its actions are external.                                   *)
(***************************************************************************)
EXTENDS Integers, Sequences, FiniteSets

CONSTANTS
    MaxPending,   \* Traits::max_pending_per_session
    MaxId,        \* largest packet id (65535 in the code)
    RingSize,     \* what the output ring and the socket behind it hold
    PublishSize,  \* what a PUBLISH takes of it; any other packet takes 1
    QoSs,         \* the qualities of service messages are published with
    MaxMessages,  \* bound: messages published in a behaviour
    MaxLosses     \* bound: connections lost or taken over in a behaviour

\* alloc_packet_id() needs an id that no entry of the queue has, and
\* Broker::out_size asserts that the ring holds at least one packet.
ASSUME DeliveryAssumption ==
    /\ MaxPending \in Nat \ {0}
    /\ MaxId \in Nat /\ MaxId > MaxPending
    /\ PublishSize \in Nat \ {0}
    /\ RingSize \in Nat /\ RingSize >= PublishSize
    /\ QoSs \subseteq {1, 2}
    /\ MaxMessages \in Nat
    /\ MaxLosses \in Nat

Messages == 1..MaxMessages
Ids == 1..MaxId
NoId == 0
NoMessage == 0

VARIABLES
    pending,      \* Session::pending
    lastId,       \* Session::last_packet_id
    online,       \* whether the session has a connection
    pc,           \* the loop that is running
    i,            \* its index
    toClient,     \* the output ring and the socket: packets to the client
    toBroker,     \* packets from the client
    received,     \* client: QoS 2 ids between PUBLISH and PUBREL
    seen,         \* client: the messages in the order of first delivery
    twice,        \* client: the messages delivered more than once
    published,    \* history: number of messages published
    qosOf,        \* history: the QoS each was published with
    dropped,      \* history: messages that found the queue full
    sent,         \* history: messages that were put on the wire
    losses        \* history: number of connections lost so far

vars == <<pending, lastId, online, pc, i, toClient, toBroker, received, seen,
          twice, published, qosOf, dropped, sent, losses>>
queue == <<pending, lastId>>
loop == <<pc, i>>
client == <<received, seen, twice>>
history == <<published, qosOf, dropped, sent, losses>>

----------------------------------------------------------------------------
(* State.                                                                  *)

OutStates == {"queued", "awaiting_puback", "awaiting_pubrec", "awaiting_pubcomp"}

OutMsg == [msg : Messages, id : Ids \cup {NoId}, qos : QoSs, state : OutStates,
           dup : BOOLEAN, resend : BOOLEAN]

ControlTypes == {"connack", "puback", "pubrec", "pubrel", "pubcomp"}

Packet ==
    [type : {"publish"}, id : Ids, msg : Messages, qos : QoSs, dup : BOOLEAN]
    \cup [type : ControlTypes, id : Ids \cup {NoId}, msg : {NoMessage}, qos : {0},
          dup : {FALSE}]

Control(t, id) ==
    [type |-> t, id |-> id, msg |-> NoMessage, qos |-> 0, dup |-> FALSE]

\* Mutant: retransmissions look like the first one.
PublishPacketNoDup(m, id, dup) ==
    [type |-> "publish", id |-> id, msg |-> m.msg, qos |-> m.qos, dup |-> FALSE]

PublishPacket(m, id, dup) ==
    [type |-> "publish", id |-> id, msg |-> m.msg, qos |-> m.qos, dup |-> dup]

Init ==
    /\ pending = <<>>
    /\ lastId = 0
    /\ online = TRUE
    /\ pc = "idle"
    /\ i = 1
    /\ toClient = <<>>
    /\ toBroker = <<>>
    /\ received = {}
    /\ seen = <<>>
    /\ twice = {}
    /\ published = 0
    /\ qosOf = [m \in Messages |-> 0]
    /\ dropped = {}
    /\ sent = {}
    /\ losses = 0

\* What the packets on their way to the client take of the ring.
Used == LET publishes == {k \in DOMAIN toClient : toClient[k].type = "publish"}
        IN Len(toClient) + Cardinality(publishes) * (PublishSize - 1)

\* Transport::send() takes a packet whole or refuses it.
Fits(p) == Used + (IF p.type = "publish" THEN PublishSize ELSE 1) <= RingSize

\* Mutant: the last entry moves into the gap, as in remove_unordered().
WithoutOrder(k) ==
    [j \in 1..(Len(pending) - 1) |-> IF j = k THEN pending[Len(pending)] ELSE pending[j]]

\* StaticVector::remove_ordered(): the tail moves up.
Without(k) ==
    [j \in 1..(Len(pending) - 1) |-> IF j < k THEN pending[j] ELSE pending[j + 1]]

InFlight == {k \in DOMAIN pending : pending[k].state # "queued"}

Unused == {id \in Ids : \A k \in InFlight : pending[k].id # id}
Ahead(id) == (id - lastId - 1 + MaxId) % MaxId

\* Mutant: ids in use are not skipped.
NextIdInUse == (lastId % MaxId) + 1

\* alloc_packet_id() counts on, past 0, until no entry in flight has the id.
NextId == CHOOSE id \in Unused : \A other \in Unused : Ahead(id) <= Ahead(other)

----------------------------------------------------------------------------
(* Publishing.                                                             *)

\* route_publish() finds the session subscribed, at an effective QoS of q;
\* enqueue() drops the message when the payload is too large or the queue
\* full, and starts the send loop when the client is online.
Enqueue(q, oversize) ==
    LET m == published + 1
        drops == oversize \/ Len(pending) = MaxPending
    IN
    /\ pc = "idle"
    /\ published < MaxMessages
    /\ published' = m
    /\ qosOf' = [qosOf EXCEPT ![m] = q]
    /\ IF drops
       THEN /\ dropped' = dropped \cup {m}
            /\ UNCHANGED <<pending, pc, i>>
       ELSE /\ pending' = Append(pending,
                    [msg |-> m, id |-> NoId, qos |-> q, state |-> "queued",
                     dup |-> FALSE, resend |-> FALSE])
            /\ pc' = IF online THEN "pump" ELSE "idle"
            /\ i' = 1
            /\ UNCHANGED dropped
    /\ UNCHANGED <<lastId, online, toClient, toBroker, client, sent, losses>>

\* Mutant: tick() leaves the queues alone.
TickWithoutPump ==
    /\ pc = "idle"
    /\ online
    /\ UNCHANGED vars

\* tick() flushes what the ring refused earlier.
Tick ==
    /\ pc = "idle"
    /\ online
    /\ pc' = "pump"
    /\ i' = 1
    /\ UNCHANGED <<queue, online, toClient, toBroker, client, history>>

----------------------------------------------------------------------------
(* The send loops.                                                         *)

Send(p) == toClient' = Append(toClient, p)
Continue == i' = i + 1 /\ UNCHANGED pc
Return == pc' = "idle" /\ i' = 1

\* The entry once its message is away.
Away(m, id) ==
    [m EXCEPT !.id = id,
              !.state = IF m.qos = 1 THEN "awaiting_puback" ELSE "awaiting_pubrec"]

\* The entry at i is not for this loop.
Skip ==
    /\ Continue
    /\ UNCHANGED <<queue, toClient, sent>>

\* A refused PUBREL stays flagged, and the loop stops.
SendPubrel ==
    LET p == Control("pubrel", pending[i].id) IN
    /\ IF Fits(p)
       THEN /\ Send(p)
            /\ pending' = [pending EXCEPT ![i] = [@ EXCEPT !.resend = FALSE]]
            /\ Continue
       ELSE /\ pending' = [pending EXCEPT ![i] = [@ EXCEPT !.resend = TRUE]]
            /\ Return
            /\ UNCHANGED toClient
    /\ UNCHANGED <<lastId, sent>>

\* Mutant: the loop goes on after a refusal.
SendFirstGoOn ==
    LET p == PublishPacket(pending[i], NextId, pending[i].dup) IN
    /\ lastId' = NextId
    /\ Continue
    /\ IF Fits(p)
       THEN /\ Send(p)
            /\ pending' = [pending EXCEPT ![i] = Away(pending[i], NextId)]
            /\ sent' = sent \cup {pending[i].msg}
       ELSE UNCHANGED <<pending, toClient, sent>>

\* Mutant: a refused message is dropped, like one that cannot be built.
SendFirstDrop ==
    LET p == PublishPacket(pending[i], NextId, pending[i].dup) IN
    /\ lastId' = NextId
    /\ IF Fits(p)
       THEN /\ Send(p)
            /\ pending' = [pending EXCEPT ![i] = Away(pending[i], NextId)]
            /\ sent' = sent \cup {pending[i].msg}
            /\ Continue
       ELSE /\ pending' = Without(i)
            /\ UNCHANGED <<loop, toClient, sent>>

\* A first PUBLISH takes a new id, even when the ring then refuses it.
SendFirst ==
    LET p == PublishPacket(pending[i], NextId, pending[i].dup) IN
    /\ lastId' = NextId
    /\ IF Fits(p)
       THEN /\ Send(p)
            /\ pending' = [pending EXCEPT ![i] = Away(pending[i], NextId)]
            /\ sent' = sent \cup {pending[i].msg}
            /\ Continue
       ELSE /\ Return
            /\ UNCHANGED <<pending, toClient, sent>>

\* Mutant: a retransmission takes a new id.
SendAgainNewId ==
    LET p == PublishPacket(pending[i], NextId, TRUE) IN
    /\ IF Fits(p)
       THEN /\ Send(p)
            /\ pending' = [pending EXCEPT ![i] = [@ EXCEPT !.dup = TRUE, !.id = NextId]]
            /\ Continue
       ELSE /\ Return
            /\ UNCHANGED <<pending, toClient>>
    /\ lastId' = NextId
    /\ UNCHANGED sent

\* A retransmission has the id of the first one and says so.
SendAgain ==
    LET p == PublishPacket(pending[i], pending[i].id, TRUE) IN
    /\ IF Fits(p)
       THEN /\ Send(p)
            /\ pending' = [pending EXCEPT ![i] = [@ EXCEPT !.dup = TRUE]]
            /\ Continue
       ELSE /\ Return
            /\ UNCHANGED <<pending, toClient>>
    /\ UNCHANGED <<lastId, sent>>

Looping(place) == pc = place /\ i <= Len(pending)

\* One turn of pump_session(): entries not sent yet and refused PUBRELs.
PumpSession ==
    /\ Looping("pump")
    /\ CASE pending[i].state = "awaiting_pubcomp" /\ pending[i].resend -> SendPubrel
         [] pending[i].state = "queued" -> SendFirst
         [] OTHER -> Skip
    /\ UNCHANGED <<online, toBroker, client, published, qosOf, dropped, losses>>

\* One turn of resume_session(): every entry.
ResumeSession ==
    /\ Looping("resume")
    /\ CASE pending[i].state = "awaiting_pubcomp" -> SendPubrel
         [] pending[i].state = "queued" -> SendFirst
         [] OTHER -> SendAgain
    /\ UNCHANGED <<online, toBroker, client, published, qosOf, dropped, losses>>

LoopEnd ==
    /\ pc # "idle"
    /\ i > Len(pending)
    /\ Return
    /\ UNCHANGED <<queue, online, toClient, toBroker, client, history>>

----------------------------------------------------------------------------
(* Acknowledgements.                                                       *)

Arrived(t) == pc = "idle" /\ online /\ toBroker # <<>> /\ Head(toBroker).type = t

\* find_pending(): the entries with the id of the packet in one of states.
Found(states) ==
    {k \in DOMAIN pending : /\ pending[k].id = Head(toBroker).id
                            /\ pending[k].state \in states}

First(K) == CHOOSE k \in K : \A j \in K : k <= j

\* handle_puback() and handle_pubcomp(): the delivery is complete.  An
\* unknown id is ignored.
Completes(t, state) ==
    LET found == Found({state}) IN
    /\ Arrived(t)
    /\ pending' = IF found = {} THEN pending ELSE Without(First(found))
    /\ toBroker' = Tail(toBroker)
    /\ UNCHANGED <<lastId, online, loop, toClient, client, history>>

HandlePuback == Completes("puback", "awaiting_puback")
HandlePubcomp == Completes("pubcomp", "awaiting_pubcomp")

\* handle_pubrec(): PUBREL is the answer, and a ring that refuses it costs
\* the client its connection, which is torn down when the call ends.
HandlePubrec ==
    LET found == Found({"awaiting_pubrec", "awaiting_pubcomp"})
        p == Control("pubrel", Head(toBroker).id)
    IN
    /\ Arrived("pubrec")
    /\ IF found = {}
       THEN /\ toBroker' = Tail(toBroker)
            /\ UNCHANGED <<pending, online, toClient>>
       ELSE /\ pending' = [pending EXCEPT ![First(found)] =
                                [@ EXCEPT !.state = "awaiting_pubcomp"]]
            /\ IF Fits(p)
               THEN Send(p) /\ toBroker' = Tail(toBroker) /\ UNCHANGED online
               ELSE online' = FALSE /\ toBroker' = <<>> /\ UNCHANGED toClient
    /\ UNCHANGED <<lastId, loop, client, history>>

----------------------------------------------------------------------------
(* Connections.  What the client had not sent or the broker not read is    *)
(* gone; what is in the socket the client may still read.                  *)

\* conn_closed(), or a timeout.
ConnLost ==
    /\ pc = "idle"
    /\ online
    /\ losses < MaxLosses
    /\ losses' = losses + 1
    /\ online' = FALSE
    /\ toBroker' = <<>>
    /\ UNCHANGED <<queue, loop, toClient, client, published, qosOf, dropped, sent>>

\* Mutant: a resumed session gets its unsent messages only.
ReconnectPumps ==
    /\ pc = "idle"
    /\ online => losses < MaxLosses
    /\ losses' = IF online THEN losses + 1 ELSE losses
    /\ online' = TRUE
    /\ toClient' = <<Control("connack", NoId)>>
    /\ toBroker' = <<>>
    /\ pc' = "pump"
    /\ i' = 1
    /\ UNCHANGED <<queue, client, published, qosOf, dropped, sent>>

\* CONNECT of the session's client, which takes the session over when the
\* broker has not missed the old connection yet.  CONNACK is the first packet
\* on the new ring, and resume_session() follows it.
Reconnect ==
    /\ pc = "idle"
    /\ online => losses < MaxLosses
    /\ losses' = IF online THEN losses + 1 ELSE losses
    /\ online' = TRUE
    /\ toClient' = <<Control("connack", NoId)>>
    /\ toBroker' = <<>>
    /\ pc' = "resume"
    /\ i' = 1
    /\ UNCHANGED <<queue, client, published, qosOf, dropped, sent>>

----------------------------------------------------------------------------
(* The client.                                                             *)

\* The application gets the message.
Deliver(m) ==
    LET again == \E k \in DOMAIN seen : seen[k] = m IN
    /\ seen' = IF again THEN seen ELSE Append(seen, m)
    /\ twice' = IF again THEN twice \cup {m} ELSE twice

\* An answer reaches the broker only on a connection that still exists.
Answer(t, id) ==
    toBroker' = IF online THEN Append(toBroker, Control(t, id)) ELSE toBroker

ClientReceives ==
    LET p == Head(toClient) IN
    /\ toClient # <<>>
    /\ toClient' = Tail(toClient)
    /\ \/ /\ p.type = "connack"
          /\ UNCHANGED <<client, toBroker>>
       \/ /\ p.type = "publish" /\ p.qos = 1
          /\ Deliver(p.msg)
          /\ Answer("puback", p.id)
          /\ UNCHANGED received
       \/ /\ p.type = "publish" /\ p.qos = 2
          /\ IF p.id \in received THEN UNCHANGED <<seen, twice>> ELSE Deliver(p.msg)
          /\ received' = received \cup {p.id}
          /\ Answer("pubrec", p.id)
       \/ /\ p.type = "pubrel"
          /\ received' = received \ {p.id}
          /\ Answer("pubcomp", p.id)
          /\ UNCHANGED <<seen, twice>>
    /\ UNCHANGED <<queue, online, loop, history>>

----------------------------------------------------------------------------
(* Specification.                                                          *)

Step == PumpSession \/ ResumeSession \/ LoopEnd

Acknowledge == HandlePuback \/ HandlePubrec \/ HandlePubcomp

Next ==
    \/ \E q \in QoSs, oversize \in BOOLEAN : Enqueue(q, oversize)
    \/ Tick
    \/ Step
    \/ Acknowledge
    \/ ConnLost
    \/ Reconnect
    \/ ClientReceives

Spec == Init /\ [][Next]_vars

\* A running call goes on; the poll loop calls tick() in every pass and
\* hands over what has arrived, so neither waits for the other forever; the
\* client reads and, when it has lost its connection, comes back.
FairSpec ==
    /\ Spec
    /\ WF_vars(Step)
    /\ SF_vars(Tick)
    /\ SF_vars(Acknowledge)
    /\ WF_vars(ClientReceives)
    /\ WF_vars(~online /\ Reconnect)

----------------------------------------------------------------------------
(* Properties.                                                             *)

\* Every variable has its type.
TypeOK ==
    /\ pending \in Seq(OutMsg) /\ Len(pending) <= MaxPending
    /\ lastId \in 0..MaxId
    /\ online \in BOOLEAN
    /\ pc \in {"idle", "pump", "resume"}
    /\ i \in 1..(MaxPending + 1)
    /\ toClient \in Seq(Packet)
    /\ toBroker \in Seq(Packet)
    /\ received \subseteq Ids
    /\ seen \in Seq(Messages)
    /\ twice \subseteq Messages
    /\ published \in 0..MaxMessages
    /\ qosOf \in [Messages -> QoSs \cup {0}]
    /\ dropped \subseteq Messages
    /\ sent \subseteq Messages
    /\ losses \in 0..MaxLosses

\* The entries in flight have ids, and no two of them the same, across the
\* wrap of last_packet_id and the ids a refused send has used up.
IdsDistinct ==
    /\ \A k \in InFlight : pending[k].id \in Ids
    /\ \A j, k \in InFlight : pending[j].id = pending[k].id => j = k

\* The queue is in the order of publication and what has not been sent is
\* behind what has: whatever order acknowledgements come in, wherever a loop
\* paused.
QueuedLast ==
    /\ \A j, k \in DOMAIN pending : j < k => pending[j].msg < pending[k].msg
    /\ \A j, k \in DOMAIN pending : j < k /\ pending[j].state = "queued" =>
            pending[k].state = "queued"

\* What the send loops and the queue rest on: a loop has left nothing unsent
\* behind it, and the queue holds published messages only.
Sending ==
    /\ pc # "idle" => \A k \in DOMAIN pending : k < i => pending[k].state # "queued"
    /\ \A k \in DOMAIN pending : pending[k].msg <= published

\* The inductive invariant of this module.
DeliveryInv == TypeOK /\ IdsDistinct /\ QueuedLast /\ Sending

SeenSet == {seen[k] : k \in DOMAIN seen}

\* Every message the queue accepted is still in it or has reached the
\* client: no lost connection, refused packet or late acknowledgement of
\* another one makes the broker forget a message.
NoneLost ==
    \A m \in 1..published :
        \/ m \in dropped
        \/ m \in SeenSet
        \/ \E k \in DOMAIN pending : pending[k].msg = m

\* The client's application gets a QoS 2 message at most once, however often
\* it is retransmitted and however soon its packet id is used again.
ExactlyOnce == \A m \in twice : qosOf[m] = 1

\* A PUBLISH carries DUP if and only if its message has been on the wire
\* before, on this connection or an earlier one.
DupIfSentBefore ==
    [][Len(toClient') > Len(toClient) =>
        LET p == toClient'[Len(toClient')] IN
        p.type = "publish" => (p.dup <=> p.msg \in sent)]_vars

\* The client's application sees the messages, each for the first time, in
\* the order they were published.
InOrder == \A j, k \in DOMAIN seen : j < k => seen[j] < seen[k]

\* Once connections are no longer lost, every message gets through and its
\* flow is completed: the queue empties.
Drains == (pending # <<>>) ~> (pending = <<>>)

====
