------------------------------ MODULE EndToEnd ------------------------------
(***************************************************************************)
(* A QoS 2 publisher and a subscriber of one broker: InboundQos2, and the  *)
(* session of Delivery that handle_publish() of broker/broker.hpp routes   *)
(* its messages to.                                                        *)
(*                                                                         *)
(* Both clients lose connections and come back, each in its own time.  The *)
(* broker is one thread: it handles a packet of the publisher only when no *)
(* call for the subscriber is under way.  A message may reach the          *)
(* subscriber's queue more than once, as many copies, when the inbound     *)
(* table has forgotten its id.                                             *)
(***************************************************************************)
EXTENDS InboundQos2

CONSTANTS
    MaxPending, MaxId, RingSize,   \* of the subscriber's session
    MaxRouted,                     \* bound: messages published to a subscriber
    MaxParted                      \* bound: connections lost by each of the two then

\* As Delivery needs them, of a subscriber's session whose packets take 1 each.
ASSUME EndToEndAssumption ==
    /\ MaxPending \in Nat \ {0}
    /\ MaxId \in Nat /\ MaxId > MaxPending
    /\ RingSize \in Nat \ {0}
    /\ MaxRouted \in Nat
    /\ MaxParted \in Nat

VARIABLES
    granted,      \* QoS of the subscription, 0 when there is no subscriber
    pending, lastId, connected, pc, i, toSubscriber, fromSubscriber,
    received, seen, twice, copies, qosOf, dropped, sent, parted,
    copyOf        \* history: the message each copy in the queue is of

QoSs == {1, 2}
MaxCopies == MaxRouted * (MaxParted + 1)

S == INSTANCE Delivery WITH
    PublishSize <- 1, MaxMessages <- MaxCopies, MaxLosses <- MaxParted,
    online <- connected, toClient <- toSubscriber, toBroker <- fromSubscriber,
    published <- copies, losses <- parted

publisher == vars
subscriber == <<pending, lastId, connected, pc, i, toSubscriber, fromSubscriber,
                received, seen, twice, copies, qosOf, dropped, sent, parted>>
all == <<publisher, subscriber, granted, copyOf>>

E2EInit ==
    /\ Init /\ S!Init
    /\ granted \in 0..2
    /\ IF granted > 0 THEN window = MaxRouted ELSE capacity = MaxInbound
    /\ copyOf = <<>>

\* A call of the broker for the publisher.
ForPublisher == pc = "idle" /\ UNCHANGED granted

\* Mutant: a repeated PUBLISH is routed again.
NewEach == TRUE

\* deliver of handle_publish(): whether the message has not been routed yet.
New == ~Tracked(Head(toBroker).id)

\* handle_publish(): a new message goes to the subscriber at the lower QoS of
\* the two, before the answer.
RoutePublish ==
    /\ ForPublisher
    /\ HandlePublish
    /\ IF New /\ granted > 0
       THEN /\ S!Enqueue(granted, FALSE)
            /\ copyOf' = Append(copyOf, Head(toBroker).msg)
       ELSE UNCHANGED <<subscriber, copyOf>>

\* handle_pubrel() and conn_closed().
OtherCalls ==
    /\ ForPublisher
    /\ HandlePubrel \/ ConnLost \/ Reconnect
    /\ UNCHANGED <<subscriber, copyOf>>

\* The ids the publisher may use next: with a subscriber the lowest one that is
\* free, and so used again soonest.
Unbusy ==
    LET free == PublisherIds \ OpenIds
    IN IF granted > 0 THEN {id \in free : \A other \in free : id <= other} ELSE free

PublisherMoves ==
    /\ ClientReceives \/ \E id \in Unbusy : Publish(id)
    /\ UNCHANGED <<subscriber, granted, copyOf>>

\* What goes on between the broker and the subscriber alone.
SubscriberMoves ==
    /\ granted > 0
    /\ S!Tick \/ S!Step \/ S!Acknowledge \/ S!ConnLost \/ S!Reconnect \/ S!ClientReceives
    /\ UNCHANGED <<publisher, granted, copyOf>>

\* With a subscriber there are fewer messages and losses.
Bounded == granted > 0 => published' <= MaxRouted /\ losses' <= MaxParted

E2ENext ==
    (RoutePublish \/ OtherCalls \/ PublisherMoves \/ SubscriberMoves) /\ Bounded

\* What the broker does next for either of the two: the packet that has arrived
\* or, when there is no connection, the CONNECT that will.
ServePublisher == RoutePublish \/ (OtherCalls /\ (HandlePubrel \/ Reconnect))
ServeSubscriber == SubscriberMoves /\ (S!Acknowledge \/ (~connected /\ S!Reconnect))

\* The fairness of the two parts: a call that runs goes on, nothing that has
\* arrived waits for ever, the clients read and come back.
E2ESpec ==
    /\ E2EInit /\ [][E2ENext]_all
    /\ SF_all(ServePublisher)
    /\ WF_all(PublisherMoves /\ ClientReceives)
    /\ WF_all(SubscriberMoves /\ S!Step)
    /\ SF_all(ServeSubscriber)
    /\ WF_all(SubscriberMoves /\ S!ClientReceives)

----------------------------------------------------------------------------
(* Properties.                                                             *)

Reaches(m) == {k \in DOMAIN copyOf : copyOf[k] = m}

\* Exactly once over both hops: whatever connections are lost on either side,
\* every message that is completed for the publisher is one the subscriber has
\* seen, still has in its queue, or found its queue full for; the subscriber
\* gets a second one only if the inbound table forgot the message, and the same
\* copy again only on a subscription of QoS 1.
OnceEndToEnd ==
    granted > 0 =>
        /\ \A m \in completed : Reaches(m) # {}
        /\ S!NoneLost
        /\ \A m \in Messages : Cardinality(Reaches(m)) > 1 => m \in forgotten
        /\ S!ExactlyOnce

\* Every message gets through: its flow is completed for the publisher, and a
\* subscriber sees it unless its queue was full.
Arrives ==
    []<>(\A m \in 1..published :
            /\ m \in completed
            /\ granted > 0 => Reaches(m) \cap (S!SeenSet \cup dropped) # {})

====
