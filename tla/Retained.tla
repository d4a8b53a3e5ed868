------------------------------ MODULE Retained ------------------------------
(***************************************************************************)
(* The retained message store (broker/retained.hpp) and its replay to a    *)
(* session that subscribes (handle_subscribe() and replay_retained() of    *)
(* broker/broker.hpp).                                                     *)
(*                                                                         *)
(* A replay can be wider than the output ring.  It then pauses, notes in   *)
(* the session how many entries it has visited, and goes on from tick(),   *)
(* on this connection or the next one, while others publish retained       *)
(* messages and the client subscribes and unsubscribes.                    *)
(*                                                                         *)
(* A filter is the set of the topics it matches and its session may        *)
(* receive.  Every packet takes one place of the ring.                     *)
(***************************************************************************)
EXTENDS Integers, Sequences, FiniteSets

CONSTANTS
    MaxRetained,    \* Traits::max_retained
    Topics,
    NoTopic,
    Filters,        \* the filters the client uses, sets of topics
    MaxSubs,        \* Traits::max_subscriptions_per_session
    QoSs,           \* qualities of service of retained messages and grants
    RingSize,       \* packets the output ring and the socket hold
    MaxVersions,    \* bound: retained messages published
    MaxSubscribes,  \* bound: SUBSCRIBE packets
    MaxLosses       \* bound: connections lost

ASSUME RetainedAssumption ==
    /\ MaxRetained \in Nat \ {0}
    /\ NoTopic \notin Topics
    /\ Filters \subseteq SUBSET Topics
    /\ MaxSubs \in Nat
    /\ QoSs \subseteq {0, 1, 2}
    /\ RingSize \in Nat \ {0}
    /\ MaxVersions \in Nat
    /\ MaxSubscribes \in Nat
    /\ MaxLosses \in Nat

Slots == 1..MaxRetained
Promises == {o \in Filters \X Topics : o[2] \in o[1]}

VARIABLES
    store,        \* RetainedStore::pool_
    subs,         \* Session::subs
    cursor,       \* Session::retain_cursor
    conn,         \* the session's connection: on, flagged dead, or off
    used,         \* packets in the ring
    pc,           \* whether replay_retained() is running
    here,         \* the entry it visits
    latest,       \* history: the last retained message of each topic
    versions,     \* history: number of retained messages published
    owed,         \* history: topics granted filters have still to be sent
    times,        \* history: replays of each topic since the last SUBSCRIBE
    changed,      \* history: the store has changed since then
    subscribes, losses

vars == <<store, subs, cursor, conn, used, pc, here, latest, versions, owed,
          times, changed, subscribes, losses>>
session == <<subs, cursor>>
loop == <<pc, here>>
promise == <<owed, times, subscribes>>

----------------------------------------------------------------------------
(* State.                                                                  *)

Entry == [topic : Topics \cup {NoTopic}, value : 0..MaxVersions, qos : QoSs \cup {0}]
Empty == [topic |-> NoTopic, value |-> 0, qos |-> 0]

Subscription == [held : BOOLEAN, granted : QoSs \cup {0}, pending : BOOLEAN]
NoSub == [held |-> FALSE, granted |-> 0, pending |-> FALSE]

\* The store is as earlier clients have left it.
Init ==
    /\ store \in [Slots -> [topic : Topics \cup {NoTopic}, value : {0}, qos : QoSs]]
    /\ \A s, t \in Slots : store[s].topic = store[t].topic /\ s # t =>
            store[s].topic = NoTopic
    /\ \A s \in Slots : store[s].topic = NoTopic => store[s] = Empty
    /\ subs = [f \in Filters |-> NoSub]
    /\ cursor = 0
    /\ conn = "on"
    /\ used = 0
    /\ pc = "idle"
    /\ here = 0
    /\ latest = [t \in Topics |-> 0]
    /\ versions = 0
    /\ owed = {}
    /\ times = [t \in Topics |-> 0]
    /\ changed = FALSE
    /\ subscribes = 0
    /\ losses = 0

Used(s) == store[s].topic # NoTopic
Stored == {store[s].topic : s \in {r \in Slots : Used(r)}}
Min(a, b) == IF a < b THEN a ELSE b

\* Pool::find() and Pool::alloc(): the slot a topic has or would get.
SlotOf(t) == {s \in Slots : store[s].topic = t}
Lowest(S) == {s \in S : \A r \in S : s <= r}
Free == {s \in Slots : ~Used(s)}

\* Pool::for_each() visits the used slots in order: the n-th of them.
Nth(n) == {s \in Slots : Used(s) /\ Cardinality({r \in Slots : Used(r) /\ r < s}) = n}
Visited == Cardinality({s \in Slots : Used(s)})

Matching(t) == {f \in Filters : subs[f].held /\ t \in f}
Pending(t) == {f \in Matching(t) : subs[f].pending}
AnyPending == \E f \in Filters : subs[f].pending

\* The highest QoS the filters in F were granted at.
Granted(F) == CHOOSE q \in {subs[f].granted : f \in F} :
                  \A f \in F : subs[f].granted <= q

\* send_to(): a ring that is full costs the client its connection.
Answer == IF used < RingSize
          THEN used' = used + 1 /\ UNCHANGED conn
          ELSE conn' = "dead" /\ UNCHANGED used

----------------------------------------------------------------------------
(* The store.                                                              *)

\* Mutant: a message that cannot be kept leaves the one before it.
SetKeepsOld(t, v, q, oversize) ==
    IF oversize THEN store
    ELSE [s \in Slots |->
            IF s \in SlotOf(t) \/ (SlotOf(t) = {} /\ s \in Lowest(Free))
            THEN [topic |-> t, value |-> v, qos |-> q] ELSE store[s]]

\* RetainedStore::set(): a message that cannot be kept takes the one before
\* it out of the store.
Set(t, v, q, oversize) ==
    [s \in Slots |->
        IF oversize
        THEN IF s \in SlotOf(t) THEN Empty ELSE store[s]
        ELSE IF s \in SlotOf(t) \/ (SlotOf(t) = {} /\ s \in Lowest(Free))
             THEN [topic |-> t, value |-> v, qos |-> q] ELSE store[s]]

\* RetainedStore::remove()
Removed(t) == [s \in Slots |-> IF s \in SlotOf(t) THEN Empty ELSE store[s]]

\* route_publish() to this session: QoS 0 goes straight into the ring, the
\* rest into the queue, which may put a packet into the ring at once.
Route(t, q) ==
    LET F == Matching(t) IN
    IF F = {} \/ conn # "on" THEN UNCHANGED <<conn, used>>
    ELSE IF Min(q, Granted(F)) = 0 THEN Answer
    ELSE used' \in {used, Min(used + 1, RingSize)} /\ UNCHANGED conn

\* Another client's PUBLISH with the retain flag: apply_retain(), and the
\* message is routed.  An empty payload clears the topic.
Publish(t, q, kind) ==
    /\ pc = "idle"
    /\ conn # "dead"
    /\ versions < MaxVersions
    /\ versions' = versions + 1
    /\ latest' = [latest EXCEPT ![t] = versions']
    /\ store' = IF kind = "empty" THEN Removed(t)
                ELSE Set(t, versions', q, kind = "oversize")
    /\ changed' = (changed \/ {s \in Slots : store'[s].topic # store[s].topic} # {})
    /\ owed' = {o \in owed : \E s \in Slots : store'[s].topic = o[2]}
    /\ Route(t, q)
    /\ UNCHANGED <<session, loop, times, subscribes, losses>>

----------------------------------------------------------------------------
(* SUBSCRIBE, UNSUBSCRIBE and the replay.                                  *)

\* handle_subscribe(): the filters in G are granted, at QoS q; the rest of
\* the packet is refused.  The flags of an earlier packet are cleared, and
\* grants start the walk over.
Subscribe(G, q) ==
    /\ pc = "idle"
    /\ conn = "on"
    /\ subscribes < MaxSubscribes
    /\ Cardinality({f \in Filters : subs[f].held} \cup G) <= MaxSubs
    /\ subscribes' = subscribes + 1
    /\ subs' = [f \in Filters |->
                   IF f \in G THEN [held |-> TRUE, granted |-> q, pending |-> TRUE]
                   ELSE [subs[f] EXCEPT !.pending = FALSE]]
    /\ owed' = owed \cup (Promises \cap (G \X Stored))
    /\ times' = [t \in Topics |-> 0]
    /\ changed' = FALSE
    /\ Answer
    /\ IF G = {}
       THEN UNCHANGED <<cursor, loop>>
       ELSE cursor' = 0 /\ pc' = "replay" /\ here' = 0
    /\ UNCHANGED <<store, latest, versions, losses>>

\* handle_unsubscribe()
Unsubscribe(f) ==
    /\ pc = "idle"
    /\ conn = "on"
    /\ subs[f].held
    /\ subs' = [subs EXCEPT ![f] = NoSub]
    /\ owed' = {o \in owed : o[1] # f}
    /\ Answer
    /\ UNCHANGED <<store, cursor, loop, latest, versions, times, changed,
                   subscribes, losses>>

\* tick() takes a paused replay up again.
Tick ==
    /\ pc = "idle"
    /\ conn = "on"
    /\ IF AnyPending THEN pc' = "replay" /\ here' = 0 ELSE UNCHANGED loop
    /\ UNCHANGED <<store, session, conn, used, latest, versions, promise,
                   changed, losses>>

Replaying == pc = "replay" /\ here < Visited

\* An entry already visited, or matched by no filter granted.
ReplaySkip ==
    /\ Replaying
    /\ \A s \in Nth(here) : here < cursor \/ Pending(store[s].topic) = {}
    /\ here' = here + 1
    /\ UNCHANGED <<store, session, conn, used, pc, latest, versions, promise,
                   changed, losses>>

Delivered(t) ==
    /\ owed' = {o \in owed : o[2] # t}
    /\ times' = [times EXCEPT ![t] = @ + 1]

\* Mutant: the walk goes on behind the entry that was refused.
PauseAtPast == here + 1

\* Mutant: it starts over.
PauseAtStart == 0

\* Where a replay that pauses goes on later.
PauseAt == here

\* The entry is sent, or handed to enqueue() when its QoS is above 0 (the
\* queue's own limit is Delivery's).  A refusal pauses the replay.
ReplayEntry(s) ==
    LET t == store[s].topic
        F == Pending(t)
    IN
    /\ Replaying
    /\ s \in Nth(here)
    /\ here >= cursor
    /\ F # {}
    /\ \/ /\ Min(Granted(F), store[s].qos) > 0
          /\ Delivered(t)
          /\ used' \in {used, IF conn = "on" THEN Min(used + 1, RingSize) ELSE used}
          /\ here' = here + 1
          /\ UNCHANGED <<cursor, pc>>
       \/ /\ Min(Granted(F), store[s].qos) = 0
          /\ conn = "on" /\ used < RingSize
          /\ Delivered(t)
          /\ used' = used + 1
          /\ here' = here + 1
          /\ UNCHANGED <<cursor, pc>>
       \/ /\ Min(Granted(F), store[s].qos) = 0
          /\ ~(conn = "on" /\ used < RingSize)
          /\ cursor' = PauseAt
          /\ pc' = "idle"
          /\ here' = 0
          /\ UNCHANGED <<used, owed, times>>
    /\ UNCHANGED <<store, subs, conn, latest, versions, changed, subscribes, losses>>

\* Every entry has been visited.
ReplayEnd ==
    /\ pc = "replay"
    /\ here >= Visited
    /\ cursor' = 0
    /\ subs' = [f \in Filters |-> [subs[f] EXCEPT !.pending = FALSE]]
    /\ pc' = "idle"
    /\ here' = 0
    /\ UNCHANGED <<store, conn, used, latest, versions, promise, changed, losses>>

----------------------------------------------------------------------------
(* Connections of the persistent session.                                  *)

\* flush_dead() at the end of the call that found the ring full.
Teardown ==
    /\ pc = "idle"
    /\ conn = "dead"
    /\ conn' = "off"
    /\ UNCHANGED <<store, session, used, loop, latest, versions, promise,
                   changed, losses>>

ConnLost ==
    /\ pc = "idle"
    /\ conn = "on"
    /\ losses < MaxLosses
    /\ losses' = losses + 1
    /\ conn' = "off"
    /\ UNCHANGED <<store, session, used, loop, latest, versions, promise, changed>>

\* The client comes back to a ring with its CONNACK in it.
Reconnect ==
    /\ pc = "idle"
    /\ conn = "off"
    /\ conn' = "on"
    /\ used' = 1
    /\ UNCHANGED <<store, session, loop, latest, versions, promise, changed, losses>>

\* The client reads.
ClientReads ==
    /\ used > 0
    /\ used' = used - 1
    /\ UNCHANGED <<store, session, conn, loop, latest, versions, promise,
                   changed, losses>>

----------------------------------------------------------------------------
(* Specification.                                                          *)

Step == ReplaySkip \/ (\E s \in Slots : ReplayEntry(s)) \/ ReplayEnd \/ Teardown

Next ==
    \/ Step
    \/ \E t \in Topics, q \in QoSs, kind \in {"empty", "oversize", "kept"} :
            Publish(t, q, kind)
    \/ \E G \in SUBSET Filters, q \in QoSs : Subscribe(G, q)
    \/ \E f \in Filters : Unsubscribe(f)
    \/ Tick
    \/ ConnLost
    \/ Reconnect
    \/ ClientReads

Spec == Init /\ [][Next]_vars

\* A running call goes on, the poll loop calls tick() in every pass, and the
\* client reads and comes back.
FairSpec ==
    /\ Spec
    /\ WF_vars(Step)
    /\ SF_vars(Tick)
    /\ WF_vars(ClientReads)
    /\ WF_vars(Reconnect)

----------------------------------------------------------------------------
(* Properties.                                                             *)

\* Every variable has its type.
TypeOK ==
    /\ store \in [Slots -> Entry]
    /\ subs \in [Filters -> Subscription]
    /\ cursor \in 0..MaxRetained
    /\ conn \in {"on", "dead", "off"}
    /\ used \in 0..RingSize
    /\ pc \in {"idle", "replay"}
    /\ here \in 0..MaxRetained
    /\ latest \in [Topics -> 0..MaxVersions]
    /\ versions \in 0..MaxVersions
    /\ owed \subseteq Promises
    /\ times \in [Topics -> Nat]
    /\ changed \in BOOLEAN
    /\ subscribes \in 0..MaxSubscribes
    /\ losses \in 0..MaxLosses

\* The state has its type, a topic has at most one entry, and its value is the
\* last one published: a message that could not be kept never leaves an older
\* one behind.
LastValue ==
    /\ TypeOK
    /\ \A s, t \in Slots : Used(s) /\ store[s].topic = store[t].topic => s = t
    /\ \A s \in Slots : Used(s) => store[s].value = latest[store[s].topic]

\* A SUBSCRIBE replays a message at most once, however many of its filters
\* match and however often the replay pauses, while the set of retained
\* topics stays as it is.
ReplayedOnce == \A t \in Topics : times[t] > 1 => changed

\* A retained message that a granted filter matched when the client
\* subscribed is replayed, unless it is removed or the client unsubscribes.
ReplayCompletes == \A o \in Promises : (o \in owed) ~> (o \notin owed)

\* A replay that pauses is taken up again, on whatever connection, and
\* reaches every message it owes, as long as the set of retained topics does
\* not change under its cursor and no other SUBSCRIBE takes its place (the
\* client has made its last one).
ReplayResumes ==
    \A o \in Promises :
        (o \in owed /\ subs[o[1]].pending /\ subscribes = MaxSubscribes)
            ~> (o \notin owed \/ changed)

====
