----------------------------- MODULE Lifecycle -----------------------------
(***************************************************************************)
(* Connections, sessions and wills of the broker (broker/broker.hpp).      *)
(*                                                                         *)
(* The broker is single threaded.  Its entry points run to completion, but *)
(* they are not atomic in its own state: a drop only sets the flag "dead", *)
(* and flush_dead() tears the flagged connections down later, each         *)
(* teardown publishing a will that can flag further connections.  A        *)
(* CONNECT that takes a session over runs flush_dead() in its own middle   *)
(* and goes on afterwards.  The variable pc is the place in such a call.   *)
(*                                                                         *)
(* Left to other modules: the content of the queues, retained messages,    *)
(* packet formats and the clock.  What they can do to this state is chosen *)
(* here: which connections refuse a packet, which deadlines have passed,   *)
(* which sessions have expired and what validation says of a CONNECT.      *)
(***************************************************************************)
EXTENDS Integers, FiniteSets

CONSTANTS
    MaxConnections,   \* Traits::max_connections
    MaxSessions,      \* Traits::max_sessions
    ClientIds,        \* client ids a CONNECT may supply
    NoClient,         \* the empty client id
    AutoRange,        \* number of server-assigned ids (2^16 in the code)
    OrderRange,       \* number of disconnect tickets (2^32 in the code)
    MaxWills,         \* bound: wills armed in a behaviour
    MaxPackets        \* bound: packets in one conn_data() chunk

Conns == 1..MaxConnections
Slots == 1..MaxSessions
AutoIds == 0..(AutoRange - 1)
Wills == 1..MaxWills
NoConn == 0
NoSession == 0
NoWill == 0

ASSUME SizesAssumption ==
    /\ MaxConnections \in Nat \ {0}
    /\ MaxSessions \in Nat \ {0}
    /\ MaxWills \in Nat
    /\ MaxPackets \in Nat

\* A server-assigned id is never one a client may supply: the prefix "mmq-"
\* is reserved.  There are more of them than sessions.
ASSUME IdsAssumption ==
    /\ NoClient \notin ClientIds \cup AutoIds
    /\ ClientIds \cap AutoIds = {}
    /\ AutoRange \in Nat /\ AutoRange > MaxSessions
    /\ OrderRange \in Nat /\ OrderRange >= 2

VARIABLES
    conns,        \* conns_: one record per connection index
    sessions,     \* sessions_: the pool, one record per slot
    ticket,       \* disconnect_order_
    auto,         \* auto_id_counter_
    pc,           \* the place in the running entry point
    cur,          \* the connection conn_data() is feeding
    left,         \* packets left in its chunk
    scan,         \* the index flush_dead() tore down last in this sweep
    req,          \* the CONNECT being handled
    connack,      \* the CONNACK the running call has written
    open,         \* the transport's view: slots it holds a socket for
    fired,        \* history: how often each will was published
    discarded,    \* history: wills discarded by a DISCONNECT
    armed,        \* history: number of wills armed so far
    age           \* history: disconnects since this slot's own

vars == <<conns, sessions, ticket, auto, pc, cur, left, scan, req, connack,
          open, fired, discarded, armed, age>>
pool == <<sessions, ticket, age>>
call == <<cur, left, req>>
history == <<fired, discarded, armed>>

----------------------------------------------------------------------------
(* State.                                                                  *)

ConnRecord == [active : BOOLEAN, dead : BOOLEAN, notify : BOOLEAN,
               session : Slots \cup {NoSession}]

Closed == [active |-> FALSE, dead |-> FALSE, notify |-> TRUE,
           session |-> NoSession]

SessionRecord == [used : BOOLEAN, id : ClientIds \cup AutoIds \cup {NoClient},
                  clean : BOOLEAN, conn : Conns \cup {NoConn},
                  will : Wills \cup {NoWill}, order : 0..(OrderRange - 1)]

\* A slot of the pool that holds no session.
Free == [used |-> FALSE, id |-> NoClient, clean |-> TRUE, conn |-> NoConn,
         will |-> NoWill, order |-> 0]

Request == [id : ClientIds \cup AutoIds \cup {NoClient}, clean : BOOLEAN,
            will : BOOLEAN]

NoRequest == [id |-> NoClient, clean |-> TRUE, will |-> FALSE]

Init ==
    /\ conns = [c \in Conns |-> Closed]
    /\ sessions = [s \in Slots |-> Free]
    /\ ticket = 0
    /\ auto = 0
    /\ pc = "idle"
    /\ cur = NoConn
    /\ left = 0
    /\ scan = 0
    /\ req = NoRequest
    /\ connack = "none"
    /\ open = {}
    /\ fired = [w \in Wills |-> 0]
    /\ discarded = {}
    /\ armed = 0
    /\ age = [s \in Slots |-> 0]

Connected(s) == sessions[s].used /\ sessions[s].conn # NoConn
Disconnected(s) == sessions[s].used /\ sessions[s].conn = NoConn
IsDead(c) == conns[c].active /\ conns[c].dead

\* Mutant: one sweep over the indices, no matter whom its wills flagged.
NoneDeadOneSweep == \A c \in Conns : IsDead(c) => c <= scan

NoneDead == \A c \in Conns : ~IsDead(c)
Alive(c) == conns[c].active /\ ~conns[c].dead

\* The connections route_publish() may send on.
Online == {c \in Conns : Alive(c) /\ conns[c].session # NoSession}

\* Every connection of R is flagged for teardown.
Kill(R) == [c \in Conns |-> IF c \in R THEN [conns[c] EXCEPT !.dead = TRUE]
                                       ELSE conns[c]]

----------------------------------------------------------------------------
(* Entry points that change the connection table.                          *)

\* The transport accepted a socket in a free slot of its own.  When the
\* broker still has the connection it answers Err::state and the transport
\* closes the socket again: nothing changes.
ConnOpen(c) ==
    /\ pc = "idle"
    /\ c \notin open
    /\ ~conns[c].active
    /\ conns' = [conns EXCEPT ![c] = [Closed EXCEPT !.active = TRUE]]
    /\ open' = open \cup {c}
    /\ UNCHANGED <<pool, auto, pc, call, scan, connack, history>>

\* The transport closed the socket and reports it.
ConnClosed(c) ==
    /\ pc = "idle"
    /\ c \in open
    /\ conns[c].active
    /\ open' = open \ {c}
    /\ conns' = [conns EXCEPT ![c].notify = FALSE, ![c].dead = TRUE]
    /\ pc' = "flush"
    /\ UNCHANGED <<pool, auto, call, scan, connack, history>>

\* Bytes arrived, holding up to MaxPackets packets.
ConnData(c) ==
    /\ pc = "idle"
    /\ c \in open
    /\ Alive(c)
    /\ pc' = "feed"
    /\ cur' = c
    /\ left' \in 0..MaxPackets
    /\ UNCHANGED <<conns, pool, auto, scan, req, connack, open, history>>

\* Broker::publish(): the connections in R refuse the QoS 0 copy.
Publish(R) ==
    /\ pc = "idle"
    /\ R \subseteq Online
    /\ conns' = Kill(R)
    /\ pc' = "flush"
    /\ UNCHANGED <<pool, auto, call, scan, connack, open, history>>

\* tick(): the connections in T have run out of time.  The replay and the
\* queue flush that follow use try_send_to(), which flags nobody.
Tick(T) ==
    /\ pc = "idle"
    /\ T \subseteq {c \in Conns : Alive(c)}
    /\ conns' = Kill(T)
    /\ pc' = "tick"
    /\ UNCHANGED <<pool, auto, call, scan, connack, open, history>>

----------------------------------------------------------------------------
(* Packets.  The parser hands them over one by one and stops as soon as    *)
(* the connection is flagged.                                              *)

Feeding ==
    /\ pc = "feed"
    /\ left > 0
    /\ Alive(cur)

HasSession == conns[cur].session # NoSession

\* A packet before CONNECT, a second CONNECT, bad flags, a packet only a
\* server may send, or one that does not parse.
HandleViolation ==
    /\ Feeding
    /\ conns' = Kill({cur})
    /\ left' = left - 1
    /\ UNCHANGED <<pool, auto, pc, cur, scan, req, connack, open, history>>

\* PUBLISH: the connections in R refuse the QoS 0 copy or, for the
\* publisher itself, the acknowledgement.
HandlePublish(R) ==
    /\ Feeding
    /\ HasSession
    /\ R \subseteq Online
    /\ conns' = Kill(R)
    /\ left' = left - 1
    /\ UNCHANGED <<pool, auto, pc, cur, scan, req, connack, open, history>>

\* PUBACK, PUBREC, PUBREL, PUBCOMP, SUBSCRIBE, UNSUBSCRIBE, PINGREQ: at
\* most the peer's own connection is flagged, when it refuses the answer.
HandleRequest(R) ==
    /\ Feeding
    /\ HasSession
    /\ R \subseteq {cur}
    /\ conns' = Kill(R)
    /\ left' = left - 1
    /\ UNCHANGED <<pool, auto, pc, cur, scan, req, connack, open, history>>

\* Mutant: DISCONNECT counts as discarding the will but leaves it armed.
HandleDisconnectWill ==
    /\ Feeding
    /\ HasSession
    /\ discarded' = discarded \cup ({sessions[conns[cur].session].will} \ {NoWill})
    /\ conns' = Kill({cur})
    /\ left' = left - 1
    /\ UNCHANGED <<pool, auto, pc, cur, scan, req, connack, open, fired, armed>>

\* DISCONNECT discards the will before the connection goes.
HandleDisconnect ==
    /\ Feeding
    /\ HasSession
    /\ LET s == conns[cur].session IN
       /\ sessions' = [sessions EXCEPT ![s].will = NoWill]
       /\ discarded' = discarded \cup ({sessions[s].will} \ {NoWill})
    /\ conns' = Kill({cur})
    /\ left' = left - 1
    /\ UNCHANGED <<ticket, age, auto, pc, cur, scan, req, connack, open,
                   fired, armed>>

\* The chunk is consumed, or the parser was stopped.  A framing error, which
\* needs bytes left to parse, flags the connection as well.
FeedEnd(R) ==
    /\ pc = "feed"
    /\ left = 0 \/ ~Alive(cur)
    /\ R \subseteq (IF left = 0 THEN {cur} ELSE {})
    /\ conns' = Kill(R)
    /\ pc' = "flush"
    /\ cur' = NoConn
    /\ left' = 0
    /\ UNCHANGED <<pool, auto, scan, req, connack, open, history>>

----------------------------------------------------------------------------
(* CONNECT.                                                                *)

HoldsId(s, id) == sessions[s].used /\ sessions[s].id = id

\* The session of this client id that is on a connection, if there is one.
Holder(id) == {s \in Slots : HoldsId(s, id) /\ Connected(s)}

\* generate_client_id() counts on until no live session has the id.
IsNextAuto(n) ==
    LET Dist(m) == (m - auto - 1 + AutoRange) % AutoRange
        Unused(m) == \A s \in Slots : ~HoldsId(s, m)
    IN /\ n \in AutoIds
       /\ Unused(n)
       /\ \A m \in AutoIds : Unused(m) => Dist(n) <= Dist(m)

\* The id the session will have: the supplied one, or a generated one.
Identified(r, id) ==
    IF r.id = NoClient
    THEN /\ IsNextAuto(id)
         /\ auto' = id
    ELSE /\ id = r.id
         /\ auto' = auto

\* A reserved id, or no id for a session that is to be kept.
IdRejected(r) == r.id \in AutoIds \/ (r.id = NoClient /\ ~r.clean)

\* CONNECT is answered with an error code, or with nothing when a string of
\* it is malformed, and the connection flagged.  Some of the checks come
\* before an id is generated and some after.
ConnectRefused(r) ==
    /\ Feeding
    /\ ~HasSession
    /\ \/ auto' = auto
       \/ ~IdRejected(r) /\ \E id \in ClientIds \cup AutoIds : Identified(r, id)
    /\ conns' = Kill({cur})
    /\ connack' \in {connack, "refused"}
    /\ left' = left - 1
    /\ UNCHANGED <<pool, pc, cur, scan, req, open, history>>

\* CONNECT passes validation and authentication.  When the client id is in
\* use on another connection, that one is flagged and flushed first.
ConnectAccepted(r) ==
    /\ Feeding
    /\ ~HasSession
    /\ ~IdRejected(r)
    /\ r.will => armed < MaxWills
    /\ \E id \in ClientIds \cup AutoIds :
       /\ Identified(r, id)
       /\ req' = [r EXCEPT !.id = id]
       /\ conns' = Kill({sessions[s].conn : s \in Holder(id)})
       /\ pc' = IF Holder(id) = {} THEN "bind" ELSE "takeover"
    /\ left' = left - 1
    /\ UNCHANGED <<pool, cur, scan, connack, open, history>>

\* Mutant: the stamps are compared as plain numbers.
GoneBeforePlain(s, t) == sessions[s].order < sessions[t].order

\* disconnect_order as the code compares it: by signed difference.
GoneBefore(s, t) ==
    (sessions[s].order - sessions[t].order + OrderRange) % OrderRange
        >= OrderRange \div 2

\* oldest_disconnected_session(): the candidate after the first n slots.
Oldest[n \in 0..MaxSessions] ==
    IF n = 0 THEN 0
    ELSE LET o == Oldest[n - 1] IN
         IF Disconnected(n) /\ (o = 0 \/ GoneBefore(n, o)) THEN n ELSE o

\* Mutant: a clean CONNECT leaves the old session of its id alone.
ReleasedNone == sessions

\* The pool once a clean CONNECT has released the session of its id.
Released ==
    [s \in Slots |-> IF req.clean /\ HoldsId(s, req.id) THEN Free
                                                        ELSE sessions[s]]

Resumes(s) == HoldsId(s, req.id) /\ ~req.clean

\* Mutant: a disconnected session is evicted while there are free slots.
SessionSlotEager(s) ==
    \/ Resumes(s)
    \/ /\ \A t \in Slots : ~Resumes(t)
       /\ IF Oldest[MaxSessions] # 0 THEN s = Oldest[MaxSessions]
                                     ELSE ~Released[s].used

\* The slot the session lives in: its own, the first free one, or the one
\* of the session that has been gone longest, which is evicted.
SessionSlot(s) ==
    \/ Resumes(s)
    \/ /\ \A t \in Slots : ~Resumes(t)
       /\ ~Released[s].used
       /\ \A t \in Slots : t < s => Released[t].used
    \/ /\ \A t \in Slots : ~Resumes(t) /\ Released[t].used
       /\ s = Oldest[MaxSessions]
       /\ Disconnected(s)

\* The takeover's flush_dead() is over, or there was nothing to take over.
Binding ==
    \/ pc = "bind"
    \/ pc = "takeover" /\ NoneDead

\* A session's stamp is read only while it is disconnected, and the next
\* disconnect writes it again: a connected session's is kept at 0.
\*
\* CONNECT goes on: the session is found or made and tied to the
\* connection, the will armed, CONNACK sent (refused when cur is in R).
Bind(s, R) ==
    /\ Binding
    /\ SessionSlot(s)
    /\ R \subseteq {cur}
    /\ armed' = IF req.will THEN armed + 1 ELSE armed
    /\ LET base == IF Resumes(s) THEN sessions[s]
                   ELSE [Free EXCEPT !.used = TRUE, !.id = req.id]
           will == IF req.will THEN armed + 1 ELSE NoWill
       IN sessions' = [Released EXCEPT ![s] =
              [base EXCEPT !.clean = req.clean, !.conn = cur, !.will = will,
                           !.order = 0]]
    /\ age' = [age EXCEPT ![s] = 0]
    /\ conns' = [Kill(R) EXCEPT ![cur].session = s]
    /\ connack' = IF Resumes(s) THEN "present" ELSE "new"
    /\ pc' = "feed"
    /\ scan' = 0
    /\ req' = NoRequest
    /\ UNCHANGED <<ticket, auto, cur, left, open, fired, discarded>>

\* Mutant: a full pool is refused without looking for a session to evict.
BindUnavailableFull ==
    /\ Binding
    /\ \A s \in Slots : ~Resumes(s) /\ Released[s].used
    /\ conns' = Kill({cur})
    /\ connack' = "unavailable"
    /\ pc' = "feed"
    /\ scan' = 0
    /\ req' = NoRequest
    /\ UNCHANGED <<pool, auto, cur, left, open, history>>

\* Every session of the pool is connected: CONNACK 0x03.
BindUnavailable ==
    /\ Binding
    /\ \A s \in Slots : ~Resumes(s) /\ Released[s].used /\ Connected(s)
    /\ conns' = Kill({cur})
    /\ connack' = "unavailable"
    /\ pc' = "feed"
    /\ scan' = 0
    /\ req' = NoRequest
    /\ UNCHANGED <<pool, auto, cur, left, open, history>>

----------------------------------------------------------------------------
(* flush_dead() and what follows it.                                       *)

\* The sweep goes by index and starts over until it finds nobody flagged.
NextDead(c) ==
    /\ IsDead(c)
    /\ \A d \in Conns : IsDead(d) /\ (d > scan <=> c > scan) => c <= d
    /\ c <= scan => \A d \in Conns : IsDead(d) => d <= scan

\* Mutant: the session goes on naming its connection.
DetachedLinked(s) ==
    [sessions EXCEPT ![s] =
        IF sessions[s].clean THEN Free
        ELSE [sessions[s] EXCEPT !.will = NoWill,
                                 !.order = (ticket + 1) % OrderRange]]

\* The pool once the session in slot s has lost its connection.
Detached(s) ==
    [sessions EXCEPT ![s] =
        IF sessions[s].clean THEN Free
        ELSE [sessions[s] EXCEPT !.conn = NoConn, !.will = NoWill,
                                 !.order = (ticket + 1) % OrderRange]]

\* Mutant: the connection is cleared but stays in use.
DeactivatedNot(c) == [conns[c] EXCEPT !.session = NoSession]

\* The connection's record once it is torn down.
Deactivated(c) == [conns[c] EXCEPT !.active = FALSE, !.dead = FALSE,
                                   !.session = NoSession]

\* Mutant: the transport is never told.
TransportNotTold(c) == open

\* The transport is told, unless the news came from it.
TransportClose(c) == IF conns[c].notify THEN open \ {c} ELSE open

\* teardown(): detach, publish the will, release a clean session, tell the
\* transport.  R is who refuses the will's QoS 0 copy, empty when the
\* publish is not authorized.
Teardown(c, R) ==
    LET s == conns[c].session
        w == IF s = NoSession THEN NoWill ELSE sessions[s].will
    IN
    /\ pc \in {"flush", "tick", "takeover"}
    /\ NextDead(c)
    /\ R \subseteq (IF w = NoWill THEN {} ELSE Online)
    /\ conns' = [Kill(R) EXCEPT ![c] = Deactivated(c)]
    /\ IF s = NoSession
       THEN UNCHANGED pool
       ELSE /\ sessions' = Detached(s)
            /\ ticket' = (ticket + 1) % OrderRange
            /\ age' = [t \in Slots |->
                          IF Disconnected(t) /\ age[t] < OrderRange
                          THEN age[t] + 1 ELSE age[t]]
    /\ fired' = [v \in Wills |-> IF v = w THEN fired[v] + 1 ELSE fired[v]]
    /\ open' = TransportClose(c)
    /\ scan' = c
    /\ UNCHANGED <<auto, pc, call, connack, discarded, armed>>

FlushEnd ==
    /\ pc = "flush"
    /\ NoneDead
    /\ pc' = "idle"
    /\ scan' = 0
    /\ connack' = "none"
    /\ UNCHANGED <<conns, pool, auto, call, open, history>>

\* Mutant: connected sessions expire as well.
ExpireSessionsAny(E) ==
    /\ pc = "tick"
    /\ NoneDead
    /\ E \subseteq {s \in Slots : sessions[s].used}
    /\ sessions' = [s \in Slots |-> IF s \in E THEN Free ELSE sessions[s]]
    /\ age' = [s \in Slots |-> IF s \in E THEN 0 ELSE age[s]]
    /\ pc' = "idle"
    /\ scan' = 0
    /\ UNCHANGED <<conns, ticket, auto, call, connack, open, history>>

\* expire_sessions(): the disconnected sessions in E are past their expiry.
ExpireSessions(E) ==
    /\ pc = "tick"
    /\ NoneDead
    /\ E \subseteq {s \in Slots : Disconnected(s)}
    /\ sessions' = [s \in Slots |-> IF s \in E THEN Free ELSE sessions[s]]
    /\ age' = [s \in Slots |-> IF s \in E THEN 0 ELSE age[s]]
    /\ pc' = "idle"
    /\ scan' = 0
    /\ UNCHANGED <<conns, ticket, auto, call, connack, open, history>>

----------------------------------------------------------------------------
(* Specification.                                                          *)

\* What the transport, the clock and the application start.
Environment ==
    \/ \E c \in Conns : ConnOpen(c) \/ ConnClosed(c) \/ ConnData(c)
    \/ \E R \in SUBSET Conns : Publish(R) \/ Tick(R)

\* What a running call does until it returns.
BrokerStep ==
    \/ HandleViolation
    \/ HandleDisconnect
    \/ \E R \in SUBSET Conns : HandlePublish(R) \/ HandleRequest(R) \/ FeedEnd(R)
    \/ \E r \in Request : ConnectRefused(r) \/ ConnectAccepted(r)
    \/ \E s \in Slots, R \in SUBSET Conns : Bind(s, R)
    \/ BindUnavailable
    \/ \E c \in Conns, R \in SUBSET Conns : Teardown(c, R)
    \/ FlushEnd
    \/ \E E \in SUBSET Slots : ExpireSessions(E)

Next == Environment \/ BrokerStep

Spec == Init /\ [][Next]_vars

\* A running call goes on: the broker is a plain function call.  This is weak
\* fairness of BrokerStep, which is enabled exactly while a call runs.
FairSpec == Spec /\ ([]<>(pc = "idle") \/ []<><<pc # "idle">>_vars)

----------------------------------------------------------------------------
(* Properties.                                                             *)

Places == {"idle", "feed", "bind", "takeover", "flush", "tick"}

\* Every variable has its type.
TypeOK ==
    /\ conns \in [Conns -> ConnRecord]
    /\ sessions \in [Slots -> SessionRecord]
    /\ ticket \in 0..(OrderRange - 1)
    /\ auto \in AutoIds
    /\ pc \in Places
    /\ cur \in Conns \cup {NoConn}
    /\ left \in 0..MaxPackets
    /\ scan \in Conns \cup {0}
    /\ req \in Request
    /\ connack \in {"none", "new", "present", "refused", "unavailable"}
    /\ open \subseteq Conns
    /\ fired \in [Wills -> Nat]
    /\ discarded \subseteq Wills
    /\ armed \in 0..MaxWills
    /\ age \in [Slots -> 0..OrderRange]

\* conns_[ci].session and Session::conn point at each other, at every moment
\* of every call: a session is on at most one connection and a connection
\* on at most one session, and neither refers to a free slot.
Linked ==
    /\ \A c \in Conns :
        IF conns[c].session = NoSession THEN TRUE
        ELSE /\ conns[c].active
             /\ sessions[conns[c].session].used
             /\ sessions[conns[c].session].conn = c
    /\ \A s \in Slots :
        Connected(s) => conns[sessions[s].conn].session = s

\* No two sessions have the same client id, however takeovers, clean
\* restarts, evictions and generated ids follow each other.
UniqueIds ==
    \A s, t \in Slots :
        sessions[s].used /\ sessions[t].used /\ sessions[s].id = sessions[t].id
            => s = t

\* A session without a connection is a persistent one (teardown() releases
\* the clean ones) and holds no will.
DisconnectedKept ==
    \A s \in Slots : Disconnected(s) => ~sessions[s].clean
                                        /\ sessions[s].will = NoWill

Holders(w) == {s \in Slots : Connected(s) /\ sessions[s].will = w}

\* Every will a CONNECT armed has exactly one fate: it is still armed on one
\* connected session, or teardown() handed it on once, or a DISCONNECT
\* discarded it and it is never published.
WillOnce ==
    \A w \in Wills :
        /\ w > armed => Holders(w) = {} /\ fired[w] = 0 /\ w \notin discarded
        /\ w <= armed =>
            \/ \E s \in Slots : Holders(w) = {s} /\ fired[w] = 0 /\ w \notin discarded
            \/ Holders(w) = {} /\ fired[w] = 1 /\ w \notin discarded
            \/ Holders(w) = {} /\ fired[w] = 0 /\ w \in discarded

\* Between calls the transport and the broker agree on the connections that
\* exist, so a freed socket slot is never refused by conn_open(); during a
\* call they differ only by connections the transport closed itself.
SlotAgreement ==
    /\ pc = "idle" => open = {c \in Conns : conns[c].active}
    /\ \A c \in Conns : conns[c].active /\ c \notin open => IsDead(c)
    /\ \A c \in open : conns[c].active /\ conns[c].notify

\* When an entry point returns, flush_dead() has left no connection flagged,
\* those flagged by the wills of its own teardowns included.
IdleClean == pc = "idle" => NoneDead

\* What is true in the middle of a call.  The connection being fed exists
\* while a packet of it is handled, and a CONNECT that has passed its checks
\* finds no other connection of its client id that is not on its way out.
CallInv ==
    /\ IF pc \in {"feed", "bind", "takeover"}
       THEN cur \in Conns /\ conns[cur].active
       ELSE cur = NoConn
    /\ pc \in {"bind", "takeover"} =>
        /\ Alive(cur)
        /\ conns[cur].session = NoSession
        /\ req.id # NoClient
        /\ req.will => armed < MaxWills
        /\ \A s \in Slots : HoldsId(s, req.id) /\ Connected(s) =>
                pc = "takeover" /\ IsDead(sessions[s].conn)

\* The inductive invariant of this module.
LifecycleInv ==
    TypeOK /\ Linked /\ UniqueIds /\ DisconnectedKept /\ SlotAgreement
           /\ IdleClean /\ CallInv

\* With a session slot for every connection (config.hpp) no CONNECT is ever
\* answered 0x03 for want of a session: there is always a free slot or a
\* disconnected session to evict.
NeverUnavailable ==
    MaxSessions >= MaxConnections => connack # "unavailable"

\* oldest_disconnected_session() finds the session whose connection went
\* first, across the wrap of the ticket counter, as long as fewer than half
\* the counter's range of disconnects happened since.
OldestIsLongestGone ==
    LET gone == {s \in Slots : Disconnected(s)} IN
    gone # {} /\ (\A s \in gone : age[s] < OrderRange \div 2) =>
        /\ Oldest[MaxSessions] \in gone
        /\ \A s \in gone : age[s] <= age[Oldest[MaxSessions]]

SameSession(s) == sessions'[s].used /\ sessions'[s].id = sessions[s].id

\* A session whose connection is not flagged is never released: not by an
\* eviction, an expiry, another client's CONNECT or somebody's teardown.
LiveSessionsKept ==
    [][\A s \in Slots :
        Connected(s) /\ ~IsDead(sessions[s].conn) => SameSession(s)]_vars

\* A disconnected session is given up only to its own client, to expiry, or
\* to a CONNECT that found every slot of the pool taken.
GivenUpForReason ==
    [][\A s \in Slots : Disconnected(s) /\ ~SameSession(s) =>
        \/ pc = "tick"
        \/ req.id = sessions[s].id
        \/ \A t \in Slots : sessions[t].used]_vars

\* Every entry point returns: the cascade of teardowns and wills that a dead
\* connection sets off comes to an end.
CallReturns == (pc # "idle") ~> (pc = "idle")

====
