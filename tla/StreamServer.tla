---------------------------- MODULE StreamServer ----------------------------
(***************************************************************************)
(* StreamServerTransport (transports/posix/stream_server.hpp): the poll    *)
(* loop that accepts peers, feeds the broker what they write and writes    *)
(* what the broker queued for them.                                        *)
(*                                                                         *)
(* Every system call and every call into the broker is a step.  While the  *)
(* broker runs (pc = "broker") it may send on, give up and close any of    *)
(* its connections, as its deferred teardown allows.  A descriptor stands  *)
(* for the peer behind it: descriptors are only created in accept_new(),   *)
(* which a pass runs before it looks at any slot, so no number that the    *)
(* pass polled is handed out again before the pass is over.                *)
(***************************************************************************)
EXTENDS OutRing, FiniteSetsExt

CONSTANTS
    Peers,        \* whoever connects, each one once, numbered as they come
    None,         \* no descriptor
    MaxConns,
    MaxReads,     \* max_reads_per_pass
    MaxSize,      \* bytes of the widest packet
    MaxPackets,   \* bound: packets sent to a peer
    MaxTotal      \* bound: packets sent in all

ASSUME ServerAssumption ==
    /\ MaxConns \in Nat \ {0} /\ MaxReads \in Nat \ {0}
    /\ MaxSize \in 1..OutBufSize   \* out_buf_size, asserted by Broker
    /\ MaxPackets \in Nat
    /\ Peers \subseteq Nat /\ None \notin Peers

Conns == 1..MaxConns
Listener == 0    \* slot_of of the listener, which comes first in pfds

VARIABLES
    slots,     \* slots_: [fd, dirty, ring]
    backoff,   \* accept_backoff_armed_ and its deadline: "off", "waits", "over"
    pc,        \* where the thread is
    ret,       \* where the broker's call returns to
    todo,      \* what poll() reported and the pass has not served
    cur,       \* ci of the read loop and of flush_all()
    count,     \* attempt of accept_new(), reads of read_into_broker()
    conns,     \* the broker's connections: "none", "active", "dead"
    sent,      \* packets taken for each peer
    peers,     \* [at, shut, inbox, writable] of each peer
    wire       \* the bytes each peer was written

loop == <<pc, ret, todo, cur, count>>
vars == <<slots, backoff, loop, conns, sent, peers, wire>>

\* A peer before it connects, or once it is done with.
Gone(how) == [at |-> how, shut |-> FALSE, inbox |-> 0, writable |-> TRUE]

FreeSlot == [fd |-> None, dirty |-> FALSE, ring |-> EmptyRing]

TypeOK ==
    /\ slots \in [Conns -> [fd : Peers \cup {None}, dirty : BOOLEAN,
            ring : [buf : [0..(OutBufSize - 1) ->
                        {Junk} \cup (Peers \X (1..MaxPackets) \X (1..MaxSize) \X (1..MaxSize))],
                    head : 0..(OutBufSize - 1), len : 0..OutBufSize]]]
    /\ backoff \in {"off", "waits", "over"}
    /\ pc \in {"idle", "events", "accept", "read", "broker", "flush_all"}
    /\ ret \in {"idle", "events", "read", "flush_all"}
    /\ todo \subseteq [ci : 0..MaxConns, fd : Peers \cup {None}, out : BOOLEAN, in : BOOLEAN]
    /\ cur \in Conns /\ count \in 0..(MaxConns + MaxReads)
    /\ conns \in [Conns -> {"none", "active", "dead"}]
    /\ sent \in [Peers -> 0..MaxPackets]
    /\ peers \in [Peers -> [at : {"away", "backlog", "held", "refused", "closed"},
                            shut : BOOLEAN,
                            inbox : {0, 1}, writable : BOOLEAN]]

Init ==
    /\ slots = [ci \in Conns |-> FreeSlot]
    /\ backoff = "off"
    /\ pc = "idle" /\ ret = "idle" /\ todo = {} /\ cur = 1 /\ count = 0
    /\ conns = [ci \in Conns |-> "none"]
    /\ sent = [p \in Peers |-> 0]
    /\ peers = [p \in Peers |-> Gone("away")]
    /\ wire = [p \in Peers |-> <<>>]

-----------------------------------------------------------------------------
(* Slots.                                                                  *)

\* What the next state of a slot, its peer and its wire is once flush() wrote
\* n bytes and the slot became s.
Flushing(ci, n, s) ==
    LET p == slots[ci].fd
    IN /\ n \in Takes(peers[p].writable, slots[ci].ring.len)
       /\ slots' = [slots EXCEPT ![ci] = s]
       /\ peers' = [peers EXCEPT ![p] =
              IF s.fd = None THEN Gone("closed")
              ELSE [peers[p] EXCEPT !.writable = Room(peers[p].writable, slots[ci].ring.len, n)]]
       /\ wire' = [wire EXCEPT ![p] = @ \o Written(slots[ci].ring, n)]

Drained(ci, n) == [slots[ci] EXCEPT !.ring = Consumed(@, n)]

\* A slot whose ring took a packet.
Filled(s, packet) == [s EXCEPT !.ring = Appended(@, packet), !.dirty = TRUE]

\* Mutant: no POLLOUT is asked for.
EventsInOnly(ci) ==
    LET p == slots[ci].fd
    IN [ci |-> ci, fd |-> p, out |-> FALSE,
        in |-> peers[p].inbox > 0 \/ peers[p].shut]

\* The revents of a slot.
Events(ci) ==
    LET p == slots[ci].fd
    IN [ci |-> ci, fd |-> p,
        out |-> slots[ci].ring.len > 0 /\ peers[p].writable,
        in |-> peers[p].inbox > 0 \/ peers[p].shut]

Backlog == {p \in Peers : peers[p].at = "backlog"}

\* The peer accept() returns.
Waiting == Min(Backlog)

\* Mutant: the pause is not lifted when its deadline passes.
ListenerPausedForGood == backoff # "off"

ListenerPaused == backoff = "waits"

\* pfds with a revents that is not 0.
Reported ==
    {Events(ci) : ci \in {c \in Conns : slots[c].fd # None /\ (Events(c).out \/ Events(c).in)}}
    \cup {[ci |-> Listener, fd |-> None, out |-> FALSE, in |-> TRUE] :
            x \in {y \in {1} : ~ListenerPaused /\ Backlog # {}}}

-----------------------------------------------------------------------------
(* A pass of poll_once().                                                  *)

Goto(label) == pc' = label

\* A call into the broker, and where it returns to.
Call(from) == Goto("broker") /\ ret' = from
Tick == Call("flush_all")

\* poll() returned: the pass serves what it reported.
Poll ==
    /\ pc = "idle"
    /\ todo' = Reported
    /\ Goto("events")
    /\ UNCHANGED <<slots, backoff, ret, cur, count, conns, sent, peers, wire>>

\* poll() was interrupted: only the tick and its writes.
PollInterrupted ==
    /\ pc = "idle"
    /\ Tick
    /\ UNCHANGED <<slots, backoff, todo, cur, count, conns, sent, peers, wire>>

\* The entry served next.
Head1 == CHOOSE e \in todo : \A f \in todo : e.ci <= f.ci

ServeListener ==
    /\ pc = "events" /\ todo # {} /\ Head1.ci = Listener
    /\ backoff' = "off"
    /\ todo' = todo \ {Head1}
    /\ count' = 0
    /\ Goto("accept")
    /\ UNCHANGED <<slots, ret, cur, conns, sent, peers, wire>>

\* The slot was closed earlier in this pass.
SkipStale ==
    /\ pc = "events" /\ todo # {} /\ Head1.ci # Listener
    /\ slots[Head1.ci].fd # Head1.fd
    /\ todo' = todo \ {Head1}
    /\ UNCHANGED <<slots, backoff, pc, ret, cur, count, conns, sent, peers, wire>>

ServeSlot(n) ==
    /\ pc = "events" /\ todo # {} /\ Head1.ci # Listener
    /\ slots[Head1.ci].fd = Head1.fd
    /\ IF Head1.out
       THEN Flushing(Head1.ci, n, Drained(Head1.ci, n))
       ELSE n = 0 /\ UNCHANGED <<slots, peers, wire>>
    /\ todo' = todo \ {Head1}
    /\ IF Head1.in
       THEN Goto("read") /\ cur' = Head1.ci /\ count' = 0
       ELSE UNCHANGED <<pc, cur, count>>
    /\ UNCHANGED <<backoff, ret, conns, sent>>

EventsDone ==
    /\ pc = "events" /\ todo = {}
    /\ Tick
    /\ UNCHANGED <<slots, backoff, todo, cur, count, conns, sent, peers, wire>>

FlushAll(n) ==
    /\ pc = "flush_all"
    /\ IF slots[cur].fd # None /\ slots[cur].dirty
       THEN Flushing(cur, n, [Drained(cur, n) EXCEPT !.dirty = FALSE])
       ELSE n = 0 /\ UNCHANGED <<slots, peers, wire>>
    /\ IF cur = MaxConns THEN Goto("idle") /\ cur' = 1
       ELSE cur' = cur + 1 /\ UNCHANGED pc
    /\ UNCHANGED <<backoff, ret, todo, count, conns, sent>>

-----------------------------------------------------------------------------
(* accept_new().                                                           *)

FreeSlots == {ci \in Conns : slots[ci].fd = None}
LowestFree == CHOOSE ci \in FreeSlots : \A c \in FreeSlots : ci <= c

Accepting == pc = "accept" /\ count < MaxConns

\* A peer is given a slot, and the broker a connection.
AcceptOpen ==
    /\ Accepting /\ Backlog # {} /\ FreeSlots # {}
    /\ LET p == Waiting
           ci == LowestFree
           ok == conns[ci] = "none"   \* conn_open()
       IN /\ slots' = [slots EXCEPT ![ci] = [FreeSlot EXCEPT !.fd = IF ok THEN p ELSE None]]
          /\ conns' = [conns EXCEPT ![ci] = IF ok THEN "active" ELSE @]
          /\ peers' = [peers EXCEPT ![p].at = IF ok THEN "held" ELSE "refused"]
    /\ count' = count + 1
    /\ UNCHANGED <<backoff, pc, ret, todo, cur, sent, wire>>

\* No free slot, set_nonblocking() fails, or ECONNABORTED: the peer did not wait.
AcceptRefuse ==
    /\ Accepting /\ Backlog # {}
    /\ peers' = [peers EXCEPT ![Waiting] = Gone("refused")]
    /\ count' = count + 1
    /\ UNCHANGED <<slots, backoff, pc, ret, todo, cur, conns, sent, wire>>

\* EINTR.
AcceptInterrupted ==
    /\ Accepting
    /\ count' = IF count < MaxConns THEN count + 1 ELSE count
    /\ UNCHANGED <<slots, backoff, pc, ret, todo, cur, conns, sent, peers, wire>>

\* No descriptor left: the peer stays in the backlog and the listener pauses.
AcceptFails ==
    /\ Accepting /\ Backlog # {}
    /\ backoff' = "waits"
    /\ Goto("events") /\ count' = 0
    /\ UNCHANGED <<slots, ret, todo, cur, conns, sent, peers, wire>>

\* Nobody is waiting, or the attempts are used up.
AcceptDone ==
    /\ pc = "accept"
    /\ Backlog = {} \/ ~Accepting
    /\ Goto("events") /\ count' = 0
    /\ UNCHANGED <<slots, backoff, ret, todo, cur, conns, sent, peers, wire>>

-----------------------------------------------------------------------------
(* read_into_broker().                                                     *)

\* Mutant: the drain is not bounded.
ReadingOn == pc = "read" /\ slots[cur].fd # None

Reading == pc = "read" /\ count < MaxReads /\ slots[cur].fd # None

\* The count is kept within its type when the loop is not bounded.
CountRead == count' = IF count < MaxReads THEN count + 1 ELSE count

ReadData ==
    /\ Reading /\ peers[slots[cur].fd].inbox > 0
    /\ peers' = [peers EXCEPT ![slots[cur].fd].inbox = @ - 1]
    /\ CountRead
    /\ Call("read")   \* conn_data()
    /\ UNCHANGED <<slots, backoff, todo, cur, conns, sent, wire>>

ReadInterrupted ==
    /\ Reading
    /\ CountRead
    /\ UNCHANGED <<slots, backoff, pc, ret, todo, cur, conns, sent, peers, wire>>

\* Mutant: a transport that closes on its own account tells nobody.
NotTold(ci) == UNCHANGED conns

\* broker.conn_closed(ci).
ConnClosed(ci) == conns' = [conns EXCEPT ![ci] = "none"]

\* EOF or an error: the slot is freed and the broker told, conn_closed().
ReadEnd(n) ==
    /\ Reading
    /\ peers[slots[cur].fd].inbox = 0 /\ peers[slots[cur].fd].shut
    /\ Flushing(cur, n, FreeSlot)
    /\ ConnClosed(cur)
    /\ Call("events") /\ cur' = 1 /\ count' = 0
    /\ UNCHANGED <<backoff, todo, sent>>

\* EAGAIN, or the loop is over.
ReadDone ==
    /\ pc = "read"
    /\ Reading => peers[slots[cur].fd].inbox = 0 /\ ~peers[slots[cur].fd].shut
    /\ Goto("events") /\ cur' = 1 /\ count' = 0
    /\ UNCHANGED <<slots, backoff, ret, todo, conns, sent, peers, wire>>

-----------------------------------------------------------------------------
(* The broker, inside a call.                                              *)

Packet(p, z) == [j \in 1..z |-> <<p, sent[p] + 1, j, z>>]

MayStillSend(p) ==
    /\ sent[p] < MaxPackets
    /\ MapThenSumSet(LAMBDA q : sent[q], Peers) < MaxTotal

\* send() that fits as it is.
SendQueued(ci, z) ==
    /\ pc = "broker" /\ conns[ci] = "active"
    /\ LET p == slots[ci].fd
       IN /\ p # None /\ MayStillSend(p)
          /\ Fits(slots[ci].ring, Packet(p, z))
          /\ slots' = [slots EXCEPT ![ci] = Filled(@, Packet(p, z))]
          /\ sent' = [sent EXCEPT ![p] = @ + 1]
    /\ UNCHANGED <<backoff, loop, conns, peers, wire>>

\* send() on a ring that is too full: it is written, and the span tried once
\* more.  Refused, it costs the connection unless the broker was pacing.
SendFull(ci, z, n, paced) ==
    /\ pc = "broker" /\ conns[ci] = "active"
    /\ LET p == slots[ci].fd
           packet == Packet(p, z)
           s == Drained(ci, n)
           taken == Fits(s.ring, packet)
       IN /\ p # None /\ MayStillSend(p)
          /\ ~Fits(slots[ci].ring, packet)
          /\ Flushing(ci, n, IF taken THEN Filled(s, packet) ELSE s)
          /\ sent' = [sent EXCEPT ![p] = IF taken THEN @ + 1 ELSE @]
          /\ conns' = [conns EXCEPT ![ci] = IF taken \/ paced THEN @ ELSE "dead"]
    /\ UNCHANGED <<backoff, loop>>

\* flush_dead(): close() on the transport, of a connection that was refused a
\* span, or given up for a violation, a timeout or a takeover.
Close(ci, n) ==
    /\ pc = "broker" /\ conns[ci] # "none"
    /\ IF slots[ci].fd # None
       THEN Flushing(ci, n, FreeSlot)
       ELSE n = 0 /\ UNCHANGED <<slots, peers, wire>>
    /\ conns' = [conns EXCEPT ![ci] = "none"]
    /\ UNCHANGED <<backoff, loop, sent>>

Return ==
    /\ pc = "broker" /\ \A ci \in Conns : conns[ci] # "dead"
    /\ Goto(ret) /\ ret' = "idle"
    /\ UNCHANGED <<slots, backoff, todo, cur, count, conns, sent, peers, wire>>

\* The application's publish(), between passes.
Publish ==
    /\ pc = "idle" /\ \E ci \in Conns : conns[ci] = "active"
    /\ Call("idle")
    /\ UNCHANGED <<slots, backoff, todo, cur, count, conns, sent, peers, wire>>

-----------------------------------------------------------------------------
(* The peers, the kernel and the clock.                                    *)

PeerIs(p, change) ==
    /\ peers' = [peers EXCEPT ![p] = change]
    /\ UNCHANGED <<slots, backoff, loop, conns, sent, wire>>

\* What a peer does before it is accepted shows only afterwards.
Held(p) == peers[p].at = "held"

PeerConnects(p) ==
    /\ peers[p].at = "away"
    /\ \A q \in Peers : q < p => peers[q].at # "away"
    /\ PeerIs(p, [peers[p] EXCEPT !.at = "backlog"])

PeerWrites(p) ==
    /\ Held(p) /\ ~peers[p].shut /\ peers[p].inbox = 0
    /\ PeerIs(p, [peers[p] EXCEPT !.inbox = 1])

PeerReads(p) ==
    /\ Held(p) /\ ~peers[p].writable
    /\ PeerIs(p, [peers[p] EXCEPT !.writable = TRUE])

\* It closes its write side; one that is gone altogether also never reads.
PeerShuts(p) ==
    /\ Held(p) /\ ~peers[p].shut
    /\ PeerIs(p, [peers[p] EXCEPT !.shut = TRUE])

BackoffPasses ==
    /\ backoff = "waits"
    /\ backoff' = "over"
    /\ UNCHANGED <<slots, loop, conns, sent, peers, wire>>

-----------------------------------------------------------------------------
Counts == 0..OutBufSize

Thread ==
    \/ Poll \/ PollInterrupted
    \/ ServeListener \/ SkipStale \/ EventsDone
    \/ \E n \in Counts : ServeSlot(n) \/ FlushAll(n) \/ ReadEnd(n)
    \/ AcceptOpen \/ AcceptRefuse
    \/ AcceptInterrupted \/ AcceptFails \/ AcceptDone
    \/ ReadData \/ ReadInterrupted \/ ReadDone
    \/ \E ci \in Conns :
        \/ \E n \in Counts : Close(ci, n)
        \/ \E z \in 1..MaxSize :
            \/ SendQueued(ci, z)
            \/ \E n \in Counts, paced \in BOOLEAN : SendFull(ci, z, n, paced)
    \/ Return

Next ==
    \/ Thread
    \/ Publish
    \/ \E p \in Peers :
        PeerConnects(p) \/ PeerWrites(p) \/ PeerReads(p) \/ PeerShuts(p)
    \/ BackoffPasses

Spec == Init /\ [][Next]_vars

\* run() keeps calling poll_once(), and every call returns; poll() and accept()
\* are not interrupted or short of descriptors for ever; a peer reads; time
\* passes.
Fairness ==
    /\ []<><<loop' # loop>>_vars
    /\ SF_vars(Poll)
    /\ SF_vars(AcceptOpen \/ AcceptRefuse)
    /\ \A p \in Peers : WF_vars(PeerReads(p))
    /\ WF_vars(BackoffPasses)

FairSpec == Spec /\ Fairness

-----------------------------------------------------------------------------
(* Properties.                                                             *)

\* The slots that have a peer.
HeldBy(p) == {ci \in Conns : slots[ci].fd = p}

\* Every variable has its type; between calls into the broker a slot holds a
\* peer exactly when the broker has the connection, and no peer is in two slots:
\* neither side keeps a connection the other has given up, whichever of them
\* closed it.
Agreement ==
    /\ TypeOK
    /\ pc # "broker" => \A ci \in Conns : (slots[ci].fd # None) <=> (conns[ci] = "active")
    /\ \A p \in Peers : IF Held(p) THEN \E ci \in Conns : HeldBy(p) = {ci}
                                   ELSE HeldBy(p) = {}

\* The transport contract, with what is in the rings as what is queued.
Phase ==
    [p \in Peers |->
        CASE peers[p].at = "held" -> "open"
          [] peers[p].at = "closed" -> "closed"
          [] OTHER -> "new"]

Queued ==
    [p \in Peers |->
        IF HeldBy(p) = {} THEN <<>>
        ELSE Contents(slots[CHOOSE ci \in HeldBy(p) : TRUE].ring)]

Contract == INSTANCE Transport WITH phase <- Phase, queued <- Queued

\* Every step of the server is a step of the contract: what send() accepted
\* leaves whole, in order, on its own connection and only until it closes.
Implements == Contract!Spec

\* What send() accepted is written in the end or its connection closes, also
\* when the write at the end of the pass found no room.
Flushed == Contract!Flushed

\* The broker's clock keeps running: no peer that keeps writing and no run of
\* failing accepts holds a pass for ever.
TickRuns == []<>(pc = "broker" /\ ret = "flush_all")

\* A peer that connects is taken or turned away, also after accept() failed
\* for want of descriptors and the listener paused.
Served == \A p \in Peers : (peers[p].at = "backlog") ~> (peers[p].at # "backlog")

====
