-------------------------------- MODULE Pipe --------------------------------
(***************************************************************************)
(* PipeTransport (transports/posix/pipe.hpp): one connection, index 0,     *)
(* over a pair of descriptors that the application hands over.             *)
(*                                                                         *)
(* Descriptors are numbers, with who they belong to: another thread of the *)
(* process may be given a number that open() has just freed.  A free one   *)
(* may be one the application makes for the next open().  The application  *)
(* opens a new pair between any two passes, also over one that is served,  *)
(* and may hand back a number the transport still holds.                   *)
(*                                                                         *)
(* open() does not know the broker.  Over a pair that is served it closes  *)
(* the pair and leaves the broker its connection 0: the connection is      *)
(* orphaned, and the next pass finds that conn_open() is refused.          *)
(***************************************************************************)
EXTENDS OutRing, FiniteSets, FiniteSetsExt

CONSTANTS
    Peers,        \* whoever is behind a pair, each one once
    Fds,          \* descriptor numbers
    None,         \* -1
    MaxReads,     \* max_reads_per_pass
    MaxSize,      \* bytes of the widest packet
    MaxPackets    \* bound: packets sent in all

VARIABLES
    rfd, wfd,     \* rfd_, wfd_
    ring, dirty,  \* ring_, dirty_
    started,      \* started_
    pc, ret,      \* where the thread is, where the broker's call returns to
    count,        \* reads of read_into_broker()
    arg,          \* read_fd, write_fd of open() and what it closed first
    owner,        \* of each descriptor: "free", "pipe", "other"
    stray,        \* a close() hit a descriptor that was not the transport's
    conn,         \* the broker's connection 0: "none", "active", "dead"
    client,       \* history: the peer it was opened for
    orphan,       \* history: open() has closed its pair
    who,          \* the peer behind the pair
    peers,        \* [at, shut, inbox, writable] of each peer
    sent, wire    \* packets taken for each peer, bytes it was written

pair == <<rfd, wfd, ring, dirty, started>>
fdvars == <<arg, owner, stray>>
broker == <<conn, client, orphan>>
vars == <<pair, pc, ret, count, fdvars, broker, who, peers, sent, wire>>

NoArg == [r |-> None, w |-> None, was |-> {}]
Gone(how) == [at |-> how, shut |-> FALSE, inbox |-> 0, writable |-> TRUE]

TypeOK ==
    /\ rfd \in Fds \cup {None} /\ wfd \in Fds \cup {None}
    /\ ring.len \in 0..OutBufSize /\ ring.head \in 0..(OutBufSize - 1)
    /\ dirty \in BOOLEAN /\ started \in BOOLEAN /\ stray \in BOOLEAN /\ orphan \in BOOLEAN
    /\ pc \in {"idle", "open", "poll", "read", "broker", "flush_pass"}
    /\ ret \in {"idle", "read", "tick", "flush_pass"}
    /\ count \in 0..MaxReads
    /\ owner \in [Fds -> {"free", "pipe", "other"}]
    /\ conn \in {"none", "active", "dead"}
    /\ who \in Peers \cup {None} /\ client \in Peers \cup {None}
    /\ sent \in [Peers -> 0..MaxPackets]
    /\ peers \in [Peers -> [at : {"away", "held", "refused", "closed"}, shut : BOOLEAN,
                            inbox : {0, 1}, writable : BOOLEAN]]

Init ==
    /\ rfd = None /\ wfd = None /\ ring = EmptyRing /\ dirty = FALSE /\ started = FALSE
    /\ pc = "idle" /\ ret = "idle" /\ count = 0
    /\ arg = NoArg /\ owner = [fd \in Fds |-> "free"] /\ stray = FALSE
    /\ conn = "none" /\ client = None /\ orphan = FALSE /\ who = None
    /\ peers = [p \in Peers |-> Gone("away")]
    /\ sent = [p \in Peers |-> 0] /\ wire = [p \in Peers |-> <<>>]

-----------------------------------------------------------------------------
(* Descriptors.                                                            *)

\* What a close() of some descriptors makes of those who own them.  What others
\* took while open() ran is given back when it returns.
Freed(fds) ==
    [fd \in Fds |-> IF fd \in fds \/ owner[fd] = "other" THEN "free" ELSE owner[fd]]

\* close_pair().
ClosePair(a, b) ==
    LET fds == {a, b} \ {None}
    IN /\ owner' = Freed(fds)
       /\ stray' = (stray \/ \E fd \in fds : owner[fd] # "pipe")

\* Mutant: what was queued for a pair outlives it.
RingKept == UNCHANGED <<ring, dirty>>

RingCleared == ring' = EmptyRing /\ dirty' = FALSE

\* close_fds(); the peer has then been served, or never was.
CloseFds ==
    /\ ClosePair(rfd, wfd)
    /\ rfd' = None /\ wfd' = None
    /\ RingCleared
    /\ who' = None

Left ==
    [peers EXCEPT ![who] = Gone(IF started THEN "closed" ELSE "refused")]

\* flush() that wrote n bytes, for the ring that is left, r.
Flushing(n, r) ==
    /\ n \in Takes(peers[who].writable, ring.len)
    /\ ring' = r
    /\ peers' = [peers EXCEPT ![who].writable = Room(@, ring.len, n)]
    /\ wire' = [wire EXCEPT ![who] = @ \o Written(ring, n)]

\* flush() and close_fds().
FlushClosing(n) ==
    /\ n \in Takes(peers[who].writable, ring.len)
    /\ wire' = [wire EXCEPT ![who] = @ \o Written(ring, n)]
    /\ peers' = Left
    /\ CloseFds

-----------------------------------------------------------------------------
(* open(), in two steps: the old pair is closed, then the new one judged.  *)

OpenBegins(r, w) ==
    /\ pc = "idle"
    /\ arg' = [r |-> r, w |-> w, was |-> {rfd, wfd} \ {None}]
    /\ LET given == {r, w} \ {None}
           gone == {rfd, wfd} \ {None}
       IN owner' = [fd \in Fds |->
              IF fd \in gone THEN "free" ELSE IF fd \in given THEN "pipe" ELSE owner[fd]]
    /\ rfd' = None /\ wfd' = None
    /\ RingCleared
    /\ peers' = IF who = None THEN peers ELSE Left
    /\ who' = None
    /\ orphan' = (conn # "none")
    /\ pc' = "open"
    /\ UNCHANGED <<started, ret, count, stray, conn, client, sent, wire>>

\* Mutant: a descriptor handed straight back is closed with the rest.
StaleNever(fd) == FALSE

\* r_stale, w_stale.
Stale(fd) == fd # None /\ fd \in arg.was

\* A missing or stale end, or set_nonblocking() fails.
OpenRefuses ==
    /\ pc = "open"
    /\ ClosePair(IF Stale(arg.r) THEN None ELSE arg.r, IF Stale(arg.w) THEN None ELSE arg.w)
    /\ arg' = NoArg /\ pc' = "idle"
    /\ UNCHANGED <<pair, ret, count, broker, who, peers, sent, wire>>

OpenTakes(p) ==
    /\ pc = "open" /\ peers[p].at = "away"
    /\ arg.r # None /\ arg.w # None /\ ~Stale(arg.r) /\ ~Stale(arg.w)
    /\ rfd' = arg.r /\ wfd' = arg.w /\ started' = FALSE
    /\ who' = p
    /\ peers' = [peers EXCEPT ![p].at = "held"]
    /\ owner' = Freed({})
    /\ arg' = NoArg /\ pc' = "idle"
    /\ UNCHANGED <<ring, dirty, ret, count, stray, broker, sent, wire>>

\* Another thread is given a number that open() has just freed.
OthersTake(fd) ==
    /\ pc = "open" /\ owner[fd] = "free"
    /\ owner' = [owner EXCEPT ![fd] = "other"]
    /\ UNCHANGED <<pair, pc, ret, count, arg, stray, broker, who, peers, sent, wire>>

-----------------------------------------------------------------------------
(* A pass of poll_once().                                                  *)

Call(from) == pc' = "broker" /\ ret' = from

\* No pair: only the tick.
PassClosed ==
    /\ pc = "idle" /\ rfd = None
    /\ Call("idle")
    /\ UNCHANGED <<pair, count, fdvars, broker, who, peers, sent, wire>>

\* conn_open() answers ok.
ConnOpens == ~started /\ conn = "none"

\* Mutant: what conn_open() answers is not looked at.
PassStartsAnyway ==
    /\ pc = "idle" /\ rfd # None
    /\ started' = TRUE
    /\ conn' = "active"
    /\ client' = IF ConnOpens THEN who ELSE client
    /\ pc' = "poll"
    /\ UNCHANGED <<rfd, wfd, ring, dirty, ret, count, fdvars, orphan, who, peers, sent, wire>>

\* The first pass over a pair tells the broker; a later one goes on with it.
PassStarts ==
    /\ pc = "idle" /\ rfd # None
    /\ started \/ ConnOpens
    /\ started' = TRUE
    /\ IF started
       THEN UNCHANGED broker
       ELSE conn' = "active" /\ client' = who /\ UNCHANGED orphan
    /\ pc' = "poll"
    /\ UNCHANGED <<rfd, wfd, ring, dirty, ret, count, fdvars, who, peers, sent, wire>>

\* The broker still has a connection 0: the pair is closed, and only the tick
\* is left of the pass.
PassRefused ==
    /\ pc = "idle" /\ rfd # None
    /\ ~started /\ ~ConnOpens
    /\ peers' = Left
    /\ CloseFds
    /\ started' = TRUE
    /\ Call("idle")
    /\ UNCHANGED <<count, arg, broker, sent, wire>>

Interrupted ==
    /\ pc = "poll"
    /\ Call("flush_pass")
    /\ UNCHANGED <<pair, count, fdvars, broker, who, peers, sent, wire>>

\* Mutant: the write end is not polled.
PolledOutNever == FALSE

\* POLLOUT on the write end, which is polled while bytes are waiting.
PolledOut == ring.len > 0 /\ peers[who].writable

Polled(n) ==
    /\ pc = "poll"
    /\ IF PolledOut THEN Flushing(n, Consumed(ring, n)) ELSE n = 0 /\ UNCHANGED <<ring, peers, wire>>
    /\ IF peers[who].inbox > 0 \/ peers[who].shut
       THEN pc' = "read" /\ count' = 0 /\ UNCHANGED ret
       ELSE Call("flush_pass") /\ UNCHANGED count
    /\ UNCHANGED <<rfd, wfd, dirty, started, fdvars, broker, who, sent>>

Reading == pc = "read" /\ count < MaxReads /\ rfd # None

ReadData ==
    /\ Reading /\ peers[who].inbox > 0
    /\ peers' = [peers EXCEPT ![who].inbox = 0]
    /\ count' = count + 1
    /\ Call("read")
    /\ UNCHANGED <<pair, fdvars, broker, who, sent, wire>>

ReadInterrupted ==
    /\ Reading
    /\ count' = count + 1
    /\ UNCHANGED <<pair, pc, ret, fdvars, broker, who, peers, sent, wire>>

\* Mutant: a transport that closes on its own account tells nobody.
NotTold == UNCHANGED broker

\* broker.conn_closed(0).
ConnClosed == conn' = "none" /\ client' = None /\ orphan' = FALSE

\* EOF: what is queued is written, the pair closed and the broker told.
ReadEnd(n) ==
    /\ Reading /\ peers[who].inbox = 0 /\ peers[who].shut
    /\ FlushClosing(n)
    /\ ConnClosed
    /\ Call("tick") /\ count' = 0
    /\ UNCHANGED <<started, arg, sent>>

\* The loop is over: broker.tick().
ReadDone ==
    /\ pc = "read"
    /\ Reading => peers[who].inbox = 0 /\ ~peers[who].shut
    /\ Call("flush_pass") /\ count' = 0
    /\ UNCHANGED <<pair, fdvars, broker, who, peers, sent, wire>>

FlushPass(n) ==
    /\ pc = "flush_pass"
    /\ IF dirty /\ wfd # None
       THEN Flushing(n, Consumed(ring, n))
       ELSE n = 0 /\ UNCHANGED <<ring, peers, wire>>
    /\ dirty' = FALSE
    /\ pc' = "idle"
    /\ UNCHANGED <<rfd, wfd, started, ret, count, fdvars, broker, who, sent>>

-----------------------------------------------------------------------------
(* The broker, inside a call.                                              *)

\* The next packet of the session behind connection 0.
Packet(z) == [j \in 1..z |-> <<client, sent[client] + 1, j, z>>]

\* send(): appended at once, or after one flush, or refused.
Send(z, n, paced) ==
    /\ pc = "broker" /\ conn = "active" /\ wfd # None
    /\ MapThenSumSet(LAMBDA p : sent[p], Peers) < MaxPackets
    /\ LET full == ~Fits(ring, Packet(z))
           left == IF full THEN Consumed(ring, n) ELSE ring
           taken == Fits(left, Packet(z))
       IN /\ IF full
             THEN Flushing(n, IF taken THEN Appended(left, Packet(z)) ELSE left)
             ELSE n = 0 /\ ring' = Appended(left, Packet(z)) /\ UNCHANGED <<peers, wire>>
          /\ dirty' = (dirty \/ taken)
          /\ sent' = [sent EXCEPT ![client] = IF taken THEN @ + 1 ELSE @]
          /\ conn' = IF taken \/ paced THEN conn ELSE "dead"
    /\ UNCHANGED <<rfd, wfd, started, pc, ret, count, fdvars, client, orphan, who>>

\* send() with no pair to write to is refused; unless the broker paces, that is
\* the end of the connection.
SendNowhere ==
    /\ pc = "broker" /\ conn = "active" /\ wfd = None
    /\ conn' = "dead"
    /\ UNCHANGED <<pair, pc, ret, count, fdvars, client, orphan, who, peers, sent, wire>>

\* close(), of a connection refused a span or given up by the broker.
Close(n) ==
    /\ pc = "broker" /\ conn # "none"
    /\ IF wfd # None
       THEN FlushClosing(n)
       ELSE n = 0 /\ CloseFds /\ UNCHANGED <<peers, wire>>
    /\ conn' = "none" /\ client' = None /\ orphan' = FALSE
    /\ UNCHANGED <<started, pc, ret, count, arg, sent>>

\* After conn_closed() the pass still ticks.
Return ==
    /\ pc = "broker" /\ conn # "dead"
    /\ IF ret = "tick" THEN ret' = "flush_pass" /\ UNCHANGED pc ELSE pc' = ret /\ ret' = "idle"
    /\ UNCHANGED <<pair, count, fdvars, broker, who, peers, sent, wire>>

Publish ==
    /\ pc = "idle" /\ conn = "active"
    /\ Call("idle")
    /\ UNCHANGED <<pair, count, fdvars, broker, who, peers, sent, wire>>

-----------------------------------------------------------------------------
(* The peer.                                                               *)

PeerIs(change) ==
    /\ peers' = [peers EXCEPT ![who] = change]
    /\ UNCHANGED <<pair, pc, ret, count, fdvars, broker, who, sent, wire>>

PeerWrites ==
    /\ who # None /\ peers[who].inbox = 0 /\ ~peers[who].shut
    /\ PeerIs([peers[who] EXCEPT !.inbox = 1])
PeerReads == who # None /\ ~peers[who].writable /\ PeerIs([peers[who] EXCEPT !.writable = TRUE])
PeerShuts == who # None /\ ~peers[who].shut /\ PeerIs([peers[who] EXCEPT !.shut = TRUE])

-----------------------------------------------------------------------------
Ends == Fds \cup {None}

Next ==
    \/ \E r, w \in Ends : OpenBegins(r, w)
    \/ OpenRefuses
    \/ \E p \in Peers : OpenTakes(p)
    \/ \E fd \in Fds : OthersTake(fd)
    \/ PassClosed \/ PassStarts \/ PassRefused \/ Interrupted
    \/ ReadData \/ ReadInterrupted \/ ReadDone
    \/ \E n \in 0..OutBufSize :
        \/ Polled(n) \/ ReadEnd(n) \/ FlushPass(n) \/ Close(n)
        \/ \E z \in 1..MaxSize, paced \in BOOLEAN : Send(z, n, paced)
    \/ SendNowhere \/ Return \/ Publish
    \/ PeerWrites \/ PeerReads \/ PeerShuts

Spec == Init /\ [][Next]_vars

\* poll_once() returns and is called again for a pair that is held; poll() is not
\* interrupted for ever; the peer reads.
Returned == pc = "idle"
Polling == pc = "poll" \/ rfd = None

Fairness ==
    /\ SF_vars(\E n \in 0..OutBufSize : Polled(n))
    /\ WF_vars(PeerReads)

FairSpec == Spec /\ []<>Returned /\ []<>Polling /\ Fairness

-----------------------------------------------------------------------------
(* Properties.                                                             *)

\* The transport never closes a descriptor that is not its own, whatever it is
\* handed and whoever took a freed number meanwhile, and it leaks none: between
\* passes the ones it owns are the ones it holds.
Descriptors ==
    /\ ~stray
    /\ pc = "idle" => {fd \in Fds : owner[fd] = "pipe"} = {rfd, wfd} \ {None}

\* Between passes the broker has a connection 0 exactly when a pass has started
\* the pair that is held, which is then the one it was opened for, or when open()
\* has orphaned it; and the pair that took its place is not served.
Agreement ==
    pc = "idle" =>
        LET served == rfd # None /\ started
        IN /\ (conn = "active") <=> (served \/ orphan)
           /\ served => ~orphan /\ client = who

Phase == [p \in Peers |->
    CASE peers[p].at = "held" /\ started -> "open"
      [] peers[p].at = "closed" -> "closed"
      [] OTHER -> "new"]
Queued == [p \in Peers |-> IF p = who THEN Contents(ring) ELSE <<>>]

Contract == INSTANCE Transport WITH phase <- Phase, queued <- Queued

\* What the broker sends on an orphaned connection goes to the pair that took
\* the place of the one it was for, and nowhere else, and never makes that pair
\* a connection.
Misdirected ==
    /\ orphan /\ ~started
    /\ Phase' = Phase
    /\ \A p \in Peers \ {who} : wire'[p] = wire[p] /\ Queued'[p] = Queued[p]

\* Every step is a step of the transport contract, but those on a connection
\* that open() orphaned, up to the next pass.  Whatever the order of open(),
\* publish() and the passes, a pair that is served is written what was sent for
\* it and nothing queued for another one.
Implements == Contract!Init /\ [][Contract!Next \/ Misdirected]_(Contract!vars)

\* What send() accepted is written in the end, or the pair is closed.
Flushed == Contract!Flushed

====
