------------------------------ MODULE MCEdges ------------------------------
(***************************************************************************)
(* Four components around the broker, for TLC: the pipe transport, the TLS *)
(* adapter, the frame parser and the timers.  They share no state.  A      *)
(* behaviour is one of one of them, the others stay at rest: the states    *)
(* add up instead of multiplying.                                          *)
(***************************************************************************)
EXTENDS Timers, Sequences

CONSTANTS
    Peers, None,
    Fds, MaxReads, OutBufSize, MaxSize, MaxPackets,     \* of Pipe
    MaxConns, MaxRecords, Paces,                        \* of TlsAdapter
    Base, LengthBytes, MaxBodySize, MaxStream           \* of Frame

VARIABLES
    part,    \* which of them moves
    rfd, wfd, ring, dirty, started, pc, ret, count, arg, owner, stray, pipeConn,
    client, orphan, who, peers, sent, wire,
    raw, engineOpen, made, held, conns, tlsPc, tlsRet, cur, phase, taken, records,
    parser, open, stream, handed, result

pipe == <<rfd, wfd, ring, dirty, started, pc, ret, count, arg, owner, stray, pipeConn,
          client, orphan, who, peers, sent, wire>>
tls == <<raw, engineOpen, made, held, conns, tlsPc, tlsRet, cur, phase, taken, records>>
frame == <<parser, open, stream, handed, result>>

P == INSTANCE Pipe WITH conn <- pipeConn
T == INSTANCE TlsAdapter WITH
    who <- raw, pc <- tlsPc, ret <- tlsRet, sent <- taken, wire <- records
F == INSTANCE Frame

Off == [connect |-> 0, idle |-> 0, expiry |-> 0]

EdgesInit ==
    /\ part \in {"pipe", "tls", "frame", "timers"}
    /\ Init /\ (part # "timers" => traits = Off)
    /\ P!Init /\ T!Init /\ F!Init

PipeMoves == part = "pipe" /\ P!Next /\ UNCHANGED <<part, vars, tls, frame>>
TlsMoves == part = "tls" /\ T!Next /\ UNCHANGED <<part, vars, pipe, frame>>
FrameMoves == part = "frame" /\ F!Next /\ UNCHANGED <<part, vars, pipe, tls>>
TimersMove == part = "timers" /\ Next /\ UNCHANGED <<part, pipe, tls, frame>>

EdgesNext == PipeMoves \/ TlsMoves \/ FrameMoves \/ TimersMove

\* The fairness of the part that moves.
EdgesSpec ==
    /\ EdgesInit /\ [][EdgesNext]_<<part, vars, pipe, tls, frame>>
    /\ []<>(part = "pipe" => P!Returned) /\ []<>(part = "pipe" => P!Polling)
    /\ P!Fairness
    /\ []<>(part = "tls" => T!Returned) /\ []<>(part = "tls" => T!Ticking)

-----------------------------------------------------------------------------
(* Properties.                                                             *)

\* Everything has its type.  Between passes the broker has a pipe's connection
\* exactly when its pair is served, or when open() closed that pair under it, and
\* the pair that took its place is then not served; the pipe transport closes
\* only descriptors of its own, each one once, and owns exactly the pair it
\* holds.  The raw transport, the TLS adapter and the broker agree on which
\* connections there are, and no engine is drained on one that is closed.
EdgesAgree ==
    /\ P!TypeOK /\ T!TypeOK /\ F!TypeOK
    /\ P!Agreement /\ P!Descriptors /\ T!Agreement

\* The pipe transport is a transport as transport.hpp promises the broker one,
\* but for a connection whose pair open() replaced: until the next pass its
\* packets go to the new pair, which is never served; no pair that is served is
\* written anything but its own.
PipeImplements == P!Implements

\* What its send() took is written in the end, or the pair is closed.
PipeFlushed == P!Flushed

\* The TLS adapter is a transport as transport.hpp promises the broker one, while
\* the broker does not pace.
TlsImplements == T!Implements

\* What its engines hold leaves with a later tick, or the connection ends.
TlsHeldLeaves == T!HeldLeaves

\* feed() hands over the packets of the stream, however it is cut, and refuses
\* exactly the streams with a length that cannot be read.
FrameExact == F!ChunkingInvisible /\ F!RejectedForReason

====
