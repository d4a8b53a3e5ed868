------------------------------ MODULE OutRing ------------------------------
(***************************************************************************)
(* OutRing of transports/posix/common.hpp: a fixed array used as a circle, *)
(* bytes the peer has not accepted yet.                                    *)
(*                                                                         *)
(* A cell outside the window of len bytes from head is never read by the   *)
(* code; it is Junk here, so that reading one would show.                  *)
(***************************************************************************)
EXTENDS Integers, Sequences

CONSTANT OutBufSize   \* Capacity

ASSUME RingAssumption == OutBufSize \in Nat \ {0}

Junk == <<>>

EmptyRing == [buf |-> [i \in 0..(OutBufSize - 1) |-> Junk], head |-> 0, len |-> 0]

\* The cell of the i-th byte, from 0, behind head.
Cell(ring, i) == (ring.head + i) % OutBufSize

Fits(ring, bytes) == ring.len + Len(bytes) <= OutBufSize

\* Mutant: the place to write at is computed without the wrap of head.
AppendedAtLen(ring, bytes) ==
    [ring EXCEPT
        !.buf = [c \in DOMAIN ring.buf |->
            LET new == {i \in 1..Len(bytes) : (ring.len + i - 1) % OutBufSize = c}
            IN IF new = {} THEN ring.buf[c] ELSE bytes[CHOOSE i \in new : TRUE]],
        !.len = @ + Len(bytes)]

\* append(), for a span that fits.
Appended(ring, bytes) ==
    [ring EXCEPT
        !.buf = [c \in DOMAIN ring.buf |->
            LET new == {i \in 1..Len(bytes) : Cell(ring, ring.len + i - 1) = c}
            IN IF new = {} THEN ring.buf[c] ELSE bytes[CHOOSE i \in new : TRUE]],
        !.len = @ + Len(bytes)]

\* front_chunk(): up to the end of the array.
FrontChunk(ring) ==
    LET room == OutBufSize - ring.head
        n == IF ring.len < room THEN ring.len ELSE room
    IN [i \in 1..n |-> ring.buf[ring.head + i - 1]]

NextHead(ring, n) == (ring.head + n) % OutBufSize

\* consume().
Consumed(ring, n) ==
    LET m == IF n > ring.len THEN ring.len ELSE n
        gone == {Cell(ring, i) : i \in 0..(m - 1)}
    IN [buf |-> [c \in DOMAIN ring.buf |-> IF c \in gone THEN Junk ELSE ring.buf[c]],
        head |-> NextHead(ring, m),
        len |-> ring.len - m]

\* What flush() writes when the kernel takes n bytes in all: the front chunk
\* and then, when it went whole, the one that wraps.
Written(ring, n) ==
    LET chunk == FrontChunk(ring)
        next == FrontChunk(Consumed(ring, Len(chunk)))
    IN IF n <= Len(chunk) THEN SubSeq(chunk, 1, n)
       ELSE chunk \o SubSeq(next, 1, n - Len(chunk))

\* How many bytes the kernel takes of len held, and whether it has room after:
\* a short write is one that found the socket buffer full.
Takes(writable, len) == IF writable /\ len > 0 THEN 1..len ELSE {0}
Room(writable, len, n) == writable /\ n = len

\* The bytes held, in order, as a queue.
Contents(ring) == [i \in 1..ring.len |-> ring.buf[Cell(ring, i - 1)]]

====
