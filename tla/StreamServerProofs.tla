------------------------- MODULE StreamServerProofs -------------------------
(***************************************************************************)
(* StreamServer, for any number of slots and peers, any size of the rings  *)
(* and of the packets.  The ring of OutRing is a queue of bytes; the       *)
(* server and the broker agree on the connections; and every step of the   *)
(* server is a step of Transport.                                          *)
(***************************************************************************)
EXTENDS StreamServer, TLAPS

\* Most leaves are first-order; a leaf with arithmetic names the SMT solver.
USE ZenonT(60)

-----------------------------------------------------------------------------
(* OutRing.                                                                *)

Cells == 0..(OutBufSize - 1)

\* The states of a ring over a set of bytes.
Rings(S) == [buf : [Cells -> S], head : Cells, len : 0..OutBufSize]

\* The wrap of a place at most one capacity past the array.
LEMMA WrapOnce ==
    ASSUME NEW t \in Nat, t < 2 * OutBufSize
    PROVE  t % OutBufSize = IF t < OutBufSize THEN t ELSE t - OutBufSize
  <1>1. OutBufSize \in Nat /\ OutBufSize > 0
    BY RingAssumption, SMTT(60)
  <1>2. CASE t < OutBufSize
    BY <1>1, <1>2, Z3
  <1>3. CASE OutBufSize <= t
    BY <1>1, <1>3, Z3
  <1> QED
    BY <1>1, <1>2, <1>3, SMTT(60)

\* A window no longer than the array visits no cell twice.
LEMMA CellRight ==
    ASSUME NEW S, NEW ring \in Rings(S), NEW i \in Nat, i < OutBufSize
    PROVE  /\ Cell(ring, i) \in Cells
           /\ Cell(ring, i) = IF ring.head + i < OutBufSize THEN ring.head + i
                              ELSE ring.head + i - OutBufSize
           /\ \A j \in Nat : j < OutBufSize /\ Cell(ring, j) = Cell(ring, i) => j = i
  <1>1. OutBufSize \in Nat /\ OutBufSize > 0 /\ ring.head \in Nat /\ ring.head < OutBufSize
    BY RingAssumption, SMTT(60) DEF Rings, Cells
  <1>2. \A j \in Nat : j < OutBufSize =>
            Cell(ring, j) = IF ring.head + j < OutBufSize THEN ring.head + j
                            ELSE ring.head + j - OutBufSize
    <2> SUFFICES ASSUME NEW j \in Nat, j < OutBufSize
                 PROVE  Cell(ring, j) = IF ring.head + j < OutBufSize THEN ring.head + j
                                        ELSE ring.head + j - OutBufSize
      BY SMTT(60)
    <2>1. ring.head + j \in Nat /\ ring.head + j < 2 * OutBufSize
      BY <1>1, SMTT(60)
    <2> QED
      BY <1>1, <2>1, WrapOnce, SMTT(60) DEF Cell
  <1> QED
    BY <1>1, <1>2, SMTT(60) DEF Cells

\* A concatenation, element by element.
LEMMA Concatenation ==
    ASSUME NEW S, NEW s \in Seq(S), NEW t \in Seq(S)
    PROVE  /\ s \o t \in Seq(S) /\ Len(s \o t) = Len(s) + Len(t)
           /\ \A i \in 1..(Len(s) + Len(t)) :
                (s \o t)[i] = IF i <= Len(s) THEN s[i] ELSE t[i - Len(s)]
  BY SMTT(60)

\* Sequences with the same elements are the same, and the whole of one is
\* itself.
LEMMA SameElements ==
    ASSUME NEW S, NEW s \in Seq(S), NEW t \in Seq(S),
           Len(s) = Len(t), \A i \in 1..Len(s) : s[i] = t[i]
    PROVE  s = t
  BY SMTT(60)

LEMMA WholeOf ==
    ASSUME NEW S, NEW s \in Seq(S)
    PROVE  SubSeq(s, 1, Len(s)) = s
  BY SMTT(60)

\* A concatenation, as a function.
LEMMA ConcatFunction ==
    ASSUME NEW S, NEW s \in Seq(S), NEW t \in Seq(S)
    PROVE  s \o t = [i \in 1..(Len(s) + Len(t)) |-> IF i <= Len(s) THEN s[i] ELSE t[i - Len(s)]]
  <1> DEFINE c == s \o t
  <1>1. /\ c \in Seq(S) /\ Len(c) = Len(s) + Len(t)
        /\ \A i \in 1..(Len(s) + Len(t)) : c[i] = IF i <= Len(s) THEN s[i] ELSE t[i - Len(s)]
    BY Concatenation
  <1> HIDE DEF c
  <1>2. c = [i \in 1..Len(c) |-> c[i]]
    BY <1>1, SMTT(60)
  <1>3. c = [i \in 1..(Len(s) + Len(t)) |-> IF i <= Len(s) THEN s[i] ELSE t[i - Len(s)]]
    BY <1>1, <1>2, SMTT(60)
  <1> QED
    BY <1>3, SMTT(60) DEF c

\* A function on the first n numbers is a sequence of n.
LEMMA FunctionSeq ==
    ASSUME NEW S, NEW n \in Nat, NEW f \in [1..n -> S]
    PROVE  f \in Seq(S) /\ Len(f) = n
  BY SMTT(60)

\* The contents of a ring are a sequence of its bytes.
LEMMA ContentsSeq ==
    ASSUME NEW S, NEW ring \in Rings(S)
    PROVE  Contents(ring) \in Seq(S) /\ Len(Contents(ring)) = ring.len
  <1>1. /\ OutBufSize \in Nat /\ ring.len \in Nat /\ ring.len <= OutBufSize
        /\ ring.buf \in [Cells -> S]
    BY RingAssumption, SMTT(60) DEF Rings
  <1>2. \A i \in 1..ring.len : ring.buf[Cell(ring, i - 1)] \in S
    <2> SUFFICES ASSUME NEW i \in 1..ring.len
                 PROVE  ring.buf[Cell(ring, i - 1)] \in S
      BY SMTT(60)
    <2>1. i - 1 \in Nat /\ i - 1 < OutBufSize
      BY <1>1, SMTT(60)
    <2> QED
      BY <1>1, <2>1, CellRight, SMTT(60)
  <1>3. Contents(ring) \in [1..ring.len -> S]
    BY <1>2 DEF Contents
  <1> HIDE DEF Contents
  <1> QED
    BY <1>1, <1>3, FunctionSeq, SMTT(60)

\* append() of a span that fits adds it behind what is held, wherever the held
\* bytes and the span wrap.
THEOREM AppendIsEnqueue ==
    ASSUME NEW S, NEW ring \in Rings(S), NEW bytes \in Seq(S), Fits(ring, bytes)
    PROVE  /\ Appended(ring, bytes) \in Rings(S)
           /\ Contents(Appended(ring, bytes)) = Contents(ring) \o bytes
  <1> DEFINE new(c) == {i \in 1..Len(bytes) : Cell(ring, ring.len + i - 1) = c}
             buf == [c \in Cells |-> IF new(c) = {} THEN ring.buf[c]
                                     ELSE bytes[CHOOSE i \in new(c) : TRUE]]
             after == Appended(ring, bytes)
  <1>1. /\ OutBufSize \in Nat /\ OutBufSize > 0
        /\ ring.len \in Nat /\ Len(bytes) \in Nat /\ ring.len + Len(bytes) <= OutBufSize
        /\ ring.buf \in [Cells -> S] /\ ring.head \in Cells
    BY RingAssumption, SMTT(60) DEF Rings, Fits
  <1>2. after = [buf |-> buf, head |-> ring.head, len |-> ring.len + Len(bytes)]
    <2>1. DOMAIN ring.buf = Cells
      BY <1>1, SMTT(60)
    <2>2. after = [ring EXCEPT !.buf = buf, !.len = ring.len + Len(bytes)]
      BY <2>1, SMTT(60) DEF Appended
    <2> HIDE DEF after, buf
    <2> QED
      BY <2>2 DEF Rings
  <1>3. \A i \in 1..Len(bytes) : bytes[i] \in S
    BY SMTT(60)
  <1>4. buf \in [Cells -> S]
    <2> SUFFICES ASSUME NEW c \in Cells, new(c) # {}
                 PROVE  bytes[CHOOSE i \in new(c) : TRUE] \in S
      BY <1>1, SMTT(60)
    <2>1. (CHOOSE i \in new(c) : TRUE) \in 1..Len(bytes)
      BY SMTT(60)
    <2> QED
      BY <1>3, <2>1, SMTT(60)
  <1>5. after \in Rings(S)
    BY <1>1, <1>2, <1>4, SMTT(60) DEF Rings
  <1>6. ASSUME NEW i \in 1..ring.len
        PROVE  buf[Cell(ring, i - 1)] = ring.buf[Cell(ring, i - 1)]
    <2>1. i - 1 \in Nat /\ i - 1 < OutBufSize
      BY <1>1, SMTT(60)
    <2>2. Cell(ring, i - 1) \in Cells
      BY <2>1, CellRight, SMTT(60)
    <2>3. new(Cell(ring, i - 1)) = {}
      <3> SUFFICES ASSUME NEW k \in 1..Len(bytes),
                          Cell(ring, ring.len + k - 1) = Cell(ring, i - 1)
                   PROVE  FALSE
        BY SMTT(60)
      <3>1. ring.len + k - 1 \in Nat /\ ring.len + k - 1 < OutBufSize
        BY <1>1, SMTT(60)
      <3>2. ring.len + k - 1 = i - 1
        BY <2>1, <3>1, CellRight, SMTT(60)
      <3> QED
        BY <1>1, <3>2, SMTT(60)
    <2> QED
      BY <2>2, <2>3, SMTT(60)
  <1>7. ASSUME NEW k \in 1..Len(bytes)
        PROVE  buf[Cell(ring, ring.len + k - 1)] = bytes[k]
    <2>1. ring.len + k - 1 \in Nat /\ ring.len + k - 1 < OutBufSize
      BY <1>1, SMTT(60)
    <2>2. Cell(ring, ring.len + k - 1) \in Cells
      BY <2>1, CellRight, SMTT(60)
    <2>3. new(Cell(ring, ring.len + k - 1)) = {k}
      <3> SUFFICES ASSUME NEW j \in 1..Len(bytes),
                          Cell(ring, ring.len + j - 1) = Cell(ring, ring.len + k - 1)
                   PROVE  j = k
        BY SMTT(60)
      <3>1. ring.len + j - 1 \in Nat /\ ring.len + j - 1 < OutBufSize
        BY <1>1, SMTT(60)
      <3>2. ring.len + j - 1 = ring.len + k - 1
        BY <2>1, <3>1, CellRight, SMTT(60)
      <3> QED
        BY <1>1, <3>2, SMTT(60)
    <2> QED
      BY <2>2, <2>3, SMTT(60)
  <1> HIDE DEF buf
  <1>8. Contents(after) = [i \in 1..(ring.len + Len(bytes)) |-> buf[Cell(ring, i - 1)]]
    BY <1>2, SMTT(60) DEF Contents, Cell
  <1>9. Contents(ring) \o bytes =
            [i \in 1..(ring.len + Len(bytes)) |->
                IF i <= ring.len THEN ring.buf[Cell(ring, i - 1)] ELSE bytes[i - ring.len]]
    <2>1. Contents(ring) \in Seq(S) /\ Len(Contents(ring)) = ring.len
      BY ContentsSeq, SMTT(60)
    <2>2. \A i \in 1..ring.len : Contents(ring)[i] = ring.buf[Cell(ring, i - 1)]
      BY <1>1, SMTT(60) DEF Contents
    <2> HIDE DEF Contents, Cell
    <2>3. Contents(ring) \o bytes =
              [i \in 1..(ring.len + Len(bytes)) |->
                  IF i <= ring.len THEN Contents(ring)[i] ELSE bytes[i - ring.len]]
      BY <2>1, ConcatFunction, SMTT(60)
    <2> QED
      BY <1>1, <2>2, <2>3, SMTT(60)
  <1>10. \A i \in 1..(ring.len + Len(bytes)) :
            buf[Cell(ring, i - 1)] =
                IF i <= ring.len THEN ring.buf[Cell(ring, i - 1)] ELSE bytes[i - ring.len]
    <2> SUFFICES ASSUME NEW i \in 1..(ring.len + Len(bytes))
                 PROVE  buf[Cell(ring, i - 1)] = IF i <= ring.len
                            THEN ring.buf[Cell(ring, i - 1)] ELSE bytes[i - ring.len]
      BY SMTT(60)
    <2>1. CASE i <= ring.len
      BY <1>1, <1>6, <2>1, SMTT(60)
    <2>2. CASE i > ring.len
      <3>1. i - ring.len \in 1..Len(bytes) /\ ring.len + (i - ring.len) - 1 = i - 1
        BY <1>1, <2>2, SMTT(60)
      <3>2. buf[Cell(ring, ring.len + (i - ring.len) - 1)] = bytes[i - ring.len]
        BY <1>7, <3>1, SMTT(60)
      <3> QED
        BY <1>1, <2>2, <3>1, <3>2, SMTT(60)
    <2> QED
      BY <1>1, <2>1, <2>2, SMTT(60)
  <1> QED
    BY <1>5, <1>8, <1>9, <1>10, SMTT(60)

\* consume() takes that many bytes off the front, and head stays on the array.
THEOREM ConsumeIsDequeue ==
    ASSUME NEW S, Junk \in S, NEW ring \in Rings(S), NEW n \in 0..ring.len
    PROVE  /\ Consumed(ring, n) \in Rings(S)
           /\ Contents(Consumed(ring, n)) = SubSeq(Contents(ring), n + 1, ring.len)
  <1> DEFINE taken == {Cell(ring, i) : i \in 0..(n - 1)}
             buf == [c \in Cells |-> IF c \in taken THEN Junk ELSE ring.buf[c]]
             after == Consumed(ring, n)
  <1>1. /\ OutBufSize \in Nat /\ OutBufSize > 0
        /\ ring.len \in Nat /\ ring.len <= OutBufSize /\ n \in Nat /\ n <= ring.len
        /\ ring.buf \in [Cells -> S] /\ ring.head \in Nat /\ ring.head < OutBufSize
    BY RingAssumption, SMTT(60) DEF Rings, Cells
  <1>2. after = [buf |-> buf, head |-> NextHead(ring, n), len |-> ring.len - n]
    <2>1. DOMAIN ring.buf = Cells /\ (IF n > ring.len THEN ring.len ELSE n) = n
      BY <1>1, SMTT(60)
    <2> QED
      BY <2>1 DEF Consumed
  <1>3. NextHead(ring, n) =
            IF ring.head + n < OutBufSize THEN ring.head + n ELSE ring.head + n - OutBufSize
    BY <1>1, WrapOnce, SMTT(60) DEF NextHead
  <1>4. buf \in [Cells -> S]
    BY <1>1, SMTT(60)
  <1>5. after \in Rings(S)
    <2>1. NextHead(ring, n) \in Cells
      BY <1>1, <1>3, SMTT(60) DEF Cells
    <2>2. ring.len - n \in 0..OutBufSize
      BY <1>1, SMTT(60)
    <2> HIDE DEF after, buf
    <2> QED
      BY <1>2, <1>4, <2>1, <2>2, SMTT(60) DEF Rings
  <1>6. ASSUME NEW i \in 1..(ring.len - n)
        PROVE  after.buf[Cell(after, i - 1)] = ring.buf[Cell(ring, n + i - 1)]
    <2>1. n + i - 1 \in Nat /\ n + i - 1 < OutBufSize /\ i - 1 \in Nat /\ i - 1 < OutBufSize
      BY <1>1, SMTT(60)
    <2>2. Cell(after, i - 1) = Cell(ring, n + i - 1)
      <3> HIDE DEF after, buf
      <3>1. after.head = IF ring.head + n < OutBufSize THEN ring.head + n
                         ELSE ring.head + n - OutBufSize
        BY <1>2, <1>3, SMTT(60)
      <3>2. Cell(after, i - 1) = IF after.head + (i - 1) < OutBufSize THEN after.head + (i - 1)
                                 ELSE after.head + (i - 1) - OutBufSize
        BY <1>5, <2>1, CellRight, SMTT(60)
      <3>3. Cell(ring, n + i - 1) = IF ring.head + (n + i - 1) < OutBufSize
                THEN ring.head + (n + i - 1) ELSE ring.head + (n + i - 1) - OutBufSize
        BY <2>1, CellRight, SMTT(60)
      <3> QED
        BY <1>1, <2>1, <3>1, <3>2, <3>3, SMTT(60)
    <2>3. Cell(ring, n + i - 1) \in Cells
      BY <2>1, CellRight, SMTT(60)
    <2>4. Cell(ring, n + i - 1) \notin taken
      <3> SUFFICES ASSUME NEW j \in 0..(n - 1), Cell(ring, j) = Cell(ring, n + i - 1)
                   PROVE  FALSE
        BY SMTT(60)
      <3>1. j \in Nat /\ j < OutBufSize
        BY <1>1, SMTT(60)
      <3>2. j = n + i - 1
        BY <2>1, <3>1, CellRight, SMTT(60)
      <3> QED
        BY <1>1, <3>2, SMTT(60)
    <2>5. after.buf = buf
      BY <1>2, SMTT(60)
    <2> QED
      BY <2>2, <2>3, <2>4, <2>5, SMTT(60)
  <1>7. Contents(after) = [i \in 1..(ring.len - n) |-> ring.buf[Cell(ring, n + i - 1)]]
    <2>1. after.len = ring.len - n
      BY <1>2, SMTT(60)
    <2> HIDE DEF after, buf
    <2> QED
      BY <1>6, <2>1, SMTT(60) DEF Contents
  <1>8. SubSeq(Contents(ring), n + 1, ring.len) =
            [i \in 1..(ring.len - n) |-> ring.buf[Cell(ring, n + i - 1)]]
    <2>1. SubSeq(Contents(ring), n + 1, ring.len) =
              [i \in 1..(ring.len - n) |-> Contents(ring)[n + i]]
      BY <1>1, SMTT(60) DEF Contents
    <2>2. \A i \in 1..(ring.len - n) : n + i \in 1..ring.len /\ (n + i) - 1 = n + i - 1
      BY <1>1, SMTT(60)
    <2> QED
      BY <2>1, <2>2 DEF Contents
  <1> QED
    BY <1>5, <1>7, <1>8, SMTT(60)

\* front_chunk() is the front of what is held, never past the end of the array,
\* and empty only when nothing is held.
THEOREM FrontChunkIsFront ==
    ASSUME NEW S, NEW ring \in Rings(S)
    PROVE  /\ FrontChunk(ring) = SubSeq(Contents(ring), 1, Len(FrontChunk(ring)))
           /\ Len(FrontChunk(ring)) \in 0..ring.len
           /\ ring.head + Len(FrontChunk(ring)) <= OutBufSize
           /\ ring.len > 0 => Len(FrontChunk(ring)) > 0
  <1> DEFINE room == OutBufSize - ring.head
             n == IF ring.len < room THEN ring.len ELSE room
  <1>1. /\ OutBufSize \in Nat /\ OutBufSize > 0
        /\ ring.len \in Nat /\ ring.len <= OutBufSize
        /\ ring.buf \in [Cells -> S] /\ ring.head \in Nat /\ ring.head < OutBufSize
    BY RingAssumption, SMTT(60) DEF Rings, Cells
  <1>2. n \in Nat /\ n <= ring.len /\ ring.head + n <= OutBufSize /\ (ring.len > 0 => n > 0)
    BY <1>1, SMTT(60)
  <1>3. FrontChunk(ring) = [i \in 1..n |-> ring.buf[ring.head + i - 1]]
    BY SMTT(60) DEF FrontChunk
  <1> HIDE DEF n
  <1>4. Len(FrontChunk(ring)) = n
    BY <1>2, <1>3, SMTT(60)
  <1>5. ASSUME NEW i \in 1..n
        PROVE  Cell(ring, i - 1) = ring.head + i - 1 /\ i \in 1..ring.len
    <2>1. i - 1 \in Nat /\ i - 1 < OutBufSize /\ ring.head + (i - 1) < OutBufSize
      BY <1>1, <1>2, SMTT(60)
    <2>2. Cell(ring, i - 1) = ring.head + (i - 1)
      BY <2>1, CellRight, SMTT(60)
    <2> QED
      BY <1>1, <1>2, <2>2, SMTT(60)
  <1>6. SubSeq(Contents(ring), 1, n) = [i \in 1..n |-> ring.buf[Cell(ring, i - 1)]]
    <2>1. SubSeq(Contents(ring), 1, n) = [i \in 1..n |-> Contents(ring)[i]]
      BY <1>1, <1>2, SMTT(60) DEF Contents
    <2> QED
      BY <1>5, <2>1, SMTT(60) DEF Contents
  <1> QED
    BY <1>2, <1>3, <1>4, <1>5, <1>6, SMTT(60)

\* The front of a sequence, in two pieces.
LEMMA FrontAgain ==
    ASSUME NEW S, NEW s \in Seq(S), NEW k \in 0..Len(s), NEW n \in (k + 1)..Len(s)
    PROVE  SubSeq(s, 1, k) \o SubSeq(SubSeq(s, k + 1, Len(s)), 1, n - k) = SubSeq(s, 1, n)
  <1> DEFINE a == SubSeq(s, 1, k)
             d == SubSeq(s, k + 1, Len(s))
             e == SubSeq(d, 1, n - k)
             f == SubSeq(s, 1, n)
  <1>1. Len(s) \in Nat /\ k \in Nat /\ n \in Nat /\ k < n /\ n <= Len(s)
    BY SMTT(60)
  <1>2. a \in Seq(S) /\ Len(a) = k /\ \A i \in 1..k : a[i] = s[i]
    BY <1>1, SMTT(60)
  <1>3. d \in Seq(S) /\ Len(d) = Len(s) - k /\ \A i \in 1..(Len(s) - k) : d[i] = s[k + i]
    BY <1>1, SMTT(60)
  <1>4. f \in Seq(S) /\ Len(f) = n /\ \A i \in 1..n : f[i] = s[i]
    BY <1>1, SMTT(60)
  <1> HIDE DEF d
  <1>5. e \in Seq(S) /\ Len(e) = n - k /\ \A i \in 1..(n - k) : e[i] = d[i]
    BY <1>1, <1>3, SMTT(60)
  <1>6. \A i \in 1..(n - k) : e[i] = s[k + i]
    BY <1>1, <1>3, <1>5, SMTT(60)
  <1> HIDE DEF a, e, f
  <1>7. a \o e \in Seq(S) /\ Len(a \o e) = n
        /\ \A i \in 1..n : (a \o e)[i] = IF i <= k THEN a[i] ELSE e[i - k]
    <2> DEFINE c == a \o e
    <2>1. /\ c \in Seq(S) /\ Len(c) = Len(a) + Len(e)
          /\ \A i \in 1..(Len(a) + Len(e)) : c[i] = IF i <= Len(a) THEN a[i] ELSE e[i - Len(a)]
      BY <1>2, <1>5, Concatenation
    <2> HIDE DEF c
    <2>2. /\ c \in Seq(S) /\ Len(c) = n
          /\ \A i \in 1..n : c[i] = IF i <= k THEN a[i] ELSE e[i - k]
      BY <1>1, <1>2, <1>5, <2>1, SMTT(60)
    <2> QED
      BY <2>2, SMTT(60) DEF c
  <1>8. \A i \in 1..n : (a \o e)[i] = s[i]
    <2> SUFFICES ASSUME NEW i \in 1..n
                 PROVE  (a \o e)[i] = s[i]
      OBVIOUS
    <2>1. CASE i <= k
      <3>1. i \in 1..k
        BY <1>1, <2>1, SMTT(60)
      <3> QED
        BY <1>2, <1>7, <2>1, <3>1, SMTT(60)
    <2>2. CASE i > k
      <3>1. i - k \in 1..(n - k) /\ k + (i - k) = i
        BY <1>1, <2>2, SMTT(60)
      <3>2. e[i - k] = s[k + (i - k)]
        BY <1>6, <3>1, SMTT(60)
      <3> QED
        <4>1. (a \o e)[i] = e[i - k]
          BY <1>1, <1>7, <2>2, SMTT(60)
        <4> QED
          BY <3>1, <3>2, <4>1
    <2>3. i <= k \/ i > k
      BY <1>1, SMTT(60)
    <2> QED
      BY <2>1, <2>2, <2>3
  <1>9. a \o e = f
    BY <1>4, <1>7, <1>8, SameElements
  <1> QED
    BY <1>9, SMTT(60) DEF a, d, e, f

\* flush() writes, in its one or two calls, exactly the oldest n bytes in order.
THEOREM WrittenIsFront ==
    ASSUME NEW S, Junk \in S, NEW ring \in Rings(S), NEW n \in 0..ring.len
    PROVE  Written(ring, n) = SubSeq(Contents(ring), 1, n)
  <1> DEFINE C == Contents(ring)
             k == Len(FrontChunk(ring))
             rest == Consumed(ring, k)
  <1>1. /\ OutBufSize \in Nat /\ OutBufSize > 0
        /\ ring.len \in Nat /\ ring.len <= OutBufSize /\ n \in Nat /\ n <= ring.len
        /\ ring.buf \in [Cells -> S] /\ ring.head \in Nat /\ ring.head < OutBufSize
    BY RingAssumption, SMTT(60) DEF Rings, Cells
  <1>2. C \in Seq(S) /\ Len(C) = ring.len
    BY ContentsSeq, SMTT(60)
  <1>3. FrontChunk(ring) = SubSeq(C, 1, k) /\ k \in Nat /\ k <= ring.len
    BY <1>1, FrontChunkIsFront, SMTT(60)
  <1>4. CASE n <= k
    <2>1. Written(ring, n) = SubSeq(SubSeq(C, 1, k), 1, n)
      BY <1>3, <1>4, SMTT(60) DEF Written
    <2> HIDE DEF C, k
    <2> QED
      BY <1>1, <1>2, <1>3, <1>4, <2>1, SMTT(60) DEF C
  <1>5. CASE n > k
    <2>1. k = OutBufSize - ring.head
      <3>1. k = IF ring.len < OutBufSize - ring.head THEN ring.len ELSE OutBufSize - ring.head
        BY <1>1, SMTT(60) DEF FrontChunk
      <3> HIDE DEF k
      <3> QED
        BY <1>1, <1>3, <1>5, <3>1, SMTT(60)
    <2>2. rest \in Rings(S) /\ Contents(rest) = SubSeq(C, k + 1, ring.len)
      <3>1. k \in 0..ring.len
        BY <1>1, <1>3, SMTT(60)
      <3> HIDE DEF k
      <3> QED
        BY <3>1, ConsumeIsDequeue, SMTT(60)
    <2>3. NextHead(ring, k) = 0
      <3> HIDE DEF k
      <3>1. ring.head + k = OutBufSize
        BY <1>1, <2>1, SMTT(60)
      <3>2. OutBufSize % OutBufSize = 0
        BY <1>1, WrapOnce, SMTT(60)
      <3> QED
        BY <3>1, <3>2, SMTT(60) DEF NextHead
    <2>4. rest.head = 0 /\ rest.len = ring.len - k
      <3>1. (IF k > ring.len THEN ring.len ELSE k) = k
        BY <1>1, <1>3, SMTT(60)
      <3> HIDE DEF k
      <3> QED
        BY <2>3, <3>1, SMTT(60) DEF Consumed
    <2>5. FrontChunk(rest) = SubSeq(C, k + 1, ring.len)
      <3> HIDE DEF rest, k, C
      <3>1. ring.len - k \in Nat /\ ring.len - k <= OutBufSize
        BY <1>1, <1>3, SMTT(60)
      <3>2. Len(FrontChunk(rest)) = ring.len - k
        BY <1>1, <2>4, <3>1, SMTT(60) DEF FrontChunk
      <3>3. FrontChunk(rest) = SubSeq(Contents(rest), 1, ring.len - k)
        BY <2>2, <3>2, FrontChunkIsFront
      <3>4. SubSeq(C, k + 1, ring.len) \in Seq(S)
            /\ Len(SubSeq(C, k + 1, ring.len)) = ring.len - k
        BY <1>1, <1>2, <1>3, SMTT(60)
      <3> QED
        BY <2>2, <3>3, <3>4, WholeOf
    <2>6. Written(ring, n) =
              SubSeq(C, 1, k) \o SubSeq(SubSeq(C, k + 1, ring.len), 1, n - k)
      <3>1. ~(n <= k)
        BY <1>1, <1>3, <1>5, SMTT(60)
      <3> QED
        BY <1>3, <2>5, <3>1 DEF Written
    <2> HIDE DEF C, k
    <2>7. k \in 0..Len(C) /\ n \in (k + 1)..Len(C)
      BY <1>1, <1>2, <1>3, <1>5, SMTT(60)
    <2> QED
      BY <1>2, <2>6, <2>7, FrontAgain DEF C
  <1> QED
    BY <1>1, <1>3, <1>4, <1>5, SMTT(60)

-----------------------------------------------------------------------------
(* The invariant of the server.                                            *)

Bytes == {Junk} \cup (Peers \X (1..MaxPackets) \X (1..MaxSize) \X (1..MaxSize))
SlotRecord == [fd : Peers \cup {None}, dirty : BOOLEAN, ring : Rings(Bytes)]
PeerRecord == [at : {"away", "backlog", "held", "refused", "closed"},
               shut : BOOLEAN, inbox : {0, 1}, writable : BOOLEAN]
Entry == [ci : 0..MaxConns, fd : Peers \cup {None}, out : BOOLEAN, in : BOOLEAN]

SlotsOK == slots \in [Conns -> SlotRecord]
PeersOK == peers \in [Peers -> PeerRecord]
WireOK == wire \in [Peers -> Seq(Bytes)]

ThreadOK ==
    /\ backoff \in {"off", "waits", "over"}
    /\ pc \in {"idle", "events", "accept", "read", "broker", "flush_all"}
    /\ ret \in {"idle", "events", "read", "flush_all"}
    /\ cur \in Conns /\ count \in 0..(MaxConns + MaxReads)
    /\ todo \subseteq Entry

BrokerOK ==
    /\ conns \in [Conns -> {"none", "active", "dead"}]
    /\ sent \in [Peers -> 0..MaxPackets]

\* What a pass has still to serve is the listener or a slot with its peer.
TodoOK == \A e \in todo : e.ci # Listener => e.fd # None

\* A slot holds a peer exactly when the broker has the connection, and the
\* broker does not return before what it gave up is closed.
PairedOK ==
    /\ \A ci \in Conns : (slots[ci].fd # None) <=> (conns[ci] # "none")
    /\ pc # "broker" => \A ci \in Conns : conns[ci] # "dead"

\* A peer is held by one slot, or by none.
HeldOnce ==
    \A c, d \in Conns : slots[c].fd # None /\ slots[c].fd = slots[d].fd => c = d

HeldOK ==
    \A p \in Peers : (peers[p].at = "held") <=> (\E ci \in Conns : slots[ci].fd = p)

\* The inductive invariant.
ServerInv ==
    /\ SlotsOK /\ PeersOK /\ WireOK /\ ThreadOK /\ BrokerOK
    /\ TodoOK /\ PairedOK /\ HeldOnce /\ HeldOK

WF == INSTANCE WellFoundedInduction

\* A set of naturals that is not empty has a least element.
LEMMA LeastNat ==
    ASSUME NEW T \in SUBSET Nat, T # {}
    PROVE  \E m \in T : \A n \in T : m <= n
<1>1. PICK m \in T : \A n \in T : <<n, m>> \notin WF!OpToRel(<, Nat)
  BY WF!NatLessThanWellFounded, WF!WFMin
<1>2. \A n \in T : ~(n < m)
  BY <1>1 DEF WF!OpToRel
<1>3. QED
  BY <1>2, SMTT(60)

\* accept() returns a peer that waits in the backlog.
LEMMA WaitingWaits ==
    ASSUME Backlog # {}
    PROVE  Waiting \in Peers /\ peers[Waiting].at = "backlog"
<1>1. Backlog \in SUBSET Nat
  BY ServerAssumption DEF Backlog
<1>2. \E m \in Backlog : \A n \in Backlog : m <= n
  BY <1>1, LeastNat
<1>3. Waiting \in Backlog
  BY <1>2 DEF Waiting, Min
<1>4. QED
  BY <1>3 DEF Backlog

\* accept_new() takes a slot that is free.
LEMMA LowestFreeIsFree ==
    ASSUME FreeSlots # {}
    PROVE  LowestFree \in Conns /\ slots[LowestFree].fd = None
<1>1. FreeSlots \in SUBSET Nat
  BY ServerAssumption, SMTT(60) DEF FreeSlots, Conns
<1>2. \E m \in FreeSlots : \A n \in FreeSlots : m <= n
  BY <1>1, LeastNat
<1>3. LowestFree \in FreeSlots
  BY <1>2 DEF LowestFree
<1>4. QED
  BY <1>3 DEF FreeSlots

\* The entry a pass serves next is one that poll() reported.
LEMMA Head1Reported ==
    ASSUME ThreadOK, TodoOK, todo # {}
    PROVE  /\ Head1 \in todo /\ Head1 \in Entry
           /\ Head1.ci # Listener => Head1.ci \in Conns /\ Head1.fd # None
<1> DEFINE T == {e.ci : e \in todo}
<1>1. \A e \in todo : e \in Entry /\ e.ci \in 0..MaxConns
  BY DEF ThreadOK, Entry
<1>2. 0..MaxConns \subseteq Nat
  BY ServerAssumption, SMTT(60)
<1>3. T \in SUBSET Nat /\ T # {}
  BY <1>1, <1>2
<1>4. PICK m \in T : \A n \in T : m <= n
  BY <1>3, LeastNat
<1>5. \E e \in todo : \A f \in todo : e.ci <= f.ci
  BY <1>4
<1>6. Head1 \in todo
  BY <1>5 DEF Head1
<1>7. \A c \in 0..MaxConns : c # Listener => c \in Conns
  BY ServerAssumption, SMTT(60) DEF Listener, Conns
<1>8. QED
  BY <1>1, <1>6, <1>7 DEF TodoOK

\* What a slot is.
LEMMA SlotFacts ==
    ASSUME SlotsOK, NEW ci \in Conns
    PROVE  /\ slots[ci] \in SlotRecord
           /\ slots[ci].fd \in Peers \cup {None} /\ slots[ci].dirty \in BOOLEAN
           /\ slots[ci].ring \in Rings(Bytes)
           /\ slots[ci].ring.len \in Nat /\ slots[ci].ring.len <= OutBufSize
<1>1. slots[ci] \in SlotRecord
  BY DEF SlotsOK
<1>2. slots[ci].ring \in Rings(Bytes)
  BY <1>1 DEF SlotRecord
<1>3. slots[ci].ring.len \in 0..OutBufSize
  BY <1>2 DEF Rings
<1>4. QED
  BY <1>1, <1>2, <1>3, RingAssumption, SMTT(60) DEF SlotRecord

\* A ring that gives up its first n bytes.
LEMMA RingDrained ==
    ASSUME NEW r \in Rings(Bytes), NEW n \in 0..r.len
    PROVE  /\ Consumed(r, n) \in Rings(Bytes)
           /\ Contents(Consumed(r, n)) = SubSeq(Contents(r), n + 1, Len(Contents(r)))
           /\ Written(r, n) = SubSeq(Contents(r), 1, n)
           /\ Written(r, n) \in Seq(Bytes)
<1>1. Junk \in Bytes
  BY DEF Bytes
<1>2. Contents(r) \in Seq(Bytes) /\ Len(Contents(r)) = r.len
  BY ContentsSeq
<1>3. /\ Consumed(r, n) \in Rings(Bytes)
      /\ Contents(Consumed(r, n)) = SubSeq(Contents(r), n + 1, r.len)
  BY <1>1, ConsumeIsDequeue
<1>4. Written(r, n) = SubSeq(Contents(r), 1, n)
  BY <1>1, WrittenIsFront
<1>5. r.len \in Nat
  BY RingAssumption, SMTT(60) DEF Rings
<1> HIDE DEF Contents
<1>6. SubSeq(Contents(r), 1, n) \in Seq(Bytes)
  BY <1>2, <1>5, SMTT(60)
<1>7. QED
  BY <1>2, <1>3, <1>4, <1>6

\* A packet the broker sends is a sequence of bytes that are not junk.
LEMMA PacketBytes ==
    ASSUME BrokerOK, NEW p \in Peers, NEW z \in 1..MaxSize, sent[p] < MaxPackets
    PROVE  Packet(p, z) \in Seq(Bytes) /\ Len(Packet(p, z)) = z
<1>1. MaxSize \in Nat /\ MaxPackets \in Nat
  BY ServerAssumption, RingAssumption, SMTT(60)
<1>2. sent[p] \in 0..MaxPackets
  BY DEF BrokerOK
<1>3. sent[p] + 1 \in 1..MaxPackets /\ z \in Nat /\ \A j \in 1..z : j \in 1..MaxSize
  BY <1>1, <1>2, SMTT(60)
<1>4. Packet(p, z) \in [1..z -> Bytes]
  <2>1. \A j \in 1..z : <<p, sent[p] + 1, j, z>> \in Bytes
    BY <1>3, SMTT(60) DEF Bytes
  <2>2. QED
    BY <2>1 DEF Packet
<1>5. QED
  BY <1>3, <1>4, FunctionSeq

\* The ways a slot changes.
LEMMA SlotHolds ==
    ASSUME NEW s \in SlotRecord, NEW p \in Peers, NEW t, t = [s EXCEPT !.fd = p]
    PROVE  t \in SlotRecord /\ t.fd = p /\ t.ring = s.ring
  BY SMTT(60) DEF SlotRecord

LEMMA SlotDrains ==
    ASSUME NEW s \in SlotRecord, NEW r \in Rings(Bytes), NEW t, t = [s EXCEPT !.ring = r]
    PROVE  t \in SlotRecord /\ t.fd = s.fd /\ t.ring = r
  BY SMTT(60) DEF SlotRecord

LEMMA AnyMarked ==
    ASSUME NEW F, NEW D, NEW R, NEW s \in [fd : F, dirty : D, ring : R],
           NEW d \in D, NEW t, t = [s EXCEPT !.dirty = d]
    PROVE  t \in [fd : F, dirty : D, ring : R] /\ t.fd = s.fd /\ t.ring = s.ring
  BY SMTT(60)

LEMMA SlotMarked ==
    ASSUME NEW s \in SlotRecord, NEW t, t = [s EXCEPT !.dirty = FALSE]
    PROVE  t \in SlotRecord /\ t.fd = s.fd /\ t.ring = s.ring
<1>1. s.ring \in Rings(Bytes) /\ FALSE \in BOOLEAN
  BY DEF SlotRecord
<1>2. QED
  BY <1>1, AnyMarked DEF SlotRecord

LEMMA SlotFills ==
    ASSUME NEW s \in SlotRecord, NEW r \in Rings(Bytes), NEW t,
           t = [s EXCEPT !.ring = r, !.dirty = TRUE]
    PROVE  t \in SlotRecord /\ t.fd = s.fd /\ t.ring = r
<1>1. PICK u : u = [s EXCEPT !.ring = r]
  OBVIOUS
<1>2. u \in SlotRecord /\ u.fd = s.fd /\ u.ring = r
  BY <1>1, SMTT(60) DEF SlotRecord
<1>3. t = [u EXCEPT !.dirty = TRUE] /\ TRUE \in BOOLEAN
  BY <1>1
<1>4. QED
  BY <1>2, <1>3, AnyMarked DEF SlotRecord

\* A free slot has the type of one, and an empty ring.
LEMMA FreeSlotFacts ==
    /\ FreeSlot \in SlotRecord /\ FreeSlot.fd = None
    /\ \A p \in Peers : [FreeSlot EXCEPT !.fd = p] \in SlotRecord
    /\ \A p \in Peers : [FreeSlot EXCEPT !.fd = p].fd = p
    /\ \A p \in Peers : [FreeSlot EXCEPT !.fd = p].ring = EmptyRing
    /\ Contents(EmptyRing) = <<>>
<1>1. EmptyRing \in Rings(Bytes)
  <2>1. EmptyRing.buf \in [Cells -> Bytes]
    BY DEF EmptyRing, Cells, Bytes
  <2>2. 0 \in Cells /\ 0 \in 0..OutBufSize
    BY RingAssumption, SMTT(60) DEF Cells
  <2>3. QED
    BY <2>1, <2>2 DEF EmptyRing, Rings
<1>2. Contents(EmptyRing) = <<>>
  <2>1. EmptyRing.len = 0 /\ 1..0 = {}
    BY SMTT(60) DEF EmptyRing
  <2>2. Len(Contents(EmptyRing)) = 0 /\ Contents(EmptyRing) \in Seq(Bytes)
    BY <1>1, <2>1, ContentsSeq
  <2> HIDE DEF Contents, EmptyRing
  <2>3. QED
    BY <2>2, SMTT(60)
<1>3. FreeSlot \in SlotRecord /\ FreeSlot.fd = None /\ FreeSlot.ring = EmptyRing
  BY <1>1 DEF FreeSlot, SlotRecord
<1>4. ASSUME NEW p \in Peers
      PROVE  LET s == [FreeSlot EXCEPT !.fd = p]
             IN  s \in SlotRecord /\ s.fd = p /\ s.ring = EmptyRing
  <2>1. PICK s : s = [FreeSlot EXCEPT !.fd = p]
    OBVIOUS
  <2>2. s \in SlotRecord /\ s.fd = p /\ s.ring = FreeSlot.ring
    BY <1>3, <2>1, SMTT(60) DEF SlotRecord
  <2>3. QED
    BY <1>3, <2>1, <2>2
<1>5. QED
  BY <1>2, <1>3, <1>4

\* The ways a peer changes.
LEMMA AnyPeer ==
    ASSUME NEW A, NEW B, NEW C, NEW D, NEW r \in [at : A, shut : B, inbox : C, writable : D]
    PROVE  /\ \A v \in A : [r EXCEPT !.at = v] \in [at : A, shut : B, inbox : C, writable : D]
           /\ \A v \in B : [r EXCEPT !.shut = v] \in [at : A, shut : B, inbox : C, writable : D]
           /\ \A v \in C : [r EXCEPT !.inbox = v] \in [at : A, shut : B, inbox : C, writable : D]
           /\ \A v \in D : [r EXCEPT !.writable = v] \in [at : A, shut : B, inbox : C, writable : D]
  BY SMTT(60)

\* Only where it is tells whether a slot has it.
LEMMA AnyPeerAt ==
    ASSUME NEW A, NEW B, NEW C, NEW D, NEW r \in [at : A, shut : B, inbox : C, writable : D]
    PROVE  /\ \A v \in A : [r EXCEPT !.at = v].at = v
           /\ \A v \in B : [r EXCEPT !.shut = v].at = r.at
           /\ \A v \in C : [r EXCEPT !.inbox = v].at = r.at
           /\ \A v \in D : [r EXCEPT !.writable = v].at = r.at
  BY SMTT(60)

Places == {"away", "backlog", "held", "refused", "closed"}

LEMMA PeerChanges ==
    ASSUME NEW r \in PeerRecord
    PROVE  /\ \A v \in Places : [r EXCEPT !.at = v] \in PeerRecord /\ [r EXCEPT !.at = v].at = v
           /\ \A v \in BOOLEAN : [r EXCEPT !.shut = v] \in PeerRecord /\ [r EXCEPT !.shut = v].at = r.at
           /\ \A v \in {0, 1} : [r EXCEPT !.inbox = v] \in PeerRecord /\ [r EXCEPT !.inbox = v].at = r.at
           /\ \A v \in BOOLEAN : [r EXCEPT !.writable = v] \in PeerRecord /\ [r EXCEPT !.writable = v].at = r.at
  BY AnyPeer, AnyPeerAt DEF PeerRecord, Places

LEMMA GoneFacts ==
    \A how \in Places : Gone(how) \in PeerRecord /\ Gone(how).at = how
  BY DEF Gone, PeerRecord, Places

\* A step changes one slot, which is free or has p, and nothing about the other
\* peers.
OneSlot(ci, p, s) ==
    /\ slots' = [slots EXCEPT ![ci] = s]
    /\ s \in SlotRecord
    /\ slots[ci].fd \in {p, None} /\ s.fd \in {p, None}
    /\ \A d \in Conns : slots[d].fd = p => d = ci
    /\ \A q \in Peers : q # p => (peers'[q].at = "held" <=> peers[q].at = "held")
    /\ peers'[p].at = "held" <=> s.fd = p

\* Such a step leaves every peer with one slot at most.
LEMMA OneSlotHeld ==
    ASSUME ServerInv, NEW ci \in Conns, NEW p \in Peers, NEW s, OneSlot(ci, p, s)
    PROVE  SlotsOK' /\ HeldOnce' /\ HeldOK'
<1>1. /\ slots \in [Conns -> SlotRecord] /\ HeldOnce /\ HeldOK
      /\ slots' \in [Conns -> SlotRecord]
      /\ slots'[ci] = s /\ \A d \in Conns : d # ci => slots'[d] = slots[d]
  BY DEF OneSlot, ServerInv, SlotsOK
<1>2. p # None /\ None \notin Peers
  BY ServerAssumption
<1>3. HeldOnce'
  <2>1. SUFFICES ASSUME NEW c \in Conns, NEW d \in Conns,
                        slots'[c].fd # None, slots'[c].fd = slots'[d].fd
                 PROVE  c = d
    BY DEF HeldOnce
  <2>2. CASE c # ci /\ d # ci
    BY <1>1, <2>1, <2>2 DEF HeldOnce
  <2>3. QED
    BY <1>1, <2>1, <2>2 DEF OneSlot
<1>4. HeldOK'
  <2>1. ASSUME NEW q \in Peers, q # p
        PROVE  (peers'[q].at = "held") <=> (\E c \in Conns : slots'[c].fd = q)
    <3>1. q # None
      BY <1>2, <2>1
    <3>2. \A c \in Conns : slots'[c].fd = q <=> slots[c].fd = q
      BY <1>1, <2>1, <3>1 DEF OneSlot
    <3>3. QED
      BY <1>1, <2>1, <3>2 DEF OneSlot, HeldOK
  <2>2. (peers'[p].at = "held") <=> (\E c \in Conns : slots'[c].fd = p)
    BY <1>1, <1>2 DEF OneSlot
  <2>3. QED
    BY <2>1, <2>2 DEF HeldOK
<1>5. QED
  BY <1>1, <1>3, <1>4 DEF SlotsOK

\* A peer in a slot is held, and by that slot alone.
LEMMA HeldFacts ==
    ASSUME ServerInv, NEW ci \in Conns, slots[ci].fd # None
    PROVE  /\ slots[ci].fd \in Peers /\ peers[slots[ci].fd].at = "held"
           /\ peers[slots[ci].fd] \in PeerRecord
           /\ \A d \in Conns : slots[d].fd = slots[ci].fd => d = ci
<1>1. slots[ci].fd \in Peers
  BY SlotFacts DEF ServerInv
<1>2. QED
  BY <1>1 DEF ServerInv, HeldOK, HeldOnce, PeersOK

\* How many bytes the kernel takes.
LEMMA TakesFacts ==
    ASSUME NEW len \in Nat, NEW w \in BOOLEAN, NEW n \in Takes(w, len)
    PROVE  n \in 0..len
<1>1. CASE w /\ len > 0
  <2>1. n \in 1..len
    BY <1>1 DEF Takes
  <2>2. QED
    BY <2>1, SMTT(60)
<1>2. CASE ~(w /\ len > 0)
  <2>1. n = 0
    BY <1>2 DEF Takes
  <2>2. QED
    BY <2>1, SMTT(60)
<1>3. QED
  BY <1>1, <1>2

\* flush() of a slot: bytes leave from the front of its ring for its own peer,
\* and the slot keeps its peer or is free.
LEMMA FlushFacts ==
    ASSUME ServerInv, NEW ci \in Conns, NEW n, NEW s \in SlotRecord, slots[ci].fd # None,
           s.fd \in {slots[ci].fd, None}, Flushing(ci, n, s)
    PROVE  /\ OneSlot(ci, slots[ci].fd, s)
           /\ n \in 0..slots[ci].ring.len
           /\ PeersOK' /\ WireOK'
           /\ \A q \in Peers : q # slots[ci].fd => peers'[q] = peers[q]
           /\ peers'[slots[ci].fd].at = IF s.fd = None THEN "closed" ELSE "held"
           /\ wire' = [wire EXCEPT ![slots[ci].fd] = @ \o SubSeq(Contents(slots[ci].ring), 1, n)]
<1>1. PICK p : p = slots[ci].fd
  OBVIOUS
<1>2. PICK r : r = slots[ci].ring
  OBVIOUS
<1>3. /\ p \in Peers /\ p # None /\ peers[p].at = "held" /\ peers[p] \in PeerRecord
      /\ \A d \in Conns : slots[d].fd = p => d = ci
  BY <1>1, HeldFacts
<1>4. r \in Rings(Bytes) /\ r.len \in Nat /\ peers[p].writable \in BOOLEAN
  BY <1>2, <1>3, SlotFacts DEF ServerInv, PeerRecord
<1>5. n \in 0..r.len
  BY <1>1, <1>2, <1>4, TakesFacts DEF Flushing
<1>6. PICK w : w = IF s.fd = None THEN Gone("closed")
                   ELSE [peers[p] EXCEPT !.writable = Room(peers[p].writable, r.len, n)]
  OBVIOUS
<1>7. w \in PeerRecord /\ w.at = IF s.fd = None THEN "closed" ELSE "held"
  <2>1. Room(peers[p].writable, r.len, n) \in BOOLEAN
    BY DEF Room
  <2>2. CASE s.fd = None
    BY <1>6, <2>2, GoneFacts DEF Places
  <2>3. CASE s.fd # None
    BY <1>3, <1>6, <2>1, <2>3, PeerChanges
  <2>4. QED
    BY <2>2, <2>3
<1>8. peers' = [peers EXCEPT ![p] = w]
  <2>1. peers' = [peers EXCEPT ![slots[ci].fd] = IF s.fd = None THEN Gone("closed")
                   ELSE [peers[slots[ci].fd] EXCEPT !.writable =
                            Room(peers[slots[ci].fd].writable, slots[ci].ring.len, n)]]
    BY DEF Flushing
  <2>2. QED
    BY <1>1, <1>2, <1>6, <2>1
<1>9. /\ peers \in [Peers -> PeerRecord] /\ wire \in [Peers -> Seq(Bytes)]
  BY DEF ServerInv, PeersOK, WireOK
<1>10. /\ peers' \in [Peers -> PeerRecord] /\ peers'[p] = w
       /\ \A q \in Peers : q # p => peers'[q] = peers[q]
  BY <1>3, <1>7, <1>8, <1>9
<1>11. OneSlot(ci, p, s)
  <2>1. slots' = [slots EXCEPT ![ci] = s]
    BY DEF Flushing
  <2>2. s.fd = None \/ s.fd = p
    BY <1>1
  <2>3. peers'[p].at = "held" <=> s.fd = p
    <3>1. CASE s.fd = None
      BY <1>3, <1>7, <1>10, <3>1
    <3>2. CASE s.fd = p
      BY <1>3, <1>7, <1>10, <3>2
    <3>3. QED
      BY <2>2, <3>1, <3>2
  <2>4. QED
    BY <1>1, <1>3, <1>10, <2>1, <2>2, <2>3 DEF OneSlot
<1>12. PICK out : out = SubSeq(Contents(r), 1, n)
  OBVIOUS
<1>13. Written(r, n) = out /\ out \in Seq(Bytes)
  BY <1>4, <1>5, <1>12, RingDrained
<1>14. wire' = [wire EXCEPT ![p] = wire[p] \o out]
  BY <1>1, <1>2, <1>13 DEF Flushing
<1>15. wire[p] \o out \in Seq(Bytes)
  BY <1>3, <1>9, <1>13, Concatenation
<1>16. wire' \in [Peers -> Seq(Bytes)]
  BY <1>9, <1>14, <1>15
<1>17. QED
  BY <1>1, <1>2, <1>5, <1>7, <1>10, <1>11, <1>12, <1>14, <1>16 DEF PeersOK, WireOK

\* Where the thread may be and what it counts.
LEMMA ThreadRanges ==
    ASSUME ThreadOK
    PROVE  /\ 0 \in 0..(MaxConns + MaxReads) /\ 1 \in Conns
           /\ count < MaxConns => count + 1 \in 0..(MaxConns + MaxReads)
           /\ count < MaxReads => count + 1 \in 0..(MaxConns + MaxReads)
           /\ cur # MaxConns => cur + 1 \in Conns
           /\ Conns \subseteq 0..MaxConns /\ 0 \in 0..MaxConns
           /\ Listener \notin Conns
<1>1. MaxConns \in Nat /\ MaxReads \in Nat /\ MaxConns > 0 /\ MaxReads > 0
  BY ServerAssumption, SMTT(60)
<1>2. cur \in 1..MaxConns /\ count \in 0..(MaxConns + MaxReads)
  BY DEF ThreadOK, Conns
<1>3. QED
  BY <1>1, <1>2, SMTT(60) DEF Conns, Listener

\* The fields of an entry.
LEMMA AnyEntry ==
    ASSUME NEW C, NEW F, NEW D, NEW c \in C, NEW f \in F, NEW o \in D, NEW i \in D,
           NEW e, e = [ci |-> c, fd |-> f, out |-> o, in |-> i]
    PROVE  e \in [ci : C, fd : F, out : D, in : D] /\ e.ci = c /\ e.fd = f
  BY SMTT(60)

\* poll() reports the listener, and slots with the peer they hold.
LEMMA ReportedFacts ==
    ASSUME ServerInv
    PROVE  Reported \subseteq Entry /\ \A e \in Reported : e.ci # Listener => e.fd # None
<1>1. ASSUME NEW ci \in Conns, slots[ci].fd # None
      PROVE  Events(ci) \in Entry /\ Events(ci).fd # None
  <2>1. ci \in 0..MaxConns
    BY ThreadRanges DEF ServerInv
  <2>2. PICK o, i : /\ o = (slots[ci].ring.len > 0 /\ peers[slots[ci].fd].writable)
                    /\ i = (peers[slots[ci].fd].inbox > 0 \/ peers[slots[ci].fd].shut)
    OBVIOUS
  <2>3. o \in BOOLEAN /\ i \in BOOLEAN /\ slots[ci].fd \in Peers
    BY <1>1, <2>2, HeldFacts
  <2>4. Events(ci) = [ci |-> ci, fd |-> slots[ci].fd, out |-> o, in |-> i]
    BY <2>2 DEF Events
  <2>5. slots[ci].fd \in Peers \cup {None}
    BY <2>3
  <2>6. PICK e : e = Events(ci)
    OBVIOUS
  <2>7. e = [ci |-> ci, fd |-> slots[ci].fd, out |-> o, in |-> i]
    BY <2>4, <2>6
  <2>8. e \in Entry /\ e.fd = slots[ci].fd
    BY <2>1, <2>3, <2>5, <2>7, AnyEntry DEF Entry
  <2>9. QED
    BY <1>1, <2>6, <2>8
<1>2. PICK l : l = [ci |-> Listener, fd |-> None, out |-> FALSE, in |-> TRUE]
  OBVIOUS
<1>3. l \in Entry /\ l.ci = Listener
  <2>1. Listener \in 0..MaxConns
    BY ThreadRanges DEF ServerInv, Listener
  <2>2. None \in Peers \cup {None} /\ FALSE \in BOOLEAN /\ TRUE \in BOOLEAN
    OBVIOUS
  <2>3. QED
    BY <1>2, <2>1, <2>2, AnyEntry DEF Entry
<1>4. \A e \in Reported : e = l \/ \E ci \in Conns : slots[ci].fd # None /\ e = Events(ci)
  BY <1>2 DEF Reported
<1>5. QED
  BY <1>1, <1>3, <1>4

\* What the invariant says of the slots, the peers and the broker.
BodyOK ==
    /\ SlotsOK /\ PeersOK /\ WireOK /\ BrokerOK /\ PairedOK /\ HeldOnce /\ HeldOK

\* A step that moves no bytes and opens and closes nothing.
LEMMA QuietKeeps ==
    ASSUME ServerInv, slots' = slots, conns' = conns, sent' = sent, wire' = wire,
           PeersOK', \A q \in Peers : (peers'[q].at = "held") <=> (peers[q].at = "held"),
           pc' # "broker" => \A ci \in Conns : conns[ci] # "dead"
    PROVE  BodyOK'
  BY DEF ServerInv, BodyOK, SlotsOK, WireOK, BrokerOK, PairedOK, HeldOnce, HeldOK

\* A step that changes one slot, and leaves the broker a connection when the
\* slot has a peer.
LEMMA OneSlotKeeps ==
    ASSUME ServerInv, NEW ci \in Conns, NEW p \in Peers, NEW s, OneSlot(ci, p, s),
           PeersOK', WireOK', NEW c \in {"none", "active", "dead"},
           conns' = [conns EXCEPT ![ci] = c], c = "none" <=> s.fd = None,
           sent' \in [Peers -> 0..MaxPackets],
           pc' # "broker" => pc # "broker" /\ c # "dead"
    PROVE  BodyOK'
<1>1. SlotsOK' /\ HeldOnce' /\ HeldOK'
  BY OneSlotHeld
<1>2. /\ slots \in [Conns -> SlotRecord] /\ conns \in [Conns -> {"none", "active", "dead"}]
      /\ PairedOK
  BY DEF ServerInv, SlotsOK, BrokerOK
<1>3. /\ slots'[ci] = s /\ \A d \in Conns : d # ci => slots'[d] = slots[d]
      /\ conns'[ci] = c /\ \A d \in Conns : d # ci => conns'[d] = conns[d]
      /\ conns' \in [Conns -> {"none", "active", "dead"}]
  BY <1>2 DEF OneSlot
<1>4. \A d \in Conns : (slots'[d].fd # None) <=> (conns'[d] # "none")
  BY <1>2, <1>3 DEF PairedOK
<1>5. pc' # "broker" => \A d \in Conns : conns'[d] # "dead"
  BY <1>2, <1>3 DEF PairedOK
<1>6. QED
  BY <1>1, <1>3, <1>4, <1>5 DEF BodyOK, PairedOK, BrokerOK

\* What a step may do: nothing to what is held, ...
NotHeld == {"away", "backlog", "refused"}

QuietStep ==
    /\ slots' = slots /\ conns' = conns /\ sent' = sent /\ wire' = wire
    /\ PeersOK'
    /\ \A q \in Peers : \/ peers'[q].at = peers[q].at
                        \/ peers[q].at \in NotHeld /\ peers'[q].at \in NotHeld
    /\ pc' # "broker" => \A ci \in Conns : conns[ci] # "dead"

\* ... open a connection for a peer that waits in the backlog, ...
OpenStep(ci, p, s) ==
    /\ OneSlot(ci, p, s) /\ slots[ci].fd = None /\ s.fd = p /\ Contents(s.ring) = <<>>
    /\ peers[p].at = "backlog" /\ peers'[p].at = "held"
    /\ \A q \in Peers : q # p => peers'[q].at = peers[q].at
    /\ PeersOK'
    /\ conns' = [conns EXCEPT ![ci] = "active"]
    /\ sent' = sent /\ wire' = wire /\ pc' = pc /\ pc # "broker"

\* ... or write n bytes to the peer of a slot that becomes s: which gives them
\* up, is freed, or takes a packet.
Moves(ci, p, n, s) ==
    /\ slots[ci].fd = p /\ OneSlot(ci, p, s)
    /\ n \in 0..slots[ci].ring.len
    /\ PeersOK' /\ WireOK'
    /\ \A q \in Peers : q # p => peers'[q].at = peers[q].at
    /\ peers'[p].at = IF s.fd = None THEN "closed" ELSE "held"
    /\ wire' = [wire EXCEPT ![p] = wire[p] \o SubSeq(Contents(slots[ci].ring), 1, n)]

ConnStep(ci, s) ==
    \E c \in {"none", "active", "dead"} :
        /\ conns' = [conns EXCEPT ![ci] = c]
        /\ c = "none" <=> s.fd = None
        /\ pc' # "broker" => pc # "broker" /\ c # "dead"

Left(ci, n) == SubSeq(Contents(slots[ci].ring), n + 1, Len(Contents(slots[ci].ring)))

FlushStep(ci, p, n, s) ==
    /\ Moves(ci, p, n, s) /\ ConnStep(ci, s)
    /\ s.fd = p /\ Contents(s.ring) = Left(ci, n) /\ sent' = sent

CloseStep(ci, p, n, s) ==
    /\ Moves(ci, p, n, s) /\ ConnStep(ci, s)
    /\ s.fd = None /\ sent' = sent

SendStep(ci, p, n, s, z) ==
    /\ Moves(ci, p, n, s) /\ ConnStep(ci, s)
    /\ s.fd = p /\ Contents(s.ring) = Left(ci, n) \o Packet(p, z)
    /\ sent[p] < MaxPackets /\ sent' = [sent EXCEPT ![p] = sent[p] + 1]

DataStep ==
    \E ci \in Conns, p \in Peers, n \in Nat, s \in SlotRecord :
        \/ OpenStep(ci, p, s)
        \/ FlushStep(ci, p, n, s)
        \/ CloseStep(ci, p, n, s)
        \/ \E z \in 1..MaxSize : SendStep(ci, p, n, s, z)

\* flush() of a slot, as such a step.
LEMMA FlushMoves ==
    ASSUME ServerInv, NEW ci \in Conns, NEW n, NEW s \in SlotRecord, slots[ci].fd # None,
           s.fd \in {slots[ci].fd, None}, Flushing(ci, n, s)
    PROVE  /\ Moves(ci, slots[ci].fd, n, s) /\ n \in Nat
           /\ slots[ci].fd \in Peers
<1>1. slots[ci].ring.len \in Nat /\ n \in 0..slots[ci].ring.len /\ slots[ci].fd \in Peers
  BY SlotFacts, FlushFacts, HeldFacts DEF ServerInv
<1>2. n \in Nat
  BY <1>1, SMTT(60)
<1>3. QED
  BY <1>1, <1>2, FlushFacts DEF Moves

\* A connection the broker keeps.
LEMMA ConnKept ==
    ASSUME ServerInv, NEW ci \in Conns, NEW s, slots[ci].fd # None, s.fd = slots[ci].fd,
           conns' = conns, pc' # "broker" => pc # "broker"
    PROVE  ConnStep(ci, s)
<1>1. conns[ci] \in {"none", "active", "dead"} /\ conns[ci] # "none"
  BY DEF ServerInv, BrokerOK, PairedOK
<1>2. conns' = [conns EXCEPT ![ci] = conns[ci]]
  BY DEF ServerInv, BrokerOK
<1>3. pc # "broker" => conns[ci] # "dead"
  BY DEF ServerInv, PairedOK
<1>4. QED
  BY <1>1, <1>2, <1>3 DEF ConnStep

\* A slot with another ring.
LEMMA SlotWithRing ==
    ASSUME NEW s \in SlotRecord, NEW r \in Rings(Bytes)
    PROVE  /\ [s EXCEPT !.ring = r] \in SlotRecord
           /\ [s EXCEPT !.ring = r].fd = s.fd /\ [s EXCEPT !.ring = r].ring = r
BY SMTT(60) DEF SlotRecord

\* The slot flush() leaves.
LEMMA DrainedSlot ==
    ASSUME ServerInv, NEW ci \in Conns, slots[ci].fd # None, NEW n \in 0..slots[ci].ring.len
    PROVE  /\ Drained(ci, n) \in SlotRecord /\ Drained(ci, n).fd = slots[ci].fd
           /\ Drained(ci, n).ring = Consumed(slots[ci].ring, n)
           /\ Drained(ci, n).ring \in Rings(Bytes)
           /\ Contents(Drained(ci, n).ring) = Left(ci, n)
<1>1. PICK r : r = slots[ci].ring
  OBVIOUS
<1>2. slots[ci] \in SlotRecord /\ r \in Rings(Bytes)
  BY <1>1, SlotFacts DEF ServerInv
<1>3. PICK u : u = Consumed(r, n)
  OBVIOUS
<1>4. u \in Rings(Bytes) /\ Contents(u) = SubSeq(Contents(r), n + 1, Len(Contents(r)))
  BY <1>1, <1>2, <1>3, RingDrained
<1>5. PICK t : t = slots[ci]
  OBVIOUS
<1>6. PICK s : s = [t EXCEPT !.ring = u]
  OBVIOUS
<1>7. s \in SlotRecord /\ s.fd = slots[ci].fd /\ s.ring = u
  <2>1. t \in SlotRecord /\ u \in Rings(Bytes)
    BY <1>2, <1>4, <1>5
  <2>2. s \in SlotRecord /\ s.fd = t.fd /\ s.ring = u
    BY <1>6, <2>1, SlotWithRing
  <2>3. QED
    BY <1>5, <2>2
<1>8. Drained(ci, n) = s
  BY <1>1, <1>3, <1>5, <1>6 DEF Drained
<1>9. QED
  BY <1>1, <1>3, <1>4, <1>7, <1>8 DEF Left

\* A write at the front of a slot the broker goes on with: of what POLLOUT
\* reported, and at the end of the pass.
LEMMA FlushIsStep ==
    ASSUME ServerInv, NEW ci \in Conns, NEW n, NEW s, slots[ci].fd # None,
           Flushing(ci, n, s), s \in {Drained(ci, n), [Drained(ci, n) EXCEPT !.dirty = FALSE]},
           conns' = conns, sent' = sent, pc' # "broker" => pc # "broker"
    PROVE  DataStep
<1>1. n \in 0..slots[ci].ring.len
  <2>1. slots[ci].ring.len \in Nat /\ peers[slots[ci].fd].writable \in BOOLEAN
    BY SlotFacts, HeldFacts DEF ServerInv, PeerRecord
  <2>2. n \in Takes(peers[slots[ci].fd].writable, slots[ci].ring.len)
    BY DEF Flushing
  <2>3. QED
    BY <2>1, <2>2, TakesFacts
<1>2. PICK d : d = Drained(ci, n)
  OBVIOUS
<1>3. d \in SlotRecord /\ d.fd = slots[ci].fd /\ Contents(d.ring) = Left(ci, n)
  BY <1>1, <1>2, DrainedSlot
<1>4. s \in SlotRecord /\ s.fd = slots[ci].fd /\ Contents(s.ring) = Left(ci, n)
  <2>1. CASE s = d
    BY <1>3, <2>1
  <2>2. CASE s = [d EXCEPT !.dirty = FALSE]
    <3>1. s \in SlotRecord /\ s.fd = d.fd /\ s.ring = d.ring
      BY <1>3, <2>2, SlotMarked
    <3>2. QED
      BY <1>3, <3>1
  <2>3. QED
    BY <1>2, <2>1, <2>2
<1>5. Moves(ci, slots[ci].fd, n, s) /\ n \in Nat /\ slots[ci].fd \in Peers
  BY <1>4, FlushMoves
<1>6. ConnStep(ci, s)
  BY <1>4, ConnKept
<1>7. FlushStep(ci, slots[ci].fd, n, s)
  BY <1>4, <1>5, <1>6 DEF FlushStep
<1>8. QED
  BY <1>4, <1>5, <1>7 DEF DataStep

\* A slot that is freed, with a last write at its front.
LEMMA CloseIsStep ==
    ASSUME ServerInv, NEW ci \in Conns, NEW n, slots[ci].fd # None,
           Flushing(ci, n, FreeSlot), conns' = [conns EXCEPT ![ci] = "none"], sent' = sent,
           pc' # "broker" => pc # "broker"
    PROVE  DataStep
<1>1. FreeSlot \in SlotRecord /\ FreeSlot.fd = None
  BY FreeSlotFacts
<1>2. Moves(ci, slots[ci].fd, n, FreeSlot) /\ n \in Nat /\ slots[ci].fd \in Peers
  BY <1>1, FlushMoves
<1>3. ConnStep(ci, FreeSlot)
  BY <1>1 DEF ConnStep
<1>4. CloseStep(ci, slots[ci].fd, n, FreeSlot)
  BY <1>1, <1>2, <1>3 DEF CloseStep
<1>5. QED
  BY <1>1, <1>2, <1>4 DEF DataStep

\* A step that leaves the peers alone too.
LEMMA IsQuiet ==
    ASSUME ServerInv, slots' = slots, conns' = conns, sent' = sent, wire' = wire,
           peers' = peers, pc' # "broker" => \A ci \in Conns : conns[ci] # "dead"
    PROVE  QuietStep
  BY DEF ServerInv, PeersOK, QuietStep

\* Nothing is dead unless the broker runs.
LEMMA NoneDead ==
    ASSUME ServerInv, pc # "broker"
    PROVE  \A ci \in Conns : conns[ci] # "dead"
  BY DEF ServerInv, PairedOK

\* The loops over what poll() reported and over the slots.
LEMMA PassSteps ==
    ASSUME ServerInv, NEW n
    PROVE  /\ ServeSlot(n) => QuietStep \/ DataStep
           /\ FlushAll(n) => QuietStep \/ DataStep
           /\ ReadEnd(n) => DataStep
<1>1. ASSUME ServeSlot(n) PROVE QuietStep \/ DataStep
  <2>1. pc = "events" /\ conns' = conns /\ sent' = sent
    BY <1>1 DEF ServeSlot
  <2>2. PICK ci : ci = Head1.ci
    OBVIOUS
  <2>3. ci \in Conns /\ slots[ci].fd # None
    BY <1>1, <2>2, Head1Reported DEF ServeSlot, ServerInv
  <2>4. CASE Head1.out
    <3>1. Flushing(ci, n, Drained(ci, n))
      BY <1>1, <2>2, <2>4 DEF ServeSlot
    <3>2. QED
      BY <2>1, <2>3, <3>1, FlushIsStep
  <2>5. CASE ~Head1.out
    <3>1. slots' = slots /\ peers' = peers /\ wire' = wire
      BY <1>1, <2>5 DEF ServeSlot
    <3>2. QED
      BY <2>1, <3>1, NoneDead, IsQuiet
  <2>6. QED
    BY <2>4, <2>5
<1>2. ASSUME FlushAll(n) PROVE QuietStep \/ DataStep
  <2>1. pc = "flush_all" /\ conns' = conns /\ sent' = sent /\ cur \in Conns
    BY <1>2 DEF FlushAll, ServerInv, ThreadOK
  <2>2. CASE slots[cur].fd # None /\ slots[cur].dirty
    <3>1. Flushing(cur, n, [Drained(cur, n) EXCEPT !.dirty = FALSE])
      BY <1>2, <2>2 DEF FlushAll
    <3>2. QED
      BY <2>1, <2>2, <3>1, FlushIsStep
  <2>3. CASE ~(slots[cur].fd # None /\ slots[cur].dirty)
    <3>1. slots' = slots /\ peers' = peers /\ wire' = wire
      BY <1>2, <2>3 DEF FlushAll
    <3>2. QED
      BY <2>1, <3>1, NoneDead, IsQuiet
  <2>4. QED
    BY <2>2, <2>3
<1>3. ASSUME ReadEnd(n) PROVE DataStep
  <2>1. /\ cur \in Conns /\ slots[cur].fd # None /\ Flushing(cur, n, FreeSlot)
        /\ conns' = [conns EXCEPT ![cur] = "none"] /\ sent' = sent /\ pc' = "broker"
    BY <1>3 DEF ReadEnd, Reading, ConnClosed, Call, Goto, ServerInv, ThreadOK
  <2>2. QED
    BY <2>1, CloseIsStep
<1>4. QED
  BY <1>1, <1>2, <1>3

\* close() on the transport.
LEMMA CloseSteps ==
    ASSUME ServerInv, NEW ci \in Conns, NEW n, Close(ci, n)
    PROVE  DataStep
<1>1. /\ slots[ci].fd # None /\ pc' = pc
      /\ conns' = [conns EXCEPT ![ci] = "none"] /\ sent' = sent
  BY DEF Close, ServerInv, PairedOK, loop
<1>2. Flushing(ci, n, FreeSlot)
  BY <1>1 DEF Close
<1>3. QED
  BY <1>1, <1>2, CloseIsStep

\* A slot that takes a packet.
LEMMA FilledSlot ==
    ASSUME NEW s \in SlotRecord, NEW b \in Seq(Bytes), Fits(s.ring, b)
    PROVE  /\ Filled(s, b) \in SlotRecord /\ Filled(s, b).fd = s.fd
           /\ Contents(Filled(s, b).ring) = Contents(s.ring) \o b
<1>1. PICK r : r = s.ring
  OBVIOUS
<1>2. PICK a : a = Appended(r, b)
  OBVIOUS
<1>3. r \in Rings(Bytes) /\ Fits(r, b)
  BY <1>1 DEF SlotRecord
<1>4. a \in Rings(Bytes) /\ Contents(a) = Contents(r) \o b
  BY <1>2, <1>3, AppendIsEnqueue
<1>5. PICK t : t = [s EXCEPT !.ring = a, !.dirty = TRUE]
  OBVIOUS
<1>6. t \in SlotRecord /\ t.fd = s.fd /\ t.ring = a
  <2>1. a \in Rings(Bytes)
    BY <1>4
  <2>2. QED
    BY <1>5, <2>1, SlotFills
<1>7. Filled(s, b) = t
  BY <1>1, <1>2, <1>5 DEF Filled
<1>8. QED
  BY <1>1, <1>4, <1>6, <1>7

\* Nothing leaves of what is queued.
LEMMA NoneLeave ==
    ASSUME NEW S, NEW s \in Seq(S)
    PROVE  /\ SubSeq(s, 1, 0) = <<>> /\ SubSeq(s, 0 + 1, Len(s)) = s
           /\ s \o <<>> = s
  BY SMTT(60)

\* send() that fits as it is.
LEMMA SendQueuedStep ==
    ASSUME ServerInv, NEW ci \in Conns, NEW z \in 1..MaxSize, SendQueued(ci, z)
    PROVE  DataStep
<1>1. PICK p : p = slots[ci].fd
  OBVIOUS
<1>2. PICK b : b = Packet(p, z)
  OBVIOUS
<1>3. PICK t : t = slots[ci]
  OBVIOUS
<1>4. /\ p # None /\ sent[p] < MaxPackets /\ Fits(t.ring, b)
      /\ slots' = [slots EXCEPT ![ci] = Filled(t, b)]
      /\ sent' = [sent EXCEPT ![p] = sent[p] + 1]
      /\ conns' = conns /\ peers' = peers /\ wire' = wire /\ pc' = pc
  BY <1>1, <1>2, <1>3 DEF SendQueued, MayStillSend, loop
<1>5. /\ p \in Peers /\ peers[p].at = "held" /\ \A d \in Conns : slots[d].fd = p => d = ci
  BY <1>1, <1>4, HeldFacts
<1>6. /\ t \in SlotRecord /\ t.ring \in Rings(Bytes) /\ t.ring.len \in Nat
  BY <1>3, SlotFacts DEF ServerInv
<1>7. b \in Seq(Bytes)
  BY <1>2, <1>4, <1>5, PacketBytes DEF ServerInv
<1>8. PICK s : s = Filled(t, b)
  OBVIOUS
<1>9. s \in SlotRecord /\ s.fd = p /\ Contents(s.ring) = Contents(t.ring) \o b
  BY <1>1, <1>3, <1>4, <1>6, <1>7, <1>8, FilledSlot
<1>10. PICK q : q = Contents(t.ring)
  OBVIOUS
<1>11. q \in Seq(Bytes)
  BY <1>6, <1>10, ContentsSeq
<1>12. OneSlot(ci, p, s)
  <2>1. peers'[p].at = "held" <=> s.fd = p
    BY <1>4, <1>5, <1>9
  <2>2. QED
    BY <1>1, <1>4, <1>5, <1>8, <1>9, <2>1 DEF OneSlot
<1>13. wire' = [wire EXCEPT ![p] = wire[p] \o SubSeq(q, 1, 0)]
  <2>1. wire[p] \in Seq(Bytes) /\ wire \in [Peers -> Seq(Bytes)]
    BY <1>5 DEF ServerInv, WireOK
  <2>2. wire[p] \o SubSeq(q, 1, 0) = wire[p]
    BY <1>11, <2>1, NoneLeave
  <2>3. QED
    BY <1>4, <2>1, <2>2
<1>14. Moves(ci, p, 0, s)
  <2>1. 0 \in 0..t.ring.len
    BY <1>6, SMTT(60)
  <2>2. peers'[p].at = IF s.fd = None THEN "closed" ELSE "held"
    BY <1>4, <1>5, <1>9
  <2>3. QED
    BY <1>1, <1>3, <1>4, <1>10, <1>12, <1>13, <2>1, <2>2 DEF Moves, ServerInv, PeersOK, WireOK
<1>15. ConnStep(ci, s)
  BY <1>1, <1>4, <1>9, ConnKept
<1>16. Left(ci, 0) = q
  BY <1>3, <1>10, <1>11, NoneLeave DEF Left
<1>17. SendStep(ci, p, 0, s, z)
  BY <1>2, <1>4, <1>9, <1>10, <1>14, <1>15, <1>16 DEF SendStep
<1>18. 0 \in Nat
  BY SMTT(60)
<1>19. QED
  BY <1>5, <1>9, <1>17, <1>18 DEF DataStep

\* send() on a ring that was too full.
LEMMA SendFullStep ==
    ASSUME ServerInv, NEW ci \in Conns, NEW z \in 1..MaxSize, NEW n, NEW paced \in BOOLEAN,
           SendFull(ci, z, n, paced)
    PROVE  DataStep
<1>1. PICK p : p = slots[ci].fd
  OBVIOUS
<1>2. PICK b : b = Packet(p, z)
  OBVIOUS
<1>3. PICK d : d = Drained(ci, n)
  OBVIOUS
<1>4. PICK s : s = IF Fits(d.ring, b) THEN Filled(d, b) ELSE d
  OBVIOUS
<1>5. PICK c : c = IF Fits(d.ring, b) \/ paced THEN conns[ci] ELSE "dead"
  OBVIOUS
<1>6. /\ p # None /\ sent[p] < MaxPackets /\ Flushing(ci, n, s)
      /\ sent' = [sent EXCEPT ![p] = IF Fits(d.ring, b) THEN sent[p] + 1 ELSE sent[p]]
      /\ conns' = [conns EXCEPT ![ci] = c]
      /\ conns[ci] = "active" /\ pc' = pc /\ pc = "broker"
  BY <1>1, <1>2, <1>3, <1>4, <1>5 DEF SendFull, MayStillSend, loop
<1>7. /\ p \in Peers /\ peers[p].at = "held" /\ peers[p].writable \in BOOLEAN
  BY <1>1, <1>6, HeldFacts DEF PeerRecord
<1>8. n \in 0..slots[ci].ring.len
  <2>1. slots[ci].ring.len \in Nat
    BY SlotFacts DEF ServerInv
  <2>2. n \in Takes(peers[p].writable, slots[ci].ring.len)
    BY <1>1, <1>6 DEF Flushing
  <2>3. QED
    BY <1>7, <2>1, <2>2, TakesFacts
<1>9. /\ d \in SlotRecord /\ d.fd = p /\ Contents(d.ring) = Left(ci, n)
  BY <1>1, <1>3, <1>6, <1>8, DrainedSlot
<1>10. b \in Seq(Bytes)
  BY <1>2, <1>6, <1>7, PacketBytes DEF ServerInv
<1>11. /\ s \in SlotRecord /\ s.fd = p
       /\ Fits(d.ring, b) => Contents(s.ring) = Left(ci, n) \o b
       /\ ~Fits(d.ring, b) => Contents(s.ring) = Left(ci, n)
  <2>1. CASE Fits(d.ring, b)
    BY <1>4, <1>9, <1>10, <2>1, FilledSlot
  <2>2. CASE ~Fits(d.ring, b)
    BY <1>4, <1>9, <2>2
  <2>3. QED
    BY <2>1, <2>2
<1>12. Moves(ci, p, n, s) /\ n \in Nat
  BY <1>1, <1>6, <1>11, FlushMoves
<1>13. ConnStep(ci, s)
  <2>1. c \in {"none", "active", "dead"} /\ c # "none"
    BY <1>5, <1>6
  <2>2. QED
    BY <1>6, <1>11, <2>1 DEF ConnStep
<1>14. CASE Fits(d.ring, b)
  <2>1. SendStep(ci, p, n, s, z)
    BY <1>2, <1>6, <1>11, <1>12, <1>13, <1>14 DEF SendStep
  <2>2. QED
    BY <1>7, <1>11, <1>12, <2>1 DEF DataStep
<1>15. CASE ~Fits(d.ring, b)
  <2>1. sent' = sent
    BY <1>6, <1>7, <1>15 DEF ServerInv, BrokerOK
  <2>2. FlushStep(ci, p, n, s)
    BY <1>11, <1>12, <1>13, <1>15, <2>1 DEF FlushStep
  <2>3. QED
    BY <1>7, <1>11, <1>12, <2>2 DEF DataStep
<1>16. QED
  BY <1>14, <1>15

\* accept_new() with a slot to give: the broker has no connection there, so
\* conn_open() does not refuse it.
LEMMA AcceptOpenStep ==
    ASSUME ServerInv, AcceptOpen
    PROVE  DataStep
<1>1. PICK p : p = Waiting
  OBVIOUS
<1>2. PICK ci : ci = LowestFree
  OBVIOUS
<1>3. /\ p \in Peers /\ peers[p].at = "backlog"
      /\ ci \in Conns /\ slots[ci].fd = None
  BY <1>1, <1>2, WaitingWaits, LowestFreeIsFree DEF AcceptOpen
<1>4. conns[ci] = "none"
  BY <1>3 DEF ServerInv, PairedOK
<1>5. PICK s : s = [FreeSlot EXCEPT !.fd = p]
  OBVIOUS
<1>6. s \in SlotRecord /\ s.fd = p /\ Contents(s.ring) = <<>>
  BY <1>3, <1>5, FreeSlotFacts
<1>7. /\ slots' = [slots EXCEPT ![ci] = s]
      /\ conns' = [conns EXCEPT ![ci] = "active"]
      /\ peers' = [peers EXCEPT ![p].at = "held"]
      /\ sent' = sent /\ wire' = wire /\ pc' = pc /\ pc = "accept"
  BY <1>1, <1>2, <1>4, <1>5 DEF AcceptOpen, Accepting
<1>8. PICK w : w = [peers[p] EXCEPT !.at = "held"]
  OBVIOUS
<1>9. peers[p] \in PeerRecord /\ peers \in [Peers -> PeerRecord] /\ "held" \in Places
  BY <1>3 DEF ServerInv, PeersOK, Places
<1>10. w \in PeerRecord /\ w.at = "held"
  BY <1>8, <1>9, PeerChanges
<1>11. peers' = [peers EXCEPT ![p] = w]
  BY <1>7, <1>8
<1>12. /\ peers' \in [Peers -> PeerRecord] /\ peers'[p] = w
       /\ \A q \in Peers : q # p => peers'[q] = peers[q]
  BY <1>3, <1>9, <1>10, <1>11
<1>13. \A d \in Conns : slots[d].fd # p
  BY <1>3 DEF ServerInv, HeldOK
<1>14. OneSlot(ci, p, s)
  <2>1. peers'[p].at = "held" <=> s.fd = p
    BY <1>6, <1>10, <1>12
  <2>2. QED
    BY <1>3, <1>6, <1>7, <1>12, <1>13, <2>1 DEF OneSlot
<1>15. OpenStep(ci, p, s)
  BY <1>3, <1>6, <1>7, <1>10, <1>12, <1>14 DEF OpenStep, PeersOK
<1>16. 0 \in Nat
  BY SMTT(60)
<1>17. QED
  BY <1>3, <1>6, <1>15, <1>16 DEF DataStep

\* A step of one peer that changes nothing about being held.
LEMMA PeerQuiet ==
    ASSUME ServerInv, NEW p \in Peers, NEW w \in PeerRecord, peers' = [peers EXCEPT ![p] = w],
           slots' = slots, conns' = conns, sent' = sent, wire' = wire,
           \/ w.at = peers[p].at
           \/ peers[p].at \in NotHeld /\ w.at \in NotHeld,
           pc' # "broker" => pc # "broker" \/ \A ci \in Conns : conns[ci] # "dead"
    PROVE  QuietStep
<1>1. peers \in [Peers -> PeerRecord]
  BY DEF ServerInv, PeersOK
<1>2. /\ peers' \in [Peers -> PeerRecord] /\ peers'[p] = w
      /\ \A q \in Peers : q # p => peers'[q] = peers[q]
  BY <1>1
<1>3. QED
  BY <1>2, NoneDead DEF QuietStep, PeersOK

\* What a peer does, and what accept_new() and the read loop do to one without
\* a slot changing.
LEMMA PeerSteps ==
    ASSUME ServerInv
    PROVE  /\ \A p \in Peers : PeerConnects(p) => QuietStep
           /\ \A p \in Peers : PeerWrites(p) \/ PeerReads(p) \/ PeerShuts(p) => QuietStep
           /\ AcceptRefuse \/ ReadData => QuietStep
<1>1. \A p \in Peers : peers[p] \in PeerRecord
  BY DEF ServerInv, PeersOK
<1>2. ASSUME NEW p \in Peers, NEW w, PeerIs(p, w)
      PROVE  /\ peers' = [peers EXCEPT ![p] = w] /\ slots' = slots /\ conns' = conns
             /\ sent' = sent /\ wire' = wire /\ pc' = pc
  BY <1>2 DEF PeerIs, loop
<1>3. ASSUME NEW p \in Peers, PeerConnects(p) PROVE QuietStep
  <2>1. PICK w : w = [peers[p] EXCEPT !.at = "backlog"]
    OBVIOUS
  <2>2. PeerIs(p, w) /\ peers[p].at = "away"
    BY <1>3, <2>1 DEF PeerConnects
  <2>3. w \in PeerRecord /\ w.at = "backlog"
    BY <1>1, <2>1, PeerChanges DEF Places
  <2>4. QED
    BY <1>2, <2>2, <2>3, PeerQuiet DEF NotHeld
<1>4. ASSUME NEW p \in Peers, PeerWrites(p) \/ PeerReads(p) \/ PeerShuts(p) PROVE QuietStep
  <2>1. PICK w : /\ PeerIs(p, w)
                 /\ \/ w = [peers[p] EXCEPT !.inbox = 1]
                    \/ w = [peers[p] EXCEPT !.writable = TRUE]
                    \/ w = [peers[p] EXCEPT !.shut = TRUE]
    BY <1>4 DEF PeerWrites, PeerReads, PeerShuts
  <2>2. 1 \in {0, 1} /\ TRUE \in BOOLEAN
    OBVIOUS
  <2>3. w \in PeerRecord /\ w.at = peers[p].at
    BY <1>1, <2>1, <2>2, PeerChanges
  <2>4. QED
    BY <1>2, <2>1, <2>3, PeerQuiet
<1>5. ASSUME AcceptRefuse PROVE QuietStep
  <2>1. PICK p : p = Waiting
    OBVIOUS
  <2>2. p \in Peers /\ peers[p].at = "backlog"
    BY <1>5, <2>1, WaitingWaits DEF AcceptRefuse
  <2>3. PICK w : w = Gone("refused")
    OBVIOUS
  <2>4. w \in PeerRecord /\ w.at = "refused"
    BY <2>3, GoneFacts DEF Places
  <2>5. /\ peers' = [peers EXCEPT ![p] = w] /\ slots' = slots /\ conns' = conns
        /\ sent' = sent /\ wire' = wire /\ pc' = pc
    BY <1>5, <2>1, <2>3 DEF AcceptRefuse
  <2>6. QED
    BY <2>2, <2>4, <2>5, PeerQuiet DEF NotHeld
<1>6. ASSUME ReadData PROVE QuietStep
  <2>1. PICK p : p = slots[cur].fd
    OBVIOUS
  <2>2. p \in Peers /\ p # None
    BY <1>6, <2>1, HeldFacts DEF ReadData, Reading, ServerInv, ThreadOK
  <2>3. PICK w : w = [peers[p] EXCEPT !.inbox = peers[p].inbox - 1]
    OBVIOUS
  <2>4. /\ peers' = [peers EXCEPT ![p] = w] /\ slots' = slots /\ conns' = conns
        /\ sent' = sent /\ wire' = wire /\ pc' = "broker" /\ peers[p].inbox > 0
    BY <1>6, <2>1, <2>3 DEF ReadData, Call, Goto
  <2>5. peers[p].inbox \in {0, 1}
    BY <1>1, <2>2 DEF PeerRecord
  <2>6. peers[p].inbox - 1 \in {0, 1}
    BY <2>4, <2>5, SMTT(60)
  <2>7. w \in PeerRecord /\ w.at = peers[p].at
    BY <1>1, <2>2, <2>3, <2>6, PeerChanges
  <2>8. QED
    BY <2>2, <2>4, <2>7, PeerQuiet
<1>7. QED
  BY <1>3, <1>4, <1>5, <1>6

\* Steps of the thread that touch no slot and no peer.
LEMMA LoopSteps ==
    ASSUME ServerInv,
           \/ Poll \/ PollInterrupted \/ ServeListener \/ SkipStale \/ EventsDone
           \/ AcceptInterrupted \/ AcceptFails \/ AcceptDone
           \/ ReadInterrupted \/ ReadDone \/ Return \/ Publish \/ BackoffPasses
    PROVE  QuietStep
<1>1. CASE Return
  BY <1>1, IsQuiet DEF Return
<1>2. CASE BackoffPasses
  BY <1>2, NoneDead, IsQuiet DEF BackoffPasses, loop
<1>3. CASE ~(Return \/ BackoffPasses)
  <2>1. /\ slots' = slots /\ conns' = conns /\ sent' = sent /\ wire' = wire /\ peers' = peers
        /\ pc # "broker"
    BY <1>3 DEF Poll, PollInterrupted, ServeListener, SkipStale, EventsDone, AcceptInterrupted,
                AcceptFails, AcceptDone, ReadInterrupted, ReadDone, Publish, Accepting, Reading
  <2>2. QED
    BY <2>1, NoneDead, IsQuiet
<1>4. QED
  BY <1>1, <1>2, <1>3

\* Every step is quiet, opens a connection or writes to one peer.
LEMMA StepKinds ==
    ASSUME ServerInv, Next
    PROVE  QuietStep \/ DataStep
<1>1. CASE \E n \in Counts : ServeSlot(n) \/ FlushAll(n) \/ ReadEnd(n)
  BY <1>1, PassSteps
<1>2. CASE AcceptOpen
  BY <1>2, AcceptOpenStep
<1>3. CASE \E ci \in Conns : \E n \in Counts : Close(ci, n)
  BY <1>3, CloseSteps
<1>4. CASE \E ci \in Conns, z \in 1..MaxSize : SendQueued(ci, z)
  BY <1>4, SendQueuedStep
<1>5. CASE \E ci \in Conns, z \in 1..MaxSize, n \in Counts, paced \in BOOLEAN :
                SendFull(ci, z, n, paced)
  BY <1>5, SendFullStep
<1>6. CASE AcceptRefuse \/ ReadData
  BY <1>6, PeerSteps
<1>7. CASE \E p \in Peers : PeerConnects(p) \/ PeerWrites(p) \/ PeerReads(p) \/ PeerShuts(p)
  BY <1>7, PeerSteps
<1>8. CASE \/ Poll \/ PollInterrupted \/ ServeListener \/ SkipStale \/ EventsDone
           \/ AcceptInterrupted \/ AcceptFails \/ AcceptDone
           \/ ReadInterrupted \/ ReadDone \/ Return \/ Publish \/ BackoffPasses
  BY <1>8, LoopSteps
<1>9. QED
  BY <1>1, <1>2, <1>3, <1>4, <1>5, <1>6, <1>7, <1>8 DEF Next, Thread

\* A pass goes on with what it has not served.
LEMMA TodoKept ==
    ASSUME ServerInv, todo' = todo \/ todo' = todo \ {Head1} \/ todo' = Reported
    PROVE  todo' \subseteq Entry /\ TodoOK'
<1>1. \A e \in todo' : e \in todo \/ e \in Reported
  OBVIOUS
<1>2. QED
  BY <1>1, ReportedFacts DEF ServerInv, ThreadOK, TodoOK

\* Where the thread goes.
LEMMA ThreadSteps ==
    ASSUME ServerInv, Next
    PROVE  ThreadOK' /\ TodoOK'
<1>1. /\ ThreadOK /\ todo \subseteq Entry
      /\ backoff \in {"off", "waits", "over"}
      /\ pc \in {"idle", "events", "accept", "read", "broker", "flush_all"}
      /\ ret \in {"idle", "events", "read", "flush_all"}
      /\ cur \in Conns /\ count \in 0..(MaxConns + MaxReads)
  BY DEF ServerInv, ThreadOK
<1>2. /\ 0 \in 0..(MaxConns + MaxReads) /\ 1 \in Conns
      /\ count < MaxConns => count + 1 \in 0..(MaxConns + MaxReads)
      /\ count < MaxReads => count + 1 \in 0..(MaxConns + MaxReads)
      /\ cur # MaxConns => cur + 1 \in Conns
  BY <1>1, ThreadRanges
<1>3. SUFFICES /\ todo' = todo \/ todo' = todo \ {Head1} \/ todo' = Reported
               /\ backoff' \in {"off", "waits", "over"}
               /\ pc' \in {"idle", "events", "accept", "read", "broker", "flush_all"}
               /\ ret' \in {"idle", "events", "read", "flush_all"}
               /\ cur' \in Conns /\ count' \in 0..(MaxConns + MaxReads)
  BY TodoKept DEF ThreadOK
<1>4. CASE Poll \/ PollInterrupted \/ EventsDone \/ Publish \/ Return
  BY <1>1, <1>4 DEF Poll, PollInterrupted, EventsDone, Publish, Return, Tick, Call, Goto
<1>5. CASE ServeListener \/ SkipStale
  BY <1>1, <1>2, <1>5 DEF ServeListener, SkipStale, Goto
<1>6. CASE \E n \in Counts : ServeSlot(n)
  <2>1. PICK n : ServeSlot(n)
    BY <1>6
  <2>2. Head1.ci \in Conns
    BY <2>1, Head1Reported DEF ServeSlot, ServerInv
  <2>3. QED
    BY <1>1, <1>2, <2>1, <2>2 DEF ServeSlot, Goto
<1>7. CASE \E n \in Counts : FlushAll(n)
  BY <1>1, <1>2, <1>7 DEF FlushAll, Goto
<1>8. CASE \E n \in Counts : ReadEnd(n)
  BY <1>1, <1>2, <1>8 DEF ReadEnd, Call, Goto
<1>9. CASE AcceptOpen \/ AcceptRefuse \/ AcceptInterrupted
  BY <1>1, <1>2, <1>9 DEF AcceptOpen, AcceptRefuse, AcceptInterrupted, Accepting
<1>10. CASE AcceptFails \/ AcceptDone
  BY <1>1, <1>2, <1>10 DEF AcceptFails, AcceptDone, Goto
<1>11. CASE ReadData \/ ReadInterrupted
  BY <1>1, <1>2, <1>11 DEF ReadData, ReadInterrupted, Reading, CountRead, Call, Goto
<1>12. CASE ReadDone
  BY <1>1, <1>2, <1>12 DEF ReadDone, Goto
<1>13. CASE \E ci \in Conns :
                \/ \E n \in Counts : Close(ci, n)
                \/ \E z \in 1..MaxSize :
                    \/ SendQueued(ci, z)
                    \/ \E n \in Counts, paced \in BOOLEAN : SendFull(ci, z, n, paced)
  <2> DEFINE Same == backoff' = backoff /\ loop' = loop
  <2>a. \A ci \in Conns, n \in Counts : Close(ci, n) => Same
    BY DEF Close
  <2>b. \A ci \in Conns, z \in 1..MaxSize : SendQueued(ci, z) => Same
    BY DEF SendQueued
  <2>c. \A ci \in Conns, z \in 1..MaxSize, n \in Counts, paced \in BOOLEAN :
            SendFull(ci, z, n, paced) => Same
    BY DEF SendFull
  <2>1. Same
    <3> HIDE DEF Same
    <3>1. QED
      BY <1>13, <2>a, <2>b, <2>c
  <2>2. QED
    BY <1>1, <2>1 DEF loop
<1>14. CASE \E p \in Peers : PeerConnects(p) \/ PeerWrites(p) \/ PeerReads(p) \/ PeerShuts(p)
  <2>1. backoff' = backoff /\ loop' = loop
    BY <1>14 DEF PeerConnects, PeerWrites, PeerReads, PeerShuts, PeerIs
  <2>2. QED
    BY <1>1, <2>1 DEF loop
<1>15. CASE BackoffPasses
  BY <1>1, <1>15 DEF BackoffPasses, loop
<1>16. QED
  BY <1>4, <1>5, <1>6, <1>7, <1>8, <1>9, <1>10, <1>11, <1>12, <1>13, <1>14, <1>15
     DEF Next, Thread

\* What a step that writes keeps.
LEMMA MovesKeeps ==
    ASSUME ServerInv, NEW ci \in Conns, NEW p \in Peers, NEW n, NEW s, Moves(ci, p, n, s),
           ConnStep(ci, s), sent' \in [Peers -> 0..MaxPackets]
    PROVE  BodyOK'
<1>1. OneSlot(ci, p, s) /\ PeersOK' /\ WireOK'
  BY DEF Moves
<1>2. PICK c \in {"none", "active", "dead"} :
            /\ conns' = [conns EXCEPT ![ci] = c]
            /\ c = "none" <=> s.fd = None
            /\ pc' # "broker" => pc # "broker" /\ c # "dead"
  BY DEF ConnStep
<1>3. QED
  BY <1>1, <1>2, OneSlotKeeps

\* Every step keeps the slots, the peers and the broker in agreement.
LEMMA BodySteps ==
    ASSUME ServerInv, Next
    PROVE  BodyOK'
<1>1. sent \in [Peers -> 0..MaxPackets]
  BY DEF ServerInv, BrokerOK
<1>2. CASE QuietStep
  BY <1>2, QuietKeeps DEF QuietStep, NotHeld
<1>3. CASE DataStep
  <2>1. PICK ci \in Conns, p \in Peers, n \in Nat, s \in SlotRecord :
            \/ OpenStep(ci, p, s)
            \/ FlushStep(ci, p, n, s)
            \/ CloseStep(ci, p, n, s)
            \/ \E z \in 1..MaxSize : SendStep(ci, p, n, s, z)
    BY <1>3 DEF DataStep
  <2>2. CASE OpenStep(ci, p, s)
    <3>1. OneSlot(ci, p, s) /\ PeersOK' /\ s.fd = p /\ p # None
      BY <2>2, ServerAssumption DEF OpenStep
    <3>2. /\ WireOK' /\ sent' \in [Peers -> 0..MaxPackets]
          /\ conns' = [conns EXCEPT ![ci] = "active"] /\ pc # "broker"
      BY <1>1, <2>2 DEF OpenStep, ServerInv, WireOK
    <3>3. QED
      BY <3>1, <3>2, OneSlotKeeps
  <2>3. CASE FlushStep(ci, p, n, s)
    BY <1>1, <2>3, MovesKeeps DEF FlushStep
  <2>4. CASE CloseStep(ci, p, n, s)
    BY <1>1, <2>4, MovesKeeps DEF CloseStep
  <2>5. CASE \E z \in 1..MaxSize : SendStep(ci, p, n, s, z)
    <3>1. PICK z : SendStep(ci, p, n, s, z)
      BY <2>5
    <3>2. PICK k : k = sent[p] + 1
      OBVIOUS
    <3>3. k \in 0..MaxPackets
      <4>1. sent[p] \in 0..MaxPackets /\ sent[p] < MaxPackets /\ MaxPackets \in Nat
        BY <1>1, <3>1, ServerAssumption DEF SendStep
      <4>2. QED
        BY <3>2, <4>1, SMTT(60)
    <3>4. sent' \in [Peers -> 0..MaxPackets]
      BY <1>1, <3>1, <3>2, <3>3 DEF SendStep
    <3>5. QED
      BY <3>1, <3>4, MovesKeeps DEF SendStep
  <2>6. QED
    BY <2>1, <2>2, <2>3, <2>4, <2>5
<1>4. QED
  BY <1>2, <1>3, StepKinds

\* The invariant holds of every state of the server.
THEOREM ServerInvariant == Spec => []ServerInv
<1>1. Init => ServerInv
  <2>1. SUFFICES ASSUME Init PROVE ServerInv
    OBVIOUS
  <2>2. /\ 1 \in Conns /\ 0 \in 0..(MaxConns + MaxReads) /\ 0 \in 0..MaxPackets
    BY ServerAssumption, SMTT(60) DEF Conns
  <2>3. \A ci \in Conns : slots[ci].fd = None /\ conns[ci] = "none"
    BY <2>1, FreeSlotFacts DEF Init
  <2>4. \A p \in Peers : peers[p].at = "away"
    BY <2>1, GoneFacts DEF Init, Places
  <2>5. SlotsOK /\ PeersOK /\ WireOK
    <3>1. <<>> \in Seq(Bytes)
      BY SMTT(60)
    <3>2. QED
      BY <2>1, <3>1, FreeSlotFacts, GoneFacts DEF Init, Places, SlotsOK, PeersOK, WireOK
  <2>6. ThreadOK /\ BrokerOK /\ TodoOK
    BY <2>1, <2>2 DEF Init, ThreadOK, BrokerOK, TodoOK
  <2>7. PairedOK /\ HeldOnce /\ HeldOK
    BY <2>3, <2>4, ServerAssumption DEF PairedOK, HeldOnce, HeldOK
  <2>8. QED
    BY <2>5, <2>6, <2>7 DEF ServerInv
<1>2. ServerInv /\ [Next]_vars => ServerInv'
  <2>1. SUFFICES ASSUME ServerInv, [Next]_vars PROVE ServerInv'
    OBVIOUS
  <2>2. CASE Next
    BY <2>1, <2>2, BodySteps, ThreadSteps DEF ServerInv, BodyOK
  <2>3. CASE UNCHANGED vars
    <3>1. /\ slots' = slots /\ backoff' = backoff /\ pc' = pc /\ ret' = ret /\ todo' = todo
          /\ cur' = cur /\ count' = count /\ conns' = conns /\ sent' = sent
          /\ peers' = peers /\ wire' = wire
      BY <2>3, SMTT(60) DEF vars, loop
    <3>2. SlotsOK' /\ PeersOK' /\ WireOK'
      BY <2>1, <3>1 DEF ServerInv, SlotsOK, PeersOK, WireOK
    <3>3. ThreadOK' /\ BrokerOK' /\ TodoOK'
      BY <2>1, <3>1 DEF ServerInv, ThreadOK, BrokerOK, TodoOK
    <3>4. PairedOK' /\ HeldOnce' /\ HeldOK'
      BY <2>1, <3>1 DEF ServerInv, PairedOK, HeldOnce, HeldOK
    <3>5. QED
      BY <3>2, <3>3, <3>4 DEF ServerInv
  <2>4. QED
    BY <2>1, <2>2, <2>3
<1>3. QED
  BY <1>1, <1>2, PTL DEF Spec

\* The slots and the broker's connections agree whenever the broker is not
\* running, and every peer is in one slot or in none.
THEOREM AgreementAlways == Spec => []Agreement
<1>1. ServerInv => Agreement
  <2>1. SUFFICES ASSUME ServerInv PROVE Agreement
    OBVIOUS
  <2>2. TypeOK
    BY <2>1 DEF ServerInv, SlotsOK, PeersOK, ThreadOK, BrokerOK, TypeOK, SlotRecord, PeerRecord,
                Entry, Rings, Cells, Bytes
  <2>3. ASSUME pc # "broker", NEW ci \in Conns
        PROVE  (slots[ci].fd # None) <=> (conns[ci] = "active")
    BY <2>1, <2>3 DEF ServerInv, PairedOK, BrokerOK
  <2>4. ASSUME NEW p \in Peers
        PROVE  IF Held(p) THEN \E ci \in Conns : HeldBy(p) = {ci} ELSE HeldBy(p) = {}
    <3>1. p # None /\ HeldOnce /\ HeldOK
      BY <2>1, ServerAssumption DEF ServerInv
    <3>2. CASE Held(p)
      <4>1. PICK c \in Conns : slots[c].fd = p
        BY <3>1, <3>2 DEF HeldOK, Held
      <4>2. HeldBy(p) = {c}
        BY <3>1, <4>1 DEF HeldOnce, HeldBy
      <4>3. QED
        BY <3>2, <4>2
    <3>3. CASE ~Held(p)
      <4>1. HeldBy(p) = {}
        BY <3>1, <3>3 DEF HeldOK, Held, HeldBy
      <4>2. QED
        BY <3>3, <4>1
    <3>4. QED
      BY <3>2, <3>3
  <2>5. QED
    BY <2>2, <2>3, <2>4 DEF Agreement
<1>2. QED
  BY <1>1, ServerInvariant, PTL

\* The refinement mapping: what is queued for a peer is what its slot's ring
\* holds, and its connection is where the peer is.
QueuedRight ==
    /\ Queued = [p \in Peers |-> Queued[p]]
    /\ \A p \in Peers, ci \in Conns :
            slots[ci].fd = p => Queued[p] = Contents(slots[ci].ring)
    /\ \A p \in Peers : (\A ci \in Conns : slots[ci].fd # p) => Queued[p] = <<>>

PhaseRight ==
    /\ Phase = [p \in Peers |-> Phase[p]]
    /\ \A p \in Peers : /\ peers[p].at = "held" => Phase[p] = "open"
                        /\ peers[p].at = "closed" => Phase[p] = "closed"
                        /\ peers[p].at \in NotHeld => Phase[p] = "new"

LEMMA QueuedIs == HeldOnce => QueuedRight
<1>1. SUFFICES ASSUME HeldOnce PROVE QueuedRight
  OBVIOUS
<1>2. Queued = [p \in Peers |-> Queued[p]]
  <2> DEFINE held(p) == IF HeldBy(p) = {} THEN <<>>
                        ELSE Contents(slots[CHOOSE ci \in HeldBy(p) : TRUE].ring)
  <2>1. Queued = [p \in Peers |-> held(p)]
    BY DEF Queued
  <2> HIDE DEF held
  <2>2. QED
    BY <2>1
<1>3. ASSUME NEW p \in Peers, NEW ci \in Conns, slots[ci].fd = p
      PROVE  Queued[p] = Contents(slots[ci].ring)
  <2>1. p # None
    BY ServerAssumption
  <2>2. HeldBy(p) = {ci}
    BY <1>1, <1>3, <2>1 DEF HeldBy, HeldOnce
  <2>3. (CHOOSE c \in HeldBy(p) : TRUE) = ci /\ HeldBy(p) # {}
    BY <2>2
  <2>4. QED
    BY <2>3 DEF Queued
<1>4. ASSUME NEW p \in Peers, \A ci \in Conns : slots[ci].fd # p
      PROVE  Queued[p] = <<>>
  <2>1. HeldBy(p) = {}
    BY <1>4 DEF HeldBy
  <2>2. QED
    BY <2>1 DEF Queued
<1>5. QED
  BY <1>2, <1>3, <1>4 DEF QueuedRight

LEMMA PhaseIs == PhaseRight
<1>1. Phase = [p \in Peers |-> Phase[p]]
  BY DEF Phase
<1>2. ASSUME NEW p \in Peers
      PROVE  /\ peers[p].at = "held" => Phase[p] = "open"
             /\ peers[p].at = "closed" => Phase[p] = "closed"
             /\ peers[p].at \in NotHeld => Phase[p] = "new"
  BY DEF Phase, NotHeld
<1>3. QED
  BY <1>1, <1>2 DEF PhaseRight

\* Only p's queue may change: it is the one of the slot s, if s has p.
QueueMoves(p, s) ==
    /\ Queued' = [Queued EXCEPT ![p] = Queued'[p]]
    /\ s.fd = p => Queued'[p] = Contents(s.ring)
    /\ s.fd # p => Queued'[p] = <<>>

\* What is queued changes for the peer of the slot that changes.
LEMMA QueuedStep ==
    ASSUME QueuedRight, QueuedRight', SlotsOK, HeldOnce', NEW ci \in Conns, NEW p \in Peers,
           NEW s, OneSlot(ci, p, s)
    PROVE  QueueMoves(p, s)
<1>1. /\ slots'[ci] = s /\ \A d \in Conns : d # ci => slots'[d] = slots[d]
  BY DEF OneSlot, SlotsOK
<1>2. None \notin Peers
  BY ServerAssumption
<1>3. ASSUME NEW q \in Peers, q # p
      PROVE  Queued'[q] = Queued[q]
  <2>1. \A d \in Conns : (slots'[d].fd = q) <=> (slots[d].fd = q)
    BY <1>1, <1>2, <1>3 DEF OneSlot
  <2>2. CASE \E d \in Conns : slots[d].fd = q
    <3>1. PICK d \in Conns : slots[d].fd = q
      BY <2>2
    <3>2. d # ci
      BY <1>2, <1>3, <3>1 DEF OneSlot
    <3>3. slots'[d] = slots[d]
      BY <1>1, <3>2
    <3>4. Queued[q] = Contents(slots[d].ring)
      BY <3>1 DEF QueuedRight
    <3>5. Queued'[q] = Contents(slots'[d].ring)
      BY <2>1, <3>1 DEF QueuedRight
    <3>6. QED
      BY <3>3, <3>4, <3>5
  <2>3. CASE ~\E d \in Conns : slots[d].fd = q
    BY <2>1, <2>3 DEF QueuedRight
  <2>4. QED
    BY <2>2, <2>3
<1>4. Queued' = [Queued EXCEPT ![p] = Queued'[p]]
  BY <1>3 DEF QueuedRight
<1>5. s.fd = p => Queued'[p] = Contents(s.ring)
  BY <1>1 DEF QueuedRight
<1>6. ASSUME s.fd # p
      PROVE  Queued'[p] = <<>>
  <2>1. \A d \in Conns : slots'[d].fd # p
    BY <1>1, <1>6 DEF OneSlot
  <2>2. QED
    BY <2>1 DEF QueuedRight
<1>7. QED
  BY <1>4, <1>5, <1>6 DEF QueueMoves

\* A connection's phase follows its peer.
LEMMA PhaseStep ==
    ASSUME PhaseRight, PhaseRight', PeersOK, PeersOK', NEW p \in Peers,
           \A q \in Peers : q # p => peers'[q].at = peers[q].at
    PROVE  /\ peers'[p].at = "held" => Phase' = [Phase EXCEPT ![p] = "open"]
           /\ peers'[p].at = "closed" => Phase' = [Phase EXCEPT ![p] = "closed"]
<1>1. ASSUME NEW q \in Peers, q # p
      PROVE  Phase'[q] = Phase[q]
  <2>1. peers[q].at \in {"held", "closed"} \cup NotHeld
    BY DEF PeersOK, PeerRecord, NotHeld
  <2>2. peers'[q].at = peers[q].at
    BY <1>1
  <2>3. CASE peers[q].at = "held"
    <3>1. Phase[q] = "open"
      BY <2>3 DEF PhaseRight
    <3>2. Phase'[q] = "open"
      BY <2>2, <2>3 DEF PhaseRight
    <3>3. QED
      BY <3>1, <3>2
  <2>4. CASE peers[q].at = "closed"
    <3>1. Phase[q] = "closed"
      BY <2>4 DEF PhaseRight
    <3>2. Phase'[q] = "closed"
      BY <2>2, <2>4 DEF PhaseRight
    <3>3. QED
      BY <3>1, <3>2
  <2>5. CASE peers[q].at \in NotHeld
    <3>1. Phase[q] = "new"
      BY <2>5 DEF PhaseRight
    <3>2. Phase'[q] = "new"
      BY <2>2, <2>5 DEF PhaseRight
    <3>3. QED
      BY <3>1, <3>2
  <2>6. QED
    BY <2>1, <2>3, <2>4, <2>5
<1>2. CASE peers'[p].at = "held"
  BY <1>1, <1>2 DEF PhaseRight
<1>3. CASE peers'[p].at = "closed"
  BY <1>1, <1>3 DEF PhaseRight
<1>4. QED
  BY <1>2, <1>3

\* n elements leaving s before or after b is put behind it come to the same.
LeftThenTaken(s, b, n) ==
    /\ SubSeq(s \o b, 1, n) = SubSeq(s, 1, n)
    /\ SubSeq(s \o b, n + 1, Len(s \o b)) = SubSeq(s, n + 1, Len(s)) \o b
    /\ n <= Len(s \o b)

\* A packet behind n bytes that leave.
LEMMA LeaveThenTake ==
    ASSUME NEW S, NEW s \in Seq(S), NEW b \in Seq(S), NEW n \in 0..Len(s)
    PROVE  LeftThenTaken(s, b, n)
<1>1. PICK c : c = s \o b
  OBVIOUS
<1>2. /\ c \in Seq(S) /\ Len(c) = Len(s) + Len(b) /\ Len(s) \in Nat /\ Len(b) \in Nat
      /\ \A i \in 1..Len(s) : c[i] = s[i]
      /\ \A i \in 1..Len(b) : c[Len(s) + i] = b[i]
  BY <1>1, SMTT(60)
<1>3. SubSeq(c, 1, n) = SubSeq(s, 1, n)
  BY <1>2, SMTT(60)
<1>4. PICK l : l = SubSeq(s, n + 1, Len(s))
  OBVIOUS
<1>5. /\ l \in Seq(S) /\ Len(l) = Len(s) - n
      /\ \A i \in 1..(Len(s) - n) : l[i] = s[n + i]
  BY <1>2, <1>4, SMTT(60)
<1>6. SubSeq(c, n + 1, Len(c)) = [i \in 1..(Len(c) - n) |-> c[n + i]]
  BY <1>2, SMTT(60)
<1>7. l \o b = [i \in 1..(Len(l) + Len(b)) |-> IF i <= Len(l) THEN l[i] ELSE b[i - Len(l)]]
  BY <1>5, ConcatFunction
<1>8. Len(c) - n = Len(l) + Len(b)
  BY <1>2, <1>5, SMTT(60)
<1>9. ASSUME NEW i \in 1..(Len(c) - n)
      PROVE  c[n + i] = IF i <= Len(l) THEN l[i] ELSE b[i - Len(l)]
  <2>1. CASE i <= Len(l)
    <3>1. i \in 1..(Len(s) - n) /\ n + i \in 1..Len(s)
      BY <1>2, <1>5, <1>9, <2>1, SMTT(60)
    <3>2. QED
      BY <1>2, <1>5, <2>1, <3>1
  <2>2. CASE ~(i <= Len(l))
    <3>1. i - Len(l) \in 1..Len(b) /\ Len(s) + (i - Len(l)) = n + i
      BY <1>2, <1>5, <1>9, <2>2, SMTT(60)
    <3>2. c[Len(s) + (i - Len(l))] = b[i - Len(l)]
      BY <1>2, <3>1
    <3>3. QED
      BY <2>2, <3>1, <3>2
  <2>3. QED
    BY <2>1, <2>2
<1>10. SubSeq(c, n + 1, Len(c)) = l \o b
  BY <1>6, <1>7, <1>8, <1>9
<1>11. n <= Len(c)
  BY <1>2, SMTT(60)
<1>12. QED
  BY <1>1, <1>3, <1>4, <1>10, <1>11 DEF LeftThenTaken

\* The mapping is right before and after a step.
MapRight == QueuedRight /\ PhaseRight

\* A step that writes, seen through the mapping.
Mapped(ci, p, n, s) ==
    /\ Phase[p] = "open" /\ Queued[p] = Contents(slots[ci].ring)
    /\ Queued[p] \in Seq(Bytes) /\ n \in 0..Len(Queued[p])
    /\ wire' = [wire EXCEPT ![p] = wire[p] \o SubSeq(Queued[p], 1, n)]
    /\ Queued' = [Queued EXCEPT ![p] = Queued'[p]]
    /\ s.fd = p => Queued'[p] = Contents(s.ring)
    /\ s.fd # p => Queued'[p] = <<>>
    /\ s.fd = p => Phase' = Phase
    /\ s.fd = None => Phase' = [Phase EXCEPT ![p] = "closed"]

LEMMA MovesMap ==
    ASSUME ServerInv, HeldOnce', MapRight, MapRight', NEW ci \in Conns, NEW p \in Peers,
           NEW n \in Nat, NEW s \in SlotRecord, Moves(ci, p, n, s)
    PROVE  Mapped(ci, p, n, s)
<1>1. /\ slots[ci].fd = p /\ OneSlot(ci, p, s) /\ n \in 0..slots[ci].ring.len
      /\ PeersOK' /\ \A q \in Peers : q # p => peers'[q].at = peers[q].at
      /\ peers'[p].at = IF s.fd = None THEN "closed" ELSE "held"
  BY DEF Moves
<1>2. p # None /\ PeersOK /\ SlotsOK
  BY ServerAssumption DEF ServerInv
<1>3. Phase[p] = "open"
  <2>1. peers[p].at = "held"
    BY <1>1, <1>2, HeldFacts
  <2>2. QED
    BY <2>1 DEF MapRight, PhaseRight
<1>4. Queued[p] = Contents(slots[ci].ring)
  BY <1>1 DEF MapRight, QueuedRight
<1>5. Contents(slots[ci].ring) \in Seq(Bytes) /\ Len(Contents(slots[ci].ring)) = slots[ci].ring.len
  BY <1>2, SlotFacts, ContentsSeq
<1>6. wire' = [wire EXCEPT ![p] = wire[p] \o SubSeq(Queued[p], 1, n)]
  BY <1>4 DEF Moves
<1>7. /\ Queued' = [Queued EXCEPT ![p] = Queued'[p]]
      /\ s.fd = p => Queued'[p] = Contents(s.ring)
      /\ s.fd # p => Queued'[p] = <<>>
  <2>1. QueuedRight /\ QueuedRight'
    BY DEF MapRight
  <2>2. QueueMoves(p, s)
    BY <1>1, <1>2, <2>1, QueuedStep
  <2>3. QED
    BY <2>2 DEF QueueMoves
<1>8. CASE s.fd = p
  <2>1. Phase' = [Phase EXCEPT ![p] = "open"]
    BY <1>1, <1>2, <1>8, PhaseStep DEF MapRight
  <2>2. Phase = [q \in Peers |-> Phase[q]]
    BY DEF MapRight, PhaseRight
  <2>3. Phase' = Phase
    BY <1>3, <2>1, <2>2
  <2>4. QED
    BY <1>1, <1>2, <1>3, <1>4, <1>5, <1>6, <1>7, <1>8, <2>3 DEF Mapped
<1>9. CASE s.fd = None
  <2>1. Phase' = [Phase EXCEPT ![p] = "closed"]
    BY <1>1, <1>2, <1>9, PhaseStep DEF MapRight
  <2>2. QED
    BY <1>1, <1>2, <1>3, <1>4, <1>5, <1>6, <1>7, <1>9, <2>1 DEF Mapped
<1>10. QED
  BY <1>1, <1>8, <1>9 DEF OneSlot

\* Each kind of step is a step of the contract.
LEMMA FlushMaps ==
    ASSUME ServerInv, HeldOnce', MapRight, MapRight', NEW ci \in Conns, NEW p \in Peers,
           NEW n \in Nat, NEW s \in SlotRecord, FlushStep(ci, p, n, s)
    PROVE  Contract!Next
<1>1. Moves(ci, p, n, s) /\ s.fd = p /\ Contents(s.ring) = Left(ci, n) /\ sent' = sent
  BY DEF FlushStep
<1>2. /\ Phase[p] = "open" /\ Queued[p] = Contents(slots[ci].ring) /\ n \in 0..Len(Queued[p])
      /\ wire' = [wire EXCEPT ![p] = wire[p] \o SubSeq(Queued[p], 1, n)]
      /\ Queued' = [Queued EXCEPT ![p] = Queued'[p]] /\ Queued'[p] = Contents(s.ring)
      /\ Phase' = Phase
  <2>1. Mapped(ci, p, n, s)
    BY <1>1, MovesMap
  <2>2. QED
    BY <1>1, <2>1 DEF Mapped
<1>3. Contents(s.ring) = SubSeq(Queued[p], n + 1, Len(Queued[p]))
  BY <1>1, <1>2 DEF Left
<1>4. Contract!Flush(p, n)
  BY <1>1, <1>2, <1>3 DEF Contract!Flush, Contract!Leave, Contract!First, Contract!Rest
<1>5. QED
  BY <1>2, <1>4 DEF Contract!Next

LEMMA CloseMaps ==
    ASSUME ServerInv, HeldOnce', MapRight, MapRight', NEW ci \in Conns, NEW p \in Peers,
           NEW n \in Nat, NEW s \in SlotRecord, CloseStep(ci, p, n, s)
    PROVE  Contract!Next
<1>1. Moves(ci, p, n, s) /\ s.fd = None /\ sent' = sent /\ p # None
  BY ServerAssumption DEF CloseStep
<1>2. /\ Phase[p] = "open" /\ n \in 0..Len(Queued[p])
      /\ wire' = [wire EXCEPT ![p] = wire[p] \o SubSeq(Queued[p], 1, n)]
      /\ Queued' = [Queued EXCEPT ![p] = Queued'[p]] /\ Queued'[p] = <<>>
      /\ Phase' = [Phase EXCEPT ![p] = "closed"]
  <2>1. Mapped(ci, p, n, s)
    BY <1>1, MovesMap
  <2>2. QED
    BY <1>1, <2>1 DEF Mapped
<1>3. Contract!Close(p, n)
  BY <1>1, <1>2 DEF Contract!Close, Contract!Leave, Contract!First
<1>4. QED
  BY <1>2, <1>3 DEF Contract!Next

LEMMA SendMaps ==
    ASSUME ServerInv, HeldOnce', MapRight, MapRight', NEW ci \in Conns, NEW p \in Peers,
           NEW n \in Nat, NEW s \in SlotRecord, NEW z \in 1..MaxSize, SendStep(ci, p, n, s, z)
    PROVE  Contract!Next
<1>1. PICK b : b = Packet(p, z)
  OBVIOUS
<1>2. /\ Moves(ci, p, n, s) /\ s.fd = p /\ Contents(s.ring) = Left(ci, n) \o b
      /\ sent[p] < MaxPackets /\ sent' = [sent EXCEPT ![p] = sent[p] + 1]
  BY <1>1 DEF SendStep
<1>3. PICK q : q = Queued[p]
  OBVIOUS
<1>4. /\ Phase[p] = "open" /\ q = Contents(slots[ci].ring) /\ q \in Seq(Bytes)
      /\ n \in 0..Len(q)
      /\ wire' = [wire EXCEPT ![p] = wire[p] \o SubSeq(q, 1, n)]
      /\ Queued' = [Queued EXCEPT ![p] = Queued'[p]] /\ Queued'[p] = Contents(s.ring)
      /\ Phase' = Phase
  <2>1. Mapped(ci, p, n, s)
    BY <1>2, MovesMap
  <2>2. QED
    BY <1>2, <1>3, <2>1 DEF Mapped
<1>5. b \in Seq(Bytes)
  BY <1>1, <1>2, PacketBytes DEF ServerInv
<1>6. /\ SubSeq(q \o b, 1, n) = SubSeq(q, 1, n)
      /\ SubSeq(q \o b, n + 1, Len(q \o b)) = SubSeq(q, n + 1, Len(q)) \o b
      /\ n <= Len(q \o b)
  <2>1. LeftThenTaken(q, b, n)
    BY <1>4, <1>5, LeaveThenTake
  <2>2. QED
    BY <2>1 DEF LeftThenTaken
<1>7. Contents(s.ring) = SubSeq(q \o b, n + 1, Len(q \o b))
  BY <1>2, <1>4, <1>6 DEF Left
<1>8. Contract!Span(p, sent[p] + 1, z) = b
  BY <1>1 DEF Contract!Span, Packet
<1>9. Contract!Send(p, n, z)
  BY <1>2, <1>3, <1>4, <1>6, <1>7, <1>8 DEF Contract!Send, Contract!First, Contract!Rest
<1>10. n \in 0..(Len(q) + MaxSize)
  <2>1. Len(q) \in Nat /\ MaxSize \in Nat
    BY <1>4, ServerAssumption, RingAssumption, SMTT(60)
  <2>2. QED
    BY <1>4, <2>1, SMTT(60)
<1>11. QED
  BY <1>3, <1>9, <1>10 DEF Contract!Next

LEMMA OpenMaps ==
    ASSUME ServerInv, HeldOnce', MapRight, MapRight', NEW ci \in Conns, NEW p \in Peers,
           NEW s \in SlotRecord, OpenStep(ci, p, s)
    PROVE  Contract!Next
<1>1. /\ OneSlot(ci, p, s) /\ s.fd = p /\ Contents(s.ring) = <<>> /\ slots[ci].fd = None
      /\ peers[p].at = "backlog" /\ peers'[p].at = "held" /\ PeersOK' /\ PeersOK /\ SlotsOK
      /\ \A q \in Peers : q # p => peers'[q].at = peers[q].at
      /\ sent' = sent /\ wire' = wire
  BY DEF OpenStep, ServerInv
<1>2. Phase[p] = "new" /\ Phase' = [Phase EXCEPT ![p] = "open"]
  <2>1. Phase' = [Phase EXCEPT ![p] = "open"]
    BY <1>1, PhaseStep DEF MapRight
  <2>2. Phase[p] = "new"
    BY <1>1 DEF MapRight, PhaseRight, NotHeld
  <2>3. QED
    BY <2>1, <2>2
<1>3. Queued' = [Queued EXCEPT ![p] = Queued'[p]] /\ Queued'[p] = <<>>
  <2>1. QueuedRight /\ QueuedRight'
    BY DEF MapRight
  <2>2. QueueMoves(p, s)
    BY <1>1, <2>1, QueuedStep
  <2>3. QED
    BY <1>1, <2>2 DEF QueueMoves
<1>4. Queued[p] = <<>>
  <2>1. \A d \in Conns : slots[d].fd # p
    BY <1>1 DEF ServerInv, HeldOK
  <2>2. QED
    BY <2>1 DEF MapRight, QueuedRight
<1>5. Queued' = Queued
  <2>1. Queued = [q \in Peers |-> Queued[q]]
    BY DEF MapRight, QueuedRight
  <2>2. QED
    BY <1>3, <1>4, <2>1
<1>6. Contract!Open(p)
  BY <1>1, <1>2, <1>5 DEF Contract!Open
<1>7. QED
  BY <1>6 DEF Contract!Next

\* What is queued is in the slots.
LEMMA SameQueued ==
    ASSUME slots' = slots, MapRight, MapRight'
    PROVE  Queued' = Queued
<1>1. QueuedRight /\ QueuedRight'
  BY DEF MapRight
<1>2. ASSUME NEW p \in Peers
      PROVE  Queued'[p] = Queued[p]
  <2>1. CASE \E ci \in Conns : slots[ci].fd = p
    <3>1. PICK ci \in Conns : slots[ci].fd = p
      BY <2>1
    <3>2. Queued[p] = Contents(slots[ci].ring)
      BY <1>1, <3>1 DEF QueuedRight
    <3>3. Queued'[p] = Contents(slots'[ci].ring)
      BY <1>1, <3>1 DEF QueuedRight
    <3>4. QED
      BY <3>2, <3>3
  <2>2. CASE \A ci \in Conns : slots[ci].fd # p
    <3>1. Queued[p] = <<>>
      BY <1>1, <2>2 DEF QueuedRight
    <3>2. Queued'[p] = <<>>
      BY <1>1, <2>2 DEF QueuedRight
    <3>3. QED
      BY <3>1, <3>2
  <2>3. QED
    BY <2>1, <2>2
<1>3. QED
  BY <1>1, <1>2 DEF QueuedRight

\* A quiet step is none of the contract's.
LEMMA QuietMaps ==
    ASSUME ServerInv, MapRight, MapRight', QuietStep
    PROVE  UNCHANGED Contract!vars
<1>1. slots' = slots /\ sent' = sent /\ wire' = wire
  BY DEF QuietStep
<1>2. Queued' = Queued
  BY <1>1, SameQueued
<1>3. ASSUME NEW q \in Peers
      PROVE  Phase'[q] = Phase[q]
  <2>1. peers[q].at \in {"held", "closed"} \cup NotHeld
    BY DEF ServerInv, PeersOK, PeerRecord, NotHeld
  <2>2. CASE peers[q].at \in NotHeld /\ peers'[q].at \in NotHeld
    <3>1. Phase[q] = "new"
      BY <2>2 DEF MapRight, PhaseRight
    <3>2. Phase'[q] = "new"
      BY <2>2 DEF MapRight, PhaseRight
    <3>3. QED
      BY <3>1, <3>2
  <2>3. CASE peers'[q].at = peers[q].at
    BY <2>3 DEF Phase
  <2>4. QED
    BY <2>2, <2>3 DEF QuietStep
<1>4. Phase' = Phase
  BY <1>3 DEF MapRight, PhaseRight
<1>5. QED
  BY <1>1, <1>2, <1>4 DEF Contract!vars

\* Every behaviour of the server is one the transport contract allows.
THEOREM ImplementsContract == Spec => Implements
<1>1. Init => Contract!Init
  <2>1. SUFFICES ASSUME Init PROVE Contract!Init
    OBVIOUS
  <2>2. \A ci \in Conns : slots[ci].fd = None
    BY <2>1, FreeSlotFacts DEF Init
  <2>3. \A p \in Peers : HeldBy(p) = {}
    BY <2>2, ServerAssumption DEF HeldBy
  <2>4. Queued = [p \in Peers |-> <<>>]
    BY <2>3 DEF Queued
  <2>5. \A p \in Peers : peers[p].at = "away"
    BY <2>1, GoneFacts DEF Init, Places
  <2>6. Phase = [p \in Peers |-> "new"]
    BY <2>5, PhaseIs DEF PhaseRight, NotHeld
  <2>7. QED
    BY <2>1, <2>4, <2>6 DEF Init, Contract!Init
<1>2. ServerInv => MapRight
  BY QueuedIs, PhaseIs DEF ServerInv, MapRight
<1>3. ServerInv /\ ServerInv' /\ MapRight /\ MapRight' /\ [Next]_vars => [Contract!Next]_Contract!vars
  <2>1. SUFFICES ASSUME ServerInv, ServerInv', MapRight, MapRight', [Next]_vars
                 PROVE  Contract!Next \/ UNCHANGED Contract!vars
    OBVIOUS
  <2>2. HeldOnce'
    BY <2>1 DEF ServerInv
  <2>3. CASE QuietStep
    BY <2>1, <2>3, QuietMaps
  <2>4. CASE DataStep
    <3>1. PICK ci \in Conns, p \in Peers, n \in Nat, s \in SlotRecord :
              \/ OpenStep(ci, p, s)
              \/ FlushStep(ci, p, n, s)
              \/ CloseStep(ci, p, n, s)
              \/ \E z \in 1..MaxSize : SendStep(ci, p, n, s, z)
      BY <2>4 DEF DataStep
    <3>2. QED
      BY <2>1, <2>2, <3>1, OpenMaps, FlushMaps, CloseMaps, SendMaps
  <2>5. CASE UNCHANGED vars
    <3>1. Queued' = Queued
      BY <2>1, <2>5, SameQueued DEF vars
    <3>2. Phase' = Phase /\ sent' = sent /\ wire' = wire
      BY <2>5 DEF vars, Phase
    <3>3. QED
      BY <3>1, <3>2 DEF Contract!vars
  <2>6. QED
    BY <2>1, <2>3, <2>4, <2>5, StepKinds
<1>4. QED
  BY <1>1, <1>2, <1>3, ServerInvariant, PTL DEF Spec, Implements, Contract!Spec

====
