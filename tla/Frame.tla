------------------------------- MODULE Frame -------------------------------
(***************************************************************************)
(* FrameParser (protocol/frame.hpp), fed by conn_data() with the bytes of  *)
(* a connection in whatever chunks they arrive.                            *)
(*                                                                         *)
(* A byte is a number below 2 * Base: read as a byte of a length it is a   *)
(* digit, b % Base, with the continuation flag when b >= Base (Base is 128 *)
(* in the code).  What a packet means is left to the broker, which may     *)
(* stop at any of them.                                                    *)
(***************************************************************************)
EXTENDS Integers, Sequences, SequencesExt, FiniteSetsExt

CONSTANTS
    Base,          \* of the digits of a length
    LengthBytes,   \* the most bytes a length may have, 4
    MaxBodySize,
    MaxStream      \* bound: bytes on one connection

Bytes == 0..(2 * Base - 1)
More(b) == b >= Base

VARIABLES
    parser,    \* [state, first, rem, shift, body]
    open,      \* whether the connection is open
    stream,    \* the bytes of the connection that were fed
    handed,    \* the packets the broker was handed
    result     \* how the last feed() ended: "ok", "stopped", "bad"

vars == <<parser, open, stream, handed, result>>

\* reset(); a new parser is as one that was reset.
Reset(p) == [p EXCEPT !.state = "first_byte", !.rem = 0, !.shift = 0, !.body = <<>>]

NewParser == [state |-> "first_byte", first |-> 0, rem |-> 0, shift |-> 0, body |-> <<>>]

TypeOK ==
    /\ parser.state \in {"first_byte", "length", "body"}
    /\ parser.shift < LengthBytes /\ Len(parser.body) <= MaxBodySize
    /\ open \in BOOLEAN /\ stream \in Seq(Bytes)
    /\ result \in {"ok", "stopped", "bad"}

Init ==
    /\ parser = NewParser
    /\ open = FALSE /\ stream = <<>> /\ handed = <<>> /\ result = "ok"

-----------------------------------------------------------------------------
(* feed(): a byte at a time, onto what it has done so far.                 *)

\* Mutant: the body of the packet before is not discarded.
FirstByteKeeps(p, b) == [p EXCEPT
    !.state = "length", !.first = b, !.rem = 0, !.shift = 0]

FirstByte(p, b) == [p EXCEPT
    !.state = "length", !.first = b, !.rem = 0, !.shift = 0, !.body = <<>>]

\* rem_len_ |= (b & 0x7F) << len_shift_.
WithDigit(p, b) == p.rem + (b % Base) * Base ^ p.shift

\* Mutant: a length may have one byte more.
TooLongLate(p) == p.shift >= LengthBytes

\* A continuation flag on the last byte a length may have.
TooLong(p) == p.shift >= LengthBytes - 1

\* The packet is handed over and consumed, whether or not the broker goes on.
Deliver(so, p) == [so EXCEPT
    !.parser = [p EXCEPT !.state = "first_byte"],
    !.handed = Append(@, <<p.first, p.body>>),
    !.left = @ - 1,
    !.result = IF so.left = 1 THEN "stopped" ELSE @]

Length(so, b) ==
    LET p == [so.parser EXCEPT !.rem = WithDigit(so.parser, b)]
    IN CASE More(b) /\ TooLong(p) -> [so EXCEPT !.parser = p, !.result = "bad"]
         [] More(b) /\ ~TooLong(p) -> [so EXCEPT !.parser = [p EXCEPT !.shift = @ + 1]]
         [] ~More(b) /\ p.rem > MaxBodySize -> [so EXCEPT !.parser = p, !.result = "bad"]
         [] ~More(b) /\ p.rem = 0 -> Deliver(so, p)
         [] OTHER -> [so EXCEPT !.parser = [p EXCEPT !.state = "body"]]

Body(so, b) ==
    LET p == [so.parser EXCEPT !.body = Append(@, b)]
    IN IF Len(p.body) = p.rem THEN Deliver(so, p) ELSE [so EXCEPT !.parser = p]

FeedByte(so, b) ==
    CASE so.result # "ok" -> so
      [] so.result = "ok" /\ so.parser.state = "first_byte" ->
            [so EXCEPT !.parser = FirstByte(so.parser, b)]
      [] so.result = "ok" /\ so.parser.state = "length" -> Length(so, b)
      [] OTHER -> Body(so, b)

\* stop: at which packet of the chunk the broker stops, 0 for none.
Feed(data, stop) ==
    FoldLeft(FeedByte,
             [parser |-> parser, handed |-> handed, left |-> stop, result |-> "ok"],
             data)

-----------------------------------------------------------------------------
(* The broker's calls.                                                     *)

ConnOpen ==
    /\ ~open
    /\ open' = TRUE
    /\ parser' = Reset(parser)   \* Conn::reset()
    /\ stream' = <<>> /\ handed' = <<>> /\ result' = "ok"

\* A framing error, or a packet that ends the connection, closes it before
\* conn_data() returns.
ConnData(data, stop) ==
    LET so == Feed(data, stop)
    IN /\ open
       /\ stop # 0 => so.result = "stopped"
       /\ parser' = so.parser
       /\ stream' = stream \o data
       /\ handed' = so.handed
       /\ result' = so.result
       /\ open' = (so.result = "ok")

ConnClosed ==
    /\ open
    /\ open' = FALSE
    /\ UNCHANGED <<parser, stream, handed, result>>

\* What may arrive next.
Chunks == IF open THEN UNION {[1..n -> Bytes] : n \in 1..(MaxStream - Len(stream))} ELSE {}

Next ==
    \/ ConnOpen
    \/ \E data \in Chunks, stop \in 0..(MaxStream \div 2) : ConnData(data, stop)
    \/ ConnClosed

Spec == Init /\ [][Next]_vars

-----------------------------------------------------------------------------
(* The stream read as a whole, as the protocol defines it.                 *)

\* How many bytes the length of the packet at the front has, where it ends.
LengthSizes(s) ==
    {k \in 1..LengthBytes : k < Len(s) /\ ~More(s[1 + k]) /\ \A j \in 1..(k - 1) : More(s[1 + j])}

\* The length those bytes give.
LengthOf(s, k) == MapThenSumSet(LAMBDA j : (s[1 + j] % Base) * Base ^ (j - 1), 1..k)

RECURSIVE Decode(_)

\* The whole packets at the front of a stream, and what follows them.
Decode(s) ==
    LET sizes == LengthSizes(s)
        k == CHOOSE n \in sizes : TRUE
        n == LengthOf(s, k)
    IN IF sizes = {} \/ n > MaxBodySize \/ Len(s) < 1 + k + n
       THEN [packets |-> <<>>, rest |-> s]
       ELSE LET more == Decode(SubSeq(s, 2 + k + n, Len(s)))
            IN [packets |-> <<<<s[1], SubSeq(s, 2 + k, 1 + k + n)>>>> \o more.packets,
                rest |-> more.rest]

\* The packet at the front has too long a length, or one that is too large.
Unreadable(s) ==
    \/ Len(s) > LengthBytes /\ \A j \in 1..LengthBytes : More(s[1 + j])
    \/ \E k \in LengthSizes(s) : LengthOf(s, k) > MaxBodySize

-----------------------------------------------------------------------------
(* Properties.                                                             *)

\* However a stream was cut into chunks, and whatever the connection that had
\* this index before it left half read, the broker is handed exactly the packets
\* the stream holds, and no more of them once it stopped.
ChunkingInvisible ==
    IF result = "stopped"
    THEN IsPrefix(handed, Decode(stream).packets)
    ELSE handed = Decode(stream).packets

\* A connection is closed for its framing exactly when what follows its whole
\* packets cannot be read, and never for a packet that is only incomplete.
RejectedForReason ==
    result # "stopped" => ((result = "bad") <=> Unreadable(Decode(stream).rest))

====
