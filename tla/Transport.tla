----------------------------- MODULE Transport -----------------------------
(***************************************************************************)
(* What the broker is promised of a transport (transport.hpp): bytes it    *)
(* was told are sent leave whole and in order on the connection they were  *)
(* meant for, or not at all once that connection is closed.                *)
(*                                                                         *)
(* This is the abstract specification.  StreamServer, Pipe and TlsAdapter  *)
(* are shown to implement it.                                              *)
(***************************************************************************)
EXTENDS Integers, Sequences

CONSTANTS
    Peers,    \* whoever connects; each one is served once
    MaxSize   \* bytes of the widest packet

VARIABLES
    phase,    \* of each peer's connection
    sent,     \* how many packets send() has taken for it
    queued,   \* the bytes taken that have not left yet
    wire      \* the bytes that have left

vars == <<phase, sent, queued, wire>>

\* The k-th packet for p, of z bytes.
Span(p, k, z) == [j \in 1..z |-> <<p, k, j, z>>]

First(s, n) == SubSeq(s, 1, n)
Rest(s, n) == SubSeq(s, n + 1, Len(s))

Init ==
    /\ phase = [p \in Peers |-> "new"]
    /\ sent = [p \in Peers |-> 0]
    /\ queued = [p \in Peers |-> <<>>]
    /\ wire = [p \in Peers |-> <<>>]

Open(p) ==
    /\ phase[p] = "new"
    /\ phase' = [phase EXCEPT ![p] = "open"]
    /\ UNCHANGED <<sent, queued, wire>>

\* n of the queued bytes leave, from the front.
Leave(p, n) == wire' = [wire EXCEPT ![p] = @ \o First(queued[p], n)]

\* The next packet is taken, whole, and n of the bytes queued then leave.
Send(p, n, z) ==
    LET all == queued[p] \o Span(p, sent[p] + 1, z)
    IN /\ phase[p] = "open"
       /\ n <= Len(all)
       /\ wire' = [wire EXCEPT ![p] = @ \o First(all, n)]
       /\ queued' = [queued EXCEPT ![p] = Rest(all, n)]
       /\ sent' = [sent EXCEPT ![p] = @ + 1]
       /\ UNCHANGED phase

\* Some of what is queued leaves; a packet that is refused leaves no trace.
Flush(p, n) ==
    /\ phase[p] = "open"
    /\ Leave(p, n)
    /\ queued' = [queued EXCEPT ![p] = Rest(@, n)]
    /\ UNCHANGED <<phase, sent>>

\* Whoever closes it, what has not left by then never will.
Close(p, n) ==
    /\ phase[p] = "open"
    /\ Leave(p, n)
    /\ phase' = [phase EXCEPT ![p] = "closed"]
    /\ queued' = [queued EXCEPT ![p] = <<>>]
    /\ UNCHANGED sent

Next ==
    \E p \in Peers :
        \/ Open(p)
        \/ \E n \in 0..Len(queued[p]) : Flush(p, n) \/ Close(p, n)
        \/ \E z \in 1..MaxSize, n \in 0..(Len(queued[p]) + MaxSize) : Send(p, n, z)

Spec == Init /\ [][Next]_vars

\* What was taken leaves in the end, or its connection is closed.
Flushed == \A p \in Peers : (queued[p] # <<>>) ~> (queued[p] = <<>>)

====
