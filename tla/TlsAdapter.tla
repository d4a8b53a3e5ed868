----------------------------- MODULE TlsAdapter -----------------------------
(***************************************************************************)
(* TlsAdapter (transports/tls_adapter.hpp): a transport to the broker, the *)
(* broker to the raw transport below it, one TLS engine per connection.    *)
(*                                                                         *)
(* The engine is modelled by what the adapter's contract asks of it: each  *)
(* record it makes has the next number, encrypt() may give its record out  *)
(* or hold it until drain(), and every call may fail.  The raw transport   *)
(* takes a record or refuses it.  A length past the buffer is treated by   *)
(* the code as a failed call, and is one here.                             *)
(***************************************************************************)
EXTENDS Integers, Sequences, FiniteSets

CONSTANTS
    Peers,        \* whoever connects, each one once
    None,
    MaxConns,     \* max_connections, the narrower of the two
    MaxRecords,   \* bound: records of one engine
    Paces         \* whether the broker also sends bursts that it paces

Conns == 1..MaxConns

VARIABLES
    who,          \* the raw transport's connections
    engineOpen,   \* engine_open_
    made,         \* how many records each peer's engine has made
    held,         \* the records it holds for drain()
    conns,        \* the broker's connections: "none", "active", "dead"
    pc,           \* "idle", "drain" or "broker"
    ret,          \* where the broker's call returns to
    cur,          \* ci of drain_engines()
    phase,        \* of each peer's connection: "new", "open", "closed"
    sent,         \* how many records were taken for it, by either side
    wire          \* the records it was written

vars == <<who, engineOpen, made, held, conns, pc, ret, cur, phase, sent, wire>>

\* The n-th record of p's engine.
Record(p, n) == <<p, n, 1, 1>>

TypeOK ==
    /\ who \in [Conns -> Peers \cup {None}]
    /\ engineOpen \in [Conns -> BOOLEAN]
    /\ made \in [Peers -> 0..MaxRecords]
    /\ sent \in [Peers -> 0..MaxRecords]
    /\ conns \in [Conns -> {"none", "active", "dead"}]
    /\ pc \in {"idle", "drain", "broker"}
    /\ ret \in {"idle", "drain"}
    /\ cur \in 1..(MaxConns + 1)
    /\ phase \in [Peers -> {"new", "open", "closed"}]

Init ==
    /\ who = [ci \in Conns |-> None]
    /\ engineOpen = [ci \in Conns |-> FALSE]
    /\ made = [p \in Peers |-> 0]
    /\ held = [p \in Peers |-> <<>>]
    /\ conns = [ci \in Conns |-> "none"]
    /\ pc = "idle" /\ ret = "idle" /\ cur = 1
    /\ phase = [p \in Peers |-> "new"]
    /\ sent = [p \in Peers |-> 0]
    /\ wire = [p \in Peers |-> <<>>]

-----------------------------------------------------------------------------
(* What an engine and the raw transport do.                                *)

\* encrypt() of a span: the engine gives out its record with all it held, or
\* holds it.
Emits(p) == held[p] \o <<Record(p, made[p] + 1)>>

\* raw_.close(), and what a connection leaves behind.
RawClosed(ci) ==
    /\ who' = [who EXCEPT ![ci] = None]
    /\ phase' = [p \in Peers |-> IF p = who[ci] THEN "closed" ELSE phase[p]]
    /\ held' = [p \in Peers |-> IF p = who[ci] THEN <<>> ELSE held[p]]

\* Mutant: only raw_.close(), as conn_data() might.
CloseRawOnly(ci) == UNCHANGED engineOpen /\ RawClosed(ci)

\* close().
Closed(ci) == engineOpen' = [engineOpen EXCEPT ![ci] = FALSE] /\ RawClosed(ci)

\* broker.conn_closed(ci): its teardown may go on to send and close elsewhere.
BrokerTold(ci, from) ==
    /\ conns' = [conns EXCEPT ![ci] = "none"]
    /\ pc' = "broker" /\ ret' = from

-----------------------------------------------------------------------------
(* Driver, called by the raw transport.                                    *)

ConnOpen(ci, p) ==
    /\ pc = "idle" /\ who[ci] = None /\ phase[p] = "new"
    /\ engineOpen' = [engineOpen EXCEPT ![ci] = TRUE]
    /\ LET ok == conns[ci] = "none"
       IN /\ conns' = [conns EXCEPT ![ci] = IF ok THEN "active" ELSE @]
          /\ who' = [who EXCEPT ![ci] = IF ok THEN p ELSE None]
          /\ phase' = [phase EXCEPT ![p] = IF ok THEN "open" ELSE @]
    /\ UNCHANGED <<made, held, pc, ret, cur, sent, wire>>

\* The peer is gone.
ConnClosed(ci) ==
    /\ pc = "idle" /\ who[ci] # None
    /\ Closed(ci)
    /\ BrokerTold(ci, "idle")
    /\ UNCHANGED <<made, cur, sent, wire>>

\* Bytes arrived that the engine refuses.
DataFails(ci) ==
    /\ pc = "idle" /\ who[ci] # None
    /\ Closed(ci)
    /\ BrokerTold(ci, "idle")
    /\ UNCHANGED <<made, cur, sent, wire>>

\* Bytes that make the engine answer, a handshake or an alert record, with all
\* it held before; the raw transport may refuse it.  Then plaintext, or none.
DataAnswers(ci, plain, taken) ==
    /\ pc = "idle" /\ who[ci] # None
    /\ LET p == who[ci]
       IN /\ made[p] < MaxRecords
          /\ made' = [made EXCEPT ![p] = @ + 1]
          /\ IF taken
             THEN /\ wire' = [wire EXCEPT ![p] = @ \o Emits(p)]
                  /\ held' = [held EXCEPT ![p] = <<>>]
                  /\ sent' = [sent EXCEPT ![p] = @ + 1]
                  /\ pc' = IF plain THEN "broker" ELSE "idle"
                  /\ UNCHANGED <<who, engineOpen, conns, ret, phase>>
             ELSE Closed(ci) /\ BrokerTold(ci, "idle") /\ UNCHANGED <<sent, wire>>
    /\ UNCHANGED cur

\* Bytes that hold plaintext only: broker.conn_data().
DataPlain(ci) ==
    /\ pc = "idle" /\ who[ci] # None
    /\ pc' = "broker"
    /\ UNCHANGED <<who, engineOpen, made, held, conns, ret, cur, phase, sent, wire>>

Tick ==
    /\ pc = "idle"
    /\ pc' = "drain" /\ cur' = 1
    /\ UNCHANGED <<who, engineOpen, made, held, conns, ret, phase, sent, wire>>

-----------------------------------------------------------------------------
(* drain_engines(), one connection a step.                                 *)

Draining(ci) == pc = "drain" /\ cur = ci /\ cur <= MaxConns

\* Mutant: what an engine holds is left for the peer's next bytes.
DrainSkipsAny(ci) ==
    /\ Draining(ci)
    /\ cur' = cur + 1
    /\ UNCHANGED <<who, engineOpen, made, held, conns, pc, ret, phase, sent, wire>>

\* Not open, or nothing held.
DrainSkips(ci) ==
    /\ Draining(ci)
    /\ engineOpen[ci] => who[ci] # None /\ held[who[ci]] = <<>>
    /\ cur' = cur + 1
    /\ UNCHANGED <<who, engineOpen, made, held, conns, pc, ret, phase, sent, wire>>

DrainWrites(ci) ==
    /\ Draining(ci) /\ engineOpen[ci] /\ who[ci] # None /\ held[who[ci]] # <<>>
    /\ wire' = [wire EXCEPT ![who[ci]] = @ \o held[who[ci]]]
    /\ held' = [held EXCEPT ![who[ci]] = <<>>]
    /\ cur' = cur + 1
    /\ UNCHANGED <<who, engineOpen, made, conns, pc, ret, phase, sent>>

\* Mutant: a refused write is dropped and the connection goes on.
DrainForgets(ci) ==
    /\ Draining(ci) /\ engineOpen[ci] /\ who[ci] # None
    /\ held' = [held EXCEPT ![who[ci]] = <<>>]
    /\ cur' = cur + 1
    /\ UNCHANGED <<who, engineOpen, made, conns, pc, ret, phase, sent, wire>>

\* drain() fails, or the raw transport refuses what it gave.
DrainEnds(ci) ==
    /\ Draining(ci) /\ engineOpen[ci]
    /\ Closed(ci)
    /\ BrokerTold(ci, "drain")
    /\ cur' = cur + 1
    /\ UNCHANGED <<made, sent, wire>>

\* broker.tick(), after the last engine.
DrainDone ==
    /\ pc = "drain" /\ cur > MaxConns
    /\ pc' = "broker" /\ ret' = "idle" /\ cur' = 1
    /\ UNCHANGED <<who, engineOpen, made, held, conns, phase, sent, wire>>

-----------------------------------------------------------------------------
(* The broker, inside a call: send() and close() of the adapter.           *)

Sending(ci) == pc = "broker" /\ conns[ci] = "active" /\ who[ci] # None

\* encrypt() holds the record: the broker is told that it went.
SendHeld(ci) ==
    /\ Sending(ci)
    /\ LET p == who[ci]
       IN /\ made[p] < MaxRecords
          /\ made' = [made EXCEPT ![p] = @ + 1]
          /\ held' = [held EXCEPT ![p] = Emits(p)]
          /\ sent' = [sent EXCEPT ![p] = @ + 1]
    /\ UNCHANGED <<who, engineOpen, conns, pc, ret, cur, phase, wire>>

SendWritten(ci) ==
    /\ Sending(ci)
    /\ LET p == who[ci]
       IN /\ made[p] < MaxRecords
          /\ made' = [made EXCEPT ![p] = @ + 1]
          /\ wire' = [wire EXCEPT ![p] = @ \o Emits(p)]
          /\ held' = [held EXCEPT ![p] = <<>>]
          /\ sent' = [sent EXCEPT ![p] = @ + 1]
    /\ UNCHANGED <<who, engineOpen, conns, pc, ret, cur, phase>>

\* What a refusal costs: the connection, unless the broker was pacing.
Refused(ci, paced) ==
    conns' = [conns EXCEPT ![ci] = IF paced THEN @ ELSE "dead"]

\* encrypt() fails.
SendFails(ci, paced) ==
    /\ Sending(ci)
    /\ Refused(ci, paced)
    /\ UNCHANGED <<who, engineOpen, made, held, pc, ret, cur, phase, sent, wire>>

\* encrypt() made the record and the raw transport refuses it: the engine does
\* not have it any more.  Once the connection is dead nobody asks the engine for
\* what it held before.
SendRefused(ci, paced) ==
    /\ Sending(ci)
    /\ LET p == who[ci]
       IN /\ made[p] < MaxRecords
          /\ made' = [made EXCEPT ![p] = @ + 1]
          /\ held' = [held EXCEPT ![p] = IF paced THEN <<>> ELSE @]
    /\ Refused(ci, paced)
    /\ UNCHANGED <<who, engineOpen, pc, ret, cur, phase, sent, wire>>

\* flush_dead(), for a refusal or a reason of the broker's own.
Close(ci) ==
    /\ pc = "broker" /\ conns[ci] # "none"
    /\ Closed(ci)
    /\ conns' = [conns EXCEPT ![ci] = "none"]
    /\ UNCHANGED <<made, pc, ret, cur, sent, wire>>

Return ==
    /\ pc = "broker" /\ \A ci \in Conns : conns[ci] # "dead"
    /\ pc' = ret /\ ret' = "idle"
    /\ UNCHANGED <<who, engineOpen, made, held, conns, cur, phase, sent, wire>>

Pacings == IF Paces THEN BOOLEAN ELSE {FALSE}

Next ==
    \/ Tick \/ DrainDone \/ Return
    \/ \E ci \in Conns :
        \/ \E p \in Peers : ConnOpen(ci, p)
        \/ ConnClosed(ci) \/ DataFails(ci) \/ DataPlain(ci)
        \/ \E plain, taken \in BOOLEAN : DataAnswers(ci, plain, taken)
        \/ DrainSkips(ci) \/ DrainWrites(ci) \/ DrainEnds(ci)
        \/ SendHeld(ci) \/ SendWritten(ci) \/ Close(ci)
        \/ \E paced \in Pacings : SendFails(ci, paced) \/ SendRefused(ci, paced)

Spec == Init /\ [][Next]_vars

\* The raw transport's loop goes on: every call returns, and ticks recur.
Returned == pc = "idle"
Ticking == pc = "drain"

FairSpec == Spec /\ []<>Returned /\ []<>Ticking

-----------------------------------------------------------------------------
(* Properties.                                                             *)

\* The raw transport, the adapter and the broker agree on which connections
\* there are whenever none of them is in a call, and an engine is never
\* drained on a connection the raw transport has closed.
Agreement ==
    /\ \A ci \in Conns : engineOpen[ci] => who[ci] # None
    /\ pc = "idle" => \A ci \in Conns :
        /\ engineOpen[ci] <=> (who[ci] # None)
        /\ engineOpen[ci] <=> (conns[ci] = "active")

\* The transport contract, with a record as a packet and what the engine holds
\* as what is queued.
Contract == INSTANCE Transport WITH
    queued <- held,
    MaxSize <- 1

\* The adapter is a transport as the broker is promised one: the records each
\* peer is written are those its engine made, none missing and none twice, until
\* the connection closes.
Implements == Contract!Spec

\* Every peer can decrypt what it is written: no record that its engine made
\* before the last one it got is missing.  (A record that was lost ends the
\* connection unless the broker was pacing.)
RecordsUnbroken ==
    \A p \in Peers : \A i \in 1..Len(wire[p]) : wire[p][i] = Record(p, i)

\* A record the engine holds leaves with a later tick, or its connection ends.
HeldLeaves == Contract!Flushed

====
