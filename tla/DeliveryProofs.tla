-------------------------- MODULE DeliveryProofs --------------------------
(***************************************************************************)
(* Proofs about Delivery, for every size of the queue, of the ring and of  *)
(* the packet id space, and any number of messages and lost connections.   *)
(*                                                                         *)
(* The queue stays in order and its ids distinct, and every flow is        *)
(* consistent between the entry, the packet under way and what the client  *)
(* remembers.  A flow has at most one packet under way.  Nothing occurs    *)
(* twice in the queue or on the wire, so that they are reasoned about as   *)
(* the sets of what is in them.  What needs the theory of finite sets is   *)
(* at the end: there is always an id left, and the ring counts.            *)
(***************************************************************************)
EXTENDS Delivery, TLAPS

\* A leaf that names no prover is first-order reasoning, given to Zenon; the
\* others name the SMT solver.
USE ZenonT(60)

\* alloc_packet_id() finds an id, which is shown below.
IdFound == NextId \in Unused /\ NextId \in Ids

----------------------------------------------------------------------------
(* Sequences.                                                              *)

LEMMA ElementOfSeq ==
    ASSUME NEW S, NEW s \in Seq(S), NEW n \in 1..Len(s) PROVE s[n] \in S
BY SMTT(60)

LEMMA SeqDef == \A S : Seq(S) = UNION {[1..n -> S] : n \in Nat}
BY SMTT(60)

LEMMA EmptySeq ==
    ASSUME NEW S
    PROVE  /\ <<>> \in Seq(S) /\ Len(<<>>) = 0
           /\ \A s \in Seq(S) : s # <<>> => Len(s) \in Nat \ {0}
BY SMTT(60)

LEMMA LenProperties ==
    ASSUME NEW S, NEW s \in Seq(S)
    PROVE  Len(s) \in Nat /\ s \in [1..Len(s) -> S] /\ DOMAIN s = 1..Len(s)
BY SMTT(60)

LEMMA ExceptSeq ==
    ASSUME NEW S, NEW s \in Seq(S), NEW k \in 1..Len(s), NEW e \in S
    PROVE  /\ [s EXCEPT ![k] = e] \in Seq(S)
           /\ Len([s EXCEPT ![k] = e]) = Len(s)
           /\ \A j \in 1..Len(s) : [s EXCEPT ![k] = e][j] = IF j = k THEN e ELSE s[j]
BY SMTT(60)

LEMMA HeadTailProperties ==
    ASSUME NEW S, NEW s \in Seq(S), s # <<>>
    PROVE  /\ Head(s) \in S /\ Tail(s) \in Seq(S) /\ Len(Tail(s)) = Len(s) - 1
           /\ \A k \in 1..Len(Tail(s)) : Tail(s)[k] = s[k + 1]
BY SMTT(60)

LEMMA AppendProperties ==
    ASSUME NEW S, NEW s \in Seq(S), NEW e \in S
    PROVE  /\ Append(s, e) \in Seq(S) /\ Append(s, e) # <<>>
           /\ Len(Append(s, e)) = Len(s) + 1
           /\ \A k \in 1..Len(s) : Append(s, e)[k] = s[k]
           /\ Append(s, e)[Len(s) + 1] = e
BY SMTT(60)

----------------------------------------------------------------------------
(* What a step does to the queue.                                          *)

\* The invariant of the queue alone, without the place of the loop.
QueueInv ==
    /\ pending \in Seq(OutMsg) /\ Len(pending) <= MaxPending
    /\ published \in Nat
    /\ IdsDistinct
    /\ QueuedLast
    /\ \A k \in DOMAIN pending : pending[k].msg <= published

\* It is part of the inductive invariant.
LEMMA QueueOfInv == DeliveryInv => QueueInv
BY SMTT(60) DEF DeliveryInv, QueueInv, TypeOK, Sending

\* The domain of the queue and the types of its entries.
LEMMA QueueDomain ==
    ASSUME QueueInv
    PROVE  /\ Len(pending) \in Nat
           /\ DOMAIN pending = 1..Len(pending)
           /\ \A k \in 1..Len(pending) : pending[k] \in OutMsg
BY LenProperties, ElementOfSeq DEF QueueInv

\* An entry in flight changes state or flags and stays in flight.
LEMMA InFlightUpdate ==
    ASSUME QueueInv, NEW k \in InFlight, NEW r \in OutMsg,
           r.msg = pending[k].msg, r.id = pending[k].id, r.state # "queued",
           pending' = [pending EXCEPT ![k] = r], published' = published
    PROVE  /\ QueueInv' /\ Len(pending') = Len(pending)
           /\ \A j \in 1..Len(pending) :
                pending'[j].state = "queued" <=> pending[j].state = "queued"
<1>1. /\ Len(pending) \in Nat /\ DOMAIN pending = 1..Len(pending)
      /\ k \in 1..Len(pending) /\ pending[k].state # "queued"
  BY QueueDomain DEF InFlight
<1>2. /\ pending' \in Seq(OutMsg) /\ Len(pending') = Len(pending)
      /\ \A j \in 1..Len(pending) : pending'[j] = IF j = k THEN r ELSE pending[j]
  BY <1>1, ExceptSeq, SMTT(60) DEF QueueInv
<1>3. DOMAIN pending' = 1..Len(pending)
  BY <1>1, <1>2, LenProperties
<1>4. \A j \in 1..Len(pending) :
        /\ pending'[j].state = "queued" <=> pending[j].state = "queued"
        /\ pending'[j].id = pending[j].id
        /\ pending'[j].msg = pending[j].msg
  BY <1>1, <1>2
<1>5. InFlight' = InFlight
  BY <1>1, <1>3, <1>4 DEF InFlight
<1>6. IdsDistinct'
  BY <1>1, <1>4, <1>5, SMTT(60) DEF QueueInv, IdsDistinct, InFlight
<1>7. QueuedLast'
  BY <1>1, <1>3, <1>4, SMTT(60) DEF QueueInv, QueuedLast
<1>8. \A j \in DOMAIN pending' : pending'[j].msg <= published'
  BY <1>1, <1>3, <1>4 DEF QueueInv
<1>9. QED
  BY <1>2, <1>4, <1>6, <1>7, <1>8 DEF QueueInv

\* The first entry not sent yet goes on the wire with an unused id.
LEMMA FirstSend ==
    ASSUME QueueInv, NEW k \in 1..Len(pending), pending[k].state = "queued",
           \A j \in 1..Len(pending) : j < k => pending[j].state # "queued",
           NEW id \in Unused,
           pending' = [pending EXCEPT ![k] = Away(pending[k], id)],
           published' = published
    PROVE  /\ QueueInv' /\ Len(pending') = Len(pending)
           /\ \A j \in 1..Len(pending) : j <= k => pending'[j].state # "queued"
<1>1. /\ Len(pending) \in Nat /\ DOMAIN pending = 1..Len(pending)
      /\ pending[k] \in OutMsg /\ id \in Ids
  BY QueueDomain DEF Unused
<1>2. PICK r \in OutMsg : /\ r = Away(pending[k], id) /\ r.id = id
                          /\ r.msg = pending[k].msg /\ r.state # "queued"
  <2>1. \A m \in OutMsg : /\ Away(m, id) \in OutMsg /\ Away(m, id).id = id
                          /\ Away(m, id).msg = m.msg
                          /\ Away(m, id).state # "queued"
    BY <1>1 DEF Away, OutMsg, OutStates
  <2>2. QED
    BY <1>1, <2>1
<1>3. /\ pending' \in Seq(OutMsg) /\ Len(pending') = Len(pending)
      /\ \A j \in 1..Len(pending) : pending'[j] = IF j = k THEN r ELSE pending[j]
  BY <1>1, <1>2, ExceptSeq, SMTT(60) DEF QueueInv
<1>4. DOMAIN pending' = 1..Len(pending)
  BY <1>1, <1>3, LenProperties
<1>5. InFlight' = InFlight \cup {k}
  BY <1>1, <1>2, <1>3, <1>4 DEF InFlight
<1>6. IdsDistinct'
  <2>1. \A j \in InFlight : pending'[j] = pending[j] /\ pending[j].id # id
    BY <1>1, <1>3 DEF InFlight, Unused
  <2>2. pending'[k].id = id
    BY <1>2, <1>3
  <2>3. QED
    BY <1>1, <1>5, <2>1, <2>2, SMTT(60) DEF QueueInv, IdsDistinct
<1>7. QueuedLast'
  <2>1. \A j \in 1..Len(pending) : pending'[j].msg = pending[j].msg
    BY <1>2, <1>3
  <2>2. \A j, l \in 1..Len(pending) :
          j < l /\ pending'[j].state = "queued" => pending'[l].state = "queued"
    <3> SUFFICES ASSUME NEW j \in 1..Len(pending), NEW l \in 1..Len(pending),
                        j < l, pending'[j].state = "queued"
                 PROVE  pending'[l].state = "queued"
      OBVIOUS
    <3>1. j # k /\ pending[j].state = "queued"
      BY <1>2, <1>3
    <3>2. j > k
      BY <3>1, SMTT(60)
    <3>3. l # k /\ pending[l].state = "queued"
      BY <1>1, <3>1, <3>2 DEF QueueInv, QueuedLast
    <3>4. QED
      BY <1>3, <3>3
  <2>3. QED
    BY <1>1, <1>4, <2>1, <2>2, SMTT(60) DEF QueueInv, QueuedLast
<1>8. \A j \in DOMAIN pending' : pending'[j].msg <= published'
  BY <1>1, <1>2, <1>3, <1>4 DEF QueueInv
<1>9. \A j \in 1..Len(pending) : j <= k => pending'[j].state # "queued"
  BY <1>2, <1>3, SMTT(60)
<1>10. QED
  BY <1>3, <1>6, <1>7, <1>8, <1>9 DEF QueueInv

\* A new message goes to the end of the queue.
LEMMA QueueAppend ==
    ASSUME QueueInv, Len(pending) < MaxPending, NEW r \in OutMsg,
           r.state = "queued", r.msg = published + 1,
           pending' = Append(pending, r), published' = published + 1
    PROVE  QueueInv'
<1>1. /\ Len(pending) \in Nat /\ DOMAIN pending = 1..Len(pending)
      /\ published \in Nat /\ MaxPending \in Nat
  BY QueueDomain, DeliveryAssumption DEF QueueInv
<1>2. /\ pending' \in Seq(OutMsg) /\ Len(pending') = Len(pending) + 1
      /\ \A j \in 1..Len(pending) : pending'[j] = pending[j]
      /\ pending'[Len(pending) + 1] = r
  BY AppendProperties, SMTT(60) DEF QueueInv
<1>3. DOMAIN pending' = 1..(Len(pending) + 1)
  BY <1>1, <1>2, LenProperties
<1>4. IdsDistinct'
  <2>1. InFlight' = InFlight
    BY <1>1, <1>2, <1>3, SMTT(60) DEF InFlight
  <2>2. QED
    BY <1>1, <1>2, <2>1, SMTT(60) DEF QueueInv, IdsDistinct, InFlight
<1>5. \A j \in DOMAIN pending' : pending'[j].msg <= published'
  <2>1. \A j \in 1..Len(pending) : pending[j].msg \in Int /\ pending[j].msg <= published
    BY <1>1, QueueDomain, SMTT(60) DEF QueueInv, OutMsg, Messages
  <2>2. QED
    BY <1>1, <1>2, <1>3, <2>1, SMTT(60)
<1>6. QueuedLast'
  <2>1. \A j \in 1..Len(pending) : pending[j].msg \in Int /\ pending[j].msg <= published
    BY <1>1, QueueDomain, SMTT(60) DEF QueueInv, OutMsg, Messages
  <2>2. ASSUME NEW j \in 1..(Len(pending) + 1), NEW l \in 1..(Len(pending) + 1), j < l
        PROVE  /\ pending'[j].msg < pending'[l].msg
               /\ pending'[j].state = "queued" => pending'[l].state = "queued"
    <3>1. j \in 1..Len(pending) /\ pending'[j] = pending[j]
      BY <1>1, <1>2, <2>2, SMTT(60)
    <3>2. CASE l = Len(pending) + 1
      BY <1>1, <1>2, <2>1, <3>1, <3>2, SMTT(60)
    <3>3. CASE l \in 1..Len(pending)
      BY <1>1, <1>2, <2>2, <3>1, <3>3 DEF QueueInv, QueuedLast
    <3>4. QED
      BY <1>1, <3>2, <3>3, SMTT(60)
  <2>3. QED
    BY <1>3, <2>2 DEF QueuedLast
<1>7. QED
  BY <1>1, <1>2, <1>4, <1>5, <1>6, SMTT(60) DEF QueueInv

\* An acknowledged entry leaves and the tail moves up.
LEMMA QueueRemove ==
    ASSUME QueueInv, NEW k \in 1..Len(pending),
           pending' = Without(k), published' = published
    PROVE  QueueInv'
<1> DEFINE n == Len(pending) - 1
           Old(j) == IF j < k THEN j ELSE j + 1
<1>1. /\ Len(pending) \in Nat /\ DOMAIN pending = 1..Len(pending)
      /\ n \in Nat /\ MaxPending \in Nat
      /\ \A j \in 1..Len(pending) : pending[j] \in OutMsg
  BY QueueDomain, DeliveryAssumption, SMTT(60)
<1>2. \A j \in 1..n : Old(j) \in 1..Len(pending)
  BY <1>1, SMTT(60)
<1>3. /\ DOMAIN pending' = 1..n
      /\ \A j \in 1..n : pending'[j] = pending[Old(j)]
  BY <1>1 DEF Without
<1>4. pending' \in [1..n -> OutMsg]
  BY <1>1, <1>2 DEF Without
<1>5. pending' \in Seq(OutMsg) /\ Len(pending') = n
  <2>1. pending' \in Seq(OutMsg)
    BY <1>1, <1>4, SeqDef
  <2>2. QED
    <3>1. Len(pending') \in Nat /\ DOMAIN pending' = 1..Len(pending')
      BY <2>1, LenProperties
    <3>2. \A a, b \in Nat : 1..a = 1..b => a = b
      BY SMTT(60)
    <3>3. QED
      BY <1>1, <1>3, <2>1, <3>1, <3>2
<1>6. \A j, l \in 1..n : (j < l => Old(j) < Old(l)) /\ (Old(j) = Old(l) => j = l)
  BY <1>1, SMTT(60)
<1> HIDE DEF n, Old
<1>7. IdsDistinct'
  <2>1. \A j \in InFlight' : j \in 1..n /\ Old(j) \in InFlight
    BY <1>1, <1>2, <1>3 DEF InFlight
  <2>2. QED
    BY <1>3, <1>6, <2>1, SMTT(60) DEF QueueInv, IdsDistinct
<1>8. QueuedLast'
  <2>1. ASSUME NEW j \in 1..n, NEW l \in 1..n, j < l
        PROVE  /\ pending'[j].msg < pending'[l].msg
               /\ pending'[j].state = "queued" => pending'[l].state = "queued"
    <3>1. Old(j) \in DOMAIN pending /\ Old(l) \in DOMAIN pending /\ Old(j) < Old(l)
      BY <1>1, <1>2, <1>6, <2>1
    <3>2. QED
      BY <1>3, <3>1 DEF QueueInv, QueuedLast
  <2>2. QED
    BY <1>3, <2>1, SMTT(60) DEF QueuedLast
<1>9. \A j \in DOMAIN pending' : pending'[j].msg <= published'
  BY <1>1, <1>2, <1>3 DEF QueueInv
<1>10. Len(pending') <= MaxPending
  BY <1>1, <1>5, SMTT(60) DEF QueueInv, n
<1>11. QED
  BY <1>5, <1>7, <1>8, <1>9, <1>10 DEF QueueInv

----------------------------------------------------------------------------
(* The steps.                                                              *)

\* The packets the broker and the client build are packets.
LEMMA PacketTypes ==
    /\ \A t \in ControlTypes, id \in Ids \cup {NoId} : Control(t, id) \in Packet
    /\ \A m \in OutMsg, id \in Ids, d \in BOOLEAN : PublishPacket(m, id, d) \in Packet
BY DEF Control, PublishPacket, Packet, OutMsg, ControlTypes

\* The types of the variables other than the queue.
RestOK ==
    /\ lastId \in 0..MaxId
    /\ online \in BOOLEAN
    /\ pc \in {"idle", "pump", "resume"}
    /\ i \in 1..(MaxPending + 1)
    /\ toClient \in Seq(Packet)
    /\ toBroker \in Seq(Packet)
    /\ received \subseteq Ids
    /\ seen \in Seq(Messages)
    /\ twice \subseteq Messages
    /\ published \in 0..MaxMessages
    /\ qosOf \in [Messages -> QoSs \cup {0}]
    /\ dropped \subseteq Messages
    /\ sent \subseteq Messages
    /\ losses \in 0..MaxLosses

\* A loop has left nothing unsent behind it.
Behind ==
    pc # "idle" => \A k \in DOMAIN pending : k < i => pending[k].state # "queued"

\* The inductive invariant in the parts the proofs of the steps establish.
LEMMA InvParts == DeliveryInv <=> QueueInv /\ RestOK /\ Behind
BY DeliveryAssumption, SMTT(60) DEF DeliveryInv, QueueInv, RestOK, Behind, TypeOK, Sending

\* The queue's invariant depends on the queue and the number of messages.
LEMMA QueueSame ==
    ASSUME QueueInv, UNCHANGED <<pending, published>>
    PROVE  QueueInv'
BY SMTT(60) DEF QueueInv, IdsDistinct, QueuedLast, InFlight

\* The two flags of an entry are independent of the rest of it.
LEMMA FlagUpdate ==
    \A m \in OutMsg, b \in BOOLEAN :
        /\ [m EXCEPT !.resend = b] \in OutMsg /\ [m EXCEPT !.dup = b] \in OutMsg
        /\ [m EXCEPT !.resend = b].msg = m.msg /\ [m EXCEPT !.dup = b].msg = m.msg
        /\ [m EXCEPT !.resend = b].id = m.id /\ [m EXCEPT !.dup = b].id = m.id
        /\ [m EXCEPT !.resend = b].state = m.state /\ [m EXCEPT !.dup = b].state = m.state
BY DEF OutMsg

\* A turn of either loop that sends nothing for the first time.
LEMMA RepeatStep ==
    ASSUME QueueInv, RestOK, Behind, pc # "idle", i <= Len(pending),
           pending[i].state # "queued",
           \/ Skip
           \/ pending[i].state = "awaiting_pubcomp" /\ SendPubrel
           \/ SendAgain,
           UNCHANGED <<online, toBroker, client, published, qosOf, dropped, losses>>
    PROVE  QueueInv' /\ RestOK' /\ Behind'
<1>1. /\ Len(pending) \in Nat /\ DOMAIN pending = 1..Len(pending)
      /\ i \in 1..Len(pending) /\ pending[i] \in OutMsg /\ MaxPending \in Nat
  BY QueueDomain, DeliveryAssumption, SMTT(60) DEF RestOK
<1>2. i \in InFlight /\ pending[i].id \in Ids
  BY <1>1 DEF InFlight, QueueInv, IdsDistinct
<1>3. UNCHANGED <<lastId, sent>>
  BY DEF Skip, SendPubrel, SendAgain, queue
<1>4. toClient' \in Seq(Packet)
  <2>1. toClient' = toClient \/ \E p \in Packet : toClient' = Append(toClient, p)
    BY <1>1, <1>2, PacketTypes DEF Skip, SendPubrel, SendAgain, Send, ControlTypes
  <2>2. toClient \in Seq(Packet)
    BY DEF RestOK
  <2>3. \A p \in Packet : Append(toClient, p) \in Seq(Packet)
    BY <2>2, AppendProperties
  <2>4. QED
    BY <2>1, <2>2, <2>3
<1>5. \/ pc' = pc /\ i' = i + 1
      \/ pc' = "idle" /\ i' = 1
  BY DEF Skip, SendPubrel, SendAgain, Continue, Return
<1>6. i' \in 1..(MaxPending + 1)
  BY <1>1, <1>5, SMTT(60) DEF QueueInv
<1>7. RestOK'
  BY <1>3, <1>4, <1>5, <1>6 DEF RestOK, client
<1>8. /\ QueueInv' /\ Len(pending') = Len(pending)
      /\ \A j \in 1..Len(pending) :
            pending'[j].state = "queued" <=> pending[j].state = "queued"
  <2>1. CASE pending' = pending
    BY <2>1, QueueSame
  <2>2. CASE \E b \in BOOLEAN : pending' = [pending EXCEPT ![i] = [@ EXCEPT !.resend = b]]
    <3>1. PICK b \in BOOLEAN : pending' = [pending EXCEPT ![i] = [@ EXCEPT !.resend = b]]
      BY <2>2
    <3>2. PICK r \in OutMsg : /\ r = [pending[i] EXCEPT !.resend = b]
                              /\ r.msg = pending[i].msg /\ r.id = pending[i].id
                              /\ r.state = pending[i].state
      BY <1>1, FlagUpdate
    <3>3. pending' = [pending EXCEPT ![i] = r]
      BY <3>1, <3>2
    <3>4. QED
      BY <1>2, <3>2, <3>3, InFlightUpdate
  <2>3. CASE pending' = [pending EXCEPT ![i] = [@ EXCEPT !.dup = TRUE]]
    <3>1. PICK r \in OutMsg : /\ r = [pending[i] EXCEPT !.dup = TRUE]
                              /\ r.msg = pending[i].msg /\ r.id = pending[i].id
                              /\ r.state = pending[i].state
      BY <1>1, FlagUpdate
    <3>2. pending' = [pending EXCEPT ![i] = r]
      BY <2>3, <3>1
    <3>3. QED
      BY <1>2, <3>1, <3>2, InFlightUpdate
  <2>4. QED
    BY <2>1, <2>2, <2>3 DEF Skip, SendPubrel, SendAgain, queue
<1>9. DOMAIN pending' = 1..Len(pending)
  BY <1>8, LenProperties DEF QueueInv
<1>10. Behind'
  BY <1>1, <1>5, <1>8, <1>9, SMTT(60) DEF Behind
<1>11. QED
  BY <1>7, <1>8, <1>10

\* A turn of either loop at an entry not sent yet.
LEMMA FirstStep ==
    ASSUME IdFound, QueueInv, RestOK, Behind, pc # "idle", i <= Len(pending),
           pending[i].state = "queued", SendFirst,
           UNCHANGED <<online, toBroker, client, published, qosOf, dropped, losses>>
    PROVE  QueueInv' /\ RestOK' /\ Behind'
<1>1. /\ Len(pending) \in Nat /\ DOMAIN pending = 1..Len(pending)
      /\ i \in 1..Len(pending) /\ pending[i] \in OutMsg /\ MaxPending \in Nat
      /\ pending[i].msg \in Messages /\ pending[i].dup \in BOOLEAN
  BY QueueDomain, DeliveryAssumption, SMTT(60) DEF RestOK, OutMsg
<1>2. NextId \in Unused /\ NextId \in Ids
  BY DEF IdFound
<1>3. lastId' \in 0..MaxId
  BY <1>2, DeliveryAssumption, SMTT(60) DEF SendFirst, Ids
<1>4. CASE Fits(PublishPacket(pending[i], NextId, pending[i].dup))
  <2>1. /\ toClient' = Append(toClient, PublishPacket(pending[i], NextId, pending[i].dup))
        /\ pending' = [pending EXCEPT ![i] = Away(pending[i], NextId)]
        /\ sent' = sent \cup {pending[i].msg}
        /\ i' = i + 1 /\ pc' = pc
    BY <1>4 DEF SendFirst, Send, Continue
  <2>2. toClient' \in Seq(Packet)
    BY <1>1, <1>2, <2>1, PacketTypes, AppendProperties DEF RestOK
  <2>3. RestOK'
    BY <1>1, <1>3, <2>1, <2>2, SMTT(60) DEF RestOK, QueueInv, client
  <2>4. /\ QueueInv' /\ Len(pending') = Len(pending)
        /\ \A j \in 1..Len(pending) : j <= i => pending'[j].state # "queued"
    <3>1. \A j \in 1..Len(pending) : j < i => pending[j].state # "queued"
      BY <1>1 DEF Behind
    <3>2. QED
      BY <1>1, <1>2, <2>1, <3>1, FirstSend
  <2>5. DOMAIN pending' = 1..Len(pending)
    BY <2>4, LenProperties DEF QueueInv
  <2>6. Behind'
    BY <1>1, <2>1, <2>4, <2>5, SMTT(60) DEF Behind
  <2>7. QED
    BY <2>3, <2>4, <2>6
<1>5. CASE ~Fits(PublishPacket(pending[i], NextId, pending[i].dup))
  <2>1. UNCHANGED <<pending, toClient, sent>> /\ pc' = "idle" /\ i' = 1
    BY <1>5 DEF SendFirst, Return
  <2>2. QueueInv'
    BY <2>1, QueueSame
  <2>3. RestOK'
    BY <1>1, <1>3, <2>1, SMTT(60) DEF RestOK, client
  <2>4. QED
    BY <2>1, <2>2, <2>3 DEF Behind
<1>6. QED
  BY <1>4, <1>5

\* A turn of pump_session() or resume_session(), or the end of the loop.
LEMMA LoopStep ==
    ASSUME IdFound, QueueInv, RestOK, Behind, Step
    PROVE  QueueInv' /\ RestOK' /\ Behind'
<1>1. CASE PumpSession
  <2>1. /\ pc # "idle" /\ i <= Len(pending)
        /\ UNCHANGED <<online, toBroker, client, published, qosOf, dropped, losses>>
    BY <1>1 DEF PumpSession, Looping
  <2>2. CASE pending[i].state = "queued"
    BY <1>1, <2>1, <2>2, FirstStep DEF PumpSession
  <2>3. CASE pending[i].state # "queued"
    BY <1>1, <2>1, <2>3, RepeatStep DEF PumpSession
  <2>4. QED
    BY <2>2, <2>3
<1>2. CASE ResumeSession
  <2>1. /\ pc # "idle" /\ i <= Len(pending)
        /\ UNCHANGED <<online, toBroker, client, published, qosOf, dropped, losses>>
    BY <1>2 DEF ResumeSession, Looping
  <2>2. CASE pending[i].state = "queued"
    BY <1>2, <2>1, <2>2, FirstStep DEF ResumeSession
  <2>3. CASE pending[i].state # "queued"
    BY <1>2, <2>1, <2>3, RepeatStep DEF ResumeSession
  <2>4. QED
    BY <2>2, <2>3
<1>3. CASE LoopEnd
  <2>1. /\ pc' = "idle" /\ i' = 1
        /\ UNCHANGED <<queue, online, toClient, toBroker, client, history>>
    BY <1>3 DEF LoopEnd, Return
  <2>2. QueueInv'
    BY <2>1, QueueSame DEF queue, history
  <2>3. RestOK'
    BY <2>1, DeliveryAssumption, SMTT(60) DEF RestOK, queue, client, history
  <2>4. QED
    BY <2>1, <2>2, <2>3 DEF Behind
<1>4. QED
  BY <1>1, <1>2, <1>3 DEF Step

\* A message is published to the session.
LEMMA EnqueueStep ==
    ASSUME QueueInv, RestOK, Behind, NEW q \in QoSs, NEW oversize \in BOOLEAN,
           Enqueue(q, oversize)
    PROVE  QueueInv' /\ RestOK' /\ Behind'
<1>1. /\ pc = "idle" /\ published < MaxMessages /\ published' = published + 1
      /\ qosOf' = [qosOf EXCEPT ![published + 1] = q]
      /\ UNCHANGED <<lastId, online, toClient, toBroker, client, sent, losses>>
  BY DEF Enqueue
<1>2. /\ published + 1 \in Messages /\ published' \in 0..MaxMessages
      /\ published \in Nat /\ Len(pending) \in Nat /\ MaxPending \in Nat
  BY <1>1, QueueDomain, DeliveryAssumption, SMTT(60) DEF RestOK, Messages, QueueInv
<1>3. qosOf' \in [Messages -> QoSs \cup {0}]
  BY <1>1, <1>2 DEF RestOK
<1>4. CASE oversize \/ Len(pending) = MaxPending
  <2>1. dropped' = dropped \cup {published + 1} /\ UNCHANGED <<pending, pc, i>>
    BY <1>4 DEF Enqueue
  <2>2. QueueInv'
    <3>1. \A k \in DOMAIN pending : pending[k].msg \in Int
      BY QueueDomain, SMTT(60) DEF OutMsg, Messages
    <3>2. QED
      BY <1>1, <1>2, <2>1, <3>1, SMTT(60) DEF QueueInv, IdsDistinct, QueuedLast, InFlight
  <2>3. RestOK'
    BY <1>1, <1>2, <1>3, <2>1 DEF RestOK, client
  <2>4. QED
    BY <1>1, <2>1, <2>2, <2>3 DEF Behind
<1>5. CASE ~(oversize \/ Len(pending) = MaxPending)
  <2>1. PICK r \in OutMsg : /\ r.state = "queued" /\ r.msg = published + 1
                            /\ pending' = Append(pending, r)
    <3>1. PICK r : /\ r = [msg |-> published + 1, id |-> NoId, qos |-> q,
                           state |-> "queued", dup |-> FALSE, resend |-> FALSE]
                   /\ pending' = Append(pending, r)
      BY <1>5 DEF Enqueue
    <3>2. r \in OutMsg /\ r.state = "queued" /\ r.msg = published + 1
      BY <1>2, <3>1 DEF OutMsg, OutStates
    <3>3. QED
      BY <3>1, <3>2
  <2>2. pc' \in {"pump", "idle"} /\ i' = 1 /\ dropped' = dropped
    BY <1>5 DEF Enqueue
  <2>3. Len(pending) < MaxPending
    BY <1>2, <1>5, SMTT(60) DEF QueueInv
  <2>4. QueueInv'
    BY <1>1, <2>1, <2>3, QueueAppend
  <2>5. RestOK'
    BY <1>1, <1>2, <1>3, <2>2, SMTT(60) DEF RestOK, client
  <2>6. Behind'
    BY <2>2, <2>4, LenProperties, SMTT(60) DEF Behind, QueueInv
  <2>7. QED
    BY <2>4, <2>5, <2>6
<1>6. QED
  BY <1>4, <1>5

\* What find_pending() finds is in flight, and there is at most one.
LEMMA FoundOne ==
    ASSUME QueueInv, NEW S \in SUBSET (OutStates \ {"queued"}), Found(S) # {}
    PROVE  /\ First(Found(S)) \in Found(S)
           /\ First(Found(S)) \in InFlight
           /\ First(Found(S)) \in 1..Len(pending)
<1>1. Found(S) \subseteq InFlight
  BY DEF Found, InFlight
<1>2. \A j, k \in Found(S) : j = k
  BY <1>1 DEF Found, QueueInv, IdsDistinct
<1>3. \A k \in Found(S) : k \in 1..Len(pending) /\ k \in Int
  BY QueueDomain, SMTT(60) DEF Found
<1>4. \E k \in Found(S) : \A j \in Found(S) : k <= j
  BY <1>2, <1>3, SMTT(60)
<1>5. First(Found(S)) \in Found(S)
  BY <1>4 DEF First
<1>6. QED
  BY <1>1, <1>3, <1>5

\* PUBACK and PUBCOMP.
LEMMA CompletesStep ==
    ASSUME QueueInv, RestOK, Behind,
           NEW t, NEW st \in OutStates \ {"queued"}, Completes(t, st)
    PROVE  QueueInv' /\ RestOK' /\ Behind'
<1>1. /\ pc = "idle" /\ toBroker # <<>> /\ toBroker' = Tail(toBroker)
      /\ UNCHANGED <<lastId, online, loop, toClient, client, history>>
  BY DEF Completes, Arrived
<1>2. toBroker' \in Seq(Packet)
  BY <1>1, HeadTailProperties DEF RestOK
<1>3. RestOK'
  BY <1>1, <1>2 DEF RestOK, loop, client, history
<1>4. QueueInv'
  <2>1. CASE Found({st}) = {}
    BY <1>1, <2>1, QueueSame DEF Completes, history
  <2>2. CASE Found({st}) # {}
    <3>1. pending' = Without(First(Found({st})))
      BY <2>2 DEF Completes
    <3>2. First(Found({st})) \in 1..Len(pending)
      BY <2>2, FoundOne
    <3>3. PICK k \in 1..Len(pending) : k = First(Found({st}))
      BY <3>2
    <3>4. QED
      BY <1>1, <3>1, <3>3, QueueRemove DEF history
  <2>3. QED
    BY <2>1, <2>2
<1>5. QED
  BY <1>1, <1>3, <1>4 DEF Behind, loop

\* PUBREC.
LEMMA PubrecStep ==
    ASSUME QueueInv, RestOK, Behind, HandlePubrec
    PROVE  QueueInv' /\ RestOK' /\ Behind'
<1> DEFINE S == {"awaiting_pubrec", "awaiting_pubcomp"}
           p == Control("pubrel", Head(toBroker).id)
<1>1. /\ pc = "idle" /\ toBroker # <<>>
      /\ UNCHANGED <<lastId, loop, client, history>>
  BY DEF HandlePubrec, Arrived
<1>2. /\ Head(toBroker) \in Packet /\ Tail(toBroker) \in Seq(Packet)
      /\ <<>> \in Seq(Packet)
  BY <1>1, HeadTailProperties, EmptySeq DEF RestOK
<1>3. p \in Packet
  BY <1>2, PacketTypes DEF Packet, ControlTypes
<1>4. toBroker' \in Seq(Packet) /\ online' \in BOOLEAN
  BY <1>2 DEF HandlePubrec, RestOK
<1>5. toClient' \in Seq(Packet)
  <2>1. toClient' = toClient \/ toClient' = Append(toClient, p)
    BY DEF HandlePubrec, Send
  <2>2. Append(toClient, p) \in Seq(Packet)
    BY <1>3, AppendProperties DEF RestOK
  <2>3. QED
    BY <2>1, <2>2 DEF RestOK
<1>6. RestOK'
  BY <1>1, <1>4, <1>5 DEF RestOK, loop, client, history
<1>7. QueueInv'
  <2>1. CASE Found(S) = {}
    BY <1>1, <2>1, QueueSame DEF HandlePubrec, history
  <2>2. CASE Found(S) # {}
    <3>1. PICK k \in InFlight : k = First(Found(S)) /\ k \in 1..Len(pending)
      <4>1. S \in SUBSET (OutStates \ {"queued"})
        BY DEF OutStates
      <4>2. QED
        BY <2>2, <4>1, FoundOne
    <3>2. \A m \in OutMsg :
            /\ [m EXCEPT !.state = "awaiting_pubcomp"] \in OutMsg
            /\ [m EXCEPT !.state = "awaiting_pubcomp"].msg = m.msg
            /\ [m EXCEPT !.state = "awaiting_pubcomp"].id = m.id
            /\ [m EXCEPT !.state = "awaiting_pubcomp"].state # "queued"
      BY DEF OutMsg, OutStates
    <3>3. PICK r \in OutMsg : /\ r = [pending[k] EXCEPT !.state = "awaiting_pubcomp"]
                              /\ r.msg = pending[k].msg /\ r.id = pending[k].id
                              /\ r.state # "queued"
      BY <3>1, <3>2, QueueDomain
    <3>4. pending' = [pending EXCEPT ![k] = r]
      BY <2>2, <3>1, <3>3 DEF HandlePubrec
    <3>5. QED
      BY <1>1, <3>3, <3>4, InFlightUpdate DEF history
  <2>3. QED
    BY <2>1, <2>2
<1>8. QED
  BY <1>1, <1>6, <1>7 DEF Behind, loop

\* Connections come and go, and tick() starts its loop.
LEMMA ConnStep ==
    ASSUME QueueInv, RestOK, Behind, Tick \/ ConnLost \/ Reconnect
    PROVE  QueueInv' /\ RestOK' /\ Behind'
<1>1. QueueInv'
  BY QueueSame DEF Tick, ConnLost, Reconnect, queue, history
<1>2. Control("connack", NoId) \in Packet /\ <<>> \in Seq(Packet)
  BY PacketTypes, EmptySeq DEF ControlTypes
<1>3. <<Control("connack", NoId)>> \in Seq(Packet)
  BY <1>2, SMTT(60)
<1>4. RestOK'
  <2>1. /\ UNCHANGED <<lastId, received, seen, twice, published, qosOf, dropped, sent>>
        /\ pc' \in {"idle", "pump", "resume"}
        /\ i' = i \/ i' = 1
    BY DEF Tick, ConnLost, Reconnect, RestOK, queue, loop, client, history
  <2>2. online' \in BOOLEAN
    BY DEF Tick, ConnLost, Reconnect, RestOK
  <2>3. losses' \in 0..MaxLosses
    BY DeliveryAssumption, SMTT(60) DEF Tick, ConnLost, Reconnect, RestOK, history
  <2>4. toClient' \in Seq(Packet) /\ toBroker' \in Seq(Packet)
    BY <1>2, <1>3 DEF Tick, ConnLost, Reconnect, RestOK
  <2>5. QED
    BY <2>1, <2>4, <2>2, <2>3, DeliveryAssumption, SMTT(60) DEF RestOK
<1>5. Behind'
  <2>1. DOMAIN pending = 1..Len(pending) /\ pending' = pending
    BY QueueDomain DEF Tick, ConnLost, Reconnect, queue
  <2>2. i' = 1 \/ pc' = "idle"
    BY DEF Tick, ConnLost, Reconnect, loop
  <2>3. QED
    BY <2>1, <2>2, SMTT(60) DEF Behind
<1>6. QED
  BY <1>1, <1>4, <1>5

\* The client takes a packet.
LEMMA ClientStep ==
    ASSUME QueueInv, RestOK, Behind, ClientReceives
    PROVE  QueueInv' /\ RestOK' /\ Behind'
<1> DEFINE p == Head(toClient)
<1>1. /\ toClient # <<>> /\ toClient' = Tail(toClient)
      /\ UNCHANGED <<queue, online, loop, history>>
  BY DEF ClientReceives
<1>2. p \in Packet /\ toClient' \in Seq(Packet)
  BY <1>1, HeadTailProperties DEF RestOK
<1>3. toBroker' \in Seq(Packet)
  <2>1. p.id \in Ids \cup {NoId}
    BY <1>2 DEF Packet
  <2>2. \A t \in ControlTypes : Append(toBroker, Control(t, p.id)) \in Seq(Packet)
    BY <2>1, PacketTypes, AppendProperties DEF RestOK
  <2>3. \/ toBroker' = toBroker
        \/ \E t \in ControlTypes : toBroker' = Append(toBroker, Control(t, p.id))
    BY DEF ClientReceives, Answer, ControlTypes
  <2>4. QED
    BY <2>2, <2>3 DEF RestOK
<1>4. received' \subseteq Ids /\ seen' \in Seq(Messages) /\ twice' \subseteq Messages
  <2>1. CASE p.type = "publish"
    <3>1. p.msg \in Messages /\ p.id \in Ids
      BY <1>2, <2>1 DEF Packet, ControlTypes
    <3>2. Append(seen, p.msg) \in Seq(Messages)
      BY <3>1, AppendProperties DEF RestOK
    <3>3. QED
      BY <2>1, <3>1, <3>2 DEF ClientReceives, Deliver, RestOK
  <2>2. CASE p.type # "publish"
    BY <2>2 DEF ClientReceives, RestOK, client
  <2>3. QED
    BY <2>1, <2>2
<1>5. RestOK'
  BY <1>1, <1>2, <1>3, <1>4 DEF RestOK, queue, loop, history
<1>6. QueueInv'
  BY <1>1, QueueSame DEF queue, history
<1>7. QED
  BY <1>1, <1>5, <1>6 DEF Behind, queue, loop

\* The initial state satisfies the inductive invariant.
LEMMA InvInit == Init => DeliveryInv
<1> SUFFICES ASSUME Init PROVE DeliveryInv
  OBVIOUS
<1>1. <<>> \in Seq(OutMsg) /\ <<>> \in Seq(Packet) /\ <<>> \in Seq(Messages)
      /\ Len(<<>>) = 0 /\ DOMAIN <<>> = {}
  BY EmptySeq, SMTT(60)
<1>2. TypeOK
  BY <1>1, DeliveryAssumption, SMTT(60) DEF Init, TypeOK
<1>3. QED
  BY <1>1, <1>2 DEF Init, DeliveryInv, IdsDistinct, QueuedLast, Sending, InFlight

\* Every step keeps the inductive invariant.
LEMMA InvNext == DeliveryInv /\ IdFound /\ [Next]_vars => DeliveryInv'
<1> SUFFICES ASSUME DeliveryInv, IdFound, [Next]_vars
             PROVE  QueueInv' /\ RestOK' /\ Behind'
  BY InvParts, PTL
<1>0. QueueInv /\ RestOK /\ Behind
  BY InvParts
<1>1. ASSUME NEW q \in QoSs, NEW oversize \in BOOLEAN, Enqueue(q, oversize)
      PROVE  QueueInv' /\ RestOK' /\ Behind'
  BY <1>0, <1>1, EnqueueStep
<1>2. CASE Tick \/ ConnLost \/ Reconnect
  BY <1>0, <1>2, ConnStep
<1>3. CASE Step
  BY <1>0, <1>3, LoopStep
<1>4. CASE Acknowledge
  <2>1. CASE HandlePuback
    BY <1>0, <2>1, CompletesStep DEF HandlePuback, OutStates
  <2>2. CASE HandlePubcomp
    BY <1>0, <2>2, CompletesStep DEF HandlePubcomp, OutStates
  <2>3. CASE HandlePubrec
    BY <1>0, <2>3, PubrecStep
  <2>4. QED
    BY <1>4, <2>1, <2>2, <2>3 DEF Acknowledge
<1>5. CASE ClientReceives
  BY <1>0, <1>5, ClientStep
<1>6. CASE UNCHANGED vars
  BY <1>0, <1>6, SMTT(60) DEF vars, QueueInv, IdsDistinct, QueuedLast, InFlight, RestOK, Behind
<1>7. QED
  BY <1>1, <1>2, <1>3, <1>4, <1>5, <1>6 DEF Next

----------------------------------------------------------------------------
(* Flows.                                                                   *)

Elems(s) == {s[k] : k \in DOMAIN s}
OneToOne(s) == \A j, k \in DOMAIN s : s[j] = s[k] => j = k

Entries == Elems(pending)
Down == Elems(toClient)
Up == Elems(toBroker)

\* The entries in flight that a running resume_session() has not reached.
Unresumed == {pending[k] : k \in {j \in InFlight : pc = "resume" /\ j >= i}}

\* An entry agrees with what was published and what the client has seen.
EntryOK(e) ==
    /\ e.qos = qosOf[e.msg]
    /\ e.state = "queued" =>
            e.msg \notin SeenSet /\ e.msg \notin sent /\ e.dup = FALSE /\ e.resend = FALSE
    /\ e.state # "queued" => e.msg \in sent
    /\ e.state = "awaiting_puback" => e.qos = 1 /\ e.resend = FALSE
    /\ e.state = "awaiting_pubrec" =>
            e.qos = 2 /\ e.resend = FALSE /\ (e.id \in received <=> e.msg \in SeenSet)
    /\ e.state = "awaiting_pubcomp" => e.qos = 2 /\ e.msg \in SeenSet

EntriesOK == \A e \in Entries : EntryOK(e)

\* Entries are told apart by their messages, those in flight by their ids
\* (this much is known from DeliveryInv).
EntriesDiffer ==
    /\ published \in Nat
    /\ \A e \in Entries : e \in OutMsg /\ e.msg \in 1..published
    /\ \A e \in Entries : e.state # "queued" => e.id \in Ids
    /\ \A e, f \in Entries : e.msg = f.msg => e = f
    /\ \A e, f \in Entries :
            e.state # "queued" /\ f.state # "queued" /\ e.id = f.id => e = f

\* The packet is what the entry waits for the client to get,
Expects(e, p) ==
    /\ e.id = p.id
    /\ \/ p.type = "publish" /\ p.qos = 1 /\ p.msg = e.msg /\ e.state = "awaiting_puback"
       \/ p.type = "publish" /\ p.qos = 2 /\ p.msg = e.msg /\ e.state = "awaiting_pubrec"
       \/ p.type = "pubrel" /\ e.state = "awaiting_pubcomp"

\* and this what it waits to hear of the client.
Answers(e, p) ==
    /\ e.id = p.id
    /\ \/ p.type = "puback" /\ e.state = "awaiting_puback" /\ e.msg \in SeenSet
       \/ p.type = "pubrec" /\ e.state = "awaiting_pubrec" /\ e.id \in received
       \/ p.type = "pubcomp" /\ e.state = "awaiting_pubcomp" /\ e.id \notin received

DownOK ==
    \A p \in Down : \/ p.type = "connack" /\ p.id = NoId
                    \/ \E e \in Entries : Expects(e, p)
UpOK == \A p \in Up : \E e \in Entries : Answers(e, p)

\* No two packets under way have the same id.
OneEach ==
    /\ \A p, q \in Down \cup Up : p.id = q.id => p = q
    /\ OneToOne(toClient) /\ OneToOne(toBroker)

\* Of an entry that is to be sent again nothing is under way.
NoneYet ==
    \A e \in Entries, p \in Down \cup Up :
        e.id = p.id => e.resend = FALSE /\ e \notin Unresumed

\* The client remembers ids of QoS 2 flows only.
ReceivedOK ==
    \A id \in received : \E e \in Entries : e.id = id /\ e.qos = 2 /\ e.state # "queued"

\* What was never published has left no trace.
HistoryOK ==
    /\ SeenSet \subseteq 1..published
    /\ sent \subseteq 1..published
    /\ twice \subseteq 1..published

Kept ==
    \A m \in 1..published : m \in dropped \/ m \in SeenSet \/ \E e \in Entries : e.msg = m

FlowInv ==
    /\ EntriesOK
    /\ DownOK /\ UpOK /\ OneEach /\ NoneYet
    /\ ReceivedOK /\ HistoryOK /\ Kept /\ ExactlyOnce

\* The inductive invariant.
Inv == DeliveryInv /\ FlowInv
----------------------------------------------------------------------------
(* Sequences.                                                              *)

\* t is s with e behind it, as to what is in it.
ElemsJoined(s, e, t) ==
    /\ Elems(t) = Elems(s) \cup {e}
    /\ OneToOne(s) /\ e \notin Elems(s) => OneToOne(t)

\* Append() adds its element to what is in the sequence.
LEMMA AppendElems ==
    ASSUME NEW S, NEW s \in Seq(S), NEW e \in S
    PROVE  ElemsJoined(s, e, Append(s, e))
<1> DEFINE t == Append(s, e)
           n == Len(s)
<1>1. n \in Nat /\ DOMAIN s = 1..n
  BY LenProperties
<1>2. /\ DOMAIN t = 1..(n + 1)
      /\ \A k \in 1..n : t[k] = s[k]
      /\ t[n + 1] = e
  BY AppendProperties, LenProperties, SMTT(60)
<1>3. /\ \A k \in 1..(n + 1) : k \in 1..n \/ k = n + 1
      /\ \A k \in 1..n : k \in 1..(n + 1)
      /\ n + 1 \in 1..(n + 1)
  BY <1>1, SMTT(60)
<1> HIDE DEF t, n
<1>4. Elems(t) = Elems(s) \cup {e}
  BY <1>1, <1>2, <1>3 DEF Elems
<1>5. OneToOne(s) /\ e \notin Elems(s) => OneToOne(t)
  BY <1>1, <1>2, <1>3 DEF Elems, OneToOne
<1>6. QED
  BY <1>4, <1>5 DEF t, n, ElemsJoined

\* Tail() takes the head out of what is in a sequence without repetitions.
LEMMA TailElems ==
    ASSUME NEW S, NEW s \in Seq(S), s # <<>>, OneToOne(s)
    PROVE  /\ Head(s) \in Elems(s) /\ Head(s) \in S
           /\ Elems(Tail(s)) = Elems(s) \ {Head(s)}
           /\ OneToOne(Tail(s))
<1> DEFINE t == Tail(s)
           n == Len(s) - 1
<1>1. n \in Nat /\ DOMAIN s = 1..(n + 1)
  BY LenProperties, EmptySeq, SMTT(60)
<1>2. /\ DOMAIN t = 1..n /\ \A k \in 1..n : t[k] = s[k + 1]
      /\ Head(s) = s[1]
  BY <1>1, HeadTailProperties, LenProperties, SMTT(60)
<1>3. /\ \A k \in 1..(n + 1) : k = 1 \/ (k - 1 \in 1..n /\ k = (k - 1) + 1)
      /\ \A k \in 1..n : k + 1 \in 1..(n + 1) /\ k + 1 # 1
      /\ \A j, k \in 1..n : j + 1 = k + 1 => j = k
      /\ 1 \in 1..(n + 1)
  BY <1>1, SMTT(60)
<1>4. s[1] \in S
  BY <1>1, <1>3, ElementOfSeq, LenProperties
<1> HIDE DEF t, n
<1>5. \A j, k \in 1..(n + 1) : s[j] = s[k] => j = k
  BY <1>1 DEF OneToOne
<1>6. Elems(t) \subseteq Elems(s) \ {s[1]}
  <2> SUFFICES ASSUME NEW k \in 1..n PROVE t[k] \in Elems(s) \ {s[1]}
    BY <1>2 DEF Elems
  <2>1. k + 1 \in 1..(n + 1) /\ k + 1 # 1 /\ t[k] = s[k + 1]
    BY <1>2, <1>3
  <2>2. s[k + 1] # s[1]
    BY <1>3, <1>5, <2>1
  <2>3. s[k + 1] \in Elems(s)
    BY <1>1, <2>1 DEF Elems
  <2>4. QED
    BY <2>1, <2>2, <2>3
<1>7. Elems(s) \ {s[1]} \subseteq Elems(t)
  <2> SUFFICES ASSUME NEW k \in 1..(n + 1), s[k] # s[1] PROVE s[k] \in Elems(t)
    BY <1>1 DEF Elems
  <2>1. k - 1 \in 1..n /\ t[k - 1] = s[k]
    BY <1>2, <1>3
  <2>2. QED
    BY <1>2, <2>1 DEF Elems
<1>8. OneToOne(t)
  <2> SUFFICES ASSUME NEW j \in 1..n, NEW k \in 1..n, t[j] = t[k] PROVE j = k
    BY <1>2 DEF OneToOne
  <2>1. s[j + 1] = s[k + 1] /\ j + 1 \in 1..(n + 1) /\ k + 1 \in 1..(n + 1)
    BY <1>2, <1>3
  <2>2. QED
    BY <1>3, <1>5, <2>1
<1>9. s[1] \in Elems(s)
  BY <1>1, <1>3 DEF Elems
<1>10. QED
  BY <1>2, <1>4, <1>6, <1>7, <1>8, <1>9 DEF t

\* Nothing is in the empty sequence, and one element in that of one.
LEMMA SmallElems ==
    /\ Elems(<<>>) = {} /\ OneToOne(<<>>)
    /\ \A e : Elems(<<e>>) = {e} /\ OneToOne(<<e>>)
BY SMTT(60) DEF Elems, OneToOne

----------------------------------------------------------------------------
(* The queue as a set.                                                     *)

\* What DeliveryInv says of the entries.
LEMMA EntryFacts == QueueInv => EntriesDiffer /\ OneToOne(pending)
<1> SUFFICES ASSUME QueueInv PROVE EntriesDiffer /\ OneToOne(pending)
  OBVIOUS
<1>1. /\ Len(pending) \in Nat /\ DOMAIN pending = 1..Len(pending)
      /\ \A k \in 1..Len(pending) : pending[k] \in OutMsg
  BY QueueDomain
<1>2. \A j, k \in 1..Len(pending) : pending[j].msg = pending[k].msg => j = k
  <2>1. \A k \in 1..Len(pending) : pending[k].msg \in Int
    BY <1>1, SMTT(60) DEF OutMsg, Messages
  <2>2. QED
    BY <1>1, <2>1, SMTT(60) DEF QueueInv, QueuedLast
<1>3. OneToOne(pending)
  BY <1>1, <1>2 DEF OneToOne
<1>4. \A e, f \in Entries : e.msg = f.msg => e = f
  BY <1>1, <1>2 DEF Entries, Elems
<1>5. \A e, f \in Entries :
        e.state # "queued" /\ f.state # "queued" /\ e.id = f.id => e = f
  <2> SUFFICES ASSUME NEW j \in 1..Len(pending), NEW k \in 1..Len(pending),
                      pending[j].state # "queued", pending[k].state # "queued",
                      pending[j].id = pending[k].id
               PROVE  pending[j] = pending[k]
    BY <1>1 DEF Entries, Elems
  <2>1. j \in InFlight /\ k \in InFlight
    BY <1>1 DEF InFlight
  <2>2. QED
    BY <2>1 DEF QueueInv, IdsDistinct
<1>6. \A e \in Entries : e \in OutMsg /\ e.msg \in 1..published
  <2>1. \A k \in 1..Len(pending) : pending[k].msg \in 1..published
    BY <1>1, SMTT(60) DEF QueueInv, OutMsg, Messages
  <2>2. QED
    BY <1>1, <2>1 DEF Entries, Elems
<1>7. \A e \in Entries : e.state # "queued" => e.id \in Ids
  BY <1>1 DEF Entries, Elems, QueueInv, IdsDistinct, InFlight
<1>8. QED
  BY <1>3, <1>4, <1>5, <1>6, <1>7 DEF EntriesDiffer, QueueInv

\* enqueue() adds an entry.
LEMMA AddEntry ==
    ASSUME QueueInv, NEW r \in OutMsg, pending' = Append(pending, r)
    PROVE  Entries' = Entries \cup {r}
<1>1. pending \in Seq(OutMsg)
  BY DEF QueueInv
<1>2. ElemsJoined(pending, r, Append(pending, r))
  BY <1>1, AppendElems
<1>3. QED
  BY <1>2 DEF ElemsJoined, Entries

\* An entry is replaced by another.
LEMMA ReplaceEntry ==
    ASSUME QueueInv, NEW k \in 1..Len(pending), NEW r,
           pending' = [pending EXCEPT ![k] = r]
    PROVE  /\ pending[k] \in Entries
           /\ Entries' = (Entries \ {pending[k]}) \cup {r}
<1>1. DOMAIN pending = 1..Len(pending) /\ OneToOne(pending)
  BY QueueDomain, EntryFacts
<1>2. /\ DOMAIN pending' = 1..Len(pending)
      /\ pending'[k] = r
      /\ \A j \in 1..Len(pending) : j # k => pending'[j] = pending[j]
  BY <1>1
<1>3. \A j \in 1..Len(pending) : j # k => pending[j] # pending[k]
  BY <1>1 DEF OneToOne
<1>4. Entries' \subseteq (Entries \ {pending[k]}) \cup {r}
  BY <1>1, <1>2, <1>3 DEF Entries, Elems
<1>5. (Entries \ {pending[k]}) \cup {r} \subseteq Entries'
  BY <1>1, <1>2, <1>3 DEF Entries, Elems
<1>6. QED
  BY <1>1, <1>4, <1>5 DEF Entries, Elems

\* An entry leaves.
LEMMA RemoveEntry ==
    ASSUME QueueInv, NEW k \in 1..Len(pending), pending' = Without(k)
    PROVE  /\ pending[k] \in Entries
           /\ Entries' = Entries \ {pending[k]}
<1> DEFINE n == Len(pending) - 1
           Old(j) == IF j < k THEN j ELSE j + 1
<1>1. /\ DOMAIN pending = 1..Len(pending) /\ Len(pending) \in Nat
      /\ OneToOne(pending)
  BY QueueDomain, EntryFacts
<1>2. /\ \A j \in 1..n : Old(j) \in 1..Len(pending) /\ Old(j) # k
      /\ \A l \in 1..Len(pending) : l # k => \E j \in 1..n : l = Old(j)
  <2>1. \A j \in 1..n : Old(j) \in 1..Len(pending) /\ Old(j) # k
    BY <1>1, SMTT(60)
  <2>2. ASSUME NEW l \in 1..Len(pending), l # k
        PROVE  \E j \in 1..n : l = Old(j)
    <3>1. CASE l < k
      <4>1. l \in 1..n /\ l = Old(l)
        BY <1>1, <3>1, SMTT(60)
      <4>2. QED
        BY <4>1
    <3>2. CASE l > k
      <4>1. l - 1 \in 1..n /\ l = Old(l - 1)
        BY <1>1, <3>2, SMTT(60)
      <4>2. QED
        BY <4>1
    <3>3. QED
      BY <1>1, <2>2, <3>1, <3>2, SMTT(60)
  <2> HIDE DEF Old, n
  <2>3. QED
    BY <2>1, <2>2
<1>3. DOMAIN pending' = 1..n /\ \A j \in 1..n : pending'[j] = pending[Old(j)]
  BY DEF Without
<1> HIDE DEF n, Old
<1>4. \A j \in 1..Len(pending) : j # k => pending[j] # pending[k]
  BY <1>1 DEF OneToOne
<1>5. Entries' \subseteq Entries \ {pending[k]}
  <2> SUFFICES ASSUME NEW j \in 1..n PROVE pending'[j] \in Entries \ {pending[k]}
    BY <1>3 DEF Entries, Elems
  <2>1. Old(j) \in 1..Len(pending) /\ pending'[j] = pending[Old(j)] /\ Old(j) # k
    BY <1>2, <1>3
  <2>2. QED
    BY <1>1, <1>4, <2>1 DEF Entries, Elems
<1>6. Entries \ {pending[k]} \subseteq Entries'
  <2> SUFFICES ASSUME NEW l \in 1..Len(pending), l # k PROVE pending[l] \in Entries'
    BY <1>1 DEF Entries, Elems
  <2>1. PICK j \in 1..n : l = Old(j)
    BY <1>2
  <2>2. QED
    BY <1>3, <2>1 DEF Entries, Elems
<1>7. QED
  BY <1>1, <1>5, <1>6 DEF Entries, Elems

----------------------------------------------------------------------------
(* Steps on the sets.                                                      *)

\* What a resumed loop has not reached is in flight.
LEMMA UnresumedFacts ==
    /\ \A e \in Unresumed : e \in Entries /\ e.state # "queued"
    /\ pc # "resume" => Unresumed = {}
BY DEF Unresumed, InFlight, Entries, Elems

\* Nothing changes but that the broker may forget what the client sent, or
\* that a loop moves on.
LEMMA QuietStep ==
    ASSUME FlowInv, Unresumed' \subseteq Unresumed,
           toBroker' = toBroker \/ toBroker' = <<>>,
           UNCHANGED <<pending, toClient, client, published, qosOf, dropped, sent>>
    PROVE  FlowInv'
<1>1. /\ Entries' = Entries /\ Down' = Down /\ SeenSet' = SeenSet
      /\ OneToOne(toClient') <=> OneToOne(toClient)
      /\ UNCHANGED <<received, seen, twice, published, qosOf, dropped, sent>>
  BY DEF Entries, Down, SeenSet, client
<1>2. Up' \subseteq Up /\ (OneToOne(toBroker) => OneToOne(toBroker'))
  BY SmallElems DEF Up
<1>3. EntriesOK'
  BY <1>1 DEF FlowInv, EntriesOK, EntryOK
<1>4. DownOK' /\ UpOK'
  BY <1>1, <1>2 DEF FlowInv, DownOK, UpOK, Expects, Answers
<1>5. OneEach'
  BY <1>1, <1>2 DEF FlowInv, OneEach
<1>6. NoneYet'
  BY <1>1, <1>2 DEF FlowInv, NoneYet
<1>7. ReceivedOK' /\ HistoryOK' /\ Kept' /\ ExactlyOnce'
  BY <1>1 DEF FlowInv, ReceivedOK, HistoryOK, Kept, ExactlyOnce
<1>8. QED
  BY <1>3, <1>4, <1>5, <1>6, <1>7 DEF FlowInv

\* A loop sends p for the entry e, which becomes r.
LEMMA SendsStep ==
    ASSUME FlowInv, EntriesDiffer, EntriesDiffer',
           NEW e \in Entries, NEW r, NEW p,
           Entries' = (Entries \ {e}) \cup {r},
           r.msg = e.msg, r.qos = e.qos, r.state # "queued", r.resend = FALSE,
           e.state # "queued" => r.id = e.id /\ r.state = e.state,
           EntryOK(r)',
           Expects(r, p), p.id \in Ids, \A q \in Down \cup Up : q.id # p.id,
           Down' = Down \cup {p}, OneToOne(toClient'), toBroker' = toBroker,
           Unresumed' \subseteq Unresumed \ {r},
           sent' = sent \cup {r.msg},
           UNCHANGED <<client, published, qosOf, dropped>>
    PROVE  FlowInv'
<1>1. /\ Up' = Up /\ SeenSet' = SeenSet
      /\ UNCHANGED <<received, seen, twice, published, qosOf, dropped>>
  BY DEF Up, SeenSet, client
<1>2. r.id = p.id
  BY DEF Expects
<1>3. \A f \in Entries : f # e => f.msg # e.msg
  BY DEF EntriesDiffer
<1>4. EntriesOK'
  <2> SUFFICES ASSUME NEW f \in Entries, f # e PROVE EntryOK(f)'
    BY DEF EntriesOK
  <2>1. EntryOK(f) /\ f.msg # r.msg
    BY <1>3 DEF FlowInv, EntriesOK
  <2>2. QED
    BY <1>1, <2>1 DEF EntryOK
<1>5. \A q \in Down \cup Up : e.state # "queued" => e.id # q.id
  BY <1>2
<1>6. DownOK'
  <2> SUFFICES ASSUME NEW q \in Down, ~(q.type = "connack" /\ q.id = NoId)
               PROVE  \E f \in Entries' : Expects(f, q)
    BY <1>1 DEF DownOK, Expects
  <2>1. PICK f \in Entries : Expects(f, q)
    BY DEF FlowInv, DownOK
  <2>2. f # e
    BY <1>5, <2>1 DEF Expects
  <2>3. QED
    BY <2>1, <2>2
<1>7. UpOK'
  <2> SUFFICES ASSUME NEW q \in Up PROVE \E f \in Entries' : Answers(f, q)'
    BY <1>1 DEF UpOK
  <2>1. PICK f \in Entries : Answers(f, q)
    BY DEF FlowInv, UpOK
  <2>2. f # e
    BY <1>5, <2>1 DEF Answers
  <2>3. Answers(f, q)'
    BY <1>1, <2>1 DEF Answers
  <2>4. QED
    BY <2>2, <2>3
<1>8. OneEach'
  <2>1. ASSUME NEW f \in Down \cup Up \cup {p}, NEW q \in Down \cup Up \cup {p}, f.id = q.id
        PROVE  f = q
    BY <2>1 DEF FlowInv, OneEach
  <2>2. OneToOne(toBroker')
    BY DEF FlowInv, OneEach
  <2>3. QED
    BY <1>1, <2>1, <2>2 DEF OneEach
<1>9. NoneYet'
  <2> SUFFICES ASSUME NEW f \in Entries', NEW q \in Down' \cup Up', f.id = q.id
               PROVE  f.resend = FALSE /\ f \notin Unresumed'
    BY DEF NoneYet
  <2>1. CASE f = r
    BY <2>1
  <2>2. CASE f # r /\ q \in Down \cup Up
    BY <2>2 DEF FlowInv, NoneYet
  <2>3. CASE f # r /\ q = p
    <3>1. f.state = "queued" /\ f \in Entries
      BY <1>2, <2>3 DEF EntriesDiffer
    <3>2. QED
      BY <3>1, UnresumedFacts DEF FlowInv, EntriesOK, EntryOK
  <2>4. QED
    BY <1>1, <2>1, <2>2, <2>3
<1>10. ReceivedOK'
  <2> SUFFICES ASSUME NEW id \in received
               PROVE  \E f \in Entries' : f.id = id /\ f.qos = 2 /\ f.state # "queued"
    BY <1>1 DEF ReceivedOK
  <2>1. PICK f \in Entries : f.id = id /\ f.qos = 2 /\ f.state # "queued"
    BY DEF FlowInv, ReceivedOK
  <2>2. CASE f = e
    BY <2>1, <2>2
  <2>3. CASE f # e
    BY <2>1, <2>3
  <2>4. QED
    BY <2>2, <2>3
<1>11. HistoryOK'
  BY <1>1 DEF FlowInv, HistoryOK, EntriesDiffer
<1>12. Kept'
  BY <1>1 DEF FlowInv, Kept
<1>13. ExactlyOnce'
  BY <1>1 DEF FlowInv, ExactlyOnce
<1>14. QED
  BY <1>4, <1>6, <1>7, <1>8, <1>9, <1>10, <1>11, <1>12, <1>13 DEF FlowInv

\* A refused PUBREL: the entry e, of which nothing is under way, is flagged.
LEMMA FlagsStep ==
    ASSUME FlowInv, EntriesDiffer,
           NEW e \in Entries, NEW r,
           Entries' = (Entries \ {e}) \cup {r},
           r.msg = e.msg, r.qos = e.qos, r.id = e.id,
           e.state = "awaiting_pubcomp", r.state = "awaiting_pubcomp",
           \A q \in Down \cup Up : q.id # e.id,
           Unresumed' = {},
           UNCHANGED <<toClient, toBroker, client, published, qosOf, dropped, sent>>
    PROVE  FlowInv'
<1>1. /\ Up' = Up /\ Down' = Down /\ SeenSet' = SeenSet
      /\ OneToOne(toClient') <=> OneToOne(toClient)
      /\ OneToOne(toBroker') <=> OneToOne(toBroker)
      /\ UNCHANGED <<received, seen, twice, published, qosOf, dropped, sent>>
  BY DEF Up, Down, SeenSet, client
<1>2. EntriesOK'
  <2> SUFFICES ASSUME NEW f \in Entries' PROVE EntryOK(f)'
    BY DEF EntriesOK
  <2>1. CASE f = r
    <3>1. EntryOK(e)
      BY DEF FlowInv, EntriesOK
    <3>2. QED
      BY <1>1, <2>1, <3>1 DEF EntryOK
  <2>2. CASE f \in Entries
    <3>1. EntryOK(f)
      BY <2>2 DEF FlowInv, EntriesOK
    <3>2. QED
      BY <1>1, <3>1 DEF EntryOK
  <2>3. QED
    BY <2>1, <2>2
<1>3. DownOK'
  <2> SUFFICES ASSUME NEW q \in Down, ~(q.type = "connack" /\ q.id = NoId)
               PROVE  \E f \in Entries' : Expects(f, q)
    BY <1>1 DEF DownOK, Expects
  <2>1. PICK f \in Entries : Expects(f, q)
    BY DEF FlowInv, DownOK
  <2>2. QED
    BY <2>1 DEF Expects
<1>4. UpOK'
  <2> SUFFICES ASSUME NEW q \in Up PROVE \E f \in Entries' : Answers(f, q)'
    BY <1>1 DEF UpOK
  <2>1. PICK f \in Entries : Answers(f, q)
    BY DEF FlowInv, UpOK
  <2>2. f # e /\ Answers(f, q)'
    BY <1>1, <2>1 DEF Answers
  <2>3. QED
    BY <2>2
<1>5. OneEach'
  BY <1>1 DEF FlowInv, OneEach
<1>6. NoneYet'
  BY <1>1 DEF FlowInv, NoneYet
<1>7. ReceivedOK'
  <2> SUFFICES ASSUME NEW id \in received
               PROVE  \E f \in Entries' : f.id = id /\ f.qos = 2 /\ f.state # "queued"
    BY <1>1 DEF ReceivedOK
  <2>1. PICK f \in Entries : f.id = id /\ f.qos = 2 /\ f.state # "queued"
    BY DEF FlowInv, ReceivedOK
  <2>2. CASE f = e
    BY <2>1, <2>2
  <2>3. CASE f # e
    BY <2>1, <2>3
  <2>4. QED
    BY <2>2, <2>3
<1>8. HistoryOK' /\ Kept' /\ ExactlyOnce'
  BY <1>1 DEF FlowInv, HistoryOK, Kept, ExactlyOnce
<1>9. QED
  BY <1>2, <1>3, <1>4, <1>5, <1>6, <1>7, <1>8 DEF FlowInv

----------------------------------------------------------------------------
(* The send loops.                                                         *)

\* A loop that goes on has one entry less before it.
LEMMA UnresumedMoves ==
    ASSUME QueueInv, QueueInv', i \in 1..Len(pending), NEW r,
           pending' = [pending EXCEPT ![i] = r], pc' = pc, i' = i + 1
    PROVE  Unresumed' \subseteq Unresumed \ {r}
<1>1. /\ DOMAIN pending = 1..Len(pending) /\ Len(pending) \in Nat
      /\ DOMAIN pending' = 1..Len(pending)
      /\ pending'[i] = r
      /\ \A k \in 1..Len(pending) : k # i => pending'[k] = pending[k]
  BY QueueDomain
<1>2. OneToOne(pending)'
  BY EntryFacts, PTL
<1> SUFFICES ASSUME NEW k \in InFlight', pc' = "resume", k >= i'
             PROVE  pending'[k] \in Unresumed \ {r}
  BY DEF Unresumed
<1>3. k \in 1..Len(pending) /\ pending'[k].state # "queued"
  BY <1>1 DEF InFlight
<1>4. k # i /\ k >= i
  BY <1>1, <1>3, SMTT(60)
<1>5. pending'[k] = pending[k] /\ k \in InFlight
  BY <1>1, <1>3, <1>4 DEF InFlight
<1>6. pending[k] \in Unresumed
  BY <1>4, <1>5 DEF Unresumed
<1>7. pending'[k] # r
  BY <1>1, <1>2, <1>3, <1>4 DEF OneToOne
<1>8. QED
  BY <1>5, <1>6, <1>7

\* A packet id that alloc_packet_id() hands out is in no packet under way,
\* and the client does not remember it.
LEMMA FreshId ==
    ASSUME FlowInv, QueueInv, NEW id \in Unused
    PROVE  /\ \A q \in Down \cup Up : q.id # id
           /\ id \notin received
           /\ \A e \in Entries : e.state # "queued" => e.id # id
<1>1. \A e \in Entries : e.state # "queued" => e.id # id
  BY DEF Unused, InFlight, Entries, Elems
<1>2. id # NoId
  BY SMTT(60) DEF Unused, Ids, NoId
<1>3. \A q \in Down : q.id # id
  BY <1>1, <1>2 DEF FlowInv, DownOK, Expects
<1>4. \A q \in Up : q.id # id
  BY <1>1 DEF FlowInv, UpOK, Answers
<1>5. id \notin received
  BY <1>1 DEF FlowInv, ReceivedOK
<1>6. QED
  BY <1>1, <1>3, <1>4, <1>5

\* A packet put behind the others.
LEMMA SendDown ==
    ASSUME RestOK, OneEach, NEW p \in Packet, \A q \in Down \cup Up : q.id # p.id,
           Send(p)
    PROVE  Down' = Down \cup {p} /\ OneToOne(toClient')
<1>1. toClient \in Seq(Packet) /\ OneToOne(toClient) /\ p \notin Elems(toClient)
  BY DEF RestOK, OneEach, Down
<1>2. ElemsJoined(toClient, p, Append(toClient, p))
  BY <1>1, AppendElems
<1>3. QED
  BY <1>1, <1>2 DEF ElemsJoined, Send, Down

\* What the fields of an entry are once it is sent.
LEMMA AwayFields ==
    \A m \in OutMsg, id \in Ids :
        /\ Away(m, id) \in OutMsg
        /\ Away(m, id).msg = m.msg /\ Away(m, id).id = id /\ Away(m, id).qos = m.qos
        /\ Away(m, id).dup = m.dup /\ Away(m, id).resend = m.resend
        /\ Away(m, id).state =
                IF m.qos = 1 THEN "awaiting_puback" ELSE "awaiting_pubrec"
BY DEF Away, OutMsg, OutStates

\* What they are when the resend flag is set or cleared,
LEMMA ResendFields ==
    ASSUME NEW m \in OutMsg, NEW b \in BOOLEAN, NEW r, r = [m EXCEPT !.resend = b]
    PROVE  /\ r.msg = m.msg /\ r.id = m.id /\ r.qos = m.qos /\ r.state = m.state
           /\ r.resend = b /\ r.dup = m.dup
BY DEF OutMsg

\* when the DUP flag is set,
LEMMA DupFields ==
    ASSUME NEW m \in OutMsg, NEW r, r = [m EXCEPT !.dup = TRUE]
    PROVE  /\ r.msg = m.msg /\ r.id = m.id /\ r.qos = m.qos /\ r.state = m.state
           /\ r.resend = m.resend /\ r.dup = TRUE
BY DEF OutMsg

\* and when PUBREC moves the state on.
LEMMA StateFields ==
    ASSUME NEW m \in OutMsg, NEW r, r = [m EXCEPT !.state = "awaiting_pubcomp"]
    PROVE  /\ r.msg = m.msg /\ r.id = m.id /\ r.qos = m.qos
           /\ r.state = "awaiting_pubcomp" /\ r.resend = m.resend /\ r.dup = m.dup
BY DEF OutMsg

\* The first transmission of a message.
LEMMA FirstFlow ==
    ASSUME IdFound, Inv, DeliveryInv', pc # "idle", i <= Len(pending),
           pending[i].state = "queued", SendFirst,
           UNCHANGED <<online, toBroker, client, published, qosOf, dropped, losses>>
    PROVE  FlowInv'
<1>1. QueueInv /\ RestOK /\ QueueInv' /\ EntriesDiffer /\ EntriesDiffer'
  BY InvParts, EntryFacts, PTL DEF Inv
<1>2. /\ DOMAIN pending = 1..Len(pending) /\ Len(pending) \in Nat
      /\ i \in 1..Len(pending) /\ pending[i] \in OutMsg
  BY <1>1, QueueDomain, SMTT(60) DEF RestOK
<1>3. NextId \in Unused /\ NextId \in Ids
  BY DEF IdFound
<1>4. PICK id : id = NextId
  OBVIOUS
<1>5. PICK e : e = pending[i]
  OBVIOUS
<1>6. e \in Entries /\ e \in OutMsg /\ e.state = "queued" /\ EntryOK(e)
  BY <1>2, <1>5 DEF Entries, Elems, Inv, FlowInv, EntriesOK
<1>7. PICK p : p = PublishPacket(e, id, e.dup)
  OBVIOUS
<1>8. CASE Fits(p)
  <2>1. PICK r : r = Away(e, id)
    OBVIOUS
  <2>2. /\ Send(p) /\ pending' = [pending EXCEPT ![i] = r]
        /\ sent' = sent \cup {e.msg} /\ pc' = pc /\ i' = i + 1
    BY <1>4, <1>5, <1>7, <1>8, <2>1 DEF SendFirst, Continue
  <2>3. /\ r.msg = e.msg /\ r.qos = e.qos /\ r.id = id
        /\ r.resend = FALSE
        /\ r.state = IF e.qos = 1 THEN "awaiting_puback" ELSE "awaiting_pubrec"
    BY <1>3, <1>4, <1>6, <2>1, AwayFields DEF EntryOK
  <2>4. /\ \A q \in Down \cup Up : q.id # id
        /\ id \notin received
    BY <1>1, <1>3, <1>4, FreshId DEF Inv
  <2>5. p \in Packet /\ p.type = "publish" /\ p.id = id /\ p.msg = e.msg /\ p.qos = e.qos
    <3>1. id \in Ids /\ e.dup \in BOOLEAN
      BY <1>3, <1>4, <1>6 DEF OutMsg
    <3>2. p \in Packet
      BY <1>6, <1>7, <3>1, PacketTypes
    <3>3. QED
      BY <1>7, <3>2 DEF PublishPacket
  <2>6. Down' = Down \cup {p} /\ OneToOne(toClient')
    BY <1>1, <2>2, <2>4, <2>5, SendDown DEF Inv, FlowInv
  <2>7. e.qos \in {1, 2}
    BY <1>6, DeliveryAssumption DEF OutMsg
  <2>8. Expects(r, p)
    BY <2>3, <2>5, <2>7 DEF Expects
  <2>9. Entries' = (Entries \ {e}) \cup {r}
    BY <1>1, <1>2, <1>5, <2>2, ReplaceEntry
  <2>10. Unresumed' \subseteq Unresumed \ {r}
    BY <1>1, <1>2, <2>2, UnresumedMoves
  <2>11. EntryOK(r)'
    <3>1. SeenSet' = SeenSet /\ received' = received /\ qosOf' = qosOf
      BY DEF client, SeenSet
    <3>2. QED
      BY <1>6, <2>2, <2>3, <2>4, <2>7, <3>1 DEF EntryOK
  <2>12. r.state # "queued"
    BY <2>3
  <2>13. QED
    BY <1>1, <1>3, <1>4, <1>6, <2>2, <2>3, <2>4, <2>5, <2>6, <2>8, <2>9, <2>10, <2>11,
       <2>12, SendsStep DEF Inv
<1>9. CASE ~Fits(p)
  <2>1. UNCHANGED <<pending, toClient, sent>> /\ pc' = "idle"
    BY <1>4, <1>5, <1>7, <1>9 DEF SendFirst, Return
  <2>2. Unresumed' = {}
    BY <2>1 DEF Unresumed
  <2>3. QED
    BY <2>1, <2>2, QuietStep DEF Inv
<1>10. QED
  BY <1>8, <1>9

\* What is known of the entry of a turn of which nothing is under way.
LEMMA TurnFacts ==
    ASSUME Inv, DeliveryInv', pc # "idle", i <= Len(pending),
           pending[i].state # "queued",
           pc = "resume" \/ pending[i].resend = TRUE
    PROVE  /\ QueueInv /\ RestOK /\ QueueInv' /\ EntriesDiffer /\ EntriesDiffer'
           /\ i \in 1..Len(pending)
           /\ pending[i] \in Entries /\ pending[i] \in OutMsg /\ pending[i].id \in Ids
           /\ \A q \in Down \cup Up : q.id # pending[i].id
           /\ EntryOK(pending[i])
<1>1. QueueInv /\ RestOK /\ QueueInv' /\ EntriesDiffer /\ EntriesDiffer'
  BY InvParts, EntryFacts, PTL DEF Inv
<1>2. /\ DOMAIN pending = 1..Len(pending) /\ Len(pending) \in Nat
      /\ i \in 1..Len(pending) /\ pending[i] \in OutMsg /\ i >= i
  BY <1>1, QueueDomain, SMTT(60) DEF RestOK
<1>3. pending[i] \in Entries
  BY <1>2 DEF Entries, Elems
<1>4. i \in InFlight
  BY <1>2 DEF InFlight
<1>5. pc = "resume" => pending[i] \in Unresumed
  BY <1>2, <1>4 DEF Unresumed
<1>6. \A q \in Down \cup Up : q.id # pending[i].id
  BY <1>3, <1>5 DEF Inv, FlowInv, NoneYet
<1>7. QED
  BY <1>1, <1>2, <1>3, <1>6 DEF EntriesDiffer, Inv, FlowInv, EntriesOK

\* A PUBREL, for the first time on this connection.
LEMMA PubrelFlow ==
    ASSUME Inv, DeliveryInv', pc # "idle", i <= Len(pending),
           pending[i].state = "awaiting_pubcomp", SendPubrel,
           pc = "resume" \/ pending[i].resend = TRUE,
           UNCHANGED <<online, toBroker, client, published, qosOf, dropped, losses>>
    PROVE  FlowInv'
<1>1. /\ QueueInv /\ RestOK /\ QueueInv' /\ EntriesDiffer /\ EntriesDiffer'
      /\ i \in 1..Len(pending)
      /\ pending[i] \in Entries /\ pending[i] \in OutMsg /\ pending[i].id \in Ids
      /\ \A q \in Down \cup Up : q.id # pending[i].id
      /\ EntryOK(pending[i])
  BY TurnFacts
<1>2. PICK e : e = pending[i]
  OBVIOUS
<1>3. PICK p : p = Control("pubrel", e.id)
  OBVIOUS
<1>4. p \in Packet /\ p.type = "pubrel" /\ p.id = e.id
  <2>1. p \in Packet
    BY <1>1, <1>2, <1>3, PacketTypes DEF ControlTypes
  <2>2. QED
    BY <1>3, <2>1 DEF Control
<1>5. sent' = sent /\ e.msg \in sent /\ SeenSet' = SeenSet /\ received' = received
      /\ qosOf' = qosOf
  BY <1>1, <1>2 DEF SendPubrel, EntryOK, SeenSet, client
<1>6. CASE Fits(p)
  <2>1. PICK r : r = [e EXCEPT !.resend = FALSE]
    OBVIOUS
  <2>2. Send(p) /\ pending' = [pending EXCEPT ![i] = r] /\ pc' = pc /\ i' = i + 1
    BY <1>2, <1>3, <1>6, <2>1 DEF SendPubrel, Continue
  <2>3. /\ r.msg = e.msg /\ r.qos = e.qos /\ r.id = e.id
        /\ r.resend = FALSE /\ r.state = "awaiting_pubcomp"
    <3>1. e \in OutMsg /\ e.state = "awaiting_pubcomp"
      BY <1>1, <1>2
    <3>2. QED
      BY <2>1, <3>1, ResendFields
  <2>4. Down' = Down \cup {p} /\ OneToOne(toClient')
    BY <1>1, <1>2, <1>4, <2>2, SendDown DEF Inv, FlowInv
  <2>5. Expects(r, p)
    BY <1>4, <2>3 DEF Expects
  <2>6. Entries' = (Entries \ {e}) \cup {r}
    BY <1>1, <1>2, <2>2, ReplaceEntry
  <2>7. Unresumed' \subseteq Unresumed \ {r}
    BY <1>1, <2>2, UnresumedMoves
  <2>8. EntryOK(r)'
    BY <1>1, <1>2, <1>5, <2>3 DEF EntryOK
  <2>9. sent' = sent \cup {r.msg} /\ r.state # "queued"
    BY <1>5, <2>3
  <2>10. QED
    BY <1>1, <1>2, <1>4, <2>2, <2>3, <2>4, <2>5, <2>6, <2>7, <2>8, <2>9, SendsStep DEF Inv
<1>7. CASE ~Fits(p)
  <2>1. PICK r : r = [e EXCEPT !.resend = TRUE]
    OBVIOUS
  <2>2. pending' = [pending EXCEPT ![i] = r] /\ pc' = "idle" /\ UNCHANGED toClient
    BY <1>2, <1>3, <1>7, <2>1 DEF SendPubrel, Return
  <2>3. /\ r.msg = e.msg /\ r.qos = e.qos /\ r.id = e.id /\ r.state = "awaiting_pubcomp"
    <3>1. e \in OutMsg /\ e.state = "awaiting_pubcomp"
      BY <1>1, <1>2
    <3>2. QED
      BY <2>1, <3>1, ResendFields
  <2>4. Entries' = (Entries \ {e}) \cup {r}
    BY <1>1, <1>2, <2>2, ReplaceEntry
  <2>5. Unresumed' = {}
    BY <2>2 DEF Unresumed
  <2>6. QED
    BY <1>1, <1>2, <1>5, <2>2, <2>3, <2>4, <2>5, FlagsStep DEF Inv
<1>8. QED
  BY <1>6, <1>7

\* A PUBLISH, for the first time on this connection.
LEMMA AgainFlow ==
    ASSUME Inv, DeliveryInv', pc = "resume", i <= Len(pending),
           pending[i].state \in {"awaiting_puback", "awaiting_pubrec"}, SendAgain,
           UNCHANGED <<online, toBroker, client, published, qosOf, dropped, losses>>
    PROVE  FlowInv'
<1>1. /\ QueueInv /\ RestOK /\ QueueInv' /\ EntriesDiffer /\ EntriesDiffer'
      /\ i \in 1..Len(pending)
      /\ pending[i] \in Entries /\ pending[i] \in OutMsg /\ pending[i].id \in Ids
      /\ \A q \in Down \cup Up : q.id # pending[i].id
      /\ EntryOK(pending[i])
  BY TurnFacts
<1>2. PICK e : e = pending[i]
  OBVIOUS
<1>3. PICK p : p = PublishPacket(e, e.id, TRUE)
  OBVIOUS
<1>4. p \in Packet /\ p.type = "publish" /\ p.id = e.id /\ p.msg = e.msg /\ p.qos = e.qos
  <2>1. p \in Packet
    BY <1>1, <1>2, <1>3, PacketTypes
  <2>2. QED
    BY <1>3, <2>1 DEF PublishPacket
<1>5. sent' = sent /\ e.msg \in sent /\ SeenSet' = SeenSet /\ received' = received
      /\ qosOf' = qosOf
  BY <1>1, <1>2 DEF SendAgain, EntryOK, SeenSet, client
<1>6. CASE Fits(p)
  <2>1. PICK r : r = [e EXCEPT !.dup = TRUE]
    OBVIOUS
  <2>2. Send(p) /\ pending' = [pending EXCEPT ![i] = r] /\ pc' = pc /\ i' = i + 1
    BY <1>2, <1>3, <1>6, <2>1 DEF SendAgain, Continue
  <2>3. /\ r.msg = e.msg /\ r.qos = e.qos /\ r.id = e.id
        /\ r.resend = FALSE /\ r.state = e.state
    <3>1. e.resend = FALSE
      BY <1>1, <1>2 DEF EntryOK
    <3>2. e \in OutMsg
      BY <1>1, <1>2
    <3>3. QED
      BY <2>1, <3>1, <3>2, DupFields
  <2>4. Down' = Down \cup {p} /\ OneToOne(toClient')
    BY <1>1, <1>2, <1>4, <2>2, SendDown DEF Inv, FlowInv
  <2>5. Expects(r, p)
    BY <1>1, <1>2, <1>4, <2>3 DEF Expects, EntryOK
  <2>6. Entries' = (Entries \ {e}) \cup {r}
    BY <1>1, <1>2, <2>2, ReplaceEntry
  <2>7. Unresumed' \subseteq Unresumed \ {r}
    BY <1>1, <2>2, UnresumedMoves
  <2>8. EntryOK(r)'
    BY <1>1, <1>2, <1>5, <2>3 DEF EntryOK
  <2>9. sent' = sent \cup {r.msg} /\ r.state # "queued"
    BY <1>2, <1>5, <2>3
  <2>10. QED
    BY <1>1, <1>2, <1>4, <2>2, <2>3, <2>4, <2>5, <2>6, <2>7, <2>8, <2>9, SendsStep DEF Inv
<1>7. CASE ~Fits(p)
  <2>1. UNCHANGED <<pending, toClient, sent>> /\ pc' = "idle"
    BY <1>2, <1>3, <1>5, <1>7 DEF SendAgain, Return
  <2>2. Unresumed' = {}
    BY <2>1 DEF Unresumed
  <2>3. QED
    BY <2>1, <2>2, QuietStep DEF Inv
<1>8. QED
  BY <1>6, <1>7

\* A turn of either loop, or its end.
LEMMA LoopFlow ==
    ASSUME IdFound, Inv, DeliveryInv', Step
    PROVE  FlowInv'
<1>1. CASE PumpSession
  <2>1. /\ pc = "pump" /\ pc # "idle" /\ i <= Len(pending)
        /\ UNCHANGED <<online, toBroker, client, published, qosOf, dropped, losses>>
    BY <1>1 DEF PumpSession, Looping
  <2>2. CASE pending[i].state = "queued"
    <3>1. SendFirst
      BY <1>1, <2>2 DEF PumpSession
    <3>2. QED
      BY <2>1, <2>2, <3>1, FirstFlow
  <2>3. CASE pending[i].state = "awaiting_pubcomp" /\ pending[i].resend
    <3>1. SendPubrel /\ pending[i].resend = TRUE
      <4>1. i \in 1..Len(pending)
        BY <2>1, QueueDomain, InvParts, SMTT(60) DEF Inv, RestOK
      <4>2. pending[i].resend \in BOOLEAN
        BY <4>1, QueueDomain, InvParts DEF Inv, OutMsg
      <4>3. QED
        BY <1>1, <2>3, <4>2 DEF PumpSession
    <3>2. QED
      BY <2>1, <2>3, <3>1, PubrelFlow
  <2>4. CASE ~(pending[i].state = "awaiting_pubcomp" /\ pending[i].resend)
             /\ pending[i].state # "queued"
    <3>1. Skip
      BY <1>1, <2>4 DEF PumpSession
    <3>2. UNCHANGED <<pending, toClient, sent, pc>>
      BY <3>1 DEF Skip, Continue, queue
    <3>3. Unresumed' = {}
      BY <2>1, <3>2 DEF Unresumed
    <3>4. QED
      BY <2>1, <3>2, <3>3, QuietStep DEF Inv
  <2>5. QED
    BY <2>2, <2>3, <2>4
<1>2. CASE ResumeSession
  <2>1. /\ pc = "resume" /\ pc # "idle" /\ i <= Len(pending)
        /\ UNCHANGED <<online, toBroker, client, published, qosOf, dropped, losses>>
    BY <1>2 DEF ResumeSession, Looping
  <2>2. CASE pending[i].state = "queued"
    <3>1. SendFirst
      BY <1>2, <2>2 DEF ResumeSession
    <3>2. QED
      BY <2>1, <2>2, <3>1, FirstFlow
  <2>3. CASE pending[i].state = "awaiting_pubcomp"
    <3>1. SendPubrel
      BY <1>2, <2>3 DEF ResumeSession
    <3>2. QED
      BY <2>1, <2>3, <3>1, PubrelFlow
  <2>4. CASE pending[i].state \notin {"queued", "awaiting_pubcomp"}
    <3>1. SendAgain
      BY <1>2, <2>4 DEF ResumeSession
    <3>2. pending[i].state \in {"awaiting_puback", "awaiting_pubrec"}
      <4>1. i \in 1..Len(pending)
        BY <2>1, QueueDomain, InvParts, SMTT(60) DEF Inv, RestOK
      <4>2. pending[i].state \in OutStates
        BY <4>1, QueueDomain, InvParts DEF Inv, OutMsg
      <4>3. QED
        BY <2>4, <4>2 DEF OutStates
    <3>3. QED
      BY <2>1, <3>1, <3>2, AgainFlow
  <2>5. QED
    BY <2>2, <2>3, <2>4
<1>3. CASE LoopEnd
  <2>1. /\ pc' = "idle"
        /\ UNCHANGED <<queue, online, toClient, toBroker, client, history>>
    BY <1>3 DEF LoopEnd, Return
  <2>2. Unresumed' = {}
    BY <2>1 DEF Unresumed
  <2>3. QED
    BY <2>1, <2>2, QuietStep DEF Inv, queue, history
<1>4. QED
  BY <1>1, <1>2, <1>3 DEF Step

----------------------------------------------------------------------------
(* Publishing and connections.                                             *)

\* A message is published to the session.
LEMMA EnqueueFlow ==
    ASSUME Inv, DeliveryInv', NEW q \in QoSs, NEW oversize \in BOOLEAN,
           Enqueue(q, oversize)
    PROVE  FlowInv'
<1>1. QueueInv /\ RestOK /\ EntriesDiffer /\ EntriesDiffer'
  BY InvParts, EntryFacts, PTL DEF Inv
<1>2. PICK m : m = published + 1
  OBVIOUS
<1>3. /\ pc = "idle" /\ published' = m
      /\ qosOf' = [qosOf EXCEPT ![m] = q]
      /\ UNCHANGED <<toClient, toBroker, received, seen, twice, sent>>
  BY <1>2 DEF Enqueue, client
<1>4. /\ m \in Messages /\ m \notin 1..published
      /\ 1..published' = (1..published) \cup {m}
  BY <1>1, <1>2, <1>3, DeliveryAssumption, SMTT(60) DEF Enqueue, RestOK, Messages
<1>5. qosOf'[m] = q /\ \A x \in 1..published : qosOf'[x] = qosOf[x]
  <2>1. qosOf \in [Messages -> QoSs \cup {0}]
    BY <1>1 DEF RestOK
  <2>2. 1..published \subseteq Messages
    BY <1>1, DeliveryAssumption, SMTT(60) DEF RestOK, Messages
  <2>3. QED
    BY <1>3, <1>4, <2>1, <2>2
<1>6. /\ Down' = Down /\ Up' = Up /\ SeenSet' = SeenSet
      /\ OneToOne(toClient') <=> OneToOne(toClient)
      /\ OneToOne(toBroker') <=> OneToOne(toBroker)
  BY <1>3 DEF Down, Up, SeenSet
<1>7. /\ m \notin SeenSet /\ m \notin sent /\ m \notin twice
      /\ \A e \in Entries : e.msg \in 1..published /\ e.msg # m
  BY <1>1, <1>4 DEF Inv, FlowInv, HistoryOK, EntriesDiffer
<1>8. PICK r : r = [msg |-> m, id |-> NoId, qos |-> q, state |-> "queued",
                    dup |-> FALSE, resend |-> FALSE]
  OBVIOUS
<1>9. /\ r \in OutMsg /\ r.msg = m /\ r.qos = q /\ r.state = "queued"
      /\ r.dup = FALSE /\ r.resend = FALSE
  BY <1>4, <1>8 DEF OutMsg, OutStates
<1>10. /\ Unresumed' = {}
       /\ \/ Entries' = Entries /\ dropped' = dropped \cup {m}
          \/ Entries' = Entries \cup {r} /\ dropped' = dropped
  <2>1. CASE oversize \/ Len(pending) = MaxPending
    <3>1. dropped' = dropped \cup {m} /\ UNCHANGED <<pending, pc, i>>
      BY <1>2, <2>1 DEF Enqueue
    <3>2. QED
      BY <1>3, <3>1 DEF Unresumed, Entries
  <2>2. CASE ~(oversize \/ Len(pending) = MaxPending)
    <3>1. pending' = Append(pending, r) /\ dropped' = dropped /\ pc' # "resume"
      BY <1>2, <1>8, <2>2 DEF Enqueue
    <3>2. Entries' = Entries \cup {r}
      BY <1>1, <1>9, <3>1, AddEntry
    <3>3. Unresumed' = {}
      BY <3>1 DEF Unresumed
    <3>4. QED
      BY <3>1, <3>2, <3>3
  <2>3. QED
    BY <2>1, <2>2
<1>11. Entries \subseteq Entries'
  BY <1>10
<1>12. EntriesOK'
  <2> SUFFICES ASSUME NEW e \in Entries' PROVE EntryOK(e)'
    BY DEF EntriesOK
  <2>1. CASE e \in Entries
    <3>1. EntryOK(e) /\ qosOf'[e.msg] = qosOf[e.msg]
      BY <1>5, <1>7, <2>1 DEF Inv, FlowInv, EntriesOK
    <3>2. QED
      BY <1>3, <1>6, <3>1 DEF EntryOK
  <2>2. CASE e \notin Entries
    BY <1>3, <1>5, <1>6, <1>7, <1>9, <1>10, <2>2 DEF EntryOK
  <2>3. QED
    BY <2>1, <2>2
<1>13. DownOK'
  BY <1>6, <1>11 DEF Inv, FlowInv, DownOK, Expects
<1>14. UpOK'
  BY <1>3, <1>6, <1>11 DEF Inv, FlowInv, UpOK, Answers
<1>15. OneEach'
  BY <1>6 DEF Inv, FlowInv, OneEach
<1>16. NoneYet'
  BY <1>6, <1>9, <1>10 DEF Inv, FlowInv, NoneYet
<1>17. ReceivedOK'
  BY <1>3, <1>11 DEF Inv, FlowInv, ReceivedOK
<1>18. HistoryOK'
  BY <1>3, <1>4, <1>6 DEF Inv, FlowInv, HistoryOK
<1>19. Kept'
  <2> SUFFICES ASSUME NEW x \in 1..published'
               PROVE  x \in dropped' \/ x \in SeenSet' \/ \E e \in Entries' : e.msg = x
    BY DEF Kept
  <2>1. CASE x = m
    BY <1>9, <1>10, <2>1
  <2>2. CASE x \in 1..published
    <3>1. x \in dropped \/ x \in SeenSet \/ \E e \in Entries : e.msg = x
      BY <2>2 DEF Inv, FlowInv, Kept
    <3>2. dropped \subseteq dropped'
      BY <1>10
    <3>3. QED
      BY <1>6, <1>11, <3>1, <3>2
  <2>3. QED
    BY <1>4, <2>1, <2>2
<1>20. ExactlyOnce'
  BY <1>3, <1>5 DEF Inv, FlowInv, HistoryOK, ExactlyOnce
<1>21. QED
  BY <1>12, <1>13, <1>14, <1>15, <1>16, <1>17, <1>18, <1>19, <1>20 DEF FlowInv

\* The connection is lost, or tick() starts its loop.
LEMMA ConnFlow ==
    ASSUME Inv, Tick \/ ConnLost
    PROVE  FlowInv'
<1>1. UNCHANGED <<pending, toClient, client, published, qosOf, dropped, sent>>
  BY DEF Tick, ConnLost, queue, history
<1>2. toBroker' = toBroker \/ toBroker' = <<>>
  BY DEF Tick, ConnLost
<1>3. Unresumed' = {}
  BY DEF Tick, ConnLost, loop, Unresumed
<1>4. QED
  BY <1>1, <1>2, <1>3, QuietStep DEF Inv

\* The client is back: of no flow is anything under way.
LEMMA ReconnectFlow ==
    ASSUME Inv, DeliveryInv', Reconnect
    PROVE  FlowInv'
<1>1. EntriesDiffer
  BY InvParts, EntryFacts DEF Inv
<1>2. PICK c : c = Control("connack", NoId)
  OBVIOUS
<1>3. c.type = "connack" /\ c.id = NoId
  BY <1>2 DEF Control
<1>4. /\ Entries' = Entries /\ SeenSet' = SeenSet
      /\ UNCHANGED <<pending, received, seen, twice, published, qosOf, dropped, sent>>
  BY DEF Reconnect, queue, client, Entries, SeenSet
<1>5. /\ Down' = {c} /\ Up' = {} /\ OneToOne(toClient') /\ OneToOne(toBroker')
  BY <1>2, SmallElems DEF Reconnect, Down, Up
<1>6. EntriesOK'
  BY <1>4 DEF Inv, FlowInv, EntriesOK, EntryOK
<1>7. DownOK' /\ UpOK' /\ OneEach'
  BY <1>3, <1>5 DEF DownOK, UpOK, OneEach
<1>8. NoneYet'
  <2> SUFFICES ASSUME NEW e \in Entries, e.id = NoId
               PROVE  e.resend = FALSE /\ e \notin Unresumed'
    BY <1>3, <1>4, <1>5 DEF NoneYet
  <2>1. e.state = "queued"
    <3>1. NoId \notin Ids
      BY SMTT(60) DEF NoId, Ids
    <3>2. QED
      BY <1>1, <3>1 DEF EntriesDiffer
  <2>2. e \notin Unresumed'
    BY <1>4, <2>1 DEF Unresumed, InFlight
  <2>3. QED
    BY <2>1, <2>2 DEF Inv, FlowInv, EntriesOK, EntryOK
<1>9. ReceivedOK' /\ HistoryOK' /\ Kept' /\ ExactlyOnce'
  BY <1>4 DEF Inv, FlowInv, ReceivedOK, HistoryOK, Kept, ExactlyOnce
<1>10. QED
  BY <1>6, <1>7, <1>8, <1>9 DEF FlowInv

----------------------------------------------------------------------------
(* Acknowledgements.                                                       *)

\* find_pending() finds the entry with the id.
LEMMA FoundIs ==
    ASSUME QueueInv, NEW S \in SUBSET (OutStates \ {"queued"}),
           NEW k \in 1..Len(pending),
           pending[k].id = Head(toBroker).id, pending[k].state \in S
    PROVE  Found(S) # {} /\ First(Found(S)) = k
<1>1. DOMAIN pending = 1..Len(pending)
  BY QueueDomain
<1>2. k \in Found(S)
  BY <1>1 DEF Found
<1>3. First(Found(S)) \in Found(S)
  BY <1>2, FoundOne
<1>4. Found(S) \subseteq InFlight /\ \A j \in Found(S) : pending[j].id = pending[k].id
  BY DEF Found, InFlight
<1>5. QED
  BY <1>2, <1>3, <1>4 DEF QueueInv, IdsDistinct

\* The packet the broker reads next answers an entry, of which nothing else
\* is under way.
LEMMA HeardFacts ==
    ASSUME Inv, toBroker # <<>>
    PROVE  /\ Head(toBroker) \in Up
           /\ Elems(Tail(toBroker)) = Up \ {Head(toBroker)}
           /\ OneToOne(Tail(toBroker))
           /\ \A q \in Down \cup (Up \ {Head(toBroker)}) : q.id # Head(toBroker).id
           /\ \E k \in 1..Len(pending) : /\ pending[k] \in Entries
                                         /\ Answers(pending[k], Head(toBroker))
<1>1. toBroker \in Seq(Packet) /\ OneToOne(toBroker)
  BY InvParts DEF Inv, RestOK, FlowInv, OneEach
<1>2. /\ Head(toBroker) \in Up /\ OneToOne(Tail(toBroker))
      /\ Elems(Tail(toBroker)) = Up \ {Head(toBroker)}
  BY <1>1, TailElems DEF Up
<1>3. Head(toBroker) \notin Down
  <2>1. PICK e \in Entries : Answers(e, Head(toBroker))
    BY <1>2 DEF Inv, FlowInv, UpOK
  <2>2. Head(toBroker).type \in {"puback", "pubrec", "pubcomp"}
    BY <2>1 DEF Answers
  <2>3. \A q \in Down : q.type \in {"connack", "publish", "pubrel"}
    BY DEF Inv, FlowInv, DownOK, Expects
  <2>4. QED
    BY <2>2, <2>3
<1>4. \A q \in Down \cup (Up \ {Head(toBroker)}) : q.id # Head(toBroker).id
  BY <1>2, <1>3 DEF Inv, FlowInv, OneEach
<1>5. \E k \in 1..Len(pending) : pending[k] \in Entries /\ Answers(pending[k], Head(toBroker))
  <2>1. PICK e \in Entries : Answers(e, Head(toBroker))
    BY <1>2 DEF Inv, FlowInv, UpOK
  <2>2. DOMAIN pending = 1..Len(pending)
    BY InvParts, QueueDomain DEF Inv
  <2>3. QED
    BY <2>1, <2>2 DEF Entries, Elems
<1>6. QED
  BY <1>2, <1>4, <1>5

\* PUBACK and PUBCOMP end a flow whose message the client has got.
LEMMA CompletesFlow ==
    ASSUME Inv, DeliveryInv', NEW t, NEW st, Completes(t, st),
           \/ t = "puback" /\ st = "awaiting_puback"
           \/ t = "pubcomp" /\ st = "awaiting_pubcomp"
    PROVE  FlowInv'
<1>1. QueueInv /\ RestOK /\ EntriesDiffer
  BY InvParts, EntryFacts DEF Inv
<1>2. PICK p : p = Head(toBroker)
  OBVIOUS
<1>3. /\ p.type = t /\ pc = "idle" /\ toBroker # <<>> /\ toBroker' = Tail(toBroker)
      /\ UNCHANGED <<loop, toClient, client, history>>
  BY <1>2 DEF Completes, Arrived
<1>4. PICK k \in 1..Len(pending) : pending[k] \in Entries /\ Answers(pending[k], p)
  BY <1>2, <1>3, HeardFacts
<1>5. PICK e : e = pending[k]
  OBVIOUS
<1>6. /\ e.state = st /\ e.state # "queued" /\ e.id = p.id /\ e \in Entries
      /\ e.msg \in SeenSet /\ e.id \notin received
  <2>1. EntryOK(e)
    BY <1>4, <1>5 DEF Inv, FlowInv, EntriesOK
  <2>2. CASE t = "puback"
    <3>1. e.state = "awaiting_puback" /\ e.msg \in SeenSet /\ e.id = p.id /\ e \in Entries
          /\ st = "awaiting_puback"
      BY <1>3, <1>4, <1>5, <2>2 DEF Answers
    <3>2. e.qos = 1
      BY <2>1, <3>1 DEF EntryOK
    <3>3. e.id \notin received
      <4>1. \A f \in Entries : f.id = e.id /\ f.state # "queued" => f = e
        BY <1>1, <3>1 DEF EntriesDiffer
      <4>2. e.id \in received => e.qos = 2
        BY <4>1 DEF Inv, FlowInv, ReceivedOK
      <4>3. QED
        BY <3>2, <4>2, SMTT(60)
    <3>4. QED
      BY <3>1, <3>3
  <2>3. CASE t = "pubcomp"
    BY <1>3, <1>4, <1>5, <2>1, <2>3 DEF Answers, EntryOK
  <2>4. QED
    BY <2>2, <2>3
<1>7. Entries' = Entries \ {e}
  <2>1. {st} \in SUBSET (OutStates \ {"queued"})
    BY DEF OutStates
  <2>2. Found({st}) # {} /\ First(Found({st})) = k
    BY <1>1, <1>2, <1>5, <1>6, <2>1, FoundIs
  <2>3. pending' = Without(k)
    BY <2>2 DEF Completes
  <2>4. QED
    BY <1>1, <1>5, <2>3, RemoveEntry
<1>8. /\ Down' = Down /\ SeenSet' = SeenSet
      /\ OneToOne(toClient') <=> OneToOne(toClient)
      /\ UNCHANGED <<received, seen, twice, published, qosOf, dropped, sent>>
  BY <1>3 DEF Down, SeenSet, client, history
<1>9. /\ Up' = Up \ {p} /\ OneToOne(toBroker')
      /\ \A q \in Down \cup Up' : q.id # p.id
  BY <1>2, <1>3, HeardFacts DEF Up
<1>10. Unresumed' = {}
  BY <1>3 DEF Unresumed, loop
<1>11. EntriesOK'
  BY <1>7, <1>8 DEF Inv, FlowInv, EntriesOK, EntryOK
<1>12. DownOK'
  <2> SUFFICES ASSUME NEW q \in Down, ~(q.type = "connack" /\ q.id = NoId)
               PROVE  \E f \in Entries' : Expects(f, q)
    BY <1>8 DEF DownOK, Expects
  <2>1. PICK f \in Entries : Expects(f, q)
    BY DEF Inv, FlowInv, DownOK
  <2>2. f # e
    BY <1>6, <1>9, <2>1 DEF Expects
  <2>3. QED
    BY <1>7, <2>1, <2>2
<1>13. UpOK'
  <2> SUFFICES ASSUME NEW q \in Up' PROVE \E f \in Entries' : Answers(f, q)'
    BY DEF UpOK
  <2>1. PICK f \in Entries : Answers(f, q)
    BY <1>9 DEF Inv, FlowInv, UpOK
  <2>2. f # e
    BY <1>6, <1>9, <2>1 DEF Answers
  <2>3. Answers(f, q)'
    BY <1>8, <2>1 DEF Answers
  <2>4. QED
    BY <1>7, <2>2, <2>3
<1>14. OneEach'
  BY <1>8, <1>9 DEF Inv, FlowInv, OneEach
<1>15. NoneYet'
  BY <1>7, <1>8, <1>9, <1>10 DEF Inv, FlowInv, NoneYet
<1>16. ReceivedOK'
  <2> SUFFICES ASSUME NEW id \in received
               PROVE  \E f \in Entries' : f.id = id /\ f.qos = 2 /\ f.state # "queued"
    BY <1>8 DEF ReceivedOK
  <2>1. PICK f \in Entries : f.id = id /\ f.qos = 2 /\ f.state # "queued"
    BY DEF Inv, FlowInv, ReceivedOK
  <2>2. QED
    BY <1>6, <1>7, <2>1
<1>17. Kept'
  BY <1>6, <1>7, <1>8 DEF Inv, FlowInv, Kept
<1>18. HistoryOK' /\ ExactlyOnce'
  BY <1>8 DEF Inv, FlowInv, HistoryOK, ExactlyOnce
<1>19. QED
  BY <1>11, <1>12, <1>13, <1>14, <1>15, <1>16, <1>17, <1>18 DEF FlowInv

\* PUBREC moves a flow whose message the client has got on to PUBREL, or
\* ends the connection.
LEMMA PubrecFlow ==
    ASSUME Inv, DeliveryInv', HandlePubrec
    PROVE  FlowInv'
<1> DEFINE S == {"awaiting_pubrec", "awaiting_pubcomp"}
<1>1. QueueInv /\ RestOK /\ EntriesDiffer /\ EntriesDiffer'
  BY InvParts, EntryFacts, PTL DEF Inv
<1>2. PICK p : p = Head(toBroker)
  OBVIOUS
<1>3. /\ p.type = "pubrec" /\ pc = "idle" /\ toBroker # <<>>
      /\ UNCHANGED <<loop, client, history>>
  BY <1>2 DEF HandlePubrec, Arrived
<1>4. PICK k \in 1..Len(pending) : pending[k] \in Entries /\ Answers(pending[k], p)
  BY <1>2, <1>3, HeardFacts
<1>5. PICK e : e = pending[k]
  OBVIOUS
<1>6. /\ e.state = "awaiting_pubrec" /\ e.id = p.id /\ e \in Entries /\ e \in OutMsg
      /\ e.qos = 2 /\ e.msg \in SeenSet /\ e.msg \in sent /\ e.qos = qosOf[e.msg]
      /\ e.resend = FALSE /\ e.id \in Ids
  <2>1. e.state = "awaiting_pubrec" /\ e.id = p.id /\ e \in Entries /\ e.id \in received
    BY <1>3, <1>4, <1>5 DEF Answers
  <2>2. EntryOK(e) /\ e \in OutMsg /\ e.id \in Ids
    BY <1>1, <2>1 DEF Inv, FlowInv, EntriesOK, EntriesDiffer
  <2>3. QED
    BY <2>1, <2>2 DEF EntryOK
<1>7. PICK r : r = [e EXCEPT !.state = "awaiting_pubcomp"]
  OBVIOUS
<1>8. /\ r.msg = e.msg /\ r.id = e.id /\ r.qos = e.qos
      /\ r.state = "awaiting_pubcomp" /\ r.resend = FALSE
  BY <1>6, <1>7, StateFields
<1>9. Found(S) # {} /\ First(Found(S)) = k
  <2>1. S \in SUBSET (OutStates \ {"queued"})
    BY DEF OutStates
  <2>2. pending[k].id = Head(toBroker).id /\ pending[k].state \in S
    BY <1>2, <1>5, <1>6
  <2> HIDE DEF S
  <2>3. QED
    BY <1>1, <2>1, <2>2, FoundIs
<1>10. pending' = [pending EXCEPT ![k] = r]
  BY <1>5, <1>7, <1>9 DEF HandlePubrec
<1>11. Entries' = (Entries \ {e}) \cup {r}
  BY <1>1, <1>5, <1>10, ReplaceEntry
<1>12. PICK c : c = Control("pubrel", p.id)
  OBVIOUS
<1>13. c.type = "pubrel" /\ c.id = p.id /\ c \in Packet
  <2>1. c \in Packet
    BY <1>6, <1>12, PacketTypes DEF ControlTypes
  <2>2. QED
    BY <1>12, <2>1 DEF Control
<1>14. \/ Send(c) /\ toBroker' = Tail(toBroker)
       \/ toBroker' = <<>> /\ UNCHANGED toClient
  BY <1>2, <1>9, <1>12 DEF HandlePubrec
<1>15. /\ Up' \subseteq Up \ {p} /\ OneToOne(toBroker')
       /\ \A q \in Down \cup (Up \ {p}) : q.id # p.id
  BY <1>2, <1>3, <1>14, HeardFacts, SmallElems DEF Up
<1>16. /\ Down' \subseteq Down \cup {c}
       /\ OneToOne(toClient')
  <2>1. CASE UNCHANGED toClient
    BY <2>1 DEF Down, Inv, FlowInv, OneEach
  <2>2. CASE Send(c)
    <3>1. toClient \in Seq(Packet) /\ OneToOne(toClient)
      BY <1>1 DEF RestOK, Inv, FlowInv, OneEach
    <3>2. c \notin Elems(toClient)
      BY <1>13, <1>15 DEF Down
    <3>3. ElemsJoined(toClient, c, Append(toClient, c))
      BY <1>13, <3>1, AppendElems
    <3>4. QED
      BY <2>2, <3>1, <3>2, <3>3 DEF ElemsJoined, Send, Down
  <2>3. QED
    BY <1>14, <2>1, <2>2
<1>17. /\ SeenSet' = SeenSet /\ Unresumed' = {}
       /\ UNCHANGED <<received, seen, twice, published, qosOf, dropped, sent>>
  BY <1>3 DEF SeenSet, client, history, loop, Unresumed
<1>18. EntriesOK'
  <2> SUFFICES ASSUME NEW f \in Entries' PROVE EntryOK(f)'
    BY DEF EntriesOK
  <2>1. CASE f = r
    BY <1>6, <1>8, <1>17, <2>1 DEF EntryOK
  <2>2. CASE f \in Entries
    <3>1. EntryOK(f)
      BY <2>2 DEF Inv, FlowInv, EntriesOK
    <3>2. QED
      BY <1>17, <3>1 DEF EntryOK
  <2>3. QED
    BY <1>11, <2>1, <2>2
<1>19. DownOK'
  <2> SUFFICES ASSUME NEW q \in Down', ~(q.type = "connack" /\ q.id = NoId)
               PROVE  \E f \in Entries' : Expects(f, q)
    BY DEF DownOK, Expects
  <2>1. CASE q = c
    BY <1>6, <1>8, <1>11, <1>13, <2>1 DEF Expects
  <2>2. CASE q \in Down
    <3>1. PICK f \in Entries : Expects(f, q)
      BY <2>2 DEF Inv, FlowInv, DownOK
    <3>2. f # e
      BY <1>6, <1>15, <2>2, <3>1 DEF Expects
    <3>3. QED
      BY <1>11, <3>1, <3>2
  <2>3. QED
    BY <1>16, <2>1, <2>2
<1>20. UpOK'
  <2> SUFFICES ASSUME NEW q \in Up' PROVE \E f \in Entries' : Answers(f, q)'
    BY DEF UpOK
  <2>1. PICK f \in Entries : Answers(f, q)
    BY <1>15 DEF Inv, FlowInv, UpOK
  <2>2. f # e
    BY <1>6, <1>15, <2>1 DEF Answers
  <2>3. Answers(f, q)'
    BY <1>17, <2>1 DEF Answers
  <2>4. QED
    BY <1>11, <2>2, <2>3
<1>21. OneEach'
  BY <1>13, <1>15, <1>16 DEF Inv, FlowInv, OneEach
<1>22. NoneYet'
  <2> SUFFICES ASSUME NEW f \in Entries', NEW q \in Down' \cup Up', f.id = q.id
               PROVE  f.resend = FALSE
    BY <1>17 DEF NoneYet
  <2>1. CASE f = r
    BY <1>8, <2>1
  <2>2. CASE f # r /\ q = c
    <3>1. f.state = "queued" /\ f \in Entries
      BY <1>1, <1>6, <1>8, <1>11, <1>13, <2>2 DEF EntriesDiffer
    <3>2. QED
      BY <3>1 DEF Inv, FlowInv, EntriesOK, EntryOK
  <2>3. CASE f # r /\ q # c
    BY <1>11, <1>15, <1>16, <2>3 DEF Inv, FlowInv, NoneYet
  <2>4. QED
    BY <2>1, <2>2, <2>3
<1>23. ReceivedOK'
  <2> SUFFICES ASSUME NEW id \in received
               PROVE  \E f \in Entries' : f.id = id /\ f.qos = 2 /\ f.state # "queued"
    BY <1>17 DEF ReceivedOK
  <2>1. PICK f \in Entries : f.id = id /\ f.qos = 2 /\ f.state # "queued"
    BY DEF Inv, FlowInv, ReceivedOK
  <2>2. CASE f = e
    BY <1>8, <1>11, <2>1, <2>2
  <2>3. CASE f # e
    BY <1>11, <2>1, <2>3
  <2>4. QED
    BY <2>2, <2>3
<1>24. Kept'
  BY <1>8, <1>11, <1>17 DEF Inv, FlowInv, Kept
<1>25. HistoryOK' /\ ExactlyOnce'
  BY <1>17 DEF Inv, FlowInv, HistoryOK, ExactlyOnce
<1>26. QED
  BY <1>18, <1>19, <1>20, <1>21, <1>22, <1>23, <1>24, <1>25 DEF FlowInv

----------------------------------------------------------------------------
(* The client.                                                             *)

\* What reading a packet does to the wire.
LEMMA ReadFacts ==
    ASSUME Inv, ClientReceives
    PROVE  /\ Head(toClient) \in Down /\ Head(toClient) \in Packet
           /\ Down' = Down \ {Head(toClient)} /\ OneToOne(toClient')
           /\ \A q \in Down' \cup Up : q.id # Head(toClient).id
           /\ Entries' = Entries /\ Unresumed' = Unresumed
           /\ UNCHANGED <<published, qosOf, dropped, sent>>
           /\ \/ Head(toClient).type = "connack" /\ Head(toClient).id = NoId
              \/ \E e \in Entries : Expects(e, Head(toClient))
<1>1. toClient \in Seq(Packet) /\ OneToOne(toClient)
  BY InvParts DEF Inv, RestOK, FlowInv, OneEach
<1>2. toClient # <<>> /\ toClient' = Tail(toClient) /\ UNCHANGED <<queue, online, loop, history>>
  BY DEF ClientReceives
<1>3. /\ Head(toClient) \in Down /\ Head(toClient) \in Packet
      /\ Down' = Down \ {Head(toClient)} /\ OneToOne(toClient')
  BY <1>1, <1>2, TailElems DEF Down
<1>4. \/ Head(toClient).type = "connack" /\ Head(toClient).id = NoId
      \/ \E e \in Entries : Expects(e, Head(toClient))
  BY <1>3 DEF Inv, FlowInv, DownOK
<1>5. Head(toClient) \notin Up
  <2>1. Head(toClient).type \in {"connack", "publish", "pubrel"}
    BY <1>4 DEF Expects
  <2>2. \A q \in Up : q.type \in {"puback", "pubrec", "pubcomp"}
    BY DEF Inv, FlowInv, UpOK, Answers
  <2>3. QED
    BY <2>1, <2>2
<1>6. \A q \in Down' \cup Up : q.id # Head(toClient).id
  BY <1>3, <1>5 DEF Inv, FlowInv, OneEach
<1>7. Entries' = Entries /\ Unresumed' = Unresumed
  BY <1>2 DEF Entries, Unresumed, InFlight, queue, loop
<1>8. QED
  BY <1>2, <1>3, <1>4, <1>6, <1>7 DEF history

\* An answer put behind the others.
LEMMA SendUp ==
    ASSUME RestOK, OneEach, NEW a \in Packet, \A q \in Up : q.id # a.id,
           toBroker' = Append(toBroker, a)
    PROVE  Up' = Up \cup {a} /\ OneToOne(toBroker')
<1>1. toBroker \in Seq(Packet) /\ OneToOne(toBroker) /\ a \notin Elems(toBroker)
  BY DEF RestOK, OneEach, Up
<1>2. ElemsJoined(toBroker, a, Append(toBroker, a))
  BY <1>1, AppendElems
<1>3. QED
  BY <1>1, <1>2 DEF ElemsJoined, Up

\* The client takes p, which the entry e expects, and may answer with a.
LEMMA TakesStep ==
    ASSUME Inv, ClientReceives, EntriesDiffer,
           NEW e \in Entries, NEW a \in Packet,
           Expects(e, Head(toClient)), a.id = e.id,
           toBroker' = toBroker \/ toBroker' = Append(toBroker, a),
           Answers(e, a)', EntryOK(e)',
           SeenSet' = SeenSet \/ SeenSet' = SeenSet \cup {e.msg},
           \A x : x # e.id => (x \in received' <=> x \in received),
           e.id \in received' => e.qos = 2,
           twice' = twice \/ (twice' = twice \cup {e.msg} /\ e.qos = 1)
    PROVE  FlowInv'
<1>1. PICK p : p = Head(toClient)
  OBVIOUS
<1>2. /\ Down' = Down \ {p} /\ OneToOne(toClient')
      /\ \A q \in Down' \cup Up : q.id # e.id
      /\ Entries' = Entries /\ Unresumed' = Unresumed
      /\ UNCHANGED <<published, qosOf, dropped, sent>>
      /\ e.state # "queued"
  BY <1>1, ReadFacts DEF Expects
<1>3. \A f \in Entries : f # e => f.msg # e.msg /\ (f.state # "queued" => f.id # e.id)
  BY <1>2 DEF EntriesDiffer
<1>4. p.id = e.id /\ p \in Down
  BY <1>1, ReadFacts DEF Expects
<1>5. /\ Up' \subseteq Up \cup {a} /\ OneToOne(toBroker')
  <2>1. CASE toBroker' = toBroker
    BY <2>1 DEF Up, Inv, FlowInv, OneEach
  <2>2. CASE toBroker' = Append(toBroker, a)
    <3>1. RestOK /\ OneEach /\ \A q \in Up : q.id # a.id
      BY <1>2, InvParts DEF Inv, FlowInv
    <3>2. QED
      BY <2>2, <3>1, SendUp
  <2>3. QED
    BY <2>1, <2>2
<1>6. EntriesOK'
  <2> SUFFICES ASSUME NEW f \in Entries, f # e PROVE EntryOK(f)'
    BY <1>2 DEF EntriesOK
  <2>1. EntryOK(f) /\ (f.msg \in SeenSet' <=> f.msg \in SeenSet)
    BY <1>3 DEF Inv, FlowInv, EntriesOK
  <2>2. f.state # "queued" => (f.id \in received' <=> f.id \in received)
    BY <1>3
  <2>3. QED
    BY <1>2, <2>1, <2>2 DEF EntryOK
<1>7. DownOK'
  BY <1>2 DEF Inv, FlowInv, DownOK, Expects
<1>8. UpOK'
  <2> SUFFICES ASSUME NEW q \in Up' PROVE \E f \in Entries : Answers(f, q)'
    BY <1>2 DEF UpOK
  <2>1. CASE q = a
    BY <2>1
  <2>2. CASE q \in Up
    <3>1. PICK f \in Entries : Answers(f, q)
      BY <2>2 DEF Inv, FlowInv, UpOK
    <3>2. f.id # e.id /\ SeenSet \subseteq SeenSet'
      BY <1>2, <2>2, <3>1 DEF Answers
    <3>3. Answers(f, q)'
      BY <3>1, <3>2 DEF Answers
    <3>4. QED
      BY <3>3
  <2>3. QED
    BY <1>5, <2>1, <2>2
<1>9. OneEach'
  BY <1>2, <1>5 DEF Inv, FlowInv, OneEach
<1>10. NoneYet'
  <2>1. e.resend = FALSE /\ e \notin Unresumed
    BY <1>4 DEF Inv, FlowInv, NoneYet
  <2> SUFFICES ASSUME NEW f \in Entries, NEW q \in Down' \cup Up', f.id = q.id
               PROVE  f.resend = FALSE /\ f \notin Unresumed
    BY <1>2 DEF NoneYet
  <2>2. CASE q = a
    BY <1>4, <2>2 DEF Inv, FlowInv, NoneYet
  <2>3. CASE q \in Down \cup Up
    BY <2>3 DEF Inv, FlowInv, NoneYet
  <2>4. QED
    BY <1>2, <1>5, <2>2, <2>3
<1>11. ReceivedOK'
  <2> SUFFICES ASSUME NEW id \in received'
               PROVE  \E f \in Entries : f.id = id /\ f.qos = 2 /\ f.state # "queued"
    BY <1>2 DEF ReceivedOK
  <2>1. CASE id = e.id
    BY <1>2, <2>1
  <2>2. CASE id # e.id
    BY <2>2 DEF Inv, FlowInv, ReceivedOK
  <2>3. QED
    BY <2>1, <2>2
<1>12. HistoryOK'
  BY <1>2 DEF Inv, FlowInv, HistoryOK, EntriesDiffer
<1>13. Kept'
  BY <1>2 DEF Inv, FlowInv, Kept
<1>14. ExactlyOnce'
  BY <1>2 DEF Inv, FlowInv, ExactlyOnce, EntriesOK, EntryOK
<1>15. QED
  BY <1>6, <1>7, <1>8, <1>9, <1>10, <1>11, <1>12, <1>13, <1>14 DEF FlowInv

\* The application gets a message that it may have got before.
LEMMA DeliverSeen ==
    ASSUME RestOK, NEW m \in Messages, Deliver(m)
    PROVE  /\ SeenSet' = SeenSet \cup {m}
           /\ twice' = IF m \in SeenSet THEN twice \cup {m} ELSE twice
<1>1. SeenSet = Elems(seen) /\ SeenSet' = Elems(seen')
  BY DEF SeenSet, Elems
<1>2. (\E k \in DOMAIN seen : seen[k] = m) <=> m \in SeenSet
  BY DEF SeenSet
<1>3. CASE m \in SeenSet
  <2>1. seen' = seen /\ twice' = twice \cup {m}
    BY <1>2, <1>3 DEF Deliver
  <2>2. QED
    BY <1>1, <1>3, <2>1
<1>4. CASE m \notin SeenSet
  <2>1. seen' = Append(seen, m) /\ twice' = twice
    BY <1>2, <1>4 DEF Deliver
  <2>2. seen \in Seq(Messages)
    BY DEF RestOK
  <2>3. ElemsJoined(seen, m, Append(seen, m))
    BY <2>2, AppendElems
  <2>4. QED
    BY <1>1, <1>4, <2>1, <2>3 DEF ElemsJoined
<1>5. QED
  BY <1>3, <1>4

\* The client takes a packet.
LEMMA ClientFlow ==
    ASSUME Inv, ClientReceives
    PROVE  FlowInv'
<1>1. RestOK /\ EntriesDiffer
  BY InvParts, EntryFacts DEF Inv
<1>2. PICK p : p = Head(toClient)
  OBVIOUS
<1>3. CASE p.type = "connack"
  <2>1. UNCHANGED <<received, seen, twice, toBroker>>
    BY <1>2, <1>3 DEF ClientReceives, client
  <2>2. /\ Down' \subseteq Down /\ OneToOne(toClient') /\ Up' = Up /\ SeenSet' = SeenSet
        /\ Entries' = Entries /\ Unresumed' = Unresumed
        /\ UNCHANGED <<published, qosOf, dropped, sent>>
    BY <2>1, ReadFacts DEF Up, SeenSet
  <2>3. EntriesOK'
    BY <2>1, <2>2 DEF Inv, FlowInv, EntriesOK, EntryOK
  <2>4. DownOK' /\ UpOK'
    BY <2>1, <2>2 DEF Inv, FlowInv, DownOK, UpOK, Expects, Answers
  <2>5. OneEach'
    <3>1. \A f, q \in Down \cup Up : f.id = q.id => f = q
      BY DEF Inv, FlowInv, OneEach
    <3>2. OneToOne(toBroker')
      BY <2>1 DEF Inv, FlowInv, OneEach
    <3>3. QED
      BY <2>2, <3>1, <3>2 DEF OneEach
  <2>6. NoneYet'
    BY <2>2 DEF Inv, FlowInv, NoneYet
  <2>7. ReceivedOK' /\ HistoryOK' /\ Kept' /\ ExactlyOnce'
    BY <2>1, <2>2 DEF Inv, FlowInv, ReceivedOK, HistoryOK, Kept, ExactlyOnce
  <2>8. QED
    BY <2>3, <2>4, <2>5, <2>6, <2>7 DEF FlowInv
<1>4. CASE p.type # "connack"
  <2>1. PICK e \in Entries : Expects(e, p)
    BY <1>2, <1>4, ReadFacts
  <2>2. /\ EntryOK(e) /\ e.id = p.id /\ e.state # "queued" /\ e.id \in Ids
        /\ e.msg \in Messages
    BY <1>1, <2>1 DEF Inv, FlowInv, EntriesOK, EntriesDiffer, Expects, OutMsg
  <2>3. UNCHANGED <<qosOf, sent>>
    BY ReadFacts
  <2>4. \A t \in ControlTypes : /\ Control(t, e.id) \in Packet
                                /\ Control(t, e.id).type = t /\ Control(t, e.id).id = e.id
    <3>1. \A t \in ControlTypes : Control(t, e.id) \in Packet
      BY <2>2, PacketTypes
    <3>2. QED
      BY <3>1 DEF Control
  <2>5. CASE p.type = "publish" /\ p.qos = 1
    <3>1. /\ e.state = "awaiting_puback" /\ p.msg = e.msg /\ e.qos = 1
      BY <2>1, <2>2, <2>5, SMTT(60) DEF Expects, EntryOK
    <3>2. PICK a : a = Control("puback", e.id)
      OBVIOUS
    <3>3. /\ a \in Packet /\ a.type = "puback" /\ a.id = e.id
      BY <2>4, <3>2 DEF ControlTypes
    <3>4. /\ Deliver(e.msg) /\ received' = received
          /\ toBroker' = toBroker \/ toBroker' = Append(toBroker, a)
      <4>1. p.qos # 2
        BY <2>5, SMTT(60)
      <4>2. QED
        BY <1>2, <2>2, <2>5, <3>1, <3>2, <4>1 DEF ClientReceives, Answer
    <3>5. /\ SeenSet' = SeenSet \cup {e.msg}
          /\ twice' = twice \/ twice' = twice \cup {e.msg}
      BY <1>1, <2>2, <3>4, DeliverSeen
    <3>6. Answers(e, a)'
      BY <3>1, <3>3, <3>5 DEF Answers
    <3>7. EntryOK(e)'
      BY <2>2, <2>3, <3>1 DEF EntryOK
    <3>8. e.id \in received => e.qos = 2
      <4> SUFFICES ASSUME e.id \in received PROVE e.qos = 2
        OBVIOUS
      <4>1. PICK f \in Entries : f.id = e.id /\ f.qos = 2 /\ f.state # "queued"
        BY DEF Inv, FlowInv, ReceivedOK
      <4>2. f = e
        BY <1>1, <2>2, <3>1, <4>1 DEF EntriesDiffer
      <4>3. QED
        BY <4>1, <4>2
    <3>9. QED
      BY <1>1, <1>2, <2>1, <3>1, <3>3, <3>4, <3>5, <3>6, <3>7, <3>8, TakesStep
  <2>6. CASE p.type = "publish" /\ p.qos = 2
    <3>1. /\ e.state = "awaiting_pubrec" /\ p.msg = e.msg /\ e.qos = 2
          /\ e.id \in received <=> e.msg \in SeenSet
      BY <2>1, <2>2, <2>6, SMTT(60) DEF Expects, EntryOK
    <3>2. PICK a : a = Control("pubrec", e.id)
      OBVIOUS
    <3>3. /\ a \in Packet /\ a.type = "pubrec" /\ a.id = e.id
      BY <2>4, <3>2 DEF ControlTypes
    <3>4. /\ e.id \in received => UNCHANGED <<seen, twice>>
          /\ e.id \notin received => Deliver(e.msg)
          /\ received' = received \cup {e.id}
          /\ toBroker' = toBroker \/ toBroker' = Append(toBroker, a)
      <4>1. p.qos # 1
        BY <2>6, SMTT(60)
      <4>2. QED
        BY <1>2, <2>2, <2>6, <3>1, <3>2, <4>1 DEF ClientReceives, Answer
    <3>5. SeenSet' = SeenSet \cup {e.msg} /\ twice' = twice
      <4>1. CASE e.id \in received
        BY <3>1, <3>4, <4>1 DEF SeenSet
      <4>2. CASE e.id \notin received
        BY <1>1, <2>2, <3>1, <3>4, <4>2, DeliverSeen
      <4>3. QED
        BY <4>1, <4>2
    <3>6. Answers(e, a)'
      BY <3>1, <3>3, <3>4 DEF Answers
    <3>7. EntryOK(e)'
      BY <2>2, <2>3, <3>1, <3>4, <3>5 DEF EntryOK
    <3>8. QED
      BY <1>1, <1>2, <2>1, <3>1, <3>3, <3>4, <3>5, <3>6, <3>7, TakesStep
  <2>7. CASE p.type = "pubrel"
    <3>1. e.state = "awaiting_pubcomp" /\ e.qos = 2
      BY <2>1, <2>2, <2>7 DEF Expects, EntryOK
    <3>2. PICK a : a = Control("pubcomp", e.id)
      OBVIOUS
    <3>3. /\ a \in Packet /\ a.type = "pubcomp" /\ a.id = e.id
      BY <2>4, <3>2 DEF ControlTypes
    <3>4. /\ received' = received \ {e.id} /\ UNCHANGED <<seen, twice>>
          /\ toBroker' = toBroker \/ toBroker' = Append(toBroker, a)
      BY <1>2, <2>2, <2>7, <3>2 DEF ClientReceives, Answer
    <3>5. SeenSet' = SeenSet
      BY <3>4 DEF SeenSet
    <3>6. Answers(e, a)'
      BY <3>1, <3>3, <3>4 DEF Answers
    <3>7. EntryOK(e)'
      BY <2>2, <2>3, <3>1, <3>5 DEF EntryOK
    <3>8. QED
      BY <1>1, <1>2, <2>1, <3>1, <3>3, <3>4, <3>5, <3>6, <3>7, TakesStep
  <2>8. QED
    BY <2>1, <2>5, <2>6, <2>7 DEF Expects
<1>5. QED
  BY <1>3, <1>4

----------------------------------------------------------------------------
(* The theorems.                                                           *)

\* The initial state satisfies the invariant.
LEMMA FlowInit == Init => Inv
<1> SUFFICES ASSUME Init PROVE FlowInv
  BY InvInit DEF Inv
<1>1. /\ Entries = {} /\ Down = {} /\ Up = {} /\ SeenSet = {}
      /\ OneToOne(toClient) /\ OneToOne(toBroker)
  <2>1. SeenSet = Elems(seen)
    BY DEF SeenSet, Elems
  <2>2. QED
    BY <2>1, SmallElems DEF Init, Entries, Down, Up
<1>2. EntriesOK /\ DownOK /\ UpOK /\ OneEach /\ NoneYet
  BY <1>1 DEF EntriesOK, DownOK, UpOK, OneEach, NoneYet
<1>3. ReceivedOK /\ HistoryOK /\ ExactlyOnce
  BY <1>1 DEF Init, ReceivedOK, HistoryOK, ExactlyOnce
<1>4. Kept
  BY SMTT(60) DEF Init, Kept
<1>5. QED
  BY <1>2, <1>3, <1>4 DEF FlowInv

\* Every step keeps it.
LEMMA FlowNext == Inv /\ IdFound /\ [Next]_vars => Inv'
<1> SUFFICES ASSUME Inv, IdFound, [Next]_vars PROVE FlowInv' /\ DeliveryInv'
  BY DEF Inv
<1>0. DeliveryInv'
  BY InvNext DEF Inv
<1>1. ASSUME NEW q \in QoSs, NEW oversize \in BOOLEAN, Enqueue(q, oversize)
      PROVE  FlowInv'
  BY <1>0, <1>1, EnqueueFlow
<1>2. CASE Tick \/ ConnLost
  BY <1>0, <1>2, ConnFlow
<1>3. CASE Reconnect
  BY <1>0, <1>3, ReconnectFlow
<1>4. CASE Step
  BY <1>0, <1>4, LoopFlow
<1>5. CASE Acknowledge
  <2>1. CASE HandlePuback
    BY <1>0, <2>1, CompletesFlow DEF HandlePuback
  <2>2. CASE HandlePubcomp
    BY <1>0, <2>2, CompletesFlow DEF HandlePubcomp
  <2>3. CASE HandlePubrec
    BY <1>0, <2>3, PubrecFlow
  <2>4. QED
    BY <1>5, <2>1, <2>2, <2>3 DEF Acknowledge
<1>6. CASE ClientReceives
  BY <1>0, <1>6, ClientFlow
<1>7. CASE UNCHANGED vars
  <2>1. /\ UNCHANGED <<pending, toClient, client, published, qosOf, dropped, sent>>
        /\ toBroker' = toBroker
    BY <1>7 DEF vars, client
  <2>2. Unresumed' = Unresumed
    BY <1>7 DEF vars, Unresumed, InFlight
  <2>3. QED
    BY <1>0, <2>1, <2>2, QuietStep DEF Inv
<1>8. QED
  BY <1>0, <1>1, <1>2, <1>3, <1>4, <1>5, <1>6, <1>7 DEF Next

\* What a PUBLISH says in its DUP flag is so.
TellsDup(p) == p.type = "publish" => (p.dup <=> p.msg \in sent)

\* The last packet, when a packet is put behind the others.
LEMMA LastSent ==
    ASSUME RestOK, NEW p \in Packet, Send(p), TellsDup(p)
    PROVE  TellsDup(toClient'[Len(toClient')])
<1>1. toClient'[Len(toClient')] = p
  BY AppendProperties, SMTT(60) DEF RestOK, Send
<1>2. QED
  BY <1>1

\* A turn of either loop sends a PUBLISH with DUP exactly when its message
\* has been sent before.
LEMMA LoopDup ==
    ASSUME IdFound, Inv, Step
    PROVE  \/ toClient' = toClient
           \/ TellsDup(toClient'[Len(toClient')])
<1>1. QueueInv /\ RestOK /\ EntriesDiffer
  BY InvParts, EntryFacts DEF Inv
<1>2. CASE LoopEnd
  BY <1>2 DEF LoopEnd
<1>3. CASE PumpSession \/ ResumeSession
  <2>1. /\ i \in 1..Len(pending) /\ DOMAIN pending = 1..Len(pending)
        /\ pending[i] \in OutMsg
    BY <1>1, <1>3, QueueDomain, SMTT(60) DEF PumpSession, ResumeSession, Looping, RestOK
  <2>2. PICK e : e = pending[i]
    OBVIOUS
  <2>3. e \in Entries /\ e \in OutMsg /\ EntryOK(e) /\ (e.state # "queued" => e.id \in Ids)
    BY <1>1, <2>1, <2>2 DEF Entries, Elems, Inv, FlowInv, EntriesOK, EntriesDiffer
  <2>4. CASE Skip
    BY <2>4 DEF Skip
  <2>5. CASE SendPubrel /\ e.state # "queued"
    <3>1. PICK p : p = Control("pubrel", e.id)
      OBVIOUS
    <3>2. p \in Packet
      BY <2>3, <2>5, <3>1, PacketTypes DEF ControlTypes
    <3>3. TellsDup(p)
      BY <3>1 DEF Control, TellsDup
    <3>4. toClient' = toClient \/ Send(p)
      BY <2>2, <2>5, <3>1 DEF SendPubrel
    <3>5. QED
      BY <1>1, <3>2, <3>3, <3>4, LastSent
  <2>6. CASE SendFirst /\ e.state = "queued"
    <3>1. PICK p : p = PublishPacket(e, NextId, e.dup)
      OBVIOUS
    <3>2. p \in Packet
      <4>1. NextId \in Ids /\ e.dup \in BOOLEAN
        BY <2>3 DEF IdFound, OutMsg
      <4>2. QED
        BY <2>3, <3>1, <4>1, PacketTypes
    <3>3. TellsDup(p)
      <4>1. e.msg \notin sent /\ e.dup = FALSE
        BY <2>3, <2>6 DEF EntryOK
      <4>2. p.msg = e.msg /\ p.dup = FALSE
        BY <3>1, <4>1 DEF PublishPacket
      <4>3. QED
        BY <4>1, <4>2 DEF TellsDup
    <3>4. toClient' = toClient \/ Send(p)
      BY <2>2, <2>6, <3>1 DEF SendFirst
    <3>5. QED
      BY <1>1, <3>2, <3>3, <3>4, LastSent
  <2>7. CASE SendAgain /\ e.state # "queued"
    <3>1. PICK p : p = PublishPacket(e, e.id, TRUE)
      OBVIOUS
    <3>2. p \in Packet
      BY <2>3, <2>7, <3>1, PacketTypes
    <3>3. TellsDup(p)
      <4>1. e.msg \in sent
        BY <2>3, <2>7 DEF EntryOK
      <4>2. p.msg = e.msg /\ p.dup = TRUE
        BY <3>1 DEF PublishPacket
      <4>3. QED
        BY <4>1, <4>2 DEF TellsDup
    <3>4. toClient' = toClient \/ Send(p)
      BY <2>2, <2>7, <3>1 DEF SendAgain
    <3>5. QED
      BY <1>1, <3>2, <3>3, <3>4, LastSent
  <2>8. QED
    <3>1. CASE PumpSession
      BY <2>2, <2>4, <2>5, <2>6, <3>1 DEF PumpSession
    <3>2. CASE ResumeSession
      BY <2>2, <2>5, <2>6, <2>7, <3>2 DEF ResumeSession
    <3>3. QED
      BY <1>3, <3>1, <3>2
<1>4. QED
  BY <1>2, <1>3 DEF Step

\* So does every other step.
LEMMA DupStep ==
    ASSUME Inv, IdFound, [Next]_vars
    PROVE  Len(toClient') > Len(toClient) => TellsDup(toClient'[Len(toClient')])
<1>1. RestOK /\ toClient \in Seq(Packet) /\ Len(toClient) \in Nat
  BY InvParts, LenProperties DEF Inv, RestOK
<1>2. CASE toClient' = toClient
  BY <1>1, <1>2, SMTT(60)
<1>3. CASE Step
  BY <1>2, <1>3, LoopDup
<1>4. CASE Reconnect
  <2>1. toClient' = <<Control("connack", NoId)>>
    BY <1>4 DEF Reconnect
  <2>2. Len(toClient') = 1 /\ toClient'[1] = Control("connack", NoId)
    BY <2>1, SMTT(60)
  <2>3. TellsDup(Control("connack", NoId))
    BY DEF TellsDup, Control
  <2>4. QED
    BY <2>2, <2>3
<1>5. CASE HandlePubrec
  <2>1. PICK p : p = Control("pubrel", Head(toBroker).id)
    OBVIOUS
  <2>2. toClient' = toClient \/ Send(p)
    BY <1>5, <2>1 DEF HandlePubrec
  <2>3. TellsDup(p)
    BY <2>1 DEF TellsDup, Control
  <2>4. p \in Packet
    <3>1. toBroker \in Seq(Packet) /\ toBroker # <<>>
      BY <1>1, <1>5 DEF RestOK, HandlePubrec, Arrived
    <3>2. Head(toBroker) \in Packet
      BY <3>1, HeadTailProperties
    <3>3. Head(toBroker).id \in Ids \cup {NoId}
      BY <3>2 DEF Packet
    <3>4. QED
      BY <2>1, <3>3, PacketTypes DEF ControlTypes
  <2>5. QED
    BY <1>1, <1>2, <2>2, <2>3, <2>4, LastSent
<1>6. CASE ClientReceives
  <2>1. toClient # <<>> /\ toClient' = Tail(toClient)
    BY <1>6 DEF ClientReceives
  <2>2. Len(toClient') < Len(toClient)
    BY <1>1, <2>1, HeadTailProperties, SMTT(60)
  <2>3. QED
    <3>1. Len(toClient') \in Nat
      BY <1>1, <2>1, HeadTailProperties, LenProperties
    <3>2. ~(Len(toClient') > Len(toClient))
      BY <1>1, <2>2, <3>1, SMTT(60)
    <3>3. QED
      BY <3>2
<1>7. CASE ~(Step \/ Reconnect \/ HandlePubrec \/ ClientReceives)
  <2>1. toClient' = toClient
    BY <1>7 DEF Next, Enqueue, Tick, Acknowledge, HandlePuback, HandlePubcomp,
                      Completes, ConnLost, vars
  <2>2. QED
    BY <1>2, <2>1
<1>8. QED
  BY <1>3, <1>4, <1>5, <1>6, <1>7

----------------------------------------------------------------------------
(* The order in which the client sees the messages, through a ring that    *)
(* holds the whole queue.                                                  *)

\* The ring holds CONNACK and a PUBLISH for every entry of the queue.
RingHoldsQueue == RingSize >= 1 + MaxPending * PublishSize

\* The publishes on their way to the client are in order.
Sorted(s) ==
    \A x, y \in DOMAIN s :
        x < y /\ s[x].type = "publish" /\ s[y].type = "publish" => s[x].msg < s[y].msg

\* Of a message sent that the client has not seen a PUBLISH is under way,
\* unless a running resume_session() has still to reach its entry.
SentAgain ==
    \A e \in Entries \ Unresumed :
        e.state # "queued" /\ e.msg \notin SeenSet =>
            \E p \in Down : p.type = "publish" /\ p.msg = e.msg

\* What the client has not seen comes after what it has.
UnseenLater ==
    \A m \in SeenSet, e \in Entries : e.msg \notin SeenSet => m < e.msg

\* A running resume_session() has the ring to itself.
Room == pc = "resume" => Used <= 1 + (i - 1) * PublishSize

OrderInv == InOrder /\ Sorted(toClient) /\ SentAgain /\ UnseenLater /\ Room

\* What a step does to the room in the ring, which is shown below.
RingCounts ==
    /\ Used \in Nat /\ Used' \in Nat
    /\ \A p \in Packet : Send(p) => Used' <= Used + PublishSize
    /\ toClient # <<>> /\ toClient' = Tail(toClient) => Used' <= Used
    /\ \A c \in Packet : toClient' = <<c>> /\ c.type # "publish" => Used' = 1

----------------------------------------------------------------------------
(* The ring and the packets in it.                                          *)

\* Products in one factor.
LEMMA Products ==
    /\ \A a, b, c \in Nat : a <= b => a * c <= b * c
    /\ \A a, c \in Nat : (a + 1) * c = a * c + c /\ a * c \in Nat
BY SMTT(60)

\* A running resume_session() is never refused, and keeps its bound.
LEMMA ResumeFits ==
    ASSUME RingHoldsQueue, RingCounts, RestOK, QueueInv, Room, pc = "resume", i \in 1..Len(pending)
    PROVE  /\ \A p : Fits(p)
           /\ \A p \in Packet : Send(p) /\ i' = i + 1 => Used' <= 1 + (i' - 1) * PublishSize
<1>1. /\ PublishSize \in Nat /\ PublishSize >= 1 /\ MaxPending \in Nat /\ RingSize \in Nat
      /\ i - 1 \in Nat /\ i \in Nat /\ i <= MaxPending /\ i = (i - 1) + 1
      /\ Used \in Nat
  BY DeliveryAssumption, QueueDomain, SMTT(60) DEF QueueInv, RingCounts
<1>2. /\ i * PublishSize <= MaxPending * PublishSize
      /\ i * PublishSize = (i - 1) * PublishSize + PublishSize
      /\ (i - 1) * PublishSize \in Nat
  BY <1>1, Products
<1>3. Used + PublishSize <= 1 + i * PublishSize
  BY <1>1, <1>2, SMTT(60) DEF Room
<1>4. \A p : Fits(p)
  <2> SUFFICES ASSUME NEW p PROVE Fits(p)
    OBVIOUS
  <2>1. MaxPending * PublishSize \in Nat
    BY <1>1, Products
  <2>2. Used + PublishSize <= RingSize
    BY <1>1, <1>2, <1>3, <2>1, SMTT(60) DEF RingHoldsQueue
  <2>3. Used + 1 <= RingSize
    BY <1>1, <2>2, SMTT(60)
  <2>4. QED
    BY <2>2, <2>3 DEF Fits
<1>5. ASSUME NEW p \in Packet, Send(p), i' = i + 1
      PROVE  Used' <= 1 + (i' - 1) * PublishSize
  <2>1. Used' \in Nat /\ Used' <= Used + PublishSize
    BY <1>5 DEF RingCounts
  <2>2. i' - 1 = i
    BY <1>1, <1>5, SMTT(60)
  <2>3. i * PublishSize \in Nat
    BY <1>1, Products
  <2>4. QED
    BY <1>1, <1>3, <2>1, <2>2, <2>3, SMTT(60)
<1>6. QED
  BY <1>4, <1>5

\* Sequences of packets that stay sorted.
LEMMA SortedAppend ==
    ASSUME NEW s \in Seq(Packet), NEW p \in Packet, Sorted(s),
           p.type = "publish" => \A q \in Elems(s) : q.type = "publish" => q.msg < p.msg
    PROVE  Sorted(Append(s, p))
<1> DEFINE n == Len(s)
           t == Append(s, p)
<1>1. n \in Nat /\ DOMAIN s = 1..n
  BY LenProperties
<1>2. /\ DOMAIN t = 1..(n + 1)
      /\ \A k \in 1..n : t[k] = s[k]
      /\ t[n + 1] = p
  BY AppendProperties, LenProperties, SMTT(60)
<1> HIDE DEF n, t
<1> SUFFICES ASSUME NEW x \in 1..(n + 1), NEW y \in 1..(n + 1), x < y,
                    t[x].type = "publish", t[y].type = "publish"
             PROVE  t[x].msg < t[y].msg
  BY <1>2 DEF Sorted, t
<1>3. x \in 1..n /\ (y = n + 1 \/ y \in 1..n)
  BY <1>1, SMTT(60)
<1>4. CASE y = n + 1
  <2>1. s[x] \in Elems(s) /\ t[x] = s[x] /\ t[y] = p
    BY <1>1, <1>2, <1>3, <1>4 DEF Elems
  <2>2. QED
    BY <2>1
<1>5. CASE y \in 1..n
  BY <1>1, <1>2, <1>3, <1>5 DEF Sorted
<1>6. QED
  BY <1>3, <1>4, <1>5

\* The head of a sorted sequence comes before the rest.
LEMMA SortedTail ==
    ASSUME NEW s \in Seq(Packet), s # <<>>, Sorted(s)
    PROVE  /\ Sorted(Tail(s))
           /\ \A q \in Elems(Tail(s)) :
                Head(s).type = "publish" /\ q.type = "publish" => Head(s).msg < q.msg
<1> DEFINE n == Len(s) - 1
           t == Tail(s)
<1>1. n \in Nat /\ DOMAIN s = 1..(n + 1)
  BY LenProperties, EmptySeq, SMTT(60)
<1>2. /\ DOMAIN t = 1..n /\ \A k \in 1..n : t[k] = s[k + 1]
      /\ Head(s) = s[1]
  BY <1>1, HeadTailProperties, LenProperties, SMTT(60)
<1>3. /\ 1 \in 1..(n + 1)
      /\ \A k \in 1..n : k + 1 \in 1..(n + 1) /\ 1 < k + 1
      /\ \A x, y \in 1..n : x < y => x + 1 < y + 1
  BY <1>1, SMTT(60)
<1> HIDE DEF n, t
<1>4. Sorted(t)
  <2> SUFFICES ASSUME NEW x \in 1..n, NEW y \in 1..n, x < y,
                      t[x].type = "publish", t[y].type = "publish"
               PROVE  t[x].msg < t[y].msg
    BY <1>2 DEF Sorted
  <2>1. x + 1 \in DOMAIN s /\ y + 1 \in DOMAIN s /\ x + 1 < y + 1
    BY <1>1, <1>3
  <2>2. QED
    BY <1>2, <2>1 DEF Sorted
<1>5. ASSUME NEW k \in 1..n, s[1].type = "publish", t[k].type = "publish"
      PROVE  s[1].msg < t[k].msg
  <2>1. 1 \in DOMAIN s /\ k + 1 \in DOMAIN s /\ 1 < k + 1 /\ t[k] = s[k + 1]
    BY <1>1, <1>2, <1>3
  <2>2. QED
    BY <1>5, <2>1 DEF Sorted
<1>6. QED
  BY <1>2, <1>4, <1>5 DEF Elems, t

\* The order of the entries.
LEMMA EntriesInOrder ==
    ASSUME QueueInv, RestOK, NEW e \in Entries, NEW f \in Entries,
           \/ e.state # "queued" /\ f.state = "queued"
           \/ e.state # "queued" /\ e \notin Unresumed /\ f \in Unresumed
    PROVE  e.msg < f.msg
<1>1. DOMAIN pending = 1..Len(pending) /\ Len(pending) \in Nat
  BY QueueDomain
<1>2. PICK j \in 1..Len(pending) : e = pending[j]
  BY <1>1 DEF Entries, Elems
<1>3. CASE e.state # "queued" /\ f.state = "queued"
  <2>1. PICK k \in 1..Len(pending) : f = pending[k]
    BY <1>1 DEF Entries, Elems
  <2>2. ~(k < j)
    BY <1>1, <1>2, <1>3, <2>1 DEF QueueInv, QueuedLast
  <2>3. j # k
    BY <1>2, <1>3, <2>1
  <2>4. j < k
    BY <1>1, <2>2, <2>3, SMTT(60)
  <2>5. QED
    BY <1>1, <1>2, <2>1, <2>4 DEF QueueInv, QueuedLast
<1>4. CASE e.state # "queued" /\ e \notin Unresumed /\ f \in Unresumed
  <2>1. PICK k \in InFlight : f = pending[k] /\ pc = "resume" /\ k >= i
    BY <1>4 DEF Unresumed
  <2>2. j \in InFlight
    BY <1>1, <1>2, <1>4 DEF InFlight
  <2>3. ~(j >= i)
    BY <1>2, <1>4, <2>1, <2>2 DEF Unresumed
  <2>4. j < k /\ k \in DOMAIN pending
    BY <1>1, <2>1, <2>3, SMTT(60) DEF InFlight, RestOK
  <2>5. QED
    BY <1>1, <1>2, <2>1, <2>4 DEF QueueInv, QueuedLast
<1>5. QED
  BY <1>3, <1>4

\* A loop that goes on has reached no other entry than its own.
LEMMA UnresumedStays ==
    ASSUME QueueInv, i \in 1..Len(pending), NEW r,
           pending' = [pending EXCEPT ![i] = r], pc' = pc, i' = i + 1
    PROVE  Unresumed \ {pending[i]} \subseteq Unresumed'
<1>1. /\ DOMAIN pending = 1..Len(pending) /\ Len(pending) \in Nat
      /\ DOMAIN pending' = 1..Len(pending)
      /\ \A k \in 1..Len(pending) : k # i => pending'[k] = pending[k]
  BY QueueDomain
<1> SUFFICES ASSUME NEW k \in InFlight, pc = "resume", k >= i, pending[k] # pending[i]
             PROVE  pending[k] \in Unresumed'
  BY DEF Unresumed
<1>2. k \in 1..Len(pending) /\ k # i /\ pending[k].state # "queued"
  BY <1>1 DEF InFlight
<1>3. k >= i'
  BY <1>1, <1>2, SMTT(60)
<1>4. k \in InFlight' /\ pending'[k] = pending[k]
  BY <1>1, <1>2 DEF InFlight
<1>5. QED
  BY <1>3, <1>4 DEF Unresumed

\* Send() adds its packet to what is on the way to the client.
LEMMA SendElems ==
    ASSUME RestOK, NEW p \in Packet, Send(p)
    PROVE  /\ toClient \in Seq(Packet) /\ toClient' = Append(toClient, p)
           /\ Down' = Down \cup {p}
<1>1. toClient \in Seq(Packet)
  BY DEF RestOK
<1>2. ElemsJoined(toClient, p, Append(toClient, p))
  BY <1>1, AppendElems
<1>3. QED
  BY <1>1, <1>2 DEF ElemsJoined, Send, Down

\* What OrderInv says of a publish under way: its entry is in flight and no
\* longer waits for resume_session().
LEMMA UnderWay ==
    ASSUME FlowInv, NEW q \in Down, q.type = "publish"
    PROVE  \E f \in Entries : /\ Expects(f, q) /\ f.msg = q.msg /\ f.state # "queued"
                              /\ f \notin Unresumed
<1>1. q.type # "connack"
  OBVIOUS
<1>2. PICK f \in Entries : Expects(f, q)
  BY <1>1 DEF FlowInv, DownOK
<1>3. f.msg = q.msg /\ f.state # "queued" /\ f.id = q.id
  BY <1>2 DEF Expects
<1>4. f \notin Unresumed
  BY <1>3 DEF FlowInv, NoneYet
<1>5. QED
  BY <1>2, <1>3, <1>4

\* The order does not depend on what leaves the queue, nor on entries that
\* a loop passes without a change.
LEMMA SameOrder ==
    ASSUME OrderInv, Unresumed \subseteq Unresumed', Entries' \subseteq Entries,
           toClient' = toClient, seen' = seen
    PROVE  InOrder' /\ Sorted(toClient)' /\ SentAgain' /\ UnseenLater'
<1>1. SeenSet' = SeenSet /\ Down' = Down
  BY DEF SeenSet, Down, Elems
<1>2. InOrder' /\ Sorted(toClient)'
  BY DEF OrderInv, InOrder, Sorted
<1>3. SentAgain'
  BY <1>1 DEF OrderInv, SentAgain
<1>4. UnseenLater'
  BY <1>1 DEF OrderInv, UnseenLater
<1>5. QED
  BY <1>2, <1>3, <1>4

\* It does not change for the other entries when one is sent.
LEMMA EntryOrder ==
    ASSUME OrderInv, NEW e \in Entries, NEW r, r.msg = e.msg,
           Entries' = (Entries \ {e}) \cup {r},
           Unresumed \ {e} \subseteq Unresumed', Down \subseteq Down', seen' = seen,
           \/ r.msg \in SeenSet
           \/ \E p \in Down' : p.type = "publish" /\ p.msg = r.msg
    PROVE  InOrder' /\ SentAgain' /\ UnseenLater'
<1>1. SeenSet' = SeenSet
  BY DEF SeenSet
<1>2. InOrder'
  BY DEF OrderInv, InOrder
<1>3. SentAgain'
  <2> SUFFICES ASSUME NEW f \in Entries', f \notin Unresumed', f.state # "queued",
                      f.msg \notin SeenSet
               PROVE  \E p \in Down' : p.type = "publish" /\ p.msg = f.msg
    BY <1>1 DEF SentAgain
  <2>1. CASE f = r
    BY <2>1
  <2>2. CASE f # r
    <3>1. f \in Entries /\ f \notin Unresumed
      BY <2>2
    <3>2. QED
      BY <3>1 DEF OrderInv, SentAgain
  <2>3. QED
    BY <2>1, <2>2
<1>4. UnseenLater'
  BY <1>1 DEF OrderInv, UnseenLater
<1>5. QED
  BY <1>2, <1>3, <1>4

\* The first transmission of a message comes after all that is under way.
LEMMA FirstOrder ==
    ASSUME RingHoldsQueue, RingCounts, IdFound, Inv, DeliveryInv', OrderInv,
           pc # "idle", i <= Len(pending),
           pending[i].state = "queued", SendFirst, seen' = seen
    PROVE  OrderInv'
<1>1. QueueInv /\ RestOK /\ QueueInv' /\ EntriesDiffer
      /\ FlowInv /\ Room /\ pc \in {"pump", "resume"}
  <2>1. QueueInv /\ RestOK /\ QueueInv' /\ EntriesDiffer
    BY InvParts, EntryFacts, PTL DEF Inv
  <2>2. FlowInv /\ Room /\ pc \in {"pump", "resume"}
    BY <2>1 DEF Inv, OrderInv, RestOK
  <2>3. QED
    BY <2>1, <2>2
<1>2. i \in 1..Len(pending)
  BY <1>1, QueueDomain, SMTT(60) DEF RestOK
<1>3. PICK e : e = pending[i]
  OBVIOUS
<1>4. e \in Entries /\ e \in OutMsg /\ e.state = "queued"
  BY <1>1, <1>2, <1>3, QueueDomain DEF Entries, Elems, EntriesDiffer
<1>5. PICK p : p = PublishPacket(e, NextId, e.dup)
  OBVIOUS
<1>6. CASE ~Fits(p)
  <2>1. pc = "pump"
    BY <1>1, <1>2, <1>6, ResumeFits
  <2>2. UNCHANGED <<pending, toClient>> /\ pc' = "idle"
    BY <1>3, <1>5, <1>6 DEF SendFirst, Return
  <2>3. Unresumed \subseteq Unresumed' /\ Entries' = Entries
    BY <2>1, <2>2, UnresumedFacts DEF Entries
  <2>4. Room'
    BY <2>2 DEF Room
  <2>5. QED
    BY <2>2, <2>3, <2>4, SameOrder DEF OrderInv
<1>7. CASE Fits(p)
  <2>1. PICK r : r = Away(e, NextId)
    OBVIOUS
  <2>2. Send(p) /\ pending' = [pending EXCEPT ![i] = r] /\ i' = i + 1 /\ pc' = pc
    BY <1>3, <1>5, <1>7, <2>1 DEF SendFirst, Continue
  <2>3. NextId \in Ids
    BY DEF IdFound
  <2>4. r.msg = e.msg
    BY <1>4, <2>1, <2>3, AwayFields
  <2>5. p \in Packet /\ p.type = "publish" /\ p.msg = e.msg
    BY <1>4, <1>5, <2>3 DEF PublishPacket, Packet, OutMsg
  <2>6. toClient \in Seq(Packet) /\ toClient' = Append(toClient, p)
    BY <1>1, <2>2, <2>5, SendElems
  <2>8. Down' = Down \cup {p}
    BY <1>1, <2>2, <2>5, SendElems
  <2>9. Entries' = (Entries \ {e}) \cup {r}
    BY <1>1, <1>2, <1>3, <2>2, ReplaceEntry
  <2>10. Unresumed \ {e} \subseteq Unresumed'
    BY <1>1, <1>2, <1>3, <2>2, UnresumedStays
  <2>11. InOrder' /\ SentAgain' /\ UnseenLater'
    BY <1>4, <2>4, <2>5, <2>8, <2>9, <2>10, EntryOrder
  <2>12. ASSUME NEW q \in Down, q.type = "publish"
         PROVE  q.msg < p.msg
    <3>1. PICK f \in Entries : f.msg = q.msg /\ f.state # "queued"
      BY <1>1, <2>12, UnderWay
    <3>2. f.msg < e.msg
      BY <1>1, <1>4, <3>1, EntriesInOrder
    <3>3. QED
      BY <2>5, <3>1, <3>2
  <2>13. Sorted(toClient)
    BY DEF OrderInv
  <2>14. Sorted(Append(toClient, p))
    BY <2>5, <2>6, <2>12, <2>13, SortedAppend DEF Down
  <2>15. Sorted(toClient)'
    BY <2>6, <2>14 DEF Sorted
  <2>16. Room'
    <3>1. CASE pc = "resume"
      BY <1>1, <1>2, <2>2, <2>5, <3>1, ResumeFits DEF Room
    <3>2. QED
      BY <2>2, <3>1 DEF Room
  <2>17. QED
    BY <2>11, <2>15, <2>16 DEF OrderInv
<1>8. QED
  BY <1>6, <1>7

\* A retransmission comes after all that has been sent again.
LEMMA AgainOrder ==
    ASSUME RingHoldsQueue, RingCounts, IdFound, Inv, DeliveryInv', OrderInv,
           pc = "resume", i <= Len(pending),
           pending[i].state \in {"awaiting_puback", "awaiting_pubrec"}, SendAgain,
           seen' = seen
    PROVE  OrderInv'
<1>1. QueueInv /\ RestOK /\ QueueInv' /\ EntriesDiffer /\ FlowInv /\ Room
  <2>1. QueueInv /\ RestOK /\ QueueInv' /\ EntriesDiffer
    BY InvParts, EntryFacts, PTL DEF Inv
  <2>2. FlowInv /\ Room
    BY DEF Inv, OrderInv
  <2>3. QED
    BY <2>1, <2>2
<1>2. i \in 1..Len(pending)
  BY <1>1, QueueDomain, SMTT(60) DEF RestOK
<1>3. PICK e : e = pending[i]
  OBVIOUS
<1>4. e \in Entries /\ e \in OutMsg /\ e.state # "queued" /\ e.id \in Ids /\ i \in InFlight
  BY <1>1, <1>2, <1>3, QueueDomain DEF Entries, Elems, EntriesDiffer, InFlight
<1>5. e \in Unresumed
  <2>1. i >= i
    BY <1>2, <1>1, QueueDomain, SMTT(60)
  <2>2. QED
    BY <1>3, <1>4, <2>1 DEF Unresumed
<1>6. PICK p : p = PublishPacket(e, e.id, TRUE)
  OBVIOUS
<1>7. PICK r : r = [e EXCEPT !.dup = TRUE]
  OBVIOUS
<1>8. Fits(p)
  BY <1>1, <1>2, ResumeFits
<1>9. Send(p) /\ pending' = [pending EXCEPT ![i] = r] /\ i' = i + 1 /\ pc' = pc
  BY <1>3, <1>6, <1>7, <1>8 DEF SendAgain, Continue
<1>10. r.msg = e.msg
  BY <1>4, <1>7, DupFields
<1>11. p \in Packet /\ p.type = "publish" /\ p.msg = e.msg
  BY <1>4, <1>6 DEF PublishPacket, Packet, OutMsg
<1>12. toClient \in Seq(Packet) /\ toClient' = Append(toClient, p)
  BY <1>1, <1>9, <1>11, SendElems
<1>14. Down' = Down \cup {p}
  BY <1>1, <1>9, <1>11, SendElems
<1>15. Entries' = (Entries \ {e}) \cup {r}
  BY <1>1, <1>2, <1>3, <1>9, ReplaceEntry
<1>16. Unresumed \ {e} \subseteq Unresumed'
  BY <1>1, <1>2, <1>3, <1>9, UnresumedStays
<1>17. InOrder' /\ SentAgain' /\ UnseenLater'
  BY <1>4, <1>10, <1>11, <1>14, <1>15, <1>16, EntryOrder
<1>18. ASSUME NEW q \in Down, q.type = "publish"
       PROVE  q.msg < p.msg
  <2>1. PICK f \in Entries : f.msg = q.msg /\ f.state # "queued" /\ f \notin Unresumed
    BY <1>1, <1>18, UnderWay
  <2>2. f.msg < e.msg
    BY <1>1, <1>4, <1>5, <2>1, EntriesInOrder
  <2>3. QED
    BY <1>11, <2>1, <2>2
<1>19. Sorted(toClient)
  BY DEF OrderInv
<1>20. Sorted(Append(toClient, p))
  BY <1>11, <1>12, <1>18, <1>19, SortedAppend DEF Down
<1>21. Sorted(toClient)'
  BY <1>12, <1>20 DEF Sorted
<1>22. Room'
  BY <1>1, <1>2, <1>9, <1>11, ResumeFits DEF Room
<1>23. QED
  BY <1>17, <1>21, <1>22 DEF OrderInv

\* PUBREL is for a message the client has seen.
LEMMA PubrelOrder ==
    ASSUME RingHoldsQueue, RingCounts, IdFound, Inv, DeliveryInv', OrderInv,
           pc # "idle", i <= Len(pending),
           pending[i].state = "awaiting_pubcomp", SendPubrel, seen' = seen
    PROVE  OrderInv'
<1>1. QueueInv /\ RestOK /\ QueueInv' /\ EntriesDiffer
      /\ FlowInv /\ Room /\ pc \in {"pump", "resume"}
  <2>1. QueueInv /\ RestOK /\ QueueInv' /\ EntriesDiffer
    BY InvParts, EntryFacts, PTL DEF Inv
  <2>2. FlowInv /\ Room /\ pc \in {"pump", "resume"}
    BY <2>1 DEF Inv, OrderInv, RestOK
  <2>3. QED
    BY <2>1, <2>2
<1>2. i \in 1..Len(pending)
  BY <1>1, QueueDomain, SMTT(60) DEF RestOK
<1>3. PICK e : e = pending[i]
  OBVIOUS
<1>4. e \in Entries /\ e \in OutMsg /\ e.state = "awaiting_pubcomp" /\ e.id \in Ids
  BY <1>1, <1>2, <1>3, QueueDomain DEF Entries, Elems, EntriesDiffer
<1>5. e.msg \in SeenSet
  BY <1>1, <1>4 DEF FlowInv, EntriesOK, EntryOK
<1>6. PICK p : p = Control("pubrel", e.id)
  OBVIOUS
<1>7. p \in Packet /\ p.type = "pubrel"
  BY <1>4, <1>6 DEF Control, Packet, ControlTypes
<1>8. CASE ~Fits(p)
  <2>1. pc = "pump"
    BY <1>1, <1>2, <1>8, ResumeFits
  <2>2. PICK r : r = [e EXCEPT !.resend = TRUE]
    OBVIOUS
  <2>3. toClient' = toClient /\ pc' = "idle" /\ pending' = [pending EXCEPT ![i] = r]
    BY <1>3, <1>6, <1>8, <2>2 DEF SendPubrel, Return
  <2>4. r.msg = e.msg
    BY <1>4, <2>2, ResendFields
  <2>5. Entries' = (Entries \ {e}) \cup {r}
    BY <1>1, <1>2, <1>3, <2>3, ReplaceEntry
  <2>6. Unresumed = {} /\ Down' = Down
    BY <2>1, <2>3, UnresumedFacts DEF Down
  <2>7. InOrder' /\ SentAgain' /\ UnseenLater'
    BY <1>4, <1>5, <2>4, <2>5, <2>6, EntryOrder
  <2>8. Room' /\ Sorted(toClient)'
    BY <2>3 DEF Room, OrderInv, Sorted
  <2>9. QED
    BY <2>7, <2>8 DEF OrderInv
<1>9. CASE Fits(p)
  <2>1. PICK r : r = [e EXCEPT !.resend = FALSE]
    OBVIOUS
  <2>2. Send(p) /\ pending' = [pending EXCEPT ![i] = r] /\ i' = i + 1 /\ pc' = pc
    BY <1>3, <1>6, <1>9, <2>1 DEF SendPubrel, Continue
  <2>3. r.msg = e.msg
    BY <1>4, <2>1, ResendFields
  <2>4. toClient \in Seq(Packet) /\ toClient' = Append(toClient, p)
    BY <1>1, <1>7, <2>2, SendElems
  <2>6. Down' = Down \cup {p}
    BY <1>1, <1>7, <2>2, SendElems
  <2>7. Entries' = (Entries \ {e}) \cup {r}
    BY <1>1, <1>2, <1>3, <2>2, ReplaceEntry
  <2>8. Unresumed \ {e} \subseteq Unresumed'
    BY <1>1, <1>2, <1>3, <2>2, UnresumedStays
  <2>9. InOrder' /\ SentAgain' /\ UnseenLater'
    BY <1>4, <1>5, <2>3, <2>6, <2>7, <2>8, EntryOrder
  <2>10. Sorted(toClient) /\ p.type # "publish"
    BY <1>7 DEF OrderInv
  <2>11. Sorted(Append(toClient, p))
    BY <1>7, <2>4, <2>10, SortedAppend
  <2>12. Sorted(toClient)'
    BY <2>4, <2>11 DEF Sorted
  <2>13. Room'
    <3>1. CASE pc = "resume"
      BY <1>1, <1>2, <1>7, <2>2, <3>1, ResumeFits DEF Room
    <3>2. QED
      BY <2>2, <3>1 DEF Room
  <2>14. QED
    BY <2>9, <2>12, <2>13 DEF OrderInv
<1>10. QED
  BY <1>8, <1>9

\* The loops keep the order.
LEMMA LoopOrder ==
    ASSUME RingHoldsQueue, RingCounts, IdFound, Inv, DeliveryInv', OrderInv, Step
    PROVE  OrderInv'
<1>1. QueueInv /\ RestOK
  BY InvParts DEF Inv
<1>2. CASE PumpSession
  <2>1. /\ pc = "pump" /\ pc # "idle" /\ i <= Len(pending) /\ seen' = seen
    BY <1>2 DEF PumpSession, Looping, client
  <2>2. CASE pending[i].state = "queued"
    <3>1. SendFirst
      BY <1>2, <2>2 DEF PumpSession
    <3>2. QED
      BY <2>1, <2>2, <3>1, FirstOrder
  <2>3. CASE pending[i].state = "awaiting_pubcomp" /\ pending[i].resend
    <3>1. SendPubrel
      BY <1>2, <2>3 DEF PumpSession
    <3>2. QED
      BY <2>1, <2>3, <3>1, PubrelOrder
  <2>4. CASE ~(pending[i].state = "awaiting_pubcomp" /\ pending[i].resend)
             /\ pending[i].state # "queued"
    <3>1. Skip
      BY <1>2, <2>4 DEF PumpSession
    <3>2. UNCHANGED <<pending, toClient, pc>>
      BY <3>1 DEF Skip, Continue, queue
    <3>3. Unresumed = {} /\ Entries' = Entries
      BY <2>1, <3>2, UnresumedFacts DEF Entries
    <3>4. Room'
      BY <2>1, <3>2 DEF Room
    <3>5. QED
      BY <2>1, <3>2, <3>3, <3>4, SameOrder DEF OrderInv
  <2>5. QED
    BY <2>2, <2>3, <2>4
<1>3. CASE ResumeSession
  <2>1. /\ pc = "resume" /\ pc # "idle" /\ i <= Len(pending) /\ seen' = seen
    BY <1>3 DEF ResumeSession, Looping, client
  <2>2. CASE pending[i].state = "queued"
    <3>1. SendFirst
      BY <1>3, <2>2 DEF ResumeSession
    <3>2. QED
      BY <2>1, <2>2, <3>1, FirstOrder
  <2>3. CASE pending[i].state = "awaiting_pubcomp"
    <3>1. SendPubrel
      BY <1>3, <2>3 DEF ResumeSession
    <3>2. QED
      BY <2>1, <2>3, <3>1, PubrelOrder
  <2>4. CASE pending[i].state \notin {"queued", "awaiting_pubcomp"}
    <3>1. SendAgain
      BY <1>3, <2>4 DEF ResumeSession
    <3>2. pending[i].state \in {"awaiting_puback", "awaiting_pubrec"}
      <4>1. i \in 1..Len(pending)
        BY <1>1, <2>1, QueueDomain, SMTT(60) DEF RestOK
      <4>2. pending[i].state \in OutStates
        BY <1>1, <4>1, QueueDomain DEF OutMsg
      <4>3. QED
        BY <2>4, <4>2 DEF OutStates
    <3>3. QED
      BY <2>1, <3>1, <3>2, AgainOrder
  <2>5. QED
    BY <2>2, <2>3, <2>4
<1>4. CASE LoopEnd
  <2>1. pc' = "idle" /\ i > Len(pending) /\ UNCHANGED <<pending, toClient, seen>>
    BY <1>4 DEF LoopEnd, Return, queue, client
  <2>2. Unresumed = {} /\ Entries' = Entries
    <3>1. \A k \in InFlight : ~(k >= i)
      BY <1>1, <2>1, QueueDomain, SMTT(60) DEF InFlight, RestOK
    <3>2. QED
      BY <2>1, <3>1 DEF Unresumed, Entries
  <2>3. Room'
    BY <2>1 DEF Room
  <2>4. QED
    BY <2>1, <2>2, <2>3, SameOrder DEF OrderInv
<1>5. QED
  BY <1>2, <1>3, <1>4 DEF Step

\* A new message comes after all others.
LEMMA EnqueueOrder ==
    ASSUME Inv, OrderInv, NEW q \in QoSs, NEW oversize \in BOOLEAN, Enqueue(q, oversize)
    PROVE  OrderInv'
<1>1. QueueInv /\ RestOK
  BY InvParts DEF Inv
<1>2. PICK r : r = [msg |-> published + 1, id |-> NoId, qos |-> q, state |-> "queued",
                    dup |-> FALSE, resend |-> FALSE]
  OBVIOUS
<1>3. r.msg = published + 1 /\ r.state = "queued"
  BY <1>2
<1>4. /\ pc = "idle" /\ pc' # "resume" /\ seen' = seen /\ toClient' = toClient
      /\ pending' = pending \/ pending' = Append(pending, r)
  BY <1>2 DEF Enqueue, client
<1>5. Entries' \subseteq Entries \cup {r}
  <2>1. CASE pending' = pending
    BY <2>1 DEF Entries
  <2>2. CASE pending' = Append(pending, r)
    <3>1. r \in OutMsg
      <4>1. published + 1 \in Messages
        BY <1>1, DeliveryAssumption, SMTT(60) DEF Enqueue, RestOK, Messages
      <4>2. QED
        BY <1>2, <4>1 DEF OutMsg, OutStates
    <3>2. QED
      BY <1>1, <2>2, <3>1, AddEntry
  <2>3. QED
    BY <1>4, <2>1, <2>2
<1>6. /\ SeenSet' = SeenSet /\ Down' = Down /\ Unresumed = {}
      /\ InOrder' /\ Sorted(toClient)' /\ Room'
  BY <1>4, UnresumedFacts DEF SeenSet, Down, OrderInv, InOrder, Sorted, Room
<1>7. SentAgain'
  BY <1>3, <1>5, <1>6 DEF OrderInv, SentAgain
<1>8. UnseenLater'
  <2> SUFFICES ASSUME NEW m \in SeenSet, NEW e \in Entries', e.msg \notin SeenSet
               PROVE  m < e.msg
    BY <1>6 DEF UnseenLater
  <2>1. CASE e = r
    <3>1. m \in 1..published /\ published \in Nat
      BY <1>1, DeliveryAssumption, SMTT(60) DEF Inv, FlowInv, HistoryOK, RestOK
    <3>2. QED
      BY <1>3, <2>1, <3>1, SMTT(60)
  <2>2. CASE e \in Entries
    BY <2>2 DEF OrderInv, UnseenLater
  <2>3. QED
    BY <1>5, <2>1, <2>2
<1>9. QED
  BY <1>6, <1>7, <1>8 DEF OrderInv

\* tick(), and a connection that is lost.
LEMMA ConnOrder ==
    ASSUME OrderInv, Tick \/ ConnLost
    PROVE  OrderInv'
<1>1. pc = "idle" /\ pc' # "resume" /\ UNCHANGED <<pending, toClient, seen>>
  BY DEF Tick, ConnLost, queue, loop, client
<1>2. Unresumed = {} /\ Entries' = Entries /\ Room'
  BY <1>1, UnresumedFacts DEF Entries, Room
<1>3. QED
  BY <1>1, <1>2, SameOrder DEF OrderInv

\* After a reconnect every entry in flight is to be sent again.
LEMMA ReconnectOrder ==
    ASSUME RingCounts, Inv, OrderInv, Reconnect
    PROVE  OrderInv'
<1>1. QueueInv /\ RestOK
  BY InvParts DEF Inv
<1>2. PICK c : c = Control("connack", NoId)
  OBVIOUS
<1>3. c.type = "connack"
  BY <1>2 DEF Control
<1>4. pc' = "resume" /\ i' = 1 /\ toClient' = <<c>> /\ UNCHANGED <<pending, seen>>
  BY <1>2 DEF Reconnect, queue, client
<1>5. SeenSet' = SeenSet /\ Entries' = Entries /\ InOrder'
  BY <1>4 DEF SeenSet, Entries, OrderInv, InOrder
<1>6. Sorted(toClient)'
  BY <1>3, <1>4, SMTT(60) DEF Sorted
<1>7. SentAgain'
  <2> SUFFICES ASSUME NEW e \in Entries, e.state # "queued"
               PROVE  e \in Unresumed'
    BY <1>5 DEF SentAgain
  <2>1. PICK k \in 1..Len(pending) : e = pending[k]
    BY <1>1, QueueDomain DEF Entries, Elems
  <2>2. k >= 1
    BY <1>1, <2>1, QueueDomain, SMTT(60)
  <2>3. k \in InFlight'
    BY <1>1, <1>4, <2>1, QueueDomain DEF InFlight
  <2>4. QED
    BY <1>4, <2>1, <2>2, <2>3 DEF Unresumed
<1>8. UnseenLater'
  BY <1>5 DEF OrderInv, UnseenLater
<1>9. Room'
  <2>1. c \in Packet
    BY <1>2, PacketTypes DEF ControlTypes
  <2>2. Used' = 1
    BY <1>3, <1>4, <2>1 DEF RingCounts
  <2>3. QED
    BY <1>4, <2>2, DeliveryAssumption, SMTT(60) DEF Room
<1>10. QED
  BY <1>5, <1>6, <1>7, <1>8, <1>9 DEF OrderInv

\* What is acknowledged leaves the queue.
LEMMA CompletesOrder ==
    ASSUME Inv, OrderInv, NEW t, NEW st, Completes(t, st),
           \/ t = "puback" /\ st = "awaiting_puback"
           \/ t = "pubcomp" /\ st = "awaiting_pubcomp"
    PROVE  OrderInv'
<1>1. QueueInv
  BY InvParts DEF Inv
<1>2. PICK p : p = Head(toBroker)
  OBVIOUS
<1>3. /\ p.type = t /\ pc = "idle" /\ toBroker # <<>> /\ pc' = pc
      /\ toClient' = toClient /\ seen' = seen
  BY <1>2 DEF Completes, Arrived, loop, client
<1>4. PICK k \in 1..Len(pending) : Answers(pending[k], p)
  BY <1>2, <1>3, HeardFacts
<1>5. pending[k].id = Head(toBroker).id /\ pending[k].state = st
  BY <1>2, <1>3, <1>4 DEF Answers
<1>6. {st} \in SUBSET (OutStates \ {"queued"})
  BY DEF OutStates
<1>7. Found({st}) # {} /\ First(Found({st})) = k
  BY <1>1, <1>5, <1>6, FoundIs
<1>8. pending' = Without(k)
  BY <1>7 DEF Completes
<1>9. Entries' \subseteq Entries
  BY <1>1, <1>8, RemoveEntry
<1>10. Unresumed = {} /\ Room'
  BY <1>3, UnresumedFacts DEF Room
<1>11. QED
  BY <1>3, <1>9, <1>10, SameOrder DEF OrderInv

\* PUBREC is for a message the client has seen.
LEMMA PubrecOrder ==
    ASSUME Inv, Inv', OrderInv, HandlePubrec
    PROVE  OrderInv'
<1> DEFINE S == {"awaiting_pubrec", "awaiting_pubcomp"}
<1>1. QueueInv /\ RestOK /\ EntriesDiffer
  BY InvParts, EntryFacts DEF Inv
<1>2. PICK p : p = Head(toBroker)
  OBVIOUS
<1>3. p.type = "pubrec" /\ pc = "idle" /\ toBroker # <<>> /\ pc' = pc /\ seen' = seen
  BY <1>2 DEF HandlePubrec, Arrived, loop, client
<1>4. PICK k \in 1..Len(pending) : pending[k] \in Entries /\ Answers(pending[k], p)
  BY <1>2, <1>3, HeardFacts
<1>5. PICK e : e = pending[k]
  OBVIOUS
<1>6. e.state = "awaiting_pubrec" /\ e.id = p.id /\ e \in Entries /\ e.id \in Ids /\ e \in OutMsg
  <2>1. e.state = "awaiting_pubrec" /\ e.id = p.id /\ e \in Entries
    BY <1>3, <1>4, <1>5 DEF Answers
  <2>2. QED
    BY <1>1, <2>1 DEF EntriesDiffer
<1>7. PICK r : r = [e EXCEPT !.state = "awaiting_pubcomp"]
  OBVIOUS
<1>8. r.msg = e.msg /\ r.state = "awaiting_pubcomp"
  BY <1>6, <1>7, StateFields
<1>9. Found(S) # {} /\ First(Found(S)) = k
  <2>1. S \in SUBSET (OutStates \ {"queued"})
    BY DEF OutStates
  <2>2. pending[k].id = Head(toBroker).id /\ pending[k].state \in S
    BY <1>2, <1>5, <1>6
  <2> HIDE DEF S
  <2>3. QED
    BY <1>1, <2>1, <2>2, FoundIs
<1>10. pending' = [pending EXCEPT ![k] = r]
  BY <1>5, <1>7, <1>9 DEF HandlePubrec
<1>11. Entries' = (Entries \ {e}) \cup {r}
  BY <1>1, <1>5, <1>10, ReplaceEntry
<1>12. SeenSet' = SeenSet /\ Unresumed = {} /\ Room'
  BY <1>3, UnresumedFacts DEF SeenSet, Room
<1>13. r.msg \in SeenSet
  BY <1>8, <1>11, <1>12 DEF Inv, FlowInv, EntriesOK, EntryOK
<1>14. PICK c : c = Control("pubrel", p.id)
  OBVIOUS
<1>15. c \in Packet /\ c.type # "publish"
  <2>1. c \in Packet
    BY <1>6, <1>14, PacketTypes DEF ControlTypes
  <2>2. QED
    BY <1>14, <2>1 DEF Control
<1>16. Send(c) \/ toClient' = toClient
  BY <1>2, <1>9, <1>14 DEF HandlePubrec
<1>17. Down \subseteq Down' /\ Sorted(toClient)'
  <2>1. Sorted(toClient)
    BY DEF OrderInv
  <2>2. CASE Send(c)
    <3>1. toClient \in Seq(Packet) /\ toClient' = Append(toClient, c) /\ Down' = Down \cup {c}
      BY <1>1, <1>15, <2>2, SendElems
    <3>2. Sorted(Append(toClient, c))
      BY <1>15, <2>1, <3>1, SortedAppend
    <3>3. QED
      BY <3>1, <3>2 DEF Sorted
  <2>3. CASE toClient' = toClient
    BY <2>1, <2>3 DEF Down, Sorted
  <2>4. QED
    BY <1>16, <2>2, <2>3
<1>18. InOrder' /\ SentAgain' /\ UnseenLater'
  BY <1>3, <1>6, <1>8, <1>11, <1>12, <1>13, <1>17, EntryOrder
<1>19. QED
  BY <1>12, <1>17, <1>18 DEF OrderInv

\* What the client's application has seen when a packet is read: nothing
\* new, or the message of a PUBLISH it had not seen.
LEMMA ClientSees ==
    ASSUME Inv, ClientReceives
    PROVE  \/ Head(toClient).type # "publish" /\ seen' = seen
           \/ /\ Head(toClient).type = "publish" /\ Head(toClient).msg \in SeenSet
              /\ seen' = seen
           \/ /\ Head(toClient).type = "publish" /\ Head(toClient).msg \notin SeenSet
              /\ seen' = Append(seen, Head(toClient).msg)
<1>1. PICK p : p = Head(toClient)
  OBVIOUS
<1>2. p \in Down
  BY <1>1, ReadFacts
<1>3. ASSUME Deliver(p.msg)
      PROVE  \/ p.msg \in SeenSet /\ seen' = seen
             \/ p.msg \notin SeenSet /\ seen' = Append(seen, p.msg)
  BY <1>3 DEF Deliver, SeenSet
<1>4. CASE p.type # "publish"
  BY <1>1, <1>4 DEF ClientReceives, client
<1>5. CASE p.type = "publish" /\ p.id \notin received
  BY <1>1, <1>3, <1>5 DEF ClientReceives
<1>6. CASE p.type = "publish" /\ p.id \in received
  <2>1. PICK e \in Entries : Expects(e, p)
    BY <1>2, <1>6, UnderWay DEF Inv
  <2>2. EntryOK(e)
    BY DEF Inv, FlowInv, EntriesOK
  <2>3. CASE p.qos = 1
    <3>1. p.qos # 2
      BY <2>3, SMTT(60)
    <3>2. QED
      BY <1>1, <1>3, <1>6, <2>3, <3>1 DEF ClientReceives
  <2>4. CASE p.qos = 2
    <3>1. p.qos # 1
      BY <2>4, SMTT(60)
    <3>2. p.msg \in SeenSet
      BY <1>6, <2>1, <2>2, <2>4, <3>1 DEF Expects, EntryOK
    <3>3. seen' = seen
      BY <1>1, <1>6, <2>4, <3>1 DEF ClientReceives
    <3>4. QED
      BY <1>1, <1>6, <3>2, <3>3
  <2>5. QED
    BY <1>1, <1>6, <2>3, <2>4 DEF ClientReceives
<1>7. QED
  BY <1>4, <1>5, <1>6

\* A message seen for the first time comes after those seen before.
LEMMA SeenInOrder ==
    ASSUME RestOK, InOrder, NEW m \in Messages, \A x \in SeenSet : x < m,
           seen' = Append(seen, m)
    PROVE  InOrder' /\ SeenSet' = SeenSet \cup {m}
<1> DEFINE n == Len(seen)
           t == Append(seen, m)
<1>1. seen \in Seq(Messages)
  BY DEF RestOK
<1>2. n \in Nat /\ DOMAIN seen = 1..n
  BY <1>1, LenProperties
<1>3. /\ DOMAIN t = 1..(n + 1)
      /\ \A k \in 1..n : t[k] = seen[k]
      /\ t[n + 1] = m
  BY <1>1, AppendProperties, LenProperties, SMTT(60)
<1>4. /\ \A k \in 1..(n + 1) : k \in 1..n \/ k = n + 1
      /\ \A k \in 1..n : k \in 1..(n + 1)
      /\ n + 1 \in 1..(n + 1)
      /\ \A j, k \in 1..(n + 1) : j < k => j \in 1..n
  BY <1>2, SMTT(60)
<1>5. seen' = t
  OBVIOUS
<1> HIDE DEF t, n
<1>6. SeenSet' = SeenSet \cup {m}
  BY <1>2, <1>3, <1>4, <1>5 DEF SeenSet
<1>7. InOrder'
  <2> SUFFICES ASSUME NEW j \in 1..(n + 1), NEW k \in 1..(n + 1), j < k
               PROVE  t[j] < t[k]
    BY <1>3, <1>5 DEF InOrder
  <2>1. j \in 1..n /\ t[j] = seen[j] /\ seen[j] \in SeenSet
    BY <1>2, <1>3, <1>4 DEF SeenSet
  <2>2. CASE k = n + 1
    BY <1>3, <2>1, <2>2
  <2>3. CASE k \in 1..n
    BY <1>2, <1>3, <2>1, <2>3 DEF InOrder
  <2>4. QED
    BY <1>4, <2>2, <2>3
<1>8. QED
  BY <1>6, <1>7

\* The client reads.
LEMMA ClientOrder ==
    ASSUME RingCounts, Inv, OrderInv, ClientReceives
    PROVE  OrderInv'
<1>1. QueueInv /\ RestOK /\ EntriesDiffer /\ FlowInv
  BY InvParts, EntryFacts DEF Inv
<1>2. PICK p : p = Head(toClient)
  OBVIOUS
<1>3. /\ p \in Down /\ p \in Packet /\ Down' = Down \ {p}
      /\ Entries' = Entries /\ Unresumed' = Unresumed
  BY <1>2, ReadFacts
<1>4. toClient \in Seq(Packet) /\ toClient # <<>> /\ toClient' = Tail(toClient)
      /\ UNCHANGED <<pc, i>>
  BY <1>1 DEF RestOK, ClientReceives, loop
<1>5. /\ Sorted(Tail(toClient))
      /\ \A q \in Elems(Tail(toClient)) :
            p.type = "publish" /\ q.type = "publish" => p.msg < q.msg
  BY <1>2, <1>4, SortedTail DEF OrderInv
<1>6. /\ Sorted(toClient)'
      /\ \A q \in Down' : p.type = "publish" /\ q.type = "publish" => p.msg < q.msg
  BY <1>4, <1>5 DEF Sorted, Down
<1>7. Room'
  <2>1. Used' <= Used /\ Used \in Nat /\ Used' \in Nat
    BY <1>4 DEF RingCounts
  <2>2. ASSUME pc = "resume"
        PROVE  Used' <= 1 + (i - 1) * PublishSize
    <3>1. i - 1 \in Nat /\ PublishSize \in Nat
      BY <1>1, DeliveryAssumption, SMTT(60) DEF RestOK
    <3>2. (i - 1) * PublishSize \in Nat
      BY <3>1, Products
    <3>4. Used <= 1 + (i - 1) * PublishSize
      BY <2>2 DEF OrderInv, Room
    <3>5. QED
      BY <2>1, <3>2, <3>4, SMTT(60)
  <2>3. QED
    BY <1>4, <2>2 DEF Room
<1>8. CASE seen' = seen
  <2>1. SeenSet' = SeenSet
    BY <1>8 DEF SeenSet
  <2>2. InOrder' /\ UnseenLater'
    BY <1>3, <1>8, <2>1 DEF OrderInv, InOrder, UnseenLater
  <2>3. p.type # "publish" \/ p.msg \in SeenSet
    <3>1. CASE p.type = "publish" /\ p.msg \notin SeenSet
      <4>1. seen' = Append(seen, p.msg)
        BY <1>2, <3>1, ClientSees
      <4>2. Len(seen') = Len(seen) + 1 /\ Len(seen) \in Nat
        <5>1. p.msg \in Messages /\ seen \in Seq(Messages)
          BY <1>1, <1>3, <3>1 DEF RestOK, Packet, ControlTypes
        <5>2. QED
          BY <4>1, <5>1, AppendProperties, LenProperties
      <4>3. QED
        BY <1>8, <4>2, SMTT(60)
    <3>2. QED
      BY <3>1
  <2>4. SentAgain'
    BY <1>3, <2>1, <2>3 DEF OrderInv, SentAgain
  <2>5. QED
    BY <1>6, <1>7, <2>2, <2>4 DEF OrderInv
<1>9. CASE p.type = "publish" /\ p.msg \notin SeenSet /\ seen' = Append(seen, p.msg)
  <2>1. PICK e \in Entries : e.msg = p.msg /\ e.state # "queued" /\ e \notin Unresumed
    BY <1>1, <1>3, <1>9, UnderWay
  <2>2. p.msg \in Messages
    BY <1>1, <2>1 DEF EntriesDiffer, OutMsg
  <2>3. \A x \in SeenSet : x < p.msg
    BY <1>9, <2>1 DEF OrderInv, UnseenLater
  <2>4. InOrder' /\ SeenSet' = SeenSet \cup {p.msg}
    BY <1>1, <1>9, <2>2, <2>3, SeenInOrder DEF OrderInv
  <2>5. SentAgain'
    BY <1>3, <2>4 DEF OrderInv, SentAgain
  <2>6. UnseenLater'
    <3> SUFFICES ASSUME NEW f \in Entries, f.msg \notin SeenSet, f.msg # p.msg
                 PROVE  p.msg < f.msg
      BY <1>3, <2>4 DEF OrderInv, UnseenLater
    <3>1. CASE f.state = "queued" \/ f \in Unresumed
      BY <1>1, <2>1, <3>1, EntriesInOrder
    <3>2. CASE f.state # "queued" /\ f \notin Unresumed
      <4>1. PICK q \in Down : q.type = "publish" /\ q.msg = f.msg
        BY <3>2 DEF OrderInv, SentAgain
      <4>2. q \in Down'
        BY <1>3, <4>1
      <4>3. QED
        BY <1>6, <1>9, <4>1, <4>2
    <3>3. QED
      BY <3>1, <3>2
  <2>7. QED
    BY <1>6, <1>7, <2>4, <2>5, <2>6 DEF OrderInv
<1>10. QED
  BY <1>2, <1>8, <1>9, ClientSees

\* The initial state is in order,
LEMMA OrderInit == Init => OrderInv
<1> SUFFICES ASSUME Init PROVE OrderInv
  OBVIOUS
<1>1. Entries = {} /\ pc # "resume"
  BY SmallElems DEF Init, Entries
<1>2. InOrder /\ Sorted(toClient)
  BY SMTT(60) DEF Init, InOrder, Sorted
<1>3. QED
  BY <1>1, <1>2 DEF OrderInv, SentAgain, UnseenLater, Room

\* and every step keeps it so.
LEMMA OrderNext ==
    ASSUME RingHoldsQueue
    PROVE  Inv /\ IdFound /\ RingCounts /\ OrderInv /\ [Next]_vars => OrderInv'
<1> SUFFICES ASSUME Inv, IdFound, RingCounts, OrderInv, [Next]_vars PROVE OrderInv'
  OBVIOUS
<1>0. Inv' /\ DeliveryInv'
  BY FlowNext DEF Inv
<1>1. ASSUME NEW q \in QoSs, NEW oversize \in BOOLEAN, Enqueue(q, oversize)
      PROVE  OrderInv'
  BY <1>1, EnqueueOrder
<1>2. CASE Tick \/ ConnLost
  BY <1>2, ConnOrder
<1>3. CASE Reconnect
  BY <1>3, ReconnectOrder
<1>4. CASE Step
  BY <1>0, <1>4, LoopOrder
<1>5. CASE Acknowledge
  <2>1. CASE HandlePuback
    BY <2>1, CompletesOrder DEF HandlePuback
  <2>2. CASE HandlePubcomp
    BY <2>2, CompletesOrder DEF HandlePubcomp
  <2>3. CASE HandlePubrec
    BY <1>0, <2>3, PubrecOrder
  <2>4. QED
    BY <1>5, <2>1, <2>2, <2>3 DEF Acknowledge
<1>6. CASE ClientReceives
  BY <1>6, ClientOrder
<1>7. CASE UNCHANGED vars
  <2>1. UNCHANGED <<pending, pc, i, toClient, seen>>
    BY <1>7 DEF vars
  <2>2. Unresumed' = Unresumed /\ Entries' = Entries /\ Used' = Used
    BY <2>1 DEF Unresumed, InFlight, Entries, Used
  <2>3. Room'
    BY <2>1, <2>2 DEF OrderInv, Room
  <2>4. QED
    BY <2>1, <2>2, <2>3, SameOrder DEF OrderInv
<1>8. QED
  BY <1>1, <1>2, <1>3, <1>4, <1>5, <1>6, <1>7 DEF Next

----------------------------------------------------------------------------
(* Packet ids.                                                             *)

\* The theory of finite sets, about its own cardinality, which is that of the
\* specification.
FST == INSTANCE FiniteSetTheorems

LEMMA SameCardinality == \A S : FST!Cardinality(S) = Cardinality(S)
BY DEF FST!Cardinality, Cardinality

\* A set of naturals that is not empty has a least element.
LEMMA LeastNat ==
    ASSUME NEW T \in SUBSET Nat, T # {}
    PROVE  \E m \in T : \A n \in T : m <= n
<1>1. PICK m \in T : \A n \in T : <<n, m>> \notin FST!OpToRel(<, Nat)
  BY FST!NatLessThanWellFounded, FST!WFMin
<1>2. \A n \in T : ~(n < m)
  BY <1>1 DEF FST!OpToRel
<1>3. QED
  BY <1>2, SMTT(60)

\* There are more ids than entries, so that one is always left.
LEMMA UnusedExists ==
    ASSUME TypeOK
    PROVE  Unused # {}
<1> SUFFICES ASSUME Unused = {} PROVE FALSE
  OBVIOUS
<1>1. DOMAIN pending = 1..Len(pending) /\ Len(pending) \in Nat
  BY LenProperties DEF TypeOK
<1>2. \A id \in Ids : \E k \in 1..Len(pending) : pending[k].id = id
  BY <1>1 DEF Unused, InFlight
<1> DEFINE f == [id \in Ids |-> CHOOSE k \in 1..Len(pending) : pending[k].id = id]
<1>3. f \in [Ids -> 1..Len(pending)] /\ \A id \in Ids : pending[f[id]].id = id
  BY <1>2
<1>4. /\ FST!IsFiniteSet(Ids) /\ FST!Cardinality(Ids) = MaxId
      /\ FST!IsFiniteSet(1..Len(pending)) /\ FST!Cardinality(1..Len(pending)) = Len(pending)
  <2>1. \A n \in Nat : FST!IsFiniteSet(1..n) /\ FST!Cardinality(1..n) = n
    BY FST!FS_Interval, SMTT(60)
  <2>2. QED
    BY <1>1, <2>1, DeliveryAssumption DEF Ids
<1>5. FST!Cardinality(1..Len(pending)) < FST!Cardinality(Ids)
  BY <1>1, <1>4, DeliveryAssumption, SMTT(60) DEF TypeOK
<1> HIDE DEF f
<1>6. PICK x, y \in Ids : x # y /\ f[x] = f[y]
  BY <1>3, <1>4, <1>5, FST!FS_PigeonHole, SMTT(60)
<1>7. QED
  BY <1>3, <1>6

\* alloc_packet_id() returns a non-zero id that no entry in flight has.
LEMMA NextIdUnused ==
    ASSUME TypeOK
    PROVE  NextId \in Unused /\ NextId \in Ids
<1> DEFINE T == {Ahead(id) : id \in Unused}
<1>1. \A id \in Unused : Ahead(id) \in Nat
  BY DeliveryAssumption, SMTT(60) DEF Unused, Ids, Ahead, TypeOK
<1>2. T \in SUBSET Nat /\ T # {}
  BY <1>1, UnusedExists
<1> HIDE DEF T
<1>3. PICK m \in T : \A n \in T : m <= n
  BY <1>2, LeastNat
<1>4. \E id \in Unused : \A other \in Unused : Ahead(id) <= Ahead(other)
  BY <1>3 DEF T
<1>5. QED
  BY <1>4 DEF NextId, Unused

----------------------------------------------------------------------------
(* The ring.                                                               *)

Publishes(s) == {k \in DOMAIN s : s[k].type = "publish"}

\* Append() makes the ring fuller by what the packet takes,
LEMMA UsedAppend ==
    ASSUME NEW s \in Seq(Packet), NEW p \in Packet
    PROVE  /\ FST!IsFiniteSet(Publishes(s)) /\ FST!Cardinality(Publishes(s)) \in Nat
           /\ Len(Append(s, p)) = Len(s) + 1
           /\ FST!Cardinality(Publishes(Append(s, p))) =
                FST!Cardinality(Publishes(s)) + (IF p.type = "publish" THEN 1 ELSE 0)
<1> DEFINE n == Len(s)
           t == Append(s, p)
<1>1. n \in Nat /\ DOMAIN s = 1..n
  BY LenProperties
<1>2. /\ Len(t) = n + 1 /\ DOMAIN t = 1..(n + 1)
      /\ \A k \in 1..n : t[k] = s[k]
      /\ t[n + 1] = p
  BY AppendProperties, LenProperties, SMTT(60)
<1>3. FST!IsFiniteSet(Publishes(s)) /\ FST!Cardinality(Publishes(s)) \in Nat
  <2>1. FST!IsFiniteSet(1..n)
    BY <1>1, FST!FS_Interval, SMTT(60)
  <2>2. Publishes(s) \subseteq 1..n
    BY <1>1 DEF Publishes
  <2>3. QED
    BY <2>1, <2>2, FST!FS_Subset, FST!FS_CardinalityType
<1>4. n + 1 \notin Publishes(s)
  BY <1>1, SMTT(60) DEF Publishes
<1>5. /\ \A k \in 1..(n + 1) : k \in 1..n \/ k = n + 1
      /\ \A k \in 1..n : k \in 1..(n + 1)
      /\ n + 1 \in 1..(n + 1)
  BY <1>1, SMTT(60)
<1> HIDE DEF n, t
<1>6. CASE p.type = "publish"
  <2>1. Publishes(t) = Publishes(s) \cup {n + 1}
    BY <1>1, <1>2, <1>5, <1>6 DEF Publishes
  <2>2. FST!Cardinality(Publishes(t)) = FST!Cardinality(Publishes(s)) + 1
    BY <1>3, <1>4, <2>1, FST!FS_AddElement
  <2>3. QED
    BY <1>2, <1>3, <1>6, <2>2 DEF t, n
<1>7. CASE p.type # "publish"
  <2>1. Publishes(t) = Publishes(s)
    BY <1>1, <1>2, <1>5, <1>7 DEF Publishes
  <2>2. FST!Cardinality(Publishes(t)) = FST!Cardinality(Publishes(s)) + 0
    BY <1>3, <2>1, SMTT(60)
  <2>3. QED
    BY <1>2, <1>3, <1>7, <2>2 DEF t, n
<1>8. QED
  BY <1>6, <1>7

\* and Tail() no fuller.
LEMMA UsedTail ==
    ASSUME NEW s \in Seq(Packet), s # <<>>
    PROVE  /\ Len(Tail(s)) = Len(s) - 1
           /\ FST!Cardinality(Publishes(Tail(s))) \in Nat
           /\ FST!Cardinality(Publishes(Tail(s))) <= FST!Cardinality(Publishes(s))
<1> DEFINE n == Len(s) - 1
           t == Tail(s)
           T == Publishes(t)
           S == Publishes(s)
           f == [k \in T |-> k + 1]
<1>1. n \in Nat /\ DOMAIN s = 1..(n + 1)
  BY LenProperties, EmptySeq, SMTT(60)
<1>2. Len(t) = n /\ DOMAIN t = 1..n /\ \A k \in 1..n : t[k] = s[k + 1]
  BY <1>1, HeadTailProperties, LenProperties, SMTT(60)
<1>3. /\ FST!IsFiniteSet(T) /\ FST!Cardinality(T) \in Nat
      /\ FST!IsFiniteSet(S) /\ FST!Cardinality(S) \in Nat
  <2>1. \A a \in Nat : FST!IsFiniteSet(1..a)
    BY FST!FS_Interval, SMTT(60)
  <2>2. FST!IsFiniteSet(1..n) /\ FST!IsFiniteSet(1..(n + 1))
    BY <1>1, <2>1, SMTT(60)
  <2>3. T \subseteq 1..n /\ S \subseteq 1..(n + 1)
    BY <1>1, <1>2 DEF Publishes
  <2>4. QED
    BY <2>2, <2>3, FST!FS_Subset, FST!FS_CardinalityType
<1>4. f \in FST!Injection(T, S)
  <2>1. \A k \in T : k \in 1..n /\ t[k].type = "publish"
    BY <1>2 DEF Publishes
  <2>2. \A k \in 1..n : k + 1 \in 1..(n + 1)
    BY <1>1, SMTT(60)
  <2>3. \A k \in T : k + 1 \in S
    BY <1>1, <1>2, <2>1, <2>2 DEF Publishes
  <2>4. \A j, k \in T : j + 1 = k + 1 => j = k
    BY <1>1, <2>1, SMTT(60)
  <2> HIDE DEF T, S, n, t
  <2>5. QED
    BY <2>3, <2>4 DEF FST!Injection, FST!IsInjective
<1>5. FST!Cardinality(T) <= FST!Cardinality(S)
  <2> HIDE DEF T, S, f
  <2>1. QED
    BY <1>3, <1>4, FST!FS_Injection
<1>6. QED
  BY <1>2, <1>3, <1>5


\* What Send() and a read do to what the ring holds.
LEMMA UsedChanges ==
    ASSUME RestOK
    PROVE  /\ Used \in Nat
           /\ \A p \in Packet : Send(p) => Used' \in Nat /\ Used' <= Used + PublishSize
           /\ toClient # <<>> /\ toClient' = Tail(toClient) => Used' <= Used
<1> DEFINE c == FST!Cardinality(Publishes(toClient))
           d == FST!Cardinality(Publishes(toClient'))
           z == PublishSize - 1
<1>1. toClient \in Seq(Packet) /\ Len(toClient) \in Nat /\ z \in Nat /\ PublishSize = z + 1
  BY DeliveryAssumption, LenProperties, SMTT(60) DEF RestOK
<1>2. Used = Len(toClient) + c * z /\ Used' = Len(toClient') + d * z
  BY SameCardinality DEF Used, Publishes
<1>3. c \in Nat
  <2>1. FST!IsFiniteSet(1..Len(toClient))
    BY <1>1, FST!FS_Interval, SMTT(60)
  <2>2. Publishes(toClient) \subseteq 1..Len(toClient)
    BY <1>1, LenProperties DEF Publishes
  <2>3. QED
    BY <2>1, <2>2, FST!FS_Subset, FST!FS_CardinalityType
<1>4. \A p \in Packet : Send(p) => /\ Len(toClient') = Len(toClient) + 1
                                   /\ d = c \/ d = c + 1
  <2> SUFFICES ASSUME NEW p \in Packet, Send(p)
               PROVE  /\ Len(toClient') = Len(toClient) + 1
                      /\ d = c \/ d = c + 1
    OBVIOUS
  <2>1. toClient' = Append(toClient, p)
    BY DEF Send
  <2>2. /\ Len(toClient') = Len(toClient) + 1
        /\ d = c + (IF p.type = "publish" THEN 1 ELSE 0)
    BY <1>1, <2>1, UsedAppend
  <2> HIDE DEF d, c
  <2>3. QED
    BY <1>3, <2>2, SMTT(60)
<1>5. toClient # <<>> /\ toClient' = Tail(toClient) =>
        /\ Len(toClient') = Len(toClient) - 1 /\ d \in Nat /\ d <= c
  BY <1>1, UsedTail
<1> HIDE DEF c, d, z
<1>6. c * z \in Nat /\ (c + 1) * z = c * z + z
  BY <1>1, <1>3, Products
<1>7. Used \in Nat
  BY <1>1, <1>2, <1>6, SMTT(60)
<1>8. ASSUME NEW p \in Packet, Send(p)
      PROVE  Used' \in Nat /\ Used' <= Used + PublishSize
  <2>1. CASE d = c
    BY <1>1, <1>2, <1>4, <1>6, <1>8, <2>1, SMTT(60)
  <2>2. CASE d = c + 1
    BY <1>1, <1>2, <1>4, <1>6, <1>8, <2>2, SMTT(60)
  <2>3. QED
    BY <1>4, <1>8, <2>1, <2>2
<1>9. ASSUME toClient # <<>>, toClient' = Tail(toClient)
      PROVE  Used' <= Used
  <2>1. d * z <= c * z /\ d * z \in Nat
    BY <1>1, <1>3, <1>5, <1>9, Products
  <2>2. QED
    BY <1>1, <1>2, <1>5, <1>6, <1>9, <2>1, SMTT(60)
<1>10. QED
  BY <1>7, <1>8, <1>9

\* What the ring holds is a number.
LEMMA UsedNat == RestOK => Used \in Nat
BY UsedChanges

\* The types of the variables are part of the invariant.
LEMMA InvRest == Inv => RestOK
BY InvParts DEF Inv

\* What the order of the messages rests on.
LEMMA RingCounted == RestOK /\ RestOK' => RingCounts
<1> SUFFICES ASSUME RestOK, RestOK' PROVE RingCounts
  OBVIOUS
<1>1. /\ Used \in Nat
      /\ \A p \in Packet : Send(p) => Used' <= Used + PublishSize
      /\ toClient # <<>> /\ toClient' = Tail(toClient) => Used' <= Used
  BY UsedChanges
<1>2. (Used \in Nat)'
  BY UsedNat, PTL
<1>3. ASSUME NEW c \in Packet, toClient' = <<c>>, c.type # "publish"
      PROVE  Used' = 1
  <2>1. {k \in DOMAIN toClient' : toClient'[k].type = "publish"} = {} /\ Len(toClient') = 1
    BY <1>3, SMTT(60)
  <2>2. Used' = 1 + 0 * (PublishSize - 1)
    BY <2>1, SameCardinality, FST!FS_EmptySet DEF Used
  <2>3. QED
    BY <2>2, DeliveryAssumption, SMTT(60)
<1>4. QED
  BY <1>1, <1>2, <1>3 DEF RingCounts

----------------------------------------------------------------------------
(* The theorems.                                                           *)

\* Every step keeps the invariant of the queue,
LEMMA DeliveryNext == DeliveryInv /\ [Next]_vars => DeliveryInv'
BY InvNext, NextIdUnused DEF IdFound, DeliveryInv

\* that of the flows,
LEMMA FlowsNext == Inv /\ [Next]_vars => Inv'
BY FlowNext, NextIdUnused DEF IdFound, Inv, DeliveryInv

\* and the order.
LEMMA OrdersNext ==
    ASSUME RingHoldsQueue
    PROVE  Inv /\ OrderInv /\ [Next]_vars => OrderInv'
<1> SUFFICES ASSUME Inv, OrderInv, [Next]_vars PROVE OrderInv'
  OBVIOUS
<1>1. IdFound
  BY NextIdUnused DEF IdFound, Inv, DeliveryInv
<1>2. Inv'
  BY FlowsNext
<1>3. RestOK
  BY InvRest
<1>4. RestOK'
  BY <1>2, InvRest, PTL
<1>5. RingCounts
  BY <1>3, <1>4, RingCounted
<1>6. QED
  BY <1>1, <1>5, OrderNext

\* The state of a session's queue, for any sizes and any sequence of
\* publishes, acknowledgements, refusals and lost connections.
THEOREM DeliveryInvariant == Spec => []DeliveryInv
BY InvInit, DeliveryNext, PTL DEF Spec

\* Every variable keeps its type: the queue never exceeds its capacity and
\* no packet is sent with id 0.
THEOREM DeliveryTypes == Spec => []TypeOK
<1>1. DeliveryInv => TypeOK
  BY DEF DeliveryInv
<1>2. QED
  BY <1>1, DeliveryInvariant, PTL

\* alloc_packet_id() never gives two messages in flight the same id.
THEOREM IdsDistinctAlways == Spec => []IdsDistinct
<1>1. DeliveryInv => IdsDistinct
  BY DEF DeliveryInv
<1>2. QED
  BY <1>1, DeliveryInvariant, PTL

\* The queue stays in the order of publication, with what has not been sent
\* behind what has.
THEOREM QueuedLastAlways == Spec => []QueuedLast
<1>1. DeliveryInv => QueuedLast
  BY DEF DeliveryInv
<1>2. QED
  BY <1>1, DeliveryInvariant, PTL

\* The entry, the packet under way and what the client remembers agree for
\* every flow, whatever is lost, refused or acknowledged late.
THEOREM FlowInvariant == Spec => []Inv
BY FlowInit, FlowsNext, PTL DEF Spec

\* Every message the queue accepted is still in it or has reached the client.
THEOREM NoneLostAlways == Spec => []NoneLost
<1>1. Inv => NoneLost
  BY DEF Inv, FlowInv, Kept, NoneLost, Entries, Elems
<1>2. QED
  BY <1>1, FlowInvariant, PTL

\* The client's application gets a QoS 2 message at most once, although
\* alloc_packet_id() uses ids again and every reconnect sends again.
THEOREM ExactlyOnceAlways == Spec => []ExactlyOnce
<1>1. Inv => ExactlyOnce
  BY DEF Inv, FlowInv
<1>2. QED
  BY <1>1, FlowInvariant, PTL

\* A PUBLISH carries DUP if and only if its message has been on the wire
\* before, on this connection or an earlier one.
THEOREM DupIfSentBeforeAlways == Spec => DupIfSentBefore
<1> DEFINE Grows == Len(toClient') > Len(toClient) => TellsDup(toClient'[Len(toClient')])
<1>1. ASSUME Inv, [Next]_vars PROVE [Grows]_vars
  <2>1. IdFound
    BY <1>1, NextIdUnused DEF IdFound, Inv, DeliveryInv
  <2>2. QED
    BY <1>1, <2>1, DupStep
<1>2. QED
  BY <1>1, FlowInvariant, PTL DEF Spec, DupIfSentBefore, TellsDup

\* Through a ring that holds CONNACK and the whole queue, the client's
\* application sees the messages in the order they were published, however
\* often connections are lost and everything is sent again.
THEOREM InOrderAlways ==
    ASSUME RingHoldsQueue
    PROVE  Spec => []InOrder
<1>1. Init => Inv /\ OrderInv
  BY FlowInit, OrderInit
<1>2. Inv /\ OrderInv /\ [Next]_vars => Inv' /\ OrderInv'
  BY FlowsNext, OrdersNext
<1>3. OrderInv => InOrder
  BY DEF OrderInv
<1>4. QED
  BY <1>1, <1>2, <1>3, PTL DEF Spec

============================================================================
