--------------------------- MODULE EndToEndProofs ---------------------------
(***************************************************************************)
(* Proofs about InboundQos2 and EndToEnd, for every size of the inbound    *)
(* table, of the publisher's window, of the subscriber's queue, ring and   *)
(* id space, any ids, and any number of messages and lost connections.     *)
(*                                                                         *)
(* Sequences in which nothing occurs twice are reasoned about as the sets  *)
(* of what is in them; the first lemmas say what the operations on the     *)
(* one are on the other.  The subscriber's half of EndToEnd is Delivery,   *)
(* whose invariant is taken from DeliveryProofs.                           *)
(***************************************************************************)
EXTENDS EndToEnd, FiniteSetTheorems, SequenceTheorems, TLAPS

Elems(s) == {s[k] : k \in DOMAIN s}
OneToOne(s) == \A j, k \in DOMAIN s : s[j] = s[k] => j = k

\* A leaf that names no prover is first-order reasoning, given to Zenon; the
\* others name the SMT solver.
USE ZenonT(60)

----------------------------------------------------------------------------
(* Sequences.                                                              *)

\* A sequence is a function on the numbers up to its length.
LEMMA SeqFacts ==
    ASSUME NEW Any, NEW s \in Seq(Any)
    PROVE  /\ Len(s) \in Nat /\ DOMAIN s = 1..Len(s)
           /\ Elems(s) \subseteq Any
  BY LenProperties, ElementOfSeq, SMTT(60) DEF Elems

\* A function on the numbers up to n is a sequence of that length.
LEMMA FunctionSeq ==
    ASSUME NEW Any, NEW n \in Nat, NEW f \in [1..n -> Any]
    PROVE  f \in Seq(Any) /\ Len(f) = n
<1>1. f \in Seq(Any)
  BY SeqDef
<1>2. Len(f) \in Nat /\ DOMAIN f = 1..Len(f) /\ DOMAIN f = 1..n
  BY <1>1, LenProperties
<1>3. \A a, b \in Nat : 1..a = 1..b => a = b
  BY SMTT(60)
<1>4. QED
  BY <1>1, <1>2, <1>3

\* Nothing is in the empty sequence.
LEMMA EmptyOnce ==
    ASSUME NEW Any
    PROVE  <<>> \in Seq(Any) /\ Len(<<>>) = 0 /\ Elems(<<>>) = {} /\ OneToOne(<<>>)
  BY SMTT(60) DEF Elems, OneToOne

\* Append() adds its element to what is in the sequence.
LEMMA AppendOnce ==
    ASSUME NEW Any, NEW s \in Seq(Any), NEW e \in Any, OneToOne(s), e \notin Elems(s)
    PROVE  /\ Append(s, e) \in Seq(Any) /\ Len(Append(s, e)) = Len(s) + 1
           /\ Elems(Append(s, e)) = Elems(s) \cup {e}
           /\ OneToOne(Append(s, e))
<1> DEFINE t == Append(s, e)
           n == Len(s)
<1>1. n \in Nat /\ DOMAIN s = 1..n
  BY SeqFacts
<1>2. /\ t \in Seq(Any) /\ Len(t) = n + 1
      /\ \A k \in 1..n : t[k] = s[k]
      /\ t[n + 1] = e
  BY AppendProperties, SMTT(60)
<1>3. DOMAIN t = 1..(n + 1)
  BY <1>2, LenProperties
<1>4. /\ \A k \in 1..(n + 1) : k \in 1..n \/ k = n + 1
      /\ \A k \in 1..n : k \in 1..(n + 1)
      /\ n + 1 \in 1..(n + 1)
  BY <1>1, SMTT(60)
<1> HIDE DEF t, n
<1>5. Elems(t) = Elems(s) \cup {e}
  BY <1>1, <1>2, <1>3, <1>4 DEF Elems
<1>6. OneToOne(t)
  BY <1>1, <1>2, <1>3, <1>4 DEF Elems, OneToOne
<1>7. QED
  BY <1>2, <1>5, <1>6 DEF t, n

\* Without() takes one element out of what is in the sequence.
LEMMA WithoutOnce ==
    ASSUME NEW Any, NEW s \in Seq(Any), NEW k \in DOMAIN s, OneToOne(s)
    PROVE  /\ Without(s, k) \in Seq(Any) /\ Len(Without(s, k)) = Len(s) - 1
           /\ Elems(Without(s, k)) = Elems(s) \ {s[k]}
           /\ OneToOne(Without(s, k))
<1> DEFINE t == Without(s, k)
           n == Len(s)
           Old(j) == IF j < k THEN j ELSE j + 1
<1>1. n \in Nat /\ DOMAIN s = 1..n /\ k \in 1..n /\ n - 1 \in Nat
  BY SeqFacts, SMTT(60)
<1>2. /\ \A j \in 1..(n - 1) : Old(j) \in 1..n /\ Old(j) # k
      /\ \A u, j \in 1..(n - 1) : Old(u) = Old(j) => u = j
      /\ \A u \in 1..n : u = k \/ \E j \in 1..(n - 1) : u = Old(j)
  <2>1. \A u \in 1..n : \/ u = k
                        \/ u \in 1..(n - 1) /\ u = Old(u)
                        \/ u - 1 \in 1..(n - 1) /\ u = Old(u - 1)
    BY <1>1, SMTT(60)
  <2>2. QED
    BY <1>1, <2>1, SMTT(60)
<1>3. \A j \in 1..(n - 1) : t[j] = s[Old(j)]
  BY DEF Without
<1>4. t \in [1..(n - 1) -> Any]
  <2>1. \A j \in 1..n : s[j] \in Any
    BY <1>1, ElementOfSeq
  <2>2. \A j \in 1..(n - 1) : (IF j < k THEN s[j] ELSE s[j + 1]) \in Any
    BY <1>1, <2>1, SMTT(60)
  <2>3. QED
    BY <2>2 DEF Without
<1>5. t \in Seq(Any) /\ Len(t) = n - 1 /\ DOMAIN t = 1..(n - 1)
  BY <1>1, <1>4, FunctionSeq
<1>6. \A u, j \in 1..n : s[u] = s[j] => u = j
  BY <1>1 DEF OneToOne
<1> HIDE DEF t, n, Old
<1>7. ASSUME NEW e \in Elems(t) PROVE e \in Elems(s) \ {s[k]}
  <2>1. PICK j \in 1..(n - 1) : e = t[j]
    BY <1>5 DEF Elems
  <2>2. Old(j) \in 1..n /\ e = s[Old(j)] /\ e # s[k]
    BY <1>1, <1>2, <1>3, <1>6, <2>1
  <2>3. QED
    BY <1>1, <2>2 DEF Elems
<1>8. ASSUME NEW e \in Elems(s) \ {s[k]} PROVE e \in Elems(t)
  <2>1. PICK u \in 1..n : e = s[u]
    BY <1>1 DEF Elems
  <2>2. PICK j \in 1..(n - 1) : u = Old(j)
    BY <1>2, <2>1
  <2>3. QED
    BY <1>3, <1>5, <2>1, <2>2 DEF Elems
<1>9. OneToOne(t)
  <2>1. ASSUME NEW u \in 1..(n - 1), NEW j \in 1..(n - 1), t[u] = t[j]
        PROVE  u = j
    <3>1. Old(u) \in 1..n /\ Old(j) \in 1..n /\ s[Old(u)] = s[Old(j)]
      BY <1>2, <1>3, <2>1
    <3>2. Old(u) = Old(j)
      BY <1>6, <3>1
    <3>3. QED
      BY <1>2, <3>2
  <2>2. QED
    BY <1>5, <2>1 DEF OneToOne
<1>10. QED
  <2>1. Elems(t) = Elems(s) \ {s[k]}
    BY <1>7, <1>8
  <2>2. QED
    BY <1>5, <1>9, <2>1 DEF t, n

\* Tail() takes the head out of what is in the sequence.
LEMMA TailOnce ==
    ASSUME NEW Any, NEW s \in Seq(Any), s # <<>>, OneToOne(s)
    PROVE  /\ Tail(s) \in Seq(Any) /\ Len(Tail(s)) = Len(s) - 1
           /\ Head(s) \in Elems(s)
           /\ Elems(Tail(s)) = Elems(s) \ {Head(s)}
           /\ OneToOne(Tail(s))
<1>1. Len(s) \in Nat /\ DOMAIN s = 1..Len(s) /\ Len(s) # 0
  BY SeqFacts, EmptySeq
<1>2. 1 \in DOMAIN s
  BY <1>1, SMTT(60)
<1>3. /\ Tail(s) \in Seq(Any) /\ Len(Tail(s)) = Len(s) - 1
      /\ \A j \in 1..(Len(s) - 1) : Tail(s)[j] = s[j + 1]
      /\ Head(s) = s[1]
  BY <1>1, HeadTailProperties, SMTT(60)
<1>4. DOMAIN Tail(s) = 1..(Len(s) - 1)
  BY <1>3, LenProperties
<1>5. Tail(s) = Without(s, 1)
  <2>1. \A j \in 1..(Len(s) - 1) : Without(s, 1)[j] = s[j + 1]
    BY <1>1, SMTT(60) DEF Without
  <2>2. DOMAIN Without(s, 1) = 1..(Len(s) - 1)
    BY DEF Without
  <2>3. Without(s, 1) \in Seq(Any) /\ Len(Without(s, 1)) = Len(s) - 1
    BY <1>2, WithoutOnce
  <2>4. QED
    BY <1>3, <2>1, <2>3, SeqEqual
<1>6. QED
  <2>1. s[1] \in Elems(s)
    BY <1>2 DEF Elems
  <2>2. Elems(Without(s, 1)) = Elems(s) \ {s[1]} /\ OneToOne(Without(s, 1))
    BY <1>2, WithoutOnce
  <2>3. QED
    BY <1>3, <1>5, <2>1, <2>2

\* A table of open ids, each in it once, that lacks one of them is shorter than
\* the list of flows.
LEMMA ShorterByOne ==
    ASSUME NEW Any, NEW T, NEW s \in Seq(Any), NEW t \in Seq(T), OneToOne(s),
           \A e \in Elems(s) : \E f \in Elems(t) : f.id = e,
           NEW x, x \notin Elems(s), \E f \in Elems(t) : f.id = x
    PROVE  Len(s) < Len(t)
<1> DEFINE n == Len(s)
           m == Len(t)
           In(k) == IF k \in 1..n THEN s[k] ELSE x
           g == [k \in 1..(n + 1) |-> CHOOSE l \in 1..m : t[l].id = In(k)]
<1>1. n \in Nat /\ DOMAIN s = 1..n /\ m \in Nat /\ DOMAIN t = 1..m
  BY SeqFacts
<1>2. /\ \A k \in 1..(n + 1) : k \in 1..n \/ k = n + 1
      /\ n + 1 \notin 1..n
  BY <1>1, SMTT(60)
<1> HIDE DEF n, m, g
<1>3. \A k \in 1..(n + 1) : \E l \in 1..m : t[l].id = In(k)
  <2>1. (\E l \in 1..m : t[l].id = x) /\ \A k \in 1..n : \E l \in 1..m : t[l].id = s[k]
    <3>1. \A k \in 1..n : s[k] \in Elems(s)
      BY <1>1 DEF Elems
    <3>2. \A g1 \in Elems(t) : \E l \in 1..m : g1 = t[l]
      BY <1>1 DEF Elems
    <3>3. ASSUME NEW e, \E h \in Elems(t) : h.id = e
          PROVE  \E l \in 1..m : t[l].id = e
      <4>1. PICK h \in Elems(t) : h.id = e
        BY <3>3
      <4>2. PICK l \in 1..m : h = t[l]
        BY <3>2
      <4>3. QED
        BY <4>1, <4>2
    <3>4. QED
      BY <3>1, <3>3
  <2>2. QED
    BY <2>1
<1>4. g \in [1..(n + 1) -> 1..m] /\ \A k \in 1..(n + 1) : t[g[k]].id = In(k)
  BY <1>3 DEF g
<1>5. \A j, k \in 1..(n + 1) : In(j) = In(k) => j = k
  <2>1. \A k \in 1..n : s[k] # x
    BY <1>1 DEF Elems
  <2>2. \A j, k \in 1..n : s[j] = s[k] => j = k
    BY <1>1 DEF OneToOne
  <2>3. QED
    BY <1>2, <2>1, <2>2, SMTT(60)
<1> HIDE DEF In
<1>6. \A j, k \in 1..(n + 1) : g[j] = g[k] => j = k
  BY <1>4, <1>5, SMTT(60)
<1>7. /\ IsFiniteSet(1..m) /\ Cardinality(1..m) = m
      /\ IsFiniteSet(1..(n + 1)) /\ Cardinality(1..(n + 1)) = n + 1
  <2>1. \A l \in Nat : IsFiniteSet(1..l) /\ Cardinality(1..l) = l
    BY FS_Interval, SMTT(60)
  <2>2. n + 1 \in Nat
    BY <1>1, SMTT(60)
  <2>3. QED
    BY <1>1, <2>1, <2>2
<1>8. ~(Cardinality(1..m) < Cardinality(1..(n + 1)))
  <2>1. SUFFICES ASSUME Cardinality(1..m) < Cardinality(1..(n + 1)) PROVE FALSE
    OBVIOUS
  <2> DEFINE A == 1..(n + 1)
             B == 1..m
  <2>2. IsFiniteSet(A) /\ IsFiniteSet(B) /\ Cardinality(B) < Cardinality(A) /\ g \in [A -> B]
    BY <1>4, <1>7, <2>1
  <2>3. \A j, k \in A : g[j] = g[k] => j = k
    BY <1>6
  <2> HIDE DEF A, B
  <2>4. \E j, k \in A : j # k /\ g[j] = g[k]
    BY <2>2, FS_PigeonHole, SMTT(60)
  <2>5. QED
    BY <2>3, <2>4
<1>9. QED
  BY <1>1, <1>7, <1>8, SMTT(60) DEF n, m

----------------------------------------------------------------------------
(* The invariant.                                                          *)

\* Nothing is in a queue, in the table or among the open flows twice.
Sequenced ==
    OneToOne(inbound) /\ OneToOne(toBroker) /\ OneToOne(toClient) /\ OneToOne(flights)

\* No two open flows share an id or a message.
FlowsApart ==
    \A f, g \in Elems(flights) : f.id = g.id \/ f.msg = g.msg => f = g

\* A flow has at most one packet under way, in either direction.
OneUnderWay ==
    /\ \A p, q \in Elems(toBroker) : p.id = q.id => p = q
    /\ \A p, q \in Elems(toClient) : p.id = q.id => p = q
    /\ \A p \in Elems(toBroker), q \in Elems(toClient) : p.id # q.id

\* Where flow f is when p is on its way to the broker.
Upward(p, f) ==
    /\ f.id = p.id
    /\ \/ p.type = "publish" /\ ~f.released /\ f.msg = p.msg
       \/ p.type = "pubrel" /\ f.released

\* Where flow f is when p is on its way to the client.
Downward(p, f) ==
    /\ f.id = p.id /\ routed[f.msg] >= 1
    /\ \/ p.type = "pubrec"
       \/ p.type = "pubcomp" /\ p.id \notin Elems(inbound)

\* Every packet under way and every id in the table is of an open flow.
OfOpenFlows ==
    /\ \A p \in Elems(toBroker) : \E f \in Elems(flights) : Upward(p, f)
    /\ \A p \in Elems(toClient) : \E f \in Elems(flights) : Downward(p, f)
    /\ \A id \in Elems(inbound) : \E f \in Elems(flights) : f.id = id /\ routed[f.msg] >= 1

\* What the open flows say of how often their messages were routed.
FlowsRouted ==
    \A f \in Elems(flights) :
        /\ f.msg <= published
        /\ f.released => routed[f.msg] >= 1
        /\ ~f.released /\ routed[f.msg] >= 1 => f.id \in Elems(inbound) \/ f.msg \in forgotten

Unpublished == \A m \in Messages : m > published => routed[m] = 0

Inv ==
    /\ TypeOK /\ Sequenced /\ FlowsApart /\ OneUnderWay /\ OfOpenFlows
    /\ FlowsRouted /\ Unpublished /\ RoutedOnce

\* has_inbound_qos2() and the client's ids, as sets.
LEMMA AsSets ==
    /\ OpenIds = {f.id : f \in Elems(flights)}
    /\ \A id : Tracked(id) <=> id \in Elems(inbound)
  BY DEF OpenIds, Tracked, Elems

\* The invariant implies what the runs check of the table.
LEMMA InvTracked ==
    ASSUME Inv
    PROVE  TrackedOpen
  BY AsSets DEF Inv, TrackedOpen, Sequenced, OneToOne, OfOpenFlows, Elems

\* It holds at the start.
LEMMA InitInv ==
    ASSUME Init
    PROVE  Inv
<1>1. Elems(<<>>) = {} /\ OneToOne(<<>>)
  BY EmptyOnce
<1>2. TypeOK
  BY InboundAssumption, SMTT(60) DEF Init, TypeOK, Messages
<1>3. QED
  BY <1>1, <1>2, SMTT(60) DEF Init, Inv, Sequenced, FlowsApart, OneUnderWay, OfOpenFlows,
     FlowsRouted, Unpublished, RoutedOnce, Messages

----------------------------------------------------------------------------
(* The steps of the broker.                                                *)

\* A lost connection leaves nothing under way.
LEMMA ConnLostInv ==
    ASSUME Inv, ConnLost
    PROVE  Inv'
<1>1. Elems(<<>>) = {} /\ OneToOne(<<>>)
  BY EmptyOnce
<1>2. TypeOK'
  <2>1. losses' \in 0..MaxLosses
    BY InboundAssumption, SMTT(60) DEF Inv, ConnLost, TypeOK
  <2>2. toBroker' \in Seq(Packet) /\ toClient' \in Seq(Packet)
    BY EmptyOnce DEF ConnLost
  <2>3. QED
    BY <2>1, <2>2 DEF Inv, ConnLost, TypeOK, sizes
<1>3. Sequenced' /\ FlowsApart' /\ OneUnderWay'
  BY <1>1 DEF Inv, ConnLost, Sequenced, FlowsApart, OneUnderWay
<1>4. OfOpenFlows'
  BY <1>1 DEF Inv, ConnLost, OfOpenFlows
<1>5. FlowsRouted' /\ Unpublished' /\ RoutedOnce'
  BY DEF Inv, ConnLost, FlowsRouted, Unpublished, RoutedOnce, sizes
<1>6. QED
  BY <1>2, <1>3, <1>4, <1>5 DEF Inv

\* An answer takes the place of the packet it is to, or both are lost.
LEMMA AnswersQueues ==
    ASSUME TypeOK, Sequenced, OneUnderWay, toBroker # <<>>,
           NEW t \in {"pubrec", "pubcomp"},
           Answers(Pkt(t, Head(toBroker).id))
    PROVE  /\ toBroker' \in Seq(Packet) /\ toClient' \in Seq(Packet)
           /\ online' \in BOOLEAN /\ losses' \in 0..MaxLosses
           /\ OneToOne(toBroker') /\ OneToOne(toClient')
           /\ Elems(toBroker') \subseteq Elems(toBroker) \ {Head(toBroker)}
           /\ Elems(toClient') \subseteq Elems(toClient) \cup {Pkt(t, Head(toBroker).id)}
           /\ OneUnderWay'
<1> DEFINE h == Head(toBroker)
           p == Pkt(t, h.id)
<1>1. /\ toBroker \in Seq(Packet) /\ toClient \in Seq(Packet)
      /\ OneToOne(toBroker) /\ OneToOne(toClient)
  BY DEF TypeOK, Sequenced
<1>2. /\ Tail(toBroker) \in Seq(Packet) /\ h \in Elems(toBroker)
      /\ Elems(Tail(toBroker)) = Elems(toBroker) \ {h}
      /\ OneToOne(Tail(toBroker))
  BY <1>1, TailOnce
<1>3. h \in Packet
  BY <1>1, <1>2, SeqFacts
<1>4. p \in Packet /\ p.id = h.id
  BY <1>3 DEF Pkt, Packet
<1> HIDE DEF h, p
<1>5. p \notin Elems(toClient)
  BY <1>2, <1>4 DEF OneUnderWay
<1>6. /\ Append(toClient, p) \in Seq(Packet)
      /\ Elems(Append(toClient, p)) = Elems(toClient) \cup {p}
      /\ OneToOne(Append(toClient, p))
  BY <1>1, <1>4, <1>5, AppendOnce
<1>7. Elems(<<>>) = {} /\ OneToOne(<<>>) /\ <<>> \in Seq(Packet)
  BY EmptyOnce
<1>8. CASE /\ toClient' = Append(toClient, p) /\ toBroker' = Tail(toBroker)
           /\ UNCHANGED <<online, losses>>
  <2>1. OneUnderWay'
    <3>1. Elems(toBroker') = Elems(toBroker) \ {h} /\ Elems(toClient') = Elems(toClient) \cup {p}
      BY <1>2, <1>6, <1>8
    <3>2. \A q \in Elems(toClient) : q.id # p.id
      BY <1>2, <1>4 DEF OneUnderWay
    <3>3. \A q \in Elems(toBroker) : q # h => q.id # p.id
      BY <1>2, <1>4 DEF OneUnderWay
    <3>4. QED
      BY <3>1, <3>2, <3>3, SMTT(60) DEF OneUnderWay
  <2>2. QED
    BY <1>2, <1>6, <1>8, <2>1 DEF TypeOK, h, p
<1>9. CASE /\ losses < MaxLosses /\ losses' = losses + 1 /\ online' = FALSE
           /\ toBroker' = <<>> /\ UNCHANGED toClient
  <2>1. OneUnderWay'
    BY <1>7, <1>9 DEF OneUnderWay
  <2>2. losses' \in 0..MaxLosses
    BY <1>9, InboundAssumption, SMTT(60) DEF TypeOK
  <2>3. QED
    BY <1>1, <1>7, <1>9, <2>1, <2>2
<1>10. QED
  BY <1>8, <1>9 DEF Answers, h, p

\* handle_pubrel() takes the id out of the table.
LEMMA HandlePubrelInv ==
    ASSUME Inv, HandlePubrel
    PROVE  Inv'
<1> DEFINE id == Head(toBroker).id
<1>1. /\ toBroker # <<>> /\ Head(toBroker).type = "pubrel"
      /\ inbound' = Untracked(id) /\ Answers(Pkt("pubcomp", id))
      /\ UNCHANGED <<capacity, window, flights, published, routed, completed, forgotten>>
  BY DEF HandlePubrel, Arrived, sizes
<1>2. TypeOK /\ Sequenced /\ OneUnderWay
  BY DEF Inv
<1>3. /\ toBroker' \in Seq(Packet) /\ toClient' \in Seq(Packet)
      /\ online' \in BOOLEAN /\ losses' \in 0..MaxLosses
      /\ OneToOne(toBroker') /\ OneToOne(toClient')
      /\ Elems(toBroker') \subseteq Elems(toBroker) \ {Head(toBroker)}
      /\ Elems(toClient') \subseteq Elems(toClient) \cup {Pkt("pubcomp", id)}
      /\ OneUnderWay'
  BY <1>1, <1>2, AnswersQueues
<1>4. /\ inbound' \in Seq(PublisherIds) /\ Len(inbound') <= Len(inbound)
      /\ Elems(inbound') = Elems(inbound) \ {id} /\ OneToOne(inbound')
  <2>1. inbound \in Seq(PublisherIds) /\ OneToOne(inbound) /\ Len(inbound) \in Nat
    BY <1>2, LenProperties DEF TypeOK, Sequenced
  <2>2. CASE Tracked(id)
    <3>1. PICK k \in DOMAIN inbound : inbound[k] = id /\ inbound' = Without(inbound, k)
      BY <1>1, <2>2 DEF Tracked, Untracked
    <3>2. /\ inbound' \in Seq(PublisherIds) /\ Len(inbound') = Len(inbound) - 1
          /\ Elems(inbound') = Elems(inbound) \ {id} /\ OneToOne(inbound')
      BY <2>1, <3>1, WithoutOnce
    <3>3. QED
      BY <2>1, <3>2, SMTT(60)
  <2>3. CASE ~Tracked(id)
    <3>1. id \notin Elems(inbound)
      BY <2>3, AsSets
    <3>2. QED
      BY <1>1, <2>1, <2>3, <3>1, SMTT(60) DEF Untracked
  <2>4. QED
    BY <2>2, <2>3
<1>5. PICK f \in Elems(flights) : Upward(Head(toBroker), f)
  BY <1>1, <1>2, TailOnce DEF Inv, OfOpenFlows, TypeOK, Sequenced
<1>6. f.id = id /\ f.released
  BY <1>1, <1>5 DEF Upward
<1>7. routed[f.msg] >= 1 /\ \A g \in Elems(flights) : ~g.released => g.id # id
  BY <1>6 DEF Inv, FlowsRouted, FlowsApart
<1>8. Pkt("pubcomp", id).id = id /\ Pkt("pubcomp", id).type = "pubcomp"
  BY DEF Pkt
<1> HIDE DEF id
<1>9. TypeOK'
  <2>1. Len(inbound') <= capacity'
    BY <1>1, <1>2, <1>4, LenProperties, InboundAssumption, SMTT(60) DEF TypeOK
  <2>2. QED
    BY <1>1, <1>2, <1>3, <1>4, <2>1 DEF TypeOK
<1>10. Sequenced' /\ FlowsApart'
  BY <1>1, <1>2, <1>3, <1>4 DEF Inv, Sequenced, FlowsApart
<1>11. OfOpenFlows'
  <2>1. \A p \in Elems(toBroker)' : \E g \in Elems(flights)' : Upward(p, g)
    BY <1>1, <1>3 DEF Inv, OfOpenFlows
  <2>2. ASSUME NEW p \in Elems(toClient')
        PROVE  \E g \in Elems(flights) :
                 /\ g.id = p.id /\ routed[g.msg] >= 1
                 /\ \/ p.type = "pubrec"
                    \/ p.type = "pubcomp" /\ p.id \notin Elems(inbound')
    <3>1. CASE p = Pkt("pubcomp", id)
      BY <1>4, <1>6, <1>7, <1>8, <3>1
    <3>2. CASE p \in Elems(toClient)
      BY <1>4, <3>2 DEF Inv, OfOpenFlows, Downward
    <3>3. QED
      BY <1>3, <3>1, <3>2
  <2>3. \A u \in Elems(inbound') : \E g \in Elems(flights) : g.id = u /\ routed[g.msg] >= 1
    BY <1>4 DEF Inv, OfOpenFlows
  <2>4. QED
    BY <1>1, <2>1, <2>2, <2>3 DEF OfOpenFlows, Downward
<1>12. FlowsRouted'
  BY <1>1, <1>4, <1>7 DEF Inv, FlowsRouted
<1>13. Unpublished' /\ RoutedOnce'
  BY <1>1 DEF Inv, Unpublished, RoutedOnce
<1>14. QED
  BY <1>3, <1>9, <1>10, <1>11, <1>12, <1>13 DEF Inv

\* The table takes a new id in, at the cost of its oldest when it is full.
LEMMA TableEnters ==
    ASSUME TypeOK, Sequenced, NEW id \in PublisherIds, id \notin Elems(inbound)
    PROVE  /\ Table(id) \in Seq(PublisherIds) /\ Len(Table(id)) <= capacity
           /\ OneToOne(Table(id))
           /\ id \in Elems(Table(id))
           /\ Elems(Table(id)) \subseteq Elems(inbound) \cup {id}
           /\ \A u \in Elems(inbound) : u \in Elems(Table(id)) \/ (Full /\ u = Head(inbound))
<1>1. /\ inbound \in Seq(PublisherIds) /\ OneToOne(inbound) /\ Len(inbound) \in Nat
      /\ capacity \in Nat \ {0} /\ Len(inbound) <= capacity
  BY LenProperties, InboundAssumption, SMTT(60) DEF TypeOK, Sequenced
<1>2. CASE ~Full
  <2>1. Len(inbound) + 1 <= capacity
    BY <1>1, <1>2, SMTT(60) DEF Full
  <2>2. Table(id) = Append(inbound, id)
    BY <1>2 DEF Table
  <2>3. /\ Table(id) \in Seq(PublisherIds) /\ Len(Table(id)) = Len(inbound) + 1
        /\ Elems(Table(id)) = Elems(inbound) \cup {id} /\ OneToOne(Table(id))
    BY <1>1, <2>2, AppendOnce, SMTT(60)
  <2>4. QED
    BY <2>1, <2>3
<1>3. CASE Full
  <2>1. inbound # <<>>
    BY <1>1, <1>3, EmptySeq DEF Full
  <2>2. /\ Tail(inbound) \in Seq(PublisherIds) /\ Len(Tail(inbound)) = Len(inbound) - 1
        /\ Elems(Tail(inbound)) = Elems(inbound) \ {Head(inbound)}
        /\ OneToOne(Tail(inbound))
    BY <1>1, <2>1, TailOnce
  <2>3. Table(id) = Append(Tail(inbound), id) /\ id \notin Elems(Tail(inbound))
    BY <1>3, <2>2 DEF Table
  <2>4. /\ Table(id) \in Seq(PublisherIds) /\ Len(Table(id)) = Len(Tail(inbound)) + 1
        /\ Elems(Table(id)) = Elems(Tail(inbound)) \cup {id} /\ OneToOne(Table(id))
    <3> DEFINE rest == Tail(inbound)
    <3>1. rest \in Seq(PublisherIds) /\ OneToOne(rest) /\ id \notin Elems(rest)
      BY <2>2, <2>3
    <3> HIDE DEF rest
    <3>2. /\ Append(rest, id) \in Seq(PublisherIds) /\ Len(Append(rest, id)) = Len(rest) + 1
          /\ Elems(Append(rest, id)) = Elems(rest) \cup {id} /\ OneToOne(Append(rest, id))
      BY <3>1, AppendOnce
    <3>3. QED
      BY <2>3, <3>2 DEF rest
  <2>5. Len(Table(id)) <= capacity
    BY <1>1, <1>3, <2>2, <2>4, SMTT(60) DEF Full
  <2>6. QED
    BY <1>3, <2>2, <2>4, <2>5
<1>4. QED
  BY <1>2, <1>3

\* handle_publish(): a message is routed and its id entered, or it has been.
LEMMA HandlePublishInv ==
    ASSUME Inv, HandlePublish
    PROVE  Inv'
<1> DEFINE h == Head(toBroker)
           evicted == {flights[k].msg : k \in
                          {j \in DOMAIN flights : flights[j].id = Head(inbound)}}
<1>1. /\ toBroker # <<>> /\ h.type = "publish" /\ Answers(Pkt("pubrec", h.id))
      /\ routed' = [routed EXCEPT ![h.msg] = IF ~Tracked(h.id) THEN @ + 1 ELSE @]
      /\ inbound' = IF ~Tracked(h.id) THEN Table(h.id) ELSE inbound
      /\ forgotten' = IF ~Tracked(h.id) /\ Full THEN forgotten \cup evicted ELSE forgotten
      /\ UNCHANGED <<capacity, window, flights, published, completed>>
  BY DEF HandlePublish, Arrived, sizes
<1>2. TypeOK /\ Sequenced /\ OneUnderWay
  BY DEF Inv
<1>3. /\ toBroker' \in Seq(Packet) /\ toClient' \in Seq(Packet)
      /\ online' \in BOOLEAN /\ losses' \in 0..MaxLosses
      /\ OneToOne(toBroker') /\ OneToOne(toClient')
      /\ Elems(toBroker') \subseteq Elems(toBroker) \ {h}
      /\ Elems(toClient') \subseteq Elems(toClient) \cup {Pkt("pubrec", h.id)}
      /\ OneUnderWay'
  BY <1>1, <1>2, AnswersQueues
<1>4. h \in Elems(toBroker) /\ h \in Packet
  <2>1. toBroker \in Seq(Packet) /\ OneToOne(toBroker)
    BY <1>2 DEF TypeOK, Sequenced
  <2>2. QED
    BY <1>1, <2>1, TailOnce, SeqFacts
<1>5. PICK f \in Elems(flights) : Upward(h, f)
  BY <1>4 DEF Inv, OfOpenFlows
<1>6. f.id = h.id /\ f.msg = h.msg /\ ~f.released
  BY <1>1, <1>5 DEF Upward
<1>7. /\ Elems(flights) \subseteq Flight /\ h.id \in PublisherIds /\ h.msg \in Messages
      /\ routed \in [Messages -> Nat]
  <2>1. Elems(flights) \subseteq Flight
    BY <1>2, SeqFacts DEF TypeOK
  <2>2. QED
    BY <1>2, <1>4, <1>6, <2>1 DEF Flight, Packet, TypeOK
<1>8. \A g \in Elems(flights) : g # f => g.id # h.id /\ g.msg # h.msg
  BY <1>6 DEF Inv, FlowsApart
<1>9. Pkt("pubrec", h.id).id = h.id /\ Pkt("pubrec", h.id).type = "pubrec"
  BY DEF Pkt
<1>10. \A q \in Elems(toClient) : q.id # h.id
  BY <1>2, <1>4 DEF OneUnderWay
<1>11. evicted = {g.msg : g \in {x \in Elems(flights) : x.id = Head(inbound)}}
  BY DEF Elems
<1>12. evicted \subseteq Messages
  BY <1>7, <1>11 DEF Flight
<1> HIDE DEF h, evicted
<1>13. CASE Tracked(h.id)
  <2>1. /\ h.id \in Elems(inbound) /\ inbound' = inbound /\ forgotten' = forgotten
        /\ routed' = routed
    BY <1>1, <1>7, <1>13, AsSets, SMTT(60)
  <2>2. routed[f.msg] >= 1
    BY <1>6, <1>8, <2>1 DEF Inv, OfOpenFlows
  <2>3. TypeOK' /\ Sequenced' /\ FlowsApart'
    BY <1>1, <1>2, <1>3, <2>1 DEF Inv, TypeOK, Sequenced, FlowsApart
  <2>4. OfOpenFlows'
    <3>1. \A p \in Elems(toBroker') : \E g \in Elems(flights) : Upward(p, g)
      BY <1>3 DEF Inv, OfOpenFlows
    <3>2. \A p \in Elems(toClient') : \E g \in Elems(flights) : Downward(p, g)
      BY <1>3, <1>6, <1>9, <2>2 DEF Inv, OfOpenFlows, Downward
    <3>3. QED
      BY <1>1, <2>1, <3>1, <3>2 DEF Inv, OfOpenFlows, Upward, Downward
  <2>5. FlowsRouted' /\ Unpublished' /\ RoutedOnce'
    BY <1>1, <2>1 DEF Inv, FlowsRouted, Unpublished, RoutedOnce
  <2>6. QED
    BY <1>3, <2>3, <2>4, <2>5 DEF Inv
<1>14. CASE ~Tracked(h.id)
  <2>1. /\ h.id \notin Elems(inbound) /\ inbound' = Table(h.id)
        /\ forgotten' = IF Full THEN forgotten \cup evicted ELSE forgotten
        /\ routed' = [routed EXCEPT ![h.msg] = @ + 1]
    BY <1>1, <1>14, AsSets
  <2>2. /\ inbound' \in Seq(PublisherIds) /\ Len(inbound') <= capacity
        /\ OneToOne(inbound') /\ h.id \in Elems(inbound')
        /\ Elems(inbound') \subseteq Elems(inbound) \cup {h.id}
        /\ \A u \in Elems(inbound) : u \in Elems(inbound') \/ (Full /\ u = Head(inbound))
    BY <1>2, <1>7, <2>1, TableEnters
  <2>3. /\ routed' \in [Messages -> Nat]
        /\ routed'[f.msg] >= 1 /\ routed'[f.msg] = routed[f.msg] + 1
        /\ \A m \in Messages : m # f.msg => routed'[m] = routed[m]
        /\ \A m \in Messages : routed[m] >= 1 => routed'[m] >= 1
    BY <1>6, <1>7, <2>1, SMTT(60)
  <2>4. forgotten \subseteq forgotten' /\ forgotten' \subseteq Messages
    BY <1>2, <1>12, <2>1 DEF TypeOK
  <2>5. TypeOK' /\ Sequenced' /\ FlowsApart'
    BY <1>1, <1>2, <1>3, <2>2, <2>3, <2>4 DEF Inv, TypeOK, Sequenced, FlowsApart
  <2>6. OfOpenFlows'
    <3>1. \A p \in Elems(toBroker') : \E g \in Elems(flights) : Upward(p, g)
      BY <1>3 DEF Inv, OfOpenFlows
    <3>2. ASSUME NEW p \in Elems(toClient')
          PROVE  \E g \in Elems(flights) :
                   /\ g.id = p.id /\ routed'[g.msg] >= 1
                   /\ \/ p.type = "pubrec"
                      \/ p.type = "pubcomp" /\ p.id \notin Elems(inbound')
      <4>1. CASE p = Pkt("pubrec", h.id)
        BY <1>6, <1>9, <2>3, <4>1
      <4>2. CASE p \in Elems(toClient)
        <5>1. PICK g \in Elems(flights) : Downward(p, g)
          BY <4>2 DEF Inv, OfOpenFlows
        <5>2. g.msg \in Messages
          BY <1>7 DEF Flight
        <5>3. p.id # h.id
          BY <1>10, <4>2
        <5>4. QED
          BY <2>2, <2>3, <5>1, <5>2, <5>3 DEF Downward
      <4>3. QED
        BY <1>3, <4>1, <4>2
    <3>3. ASSUME NEW u \in Elems(inbound')
          PROVE  \E g \in Elems(flights) : g.id = u /\ routed'[g.msg] >= 1
      <4>1. CASE u = h.id
        BY <1>6, <2>3, <4>1
      <4>2. CASE u \in Elems(inbound)
        <5>1. PICK g \in Elems(flights) : g.id = u /\ routed[g.msg] >= 1
          BY <4>2 DEF Inv, OfOpenFlows
        <5>2. g.msg \in Messages
          BY <1>7 DEF Flight
        <5>3. QED
          BY <2>3, <5>1, <5>2
      <4>3. QED
        BY <2>2, <4>1, <4>2
    <3>4. QED
      BY <1>1, <3>1, <3>2, <3>3 DEF OfOpenFlows, Upward, Downward
  <2>7. FlowsRouted'
    <3>1. SUFFICES ASSUME NEW g \in Elems(flights)
                   PROVE  /\ g.msg <= published
                          /\ g.released => routed'[g.msg] >= 1
                          /\ ~g.released /\ routed'[g.msg] >= 1
                                => g.id \in Elems(inbound') \/ g.msg \in forgotten'
      BY <1>1 DEF FlowsRouted
    <3>2. /\ g.msg \in Messages /\ g.msg <= published
          /\ g.released => routed[g.msg] >= 1
          /\ ~g.released /\ routed[g.msg] >= 1
                => g.id \in Elems(inbound) \/ g.msg \in forgotten
      BY <1>7 DEF Inv, FlowsRouted, Flight
    <3>3. CASE g = f
      BY <1>6, <2>2, <3>2, <3>3
    <3>4. CASE g # f
      <4>1. g.msg # f.msg /\ routed'[g.msg] = routed[g.msg]
        BY <1>6, <1>8, <2>3, <3>2, <3>4
      <4>2. g.id \in Elems(inbound) => g.id \in Elems(inbound') \/ g.msg \in forgotten'
        BY <1>11, <2>1, <2>2
      <4>3. QED
        BY <2>4, <3>2, <4>1, <4>2
    <3>5. QED
      BY <3>3, <3>4
  <2>8. Unpublished'
    <3>1. f.msg <= published
      BY DEF Inv, FlowsRouted
    <3>2. published \in Nat /\ \A m \in Messages : m \in Nat
      BY <1>2, InboundAssumption, SMTT(60) DEF TypeOK, Messages
    <3>3. \A m \in Messages : m > published => m # f.msg
      BY <3>1, <3>2, SMTT(60)
    <3>4. QED
      BY <1>1, <2>3, <3>3 DEF Inv, Unpublished
  <2>9. RoutedOnce'
    <3>1. \A m \in completed' : routed'[m] >= 1
      BY <1>1, <1>2, <2>3 DEF Inv, RoutedOnce, TypeOK
    <3>2. \A m \in Messages : routed'[m] > 1 => m \in forgotten'
      <4>1. routed[f.msg] >= 1 => f.msg \in forgotten
        BY <1>6, <2>1 DEF Inv, FlowsRouted
      <4>2. routed'[f.msg] > 1 => routed[f.msg] >= 1
        BY <1>6, <1>7, <2>3, SMTT(60)
      <4>3. QED
        BY <2>3, <2>4, <4>1, <4>2 DEF Inv, RoutedOnce
    <3>3. window <= capacity => ~Full
      <4>1. Len(inbound) < Len(flights)
        <5>1. inbound \in Seq(PublisherIds) /\ flights \in Seq(Flight) /\ OneToOne(inbound)
          BY <1>2 DEF TypeOK, Sequenced
        <5>2. \A e \in Elems(inbound) : \E g \in Elems(flights) : g.id = e
          BY DEF Inv, OfOpenFlows
        <5>3. \E g \in Elems(flights) : g.id = h.id
          BY <1>6
        <5>4. QED
          BY <2>1, <5>1, <5>2, <5>3, ShorterByOne
      <4>2. /\ Len(flights) <= window /\ Len(flights) \in Nat /\ Len(inbound) \in Nat
            /\ window \in Nat /\ capacity \in Nat
        BY <1>2, LenProperties, InboundAssumption, SMTT(60) DEF TypeOK
      <4>3. QED
        BY <4>1, <4>2, SMTT(60) DEF Full
    <3>4. window' <= capacity' => forgotten' = {}
      BY <1>1, <2>1, <3>3 DEF Inv, RoutedOnce
    <3>5. QED
      BY <3>1, <3>2, <3>4 DEF RoutedOnce
  <2>10. QED
    BY <1>3, <2>5, <2>6, <2>7, <2>8, <2>9 DEF Inv
<1>15. QED
  BY <1>13, <1>14

----------------------------------------------------------------------------
(* The steps of the client.                                                *)

\* A new flow has an id and a message of its own.
LEMMA PublishInv ==
    ASSUME Inv, NEW id \in PublisherIds, Publish(id)
    PROVE  Inv'
<1> DEFINE m == published + 1
           e == [id |-> id, msg |-> m, released |-> FALSE]
           p == [type |-> "publish", id |-> id, msg |-> m]
<1>1. /\ published < MaxMessages /\ id \notin OpenIds /\ Len(flights) < window
      /\ published' = m /\ flights' = Append(flights, e) /\ toBroker' = Append(toBroker, p)
      /\ UNCHANGED <<inbound, online, toClient, capacity, window, routed, completed,
                     forgotten, losses>>
  BY DEF Publish, sizes
<1>2. TypeOK /\ Sequenced
  BY DEF Inv
<1>3. published \in Nat /\ m \in Messages /\ m > published /\ m \in 0..MaxMessages
  BY <1>1, <1>2, InboundAssumption, SMTT(60) DEF TypeOK, Messages
<1>4. e \in Flight /\ e.id = id /\ e.msg = m /\ ~e.released
  BY <1>3 DEF Flight
<1>5. p \in Packet /\ p.id = id /\ p.msg = m /\ p.type = "publish"
  BY <1>3 DEF Packet
<1>6. \A f \in Elems(flights) : f.id # id
  BY <1>1, AsSets
<1>7. /\ \A q \in Elems(toBroker) : q.id # id
      /\ \A q \in Elems(toClient) : q.id # id
  <2>1. \A q \in Elems(toBroker) : \E f \in Elems(flights) : f.id = q.id
    BY DEF Inv, OfOpenFlows, Upward
  <2>2. \A q \in Elems(toClient) : \E f \in Elems(flights) : f.id = q.id
    BY DEF Inv, OfOpenFlows, Downward
  <2>3. QED
    BY <1>6, <2>1, <2>2, SMTT(60)
<1> HIDE DEF e, p
<1>8. /\ flights' \in Seq(Flight) /\ Len(flights') = Len(flights) + 1
      /\ Elems(flights') = Elems(flights) \cup {e} /\ OneToOne(flights')
  <2>1. flights \in Seq(Flight) /\ OneToOne(flights) /\ e \notin Elems(flights)
    BY <1>2, <1>4, <1>6 DEF TypeOK, Sequenced
  <2>2. QED
    BY <1>1, <1>4, <2>1, AppendOnce
<1>9. /\ toBroker' \in Seq(Packet)
      /\ Elems(toBroker') = Elems(toBroker) \cup {p} /\ OneToOne(toBroker')
  <2>1. toBroker \in Seq(Packet) /\ OneToOne(toBroker) /\ p \notin Elems(toBroker)
    BY <1>2, <1>5, <1>7 DEF TypeOK, Sequenced
  <2>2. QED
    BY <1>1, <1>5, <2>1, AppendOnce
<1>10. /\ routed[m] = 0
       /\ \A f \in Elems(flights) : f.msg \in Nat /\ f.msg <= published
  <2>1. Elems(flights) \subseteq Flight
    BY <1>2, SeqFacts DEF TypeOK
  <2>2. \A f \in Elems(flights) : f.msg \in Messages
    BY <2>1 DEF Flight
  <2>3. \A k \in Messages : k \in Nat
    BY InboundAssumption, SMTT(60) DEF Messages
  <2>4. QED
    BY <1>3, <2>2, <2>3 DEF Inv, FlowsRouted, Unpublished
<1>11. \A f \in Elems(flights) : f.msg # m /\ f.msg <= m
  BY <1>3, <1>10, SMTT(60)
<1> HIDE DEF m
<1>12. TypeOK'
  <2>1. Len(flights') <= window'
    BY <1>1, <1>2, <1>8, LenProperties, InboundAssumption, SMTT(60) DEF TypeOK
  <2>2. QED
    BY <1>1, <1>2, <1>3, <1>8, <1>9, <2>1 DEF TypeOK
<1>13. Sequenced' /\ FlowsApart'
  <2>1. Sequenced'
    BY <1>1, <1>2, <1>8, <1>9 DEF Sequenced
  <2>2. FlowsApart'
    BY <1>4, <1>6, <1>8, <1>11, SMTT(60) DEF Inv, FlowsApart
  <2>3. QED
    BY <2>1, <2>2
<1>14. OneUnderWay'
  BY <1>1, <1>5, <1>7, <1>9, SMTT(60) DEF Inv, OneUnderWay
<1>15. OfOpenFlows'
  <2>1. \A q \in Elems(toBroker') : \E f \in Elems(flights') : Upward(q, f)
    <3>1. Upward(p, e)
      BY <1>4, <1>5 DEF Upward
    <3>2. QED
      BY <1>8, <1>9, <3>1 DEF Inv, OfOpenFlows
  <2>2. \A q \in Elems(toClient) : \E f \in Elems(flights') : Downward(q, f)
    BY <1>8 DEF Inv, OfOpenFlows
  <2>3. \A u \in Elems(inbound) : \E f \in Elems(flights') : f.id = u /\ routed[f.msg] >= 1
    BY <1>8 DEF Inv, OfOpenFlows
  <2>4. QED
    BY <1>1, <2>1, <2>2, <2>3 DEF OfOpenFlows, Upward, Downward
<1>16. FlowsRouted'
  <2>1. ~(routed[m] >= 1) /\ m <= m
    BY <1>3, <1>10, SMTT(60) DEF m
  <2>2. \A f \in Elems(flights) :
            /\ f.released => routed[f.msg] >= 1
            /\ ~f.released /\ routed[f.msg] >= 1 => f.id \in Elems(inbound) \/ f.msg \in forgotten
    BY DEF Inv, FlowsRouted
  <2>3. QED
    BY <1>1, <1>4, <1>8, <1>11, <2>1, <2>2 DEF FlowsRouted
<1>17. Unpublished'
  <2>1. \A k \in Messages : k > m => k > published
    BY <1>3, InboundAssumption, SMTT(60) DEF m, Messages
  <2>2. QED
    BY <1>1, <2>1 DEF Inv, Unpublished
<1>18. RoutedOnce'
  BY <1>1 DEF Inv, RoutedOnce
<1>19. QED
  BY <1>12, <1>13, <1>14, <1>15, <1>16, <1>17, <1>18 DEF Inv

\* What taking the next packet does to the client's queue.
LEMMA ClientTakes ==
    ASSUME Inv, toClient # <<>>, toClient' = Tail(toClient)
    PROVE  /\ toClient' \in Seq(Packet) /\ OneToOne(toClient')
           /\ Head(toClient) \in Elems(toClient) /\ Head(toClient) \in Packet
           /\ Elems(toClient') = Elems(toClient) \ {Head(toClient)}
           /\ \A q \in Elems(toClient') : q.id # Head(toClient).id
           /\ \A q \in Elems(toBroker) : q.id # Head(toClient).id
<1>1. toClient \in Seq(Packet) /\ OneToOne(toClient)
  BY DEF Inv, TypeOK, Sequenced
<1>2. /\ toClient' \in Seq(Packet) /\ OneToOne(toClient')
      /\ Head(toClient) \in Elems(toClient)
      /\ Elems(toClient') = Elems(toClient) \ {Head(toClient)}
  BY <1>1, TailOnce
<1>3. Head(toClient) \in Packet
  BY <1>1, <1>2, SeqFacts
<1>4. QED
  BY <1>2, <1>3 DEF Inv, OneUnderWay

\* PUBCOMP ends a flow of which nothing is left.
LEMMA PubcompInv ==
    ASSUME Inv, ClientReceives, Head(toClient).type = "pubcomp"
    PROVE  Inv'
<1> DEFINE h == Head(toClient)
           done == {flights[k].msg : k \in {j \in DOMAIN flights : flights[j].id = h.id}}
<1>1. /\ toClient # <<>> /\ toClient' = Tail(toClient)
      /\ flights' = IF h.id \in OpenIds THEN Without(flights, FlightOf(h.id)) ELSE flights
      /\ completed' = completed \cup done
      /\ UNCHANGED <<toBroker, inbound, online, capacity, window, published, routed,
                     forgotten, losses>>
  BY DEF ClientReceives, sizes
<1>2. /\ toClient' \in Seq(Packet) /\ OneToOne(toClient')
      /\ h \in Elems(toClient)
      /\ Elems(toClient') = Elems(toClient) \ {h}
      /\ \A q \in Elems(toClient') : q.id # h.id
      /\ \A q \in Elems(toBroker) : q.id # h.id
  BY <1>1, ClientTakes
<1>3. PICK f \in Elems(flights) : Downward(h, f)
  BY <1>2 DEF Inv, OfOpenFlows
<1>4. f.id = h.id /\ routed[f.msg] >= 1 /\ h.id \notin Elems(inbound)
  BY <1>3 DEF Downward
<1>5. TypeOK /\ Sequenced
  BY DEF Inv
<1>6. /\ flights' \in Seq(Flight) /\ Len(flights') = Len(flights) - 1
      /\ Elems(flights') = Elems(flights) \ {f} /\ OneToOne(flights')
  <2>1. PICK k \in DOMAIN flights : flights[k].id = h.id /\ flights' = Without(flights, k)
    <3>1. h.id \in OpenIds
      BY <1>4, AsSets
    <3>2. QED
      BY <1>1, <3>1 DEF OpenIds, FlightOf
  <2>2. flights[k] = f
    BY <1>4, <2>1 DEF Inv, FlowsApart, Elems
  <2>3. flights \in Seq(Flight) /\ OneToOne(flights)
    BY <1>5 DEF TypeOK, Sequenced
  <2>4. QED
    BY <2>1, <2>2, <2>3, WithoutOnce
<1>7. done = {g.msg : g \in {x \in Elems(flights) : x.id = h.id}}
  BY DEF Elems
<1>8. done = {f.msg}
  <2>1. \A g \in Elems(flights) : g.id = h.id => g = f
    BY <1>4 DEF Inv, FlowsApart
  <2>2. QED
    BY <1>4, <1>7, <2>1
<1>9. f.msg \in Messages
  <2>1. Elems(flights) \subseteq Flight
    BY <1>5, SeqFacts DEF TypeOK
  <2>2. QED
    BY <2>1 DEF Flight
<1> HIDE DEF h, done
<1>10. TypeOK'
  <2>1. Len(flights') <= window'
    BY <1>1, <1>5, <1>6, LenProperties, InboundAssumption, SMTT(60) DEF TypeOK
  <2>2. completed' \subseteq Messages
    BY <1>1, <1>5, <1>8, <1>9 DEF TypeOK
  <2>3. QED
    BY <1>1, <1>2, <1>5, <1>6, <2>1, <2>2 DEF TypeOK
<1>11. Sequenced' /\ FlowsApart' /\ OneUnderWay'
  <2>1. Sequenced'
    BY <1>1, <1>2, <1>5, <1>6 DEF Sequenced
  <2>2. FlowsApart'
    BY <1>6 DEF Inv, FlowsApart
  <2>3. OneUnderWay'
    BY <1>1, <1>2 DEF Inv, OneUnderWay
  <2>4. QED
    BY <2>1, <2>2, <2>3
<1>12. OfOpenFlows'
  <2>1. ASSUME NEW q \in Elems(toBroker)
        PROVE  \E g \in Elems(flights') : Upward(q, g)
    <3>1. PICK g \in Elems(flights) : Upward(q, g)
      BY DEF Inv, OfOpenFlows
    <3>2. g # f
      BY <1>2, <1>4, <3>1 DEF Upward
    <3>3. QED
      BY <1>6, <3>1, <3>2
  <2>2. ASSUME NEW q \in Elems(toClient')
        PROVE  \E g \in Elems(flights') : Downward(q, g)
    <3>1. q \in Elems(toClient)
      BY <1>2
    <3>2. PICK g \in Elems(flights) : Downward(q, g)
      BY <3>1 DEF Inv, OfOpenFlows
    <3>3. g # f
      BY <1>2, <1>4, <3>2 DEF Downward
    <3>4. QED
      BY <1>6, <3>2, <3>3
  <2>3. ASSUME NEW u \in Elems(inbound)
        PROVE  \E g \in Elems(flights') : g.id = u /\ routed[g.msg] >= 1
    <3>1. PICK g \in Elems(flights) : g.id = u /\ routed[g.msg] >= 1
      BY DEF Inv, OfOpenFlows
    <3>2. g # f
      BY <1>4, <3>1
    <3>3. QED
      BY <1>6, <3>1, <3>2
  <2>4. QED
    BY <1>1, <2>1, <2>2, <2>3 DEF OfOpenFlows, Upward, Downward
<1>13. FlowsRouted' /\ Unpublished'
  BY <1>1, <1>6 DEF Inv, FlowsRouted, Unpublished
<1>14. RoutedOnce'
  BY <1>1, <1>4, <1>8 DEF Inv, RoutedOnce
<1>15. QED
  BY <1>10, <1>11, <1>12, <1>13, <1>14 DEF Inv

\* A mapping of the open flows that keeps ids and messages apart, as sequences.
LEMMA Mapped ==
    ASSUME NEW Any, NEW T, NEW s \in Seq(Any), NEW t, OneToOne(s),
           DOMAIN t = DOMAIN s, \A k \in DOMAIN s : t[k] \in T,
           \A j, k \in DOMAIN s : t[j] = t[k] => s[j] = s[k],
           t = [k \in DOMAIN t |-> t[k]]
    PROVE  t \in Seq(T) /\ Len(t) = Len(s) /\ OneToOne(t)
<1>1. Len(s) \in Nat /\ DOMAIN s = 1..Len(s)
  BY SeqFacts
<1>2. t \in [1..Len(s) -> T]
  BY <1>1
<1>3. t \in Seq(T) /\ Len(t) = Len(s)
  BY <1>1, <1>2, FunctionSeq
<1>4. OneToOne(t)
  BY DEF OneToOne
<1>5. QED
  BY <1>3, <1>4

\* A flow that is released is the same one.
LEMMA Released ==
    ASSUME NEW g \in Flight
    PROVE  LET r == [g EXCEPT !.released = TRUE]
           IN r \in Flight /\ r.id = g.id /\ r.msg = g.msg /\ r.released
<1>1. [g EXCEPT !.released = TRUE] \in Flight
  BY DEF Flight
<1>2. [g EXCEPT !.released = TRUE].id = g.id /\ [g EXCEPT !.released = TRUE].msg = g.msg
  BY DEF Flight
<1>3. [g EXCEPT !.released = TRUE].released
  BY DEF Flight
<1>4. QED
  BY <1>1, <1>2, <1>3

\* PUBREC releases the message; PUBREL follows if there is a connection.
LEMMA PubrecInv ==
    ASSUME Inv, ClientReceives, Head(toClient).type = "pubrec"
    PROVE  Inv'
<1> DEFINE h == Head(toClient)
           Rel(g) == IF g.id = h.id THEN [g EXCEPT !.released = TRUE] ELSE g
           p == Pkt("pubrel", h.id)
<1>1. /\ toClient # <<>> /\ toClient' = Tail(toClient)
      /\ flights' = [k \in DOMAIN flights |-> Rel(flights[k])]
      /\ toBroker' = IF online THEN Append(toBroker, p) ELSE toBroker
      /\ UNCHANGED <<completed, inbound, online, capacity, window, published, routed,
                     forgotten, losses>>
  BY DEF ClientReceives, sizes
<1>2. /\ toClient' \in Seq(Packet) /\ OneToOne(toClient')
      /\ h \in Elems(toClient) /\ h \in Packet
      /\ Elems(toClient') = Elems(toClient) \ {h}
      /\ \A q \in Elems(toClient') : q.id # h.id
      /\ \A q \in Elems(toBroker) : q.id # h.id
  BY <1>1, ClientTakes
<1>3. PICK f \in Elems(flights) : Downward(h, f)
  BY <1>2 DEF Inv, OfOpenFlows
<1>4. f.id = h.id /\ routed[f.msg] >= 1
  BY <1>3 DEF Downward
<1>5. TypeOK /\ Sequenced
  BY DEF Inv
<1>6. Elems(flights) \subseteq Flight
  BY <1>5, SeqFacts DEF TypeOK
<1>7. \A g \in Elems(flights) :
        /\ Rel(g) \in Flight /\ Rel(g).id = g.id /\ Rel(g).msg = g.msg
        /\ g.id = h.id => Rel(g).released
        /\ g.id # h.id => Rel(g) = g
  <2>1. ASSUME NEW g \in Flight, g.id = h.id
        PROVE  Rel(g) \in Flight /\ Rel(g).id = g.id /\ Rel(g).msg = g.msg /\ Rel(g).released
    <3>1. Rel(g) = [g EXCEPT !.released = TRUE]
      BY <2>1
    <3>2. QED
      BY <3>1, Released
  <2>2. ASSUME NEW g \in Flight, g.id # h.id
        PROVE  Rel(g) = g
    BY <2>2
  <2> HIDE DEF Rel, h
  <2>3. QED
    BY <1>6, <2>1, <2>2, SMTT(60)
<1>8. \A g \in Elems(flights) : g.id = h.id => g = f
  BY <1>4 DEF Inv, FlowsApart
<1>9. p \in Packet /\ p.id = h.id /\ p.type = "pubrel"
  BY <1>2 DEF Pkt, Packet
<1> HIDE DEF h, Rel, p
<1>10. Elems(flights') = {Rel(g) : g \in Elems(flights)}
  BY <1>1 DEF Elems
<1>11. flights' \in Seq(Flight) /\ Len(flights') = Len(flights) /\ OneToOne(flights')
  <2>1. flights \in Seq(Flight) /\ OneToOne(flights)
    BY <1>5 DEF TypeOK, Sequenced
  <2>2. \A k \in DOMAIN flights : flights[k] \in Elems(flights)
    BY DEF Elems
  <2>3. /\ DOMAIN flights' = DOMAIN flights
        /\ \A k \in DOMAIN flights : flights'[k] = Rel(flights[k])
        /\ flights' = [k \in DOMAIN flights' |-> flights'[k]]
    BY <1>1
  <2>4. \A k \in DOMAIN flights : flights'[k] \in Flight
    BY <1>7, <2>2, <2>3
  <2>5. \A g1, g2 \in Elems(flights) : Rel(g1) = Rel(g2) => g1 = g2
    <3>1. \A g1, g2 \in Elems(flights) : Rel(g1) = Rel(g2) => g1.id = g2.id
      BY <1>7, SMTT(60)
    <3>2. QED
      BY <3>1 DEF Inv, FlowsApart
  <2>6. \A j, k \in DOMAIN flights : flights'[j] = flights'[k] => flights[j] = flights[k]
    BY <2>2, <2>3, <2>5, SMTT(60)
  <2>7. QED
    BY <2>1, <2>3, <2>4, <2>6, Mapped
<1>12. /\ toBroker' \in Seq(Packet) /\ OneToOne(toBroker')
       /\ Elems(toBroker') \subseteq Elems(toBroker) \cup {p}
  <2>1. toBroker \in Seq(Packet) /\ OneToOne(toBroker) /\ p \notin Elems(toBroker)
    BY <1>2, <1>5, <1>9 DEF TypeOK, Sequenced
  <2>2. /\ Append(toBroker, p) \in Seq(Packet) /\ OneToOne(Append(toBroker, p))
        /\ Elems(Append(toBroker, p)) = Elems(toBroker) \cup {p}
    BY <1>9, <2>1, AppendOnce, SMTT(60)
  <2>3. QED
    BY <1>1, <2>1, <2>2
<1>13. TypeOK'
  BY <1>1, <1>2, <1>5, <1>11, <1>12 DEF TypeOK
<1>14. Sequenced' /\ FlowsApart' /\ OneUnderWay'
  <2>1. Sequenced'
    BY <1>1, <1>2, <1>5, <1>11, <1>12 DEF Sequenced
  <2>2. FlowsApart'
    <3>1. ASSUME NEW a \in Elems(flights), NEW b \in Elems(flights),
                 Rel(a).id = Rel(b).id \/ Rel(a).msg = Rel(b).msg
          PROVE  Rel(a) = Rel(b)
      <4>1. a.id = b.id \/ a.msg = b.msg
        BY <1>7, <3>1, SMTT(60)
      <4>2. a = b
        BY <4>1 DEF Inv, FlowsApart
      <4>3. QED
        BY <4>2
    <3>2. QED
      BY <1>10, <3>1, SMTT(60) DEF FlowsApart
  <2>3. OneUnderWay'
    <3>1. \A q, r \in Elems(toBroker') : q.id = r.id => q = r
      BY <1>2, <1>9, <1>12, SMTT(60) DEF Inv, OneUnderWay
    <3>2. \A q, r \in Elems(toClient') : q.id = r.id => q = r
      BY <1>2 DEF Inv, OneUnderWay
    <3>3. \A q \in Elems(toBroker'), r \in Elems(toClient') : q.id # r.id
      BY <1>2, <1>9, <1>12, SMTT(60) DEF Inv, OneUnderWay
    <3>4. QED
      BY <3>1, <3>2, <3>3 DEF OneUnderWay
  <2>4. QED
    BY <2>1, <2>2, <2>3
<1>15. OfOpenFlows'
  <2>1. ASSUME NEW q \in Elems(toBroker')
        PROVE  \E g \in Elems(flights') : Upward(q, g)
    <3>1. CASE q = p
      <4>1. Upward(p, Rel(f))
        BY <1>4, <1>7, <1>9 DEF Upward
      <4>2. QED
        BY <1>10, <3>1, <4>1
    <3>2. CASE q \in Elems(toBroker)
      <4>1. PICK g \in Elems(flights) : Upward(q, g)
        BY <3>2 DEF Inv, OfOpenFlows
      <4>2. Rel(g) = g
        BY <1>2, <1>7, <3>2, <4>1 DEF Upward
      <4>3. QED
        BY <1>10, <4>1, <4>2
    <3>3. QED
      BY <1>12, <3>1, <3>2
  <2>2. ASSUME NEW q \in Elems(toClient')
        PROVE  \E g \in Elems(flights') : Downward(q, g)
    <3>1. q \in Elems(toClient)
      BY <1>2
    <3>2. PICK g \in Elems(flights) : Downward(q, g)
      BY <3>1 DEF Inv, OfOpenFlows
    <3>3. Rel(g) = g
      BY <1>2, <1>7, <3>2 DEF Downward
    <3>4. QED
      BY <1>10, <3>2, <3>3
  <2>3. ASSUME NEW u \in Elems(inbound)
        PROVE  \E g \in Elems(flights') : g.id = u /\ routed[g.msg] >= 1
    <3>1. PICK g \in Elems(flights) : g.id = u /\ routed[g.msg] >= 1
      BY DEF Inv, OfOpenFlows
    <3>2. Rel(g) \in Elems(flights') /\ Rel(g).id = u /\ Rel(g).msg = g.msg
      BY <1>7, <1>10, <3>1
    <3>3. QED
      BY <3>1, <3>2
  <2>4. QED
    BY <1>1, <2>1, <2>2, <2>3 DEF OfOpenFlows, Upward, Downward
<1>16. FlowsRouted'
  <2>1. ASSUME NEW g \in Elems(flights)
        PROVE  /\ Rel(g).msg <= published
               /\ Rel(g).released => routed[Rel(g).msg] >= 1
               /\ ~Rel(g).released /\ routed[Rel(g).msg] >= 1
                    => Rel(g).id \in Elems(inbound) \/ Rel(g).msg \in forgotten
    <3>1. /\ g.msg <= published
          /\ g.released => routed[g.msg] >= 1
          /\ ~g.released /\ routed[g.msg] >= 1
               => g.id \in Elems(inbound) \/ g.msg \in forgotten
      BY DEF Inv, FlowsRouted
    <3>2. CASE g.id = h.id
      BY <1>4, <1>7, <1>8, <3>1, <3>2
    <3>3. CASE g.id # h.id
      BY <1>7, <3>1, <3>3
    <3>4. QED
      BY <3>2, <3>3
  <2>2. \A g \in Elems(flights') : \E x \in Elems(flights) : g = Rel(x)
    BY <1>10
  <2>3. QED
    BY <1>1, <2>1, <2>2, SMTT(60) DEF FlowsRouted
<1>17. Unpublished' /\ RoutedOnce'
  BY <1>1 DEF Inv, Unpublished, RoutedOnce
<1>18. QED
  BY <1>13, <1>14, <1>15, <1>16, <1>17 DEF Inv

\* A client that comes back sends the packet each open flow is at.
LEMMA ReconnectInv ==
    ASSUME Inv, Reconnect
    PROVE  Inv'
<1> DEFINE Again(g) == IF g.released THEN Pkt("pubrel", g.id)
                       ELSE [type |-> "publish", id |-> g.id, msg |-> g.msg]
<1>1. /\ online' = TRUE /\ toClient' = <<>>
      /\ toBroker' = [k \in DOMAIN flights |-> Again(flights[k])]
      /\ UNCHANGED <<inbound, capacity, window, flights, published, routed, completed,
                     forgotten, losses>>
  BY DEF Reconnect, sizes
<1>2. TypeOK /\ Sequenced
  BY DEF Inv
<1>3. Elems(flights) \subseteq Flight
  BY <1>2, SeqFacts DEF TypeOK
<1>4. \A g \in Elems(flights) :
        Again(g) \in Packet /\ Again(g).id = g.id /\ Upward(Again(g), g)
  <2>1. ASSUME NEW g \in Flight
        PROVE  Again(g) \in Packet /\ Again(g).id = g.id /\ Upward(Again(g), g)
    BY SMTT(60) DEF Flight, Packet, Pkt, Upward
  <2>2. QED
    BY <1>3, <2>1
<1> HIDE DEF Again
<1>5. Elems(toBroker') = {Again(g) : g \in Elems(flights)}
  BY <1>1 DEF Elems
<1>6. \A a, b \in Elems(flights) : Again(a).id = Again(b).id => a = b
  BY <1>4 DEF Inv, FlowsApart
<1>7. toBroker' \in Seq(Packet) /\ OneToOne(toBroker')
  <2>1. flights \in Seq(Flight) /\ OneToOne(flights)
    BY <1>2 DEF TypeOK, Sequenced
  <2>2. \A k \in DOMAIN flights : flights[k] \in Elems(flights)
    BY DEF Elems
  <2>3. /\ DOMAIN toBroker' = DOMAIN flights
        /\ \A k \in DOMAIN flights : toBroker'[k] = Again(flights[k])
        /\ toBroker' = [k \in DOMAIN toBroker' |-> toBroker'[k]]
    BY <1>1
  <2>4. \A k \in DOMAIN flights : toBroker'[k] \in Packet
    BY <1>4, <2>2, <2>3
  <2>5. \A j, k \in DOMAIN flights : toBroker'[j] = toBroker'[k] => flights[j] = flights[k]
    BY <1>6, <2>2, <2>3, SMTT(60)
  <2>6. QED
    BY <2>1, <2>3, <2>4, <2>5, Mapped
<1>8. toClient' \in Seq(Packet) /\ Elems(toClient') = {} /\ OneToOne(toClient')
  BY <1>1, EmptyOnce
<1>9. TypeOK' /\ Sequenced' /\ FlowsApart'
  BY <1>1, <1>2, <1>7, <1>8 DEF Inv, TypeOK, Sequenced, FlowsApart
<1>10. OneUnderWay'
  <2>1. ASSUME NEW q \in Elems(toBroker'), NEW r \in Elems(toBroker'), q.id = r.id
        PROVE  q = r
    <3>1. PICK a \in Elems(flights) : q = Again(a)
      BY <1>5
    <3>2. PICK b \in Elems(flights) : r = Again(b)
      BY <1>5
    <3>3. QED
      BY <1>6, <2>1, <3>1, <3>2
  <2>2. QED
    BY <1>8, <2>1 DEF OneUnderWay
<1>11. OfOpenFlows'
  <2>1. \A q \in Elems(toBroker') : \E g \in Elems(flights) : Upward(q, g)
    BY <1>4, <1>5
  <2>2. QED
    BY <1>1, <1>8, <2>1 DEF Inv, OfOpenFlows, Upward
<1>12. FlowsRouted' /\ Unpublished' /\ RoutedOnce'
  BY <1>1 DEF Inv, FlowsRouted, Unpublished, RoutedOnce
<1>13. QED
  BY <1>9, <1>10, <1>11, <1>12 DEF Inv

----------------------------------------------------------------------------
(* Theorems.                                                               *)

\* A step that changes nothing.
LEMMA StutterInv ==
    ASSUME Inv, UNCHANGED vars
    PROVE  Inv'
  BY DEF vars, Inv, TypeOK, Sequenced, FlowsApart, OneUnderWay, OfOpenFlows, Upward,
     Downward, FlowsRouted, Unpublished, RoutedOnce

\* Every step keeps the invariant.
LEMMA InboundNext ==
    ASSUME Inv, [Next]_vars
    PROVE  Inv'
<1>1. CASE HandlePublish
  BY <1>1, HandlePublishInv
<1>2. CASE HandlePubrel
  BY <1>2, HandlePubrelInv
<1>3. CASE ConnLost
  BY <1>3, ConnLostInv
<1>4. ASSUME NEW id \in PublisherIds, Publish(id) PROVE Inv'
  BY <1>4, PublishInv
<1>5. CASE ClientReceives
  <2>1. Head(toClient).type \in {"pubrec", "pubcomp"}
    BY <1>5 DEF ClientReceives
  <2>2. QED
    BY <1>5, <2>1, PubrecInv, PubcompInv
<1>6. CASE Reconnect
  BY <1>6, ReconnectInv
<1>7. CASE UNCHANGED vars
  BY <1>7, StutterInv
<1>8. QED
  BY <1>1, <1>2, <1>3, <1>4, <1>5, <1>6, <1>7 DEF Next

\* The invariant holds throughout, whatever connections are lost: handle_publish(),
\* handle_pubrel() and a conforming client keep it.
THEOREM InboundInvariant == Spec => []Inv
  BY InitInv, InboundNext, PTL DEF Spec

\* The table of handle_publish() and handle_pubrel() only ever holds ids of flows
\* that are open, each once, for every size of the table and of the window.
THEOREM TrackedOpenAlways == Spec => []TrackedOpen
<1>1. Inv => TrackedOpen
  BY InvTracked
<1>2. QED
  BY <1>1, InboundInvariant, PTL

\* Exactly once at the first hop: handle_publish() routes every message that is
\* completed, and none twice unless the table had to forget its id, which it never
\* has to for a client whose window is no wider than the table.
THEOREM RoutedOnceAlways == Spec => []RoutedOnce
<1>1. Inv => RoutedOnce
  BY DEF Inv
<1>2. QED
  BY <1>1, InboundInvariant, PTL

----------------------------------------------------------------------------
(* Both hops: the publisher's half.                                        *)

\* Every step is one of InboundQos2's, or leaves the publisher alone.
LEMMA PublisherStep ==
    ASSUME [E2ENext]_all
    PROVE  [Next]_vars
  BY DEF E2ENext, RoutePublish, OtherCalls, PublisherMoves, Unbusy, SubscriberMoves, all,
     publisher, Next

\* Every step is one of Delivery's, or leaves the subscriber alone.
LEMMA SubscriberStep ==
    ASSUME granted \in 0..2, [E2ENext]_all
    PROVE  [S!Next]_S!vars
<1>1. UNCHANGED subscriber => UNCHANGED S!vars
  BY DEF subscriber, S!vars
<1>2. CASE RoutePublish
  <2>1. CASE New /\ granted > 0
    <3>1. granted \in QoSs
      BY <2>1, SMTT(60) DEF QoSs
    <3>2. S!Enqueue(granted, FALSE)
      BY <1>2, <2>1 DEF RoutePublish
    <3>3. QED
      BY <3>1, <3>2 DEF S!Next
  <2>2. CASE ~(New /\ granted > 0)
    BY <1>1, <1>2, <2>2 DEF RoutePublish
  <2>3. QED
    BY <2>1, <2>2
<1>3. CASE OtherCalls \/ PublisherMoves
  BY <1>1, <1>3 DEF OtherCalls, PublisherMoves
<1>4. CASE SubscriberMoves
  BY <1>4 DEF SubscriberMoves, S!Next
<1>5. CASE UNCHANGED all
  BY <1>1, <1>5 DEF all
<1>6. QED
  BY <1>2, <1>3, <1>4, <1>5 DEF E2ENext

\* A copy reaches the subscriber's session for every time the message is routed.
Copies ==
    /\ granted \in 0..2
    /\ copyOf \in Seq(Messages)
    /\ granted > 0 => \A m \in Messages : Cardinality(Reaches(m)) = routed[m]

\* What one more copy does to the copies of each message.
LEMMA OneMoreCopy ==
    ASSUME copyOf \in Seq(Messages), NEW x \in Messages, copyOf' = Append(copyOf, x)
    PROVE  /\ copyOf' \in Seq(Messages)
           /\ \A m \in Messages :
                /\ Cardinality(Reaches(m)) \in Nat
                /\ Cardinality(Reaches(m)') = IF m = x THEN Cardinality(Reaches(m)) + 1
                                                       ELSE Cardinality(Reaches(m))
<1> DEFINE n == Len(copyOf)
<1>1. n \in Nat /\ DOMAIN copyOf = 1..n
  BY LenProperties
<1>2. /\ copyOf' \in Seq(Messages) /\ DOMAIN copyOf' = 1..(n + 1)
      /\ \A k \in 1..n : copyOf'[k] = copyOf[k]
      /\ copyOf'[n + 1] = x
  BY AppendProperties, LenProperties, SMTT(60)
<1>3. /\ \A k : k \in 1..(n + 1) <=> (k \in 1..n \/ k = n + 1)
      /\ n + 1 \notin 1..n
  BY <1>1, SMTT(60)
<1> HIDE DEF n
<1>4. ASSUME NEW m \in Messages
      PROVE  /\ Cardinality(Reaches(m)) \in Nat
             /\ Cardinality(Reaches(m)') = IF m = x THEN Cardinality(Reaches(m)) + 1
                                                    ELSE Cardinality(Reaches(m))
  <2>1. IsFiniteSet(Reaches(m)) /\ n + 1 \notin Reaches(m)
    <3>1. IsFiniteSet(1..n)
      BY <1>1, FS_Interval, SMTT(60)
    <3>2. Reaches(m) \subseteq 1..n
      BY <1>1 DEF Reaches
    <3>3. QED
      BY <1>3, <3>1, <3>2, FS_Subset
  <2>2. Reaches(m)' = IF m = x THEN Reaches(m) \cup {n + 1} ELSE Reaches(m)
    BY <1>1, <1>2, <1>3 DEF Reaches
  <2>3. Cardinality(Reaches(m)) \in Nat
    BY <2>1, FS_CardinalityType
  <2>4. Cardinality(Reaches(m) \cup {n + 1}) = Cardinality(Reaches(m)) + 1
    BY <2>1, FS_AddElement
  <2>5. QED
    BY <2>2, <2>3, <2>4
<1>5. QED
  BY <1>2, <1>4

\* Every step keeps the copies in step with the routing.
LEMMA CopiesStep ==
    ASSUME Inv, Copies, [E2ENext]_all
    PROVE  Copies'
<1>1. granted' = granted
  BY DEF E2ENext, RoutePublish, OtherCalls, PublisherMoves, SubscriberMoves, ForPublisher, all
<1>2. CASE UNCHANGED <<copyOf, routed>>
  BY <1>1, <1>2 DEF Copies, Reaches
<1>3. CASE RoutePublish
  <2>1. PICK p \in Packet : p = Head(toBroker) /\ p.type = "publish"
    BY <1>3, HeadTailProperties DEF RoutePublish, HandlePublish, Arrived, Inv, TypeOK
  <2>2. p.msg \in Messages
    <3>1. p \in Elems(toBroker)
      BY <1>3, <2>1, TailOnce DEF RoutePublish, HandlePublish, Arrived, Inv, TypeOK,
         Sequenced
    <3>2. PICK f \in Elems(flights) : Upward(p, f)
      BY <3>1 DEF Inv, OfOpenFlows
    <3>3. f \in Flight
      BY SeqFacts DEF Inv, TypeOK
    <3>4. QED
      BY <2>1, <3>2, <3>3 DEF Upward, Flight
  <2>3. /\ routed \in [Messages -> Nat]
        /\ routed' = [routed EXCEPT ![p.msg] = IF New THEN @ + 1 ELSE @]
    BY <1>3, <2>1 DEF RoutePublish, HandlePublish, New, Inv, TypeOK
  <2>4. CASE New /\ granted > 0
    <3>1. copyOf' = Append(copyOf, p.msg)
      BY <1>3, <2>1, <2>4 DEF RoutePublish
    <3>2. copyOf' \in Seq(Messages)
      BY <2>2, <3>1, OneMoreCopy DEF Copies
    <3>3. ASSUME NEW m \in Messages PROVE Cardinality(Reaches(m)') = routed'[m]
      <4>1. Cardinality(Reaches(m)) = routed[m]
        BY <2>4 DEF Copies
      <4>2. Cardinality(Reaches(m)') = IF m = p.msg THEN Cardinality(Reaches(m)) + 1
                                                    ELSE Cardinality(Reaches(m))
        BY <2>2, <3>1, OneMoreCopy DEF Copies
      <4>3. routed' = [routed EXCEPT ![p.msg] = routed[p.msg] + 1]
        <5>1. (IF New THEN routed[p.msg] + 1 ELSE routed[p.msg]) = routed[p.msg] + 1
          BY <2>4
        <5>2. QED
          BY <2>3, <5>1
      <4>4. routed'[m] = IF m = p.msg THEN routed[m] + 1 ELSE routed[m]
        <5>1. routed \in [Messages -> Nat]
          BY <2>3
        <5>2. QED
          BY <2>2, <4>3, <5>1, SMTT(60)
      <4>5. CASE m = p.msg
        BY <4>1, <4>2, <4>4, <4>5
      <4>6. CASE m # p.msg
        BY <4>1, <4>2, <4>4, <4>6
      <4>7. QED
        BY <4>5, <4>6
    <3>4. QED
      BY <1>1, <3>2, <3>3 DEF Copies
  <2>5. CASE granted > 0 /\ ~New
    <3>1. routed' = routed
      BY <2>2, <2>3, <2>5
    <3>2. copyOf' = copyOf
      BY <1>3, <2>5 DEF RoutePublish
    <3>3. QED
      BY <1>2, <3>1, <3>2
  <2>6. CASE ~(granted > 0)
    <3>1. copyOf' = copyOf
      BY <1>3, <2>6 DEF RoutePublish
    <3>2. QED
      BY <1>1, <2>6, <3>1 DEF Copies
  <2>7. QED
    BY <2>4, <2>5, <2>6
<1>4. CASE OtherCalls \/ PublisherMoves \/ SubscriberMoves
  BY <1>2, <1>4 DEF OtherCalls, PublisherMoves, SubscriberMoves, HandlePubrel, ConnLost, Reconnect,
     ClientReceives, Publish, publisher, vars
<1>5. QED
  BY <1>2, <1>3, <1>4 DEF E2ENext, all, publisher, vars

\* The queue starts empty.
LEMMA CopiesInit == E2EInit => Copies
<1> SUFFICES ASSUME E2EInit PROVE Copies
  OBVIOUS
<1>1. copyOf = <<>> /\ copyOf \in Seq(Messages)
  BY EmptyOnce DEF E2EInit
<1>2. \A m \in Messages : Reaches(m) = {}
  BY <1>1, SMTT(60) DEF Reaches
<1>3. \A m \in Messages : Cardinality(Reaches(m)) = routed[m]
  BY <1>2, FS_EmptySet DEF E2EInit, Init
<1>4. QED
  BY <1>1, <1>3 DEF Copies, E2EInit

\* What RoutedOnce says of the routing it says of the copies.
LEMMA CopiesOnce ==
    ASSUME Inv, Copies, granted > 0
    PROVE  /\ \A m \in completed : Reaches(m) # {}
           /\ \A m \in Messages : Cardinality(Reaches(m)) > 1 => m \in forgotten
<1>1. \A m \in Messages : Cardinality(Reaches(m)) = routed[m]
  BY DEF Copies
<1>2. completed \subseteq Messages /\ RoutedOnce
  BY DEF Inv, TypeOK
<1>3. ASSUME NEW m \in completed, Reaches(m) = {} PROVE FALSE
  <2>1. routed[m] = 0 /\ routed[m] >= 1
    BY <1>1, <1>2, <1>3, FS_EmptySet DEF RoutedOnce
  <2>2. QED
    BY <2>1, SMTT(60)
<1>4. QED
  BY <1>1, <1>2, <1>3 DEF RoutedOnce

----------------------------------------------------------------------------
(* Both hops: the subscriber's half is Delivery.                           *)

D == INSTANCE DeliveryProofs WITH
    PublishSize <- 1, MaxMessages <- MaxCopies, MaxLosses <- MaxParted,
    online <- connected, toClient <- toSubscriber, toBroker <- fromSubscriber,
    published <- copies, losses <- parted

\* What Delivery assumes of its constants.
LEMMA DeliverySizes == D!DeliveryAssumption
<1>1. MaxCopies \in Nat
  BY EndToEndAssumption, SMTT(60) DEF MaxCopies
<1>2. QED
  BY EndToEndAssumption, <1>1, SMTT(60) DEF D!DeliveryAssumption, QoSs

\* The session starts as Delivery's.
LEMMA SubscriberInit == S!Init => D!Inv
<1>1. S!Init => D!Init
  BY DEF S!Init, D!Init, S!Messages, D!Messages
<1>2. QED
  BY <1>1, DeliverySizes, D!FlowInit

\* S and D are the same module twice, the second time with its proofs.
LEMMA SubscriberNext == [S!Next]_S!vars => [D!Next]_D!vars
  BY DEF
     S!Next, D!Next, S!Enqueue, D!Enqueue, S!Step, D!Step, S!PumpSession,
     D!PumpSession, S!ResumeSession, D!ResumeSession, S!LoopEnd, D!LoopEnd, S!Looping,
     D!Looping, S!SendPubrel, D!SendPubrel, S!SendFirst, D!SendFirst, S!SendAgain,
     D!SendAgain, S!Skip, D!Skip, S!Away, D!Away, S!Send, D!Send, S!Continue,
     D!Continue, S!Return, D!Return, S!Fits, D!Fits, S!Used, D!Used, S!NextId,
     D!NextId, S!Unused, D!Unused, S!Ahead, D!Ahead, S!InFlight, D!InFlight, S!Ids,
     D!Ids, S!Control, D!Control, S!PublishPacket, D!PublishPacket, S!NoMessage,
     D!NoMessage, S!NoId, D!NoId, S!Acknowledge, D!Acknowledge, S!HandlePuback,
     D!HandlePuback, S!HandlePubrec, D!HandlePubrec, S!HandlePubcomp, D!HandlePubcomp,
     S!Completes, D!Completes, S!Arrived, D!Arrived, S!Found, D!Found, S!First,
     D!First, S!Without, D!Without, S!Tick, D!Tick, S!ConnLost, D!ConnLost,
     S!Reconnect, D!Reconnect, S!ClientReceives, D!ClientReceives, S!Deliver,
     D!Deliver, S!Answer, D!Answer, S!queue, D!queue, S!client, D!client, S!history,
     D!history, S!loop, D!loop, S!vars, D!vars, S!Cardinality, D!Cardinality

\* The invariant of Delivery implies what is asked of the subscriber.
LEMMA SubscriberSees == D!Inv => S!NoneLost /\ S!ExactlyOnce
BY DEF D!Inv, D!FlowInv, D!Kept, D!NoneLost, S!NoneLost, D!Entries, D!Elems, D!SeenSet,
   S!SeenSet, D!ExactlyOnce, S!ExactlyOnce

----------------------------------------------------------------------------
(* Theorems about both hops.                                               *)

\* The two halves keep their invariants and stay in step with each other.
E2EInv == Inv /\ D!Inv /\ Copies

\* Whatever the two clients lose and the broker routes, both halves keep what
\* they promise alone.
THEOREM EndToEndInvariant == E2ESpec => []E2EInv
<1>1. E2EInit => E2EInv
  <2> SUFFICES ASSUME E2EInit PROVE E2EInv
    OBVIOUS
  <2>1. Inv /\ Copies
    BY InitInv, CopiesInit DEF E2EInit
  <2>2. D!Inv
    BY SubscriberInit DEF E2EInit
  <2>3. QED
    BY <2>1, <2>2 DEF E2EInv
<1>2. E2EInv /\ [E2ENext]_all => E2EInv'
  <2> SUFFICES ASSUME E2EInv, [E2ENext]_all PROVE E2EInv'
    OBVIOUS
  <2>1. Inv /\ D!Inv /\ Copies
    BY DEF E2EInv
  <2>2. Inv' /\ Copies'
    BY <2>1, PublisherStep, InboundNext, CopiesStep
  <2>3. D!Inv'
    <3>1. [D!Next]_D!vars
      BY <2>1, SubscriberStep, SubscriberNext DEF Copies
    <3>2. QED
      BY <2>1, <3>1, DeliverySizes, D!FlowsNext
  <2>4. QED
    BY <2>2, <2>3 DEF E2EInv
<1>3. QED
  BY <1>1, <1>2, PTL DEF E2ESpec

\* Exactly once over both hops, handle_publish() to the subscriber's
\* application: no message completed for the publisher is lost, none that the
\* inbound table has not forgotten is queued twice, and no queued copy is seen
\* twice at QoS 2.
THEOREM OnceEndToEndAlways == E2ESpec => []OnceEndToEnd
<1>1. E2EInv => OnceEndToEnd
  <2> SUFFICES ASSUME E2EInv, granted > 0
               PROVE  /\ \A m \in completed : Reaches(m) # {}
                      /\ S!NoneLost
                      /\ \A m \in Messages : Cardinality(Reaches(m)) > 1 => m \in forgotten
                      /\ S!ExactlyOnce
    BY DEF OnceEndToEnd
  <2>1. Inv /\ D!Inv /\ Copies
    BY DEF E2EInv
  <2>2. S!NoneLost /\ S!ExactlyOnce
    BY <2>1, SubscriberSees
  <2>3. QED
    BY <2>1, <2>2, CopiesOnce
<1>2. QED
  BY <1>1, EndToEndInvariant, PTL

====
