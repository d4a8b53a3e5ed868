--------------------------- MODULE RetainedProofs ---------------------------
(***************************************************************************)
(* Proofs about Retained, for any store, filters, ring and number of       *)
(* packets: a topic has one entry and it is the last message published,    *)
(* and a replay that pauses sends nothing twice.                           *)
(***************************************************************************)
EXTENDS Retained, FiniteSetTheorems, TLAPS

\* A leaf that names no prover is given to the SMT solver; the others name Zenon.
USE SMTT(60)

----------------------------------------------------------------------------
(* The store.                                                              *)

\* A topic has at most one entry.
OneEach == \A s, t \in Slots : Used(s) /\ store[s].topic = store[t].topic => s = t

\* The entry is the last message published under its topic.
Newest == \A s \in Slots : Used(s) => store[s].value = latest[store[s].topic]

\* for_each() visits no more entries than there are slots.
LEMMA VisitedBound == MaxRetained \in Nat => Visited \in 0..MaxRetained
<1> SUFFICES ASSUME MaxRetained \in Nat PROVE Visited \in 0..MaxRetained
  OBVIOUS
<1>1. IsFiniteSet(1..MaxRetained) /\ Cardinality(1..MaxRetained) = MaxRetained
  BY FS_Interval
<1>2. {s \in Slots : Used(s)} \subseteq 1..MaxRetained
  BY DEF Slots
<1>3. /\ IsFiniteSet({s \in Slots : Used(s)})
      /\ Cardinality({s \in Slots : Used(s)}) <= MaxRetained
  BY <1>1, <1>2, FS_Subset
<1>4. Cardinality({s \in Slots : Used(s)}) \in Nat
  BY <1>3, FS_CardinalityType
<1>5. QED
  BY <1>3, <1>4 DEF Visited

\* No slot comes before another and after it.
LEMMA LowestOne == \A S \in SUBSET Slots : \A s, t \in Lowest(S) : s = t
BY DEF Lowest, Slots

\* What a change of the store for a topic leaves: one slot at most has it,
\* with the message given, and the others are as they were.
Changes(t, v, q) ==
    /\ store' \in [Slots -> Entry]
    /\ \A s \in Slots :
        \/ store'[s] = store[s] /\ store[s].topic # t
        \/ store'[s] = [topic |-> t, value |-> v, qos |-> q]
        \/ store'[s] = Empty
    /\ \A r, s \in Slots : store'[r].topic = t /\ store'[s].topic = t => r = s

\* set(): the slot of the topic, or the first free one, takes the message.
LEMMA SetChanges ==
    ASSUME TypeOK, OneEach, NEW t \in Topics, NEW v \in 0..MaxVersions, NEW q \in QoSs,
           NEW oversize \in BOOLEAN, store' = Set(t, v, q, oversize)
    PROVE  Changes(t, v, q)
<1>1. /\ t # NoTopic /\ Empty \in Entry
      /\ [topic |-> t, value |-> v, qos |-> q] \in Entry
  BY RetainedAssumption DEF Entry, Empty
<1>2. \A s \in Slots : store[s] \in Entry
  BY DEF TypeOK
<1>3. \A s \in Slots : s \in SlotOf(t) <=> store[s].topic = t
  BY DEF SlotOf
<1>4. \A r, s \in Slots : r \in SlotOf(t) /\ s \in SlotOf(t) => r = s
  BY <1>1, <1>3 DEF OneEach, Used
<1>5. \A r, s \in Lowest(Free) : r = s
  BY LowestOne DEF Free
<1>6. \A s \in Slots : store'[s] =
        IF oversize
        THEN IF s \in SlotOf(t) THEN Empty ELSE store[s]
        ELSE IF s \in SlotOf(t) \/ (SlotOf(t) = {} /\ s \in Lowest(Free))
             THEN [topic |-> t, value |-> v, qos |-> q] ELSE store[s]
  BY DEF Set
<1>7. store' \in [Slots -> Entry]
  BY <1>1, <1>2 DEF Set
<1>8. \A s \in Slots :
        \/ store'[s] = store[s] /\ store[s].topic # t
        \/ store'[s] = [topic |-> t, value |-> v, qos |-> q]
        \/ store'[s] = Empty
  BY <1>3, <1>6
<1>9. \A r, s \in Slots : store'[r].topic = t /\ store'[s].topic = t => r = s
  <2> SUFFICES ASSUME NEW r \in Slots, NEW s \in Slots, store'[r].topic = t, store'[s].topic = t
               PROVE  r = s
    OBVIOUS
  <2>1. Empty.topic # t
    BY <1>1 DEF Empty
  <2>2. CASE oversize
    BY <1>3, <1>6, <2>1, <2>2, ZenonT(60)
  <2>3. CASE ~oversize /\ SlotOf(t) = {}
    BY <1>3, <1>5, <1>6, <2>3
  <2>4. CASE ~oversize /\ SlotOf(t) # {}
    BY <1>3, <1>4, <1>6, <2>4
  <2>5. QED
    BY <2>2, <2>3, <2>4
<1>10. QED
  BY <1>7, <1>8, <1>9 DEF Changes

\* remove() empties the slot of the topic.
LEMMA RemovedChanges ==
    ASSUME TypeOK, OneEach, NEW t \in Topics, NEW v, NEW q, store' = Removed(t)
    PROVE  Changes(t, v, q)
<1>1. t # NoTopic /\ Empty \in Entry /\ Empty.topic # t
  BY RetainedAssumption DEF Entry, Empty
<1>2. \A s \in Slots : store'[s] = IF s \in SlotOf(t) THEN Empty ELSE store[s]
  BY DEF Removed
<1>3. \A s \in Slots : s \in SlotOf(t) <=> store[s].topic = t
  BY DEF SlotOf
<1>4. store' \in [Slots -> Entry]
  BY <1>1 DEF Removed, TypeOK
<1>5. QED
  BY <1>1, <1>2, <1>3, <1>4 DEF Changes

\* A change of the store for a topic keeps the store's invariants.
LEMMA StoreKept ==
    ASSUME TypeOK, OneEach, Newest, NEW t \in Topics, NEW v \in 0..MaxVersions, NEW q,
           Changes(t, v, q), latest' = [latest EXCEPT ![t] = v]
    PROVE  OneEach' /\ Newest'
<1>1. latest'[t] = v /\ \A u \in Topics : u # t => latest'[u] = latest[u]
  BY DEF TypeOK
<1>2. t # NoTopic /\ Empty.topic = NoTopic
  BY RetainedAssumption DEF Empty
<1>3. \A s \in Slots : Used(s) => store[s].topic \in Topics
  BY DEF TypeOK, Entry, Used
<1>4. \A s \in Slots : store'[s].topic \in {store[s].topic, t, NoTopic}
  BY <1>2 DEF Changes
<1>5. OneEach'
  <2> SUFFICES ASSUME NEW r \in Slots, NEW s \in Slots, store'[r].topic # NoTopic,
                      store'[r].topic = store'[s].topic
               PROVE  r = s
    BY DEF OneEach, Used, Slots
  <2>1. CASE store'[r].topic = t
    BY <2>1, ZenonT(60) DEF Changes
  <2>2. CASE store'[r].topic # t
    <3>1. store'[r] = store[r] /\ store'[s] = store[s]
      BY <1>2, <2>2 DEF Changes
    <3>2. QED
      BY <3>1 DEF OneEach, Used
  <2>3. QED
    BY <2>1, <2>2
<1>6. Newest'
  <2> SUFFICES ASSUME NEW s \in Slots, store'[s].topic # NoTopic
               PROVE  store'[s].value = latest'[store'[s].topic]
    BY DEF Newest, Used, Slots
  <2>1. CASE store'[s] = store[s] /\ store[s].topic # t
    BY <1>1, <1>3, <2>1 DEF Newest, Used
  <2>2. CASE store'[s] = [topic |-> t, value |-> v, qos |-> q]
    BY <1>1, <2>2
  <2>3. CASE store'[s] = Empty
    BY <1>2, <2>3
  <2>4. QED
    BY <2>1, <2>2, <2>3 DEF Changes
<1>7. QED
  BY <1>5, <1>6

----------------------------------------------------------------------------
(* The replay.                                                             *)

\* The entries a walk has behind it: those it visited, or visited before it
\* paused.
Passed == IF cursor < here THEN here ELSE cursor

\* As long as the store has not changed since the SUBSCRIBE, a message was
\* replayed once at most, and while filters wait for the rest of the replay it
\* is one the walk has behind it.
ReplayedBehind ==
    ~changed => \A t \in Topics :
        /\ times[t] \in {0, 1}
        /\ times[t] = 1 /\ AnyPending =>
                \E n \in 0..(Passed - 1) : \E s \in Nth(n) : store[s].topic = t

\* The walk starts at the first entry.
IdleAtStart == pc = "idle" => here = 0

\* The inductive invariant.
RetainedInv == TypeOK /\ OneEach /\ Newest /\ IdleAtStart /\ ReplayedBehind

\* What the walk goes by is as it was.
SameWalk ==
    /\ \A s \in Slots : store'[s].topic = store[s].topic
    /\ times' = times

\* Entries are where they were when the topics of the slots are.
LEMMA SameNth ==
    ASSUME \A s \in Slots : store'[s].topic = store[s].topic
    PROVE  \A n : Nth(n)' = Nth(n)
<1>1. \A s \in Slots : Used(s)' <=> Used(s)
  BY DEF Used
<1>2. ASSUME NEW s \in Slots
      PROVE  {r \in Slots : Used(r)' /\ r < s} = {r \in Slots : Used(r) /\ r < s}
  BY <1>1
<1>3. QED
  BY <1>1, <1>2 DEF Nth, Slots

\* What is below a number is below a larger one.
LEMMA Within == \A p, q \in Nat : p <= q => \A n \in 0..(p - 1) : n \in 0..(q - 1)
OBVIOUS

\* A step that replays nothing keeps ReplayedBehind when it leaves the topics
\* alone, goes back over nothing and makes no filter wait.
LEMMA WalkKept ==
    ASSUME ReplayedBehind, SameWalk, changed' = changed, AnyPending' => AnyPending,
           Passed \in Nat, Passed' \in Nat, AnyPending' => Passed <= Passed'
    PROVE  ReplayedBehind'
<1> SUFFICES ASSUME ~changed, NEW t \in Topics
             PROVE  /\ times'[t] \in {0, 1}
                    /\ times'[t] = 1 /\ AnyPending' =>
                        \E n \in 0..(Passed' - 1) : \E s \in Nth(n)' : store'[s].topic = t
  BY ZenonT(60) DEF ReplayedBehind
<1>1. times'[t] \in {0, 1}
  BY DEF ReplayedBehind, SameWalk
<1>2. ASSUME times'[t] = 1, AnyPending'
      PROVE  \E n \in 0..(Passed' - 1) : \E s \in Nth(n)' : store'[s].topic = t
  <2>1. PICK n \in 0..(Passed - 1) : \E s \in Nth(n) : store[s].topic = t
    BY <1>2 DEF ReplayedBehind, SameWalk
  <2>2. PICK p, q \in Nat : p = Passed /\ q = Passed' /\ p <= q
    BY <1>2
  <2>3. n \in 0..(Passed' - 1)
    BY <2>1, <2>2, Within, ZenonT(60)
  <2>4. PICK s \in Nth(n) : store[s].topic = t
    BY <2>1
  <2>5. s \in Nth(n)' /\ s \in Slots
    BY <2>4, SameNth, ZenonT(60) DEF SameWalk, Nth
  <2>6. store'[s].topic = t
    BY <2>4, <2>5 DEF SameWalk
  <2>7. QED
    BY <2>3, <2>5, <2>6, ZenonT(60)
<1>3. QED
  BY <1>1, <1>2, ZenonT(60)

----------------------------------------------------------------------------
(* The steps.                                                              *)

\* send_to() and route_publish() keep the ring within its size.
LEMMA RingKept ==
    ASSUME TypeOK
    PROVE  /\ Answer => used' \in 0..RingSize /\ conn' \in {"on", "dead", "off"}
           /\ \A t, q : Route(t, q) => used' \in 0..RingSize /\ conn' \in {"on", "dead", "off"}
<1>1. used \in 0..RingSize /\ conn \in {"on", "dead", "off"} /\ RingSize \in Nat
  BY RetainedAssumption DEF TypeOK
<1>2. Min(used + 1, RingSize) \in 0..RingSize
  BY <1>1 DEF Min
<1>3. used < RingSize => used + 1 \in 0..RingSize
  BY <1>1
<1>4. Answer => used' \in 0..RingSize /\ conn' \in {"on", "dead", "off"}
  BY <1>1, <1>3 DEF Answer
<1>5. QED
  BY <1>1, <1>2, <1>4 DEF Route

\* apply_retain(), for a message that is kept, removed, or refused by the store.
LEMMA PublishStep ==
    ASSUME RetainedInv, NEW t \in Topics, NEW q \in QoSs,
           NEW kind \in {"empty", "oversize", "kept"}, Publish(t, q, kind)
    PROVE  RetainedInv'
<1>1. TypeOK /\ OneEach /\ Newest /\ IdleAtStart /\ ReplayedBehind
  BY DEF RetainedInv
<1>2. PICK v : v = versions + 1
  OBVIOUS
<1>3. v \in 0..MaxVersions /\ versions' = v
  BY <1>1, <1>2, RetainedAssumption DEF TypeOK, Publish
<1>4. latest' = [latest EXCEPT ![t] = v] /\ latest' \in [Topics -> 0..MaxVersions]
  BY <1>1, <1>3, ZenonT(60) DEF TypeOK, Publish
<1>5. Changes(t, v, q)
  <2>1. CASE kind = "empty"
    BY <1>1, <2>1, RemovedChanges DEF Publish
  <2>2. CASE kind # "empty"
    <3>1. store' = Set(t, v, q, kind = "oversize") /\ (kind = "oversize") \in BOOLEAN
      BY <1>3, <2>2 DEF Publish
    <3>2. QED
      BY <1>1, <1>3, <3>1, SetChanges, ZenonT(60)
  <2>3. QED
    BY <2>1, <2>2
<1>6. OneEach' /\ Newest'
  BY <1>1, <1>3, <1>4, <1>5, StoreKept, ZenonT(60)
<1>7. used' \in 0..RingSize /\ conn' \in {"on", "dead", "off"}
  BY <1>1, RingKept DEF Publish
<1>8. TypeOK'
  <2>1. changed' \in BOOLEAN /\ owed' \subseteq owed
    BY DEF Publish
  <2>2. store' \in [Slots -> Entry]
    BY <1>5 DEF Changes
  <2>3. /\ subs' = subs /\ cursor' = cursor /\ pc' = pc /\ here' = here
        /\ times' = times /\ subscribes' = subscribes /\ losses' = losses
    BY DEF Publish, session, loop
  <2>4. QED
    BY <1>1, <1>3, <1>4, <1>7, <2>1, <2>2, <2>3 DEF TypeOK, Slots, Entry, Subscription, Promises
<1>9. IdleAtStart'
  BY <1>1 DEF Publish, loop, IdleAtStart
<1>10. ReplayedBehind'
  <2>1. CASE changed'
    BY <2>1 DEF ReplayedBehind
  <2>2. CASE ~changed'
    <3>1. \A s \in Slots : store'[s].topic = store[s].topic
      BY <2>2, ZenonT(60) DEF Publish
    <3>2. changed' = changed
      BY <1>1, <2>2, ZenonT(60) DEF Publish, TypeOK
    <3>3. SameWalk
      BY <3>1 DEF SameWalk, Publish
    <3>4. AnyPending' = AnyPending /\ Passed' = Passed
      BY DEF Publish, session, loop, AnyPending, Passed
    <3>5. Passed \in Nat /\ Passed <= Passed
      BY <1>1, RetainedAssumption DEF TypeOK, Passed
    <3>6. QED
      BY <1>1, <3>2, <3>3, <3>4, <3>5, WalkKept
  <2>3. QED
    BY <2>1, <2>2
<1>11. QED
  BY <1>6, <1>8, <1>9, <1>10 DEF RetainedInv


\* handle_subscribe() starts the count of what is replayed anew.
LEMMA SubscribeStep ==
    ASSUME RetainedInv, NEW G \in SUBSET Filters, NEW q \in QoSs, Subscribe(G, q)
    PROVE  RetainedInv'
<1>1. TypeOK /\ OneEach /\ Newest /\ IdleAtStart /\ ReplayedBehind
  BY DEF RetainedInv
<1>2. used' \in 0..RingSize /\ conn' \in {"on", "dead", "off"}
  BY <1>1, RingKept DEF Subscribe
<1>3. TypeOK'
  <2>1. subs' \in [Filters -> Subscription]
    <3>1. ASSUME NEW f \in Filters
          PROVE  /\ [held |-> TRUE, granted |-> q, pending |-> TRUE] \in Subscription
                 /\ [subs[f] EXCEPT !.pending = FALSE] \in Subscription
      BY <1>1, ZenonT(60) DEF TypeOK, Subscription
    <3>2. QED
      BY <3>1, ZenonT(60) DEF Subscribe
  <2>2. /\ cursor' \in 0..MaxRetained /\ pc' \in {"idle", "replay"}
        /\ here' \in 0..MaxRetained /\ times' \in [Topics -> Nat] /\ changed' \in BOOLEAN
    <3>1. 0 \in 0..MaxRetained /\ 0 \in Nat
      BY RetainedAssumption
    <3>2. QED
      BY <1>1, <3>1, ZenonT(60) DEF TypeOK, Subscribe, loop
  <2>3. owed' \subseteq Promises
    BY <1>1 DEF TypeOK, Subscribe
  <2>4. subscribes' \in 0..MaxSubscribes
    BY <1>1, RetainedAssumption DEF TypeOK, Subscribe
  <2>5. store' = store /\ latest' = latest /\ versions' = versions /\ losses' = losses
    BY DEF Subscribe
  <2>6. QED
    BY <1>1, <1>2, <2>1, <2>2, <2>3, <2>4, <2>5 DEF TypeOK, Slots, Entry, Subscription, Promises
<1>4. OneEach' /\ Newest'
  BY <1>1 DEF Subscribe, OneEach, Newest, Used
<1>5. IdleAtStart'
  BY <1>1 DEF Subscribe, loop, IdleAtStart
<1>6. ReplayedBehind'
  <2>1. \A t \in Topics : times'[t] = 0
    BY DEF Subscribe
  <2>2. QED
    BY <2>1 DEF ReplayedBehind
<1>7. QED
  BY <1>3, <1>4, <1>5, <1>6 DEF RetainedInv

\* handle_unsubscribe() leaves fewer filters that wait.
LEMMA UnsubscribeStep ==
    ASSUME RetainedInv, NEW f \in Filters, Unsubscribe(f)
    PROVE  RetainedInv'
<1>1. TypeOK /\ OneEach /\ Newest /\ IdleAtStart /\ ReplayedBehind
  BY DEF RetainedInv
<1>2. used' \in 0..RingSize /\ conn' \in {"on", "dead", "off"}
  BY <1>1, RingKept DEF Unsubscribe
<1>3. /\ store' = store /\ cursor' = cursor /\ pc' = pc /\ here' = here /\ latest' = latest
      /\ versions' = versions /\ times' = times /\ changed' = changed
      /\ subscribes' = subscribes /\ losses' = losses
  BY DEF Unsubscribe, loop
<1>4. /\ subs' \in [Filters -> Subscription]
      /\ \A g \in Filters : subs'[g].pending => subs[g].pending
  BY <1>1 DEF Unsubscribe, NoSub, Subscription, TypeOK
<1>5. owed' \subseteq owed
  BY DEF Unsubscribe
<1>6. TypeOK'
  BY <1>1, <1>2, <1>3, <1>4, <1>5 DEF TypeOK, Slots, Entry, Subscription, Promises
<1>7. OneEach' /\ Newest' /\ IdleAtStart'
  BY <1>1, <1>3 DEF OneEach, Newest, IdleAtStart, Used
<1>8. ReplayedBehind'
  <2>1. AnyPending' => AnyPending
    BY <1>4 DEF AnyPending
  <2>2. SameWalk /\ Passed' = Passed
    BY <1>3 DEF SameWalk, Passed
  <2>3. Passed \in Nat /\ Passed <= Passed
    BY <1>1, RetainedAssumption DEF TypeOK, Passed
  <2>4. QED
    BY <1>1, <1>3, <2>1, <2>2, <2>3, WalkKept
<1>9. QED
  BY <1>6, <1>7, <1>8 DEF RetainedInv

\* A step of the walk or of the connection: what only changes where the walk
\* is, and what is in the ring.
Moves ==
    /\ store' = store /\ subs' = subs /\ latest' = latest /\ versions' = versions
    /\ owed' = owed /\ times' = times /\ changed' = changed /\ subscribes' = subscribes

\* Where the walk is only goes forward.
LEMMA MovesStep ==
    ASSUME RetainedInv, Moves,
           cursor' \in 0..MaxRetained, here' \in 0..MaxRetained, Passed <= Passed',
           conn' \in {"on", "dead", "off"}, used' \in 0..RingSize, pc' \in {"idle", "replay"},
           losses' \in 0..MaxLosses, IdleAtStart'
    PROVE  RetainedInv'
<1>1. TypeOK /\ OneEach /\ Newest /\ IdleAtStart /\ ReplayedBehind
  BY DEF RetainedInv
<1>2. TypeOK'
  BY <1>1 DEF TypeOK, Slots, Entry, Subscription, Promises, Moves
<1>3. OneEach' /\ Newest'
  BY <1>1 DEF OneEach, Newest, Used, Moves
<1>4. ReplayedBehind'
  <2>1. AnyPending' = AnyPending /\ SameWalk /\ changed' = changed
    BY DEF AnyPending, Moves, SameWalk
  <2>2. Passed \in Nat /\ Passed' \in Nat
    BY <1>1, <1>2, RetainedAssumption DEF TypeOK, Passed
  <2>3. QED
    BY <1>1, <2>1, <2>2, WalkKept
<1>5. QED
  BY <1>2, <1>3, <1>4 DEF RetainedInv


\* A message of the replay is sent, the walk goes past it, or the walk pauses.
LEMMA ReplayEntryStep ==
    ASSUME RetainedInv, NEW s \in Slots, ReplayEntry(s)
    PROVE  RetainedInv'
<1>1. TypeOK /\ OneEach /\ Newest /\ IdleAtStart /\ ReplayedBehind
  BY DEF RetainedInv
<1>2. here \in 0..MaxRetained /\ cursor \in 0..MaxRetained /\ MaxRetained \in Nat
  BY <1>1, RetainedAssumption DEF TypeOK
<1>3. pc = "replay" /\ here < Visited /\ s \in Nth(here) /\ here >= cursor
  BY DEF ReplayEntry, Replaying
<1>4. here + 1 \in 0..MaxRetained
  BY <1>2, <1>3, VisitedBound
<1>5. PICK t : t = store[s].topic
  OBVIOUS
<1>6. t \in Topics /\ Used(s)
  <2>1. Used(s)
    BY <1>3 DEF Nth
  <2>2. QED
    BY <1>1, <1>5, <2>1 DEF TypeOK, Entry, Used
<1>7. /\ store' = store /\ subs' = subs /\ conn' = conn /\ latest' = latest
      /\ versions' = versions /\ changed' = changed /\ subscribes' = subscribes
      /\ losses' = losses
  BY DEF ReplayEntry
<1>8. CASE /\ cursor' = here /\ pc' = "idle" /\ here' = 0
           /\ used' = used /\ owed' = owed /\ times' = times
  <2>1. Passed <= Passed'
    BY <1>2, <1>3, <1>8 DEF Passed
  <2>2. Moves /\ IdleAtStart' /\ 0 \in 0..MaxRetained
    <3>1. 0 \in 0..MaxRetained
      BY <1>2
    <3>2. QED
      BY <1>7, <1>8, <3>1 DEF Moves, IdleAtStart
  <2>3. /\ conn' \in {"on", "dead", "off"} /\ used' \in 0..RingSize
        /\ losses' \in 0..MaxLosses
    BY <1>1, <1>7, <1>8 DEF TypeOK
  <2>4. QED
    BY <1>2, <1>8, <2>1, <2>2, <2>3, MovesStep
<1>9. CASE /\ Delivered(t) /\ used' \in 0..RingSize
           /\ here' = here + 1 /\ cursor' = cursor /\ pc' = pc
  <2>1. times' \in [Topics -> Nat] /\ owed' \subseteq owed
    <3>1. \A k \in Nat : k + 1 \in Nat
      OBVIOUS
    <3>2. times \in [Topics -> Nat] /\ times' = [times EXCEPT ![t] = times[t] + 1]
      BY <1>1, <1>9 DEF Delivered, TypeOK
    <3>3. QED
      BY <1>6, <1>9, <3>1, <3>2 DEF Delivered
  <2>2. TypeOK'
    BY <1>1, <1>4, <1>7, <1>9, <2>1 DEF TypeOK, Slots, Entry, Subscription, Promises
  <2>3. OneEach' /\ Newest' /\ IdleAtStart'
    BY <1>1, <1>3, <1>7, <1>9 DEF OneEach, Newest, Used, IdleAtStart
  <2>4. ReplayedBehind'
    <3>1. Passed = here /\ Passed' = here + 1 /\ AnyPending' = AnyPending /\ AnyPending
      <4>1. Passed = here /\ Passed' = here + 1
        BY <1>2, <1>3, <1>9 DEF Passed
      <4>2. AnyPending
        BY DEF ReplayEntry, Pending, Matching, AnyPending
      <4>3. QED
        BY <1>7, <4>1, <4>2 DEF AnyPending
    <3>2. \A n : Nth(n)' = Nth(n)
      BY <1>7, SameNth
    <3>3. here \in Nat /\ here + 1 \in Nat /\ here \in 0..((here + 1) - 1)
      BY <1>2
    <3>4. \A n \in 0..(here - 1) : n # here /\ n \in 0..((here + 1) - 1)
      BY <1>2
    <3>5. ~changed => times[t] = 0
      <4>1. SUFFICES ASSUME ~changed, times[t] = 1 PROVE FALSE
        BY <1>1, <1>6 DEF ReplayedBehind
      <4>2. PICK n \in 0..(here - 1) : \E r \in Nth(n) : store[r].topic = t
        BY <1>1, <1>6, <3>1, <4>1 DEF ReplayedBehind
      <4>3. PICK r \in Nth(n) : store[r].topic = t
        BY <4>2
      <4>4. r = s
        BY <1>1, <1>5, <1>6, <4>3 DEF OneEach, Nth, Used
      <4>5. n = here
        BY <1>3, <4>3, <4>4 DEF Nth
      <4>6. QED
        BY <3>4, <4>2, <4>5
    <3>6. times'[t] = times[t] + 1 /\ \A u \in Topics : u # t => times'[u] = times[u]
      BY <1>1, <1>6, <1>9 DEF Delivered, TypeOK
    <3>7. ASSUME ~changed, NEW u \in Topics
          PROVE  /\ times'[u] \in {0, 1}
                 /\ times'[u] = 1 => \E n \in 0..((here + 1) - 1) : \E r \in Nth(n) : store[r].topic = u
      <4>1. CASE u = t
        <5>1. times'[u] = 1
          BY <3>5, <3>6, <3>7, <4>1
        <5>2. QED
          BY <1>3, <1>5, <3>3, <4>1, <5>1
      <4>2. CASE u # t
        BY <1>1, <3>1, <3>4, <3>6, <3>7, <4>2 DEF ReplayedBehind
      <4>3. QED
        BY <4>1, <4>2
    <3>8. QED
      BY <1>7, <3>1, <3>2, <3>7 DEF ReplayedBehind
  <2>5. QED
    BY <2>2, <2>3, <2>4 DEF RetainedInv
<1>10. QED
  <2>1. used' \in 0..RingSize
    <3>1. used \in 0..RingSize /\ RingSize \in Nat
      BY <1>1, RetainedAssumption DEF TypeOK
    <3>2. Min(used + 1, RingSize) \in 0..RingSize /\ (used < RingSize => used + 1 \in 0..RingSize)
      BY <3>1 DEF Min
    <3>3. QED
      BY <3>1, <3>2 DEF ReplayEntry
  <2>2. QED
    BY <1>5, <1>7, <1>8, <1>9, <2>1 DEF ReplayEntry, PauseAt


\* A walk that got to the end leaves no filter waiting.
LEMMA ReplayEndStep ==
    ASSUME RetainedInv, ReplayEnd
    PROVE  RetainedInv'
<1>1. TypeOK /\ OneEach /\ Newest /\ IdleAtStart /\ ReplayedBehind
  BY DEF RetainedInv
<1>2. /\ store' = store /\ conn' = conn /\ used' = used /\ latest' = latest
      /\ versions' = versions /\ owed' = owed /\ times' = times /\ changed' = changed
      /\ subscribes' = subscribes /\ losses' = losses
      /\ cursor' = 0 /\ pc' = "idle" /\ here' = 0
  BY DEF ReplayEnd, promise
<1>3. 0 \in 0..MaxRetained
  BY RetainedAssumption
<1>4. /\ subs' \in [Filters -> Subscription]
      /\ \A f \in Filters : ~subs'[f].pending
  <2>1. ASSUME NEW f \in Filters
        PROVE  /\ [subs[f] EXCEPT !.pending = FALSE] \in Subscription
               /\ ~[subs[f] EXCEPT !.pending = FALSE].pending
    BY <1>1, ZenonT(60) DEF TypeOK, Subscription
  <2>2. QED
    BY <2>1, ZenonT(60) DEF ReplayEnd
<1>5. TypeOK'
  BY <1>1, <1>2, <1>3, <1>4 DEF TypeOK, Slots, Entry, Subscription, Promises
<1>6. OneEach' /\ Newest' /\ IdleAtStart'
  BY <1>1, <1>2 DEF OneEach, Newest, Used, IdleAtStart
<1>7. ReplayedBehind'
  <2>1. ~AnyPending'
    BY <1>4 DEF AnyPending
  <2>2. QED
    BY <1>1, <1>2, <2>1 DEF ReplayedBehind
<1>8. QED
  BY <1>5, <1>6, <1>7 DEF RetainedInv

\* Everything else moves the walk or the connection only.
LEMMA OtherSteps ==
    ASSUME RetainedInv,
           Tick \/ ReplaySkip \/ Teardown \/ ConnLost \/ Reconnect \/ ClientReads
    PROVE  RetainedInv'
<1>1. TypeOK /\ IdleAtStart
  BY DEF RetainedInv
<1>2. /\ here \in 0..MaxRetained /\ cursor \in 0..MaxRetained /\ MaxRetained \in Nat
      /\ 0 \in 0..MaxRetained
  BY <1>1, RetainedAssumption DEF TypeOK
<1>3. Moves
  BY DEF Tick, ReplaySkip, Teardown, ConnLost, Reconnect, ClientReads, Moves, session, promise
<1>4. conn' \in {"on", "dead", "off"} /\ pc' \in {"idle", "replay"}
  BY <1>1 DEF Tick, ReplaySkip, Teardown, ConnLost, Reconnect, ClientReads, loop, TypeOK
<1>5. used' \in 0..RingSize
  <2>1. used \in 0..RingSize /\ RingSize \in Nat \ {0}
    BY <1>1, RetainedAssumption DEF TypeOK
  <2>2. 1 \in 0..RingSize /\ (used > 0 => used - 1 \in 0..RingSize)
    BY <2>1
  <2>3. QED
    BY <2>1, <2>2 DEF Tick, ReplaySkip, Teardown, ConnLost, Reconnect, ClientReads
<1>6. losses' \in 0..MaxLosses
  <2>1. losses \in 0..MaxLosses /\ (losses < MaxLosses => losses + 1 \in 0..MaxLosses)
    BY <1>1, RetainedAssumption DEF TypeOK
  <2>2. QED
    BY <2>1 DEF Tick, ReplaySkip, Teardown, ConnLost, Reconnect, ClientReads
<1>7. /\ cursor' = cursor
      /\ \/ here' = here /\ pc' = pc
         \/ here' = 0 /\ here = 0 /\ pc' = "replay"
         \/ here' = here + 1 /\ here < Visited /\ pc' = pc /\ pc = "replay"
  BY <1>1 DEF Tick, ReplaySkip, Replaying, Teardown, ConnLost, Reconnect, ClientReads, loop,
              session, IdleAtStart
<1>8. here < Visited => here + 1 \in 0..MaxRetained
  BY <1>2, VisitedBound
<1>9. here' \in 0..MaxRetained /\ cursor' \in 0..MaxRetained
  BY <1>2, <1>7, <1>8
<1>10. IdleAtStart'
  BY <1>1, <1>7 DEF IdleAtStart
<1>11. Passed <= Passed'
  <2>1. here' \in {here, here + 1}
    BY <1>7
  <2>2. QED
    BY <1>2, <1>7, <2>1 DEF Passed
<1>12. QED
  BY <1>3, <1>4, <1>5, <1>6, <1>9, <1>10, <1>11, MovesStep

----------------------------------------------------------------------------
(* Theorems.                                                               *)

\* An empty store and no subscription.
LEMMA InitInv == Init => RetainedInv
<1> SUFFICES ASSUME Init PROVE RetainedInv
  OBVIOUS
<1>1. /\ 0 \in 0..MaxRetained /\ 0 \in 0..MaxVersions /\ 0 \in 0..RingSize
      /\ 0 \in 0..MaxSubscribes /\ 0 \in 0..MaxLosses /\ 0 \in Nat
  BY RetainedAssumption
<1>2. store \in [Slots -> Entry]
  <2>1. ASSUME NEW s \in Slots PROVE store[s] \in Entry
    BY <1>1, RetainedAssumption DEF Init, Entry
  <2>2. QED
    BY <2>1 DEF Init
<1>3. subs \in [Filters -> Subscription]
  BY DEF Init, NoSub, Subscription
<1>4. TypeOK
  BY <1>1, <1>2, <1>3, ZenonT(60) DEF Init, TypeOK
<1>5. OneEach /\ IdleAtStart
  BY DEF Init, OneEach, Used, IdleAtStart
<1>6. Newest
  <2> SUFFICES ASSUME NEW s \in Slots, Used(s) PROVE store[s].value = latest[store[s].topic]
    BY DEF Newest
  <2>1. store[s].value = 0 /\ store[s].topic \in Topics
    BY DEF Init, Used
  <2>2. QED
    BY <2>1 DEF Init
<1>7. ReplayedBehind
  <2>1. \A t \in Topics : times[t] = 0
    BY DEF Init
  <2>2. QED
    BY <2>1 DEF ReplayedBehind
<1>8. QED
  BY <1>4, <1>5, <1>6, <1>7 DEF RetainedInv

\* Whatever is published, subscribed and lost, the store and the walk are as
\* the properties below need them.
THEOREM RetainedInvariant == Spec => []RetainedInv
<1>1. ASSUME RetainedInv, [Next]_vars PROVE RetainedInv'
  <2>1. CASE Next
    BY <1>1, <2>1, PublishStep, SubscribeStep, UnsubscribeStep, ReplayEntryStep,
       ReplayEndStep, OtherSteps DEF Next, Step
  <2>2. CASE UNCHANGED vars
    <3>1. Moves /\ here' = here /\ cursor' = cursor /\ conn' = conn /\ used' = used
          /\ pc' = pc /\ losses' = losses
      BY <2>2 DEF vars, Moves
    <3>2. Passed <= Passed' /\ IdleAtStart'
      <4>1. Passed' = Passed /\ Passed \in Nat
        BY <1>1, <3>1, RetainedAssumption DEF Passed, RetainedInv, TypeOK
      <4>2. Passed <= Passed'
        BY <4>1
      <4>3. QED
        BY <1>1, <3>1, <4>2 DEF RetainedInv, IdleAtStart
    <3>3. QED
      BY <1>1, <3>1, <3>2, MovesStep DEF RetainedInv, TypeOK
  <2>3. QED
    BY <1>1, <2>1, <2>2
<1>2. QED
  BY <1>1, InitInv, PTL DEF Spec

\* A topic has at most one entry and its value is the last one published,
\* whether set() replaced, dropped or removed what was there.
THEOREM LastValueAlways == Spec => []LastValue
<1>1. RetainedInv => LastValue
  BY DEF RetainedInv, LastValue, OneEach, Newest
<1>2. QED
  BY <1>1, RetainedInvariant, PTL

\* replay_retained() sends a message at most once for a SUBSCRIBE, however
\* often it pauses, while the set of retained topics stays as it is.
THEOREM ReplayedOnceAlways == Spec => []ReplayedOnce
<1>1. RetainedInv => ReplayedOnce
  <2> SUFFICES ASSUME RetainedInv, NEW t \in Topics, times[t] > 1, ~changed PROVE FALSE
    BY DEF ReplayedOnce
  <2>1. times[t] \in {0, 1}
    BY DEF RetainedInv, ReplayedBehind
  <2>2. QED
    BY <2>1
<1>2. QED
  BY <1>1, RetainedInvariant, PTL

====
