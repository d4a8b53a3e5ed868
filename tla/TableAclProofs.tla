--------------------------- MODULE TableAclProofs ---------------------------
(***************************************************************************)
(* TableAcl and the two topic loops it runs, for any tables, and filters   *)
(* and names of any length over any words.                                 *)
(***************************************************************************)
EXTENDS TableAcl, WellFoundedInduction, TLAPS

\* A leaf that names no prover is given to the SMT solver.
USE SMTT(60)

\* The shape of the arguments topic_matches() may be called with.
LEMMA Shapes ==
    /\ \A f \in Filters :
        /\ Len(f) \in Nat \ {0} /\ Len(f) <= MaxLevels
        /\ Len(f) = 1 => f[1] # EmptyWord
        /\ f \in Seq(Words \cup Wildcards)
        /\ DOMAIN f = 1..Len(f)
        /\ \A k \in 1..Len(f) : f[k] \in Words \cup Wildcards
        /\ \A k \in 1..(Len(f) - 1) : f[k] # "#"
    /\ \A n \in Names :
        /\ Len(n) \in Nat \ {0}
        /\ DOMAIN n = 1..Len(n)
        /\ \A k \in 1..Len(n) : n[k] \in Words
<1>1. ASSUME NEW L, NEW max \in Nat, NEW f \in Strings(L, max)
      PROVE  /\ Len(f) \in Nat \ {0} /\ Len(f) <= max
             /\ Len(f) = 1 => f[1] # EmptyWord
             /\ f \in Seq(L) /\ DOMAIN f = 1..Len(f)
             /\ \A k \in 1..Len(f) : f[k] \in L
  <2>1. PICK k \in 1..max : f \in [1..k -> L]
    BY DEF Strings
  <2>2. k \in Nat /\ f \in Seq(L) /\ Len(f) = k
    BY <2>1
  <2>3. f # [j \in {1} |-> EmptyWord]
    BY ZenonT(60) DEF Strings
  <2>4. ASSUME k = 1 PROVE f[1] # EmptyWord
    <3>1. 1..k = {1}
      BY <2>4
    <3>2. f = [j \in {1} |-> f[j]]
      BY <2>1, <3>1
    <3>3. QED
      BY <2>3, <3>2
  <2>5. QED
    BY <2>1, <2>2, <2>4
<1>2. QED
  BY <1>1, TopicAssumption DEF Filters, Names

\* topic_matches() is called with the filters and names of TableAcl.
LEMMA MatchWords ==
    /\ M!Filters = Filters /\ M!Names = Names /\ M!Wildcards = Wildcards
    /\ \A f, n : M!Matches(f, n) <=> Matches(f, n)
<1>1. M!Wildcards = Wildcards
  BY DEF M!Wildcards, Wildcards
<1>2. \A L, n : M!Strings(L, n) = Strings(L, n)
  BY ZenonT(60) DEF M!Strings, Strings
<1>3. M!Filters = Filters /\ M!Names = Names
  BY <1>1, <1>2, ZenonT(60) DEF M!Filters, Filters, M!Names, Names
<1>4. \A f, n : M!Matches(f, n) <=> Matches(f, n)
  BY <1>1, ZenonT(60) DEF M!Matches, Matches, M!Fixed, Fixed
<1>5. QED
  BY <1>1, <1>3, <1>4

\* And so is topic_filter_covers().
LEMMA CoverWords ==
    /\ C!Filters = Filters /\ C!Names = Names /\ C!Wildcards = Wildcards
    /\ \A f, n : C!Matches(f, n) <=> Matches(f, n)
<1>1. C!Wildcards = Wildcards
  BY DEF C!Wildcards, Wildcards
<1>2. \A L, n : C!Strings(L, n) = Strings(L, n)
  BY ZenonT(60) DEF C!Strings, Strings
<1>3. C!Filters = Filters /\ C!Names = Names
  BY <1>1, <1>2, ZenonT(60) DEF C!Filters, Filters, C!Names, Names
<1>4. \A f, n : C!Matches(f, n) <=> Matches(f, n)
  BY <1>1, ZenonT(60) DEF C!Matches, Matches, C!Fixed, Fixed
<1>5. QED
  BY <1>1, <1>3, <1>4

-----------------------------------------------------------------------------
(* topic_matches().                                                        *)

\* The loop invariant holds at first.
LEMMA MatchLoopInit == M!Init => M!LoopInv
<1> SUFFICES ASSUME M!Init PROVE M!LoopInv
  OBVIOUS
<1>1. Len(pattern) \in Nat \ {0} /\ Len(subject) \in Nat \ {0}
  BY Shapes, MatchWords DEF M!Init
<1>2. pi \in 1..Len(pattern) /\ si \in 1..Len(subject) /\ 1..(pi - 1) = {}
  BY <1>1 DEF M!Init
<1>3. QED
  BY <1>2, ZenonT(60) DEF M!Init, M!LoopInv

\* Every step of the loop keeps the loop invariant.
LEMMA MatchLoopStep ==
    M!LoopInv /\ [M!Next \/ M!Done]_M!vars => M!LoopInv'
<1> SUFFICES ASSUME M!LoopInv, [M!Next \/ M!Done]_M!vars PROVE M!LoopInv'
  OBVIOUS
<1>0. Len(pattern) \in Nat \ {0} /\ Len(subject) \in Nat \ {0}
  BY Shapes, MatchWords DEF M!LoopInv
<1>1. CASE M!Start
  BY <1>1, MatchWords, ZenonT(60) DEF M!Start, M!Return, M!LoopInv, M!Dollar
<1>2. CASE M!Hash
  BY <1>2 DEF M!Hash, M!Return, M!LoopInv
<1>3. CASE M!Exhausted
  BY <1>3, ZenonT(60) DEF M!Exhausted, M!Return, M!LoopInv
<1>4. CASE M!Differs
  BY <1>4, ZenonT(60) DEF M!Differs, M!Return, M!LoopInv
<1>5. CASE M!LastLevel
  BY <1>5 DEF M!LastLevel, M!Return, M!LoopInv
<1>6. CASE M!NextLevel
  <2>1. /\ UNCHANGED <<pattern, subject, pc, result>>
        /\ pi' = pi + 1 /\ pi < Len(pattern) /\ active
        /\ pattern[pi] # "#" /\ M!SameLevel
    BY <1>6 DEF M!NextLevel
  <2>2. pi = si
    BY <2>1 DEF M!LoopInv
  <2>3. \A k \in 1..(pi' - 1) : pattern[k] # "#" /\ (pattern[k] = "+" \/ pattern[k] = subject[k])
    BY <1>0, <2>1, <2>2 DEF M!LoopInv, M!SameLevel
  <2>4. CASE si < Len(subject)
    BY <1>0, <1>6, <2>1, <2>2, <2>3, <2>4, MatchWords DEF M!NextLevel, M!LoopInv, M!Dollar
  <2>5. CASE ~(si < Len(subject))
    <3>1. ~active' /\ si' = si
      BY <1>6, <2>5 DEF M!NextLevel
    <3>2. pi' \in 1..Len(pattern)' /\ si' \in 1..Len(subject)' /\ si = Len(subject)
      BY <1>0, <2>1, <2>5, <3>1 DEF M!LoopInv
    <3>3. active' \in BOOLEAN
      BY <1>6, <2>5, ZenonT(60) DEF M!NextLevel
    <3>4. QED
      BY <2>1, <2>2, <2>3, <3>1, <3>2, <3>3, MatchWords DEF M!LoopInv, M!Dollar
  <2>6. QED
    BY <2>4, <2>5
<1>7. CASE UNCHANGED M!vars
  BY <1>7, MatchWords DEF M!vars, M!LoopInv, M!Dollar
<1>8. QED
  BY <1>1, <1>2, <1>3, <1>4, <1>5, <1>6, <1>7 DEF M!Next, M!Done

\* Every return of topic_matches() has the answer the definition gives.
LEMMA ReturnCorrect ==
    M!LoopInv /\ M!MatchCorrect /\ [M!Next \/ M!Done]_M!vars => M!MatchCorrect'
<1> SUFFICES ASSUME M!LoopInv, M!MatchCorrect, [M!Next \/ M!Done]_M!vars
             PROVE  M!MatchCorrect'
  OBVIOUS
<1>0. /\ Len(pattern) \in Nat \ {0} /\ Len(subject) \in Nat \ {0}
      /\ \A k \in 1..(Len(pattern) - 1) : pattern[k] # "#"
      /\ \A k \in 1..Len(subject) : subject[k] \in Words
      /\ pattern \in Filters /\ subject \in Names
  BY Shapes, MatchWords DEF M!LoopInv
<1>1. CASE M!Start
  BY <1>1, MatchWords, ZenonT(60) DEF M!Start, M!Return, M!MatchCorrect, Matches, M!Dollar
<1>2. CASE M!Hash
  <2>1. pi = Len(pattern) /\ Fixed(pattern) = pi - 1
    BY <1>0, <1>2 DEF M!Hash, M!LoopInv, Fixed
  <2>2. Matches(pattern, subject)
    BY <1>0, <1>2, <2>1, MatchWords DEF M!Hash, M!LoopInv, Matches, M!Dollar
  <2>3. QED
    BY <1>2, <2>2, MatchWords, ZenonT(60) DEF M!Hash, M!Return, M!MatchCorrect
<1>3. CASE M!Exhausted
  <2>1. Fixed(pattern) > Len(subject)
    BY <1>0, <1>3 DEF M!Exhausted, M!LoopInv, Fixed
  <2>2. ~Matches(pattern, subject)
    BY <1>0, <2>1, MatchWords DEF Matches, M!LoopInv, Fixed
  <2>3. QED
    BY <1>3, <2>2, MatchWords, ZenonT(60) DEF M!Exhausted, M!Return, M!MatchCorrect, Matches
<1>4. CASE M!Differs
  <2>1. pi \in 1..Fixed(pattern) /\ pi = si
    BY <1>0, <1>4 DEF M!Differs, M!LoopInv, Fixed
  <2>2. ~Matches(pattern, subject)
    BY <1>4, <2>1, MatchWords DEF M!Differs, Matches, M!SameLevel
  <2>3. QED
    BY <1>4, <2>2, MatchWords, ZenonT(60) DEF M!Differs, M!Return, M!MatchCorrect, Matches
<1>5. CASE M!LastLevel
  <2>1. Fixed(pattern) = pi /\ pi = si /\ pattern[Len(pattern)] # "#" /\ ~M!Dollar
    BY <1>0, <1>5 DEF M!LastLevel, M!LoopInv, Fixed
  <2>2. \A k \in 1..pi : pattern[k] = "+" \/ pattern[k] = subject[k]
    BY <1>0, <1>5, <2>1 DEF M!LastLevel, M!LoopInv, M!SameLevel
  <2>3. Matches(pattern, subject) <=> si = Len(subject)
    BY <1>0, <2>1, <2>2, MatchWords DEF Matches, M!Dollar, M!LoopInv
  <2>4. QED
    BY <1>5, <2>3, MatchWords, ZenonT(60) DEF M!LastLevel, M!Return, M!MatchCorrect, Matches
<1>6. CASE M!NextLevel
  BY <1>6, MatchWords DEF M!NextLevel, M!MatchCorrect
<1>7. CASE UNCHANGED M!vars
  BY <1>7, MatchWords DEF M!vars, M!MatchCorrect
<1>8. QED
  BY <1>1, <1>2, <1>3, <1>4, <1>5, <1>6, <1>7 DEF M!Next, M!Done

\* topic_matches() returns what matching means, for every pattern and subject.
THEOREM MatchCorrectAlways == M!Spec => []M!MatchCorrect
<1>1. M!Init => M!MatchCorrect
  BY MatchWords DEF M!Init, M!MatchCorrect
<1>2. QED
  BY <1>1, MatchLoopInit, MatchLoopStep, ReturnCorrect, PTL DEF M!Spec

-----------------------------------------------------------------------------
(* topic_filter_covers().                                                  *)

\* The loop invariant holds at first.
LEMMA CoverLoopInit == C!Init => C!LoopInv
<1> SUFFICES ASSUME C!Init PROVE C!LoopInv
  OBVIOUS
<1>1. Len(pattern) \in Nat \ {0} /\ Len(subject) \in Nat \ {0}
  BY Shapes, CoverWords DEF C!Init
<1>2. pi \in 1..Len(pattern) /\ si \in 1..Len(subject) /\ 1..(pi - 1) = {}
  BY <1>1 DEF C!Init
<1>3. QED
  BY <1>2, ZenonT(60) DEF C!Init, C!LoopInv

\* Every step of the loop keeps the loop invariant.
LEMMA CoverLoopStep ==
    C!LoopInv /\ [C!Next \/ C!Done]_C!vars => C!LoopInv'
<1> SUFFICES ASSUME C!LoopInv, [C!Next \/ C!Done]_C!vars PROVE C!LoopInv'
  OBVIOUS
<1>0. Len(pattern) \in Nat \ {0} /\ Len(subject) \in Nat \ {0}
  BY Shapes, CoverWords DEF C!LoopInv
<1>1. CASE C!Start
  BY <1>1, CoverWords, ZenonT(60) DEF C!Start, C!Return, C!LoopInv, C!Dollar
<1>2. CASE C!Hash
  BY <1>2, CoverWords DEF C!Hash, C!Return, C!LoopInv, C!Dollar
<1>3. CASE C!Exhausted
  BY <1>3, CoverWords, ZenonT(60) DEF C!Exhausted, C!Return, C!LoopInv, C!Dollar
<1>4. CASE C!Differs
  BY <1>4, CoverWords, ZenonT(60) DEF C!Differs, C!Return, C!LoopInv, C!Dollar
<1>5. CASE C!LastLevel
  BY <1>5, CoverWords DEF C!LastLevel, C!Return, C!LoopInv, C!Dollar
<1>6. CASE C!NextLevel
  <2>1. /\ UNCHANGED <<pattern, subject, pc, result>>
        /\ pi' = pi + 1 /\ pi < Len(pattern) /\ active
        /\ pattern[pi] # "#" /\ C!CoversLevel
    BY <1>6 DEF C!NextLevel
  <2>2. pi = si
    BY <2>1 DEF C!LoopInv
  <2>3. \A k \in 1..(pi' - 1) :
          /\ pattern[k] # "#" /\ subject[k] # "#"
          /\ pattern[k] = "+" \/ (subject[k] # "+" /\ pattern[k] = subject[k])
    BY <1>0, <2>1, <2>2 DEF C!LoopInv, C!CoversLevel
  <2>4. pi' \in 1..Len(pattern)'
    BY <1>0, <2>1 DEF C!LoopInv
  <2>5. CASE si < Len(subject)
    <3>1. active' /\ active' \in BOOLEAN /\ si' = si + 1
      BY <1>6, <2>5 DEF C!NextLevel, C!LoopInv
    <3>2. si' \in 1..Len(subject)'
      BY <1>0, <2>1, <2>5, <3>1 DEF C!LoopInv
    <3>3. QED
      BY <2>1, <2>2, <2>3, <2>4, <3>1, <3>2, CoverWords DEF C!LoopInv, C!Dollar
  <2>6. CASE ~(si < Len(subject))
    <3>1. ~active' /\ active' \in BOOLEAN /\ si' = si
      BY <1>6, <2>6, ZenonT(60) DEF C!NextLevel
    <3>2. si' \in 1..Len(subject)' /\ si = Len(subject)
      BY <1>0, <2>1, <2>6, <3>1 DEF C!LoopInv
    <3>3. QED
      BY <2>1, <2>2, <2>3, <2>4, <3>1, <3>2, CoverWords DEF C!LoopInv, C!Dollar
  <2>7. QED
    BY <2>5, <2>6
<1>7. CASE UNCHANGED C!vars
  BY <1>7, CoverWords DEF C!vars, C!LoopInv, C!Dollar
<1>8. QED
  BY <1>1, <1>2, <1>3, <1>4, <1>5, <1>6, <1>7 DEF C!Next, C!Done

\* When the levels before k are covered one by one, a name the subject
\* matches agrees with the pattern on them.
LEMMA PrefixCovered ==
    ASSUME C!LoopInv, pc = "loop",
           NEW n \in Names, Matches(subject, n),
           NEW k \in Nat, k <= Fixed(subject),
           \A j \in 1..k : pattern[j] = "+" \/ (subject[j] # "+" /\ pattern[j] = subject[j])
    PROVE  /\ \A j \in 1..k : pattern[j] = "+" \/ pattern[j] = n[j]
           /\ k <= Len(n)
           /\ n[1] \in Reserved => pattern[1] \notin Wildcards
<1>0. /\ Len(pattern) \in Nat \ {0} /\ Len(subject) \in Nat \ {0}
      /\ Len(n) \in Nat \ {0} /\ n[1] \in Words
  BY Shapes, CoverWords DEF C!LoopInv
<1>1. Fixed(subject) \in Nat
  BY <1>0 DEF Fixed
<1>2. \A j \in 1..k : subject[j] = "+" \/ subject[j] = n[j]
  BY <1>1, CoverWords DEF Matches
<1>3. \A j \in 1..k : pattern[j] = "+" \/ pattern[j] = n[j]
  BY <1>2
<1>4. k <= Len(n)
  BY <1>0, <1>1, CoverWords DEF Matches
<1>5. n[1] \in Reserved => pattern[1] \notin Wildcards
  <2> SUFFICES ASSUME n[1] \in Reserved PROVE pattern[1] \notin Wildcards
    OBVIOUS
  <2>1. subject[1] \notin Wildcards
    BY CoverWords DEF Matches
  <2>2. 1 \in 1..Fixed(subject)
    BY <1>0, <2>1 DEF Fixed, Wildcards
  <2>3. subject[1] = n[1]
    BY <2>1, <2>2, CoverWords DEF Matches, Wildcards
  <2>4. QED
    BY <2>3, CoverWords DEF C!LoopInv, C!Dollar
<1>6. QED
  BY <1>3, <1>4, <1>5

\* Every return of TRUE is justified.
LEMMA ReturnSound ==
    C!LoopInv /\ C!CoversSound /\ [C!Next \/ C!Done]_C!vars => C!CoversSound'
<1> SUFFICES ASSUME C!LoopInv, C!CoversSound, [C!Next \/ C!Done]_C!vars
             PROVE  C!CoversSound'
  OBVIOUS
<1>0. /\ Len(pattern) \in Nat \ {0} /\ Len(subject) \in Nat \ {0}
      /\ \A k \in 1..(Len(pattern) - 1) : pattern[k] # "#"
      /\ \A k \in 1..(Len(subject) - 1) : subject[k] # "#"
  BY Shapes, CoverWords DEF C!LoopInv
<1>1. CASE C!Hash
  <2>1. /\ pc = "loop" /\ pi = Len(pattern) /\ Fixed(pattern) = pi - 1
        /\ pi - 1 \in Nat /\ pattern[Len(pattern)] = "#"
    BY <1>0, <1>1 DEF C!Hash, C!LoopInv, Fixed
  <2>2. pi - 1 <= Fixed(subject)
    BY <1>0 DEF C!LoopInv, Fixed
  <2>3. \A j \in 1..(pi - 1) :
          pattern[j] = "+" \/ (subject[j] # "+" /\ pattern[j] = subject[j])
    BY DEF C!LoopInv
  <2>4. ASSUME NEW n \in Names, Matches(subject, n) PROVE Matches(pattern, n)
    <3>1. /\ \A j \in 1..(pi - 1) : pattern[j] = "+" \/ pattern[j] = n[j]
          /\ pi - 1 <= Len(n)
          /\ n[1] \in Reserved => pattern[1] \notin Wildcards
      BY <2>1, <2>2, <2>3, <2>4, PrefixCovered
    <3>2. QED
      BY <1>0, <2>1, <3>1, Shapes, CoverWords DEF Matches
  <2>5. QED
    BY <1>1, <2>4, CoverWords DEF C!Hash, C!Return, C!CoversSound, C!Included, Matches
<1>2. CASE C!LastLevel
  <2>1. SUFFICES ASSUME si = Len(subject) PROVE C!CoversSound'
    BY <1>2, CoverWords, ZenonT(60) DEF C!LastLevel, C!Return, C!CoversSound
  <2>2. /\ pc = "loop" /\ pi = Len(pattern) /\ pi = si
        /\ subject[Len(subject)] # "#" /\ pattern[Len(pattern)] # "#"
        /\ Fixed(pattern) = pi /\ Fixed(subject) = pi /\ pi \in Nat
    BY <1>0, <1>2, <2>1 DEF C!LastLevel, C!LoopInv, Fixed, C!CoversLevel
  <2>3. \A j \in 1..pi : pattern[j] = "+" \/ (subject[j] # "+" /\ pattern[j] = subject[j])
    BY <1>0, <1>2, <2>2 DEF C!LastLevel, C!LoopInv, C!CoversLevel
  <2>4. ASSUME NEW n \in Names, Matches(subject, n) PROVE Matches(pattern, n)
    <3>1. /\ \A j \in 1..pi : pattern[j] = "+" \/ pattern[j] = n[j]
          /\ n[1] \in Reserved => pattern[1] \notin Wildcards
      BY <2>2, <2>3, <2>4, PrefixCovered
    <3>2. Len(n) = pi
      BY <2>2, <2>4, CoverWords DEF Matches
    <3>3. QED
      BY <2>2, <3>1, <3>2, CoverWords DEF Matches
  <2>5. QED
    BY <1>2, <2>4, CoverWords DEF C!LastLevel, C!Return, C!CoversSound, C!Included, Matches
<1>3. CASE C!Start
  BY <1>3, CoverWords DEF C!Start, C!Return, C!CoversSound
<1>4. CASE C!Exhausted \/ C!Differs
  BY <1>4, CoverWords DEF C!Exhausted, C!Differs, C!Return, C!CoversSound
<1>5. CASE C!NextLevel
  BY <1>5, CoverWords DEF C!NextLevel, C!LoopInv, C!CoversSound
<1>6. CASE UNCHANGED C!vars
  BY <1>6, CoverWords DEF C!vars, C!CoversSound, C!Included, Matches
<1>7. QED
  BY <1>1, <1>2, <1>3, <1>4, <1>5, <1>6 DEF C!Next, C!Done

\* A subject topic_filter_covers() accepts matches no name outside the pattern.
THEOREM CoversSoundAlways == C!Spec => []C!CoversSound
<1>1. C!Init => C!CoversSound
  BY CoverWords DEF C!Init, C!CoversSound
<1>2. QED
  BY <1>1, CoverLoopInit, CoverLoopStep, ReturnSound, PTL DEF C!Spec

\* A name a filter matches: every wildcard of its first L levels stands for
\* the word w.
Sample(f, w, L) == [j \in 1..L |-> IF f[j] \in Wildcards THEN w ELSE f[j]]

\* It is a name, and is matched, when it leaves out no more than the '#'.
LEMMA SampleMatches ==
    ASSUME NEW f \in Filters, NEW w \in Words \ Reserved, w # EmptyWord,
           NEW L \in 1..Len(f),
           L = Len(f) \/ (f[Len(f)] = "#" /\ L = Len(f) - 1),
           L = 1 => f[1] # EmptyWord
    PROVE  /\ Sample(f, w, L) \in Names
           /\ Len(Sample(f, w, L)) = L
           /\ Matches(f, Sample(f, w, L))
<1>1. /\ Len(f) \in Nat \ {0} /\ Len(f) <= MaxLevels /\ L \in Nat
      /\ \A k \in 1..Len(f) : f[k] \in Words \cup Wildcards
      /\ \A k \in 1..(Len(f) - 1) : f[k] # "#"
  BY Shapes
<1> DEFINE n == Sample(f, w, L)
<1>2. n \in [1..L -> Words]
  BY <1>1 DEF Sample
<1>3. Len(n) = L
  BY <1>1, <1>2
<1>4. n # [k \in {1} |-> EmptyWord]
  <2> SUFFICES ASSUME n = [k \in {1} |-> EmptyWord] PROVE FALSE
    OBVIOUS
  <2>1. 1..L = {1} /\ n[1] = EmptyWord
    BY <1>2
  <2>2. L = 1
    BY <1>1, <2>1
  <2>3. n[1] = IF f[1] \in Wildcards THEN w ELSE f[1]
    BY <2>2 DEF Sample
  <2>4. QED
    BY <2>1, <2>2, <2>3
<1>5. n \in Names
  <2>1. L \in 1..MaxDepth
    BY <1>1, TopicAssumption, WordsAssumption
  <2>2. QED
    BY <1>2, <1>4, <2>1, ZenonT(60) DEF Names, Strings
<1>6. \A k \in 1..L : n[k] = IF f[k] \in Wildcards THEN w ELSE f[k]
  BY DEF Sample
<1>7. n[1] \in Reserved => f[1] \notin Wildcards
  BY <1>1, <1>6
<1>8. /\ Fixed(f) \in Nat /\ Fixed(f) <= L
      /\ f[Len(f)] # "#" => Fixed(f) = L
  BY <1>1 DEF Fixed
<1>9. \A k \in 1..Fixed(f) : f[k] = "+" \/ f[k] = n[k]
  <2> SUFFICES ASSUME NEW k \in 1..Fixed(f) PROVE f[k] = "+" \/ f[k] = n[k]
    OBVIOUS
  <2>1. k \in 1..L /\ f[k] # "#"
    BY <1>1, <1>8 DEF Fixed
  <2>2. QED
    BY <1>6, <2>1 DEF Wildcards
<1> HIDE DEF n
<1>10. Matches(f, n)
  BY <1>3, <1>7, <1>8, <1>9 DEF Matches
<1>11. QED
  BY <1>3, <1>5, <1>10 DEF n

\* A sample of the filter that the cover does not match shows that the filter
\* is not included.
LEMMA SampleRefutes ==
    ASSUME C!LoopInv, NEW w \in Words \ Reserved, w # EmptyWord,
           NEW L \in 1..Len(subject),
           L = Len(subject) \/ (subject[Len(subject)] = "#" /\ L = Len(subject) - 1),
           L = 1 => subject[1] # EmptyWord,
           ~Matches(pattern, Sample(subject, w, L))
    PROVE  ~C!Included
<1>1. subject \in Filters
  BY CoverWords DEF C!LoopInv
<1>2. Sample(subject, w, L) \in Names /\ Matches(subject, Sample(subject, w, L))
  BY <1>1, SampleMatches
<1>3. QED
  BY <1>2, CoverWords, ZenonT(60) DEF C!Included

\* Every return of FALSE is justified, but for the one exception.
LEMMA ReturnComplete ==
    C!LoopInv /\ C!CoversComplete /\ [C!Next \/ C!Done]_C!vars => C!CoversComplete'
<1> SUFFICES ASSUME C!LoopInv, C!CoversComplete, [C!Next \/ C!Done]_C!vars
             PROVE  C!CoversComplete'
  OBVIOUS
<1>0. /\ pattern \in Filters /\ subject \in Filters
      /\ Len(pattern) \in Nat \ {0} /\ Len(subject) \in Nat \ {0}
      /\ \A k \in 1..(Len(pattern) - 1) : pattern[k] # "#"
      /\ \A k \in 1..(Len(subject) - 1) : subject[k] # "#"
      /\ \A k \in 1..Len(pattern) : pattern[k] \in Words \cup Wildcards
      /\ \A k \in 1..Len(subject) : subject[k] \in Words \cup Wildcards
      /\ Len(subject) = 1 => subject[1] # EmptyWord
      /\ subject \in Seq(Words \cup Wildcards)
  BY Shapes, CoverWords DEF C!LoopInv
<1>a. PICK w0 \in Words \ Reserved : w0 # EmptyWord
  BY TopicAssumption, WordsAssumption
\* What is returned is right when the filter is not included.
<1>b. ASSUME C!Return(FALSE), ~C!Included PROVE C!CoversComplete'
  <2>1. C!Included' <=> C!Included
    BY <1>b DEF C!Return, C!Included
  <2>2. QED
    BY <1>b, <2>1 DEF C!CoversComplete
<1>c. ASSUME C!Return(TRUE) PROVE C!CoversComplete'
  BY <1>c, ZenonT(60) DEF C!Return, C!CoversComplete
\* A sample of all levels is a name.
<1>e. Len(subject) \in 1..Len(subject)
  BY <1>0
<1>f. Len(Sample(subject, w0, Len(subject))) = Len(subject)
  BY <1>0, <1>a, <1>e, SampleMatches, ZenonT(60)
<1>d. ASSUME NEW w \in Words \ Reserved, w # EmptyWord,
             ~Matches(pattern, Sample(subject, w, Len(subject)))
      PROVE  ~C!Included
  BY <1>0, <1>d, <1>e, SampleRefutes, ZenonT(60)
<1>1. CASE C!Start
  <2>1. CASE C!Dollar
    <3>1. Sample(subject, w0, Len(subject))[1] = subject[1]
      BY <1>0, <2>1, TopicAssumption, CoverWords DEF Sample, C!Dollar
    <3>2. ~Matches(pattern, Sample(subject, w0, Len(subject)))
      BY <2>1, <3>1, CoverWords DEF C!Dollar, Matches
    <3>3. QED
      BY <1>1, <1>a, <1>b, <1>d, <2>1, <3>2 DEF C!Start
  <2>2. CASE ~C!Dollar
    BY <1>1, <2>2 DEF C!Start, C!CoversComplete
  <2>3. QED
    BY <2>1, <2>2
<1>2. CASE C!Hash
  BY <1>2, <1>c DEF C!Hash
<1>3. CASE C!Exhausted
  <2>1. /\ C!Return(FALSE) /\ pattern[pi] # "#" /\ pi \in 1..Len(pattern)
        /\ pi = Len(subject) + 1
    BY <1>3, ZenonT(60) DEF C!Exhausted, C!LoopInv
  <2>2. Fixed(pattern) > Len(subject) /\ subject[Len(subject)] # "#"
    <3>1. \A k \in 1..(pi - 1) : subject[k] # "#"
      BY ZenonT(60) DEF C!LoopInv
    <3>2. QED
      BY <1>0, <2>1, <3>1 DEF Fixed
  <2>4. ~Matches(pattern, Sample(subject, w0, Len(subject)))
    BY <1>0, <1>f, <2>2 DEF Matches, Fixed
  <2>5. QED
    BY <1>a, <1>b, <1>d, <2>1, <2>4
<1>4. CASE C!LastLevel
  <2>1. CASE si = Len(subject)
    <3>1. C!Return(TRUE)
      <4>1. C!Return(si = Len(subject)) /\ (si = Len(subject)) = TRUE
        BY <1>4, <2>1, ZenonT(60) DEF C!LastLevel
      <4>2. QED
        BY <4>1, ZenonT(60)
    <3>2. QED
      BY <1>c, <3>1
  <2>2. CASE si # Len(subject)
    <3>1. C!Return(FALSE) /\ pi = Len(pattern) /\ pi = si /\ pattern[pi] # "#"
      <4>1. C!Return(si = Len(subject)) /\ (si = Len(subject)) = FALSE
        BY <1>4, <2>2, ZenonT(60) DEF C!LastLevel
      <4>2. C!Return(FALSE)
        BY <4>1, ZenonT(60)
      <4>3. QED
        BY <1>4, <4>2, ZenonT(60) DEF C!LastLevel, C!LoopInv
    <3>2. Fixed(pattern) = Len(pattern) /\ Len(subject) > Len(pattern)
      <4>1. si \in 1..Len(subject)
        BY ZenonT(60) DEF C!LoopInv
      <4>2. QED
        BY <1>0, <2>2, <3>1, <4>1 DEF Fixed
    <3>4. ~Matches(pattern, Sample(subject, w0, Len(subject)))
      <4>1. Len(Sample(subject, w0, Len(subject))) # Fixed(pattern)
        BY <1>0, <1>f, <3>2
      <4>2. QED
        BY <3>1, <4>1, ZenonT(60) DEF Matches
    <3>5. QED
      BY <1>a, <1>b, <1>d, <3>1, <3>4
  <2>3. QED
    BY <2>1, <2>2
<1>5. CASE C!Differs
  <2>1. /\ C!Return(FALSE) /\ pi = si /\ pattern[pi] # "#" /\ ~C!CoversLevel
        /\ pi \in 1..Len(pattern) /\ si \in 1..Len(subject)
    BY <1>5, ZenonT(60) DEF C!Differs, C!LoopInv
  <2>2. pi \in 1..Fixed(pattern)
    BY <1>0, <2>1 DEF Fixed
  \* A word of the cover that the sample does not have at this level.
  <2>3. ASSUME NEW w \in Words \ Reserved, w # EmptyWord, pattern[pi] # "+",
               pattern[pi] # IF subject[si] \in Wildcards THEN w ELSE subject[si]
        PROVE  C!CoversComplete'
    <3>1. Sample(subject, w, Len(subject))[pi] # pattern[pi]
      BY <2>1, <2>3 DEF Sample
    <3>2. ~Matches(pattern, Sample(subject, w, Len(subject)))
      BY <2>2, <2>3, <3>1 DEF Matches
    <3>3. QED
      BY <1>b, <1>d, <2>1, <2>3, <3>2
  <2>4. CASE pattern[pi] # "+" /\ subject[si] \in Wildcards
    <3>1. pattern[pi] \in Words
      BY <1>0, <2>1, <2>4 DEF Wildcards
    <3>2. PICK w \in Words \ Reserved : w \notin {pattern[pi], EmptyWord}
      BY <3>1, WordsAssumption
    <3>3. QED
      BY <2>3, <2>4, <3>2
  <2>5. CASE pattern[pi] # "+" /\ subject[si] \notin Wildcards
    <3>1. pattern[pi] # subject[si]
      BY <2>1, <2>5 DEF C!CoversLevel, Wildcards
    <3>2. QED
      BY <1>a, <2>3, <2>5, <3>1
  <2>6. CASE pattern[pi] = "+"
    <3>1. subject[si] = "#" /\ si = Len(subject)
      <4>1. subject[si] = "#"
        BY <2>1, <2>6, ZenonT(60) DEF C!CoversLevel
      <4>2. QED
        BY <1>0, <2>1, <4>1
    <3>2. CASE subject \in {<<"#">>, <<EmptyWord, "#">>}
      <4>1. /\ subject' \in {<<"#">>, <<EmptyWord, "#">>}
            /\ pattern'[Len(subject')] = "+"
        BY <2>1, <2>6, <3>1, <3>2 DEF C!Return
      <4>2. QED
        BY <4>1, ZenonT(60) DEF C!CoversComplete
    <3>3. CASE subject \notin {<<"#">>, <<EmptyWord, "#">>}
      <4>1. Len(subject) # 1
        <5> SUFFICES ASSUME Len(subject) = 1 PROVE FALSE
          OBVIOUS
        <5>1. subject = <<"#">>
          BY <1>0, <3>1
        <5>2. QED
          BY <3>3, <5>1
      <4>2. Len(subject) = 2 => subject[1] # EmptyWord
        <5> SUFFICES ASSUME Len(subject) = 2, subject[1] = EmptyWord PROVE FALSE
          OBVIOUS
        <5>1. subject = <<EmptyWord, "#">>
          BY <1>0, <3>1
        <5>2. QED
          BY <3>3, <5>1
      <4>3. PICK L : L = Len(subject) - 1
        OBVIOUS
      <4>4. L \in 1..Len(subject) /\ (L = 1 => subject[1] # EmptyWord)
        BY <1>0, <4>1, <4>2, <4>3
      <4>5. Len(Sample(subject, w0, L)) = L
        BY <1>0, <1>a, <3>1, <4>3, <4>4, SampleMatches, ZenonT(60)
      <4>6. ~Matches(pattern, Sample(subject, w0, L))
        BY <1>0, <2>1, <2>2, <3>1, <4>3, <4>5 DEF Matches, Fixed
      <4>7. ~C!Included
        BY <1>a, <3>1, <4>3, <4>4, <4>6, SampleRefutes
      <4>8. QED
        BY <1>b, <2>1, <4>7
    <3>4. QED
      BY <3>2, <3>3
  <2>7. QED
    BY <2>4, <2>5, <2>6
<1>6. CASE C!NextLevel
  BY <1>6 DEF C!NextLevel, C!CoversComplete
<1>7. CASE UNCHANGED C!vars
  BY <1>7 DEF C!vars, C!CoversComplete, C!Included
<1>8. QED
  BY <1>1, <1>2, <1>3, <1>4, <1>5, <1>6, <1>7 DEF C!Next, C!Done

-----------------------------------------------------------------------------
(* authenticate().                                                         *)

UserRecord == [name : UserNames, password : Passwords, role : Roles]
RuleRecord == [pattern : Filters, role : Roles, access : Accesses]

\* add_user() takes no name twice, add_rule() no pattern that is not a filter.
TablesOK ==
    /\ users \in Seq(UserRecord) /\ rules \in Seq(RuleRecord)
    /\ \A i, j \in 1..Len(users) : users[i].name = users[j].name => i = j

Hits(k, name, password) ==
    {j \in 1..k : users[j].name = name /\ users[j].password = password}

\* A set of naturals that is not empty has a least element.
LEMMA LeastNat ==
    ASSUME NEW T \in SUBSET Nat, T # {}
    PROVE  \E m \in T : \A n \in T : m <= n
<1>1. PICK m \in T : \A n \in T : <<n, m>> \notin OpToRel(<, Nat)
  BY NatLessThanWellFounded, WFMin, ZenonT(60)
<1>2. \A n \in T : ~(n < m)
  BY <1>1, ZenonT(60) DEF OpToRel
<1>3. QED
  BY <1>2

\* The scan finds the role of the one user with the name, if the password is
\* right: keeping the first match is enough because no name is there twice.
LEMMA ScanFinds ==
    ASSUME TablesOK, NEW name, NEW password
    PROVE  Scan(name, password) = {users[i].role : i \in Hits(Len(users), name, password)}
<1> DEFINE N == Len(users)
           R(k) == {users[i].role : i \in Hits(k, name, password)}
           Hit(k) == users[k].name = name /\ users[k].password = password
           Body(f, k) == IF k = 0 THEN {}
                         ELSE IF f[k - 1] = {} /\ Hit(k) THEN {users[k].role} ELSE f[k - 1]
           found == CHOOSE f : f = [k \in 0..N |-> Body(f, k)]
<1>1. N \in Nat
  BY DEF TablesOK
<1>2. R(0) = {}
  BY DEF Hits
<1>3. ASSUME NEW k \in 1..N
      PROVE  R(k) = IF R(k - 1) = {} /\ Hit(k) THEN {users[k].role} ELSE R(k - 1)
  <2>1. CASE ~Hit(k)
    <3>1. Hits(k, name, password) = Hits(k - 1, name, password)
      BY <1>1, <2>1 DEF Hits
    <3>2. QED
      BY <2>1, <3>1
  <2>2. CASE Hit(k)
    <3>1. Hits(k - 1, name, password) = {}
      BY <1>1, <2>2 DEF Hits, TablesOK
    <3>2. Hits(k, name, password) = {k}
      BY <1>1, <2>2 DEF Hits, TablesOK
    <3>3. QED
      BY <2>2, <3>1, <3>2
  <2>3. QED
    BY <2>1, <2>2, ZenonT(60)
<1> HIDE DEF R, Hit
<1>4. \E f : f = [k \in 0..N |-> Body(f, k)]
  <2> DEFINE g == [k \in 0..N |-> R(k)]
  <2>1. ASSUME NEW k \in 0..N PROVE R(k) = Body(g, k)
    <3>1. CASE k = 0
      BY <1>2, <3>1, ZenonT(60)
    <3>2. CASE k # 0
      <4>1. k \in 1..N /\ k - 1 \in 0..N
        BY <1>1, <3>2
      <4>2. g[k - 1] = R(k - 1)
        BY <4>1, ZenonT(60)
      <4>3. QED
        BY <1>3, <3>2, <4>1, <4>2, ZenonT(60)
    <3>3. QED
      BY <3>1, <3>2, ZenonT(60)
  <2>2. g = [k \in 0..N |-> Body(g, k)]
    BY <2>1, ZenonT(60)
  <2>3. QED
    BY <2>2, ZenonT(60)
<1>5. found = [k \in 0..N |-> Body(found, k)]
  BY <1>4, ZenonT(60)
<1> HIDE DEF found
<1>6. \A k \in 0..N : found[k] = R(k)
  <2> DEFINE T == {k \in 0..N : found[k] # R(k)}
  <2> SUFFICES ASSUME T # {} PROVE FALSE
    OBVIOUS
  <2>1. T \in SUBSET Nat
    BY <1>1
  <2>2. PICK m \in T : \A n \in T : m <= n
    BY <2>1, LeastNat, ZenonT(60)
  <2>3. m \in 0..N /\ found[m] # R(m) /\ found[m] = Body(found, m)
    BY <1>5, <2>2, ZenonT(60)
  <2>4. m # 0
    BY <1>2, <2>3, ZenonT(60)
  <2>5. m \in 1..N /\ m - 1 \in 0..N /\ ~(m <= m - 1)
    BY <1>1, <2>3, <2>4
  <2>6. found[m - 1] = R(m - 1)
    BY <2>2, <2>5, ZenonT(60)
  <2>7. QED
    BY <1>3, <2>3, <2>4, <2>5, <2>6, ZenonT(60)
<1>7. Scan(name, password) = found[N]
  BY ZenonT(60) DEF Scan, found, Hit
<1>8. found[N] = R(N)
  <2>1. N \in 0..N
    BY <1>1
  <2>2. QED
    BY <1>6, <2>1, ZenonT(60)
<1>9. QED
  BY <1>7, <1>8, ZenonT(60) DEF R

-----------------------------------------------------------------------------
(* allowed().                                                              *)

\* Who has logged in has the role the table gives.
LoginOK ==
    \A l \in login : role = {users[i].role : i \in Hits(Len(users), l.name, l.password)}

\* What is asked, and how far the rules have been walked.
AskOK ==
    IF ask = NoAsk THEN pc = "none" /\ answer = "none"
    ELSE /\ ask.need \in {Read, Write} /\ ask.asFilter \in BOOLEAN
         /\ ask.asFilter => ask.need = Read
         /\ subject \in (IF ask.asFilter THEN Filters ELSE Names)
         /\ at \in 1..(Len(rules) + 1)

\* The rules before the one it is at do not allow it.
RefusedOK ==
    ask # NoAsk /\ ~ask.asFilter =>
        \A i \in 1..(at - 1) : About(rules[i]) => ~Matches(rules[i].pattern, subject)

\* A topic loop that has been started is about the rule it is at.
LoopOK ==
    pc # "none" =>
        /\ at \in 1..Len(rules) /\ About(rules[at]) /\ pattern = rules[at].pattern
        /\ IF ask.asFilter THEN C!LoopInv /\ C!CoversSound /\ C!CoversComplete
           ELSE M!LoopInv /\ M!MatchCorrect

AnswerOK ==
    /\ answer \in {"none", "yes", "no"}
    /\ answer = "yes" => pc = "done" /\ result
    /\ answer = "no" => pc = "none" /\ ~(at <= Len(rules))

\* The invariant of TableAcl.
AclInv == TablesOK /\ LoginOK /\ AskOK /\ RefusedOK /\ LoopOK /\ AnswerOK

\* Configuring the tables keeps the invariant, and so does authenticate().
LEMMA ConfigureKeeps ==
    ASSUME AclInv, Configuring, Configure
    PROVE  AclInv'
<1>1. /\ ask = NoAsk /\ login = {} /\ pc = "none" /\ answer = "none"
      /\ TablesOK
  BY ZenonT(60) DEF AclInv, Configuring, AskOK
<1> SUFFICES ASSUME ask' = ask /\ inner' = inner /\ answer' = answer PROVE AclInv'
  BY ZenonT(60) DEF Configure, AddUser, Authenticate, AllowAnonymous, AddRule, Anonymous
<1>2. ask' = NoAsk /\ pc' = "none" /\ answer' = "none"
  BY <1>1, ZenonT(60) DEF inner
<1>3. AskOK' /\ RefusedOK' /\ LoopOK' /\ AnswerOK'
  BY <1>2, ZenonT(60) DEF AskOK, RefusedOK, LoopOK, AnswerOK, NoAsk
<1>4. CASE users' = users /\ rules' = rules
  <2>1. TablesOK'
    BY <1>1, <1>4, ZenonT(60) DEF TablesOK
  <2>2. CASE login' = login
    BY <1>1, <1>3, <2>1, <2>2, ZenonT(60) DEF AclInv, LoginOK
  <2>3. CASE login' # login
    <3>1. PICK name \in UserNames, password \in Passwords : Authenticate(name, password)
      BY <2>3, ZenonT(60) DEF Configure, AddUser, AllowAnonymous, AddRule, Anonymous
    <3>2. role' = Scan(name, password) /\ login' = {[name |-> name, password |-> password]}
      BY <3>1, ZenonT(60) DEF Authenticate
    <3>3. role' = {users[i].role : i \in Hits(Len(users), name, password)}
      BY <1>1, <3>2, ScanFinds, ZenonT(60)
    <3>4. LoginOK'
      <4>1. PICK e : e = [name |-> name, password |-> password]
        BY ZenonT(60)
      <4>2. e.name = name /\ e.password = password /\ login' = {e}
        BY <3>2, <4>1, ZenonT(60)
      <4>3. \A l \in login' : l.name = name /\ l.password = password
        BY <4>2, ZenonT(60)
      <4>4. QED
        BY <1>4, <3>3, <4>3, ZenonT(60) DEF LoginOK, Hits
    <3>5. QED
      BY <1>3, <2>1, <3>4, ZenonT(60) DEF AclInv
  <2>4. QED
    BY <2>2, <2>3, ZenonT(60)
<1>5. CASE \E name \in UserNames, password \in Passwords, r \in Roles : AddUser(name, password, r)
  <2>1. PICK name \in UserNames, password \in Passwords, r \in Roles : AddUser(name, password, r)
    BY <1>5, ZenonT(60)
  <2>2. PICK u : u = [name |-> name, password |-> password, role |-> r]
    BY ZenonT(60)
  <2>3. /\ u \in UserRecord /\ users' = Append(users, u) /\ rules' = rules /\ login' = login
        /\ \A i \in 1..Len(users) : users[i].name # u.name
    BY <2>1, <2>2, ZenonT(60) DEF AddUser, UserRecord, Known
  <2>4. users' \in Seq(UserRecord)
    BY <1>1, <2>3 DEF TablesOK
  <2>5. \A i, j \in 1..Len(users') : users'[i].name = users'[j].name => i = j
    BY <1>1, <2>3 DEF TablesOK
  <2>6. TablesOK'
    BY <1>1, <2>3, <2>4, <2>5, ZenonT(60) DEF TablesOK
  <2>7. QED
    BY <1>1, <1>3, <2>3, <2>6, ZenonT(60) DEF AclInv, LoginOK
<1>6. CASE \E r \in Roles, p \in Filters, access \in Accesses : AddRule(r, p, access)
  <2>1. PICK r \in Roles, p \in Filters, access \in Accesses : AddRule(r, p, access)
    BY <1>6, ZenonT(60)
  <2>2. PICK e : e = [pattern |-> p, role |-> r, access |-> access]
    BY ZenonT(60)
  <2>3. e \in RuleRecord /\ rules' = Append(rules, e) /\ users' = users /\ login' = login
    BY <2>1, <2>2, ZenonT(60) DEF AddRule, RuleRecord
  <2>4. rules' \in Seq(RuleRecord)
    BY <1>1, <2>3 DEF TablesOK
  <2>5. TablesOK'
    BY <1>1, <2>3, <2>4, ZenonT(60) DEF TablesOK
  <2>6. QED
    BY <1>1, <1>3, <2>3, <2>5, ZenonT(60) DEF AclInv, LoginOK
<1>7. QED
  BY <1>4, <1>5, <1>6, ZenonT(60) DEF Configure, Authenticate, AllowAnonymous, Anonymous

\* Nothing but the configuration changes the tables and the role.
LEMMA TablesKept ==
    ASSUME TablesOK, LoginOK, UNCHANGED <<users, rules, role, login>>
    PROVE  TablesOK' /\ LoginOK'
<1>1. users' = users /\ rules' = rules /\ role' = role /\ login' = login
  BY ZenonT(60)
<1>2. TablesOK'
  BY <1>1, ZenonT(60) DEF TablesOK
<1>3. LoginOK'
  BY <1>1 DEF LoginOK, Hits
<1>4. QED
  BY <1>2, <1>3

\* A question starts at the first rule.
LEMMA AllowedKeeps ==
    ASSUME AclInv, NEW need \in {Read, Write}, NEW asFilter \in BOOLEAN,
           asFilter => need = Read,
           NEW topic \in (IF asFilter THEN Filters ELSE Names),
           Allowed(need, topic, asFilter)
    PROVE  AclInv'
<1>1. /\ ask = NoAsk /\ ask' = [need |-> need, asFilter |-> asFilter]
      /\ subject' = topic /\ at' = 1
      /\ UNCHANGED <<users, rules, role, login, answer, pc>>
  BY ZenonT(60) DEF Allowed
<1>2. pc' = "none" /\ answer' = "none" /\ TablesOK /\ LoginOK
  BY <1>1, ZenonT(60) DEF AclInv, AskOK
<1>3. ask'.need = need /\ ask'.asFilter = asFilter /\ ask' # NoAsk
  <2>1. ask'.need = need /\ ask'.asFilter = asFilter
    BY <1>1, ZenonT(60)
  <2>2. need # 0 /\ NoAsk.need = 0
    BY DEF NoAsk, Read, Write
  <2>3. QED
    BY <2>1, <2>2, ZenonT(60)
<1>4. TablesOK' /\ LoginOK'
  BY <1>1, <1>2, TablesKept, ZenonT(60)
<1>5. at' \in 1..(Len(rules') + 1) /\ 1..(at' - 1) = {}
  BY <1>1, <1>2 DEF TablesOK
<1>6. AskOK'
  BY <1>1, <1>3, <1>5, ZenonT(60) DEF AskOK
<1>7. RefusedOK' /\ LoopOK' /\ AnswerOK'
  BY <1>2, <1>5, ZenonT(60) DEF RefusedOK, LoopOK, AnswerOK
<1>8. QED
  BY <1>4, <1>6, <1>7, ZenonT(60) DEF AclInv

\* A step that leaves the question and the tables alone.
Asks == UNCHANGED <<users, rules, anon, role, login, ask, subject>>

\* What such a step keeps.
LEMMA AskKept ==
    ASSUME AclInv, ask # NoAsk, Asks, at' \in 1..(Len(rules) + 1)
    PROVE  /\ TablesOK' /\ LoginOK' /\ AskOK'
           /\ \A r : About(r)' <=> About(r)
<1>1. /\ UNCHANGED <<users, rules, role, login>>
      /\ rules' = rules /\ role' = role /\ ask' = ask /\ subject' = subject
  BY ZenonT(60) DEF Asks
<1>2. TablesOK' /\ LoginOK'
  BY <1>1, TablesKept, ZenonT(60) DEF AclInv
<1>3. AskOK'
  BY <1>1, ZenonT(60) DEF AclInv, AskOK
<1>4. \A r : About(r)' <=> About(r)
  BY <1>1, ZenonT(60) DEF About
<1>5. QED
  BY <1>2, <1>3, <1>4

\* The rule it is at does not allow it, and it goes on to the next.
LEMMA GoesOn ==
    ASSUME AclInv, ask # NoAsk, Asks, at <= Len(rules), at' = at + 1,
           ~ask.asFilter /\ About(rules[at]) => ~Matches(rules[at].pattern, subject)
    PROVE  TablesOK' /\ LoginOK' /\ AskOK' /\ RefusedOK'
<1>1. at \in 1..(Len(rules) + 1) /\ rules \in Seq(RuleRecord)
  BY ZenonT(60) DEF AclInv, AskOK, TablesOK
<1>2. at' \in 1..(Len(rules) + 1) /\ \A i \in 1..(at' - 1) : i \in 1..(at - 1) \/ i = at
  BY <1>1
<1>3. TablesOK' /\ LoginOK' /\ AskOK' /\ \A r : About(r)' <=> About(r)
  BY <1>2, AskKept, ZenonT(60)
<1>4. ASSUME ~ask.asFilter, NEW i \in 1..(at' - 1), About(rules[i])
      PROVE  ~Matches(rules[i].pattern, subject)
  BY <1>2, <1>4, ZenonT(60) DEF AclInv, RefusedOK
<1>5. rules' = rules /\ ask' = ask /\ subject' = subject
  BY ZenonT(60) DEF Asks
<1>6. RefusedOK'
  BY <1>3, <1>4, <1>5, ZenonT(60) DEF RefusedOK
<1>7. QED
  BY <1>3, <1>6

\* allowed() starts topic_filter_covers() with its loop invariant.
LEMMA CoverStarts ==
    ASSUME pattern' \in Filters, subject' \in Filters,
           pi' = 1, si' = 1, active' = TRUE, pc' = "start", result' = FALSE
    PROVE  C!LoopInv'
<1>1. C!Init'
  BY CoverWords, ZenonT(60) DEF C!Init
<1>2. (C!Init => C!LoopInv)'
  BY CoverLoopInit, PTL
<1>3. QED
  BY <1>1, <1>2, ZenonT(60)

\* And topic_matches() with its own.
LEMMA MatchStarts ==
    ASSUME pattern' \in Filters, subject' \in Names,
           pi' = 1, si' = 1, active' = TRUE, pc' = "start", result' = FALSE
    PROVE  M!LoopInv'
<1>1. M!Init'
  BY MatchWords, ZenonT(60) DEF M!Init
<1>2. (M!Init => M!LoopInv)'
  BY MatchLoopInit, PTL
<1>3. QED
  BY <1>1, <1>2, ZenonT(60)

\* A finished loop that nothing touches.
LEMMA LoopKept ==
    ASSUME LoopOK, pc = "done", pc' = pc, at' = at, rules' = rules, ask' = ask,
           \A r : About(r)' <=> About(r),
           UNCHANGED <<pattern, subject, pi, si, active, result>>
    PROVE  LoopOK'
<1>1. /\ at \in 1..Len(rules) /\ About(rules[at]) /\ pattern = rules[at].pattern
      /\ UNCHANGED C!vars /\ UNCHANGED M!vars /\ pattern' = pattern
  BY ZenonT(60) DEF LoopOK, C!vars, M!vars
<1>2. CASE ask.asFilter
  <2>1. C!LoopInv /\ C!CoversSound /\ C!CoversComplete
    BY <1>2, ZenonT(60) DEF LoopOK
  <2>2. C!LoopInv' /\ C!CoversSound' /\ C!CoversComplete'
    BY <1>1, <2>1, CoverLoopStep, ReturnSound, ReturnComplete, ZenonT(60)
  <2>3. QED
    BY <1>1, <1>2, <2>2, ZenonT(60) DEF LoopOK
<1>3. CASE ~ask.asFilter
  <2>1. M!LoopInv /\ M!MatchCorrect
    BY <1>3, ZenonT(60) DEF LoopOK
  <2>2. M!LoopInv' /\ M!MatchCorrect'
    BY <1>1, <2>1, MatchLoopStep, ReturnCorrect, ZenonT(60)
  <2>3. QED
    BY <1>1, <1>3, <2>2, ZenonT(60) DEF LoopOK
<1>4. QED
  BY <1>2, <1>3, ZenonT(60)

\* Every turn of the loop over the rules, and of the topic loops inside it,
\* keeps the invariant.
LEMMA RulesKeep ==
    ASSUME AclInv, Skip \/ Try \/ Walk \/ Judge \/ Deny
    PROVE  AclInv'
<1>1. ask # NoAsk /\ answer = "none" /\ Asks
  BY ZenonT(60) DEF Skip, Try, Walk, Judge, Deny, Asked, Asks, outer, inner,
     C!Next, C!Start, C!Hash, C!Exhausted, C!Differs, C!LastLevel, C!NextLevel, C!Return,
     M!Next, M!Start, M!Hash, M!Exhausted, M!Differs, M!LastLevel, M!NextLevel, M!Return
<1>2. /\ TablesOK /\ AskOK /\ RefusedOK /\ LoopOK /\ AnswerOK
      /\ at \in 1..(Len(rules) + 1) /\ rules \in Seq(RuleRecord)
      /\ ask' = ask /\ subject' = subject /\ rules' = rules
  BY <1>1, ZenonT(60) DEF AclInv, AskOK, TablesOK, Asks
<1>3. ASSUME at' = at PROVE TablesOK' /\ LoginOK' /\ AskOK' /\ RefusedOK'
  <2>1. TablesOK' /\ LoginOK' /\ AskOK' /\ \A r : About(r)' <=> About(r)
    BY <1>1, <1>2, <1>3, AskKept, ZenonT(60)
  <2>2. RefusedOK'
    BY <1>2, <1>3, <2>1, ZenonT(60) DEF RefusedOK
  <2>3. QED
    BY <2>1, <2>2
<1>4. CASE Skip
  <2>1. TablesOK' /\ LoginOK' /\ AskOK' /\ RefusedOK'
    BY <1>1, <1>4, GoesOn, ZenonT(60) DEF Skip
  <2>2. pc' = "none" /\ answer' = "none"
    BY <1>1, <1>4, ZenonT(60) DEF Skip, inner
  <2>3. QED
    BY <2>1, <2>2, ZenonT(60) DEF AclInv, LoopOK, AnswerOK
<1>5. CASE Deny
  <2>1. at' = at /\ pc' = "none" /\ answer' = "no" /\ at > Len(rules)
    BY <1>5, ZenonT(60) DEF Deny, inner
  <2>2. ~(at' <= Len(rules'))
    BY <1>2, <2>1
  <2>3. QED
    BY <1>3, <2>1, <2>2, ZenonT(60) DEF AclInv, LoopOK, AnswerOK
<1>6. CASE Judge
  <2>1. /\ pc = "done" /\ result' = result
        /\ UNCHANGED <<pattern, subject, pi, si, active, result>>
    BY <1>6, ZenonT(60) DEF Judge
  <2>2. CASE result
    <3>1. at' = at /\ answer' = "yes" /\ pc' = pc
      BY <1>6, <2>2, ZenonT(60) DEF Judge
    <3>2. \A r : About(r)' <=> About(r)
      BY <1>1, <1>2, <3>1, AskKept, ZenonT(60)
    <3>3. LoopOK'
      BY <1>2, <2>1, <3>1, <3>2, LoopKept, ZenonT(60)
    <3>4. QED
      BY <1>3, <2>1, <2>2, <3>1, <3>3, ZenonT(60) DEF AclInv, AnswerOK
  <2>3. CASE ~result
    <3>1. at' = at + 1 /\ answer' = answer /\ pc' = "none"
      BY <1>6, <2>3, ZenonT(60) DEF Judge
    <3>2. at \in 1..Len(rules) /\ pattern = rules[at].pattern
      BY <1>2, <2>1, ZenonT(60) DEF LoopOK
    <3>3. ~ask.asFilter => ~Matches(rules[at].pattern, subject)
      BY <1>2, <2>1, <2>3, <3>2, MatchWords, ZenonT(60) DEF LoopOK, M!MatchCorrect
    <3>4. at <= Len(rules)
      BY <1>2, <3>2
    <3>5. TablesOK' /\ LoginOK' /\ AskOK' /\ RefusedOK'
      BY <1>1, <3>1, <3>3, <3>4, GoesOn, ZenonT(60)
    <3>6. QED
      BY <1>1, <3>1, <3>5, ZenonT(60) DEF AclInv, LoopOK, AnswerOK
  <2>4. QED
    BY <2>2, <2>3, ZenonT(60)
<1>7. CASE Try
  <2>1. /\ at' = at /\ answer' = answer /\ at <= Len(rules) /\ About(rules[at])
        /\ pattern' = rules[at].pattern
        /\ pi' = 1 /\ si' = 1 /\ active' = TRUE /\ pc' = "start" /\ result' = FALSE
    BY <1>7, ZenonT(60) DEF Try, outer
  <2>2. \A r : About(r)' <=> About(r)
    BY <1>1, <1>2, <2>1, AskKept, ZenonT(60)
  <2>3. at \in 1..Len(rules)
    BY <1>2, <2>1
  <2>4. pattern' \in Filters
    <3>1. rules[at] \in RuleRecord
      BY <1>2, <2>3
    <3>2. QED
      BY <2>1, <3>1, ZenonT(60) DEF RuleRecord
  <2>5. CASE ask.asFilter
    <3>1. subject' \in Filters
      BY <1>1, <1>2, <2>5, ZenonT(60) DEF AskOK
    <3>2. C!LoopInv'
      BY <2>1, <2>4, <3>1, CoverStarts, ZenonT(60)
    <3>3. C!CoversSound' /\ C!CoversComplete'
      BY <2>1, ZenonT(60) DEF C!CoversSound, C!CoversComplete
    <3>4. LoopOK'
      BY <1>2, <2>1, <2>2, <2>3, <2>5, <3>2, <3>3, ZenonT(60) DEF LoopOK
    <3>5. QED
      BY <1>1, <1>3, <2>1, <3>4, ZenonT(60) DEF AclInv, AnswerOK
  <2>6. CASE ~ask.asFilter
    <3>1. subject' \in Names
      BY <1>1, <1>2, <2>6, ZenonT(60) DEF AskOK
    <3>2. M!LoopInv'
      BY <2>1, <2>4, <3>1, MatchStarts, ZenonT(60)
    <3>3. M!MatchCorrect'
      BY <2>1, ZenonT(60) DEF M!MatchCorrect
    <3>4. LoopOK'
      BY <1>2, <2>1, <2>2, <2>3, <2>6, <3>2, <3>3, ZenonT(60) DEF LoopOK
    <3>5. QED
      BY <1>1, <1>3, <2>1, <3>4, ZenonT(60) DEF AclInv, AnswerOK
  <2>7. QED
    BY <2>5, <2>6, ZenonT(60)
<1>8. CASE Walk
  <2>1. at' = at /\ answer' = answer
    BY <1>8, ZenonT(60) DEF Walk, outer
  <2>2. \A r : About(r)' <=> About(r)
    BY <1>1, <1>2, <2>1, AskKept, ZenonT(60)
  <2>3. AnswerOK'
    BY <1>1, <2>1, ZenonT(60) DEF AnswerOK
  <2>4. CASE ask.asFilter
    <3>1. C!Next
      BY <1>8, <2>4, ZenonT(60) DEF Walk
    <3>2. pc # "none" /\ pattern' = pattern
      BY <3>1, ZenonT(60) DEF C!Next, C!Start, C!Hash, C!Exhausted, C!Differs,
                              C!LastLevel, C!NextLevel, C!Return
    <3>3. C!LoopInv /\ C!CoversSound /\ C!CoversComplete
      BY <1>2, <2>4, <3>2, ZenonT(60) DEF LoopOK
    <3>4. C!LoopInv' /\ C!CoversSound' /\ C!CoversComplete'
      BY <3>1, <3>3, CoverLoopStep, ReturnSound, ReturnComplete, ZenonT(60)
    <3>5. LoopOK'
      BY <1>2, <2>1, <2>2, <2>4, <3>2, <3>4, ZenonT(60) DEF LoopOK
    <3>6. QED
      BY <1>3, <2>1, <2>3, <3>5, ZenonT(60) DEF AclInv
  <2>5. CASE ~ask.asFilter
    <3>1. M!Next
      BY <1>8, <2>5, ZenonT(60) DEF Walk
    <3>2. pc # "none" /\ pattern' = pattern
      BY <3>1, ZenonT(60) DEF M!Next, M!Start, M!Hash, M!Exhausted, M!Differs,
                              M!LastLevel, M!NextLevel, M!Return
    <3>3. M!LoopInv /\ M!MatchCorrect
      BY <1>2, <2>5, <3>2, ZenonT(60) DEF LoopOK
    <3>4. M!LoopInv' /\ M!MatchCorrect'
      BY <3>1, <3>3, MatchLoopStep, ReturnCorrect, ZenonT(60)
    <3>5. LoopOK'
      BY <1>2, <2>1, <2>2, <2>5, <3>2, <3>4, ZenonT(60) DEF LoopOK
    <3>6. QED
      BY <1>3, <2>1, <2>3, <3>5, ZenonT(60) DEF AclInv
  <2>6. QED
    BY <2>4, <2>5, ZenonT(60)
<1>9. QED
  BY <1>4, <1>5, <1>6, <1>7, <1>8

-----------------------------------------------------------------------------
(* The theorems.                                                           *)

\* The invariant holds at first.
LEMMA AclInit == Init => AclInv
<1> SUFFICES ASSUME Init PROVE AclInv
  OBVIOUS
<1>1. users = <<>> /\ rules = <<>> /\ login = {} /\ ask = NoAsk /\ pc = "none" /\ answer = "none"
  BY ZenonT(60) DEF Init
<1>2. TablesOK
  BY <1>1 DEF TablesOK
<1>3. QED
  BY <1>1, <1>2, ZenonT(60) DEF AclInv, LoginOK, AskOK, RefusedOK, LoopOK, AnswerOK

\* Every step keeps it.
LEMMA AclNext == AclInv /\ [Next]_vars => AclInv'
<1> SUFFICES ASSUME AclInv, [Next]_vars PROVE AclInv'
  OBVIOUS
<1>1. CASE Configuring /\ Configure
  BY <1>1, ConfigureKeeps
<1>2. CASE Question
  <2>1. ASSUME NEW topic \in Names, AuthorizePublish(topic) \/ AuthorizeReceive(topic)
        PROVE  AclInv'
    BY <2>1, AllowedKeeps, ZenonT(60) DEF AuthorizePublish, AuthorizeReceive
  <2>2. ASSUME NEW filter \in Filters, AuthorizeSubscribe(filter) PROVE AclInv'
    BY <2>2, AllowedKeeps, ZenonT(60) DEF AuthorizeSubscribe
  <2>3. QED
    BY <1>2, <2>1, <2>2, ZenonT(60) DEF Question, Subjects
<1>3. CASE Skip \/ Try \/ Walk \/ Judge \/ Deny
  BY <1>3, RulesKeep
<1>4. CASE UNCHANGED vars
  <2>1. /\ UNCHANGED <<users, rules, role, login>> /\ ask' = ask /\ at' = at /\ rules' = rules
        /\ subject' = subject /\ answer' = answer /\ pc' = pc /\ result' = result
        /\ role' = role /\ pattern' = pattern
        /\ UNCHANGED C!vars /\ UNCHANGED M!vars
    BY <1>4, ZenonT(60) DEF vars, outer, inner, C!vars, M!vars
  <2>2. TablesOK' /\ LoginOK'
    BY <2>1, TablesKept, ZenonT(60) DEF AclInv
  <2>3. AskOK' /\ AnswerOK'
    BY <2>1, ZenonT(60) DEF AclInv, AskOK, AnswerOK
  <2>4. \A r : About(r)' <=> About(r)
    BY <2>1, ZenonT(60) DEF About
  <2>5. RefusedOK'
    BY <2>1, <2>4, ZenonT(60) DEF AclInv, RefusedOK
  <2>6. LoopOK'
    <3>1. CASE ask.asFilter
      BY <2>1, <2>4, <3>1, CoverLoopStep, ReturnSound, ReturnComplete, ZenonT(60)
      DEF AclInv, LoopOK
    <3>2. CASE ~ask.asFilter
      BY <2>1, <2>4, <3>2, MatchLoopStep, ReturnCorrect, ZenonT(60) DEF AclInv, LoopOK
    <3>3. QED
      BY <3>1, <3>2, ZenonT(60)
  <2>7. QED
    BY <2>2, <2>3, <2>5, <2>6, ZenonT(60) DEF AclInv
<1>5. QED
  BY <1>1, <1>2, <1>3, <1>4, ZenonT(60) DEF Next, Finished

\* The invariant of TableAcl holds for any tables and any topics.
THEOREM AclInvariant == Spec => []AclInv
  BY AclInit, AclNext, PTL DEF Spec

\* topic_filter_covers(), called by allowed(), refuses only what it should, but
\* for the one exception.
THEOREM CoversCompleteAlways == Spec => []CoversComplete
<1>1. AclInv => CoversComplete
  <2> SUFFICES ASSUME AclInv, ask.asFilter PROVE C!CoversComplete
    BY ZenonT(60) DEF CoversComplete
  <2>1. CASE pc = "none"
    BY <2>1, ZenonT(60) DEF C!CoversComplete
  <2>2. CASE pc # "none"
    BY <2>2, ZenonT(60) DEF AclInv, LoopOK
  <2>3. QED
    BY <2>1, <2>2
<1>2. QED
  BY <1>1, AclInvariant, PTL

\* authenticate() gives the role of the one user with the name and the password,
\* and allowed() decides a topic by whether some rule for the role and the access
\* matches it.
THEOREM DecidedByRulesAlways == Spec => []DecidedByRules
<1>1. AclInv => DecidedByRules
  <2> SUFFICES ASSUME AclInv PROVE DecidedByRules
    OBVIOUS
  <2>1. \A l \in login :
          role = {users[i].role : i \in
                     {j \in 1..Len(users) : users[j].name = l.name /\ users[j].password = l.password}}
    BY ZenonT(60) DEF AclInv, LoginOK, Hits
  <2>2. ASSUME answer # "none", ~ask.asFilter
        PROVE  (answer = "yes") <=> Permitted(ask.need, subject)
    <3>1. /\ ask # NoAsk /\ RefusedOK /\ LoopOK /\ AnswerOK
          /\ at \in 1..(Len(rules) + 1) /\ rules \in Seq(RuleRecord)
      BY <2>2, ZenonT(60) DEF AclInv, AskOK, TablesOK
    <3>2. \A i \in 1..Len(rules) :
            About(rules[i]) <=> rules[i].role \in role /\ rules[i].access \in {ask.need, 3}
      BY ZenonT(60) DEF About
    <3>3. CASE answer = "yes"
      <4>1. /\ pc = "done" /\ result
            /\ at \in 1..Len(rules) /\ About(rules[at]) /\ pattern = rules[at].pattern
            /\ M!MatchCorrect
        BY <2>2, <3>1, <3>3, ZenonT(60) DEF AnswerOK, LoopOK
      <4>2. Matches(rules[at].pattern, subject)
        BY <4>1, MatchWords, ZenonT(60) DEF M!MatchCorrect
      <4>3. QED
        BY <3>2, <3>3, <4>1, <4>2, ZenonT(60) DEF Permitted
    <3>4. CASE answer = "no"
      <4>1. \A i \in 1..Len(rules) : i \in 1..(at - 1)
        <5>1. ~(at <= Len(rules))
          BY <3>1, <3>4, ZenonT(60) DEF AnswerOK
        <5>2. QED
          BY <3>1, <5>1
      <4>2. ~Permitted(ask.need, subject)
        BY <2>2, <3>1, <3>2, <4>1, ZenonT(60) DEF Permitted, RefusedOK
      <4>3. QED
        BY <3>4, <4>2, ZenonT(60)
    <3>5. QED
      BY <2>2, <3>1, <3>3, <3>4, ZenonT(60) DEF AnswerOK
  <2>3. QED
    BY <2>1, <2>2, ZenonT(60) DEF DecidedByRules
<1>2. QED
  BY <1>1, AclInvariant, PTL

\* A subscription authorize_subscribe() granted is never found short by
\* authorize_receive().
THEOREM GrantHoldsAlways == Spec => []GrantHolds
<1>1. AclInv => GrantHolds
  <2> SUFFICES ASSUME AclInv, answer = "yes", ask.asFilter,
                      NEW n \in Names, Matches(subject, n)
               PROVE  Permitted(Read, n)
    BY ZenonT(60) DEF GrantHolds
  <2>1. /\ pc = "done" /\ result /\ ask.need = Read
        /\ at \in 1..Len(rules) /\ About(rules[at]) /\ pattern = rules[at].pattern
        /\ C!CoversSound
    BY ZenonT(60) DEF AclInv, AnswerOK, LoopOK, AskOK
  <2>2. Matches(rules[at].pattern, n)
    BY <2>1, CoverWords, ZenonT(60) DEF C!CoversSound, C!Included
  <2>3. QED
    BY <2>1, <2>2, ZenonT(60) DEF Permitted, About
<1>2. QED
  BY <1>1, AclInvariant, PTL

====
