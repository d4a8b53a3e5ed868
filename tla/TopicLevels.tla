---------------------------- MODULE TopicLevels ----------------------------
(***************************************************************************)
(* Topic names and topic filters (topic.hpp), level by level.              *)
(*                                                                         *)
(* The code walks the bytes and cuts them at every '/'.  Nothing in it     *)
(* looks into a level except to compare it, to see whether it is a         *)
(* wildcard, and to see whether the first one begins with '$': a level is  *)
(* one value here, a topic the sequence of its levels.                     *)
(***************************************************************************)
EXTENDS Integers, Sequences

CONSTANTS
    Words,       \* levels that are not wildcards; the empty level is one
    Reserved,    \* those of them that begin with '$'
    EmptyWord,   \* the empty level
    MaxLevels,   \* bound: levels of a filter
    MaxDepth     \* bound: levels of a name

Wildcards == {"+", "#"}

ASSUME TopicAssumption ==
    /\ Reserved \subseteq Words
    /\ EmptyWord \in Words \ Reserved
    /\ Words \cap Wildcards = {}
    /\ MaxLevels \in Nat
    /\ MaxDepth \in Nat

\* Strings of 1..n levels.  The one empty level is the empty string, which
\* neither a name nor a filter may be.
Strings(L, n) ==
    (UNION {[1..k -> L] : k \in 1..n}) \ {[k \in {1} |-> EmptyWord]}

\* topic_name_valid(): no wildcards.
Names == Strings(Words, MaxDepth)

\* topic_filter_valid(): wildcards are whole levels, '#' is the last one.
Filters ==
    {f \in Strings(Words \cup Wildcards, MaxLevels) :
        \A k \in 1..(Len(f) - 1) : f[k] # "#"}

\* The levels of a filter that stand for one level of a name each.
Fixed(f) == IF f[Len(f)] = "#" THEN Len(f) - 1 ELSE Len(f)

\* What the MQTT standard says: '+' stands for one level, '#' for any number
\* of them, none included, and neither for a first level with '$'.
Matches(f, n) ==
    /\ n[1] \in Reserved => f[1] \notin Wildcards
    /\ IF f[Len(f)] = "#" THEN Len(n) >= Fixed(f) ELSE Len(n) = Fixed(f)
    /\ \A k \in 1..Fixed(f) : f[k] = "+" \/ f[k] = n[k]

====
