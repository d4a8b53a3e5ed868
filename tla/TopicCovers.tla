---------------------------- MODULE TopicCovers ----------------------------
(***************************************************************************)
(* topic_filter_covers() of topic.hpp: whether everything one filter       *)
(* matches is matched by another.  The access control list grants a        *)
(* subscription by it (broker/table_acl.hpp).                              *)
(***************************************************************************)
EXTENDS TopicLevels

VARIABLES
    cover, filter,   \* the arguments
    ci, fi,          \* the current level of each
    active,          \* filter_active
    pc, result

vars == <<cover, filter, ci, fi, active, pc, result>>

Init ==
    /\ cover \in Filters
    /\ filter \in Filters
    /\ ci = 1
    /\ fi = 1
    /\ active = TRUE
    /\ pc = "start"
    /\ result = FALSE

Return(value) ==
    /\ pc' = "done"
    /\ result' = value
    /\ UNCHANGED <<cover, filter, ci, fi, active>>

\* Mutant: '$' is a level like any other.
DollarNone == FALSE

\* A wildcard does not cover a first level with '$'.
Dollar == filter[1] \in Reserved /\ cover[1] \in Wildcards

Start ==
    /\ pc = "start"
    /\ IF Dollar THEN Return(FALSE)
       ELSE pc' = "loop" /\ UNCHANGED <<cover, filter, ci, fi, active, result>>

\* '#' covers this level and everything below.
Hash ==
    /\ pc = "loop"
    /\ cover[ci] = "#"
    /\ Return(TRUE)

\* The cover expects another level.
Exhausted ==
    /\ pc = "loop"
    /\ cover[ci] # "#"
    /\ ~active
    /\ Return(FALSE)

\* Mutant: only equal levels are covered.
CoversLevelEqual == filter[fi] # "#" /\ cover[ci] = filter[fi]

\* Only '#' covers '#', only '+' covers '+', and '+' covers every word.
CoversLevel ==
    /\ filter[fi] # "#"
    /\ cover[ci] = "+" \/ (filter[fi] # "+" /\ cover[ci] = filter[fi])

Differs ==
    /\ pc = "loop"
    /\ cover[ci] # "#"
    /\ active
    /\ ~CoversLevel
    /\ Return(FALSE)

\* The cover ends: the filter must end as well.
LastLevel ==
    /\ pc = "loop"
    /\ cover[ci] # "#"
    /\ active
    /\ CoversLevel
    /\ ci = Len(cover)
    /\ Return(fi = Len(filter))

\* The cover goes on, the filter does or is used up.
NextLevel ==
    /\ pc = "loop"
    /\ cover[ci] # "#"
    /\ active
    /\ CoversLevel
    /\ ci < Len(cover)
    /\ ci' = ci + 1
    /\ IF fi < Len(filter)
       THEN fi' = fi + 1 /\ UNCHANGED active
       ELSE active' = FALSE /\ UNCHANGED fi
    /\ UNCHANGED <<cover, filter, pc, result>>

Done == pc = "done" /\ UNCHANGED vars

Next == Start \/ Hash \/ Exhausted \/ Differs \/ LastLevel \/ NextLevel

Spec == Init /\ [][Next \/ Done]_vars

----------------------------------------------------------------------------
(* Properties.                                                             *)

\* While the loop runs, every level of the filter before the current one is
\* covered, and the filter is used up exactly when the cover is ahead of it.
LoopInv ==
    /\ cover \in Filters /\ filter \in Filters
    /\ pc \in {"start", "loop", "done"}
    /\ active \in BOOLEAN /\ result \in BOOLEAN
    /\ ci \in 1..Len(cover) /\ fi \in 1..Len(filter)
    /\ IF active THEN ci = fi ELSE ci = fi + 1 /\ fi = Len(filter)
    /\ \A k \in 1..(ci - 1) :
          /\ cover[k] # "#" /\ filter[k] # "#"
          /\ cover[k] = "+" \/ (filter[k] # "+" /\ cover[k] = filter[k])
    /\ pc # "start" /\ Dollar => pc = "done" /\ ~result

Included == \A n \in Names : Matches(filter, n) => Matches(cover, n)

\* A filter that is said to be covered matches no name outside the cover: a
\* subscription granted by an access rule stays within the rule.
CoversSound == pc = "done" /\ result => Included

\* The other way round, the walk refuses only what it should, with one
\* exception: nothing is a name above "#" and "/#", so that "+/#" matches
\* what "#" does and "/+/#" what "/#" does.
CoversComplete ==
    pc = "done" /\ Included =>
        \/ result
        \/ /\ filter \in {<<"#">>, <<EmptyWord, "#">>}
           /\ cover[Len(filter)] = "+"

====
