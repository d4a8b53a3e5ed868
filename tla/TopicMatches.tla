---------------------------- MODULE TopicMatches ----------------------------
(***************************************************************************)
(* topic_matches() of topic.hpp: the loop over the levels of a filter and  *)
(* a name, for every valid pair of them.                                   *)
(***************************************************************************)
EXTENDS TopicLevels

VARIABLES
    filter, name,   \* the arguments
    fi, ni,         \* the current level of each
    active,         \* name_active
    pc, result

vars == <<filter, name, fi, ni, active, pc, result>>

Init ==
    /\ filter \in Filters
    /\ name \in Names
    /\ fi = 1
    /\ ni = 1
    /\ active = TRUE
    /\ pc = "start"
    /\ result = FALSE

Return(value) ==
    /\ pc' = "done"
    /\ result' = value
    /\ UNCHANGED <<filter, name, fi, ni, active>>

\* Mutant: only '#' is kept from a first level with '$'.
DollarPlus == name[1] \in Reserved /\ filter[1] = "#"

\* A filter that begins with a wildcard leaves '$' topics alone.
Dollar == name[1] \in Reserved /\ filter[1] \in Wildcards

Start ==
    /\ pc = "start"
    /\ IF Dollar THEN Return(FALSE)
       ELSE pc' = "loop" /\ UNCHANGED <<filter, name, fi, ni, active, result>>

\* '#' takes this level and everything below.
Hash ==
    /\ pc = "loop"
    /\ filter[fi] = "#"
    /\ Return(TRUE)

\* The filter expects another level.
Exhausted ==
    /\ pc = "loop"
    /\ filter[fi] # "#"
    /\ ~active
    /\ Return(FALSE)

SameLevel == filter[fi] = "+" \/ filter[fi] = name[ni]

Differs ==
    /\ pc = "loop"
    /\ filter[fi] # "#"
    /\ active
    /\ ~SameLevel
    /\ Return(FALSE)

\* The filter ends: the name must end as well.
LastLevel ==
    /\ pc = "loop"
    /\ filter[fi] # "#"
    /\ active
    /\ SameLevel
    /\ fi = Len(filter)
    /\ Return(ni = Len(name))

\* The filter goes on, the name does or is used up.
NextLevel ==
    /\ pc = "loop"
    /\ filter[fi] # "#"
    /\ active
    /\ SameLevel
    /\ fi < Len(filter)
    /\ fi' = fi + 1
    /\ IF ni < Len(name)
       THEN ni' = ni + 1 /\ UNCHANGED active
       ELSE active' = FALSE /\ UNCHANGED ni
    /\ UNCHANGED <<filter, name, pc, result>>

Done == pc = "done" /\ UNCHANGED vars

Next == Start \/ Hash \/ Exhausted \/ Differs \/ LastLevel \/ NextLevel

Spec == Init /\ [][Next \/ Done]_vars

----------------------------------------------------------------------------
(* Properties.                                                             *)

\* While the loop runs, every level before the current one has matched, and
\* the name is used up exactly when the filter is one level ahead of it.
LoopInv ==
    /\ filter \in Filters /\ name \in Names
    /\ pc \in {"start", "loop", "done"}
    /\ active \in BOOLEAN /\ result \in BOOLEAN
    /\ fi \in 1..Len(filter) /\ ni \in 1..Len(name)
    /\ IF active THEN fi = ni ELSE fi = ni + 1 /\ ni = Len(name)
    /\ \A k \in 1..(fi - 1) : /\ filter[k] # "#"
                              /\ filter[k] = "+" \/ filter[k] = name[k]
    /\ pc = "loop" => ~Dollar

\* topic_matches() agrees with the definition of matching, for every filter
\* and every name: empty levels, '#' on the parent level and '$' included.
MatchCorrect == pc = "done" => result = Matches(filter, name)

====
