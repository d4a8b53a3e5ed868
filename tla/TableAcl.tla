------------------------------ MODULE TableAcl ------------------------------
(***************************************************************************)
(* TableAcl (broker/table_acl.hpp): who may connect, and what a role may   *)
(* publish, subscribe to and receive.                                      *)
(*                                                                         *)
(* allowed() walks the rules and, for each one that is about the role and  *)
(* the access, runs topic_matches() or topic_filter_covers() on its        *)
(* pattern: the loops of TopicMatches and TopicCovers, composed here on    *)
(* the same variables.  Names and passwords are only ever compared whole,  *)
(* and are model values.                                                   *)
(***************************************************************************)
EXTENDS TopicLevels

CONSTANTS
    UserNames, Passwords,   \* one password stands for the empty one, and for none
    Roles,
    MaxUsers, MaxRules,
    FewPatterns,            \* bound: patterns of tables with more than one rule
    FewSubjects             \* bound: what is asked of those

\* There is always another word to tell two filters apart by, and a name may
\* have as many levels as a filter.
ASSUME WordsAssumption ==
    /\ \A v \in Words : \E w \in Words \ Reserved : w \notin {v, EmptyWord}
    /\ MaxLevels <= MaxDepth

Read == 1
Write == 2
Accesses == {1, 2, 3}       \* read, write, read_write

VARIABLES
    users, rules,     \* users_, rules_
    anon,             \* anon_role_, or none in it: the set of roles it gives
    role,             \* what authenticate() said: a set of at most one role
    login,            \* what authenticate() was asked: a set of at most one
    ask,              \* what allowed() is asked: [need, asFilter], or NoAsk
    at,               \* the rule it is at
    answer,           \* "none", "yes", "no"
    pattern, subject, pi, si, active, pc, result   \* of the topic loop

outer == <<users, rules, anon, role, login, ask, at, answer>>
inner == <<pattern, subject, pi, si, active, pc, result>>
vars == <<outer, inner>>

NoAsk == [need |-> 0, asFilter |-> FALSE]
NoTopic == <<>>

M == INSTANCE TopicMatches WITH filter <- pattern, name <- subject, fi <- pi, ni <- si
C == INSTANCE TopicCovers WITH cover <- pattern, filter <- subject, ci <- pi, fi <- si

Init ==
    /\ users = <<>> /\ rules = <<>> /\ anon = {} /\ role = {} /\ login = {}
    /\ ask = NoAsk /\ at = 0 /\ answer = "none"
    /\ pattern = NoTopic /\ subject = NoTopic /\ pi = 1 /\ si = 1
    /\ active = TRUE /\ pc = "none" /\ result = FALSE

-----------------------------------------------------------------------------
(* Configuration, before the first client.                                 *)

Configuring == role = {} /\ login = {} /\ ask = NoAsk

Known(name) == \E i \in 1..Len(users) : users[i].name = name

\* add_user().  The user table and the rule table are never read together, so
\* one of them is enough at a time.
AddUser(name, password, r) ==
    /\ Configuring /\ rules = <<>> /\ anon = {}
    /\ ~Known(name) /\ Len(users) < MaxUsers
    /\ users' = Append(users, [name |-> name, password |-> password, role |-> r])
    /\ UNCHANGED <<rules, anon, role, login, ask, at, answer, inner>>

AllowAnonymous(r) ==
    /\ Configuring
    /\ anon' = {r}
    /\ UNCHANGED <<users, rules, role, login, ask, at, answer, inner>>

\* The bounds on the rules: one on any pattern, which gives the client all there
\* is, or several on a few.
WithinBound(table) ==
    \/ \A i \in 1..Len(table) : table[i].pattern \in FewPatterns
    \/ Len(table) = 1 /\ table[1].access = 3 /\ table[1].role \in anon

\* add_rule().
AddRule(r, p, access) ==
    /\ Configuring /\ users = <<>> /\ anon # {}
    /\ Len(rules) < MaxRules
    /\ LET table == Append(rules, [pattern |-> p, role |-> r, access |-> access])
       IN WithinBound(table) /\ rules' = table
    /\ UNCHANGED <<users, anon, role, login, ask, at, answer, inner>>

-----------------------------------------------------------------------------
(* authenticate().                                                         *)

Anonymous ==
    /\ Configuring
    /\ anon # {}
    /\ role' = anon
    /\ UNCHANGED <<users, rules, anon, login, ask, at, answer, inner>>

\* The scan of the whole table: what was found after k users.  The first full
\* match is kept.
Scan(name, password) ==
    LET found[k \in 0..Len(users)] ==
            IF k = 0 THEN {}
            ELSE IF /\ found[k - 1] = {}
                    /\ users[k].name = name /\ users[k].password = password
                 THEN {users[k].role} ELSE found[k - 1]
    IN found[Len(users)]

Authenticate(name, password) ==
    /\ Configuring /\ users # <<>>
    /\ role' = Scan(name, password)
    /\ login' = {[name |-> name, password |-> password]}
    /\ UNCHANGED <<users, rules, anon, ask, at, answer, inner>>

-----------------------------------------------------------------------------
(* allowed(), and the three questions it answers.                          *)

Subjects(topics) ==
    IF \A i \in 1..Len(rules) : rules[i].pattern \in FewPatterns
    THEN topics \cap FewSubjects ELSE topics

Allowed(need, topic, asFilter) ==
    /\ role # {} /\ ask = NoAsk
    /\ ask' = [need |-> need, asFilter |-> asFilter]
    /\ subject' = topic
    /\ at' = 1
    /\ UNCHANGED <<users, rules, anon, role, login, answer, pattern, pi, si, active, pc, result>>

AuthorizePublish(topic) == Allowed(Write, topic, FALSE)
AuthorizeReceive(topic) == Allowed(Read, topic, FALSE)

\* Mutant: the right to write is taken for the right to subscribe.
SubscribeAsWrite(filter) == Allowed(Write, filter, TRUE)

AuthorizeSubscribe(filter) == Allowed(Read, filter, TRUE)

Asked == ask # NoAsk /\ answer = "none"

\* Mutant: the access a rule gives is not looked at.
AboutRole(r) == r.role \in role

\* r.role == role and (r.access & need) != 0.
About(r) == r.role \in role /\ (r.access = 3 \/ r.access = ask.need)

Skip ==
    /\ Asked /\ pc = "none" /\ at <= Len(rules) /\ ~About(rules[at])
    /\ at' = at + 1
    /\ UNCHANGED <<users, rules, anon, role, login, ask, answer, inner>>

Try ==
    /\ Asked /\ pc = "none" /\ at <= Len(rules) /\ About(rules[at])
    /\ pattern' = rules[at].pattern
    /\ pi' = 1 /\ si' = 1 /\ active' = TRUE /\ pc' = "start" /\ result' = FALSE
    /\ UNCHANGED <<outer, subject>>

Walk ==
    /\ Asked
    /\ IF ask.asFilter THEN C!Next ELSE M!Next
    /\ UNCHANGED outer

\* A hit grants; a miss leaves it to the rules that follow.
Judge ==
    /\ Asked /\ pc = "done"
    /\ IF result THEN answer' = "yes" /\ UNCHANGED at ELSE at' = at + 1 /\ UNCHANGED answer
    /\ pc' = IF result THEN pc ELSE "none"
    /\ UNCHANGED <<users, rules, anon, role, login, ask, pattern, subject, pi, si, active, result>>

\* Deny by default.
Deny ==
    /\ Asked /\ pc = "none" /\ at > Len(rules)
    /\ answer' = "no"
    /\ UNCHANGED <<users, rules, anon, role, login, ask, at, inner>>

Configure ==
    \/ \E name \in UserNames :
        \/ \E password \in Passwords, r \in Roles : AddUser(name, password, r)
        \/ \E password \in Passwords : Authenticate(name, password)
    \/ \E r \in Roles :
        \/ AllowAnonymous(r)
        \/ \E p \in Filters, access \in Accesses : AddRule(r, p, access)
    \/ Anonymous

Question ==
    \/ \E topic \in Names \cap FewSubjects : AuthorizePublish(topic)
    \/ \E topic \in Subjects(Names) : AuthorizeReceive(topic)
    \/ \E filter \in Subjects(Filters) : AuthorizeSubscribe(filter)

\* Nothing more is asked of this table.
Finished ==
    /\ answer # "none" \/ (login # {} /\ role = {})
    /\ UNCHANGED vars

Next ==
    \/ Configuring /\ Configure
    \/ ask = NoAsk /\ Question
    \/ Skip \/ Try \/ Walk \/ Judge \/ Deny
    \/ Finished

Spec == Init /\ [][Next]_vars

-----------------------------------------------------------------------------
(* Properties.                                                             *)

\* The other way round, topic_filter_covers() refuses only what it should, but
\* for the one exception of C!CoversComplete.
CoversComplete == ask.asFilter => C!CoversComplete

\* What a role may do to a topic, by the rules alone.
Permitted(need, topic) ==
    \E i \in 1..Len(rules) :
        /\ rules[i].role \in role /\ rules[i].access \in {need, 3}
        /\ Matches(rules[i].pattern, topic)

\* A client that logs in has the role of the one user with its name, if the
\* password is right, and none otherwise; and what it publishes or is sent is
\* allowed exactly when some rule for the role and the access matches the topic,
\* wherever in the table it is.
DecidedByRules ==
    /\ \A l \in login :
          role = {users[i].role : i \in
                     {j \in 1..Len(users) : users[j].name = l.name /\ users[j].password = l.password}}
    /\ answer # "none" /\ ~ask.asFilter =>
          ((answer = "yes") <=> Permitted(ask.need, subject))

\* A subscription that was granted is never found short at delivery: whatever
\* its filter matches, authorize_receive() allows too.
GrantHolds ==
    answer = "yes" /\ ask.asFilter =>
        \A n \in Names : Matches(subject, n) => Permitted(Read, n)

====
