-------------------------- MODULE LifecycleProofs --------------------------
(***************************************************************************)
(* Proofs about Lifecycle, for every number of connections, of session     *)
(* slots, of client ids and of wills, and every width of the two counters: *)
(* the invariant, and from it what a step may do to a session and a will.  *)
(***************************************************************************)
EXTENDS Lifecycle, FiniteSetTheorems, TLAPS

\* A leaf that names no prover is first-order reasoning, given to Zenon; the
\* others name the SMT solver.
USE ZenonT(60)

\* The ticket stays in the range of its counter when it is counted on.
LEMMA TicketRange ==
    ASSUME TypeOK
    PROVE  (ticket + 1) % OrderRange \in 0..(OrderRange - 1)
BY IdsAssumption, SMTT(60) DEF TypeOK

\* Kill() sets flags and nothing else.
LEMMA KillType ==
    ASSUME TypeOK, NEW R
    PROVE  /\ Kill(R) \in [Conns -> ConnRecord]
           /\ \A c \in Conns :
                /\ Kill(R)[c].active = conns[c].active
                /\ Kill(R)[c].notify = conns[c].notify
                /\ Kill(R)[c].session = conns[c].session
                /\ Kill(R)[c].dead <=> (conns[c].dead \/ c \in R)
BY DEF TypeOK, Kill, ConnRecord

\* A session record stays one when the fields a handler writes are written.
LEMMA SessionUpdate ==
    ASSUME NEW r \in SessionRecord, NEW b \in BOOLEAN,
           NEW c \in Conns \cup {NoConn}, NEW w \in Wills \cup {NoWill},
           NEW o \in 0..(OrderRange - 1)
    PROVE  /\ [r EXCEPT !.will = w] \in SessionRecord
           /\ [r EXCEPT !.conn = c, !.will = w, !.order = o] \in SessionRecord
           /\ [r EXCEPT !.clean = b, !.conn = c, !.will = w, !.order = o]
                \in SessionRecord
BY DEF SessionRecord

\* A free slot is a session record, also once it has been given a client id.
LEMMA FreeType ==
    /\ Free \in SessionRecord
    /\ \A id \in ClientIds \cup AutoIds \cup {NoClient} :
        [Free EXCEPT !.used = TRUE, !.id = id] \in SessionRecord
<1>1. 0 \in 0..(OrderRange - 1)
  BY IdsAssumption, SMTT(60)
<1>2. QED
  BY <1>1 DEF Free, SessionRecord

\* The initial state is well typed.
LEMMA TypeInit == Init => TypeOK
BY SizesAssumption, IdsAssumption, SMTT(60) DEF Init, TypeOK, Closed, Free, NoRequest, ConnRecord, SessionRecord,
   Request, Places, AutoIds, Conns, Slots, Wills, NoConn, NoSession, NoWill

\* Every step keeps the types.  CallInv bounds the number of wills and says
\* that the connection being fed exists.
LEMMA TypeNext ==
    ASSUME TypeOK, CallInv, [Next]_vars
    PROVE  TypeOK'
<1> USE SizesAssumption, IdsAssumption DEF vars, pool, call, history
<1>1. CASE UNCHANGED vars
  BY <1>1 DEF TypeOK
<1>2. ASSUME NEW c \in Conns, ConnOpen(c) PROVE TypeOK'
  BY <1>2 DEF TypeOK, ConnOpen, Closed, ConnRecord, NoSession
<1>3. ASSUME NEW c \in Conns, ConnClosed(c) PROVE TypeOK'
  <2>1. conns' \in [Conns -> ConnRecord]
    <3>1. [conns[c] EXCEPT !.notify = FALSE, !.dead = TRUE] \in ConnRecord
      BY DEF TypeOK, ConnRecord
    <3>2. QED
      BY <1>3, <3>1, SMTT(60) DEF TypeOK, ConnClosed
  <2>2. pc' \in Places
    BY <1>3 DEF ConnClosed, Places
  <2>3. QED
    BY <1>3, <2>1, <2>2 DEF TypeOK, ConnClosed
<1>4. ASSUME NEW c \in Conns, ConnData(c) PROVE TypeOK'
  BY <1>4 DEF TypeOK, ConnData, Places
<1>5. ASSUME NEW R \in SUBSET Conns, Publish(R) \/ Tick(R) PROVE TypeOK'
  BY <1>5, KillType, SMTT(60) DEF TypeOK, Publish, Tick, Places
<1>6. ASSUME NEW R \in SUBSET Conns,
             HandlePublish(R) \/ HandleRequest(R) \/ FeedEnd(R)
      PROVE  TypeOK'
  BY <1>6, KillType, SMTT(60) DEF TypeOK, HandlePublish, HandleRequest, FeedEnd, Places, Feeding
<1>7. CASE HandleViolation
  BY <1>7, KillType, SMTT(60) DEF TypeOK, HandleViolation, Feeding
<1>8. CASE HandleDisconnect
  <2> DEFINE s == conns[cur].session
  <2>1. s \in Slots
    BY <1>8 DEF HandleDisconnect, Feeding, HasSession, CallInv, TypeOK, ConnRecord
  <2> HIDE DEF s
  <2>2. sessions' = [sessions EXCEPT ![s].will = NoWill]
    BY <1>8 DEF HandleDisconnect, s
  <2>3. discarded' = discarded \cup ({sessions[s].will} \ {NoWill})
    BY <1>8 DEF HandleDisconnect, s
  <2>4. sessions' \in [Slots -> SessionRecord]
    BY <2>1, <2>2, SessionUpdate DEF TypeOK
  <2>5. discarded' \subseteq Wills
    BY <2>1, <2>3 DEF TypeOK, SessionRecord
  <2>6. QED
    BY <1>8, <2>4, <2>5, KillType, SMTT(60) DEF TypeOK, HandleDisconnect, Feeding
<1>9. ASSUME NEW r \in Request, ConnectRefused(r) PROVE TypeOK'
  BY <1>9, KillType, SMTT(60) DEF TypeOK, ConnectRefused, Identified, IsNextAuto, Feeding
<1>10. ASSUME NEW r \in Request, ConnectAccepted(r) PROVE TypeOK'
  BY <1>10, KillType, SMTT(60) DEF TypeOK, ConnectAccepted, Identified, IsNextAuto, Feeding, Request, Places
<1>11. ASSUME NEW s \in Slots, NEW R \in SUBSET Conns, Bind(s, R) PROVE TypeOK'
  <2>1. cur \in Conns /\ req.id # NoClient /\ (req.will => armed < MaxWills)
    BY <1>11 DEF Bind, Binding, CallInv
  <2>2. Released \in [Slots -> SessionRecord]
    BY FreeType DEF Released, TypeOK
  <2>3. armed' \in 0..MaxWills
    BY <1>11, <2>1, SMTT(60) DEF Bind, TypeOK
  <2>4. sessions' \in [Slots -> SessionRecord]
    <3> DEFINE base == IF Resumes(s) THEN sessions[s]
                       ELSE [Free EXCEPT !.used = TRUE, !.id = req.id]
               will == IF req.will THEN armed + 1 ELSE NoWill
               rec == [base EXCEPT !.clean = req.clean, !.conn = cur,
                                   !.will = will, !.order = 0]
    <3>1. base \in SessionRecord
      BY FreeType DEF TypeOK, Request
    <3>2. will \in Wills \cup {NoWill}
      BY <2>1, SMTT(60) DEF TypeOK, Wills
    <3>3. sessions' = [Released EXCEPT ![s] = rec]
      BY <1>11 DEF Bind
    <3>4. req.clean \in BOOLEAN /\ 0 \in 0..(OrderRange - 1)
      BY SMTT(60) DEF TypeOK, Request
    <3> HIDE DEF base, will
    <3>5. rec \in SessionRecord
      BY <2>1, <3>1, <3>2, <3>4, SessionUpdate
    <3> HIDE DEF rec
    <3>6. QED
      BY <2>2, <3>3, <3>5
  <2>5. conns' \in [Conns -> ConnRecord]
    BY <1>11, <2>1, KillType, SMTT(60) DEF Bind, ConnRecord
  <2>6. QED
    BY <1>11, <2>1, <2>3, <2>4, <2>5, SMTT(60) DEF TypeOK, Bind, NoRequest, Request, Places
<1>12. CASE BindUnavailable
  BY <1>12, KillType DEF TypeOK, BindUnavailable, NoRequest, Request, Places
<1>13. ASSUME NEW c \in Conns, NEW R \in SUBSET Conns, Teardown(c, R) PROVE TypeOK'
  <2> DEFINE s == conns[c].session
             gone == [conns[c] EXCEPT !.active = FALSE, !.dead = FALSE,
                                      !.session = NoSession]
  <2>1. s \in Slots \cup {NoSession} /\ gone \in ConnRecord
    BY DEF TypeOK, ConnRecord
  <2>2. conns' \in [Conns -> ConnRecord]
    <3>1. conns' = [Kill(R) EXCEPT ![c] = gone]
      BY <1>13 DEF Teardown, Deactivated
    <3> HIDE DEF gone
    <3>2. QED
      BY <2>1, <3>1, KillType
  <2>3. s # NoSession => Detached(s) \in [Slots -> SessionRecord]
    <3> HIDE DEF s
    <3>1. SUFFICES ASSUME s # NoSession
                   PROVE  Detached(s) \in [Slots -> SessionRecord]
      OBVIOUS
    <3>2. sessions[s] \in SessionRecord
      BY <2>1, <3>1 DEF TypeOK
    <3>3. [sessions[s] EXCEPT !.conn = NoConn, !.will = NoWill,
                              !.order = (ticket + 1) % OrderRange]
            \in SessionRecord
      BY <3>2, TicketRange, SessionUpdate
    <3>4. QED
      BY <3>3, FreeType DEF Detached, TypeOK
  <2>4. /\ sessions' \in [Slots -> SessionRecord]
        /\ ticket' \in 0..(OrderRange - 1)
        /\ age' \in [Slots -> 0..OrderRange]
    BY <1>13, <2>3, TicketRange, SMTT(60) DEF Teardown, TypeOK
  <2>5. fired' \in [Wills -> Nat] /\ open' \subseteq Conns
    BY <1>13, SMTT(60) DEF Teardown, TypeOK, TransportClose
  <2>6. QED
    BY <1>13, <2>2, <2>4, <2>5 DEF TypeOK, Teardown
<1>14. CASE FlushEnd
  BY <1>14 DEF TypeOK, FlushEnd, Places
<1>15. ASSUME NEW E \in SUBSET Slots, ExpireSessions(E) PROVE TypeOK'
  BY <1>15, SMTT(60) DEF TypeOK, ExpireSessions, Places, Free, SessionRecord, NoConn, NoWill
<1>16. QED
  BY SMTT(60), <1>1, <1>2, <1>3, <1>4, <1>5, <1>6, <1>7, <1>8, <1>9, <1>10, <1>11,
     <1>12, <1>13, <1>14, <1>15 DEF Next, Environment, BrokerStep

----------------------------------------------------------------------------
(* The inductive invariant, action by action.                              *)

\* A step that only flags existing connections keeps the links, the pool and
\* the agreement with the transport.
LEMMA KillStep ==
    ASSUME LifecycleInv, NEW R \in SUBSET {c \in Conns : conns[c].active},
           conns' = Kill(R), sessions' = sessions, open' = open, pc' # "idle"
    PROVE  Linked' /\ UniqueIds' /\ DisconnectedKept' /\ SlotAgreement' /\ IdleClean'
<1> USE DEF LifecycleInv
<1>1. Linked'
  BY KillType, SMTT(60) DEF Linked, Connected, TypeOK, SessionRecord
<1>2. UniqueIds' /\ DisconnectedKept'
  BY DEF UniqueIds, DisconnectedKept, Disconnected
<1>3. SlotAgreement' /\ IdleClean'
  BY KillType, SMTT(60) DEF SlotAgreement, IdleClean, IsDead, TypeOK, ConnRecord
<1>4. QED
  BY <1>1, <1>2, <1>3

\* The initial state satisfies the inductive invariant.
LEMMA InvInit == Init => LifecycleInv
<1> SUFFICES ASSUME Init PROVE LifecycleInv
  OBVIOUS
<1>1. TypeOK
  BY TypeInit
<1>2. Linked /\ UniqueIds /\ DisconnectedKept
  BY DEF Init, Linked, UniqueIds, DisconnectedKept, Disconnected, Connected,
     Closed, Free
<1>3. SlotAgreement /\ IdleClean /\ CallInv
  BY DEF Init, SlotAgreement, IdleClean, CallInv, NoneDead, IsDead, Closed
<1>4. QED
  BY <1>1, <1>2, <1>3 DEF LifecycleInv

\* conn_open() on a slot the broker has free.
LEMMA OpenInv ==
    ASSUME LifecycleInv, TypeOK', NEW c \in Conns, ConnOpen(c)
    PROVE  LifecycleInv'
<1> USE DEF LifecycleInv, ConnOpen, pool, call, history, Closed
<1>1. Linked'
  BY SMTT(60) DEF Linked, Connected, TypeOK
<1>2. UniqueIds' /\ DisconnectedKept'
  BY DEF UniqueIds, DisconnectedKept, Disconnected
<1>3. SlotAgreement' /\ IdleClean'
  BY DEF SlotAgreement, IdleClean, NoneDead, IsDead, TypeOK
<1>4. CallInv'
  BY DEF CallInv
<1>5. QED
  BY <1>1, <1>2, <1>3, <1>4

\* conn_closed() flags the connection the transport has given up.
LEMMA ClosedInv ==
    ASSUME LifecycleInv, TypeOK', NEW c \in Conns, ConnClosed(c)
    PROVE  LifecycleInv'
<1> USE DEF LifecycleInv, ConnClosed, pool, call, history
<1>1. Linked'
  BY SMTT(60) DEF Linked, Connected, TypeOK, ConnRecord, SessionRecord
<1>2. UniqueIds' /\ DisconnectedKept'
  BY DEF UniqueIds, DisconnectedKept, Disconnected
<1>3. SlotAgreement' /\ IdleClean'
  BY SMTT(60) DEF SlotAgreement, IdleClean, NoneDead, IsDead, TypeOK, ConnRecord
<1>4. CallInv'
  BY DEF CallInv
<1>5. QED
  BY <1>1, <1>2, <1>3, <1>4

\* conn_data(), publish() and tick() begin.
LEMMA CallStartInv ==
    ASSUME LifecycleInv, TypeOK'
    PROVE  /\ \A c \in Conns : ConnData(c) => LifecycleInv'
           /\ \A R \in SUBSET Conns : Publish(R) \/ Tick(R) => LifecycleInv'
<1> USE DEF LifecycleInv, pool, call, history
<1>1. ASSUME NEW c \in Conns, ConnData(c) PROVE LifecycleInv'
  <2>1. Linked' /\ UniqueIds' /\ DisconnectedKept'
    BY <1>1 DEF ConnData, Linked, Connected, UniqueIds, DisconnectedKept, Disconnected
  <2>2. SlotAgreement' /\ IdleClean' /\ CallInv'
    BY <1>1 DEF ConnData, SlotAgreement, IdleClean, IsDead, CallInv, Alive
  <2>3. QED
    BY <2>1, <2>2
<1>2. ASSUME NEW R \in SUBSET Conns, Publish(R) \/ Tick(R) PROVE LifecycleInv'
  <2>1. R \in SUBSET {c \in Conns : conns[c].active}
    BY <1>2 DEF Publish, Tick, Online, Alive
  <2>2. Linked' /\ UniqueIds' /\ DisconnectedKept' /\ SlotAgreement' /\ IdleClean'
    BY <1>2, <2>1, KillStep DEF Publish, Tick
  <2>3. CallInv'
    BY <1>2 DEF CallInv, Publish, Tick
  <2>4. QED
    BY <2>2, <2>3
<1>3. QED
  BY <1>1, <1>2

\* A packet is handled that leaves the pool alone, or the chunk ends.
LEMMA PacketInv ==
    ASSUME LifecycleInv, TypeOK', NEW R \in SUBSET Conns,
           \/ HandleViolation \/ HandlePublish(R) \/ HandleRequest(R)
           \/ FeedEnd(R)
    PROVE  LifecycleInv'
<1> USE DEF LifecycleInv, pool, call, history
<1>1. cur \in Conns /\ conns[cur].active
  BY DEF CallInv, HandleViolation, HandlePublish, HandleRequest, FeedEnd, Feeding
<1>2. PICK Q \in SUBSET {c \in Conns : conns[c].active} : conns' = Kill(Q)
  BY <1>1 DEF HandleViolation, HandlePublish, HandleRequest, FeedEnd, Online, Alive
<1>3. Linked' /\ UniqueIds' /\ DisconnectedKept' /\ SlotAgreement' /\ IdleClean'
  BY <1>2, KillStep DEF HandleViolation, HandlePublish, HandleRequest, FeedEnd, Feeding
<1>4. CallInv'
  BY <1>1, <1>2, KillType DEF CallInv, HandleViolation, HandlePublish, HandleRequest,
     FeedEnd, Feeding
<1>5. QED
  BY <1>3, <1>4

\* DISCONNECT clears the will and flags the connection.
LEMMA DisconnectInv ==
    ASSUME LifecycleInv, TypeOK', HandleDisconnect
    PROVE  LifecycleInv'
<1> USE DEF LifecycleInv, HandleDisconnect
<1> DEFINE s == conns[cur].session
<1>1. cur \in Conns /\ conns[cur].active /\ s \in Slots
  BY DEF CallInv, Feeding, HasSession, TypeOK, ConnRecord
<1>2. \A t \in Slots : /\ sessions'[t].used = sessions[t].used
                       /\ sessions'[t].id = sessions[t].id
                       /\ sessions'[t].clean = sessions[t].clean
                       /\ sessions'[t].conn = sessions[t].conn
                       /\ sessions'[t].will \in {NoWill, sessions[t].will}
  BY <1>1, SMTT(60) DEF TypeOK, SessionRecord
<1> HIDE DEF s
<1>3. /\ \A c \in Conns : /\ conns'[c].active = conns[c].active
                          /\ conns'[c].session = conns[c].session
  BY KillType
<1> HIDE DEF HandleDisconnect
<1>4. Linked'
  BY <1>2, <1>3, SMTT(60) DEF Linked, Connected, TypeOK, ConnRecord, SessionRecord
<1>5. UniqueIds' /\ DisconnectedKept'
  BY <1>2, SMTT(60) DEF UniqueIds, DisconnectedKept, Disconnected
<1>6. SlotAgreement' /\ IdleClean' /\ CallInv'
  BY <1>1, KillType, SMTT(60) DEF SlotAgreement, IdleClean, IsDead, CallInv, Feeding,
     TypeOK, ConnRecord, HandleDisconnect
<1>7. QED
  BY <1>4, <1>5, <1>6

\* Validation of a CONNECT: the connection is flagged, or the holder of its
\* client id is.
LEMMA ConnectInv ==
    ASSUME LifecycleInv, TypeOK', NEW r \in Request,
           ConnectRefused(r) \/ ConnectAccepted(r)
    PROVE  LifecycleInv'
<1> USE DEF LifecycleInv, pool, call, history
<1>1. cur \in Conns /\ Alive(cur) /\ conns[cur].session = NoSession /\ pc = "feed"
  BY DEF CallInv, ConnectRefused, ConnectAccepted, Feeding, HasSession
<1>2. CASE ConnectRefused(r)
  <2>1. {cur} \in SUBSET {c \in Conns : conns[c].active}
    BY <1>1 DEF Alive
  <2>2. Linked' /\ UniqueIds' /\ DisconnectedKept' /\ SlotAgreement' /\ IdleClean'
    BY <1>1, <1>2, <2>1, KillStep DEF ConnectRefused
  <2>3. CallInv'
    BY <1>1, <1>2, <2>1, KillType DEF CallInv, ConnectRefused
  <2>4. QED
    BY <2>2, <2>3
<1>3. CASE ConnectAccepted(r)
  <2>1. PICK id \in ClientIds \cup AutoIds :
          /\ req' = [r EXCEPT !.id = id]
          /\ conns' = Kill({sessions[s].conn : s \in Holder(id)})
          /\ pc' = IF Holder(id) = {} THEN "bind" ELSE "takeover"
    BY <1>3 DEF ConnectAccepted
  <2> DEFINE K == {sessions[s].conn : s \in Holder(id)}
  <2>2. K \in SUBSET {c \in Conns : conns[c].active} /\ cur \notin K
    <3>1. ASSUME NEW s \in Holder(id)
          PROVE  /\ sessions[s].conn \in Conns /\ conns[sessions[s].conn].active
                 /\ sessions[s].conn # cur
      <4>1. sessions[s].conn \in Conns
        BY <3>1 DEF Holder, Connected, TypeOK, SessionRecord
      <4>2. conns[sessions[s].conn].session = s /\ s # NoSession
        BY <3>1, SMTT(60) DEF Holder, Linked, Slots, NoSession
      <4>3. QED
        BY <1>1, <4>1, <4>2 DEF Linked
    <3>2. QED
      BY <3>1
  <2>3. req'.id = id /\ req'.will = r.will /\ id # NoClient
    BY <2>1, IdsAssumption DEF Request
  <2>4. UNCHANGED <<sessions, cur, open, armed>>
    BY <1>3 DEF ConnectAccepted
  <2>5. Linked' /\ UniqueIds' /\ DisconnectedKept' /\ SlotAgreement' /\ IdleClean'
    BY <2>1, <2>2, <2>4, KillStep
  <2>6. CallInv'
    <3>0. \A c \in Conns : /\ conns'[c].active = conns[c].active
                           /\ conns'[c].session = conns[c].session
                           /\ conns'[c].dead <=> (conns[c].dead \/ c \in K)
      BY <2>1, KillType
    <3>1. pc' \in {"bind", "takeover"} /\ cur' \in Conns /\ Alive(cur)'
          /\ conns'[cur'].session = NoSession
      <4> HIDE DEF K
      <4>1. QED
        BY <1>1, <2>1, <2>2, <2>4, <3>0 DEF Alive
    <3>2. req'.will => armed' < MaxWills
      BY <1>3, <2>3, <2>4 DEF ConnectAccepted
    <3>3. ASSUME NEW s \in Slots, HoldsId(s, req.id)', Connected(s)'
          PROVE  (pc = "takeover" /\ IsDead(sessions[s].conn))'
      <4>1. s \in Holder(id)
        BY <2>3, <2>4, <3>3 DEF Holder, HoldsId, Connected
      <4>2. sessions[s].conn \in K
        BY <4>1
      <4> HIDE DEF K
      <4>3. conns'[sessions[s].conn].active /\ conns'[sessions[s].conn].dead
        BY <2>2, <3>0, <4>2
      <4>4. pc' = "takeover"
        BY <2>1, <4>1
      <4>5. QED
        BY <2>4, <4>3, <4>4 DEF IsDead
    <3>4. QED
      BY <2>3, <3>1, <3>2, <3>3 DEF CallInv, Alive
  <2>7. QED
    BY <2>5, <2>6
<1>4. QED
  BY <1>2, <1>3

\* The rest of a CONNECT, after the takeover.
LEMMA BindInv ==
    ASSUME LifecycleInv, TypeOK', NEW s \in Slots, NEW R \in SUBSET Conns, Bind(s, R)
    PROVE  LifecycleInv'
<1> USE DEF LifecycleInv
<1>1. /\ cur \in Conns /\ Alive(cur) /\ conns[cur].session = NoSession
      /\ req.id # NoClient /\ pc \in {"bind", "takeover"}
  BY DEF Bind, Binding, CallInv
<1>2. \A t \in Slots : HoldsId(t, req.id) => ~Connected(t)
  BY DEF Bind, Binding, CallInv, NoneDead, TypeOK, SessionRecord, Connected
<1>3. ~Connected(s)
  BY <1>2 DEF Bind, SessionSlot, Resumes, Released, Connected, Disconnected
\* The new record of slot s, and the others: kept, or released for a clean
\* session of the same id.
<1>4. /\ sessions'[s].used /\ sessions'[s].id = req.id /\ sessions'[s].conn = cur
  BY DEF Bind, Resumes, HoldsId, TypeOK, SessionRecord, Released, Free
<1>5. \A t \in Slots \ {s} : sessions'[t] = Released[t]
  BY DEF Bind, Released
<1>6. \A t \in Slots \ {s} :
        sessions'[t].used => /\ sessions'[t] = sessions[t]
                             /\ sessions[t].id # req.id
  <2> SUFFICES ASSUME NEW t \in Slots \ {s}, sessions'[t].used
               PROVE  sessions'[t] = sessions[t] /\ sessions[t].id # req.id
    OBVIOUS
  <2>1. sessions'[t] = IF req.clean /\ HoldsId(t, req.id) THEN Free ELSE sessions[t]
    BY <1>5 DEF Released
  <2>2. sessions'[t] = sessions[t] /\ ~(req.clean /\ HoldsId(t, req.id))
    BY <2>1, SMTT(60) DEF Free
  <2>3. ~HoldsId(t, req.id)
    <3> SUFFICES ASSUME HoldsId(t, req.id)
                 PROVE  FALSE
      OBVIOUS
    <3>1. Resumes(t)
      BY <2>2 DEF Resumes
    <3>2. Resumes(s)
      BY <3>1 DEF Bind, SessionSlot
    <3>3. QED
      BY <3>2 DEF Resumes, HoldsId, UniqueIds
  <2>4. QED
    BY <2>2, <2>3 DEF HoldsId
<1>7. /\ \A c \in Conns \ {cur} : conns'[c] = conns[c]
      /\ conns'[cur].session = s
      /\ conns'[cur].active
      /\ conns'[cur].notify = conns[cur].notify
  <2>1. R \subseteq {cur} /\ conns' = [Kill(R) EXCEPT ![cur].session = s]
    BY DEF Bind
  <2>2. \A c \in Conns \ {cur} : conns'[c] = conns[c]
    BY <2>1 DEF Kill
  <2>3. QED
    BY <1>1, <2>1, <2>2, KillType, SMTT(60) DEF ConnRecord, Alive
<1>8. UNCHANGED <<cur, open>> /\ pc' = "feed"
  BY DEF Bind
<1>9. Linked'
  <2>1. ASSUME NEW c \in Conns, conns'[c].session # NoSession
        PROVE  /\ conns'[c].active /\ sessions'[conns'[c].session].used
               /\ sessions'[conns'[c].session].conn = c
    <3>1. CASE c = cur
      BY <1>4, <1>7, <3>1
    <3>2. CASE c # cur
      <4> DEFINE t == conns[c].session
      <4>0. conns'[c] = conns[c] /\ t \in Slots
        BY <1>7, <2>1, <3>2, SMTT(60) DEF TypeOK, ConnRecord
      <4>1. Connected(t) /\ t # s /\ conns[c].active /\ sessions[t].conn = c
        BY <1>3, <2>1, <4>0, SMTT(60) DEF Linked, Connected, NoConn, Conns
      <4>2. ~HoldsId(t, req.id)
        BY <1>2, <4>0, <4>1
      <4>3. sessions'[t] = sessions[t]
        BY <1>5, <4>0, <4>1, <4>2 DEF Released
      <4>4. QED
        BY <4>0, <4>1, <4>3 DEF Connected
    <3>3. QED
      BY <3>1, <3>2
  <2>2. ASSUME NEW t \in Slots, Connected(t)'
        PROVE  conns'[sessions'[t].conn].session = t
    <3>1. CASE t = s
      BY <1>4, <1>7, <3>1
    <3>2. CASE t # s
      <4>1. sessions'[t] = sessions[t] /\ Connected(t)
        BY <1>6, <2>2, <3>2 DEF Connected
      <4>2. sessions[t].conn \in Conns /\ conns[sessions[t].conn].session = t
        BY <4>1 DEF Linked, Connected, TypeOK, SessionRecord
      <4>3. t # NoSession
        BY SMTT(60) DEF Slots, NoSession
      <4>4. QED
        BY <1>1, <1>7, <4>1, <4>2, <4>3
    <3>3. QED
      BY <3>1, <3>2
  <2>3. QED
    BY <2>1, <2>2 DEF Linked
<1>10. UniqueIds'
  BY <1>4, <1>6, SMTT(60) DEF UniqueIds
<1>11. DisconnectedKept'
  <2>1. ~Disconnected(s)'
    BY <1>1, <1>4, SMTT(60) DEF Disconnected, Conns, NoConn
  <2>2. QED
    BY <1>6, <2>1 DEF DisconnectedKept, Disconnected
<1>12. SlotAgreement' /\ IdleClean'
  BY <1>1, <1>7, <1>8 DEF SlotAgreement, IdleClean, IsDead, Alive, TypeOK
<1>13. CallInv'
  BY <1>1, <1>7, <1>8 DEF CallInv
<1>14. QED
  BY <1>9, <1>10, <1>11, <1>12, <1>13

\* CONNECT finds every session of the pool connected.
LEMMA UnavailableInv ==
    ASSUME LifecycleInv, TypeOK', BindUnavailable
    PROVE  LifecycleInv'
<1> USE DEF LifecycleInv, pool, call, history
<1>1. cur \in Conns /\ conns[cur].active
  BY DEF BindUnavailable, Binding, CallInv
<1>2. Linked' /\ UniqueIds' /\ DisconnectedKept' /\ SlotAgreement' /\ IdleClean'
  BY <1>1, KillStep DEF BindUnavailable
<1>3. CallInv'
  BY <1>1, KillType DEF CallInv, BindUnavailable
<1>4. QED
  BY <1>2, <1>3

\* One teardown: connection c and its session are parted, R flagged.
LEMMA TeardownInv ==
    ASSUME LifecycleInv, TypeOK', NEW c \in Conns, NEW R \in SUBSET Conns, Teardown(c, R)
    PROVE  LifecycleInv'
<1> USE DEF LifecycleInv
<1>0. PICK s \in Slots \cup {NoSession} : s = conns[c].session
  BY DEF TypeOK, ConnRecord
<1>1. R \subseteq Online /\ IsDead(c) /\ c \notin R
  BY DEF Teardown, NextDead, Online, Alive, IsDead
<1>2. /\ \A d \in Conns \ {c} : /\ conns'[d].active <=> conns[d].active
                                /\ conns'[d].notify <=> conns[d].notify
                                /\ conns'[d].session = conns[d].session
                                /\ conns'[d].dead <=> (conns[d].dead \/ d \in R)
      /\ ~conns'[c].active /\ conns'[c].session = NoSession
  BY KillType, SMTT(60) DEF Teardown, Deactivated, TypeOK, ConnRecord
<1>3. pc \in {"flush", "tick", "takeover"} /\ UNCHANGED <<pc, cur, req, armed>>
  BY DEF Teardown, call
\* The sessions other than s are untouched, s is free or disconnected.
<1>4. \A t \in Slots \ {s} : sessions'[t] = sessions[t]
  BY <1>0 DEF Teardown, Detached, TypeOK, pool
<1>5. s # NoSession =>
        /\ s \in Slots /\ Connected(s) /\ sessions[s].conn = c
        /\ ~Connected(s)'
        /\ sessions'[s].used => /\ sessions'[s].id = sessions[s].id
                                /\ ~sessions[s].clean
                                /\ sessions'[s].clean = sessions[s].clean
                                /\ sessions'[s].will = NoWill
  <2>1. SUFFICES ASSUME s # NoSession
                 PROVE  /\ s \in Slots /\ Connected(s) /\ sessions[s].conn = c
                        /\ ~Connected(s)'
                        /\ sessions'[s].used =>
                              /\ sessions'[s].id = sessions[s].id
                              /\ ~sessions[s].clean
                              /\ sessions'[s].clean = sessions[s].clean
                              /\ sessions'[s].will = NoWill
    OBVIOUS
  <2>2. s \in Slots /\ Connected(s) /\ sessions[s].conn = c
    <3>1. s \in Slots /\ sessions[s].used /\ sessions[s].conn = c
      BY <1>0, <2>1 DEF Linked, TypeOK, ConnRecord
    <3>2. QED
      BY <3>1, SMTT(60) DEF Connected, Conns, NoConn
  <2>3. sessions'[s] = IF sessions[s].clean THEN Free
                       ELSE [sessions[s] EXCEPT !.conn = NoConn, !.will = NoWill,
                                    !.order = (ticket + 1) % OrderRange]
    BY <1>0, <2>1, <2>2, SMTT(60) DEF Teardown, Detached, TypeOK
  <2>4. sessions[s] \in SessionRecord
    BY <2>2 DEF TypeOK
  <2>5. QED
    <3>1. CASE sessions[s].clean
      BY <2>2, <2>3, <3>1, SMTT(60) DEF Connected, Free
    <3>2. CASE ~sessions[s].clean
      <4>1. /\ sessions'[s].conn = NoConn /\ sessions'[s].will = NoWill
            /\ sessions'[s].id = sessions[s].id
            /\ sessions'[s].clean = sessions[s].clean
        BY <2>3, <2>4, <3>2 DEF SessionRecord
      <4>2. QED
        BY <2>2, <3>2, <4>1 DEF Connected
    <3>3. QED
      BY <3>1, <3>2
<1>6. Linked'
  <2>1. ASSUME NEW d \in Conns, conns'[d].session # NoSession
        PROVE  /\ conns'[d].active /\ sessions'[conns'[d].session].used
               /\ sessions'[conns'[d].session].conn = d
    <3>1. d # c /\ conns'[d].session = conns[d].session /\ conns[d].session \in Slots
      BY <1>2, <2>1 DEF TypeOK, ConnRecord, Slots, NoSession
    <3>2. conns[d].session # s
      BY <1>5, <2>1, <3>1, SMTT(60) DEF Linked, TypeOK, ConnRecord, SessionRecord
    <3>3. QED
      BY <1>2, <1>4, <2>1, <3>1, <3>2, SMTT(60) DEF Linked, TypeOK, ConnRecord, SessionRecord
  <2>2. ASSUME NEW t \in Slots, Connected(t)'
        PROVE  conns'[sessions'[t].conn].session = t
    <3>1. t # s /\ sessions'[t] = sessions[t]
      BY <1>4, <1>5, <2>2, SMTT(60) DEF Slots, NoSession
    <3>2. /\ Connected(t) /\ sessions[t].conn \in Conns
          /\ conns[sessions[t].conn].session = t
      BY <2>2, <3>1, SMTT(60) DEF Linked, Connected, TypeOK, SessionRecord
    <3>3. sessions[t].conn # c
      BY <1>0, <3>1, <3>2
    <3>4. QED
      BY <1>2, <3>1, <3>2, <3>3
  <2>3. QED
    BY <2>1, <2>2 DEF Linked
<1>7. UniqueIds' /\ DisconnectedKept'
  <2>1. \A t \in Slots : sessions'[t].used =>
            sessions[t].used /\ sessions'[t].id = sessions[t].id
    BY <1>4, <1>5, SMTT(60) DEF Connected, Slots, NoSession
  <2>2. UniqueIds'
    BY <2>1 DEF UniqueIds
  <2>3. DisconnectedKept'
    BY <1>4, <1>5, SMTT(60) DEF DisconnectedKept, Disconnected, Slots, NoSession
  <2>4. QED
    BY <2>2, <2>3
<1>8. SlotAgreement' /\ IdleClean'
  <2>1. open' = IF conns[c].notify THEN open \ {c} ELSE open
    BY DEF Teardown, TransportClose
  <2>2. c \notin open'
    BY <2>1 DEF SlotAgreement
  <2>3. QED
    BY <1>2, <1>3, <2>1, <2>2, SMTT(60) DEF SlotAgreement, IdleClean, IsDead, TypeOK
<1>9. CallInv'
  <2>1. CASE pc # "takeover"
    BY <1>3, <2>1 DEF CallInv
  <2>2. CASE pc = "takeover"
    <3>1. cur \in Conns /\ cur # c /\ cur \notin R /\ Alive(cur)
      BY <1>1, <2>2 DEF CallInv, Alive, IsDead, Online
    <3>2. Alive(cur)' /\ conns'[cur'].session = NoSession
      BY <1>2, <1>3, <2>2, <3>1 DEF CallInv, Alive
    <3>3. ASSUME NEW t \in Slots, HoldsId(t, req.id)', Connected(t)'
          PROVE  IsDead(sessions[t].conn)'
      <4>1. t # s /\ sessions'[t] = sessions[t]
        BY <1>4, <1>5, <3>3, SMTT(60) DEF Slots, NoSession
      <4>2. HoldsId(t, req.id) /\ Connected(t) /\ sessions[t].conn \in Conns
        BY <1>3, <3>3, <4>1 DEF HoldsId, Connected, TypeOK, SessionRecord
      <4>3. IsDead(sessions[t].conn) /\ sessions[t].conn # c
        BY <1>0, <2>2, <4>1, <4>2 DEF CallInv, Linked
      <4>4. QED
        BY <1>2, <4>1, <4>2, <4>3 DEF IsDead
    <3>4. QED
      BY <1>3, <2>2, <3>1, <3>2, <3>3 DEF CallInv, Alive
  <2>3. QED
    BY <2>1, <2>2
<1>10. QED
  BY <1>6, <1>7, <1>8, <1>9

\* The call returns.
LEMMA ReturnInv ==
    ASSUME LifecycleInv, TypeOK', NEW E \in SUBSET Slots, FlushEnd \/ ExpireSessions(E)
    PROVE  LifecycleInv'
<1> USE DEF LifecycleInv
<1>1. /\ NoneDead /\ pc' = "idle" /\ pc \in {"flush", "tick"}
      /\ UNCHANGED <<conns, open, cur>>
  BY DEF FlushEnd, ExpireSessions, call, pool
<1>2. \A s \in Slots : \/ sessions'[s] = sessions[s]
                       \/ ~Connected(s) /\ sessions'[s] = Free
  <2>1. CASE FlushEnd
    BY <2>1 DEF FlushEnd, pool
  <2>2. CASE ExpireSessions(E)
    BY <2>2 DEF ExpireSessions, Connected, Disconnected
  <2>3. QED
    BY <2>1, <2>2
<1>3. Linked' /\ UniqueIds' /\ DisconnectedKept'
  <2>1. Linked'
    <3>1. ASSUME NEW c \in Conns, conns'[c].session # NoSession
          PROVE  /\ conns'[c].active /\ sessions'[conns'[c].session].used
                 /\ sessions'[conns'[c].session].conn = c
      <4>1. /\ conns[c].session \in Slots /\ conns[c].active
            /\ Connected(conns[c].session) /\ sessions[conns[c].session].conn = c
        <5>1. conns[c].session # NoSession /\ conns[c].session \in Slots
          BY <1>1, <3>1 DEF TypeOK, ConnRecord
        <5>2. /\ conns[c].active /\ sessions[conns[c].session].used
              /\ sessions[conns[c].session].conn = c
          BY <5>1 DEF Linked
        <5>3. QED
          BY <5>1, <5>2, SMTT(60) DEF Connected, Conns, NoConn
      <4>2. QED
        BY <1>1, <1>2, <4>1 DEF Connected
    <3>2. ASSUME NEW t \in Slots, Connected(t)'
          PROVE  conns'[sessions'[t].conn].session = t
      BY <1>1, <1>2, <3>2, SMTT(60) DEF Linked, Connected, Free
    <3>3. QED
      BY <3>1, <3>2 DEF Linked
  <2>2. UniqueIds'
    BY <1>2, SMTT(60) DEF UniqueIds, Free
  <2>3. DisconnectedKept'
    BY <1>2, SMTT(60) DEF DisconnectedKept, Disconnected, Free
  <2>4. QED
    BY <2>1, <2>2, <2>3
<1>4. SlotAgreement' /\ IdleClean' /\ CallInv'
  BY <1>1 DEF SlotAgreement, IdleClean, CallInv, NoneDead, IsDead, TypeOK
<1>5. QED
  BY <1>3, <1>4

\* Every step keeps the inductive invariant.
LEMMA InvNext ==
    LifecycleInv /\ [Next]_vars => LifecycleInv'
<1> SUFFICES ASSUME LifecycleInv, [Next]_vars
             PROVE  LifecycleInv'
  OBVIOUS
<1>0. TypeOK'
  BY TypeNext DEF LifecycleInv
<1>1. ASSUME NEW c \in Conns, ConnOpen(c)
      PROVE  LifecycleInv'
  BY <1>0, <1>1, OpenInv
<1>2. ASSUME NEW c \in Conns, ConnClosed(c)
      PROVE  LifecycleInv'
  BY <1>0, <1>2, ClosedInv
<1>3. /\ \A c \in Conns : ConnData(c) => LifecycleInv'
      /\ \A R \in SUBSET Conns : Publish(R) \/ Tick(R) => LifecycleInv'
  BY <1>0, CallStartInv
<1>4. ASSUME NEW R \in SUBSET Conns,
             \/ HandleViolation \/ HandlePublish(R) \/ HandleRequest(R)
             \/ FeedEnd(R)
      PROVE  LifecycleInv'
  BY <1>0, <1>4, PacketInv
<1>5. CASE HandleDisconnect
  BY <1>0, <1>5, DisconnectInv
<1>6. ASSUME NEW r \in Request, ConnectRefused(r) \/ ConnectAccepted(r)
      PROVE  LifecycleInv'
  BY <1>0, <1>6, ConnectInv
<1>7. ASSUME NEW s \in Slots, NEW R \in SUBSET Conns, Bind(s, R)
      PROVE  LifecycleInv'
  BY <1>0, <1>7, BindInv
<1>8. CASE BindUnavailable
  BY <1>0, <1>8, UnavailableInv
<1>9. ASSUME NEW c \in Conns, NEW R \in SUBSET Conns, Teardown(c, R)
      PROVE  LifecycleInv'
  BY <1>0, <1>9, TeardownInv
<1>10. ASSUME NEW E \in SUBSET Slots, FlushEnd \/ ExpireSessions(E)
       PROVE  LifecycleInv'
  BY <1>0, <1>10, ReturnInv
<1>11. CASE UNCHANGED vars
  BY <1>11, SMTT(60) DEF vars, LifecycleInv, TypeOK, Linked, UniqueIds, DisconnectedKept,
     SlotAgreement, IdleClean, CallInv, Connected, Disconnected, IsDead, NoneDead,
     Alive, HoldsId
<1>12. QED
  <2>1. CASE Environment
    BY <1>1, <1>2, <1>3, <2>1 DEF Environment
  <2>2. CASE BrokerStep
    BY <1>4, <1>5, <1>6, <1>7, <1>8, <1>9, <1>10, <2>2 DEF BrokerStep
  <2>3. QED
    BY <1>11, <2>1, <2>2 DEF Next

\* The structure of the broker's state, for any number of connections,
\* sessions, client ids and packets: conns_ and sessions_ point at each
\* other, client ids are unique, only persistent sessions outlive their
\* connection, and no call returns with a connection flagged or with the
\* transport holding other connections than the broker.
THEOREM LifecycleInvariant == Spec => []LifecycleInv
BY InvInit, InvNext, PTL DEF Spec

\* Every variable keeps its type.
THEOREM TypeCorrect == Spec => []TypeOK
<1>1. LifecycleInv => TypeOK
  BY DEF LifecycleInv
<1>2. QED
  BY <1>1, LifecycleInvariant, PTL

\* conns_[ci].session and Session::conn agree at every moment of every call.
THEOREM LinkedAlways == Spec => []Linked
<1>1. LifecycleInv => Linked
  BY DEF LifecycleInv
<1>2. QED
  BY <1>1, LifecycleInvariant, PTL

\* No two sessions ever share a client id.
THEOREM UniqueIdsAlways == Spec => []UniqueIds
<1>1. LifecycleInv => UniqueIds
  BY DEF LifecycleInv
<1>2. QED
  BY <1>1, LifecycleInvariant, PTL

\* When a call returns nobody is left flagged.
THEOREM IdleCleanAlways == Spec => []IdleClean
<1>1. LifecycleInv => IdleClean
  BY DEF LifecycleInv
<1>2. QED
  BY <1>1, LifecycleInvariant, PTL

\* A session without a connection is persistent and teardown() has taken its
\* will from it.
THEOREM DisconnectedKeptAlways == Spec => []DisconnectedKept
<1>1. LifecycleInv => DisconnectedKept
  BY DEF LifecycleInv
<1>2. QED
  BY <1>1, LifecycleInvariant, PTL

\* Between calls the broker and the transport agree on the connections that
\* exist.
THEOREM SlotAgreementAlways == Spec => []SlotAgreement
<1>1. LifecycleInv => SlotAgreement
  BY DEF LifecycleInv
<1>2. QED
  BY <1>1, LifecycleInvariant, PTL

----------------------------------------------------------------------------
(* No CONNECT is refused for want of a session.                            *)

\* With a slot for every connection, the sessions of the pool cannot all be
\* on connections other than the one that is connecting.
LEMMA SlotLeft ==
    ASSUME LifecycleInv, MaxSessions >= MaxConnections, BindUnavailable
    PROVE  FALSE
<1> DEFINE f == [s \in Slots |-> sessions[s].conn]
<1>1. cur \in Conns /\ conns[cur].session = NoSession
  BY DEF BindUnavailable, Binding, LifecycleInv, CallInv
<1>2. \A s \in Slots : /\ sessions[s].conn \in Conns
                       /\ conns[sessions[s].conn].session = s
  BY DEF BindUnavailable, Connected, LifecycleInv, Linked, TypeOK, SessionRecord
<1>3. f \in [Slots -> Conns \ {cur}]
  BY <1>1, <1>2, SMTT(60) DEF Slots, NoSession
<1>4. /\ IsFiniteSet(Slots) /\ Cardinality(Slots) = MaxSessions
      /\ IsFiniteSet(Conns) /\ Cardinality(Conns) = MaxConnections
  BY SizesAssumption, FS_Interval, SMTT(60) DEF Slots, Conns
<1>5. /\ IsFiniteSet(Conns \ {cur})
      /\ Cardinality(Conns \ {cur}) = MaxConnections - 1
  BY <1>1, <1>4, FS_RemoveElement
<1>6. Cardinality(Conns \ {cur}) < Cardinality(Slots)
  BY <1>4, <1>5, SizesAssumption, SMTT(60)
<1> HIDE DEF f
<1>7. PICK s, t \in Slots : s # t /\ f[s] = f[t]
  BY <1>3, <1>4, <1>5, <1>6, FS_PigeonHole
<1>8. QED
  BY <1>2, <1>7 DEF f

\* The CONNACK a call has written is 0x03 only when BindUnavailable wrote it.
LEMMA AvailableNext ==
    ASSUME LifecycleInv, NeverUnavailable, [Next]_vars
    PROVE  NeverUnavailable'
<1>1. CASE BindUnavailable
  BY <1>1, SlotLeft DEF NeverUnavailable
<1>2. CASE ~BindUnavailable
  <2>1. connack' = connack \/ connack' \in {"none", "refused", "present", "new"}
    BY <1>2 DEF Next, vars, Environment, BrokerStep, ConnOpen, ConnClosed, ConnData,
       Publish, Tick, HandleViolation, HandleDisconnect, HandlePublish,
       HandleRequest, FeedEnd, ConnectRefused, ConnectAccepted, Bind, Teardown,
       FlushEnd, ExpireSessions
  <2>2. QED
    BY <2>1 DEF NeverUnavailable
<1>3. QED
  BY <1>1, <1>2

\* handle_connect() never answers 0x03 when there are at least as many
\* session slots as connections, as config.hpp's defaults have it.
THEOREM NeverUnavailableAlways == Spec => []NeverUnavailable
<1>1. Init => NeverUnavailable
  BY DEF Init, NeverUnavailable
<1>2. LifecycleInv /\ NeverUnavailable /\ [Next]_vars => NeverUnavailable'
  BY AvailableNext
<1>3. QED
  BY <1>1, <1>2, LifecycleInvariant, PTL DEF Spec

----------------------------------------------------------------------------
(* What a step may do to a session.                                        *)

\* The actions that leave the pool and the wills alone.
Quiet ==
    \/ \E c \in Conns : ConnOpen(c) \/ ConnClosed(c) \/ ConnData(c)
    \/ \E R \in SUBSET Conns : Publish(R) \/ Tick(R)
    \/ HandleViolation
    \/ \E R \in SUBSET Conns : HandlePublish(R) \/ HandleRequest(R) \/ FeedEnd(R)
    \/ \E r \in Request : ConnectRefused(r) \/ ConnectAccepted(r)
    \/ BindUnavailable
    \/ FlushEnd
    \/ UNCHANGED vars

\* They do leave them alone.
LEMMA QuietStep ==
    Quiet => UNCHANGED <<sessions, ticket, age, fired, discarded, armed>>
BY DEF Quiet, vars, pool, history, ConnOpen, ConnClosed, ConnData, Publish, Tick,
   HandleViolation, HandlePublish, HandleRequest, FeedEnd, ConnectRefused,
   ConnectAccepted, BindUnavailable, FlushEnd

\* A step is a quiet one or one of the four that write the pool.
LEMMA StepCases ==
    ASSUME [Next]_vars
    PROVE  \/ Quiet
           \/ HandleDisconnect
           \/ \E s \in Slots, R \in SUBSET Conns : Bind(s, R)
           \/ \E c \in Conns, R \in SUBSET Conns : Teardown(c, R)
           \/ \E E \in SUBSET Slots : ExpireSessions(E)
BY DEF Next, Environment, BrokerStep, Quiet

\* The slot CONNECT binds is nobody's: neither it nor a session it releases
\* is on a connection.
LEMMA BindSlots ==
    ASSUME LifecycleInv, NEW s \in Slots, NEW R \in SUBSET Conns, Bind(s, R)
    PROVE  /\ ~Connected(s)
           /\ \A t \in Slots \ {s} : Connected(t) => sessions'[t] = sessions[t]
           /\ sessions'[s].used /\ sessions'[s].id = req.id
           /\ sessions'[s].conn = cur /\ cur # NoConn
           /\ sessions'[s].will = IF req.will THEN armed + 1 ELSE NoWill
<1>1. \A t \in Slots : HoldsId(t, req.id) => ~Connected(t)
  <2> SUFFICES ASSUME NEW t \in Slots, HoldsId(t, req.id), Connected(t)
               PROVE  FALSE
    OBVIOUS
  <2>1. Binding
    BY DEF Bind
  <2>2. pc = "takeover" /\ IsDead(sessions[t].conn)
    BY <2>1 DEF Binding, LifecycleInv, CallInv
  <2>3. sessions[t].conn \in Conns
    BY DEF Connected, LifecycleInv, TypeOK, SessionRecord
  <2>4. QED
    BY <2>1, <2>2, <2>3 DEF Binding, NoneDead
<1>2. ~Connected(s)
  BY <1>1 DEF Bind, SessionSlot, Resumes, Released, Connected, Disconnected
<1>3. \A t \in Slots \ {s} : Connected(t) => sessions'[t] = sessions[t]
  <2>1. \A t \in Slots \ {s} : sessions'[t] = Released[t]
    BY DEF Bind, Released
  <2>2. \A t \in Slots : Connected(t) => Released[t] = sessions[t]
    BY <1>1 DEF Released
  <2>3. QED
    BY <2>1, <2>2
<1>4. /\ sessions'[s].used /\ sessions'[s].id = req.id /\ sessions'[s].conn = cur
      /\ sessions'[s].will = IF req.will THEN armed + 1 ELSE NoWill
  BY DEF Bind, Resumes, HoldsId, LifecycleInv, TypeOK, SessionRecord, Released, Free
<1>5. cur # NoConn
  BY SMTT(60) DEF Bind, Binding, LifecycleInv, CallInv, Conns, NoConn
<1>6. QED
  BY <1>2, <1>3, <1>4, <1>5

\* teardown() writes one session, the one on the connection it closes.
LEMMA TeardownSlots ==
    ASSUME LifecycleInv, NEW c \in Conns, NEW R \in SUBSET Conns, Teardown(c, R)
    PROVE  /\ IsDead(c)
           /\ \A t \in Slots : t # conns[c].session => sessions'[t] = sessions[t]
           /\ conns[c].session # NoSession =>
                /\ conns[c].session \in Slots
                /\ Connected(conns[c].session)
                /\ sessions[conns[c].session].conn = c
                /\ \/ ~sessions'[conns[c].session].used
                   \/ sessions'[conns[c].session].conn = NoConn
<1>1. IsDead(c)
  BY DEF Teardown, NextDead
<1>2. \A t \in Slots : t # conns[c].session => sessions'[t] = sessions[t]
  BY DEF Teardown, Detached, LifecycleInv, TypeOK, pool
<1>3. ASSUME conns[c].session # NoSession
      PROVE  /\ conns[c].session \in Slots
             /\ Connected(conns[c].session)
             /\ sessions[conns[c].session].conn = c
             /\ \/ ~sessions'[conns[c].session].used
                \/ sessions'[conns[c].session].conn = NoConn
  <2>1. /\ conns[c].session \in Slots
        /\ sessions[conns[c].session].used
        /\ sessions[conns[c].session].conn = c
    BY <1>3 DEF LifecycleInv, Linked, TypeOK, ConnRecord
  <2>2. PICK s \in Slots : s = conns[c].session
    BY <2>1
  <2>3. sessions'[s] = IF sessions[s].clean THEN Free
                       ELSE [sessions[s] EXCEPT !.conn = NoConn, !.will = NoWill,
                                    !.order = (ticket + 1) % OrderRange]
    BY <1>3, <2>2 DEF Teardown, Detached, LifecycleInv, TypeOK
  <2>4. ~sessions'[s].used \/ sessions'[s].conn = NoConn
    <3>1. sessions[s] \in SessionRecord
      BY <2>2 DEF LifecycleInv, TypeOK
    <3>2. QED
      BY <2>3, <3>1, SMTT(60) DEF Free, SessionRecord
  <2>5. QED
    BY <2>1, <2>2, <2>4, SMTT(60) DEF Connected, Conns, NoConn
<1>4. QED
  BY <1>1, <1>2, <1>3

\* DISCONNECT changes a session's will and nothing else of it.
LEMMA DisconnectSlots ==
    ASSUME LifecycleInv, HandleDisconnect
    PROVE  /\ conns[cur].session \in Slots
           /\ Connected(conns[cur].session)
           /\ \A t \in Slots : /\ sessions'[t].used <=> sessions[t].used
                               /\ sessions'[t].id = sessions[t].id
                               /\ sessions'[t].conn = sessions[t].conn
                               /\ sessions'[t].will =
                                    IF t = conns[cur].session THEN NoWill
                                                              ELSE sessions[t].will
<1>1. /\ cur \in Conns /\ conns[cur].session # NoSession
      /\ sessions' = [sessions EXCEPT ![conns[cur].session].will = NoWill]
  BY DEF HandleDisconnect, Feeding, HasSession, LifecycleInv, CallInv
<1>2. /\ conns[cur].session \in Slots
      /\ sessions[conns[cur].session].used
      /\ sessions[conns[cur].session].conn = cur
  BY <1>1 DEF LifecycleInv, Linked, TypeOK, ConnRecord
<1>3. QED
  BY <1>1, <1>2, SMTT(60) DEF Connected, Conns, NoConn, LifecycleInv, TypeOK, SessionRecord

\* A session whose connection is not flagged survives every step.
LEMMA LiveStep ==
    ASSUME LifecycleInv, [Next]_vars, NEW s \in Slots, Connected(s),
           ~IsDead(sessions[s].conn)
    PROVE  SameSession(s)
<1>0. sessions'[s] = sessions[s] => SameSession(s)
  BY DEF SameSession, Connected
<1>1. CASE Quiet
  BY <1>0, <1>1, QuietStep
<1>2. CASE HandleDisconnect
  BY <1>2, DisconnectSlots DEF SameSession, Connected
<1>3. ASSUME NEW t \in Slots, NEW R \in SUBSET Conns, Bind(t, R)
      PROVE  SameSession(s)
  <2>1. /\ ~Connected(t)
        /\ \A u \in Slots \ {t} : Connected(u) => sessions'[u] = sessions[u]
    BY <1>3, BindSlots
  <2>2. QED
    BY <1>0, <2>1
<1>4. ASSUME NEW c \in Conns, NEW R \in SUBSET Conns, Teardown(c, R)
      PROVE  SameSession(s)
  <2>1. IsDead(c) /\ (s # conns[c].session => sessions'[s] = sessions[s])
    BY <1>4, TeardownSlots
  <2>2. s = conns[c].session => sessions[s].conn = c
    BY <1>4, TeardownSlots, SMTT(60) DEF Slots, NoSession
  <2>3. QED
    BY <1>0, <2>1, <2>2
<1>5. ASSUME NEW E \in SUBSET Slots, ExpireSessions(E)
      PROVE  SameSession(s)
  <2>1. s \notin E
    BY <1>5 DEF ExpireSessions, Connected, Disconnected
  <2>2. QED
    BY <1>0, <1>5, <2>1 DEF ExpireSessions
<1>6. QED
  BY <1>1, <1>2, <1>3, <1>4, <1>5, StepCases

\* No eviction, expiry, CONNECT or teardown of another client ever releases
\* a session that is on a live connection.
THEOREM LiveSessionsKeptAlways == Spec => LiveSessionsKept
<1>1. LifecycleInv /\ [Next]_vars =>
        [\A s \in Slots :
            Connected(s) /\ ~IsDead(sessions[s].conn) => SameSession(s)]_vars
  BY LiveStep
<1>2. QED
  BY <1>1, LifecycleInvariant, PTL DEF Spec, LiveSessionsKept

\* A disconnected session goes for one of three reasons.
LEMMA GivenUpStep ==
    ASSUME LifecycleInv, [Next]_vars, NEW s \in Slots, Disconnected(s),
           ~SameSession(s)
    PROVE  \/ pc = "tick"
           \/ req.id = sessions[s].id
           \/ \A t \in Slots : sessions[t].used
<1>0. sessions'[s] # sessions[s]
  BY DEF SameSession, Disconnected
<1>1. CASE Quiet
  BY <1>0, <1>1, QuietStep
<1>2. CASE HandleDisconnect
  BY <1>2, DisconnectSlots DEF SameSession, Disconnected
<1>3. ASSUME NEW t \in Slots, NEW R \in SUBSET Conns, Bind(t, R),
             req.id # sessions[s].id
      PROVE  \A u \in Slots : sessions[u].used
  <2>1. Released[s] = sessions[s]
    BY <1>3 DEF Released, HoldsId
  <2>2. t = s
    BY <1>0, <1>3, <2>1 DEF Bind, Released
  <2>3. /\ SessionSlot(s) /\ ~Resumes(s) /\ Released[s].used
    BY <1>3, <2>1, <2>2 DEF Bind, Resumes, HoldsId, Disconnected
  <2>4. \A u \in Slots : Released[u].used
    BY <2>3 DEF SessionSlot
  <2>5. QED
    BY <2>4 DEF Released, Free
<1>4. ASSUME NEW c \in Conns, NEW R \in SUBSET Conns, Teardown(c, R)
      PROVE  FALSE
  <2>1. s # conns[c].session
    BY <1>4, TeardownSlots, SMTT(60) DEF Slots, NoSession, Connected, Disconnected
  <2>2. QED
    BY <1>0, <1>4, <2>1, TeardownSlots, SMTT(60)
<1>5. ASSUME NEW E \in SUBSET Slots, ExpireSessions(E)
      PROVE  pc = "tick"
  BY <1>5 DEF ExpireSessions
<1>6. QED
  BY <1>1, <1>2, <1>3, <1>4, <1>5, StepCases

\* A disconnected session is given up only to its own client, to expiry, or
\* when handle_connect() found the whole pool taken.
THEOREM GivenUpForReasonAlways == Spec => GivenUpForReason
<1>1. LifecycleInv /\ [Next]_vars =>
        [\A s \in Slots : Disconnected(s) /\ ~SameSession(s) =>
            \/ pc = "tick"
            \/ req.id = sessions[s].id
            \/ \A t \in Slots : sessions[t].used]_vars
  BY GivenUpStep
<1>2. QED
  BY <1>1, LifecycleInvariant, PTL DEF Spec, GivenUpForReason

----------------------------------------------------------------------------
(* Wills.                                                                  *)

\* Every step keeps each will's one fate.
LEMMA WillNext ==
    ASSUME LifecycleInv, WillOnce, [Next]_vars
    PROVE  WillOnce'
<1> USE SizesAssumption
<1>0. /\ fired \in [Wills -> Nat] /\ armed \in 0..MaxWills
      /\ \A s \in Slots : sessions[s].will \in Wills \cup {NoWill}
      /\ NoWill \notin Wills
  BY SMTT(60) DEF LifecycleInv, TypeOK, SessionRecord, Wills, NoWill
<1>1. CASE Quiet
  <2>1. UNCHANGED <<sessions, fired, discarded, armed>>
    BY <1>1, QuietStep
  <2>2. QED
    BY <2>1 DEF WillOnce, Holders, Connected
<1>2. CASE HandleDisconnect
  <2>1. PICK s \in Slots : s = conns[cur].session
    BY <1>2, DisconnectSlots
  <2>2. /\ Connected(s) /\ UNCHANGED <<fired, armed>>
        /\ discarded' = discarded \cup ({sessions[s].will} \ {NoWill})
    BY <1>2, <2>1, DisconnectSlots DEF HandleDisconnect
  <2>3. \A w \in Wills : Holders(w)' = Holders(w) \ {s}
    BY <1>0, <1>2, <2>1, DisconnectSlots, SMTT(60) DEF Holders, Connected
  <2>4. \A w \in Wills : s \in Holders(w) <=> w = sessions[s].will
    BY <2>2 DEF Holders
  <2>5. QED
    BY <1>0, <2>2, <2>3, <2>4, SMTT(60) DEF WillOnce
<1>3. ASSUME NEW s \in Slots, NEW R \in SUBSET Conns, Bind(s, R)
      PROVE  WillOnce'
  <2>1. /\ UNCHANGED <<fired, discarded>>
        /\ armed' = IF req.will THEN armed + 1 ELSE armed
    BY <1>3 DEF Bind
  <2>2. \A w \in Wills : s \notin Holders(w)
    BY <1>3, BindSlots DEF Holders
  <2>3. Connected(s)' /\ sessions'[s].will = IF req.will THEN armed + 1 ELSE NoWill
    BY <1>3, BindSlots DEF Connected
  <2>4. \A t \in Slots \ {s} :
          /\ Connected(t)' <=> Connected(t)
          /\ Connected(t) => sessions'[t].will = sessions[t].will
    <3>1. \A t \in Slots \ {s} : sessions'[t] \in {sessions[t], Free}
      BY <1>3 DEF Bind, Released
    <3>2. \A t \in Slots \ {s} : Connected(t) => sessions'[t] = sessions[t]
      BY <1>3, BindSlots
    <3>3. QED
      BY <3>1, <3>2, SMTT(60) DEF Connected, Free
  <2>5. \A w \in Wills : Holders(w)' =
          Holders(w) \cup IF req.will /\ w = armed + 1 THEN {s} ELSE {}
    BY <1>0, <2>2, <2>3, <2>4, SMTT(60) DEF Holders
  <2>6. QED
    BY <1>0, <2>1, <2>5, SMTT(60) DEF WillOnce, Wills
<1>4. ASSUME NEW c \in Conns, NEW R \in SUBSET Conns, Teardown(c, R)
      PROVE  WillOnce'
  <2>1. CASE conns[c].session = NoSession
    <3>1. UNCHANGED <<sessions, discarded, armed>> /\ fired' = fired
      BY <1>0, <1>4, <2>1 DEF Teardown, pool
    <3>2. QED
      BY <3>1 DEF WillOnce, Holders, Connected
  <2>2. CASE conns[c].session # NoSession
    <3>1. PICK s \in Slots : s = conns[c].session
      BY <1>4, <2>2, TeardownSlots
    <3>2. /\ UNCHANGED <<discarded, armed>>
          /\ \A w \in Wills :
                fired'[w] = IF w = sessions[s].will THEN fired[w] + 1 ELSE fired[w]
      BY <1>4, <2>2, <3>1 DEF Teardown
    <3>3. /\ Connected(s) /\ ~Connected(s)'
          /\ \A t \in Slots \ {s} : sessions'[t] = sessions[t]
      <4>1. /\ Connected(s)
            /\ \A t \in Slots \ {s} : sessions'[t] = sessions[t]
            /\ ~sessions'[s].used \/ sessions'[s].conn = NoConn
        BY <1>4, <2>2, <3>1, TeardownSlots, SMTT(60)
      <4>2. QED
        BY <4>1 DEF Connected
    <3>4. \A w \in Wills : Holders(w)' = Holders(w) \ {s}
      <4>1. \A t \in Slots \ {s} : Connected(t)' <=> Connected(t)
        BY <3>3 DEF Connected
      <4>2. QED
        BY <3>3, <4>1 DEF Holders
    <3>5. \A w \in Wills : s \in Holders(w) <=> w = sessions[s].will
      BY <3>3 DEF Holders
    <3>6. ASSUME NEW w \in Wills, w = sessions[s].will
          PROVE  /\ w <= armed /\ Holders(w) = {s} /\ fired[w] = 0 /\ w \notin discarded
      BY <1>0, <3>5, <3>6, SMTT(60) DEF WillOnce, Wills
    <3>7. ASSUME NEW w \in Wills, w # sessions[s].will
          PROVE  Holders(w)' = Holders(w) /\ fired'[w] = fired[w]
      <4>1. s \notin Holders(w) /\ fired'[w] = fired[w]
        BY <3>2, <3>5, <3>7
      <4>2. Holders(w)' = Holders(w) \ {s}
        BY <3>4
      <4>3. Holders(w) \ {s} = Holders(w)
        BY <4>1
      <4>4. QED
        BY <4>1, <4>2, <4>3
    <3>8. ASSUME NEW w \in Wills, w = sessions[s].will
          PROVE  Holders(w)' = {} /\ fired'[w] = 1
      BY <3>2, <3>4, <3>6, <3>8, SMTT(60)
    <3>9. QED
      BY <3>2, <3>6, <3>7, <3>8 DEF WillOnce
  <2>3. QED
    BY <2>1, <2>2
<1>5. ASSUME NEW E \in SUBSET Slots, ExpireSessions(E)
      PROVE  WillOnce'
  <2>1. \A w \in Wills : Holders(w)' = Holders(w)
    BY <1>5 DEF ExpireSessions, Holders, Connected, Disconnected, Free
  <2>2. UNCHANGED <<fired, discarded, armed>>
    BY <1>5 DEF ExpireSessions, history
  <2>3. QED
    BY <2>1, <2>2 DEF WillOnce
<1>6. QED
  BY <1>1, <1>2, <1>3, <1>4, <1>5, StepCases

\* A will is published at most once and never after a DISCONNECT, however
\* takeovers, cascaded teardowns and reconnects interleave.
THEOREM WillOnceAlways == Spec => []WillOnce
<1>1. Init => WillOnce
  BY SMTT(60) DEF Init, WillOnce, Holders, Connected, Free, Wills
<1>2. LifecycleInv /\ WillOnce /\ [Next]_vars => WillOnce'
  BY WillNext
<1>3. QED
  BY <1>1, <1>2, LifecycleInvariant, PTL DEF Spec

----------------------------------------------------------------------------
(* The session that has been gone longest.                                 *)

\* A session that is gone was stamped age tickets ago, modulo the range of the
\* counter; the age of one on a connection starts from 0.
Stamped ==
    \A s \in Slots :
        /\ Connected(s) => age[s] = 0
        /\ Disconnected(s) /\ age[s] < OrderRange =>
              \/ sessions[s].order + age[s] = ticket
              \/ sessions[s].order + age[s] = ticket + OrderRange

\* A free slot is not in use.
LEMMA FreeUnused == ~Free.used
BY SMTT(60) DEF Free

\* Counting on: the ticket is one more, or 0 again.
LEMMA TicketNext ==
    ASSUME NEW k \in 0..(OrderRange - 1)
    PROVE  (k + 1) % OrderRange = IF k + 1 = OrderRange THEN 0 ELSE k + 1
<1>1. OrderRange \in Nat /\ OrderRange >= 2
  BY IdsAssumption
<1>2. CASE k + 1 = OrderRange
  BY <1>1, <1>2, Z3
<1>3. CASE k + 1 # OrderRange
  BY <1>1, <1>3, Z3
<1>4. QED
  BY <1>2, <1>3

\* What teardown() of another session does to the sum of stamp and age.
LEMMA TicketMoves ==
    ASSUME NEW k \in 0..(OrderRange - 1), NEW o \in 0..(OrderRange - 1),
           NEW a \in Nat, a + 1 < OrderRange,
           o + a = k \/ o + a = k + OrderRange
    PROVE  \/ o + (a + 1) = (k + 1) % OrderRange
           \/ o + (a + 1) = ((k + 1) % OrderRange) + OrderRange
<1>1. OrderRange \in Nat /\ OrderRange >= 2
  BY IdsAssumption
<1>2. PICK n \in Int : n = (k + 1) % OrderRange
                       /\ n = IF k + 1 = OrderRange THEN 0 ELSE k + 1
  BY <1>1, TicketNext, SMTT(60)
<1>3. o + (a + 1) = n \/ o + (a + 1) = n + OrderRange
  BY <1>1, <1>2, SMTT(60)
<1>4. QED
  BY <1>2, <1>3

\* A session that keeps its record and its age keeps its place.
LEMMA StampedSame ==
    ASSUME Stamped, NEW s \in Slots, ticket' = ticket, age'[s] = age[s],
           sessions'[s].used <=> sessions[s].used, sessions'[s].conn = sessions[s].conn,
           sessions'[s].order = sessions[s].order
    PROVE  /\ Connected(s)' => age'[s] = 0
           /\ Disconnected(s)' /\ age'[s] < OrderRange =>
                 \/ sessions'[s].order + age'[s] = ticket'
                 \/ sessions'[s].order + age'[s] = ticket' + OrderRange
BY DEF Stamped, Connected, Disconnected

\* teardown() stamps the session it detaches and ages the others.
LEMMA StampedTeardown ==
    ASSUME LifecycleInv, Stamped, NEW c \in Conns, NEW R \in SUBSET Conns, Teardown(c, R)
    PROVE  Stamped'
<1>1. CASE conns[c].session = NoSession
  <2>1. UNCHANGED pool
    BY <1>1 DEF Teardown
  <2>2. QED
    BY <2>1, StampedSame DEF Stamped, pool, Connected, Disconnected
<1>2. CASE conns[c].session # NoSession
  <2>1. PICK s \in Slots : s = conns[c].session /\ Connected(s)
    BY <1>2, TeardownSlots
  <2>2. \A t \in Slots : t # s => sessions'[t] = sessions[t]
    BY <2>1, TeardownSlots
  <2>3. /\ ticket' = (ticket + 1) % OrderRange
        /\ age' = [t \in Slots |-> IF Disconnected(t) /\ age[t] < OrderRange
                                   THEN age[t] + 1 ELSE age[t]]
        /\ sessions' = Detached(s)
    BY <1>2, <2>1 DEF Teardown
  <2>4. /\ ticket \in 0..(OrderRange - 1) /\ ticket' \in 0..(OrderRange - 1)
        /\ OrderRange \in Nat /\ \A t \in Slots : age[t] \in Nat
    BY <2>3, TicketRange, IdsAssumption, SMTT(60) DEF LifecycleInv, TypeOK
  <2>5. SUFFICES ASSUME NEW t \in Slots
                 PROVE  /\ Connected(t)' => age'[t] = 0
                        /\ Disconnected(t)' /\ age'[t] < OrderRange =>
                              \/ sessions'[t].order + age'[t] = ticket'
                              \/ sessions'[t].order + age'[t] = ticket' + OrderRange
    BY DEF Stamped
  <2>6. CASE t = s
    <3>1. age'[s] = 0
      BY <2>1, <2>3 DEF Stamped, Connected, Disconnected
    <3>2. sessions'[s] = IF sessions[s].clean THEN Free
                         ELSE [sessions[s] EXCEPT !.conn = NoConn, !.will = NoWill,
                                      !.order = (ticket + 1) % OrderRange]
      BY <2>1, <2>3 DEF Detached, LifecycleInv, TypeOK
    <3>3. sessions[s] \in SessionRecord
      BY DEF LifecycleInv, TypeOK
    <3>4. Disconnected(s)' => sessions'[s].order = ticket'
      <4>1. CASE sessions[s].clean
        BY <3>2, <4>1, FreeUnused DEF Disconnected
      <4>2. CASE ~sessions[s].clean
        BY <2>3, <3>2, <3>3, <4>2, SMTT(60) DEF SessionRecord
      <4>3. QED
        BY <4>1, <4>2
    <3>5. \A k \in 0..(OrderRange - 1) : k + 0 = k
      BY SMTT(60)
    <3>6. Connected(s)' => age'[s] = 0
      BY <3>1
    <3>7. Disconnected(s)' => sessions'[s].order + age'[s] = ticket'
      BY <2>4, <3>1, <3>4, <3>5
    <3>8. QED
      BY <2>6, <3>6, <3>7
  <2>7. CASE t # s /\ Disconnected(t)
    <3>1. sessions'[t] = sessions[t] /\ ~Connected(t)'
      BY <2>2, <2>7 DEF Connected, Disconnected
    <3>2. PICK o \in 0..(OrderRange - 1) : o = sessions[t].order
      BY DEF LifecycleInv, TypeOK, SessionRecord
    <3>3. PICK a \in Nat : a = age[t]
      BY <2>4
    <3>4. PICK b \in Nat : b = age'[t] /\ b = IF a < OrderRange THEN a + 1 ELSE a
      BY <2>3, <2>7, <3>3, SMTT(60)
    <3>5. a < OrderRange => o + a = ticket \/ o + a = ticket + OrderRange
      BY <2>7, <3>2, <3>3 DEF Stamped
    <3>6. b < OrderRange => a < OrderRange /\ b = a + 1
      BY <2>4, <3>4, SMTT(60)
    <3>7. b < OrderRange => o + b = ticket' \/ o + b = ticket' + OrderRange
      <4>1. SUFFICES ASSUME b < OrderRange
                     PROVE  o + b = ticket' \/ o + b = ticket' + OrderRange
        OBVIOUS
      <4>2. a + 1 < OrderRange /\ (o + a = ticket \/ o + a = ticket + OrderRange)
        BY <3>5, <3>6, <4>1
      <4>3. \/ o + (a + 1) = (ticket + 1) % OrderRange
            \/ o + (a + 1) = ((ticket + 1) % OrderRange) + OrderRange
        BY <2>4, <4>2, TicketMoves
      <4>4. QED
        BY <2>3, <3>6, <4>1, <4>3
    <3>8. QED
      BY <3>1, <3>2, <3>4, <3>7
  <2>8. CASE t # s /\ ~Disconnected(t)
    BY <2>2, <2>3, <2>8 DEF Stamped, Connected, Disconnected
  <2>9. QED
    BY <2>6, <2>7, <2>8
<1>3. QED
  BY <1>1, <1>2

\* Every step keeps the stamps in step with the ages.
LEMMA StampedNext ==
    ASSUME LifecycleInv, Stamped, [Next]_vars
    PROVE  Stamped'
<1>1. CASE Quiet
  BY <1>1, QuietStep, StampedSame DEF Stamped, Connected, Disconnected
<1>2. CASE HandleDisconnect
  <2>1. ticket' = ticket /\ age' = age
    BY <1>2 DEF HandleDisconnect
  <2>2. \A t \in Slots : /\ sessions'[t].used <=> sessions[t].used
                         /\ sessions'[t].conn = sessions[t].conn
    BY <1>2, DisconnectSlots
  <2>3. \A t \in Slots : sessions'[t].order = sessions[t].order
    <3>1. sessions' = [sessions EXCEPT ![conns[cur].session].will = NoWill]
      BY <1>2 DEF HandleDisconnect
    <3>2. QED
      BY <3>1, SMTT(60) DEF LifecycleInv, TypeOK, SessionRecord
  <2>4. QED
    BY <2>1, <2>2, <2>3, StampedSame DEF Stamped
<1>3. ASSUME NEW s \in Slots, NEW R \in SUBSET Conns, Bind(s, R)
      PROVE  Stamped'
  <2>1. /\ ticket' = ticket
        /\ age'[s] = 0 /\ \A t \in Slots : t # s => age'[t] = age[t]
    BY <1>3 DEF Bind, LifecycleInv, TypeOK
  <2>2. ~Disconnected(s)'
    BY <1>3, BindSlots DEF Disconnected
  <2>3. \A t \in Slots : t # s => sessions'[t] = sessions[t] \/ sessions'[t] = Free
    BY <1>3 DEF Bind, Released
  <2>4. \A t \in Slots : sessions'[t] = Free => ~Connected(t)' /\ ~Disconnected(t)'
    BY FreeUnused DEF Connected, Disconnected
  <2>5. Connected(s)' => age'[s] = 0
    BY <2>1
  <2>6. ASSUME NEW t \in Slots, t # s
        PROVE  /\ Connected(t)' => age'[t] = 0
               /\ Disconnected(t)' /\ age'[t] < OrderRange =>
                     \/ sessions'[t].order + age'[t] = ticket'
                     \/ sessions'[t].order + age'[t] = ticket' + OrderRange
    <3>1. CASE sessions'[t] = Free
      BY <2>4, <3>1
    <3>2. CASE sessions'[t] = sessions[t]
      BY <2>1, <2>6, <3>2, StampedSame
    <3>3. QED
      BY <2>3, <2>6, <3>1, <3>2
  <2>7. QED
    BY <2>2, <2>5, <2>6 DEF Stamped
<1>4. ASSUME NEW c \in Conns, NEW R \in SUBSET Conns, Teardown(c, R)
      PROVE  Stamped'
  BY <1>4, StampedTeardown
<1>5. ASSUME NEW E \in SUBSET Slots, ExpireSessions(E)
      PROVE  Stamped'
  <2>1. /\ ticket' = ticket
        /\ \A t \in Slots : t \notin E => sessions'[t] = sessions[t] /\ age'[t] = age[t]
        /\ \A t \in E : sessions'[t] = Free
    BY <1>5 DEF ExpireSessions
  <2>2. \A t \in Slots : sessions'[t] = Free => ~Connected(t)' /\ ~Disconnected(t)'
    BY FreeUnused DEF Connected, Disconnected
  <2>3. ASSUME NEW t \in Slots
        PROVE  /\ Connected(t)' => age'[t] = 0
               /\ Disconnected(t)' /\ age'[t] < OrderRange =>
                     \/ sessions'[t].order + age'[t] = ticket'
                     \/ sessions'[t].order + age'[t] = ticket' + OrderRange
    <3>1. CASE t \in E
      BY <2>1, <2>2, <3>1
    <3>2. CASE t \notin E
      BY <2>1, <3>2, StampedSame
    <3>3. QED
      BY <3>1, <3>2
  <2>4. QED
    BY <2>3 DEF Stamped
<1>6. QED
  BY <1>1, <1>2, <1>3, <1>4, <1>5, StepCases

\* By signed difference a session went before another one exactly if it has
\* been gone longer, as long as both have been gone less than half the range.
LEMMA GoneBeforeIsOlder ==
    ASSUME LifecycleInv, Stamped, NEW s \in Slots, NEW t \in Slots,
           Disconnected(s), Disconnected(t),
           age[s] < OrderRange \div 2, age[t] < OrderRange \div 2
    PROVE  GoneBefore(s, t) <=> age[s] > age[t]
<1>1. OrderRange \in Nat /\ OrderRange >= 2
  BY IdsAssumption
<1>2. PICK h \in Nat : h = OrderRange \div 2 /\ 2 * h <= OrderRange /\ OrderRange <= 2 * h + 1
  BY <1>1, SMTT(60)
<1>3. PICK a \in Nat, b \in Nat : a = age[s] /\ b = age[t]
  BY <1>1, SMTT(60) DEF LifecycleInv, TypeOK
<1>4. PICK o \in 0..(OrderRange - 1), p \in 0..(OrderRange - 1) :
           o = sessions[s].order /\ p = sessions[t].order
  BY DEF LifecycleInv, TypeOK, SessionRecord
<1>5. PICK k \in 0..(OrderRange - 1) : k = ticket
  BY DEF LifecycleInv, TypeOK
<1>6. a < h /\ b < h
  BY <1>2, <1>3
<1>7. a < OrderRange /\ b < OrderRange
  BY <1>1, <1>2, <1>6, SMTT(60)
<1>8. /\ o + a = k \/ o + a = k + OrderRange
      /\ p + b = k \/ p + b = k + OrderRange
  BY <1>3, <1>4, <1>5, <1>7 DEF Stamped
<1>9. (o - p + OrderRange) % OrderRange >= h <=> a > b
  <2>1. ASSUME NEW x \in 0..(OrderRange - 1) PROVE x % OrderRange = x
    BY <1>1, Z3
  <2>2. ASSUME NEW x \in OrderRange..(2 * OrderRange - 1)
        PROVE  x % OrderRange = x - OrderRange
    BY <1>1, Z3
  <2>3. PICK x \in 0..(2 * OrderRange - 1) : x = o - p + OrderRange
    BY <1>1, SMTT(60)
  <2>4. CASE x < OrderRange
    <3>1. x >= h <=> a > b
      BY <1>1, <1>2, <1>6, <1>8, <2>3, <2>4, SMTT(60)
    <3>2. x \in 0..(OrderRange - 1)
      BY <1>1, <2>4, SMTT(60)
    <3>3. QED
      BY <2>1, <2>3, <3>1, <3>2
  <2>5. CASE x >= OrderRange
    <3>1. x - OrderRange >= h <=> a > b
      BY <1>1, <1>2, <1>6, <1>8, <2>3, <2>5, SMTT(60)
    <3>2. x \in OrderRange..(2 * OrderRange - 1)
      BY <1>1, <2>5, SMTT(60)
    <3>3. QED
      BY <2>2, <2>3, <3>1, <3>2
  <2>6. x < OrderRange \/ x >= OrderRange
    BY <1>1, SMTT(60)
  <2>7. QED
    BY <2>4, <2>5, <2>6
<1>10. QED
  BY <1>2, <1>3, <1>4, <1>9 DEF GoneBefore

\* A set of naturals has a least element.
LEMMA LeastNat ==
    ASSUME NEW T \in SUBSET Nat, T # {}
    PROVE  \E m \in T : \A n \in T : m <= n
<1>1. PICK m \in T : \A n \in T : <<n, m>> \notin OpToRel(<, Nat)
  BY NatLessThanWellFounded, WFMin
<1>2. \A n \in T : ~(n < m)
  BY <1>1 DEF OpToRel
<1>3. QED
  BY <1>2, SMTT(60)

\* The candidate of oldest_disconnected_session() after a slot, from the one
\* before it: the function is defined at all its arguments.
LEMMA OldestStep ==
    \A n \in 0..MaxSessions :
        Oldest[n] = IF n = 0 THEN 0
                    ELSE IF Disconnected(n)
                            /\ (Oldest[n - 1] = 0 \/ GoneBefore(n, Oldest[n - 1]))
                         THEN n ELSE Oldest[n - 1]
<1> DEFINE Body(f, n) == IF n = 0 THEN 0
                         ELSE IF Disconnected(n)
                                 /\ (f[n - 1] = 0 \/ GoneBefore(n, f[n - 1]))
                              THEN n ELSE f[n - 1]
           Upto(n) == \E f : f = [k \in 0..n |-> Body(f, k)]
<1>1. MaxSessions \in Nat
  BY SizesAssumption
<1>2. Upto(0)
  <2>1. 0..0 = {0}
    BY SMTT(60)
  <2>2. \A k \in 0..0 : Body([j \in 0..0 |-> 0], k) = 0
    BY <2>1
  <2>3. [k \in 0..0 |-> 0] = [k \in 0..0 |-> Body([j \in 0..0 |-> 0], k)]
    BY <2>2
  <2>4. QED
    BY <2>3
<1>3. ASSUME NEW n \in 1..MaxSessions, Upto(n - 1) PROVE Upto(n)
  <2>1. PICK f : f = [k \in 0..(n - 1) |-> Body(f, k)]
    BY <1>3
  <2> DEFINE g == [k \in 0..n |-> IF k < n THEN f[k] ELSE Body(f, n)]
  <2>2. ASSUME NEW k \in 0..n PROVE g[k] = Body(g, k)
    <3>1. CASE k = 0
      <4>1. 0 \in 0..(n - 1) /\ 0 < n
        BY <1>1, SMTT(60)
      <4>2. f[0] = 0
        BY <2>1, <4>1
      <4>3. QED
        BY <3>1, <4>1, <4>2
    <3>2. CASE k # 0
      <4>1. k - 1 \in 0..n /\ k - 1 < n
        BY <1>1, <3>2, SMTT(60)
      <4>2. g[k - 1] = f[k - 1]
        BY <4>1
      <4>3. Body(g, k) = Body(f, k)
        BY <3>2, <4>2
      <4>4. CASE k < n
        <5>1. k \in 0..(n - 1)
          BY <1>1, <4>4, SMTT(60)
        <5>2. f[k] = Body(f, k)
          BY <2>1, <5>1
        <5> HIDE DEF Body
        <5>3. QED
          BY <4>3, <4>4, <5>2
      <4>5. CASE ~(k < n)
        <5>1. k = n
          BY <1>1, <4>5, SMTT(60)
        <5> HIDE DEF Body
        <5>2. QED
          BY <4>3, <4>5, <5>1
      <4>6. QED
        BY <4>4, <4>5
    <3>3. QED
      BY <3>1, <3>2
  <2>3. g = [k \in 0..n |-> Body(g, k)]
    <3>1. g = [k \in 0..n |-> g[k]]
      OBVIOUS
    <3> HIDE DEF g, Body
    <3>2. QED
      BY <2>2, <3>1
  <2>4. QED
    BY <2>3
<1> HIDE DEF Upto
<1>4. Upto(MaxSessions)
  <2> DEFINE T == {n \in 0..MaxSessions : ~Upto(n)}
  <2>1. SUFFICES ASSUME T # {} PROVE FALSE
    <3>1. MaxSessions \in 0..MaxSessions
      BY <1>1, SMTT(60)
    <3>2. QED
      BY <3>1
  <2>2. T \in SUBSET Nat
    BY <1>1, SMTT(60)
  <2>3. PICK m \in T : \A n \in T : m <= n
    BY <2>1, <2>2, LeastNat
  <2>4. m \in 0..MaxSessions /\ ~Upto(m) /\ m # 0
    BY <1>2, <2>3
  <2>5. m \in 1..MaxSessions /\ m - 1 \in 0..MaxSessions /\ ~(m <= m - 1)
    BY <1>1, <2>4, SMTT(60)
  <2>6. Upto(m - 1)
    BY <2>3, <2>5
  <2>7. QED
    BY <1>3, <2>4, <2>5, <2>6
<1> DEFINE F == CHOOSE f : f = [k \in 0..MaxSessions |-> Body(f, k)]
<1>5. F = [k \in 0..MaxSessions |-> Body(F, k)]
  BY <1>4 DEF Upto
<1>6. Oldest = F
  BY DEF Oldest
<1> HIDE DEF F
<1>7. QED
  BY <1>5, <1>6

\* After n slots the candidate is the one among them that has been gone
\* longest, or 0 when none of them holds a session that is gone.
LongestGone(n) ==
    \/ Oldest[n] = 0 /\ \A s \in Slots : s <= n => ~Disconnected(s)
    \/ /\ Oldest[n] \in Slots /\ Disconnected(Oldest[n]) /\ Oldest[n] <= n
       /\ \A s \in Slots : s <= n /\ Disconnected(s) => age[s] <= age[Oldest[n]]

\* The scan finds it, slot by slot.
LEMMA OldestFinds ==
    ASSUME LifecycleInv, Stamped,
           \A s \in Slots : Disconnected(s) => age[s] < OrderRange \div 2
    PROVE  LongestGone(MaxSessions)
<1>1. MaxSessions \in Nat /\ Slots = 1..MaxSessions
  BY SizesAssumption DEF Slots
<1>2. \A s \in Slots : age[s] \in Nat
  BY IdsAssumption, SMTT(60) DEF LifecycleInv, TypeOK
<1>3. LongestGone(0)
  <2>1. 0 \in 0..MaxSessions /\ \A s \in Slots : ~(s <= 0)
    BY <1>1, SMTT(60)
  <2>2. QED
    BY <2>1, OldestStep DEF LongestGone
<1>4. ASSUME NEW n \in Slots, LongestGone(n - 1) PROVE LongestGone(n)
  <2>1. PICK o : o = Oldest[n - 1]
    OBVIOUS
  <2>2. /\ n \in 0..MaxSessions /\ n # 0
        /\ \A s \in Slots : s <= n <=> (s <= n - 1 \/ s = n)
        /\ n <= n
        /\ 0 \notin Slots
    BY <1>1, SMTT(60)
  <2>3. Oldest[n] = IF Disconnected(n) /\ (o = 0 \/ GoneBefore(n, o)) THEN n ELSE o
    BY <2>1, <2>2, OldestStep
  <2>4. CASE ~Disconnected(n)
    <3>1. Oldest[n] = o
      BY <2>3, <2>4
    <3>2. QED
      BY <1>4, <2>1, <2>2, <2>4, <3>1 DEF LongestGone
  <2>5. CASE Disconnected(n) /\ o = 0
    <3>1. Oldest[n] = n
      BY <2>3, <2>5
    <3>2. \A s \in Slots : s <= n /\ Disconnected(s) => s = n
      BY <1>4, <2>1, <2>2, <2>5 DEF LongestGone
    <3>3. age[n] <= age[n]
      BY <1>2, SMTT(60)
    <3>4. QED
      BY <2>2, <2>5, <3>1, <3>2, <3>3 DEF LongestGone
  <2>6. CASE Disconnected(n) /\ o # 0
    <3>1. /\ o \in Slots /\ Disconnected(o) /\ o <= n - 1
          /\ \A s \in Slots : s <= n - 1 /\ Disconnected(s) => age[s] <= age[o]
      BY <1>4, <2>1, <2>6 DEF LongestGone
    <3>2. GoneBefore(n, o) <=> age[n] > age[o]
      BY <2>6, <3>1, GoneBeforeIsOlder
    <3>3. CASE age[n] > age[o]
      <4>1. Oldest[n] = n
        BY <2>3, <2>6, <3>2, <3>3
      <4>2. \A s \in Slots : age[s] <= age[o] => age[s] <= age[n]
        BY <1>2, <3>1, <3>3, SMTT(60)
      <4>3. age[n] <= age[n]
        BY <1>2, SMTT(60)
      <4>4. QED
        BY <2>2, <2>6, <3>1, <4>1, <4>2, <4>3 DEF LongestGone
    <3>4. CASE ~(age[n] > age[o])
      <4>1. Oldest[n] = o
        BY <2>2, <2>3, <2>6, <3>1, <3>2, <3>4
      <4>2. age[n] <= age[o]
        BY <1>2, <3>1, <3>4, SMTT(60)
      <4>3. QED
        BY <2>2, <3>1, <4>1, <4>2 DEF LongestGone
    <3>5. QED
      BY <3>3, <3>4
  <2>7. QED
    BY <2>4, <2>5, <2>6
<1> DEFINE T == {n \in 0..MaxSessions : ~LongestGone(n)}
<1>5. SUFFICES ASSUME T # {} PROVE FALSE
  <2>1. MaxSessions \in 0..MaxSessions
    BY <1>1, SMTT(60)
  <2>2. QED
    BY <2>1
<1>6. T \in SUBSET Nat
  BY <1>1, SMTT(60)
<1>7. PICK m \in T : \A n \in T : m <= n
  BY <1>5, <1>6, LeastNat
<1>8. m \in 0..MaxSessions /\ ~LongestGone(m) /\ m # 0
  BY <1>3, <1>7
<1>9. m \in Slots /\ m - 1 \in 0..MaxSessions /\ ~(m <= m - 1)
  BY <1>1, <1>8, SMTT(60)
<1>10. LongestGone(m - 1)
  BY <1>7, <1>9
<1>11. QED
  BY <1>4, <1>8, <1>9, <1>10

\* The session evicted for a new one is the one that has been gone longest,
\* for every width of the ticket counter and wherever it wraps.
THEOREM OldestIsLongestGoneAlways == Spec => []OldestIsLongestGone
<1>1. Init => Stamped
  BY FreeUnused DEF Init, Stamped, Connected, Disconnected
<1>2. LifecycleInv /\ Stamped /\ [Next]_vars => Stamped'
  BY StampedNext
<1>3. LifecycleInv /\ Stamped => OldestIsLongestGone
  <2>1. SUFFICES ASSUME LifecycleInv, Stamped,
                        \A s \in Slots : Disconnected(s) => age[s] < OrderRange \div 2,
                        NEW t \in Slots, Disconnected(t)
                 PROVE  /\ Oldest[MaxSessions] \in Slots
                        /\ Disconnected(Oldest[MaxSessions])
                        /\ \A s \in Slots : Disconnected(s) =>
                              age[s] <= age[Oldest[MaxSessions]]
    BY DEF OldestIsLongestGone
  <2>2. LongestGone(MaxSessions)
    BY <2>1, OldestFinds
  <2>3. \A s \in Slots : s <= MaxSessions
    BY SizesAssumption, SMTT(60) DEF Slots
  <2>4. QED
    BY <2>1, <2>2, <2>3 DEF LongestGone
<1>4. Spec => []Stamped
  BY <1>1, <1>2, LifecycleInvariant, PTL DEF Spec
<1>5. QED
  BY <1>3, <1>4, LifecycleInvariant, PTL

====
