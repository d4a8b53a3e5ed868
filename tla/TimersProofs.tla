---------------------------- MODULE TimersProofs ----------------------------
(***************************************************************************)
(* The deadlines and expiries of Timers for a clock of any range and for   *)
(* any durations the assumption allows.                                    *)
(***************************************************************************)
EXTENDS Timers, TLAPS

Clock == 0..(Range - 1)

\* Wrap() of what is at most one range off the clock.
LEMMA WrapNear ==
    ASSUME NEW t \in Int, -Range <= t, t < 2 * Range
    PROVE  Wrap(t) = IF t < 0 THEN t + Range ELSE IF t < Range THEN t ELSE t - Range
  <1>1. Range \in Nat /\ Range > 1
    BY TimersAssumption
  <1>2. CASE t < 0
    BY <1>1, <1>2, Z3 DEF Wrap
  <1>3. CASE 0 <= t /\ t < Range
    BY <1>1, <1>3, Z3 DEF Wrap
  <1>4. CASE Range <= t
    BY <1>1, <1>4, Z3 DEF Wrap
  <1> QED
    BY <1>1, <1>2, <1>3, <1>4

\* What is at most one range off the clock wraps onto it.
LEMMA WrapOnClock == ASSUME NEW t \in Int, -Range <= t, t < 2 * Range
                     PROVE  Wrap(t) \in Clock
  BY WrapNear, TimersAssumption DEF Clock

\* deadline_passed() of a deadline that is left away from now, or -left behind
\* it, says which of the two: both have to be within half the range.
LEMMA PassedWhen ==
    ASSUME NEW at \in Clock, NEW left \in Int, 2 * left < Range, 2 - 2 * left <= Range
    PROVE  DeadlinePassed(at, Wrap(at + left)) <=> left <= 0
  <1>1. Range \in Nat /\ Range > 1 /\ at \in Int /\ 0 <= at /\ at < Range
    BY TimersAssumption DEF Clock
  <1>2. Wrap(at + left) = IF at + left < 0 THEN at + left + Range
                          ELSE IF at + left < Range THEN at + left ELSE at + left - Range
    BY <1>1, WrapNear
  <1>3. Wrap(at - Wrap(at + left)) = IF left <= 0 THEN -left ELSE Range - left
    <2>1. CASE at + left < 0
      BY <1>1, <1>2, <2>1, WrapNear
    <2>2. CASE 0 <= at + left /\ at + left < Range
      BY <1>1, <1>2, <2>2, WrapNear
    <2>3. CASE Range <= at + left
      BY <1>1, <1>2, <2>3, WrapNear
    <2> QED
      BY <1>1, <2>1, <2>2, <2>3
  <1> QED
    BY <1>1, <1>3 DEF DeadlinePassed

-----------------------------------------------------------------------------
(* The inductive invariant: how far the counter is from each stamp, and how *)
(* that compares with the true ages.                                        *)

\* now_ms_ is no older than the last tick.
LagInv == Wrap(now - nowMs) <= sinceTick

\* A deadline is its window after the time it was set at, and a tick would have
\* seen it pass.
DeadlineInv ==
    conn # "none" /\ Window > 0 =>
        /\ deadline = Wrap(now + (Window - since))
        /\ since <= Window + sinceTick

\* The age of a session that the broker works with.
Age == Wrap(now - disconnectMs)

ExpiryInv ==
    session = "kept" /\ traits.expiry > 0 =>
        gone <= Age /\ Age <= gone + MaxGap /\ Age <= traits.expiry + sinceTick

BoundInv == conn = "session" => session = "connected"

Inv == TypeOK /\ LagInv /\ DeadlineInv /\ ExpiryInv /\ BoundInv

\* The static_asserts on the traits, and the keep-alive field, as used below.
LEMMA DurationsBounded ==
    /\ \A d \in Durations : d \in Nat /\ 2 * (d + MaxGap) < Range
    /\ \A k \in KeepAlives : k \in Nat /\ 3 * k \in Nat /\ 2 * (3 * k + MaxGap) < Range
    /\ Range \in Nat /\ Range > 1 /\ MaxGap \in Nat /\ MaxGap > 0
  BY TimersAssumption

\* The window of any connection is within what the clock can tell apart.
LEMMA WindowBounded ==
    ASSUME TypeOK
    PROVE  /\ Window \in Nat /\ 2 * (Window + MaxGap) < Range
           /\ traits.expiry \in Nat /\ 2 * (traits.expiry + MaxGap) < Range
           /\ Range \in Nat /\ Range > 1 /\ MaxGap \in Nat /\ MaxGap > 0
           /\ now \in Int /\ 0 <= now /\ now < Range
  <1>1. traits.connect \in Durations /\ traits.idle \in Durations
        /\ traits.expiry \in Durations
    BY DEF TypeOK
  <1>2. 3 * keepAlive \in Nat /\ 2 * (3 * keepAlive + MaxGap) < Range
    BY TimersAssumption DEF TypeOK
  <1>3. \A d \in Durations : d \in Nat /\ 2 * (d + MaxGap) < Range
    BY TimersAssumption
  <1>4. Window \in {traits.connect, traits.idle, 3 * keepAlive}
    BY DEF Window, KeepAliveWindow
  <1>5. Window \in Nat /\ 2 * (Window + MaxGap) < Range
    <2>1. CASE Window = traits.connect
      BY <1>1, <1>3, <2>1
    <2>2. CASE Window = traits.idle
      BY <1>1, <1>3, <2>2
    <2>3. CASE Window = 3 * keepAlive
      BY <1>2, <2>3
    <2> QED
      BY <1>4, <2>1, <2>2, <2>3
  <1>6. now \in Int /\ 0 <= now /\ now < Range
    BY TimersAssumption DEF TypeOK
  <1> QED
    <2>1. traits.expiry \in Nat /\ 2 * (traits.expiry + MaxGap) < Range
      BY <1>1, <1>3
    <2>2. Range \in Nat /\ Range > 1 /\ MaxGap \in Nat /\ MaxGap > 0
      BY TimersAssumption
    <2> QED
      BY <1>5, <1>6, <2>1, <2>2

\* armed of tick() is that there is a window.
LEMMA ArmedIsWindow == ASSUME TypeOK
                       PROVE  Armed <=> Window > 0
  BY TimersAssumption DEF TypeOK, Armed, Window, KeepAliveWindow

\* tick() sees a deadline pass exactly when the window has truly passed.
LEMMA TimedOutWhen ==
    ASSUME TypeOK, DeadlineInv
    PROVE  TimedOut <=> conn # "none" /\ Window > 0 /\ since >= Window
  <1>1. CASE conn # "none" /\ Window > 0
    <2>1. Window - since \in Int /\ 2 * (Window - since) < Range
          /\ 2 - 2 * (Window - since) <= Range
      BY <1>1, WindowBounded DEF TypeOK, DeadlineInv
    <2>2. DeadlinePassed(now, deadline) <=> Window - since <= 0
      BY <1>1, <2>1, PassedWhen DEF TypeOK, DeadlineInv, Clock
    <2> QED
      BY <1>1, <2>1, <2>2, ArmedIsWindow, WindowBounded DEF TimedOut, TypeOK
  <1> QED
    BY <1>1, ArmedIsWindow DEF TimedOut

\* expire_sessions() drops a session exactly when its age is its expiry.
LEMMA ExpiredWhen ==
    ASSUME TypeOK, NEW s, s.state = "kept", s.stamp \in Clock,
           traits.expiry > 0 => Wrap(now - s.stamp) <= traits.expiry + MaxGap
    PROVE  Expired(s) <=> traits.expiry > 0 /\ Wrap(now - s.stamp) >= traits.expiry
  <1> DEFINE x == traits.expiry
             age == Wrap(now - s.stamp)
  <1>1. /\ x \in Nat /\ 2 * (x + MaxGap) < Range /\ Range \in Nat /\ Range > 1
        /\ MaxGap \in Nat /\ MaxGap > 0 /\ now \in Int /\ 0 <= now /\ now < Range
    BY WindowBounded
  <1>2. s.stamp \in Int /\ 0 <= s.stamp /\ s.stamp < Range
    BY <1>1 DEF Clock
  <1>3. age = IF now < s.stamp THEN now - s.stamp + Range ELSE now - s.stamp
    BY <1>1, <1>2, WrapNear
  <1>4. CASE x > 0
    <2>1. Wrap(s.stamp + x) = Wrap(now + (x - age))
      <3>1. CASE now < s.stamp
        <4>1. now + (x - age) = s.stamp + x - Range
          BY <1>1, <1>2, <1>3, <3>1
        <4>2. Wrap(s.stamp + x) = IF s.stamp + x < Range THEN s.stamp + x ELSE s.stamp + x - Range
          BY <1>1, <1>2, WrapNear
        <4>3. Wrap(s.stamp + x - Range) =
                  IF s.stamp + x - Range < 0 THEN s.stamp + x ELSE s.stamp + x - Range
          BY <1>1, <1>2, WrapNear
        <4> QED
          BY <1>1, <1>2, <4>1, <4>2, <4>3
      <3>2. CASE s.stamp <= now
        BY <1>1, <1>2, <1>3, <3>2
      <3> QED
        BY <1>1, <1>2, <3>1, <3>2
    <2>2. DeadlinePassed(now, Wrap(now + (x - age))) <=> x - age <= 0
      <3>1. age \in Int /\ 0 <= age /\ age <= x + MaxGap
        BY <1>1, <1>2, <1>3, <1>4
      <3>2. x - age \in Int /\ 2 * (x - age) < Range /\ 2 - 2 * (x - age) <= Range
        BY <1>1, <1>4, <3>1
      <3>3. now \in Clock
        BY <1>1 DEF Clock
      <3> HIDE DEF x, age
      <3> QED
        BY <3>2, <3>3, PassedWhen
    <2> QED
      BY <1>1, <1>2, <1>3, <1>4, <2>1, <2>2 DEF Expired
  <1> QED
    BY <1>1, <1>4 DEF Expired

-----------------------------------------------------------------------------
(* The steps.                                                              *)

\* A step that leaves the clock alone and gives the broker the time, or not.
LEMMA LagKept ==
    ASSUME TypeOK, LagInv, now' = now, sinceTick' = sinceTick, nowMs' \in {nowMs, now}
    PROVE  LagInv'
  <1>1. Wrap(now - now) = 0
    BY WindowBounded, WrapNear
  <1> QED
    BY <1>1, WindowBounded DEF LagInv, TypeOK

\* A step that leaves the clock and the session alone.
LEMMA ExpiryKept ==
    ASSUME ExpiryInv, UNCHANGED <<now, traits, session, disconnectMs, gone, sinceTick>>
    PROVE  ExpiryInv'
  BY DEF ExpiryInv, Age

\* A deadline set now.
LEMMA DeadlineSet ==
    ASSUME TypeOK, TypeOK', now' = now, since' = 0,
           conn' # "none" /\ Window' > 0 => deadline' = Wrap(now + Window')
    PROVE  DeadlineInv'
  <1>1. Window' \in Nat
    <2>1. Window' \in {traits.connect', traits.idle', 3 * keepAlive'}
      BY DEF Window, KeepAliveWindow
    <2>2. traits.connect' \in Nat /\ traits.idle' \in Nat /\ 3 * keepAlive' \in Nat
      BY DurationsBounded DEF TypeOK
    <2> QED
      BY <2>1, <2>2
  <1>2. sinceTick' \in Nat
    BY DurationsBounded DEF TypeOK
  <1>3. Window' - since' = Window' /\ since' <= Window' + sinceTick'
    <2>1. \A w \in Nat, t \in Nat : w - 0 = w /\ 0 <= w + t
      OBVIOUS
    <2> QED
      BY <1>1, <1>2, <2>1
  <1> QED
    BY <1>1, <1>3 DEF DeadlineInv

\* The invariant holds of a broker nothing has happened to.
LEMMA InitInv == Init => Inv
  <1> SUFFICES ASSUME Init
               PROVE  Inv
    OBVIOUS
  <1>1. TypeOK
    BY TimersAssumption DEF Init, TypeOK
  <1>2. Wrap(now - nowMs) = 0
    BY WrapNear, TimersAssumption DEF Init
  <1> QED
    BY <1>1, <1>2 DEF Init, Inv, LagInv, DeadlineInv, ExpiryInv, BoundInv

\* conn_open() arms the connect deadline and keeps the invariant.
LEMMA ConnOpenKeeps == ASSUME Inv, ConnOpen
                       PROVE  Inv'
  <1>1. TypeOK'
    <2>1. traits.connect \in Durations
      BY DEF Inv, TypeOK
    <2>2. traits.connect \in Nat /\ traits.connect < Range
      BY <2>1, DurationsBounded
    <2>3. Wrap(now + traits.connect) \in Clock
      BY <2>2, WindowBounded, WrapOnClock DEF Inv
    <2> QED
      BY <2>3, TimersAssumption DEF Inv, TypeOK, ConnOpen, Clock
  <1>2. LagInv'
    BY LagKept DEF Inv, ConnOpen
  <1>3. DeadlineInv'
    BY <1>1, DeadlineSet DEF Inv, ConnOpen, Window
  <1>4. ExpiryInv'
    BY ExpiryKept DEF Inv, ConnOpen
  <1> QED
    BY <1>1, <1>2, <1>3, <1>4 DEF Inv, BoundInv, ConnOpen

\* refresh_deadline() gives the deadline of the window it is called for.
LEMMA RefreshedRight ==
    ASSUME TypeOK, NEW k \in KeepAlives
    PROVE  /\ Refreshed(k, now) \in Clock
           /\ k > 0 => Refreshed(k, now) = Wrap(now + KeepAliveWindow(k))
           /\ k = 0 /\ traits.idle > 0 => Refreshed(k, now) = Wrap(now + traits.idle)
  <1>1. /\ k \in Nat /\ 3 * k \in Nat /\ 2 * (3 * k + MaxGap) < Range
        /\ traits.idle \in Nat /\ 2 * (traits.idle + MaxGap) < Range
    <2>1. traits.idle \in Durations
      BY DEF TypeOK
    <2> QED
      BY <2>1, DurationsBounded
  <1>2. Wrap(now + 3 * k) \in Clock /\ Wrap(now + traits.idle) \in Clock
    BY <1>1, WindowBounded, WrapOnClock
  <1> QED
    BY <1>1, <1>2 DEF Refreshed, KeepAliveWindow, TypeOK, Clock

\* conn_data() refreshes the deadline of a session and keeps the invariant.
LEMMA ConnDataKeeps == ASSUME Inv, ConnData
                       PROVE  Inv'
  <1>1. TypeOK'
    BY RefreshedRight DEF Inv, TypeOK, ConnData, Clock
  <1>2. LagInv'
    BY LagKept DEF Inv, ConnData
  <1>3. DeadlineInv'
    <2>1. CASE conn = "session"
      <3>1. Window' > 0 => deadline' = Wrap(now + Window')
        BY <2>1, RefreshedRight, TimersAssumption DEF Inv, TypeOK, ConnData, Window
      <3> QED
        BY <1>1, <2>1, <3>1, DeadlineSet DEF Inv, ConnData
    <2>2. CASE conn # "session"
      BY <2>2 DEF Inv, DeadlineInv, ConnData, Window
    <2> QED
      BY <2>1, <2>2
  <1>4. ExpiryInv'
    BY ExpiryKept DEF Inv, ConnData
  <1> QED
    BY <1>1, <1>2, <1>3, <1>4 DEF Inv, BoundInv, ConnData

\* A CONNECT replaces the connect deadline by the window of the session.
LEMMA ConnDataConnectKeeps ==
    ASSUME Inv, NEW k \in KeepAlives, ConnDataConnect(k)
    PROVE  Inv'
  <1>1. TypeOK'
    BY RefreshedRight, TimersAssumption DEF Inv, TypeOK, ConnDataConnect, Clock
  <1>2. LagInv'
    BY LagKept DEF Inv, ConnDataConnect
  <1>3. DeadlineInv'
    <2>1. Window' > 0 => deadline' = Wrap(now + Window')
      BY RefreshedRight, TimersAssumption DEF Inv, TypeOK, ConnDataConnect, Window
    <2> QED
      BY <1>1, <2>1, DeadlineSet DEF Inv, ConnDataConnect
  <1> QED
    BY <1>1, <1>2, <1>3 DEF Inv, ExpiryInv, BoundInv, ConnDataConnect

\* What a teardown makes of the session, with the stamp now or now_ms_.
LEMMA PartedRight ==
    ASSUME Inv, NEW at \in {now, nowMs}, NEW keeps \in BOOLEAN
    PROVE  LET p == Parted(at, keeps)
           IN /\ p.state \in {"none", "connected", "kept"}
              /\ p.stamp \in Clock /\ p.gone \in Nat
              /\ p.state = "kept" /\ traits.expiry > 0 =>
                     /\ p.gone <= Wrap(now - p.stamp)
                     /\ Wrap(now - p.stamp) <= p.gone + MaxGap
                     /\ Wrap(now - p.stamp) <= traits.expiry + sinceTick
  <1>1. Wrap(now - now) = 0
    BY WindowBounded, WrapNear DEF Inv
  <1>2. Wrap(now - nowMs) \in Nat /\ Wrap(now - nowMs) <= sinceTick
    BY WindowBounded, WrapOnClock DEF Inv, TypeOK, LagInv, Clock
  <1>3. sinceTick \in Nat /\ sinceTick <= MaxGap /\ MaxGap \in Nat /\ traits.expiry \in Nat
        /\ 0 \in Clock
    BY WindowBounded DEF Inv, TypeOK, Clock
  <1>4. Wrap(now - at) \in Nat /\ Wrap(now - at) <= sinceTick /\ at \in Clock
    BY <1>1, <1>2, <1>3 DEF Inv, TypeOK, Clock
  <1>5. CASE conn = "session" /\ keeps
    BY <1>3, <1>4, <1>5 DEF Parted
  <1>6. CASE conn = "session" /\ ~keeps
    BY <1>3, <1>6 DEF Parted
  <1>7. CASE conn # "session"
    <2>1. Parted(at, keeps) = [state |-> session, stamp |-> disconnectMs, gone |-> gone]
      BY <1>7 DEF Parted
    <2> QED
      BY <2>1 DEF Inv, TypeOK, ExpiryInv, Age, Clock
  <1> QED
    BY <1>5, <1>6, <1>7

\* conn_closed() stamps the session with a time at most a tick old.
LEMMA ConnClosedKeeps ==
    ASSUME Inv, NEW keeps \in BOOLEAN, ConnClosed(keeps)
    PROVE  Inv'
  <1> DEFINE p == Parted(nowMs, keeps)
  <1>1. /\ p.state \in {"none", "connected", "kept"}
        /\ p.stamp \in Clock /\ p.gone \in Nat
        /\ p.state = "kept" /\ traits.expiry > 0 =>
               /\ p.gone <= Wrap(now - p.stamp)
               /\ Wrap(now - p.stamp) <= p.gone + MaxGap
               /\ Wrap(now - p.stamp) <= traits.expiry + sinceTick
    BY PartedRight
  <1>2. session' = p.state /\ disconnectMs' = p.stamp /\ gone' = p.gone
    BY DEF ConnClosed, Becomes, Stamp
  <1> HIDE DEF p
  <1>3. TypeOK'
    BY <1>1, <1>2, TimersAssumption DEF Inv, TypeOK, ConnClosed, ConnReset, Clock
  <1>4. LagInv'
    BY LagKept DEF Inv, ConnClosed
  <1>5. ExpiryInv'
    BY <1>1, <1>2 DEF ExpiryInv, Age, ConnClosed
  <1> QED
    BY <1>3, <1>4, <1>5 DEF Inv, DeadlineInv, BoundInv, ConnClosed, ConnReset

\* tick() leaves no deadline and no expiry that has passed.
LEMMA TickKeeps ==
    ASSUME Inv, NEW keeps \in BOOLEAN, Tick(keeps)
    PROVE  Inv'
  <1> DEFINE s == IF TimedOut THEN Parted(now, keeps)
                  ELSE [state |-> session, stamp |-> disconnectMs, gone |-> gone]
             none == [state |-> "none", stamp |-> 0, gone |-> 0]
  <1>1. /\ s.state \in {"none", "connected", "kept"}
        /\ s.stamp \in Clock /\ s.gone \in Nat
        /\ s.state = "kept" /\ traits.expiry > 0 =>
               /\ s.gone <= Wrap(now - s.stamp)
               /\ Wrap(now - s.stamp) <= s.gone + MaxGap
               /\ Wrap(now - s.stamp) <= traits.expiry + sinceTick
    <2>1. CASE TimedOut
      BY <2>1, PartedRight
    <2>2. CASE ~TimedOut
      BY <2>2 DEF Inv, TypeOK, ExpiryInv, Age, Clock
    <2> QED
      BY <2>1, <2>2
  <1>2. /\ nowMs' = now /\ sinceTick' = 0 /\ traits' = traits /\ now' = now
        /\ IF TimedOut THEN ConnReset ELSE UNCHANGED <<conn, keepAlive, deadline, since>>
        /\ IF Expired(s) THEN session' = "none" /\ disconnectMs' = 0 /\ gone' = 0
           ELSE session' = s.state /\ disconnectMs' = s.stamp /\ gone' = s.gone
    BY DEF Tick, Becomes
  <1>3. ~TimedOut /\ conn = "session" => s.state = "connected"
    BY DEF Inv, BoundInv
  <1> HIDE DEF s
  <1>4. 0 \in Clock /\ 0 \in 0..MaxGap /\ 0 \in KeepAlives
    BY TimersAssumption DEF Clock
  <1>5. TypeOK'
    BY <1>1, <1>2, <1>4 DEF Inv, TypeOK, ConnReset, Clock
  <1>6. LagInv'
    <2>1. Wrap(now - now) = 0
      BY WindowBounded, WrapNear DEF Inv
    <2> QED
      BY <1>2, <2>1 DEF LagInv
  <1>7. DeadlineInv'
    <2>1. CASE TimedOut
      BY <1>2, <2>1 DEF DeadlineInv, ConnReset
    <2>2. CASE ~TimedOut
      <3>1. Window' = Window /\ conn' = conn /\ deadline' = deadline /\ since' = since
        BY <1>2, <2>2 DEF Window
      <3>2. conn # "none" /\ Window > 0 => since < Window
        BY <2>2, TimedOutWhen, WindowBounded DEF Inv, TypeOK
      <3> QED
        BY <1>2, <3>1, <3>2, WindowBounded DEF Inv, TypeOK, DeadlineInv
    <2> QED
      BY <2>1, <2>2
  <1>8. ExpiryInv'
    <2>1. CASE Expired(s)
      BY <1>2, <2>1 DEF ExpiryInv
    <2>2. CASE ~Expired(s) /\ s.state = "kept" /\ traits.expiry > 0
      <3>1. Wrap(now - s.stamp) \in Nat
        BY <1>1, WindowBounded, WrapOnClock DEF Inv, Clock
      <3>2. Wrap(now - s.stamp) <= traits.expiry + MaxGap
        BY <1>1, <2>2, <3>1, WindowBounded DEF Inv, TypeOK
      <3>3. ~(Wrap(now - s.stamp) >= traits.expiry)
        BY <1>1, <2>2, <3>2, ExpiredWhen DEF Inv
      <3> QED
        BY <1>1, <1>2, <2>2, <3>1, <3>3, WindowBounded DEF Inv, ExpiryInv, Age
    <2>3. CASE ~Expired(s) /\ ~(s.state = "kept" /\ traits.expiry > 0)
      BY <1>2, <2>3 DEF ExpiryInv
    <2> QED
      BY <2>1, <2>2, <2>3
  <1>9. BoundInv'
    <2>1. CASE ~TimedOut /\ conn = "session"
      BY <1>2, <1>3, <2>1 DEF BoundInv, Expired
    <2>2. CASE TimedOut \/ conn # "session"
      BY <1>2, <2>2 DEF BoundInv, ConnReset
    <2> QED
      BY <2>1, <2>2
  <1> QED
    BY <1>5, <1>6, <1>7, <1>8, <1>9 DEF Inv

\* A unit later every stamp is one unit older.
LEMMA Older ==
    ASSUME NEW t \in Clock, NEW at \in Clock, Wrap(t - at) + 1 < Range
    PROVE  Wrap(Wrap(t + 1) - at) = Wrap(t - at) + 1
  <1>1. Range \in Nat /\ Range > 1 /\ t \in Int /\ at \in Int
        /\ 0 <= t /\ t < Range /\ 0 <= at /\ at < Range
    BY TimersAssumption DEF Clock
  <1>2. Wrap(t + 1) = IF t + 1 < Range THEN t + 1 ELSE t + 1 - Range
    BY <1>1, WrapNear
  <1>3. Wrap(t - at) = IF t < at THEN t - at + Range ELSE t - at
    BY <1>1, WrapNear
  <1>4. CASE t + 1 < Range
    BY <1>1, <1>2, <1>3, <1>4, WrapNear
  <1>5. CASE t + 1 = Range
    BY <1>1, <1>2, <1>3, <1>5, WrapNear
  <1> QED
    BY <1>1, <1>4, <1>5

\* And every deadline one unit nearer.
LEMMA Nearer ==
    ASSUME NEW t \in Clock, NEW left \in Int, 2 * left < Range, -Range <= 2 * left - 2
    PROVE  Wrap(Wrap(t + 1) + (left - 1)) = Wrap(t + left)
  <1>1. Range \in Nat /\ Range > 1 /\ t \in Int /\ 0 <= t /\ t < Range
    BY TimersAssumption DEF Clock
  <1>2. Wrap(t + 1) = IF t + 1 < Range THEN t + 1 ELSE t + 1 - Range
    BY <1>1, WrapNear
  <1>3. CASE t + 1 < Range
    BY <1>1, <1>2, <1>3
  <1>4. CASE t + 1 = Range
    <2>1. Wrap(t + 1) + (left - 1) = left - 1
      BY <1>1, <1>2, <1>4
    <2>2. Wrap(left - 1) = IF left - 1 < 0 THEN left - 1 + Range ELSE left - 1
      BY <1>1, WrapNear
    <2>3. Wrap(t + left) = IF t + left < Range THEN t + left ELSE t + left - Range
      BY <1>1, <1>4, WrapNear
    <2> QED
      BY <1>1, <1>4, <2>1, <2>2, <2>3
  <1> QED
    BY <1>1, <1>3, <1>4

\* Time ages every stamp by as much as what it stamps.
LEMMA TimePassesKeeps == ASSUME Inv, TimePasses
                         PROVE  Inv'
  <1>1. now \in Clock /\ nowMs \in Clock /\ disconnectMs \in Clock
        /\ sinceTick \in Nat /\ sinceTick < MaxGap /\ sinceTick' = sinceTick + 1
        /\ since \in Nat /\ gone \in Nat /\ now' = Wrap(now + 1)
    BY WindowBounded DEF Inv, TypeOK, TimePasses, Clock
  <1>2. TypeOK'
    <2>1. Wrap(now + 1) \in Clock
      BY WindowBounded, WrapOnClock DEF Inv
    <2>2. sinceTick + 1 \in 0..MaxGap /\ since' \in Nat /\ gone' \in Nat
      BY <1>1, WindowBounded DEF Inv, TimePasses
    <2> QED
      BY <2>1, <2>2 DEF Inv, TypeOK, TimePasses, Clock
  <1>3. LagInv'
    <2>1. Wrap(now - nowMs) \in Nat /\ Wrap(now - nowMs) + 1 < Range
      BY <1>1, WindowBounded, WrapOnClock DEF Inv, LagInv, Clock
    <2>2. Wrap(now' - nowMs) = Wrap(now - nowMs) + 1
      BY <1>1, <2>1, Older
    <2> QED
      BY <1>1, <2>1, <2>2 DEF Inv, LagInv, TimePasses
  <1>4. DeadlineInv'
    <2>1. Window' = Window /\ conn' = conn /\ deadline' = deadline
      BY DEF TimePasses, Window
    <2>2. CASE conn # "none" /\ Window > 0
      <3>1. since' = since + 1
        BY <2>2 DEF TimePasses
      <3>2. Window \in Nat /\ since <= Window + sinceTick /\ 2 * (Window + MaxGap) < Range
            /\ MaxGap \in Nat /\ Range \in Nat
        BY <2>2, WindowBounded DEF Inv, DeadlineInv
      <3>3. Window - since \in Int /\ 2 * (Window - since) < Range
            /\ -Range <= 2 * (Window - since) - 2 /\ Window - (since + 1) = Window - since - 1
        BY <1>1, <2>2, <3>2
      <3>4. Wrap(now' + (Window - since - 1)) = Wrap(now + (Window - since))
        BY <1>1, <3>3, Nearer
      <3>5. since + 1 <= Window + (sinceTick + 1)
        BY <1>1, <3>2
      <3> QED
        BY <1>1, <2>1, <2>2, <3>1, <3>3, <3>4, <3>5 DEF Inv, DeadlineInv
    <2>3. CASE ~(conn # "none" /\ Window > 0)
      BY <2>1, <2>3 DEF DeadlineInv
    <2> QED
      BY <2>2, <2>3
  <1>5. ExpiryInv'
    <2>1. session' = session /\ traits' = traits /\ disconnectMs' = disconnectMs
      BY DEF TimePasses
    <2>2. CASE session = "kept" /\ traits.expiry > 0
      <3>1. gone' = gone + 1
        BY <2>2 DEF TimePasses
      <3>2. Age \in Nat
        BY <1>1, WindowBounded, WrapOnClock DEF Inv, Age, Clock
      <3>3. gone <= Age /\ Age <= gone + MaxGap /\ Age <= traits.expiry + sinceTick
        BY <2>2 DEF Inv, ExpiryInv
      <3>4. Age + 1 < Range
        BY <1>1, <3>2, <3>3, WindowBounded DEF Inv
      <3>5. Age' = Age + 1
        BY <1>1, <2>1, <3>4, Older DEF Age
      <3> HIDE DEF Age
      <3> QED
        BY <1>1, <2>1, <3>1, <3>2, <3>3, <3>5, WindowBounded DEF Inv, ExpiryInv
    <2>3. CASE ~(session = "kept" /\ traits.expiry > 0)
      BY <2>1, <2>3 DEF ExpiryInv
    <2> QED
      BY <2>2, <2>3
  <1> QED
    BY <1>2, <1>3, <1>4, <1>5 DEF Inv, BoundInv, TimePasses

\* Every step keeps the invariant.
LEMMA NextKeeps == Inv /\ [Next]_vars => Inv'
  <1> SUFFICES ASSUME Inv, [Next]_vars
               PROVE  Inv'
    OBVIOUS
  <1>1. CASE ConnOpen
    BY <1>1, ConnOpenKeeps
  <1>2. CASE ConnData
    BY <1>2, ConnDataKeeps
  <1>3. CASE TimePasses
    BY <1>3, TimePassesKeeps
  <1>4. CASE \E k \in KeepAlives : ConnDataConnect(k)
    BY <1>4, ConnDataConnectKeeps
  <1>5. CASE \E keeps \in BOOLEAN : ConnClosed(keeps)
    BY <1>5, ConnClosedKeeps
  <1>6. CASE \E keeps \in BOOLEAN : Tick(keeps)
    BY <1>6, TickKeeps
  <1>7. CASE UNCHANGED vars
    BY <1>7 DEF vars, Inv, TypeOK, LagInv, DeadlineInv, Window, ExpiryInv, Age, BoundInv
  <1> QED
    BY <1>1, <1>2, <1>3, <1>4, <1>5, <1>6, <1>7 DEF Next

-----------------------------------------------------------------------------
(* The theorems.                                                           *)

\* The clock, the stamps and the true ages stay in step on every behaviour.
THEOREM TimersInvariant == Spec => []Inv
  BY InitInv, NextKeeps, PTL DEF Spec

\* No connection outlives its window by more than the time between two ticks,
\* whatever the range of the clock and however often it wraps.
LEMMA TimeoutInTime == Inv => TimeoutsHappen
  BY WindowBounded DEF Inv, TypeOK, DeadlineInv, TimeoutsHappen

\* A session is gone at the latest one tick after its expiry.
LEMMA ExpiryInTime == Inv => ExpiryHappens
  <1> SUFFICES ASSUME Inv, session = "kept", traits.expiry > 0
               PROVE  gone <= traits.expiry + MaxGap
    BY DEF ExpiryHappens
  <1>1. Age \in Nat
    BY WindowBounded, WrapOnClock DEF Inv, TypeOK, Age, Clock
  <1>2. gone <= Age /\ Age <= traits.expiry + sinceTick
    BY DEF Inv, ExpiryInv
  <1> HIDE DEF Age
  <1> QED
    BY <1>1, <1>2, WindowBounded DEF Inv, TypeOK

\* Nothing that has run out outlasts the next tick.
THEOREM NeverLateAlways == Spec => []NeverLate
  BY TimeoutInTime, ExpiryInTime, TimersInvariant, PTL DEF NeverLate

\* tick() ends no connection before its window has passed.
LEMMA TimeoutNotEarly == Inv => OnlyTimedOut
  <1> SUFFICES ASSUME Inv, \E keeps \in BOOLEAN : Tick(keeps), conn # "none", conn' = "none"
               PROVE  Window > 0 /\ since >= Window
    BY DEF OnlyTimedOut
  <1>1. TimedOut
    BY DEF Tick
  <1> QED
    BY <1>1, TimedOutWhen DEF Inv

\* A session that is kept is dropped no earlier than its expiry less the time the
\* broker had not been told of, and never without an expiry.
LEMMA ExpiryNotEarly == Inv /\ [Next]_vars => OnlyExpired
  <1> SUFFICES ASSUME Inv, [Next]_vars, session = "kept", session' = "none"
               PROVE  traits.expiry > 0 /\ gone + MaxGap >= traits.expiry
    BY DEF OnlyExpired
  <1>1. conn # "session"
    BY DEF Inv, BoundInv
  <1>2. PICK keeps \in BOOLEAN : Tick(keeps)
    <2>1. ~(\E keeps \in BOOLEAN : ConnClosed(keeps))
      BY <1>1 DEF ConnClosed, Becomes, Parted
    <2> QED
      BY <2>1 DEF Next, vars, ConnOpen, ConnData, ConnDataConnect, TimePasses
  <1> DEFINE s == [state |-> session, stamp |-> disconnectMs, gone |-> gone]
  <1>3. Expired(s)
    BY <1>1, <1>2 DEF Tick, Becomes, Parted
  <1>4. Age \in Nat /\ disconnectMs \in Clock
    BY WindowBounded, WrapOnClock DEF Inv, TypeOK, Age, Clock
  <1>5. traits.expiry > 0
    BY <1>3, WindowBounded DEF Inv, Expired
  <1>6. Age <= gone + MaxGap /\ Age <= traits.expiry + sinceTick
    BY <1>5 DEF Inv, ExpiryInv
  <1>7. Age <= traits.expiry + MaxGap
    BY <1>4, <1>6, WindowBounded DEF Inv, TypeOK
  <1>8. Age >= traits.expiry
    BY <1>3, <1>4, <1>7, ExpiredWhen DEF Inv, Age
  <1> HIDE DEF Age
  <1> QED
    BY <1>4, <1>5, <1>6, <1>8, WindowBounded DEF Inv, TypeOK

\* No timeout and no expiry is early.
THEOREM NeverEarlyAlways == Spec => NeverEarly
  <1>1. Inv /\ [Next]_vars => [OnlyTimedOut /\ OnlyExpired]_vars
    BY TimeoutNotEarly, ExpiryNotEarly
  <1> QED
    BY <1>1, TimersInvariant, PTL DEF Spec, NeverEarly

====
