------------------------------- MODULE Timers -------------------------------
(***************************************************************************)
(* The broker's clock (broker.hpp): the connect, keep-alive and idle       *)
(* deadlines of a connection and the expiry of a session that lost its     *)
(* own, all on a millisecond counter that wraps.                           *)
(*                                                                         *)
(* One connection and one session.  The counter has Range values (2^32 in  *)
(* the code).  The static_asserts keep every trait below half the range; a *)
(* comparison is right only if the time between two ticks fits in what is  *)
(* left of it, so the assumption asks for that as well.                    *)
(*                                                                         *)
(* The true age of what may run out is kept beside the counter for the     *)
(* properties to compare with; the broker never sees it.  A session is     *)
(* gone from the moment conn_closed() says so, however long before that    *)
(* the peer went.                                                          *)
(***************************************************************************)
EXTENDS Integers

CONSTANTS
    Range,        \* of the clock
    Durations,    \* the values a trait may have, 0 for off
    KeepAlives,   \* keep-alive a client may ask for, in seconds, 0 for off
    MaxGap        \* the most time between two ticks

ASSUME TimersAssumption ==
    /\ Range \in Nat \ {0, 1}
    /\ MaxGap \in Nat \ {0}
    /\ Durations \subseteq Nat
    /\ KeepAlives \subseteq Nat /\ 0 \in KeepAlives
    /\ \A d \in Durations : 2 * (d + MaxGap) < Range        \* max_duration_ms, and a gap
    /\ \A k \in KeepAlives : 2 * (3 * k + MaxGap) < Range

VARIABLES
    traits,         \* connect_timeout_ms, max_idle_ms, session_expiry_ms
    now,            \* the transport's clock
    nowMs,          \* now_ms_, the last time the broker was given
    conn,           \* "none", "open" (no CONNECT yet), "session"
    keepAlive,      \* keepalive_s
    deadline,       \* deadline_ms
    session,        \* "none", "connected", "kept"
    disconnectMs,   \* disconnect_ms
    since,          \* true time since the deadline was set, if it has a window
    gone,           \* true time since the session was left, if it may expire
    sinceTick       \* true time since the last tick

vars == <<traits, now, nowMs, conn, keepAlive, deadline, session, disconnectMs,
          since, gone, sinceTick>>

\* Every variable has its type.
TypeOK ==
    /\ traits \in [connect : Durations, idle : Durations, expiry : Durations]
    /\ now \in 0..(Range - 1) /\ nowMs \in 0..(Range - 1)
    /\ deadline \in 0..(Range - 1) /\ disconnectMs \in 0..(Range - 1)
    /\ conn \in {"none", "open", "session"}
    /\ session \in {"none", "connected", "kept"}
    /\ keepAlive \in KeepAlives
    /\ since \in Nat /\ gone \in Nat /\ sinceTick \in 0..MaxGap

Init ==
    /\ traits \in [connect : Durations, idle : Durations, expiry : Durations]
    /\ now = 0 /\ nowMs = 0
    /\ conn = "none" /\ keepAlive = 0 /\ deadline = 0
    /\ session = "none" /\ disconnectMs = 0
    /\ since = 0 /\ gone = 0 /\ sinceTick = 0

Wrap(t) == t % Range

-----------------------------------------------------------------------------
(* Deadlines.                                                              *)

\* keepalive_window_ms(): one and a half times the period; the clock here has
\* two units a second.
KeepAliveWindow(k) == 3 * k

\* Mutant: compared by magnitude.
DeadlineBehind(at, limit) == at >= limit

\* deadline_passed(): the difference, as a signed number, is not negative.
DeadlinePassed(at, limit) == Wrap(at - limit) < Range \div 2

\* refresh_deadline(), for a connection with keep-alive k.
Refreshed(k, at) ==
    IF k > 0 THEN Wrap(at + KeepAliveWindow(k))
    ELSE IF traits.idle > 0 THEN Wrap(at + traits.idle)
    ELSE deadline

\* Mutant: idle_timeout_ms is tested where keep-alive is.
ArmedByIdle ==
    IF conn = "open" THEN traits.connect > 0 ELSE traits.idle > 0

\* armed of tick().
Armed ==
    IF conn = "open" THEN traits.connect > 0 ELSE keepAlive > 0 \/ traits.idle > 0

-----------------------------------------------------------------------------
(* The calls of a transport.                                               *)

\* conn_open(), which does not record the time.
ConnOpen ==
    /\ conn = "none"
    /\ conn' = "open"
    /\ keepAlive' = 0
    /\ deadline' = Wrap(now + traits.connect)
    /\ since' = 0
    /\ UNCHANGED <<traits, now, nowMs, session, disconnectMs, gone, sinceTick>>

\* conn_data() with no CONNECT in it: traffic refreshes the deadline of a
\* session, and only of a session.
ConnData ==
    /\ conn # "none"
    /\ nowMs' = now
    /\ deadline' = IF conn = "session" THEN Refreshed(keepAlive, now) ELSE deadline
    /\ since' = IF conn = "session" THEN 0 ELSE since
    /\ UNCHANGED <<traits, now, conn, keepAlive, session, disconnectMs, gone, sinceTick>>

\* conn_data() with a CONNECT: handle_connect() binds the session and sets the
\* deadline from the keep-alive asked for.
ConnDataConnect(k) ==
    /\ conn = "open"
    /\ nowMs' = now
    /\ conn' = "session" /\ session' = "connected"
    /\ keepAlive' = k
    /\ deadline' = Refreshed(k, now)
    /\ since' = 0 /\ gone' = 0 /\ disconnectMs' = 0
    /\ UNCHANGED <<traits, now, sinceTick>>

\* What teardown() at the time at makes of the session: it is kept, with the
\* stamp its expiry is measured from, or released when it is a clean one.
Parted(at, keeps) ==
    CASE conn = "session" /\ keeps -> [state |-> "kept", stamp |-> at, gone |-> 0]
      [] conn = "session" /\ ~keeps -> [state |-> "none", stamp |-> 0, gone |-> 0]
      [] OTHER -> [state |-> session, stamp |-> disconnectMs, gone |-> gone]

Becomes(s) == session' = s.state /\ disconnectMs' = s.stamp /\ gone' = s.gone

ConnReset == conn' = "none" /\ deadline' = 0 /\ since' = 0 /\ keepAlive' = 0

\* The stamp of a close outside tick(): the last time the broker was given.
Stamp == nowMs

\* conn_closed(), or a reason of the broker's own outside tick().
ConnClosed(keeps) ==
    /\ conn # "none"
    /\ ConnReset
    /\ Becomes(Parted(Stamp, keeps))
    /\ UNCHANGED <<traits, now, nowMs, sinceTick>>

\* Mutant: no expiry is taken for one of no time.
ExpiredAlways(s) == s.state = "kept" /\ DeadlinePassed(now, Wrap(s.stamp + traits.expiry))

\* Mutant: nothing expires while a connection is open.
ExpiredQuiet(s) ==
    /\ traits.expiry # 0 /\ conn = "none"
    /\ s.state = "kept" /\ DeadlinePassed(now, Wrap(s.stamp + traits.expiry))

\* expire_sessions().
Expired(s) ==
    /\ traits.expiry # 0
    /\ s.state = "kept" /\ DeadlinePassed(now, Wrap(s.stamp + traits.expiry))

TimedOut == conn # "none" /\ Armed /\ DeadlinePassed(now, deadline)

\* tick(): the connection may run out of time, and is torn down; then the
\* session may, also one that lost its connection just now.
Tick(keeps) ==
    LET s == IF TimedOut THEN Parted(now, keeps)
             ELSE [state |-> session, stamp |-> disconnectMs, gone |-> gone]
    IN /\ nowMs' = now /\ sinceTick' = 0
       /\ IF TimedOut THEN ConnReset ELSE UNCHANGED <<conn, keepAlive, deadline, since>>
       /\ Becomes(IF Expired(s) THEN [state |-> "none", stamp |-> 0, gone |-> 0] ELSE s)
       /\ UNCHANGED <<traits, now>>

\* The window a connection is held to, 0 for none.
Window ==
    IF conn = "open" THEN traits.connect
    ELSE IF keepAlive > 0 THEN KeepAliveWindow(keepAlive) ELSE traits.idle

\* run() ticks at least every MaxGap.
TimePasses ==
    /\ sinceTick < MaxGap
    /\ now' = Wrap(now + 1)
    /\ sinceTick' = sinceTick + 1
    /\ since' = IF conn # "none" /\ Window > 0 THEN since + 1 ELSE since
    /\ gone' = IF session = "kept" /\ traits.expiry > 0 THEN gone + 1 ELSE gone
    /\ UNCHANGED <<traits, nowMs, conn, keepAlive, deadline, session, disconnectMs>>

Next ==
    \/ ConnOpen \/ ConnData \/ TimePasses
    \/ \E k \in KeepAlives : ConnDataConnect(k)
    \/ \E keeps \in BOOLEAN : ConnClosed(keeps) \/ Tick(keeps)

Spec == Init /\ [][Next]_vars

-----------------------------------------------------------------------------
(* Properties.                                                             *)

\* A tick ends a connection only when its whole window has truly passed.
OnlyTimedOut ==
    (\E keeps \in BOOLEAN : Tick(keeps)) /\ conn # "none" /\ conn' = "none"
        => Window > 0 /\ since >= Window

\* A session that is kept is dropped for its age no earlier than its expiry less
\* the time since the broker last knew the time.
OnlyExpired ==
    session = "kept" /\ session' = "none"
        => traits.expiry > 0 /\ gone + MaxGap >= traits.expiry

\* tick() ends no connection before its window has passed and no session before
\* its expiry, however the clock wraps, and never when either is off.
NeverEarly == [][OnlyTimedOut /\ OnlyExpired]_vars

\* No connection outlives its window by more than the time between two ticks.
TimeoutsHappen == conn # "none" /\ Window > 0 => since <= Window + MaxGap

\* Nor a session its expiry.
ExpiryHappens ==
    session = "kept" /\ traits.expiry > 0 => gone <= traits.expiry + MaxGap

\* tick() misses nothing: what has run out is gone with the tick after it.
NeverLate == TimeoutsHappen /\ ExpiryHappens

====
