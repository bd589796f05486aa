--------------------------- MODULE ScheduleProofs ---------------------------
(***************************************************************************)
(* Proofs about Schedule, for any interval, duration and lateness, and     *)
(* however the wall clock is set.                                          *)
(***************************************************************************)
EXTENDS Schedule, TLAPS

-----------------------------------------------------------------------------
(* Arithmetic of the windows.                                              *)

\* Taking minutes modulo ten and cutting the seconds leaves the 10-minute boundary at or
\* below u.
LEMMA Boundaries ==
    ASSUME NEW u \in Int
    PROVE  /\ Aligned(u) = 600 * (u \div 600) + (u % 60)
           /\ NoSeconds(Aligned(u)) = 600 * (u \div 600)
  <1> DEFINE q == u \div 600
             m == (u \div 60) % 10
             s == u % 60
  <1>1. q \in Int /\ m \in 0 .. 9 /\ s \in 0 .. 59
    OBVIOUS
  <1>2. u = 600 * q + 60 * m + s
    OBVIOUS
  <1>3. Aligned(u) = 600 * q + s
    BY <1>1, <1>2 DEF Aligned, Minute
  <1>4. (600 * q + s) % 60 = s
    <2> DEFINE n == 600 * q + s
    <2>1. n \in Int /\ n \div 60 \in Int /\ n % 60 \in 0 .. 59
      BY <1>1
    <2>2. n = 60 * (n \div 60) + (n % 60)
      BY <2>1
    <2>3. n = 600 * q + s
      OBVIOUS
    <2> HIDE DEF n, q, s
    <2> QED
      BY <1>1, <2>1, <2>2, <2>3
  <1>5. NoSeconds(Aligned(u)) = 600 * q
    BY <1>1, <1>3, <1>4 DEF NoSeconds, Minute
  <1> QED
    BY <1>3, <1>5

\* The window of time t ends at the last boundary that is 15 minutes old.
LEMMA WindowBounds ==
    ASSUME NEW t \in Int
    PROVE  \E q \in Int :
              /\ Window(t).start = 600 * q /\ Window(t).time = 600 * q + 600
              /\ 600 * q + 1500 <= t /\ t < 600 * q + 2100
  <1> DEFINE q == (t - 1500) \div 600
  <1>1. q \in Int /\ (t - 900) \div 600 = q + 1
    OBVIOUS
  <1>2. 600 * q <= t - 1500 /\ t - 1500 < 600 * q + 600
    OBVIOUS
  <1>3. /\ NoSeconds(Aligned(t - 1500)) = 600 * q
        /\ NoSeconds(Aligned(t - 900)) = 600 * q + 600
    <2>1. t - 1500 \in Int /\ t - 900 \in Int
      OBVIOUS
    <2>2. NoSeconds(Aligned(t - 1500)) = 600 * ((t - 1500) \div 600)
      BY <2>1, Boundaries
    <2>3. NoSeconds(Aligned(t - 900)) = 600 * ((t - 900) \div 600)
      BY <2>1, Boundaries
    <2>4. 600 * (q + 1) = 600 * q + 600
      BY <1>1
    <2> QED
      BY <1>1, <2>2, <2>3, <2>4
  <1>4. Window(t).start = 600 * q /\ Window(t).time = 600 * q + 600
    BY <1>3 DEF Window, Stamp, Minute
  <1> QED
    BY <1>1, <1>2, <1>4

\* What WindowsSettled says of the window of any time.
LEMMA WindowSettled ==
    ASSUME NEW t \in Int
    PROVE  LET w == Window(t) IN
           /\ w.start % Boundary = 0 /\ w.time = w.start + Boundary
           /\ w.time + 15 * Minute <= t
           /\ t < w.time + 15 * Minute + Boundary
  <1>1. PICK q \in Int : /\ Window(t).start = 600 * q /\ Window(t).time = 600 * q + 600
                         /\ 600 * q + 1500 <= t /\ t < 600 * q + 2100
    BY WindowBounds
  <1>2. (600 * q) % 600 = 0
    <2> DEFINE n == 600 * q
    <2>1. n \in Int /\ n \div 600 \in Int /\ n % 600 \in 0 .. 599
      OBVIOUS
    <2>2. n = 600 * (n \div 600) + (n % 600)
      BY <2>1
    <2>3. n = 600 * q
      OBVIOUS
    <2> HIDE DEF n
    <2> QED
      BY <2>1, <2>2, <2>3
  <1> QED
    BY <1>1, <1>2 DEF Boundary, Minute

\* Polls at most ten minutes apart ask for the same window or for adjacent ones.
LEMMA WindowsMeet ==
    ASSUME NEW t \in Int, NEW u \in Int, t <= u, u <= t + Boundary
    PROVE  Window(u).start \in {Window(t).start, Window(t).time}
  <1>1. PICK q \in Int : /\ Window(t).start = 600 * q /\ Window(t).time = 600 * q + 600
                         /\ 600 * q + 1500 <= t /\ t < 600 * q + 2100
    BY WindowBounds
  <1>2. PICK p \in Int : /\ Window(u).start = 600 * p /\ Window(u).time = 600 * p + 600
                         /\ 600 * p + 1500 <= u /\ u < 600 * p + 2100
    BY WindowBounds
  <1>3. p = q \/ p = q + 1
    BY <1>1, <1>2 DEF Boundary, Minute
  <1> QED
    BY <1>1, <1>2, <1>3

\* Of three polls within ten minutes, the one in the middle asks for the window of one of
\* the others.
LEMMA MiddleShared ==
    ASSUME NEW t \in Int, NEW u \in Int, NEW v \in Int, t <= u, u <= v, v <= t + Boundary
    PROVE  Window(u) \in {Window(t), Window(v)}
  <1> DEFINE Fits(x, n) == /\ Window(x).start = 600 * n /\ Window(x).time = 600 * n + 600
                           /\ 600 * n + 1500 <= x /\ x < 600 * n + 2100
  <1>1. \A x \in Int : \E n \in Int : Fits(x, n)
    BY WindowBounds
  <1>2. \A x, y, m, n \in Int :
           Fits(x, m) /\ Fits(y, n) /\ x <= y /\ y <= x + 600 => n = m \/ n = m + 1
    OBVIOUS
  <1>3. \A x, y, n \in Int : Fits(x, n) /\ Fits(y, n) => Window(x) = Window(y)
    BY DEF Window
  <1> HIDE DEF Fits
  <1>4. PICK q \in Int : Fits(t, q)
    BY <1>1
  <1>5. PICK p \in Int : Fits(u, p)
    BY <1>1
  <1>6. PICK r \in Int : Fits(v, r)
    BY <1>1
  <1>7. u <= t + 600 /\ v <= u + 600 /\ t <= v /\ v <= t + 600
    BY DEF Boundary, Minute
  <1>8. p \in {q, q + 1} /\ r \in {p, p + 1} /\ r \in {q, q + 1}
    BY <1>2, <1>4, <1>5, <1>6, <1>7
  <1>9. p = q \/ p = r
    BY <1>8
  <1> QED
    BY <1>3, <1>4, <1>5, <1>6, <1>9

-----------------------------------------------------------------------------
(* The inductive invariant: how far the clock and the next tick can be     *)
(* from the last poll and from the one before, unless the wall clock has   *)
(* been set since.                                                         *)

SinceLastPoll ==
    /\ asked = Never <=> polls = 0
    /\ polls = 0 => pc = "waiting"
    /\ asked # Never /\ clock = "steady" =>
          /\ due + offset <= asked + Period
          /\ pc = "busy" => asked = now + offset
          /\ pc = "waiting" => \E b \in Busy : now + offset = asked + b

\* The ticks fall on 0, Period, ...; none is used before its time.
TicksCounted ==
    /\ due = polls * Period
    /\ polls = 0 => now = 0
    /\ polls > 0 => due - Period <= now

\* The poll before the last was not before its own tick, which is two Periods ago when
\* the next is due.
SincePollBefore ==
    before # Never /\ clock = "steady" =>
        asked # Never /\ before <= asked /\ due + offset <= before + 2 * Period

IInv == TypeOK /\ SinceLastPoll /\ SincePollBefore /\ TicksCounted

LEMMA InitInv == Init => IInv
  BY ScheduleAssumption DEF Init, IInv, TypeOK, SinceLastPoll, SincePollBefore, TicksCounted, Never

LEMMA TickInv == IInv /\ Tick => IInv'
  <1> SUFFICES ASSUME IInv, Tick PROVE IInv'
    OBVIOUS
  <1> USE ScheduleAssumption DEF Never
  <1>1. PICK l \in Late : now' = (IF now < due THEN due ELSE now) + l
    BY DEF Tick
  <1>2. l \in Nat /\ now \in Nat /\ due \in Nat /\ Period \in Nat /\ offset \in Nat
    BY DEF IInv, TypeOK
  <1>3. now' \in Nat /\ due <= now'
    BY <1>1, <1>2
  <1>4. TypeOK'
    BY <1>2, <1>3 DEF IInv, TypeOK, Tick, Poll
  <1>5. SinceLastPoll'
    <2>1. asked' = now' + offset /\ due' = due + Period /\ offset' = offset /\ pc' = "busy"
      BY DEF Tick, Poll
    <2>2. (due + Period) + offset <= (now' + offset) + Period
      <3>1. \A d, n, o, p \in Int : d <= n => (d + p) + o <= (n + o) + p
        OBVIOUS
      <3>2. now' \in Int /\ due \in Int /\ offset \in Int /\ Period \in Int
        BY <1>2, <1>3
      <3>3. due <= now'
        BY <1>3
      <3> HIDE ScheduleAssumption DEF Never
      <3> QED
        BY <3>1, <3>2, <3>3
    <2>3. asked' # Never /\ polls' # 0
      BY <1>2, <1>3, <2>1 DEF IInv, TypeOK, Tick, Poll
    <2> QED
      BY <1>3, <2>1, <2>2, <2>3 DEF SinceLastPoll
  <1>6. SincePollBefore'
    <2> SUFFICES ASSUME before' # Never
                 PROVE  asked' # Never /\ before' <= asked' /\ due' + offset' <= before' + 2 * Period
      BY DEF SincePollBefore
    <2>1. /\ asked' = now' + offset /\ due' = due + Period /\ offset' = offset
          /\ clock = "steady" /\ asked # Never /\ before' = asked /\ pc = "waiting"
      BY DEF Tick, Poll
    <2>2. PICK b \in Busy : now + offset = asked + b
      BY <2>1 DEF IInv, SinceLastPoll
    <2>3. asked \in Nat /\ b \in Nat /\ due + offset <= asked + Period
      BY <2>1 DEF IInv, TypeOK, SinceLastPoll
    <2>4. now <= now'
      <3>1. CASE now < due
        BY <1>2, <1>3, <3>1
      <3>2. CASE ~(now < due)
        BY <1>1, <1>2, <3>2
      <3> QED
        BY <3>1, <3>2
    <2>5. asked <= now' + offset
      <3>1. \A a, c, m, n, o \in Int : n + o = a + c /\ 0 <= c /\ n <= m => a <= m + o
        OBVIOUS
      <3>2. /\ asked \in Int /\ b \in Int /\ now \in Int /\ now' \in Int /\ offset \in Int
            /\ 0 <= b
        BY <1>2, <1>3, <2>3
      <3> HIDE ScheduleAssumption DEF Never
      <3> QED
        BY <2>2, <2>4, <3>1, <3>2
    <2>6. (due + Period) + offset <= asked + 2 * Period
      <3>1. \A a, d, o, p \in Int : d + o <= a + p => (d + p) + o <= a + 2 * p
        OBVIOUS
      <3>2. asked \in Int /\ due \in Int /\ offset \in Int /\ Period \in Int
        BY <1>2, <2>3
      <3> HIDE ScheduleAssumption DEF Never
      <3> QED
        BY <2>3, <3>1, <3>2
    <2>7. now' + offset # Never
      <3>1. \A n, o \in Nat : n + o # Never
        OBVIOUS
      <3> QED
        BY <1>2, <1>3, <3>1
    <2> QED
      BY <2>1, <2>5, <2>6, <2>7
  <1>7. TicksCounted'
    <2>1. due = polls * Period /\ due' = due + Period /\ polls' = polls + 1
      BY DEF IInv, TicksCounted, Tick, Poll
    <2>2. polls \in Nat
      BY DEF IInv, TypeOK
    <2>3. (polls + 1) * Period = polls * Period + Period
      BY <1>2, <2>2
    <2>4. due' = polls' * Period
      BY <1>2, <2>1, <2>2, <2>3
    <2> QED
      BY <1>2, <1>3, <2>1, <2>2, <2>4 DEF TicksCounted
  <1> QED
    BY <1>4, <1>5, <1>6, <1>7 DEF IInv

LEMMA DoneInv == IInv /\ Done => IInv'
  <1> SUFFICES ASSUME IInv, Done PROVE IInv'
    OBVIOUS
  <1> USE ScheduleAssumption DEF Never
  <1>1. PICK b \in Busy : now' = now + b
    BY DEF Done
  <1>2. now \in Nat /\ b \in Nat /\ offset \in Nat /\ polls # 0 /\ asked # Never /\ asked \in Nat
    BY DEF IInv, TypeOK, SinceLastPoll, Done
  <1>3. TypeOK'
    BY <1>1, <1>2 DEF IInv, TypeOK, Done
  <1>4. SinceLastPoll'
    <2>1. clock = "steady" => due + offset <= asked + Period /\ asked = now + offset
      BY <1>2 DEF IInv, SinceLastPoll, Done
    <2>2. clock = "steady" => now' + offset = asked + b
      BY <1>1, <1>2, <2>1
    <2>3. UNCHANGED <<offset, due, polls, asked, clock>> /\ pc' = "waiting"
      BY DEF Done
    <2> QED
      BY <1>2, <2>1, <2>2, <2>3 DEF SinceLastPoll
  <1>5. TicksCounted'
    <2>1. UNCHANGED <<due, polls>>
      BY DEF Done
    <2> QED
      BY <1>1, <1>2, <2>1 DEF IInv, TypeOK, TicksCounted
  <1>6. SincePollBefore'
    BY DEF IInv, SincePollBefore, Done
  <1> QED
    BY <1>3, <1>4, <1>5, <1>6 DEF IInv

\* Setting the wall clock leaves the interval's time alone.
LEMMA ClockSetInv == IInv /\ ClockSet => IInv'
  BY DEF ClockSet, IInv, TypeOK, SinceLastPoll, SincePollBefore, TicksCounted

LEMMA NextInv == IInv /\ [Next]_vars => IInv'
  <1> SUFFICES ASSUME IInv, [Next]_vars PROVE IInv'
    OBVIOUS
  <1>1. CASE Tick
    BY <1>1, TickInv
  <1>2. CASE Done
    BY <1>2, DoneInv
  <1>3. CASE ClockSet
    BY <1>3, ClockSetInv
  <1>4. CASE Stop \/ UNCHANGED vars
    BY <1>4 DEF Stop, vars, IInv, TypeOK, SinceLastPoll, SincePollBefore, TicksCounted
  <1> QED
    BY <1>1, <1>2, <1>3, <1>4 DEF Next

THEOREM Invariance == Spec => []IInv
  BY InitInv, NextInv, PTL DEF Spec

-----------------------------------------------------------------------------
(* The theorems.                                                           *)

\* Clocks, ticks and counters stay in their ranges, although clocks are set back: the time
\* a poll is made, and stamped with, is never before the epoch.
THEOREM TypeCorrect == Spec => []TypeOK
  <1>1. IInv => TypeOK
    BY DEF IInv
  <1> QED
    BY <1>1, Invariance, PTL

\* Whenever a poll is made, the window it asks for is aligned, 10 minutes long, complete,
\* and the latest such window (timeseries_poller.rs 129-164).
THEOREM AlwaysSettled == Spec => []WindowsSettled
  <1>1. IInv => WindowsSettled
    <2> SUFFICES ASSUME IInv, asked # Never PROVE WindowsSettled
      BY DEF WindowsSettled
    <2>1. asked \in Int
      BY DEF IInv, TypeOK
    <2> QED
      BY <2>1, WindowSettled DEF WindowsSettled
  <1> QED
    BY <1>1, Invariance, PTL

\* For every interval, poll duration and lateness that fit in 10 minutes, consecutive
\* polls leave out no window unless the wall clock is set between them.
THEOREM EveryWindowAsked == Spec => NoWindowSkipped
  <1> DEFINE Step == Regular /\ asked # Never /\ clock = "steady" =>
                        Window(asked').start \in {Window(asked).start, Window(asked).time}
  <1>1. IInv /\ [Next]_vars => [Step]_vars
    <2> SUFFICES ASSUME IInv, Next, Regular, asked # Never, clock = "steady"
                 PROVE  Window(asked').start \in {Window(asked).start, Window(asked).time}
      OBVIOUS
    <2>1. asked \in Nat /\ now \in Nat /\ due \in Nat /\ offset \in Nat
      BY ScheduleAssumption DEF IInv, TypeOK
    <2>2. CASE Tick
      <3>1. PICK l \in Late : now' = (IF now < due THEN due ELSE now) + l
        BY <2>2 DEF Tick
      <3>2. PICK b \in Busy : now + offset = asked + b
        BY <2>2 DEF IInv, SinceLastPoll, Tick
      <3>3. l \in Nat /\ b \in Nat /\ Period \in Nat
        BY ScheduleAssumption
      <3>4. Period + l <= Boundary /\ b + l <= Boundary
        BY DEF Regular
      <3>5. due + offset <= asked + Period
        BY DEF IInv, SinceLastPoll
      <3>6. now' + offset \in Int /\ asked <= now' + offset /\ now' + offset <= asked + Boundary
        BY <2>1, <3>1, <3>2, <3>3, <3>4, <3>5 DEF Boundary, Minute
      <3>7. Window(now' + offset).start \in {Window(asked).start, Window(asked).time}
        BY <2>1, <3>6, WindowsMeet
      <3> QED
        BY <2>2, <3>7 DEF Tick, Poll
    <2>3. CASE Done \/ ClockSet \/ Stop
      <3>1. asked' = asked
        BY <2>3 DEF Done, ClockSet, Stop, vars
      <3> QED
        BY <3>1
    <2> QED
      BY <2>2, <2>3 DEF Next
  <1>2. Spec => [][Step]_vars
    BY <1>1, Invariance, PTL DEF Spec
  <1> QED
    BY <1>2 DEF NoWindowSkipped

\* However long polls take, the interval's missed ticks are made up for: a poller that is
\* not behind has polled once per Period begun.
THEOREM NoTickLost == Spec => []CaughtUp
  <1>1. IInv => CaughtUp
    <2> SUFFICES ASSUME IInv, now < due PROVE polls = now \div Period + 1
      BY DEF CaughtUp
    <2> DEFINE d == now
               e == d \div Period
    <2>1. now \in Nat /\ polls \in Nat /\ Period \in Nat \ {0}
      BY ScheduleAssumption DEF IInv, TypeOK
    <2>2. polls # 0 /\ (polls - 1) * Period <= d /\ d < polls * Period
      <3>1. due = polls * Period /\ polls # 0
        BY <2>1 DEF IInv, TicksCounted
      <3>2. due - Period <= now
        BY <2>1, <3>1 DEF IInv, TicksCounted
      <3>3. (polls - 1) * Period = polls * Period - Period /\ polls * Period \in Nat
        BY <2>1
      <3> QED
        BY <2>1, <3>1, <3>2, <3>3
    <2>3. e \in Int /\ e * Period <= d /\ d < (e + 1) * Period
      BY <2>1
    <2>4. e < polls
      BY <2>1, <2>2, <2>3
    <2>5. polls - 1 < e + 1
      BY <2>1, <2>2, <2>3
    <2> QED
      BY <2>1, <2>3, <2>4, <2>5
  <1> QED
    BY <1>1, Invariance, PTL

\* For every interval of up to half a window, a poll that fails is made up for by the poll
\* before or the one after, which asks for the same window, unless the poller is behind at
\* the latter or the wall clock is set (intersight_poller.rs 146-188).
THEOREM FailureAlwaysMadeUpFor == Spec => FailureMadeUpFor
  <1> DEFINE Step ==
        (/\ \A l \in Late : 2 * Period + l <= Boundary
         /\ before # Never /\ clock = "steady" /\ now <= due
         /\ polls' # polls)
        => Window(asked) \in {Window(before), Window(asked')}
  <1>1. IInv /\ [Next]_vars => [Step]_vars
    <2> SUFFICES ASSUME IInv, Next, \A l \in Late : 2 * Period + l <= Boundary,
                        before # Never, clock = "steady", now <= due, polls' # polls
                 PROVE  Window(asked) \in {Window(before), Window(asked')}
      OBVIOUS
    <2>1. Tick
      BY DEF Next, Done, ClockSet, Stop, vars
    <2>2. PICK l \in Late : now' = (IF now < due THEN due ELSE now) + l
      BY <2>1 DEF Tick
    <2>3. /\ l \in Nat /\ now \in Nat /\ due \in Nat /\ offset \in Nat /\ Period \in Nat
          /\ asked \in Nat \cup {Never} /\ before \in Nat
      BY ScheduleAssumption DEF IInv, TypeOK
    <2>4. asked # Never /\ before <= asked /\ due + offset <= before + 2 * Period
      BY DEF IInv, SincePollBefore
    <2>5. PICK b \in Busy : now + offset = asked + b
      BY <2>1, <2>4 DEF IInv, SinceLastPoll, Tick
    <2>6. now' = due + l
      BY <2>2, <2>3
    <2>7. asked' = now' + offset
      BY <2>1 DEF Tick, Poll
    <2>8. asked \in Int /\ b \in Nat /\ 2 * Period + l <= Boundary
      BY <2>3, <2>4, ScheduleAssumption
    <2>9. asked <= (due + l) + offset
      BY <2>3, <2>5, <2>8
    <2>10. (due + l) + offset <= before + Boundary
      BY <2>3, <2>4, <2>8 DEF Boundary, Minute
    <2>11. Window(asked) \in {Window(before), Window((due + l) + offset)}
      BY <2>3, <2>4, <2>8, <2>9, <2>10, MiddleShared
    <2> QED
      BY <2>6, <2>7, <2>11
  <1>2. Spec => [][Step]_vars
    BY <1>1, Invariance, PTL DEF Spec
  <1> QED
    BY <1>2 DEF FailureMadeUpFor
=============================================================================
