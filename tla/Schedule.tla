------------------------------ MODULE Schedule ------------------------------
(***************************************************************************)
(* When a timeseries poller asks, and for which time window.  A tokio      *)
(* interval fires once per Period and keeps the ticks that fall while the  *)
(* task is busy (MissedTickBehavior::Burst); every poll asks for a         *)
(* 10-minute window in the past and stamps the metrics with its bounds.    *)
(* The interval goes by the monotonic clock, the windows by the wall       *)
(* clock, which may be set at any time.  Times are in seconds.             *)
(***************************************************************************)
EXTENDS Integers

CONSTANTS
    Period,     \* the poller's interval
    Offsets,    \* how far the wall clock may be ahead of the monotonic clock
    Busy,       \* how long a poll, its enrichment and its send may take
    Late,       \* how late a due task may be scheduled
    MaxPolls    \* bound: polls followed

ASSUME ScheduleAssumption ==
    /\ Period \in Nat \ {0}
    /\ Offsets \subseteq Nat /\ Busy \subseteq Nat /\ Late \subseteq Nat
    /\ MaxPolls \in Nat

Minute == 60
Boundary == 10 * Minute

-----------------------------------------------------------------------------
(* The window asked for at time t, in seconds since the epoch.             *)

\* Mutant of Aligned: rounds to the nearest boundary.
AlignedNearest(t) == LET u == t + Boundary \div 2 IN
                     u - ((u \div Minute) % 10) * Minute

\* Minutes are rounded down to a multiple of ten; the seconds stay.
Aligned(t) == t - ((t \div Minute) % 10) * Minute

\* get_interval_times: the bounds the metrics are stamped with.
Stamp(t) == [start |-> Aligned(t - 25 * Minute), time |-> Aligned(t - 15 * Minute)]

\* with_second(0).with_nanosecond(0)
NoSeconds(t) == t - (t % Minute)

\* get_interval: the bounds of the query.
Window(t) == [start |-> NoSeconds(Stamp(t).start), time |-> NoSeconds(Stamp(t).time)]

-----------------------------------------------------------------------------

VARIABLES
    now,      \* the monotonic clock: the time since the interval was created
    offset,   \* what is added to it to give the wall clock
    due,      \* the interval's next tick, by the monotonic clock
    pc,       \* "waiting" for the tick or "busy" with a poll
    polls,    \* polls begun
    asked,    \* when the last poll was made, by the wall clock
    stamped,  \* when the last poll that returned metrics was made, likewise
    clock,    \* history: has the wall clock been "set" since the last poll?
    before    \* history: when the poll before the last was made, likewise, or
              \* Never if the clock was set between the two

vars == <<now, offset, due, pc, polls, asked, stamped, clock, before>>

Never == -1     \* no such poll yet

Init ==
    /\ now = 0 /\ offset \in Offsets /\ due = 0
    /\ pc = "waiting" /\ polls = 0
    /\ asked = Never /\ stamped = Never /\ clock = "steady" /\ before = Never

\* The poll is made now, and follows the last.
Poll ==
    /\ asked' = now' + offset /\ clock' = "steady"
    /\ before' = IF clock = "steady" THEN asked ELSE Never
    /\ polls' = polls + 1 /\ pc' = "busy"
    /\ UNCHANGED <<offset, stamped>>

\* Mutant of Tick: the next tick is a Period after this one (MissedTickBehavior::Delay).
TickFromNow ==
    /\ pc = "waiting" /\ polls < MaxPolls
    /\ \E l \in Late : now' = (IF now < due THEN due ELSE now) + l
    /\ due' = now' + Period
    /\ Poll

\* The tick is awaited, or is overdue and fires at once; the next is a Period after the
\* one that was due.  The window is computed right away.
Tick ==
    /\ pc = "waiting" /\ polls < MaxPolls
    /\ \E l \in Late : now' = (IF now < due THEN due ELSE now) + l
    /\ due' = due + Period
    /\ Poll

\* Mutants of Done: the metrics are stamped in the past without a check; the poller
\* sleeps for a Period after each poll.
DoneUnderflows ==
    /\ pc = "busy"
    /\ \E b \in Busy : now' = now + b
    /\ stamped' \in {stamped, asked - 15 * Minute}
    /\ pc' = "waiting"
    /\ UNCHANGED <<offset, due, polls, asked, clock, before>>

DoneThenSleeps ==
    /\ pc = "busy"
    /\ \E b \in Busy : now' = now + b
    /\ stamped' \in {stamped, asked}
    /\ due' = now' + Period
    /\ pc' = "waiting"
    /\ UNCHANGED <<offset, polls, asked, clock, before>>

\* The poll failed, or its batch is sent with the window it asked for.
Done ==
    /\ pc = "busy"
    /\ \E b \in Busy : now' = now + b
    /\ stamped' \in {stamped, asked}
    /\ pc' = "waiting"
    /\ UNCHANGED <<offset, due, polls, asked, clock, before>>

\* The wall clock is set, forward or back, while the poller waits or polls.
ClockSet ==
    /\ offset' \in Offsets /\ clock' = "set"
    /\ UNCHANGED <<now, due, pc, polls, asked, stamped, before>>

Stop == polls = MaxPolls /\ pc = "waiting" /\ UNCHANGED vars

Next == Tick \/ Done \/ ClockSet \/ Stop

Spec == Init /\ [][Next]_vars

-----------------------------------------------------------------------------
(* Properties.                                                             *)

TypeOK ==
    /\ now \in Nat /\ offset \in Offsets /\ due \in Nat /\ polls \in 0 .. MaxPolls
    /\ pc \in {"waiting", "busy"}
    /\ asked \in Nat \cup {Never} /\ stamped \in Nat \cup {Never}
    /\ clock \in {"steady", "set"} /\ before \in Nat \cup {Never}

\* The window asked for is aligned and 10 minutes long, it ended 15 minutes ago or more,
\* so that its data are complete, and no later window qualifies
\* (timeseries_poller.rs 129-164).
WindowsSettled ==
    asked # Never =>
        LET w == Window(asked) IN
        /\ w.start % Boundary = 0 /\ w.time = w.start + Boundary
        /\ w.time + 15 * Minute <= asked
        /\ asked < w.time + 15 * Minute + Boundary

\* No tick is lost or doubled, however busy the poller was and however the wall clock was
\* set: whenever the poller is not behind, it has polled once for every Period that has
\* begun (intersight_poller.rs 146-150).
CaughtUp ==
    pc = "waiting" /\ now < due => polls = now \div Period + 1

\* How long after a poll the next one may be made, when no poll takes as long as that.
Regular ==
    /\ \A l \in Late : Period + l <= Boundary
    /\ \A b \in Busy, l \in Late : b + l <= Boundary

\* With an interval of up to 10 minutes no window is left out while the wall clock is not
\* set: each poll asks for the window of the one before or for the next.
NoWindowSkipped ==
    [][Regular /\ asked # Never /\ clock = "steady" =>
          Window(asked').start \in {Window(asked).start, Window(asked).time}]_vars

\* A poll that fails is not repeated, yet its window is not lost: with an interval of up
\* to half a window, the poll before or the one after asks for the same window, however
\* late those two polls were and however long they took, as long as the poller has caught
\* up when it makes the third and the wall clock is not set (intersight_poller.rs 146-188,
\* timeseries_poller.rs 129-164).
FailureMadeUpFor ==
    [][(/\ \A l \in Late : 2 * Period + l <= Boundary
        /\ before # Never /\ clock = "steady" /\ now <= due
        /\ polls' # polls)
       => Window(asked) \in {Window(before), Window(asked')}]_vars

\* timeseries_poller.rs 151 says that the times are aligned to 10-minute boundaries.
StampsAligned ==
    stamped # Never => Stamp(stamped).start % Boundary = 0 /\ Stamp(stamped).time % Boundary = 0
=============================================================================
