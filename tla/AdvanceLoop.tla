------------------------------ MODULE AdvanceLoop ------------------------------
(***************************************************************************)
(* The do-while loops of advance_by and advance_by_minutes, called once    *)
(* for every completion of a repeating reminder, or every notification of  *)
(* a task: the result of a call is where the next call starts.             *)
(***************************************************************************)
EXTENDS Calendar, Schedule

CONSTANTS
    Starts,     \* first instants: remind_at of a form, or notify_at
    Intervals,  \* repeat intervals submitted with a form
    Minutes,    \* values of snooze_minutes, an i64 the form does not check
    Earliest,   \* the first instant chrono has
    Horizon,    \* bound on the clock
    Lags        \* how long after `due` a call may come (before: negative)

ASSUME LoopAssumption ==
    /\ Starts \subseteq Nat
    /\ Intervals \subseteq Interval
    /\ Minutes \subseteq Int
    /\ Earliest \in Int /\ Earliest <= 0
    /\ Horizon \in Nat
    /\ Lags \subseteq Int

VARIABLES
    pc,         \* where the call is
    step,       \* what the call adds: an interval, or minutes
    first,      \* the instant the form chose
    due,        \* the instant the call starts from
    now,        \* Utc::now(), read once at the start of the call
    new         \* new_dt

vars == <<pc, step, first, due, now, new>>

\* RepeatInterval::new turns an interval of zeros into none.
Steps ==
    [kind : {"interval"}, by : {ri \in Intervals : ~IsZero(ri)}]
        \cup [kind : {"minutes"}, by : Minutes]

Plus(date) ==
    IF step.kind = "minutes" THEN date + step.by ELSE AddInterval(date, step.by)

Panics == step.kind = "interval" /\ ~CanAdd(step.by)

\* Adding goes back in time.
Backwards == step.kind = "minutes" /\ step.by < 0

\* Adding makes no headway.
Idles ==
    IF step.kind = "minutes" THEN step.by = 0 ELSE Cancels(step.by)

Init ==
    /\ pc = "idle"
    /\ step \in Steps
    /\ first \in Starts
    /\ due = first
    /\ now = 0
    /\ new = first

\* A call comes early or late; advance_by_minutes' only for a notification
\* that is due.
Comes ==
    \E lag \in Lags :
        /\ step.kind = "minutes" => lag >= 0
        /\ due + lag \in now .. Horizon
        /\ now' = due + lag

\* The sum becomes new_dt; chrono panics when it has no such instant.
Add(date) ==
    IF Panics \/ Plus(date) < Earliest
    THEN pc' = "panicked" /\ new' = new
    ELSE pc' = "loop" /\ new' = Plus(date)

\* Seeded fault: a while loop, which need not add anything.
CallWithoutAdding ==
    /\ pc = "idle"
    /\ ~Panics
    /\ Comes
    /\ pc' = "loop"
    /\ new' = due
    /\ UNCHANGED <<step, first, due>>

\* new_dt starts one step after dt.
Call ==
    /\ pc = "idle"
    /\ Comes
    /\ Add(due)
    /\ UNCHANGED <<step, first, due>>

\* Seeded fault: the loop starts over from the current instant.
AgainFromNow ==
    /\ pc = "loop"
    /\ new < now
    /\ Add(now)
    /\ UNCHANGED <<step, first, due, now>>

\* Seeded fault: the loop adds to dt instead of new_dt.
AgainFromDue ==
    /\ pc = "loop"
    /\ new < now
    /\ Add(due)
    /\ UNCHANGED <<step, first, due, now>>

Again ==
    /\ pc = "loop"
    /\ new < now
    /\ Add(new)
    /\ UNCHANGED <<step, first, due, now>>

Return ==
    /\ pc = "loop"
    /\ new >= now
    /\ pc' = "returned"
    /\ UNCHANGED <<step, first, due, now, new>>

\* The caller stores the result; the schedule goes on from there.
Store ==
    /\ pc = "returned"
    /\ new < Horizon
    /\ pc' = "idle"
    /\ due' = new
    /\ UNCHANGED <<step, first, now, new>>

Next == Call \/ Again \/ Return \/ Store

Spec == Init /\ [][Next]_vars

\* A call runs to its end: nothing suspends the loop.
FairSpec == Spec /\ WF_vars(Again \/ Return)

-----------------------------------------------------------------------------
\* The least number of days two occurrences are apart, when they go forward.
Shortest ==
    IF step.kind = "minutes" THEN step.by ELSE 28 * step.by.months + NetDays(step.by)

\* The occurrences a form defines, were each of them taken on time.
Series[k \in Nat] == IF k = 0 THEN first ELSE Plus(Series[k - 1])

\* As many of them as can matter to `new`.
Occurrences == {Series[k] : k \in 0 .. (new - first) \div Shortest}

\* However late each call came, the result is an occurrence of the original
\* schedule: the first one after `due` that is not in the past.  None that is
\* still to come is skipped, and lateness shifts nothing.
ReturnsNextOccurrence ==
    pc = "returned" /\ ~Idles =>
        /\ new \in Occurrences
        /\ new > due
        /\ new >= now
        /\ \A date \in Occurrences : date > due /\ date >= now => new <= date

\* For a step of fixed length the loop computes the closed form that
\* Reminders uses.
ComputesAdvance ==
    LET delta == IF step.kind = "minutes" THEN step.by ELSE NetDays(step.by) IN
    pc = "returned" /\ ~Idles /\ (step.kind = "minutes" \/ step.by.months = 0)
        => new = Advance(due, delta, now)

\* Every call ends, with a panic at the beginning of time if what it adds is
\* negative, unless what it adds sums up to nothing.
CallEnds == pc = "loop" ~> pc # "loop" \/ (Idles /\ new < now)

=============================================================================
