------------------------------ MODULE Reminders ------------------------------
(***************************************************************************)
(* The task and reminder store of launchpad (src/packages/launchpad).      *)
(*                                                                         *)
(* Two programs share one PostgreSQL database at READ COMMITTED:           *)
(*   - `launchpad serve`, whose HTTP handlers run concurrently; a handler  *)
(*     that spans several statements occupies a slot of `web`;             *)
(*   - `launchpad process-reminders`, a oneshot unit started by a timer:   *)
(*     at most one run at a time, held in `job`.                           *)
(* A transaction's writes are kept in its slot and reach `task` and        *)
(* `reminder` when it commits; the row locks it holds until then are       *)
(* functions of its program counter (LocksTask, LocksReminder).  A handler *)
(* of one statement is one atomic action that waits for those locks.       *)
(* Titles, tags, created_at and updated_at are not kept.                   *)
(***************************************************************************)
EXTENDS Schedule, FiniteSets

CONSTANTS
    TaskId,         \* identifiers the tasks table can hand out (a bound)
    ReminderId,     \* identifiers the reminders table can hand out (a bound)
    Web,            \* slots for multi-statement HTTP handlers
    NULL,           \* SQL NULL
    Periods,        \* repeat intervals a form may submit, or NULL; none is
                    \* refused, one that sums up to nothing or less included
    Snoozes,        \* minutes a form may submit: nor is any of these
    Horizon,        \* bound on the clock and on the instants users choose
    MaxFaults,      \* bound on crashes and failed deliveries of the job
    SerialToggles   \* TRUE: a task is toggled from one page at a time

ASSUME NullAssumption ==
    NULL \notin TaskId \cup ReminderId \cup Int

ASSUME InputAssumption ==
    /\ Periods \subseteq Int \cup {NULL}
    /\ Snoozes \subseteq Int
    /\ Horizon \in Nat
    /\ MaxFaults \in Nat \ {0}
    /\ SerialToggles \in BOOLEAN

VARIABLES
    now,        \* the clock both programs and the database read
    task,       \* the tasks table, as committed
    reminder,   \* the reminders table, as committed
    web,        \* the multi-statement HTTP handlers in progress
    job,        \* the process-reminders run in progress
    reached,    \* history: tasks whose POST got to ntfy.sh, or snoozed
    owed,       \* history: tasks delivered and not yet postponed since
    faults      \* crashes and failed deliveries so far

vars == <<now, task, reminder, web, job, reached, owed, faults>>

-----------------------------------------------------------------------------
(* Rows and slots. *)

\* completed_at IS NULL is "open"; a row not yet inserted is "unused".
Tasks ==
    [state    : {"unused", "open", "done", "deleted"},
     reminder : ReminderId \cup {NULL},
     notify   : Nat \cup {NULL}]

Reminders ==
    [state   : {"unused", "pending", "firing", "completed", "deleted"},
     due     : Nat,
     snooze  : Int,
     repeat  : Int \cup {NULL},
     current : TaskId \cup {NULL}]

\* What a handler remembers: of a toggle, the reminder_id it read and the
\* remind_at it will write (NULL for a reminder that does not repeat).
\* "looping": advance_by or advance_by_minutes never returns.
Handlers ==
    [pc       : {"idle", "read", "marked", "got", "looping", "erasing", "dropping"},
     task     : TaskId \cup {NULL},
     reminder : ReminderId \cup {NULL},
     due      : Nat \cup {NULL}]

\* A row returned by list_pending_notifications.
Listed == [task : TaskId, reminder : ReminderId, notify : Nat]

NoListed == [task |-> NULL, reminder |-> NULL, notify |-> NULL]

Jobs ==
    [pc       : {"idle", "firing", "listing", "notifying", "sent", "got", "looping"},
     todo     : SUBSET ReminderId,
     made     : [ReminderId -> TaskId \cup {NULL}],
     at       : Nat,
     queue    : SUBSET Listed,
     row      : Listed \cup {NoListed},
     postpone : Nat]

TypeOK ==
    /\ now \in Nat
    /\ task \in [TaskId -> Tasks]
    /\ reminder \in [ReminderId -> Reminders]
    /\ web \in [Web -> Handlers]
    /\ job \in Jobs
    /\ reached \subseteq TaskId
    /\ owed \subseteq TaskId
    /\ faults \in Nat

LiveTask(t) == task[t].state \in {"open", "done"}

LiveReminder(r) == reminder[r].state \in {"pending", "firing", "completed"}

\* Identity columns hand out each value once; a value a rolled back insert
\* consumed was seen by nobody and stays available here.
FreshTasks ==
    {t \in TaskId : task[t].state = "unused"
                    /\ \A r \in ReminderId : job.made[r] # t}

IdleHandler == [pc |-> "idle", task |-> NULL, reminder |-> NULL, due |-> NULL]

IdleJob ==
    [pc       |-> "idle",
     todo     |-> {},
     made     |-> [r \in ReminderId |-> NULL],
     at       |-> 0,
     queue    |-> {},
     row      |-> NoListed,
     postpone |-> 0]

-----------------------------------------------------------------------------
(* Row locks, as PostgreSQL takes them for these statements. *)

LocksTask(w, t) ==
    /\ web[w].task = t
    /\ web[w].pc \in {"marked", "got", "looping", "erasing"}

\* The job locks a reminder from the insert of its task (FOR KEY SHARE, then
\* the UPDATE) to the commit; a DELETE locks it while the cascade waits.
LocksReminder(w, r) ==
    /\ web[w].reminder = r
    /\ web[w].pc = "dropping"

TaskFree(t) == \A w \in Web : ~LocksTask(w, t)

ReminderFree(r) ==
    /\ \A w \in Web : ~LocksReminder(w, r)
    /\ job.made[r] = NULL

\* A handler that can go no further without the lock of reminder r.
WantsReminder(w, r) ==
    \/ web[w].pc = "got" /\ web[w].reminder = r
    \/ web[w].pc = "erasing" /\ reminder[r].current = web[w].task

\* The rows ON DELETE SET NULL updates when reminder r is deleted.
TasksOf(r) == {t \in TaskId : LiveTask(t) /\ task[t].reminder = r}

-----------------------------------------------------------------------------
Init ==
    /\ now = 0
    /\ task = [t \in TaskId |->
                 [state |-> "unused", reminder |-> NULL, notify |-> NULL]]
    /\ reminder = [r \in ReminderId |->
                     [state |-> "unused", due |-> 0, snooze |-> 0,
                      repeat |-> NULL, current |-> NULL]]
    /\ web = [w \in Web |-> IdleHandler]
    /\ job = IdleJob
    /\ reached = {}
    /\ owed = {}
    /\ faults = 0

Tick ==
    /\ now < Horizon
    /\ now' = now + 1
    /\ UNCHANGED <<task, reminder, web, job, reached, owed, faults>>

-----------------------------------------------------------------------------
(* advance_by and advance_by_minutes: an interval that sums up to nothing    *)
(* is added for ever to an instant that is past.  With a negative one, chrono *)
(* panics: of a repeat interval at once, of minutes when `from`, which is not *)
(* in the future, has run backwards out of its range.                        *)

Endless(from, delta) == delta = 0 /\ from < now

AdvanceFrom(from, delta) == IF delta = 0 THEN from ELSE Advance(from, delta, now)

-----------------------------------------------------------------------------
(* HTTP handlers of one statement. *)

\* POST /tasks.  Some identifiers are left for the reminders being fired.
CreateTask(t) ==
    /\ t \in FreshTasks
    /\ Cardinality(FreshTasks) > Cardinality(job.todo)
    /\ task' = [task EXCEPT ![t].state = "open"]
    /\ UNCHANGED <<now, reminder, web, job, reached, owed, faults>>

\* POST /reminders.
CreateReminder(r, due, snooze, repeat) ==
    /\ reminder[r].state = "unused"
    /\ reminder' = [reminder EXCEPT
                      ![r] = [state |-> "pending", due |-> due,
                              snooze |-> snooze, repeat |-> repeat,
                              current |-> NULL]]
    /\ UNCHANGED <<now, task, web, job, reached, owed, faults>>

\* PUT /reminders/{id}: the state and the current task stay as they are.
UpdateReminder(r, due, snooze, repeat) ==
    /\ LiveReminder(r)
    /\ ReminderFree(r)
    /\ reminder' = [reminder EXCEPT ![r].due = due,
                                    ![r].snooze = snooze,
                                    ![r].repeat = repeat]
    /\ UNCHANGED <<now, task, web, job, reached, owed, faults>>

\* POST /tasks/{id}/snooze: notify_at + minutes, which leaves NULL NULL.
\* The instant is bounded by the clock's start and the horizon.
SnoozeTask(t, minutes) ==
    /\ LiveTask(t)
    /\ TaskFree(t)
    /\ task[t].notify # NULL
    /\ task[t].notify + minutes \in 0 .. Horizon
    /\ task' = [task EXCEPT ![t].notify = @ + minutes]
    /\ reached' = reached \cup {t}
    /\ owed' = owed \ {t}
    /\ UNCHANGED <<now, reminder, web, job, faults>>

-----------------------------------------------------------------------------
(* POST /tasks/{id}/toggle: a transaction of up to four statements. *)

Toggling(w, t) ==
    web[w].pc \in {"read", "marked", "got", "looping"} /\ web[w].task = t

\* Seeded fault: a completed task is always uncompleted as a simple one.
ToggleReadUnguarded(w, t) ==
    /\ web[w].pc = "idle"
    /\ SerialToggles => \A v \in Web : ~Toggling(v, t)
    /\ LiveTask(t)
    /\ web' = [web EXCEPT ![w] = [IdleHandler EXCEPT
                                    !.pc = "read", !.task = t,
                                    !.reminder = IF task[t].state = "done" THEN NULL
                                                 ELSE task[t].reminder]]
    /\ UNCHANGED <<now, task, reminder, job, reached, owed, faults>>

\* SELECT the task.  A missing row, and a completed task that belongs to a
\* reminder ("cannot uncomplete an already completed reminder"), end the
\* request with an error and no change.
ToggleRead(w, t) ==
    /\ web[w].pc = "idle"
    /\ SerialToggles => \A v \in Web : ~Toggling(v, t)
    /\ LiveTask(t)
    /\ task[t].reminder # NULL => task[t].state = "open"
    /\ web' = [web EXCEPT ![w] = [IdleHandler EXCEPT
                                    !.pc = "read", !.task = t,
                                    !.reminder = task[t].reminder]]
    /\ UNCHANGED <<now, task, reminder, job, reached, owed, faults>>

\* toggle_simple_task: the UPDATE negates the value it finds, then COMMIT.
ToggleSimple(w) ==
    LET t == web[w].task IN
    /\ web[w].pc = "read"
    /\ web[w].reminder = NULL
    /\ TaskFree(t)
    /\ task' = [task EXCEPT
                  ![t].state = CASE @ = "open" -> "done"
                                 [] @ = "done" -> "open"
                                 [] OTHER -> @]
    /\ web' = [web EXCEPT ![w] = IdleHandler]
    /\ UNCHANGED <<now, reminder, job, reached, owed, faults>>

\* toggle_reminder_task: UPDATE tasks SET completed_at, which fails when the
\* row is gone and otherwise holds its lock.
ToggleMark(w) ==
    LET t == web[w].task IN
    /\ web[w].pc = "read"
    /\ web[w].reminder # NULL
    /\ TaskFree(t)
    /\ web' = [web EXCEPT ![w] = IF LiveTask(t) THEN [@ EXCEPT !.pc = "marked"]
                                                ELSE IdleHandler]
    /\ UNCHANGED <<now, task, reminder, job, reached, owed, faults>>

\* What is left of the toggle that has read the reminder's row.
Completing(w, row) ==
    CASE row.repeat = NULL -> [web[w] EXCEPT !.pc = "got"]
      [] row.repeat # NULL /\ row.repeat < 0 -> IdleHandler
      [] row.repeat # NULL /\ Endless(row.due, row.repeat) ->
            [web[w] EXCEPT !.pc = "looping"]
      [] OTHER ->
            [web[w] EXCEPT !.pc = "got", !.due = AdvanceFrom(row.due, row.repeat)]

\* Seeded fault: the handler retries until the reminder is there.
ToggleGetRetrying(w) ==
    LET r == web[w].reminder IN
    /\ web[w].pc = "marked"
    /\ LiveReminder(r)
    /\ web' = [web EXCEPT ![w] = Completing(w, reminder[r])]
    /\ UNCHANGED <<now, task, reminder, job, reached, owed, faults>>

\* Reminder::complete, first half: SELECT the reminder (an error when it is
\* gone rolls everything back, and so does a panic) and compute the next
\* remind_at.
ToggleGet(w) ==
    LET r == web[w].reminder IN
    /\ web[w].pc = "marked"
    /\ web' = [web EXCEPT ![w] = IF LiveReminder(r) THEN Completing(w, reminder[r])
                                 ELSE IdleHandler]
    /\ UNCHANGED <<now, task, reminder, job, reached, owed, faults>>

\* Reminder::complete, second half, and COMMIT: the UPDATE of the reminder
\* waits for its lock; both writes become visible together.
ToggleCommit(w) ==
    LET t == web[w].task
        r == web[w].reminder
        due == web[w].due IN
    /\ web[w].pc = "got"
    /\ ReminderFree(r)
    /\ task' = [task EXCEPT ![t].state = "done"]
    /\ reminder' = [reminder EXCEPT
                      ![r] = IF due = NULL
                             THEN [@ EXCEPT !.state = "completed"]
                             ELSE [@ EXCEPT !.state = "pending", !.due = due]]
    /\ web' = [web EXCEPT ![w] = IdleHandler]
    /\ UNCHANGED <<now, job, reached, owed, faults>>

-----------------------------------------------------------------------------
(* DELETE /tasks/{id} and DELETE /reminders/{id}: one statement each, whose *)
(* ON DELETE SET NULL cascade may have to wait while the row is locked.     *)

EraseTask(w, t) ==
    /\ web[w].pc = "idle"
    /\ LiveTask(t)
    /\ TaskFree(t)
    /\ web' = [web EXCEPT ![w] = [IdleHandler EXCEPT !.pc = "erasing", !.task = t]]
    /\ UNCHANGED <<now, task, reminder, job, reached, owed, faults>>

\* Seeded fault: current_task_id is left dangling, as without the foreign key.
EraseCommitDangling(w) ==
    /\ web[w].pc = "erasing"
    /\ task' = [task EXCEPT
                  ![web[w].task] =
                     [state |-> "deleted", reminder |-> NULL, notify |-> NULL]]
    /\ web' = [web EXCEPT ![w] = IdleHandler]
    /\ UNCHANGED <<now, reminder, job, reached, owed, faults>>

EraseCommit(w) ==
    LET t == web[w].task
        firing == {r \in ReminderId : LiveReminder(r) /\ reminder[r].current = t} IN
    /\ web[w].pc = "erasing"
    /\ \A r \in firing : ReminderFree(r)
    /\ task' = [task EXCEPT
                  ![t] = [state |-> "deleted", reminder |-> NULL, notify |-> NULL]]
    /\ reminder' = [r \in ReminderId |->
                      IF r \in firing THEN [reminder[r] EXCEPT !.current = NULL]
                                      ELSE reminder[r]]
    /\ web' = [web EXCEPT ![w] = IdleHandler]
    /\ UNCHANGED <<now, job, reached, owed, faults>>

DropReminder(w, r) ==
    /\ web[w].pc = "idle"
    /\ LiveReminder(r)
    /\ ReminderFree(r)
    /\ web' = [web EXCEPT ![w] = [IdleHandler EXCEPT !.pc = "dropping", !.reminder = r]]
    /\ UNCHANGED <<now, task, reminder, job, reached, owed, faults>>

DropCommit(w) ==
    LET r == web[w].reminder IN
    /\ web[w].pc = "dropping"
    /\ \A t \in TasksOf(r) : TaskFree(t)
    /\ reminder' = [reminder EXCEPT
                      ![r] = [state |-> "deleted", due |-> 0, snooze |-> 0,
                              repeat |-> NULL, current |-> NULL]]
    /\ task' = [t \in TaskId |->
                  IF t \in TasksOf(r) THEN [task[t] EXCEPT !.reminder = NULL]
                                      ELSE task[t]]
    /\ web' = [web EXCEPT ![w] = IdleHandler]
    /\ UNCHANGED <<now, job, reached, owed, faults>>

\* A dropped connection or a crash of the server: the transaction rolls back.
WebAbort(w) ==
    /\ web[w].pc # "idle"
    /\ web' = [web EXCEPT ![w] = IdleHandler]
    /\ UNCHANGED <<now, task, reminder, job, reached, owed, faults>>

\* v deletes a reminder and waits for a task that w holds, while w waits for
\* the reminder: PostgreSQL aborts one of the two after deadlock_timeout.
Deadlocked(v, w) ==
    LET r == web[v].reminder IN
    /\ web[v].pc = "dropping"
    /\ WantsReminder(w, r)
    /\ \E t \in TasksOf(r) : LocksTask(w, t)

BreakDeadlock(v, w) ==
    /\ Deadlocked(v, w)
    /\ \E victim \in {v, w} : web' = [web EXCEPT ![victim] = IdleHandler]
    /\ UNCHANGED <<now, task, reminder, job, reached, owed, faults>>

-----------------------------------------------------------------------------
(* launchpad process-reminders: Reminder::process_outstanding. *)

\* Seeded fault: WHERE remind_at <= current_timestamp, in any state.
OutstandingInAnyState ==
    {r \in ReminderId : LiveReminder(r) /\ reminder[r].due <= now}

Outstanding ==
    {r \in ReminderId : reminder[r].state = "pending" /\ reminder[r].due <= now}

\* Seeded fault: WHERE remind_at < current_timestamp.
JobStartStrictly ==
    /\ job.pc = "idle"
    /\ job' = [IdleJob EXCEPT
                 !.pc = "firing",
                 !.at = now,
                 !.todo = {r \in Outstanding : reminder[r].due < now}]
    /\ UNCHANGED <<now, task, reminder, web, reached, owed, faults>>

\* BEGIN, list_outstanding, and the instant every new task is notified at.
\* When too few task identifiers are left the run fires nothing (a bound).
JobStart ==
    /\ job.pc = "idle"
    /\ job' = [IdleJob EXCEPT
                 !.pc = "firing",
                 !.at = now,
                 !.todo = IF Cardinality(Outstanding) <= Cardinality(FreshTasks)
                          THEN Outstanding ELSE {}]
    /\ UNCHANGED <<now, task, reminder, web, reached, owed, faults>>

\* Seeded fault: no foreign key, so a deleted reminder is fired all the same.
JobFireUnchecked(r) ==
    /\ job.pc = "firing"
    /\ r \in job.todo
    /\ \E t \in FreshTasks : job' = [job EXCEPT !.todo = @ \ {r}, !.made[r] = t]
    /\ UNCHANGED <<now, task, reminder, web, reached, owed, faults>>

\* Task::insert and set_current_task for one reminder of the list.  The
\* foreign key refuses a reminder deleted since, and the run ends.
JobFire(r) ==
    /\ job.pc = "firing"
    /\ r \in job.todo
    /\ IF LiveReminder(r)
       THEN /\ ReminderFree(r)
            /\ \E t \in FreshTasks :
                 job' = [job EXCEPT !.todo = @ \ {r}, !.made[r] = t]
       ELSE job' = IdleJob
    /\ UNCHANGED <<now, task, reminder, web, reached, owed, faults>>

\* COMMIT: every listed reminder is firing, with its new task as current one.
JobCommit ==
    /\ job.pc = "firing"
    /\ job.todo = {}
    /\ task' = [t \in TaskId |->
                  IF \E r \in ReminderId : job.made[r] = t
                  THEN [state    |-> "open",
                        reminder |-> CHOOSE r \in ReminderId : job.made[r] = t,
                        notify   |-> job.at]
                  ELSE task[t]]
    /\ reminder' = [r \in ReminderId |->
                      IF job.made[r] # NULL
                      THEN [reminder[r] EXCEPT !.state = "firing",
                                               !.current = job.made[r]]
                      ELSE reminder[r]]
    /\ job' = [IdleJob EXCEPT !.pc = "listing"]
    /\ UNCHANGED <<now, web, reached, owed, faults>>

DueForNotice(t) ==
    /\ task[t].state = "open"
    /\ task[t].reminder # NULL
    /\ task[t].notify # NULL
    /\ task[t].notify <= now

\* process_pending_notifications reads its rows once, outside a transaction.
JobList ==
    /\ job.pc = "listing"
    /\ job' = [job EXCEPT
                 !.pc = "notifying",
                 !.queue = {[task |-> t, reminder |-> task[t].reminder,
                             notify |-> task[t].notify] :
                              t \in {u \in TaskId : DueForNotice(u)}}]
    /\ UNCHANGED <<now, task, reminder, web, reached, owed, faults>>

\* Seeded fault: the task is not snoozed after the notification.
JobSendOnly(row) ==
    /\ job.pc = "notifying"
    /\ row \in job.queue
    /\ job' = [job EXCEPT !.queue = @ \ {row}]
    /\ reached' = reached \cup {row.task}
    /\ owed' = owed \cup {row.task}
    /\ UNCHANGED <<now, task, reminder, web, faults>>

\* send_notification: ntfy.sh accepts the POST.
JobSend(row) ==
    /\ job.pc = "notifying"
    /\ row \in job.queue
    /\ job' = [job EXCEPT !.pc = "sent", !.queue = @ \ {row}, !.row = row]
    /\ reached' = reached \cup {row.task}
    /\ owed' = owed \cup {row.task}
    /\ UNCHANGED <<now, task, reminder, web, faults>>

\* ntfy.sh answers the POST with an HTTP error.  send_notification does not look
\* at the status, and the run goes on as if the user had been notified.
JobRefused(row) ==
    /\ job.pc = "notifying"
    /\ row \in job.queue
    /\ faults < MaxFaults
    /\ faults' = faults + 1
    /\ job' = [job EXCEPT !.pc = "sent", !.queue = @ \ {row}, !.row = row]
    /\ reached' = reached \cup {row.task}
    /\ UNCHANGED <<now, task, reminder, web, owed>>

\* Seeded fault: the error is logged and the task is snoozed all the same.
JobSendFailureIgnored(row) ==
    /\ job.pc = "notifying"
    /\ row \in job.queue
    /\ faults < MaxFaults
    /\ faults' = faults + 1
    /\ job' = [job EXCEPT !.pc = "sent", !.queue = @ \ {row}, !.row = row]
    /\ UNCHANGED <<now, task, reminder, web, reached, owed>>

\* The POST gets no answer, before or after the message got through: `?` ends
\* the run and what is left of the list waits for the next one.
JobSendFails(row) ==
    /\ job.pc = "notifying"
    /\ row \in job.queue
    /\ faults < MaxFaults
    /\ faults' = faults + 1
    /\ job' = IdleJob
    /\ \E got \in {{}, {row.task}} : reached' = reached \cup got /\ owed' = owed \cup got
    /\ UNCHANGED <<now, task, reminder, web>>

\* auto_snooze: SELECT the reminder, an error when it is gone; the new
\* notify_at is computed from the one listed at the start of the run.  A panic
\* is a crash, but happens however many there were.
JobGet ==
    LET r == job.row.reminder
        snooze == reminder[r].snooze IN
    /\ job.pc = "sent"
    /\ job' = CASE ~LiveReminder(r) \/ snooze < 0 -> IdleJob
                [] LiveReminder(r) /\ Endless(job.row.notify, snooze) ->
                      [job EXCEPT !.pc = "looping"]
                [] OTHER -> [job EXCEPT !.pc = "got",
                                        !.postpone = AdvanceFrom(job.row.notify, snooze)]
    /\ faults' = IF LiveReminder(r) /\ snooze < 0 /\ faults = 0 THEN 1 ELSE faults
    /\ UNCHANGED <<now, task, reminder, web, reached, owed>>

\* Seeded fault: the task is not notified of again, as if it were a one-off.
JobPostponeCleared ==
    LET t == job.row.task IN
    /\ job.pc = "got"
    /\ TaskFree(t)
    /\ task' = IF LiveTask(t) THEN [task EXCEPT ![t].notify = NULL] ELSE task
    /\ owed' = owed \ {t}
    /\ job' = [job EXCEPT !.pc = "notifying", !.row = NoListed, !.postpone = 0]
    /\ UNCHANGED <<now, reminder, web, reached, faults>>

\* auto_snooze: UPDATE tasks SET notify_at by identifier, whatever the row
\* has become; no row is an update of nothing.
JobPostpone ==
    LET t == job.row.task IN
    /\ job.pc = "got"
    /\ TaskFree(t)
    /\ task' = IF LiveTask(t) THEN [task EXCEPT ![t].notify = job.postpone] ELSE task
    /\ owed' = owed \ {t}
    /\ job' = [job EXCEPT !.pc = "notifying", !.row = NoListed, !.postpone = 0]
    /\ UNCHANGED <<now, reminder, web, reached, faults>>

JobEnd ==
    /\ job.pc = "notifying"
    /\ job.queue = {}
    /\ job' = IdleJob
    /\ UNCHANGED <<now, task, reminder, web, reached, owed, faults>>

\* The process dies, or a statement fails: an open transaction rolls back,
\* and the timer starts the next run.
JobCrash ==
    /\ job.pc # "idle"
    /\ faults < MaxFaults
    /\ faults' = faults + 1
    /\ job' = IdleJob
    /\ UNCHANGED <<now, task, reminder, web, reached, owed>>

-----------------------------------------------------------------------------
WebStep(w) ==
    \/ ToggleSimple(w)
    \/ ToggleMark(w)
    \/ ToggleGet(w)
    \/ ToggleCommit(w)
    \/ EraseCommit(w)
    \/ DropCommit(w)

WebNext ==
    \/ \E t \in TaskId : CreateTask(t)
    \/ \E t \in TaskId, m \in Snoozes : SnoozeTask(t, m)
    \/ \E r \in ReminderId, due \in 0 .. Horizon, s \in Snoozes, p \in Periods :
         CreateReminder(r, due, s, p) \/ UpdateReminder(r, due, s, p)
    \/ \E w \in Web, t \in TaskId : ToggleRead(w, t) \/ EraseTask(w, t)
    \/ \E w \in Web, r \in ReminderId : DropReminder(w, r)
    \/ \E w \in Web : WebStep(w) \/ WebAbort(w)
    \/ \E v, w \in Web : BreakDeadlock(v, w)

\* What a run does as long as nothing fails.
JobStep ==
    \/ JobStart
    \/ \E r \in ReminderId : JobFire(r)
    \/ JobCommit
    \/ JobList
    \/ \E row \in job.queue : JobSend(row)
    \/ JobGet
    \/ JobPostpone
    \/ JobEnd

JobFails ==
    \/ \E row \in job.queue : JobRefused(row) \/ JobSendFails(row)
    \/ JobCrash

Next == Tick \/ WebNext \/ JobStep \/ JobFails

Spec == Init /\ [][Next]_vars

\* The timer starts a run every five minutes and nothing but a fault stops
\* it; a handler keeps running until it ends; PostgreSQL queues the waiters
\* of a row lock in order of arrival, so a wait for a lock that is released
\* again and again ends (strong fairness of the steps that wait); and time
\* goes on.
Fairness ==
    /\ WF_vars(Tick)
    /\ WF_vars(JobStep)
    /\ \A r \in ReminderId : SF_vars(JobFire(r))
    /\ SF_vars(JobPostpone)
    /\ \A w \in Web : SF_vars(WebStep(w))
    /\ \A v, w \in Web : WF_vars(BreakDeadlock(v, w))

FairSpec == Spec /\ Fairness

-----------------------------------------------------------------------------
(* Safety. *)

OpenTasks(r) ==
    {t \in TaskId : task[t].state = "open" /\ task[t].reminder = r}

\* An open task of a reminder is the current task of that reminder, which is
\* firing; hence a reminder never has two open tasks, and none while it waits
\* for its next occurrence (process_outstanding, Reminder::complete).
OpenTaskIsCurrent ==
    \A r \in ReminderId : \A t \in OpenTasks(r) :
        reminder[r].state = "firing" /\ reminder[r].current = t

\* Conversely a firing reminder can be completed: its current task is open
\* and its own, unless that task was deleted under it.
FiringHasOpenTask ==
    \A r \in ReminderId :
        reminder[r].state = "firing" /\ reminder[r].current # NULL
            => reminder[r].current \in OpenTasks(r)

\* The task of an occurrence is due for its first notification until a POST for
\* it got to ntfy.sh, or the user snoozed it: no crash, and no POST without an
\* answer, puts it off.  An HTTP error does, since nobody looks at the status.
NoSilentPostponement ==
    \A t \in TaskId :
        task[t].state = "open" /\ task[t].reminder # NULL /\ t \notin reached
            => task[t].notify # NULL /\ task[t].notify <= now

\* A delivered task that is still waiting to be postponed is the one the run
\* is busy with, unless a fault cut a run short, a panic over a negative snooze
\* included: otherwise whatever is delivered is put off before the next run (by
\* nothing, if its snooze is of no minutes).
RepeatsOnlyAfterFault ==
    faults = 0 =>
        \A t \in owed :
            task[t].state = "open" /\ task[t].reminder # NULL
                => job.pc \in {"sent", "got", "looping"} /\ job.row.task = t

\* The completed task of a reminder stays completed for as long as it belongs
\* to the reminder ("cannot uncomplete an already completed reminder").
CompletedStaysCompleted ==
    [][\A t \in TaskId :
         task[t].state = "done" /\ task[t].reminder # NULL
           => task'[t].state # "open"]_vars

\* What the same guard of toggle_reminder_task says of the reminder: a toggle
\* of a task that is already completed leaves its reminder alone.
CompletedToggleRefused ==
    [][\A w \in Web :
         web[w].pc = "got" /\ web'[w].pc = "idle"
             /\ task[web[w].task].state = "done"
           => UNCHANGED reminder]_vars

-----------------------------------------------------------------------------
(* The abstract specification this one implements when SerialToggles holds. *)

Phases ==
    [r \in ReminderId |->
       IF reminder[r].state = "firing" /\ reminder[r].current = NULL
       THEN "stuck" ELSE reminder[r].state]

Lifecycle == INSTANCE ReminderLifecycle WITH phase <- Phases

\* Every occurrence of a reminder fires once and is completed once, whatever
\* the handlers and the job do to each other (process_outstanding, toggle,
\* delete and the ON DELETE SET NULL cascades).
ImplementsLifecycle == Lifecycle!Spec

-----------------------------------------------------------------------------
(* What makes the safety properties inductive: what a handler or a run      *)
(* remembers still agrees with the tables, thanks to the locks it holds.    *)

\* Rows not inserted yet, and rows deleted, belong to no reminder.
AbsentRowsUnlinked ==
    \A t \in TaskId : ~LiveTask(t) => task[t].reminder = NULL

\* A handler or a run that acts on a row knows which one.
SlotsFilled ==
    /\ \A w \in Web :
         /\ web[w].pc \in {"read", "marked", "got", "looping", "erasing"}
              => web[w].task \in TaskId
         /\ web[w].pc \in {"marked", "got", "looping", "dropping"}
              => web[w].reminder \in ReminderId
    /\ job.pc \in {"sent", "got", "looping"} => job.row \in Listed

\* The row a handler acts on has been inserted, and the row a toggle acts on
\* has the reminder_id it read or has lost it since: none is given another.
ToggleReadsHold ==
    \A w \in Web :
        /\ web[w].pc \in {"read", "marked", "got", "looping", "erasing"}
             => task[web[w].task].state # "unused"
        /\ web[w].pc \in {"read", "marked", "got", "looping"}
             => task[web[w].task].reminder \in {NULL, web[w].reminder}

\* The rows the job's transaction inserts are its own until it commits.
MadeTasksReserved ==
    /\ \A r \in ReminderId :
          job.made[r] # NULL => task[job.made[r]].state = "unused"
    /\ \A q, r \in ReminderId :
          job.made[q] # NULL /\ job.made[q] = job.made[r] => q = r

\* A row is locked by one transaction at a time, and a reminder locked by a
\* DELETE is there until the DELETE commits.
LocksExclusive ==
    /\ \A v, w \in Web, t \in TaskId : LocksTask(v, t) /\ LocksTask(w, t) => v = w
    /\ \A v, w \in Web, r \in ReminderId :
          LocksReminder(v, r) /\ LocksReminder(w, r) => v = w
    /\ \A w \in Web, r \in ReminderId :
          LocksReminder(w, r) => job.made[r] = NULL /\ LiveReminder(r)

\* A reminder the run is firing is still pending, or was deleted before the
\* run locked it.
FiringReadsHold ==
    /\ \A r \in job.todo : reminder[r].state \in {"pending", "deleted"}
    /\ \A r \in ReminderId : job.made[r] # NULL => reminder[r].state = "pending"

\* The task a handler is completing is open and, while the reminder exists,
\* still belongs to it; no two handlers complete the same one.
CompletingOpenTask ==
    \A w \in Web :
        LET t == web[w].task
            r == web[w].reminder IN
        web[w].pc \in {"read", "marked", "got", "looping"} =>
            /\ \A v \in Web : Toggling(v, t) => v = w
            /\ r # NULL => task[t].state \in {"open", "deleted"}
            /\ r # NULL /\ LiveReminder(r) /\ task[t].state = "open"
                 => task[t].reminder = r
            /\ web[w].pc \in {"marked", "got", "looping"} => task[t].state = "open"
            /\ web[w].pc = "got" => LiveReminder(r)

\* Whoever refers to a reminder refers to one that was inserted: identifiers
\* are not handed out twice.
ReferencesInserted ==
    /\ \A t \in TaskId :
          task[t].reminder # NULL => reminder[task[t].reminder].state # "unused"
    /\ \A w \in Web :
          web[w].reminder # NULL => reminder[web[w].reminder].state # "unused"
    /\ \A r \in ReminderId : job.made[r] # NULL => reminder[r].state # "unused"

BookkeepingInv ==
    AbsentRowsUnlinked /\ ToggleReadsHold /\ MadeTasksReserved /\ ReferencesInserted

SerialInv ==
    /\ OpenTaskIsCurrent
    /\ FiringHasOpenTask
    /\ LocksExclusive
    /\ FiringReadsHold
    /\ CompletingOpenTask

\* What the run knows of the notification it is busy with.
NotifyingInv ==
    /\ job.at <= now
    /\ job.pc \in {"sent", "got", "looping"} => job.row.task \in reached

\* A listed row is a task's that was inserted, which has kept its reminder or
\* lost it since.
RowHolds(row) ==
    /\ task[row.task].state # "unused"
    /\ task[row.task].reminder \in {NULL, row.reminder}

DeliveryInv ==
    /\ \A t \in owed : task[t].state # "unused"
    /\ \A row \in job.queue : RowHolds(row)
    /\ job.pc \in {"sent", "got", "looping"} => RowHolds(job.row)
    /\ \A t \in TaskId : task[t].reminder # NULL => LiveReminder(task[t].reminder)

-----------------------------------------------------------------------------
(* Liveness, under FairSpec. *)

\* A handler, or the run, adds an interval of nothing for ever; a handler does
\* so with its task locked.
HandlerLoops == \E w \in Web : web[w].pc = "looping"

Hung == job.pc = "looping" \/ HandlerLoops

\* Unless task identifiers ran out (the bound of JobStart).
ReminderFires ==
    \A r \in ReminderId :
        r \in Outstanding
            ~> \/ r \notin Outstanding
               \/ Cardinality(Outstanding) > Cardinality(FreshTasks)
               \/ []Hung

\* No notification of t is to be expected: it is done or on its own, or put off
\* beyond the clock; or a reminder of rs makes every run panic, whose other
\* notifications it may precede.
Excused(t, rs) ==
    \/ task[t].state # "open" \/ task[t].reminder = NULL
    \/ task[t].notify # NULL /\ task[t].notify > Horizon
    \/ \E r \in rs : LiveReminder(r) /\ reminder[r].snooze < 0

\* A task due for a notification is notified, and a notified one put off, unless
\* the user puts it off again and again: no failing delivery, deleted reminder
\* or lock starves it.  After an HTTP error it waits for as long as if it had
\* been notified, and is then due again.
NoticeArrives ==
    \A t \in TaskId :
        \/ []<><<\E m \in Snoozes : SnoozeTask(t, m)>>_vars
        \/ /\ DueForNotice(t)
                 ~> t \in owed \/ Excused(t, ReminderId \ {task[t].reminder}) \/ []Hung
           /\ t \in owed ~> t \notin owed \/ Excused(t, ReminderId) \/ []Hung

\* Every handler ends: no wait for a row lock lasts.
HandlersEnd ==
    \A w \in Web : web[w].pc # "idle" ~> web[w].pc = "idle" \/ []HandlerLoops

=============================================================================
