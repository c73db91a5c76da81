---------------------------- MODULE RemindersProofs ----------------------------
(* Theorems about Reminders for every set of rows, slots and inputs. *)
EXTENDS Reminders, TLAPS

-----------------------------------------------------------------------------
(* Type correctness. *)

LEMMA AdvanceNat ==
    ASSUME NEW dt \in Nat, NEW delta \in Nat \ {0}, NEW at \in Nat
    PROVE  Advance(dt, delta, at) \in Nat
  <1>1. Advances(dt, delta, at) \in Nat
    <2>1. ASSUME dt + delta < at
          PROVE  (at - dt + delta - 1) \div delta \in Nat
      <3>1. at - dt + delta - 1 \in Nat
        BY <2>1
      <3>2. \A a \in Nat : a \div delta \in Nat
        OBVIOUS
      <3> QED BY <3>1, <3>2
    <2> QED BY <2>1 DEF Advances
  <1>2. Advances(dt, delta, at) * delta \in Nat
    BY <1>1
  <1> QED
    BY <1>2 DEF Advance

LEMMA AdvanceFromNat ==
    ASSUME now \in Nat, NEW from \in Nat, NEW delta \in Nat
    PROVE  AdvanceFrom(from, delta) \in Nat
  BY AdvanceNat DEF AdvanceFrom

LEMMA IdleTypes == IdleHandler \in Handlers /\ IdleJob \in Jobs
  BY DEF IdleHandler, Handlers, IdleJob, Jobs, NoListed

\* A row of the reminders table after the UPDATE of the form, and after each
\* of the two UPDATEs of Reminder::complete.
LEMMA EditedRow ==
    ASSUME NEW row \in Reminders, NEW d \in Nat, NEW s \in Int, NEW p \in Int \cup {NULL}
    PROVE  [row EXCEPT !.due = d, !.snooze = s, !.repeat = p] \in Reminders
  BY DEF Reminders

LEMMA CompletedRow ==
    ASSUME NEW row \in Reminders
    PROVE  /\ [row EXCEPT !.state = "completed"] \in Reminders
           /\ \A d \in Nat : [row EXCEPT !.state = "pending", !.due = d] \in Reminders
  BY DEF Reminders

\* A toggle that has read the reminder's row rolls back, or goes on with the
\* same task and reminder.
LEMMA CompletingEffect ==
    ASSUME TypeOK, NEW w \in Web, NEW row \in Reminders
    PROVE  /\ Completing(w, row) \in Handlers
           /\ \/ Completing(w, row) = IdleHandler
              \/ /\ Completing(w, row).pc \in {"got", "looping"}
                 /\ Completing(w, row).task = web[w].task
                 /\ Completing(w, row).reminder = web[w].reminder
  <1> USE NullAssumption DEF TypeOK
  <1> DEFINE h == Completing(w, row)
  <1>1. web[w] \in Handlers /\ row.due \in Nat /\ row.repeat \in Int \cup {NULL}
    BY DEF Reminders
  <1>2. CASE row.repeat = NULL
    <2>1. h = [web[w] EXCEPT !.pc = "got"]
      BY <1>2 DEF Completing
    <2> QED
      BY <1>1, <2>1 DEF Handlers
  <1>3. CASE row.repeat # NULL /\ row.repeat < 0
    <2>1. h = IdleHandler
      BY <1>3 DEF Completing, Endless
    <2> QED
      BY <2>1, IdleTypes
  <1>4. CASE row.repeat # NULL /\ ~(row.repeat < 0) /\ Endless(row.due, row.repeat)
    <2>1. h = [web[w] EXCEPT !.pc = "looping"]
      BY <1>4 DEF Completing
    <2> QED
      BY <1>1, <2>1 DEF Handlers
  <1>5. CASE row.repeat # NULL /\ ~(row.repeat < 0) /\ ~Endless(row.due, row.repeat)
    <2> DEFINE due == AdvanceFrom(row.due, row.repeat)
    <2>1. row.repeat \in Nat
      BY <1>1, <1>5
    <2>2. due \in Nat
      BY <1>1, <2>1, AdvanceFromNat
    <2>3. h = [web[w] EXCEPT !.pc = "got", !.due = due]
      BY <1>5 DEF Completing
    <2> HIDE DEF due
    <2> QED
      BY <1>1, <2>2, <2>3 DEF Handlers
  <1> QED
    BY <1>2, <1>3, <1>4, <1>5

\* auto_snooze's SELECT and computation: the run ends, of the deleted reminder
\* or of a fault, or goes on with the same row.
LEMMA JobGetEffect ==
    ASSUME TypeOK, SlotsFilled, JobGet
    PROVE  /\ UNCHANGED <<now, task, reminder, web, reached, owed>>
           /\ job.pc = "sent" /\ job.row \in Listed
           /\ job' \in Jobs /\ faults' \in Nat /\ (faults' = 0 => faults = 0)
           /\ \/ job' = IdleJob /\ (faults' = 0 => ~LiveReminder(job.row.reminder))
              \/ /\ job'.pc \in {"got", "looping"} /\ job'.at = job.at
                 /\ job'.row = job.row /\ job'.queue = job.queue
                 /\ job'.todo = job.todo /\ job'.made = job.made
  <1> USE DEF TypeOK
  <1> DEFINE r == job.row.reminder
             snooze == reminder[r].snooze
             postpone == AdvanceFrom(job.row.notify, snooze)
  <1>1. /\ UNCHANGED <<now, task, reminder, web, reached, owed>>
        /\ job.pc = "sent" /\ job.row \in Listed
    BY DEF JobGet, SlotsFilled
  <1>2. r \in ReminderId /\ job.row.notify \in Nat /\ snooze \in Int
    BY <1>1 DEF Listed, Reminders
  <1>3. faults' \in Nat /\ (faults' = 0 => faults = 0)
    BY DEF JobGet
  <1>4. CASE ~LiveReminder(r) \/ snooze < 0
    <2>1. job' = IdleJob
      BY <1>4 DEF JobGet, Endless
    <2>2. faults' = 0 => ~LiveReminder(r)
      BY <1>4 DEF JobGet
    <2> QED
      BY <1>1, <1>3, <2>1, <2>2, IdleTypes
  <1>5. CASE LiveReminder(r) /\ ~(snooze < 0) /\ Endless(job.row.notify, snooze)
    <2>1. job' = [job EXCEPT !.pc = "looping"]
      BY <1>5 DEF JobGet
    <2> QED
      BY <1>1, <1>3, <2>1 DEF Jobs
  <1>6. CASE LiveReminder(r) /\ ~(snooze < 0) /\ ~Endless(job.row.notify, snooze)
    <2>1. snooze \in Nat
      BY <1>2, <1>6
    <2>2. postpone \in Nat
      BY <1>2, <2>1, AdvanceFromNat
    <2>3. job' = [job EXCEPT !.pc = "got", !.postpone = postpone]
      BY <1>6 DEF JobGet
    <2> HIDE DEF postpone
    <2> QED
      BY <1>1, <1>3, <2>2, <2>3 DEF Jobs
  <1> QED
    BY <1>4, <1>5, <1>6

LEMMA InitTypes == Init => TypeOK /\ SlotsFilled
  BY IdleTypes
  DEF Init, TypeOK, SlotsFilled, Tasks, Reminders, IdleHandler, IdleJob

\* A step that changes what one handler remembers.
LEMMA HandlerTypes ==
    ASSUME TypeOK, SlotsFilled, NEW w \in Web, NEW h \in Handlers,
           h.pc \in {"read", "marked", "got", "looping", "erasing"} => h.task \in TaskId,
           h.pc \in {"marked", "got", "looping", "dropping"} => h.reminder \in ReminderId,
           web' = [web EXCEPT ![w] = h],
           UNCHANGED <<now, task, reminder, job, reached, owed, faults>>
    PROVE  TypeOK' /\ SlotsFilled'
  <1> USE DEF TypeOK, SlotsFilled
  <1>1. web' \in [Web -> Handlers] /\ \A v \in Web : web'[v] = IF v = w THEN h ELSE web[v]
    OBVIOUS
  <1>2. TypeOK'
    BY <1>1
  <1>3. SlotsFilled'
    BY <1>1
  <1> QED
    BY <1>2, <1>3

LEMMA NextTypes == TypeOK /\ SlotsFilled /\ [Next]_vars => TypeOK' /\ SlotsFilled'
  <1> SUFFICES ASSUME TypeOK, SlotsFilled, [Next]_vars
               PROVE  TypeOK' /\ SlotsFilled'
    OBVIOUS
  <1> USE NullAssumption, InputAssumption, IdleTypes DEF TypeOK, SlotsFilled
  <1>1. ASSUME Tick
        PROVE  TypeOK' /\ SlotsFilled'
    BY <1>1 DEF Tick, Tasks, Reminders, Handlers, Jobs, Listed, IdleHandler, IdleJob
  <1>2. ASSUME NEW t \in TaskId, CreateTask(t)
        PROVE  TypeOK' /\ SlotsFilled'
    BY <1>2 DEF CreateTask, Tasks, Reminders, Handlers, Jobs, Listed, IdleHandler, IdleJob
  <1>3. ASSUME NEW t \in TaskId, NEW m \in Snoozes, SnoozeTask(t, m)
        PROVE  TypeOK' /\ SlotsFilled'
    <2>1. task[t].notify + m \in Nat
      BY <1>3 DEF SnoozeTask, Tasks
    <2>2. task' \in [TaskId -> Tasks]
      BY <1>3, <2>1 DEF SnoozeTask, Tasks
    <2> QED
      BY <1>3, <2>2 DEF SnoozeTask
  <1>4. ASSUME NEW r \in ReminderId, NEW due \in 0 .. Horizon, NEW s \in Snoozes, NEW p \in Periods, CreateReminder(r, due, s, p)
        PROVE  TypeOK' /\ SlotsFilled'
    <2>1. reminder' \in [ReminderId -> Reminders]
      <3>1. due \in Nat /\ s \in Int /\ p \in Int \cup {NULL}
        OBVIOUS
      <3> QED
        BY <1>4, <3>1 DEF CreateReminder, Reminders
    <2> QED
      BY <1>4, <2>1 DEF CreateReminder
  <1>5. ASSUME NEW r \in ReminderId, NEW due \in 0 .. Horizon, NEW s \in Snoozes, NEW p \in Periods, UpdateReminder(r, due, s, p)
        PROVE  TypeOK' /\ SlotsFilled'
    <2>1. reminder' \in [ReminderId -> Reminders]
      <3>1. due \in Nat /\ s \in Int /\ p \in Int \cup {NULL}
        OBVIOUS
      <3>2. [reminder[r] EXCEPT !.due = due, !.snooze = s, !.repeat = p] \in Reminders
        BY <3>1, EditedRow
      <3>3. reminder' = [reminder EXCEPT ![r] = [reminder[r] EXCEPT
                           !.due = due, !.snooze = s, !.repeat = p]]
        BY <1>5 DEF UpdateReminder
      <3> QED
        BY <3>2, <3>3
    <2> QED
      BY <1>5, <2>1 DEF UpdateReminder
  <1>6. ASSUME NEW w \in Web, NEW t \in TaskId, ToggleRead(w, t)
        PROVE  TypeOK' /\ SlotsFilled'
    <2> DEFINE h == [IdleHandler EXCEPT !.pc = "read", !.task = t, !.reminder = task[t].reminder]
    <2>1. task[t].reminder \in ReminderId \cup {NULL}
      BY DEF Tasks
    <2>2. h \in Handlers /\ h.pc = "read" /\ h.task = t
      BY <2>1 DEF Handlers, IdleHandler
    <2>3. web' = [web EXCEPT ![w] = h]
      BY <1>6 DEF ToggleRead
    <2>4. UNCHANGED <<now, task, reminder, job, reached, owed, faults>>
      BY <1>6 DEF ToggleRead
    <2> HIDE DEF h, TypeOK, SlotsFilled
    <2> QED
      BY <2>2, <2>3, <2>4, HandlerTypes
  <1>7. ASSUME NEW w \in Web, NEW t \in TaskId, EraseTask(w, t)
        PROVE  TypeOK' /\ SlotsFilled'
    <2> DEFINE h == [IdleHandler EXCEPT !.pc = "erasing", !.task = t]
    <2>1. h \in Handlers /\ h.pc = "erasing" /\ h.task = t
      BY DEF Handlers, IdleHandler
    <2>2. web' = [web EXCEPT ![w] = h]
      BY <1>7 DEF EraseTask
    <2>3. UNCHANGED <<now, task, reminder, job, reached, owed, faults>>
      BY <1>7 DEF EraseTask
    <2> HIDE DEF h, TypeOK, SlotsFilled
    <2> QED
      BY <2>1, <2>2, <2>3, HandlerTypes
  <1>8. ASSUME NEW w \in Web, NEW r \in ReminderId, DropReminder(w, r)
        PROVE  TypeOK' /\ SlotsFilled'
    <2> DEFINE h == [IdleHandler EXCEPT !.pc = "dropping", !.reminder = r]
    <2>1. h \in Handlers /\ h.pc = "dropping" /\ h.reminder = r
      BY DEF Handlers, IdleHandler
    <2>2. web' = [web EXCEPT ![w] = h]
      BY <1>8 DEF DropReminder
    <2>3. UNCHANGED <<now, task, reminder, job, reached, owed, faults>>
      BY <1>8 DEF DropReminder
    <2> HIDE DEF h, TypeOK, SlotsFilled
    <2> QED
      BY <2>1, <2>2, <2>3, HandlerTypes
  <1>9. ASSUME NEW w \in Web, ToggleSimple(w)
        PROVE  TypeOK' /\ SlotsFilled'
    <2>1. task' \in [TaskId -> Tasks]
      BY <1>9 DEF ToggleSimple, Tasks
    <2>2. web' \in [Web -> Handlers]
      BY <1>9 DEF ToggleSimple
    <2> QED
      BY <1>9, <2>1, <2>2 DEF ToggleSimple, IdleHandler
  <1>10. ASSUME NEW w \in Web, ToggleMark(w)
        PROVE  TypeOK' /\ SlotsFilled'
    BY <1>10 DEF ToggleMark, Tasks, Reminders, Handlers, Jobs, Listed, IdleHandler, IdleJob
  <1>11. ASSUME NEW w \in Web, ToggleGet(w)
        PROVE  TypeOK' /\ SlotsFilled'
    <2> DEFINE r == web[w].reminder
               h == IF LiveReminder(r) THEN Completing(w, reminder[r]) ELSE IdleHandler
    <2>1. web[w].task \in TaskId /\ r \in ReminderId /\ reminder[r] \in Reminders
      BY <1>11 DEF ToggleGet
    <2>2. /\ h \in Handlers
          /\ \/ h = IdleHandler
             \/ /\ h.pc \in {"got", "looping"}
                /\ h.task = web[w].task /\ h.reminder = web[w].reminder
      BY <2>1, CompletingEffect
    <2>3. web' = [web EXCEPT ![w] = h]
      BY <1>11 DEF ToggleGet
    <2> HIDE DEF h
    <2> QED
      BY <1>11, <2>1, <2>2, <2>3 DEF ToggleGet, IdleHandler
  <1>12. ASSUME NEW w \in Web, ToggleCommit(w)
        PROVE  TypeOK' /\ SlotsFilled'
    <2>1. reminder' \in [ReminderId -> Reminders]
      <3> DEFINE r == web[w].reminder
      <3>1. web[w].due \in Nat \cup {NULL} /\ r \in ReminderId /\ reminder[r] \in Reminders
        BY <1>12 DEF ToggleCommit, Handlers
      <3>2. reminder' = [reminder EXCEPT
                           ![r] = IF web[w].due = NULL
                                  THEN [reminder[r] EXCEPT !.state = "completed"]
                                  ELSE [reminder[r] EXCEPT !.state = "pending",
                                                           !.due = web[w].due]]
        BY <1>12 DEF ToggleCommit
      <3> HIDE DEF r
      <3> QED
        BY <3>1, <3>2, CompletedRow
    <2>2. task' \in [TaskId -> Tasks]
      BY <1>12 DEF ToggleCommit, Tasks
    <2> QED
      BY <1>12, <2>1, <2>2 DEF ToggleCommit, IdleHandler
  <1>13. ASSUME NEW w \in Web, EraseCommit(w)
        PROVE  TypeOK' /\ SlotsFilled'
    <2>1. reminder' \in [ReminderId -> Reminders]
      BY <1>13 DEF EraseCommit, Reminders
    <2>2. task' \in [TaskId -> Tasks]
      BY <1>13 DEF EraseCommit, Tasks
    <2> QED
      BY <1>13, <2>1, <2>2 DEF EraseCommit, IdleHandler
  <1>14. ASSUME NEW w \in Web, DropCommit(w)
        PROVE  TypeOK' /\ SlotsFilled'
    <2>1. reminder' \in [ReminderId -> Reminders]
      BY <1>14 DEF DropCommit, Reminders
    <2>2. task' \in [TaskId -> Tasks]
      BY <1>14 DEF DropCommit, Tasks
    <2> QED
      BY <1>14, <2>1, <2>2 DEF DropCommit, IdleHandler
  <1>15. ASSUME NEW w \in Web, WebAbort(w)
        PROVE  TypeOK' /\ SlotsFilled'
    BY <1>15 DEF WebAbort, Tasks, Reminders, Handlers, Jobs, Listed, IdleHandler, IdleJob
  <1>16. ASSUME NEW v \in Web, NEW w \in Web, BreakDeadlock(v, w)
        PROVE  TypeOK' /\ SlotsFilled'
    BY <1>16 DEF BreakDeadlock, Tasks, Reminders, Handlers, Jobs, Listed, IdleHandler, IdleJob
  <1>17. ASSUME JobStart
        PROVE  TypeOK' /\ SlotsFilled'
    <2>1. job' \in Jobs
      BY <1>17 DEF JobStart, Jobs, Outstanding, IdleJob
    <2> QED
      BY <1>17, <2>1 DEF JobStart, IdleJob
  <1>18. ASSUME NEW r \in ReminderId, JobFire(r)
        PROVE  TypeOK' /\ SlotsFilled'
    <2>1. job' \in Jobs /\ job'.pc \in {"firing", "idle"}
      <3>1. CASE LiveReminder(r)
        <4>1. PICK t \in FreshTasks : job' = [job EXCEPT !.todo = @ \ {r}, !.made[r] = t]
          BY <1>18, <3>1 DEF JobFire
        <4>2. t \in TaskId
          BY DEF FreshTasks
        <4> QED
          BY <1>18, <4>1, <4>2 DEF JobFire, Jobs
      <3>2. CASE ~LiveReminder(r)
        <4>1. job' = IdleJob
          BY <1>18, <3>2 DEF JobFire
        <4> QED
          BY <4>1 DEF IdleJob, Jobs, NoListed
      <3> QED
        BY <3>1, <3>2
    <2> QED
      BY <1>18, <2>1 DEF JobFire
  <1>19. ASSUME JobCommit
        PROVE  TypeOK' /\ SlotsFilled'
    <2>1. task' \in [TaskId -> Tasks]
      <3>1. ASSUME NEW t \in TaskId, \E r \in ReminderId : job.made[r] = t
            PROVE  [state    |-> "open",
                    reminder |-> CHOOSE r \in ReminderId : job.made[r] = t,
                    notify   |-> job.at] \in Tasks
        BY <3>1 DEF Tasks, Jobs
      <3> QED
        BY <1>19, <3>1 DEF JobCommit
    <2>2. reminder' \in [ReminderId -> Reminders]
      <3>1. ASSUME NEW r \in ReminderId, job.made[r] # NULL
            PROVE  [reminder[r] EXCEPT !.state = "firing", !.current = job.made[r]]
                     \in Reminders
        <4>1. job.made[r] \in TaskId
          BY <3>1 DEF Jobs
        <4>2. reminder[r] \in Reminders
          OBVIOUS
        <4> HIDE DEF TypeOK, SlotsFilled
        <4> QED
          BY <4>1, <4>2 DEF Reminders
      <3> QED
        BY <1>19, <3>1 DEF JobCommit
    <2>3. job' \in Jobs /\ job'.pc = "listing"
      BY <1>19 DEF JobCommit, Jobs, IdleJob
    <2> QED
      BY <1>19, <2>1, <2>2, <2>3 DEF JobCommit
  <1>20. ASSUME JobList
        PROVE  TypeOK' /\ SlotsFilled'
    <2>1. ASSUME NEW t \in TaskId, DueForNotice(t)
          PROVE  [task |-> t, reminder |-> task[t].reminder, notify |-> task[t].notify] \in Listed
      BY <2>1 DEF DueForNotice, Tasks, Listed
    <2>2. job'.queue \subseteq Listed /\ job' = [job EXCEPT !.pc = "notifying", !.queue = job'.queue]
      BY <1>20, <2>1 DEF JobList, Jobs
    <2> QED
      BY <1>20, <2>2 DEF JobList, Jobs
  <1>21. ASSUME NEW row \in job.queue, JobSend(row)
        PROVE  TypeOK' /\ SlotsFilled'
    BY <1>21 DEF JobSend, Tasks, Reminders, Handlers, Jobs, Listed, IdleHandler, IdleJob
  <1>22. ASSUME JobGet
        PROVE  TypeOK' /\ SlotsFilled'
    <2>1. job'.pc \in {"sent", "got", "looping"} => job'.row = job.row
      BY <1>22, JobGetEffect DEF IdleJob
    <2> QED
      BY <1>22, <2>1, JobGetEffect
  <1>23. ASSUME JobPostpone
        PROVE  TypeOK' /\ SlotsFilled'
    <2>1. job.row.task \in TaskId /\ job.postpone \in Nat
      BY <1>23 DEF JobPostpone, Jobs, Listed
    <2>2. task' \in [TaskId -> Tasks]
      BY <1>23, <2>1 DEF JobPostpone, Tasks
    <2>3. job' \in Jobs /\ job'.pc = "notifying"
      BY <1>23 DEF JobPostpone, Jobs
    <2> QED
      BY <1>23, <2>2, <2>3 DEF JobPostpone
  <1>24. ASSUME JobEnd
        PROVE  TypeOK' /\ SlotsFilled'
    BY <1>24 DEF JobEnd, Tasks, Reminders, Handlers, Jobs, Listed, IdleHandler, IdleJob
  <1>25. ASSUME NEW row \in job.queue, JobSendFails(row)
        PROVE  TypeOK' /\ SlotsFilled'
    BY <1>25 DEF JobSendFails, Tasks, Reminders, Handlers, Jobs, Listed, IdleHandler, IdleJob
  <1>28. ASSUME NEW row \in job.queue, JobRefused(row)
        PROVE  TypeOK' /\ SlotsFilled'
    <2>1. row \in Listed /\ row.task \in TaskId
      BY DEF Jobs, Listed
    <2>2. job' \in Jobs /\ job'.row = row
      BY <1>28, <2>1 DEF JobRefused, Jobs
    <2> QED
      BY <1>28, <2>1, <2>2 DEF JobRefused
  <1>26. ASSUME JobCrash
        PROVE  TypeOK' /\ SlotsFilled'
    BY <1>26 DEF JobCrash, Tasks, Reminders, Handlers, Jobs, Listed, IdleHandler, IdleJob
  <1>27. CASE UNCHANGED vars
    BY <1>27 DEF vars
  <1> QED
    BY <1>1, <1>2, <1>3, <1>4, <1>5, <1>6, <1>7, <1>8, <1>9, <1>10, <1>11, <1>12, <1>13, <1>14, <1>15, <1>16, <1>17, <1>18, <1>19, <1>20, <1>21, <1>22, <1>23, <1>24, <1>25, <1>26, <1>27, <1>28
    DEF Next, WebNext, WebStep, JobStep, JobFails

\* Every table, slot and counter keeps its type.
THEOREM TypeCorrect == Spec => [](TypeOK /\ SlotsFilled)
  BY InitTypes, NextTypes, PTL DEF Spec


-----------------------------------------------------------------------------
(* The steps, by what they touch. *)

\* The request ends with nothing done.
GivesUp(w) ==
    /\ web' = [web EXCEPT ![w] = IdleHandler]
    /\ UNCHANGED <<now, task, reminder, job, reached, owed, faults>>

\* Steps that only change what a handler remembers.
WebMove(w) ==
    \/ \E t \in TaskId : ToggleRead(w, t) \/ EraseTask(w, t)
    \/ \E r \in ReminderId : DropReminder(w, r)
    \/ ToggleMark(w) \/ ToggleGet(w) \/ GivesUp(w)

WebWrite(w) == ToggleSimple(w) \/ ToggleCommit(w) \/ EraseCommit(w) \/ DropCommit(w)

\* Steps that leave alone which task is whose and in which state.
QuietStep ==
    \/ Tick
    \/ \E t \in TaskId, m \in Snoozes : SnoozeTask(t, m)
    \/ \E r \in ReminderId, due \in 0 .. Horizon, s \in Snoozes, p \in Periods :
         UpdateReminder(r, due, s, p)
    \/ JobList
    \/ \E row \in job.queue : JobSend(row) \/ JobRefused(row) \/ JobSendFails(row)
    \/ JobGet \/ JobPostpone \/ JobEnd \/ JobCrash
    \/ UNCHANGED vars

NewReminder ==
    \E r \in ReminderId, due \in 0 .. Horizon, s \in Snoozes, p \in Periods :
        CreateReminder(r, due, s, p)

LEMMA KindsOfSteps ==
    ASSUME [Next]_vars
    PROVE  \/ QuietStep \/ NewReminder
           \/ \E t \in TaskId : CreateTask(t)
           \/ \E w \in Web : WebMove(w) \/ WebWrite(w)
           \/ JobStart \/ JobCommit \/ \E r \in ReminderId : JobFire(r)
  <1>1. ASSUME NEW w \in Web, WebStep(w) \/ WebAbort(w)
        PROVE  WebMove(w) \/ WebWrite(w)
    BY <1>1 DEF WebStep, WebAbort, WebMove, WebWrite, GivesUp
  <1>2. ASSUME NEW v \in Web, NEW w \in Web, BreakDeadlock(v, w)
        PROVE  \E u \in Web : WebMove(u)
    BY <1>2 DEF BreakDeadlock, WebMove, GivesUp
  <1>3. ASSUME NEW r \in ReminderId, NEW due \in 0 .. Horizon, NEW s \in Snoozes,
               NEW p \in Periods, CreateReminder(r, due, s, p) \/ UpdateReminder(r, due, s, p)
        PROVE  NewReminder \/ QuietStep
    BY <1>3 DEF NewReminder, QuietStep
  <1>4. ASSUME NEW t \in TaskId, NEW m \in Snoozes, SnoozeTask(t, m)
        PROVE  QuietStep
    BY <1>4 DEF QuietStep
  <1>5. ASSUME NEW w \in Web,
               \/ \E t \in TaskId : ToggleRead(w, t) \/ EraseTask(w, t)
               \/ \E r \in ReminderId : DropReminder(w, r)
        PROVE  WebMove(w)
    BY <1>5 DEF WebMove
  <1>6. CASE WebNext
    BY <1>1, <1>2, <1>3, <1>4, <1>5, <1>6, Zenon DEF WebNext
  <1>7. JobFails \/ Tick \/ UNCHANGED vars => QuietStep
    <2>1. ASSUME NEW row \in job.queue, JobSend(row) \/ JobRefused(row) \/ JobSendFails(row)
          PROVE  QuietStep
      BY <2>1 DEF QuietStep
    <2>2. Tick \/ JobCrash \/ UNCHANGED vars => QuietStep
      BY DEF QuietStep
    <2> QED
      BY <2>1, <2>2 DEF JobFails
  <1>8. ASSUME NEW row \in job.queue, JobSend(row)
        PROVE  QuietStep
    BY <1>8 DEF QuietStep
  <1>9. JobList \/ JobGet \/ JobPostpone \/ JobEnd => QuietStep
    BY DEF QuietStep
  <1>10. CASE JobStep
    BY <1>8, <1>9, <1>10, Zenon DEF JobStep
  <1> QED
    BY <1>6, <1>7, <1>10 DEF Next

\* The rows stay linked as they are.
LinksStand ==
    /\ \A t \in TaskId :
          task'[t].state = task[t].state /\ task'[t].reminder = task[t].reminder
    /\ \A r \in ReminderId :
          reminder'[r].state = reminder[r].state /\ reminder'[r].current = reminder[r].current

\* The job's transaction stands as it is, or is over.
TransactionStands ==
    \/ job'.todo = job.todo /\ \A r \in ReminderId : job'.made[r] = job.made[r]
    \/ job'.todo = {} /\ \A r \in ReminderId : job'.made[r] = NULL

LEMMA QuietSteps ==
    ASSUME TypeOK, SlotsFilled, QuietStep
    PROVE  LinksStand /\ TransactionStands /\ web' = web
  <1> USE DEF TypeOK, LinksStand, TransactionStands
  <1>1. ASSUME NEW t \in TaskId, NEW m \in Snoozes, SnoozeTask(t, m)
        PROVE  LinksStand /\ TransactionStands /\ web' = web
    BY <1>1 DEF SnoozeTask, Tasks
  <1>2. ASSUME NEW r \in ReminderId, NEW due \in 0 .. Horizon, NEW s \in Snoozes,
               NEW p \in Periods, UpdateReminder(r, due, s, p)
        PROVE  LinksStand /\ TransactionStands /\ web' = web
    BY <1>2 DEF UpdateReminder, Reminders
  <1>3. CASE JobPostpone
    BY <1>3 DEF JobPostpone, SlotsFilled, Listed, Tasks, Jobs
  <1>i. job' = IdleJob => TransactionStands
    BY DEF IdleJob
  <1>4. ASSUME NEW row \in job.queue, JobSend(row)
        PROVE  LinksStand /\ TransactionStands /\ web' = web
    BY <1>4 DEF JobSend, Jobs
  <1>5. ASSUME NEW row \in job.queue, JobSendFails(row)
        PROVE  LinksStand /\ TransactionStands /\ web' = web
    BY <1>5, <1>i DEF JobSendFails
  <1>10. ASSUME NEW row \in job.queue, JobRefused(row)
        PROVE  LinksStand /\ TransactionStands /\ web' = web
    BY <1>10 DEF JobRefused, Jobs
  <1>7. CASE JobGet
    BY <1>7, <1>i, JobGetEffect
  <1>8. CASE JobList
    BY <1>8 DEF JobList, Jobs
  <1>9. CASE JobEnd \/ JobCrash
    BY <1>9, <1>i DEF JobEnd, JobCrash
  <1>6. CASE Tick \/ UNCHANGED vars
    BY <1>6 DEF Tick, vars
  <1> QED
    BY <1>1, <1>2, <1>3, <1>4, <1>5, <1>6, <1>7, <1>8, <1>9, <1>10 DEF QuietStep

\* What a handler remembers after a step of its own.
Forgets(w) == web'[w].pc = "idle" /\ web'[w].task = NULL /\ web'[w].reminder = NULL

Reads(w, t) ==
    /\ LiveTask(t) /\ (task[t].reminder # NULL => task[t].state = "open")
    /\ SerialToggles => \A v \in Web : ~Toggling(v, t)
    /\ web'[w].pc = "read" /\ web'[w].task = t /\ web'[w].reminder = task[t].reminder

Erases(w, t) ==
    /\ LiveTask(t) /\ TaskFree(t)
    /\ web'[w].pc = "erasing" /\ web'[w].task = t /\ web'[w].reminder = NULL

Drops(w, r) ==
    /\ LiveReminder(r) /\ ReminderFree(r)
    /\ web'[w].pc = "dropping" /\ web'[w].task = NULL /\ web'[w].reminder = r

GoesOn(w) ==
    /\ web'[w].task = web[w].task /\ web'[w].reminder = web[w].reminder
    /\ \/ /\ web[w].pc = "read" /\ web'[w].pc = "marked"
          /\ web[w].reminder # NULL
          /\ LiveTask(web[w].task) /\ TaskFree(web[w].task)
       \/ /\ web[w].pc = "marked" /\ web'[w].pc \in {"got", "looping"}
          /\ LiveReminder(web[w].reminder)

LEMMA WebMoves ==
    ASSUME TypeOK, SlotsFilled, NEW w \in Web, WebMove(w)
    PROVE  /\ UNCHANGED <<now, task, reminder, job, reached, owed, faults>>
           /\ \A v \in Web : v # w => web'[v] = web[v]
           /\ \/ Forgets(w) \/ GoesOn(w)
              \/ \E t \in TaskId : Reads(w, t) \/ Erases(w, t)
              \/ \E r \in ReminderId : Drops(w, r)
  <1> USE DEF TypeOK, IdleHandler
  <1>1. UNCHANGED <<now, task, reminder, job, reached, owed, faults>>
    BY DEF WebMove, ToggleRead, EraseTask, DropReminder, ToggleMark, ToggleGet, GivesUp
  <1>2. \E h : web' = [web EXCEPT ![w] = h]
    BY DEF WebMove, ToggleRead, EraseTask, DropReminder, ToggleMark, ToggleGet, GivesUp
  <1>3. CASE GivesUp(w)
    BY <1>3 DEF GivesUp, Forgets
  <1>4. ASSUME NEW t \in TaskId, ToggleRead(w, t)
        PROVE  Reads(w, t)
    BY <1>4 DEF ToggleRead, Reads
  <1>5. ASSUME NEW t \in TaskId, EraseTask(w, t)
        PROVE  Erases(w, t)
    BY <1>5 DEF EraseTask, Erases
  <1>6. ASSUME NEW r \in ReminderId, DropReminder(w, r)
        PROVE  Drops(w, r)
    BY <1>6 DEF DropReminder, Drops
  <1>7. CASE ToggleMark(w)
    BY <1>7 DEF ToggleMark, Handlers, Forgets, GoesOn
  <1>8. ASSUME ToggleGet(w)
        PROVE  Forgets(w) \/ GoesOn(w)
    <2> DEFINE r == web[w].reminder
               h == Completing(w, reminder[r])
    <2>1. web[w].pc = "marked" /\ r \in ReminderId /\ reminder[r] \in Reminders
      BY <1>8 DEF ToggleGet, SlotsFilled
    <2>2. \/ h = IdleHandler
          \/ /\ h.pc \in {"got", "looping"}
             /\ h.task = web[w].task /\ h.reminder = web[w].reminder
      BY <2>1, CompletingEffect
    <2>3. web' = [web EXCEPT ![w] = IF LiveReminder(r) THEN h ELSE IdleHandler]
      BY <1>8 DEF ToggleGet
    <2> HIDE DEF h
    <2>4. CASE LiveReminder(r)
      <3>1. web'[w] = h
        BY <2>3, <2>4
      <3> QED
        BY <2>1, <2>2, <2>4, <3>1 DEF Forgets, GoesOn
    <2>5. CASE ~LiveReminder(r)
      <3>1. web'[w] = IdleHandler
        BY <2>3, <2>5
      <3> QED
        BY <3>1 DEF Forgets
    <2> QED
      BY <2>4, <2>5
  <1> QED
    BY <1>1, <1>2, <1>3, <1>4, <1>5, <1>6, <1>7, <1>8 DEF WebMove

-----------------------------------------------------------------------------
(* What the two steps of the job's transaction do to the state. *)

LEMMA JobFireEffect ==
    ASSUME TypeOK, NEW r \in ReminderId, JobFire(r)
    PROVE  /\ task' = task /\ reminder' = reminder /\ web' = web
           /\ \/ job' = IdleJob
              \/ /\ job'.pc = "firing" /\ job'.at = job.at /\ job'.queue = job.queue
                 /\ LiveReminder(r) /\ ReminderFree(r) /\ r \in job.todo
                 /\ job'.todo = job.todo \ {r}
                 /\ \E t \in FreshTasks :
                      \A q \in ReminderId :
                        job'.made[q] = IF q = r THEN t ELSE job.made[q]
  <1>1. CASE LiveReminder(r)
    <2>1. PICK t \in FreshTasks : job' = [job EXCEPT !.todo = @ \ {r}, !.made[r] = t]
      BY <1>1 DEF JobFire
    <2>2. job.made \in [ReminderId -> TaskId \cup {NULL}]
      BY DEF TypeOK, Jobs
    <2>3. /\ job'.todo = job.todo \ {r} /\ job'.made = [job.made EXCEPT ![r] = t]
          /\ job'.pc = "firing" /\ job'.at = job.at /\ job'.queue = job.queue
      BY <2>1 DEF TypeOK, Jobs, JobFire
    <2>4. \A q \in ReminderId : job'.made[q] = IF q = r THEN t ELSE job.made[q]
      BY <2>2, <2>3
    <2> QED
      BY <1>1, <2>3, <2>4 DEF JobFire
  <1>2. CASE ~LiveReminder(r)
    BY <1>2 DEF JobFire
  <1> QED
    BY <1>1, <1>2

\* The rows the transaction inserts, and the reminders it updates.
LEMMA JobCommitEffect ==
    ASSUME TypeOK, MadeTasksReserved, JobCommit
    PROVE  /\ web' = web
           /\ job'.todo = {} /\ \A r \in ReminderId : job'.made[r] = NULL
           /\ \A r \in ReminderId :
                IF job.made[r] = NULL
                THEN reminder'[r] = reminder[r]
                ELSE /\ job.made[r] \in TaskId
                     /\ task[job.made[r]].state = "unused"
                     /\ task'[job.made[r]].state = "open"
                     /\ task'[job.made[r]].reminder = r
                     /\ reminder'[r].state = "firing"
                     /\ reminder'[r].current = job.made[r]
           /\ \A t \in TaskId :
                (\A r \in ReminderId : job.made[r] # t) => task'[t] = task[t]
  <1> USE NullAssumption
  <1>1. web' = web /\ job'.todo = {} /\ \A r \in ReminderId : job'.made[r] = NULL
    BY DEF JobCommit, IdleJob
  <1>2. ASSUME NEW r \in ReminderId, job.made[r] # NULL
        PROVE  /\ job.made[r] \in TaskId
               /\ task[job.made[r]].state = "unused"
               /\ task'[job.made[r]].state = "open"
               /\ task'[job.made[r]].reminder = r
    <2>1. job.made[r] \in TaskId /\ task[job.made[r]].state = "unused"
      BY <1>2 DEF TypeOK, Jobs, MadeTasksReserved
    <2>2. \A q \in ReminderId : job.made[q] = job.made[r] => q = r
      BY <1>2 DEF MadeTasksReserved
    <2>3. (CHOOSE q \in ReminderId : job.made[q] = job.made[r]) = r
      BY <2>2
    <2>4. task'[job.made[r]] = [state    |-> "open",
                                reminder |-> CHOOSE q \in ReminderId :
                                               job.made[q] = job.made[r],
                                notify   |-> job.at]
      BY <2>1 DEF JobCommit
    <2> QED
      BY <2>1, <2>3, <2>4
  <1>3. ASSUME NEW r \in ReminderId
        PROVE  IF job.made[r] = NULL THEN reminder'[r] = reminder[r]
               ELSE reminder'[r].state = "firing" /\ reminder'[r].current = job.made[r]
    BY DEF JobCommit, TypeOK, Reminders
  <1>4. \A t \in TaskId : (\A r \in ReminderId : job.made[r] # t) => task'[t] = task[t]
    BY DEF JobCommit
  <1> QED
    BY <1>1, <1>2, <1>3, <1>4

-----------------------------------------------------------------------------
(* What handlers and runs remember of the tables. *)

LEMMA InitBookkeeping == Init => BookkeepingInv
  BY NullAssumption DEF Init, BookkeepingInv, AbsentRowsUnlinked, ToggleReadsHold,
     MadeTasksReserved, ReferencesInserted, LiveTask, IdleHandler, IdleJob

LEMMA NextBookkeeping ==
    TypeOK /\ SlotsFilled /\ BookkeepingInv /\ [Next]_vars => BookkeepingInv'
  <1> SUFFICES ASSUME TypeOK, SlotsFilled, BookkeepingInv, [Next]_vars
               PROVE  BookkeepingInv'
    OBVIOUS
  <1> USE NullAssumption DEF TypeOK, BookkeepingInv
  <1>1. CASE QuietStep
    <2>1. LinksStand /\ TransactionStands /\ web' = web
      BY <1>1, QuietSteps
    <2>2. AbsentRowsUnlinked' /\ ToggleReadsHold'
      BY <2>1 DEF LinksStand, AbsentRowsUnlinked, ToggleReadsHold, SlotsFilled, LiveTask
    <2>3. MadeTasksReserved'
      BY <2>1 DEF LinksStand, TransactionStands, MadeTasksReserved, Jobs
    <2>4. ReferencesInserted'
      BY <2>1 DEF LinksStand, TransactionStands, ReferencesInserted, Tasks, Handlers
    <2> QED
      BY <2>2, <2>3, <2>4
  <1>2. ASSUME NEW w \in Web, WebMove(w)
        PROVE  BookkeepingInv'
    <2>1. UNCHANGED <<task, reminder, job>> /\ \A v \in Web : v # w => web'[v] = web[v]
      BY <1>2, WebMoves
    <2>2. \/ Forgets(w) \/ GoesOn(w)
          \/ \E t \in TaskId : Reads(w, t) \/ Erases(w, t)
          \/ \E r \in ReminderId : Drops(w, r)
      BY <1>2, WebMoves
    <2>3. ToggleReadsHold' /\ ReferencesInserted'
      <3>1. CASE Forgets(w)
        BY <2>1, <3>1 DEF Forgets, ToggleReadsHold, ReferencesInserted
      <3>2. CASE GoesOn(w)
        BY <2>1, <3>2 DEF GoesOn, ToggleReadsHold, ReferencesInserted
      <3>3. ASSUME NEW t \in TaskId, Reads(w, t) \/ Erases(w, t)
            PROVE  ToggleReadsHold' /\ ReferencesInserted'
        BY <2>1, <3>3 DEF Reads, Erases, ToggleReadsHold, ReferencesInserted, LiveTask
      <3>4. ASSUME NEW r \in ReminderId, Drops(w, r)
            PROVE  ToggleReadsHold' /\ ReferencesInserted'
        BY <2>1, <3>4 DEF Drops, ToggleReadsHold, ReferencesInserted, LiveReminder
      <3> QED
        BY <2>2, <3>1, <3>2, <3>3, <3>4
    <2> QED
      BY <2>1, <2>3 DEF AbsentRowsUnlinked, MadeTasksReserved, LiveTask
  <1>3. CASE NewReminder
    <2>1. UNCHANGED <<task, web, job>>
      BY <1>3 DEF NewReminder, CreateReminder
    <2>2. \A r \in ReminderId : reminder[r].state # "unused" => reminder'[r].state # "unused"
      BY <1>3 DEF NewReminder, CreateReminder
    <2> QED
      BY <2>1, <2>2 DEF AbsentRowsUnlinked, ToggleReadsHold, MadeTasksReserved,
                        ReferencesInserted, LiveTask, Tasks, Handlers
  <1>4. ASSUME NEW t \in TaskId, CreateTask(t)
        PROVE  BookkeepingInv'
    <2>1. /\ UNCHANGED <<reminder, web, job>>
          /\ task[t].state = "unused" /\ \A r \in ReminderId : job.made[r] # t
          /\ task'[t].state = "open" /\ task'[t].reminder = task[t].reminder
          /\ \A u \in TaskId : u # t => task'[u] = task[u]
      BY <1>4 DEF CreateTask, FreshTasks, Tasks
    <2> QED
      BY <2>1 DEF AbsentRowsUnlinked, ToggleReadsHold, MadeTasksReserved,
                  ReferencesInserted, SlotsFilled, LiveTask, Jobs
  <1>5. ASSUME NEW w \in Web, ToggleSimple(w) \/ ToggleCommit(w)
        PROVE  BookkeepingInv'
    <2> DEFINE t == web[w].task
    <2>1. t \in TaskId /\ task[t].state # "unused"
      BY <1>5 DEF ToggleSimple, ToggleCommit, SlotsFilled, ToggleReadsHold
    <2>2. /\ task'[t].state \in {task[t].state, "open", "done"}
          /\ task'[t].reminder = task[t].reminder
          /\ \A u \in TaskId : u # t => task'[u] = task[u]
      <3>1. CASE ToggleSimple(w)
        BY <2>1, <3>1 DEF ToggleSimple, Tasks
      <3>2. CASE ToggleCommit(w)
        BY <2>1, <3>2 DEF ToggleCommit, Tasks
      <3> QED
        BY <1>5, <3>1, <3>2
    <2>3. job' = job /\ web' = [web EXCEPT ![w] = IdleHandler]
      BY <1>5 DEF ToggleSimple, ToggleCommit
    <2>4. \A r \in ReminderId : reminder[r].state # "unused" => reminder'[r].state # "unused"
      <3>1. CASE ToggleSimple(w)
        BY <3>1 DEF ToggleSimple
      <3>2. CASE ToggleCommit(w)
        BY <3>2 DEF ToggleCommit, Reminders
      <3> QED
        BY <1>5, <3>1, <3>2
    <2> HIDE DEF t
    <2>5. AbsentRowsUnlinked'
      BY <2>1, <2>2 DEF AbsentRowsUnlinked, LiveTask
    <2>6. ToggleReadsHold'
      BY <2>1, <2>2, <2>3 DEF ToggleReadsHold, SlotsFilled, IdleHandler
    <2>7. MadeTasksReserved'
      BY <2>1, <2>2, <2>3 DEF MadeTasksReserved, Jobs
    <2>8. ReferencesInserted'
      <3>1. ASSUME NEW u \in TaskId, task'[u].reminder # NULL
            PROVE  reminder'[task'[u].reminder].state # "unused"
        <4>1. task'[u].reminder = task[u].reminder /\ task[u].reminder \in ReminderId
          BY <2>2, <3>1 DEF Tasks
        <4> QED
          BY <2>4, <3>1, <4>1 DEF ReferencesInserted
      <3>2. ASSUME NEW v \in Web, web'[v].reminder # NULL
            PROVE  reminder'[web'[v].reminder].state # "unused"
        <4>1. web'[v].reminder = web[v].reminder /\ web[v].reminder \in ReminderId
          BY <2>3, <3>2 DEF IdleHandler, Handlers
        <4> QED
          BY <2>4, <3>2, <4>1 DEF ReferencesInserted
      <3> QED
        BY <2>3, <2>4, <3>1, <3>2 DEF ReferencesInserted
    <2> QED
      BY <2>5, <2>6, <2>7, <2>8
  <1>6. ASSUME NEW w \in Web, EraseCommit(w)
        PROVE  BookkeepingInv'
    <2> DEFINE e == web[w].task
    <2>1. /\ e \in TaskId /\ task[e].state # "unused"
          /\ web' = [web EXCEPT ![w] = IdleHandler] /\ job' = job
      BY <1>6 DEF EraseCommit, SlotsFilled, ToggleReadsHold
    <2>2. task' = [task EXCEPT ![e] = [state |-> "deleted", reminder |-> NULL, notify |-> NULL]]
      BY <1>6 DEF EraseCommit
    <2>3. \A r \in ReminderId : reminder'[r].state = reminder[r].state
      BY <1>6 DEF EraseCommit, Reminders
    <2> HIDE DEF e
    <2>4. AbsentRowsUnlinked' /\ ToggleReadsHold'
      BY <2>1, <2>2 DEF AbsentRowsUnlinked, ToggleReadsHold, SlotsFilled, LiveTask, IdleHandler
    <2>5. MadeTasksReserved'
      BY <2>1, <2>2 DEF MadeTasksReserved, Jobs
    <2>6. ReferencesInserted'
      <3>1. \A t \in TaskId :
                task'[t].reminder # NULL => reminder'[task'[t].reminder].state # "unused"
        BY <2>1, <2>2, <2>3 DEF ReferencesInserted, Tasks
      <3>2. \A v \in Web :
                web'[v].reminder # NULL => reminder'[web'[v].reminder].state # "unused"
        BY <2>1, <2>3 DEF ReferencesInserted, IdleHandler, Handlers
      <3>3. \A r \in ReminderId : job'.made[r] # NULL => reminder'[r].state # "unused"
        BY <2>1, <2>3 DEF ReferencesInserted
      <3> QED
        BY <3>1, <3>2, <3>3 DEF ReferencesInserted
    <2> QED
      BY <2>4, <2>5, <2>6
  <1>7. ASSUME NEW w \in Web, DropCommit(w)
        PROVE  BookkeepingInv'
    <2>1. \A t \in TaskId : /\ task'[t].state = task[t].state
                            /\ task'[t].reminder \in {NULL, task[t].reminder}
      BY <1>7 DEF DropCommit, Tasks
    <2>2. job' = job /\ web' = [web EXCEPT ![w] = IdleHandler]
      BY <1>7 DEF DropCommit
    <2>3. \A r \in ReminderId : reminder[r].state # "unused" => reminder'[r].state # "unused"
      BY <1>7 DEF DropCommit
    <2>4. AbsentRowsUnlinked' /\ ToggleReadsHold'
      BY <2>1, <2>2 DEF AbsentRowsUnlinked, ToggleReadsHold, SlotsFilled, LiveTask, IdleHandler
    <2>5. MadeTasksReserved'
      BY <2>1, <2>2 DEF MadeTasksReserved, Jobs
    <2>6. ReferencesInserted'
      <3>1. \A t \in TaskId :
                task'[t].reminder # NULL => reminder'[task'[t].reminder].state # "unused"
        BY <2>1, <2>3 DEF ReferencesInserted, Tasks
      <3>2. \A v \in Web :
                web'[v].reminder # NULL => reminder'[web'[v].reminder].state # "unused"
        BY <2>2, <2>3 DEF ReferencesInserted, IdleHandler, Handlers
      <3>3. \A r \in ReminderId : job'.made[r] # NULL => reminder'[r].state # "unused"
        BY <2>2, <2>3 DEF ReferencesInserted
      <3> QED
        BY <3>1, <3>2, <3>3 DEF ReferencesInserted
    <2> QED
      BY <2>4, <2>5, <2>6
  <1>8. CASE JobStart
    BY <1>8 DEF JobStart, IdleJob, AbsentRowsUnlinked, ToggleReadsHold, MadeTasksReserved,
                ReferencesInserted, LiveTask
  <1>9. ASSUME NEW r \in ReminderId, JobFire(r)
        PROVE  BookkeepingInv'
    <2>1. UNCHANGED <<task, reminder, web>>
      BY <1>9, JobFireEffect
    <2>2. MadeTasksReserved' /\ ReferencesInserted'
      <3>1. CASE job' = IdleJob
        BY <2>1, <3>1 DEF MadeTasksReserved, ReferencesInserted, IdleJob
      <3>2. CASE job' # IdleJob
        BY <1>9, <2>1, <3>2, JobFireEffect
           DEF MadeTasksReserved, ReferencesInserted, FreshTasks, LiveReminder
      <3> QED
        BY <3>1, <3>2
    <2> QED
      BY <2>1, <2>2 DEF AbsentRowsUnlinked, ToggleReadsHold, LiveTask
  <1>10. CASE JobCommit
    <2>1. web' = web /\ \A r \in ReminderId : job'.made[r] = NULL
      BY <1>10, JobCommitEffect
    <2>2. \A t \in TaskId :
             \/ task'[t] = task[t]
             \/ /\ task[t].state = "unused" /\ task'[t].state = "open"
                /\ \E r \in ReminderId : job.made[r] # NULL /\ task'[t].reminder = r
      BY <1>10, JobCommitEffect
    <2>3. \A r \in ReminderId : reminder[r].state # "unused" => reminder'[r].state # "unused"
      BY <1>10, JobCommitEffect
    <2>4. AbsentRowsUnlinked' /\ MadeTasksReserved'
      BY <2>1, <2>2 DEF AbsentRowsUnlinked, MadeTasksReserved, LiveTask
    <2>5. ToggleReadsHold'
      BY <2>1, <2>2 DEF ToggleReadsHold, SlotsFilled
    <2>6. ReferencesInserted'
      BY <2>1, <2>2, <2>3 DEF ReferencesInserted, Tasks, Handlers
    <2> QED
      BY <2>4, <2>5, <2>6
  <1> QED
    BY <1>1, <1>2, <1>3, <1>4, <1>5, <1>6, <1>7, <1>8, <1>9, <1>10, KindsOfSteps DEF WebWrite

-----------------------------------------------------------------------------
(* The first notification of a task is never lost. *)

LEMMA InitNotice == Init => NotifyingInv /\ NoSilentPostponement
  BY DEF Init, NotifyingInv, NoSilentPostponement, IdleJob

\* An open task of a reminder was there before, and no later due, unless a
\* POST for it got to ntfy.sh, or the user snoozed it.
Kept(t) ==
    task'[t].state = "open" /\ task'[t].reminder # NULL /\ t \notin reached' =>
        /\ task[t].state = "open" /\ task[t].reminder # NULL
        /\ task'[t].notify = task[t].notify

LEMMA NextNotice ==
    /\ TypeOK /\ SlotsFilled /\ BookkeepingInv
    /\ NotifyingInv /\ NoSilentPostponement /\ [Next]_vars
    => NotifyingInv' /\ NoSilentPostponement'
  <1> SUFFICES ASSUME TypeOK, SlotsFilled, BookkeepingInv,
                      NotifyingInv, NoSilentPostponement, [Next]_vars
               PROVE  NotifyingInv' /\ NoSilentPostponement'
    OBVIOUS
  <1> USE NullAssumption DEF TypeOK
  <1>k. ASSUME now' \in {now, now + 1}, reached \subseteq reached', \A t \in TaskId : Kept(t)
        PROVE  NoSilentPostponement'
    BY <1>k DEF NoSilentPostponement, Kept, Tasks
  <1>n. ASSUME now' \in {now, now + 1}, reached \subseteq reached', job'.at \in {0, job.at},
               job'.pc \in {"sent", "got", "looping"} => job.pc \in {"sent", "got", "looping"} /\ job'.row = job.row
        PROVE  NotifyingInv'
    BY <1>n DEF NotifyingInv, Jobs
  <1>1. CASE Tick
    BY <1>1, <1>k, <1>n DEF Tick, Kept
  <1>2. ASSUME NEW w \in Web, WebMove(w)
        PROVE  NotifyingInv' /\ NoSilentPostponement'
    BY <1>2, WebMoves DEF NotifyingInv, NoSilentPostponement
  <1>3. CASE NewReminder \/ UNCHANGED vars
    BY <1>3 DEF NewReminder, CreateReminder, vars, NotifyingInv, NoSilentPostponement
  <1>4. ASSUME NEW r \in ReminderId, NEW due \in 0 .. Horizon, NEW s \in Snoozes,
               NEW p \in Periods, UpdateReminder(r, due, s, p)
        PROVE  NotifyingInv' /\ NoSilentPostponement'
    BY <1>4 DEF UpdateReminder, NotifyingInv, NoSilentPostponement
  <1>5. ASSUME NEW t \in TaskId, CreateTask(t)
        PROVE  NotifyingInv' /\ NoSilentPostponement'
    <2>1. task[t].reminder = NULL
      BY <1>5 DEF CreateTask, FreshTasks, BookkeepingInv, AbsentRowsUnlinked, LiveTask
    <2>2. \A u \in TaskId : Kept(u)
      BY <1>5, <2>1 DEF CreateTask, Kept, Tasks
    <2> QED
      BY <1>5, <2>2, <1>k, <1>n DEF CreateTask
  <1>6. ASSUME NEW t \in TaskId, NEW m \in Snoozes, SnoozeTask(t, m)
        PROVE  NotifyingInv' /\ NoSilentPostponement'
    <2>1. \A u \in TaskId : Kept(u)
      BY <1>6 DEF SnoozeTask, Kept, Tasks
    <2> QED
      BY <1>6, <2>1, <1>k, <1>n DEF SnoozeTask
  <1>7. ASSUME NEW w \in Web, WebWrite(w)
        PROVE  NotifyingInv' /\ NoSilentPostponement'
    <2>1. UNCHANGED <<now, job, reached>>
      BY <1>7 DEF WebWrite, ToggleSimple, ToggleCommit, EraseCommit, DropCommit
    <2>2. \A t \in TaskId : Kept(t)
      <3>1. CASE ToggleSimple(w)
        BY <3>1 DEF ToggleSimple, Kept, Tasks, BookkeepingInv, ToggleReadsHold, SlotsFilled
      <3>2. CASE ToggleCommit(w)
        BY <3>2 DEF ToggleCommit, Kept, Tasks, SlotsFilled
      <3>3. CASE EraseCommit(w)
        BY <3>3 DEF EraseCommit, Kept, SlotsFilled
      <3>4. CASE DropCommit(w)
        BY <3>4 DEF DropCommit, Kept, Tasks
      <3> QED
        BY <1>7, <3>1, <3>2, <3>3, <3>4 DEF WebWrite
    <2> QED
      BY <2>1, <2>2, <1>k, <1>n
  <1>8. CASE JobStart
    BY <1>8 DEF JobStart, IdleJob, NotifyingInv, NoSilentPostponement
  <1>9. ASSUME NEW r \in ReminderId, JobFire(r)
        PROVE  NotifyingInv' /\ NoSilentPostponement'
    <2>1. UNCHANGED <<now, task, reached>>
      BY <1>9 DEF JobFire
    <2>2. job'.pc \in {"firing", "idle"} /\ job'.at \in {job.at, 0}
      BY <1>9, JobFireEffect DEF IdleJob
    <2> QED
      BY <2>1, <2>2, <1>k, <1>n DEF Kept
  <1>10. CASE JobCommit
    <2>1. job'.pc = "listing" /\ job'.at = 0 /\ UNCHANGED <<now, reached>>
      BY <1>10 DEF JobCommit, IdleJob
    <2>2. \A t \in TaskId : task'[t] = task[t] \/ task'[t].notify = job.at
      BY <1>10 DEF JobCommit
    <2>3. NoSilentPostponement'
      BY <2>1, <2>2 DEF NoSilentPostponement, NotifyingInv, Jobs
    <2> QED
      BY <2>1, <2>3, <1>n
  <1>11. CASE JobList \/ JobEnd \/ JobCrash
    <2>1. UNCHANGED <<now, task, reached>> /\ job'.at \in {0, job.at} /\ job'.pc \notin {"sent", "got", "looping"}
      <3>1. CASE JobList
        BY <3>1 DEF JobList, Jobs
      <3>2. CASE JobEnd \/ JobCrash
        BY <3>2 DEF JobEnd, JobCrash, IdleJob
      <3> QED
        BY <1>11, <3>1, <3>2
    <2> QED
      BY <2>1, <1>k, <1>n DEF Kept
  <1>12. ASSUME NEW row \in job.queue, JobSend(row) \/ JobRefused(row) \/ JobSendFails(row)
        PROVE  NotifyingInv' /\ NoSilentPostponement'
    <2>1. UNCHANGED <<now, task>> /\ reached \subseteq reached'
      BY <1>12 DEF JobSend, JobRefused, JobSendFails
    <2>2. NotifyingInv'
      <3>1. CASE JobSend(row) \/ JobRefused(row)
        BY <3>1 DEF JobSend, JobRefused, Jobs, NotifyingInv
      <3>2. CASE JobSendFails(row)
        BY <3>2, <2>1 DEF JobSendFails, IdleJob, NotifyingInv
      <3> QED
        BY <1>12, <3>1, <3>2
    <2> QED
      BY <2>1, <2>2, <1>k DEF Kept
  <1>13. CASE JobGet
    <2>1. UNCHANGED <<now, task, reached>> /\ job'.at \in {0, job.at} /\ job.pc = "sent"
      BY <1>13, JobGetEffect DEF IdleJob
    <2>2. job'.pc \in {"sent", "got", "looping"} => job'.row = job.row
      BY <1>13, JobGetEffect DEF IdleJob
    <2> QED
      BY <2>1, <2>2, <1>k, <1>n DEF Kept
  <1>14. CASE JobPostpone
    <2>1. UNCHANGED <<now, reached>> /\ job'.at = job.at /\ job'.pc = "notifying"
      BY <1>14 DEF JobPostpone, Jobs
    <2>2. job.row.task \in reached /\ job.row.task \in TaskId
      BY <1>14 DEF JobPostpone, NotifyingInv, SlotsFilled, Listed
    <2>3. \A t \in TaskId : Kept(t)
      BY <1>14, <2>1, <2>2 DEF JobPostpone, Kept, Tasks
    <2> QED
      BY <2>1, <2>3, <1>k, <1>n
  <1> QED
    BY <1>1, <1>2, <1>3, <1>4, <1>5, <1>6, <1>7, <1>8, <1>9, <1>10, <1>11, <1>12, <1>13, <1>14,
       KindsOfSteps DEF QuietStep

\* No crash, unanswered POST or race puts a task off before a POST for it got to
\* ntfy.sh, or the user snoozed it: what the job puts off is what it posted.
THEOREM FirstNoticeKept == Spec => []NoSilentPostponement
  <1>1. Init => TypeOK /\ SlotsFilled /\ BookkeepingInv /\ NotifyingInv /\ NoSilentPostponement
    BY InitTypes, InitBookkeeping, InitNotice
  <1> QED
    BY <1>1, NextTypes, NextBookkeeping, NextNotice, PTL DEF Spec

-----------------------------------------------------------------------------
(* A completed task of a reminder is not reopened. *)

LEMMA NextKeepsCompleted ==
    ASSUME TypeOK, SlotsFilled, BookkeepingInv, [Next]_vars,
           NEW x \in TaskId, task[x].state = "done", task[x].reminder # NULL
    PROVE  task'[x].state # "open"
  <1> USE DEF TypeOK
  <1>1. CASE QuietStep
    BY <1>1, QuietSteps DEF LinksStand
  <1>2. ASSUME NEW w \in Web, WebMove(w)
        PROVE  task'[x].state # "open"
    BY <1>2, WebMoves
  <1>3. CASE NewReminder \/ JobStart \/ \E r \in ReminderId : JobFire(r)
    BY <1>3 DEF NewReminder, CreateReminder, JobStart, JobFire
  <1>4. ASSUME NEW t \in TaskId, CreateTask(t)
        PROVE  task'[x].state # "open"
    BY <1>4 DEF CreateTask, FreshTasks
  <1>5. ASSUME NEW w \in Web, WebWrite(w)
        PROVE  task'[x].state # "open"
    <2>1. CASE ToggleSimple(w)
      BY <2>1 DEF ToggleSimple, BookkeepingInv, ToggleReadsHold
    <2>2. CASE ToggleCommit(w) \/ EraseCommit(w)
      BY <2>2 DEF ToggleCommit, EraseCommit, Tasks
    <2>3. CASE DropCommit(w)
      BY <2>3 DEF DropCommit, Tasks
    <2> QED
      BY <1>5, <2>1, <2>2, <2>3 DEF WebWrite
  <1>6. CASE JobCommit
    <2>1. MadeTasksReserved /\ \A r \in ReminderId : job.made[r] # x
      BY NullAssumption DEF BookkeepingInv, MadeTasksReserved
    <2> QED
      BY <1>6, <2>1, JobCommitEffect
  <1> QED
    BY <1>1, <1>2, <1>3, <1>4, <1>5, <1>6, KindsOfSteps

\* toggle_simple_task reopens simple tasks only, even though the reminder_id
\* it goes by was read in an earlier statement.
THEOREM CompletedIsFinal == Spec => CompletedStaysCompleted
  <1>1. TypeOK /\ SlotsFilled /\ BookkeepingInv /\ [Next]_vars =>
          [\A t \in TaskId :
             task[t].state = "done" /\ task[t].reminder # NULL
               => task'[t].state # "open"]_vars
    BY NextKeepsCompleted
  <1> QED
    BY <1>1, InitTypes, InitBookkeeping, NextTypes, NextBookkeeping, PTL
    DEF Spec, CompletedStaysCompleted

-----------------------------------------------------------------------------
(* A firing reminder can be completed, from however many pages its tasks are *)
(* toggled.                                                                 *)

LEMMA NextFiringHasOpenTask ==
    TypeOK /\ SlotsFilled /\ BookkeepingInv /\ FiringHasOpenTask /\ [Next]_vars
    => FiringHasOpenTask'
  <1> SUFFICES ASSUME TypeOK, SlotsFilled, BookkeepingInv, FiringHasOpenTask, [Next]_vars,
                      NEW q \in ReminderId,
                      reminder'[q].state = "firing", reminder'[q].current # NULL
               PROVE  reminder'[q].current \in OpenTasks(q)'
    BY DEF FiringHasOpenTask
  <1> USE NullAssumption DEF TypeOK
  <1> DEFINE c == reminder[q].current
  <1>u. ASSUME reminder[q].state = "firing", reminder'[q].current = c,
               c \in TaskId =>
                   /\ task'[c].state = task[c].state
                   /\ task[c].reminder = q => task'[c].reminder = q
        PROVE  reminder'[q].current \in OpenTasks(q)'
    BY <1>u DEF FiringHasOpenTask, OpenTasks
  <1>o. reminder[q].state = "firing" /\ c # NULL =>
            c \in TaskId /\ task[c].state = "open" /\ task[c].reminder = q
    BY DEF FiringHasOpenTask, OpenTasks
  <1>1. CASE QuietStep
    BY <1>1, <1>u, QuietSteps DEF LinksStand
  <1>2. ASSUME NEW w \in Web, WebMove(w)
        PROVE  reminder'[q].current \in OpenTasks(q)'
    BY <1>2, <1>u, WebMoves
  <1>3. CASE NewReminder
    <2>1. task' = task /\ reminder'[q] = reminder[q]
      BY <1>3 DEF NewReminder, CreateReminder
    <2> QED
      BY <2>1, <1>u
  <1>4. ASSUME NEW t \in TaskId, CreateTask(t)
        PROVE  reminder'[q].current \in OpenTasks(q)'
    <2>1. reminder' = reminder /\ c # t
      BY <1>4, <1>o DEF CreateTask, FreshTasks
    <2> QED
      BY <1>4, <2>1, <1>u DEF CreateTask
  <1>5. ASSUME NEW w \in Web, ToggleSimple(w)
        PROVE  reminder'[q].current \in OpenTasks(q)'
    <2>1. reminder' = reminder /\ c # web[w].task
      BY <1>5, <1>o DEF ToggleSimple, BookkeepingInv, ToggleReadsHold
    <2> QED
      BY <1>5, <2>1, <1>u DEF ToggleSimple
  <1>6. ASSUME NEW w \in Web, ToggleCommit(w)
        PROVE  reminder'[q].current \in OpenTasks(q)'
    <2>1. q # web[w].reminder /\ reminder'[q] = reminder[q]
      BY <1>6 DEF ToggleCommit, Reminders
    <2>2. c # web[w].task
      BY <1>6, <2>1, <1>o DEF ToggleCommit, BookkeepingInv, ToggleReadsHold
    <2> QED
      BY <1>6, <2>1, <2>2, <1>u DEF ToggleCommit
  <1>7. ASSUME NEW w \in Web, EraseCommit(w)
        PROVE  reminder'[q].current \in OpenTasks(q)'
    <2>1. reminder'[q] = reminder[q] /\ c # web[w].task
      BY <1>7 DEF EraseCommit, LiveReminder, Reminders
    <2> QED
      BY <1>7, <2>1, <1>u DEF EraseCommit
  <1>8. ASSUME NEW w \in Web, DropCommit(w)
        PROVE  reminder'[q].current \in OpenTasks(q)'
    <2>1. q # web[w].reminder /\ reminder'[q] = reminder[q]
      BY <1>8 DEF DropCommit
    <2> QED
      BY <1>8, <2>1, <1>u DEF DropCommit, TasksOf, Tasks
  <1>9. CASE JobStart \/ \E r \in ReminderId : JobFire(r)
    BY <1>9, <1>u DEF JobStart, JobFire
  <1>10. CASE JobCommit
    <2>1. MadeTasksReserved
      BY DEF BookkeepingInv
    <2>2. CASE job.made[q] # NULL
      BY <1>10, <2>1, <2>2, JobCommitEffect DEF OpenTasks
    <2>3. CASE job.made[q] = NULL
      <3>1. reminder'[q] = reminder[q]
        BY <1>10, <2>1, <2>3, JobCommitEffect
      <3>2. task'[c] = task[c]
        BY <1>10, <2>1, <3>1, <1>o, JobCommitEffect DEF MadeTasksReserved
      <3> QED
        BY <3>1, <3>2, <1>u
    <2> QED
      BY <2>2, <2>3
  <1> QED
    BY <1>1, <1>2, <1>3, <1>4, <1>5, <1>6, <1>7, <1>8, <1>9, <1>10, KindsOfSteps DEF WebWrite

\* A firing reminder can be completed: its current task is open and its own,
\* whatever the job and the handlers do, unless that task was deleted.
THEOREM FiringCompletable == Spec => []FiringHasOpenTask
  <1>1. Init => FiringHasOpenTask
    BY DEF Init, FiringHasOpenTask
  <1> QED
    BY <1>1, InitTypes, InitBookkeeping, NextTypes, NextBookkeeping, NextFiringHasOpenTask, PTL
       DEF Spec

-----------------------------------------------------------------------------
(* Without a fault, no notification is repeated. *)

LEMMA NextDelivery ==
    /\ TypeOK /\ SlotsFilled /\ BookkeepingInv
    /\ DeliveryInv /\ RepeatsOnlyAfterFault /\ [Next]_vars
    => DeliveryInv' /\ RepeatsOnlyAfterFault'
  <1> SUFFICES ASSUME TypeOK, SlotsFilled, BookkeepingInv,
                      DeliveryInv, RepeatsOnlyAfterFault, [Next]_vars
               PROVE  DeliveryInv' /\ RepeatsOnlyAfterFault'
    OBVIOUS
  <1> USE NullAssumption DEF TypeOK
  \* Rows that stay linked, notified of or not, and a run that goes on.
  <1>d. ASSUME LinksStand, \A t \in owed' : t \in TaskId /\ task[t].state # "unused",
               \A row \in job'.queue : row \in Listed /\ RowHolds(row),
               job'.pc \in {"sent", "got", "looping"} => job'.row \in Listed /\ RowHolds(job'.row)
        PROVE  DeliveryInv'
    <2>1. \A row \in Listed : RowHolds(row) => RowHolds(row)'
      BY <1>d DEF LinksStand, RowHolds, Listed
    <2>2. \A t \in TaskId :
             (task[t].reminder # NULL => LiveReminder(task[t].reminder))'
      BY <1>d DEF LinksStand, DeliveryInv, LiveReminder, Tasks
    <2> QED
      BY <1>d, <2>1, <2>2 DEF LinksStand, DeliveryInv
  <1>r. ASSUME LinksStand, owed' \subseteq owed, faults' = 0 => faults = 0,
               job.pc \in {"sent", "got", "looping"} => job'.pc \in {"sent", "got", "looping"} /\ job'.row = job.row
        PROVE  RepeatsOnlyAfterFault'
    BY <1>r DEF LinksStand, RepeatsOnlyAfterFault
  <1>1. CASE Tick \/ UNCHANGED vars
    BY <1>1 DEF Tick, vars, DeliveryInv, RepeatsOnlyAfterFault, RowHolds, LiveReminder
  <1>2. ASSUME NEW w \in Web, WebMove(w)
        PROVE  DeliveryInv' /\ RepeatsOnlyAfterFault'
    BY <1>2, WebMoves DEF DeliveryInv, RepeatsOnlyAfterFault, RowHolds, LiveReminder
  <1>3. ASSUME \/ \E t \in TaskId, m \in Snoozes : SnoozeTask(t, m)
               \/ \E r \in ReminderId, due \in 0 .. Horizon, s \in Snoozes, p \in Periods :
                    UpdateReminder(r, due, s, p)
        PROVE  DeliveryInv' /\ RepeatsOnlyAfterFault'
    <2>1. LinksStand
      BY <1>3, QuietSteps, Zenon DEF QuietStep
    <2>2. job' = job /\ owed' \subseteq owed /\ faults' = faults
      BY <1>3 DEF SnoozeTask, UpdateReminder
    <2> QED
      BY <2>1, <2>2, <1>d, <1>r DEF DeliveryInv, SlotsFilled, Jobs
  <1>4. ASSUME JobList \/ JobEnd \/ JobCrash \/ JobGet \/ JobPostpone
               \/ \E row \in job.queue : JobSend(row) \/ JobRefused(row) \/ JobSendFails(row)
        PROVE  DeliveryInv' /\ RepeatsOnlyAfterFault'
    <2>1. LinksStand
      BY <1>4, QuietSteps, Zenon DEF QuietStep
    <2>2. CASE JobList
      <3>1. /\ job'.queue = {[task |-> t, reminder |-> task[t].reminder,
                                notify |-> task[t].notify] :
                                 t \in {u \in TaskId : DueForNotice(u)}}
            /\ job'.pc = "notifying" /\ job.pc = "listing" /\ owed' = owed /\ faults' = faults
        BY <2>2 DEF JobList, Jobs
      <3>2. \A row \in job'.queue : row \in Listed /\ RowHolds(row)
        BY <3>1 DEF RowHolds, DueForNotice, Listed, Tasks
      <3> QED
        BY <2>1, <3>1, <3>2, <1>d, <1>r DEF DeliveryInv
    <2>3. ASSUME NEW row \in job.queue, JobSend(row)
          PROVE  DeliveryInv' /\ RepeatsOnlyAfterFault'
      <3>1. /\ job'.pc = "sent" /\ job'.queue \subseteq job.queue /\ job'.row = row
            /\ owed' = owed \cup {row.task} /\ faults' = faults /\ job.pc = "notifying"
        BY <2>3 DEF JobSend, Jobs
      <3>2. row \in Listed /\ row.task \in TaskId /\ RowHolds(row)
        BY DEF DeliveryInv, Jobs, Listed
      <3>3. DeliveryInv'
        BY <2>1, <3>1, <3>2, <1>d DEF DeliveryInv, RowHolds, Jobs
      <3>4. RepeatsOnlyAfterFault'
        BY <2>1, <3>1 DEF LinksStand, RepeatsOnlyAfterFault
      <3> QED
        BY <3>3, <3>4
    <2>8. ASSUME NEW row \in job.queue, JobRefused(row)
          PROVE  DeliveryInv' /\ RepeatsOnlyAfterFault'
      <3>1. /\ job'.pc = "sent" /\ job'.queue \subseteq job.queue /\ job'.row = row
            /\ owed' = owed /\ faults' # 0
        BY <2>8 DEF JobRefused, Jobs
      <3>2. row \in Listed /\ RowHolds(row)
        BY DEF DeliveryInv, Jobs
      <3>3. DeliveryInv'
        BY <2>1, <3>1, <3>2, <1>d DEF DeliveryInv, RowHolds, Jobs
      <3> QED
        BY <3>1, <3>3 DEF RepeatsOnlyAfterFault
    <2>4. ASSUME NEW row \in job.queue, JobSendFails(row)
          PROVE  DeliveryInv' /\ RepeatsOnlyAfterFault'
      <3>1. /\ job'.pc = "idle" /\ job'.queue = {}
            /\ owed' \subseteq owed \cup {row.task} /\ faults' # 0
        BY <2>4 DEF JobSendFails, IdleJob
      <3>2. row.task \in TaskId /\ RowHolds(row)
        BY DEF DeliveryInv, Jobs, Listed
      <3>3. DeliveryInv'
        BY <2>1, <3>1, <3>2, <1>d DEF DeliveryInv, RowHolds
      <3> QED
        BY <3>1, <3>3 DEF RepeatsOnlyAfterFault
    <2>5. CASE JobGet
      <3>1. owed' = owed /\ (faults' = 0 => faults = 0) /\ job.pc = "sent"
        BY <2>5, JobGetEffect
      <3>2. CASE job' = IdleJob
        <4>1. ASSUME faults' = 0
              PROVE  job.row.task \in TaskId /\ task[job.row.task].reminder = NULL
          <5>1. ~LiveReminder(job.row.reminder)
            BY <2>5, <3>2, <4>1, JobGetEffect DEF Jobs, IdleJob
          <5> QED
            BY <3>1, <5>1 DEF DeliveryInv, RowHolds, SlotsFilled, Listed
        <4>2. RepeatsOnlyAfterFault'
          BY <2>1, <3>1, <4>1 DEF LinksStand, RepeatsOnlyAfterFault
        <4>3. DeliveryInv'
          BY <2>1, <3>1, <3>2, <1>d DEF IdleJob, DeliveryInv
        <4> QED
          BY <4>2, <4>3
      <3>3. CASE job' # IdleJob
        <4>1. job'.pc \in {"got", "looping"} /\ job'.row = job.row /\ job'.queue = job.queue
          BY <2>5, <3>3, JobGetEffect
        <4> QED
          BY <2>1, <3>1, <4>1, <1>d, <1>r DEF DeliveryInv, SlotsFilled, Jobs
      <3> QED
        BY <3>2, <3>3
    <2>6. CASE JobPostpone
      <3>1. /\ job'.pc = "notifying" /\ job'.queue = job.queue
            /\ owed' = owed \ {job.row.task} /\ faults' = faults
        BY <2>6 DEF JobPostpone, Jobs
      <3>2. DeliveryInv'
        BY <2>1, <3>1, <1>d DEF DeliveryInv, Jobs
      <3>3. RepeatsOnlyAfterFault'
        BY <2>1, <3>1 DEF LinksStand, RepeatsOnlyAfterFault
      <3> QED
        BY <3>2, <3>3
    <2>7. CASE JobEnd \/ JobCrash
      <3>1. /\ job' = IdleJob /\ owed' = owed
            /\ faults' = 0 => faults = 0 /\ job.pc = "notifying"
        BY <2>7 DEF JobEnd, JobCrash
      <3>2. DeliveryInv'
        BY <2>1, <3>1, <1>d DEF DeliveryInv, IdleJob
      <3>3. RepeatsOnlyAfterFault'
        BY <2>1, <3>1 DEF LinksStand, RepeatsOnlyAfterFault
      <3> QED
        BY <3>2, <3>3
    <2> QED
      BY <1>4, <2>2, <2>3, <2>4, <2>5, <2>6, <2>7, <2>8
  <1>5. CASE NewReminder
    <2>1. UNCHANGED <<task, job, owed, faults>>
      BY <1>5 DEF NewReminder, CreateReminder
    <2>2. \A r \in ReminderId : LiveReminder(r) => LiveReminder(r)'
      BY <1>5 DEF NewReminder, CreateReminder, LiveReminder
    <2> QED
      BY <2>1, <2>2 DEF DeliveryInv, RepeatsOnlyAfterFault, RowHolds, Tasks
  \* What handlers write: a task that was inserted keeps its reminder or loses it.
  <1>6. ASSUME UNCHANGED <<job, owed, faults>>,
               \A t \in TaskId : task[t].state # "unused" =>
                   /\ task'[t].state # "unused"
                   /\ task'[t].reminder \in {NULL, task[t].reminder}
                   /\ task'[t].state = "open" /\ task'[t].reminder # NULL =>
                          task[t].state = "open",
               \A t \in TaskId : task'[t].reminder # NULL =>
                   /\ task'[t].reminder = task[t].reminder
                   /\ LiveReminder(task[t].reminder)
                        => reminder'[task[t].reminder].state
                             \in {"pending", "firing", "completed"}
        PROVE  DeliveryInv' /\ RepeatsOnlyAfterFault'
    <2>1. \A row \in Listed : RowHolds(row) => RowHolds(row)'
      BY <1>6 DEF RowHolds, Listed
    <2>2. DeliveryInv'
      BY <1>6, <2>1 DEF DeliveryInv, SlotsFilled, Jobs, LiveReminder
    <2>3. RepeatsOnlyAfterFault'
      BY <1>6 DEF RepeatsOnlyAfterFault, DeliveryInv
    <2> QED
      BY <2>2, <2>3
  <1>7. ASSUME NEW t \in TaskId, CreateTask(t)
        PROVE  DeliveryInv' /\ RepeatsOnlyAfterFault'
    <2>1. task[t].state = "unused" /\ task[t].reminder = NULL
      BY <1>7 DEF CreateTask, FreshTasks, BookkeepingInv, AbsentRowsUnlinked, LiveTask
    <2> QED
      BY <1>7, <1>6, <2>1 DEF CreateTask, Tasks, LiveReminder
  <1>8. ASSUME NEW w \in Web, WebWrite(w)
        PROVE  DeliveryInv' /\ RepeatsOnlyAfterFault'
    <2>1. CASE ToggleSimple(w)
      <3>1. task[web[w].task].reminder = NULL
        BY <2>1 DEF ToggleSimple, BookkeepingInv, ToggleReadsHold
      <3> QED
        BY <2>1, <3>1, <1>6 DEF ToggleSimple, Tasks, LiveReminder
    <2>2. CASE ToggleCommit(w)
      BY <2>2, <1>6 DEF ToggleCommit, Tasks, Reminders, LiveReminder
    <2>3. CASE EraseCommit(w)
      BY <2>3, <1>6 DEF EraseCommit, Tasks, Reminders, LiveReminder
    <2>4. CASE DropCommit(w)
      BY <2>4, <1>6 DEF DropCommit, TasksOf, LiveTask, BookkeepingInv, AbsentRowsUnlinked,
                        Tasks, LiveReminder
    <2> QED
      BY <1>8, <2>1, <2>2, <2>3, <2>4 DEF WebWrite
  <1>9. CASE JobStart
    BY <1>9 DEF JobStart, IdleJob, DeliveryInv, RepeatsOnlyAfterFault, RowHolds, LiveReminder
  <1>10. ASSUME NEW r \in ReminderId, JobFire(r)
         PROVE  DeliveryInv' /\ RepeatsOnlyAfterFault'
    <2>1. job.pc = "firing" /\ UNCHANGED <<task, reminder, owed, faults>>
      BY <1>10 DEF JobFire
    <2>2. job'.pc \in {"firing", "idle"} /\ job'.queue \subseteq job.queue
      BY <1>10, JobFireEffect DEF IdleJob
    <2>3. DeliveryInv'
      BY <2>1, <2>2 DEF DeliveryInv, RowHolds, LiveReminder
    <2>4. RepeatsOnlyAfterFault'
      BY <2>1, <2>2 DEF RepeatsOnlyAfterFault
    <2> QED
      BY <2>3, <2>4
  <1>11. CASE JobCommit
    <2>1. \A t \in TaskId :
             \/ task'[t] = task[t]
             \/ /\ task[t].state = "unused"
                /\ \E r \in ReminderId : task'[t].reminder = r /\ LiveReminder(r)'
      <3> SUFFICES ASSUME NEW t \in TaskId, task'[t] # task[t]
                   PROVE  /\ task[t].state = "unused"
                          /\ \E r \in ReminderId : task'[t].reminder = r /\ LiveReminder(r)'
        OBVIOUS
      <3>1. PICK r \in ReminderId : job.made[r] = t
        BY <1>11, JobCommitEffect DEF BookkeepingInv
      <3>2. /\ task[t].state = "unused"
            /\ task'[t].reminder = r /\ reminder'[r].state = "firing"
        BY <1>11, <3>1, JobCommitEffect DEF BookkeepingInv
      <3> QED
        BY <3>2 DEF LiveReminder
    <2>2. \A r \in ReminderId : LiveReminder(r) => LiveReminder(r)'
      BY <1>11, JobCommitEffect DEF LiveReminder, BookkeepingInv
    <2>3. /\ job'.queue = {} /\ job'.pc = "listing" /\ job.pc = "firing"
          /\ owed' = owed /\ faults' = faults
      BY <1>11 DEF JobCommit, IdleJob
    <2>4. \A t \in owed : task'[t] = task[t]
      BY <2>1 DEF DeliveryInv
    <2>5. \A t \in TaskId :
             task'[t].reminder # NULL
               => \E r \in ReminderId : task'[t].reminder = r /\ LiveReminder(r)'
      <3> SUFFICES ASSUME NEW t \in TaskId, task'[t].reminder # NULL, task'[t] = task[t]
                   PROVE  \E r \in ReminderId : task'[t].reminder = r /\ LiveReminder(r)'
        BY <2>1
      <3>1. task[t].reminder \in ReminderId /\ LiveReminder(task[t].reminder)
        BY DEF Tasks, DeliveryInv
      <3> QED
        BY <3>1, <2>2
    <2>6. DeliveryInv'
      BY <2>3, <2>4, <2>5 DEF LiveReminder, DeliveryInv
    <2>7. RepeatsOnlyAfterFault'
      BY <2>3, <2>4 DEF RepeatsOnlyAfterFault
    <2> QED
      BY <2>6, <2>7
  <1> QED
    BY <1>1, <1>2, <1>3, <1>4, <1>5, <1>7, <1>8, <1>9, <1>10, <1>11, KindsOfSteps, Zenon
       DEF QuietStep

\* Without a fault or a panic nothing is delivered twice without having been put
\* off in between: a delivered task that is still to be put off is the one the
\* run is busy with.
THEOREM NoRepeatWithoutFault == Spec => []RepeatsOnlyAfterFault
  <1>1. Init => DeliveryInv /\ RepeatsOnlyAfterFault
    BY DEF Init, DeliveryInv, RepeatsOnlyAfterFault, IdleJob
  <1> QED
    BY <1>1, InitTypes, InitBookkeeping, NextTypes, NextBookkeeping, NextDelivery, PTL DEF Spec

-----------------------------------------------------------------------------
(* With a task toggled from one page at a time, each occurrence of a        *)
(* reminder has one open task.                                              *)

LEMMA InitSerial == Init => SerialInv
  BY NullAssumption
  DEF Init, SerialInv, OpenTaskIsCurrent, OpenTasks, FiringHasOpenTask, LocksExclusive,
      LocksTask, LocksReminder, FiringReadsHold, CompletingOpenTask, Toggling,
      IdleHandler, IdleJob

LEMMA NextLocks ==
    TypeOK /\ SlotsFilled /\ BookkeepingInv /\ LocksExclusive /\ [Next]_vars
    => LocksExclusive'
  <1> SUFFICES ASSUME TypeOK, SlotsFilled, BookkeepingInv, LocksExclusive, [Next]_vars
               PROVE  LocksExclusive'
    OBVIOUS
  <1> USE NullAssumption DEF TypeOK, LocksExclusive, LocksTask, LocksReminder, LiveReminder
  <1>1. CASE QuietStep
    BY <1>1, QuietSteps DEF LinksStand, TransactionStands
  <1>2. ASSUME NEW w \in Web, WebMove(w)
        PROVE  LocksExclusive'
    BY <1>2, WebMoves DEF Forgets, GoesOn, Reads, Erases, Drops, TaskFree, ReminderFree
  <1>3. CASE NewReminder
    BY <1>3 DEF NewReminder, CreateReminder
  <1>4. ASSUME NEW t \in TaskId, CreateTask(t)
        PROVE  LocksExclusive'
    BY <1>4 DEF CreateTask
  <1>5. ASSUME NEW w \in Web, WebWrite(w)
        PROVE  LocksExclusive'
    <2>1. web' = [web EXCEPT ![w] = IdleHandler] /\ job' = job
      BY <1>5 DEF WebWrite, ToggleSimple, ToggleCommit, EraseCommit, DropCommit
    <2>2. ASSUME NEW r \in ReminderId, LiveReminder(r), ~LocksReminder(w, r)
          PROVE  LiveReminder(r)'
      <3>1. CASE ToggleSimple(w)
        BY <2>2, <3>1 DEF ToggleSimple
      <3>2. CASE ToggleCommit(w)
        BY <2>2, <3>2 DEF ToggleCommit, Reminders
      <3>3. CASE EraseCommit(w)
        BY <2>2, <3>3 DEF EraseCommit, Reminders
      <3>4. CASE DropCommit(w)
        BY <2>2, <3>4 DEF DropCommit
      <3> QED
        BY <1>5, <3>1, <3>2, <3>3, <3>4 DEF WebWrite
    <2> QED
      BY <2>1, <2>2 DEF IdleHandler
  <1>6. CASE JobStart
    BY <1>6 DEF JobStart, IdleJob
  <1>7. ASSUME NEW r \in ReminderId, JobFire(r)
        PROVE  LocksExclusive'
    <2>1. CASE job' = IdleJob
      BY <1>7, <2>1, JobFireEffect DEF IdleJob
    <2>2. CASE job' # IdleJob
      BY <1>7, <2>2, JobFireEffect DEF ReminderFree
    <2> QED
      BY <2>1, <2>2
  <1>8. CASE JobCommit
    BY <1>8, JobCommitEffect DEF BookkeepingInv
  <1> QED
    BY <1>1, <1>2, <1>3, <1>4, <1>5, <1>6, <1>7, <1>8, KindsOfSteps

LEMMA NextCompleting ==
    TypeOK /\ SlotsFilled /\ BookkeepingInv /\ SerialInv /\ SerialToggles /\ [Next]_vars
    => CompletingOpenTask'
  <1> SUFFICES ASSUME TypeOK, SlotsFilled, BookkeepingInv, SerialInv, SerialToggles, [Next]_vars
               PROVE  CompletingOpenTask'
    OBVIOUS
  <1> USE NullAssumption DEF TypeOK, SlotsFilled, CompletingOpenTask, Toggling, LiveReminder,
                             LiveTask, SerialInv
  <1>1. CASE QuietStep
    BY <1>1, QuietSteps DEF LinksStand, Handlers
  <1>2. ASSUME NEW w \in Web, WebMove(w)
        PROVE  CompletingOpenTask'
    BY <1>2, WebMoves DEF Forgets, GoesOn, Reads, Erases, Drops
  <1>3. CASE NewReminder
    BY <1>3 DEF NewReminder, CreateReminder, BookkeepingInv, ReferencesInserted, Handlers
  <1>4. ASSUME NEW t \in TaskId, CreateTask(t)
        PROVE  CompletingOpenTask'
    BY <1>4 DEF CreateTask, FreshTasks, BookkeepingInv, ToggleReadsHold
  <1>5. ASSUME NEW w \in Web, ToggleSimple(w)
        PROVE  CompletingOpenTask'
    BY <1>5 DEF ToggleSimple, IdleHandler
  <1>6. ASSUME NEW w \in Web, ToggleCommit(w)
        PROVE  CompletingOpenTask'
    BY <1>6 DEF ToggleCommit, IdleHandler, Tasks, Reminders, Handlers
  \* The row that goes is locked, so no toggle has marked it.
  <1>7. ASSUME NEW w \in Web, EraseCommit(w)
        PROVE  CompletingOpenTask'
    BY <1>7 DEF EraseCommit, IdleHandler, LocksExclusive, LocksTask, Reminders, Handlers
  \* The reminder of a marked task goes only once the mark is committed.
  <1>8. ASSUME NEW w \in Web, DropCommit(w)
        PROVE  CompletingOpenTask'
    <2> DEFINE d == web[w].reminder
    <2>1. /\ web'[w].pc = "idle" /\ \A v \in Web : v # w => web'[v] = web[v]
          /\ d \in ReminderId /\ reminder'[d].state = "deleted"
          /\ \A r \in ReminderId : r # d => reminder'[r] = reminder[r]
      BY <1>8 DEF DropCommit, IdleHandler
    <2>2. \A t \in TaskId :
             /\ task'[t].state = task[t].state
             /\ task[t].reminder # d => task'[t] = task[t]
      BY <1>8, <2>1 DEF DropCommit, TasksOf, Tasks
    <2>3. ASSUME NEW v \in Web, web[v].pc \in {"marked", "got"}
          PROVE  ~(LiveReminder(web[v].reminder) /\ web[v].reminder = d)
      BY <1>8, <2>1, <2>3 DEF DropCommit, TasksOf, TaskFree, LocksTask
    <2> QED
      BY <2>1, <2>2, <2>3 DEF Handlers
  <1>9. CASE JobStart \/ \E r \in ReminderId : JobFire(r)
    <2>1. UNCHANGED <<task, reminder, web>>
      BY <1>9 DEF JobStart, JobFire
    <2> QED
      BY <2>1
  <1>10. CASE JobCommit
    <2> USE DEF BookkeepingInv
    <2>1. \A t \in TaskId : task[t].state # "unused" => task'[t] = task[t]
      BY <1>10, JobCommitEffect
    <2>2. \A r \in ReminderId : LiveReminder(r)' <=> LiveReminder(r)
      BY <1>10, JobCommitEffect DEF FiringReadsHold
    <2>3. web' = web
      BY <1>10, JobCommitEffect
    <2> QED
      BY <2>1, <2>2, <2>3 DEF ToggleReadsHold, Handlers
  <1> QED
    BY <1>1, <1>2, <1>3, <1>4, <1>5, <1>6, <1>7, <1>8, <1>9, <1>10, KindsOfSteps DEF WebWrite

LEMMA NextFiring ==
    TypeOK /\ SlotsFilled /\ BookkeepingInv /\ SerialInv /\ [Next]_vars => FiringReadsHold'
  <1> SUFFICES ASSUME TypeOK, SlotsFilled, BookkeepingInv, SerialInv, [Next]_vars
               PROVE  FiringReadsHold'
    OBVIOUS
  <1> USE NullAssumption DEF TypeOK, SlotsFilled, FiringReadsHold, SerialInv
  <1>t. job.todo \subseteq ReminderId
    BY DEF Jobs
  <1>1. CASE QuietStep
    BY <1>1, <1>t, QuietSteps DEF LinksStand, TransactionStands
  <1>2. ASSUME NEW w \in Web, WebMove(w)
        PROVE  FiringReadsHold'
    BY <1>2, WebMoves
  <1>3. CASE NewReminder
    BY <1>3, <1>t DEF NewReminder, CreateReminder
  <1>4. ASSUME NEW t \in TaskId, CreateTask(t)
        PROVE  FiringReadsHold'
    BY <1>4 DEF CreateTask
  <1>5. ASSUME NEW w \in Web, ToggleSimple(w)
        PROVE  FiringReadsHold'
    BY <1>5 DEF ToggleSimple
  \* What is completed is firing, so it is not in the job's list.
  <1>6. ASSUME NEW w \in Web, ToggleCommit(w)
        PROVE  FiringReadsHold'
    <2>1. web[w].reminder \in ReminderId /\ reminder[web[w].reminder].state = "firing"
      BY <1>6 DEF ToggleCommit, CompletingOpenTask, OpenTaskIsCurrent, OpenTasks
    <2> QED
      BY <1>6, <1>t, <2>1 DEF ToggleCommit
  <1>7. ASSUME NEW w \in Web, EraseCommit(w)
        PROVE  FiringReadsHold'
    BY <1>7, <1>t DEF EraseCommit, Reminders
  <1>8. ASSUME NEW w \in Web, DropCommit(w)
        PROVE  FiringReadsHold'
    BY <1>8, <1>t DEF DropCommit, LocksExclusive, LocksReminder
  <1>9. CASE JobStart
    BY <1>9 DEF JobStart, IdleJob, Outstanding
  <1>10. ASSUME NEW r \in ReminderId, JobFire(r)
         PROVE  FiringReadsHold'
    <2>1. CASE job' = IdleJob
      BY <1>10, <2>1, JobFireEffect DEF IdleJob
    <2>2. CASE job' # IdleJob
      BY <1>10, <2>2, <1>t, JobFireEffect DEF LiveReminder
    <2> QED
      BY <2>1, <2>2
  <1>11. CASE JobCommit
    BY <1>11, JobCommitEffect DEF BookkeepingInv
  <1> QED
    BY <1>1, <1>2, <1>3, <1>4, <1>5, <1>6, <1>7, <1>8, <1>9, <1>10, <1>11, KindsOfSteps
       DEF WebWrite

LEMMA NextOpenTasks ==
    TypeOK /\ SlotsFilled /\ BookkeepingInv /\ SerialInv /\ [Next]_vars
    => OpenTaskIsCurrent'
  <1> SUFFICES ASSUME TypeOK, SlotsFilled, BookkeepingInv, SerialInv, [Next]_vars,
                      NEW q \in ReminderId, NEW c \in TaskId,
                      task'[c].state = "open", task'[c].reminder = q
               PROVE  reminder'[q].state = "firing" /\ reminder'[q].current = c
    BY DEF OpenTaskIsCurrent, OpenTasks
  <1> USE NullAssumption DEF TypeOK, SlotsFilled, SerialInv
  <1>u. ASSUME task[c].state = "open", task[c].reminder = q,
               reminder'[q].state = reminder[q].state,
               reminder'[q].current = reminder[q].current
        PROVE  reminder'[q].state = "firing" /\ reminder'[q].current = c
    BY <1>u DEF OpenTaskIsCurrent, OpenTasks
  <1>1. CASE QuietStep
    BY <1>1, <1>u, QuietSteps DEF LinksStand
  <1>2. ASSUME NEW w \in Web, WebMove(w)
        PROVE  reminder'[q].state = "firing" /\ reminder'[q].current = c
    BY <1>2, <1>u, WebMoves
  <1>3. CASE NewReminder
    BY <1>3, <1>u DEF NewReminder, CreateReminder, BookkeepingInv, ReferencesInserted
  <1>4. ASSUME NEW t \in TaskId, CreateTask(t)
        PROVE  reminder'[q].state = "firing" /\ reminder'[q].current = c
    BY <1>4, <1>u DEF CreateTask, FreshTasks, Tasks, BookkeepingInv, AbsentRowsUnlinked,
                      LiveTask
  <1>5. ASSUME NEW w \in Web, ToggleSimple(w)
        PROVE  reminder'[q].state = "firing" /\ reminder'[q].current = c
    BY <1>5, <1>u DEF ToggleSimple, Tasks, BookkeepingInv, ToggleReadsHold
  \* The completed task was the only open one.
  <1>6. ASSUME NEW w \in Web, ToggleCommit(w)
        PROVE  reminder'[q].state = "firing" /\ reminder'[q].current = c
    <2>1. /\ c # web[w].task /\ task'[c] = task[c]
          /\ task[web[w].task].state = "open"
          /\ task[web[w].task].reminder = web[w].reminder
      BY <1>6 DEF ToggleCommit, Tasks, CompletingOpenTask
    <2>2. q # web[w].reminder
      BY <1>6, <2>1 DEF ToggleCommit, OpenTaskIsCurrent, OpenTasks
    <2> QED
      BY <1>6, <2>1, <2>2, <1>u DEF ToggleCommit
  <1>7. ASSUME NEW w \in Web, EraseCommit(w)
        PROVE  reminder'[q].state = "firing" /\ reminder'[q].current = c
    <2>1. c # web[w].task /\ task'[c] = task[c]
      BY <1>7 DEF EraseCommit
    <2>2. reminder[q].state = "firing" /\ reminder[q].current = c
      BY <2>1 DEF OpenTaskIsCurrent, OpenTasks
    <2> QED
      BY <1>7, <2>1, <2>2, <1>u DEF EraseCommit
  <1>8. ASSUME NEW w \in Web, DropCommit(w)
        PROVE  reminder'[q].state = "firing" /\ reminder'[q].current = c
    <2>1. q # web[w].reminder /\ task'[c] = task[c]
      BY <1>8 DEF DropCommit, TasksOf, Tasks, LiveTask
    <2> QED
      BY <1>8, <2>1, <1>u DEF DropCommit
  <1>9. CASE JobStart \/ \E r \in ReminderId : JobFire(r)
    BY <1>9, <1>u DEF JobStart, JobFire
  <1>10. CASE JobCommit
    <2>1. MadeTasksReserved
      BY DEF BookkeepingInv
    <2>2. CASE job.made[q] # NULL
      <3>1. OpenTasks(q) = {}
        BY <2>2 DEF FiringReadsHold, OpenTaskIsCurrent
      <3>2. \E r \in ReminderId : job.made[r] = c
        BY <1>10, <2>1, <3>1, JobCommitEffect DEF OpenTasks
      <3> QED
        BY <1>10, <2>1, <3>2, JobCommitEffect
    <2>3. CASE job.made[q] = NULL
      BY <1>10, <2>1, <2>3, <1>u, JobCommitEffect
    <2> QED
      BY <2>2, <2>3
  <1> QED
    BY <1>1, <1>2, <1>3, <1>4, <1>5, <1>6, <1>7, <1>8, <1>9, <1>10, KindsOfSteps DEF WebWrite

LEMMA SerialInvariant ==
    SerialToggles => (Spec => [](TypeOK /\ SlotsFilled /\ BookkeepingInv /\ SerialInv))
  <1> SUFFICES ASSUME SerialToggles
               PROVE  Spec => [](TypeOK /\ SlotsFilled /\ BookkeepingInv /\ SerialInv)
    OBVIOUS
  <1>1. TypeOK /\ SlotsFilled /\ BookkeepingInv /\ SerialInv /\ [Next]_vars => SerialInv'
    BY NextLocks, NextCompleting, NextFiring, NextOpenTasks, NextFiringHasOpenTask DEF SerialInv
  <1> QED
    BY <1>1, InitTypes, InitBookkeeping, InitSerial, NextTypes, NextBookkeeping, PTL
    DEF Spec

\* A reminder has at most one open task, which is its current one, and only
\* while it fires.
THEOREM OneOpenTask == SerialToggles => (Spec => []OpenTaskIsCurrent)
  BY SerialInvariant, PTL DEF SerialInv

-----------------------------------------------------------------------------
(* Reminders implements ReminderLifecycle. *)

LEMMA NextImplements ==
    ASSUME TypeOK, SlotsFilled, BookkeepingInv, SerialInv, [Next]_vars
    PROVE  [Lifecycle!Next]_Phases
  <1> USE NullAssumption DEF TypeOK, SerialInv, Phases
  <1>1. CASE QuietStep
    BY <1>1, QuietSteps DEF LinksStand
  <1>2. ASSUME NEW w \in Web, WebMove(w)
        PROVE  [Lifecycle!Next]_Phases
    BY <1>2, WebMoves
  <1>3. CASE NewReminder
    <2>1. PICK r \in ReminderId, due \in 0 .. Horizon, s \in Snoozes, p \in Periods :
             CreateReminder(r, due, s, p)
      BY <1>3 DEF NewReminder
    <2>2. Phases[r] = "unused" /\ Phases' = [Phases EXCEPT ![r] = "pending"]
      BY <2>1 DEF CreateReminder
    <2> QED
      BY <2>2 DEF Lifecycle!Next, Lifecycle!Create, Lifecycle!Move
  <1>4. CASE \/ \E t \in TaskId : CreateTask(t)
             \/ \E w \in Web : ToggleSimple(w)
             \/ JobStart \/ \E r \in ReminderId : JobFire(r)
    BY <1>4 DEF CreateTask, ToggleSimple, JobStart, JobFire
  <1>5. ASSUME NEW w \in Web, ToggleCommit(w)
        PROVE  [Lifecycle!Next]_Phases
    <2> DEFINE t == web[w].task
               r == web[w].reminder
    <2>1. t \in TaskId /\ r \in ReminderId /\ t \in OpenTasks(r)
      BY <1>5 DEF ToggleCommit, CompletingOpenTask, OpenTasks, SlotsFilled
    <2>2. Phases[r] = "firing"
      BY <2>1 DEF OpenTaskIsCurrent
    <2>3. \/ Phases' = [Phases EXCEPT ![r] = "pending"]
          \/ Phases' = [Phases EXCEPT ![r] = "completed"]
      <3>1. /\ reminder'[r].state \in {"pending", "completed"}
            /\ \A q \in ReminderId : q # r => reminder'[q] = reminder[q]
        BY <1>5, <2>1 DEF ToggleCommit, Reminders
      <3>2. \A q \in ReminderId :
              Phases'[q] = IF q = r THEN reminder'[r].state ELSE Phases[q]
        BY <3>1, <2>1
      <3>3. Phases' = [Phases EXCEPT ![r] = reminder'[r].state]
        BY <3>2
      <3> QED
        BY <3>1, <3>3
    <2> QED
      BY <2>1, <2>2, <2>3 DEF Lifecycle!Next, Lifecycle!Complete, Lifecycle!Move
  <1>6. ASSUME NEW w \in Web, EraseCommit(w)
        PROVE  [Lifecycle!Next]_Phases
    <2> DEFINE e == web[w].task
               Loses(r) == reminder[r].state = "firing" /\ reminder[r].current = e
    <2>1. e \in TaskId
      BY <1>6 DEF EraseCommit, SlotsFilled
    <2>2. \A r \in ReminderId :
            /\ reminder'[r].state = reminder[r].state
            /\ reminder'[r].current = IF LiveReminder(r) /\ reminder[r].current = e
                                      THEN NULL ELSE reminder[r].current
      BY <1>6 DEF EraseCommit, Reminders
    <2>3. \A r \in ReminderId : Loses(r) => task[e].reminder = r
      BY <2>1 DEF FiringHasOpenTask, OpenTasks
    <2>4. CASE \E r \in ReminderId : Loses(r)
      <3>1. PICK r \in ReminderId : Loses(r)
        BY <2>4
      <3>2. \A q \in ReminderId : Loses(q) => q = r
        BY <3>1, <2>3
      <3>3. e # NULL
        BY <2>1
      <3>4. \A q \in ReminderId : Phases'[q] = IF q = r THEN "stuck" ELSE Phases[q]
        <4>1. ASSUME NEW q \in ReminderId, q # r
              PROVE  Phases'[q] = Phases[q]
          <5>1. reminder[q].state = "firing" => reminder[q].current # e
            BY <3>2, <4>1
          <5> QED
            BY <5>1, <2>2
        <4>2. Phases'[r] = "stuck"
          BY <3>1, <2>2 DEF LiveReminder
        <4> QED
          BY <4>1, <4>2
      <3>5. Phases[r] = "firing" /\ Phases' = [Phases EXCEPT ![r] = "stuck"]
        BY <3>1, <3>3, <3>4
      <3> QED
        BY <3>5 DEF Lifecycle!Next, Lifecycle!LoseTask, Lifecycle!Move
    <2>5. CASE ~\E r \in ReminderId : Loses(r)
      <3>1. Phases' = Phases
        BY <2>2, <2>5
      <3> QED
        BY <3>1
    <2> QED
      BY <2>4, <2>5
  <1>7. ASSUME NEW w \in Web, DropCommit(w)
        PROVE  [Lifecycle!Next]_Phases
    <2> DEFINE r == web[w].reminder
    <2>1. r \in ReminderId /\ LiveReminder(r)
      BY <1>7 DEF DropCommit, SlotsFilled, LocksExclusive, LocksReminder
    <2>2. Phases[r] \in {"pending", "firing", "stuck", "completed"}
      BY <2>1 DEF LiveReminder
    <2>3. Phases' = [Phases EXCEPT ![r] = "deleted"]
      BY <1>7, <2>1 DEF DropCommit
    <2> QED
      BY <2>1, <2>2, <2>3 DEF Lifecycle!Next, Lifecycle!Delete, Lifecycle!Move
  <1>8. CASE JobCommit
    <2> DEFINE rs == {r \in ReminderId : job.made[r] # NULL}
    <2>1. \A r \in rs : Phases[r] = "pending"
      BY DEF FiringReadsHold
    <2>2. \A r \in ReminderId :
            Phases'[r] = IF r \in rs THEN "firing" ELSE Phases[r]
      BY <1>8, JobCommitEffect DEF BookkeepingInv
    <2>3. Phases' = [r \in ReminderId |-> IF r \in rs THEN "firing" ELSE Phases[r]]
      BY <2>2
    <2>5. rs \in SUBSET ReminderId
      OBVIOUS
    <2> HIDE DEF rs
    <2>6. \E x \in SUBSET ReminderId : Lifecycle!Fire(x)
      BY <2>1, <2>3, <2>5 DEF Lifecycle!Fire
    <2>7. Lifecycle!Next
      BY <2>6 DEF Lifecycle!Next
    <2> QED
      BY <2>7
  <1> QED
    BY <1>1, <1>2, <1>3, <1>4, <1>5, <1>6, <1>7, <1>8, KindsOfSteps DEF WebWrite

\* Whatever the handlers, the job, the cascades and the faults do, each
\* occurrence of a reminder fires once and is completed once.
THEOREM LifecycleImplemented == SerialToggles => (Spec => ImplementsLifecycle)
  <1> SUFFICES ASSUME SerialToggles
               PROVE  Spec => ImplementsLifecycle
    OBVIOUS
  <1>1. Init => Lifecycle!Init
    BY DEF Init, Lifecycle!Init, Phases
  <1>2. TypeOK /\ SlotsFilled /\ BookkeepingInv /\ SerialInv /\ [Next]_vars
          => [Lifecycle!Next]_Phases
    BY NextImplements
  <1> QED
    BY <1>1, <1>2, SerialInvariant, PTL DEF Spec, ImplementsLifecycle, Lifecycle!Spec

=============================================================================
