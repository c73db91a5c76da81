-------------------------- MODULE ReminderLifecycle --------------------------
(***************************************************************************)
(* What launchpad promises of its reminders: each occurrence fires once    *)
(* and is completed once.  A repeating reminder then waits for its next    *)
(* occurrence, any other one is over.  Reminders implements this           *)
(* specification (see Phases there).                                       *)
(*                                                                         *)
(* "stuck" is part of the promise because the code has it: deleting the    *)
(* task of a firing reminder leaves the reminder firing with nothing to    *)
(* complete, and only deleting the reminder ends that.                     *)
(***************************************************************************)
CONSTANT ReminderId

VARIABLE phase      \* the phase each reminder is in

Phase == {"unused", "pending", "firing", "stuck", "completed", "deleted"}

TypeOK == phase \in [ReminderId -> Phase]

Init == phase = [r \in ReminderId |-> "unused"]

Move(r, from, to) ==
    /\ phase[r] \in from
    /\ phase' = [phase EXCEPT ![r] = to]

Create(r) == Move(r, {"unused"}, "pending")

\* One run fires every reminder it found outstanding, in one transaction.
Fire(rs) ==
    /\ \A r \in rs : phase[r] = "pending"
    /\ phase' = [r \in ReminderId |-> IF r \in rs THEN "firing" ELSE phase[r]]

Complete(r) == Move(r, {"firing"}, "pending") \/ Move(r, {"firing"}, "completed")

LoseTask(r) == Move(r, {"firing"}, "stuck")

Delete(r) == Move(r, {"pending", "firing", "stuck", "completed"}, "deleted")

Next ==
    \/ \E r \in ReminderId : Create(r) \/ Complete(r) \/ LoseTask(r) \/ Delete(r)
    \/ \E rs \in SUBSET ReminderId : Fire(rs)

Spec == Init /\ [][Next]_phase

=============================================================================
