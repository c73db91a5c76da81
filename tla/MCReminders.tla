----------------------------- MODULE MCReminders -----------------------------
(* Finite instances of Reminders for TLC. *)
EXTENDS Reminders, TLC

CONSTANTS t1, t2, t3, r1, r2, w1, w2

\* Identifiers and slots are interchangeable; only the safety runs use this,
\* since reducing by symmetry is not sound for liveness.
Symmetry ==
    Permutations(TaskId) \cup Permutations(ReminderId) \cup Permutations(Web)

\* Minutes forwards and back, and none.
ForthAndBack == {-1, 1}
AnySnooze == {-1, 0, 1}

=============================================================================
