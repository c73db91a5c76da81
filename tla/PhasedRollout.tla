----------------------------- MODULE PhasedRollout -----------------------------
(***************************************************************************)
(* What a rollout promises: hosts change one at a time, phase after phase, *)
(* each of them is finished with before the next one is touched, and none  *)
(* is touched after the rollout stopped.                                   *)
(***************************************************************************)
EXTENDS Integers

CONSTANTS
    Host,
    System,     \* what is installed on a host
    Phase,      \* [Host -> Nat]
    None        \* no host

VARIABLES
    installed,  \* what each host is set to run
    left,       \* the hosts the rollout is not finished with
    busy,       \* the host it is working on
    stopped     \* it is over, for better or worse

vars == <<installed, left, busy, stopped>>

Init ==
    /\ installed \in [Host -> System]
    /\ left = {}
    /\ busy = None
    /\ stopped = TRUE

Plan(hosts) ==
    /\ stopped
    /\ left' = hosts
    /\ stopped' = FALSE
    /\ UNCHANGED <<installed, busy>>

\* The host whose turn it is: the one in work, or one of the first phase left.
Turn(h) ==
    /\ ~stopped
    /\ h \in left
    /\ busy \in {None, h}
    /\ \A g \in left : Phase[h] <= Phase[g]

Touch(h) == \E s \in System : installed' = [installed EXCEPT ![h] = s]

Work(h) ==
    /\ Turn(h)
    /\ Touch(h)
    /\ busy' = h
    /\ UNCHANGED <<left, stopped>>

Finish(h) ==
    /\ Turn(h)
    /\ busy = h
    /\ Touch(h)
    /\ left' = left \ {h}
    /\ busy' = None
    /\ UNCHANGED stopped

Stop ==
    /\ ~stopped
    /\ stopped' = TRUE
    /\ busy' = None
    /\ \/ UNCHANGED installed
       \/ \E h \in Host : Turn(h) /\ Touch(h)
    /\ UNCHANGED left

Next ==
    \/ \E hosts \in SUBSET Host : Plan(hosts)
    \/ \E h \in Host : Work(h) \/ Finish(h)
    \/ Stop

Spec == Init /\ [][Next]_vars

=============================================================================
