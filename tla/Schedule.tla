------------------------------- MODULE Schedule -------------------------------
(***************************************************************************)
(* The instants launchpad puts reminders and notifications off to.         *)
(* advance_by and advance_by_minutes add an interval once, then again for  *)
(* as long as the result is in the past; AdvanceLoop models those loops    *)
(* and shows that they compute the operator below.                         *)
(***************************************************************************)
EXTENDS Integers

\* How many times the interval `delta` (positive) is added to `dt`.
Advances(dt, delta, now) ==
    IF dt + delta >= now THEN 1 ELSE (now - dt + delta - 1) \div delta

Advance(dt, delta, now) == dt + Advances(dt, delta, now) * delta

=============================================================================
