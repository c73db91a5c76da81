------------------------------- MODULE MCRollout -------------------------------
(* Three hosts of the main phase, one of them local, and one of the vault  *)
(* phase; two may be rebooted. Three versions have two kernels between them, *)
(* one host has another of them than the rest.                              *)
EXTENDS Rollout, TLC

CONSTANTS apollo, demeter, hades, mars

Phases == apollo :> 1 @@ demeter :> 2 @@ hades :> 1 @@ mars :> 1

Ranks == apollo :> 1 @@ demeter :> 2 @@ hades :> 3 @@ mars :> 4

Kernels == [h \in Host |-> IF h = hades THEN <<1, 1, 2>> ELSE <<1, 2, 1>>]

Flagged(named, tests, attic, goal) ==
    [named |-> named, tests |-> tests, attic |-> attic, goal |-> goal]

\* The pipeline's call, one from a workstation, and forced goals.
SomeCalls ==
    {Flagged({}, TRUE, TRUE, ""), Flagged({apollo, demeter}, FALSE, FALSE, ""),
     Flagged({hades}, FALSE, TRUE, "switch"), Flagged({demeter}, FALSE, FALSE, "boot")}

=============================================================================
