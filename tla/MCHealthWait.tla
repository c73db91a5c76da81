----------------------------- MODULE MCHealthWait -----------------------------
(* A tick is five seconds.  One service has the intervals that those of every *)
(* deployment.consulChecks have (15 s), the other the longest there are (30 s), *)
(* which launchpad is checked at, a service no host waits for yet.            *)
EXTENDS HealthWait

CONSTANTS gitlab, launchpad

Intervals == [s \in {gitlab, launchpad} |-> IF s = gitlab THEN 3 ELSE 6]

=============================================================================
