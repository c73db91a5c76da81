------------------------------ MODULE HostReboot ------------------------------
(***************************************************************************)
(* Host.Reboot over ssh: read the boot identifier, run reboot, and read it *)
(* again every two seconds until it is another one.  The ssh connection is *)
(* kept between commands, and outlives the host it was made to: commands   *)
(* on such a connection fail at once, or hang until the kernel gives it up.*)
(* A new connection needs the certificate the command was started with,    *)
(* which Vault signs for two hours.                                        *)
(***************************************************************************)
EXTENDS Integers

CONSTANTS
    None,       \* no connection
    Patience,   \* ticks after which the kernel gives a connection up
    MaxFaults   \* bound on power failures and failing commands

ASSUME RebootAssumption ==
    /\ None \notin Nat
    /\ Patience \in Nat
    /\ MaxFaults \in Nat

VARIABLES
    host,       \* the host: its boot identifier, and whether it is up
    conn,       \* remoteRunner: the boot it is connected to
    oldID,      \* the identifier before the reboot
    pc,         \* where Reboot is
    waited,     \* ticks since the check in progress began
    cert,       \* the certificate: valid for two hours, then expired
    faults

vars == <<host, conn, oldID, pc, waited, cert, faults>>

Init ==
    /\ host = [boot |-> 1, state |-> "up"]
    /\ conn \in {None, 0, 1}
    /\ oldID = None
    /\ pc = "first"
    /\ waited = 0
    /\ cert = "valid"
    /\ faults = 0

Returned == pc \in {"ok", "error"}

\* sshd answers until the host is down.
Answers == host.state # "down" /\ conn = host.boot

Fault == faults < MaxFaults /\ faults' = faults + 1

-----------------------------------------------------------------------------
(* getRunner: dial if there is no connection. *)

Dial ==
    /\ ~Returned
    /\ conn = None
    /\ host.state # "down"
    /\ cert = "valid"
    /\ conn' = host.boot
    /\ UNCHANGED <<host, oldID, pc, waited, cert, faults>>

\* Seeded fault: the connection is kept whatever became of it.
FailKeepingConnection ==
    /\ pc' = IF pc = "check" THEN pc ELSE "error"
    /\ waited' = 0
    /\ UNCHANGED <<host, conn, oldID, cert>>

\* What Reboot makes of an error: it gives up, or drops the connection and
\* tries again.
Fail ==
    /\ IF pc = "check" THEN conn' = None /\ UNCHANGED pc
       ELSE pc' = "error" /\ UNCHANGED conn
    /\ waited' = 0
    /\ UNCHANGED <<host, oldID, cert>>

\* A dial or a command fails: for lack of an answer, or for any other reason.
CommandFails ==
    /\ ~Returned
    /\ IF Answers THEN Fault ELSE UNCHANGED faults
    /\ Fail

\* getBootID, the first time and while waiting.
FirstID ==
    /\ pc = "first"
    /\ Answers
    /\ oldID' = host.boot
    /\ pc' = "reboot"
    /\ waited' = 0
    /\ UNCHANGED <<host, conn, cert, faults>>

\* Seeded fault: any answer will do.
CheckAnyID ==
    /\ pc = "check"
    /\ Answers
    /\ pc' = "ok"
    /\ waited' = 0
    /\ UNCHANGED <<host, conn, oldID, cert, faults>>

CheckID ==
    /\ pc = "check"
    /\ Answers
    /\ IF host.boot # oldID THEN pc' = "ok" ELSE UNCHANGED pc
    /\ waited' = 0
    /\ UNCHANGED <<host, conn, oldID, cert, faults>>

\* The command exits, or the connection closes before it could tell, which is
\* taken for success as well.  With any other error the host may reboot too.
RunReboot ==
    /\ pc = "reboot"
    /\ Answers
    /\ host' = [host EXCEPT !.state = "stopping"]
    /\ \/ pc' = "check" /\ UNCHANGED faults
       \/ pc' = "error" /\ Fault
    /\ UNCHANGED <<conn, oldID, waited, cert>>

\* Time passes for a command without an answer.
Hang ==
    /\ pc \in {"first", "check"}
    /\ conn # None /\ ~Answers
    /\ waited < Patience
    /\ waited' = waited + 1
    /\ UNCHANGED <<host, conn, oldID, pc, cert, faults>>

-----------------------------------------------------------------------------
(* The host, and time. *)

Stop ==
    /\ \/ host.state = "stopping" /\ UNCHANGED faults
       \/ host.state = "up" /\ Fault
    /\ host' = [host EXCEPT !.state = "down"]
    /\ UNCHANGED <<conn, oldID, pc, waited, cert>>

Boot ==
    /\ host.state = "down"
    /\ host' = [boot |-> host.boot + 1, state |-> "up"]
    /\ UNCHANGED <<conn, oldID, pc, waited, cert, faults>>

Expire ==
    /\ cert = "valid"
    /\ cert' = "expired"
    /\ UNCHANGED <<host, conn, oldID, pc, waited, faults>>

-----------------------------------------------------------------------------
Step == Dial \/ FirstID \/ RunReboot \/ CheckID

Next == Step \/ CommandFails \/ Hang \/ Stop \/ Boot \/ Expire

Spec == Init /\ [][Next]_vars

-----------------------------------------------------------------------------
TypeOK ==
    /\ host \in [boot : Nat \ {0}, state : {"up", "stopping", "down"}]
    /\ conn \in {None} \cup 0 .. host.boot
    /\ pc \in {"first", "reboot", "check", "ok", "error"}
    /\ oldID \in 1 .. host.boot \/ (oldID = None /\ pc \in {"first", "error"})
    /\ waited \in 0 .. Patience
    /\ cert \in {"valid", "expired"}
    /\ faults \in 0 .. MaxFaults

\* Reboot succeeds only after the host went down and came up again, and leaves
\* a connection to the host as it came up, not as it was.
OkMeansRebooted == pc = "ok" => conn # None /\ oldID < conn /\ conn <= host.boot

=============================================================================
