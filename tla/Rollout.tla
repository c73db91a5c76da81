-------------------------------- MODULE Rollout --------------------------------
(***************************************************************************)
(* dippy deploy: build, test, push to all hosts in parallel, apply the     *)
(* infrastructure, then deploy host by host, phase after phase.  A host's  *)
(* deployment sets its system profile, activates it, reboots the host if   *)
(* that is called for, and waits until its Consul checks pass.             *)
(*                                                                         *)
(* Runs follow one another (the pipeline's resource group), each starting  *)
(* from whatever the last one left behind.  Any command may fail and dippy *)
(* may be killed at any time, with the command in progress done in part;   *)
(* hosts may be rebooted by somebody else.  Reboot and WaitUntilHealthy    *)
(* are one step each here: HostReboot and HealthWait are their detail.     *)
(***************************************************************************)
EXTENDS Integers, FiniteSets

CONSTANTS
    Host,
    None,           \* no host
    Version,        \* systems, one for each commit
    Initial,        \* the version all hosts run at first
    Local,          \* hosts without a targetHost
    Phase,          \* [Host -> Nat]: the place of a host's phase in the plan, or 0
    Rank,           \* [Host -> Nat]: its place among the names of the phase
    AutoReboot,     \* hosts with rebootAutomatically
    Kernel,         \* [Host -> [Version -> Nat]]: what nvd-json reboot-check compares
    Invocations,    \* the flags and host names dippy is called with
    Limit,          \* -concurrency
    Retries,        \* how often a failed push to attic is tried again
    MaxRuns,        \* bound on runs
    MaxFaults       \* bound on failures and foreign reboots

Goals == {"", "switch", "boot"}

Flags == [named : SUBSET Host, tests : BOOLEAN, attic : BOOLEAN, goal : Goals]

ASSUME RolloutAssumption ==
    /\ None \notin Host
    /\ IsFiniteSet(Host)
    /\ Initial \in Version
    /\ Local \subseteq Host
    /\ Phase \in [Host -> Nat]
    /\ Rank \in [Host -> Nat]
    /\ \A g, h \in Host : g # h => <<Phase[g], Rank[g]>> # <<Phase[h], Rank[h]>>
    /\ AutoReboot \subseteq Host
    /\ Kernel \in [Host -> [Version -> Nat]]
    /\ Invocations \subseteq Flags
    /\ Limit \in Nat \ {0}
    /\ Retries \in Nat
    /\ MaxRuns \in Nat
    /\ MaxFaults \in Nat

VARIABLES
    machine,    \* each host: its profile, its boot default, what runs, what it booted
    stored,     \* the versions in each host's store
    tested,     \* the versions that passed the tests
    run,        \* the flags of the run, its hosts and version, and its stage
    worker,     \* the goroutine of each host in EachHost
    tries,      \* its attempts to push to attic
    needed,     \* hosts with RebootNeeded
    settled,    \* hosts the run is done with
    step,       \* what is next for the host being deployed
    misjudged,  \* hosts rebooted by others since the check, or not really checked
    runs, faults

vars == <<machine, stored, tested, run, worker, tries, needed, settled, step,
          misjudged, runs, faults>>

deployment == <<needed, settled, step, misjudged>>

Machines == [profile : Version, boot : Version, running : Version, booted : Version]

Init ==
    /\ machine = [h \in Host |-> [profile |-> Initial, boot |-> Initial,
                                  running |-> Initial, booted |-> Initial]]
    /\ stored = [h \in Host |-> {Initial}]
    /\ tested = {}
    /\ run = [named |-> {}, tests |-> FALSE, attic |-> FALSE, goal |-> "",
              hosts |-> {}, target |-> Initial, stage |-> "ok"]
    /\ worker = [h \in Host |-> "done"]
    /\ tries = [h \in Host |-> 0]
    /\ needed = {}
    /\ settled = {}
    /\ step = "profile"
    /\ misjudged = {}
    /\ runs = 0
    /\ faults = 0

Ended == run.stage \in {"ok", "failed"}

Enter(stage) == run' = [run EXCEPT !.stage = stage]

Fault == faults < MaxFaults /\ faults' = faults + 1

-----------------------------------------------------------------------------
(* DeployCmd.Run, up to the deployment. *)

\* EvalNodes takes the hosts named, or all of them, if a phase contains them;
\* Run drops the local ones.
Planned(named) ==
    {h \in Host \ Local : Phase[h] # 0 /\ (named # {} => h \in named)}

StartRun(flags, version) ==
    /\ Ended
    /\ runs < MaxRuns
    /\ run' = [named |-> flags.named, tests |-> flags.tests, attic |-> flags.attic,
               goal |-> flags.goal, hosts |-> Planned(flags.named),
               target |-> version, stage |-> "build"]
    /\ worker' = [h \in Host |->
                     IF h \in Planned(flags.named) THEN "waiting" ELSE "done"]
    /\ tries' = [h \in Host |-> 0]
    /\ needed' = {}
    /\ settled' = {}
    /\ step' = "profile"
    /\ misjudged' = {}
    /\ runs' = runs + 1
    /\ UNCHANGED <<machine, stored, tested, faults>>

Build ==
    /\ run.stage = "build"
    /\ Enter(IF run.tests THEN "test" ELSE "login")
    /\ UNCHANGED <<machine, stored, tested, worker, tries, deployment, runs, faults>>

Test ==
    /\ run.stage = "test"
    /\ tested' = tested \cup {run.target}
    /\ Enter("login")
    /\ UNCHANGED <<machine, stored, worker, tries, deployment, runs, faults>>

Login ==
    /\ run.stage = "login"
    /\ Enter("push")
    /\ UNCHANGED <<machine, stored, tested, worker, tries, deployment, runs, faults>>

\* infra.Apply, for a run over the whole fleet.
Infra ==
    /\ run.stage = "infra"
    /\ Enter("deploy")
    /\ UNCHANGED <<machine, stored, tested, worker, tries, deployment, runs, faults>>

-----------------------------------------------------------------------------
(* EachHost: push, push to attic, check whether a reboot is needed. *)

\* The context of the group is cancelled by the first error.
Cancelled == \E h \in Host : worker[h] = "failed"

\* Seeded fault: a goroutine that fails keeps its slot.
ActiveOrFailed == {h \in Host : worker[h] \in {"push", "attic", "check", "failed"}}

Active == {h \in Host : worker[h] \in {"push", "attic", "check"}}

Becomes(h, pc) == worker' = [worker EXCEPT ![h] = pc]

\* A command that is cancelled fails of itself; any other failure is a fault.
CommandFails == IF Cancelled THEN UNCHANGED faults ELSE Fault

Go(h) ==
    /\ run.stage = "push"
    /\ worker[h] = "waiting"
    /\ Cardinality(Active) < Limit
    /\ Becomes(h, "push")
    /\ UNCHANGED <<machine, stored, tested, run, tries, deployment, runs, faults>>

\* Seeded fault: the error of the copy is dropped.
PushUnchecked(h) ==
    /\ run.stage = "push"
    /\ worker[h] = "push"
    /\ \/ stored' = [stored EXCEPT ![h] = @ \cup {run.target}] /\ UNCHANGED faults
       \/ CommandFails /\ UNCHANGED stored
    /\ Becomes(h, IF run.attic THEN "attic" ELSE "check")
    /\ UNCHANGED <<machine, tested, run, tries, deployment, runs>>

Push(h) ==
    /\ run.stage = "push"
    /\ worker[h] = "push"
    /\ \/ /\ ~Cancelled
          /\ stored' = [stored EXCEPT ![h] = @ \cup {run.target}]
          /\ Becomes(h, IF run.attic THEN "attic" ELSE "check")
          /\ UNCHANGED faults
       \/ /\ CommandFails
          /\ Becomes(h, "failed")
          /\ UNCHANGED stored
    /\ UNCHANGED <<machine, tested, run, tries, deployment, runs>>

PushToAttic(h) ==
    /\ run.stage = "push"
    /\ worker[h] = "attic"
    /\ \/ /\ ~Cancelled
          /\ Becomes(h, "check")
          /\ UNCHANGED <<tries, faults>>
       \/ /\ CommandFails
          /\ IF tries[h] < Retries
             THEN tries' = [tries EXCEPT ![h] = @ + 1] /\ UNCHANGED worker
             ELSE Becomes(h, "failed") /\ UNCHANGED tries
    /\ UNCHANGED <<machine, stored, tested, run, deployment, runs>>

\* Seeded fault: the check compares with the system that runs.
CheckCurrentSystem(h) ==
    /\ run.stage = "push"
    /\ worker[h] = "check"
    /\ Becomes(h, "done")
    /\ needed' = IF Kernel[h][machine[h].running] # Kernel[h][run.target]
                 THEN needed \cup {h} ELSE needed
    /\ misjudged' = misjudged \ {h}
    /\ UNCHANGED <<machine, stored, tested, run, tries, settled, step, runs, faults>>

\* The check runs over ssh, which does not look at the context.  nvd-json does not
\* look at the exit status of nix-store: of a query that fails it knows no package,
\* so that the other system's kernel is a change, or there is none in either.
CheckRebootNeeded(h) ==
    /\ run.stage = "push"
    /\ worker[h] = "check"
    /\ \/ /\ Becomes(h, "done")
          /\ needed' = IF Kernel[h][machine[h].booted] # Kernel[h][run.target]
                       THEN needed \cup {h} ELSE needed
          /\ misjudged' = misjudged \ {h}
          /\ UNCHANGED faults
       \/ /\ Fault
          /\ Becomes(h, "done")
          /\ needed' \in {needed, needed \cup {h}}
          /\ misjudged' = misjudged \cup {h}
       \/ /\ Fault
          /\ Becomes(h, "failed")
          /\ UNCHANGED <<needed, misjudged>>
    /\ UNCHANGED <<machine, stored, tested, run, tries, settled, step, runs>>

\* Seeded fault: Wait returns with the first goroutine.
WaitForOne ==
    /\ run.stage = "push"
    /\ \E h \in run.hosts : worker[h] \in {"done", "failed"}
    /\ Enter(IF Cancelled THEN "failed" ELSE IF run.named = {} THEN "infra" ELSE "deploy")
    /\ UNCHANGED <<machine, stored, tested, worker, tries, deployment, runs, faults>>

\* Wait returns when every goroutine has, with the first error.
Wait ==
    /\ run.stage = "push"
    /\ \A h \in run.hosts : worker[h] \in {"done", "failed"}
    /\ Enter(IF Cancelled THEN "failed" ELSE IF run.named = {} THEN "infra" ELSE "deploy")
    /\ UNCHANGED <<machine, stored, tested, worker, tries, deployment, runs, faults>>

-----------------------------------------------------------------------------
(* DeployPlan.Deploy and Host.Deploy. *)

\* Seeded fault: the hosts of all phases in the order of their names.
BeforeByName(g, h) == Rank[g] < Rank[h]

Before(g, h) == Phase[g] < Phase[h] \/ (Phase[g] = Phase[h] /\ Rank[g] < Rank[h])

\* The loops over the phases and their nodes are at host h.
At(h) ==
    /\ run.stage = "deploy"
    /\ h \in run.hosts \ settled
    /\ \A g \in (run.hosts \ settled) \ {h} : Before(h, g)

Goal(h) ==
    IF run.goal # "" THEN run.goal ELSE IF h \in needed THEN "boot" ELSE "switch"

\* What the commands do to the host.
Profiled(h) == [machine EXCEPT ![h].profile = run.target]

\* switch-to-configuration of the system profile: the boot loader first.
Loaded(h) == [machine EXCEPT ![h].boot = machine[h].profile]

Activated(h) ==
    IF Goal(h) = "boot" THEN Loaded(h)
    ELSE [Loaded(h) EXCEPT ![h].running = machine[h].profile]

Rebooted(h) ==
    [machine EXCEPT ![h].running = machine[h].boot, ![h].booted = machine[h].boot]

SetProfile(h) ==
    /\ At(h)
    /\ step = "profile"
    /\ machine' = Profiled(h)
    /\ step' = "activate"
    /\ UNCHANGED <<stored, tested, run, worker, tries, needed, settled, misjudged,
                   runs, faults>>

\* The last command returned, so the loop goes on to the next host.
HostDone(h) ==
    /\ settled' = settled \cup {h}
    /\ step' = "profile"

\* Seeded fault: the boot goal never reboots.
ActivateOnly(h) ==
    /\ At(h)
    /\ step = "activate"
    /\ machine' = Activated(h)
    /\ IF Goal(h) = "boot" THEN HostDone(h)
       ELSE step' = "health" /\ UNCHANGED settled
    /\ UNCHANGED <<stored, tested, run, worker, tries, needed, misjudged, runs, faults>>

Activate(h) ==
    /\ At(h)
    /\ step = "activate"
    /\ machine' = Activated(h)
    /\ IF Goal(h) = "boot" /\ h \notin AutoReboot THEN HostDone(h)
       ELSE /\ step' = IF Goal(h) = "boot" THEN "reboot" ELSE "health"
            /\ UNCHANGED settled
    /\ UNCHANGED <<stored, tested, run, worker, tries, needed, misjudged, runs, faults>>

Reboot(h) ==
    /\ At(h)
    /\ step = "reboot"
    /\ machine' = Rebooted(h)
    /\ step' = "health"
    /\ UNCHANGED <<stored, tested, run, worker, tries, needed, settled, misjudged,
                   runs, faults>>

WaitUntilHealthy(h) ==
    /\ At(h)
    /\ step = "health"
    /\ HostDone(h)
    /\ UNCHANGED <<machine, stored, tested, run, worker, tries, needed, misjudged,
                   runs, faults>>

Complete ==
    /\ run.stage = "deploy"
    /\ run.hosts = settled
    /\ Enter("ok")
    /\ UNCHANGED <<machine, stored, tested, worker, tries, deployment, runs, faults>>

-----------------------------------------------------------------------------
(* Failures. *)

\* A command of Run or of the deployment fails, or dippy is killed: the run is
\* over, and the command may have had all, some or none of its effect.
Break ==
    /\ ~Ended
    /\ Fault
    /\ Enter("failed")
    /\ \/ UNCHANGED machine
       \/ \E h \in Host :
             /\ At(h)
             /\ \/ step = "profile" /\ machine' = Profiled(h)
                \/ step = "activate" /\ machine' \in {Loaded(h), Activated(h)}
                \/ step = "reboot" /\ machine' = Rebooted(h)
    /\ UNCHANGED <<stored, tested, worker, tries, deployment, runs>>

\* The power fails, or an administrator reboots the host.
PowerCycle(h) ==
    /\ Fault
    /\ machine' = Rebooted(h)
    /\ misjudged' = misjudged \cup {h}
    /\ UNCHANGED <<stored, tested, run, worker, tries, needed, settled, step, runs>>

-----------------------------------------------------------------------------
Preparing == Build \/ Test \/ Login \/ Infra

Pushing(h) == Go(h) \/ Push(h) \/ PushToAttic(h) \/ CheckRebootNeeded(h)

Deploying(h) == SetProfile(h) \/ Activate(h) \/ Reboot(h) \/ WaitUntilHealthy(h)

RunStep == Preparing \/ Wait \/ Complete \/ \E h \in Host : Pushing(h) \/ Deploying(h)

Next ==
    \/ \E flags \in Invocations, version \in Version : StartRun(flags, version)
    \/ RunStep
    \/ Break
    \/ \E h \in Host : PowerCycle(h)

Spec == Init /\ [][Next]_vars

\* The process runs on, and every command returns: hosts come back from their
\* reboot and get healthy.
FairSpec == Spec /\ WF_vars(RunStep)

-----------------------------------------------------------------------------
Stages == {"build", "test", "login", "push", "infra", "deploy", "ok", "failed"}

Runs == [named : SUBSET Host, tests : BOOLEAN, attic : BOOLEAN, goal : Goals,
         hosts : SUBSET Host, target : Version, stage : Stages]

TypeOK ==
    /\ machine \in [Host -> Machines]
    /\ stored \in [Host -> SUBSET Version]
    /\ tested \subseteq Version
    /\ run \in Runs
    /\ worker \in [Host -> {"waiting", "push", "attic", "check", "done", "failed"}]
    /\ tries \in [Host -> 0 .. Retries]
    /\ needed \subseteq Host
    /\ settled \subseteq run.hosts
    /\ step \in {"profile", "activate", "reboot", "health"}
    /\ misjudged \subseteq Host
    /\ runs \in 0 .. MaxRuns
    /\ faults \in 0 .. MaxFaults

\* No host is given another profile before every host of the plan has the new
\* system in its store, and the tests passed if they were asked for.
ReadyBeforeAnyChange ==
    [][(\E h \in Host : machine'[h].profile # machine[h].profile) =>
          /\ \A g \in run.hosts : run.target \in stored[g]
          /\ run.tests => run.target \in tested]_vars

\* Whatever breaks, what a host runs and what it would boot is in its store.
NothingMissing ==
    \A h \in Host :
        {machine[h].profile, machine[h].boot, machine[h].running, machine[h].booted}
            \subseteq stored[h]

Pending(h) == Goal(h) = "boot" /\ h \notin AutoReboot

\* A host the run is done with runs the new system, or boots it next time if it
\* may not be rebooted; a run that succeeds is done with all its hosts.
SettledRunsTarget ==
    /\ \A h \in settled :
        /\ machine[h].profile = run.target
        /\ machine[h].boot = run.target
        /\ Pending(h) \/ machine[h].running = run.target
    /\ run.stage = "ok" => run.hosts = settled

\* Left to choose its goal, a run never leaves a host with a system that needs
\* another kernel than the one that is booted, unless it may not be rebooted,
\* the check was not a real one, or somebody else rebooted it since.
KernelFits ==
    run.goal = "" =>
        \A h \in settled \ misjudged :
            Pending(h) \/ Kernel[h][machine[h].running] = Kernel[h][machine[h].booted]

Installed == [h \in Host |-> [profile |-> machine[h].profile, boot |-> machine[h].boot]]

Busy ==
    IF \E h \in Host : At(h) /\ step # "profile" THEN CHOOSE h \in Host : At(h)
    ELSE None

Rolled == INSTANCE PhasedRollout WITH
    System    <- [profile : Version, boot : Version],
    installed <- Installed,
    left      <- run.hosts \ settled,
    busy      <- Busy,
    stopped   <- Ended

\* The run is a phased rollout.
ImplementsPhasedRollout == Rolled!Spec

\* Every run comes to its end, whichever goroutines fail.
RunEnds == ~Ended ~> Ended

=============================================================================
