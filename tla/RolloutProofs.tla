----------------------------- MODULE RolloutProofs -----------------------------
(* The safety of a rollout, for any hosts, phases, limits and failures.       *)
EXTENDS Rollout, HealthWait, TLAPS

-----------------------------------------------------------------------------
(* Types. *)

LEMMA InitType == Init => TypeOK
<1> SUFFICES ASSUME Init PROVE TypeOK
  OBVIOUS
<1>1. /\ Initial \in Version
      /\ 0 \in 0 .. Retries
      /\ 0 \in 0 .. MaxRuns
      /\ 0 \in 0 .. MaxFaults
  BY RolloutAssumption
<1>2. machine \in [Host -> Machines] /\ stored \in [Host -> SUBSET Version]
  BY <1>1 DEF Init, Machines
<1>3. run \in Runs
  BY <1>1 DEF Init, Runs, Goals, Stages
<1>4. worker \in [Host -> {"waiting", "push", "attic", "check", "done", "failed"}]
  BY DEF Init
<1>5. tries \in [Host -> 0 .. Retries]
  BY <1>1 DEF Init
<1> QED
  BY <1>1, <1>2, <1>3, <1>4, <1>5 DEF Init, TypeOK

LEMMA MachineType ==
    ASSUME TypeOK, NEW h \in Host
    PROVE  /\ Profiled(h) \in [Host -> Machines]
           /\ Loaded(h) \in [Host -> Machines]
           /\ Activated(h) \in [Host -> Machines]
           /\ Rebooted(h) \in [Host -> Machines]
<1>1. run.target \in Version /\ machine[h] \in Machines /\ machine \in [Host -> Machines]
  BY DEF TypeOK, Runs
<1>2. Profiled(h) \in [Host -> Machines]
  BY <1>1 DEF Machines, Profiled
<1>3. Loaded(h) \in [Host -> Machines]
  BY <1>1 DEF Machines, Loaded
<1>4. Activated(h) \in [Host -> Machines]
  BY <1>1, <1>3 DEF Machines, Activated, Loaded
<1>5. Rebooted(h) \in [Host -> Machines]
  BY <1>1 DEF Machines, Rebooted
<1> QED
  BY <1>2, <1>3, <1>4, <1>5

LEMMA NextType == TypeOK /\ [Next]_vars => TypeOK'
<1> SUFFICES ASSUME TypeOK, [Next]_vars PROVE TypeOK'
  OBVIOUS
<1> USE RolloutAssumption DEF deployment
<1>1. ASSUME NEW flags \in Invocations, NEW version \in Version, StartRun(flags, version)
      PROVE  TypeOK'
  <2>1. flags \in Flags
    OBVIOUS
  <2>2. Planned(flags.named) \subseteq Host
    BY DEF Planned
  <2>3. run' \in Runs
    BY <1>1, <2>1, <2>2 DEF StartRun, Runs, Flags, Stages
  <2> QED
    BY <1>1, <2>3 DEF StartRun, TypeOK
<1>2. CASE Build
  BY <1>2 DEF Build, Enter, TypeOK, Runs, Stages
<1>3. CASE Test
  BY <1>3 DEF Test, Enter, TypeOK, Runs, Stages
<1>4. CASE Login
  BY <1>4 DEF Login, Enter, TypeOK, Runs, Stages
<1>5. CASE Infra
  BY <1>5 DEF Infra, Enter, TypeOK, Runs, Stages
<1>6. CASE Wait
  BY <1>6 DEF Wait, Enter, TypeOK, Runs, Stages
<1>7. CASE Complete
  BY <1>7 DEF Complete, Enter, TypeOK, Runs, Stages
<1>8. ASSUME NEW h \in Host, Go(h) PROVE TypeOK'
  BY <1>8 DEF Go, Becomes, TypeOK
<1>9. ASSUME NEW h \in Host, Push(h) PROVE TypeOK'
  <2>1. run.target \in Version
    BY DEF TypeOK, Runs
  <2>2. stored' \in [Host -> SUBSET Version] /\ faults' \in 0 .. MaxFaults
    BY <1>9, <2>1 DEF Push, CommandFails, Fault, TypeOK
  <2> QED
    BY <1>9, <2>2 DEF Push, Becomes, TypeOK
<1>10. ASSUME NEW h \in Host, PushToAttic(h) PROVE TypeOK'
  <2>1. tries' \in [Host -> 0 .. Retries] /\ faults' \in 0 .. MaxFaults
    BY <1>10 DEF PushToAttic, CommandFails, Fault, TypeOK
  <2> QED
    BY <1>10, <2>1 DEF PushToAttic, Becomes, TypeOK
<1>11. ASSUME NEW h \in Host, CheckRebootNeeded(h) PROVE TypeOK'
  BY <1>11 DEF CheckRebootNeeded, Becomes, Fault, TypeOK
<1>12. ASSUME NEW h \in Host, SetProfile(h) PROVE TypeOK'
  BY <1>12, MachineType DEF SetProfile, TypeOK
<1>13. ASSUME NEW h \in Host, Activate(h) PROVE TypeOK'
  BY <1>13, MachineType DEF Activate, HostDone, At, TypeOK
<1>14. ASSUME NEW h \in Host, Reboot(h) PROVE TypeOK'
  BY <1>14, MachineType DEF Reboot, TypeOK
<1>15. ASSUME NEW h \in Host, WaitUntilHealthy(h) PROVE TypeOK'
  BY <1>15 DEF WaitUntilHealthy, HostDone, At, TypeOK
<1>16. CASE Break
  <2>1. machine' \in [Host -> Machines]
    BY <1>16, MachineType DEF Break, TypeOK
  <2> QED
    BY <1>16, <2>1 DEF Break, Enter, Fault, TypeOK, Runs, Stages
<1>17. ASSUME NEW h \in Host, PowerCycle(h) PROVE TypeOK'
  BY <1>17, MachineType DEF PowerCycle, Fault, TypeOK
<1>18. CASE UNCHANGED vars
  BY <1>18 DEF vars, TypeOK
<1> QED
  BY <1>1, <1>2, <1>3, <1>4, <1>5, <1>6, <1>7, <1>8, <1>9, <1>10, <1>11, <1>12,
     <1>13, <1>14, <1>15, <1>16, <1>17, <1>18
  DEF Next, RunStep, Preparing, Pushing, Deploying

\* dippy deploy keeps its plan, its goroutines and the hosts in order; a push to
\* attic is tried again at most Retries times.
THEOREM RolloutTypeCorrect == Spec => []TypeOK
BY InitType, NextType, PTL DEF Spec

-----------------------------------------------------------------------------
(* The inductive invariant.                                                  *)

\* A host whose goroutine got past its push has the new system.
Pushed ==
    \A h \in run.hosts :
        worker[h] \in {"attic", "check", "done"} => run.target \in stored[h]

\* No stage begins before the ones before it are complete.
StagesInOrder ==
    /\ run.stage \in {"infra", "deploy"} \/ settled # {} =>
          \A h \in run.hosts : worker[h] = "done"
    /\ run.stage \in {"login", "push", "infra", "deploy"} /\ run.tests =>
          run.target \in tested
    /\ run.stage \in {"build", "test", "login", "push", "infra"} =>
          settled = {} /\ step = "profile"

\* How far the host being deployed has come.
HostInWork ==
    \A h \in Host : At(h) =>
        /\ step # "profile" => machine[h].profile = run.target
        /\ step \in {"reboot", "health"} => machine[h].boot = run.target
        /\ step = "reboot" => Goal(h) = "boot" /\ h \in AutoReboot
        /\ step = "health" =>
              /\ machine[h].running = run.target
              /\ Goal(h) = "boot" => machine[h].booted = run.target

\* What the check found, if no query failed, holds until somebody else reboots the host.
Checked ==
    \A h \in run.hosts \ (needed \cup misjudged) :
        worker[h] = "done" => Kernel[h][machine[h].booted] = Kernel[h][run.target]

SettledRebooted ==
    \A h \in settled :
        Goal(h) = "boot" /\ h \in AutoReboot => machine[h].booted = run.target

IInv ==
    /\ TypeOK
    /\ Pushed
    /\ StagesInOrder
    /\ HostInWork
    /\ Checked
    /\ SettledRunsTarget
    /\ SettledRebooted
    /\ NothingMissing

LEMMA OneAtATime ==
    ASSUME NEW g \in Host, NEW h \in Host, At(g), At(h)
    PROVE  g = h
BY RolloutAssumption DEF At, Before

LEMMA InitIInv == Init => IInv
<1> SUFFICES ASSUME Init PROVE IInv
  OBVIOUS
<1>1. TypeOK
  BY InitType
<1>2. Pushed /\ StagesInOrder /\ HostInWork /\ Checked /\ SettledRebooted
  BY DEF Init, Pushed, StagesInOrder, HostInWork, At, Checked, SettledRebooted
<1>3. SettledRunsTarget
  BY DEF Init, SettledRunsTarget
<1>4. NothingMissing
  BY DEF Init, NothingMissing
<1> QED
  BY <1>1, <1>2, <1>3, <1>4 DEF IInv

\* A stage that begins finds no host changed yet.
LEMMA StageStep ==
    ASSUME IInv, TypeOK',
           \/ Build
           \/ Test
           \/ Login
           \/ Infra
           \/ Wait
           \/ Complete
    PROVE  IInv'
<1> USE DEF deployment
<1>1. /\ run' = [run EXCEPT !.stage = run'.stage]
      /\ UNCHANGED <<machine, stored, worker, needed, settled, step, misjudged>>
  BY DEF IInv, TypeOK, Runs, Build, Test, Login, Infra, Wait, Complete, Enter
<1>2. /\ run'.hosts = run.hosts
      /\ run'.target = run.target
      /\ run'.tests = run.tests
      /\ run'.goal = run.goal
  BY <1>1 DEF IInv, TypeOK, Runs
<1>3. Pushed' /\ Checked' /\ SettledRebooted' /\ NothingMissing'
  BY <1>1, <1>2 DEF IInv, Pushed, Checked, SettledRebooted, Goal, NothingMissing
<1>4. StagesInOrder'
  BY <1>1, <1>2 DEF IInv, TypeOK, Runs, StagesInOrder, Build, Test, Login, Infra, Wait,
                    Complete, Enter, Cancelled
<1>5. HostInWork'
  BY <1>1, <1>2 DEF IInv, TypeOK, Runs, StagesInOrder, HostInWork, At, Goal, Build, Test,
                    Login, Infra, Wait, Complete, Enter
<1>6. SettledRunsTarget'
  BY <1>1, <1>2 DEF IInv, TypeOK, Runs, StagesInOrder, SettledRunsTarget, Pending, Goal,
                    Build, Test, Login, Infra, Wait, Complete, Enter
<1> QED
  BY <1>3, <1>4, <1>5, <1>6 DEF IInv

\* While the goroutines run no host changes.
LEMMA GoroutineStep ==
    ASSUME IInv, TypeOK', NEW h \in Host, Pushing(h)
    PROVE  IInv'
<1> USE DEF deployment
<1>1. /\ run.stage = "push"
      /\ UNCHANGED <<machine, tested, run, settled, step>>
  BY DEF Pushing, Go, Push, PushToAttic, CheckRebootNeeded
<1>2. settled = {} /\ step = "profile"
  BY <1>1 DEF IInv, StagesInOrder
<1>3. /\ worker \in [Host -> {"waiting", "push", "attic", "check", "done", "failed"}]
      /\ stored \in [Host -> SUBSET Version]
      /\ run.hosts \subseteq Host
      /\ run.target \in Version
  BY DEF IInv, TypeOK, Runs
<1>4. Pushed'
  BY <1>1, <1>3 DEF IInv, Pushed, Pushing, Go, Push, PushToAttic, CheckRebootNeeded, Becomes
<1>5. StagesInOrder'
  BY <1>1, <1>2 DEF IInv, StagesInOrder
<1>6. HostInWork'
  BY <1>1 DEF HostInWork, At
<1>7. Checked'
  BY <1>1, <1>3 DEF IInv, Checked, Pushing, Go, Push, PushToAttic, CheckRebootNeeded, Becomes
<1>8. SettledRunsTarget' /\ SettledRebooted'
  BY <1>1, <1>2 DEF IInv, SettledRunsTarget, SettledRebooted
<1>9. \A g \in Host : stored[g] \subseteq stored'[g]
  BY <1>3 DEF Pushing, Go, Push, PushToAttic, CheckRebootNeeded
<1>10. NothingMissing'
  BY <1>1, <1>9 DEF IInv, NothingMissing
<1> QED
  BY <1>4, <1>5, <1>6, <1>7, <1>8, <1>10 DEF IInv

\* What each command does to its host and to the others.
LEMMA Fields ==
    ASSUME TypeOK, NEW h \in Host
    PROVE  /\ \A g \in Host \ {h} :
                 /\ Profiled(h)[g] = machine[g]
                 /\ Loaded(h)[g] = machine[g]
                 /\ Activated(h)[g] = machine[g]
                 /\ Rebooted(h)[g] = machine[g]
           /\ Profiled(h)[h] = [machine[h] EXCEPT !.profile = run.target]
           /\ Loaded(h)[h] = [machine[h] EXCEPT !.boot = machine[h].profile]
           /\ Activated(h)[h] =
                 IF Goal(h) = "boot" THEN [machine[h] EXCEPT !.boot = machine[h].profile]
                 ELSE [machine[h] EXCEPT !.boot = machine[h].profile,
                                         !.running = machine[h].profile]
           /\ Rebooted(h)[h] = [machine[h] EXCEPT !.running = machine[h].boot,
                                                  !.booted = machine[h].boot]
<1>1. machine[h] \in Machines /\ machine \in [Host -> Machines]
  BY DEF TypeOK
<1> QED
  BY <1>1 DEF Machines, Profiled, Loaded, Activated, Rebooted

LEMMA StartStep ==
    ASSUME IInv, TypeOK', NEW flags \in Invocations, NEW version \in Version,
           StartRun(flags, version)
    PROVE  IInv'
<1> USE DEF deployment
<1>1. /\ run'.stage = "build"
      /\ run'.hosts = Planned(flags.named)
      /\ settled' = {}
      /\ step' = "profile"
      /\ UNCHANGED <<machine, stored>>
  BY DEF StartRun
<1>2. \A h \in run'.hosts : worker'[h] = "waiting"
  BY <1>1 DEF StartRun, Planned
<1>3. Pushed' /\ Checked'
  BY <1>2 DEF Pushed, Checked
<1>4. StagesInOrder'
  BY <1>1 DEF StagesInOrder
<1>5. HostInWork'
  BY <1>1 DEF HostInWork, At
<1>6. SettledRunsTarget' /\ SettledRebooted'
  BY <1>1 DEF SettledRunsTarget, SettledRebooted
<1>7. NothingMissing'
  BY <1>1 DEF IInv, NothingMissing
<1> QED
  BY <1>3, <1>4, <1>5, <1>6, <1>7 DEF IInv

\* What holds of the host in work.
LEMMA InWork ==
    ASSUME IInv, NEW h \in Host, At(h)
    PROVE  /\ run.stage = "deploy"
           /\ h \in run.hosts
           /\ h \notin settled
           /\ worker[h] = "done"
           /\ run.target \in stored[h]
           /\ step # "profile" => machine[h].profile = run.target
           /\ step \in {"reboot", "health"} => machine[h].boot = run.target
BY DEF IInv, At, StagesInOrder, Pushed, HostInWork

\* The commands of a deployment leave the settled hosts alone and give the host in
\* work nothing that is missing.
LEMMA MachineStep ==
    ASSUME IInv, TypeOK', NEW h \in Host, At(h),
           UNCHANGED <<stored, worker, needed, misjudged>>,
           run'.hosts = run.hosts, run'.target = run.target, run'.goal = run.goal,
           \/ UNCHANGED machine
           \/ step = "profile" /\ machine' = Profiled(h)
           \/ step = "activate" /\ machine' \in {Loaded(h), Activated(h)}
           \/ step = "reboot" /\ machine' = Rebooted(h)
    PROVE  /\ Pushed'
           /\ Checked'
           /\ NothingMissing'
           /\ \A g \in settled : machine'[g] = machine[g]
<1>1. Pushed'
  BY DEF IInv, Pushed
<1>2. TypeOK /\ machine[h] \in Machines
  BY DEF IInv, TypeOK
<1>3. ASSUME NEW g \in Host \ {h} PROVE machine'[g] = machine[g]
  <2>1. /\ Profiled(h)[g] = machine[g]
        /\ Loaded(h)[g] = machine[g]
        /\ Activated(h)[g] = machine[g]
        /\ Rebooted(h)[g] = machine[g]
    BY <1>2, Fields
  <2> QED
    BY <2>1
<1>4. /\ machine'[h].booted \in {machine[h].booted, run.target}
      /\ {machine'[h].profile, machine'[h].boot, machine'[h].running}
            \subseteq {machine[h].profile, machine[h].boot, machine[h].running, run.target}
  <2>1. CASE UNCHANGED machine
    BY <2>1
  <2>2. CASE step = "profile" /\ machine' = Profiled(h)
    BY <1>2, <2>2, Fields DEF Machines
  <2>3. CASE step = "activate" /\ machine' = Loaded(h)
    BY <1>2, <2>3, Fields DEF Machines
  <2>4. CASE step = "activate" /\ machine' = Activated(h)
    BY <1>2, <2>4, Fields DEF Machines
  <2>5. CASE step = "reboot" /\ machine' = Rebooted(h)
    BY <1>2, <2>5, Fields, InWork DEF Machines
  <2> QED
    BY <2>1, <2>2, <2>3, <2>4, <2>5
<1>5. Checked'
  <2> SUFFICES ASSUME NEW g \in run.hosts \ (needed \cup misjudged), worker[g] = "done"
               PROVE  Kernel[g][machine'[g].booted] = Kernel[g][run.target]
    BY DEF Checked
  <2>1. g \in Host
    BY DEF IInv, TypeOK, Runs
  <2>2. Kernel[g][machine[g].booted] = Kernel[g][run.target]
    BY DEF IInv, Checked
  <2> QED
    BY <1>3, <1>4, <2>1, <2>2
<1>6. NothingMissing'
  <2> SUFFICES ASSUME NEW g \in Host
               PROVE  {machine'[g].profile, machine'[g].boot, machine'[g].running,
                       machine'[g].booted} \subseteq stored[g]
    BY DEF NothingMissing
  <2>1. {machine[g].profile, machine[g].boot, machine[g].running, machine[g].booted}
            \subseteq stored[g]
    BY DEF IInv, NothingMissing
  <2>2. CASE g = h
    BY <1>4, <2>1, <2>2, InWork
  <2> QED
    BY <1>3, <2>1, <2>2
<1>7. \A g \in settled : machine'[g] = machine[g]
  BY <1>3, InWork DEF IInv, TypeOK, Runs
<1> QED
  BY <1>1, <1>5, <1>6, <1>7

LEMMA DeployStep ==
    ASSUME IInv, TypeOK', NEW h \in Host, Deploying(h)
    PROVE  IInv'
<1> USE DEF Deploying, SetProfile, Activate, Reboot, WaitUntilHealthy, HostDone
<1>1. /\ At(h)
      /\ UNCHANGED <<stored, tested, run, worker, needed, misjudged>>
      /\ \/ UNCHANGED machine
         \/ step = "profile" /\ machine' = Profiled(h)
         \/ step = "activate" /\ machine' \in {Loaded(h), Activated(h)}
         \/ step = "reboot" /\ machine' = Rebooted(h)
  OBVIOUS
<1>2. TypeOK /\ machine[h] \in Machines
  BY DEF IInv, TypeOK
<1>3. /\ Pushed'
      /\ Checked'
      /\ NothingMissing'
      /\ \A g \in settled : machine'[g] = machine[g]
  BY <1>1, MachineStep
<1>4. Goal(h)' = Goal(h)
  BY <1>1 DEF Goal
<1>5. StagesInOrder'
  BY <1>1, InWork DEF IInv, StagesInOrder
<1>12. Activate(h) =>
          /\ machine'[h].profile = run.target
          /\ machine'[h].boot = run.target
          /\ Goal(h) # "boot" => machine'[h].running = run.target
  <2> SUFFICES ASSUME Activate(h)
               PROVE  /\ machine'[h].profile = run.target
                      /\ machine'[h].boot = run.target
                      /\ Goal(h) # "boot" => machine'[h].running = run.target
    OBVIOUS
  <2>1. machine[h].profile = run.target
    BY <1>1, InWork
  <2> QED
    BY <1>2, <2>1, Fields DEF Machines
<1>6. HostInWork'
  <2> SUFFICES ASSUME NEW g \in Host, At(g)', step' # "profile"
               PROVE  /\ machine'[g].profile = run'.target
                      /\ step' \in {"reboot", "health"} => machine'[g].boot = run'.target
                      /\ step' = "reboot" => Goal(g)' = "boot" /\ g \in AutoReboot
                      /\ step' = "health" =>
                            /\ machine'[g].running = run'.target
                            /\ Goal(g)' = "boot" => machine'[g].booted = run'.target
    BY DEF HostInWork
  <2>1. UNCHANGED settled
    BY <1>1
  <2>2. g = h
    BY <1>1, <2>1, OneAtATime DEF At
  <2>3. CASE SetProfile(h)
    <3>1. machine'[h].profile = run.target
      BY <1>2, <2>3, Fields DEF Machines
    <3> QED
      BY <1>1, <2>2, <2>3, <3>1
  <2>4. CASE Activate(h)
    <3>1. /\ machine'[h].profile = run.target
          /\ machine'[h].boot = run.target
          /\ Goal(h) # "boot" => machine'[h].running = run.target
      BY <1>1, <1>12, <2>4
    <3> QED
      BY <1>1, <1>4, <2>1, <2>2, <2>4, <3>1
  <2>5. CASE Reboot(h)
    <3>1. /\ machine[h].profile = run.target
          /\ machine[h].boot = run.target
          /\ Goal(h) = "boot"
      BY <1>1, <2>5 DEF IInv, HostInWork
    <3>2. /\ machine'[h].profile = run.target
          /\ machine'[h].boot = run.target
          /\ machine'[h].running = run.target
          /\ machine'[h].booted = run.target
      BY <1>2, <2>5, <3>1, Fields DEF Machines
    <3> QED
      BY <1>1, <1>4, <2>2, <2>5, <3>2
  <2> QED
    BY <2>3, <2>4, <2>5
<1>7. \/ UNCHANGED settled
      \/ /\ settled' = settled \cup {h}
         /\ machine'[h].profile = run.target
         /\ machine'[h].boot = run.target
         /\ Pending(h) \/ machine'[h].running = run.target
         /\ Goal(h) = "boot" /\ h \in AutoReboot => machine'[h].booted = run.target
  <2>1. CASE SetProfile(h) \/ Reboot(h)
    BY <2>1
  <2>2. CASE Activate(h)
    BY <1>12, <2>2 DEF Pending
  <2>3. CASE WaitUntilHealthy(h)
    BY <1>1, <2>3 DEF IInv, HostInWork
  <2> QED
    BY <2>1, <2>2, <2>3
<1>8. run'.stage = "deploy"
  BY <1>1, InWork
<1>9. SettledRunsTarget'
  BY <1>1, <1>3, <1>7, <1>8 DEF IInv, SettledRunsTarget, Pending, Goal
<1>10. SettledRebooted'
  BY <1>1, <1>3, <1>7 DEF IInv, SettledRebooted, Goal
<1> QED
  BY <1>3, <1>5, <1>6, <1>9, <1>10 DEF IInv

LEMMA BreakStep ==
    ASSUME IInv, TypeOK', Break
    PROVE  IInv'
<1> USE DEF deployment
<1>1. /\ run' = [run EXCEPT !.stage = "failed"]
      /\ UNCHANGED <<stored, tested, worker, needed, settled, step, misjudged>>
  BY DEF Break, Enter
<1>2. /\ run'.stage = "failed"
      /\ run'.hosts = run.hosts
      /\ run'.target = run.target
      /\ run'.goal = run.goal
  BY <1>1 DEF IInv, TypeOK, Runs
<1>3. /\ Pushed'
      /\ Checked'
      /\ NothingMissing'
      /\ \A g \in settled : machine'[g] = machine[g]
  <2>1. CASE UNCHANGED machine
    BY <1>1, <1>2, <2>1 DEF IInv, Pushed, Checked, NothingMissing
  <2>2. CASE \E h \in Host :
                /\ At(h)
                /\ \/ step = "profile" /\ machine' = Profiled(h)
                   \/ step = "activate" /\ machine' \in {Loaded(h), Activated(h)}
                   \/ step = "reboot" /\ machine' = Rebooted(h)
    BY <1>1, <1>2, <2>2, MachineStep
  <2> QED
    BY <2>1, <2>2 DEF Break
<1>4. StagesInOrder'
  BY <1>1, <1>2 DEF IInv, StagesInOrder
<1>5. HostInWork'
  BY <1>2 DEF HostInWork, At
<1>6. SettledRunsTarget'
  BY <1>1, <1>2, <1>3 DEF IInv, SettledRunsTarget, Pending, Goal
<1>7. SettledRebooted'
  BY <1>1, <1>2, <1>3 DEF IInv, SettledRebooted, Goal
<1> QED
  BY <1>3, <1>4, <1>5, <1>6, <1>7 DEF IInv

\* A foreign reboot makes a host run what it was set to boot.
LEMMA PowerStep ==
    ASSUME IInv, TypeOK', NEW h \in Host, PowerCycle(h)
    PROVE  IInv'
<1>1. /\ machine' = Rebooted(h)
      /\ misjudged' = misjudged \cup {h}
      /\ UNCHANGED <<stored, tested, run, worker, needed, settled, step>>
  BY DEF PowerCycle
<1>2. TypeOK /\ machine[h] \in Machines
  BY DEF IInv, TypeOK
<1>3. ASSUME NEW g \in Host \ {h} PROVE machine'[g] = machine[g]
  BY <1>1, <1>2, Fields
<1>4. /\ machine'[h].profile = machine[h].profile
      /\ machine'[h].boot = machine[h].boot
      /\ machine'[h].running = machine[h].boot
      /\ machine'[h].booted = machine[h].boot
  BY <1>1, <1>2, Fields DEF Machines
<1>5. Pushed' /\ StagesInOrder'
  BY <1>1 DEF IInv, Pushed, StagesInOrder
<1>6. HostInWork'
  <2>1. ASSUME NEW g \in Host PROVE At(g)' = At(g) /\ Goal(g)' = Goal(g)
    BY <1>1 DEF At, Goal
  <2> QED
    BY <1>1, <1>3, <1>4, <2>1 DEF IInv, HostInWork
<1>7. Checked'
  <2> SUFFICES ASSUME NEW g \in run.hosts \ (needed \cup misjudged \cup {h}),
                      worker[g] = "done"
               PROVE  Kernel[g][machine'[g].booted] = Kernel[g][run.target]
    BY <1>1 DEF Checked
  <2>1. g \in Host
    BY <1>2 DEF TypeOK, Runs
  <2>2. machine'[g] = machine[g]
    BY <1>3, <2>1
  <2> QED
    BY <2>2 DEF IInv, Checked
<1>8. SettledRunsTarget' /\ SettledRebooted'
  <2>1. settled \subseteq Host
    BY <1>2 DEF TypeOK, Runs
  <2>2. ASSUME NEW g \in settled
        PROVE  /\ machine'[g].profile = machine[g].profile
               /\ machine'[g].boot = machine[g].boot
               /\ machine'[g].running \in {machine[g].running, machine[g].boot}
               /\ machine'[g].booted \in {machine[g].booted, machine[g].boot}
    BY <1>3, <1>4, <2>1
  <2>3. SettledRunsTarget'
    BY <1>1, <2>2 DEF IInv, SettledRunsTarget, Pending, Goal
  <2>4. SettledRebooted'
    BY <1>1, <2>2 DEF IInv, SettledRebooted, SettledRunsTarget, Goal
  <2> QED
    BY <2>3, <2>4
<1>9. NothingMissing'
  BY <1>1, <1>3, <1>4 DEF IInv, NothingMissing
<1> QED
  BY <1>5, <1>6, <1>7, <1>8, <1>9 DEF IInv

LEMMA NextIInv == IInv /\ [Next]_vars => IInv'
<1> SUFFICES ASSUME IInv, [Next]_vars PROVE IInv'
  OBVIOUS
<1>1. TypeOK'
  BY NextType DEF IInv
<1>2. CASE UNCHANGED vars
  BY <1>1, <1>2 DEF vars, IInv, Pushed, StagesInOrder, HostInWork, At, Goal, Checked,
                    SettledRunsTarget, Pending, SettledRebooted, NothingMissing
<1> QED
  BY <1>1, <1>2, StartStep, StageStep, GoroutineStep, DeployStep, BreakStep, PowerStep
  DEF Next, RunStep, Preparing

LEMMA InvHolds == Spec => []IInv
BY InitIInv, NextIInv, PTL DEF Spec

-----------------------------------------------------------------------------
(* What follows from it.                                                     *)

\* Whichever command fails and whenever dippy is killed, no host is set to run or
\* to boot a system that is not in its store.
THEOREM RolloutLeavesNothingMissing == Spec => []NothingMissing
<1>1. IInv => NothingMissing
  BY DEF IInv
<1> QED
  BY <1>1, InvHolds, PTL

\* A host counts as deployed only once it runs, or will boot, what was to be
\* deployed, and a run succeeds only with all hosts deployed.
THEOREM RolloutSettles == Spec => []SettledRunsTarget
<1>1. IInv => SettledRunsTarget
  BY DEF IInv
<1> QED
  BY <1>1, InvHolds, PTL

\* A run that may choose its goals leaves no host with a system that needs another
\* kernel than the one it booted, unless it may not reboot it, others did or the check
\* was misled by a failing query.
THEOREM RolloutKernelFits == Spec => []KernelFits
<1>1. IInv => KernelFits
  <2> SUFFICES ASSUME IInv, run.goal = "", NEW h \in settled \ misjudged, ~Pending(h)
               PROVE  Kernel[h][machine[h].running] = Kernel[h][machine[h].booted]
    BY DEF KernelFits
  <2>1. h \in run.hosts /\ worker[h] = "done"
    BY DEF IInv, TypeOK, StagesInOrder
  <2>2. machine[h].running = run.target
    BY DEF IInv, SettledRunsTarget
  <2>3. CASE h \in needed
    BY <2>2, <2>3 DEF IInv, SettledRebooted, Pending, Goal
  <2>4. CASE h \notin needed
    BY <2>1, <2>2, <2>4 DEF IInv, Checked
  <2> QED
    BY <2>3, <2>4
<1> QED
  BY <1>1, InvHolds, PTL

\* No profile changes before all hosts have the new system and the tests passed.
THEOREM RolloutIsPrepared == Spec => ReadyBeforeAnyChange
<1>1. IInv /\ [Next]_vars =>
        [(\E h \in Host : machine'[h].profile # machine[h].profile) =>
            /\ \A g \in run.hosts : run.target \in stored[g]
            /\ run.tests => run.target \in tested]_vars
  <2> SUFFICES ASSUME IInv, [Next]_vars, NEW h \in Host,
                      machine'[h].profile # machine[h].profile
               PROVE  /\ \A g \in run.hosts : run.target \in stored[g]
                      /\ run.tests => run.target \in tested
    OBVIOUS
  <2>1. TypeOK
    BY DEF IInv
  <2>2. \/ UNCHANGED machine
        \/ \E k \in Host : At(k) \/ PowerCycle(k)
    BY DEF Next, RunStep, Preparing, Pushing, Deploying, StartRun, Build, Test, Login, Infra,
           Go, Push, PushToAttic, CheckRebootNeeded, Wait, SetProfile, Activate, Reboot,
           WaitUntilHealthy, Complete, Break, vars
  <2>3. ASSUME NEW k \in Host, PowerCycle(k) PROVE machine'[h].profile = machine[h].profile
    <3>1. machine' = Rebooted(k) /\ machine[k] \in Machines
      BY <2>1, <2>3 DEF PowerCycle, TypeOK
    <3>2. CASE h = k
      BY <2>1, <3>1, <3>2, Fields DEF Machines
    <3>3. CASE h # k
      BY <2>1, <3>1, <3>3, Fields
    <3> QED
      BY <3>2, <3>3
  <2>4. run.stage = "deploy"
    BY <2>2, <2>3 DEF At
  <2> QED
    BY <2>4 DEF IInv, StagesInOrder, Pushed
<1> QED
  BY <1>1, InvHolds, PTL DEF Spec, ReadyBeforeAnyChange

-----------------------------------------------------------------------------
(* A run is a phased rollout.                                                *)

LEMMA BusyWith ==
    ASSUME NEW h \in Host, At(h)
    PROVE  Busy = IF step = "profile" THEN None ELSE h
<1>1. CASE step = "profile"
  BY <1>1 DEF Busy
<1>2. CASE step # "profile"
  <2>1. (CHOOSE g \in Host : At(g)) = h
    BY OneAtATime
  <2> QED
    BY <1>2, <2>1 DEF Busy
<1> QED
  BY <1>1, <1>2

LEMMA BusyWithNone ==
    ASSUME run.stage # "deploy" \/ step = "profile" \/ run.hosts = settled
    PROVE  Busy = None
BY DEF Busy, At

LEMMA BusyNext ==
    /\ \A h \in Host : At(h)' /\ step' # "profile" => Busy' = h
    /\ run'.stage # "deploy" \/ step' = "profile" \/ (run.hosts = settled)' => Busy' = None
<1>1. ASSUME NEW h \in Host, At(h)', step' # "profile" PROVE Busy' = h
  <2>1. \A g \in Host : At(g)' => g = h
    BY <1>1, RolloutAssumption DEF At, Before
  <2> QED
    BY <1>1, <2>1 DEF Busy
<1>2. ASSUME run'.stage # "deploy" \/ step' = "profile" \/ (run.hosts = settled)'
      PROVE  Busy' = None
  BY <1>2 DEF Busy, At
<1> QED
  BY <1>1, <1>2

LEMMA TurnOf ==
    ASSUME TypeOK, NEW h \in Host, At(h)
    PROVE  Rolled!Turn(h)
<1>1. ~Ended /\ h \in run.hosts \ settled
  BY DEF At, Ended
<1>2. Busy \in {None, h}
  BY BusyWith
<1>3. run.hosts \subseteq Host
  BY DEF TypeOK, Runs
<1>4. \A g \in run.hosts \ settled : Phase[h] <= Phase[g]
  BY <1>3, RolloutAssumption DEF At, Before
<1> QED
  BY <1>1, <1>2, <1>4 DEF Rolled!Turn

\* A command changes no host but its own.
LEMMA TouchOf ==
    ASSUME TypeOK, TypeOK', NEW h \in Host,
           \/ UNCHANGED machine
           \/ machine' \in {Profiled(h), Loaded(h), Activated(h), Rebooted(h)}
    PROVE  Rolled!Touch(h)
<1>1. ASSUME NEW g \in Host \ {h} PROVE machine'[g] = machine[g]
  <2>1. /\ Profiled(h)[g] = machine[g]
        /\ Loaded(h)[g] = machine[g]
        /\ Activated(h)[g] = machine[g]
        /\ Rebooted(h)[g] = machine[g]
    BY Fields
  <2> QED
    BY <2>1
<1>2. machine'[h] \in Machines
  BY DEF TypeOK
<1> DEFINE s == [profile |-> machine'[h].profile, boot |-> machine'[h].boot]
<1>3. s \in [profile : Version, boot : Version]
  BY <1>2 DEF Machines
<1>4. Installed' = [Installed EXCEPT ![h] = s]
  BY <1>1 DEF Installed
<1> QED
  BY <1>3, <1>4 DEF Rolled!Touch

LEMMA DeploymentRolls ==
    ASSUME IInv, IInv', NEW h \in Host, Deploying(h)
    PROVE  Rolled!Next \/ UNCHANGED Rolled!vars
<1> USE DEF Deploying, SetProfile, Activate, Reboot, WaitUntilHealthy, HostDone
<1>1. /\ At(h)
      /\ UNCHANGED run
      /\ \/ UNCHANGED machine
         \/ machine' \in {Profiled(h), Loaded(h), Activated(h), Rebooted(h)}
  OBVIOUS
<1>2. Rolled!Turn(h) /\ Rolled!Touch(h)
  BY <1>1, TurnOf, TouchOf DEF IInv
<1>3. UNCHANGED Ended
  BY <1>1 DEF Ended
<1>4. CASE UNCHANGED settled /\ step' # "profile"
  <2>1. At(h)'
    BY <1>1, <1>4 DEF At
  <2>2. Busy' = h
    BY <1>4, <2>1, BusyNext
  <2>3. UNCHANGED (run.hosts \ settled)
    BY <1>1, <1>4
  <2> QED
    BY <1>2, <1>3, <2>2, <2>3 DEF Rolled!Next, Rolled!Work
<1>5. CASE settled' = settled \cup {h} /\ step' = "profile" /\ step # "profile"
  <2>1. Busy = h
    BY <1>1, <1>5, BusyWith
  <2>2. Busy' = None
    BY <1>5, BusyNext
  <2>3. (run.hosts \ settled)' = (run.hosts \ settled) \ {h}
    BY <1>1, <1>5
  <2> QED
    BY <1>2, <1>3, <2>1, <2>2, <2>3 DEF Rolled!Next, Rolled!Finish
<1> QED
  BY <1>4, <1>5

LEMMA BreakStops ==
    ASSUME IInv, IInv', Break
    PROVE  Rolled!Next
<1>1. /\ ~Ended
      /\ run' = [run EXCEPT !.stage = "failed"]
      /\ UNCHANGED settled
  BY DEF Break, Enter, deployment
<1>2. run'.stage = "failed" /\ UNCHANGED run.hosts
  BY <1>1 DEF IInv, TypeOK, Runs
<1>3. Ended' /\ Busy' = None
  BY <1>2, BusyNext DEF Ended
<1>4. \/ UNCHANGED Installed
      \/ \E h \in Host : Rolled!Turn(h) /\ Rolled!Touch(h)
  <2>1. CASE UNCHANGED machine
    BY <2>1 DEF Installed
  <2>2. CASE \E h \in Host :
                At(h) /\ machine' \in {Profiled(h), Loaded(h), Activated(h), Rebooted(h)}
    BY <2>2, TurnOf, TouchOf DEF IInv
  <2> QED
    BY <2>1, <2>2 DEF Break
<1> QED
  BY <1>1, <1>2, <1>3, <1>4 DEF Rolled!Next, Rolled!Stop

LEMMA StageRolls ==
    ASSUME IInv, IInv',
           \/ Build
           \/ Test
           \/ Login
           \/ Infra
           \/ Wait
           \/ Complete
    PROVE  Rolled!Next \/ UNCHANGED Rolled!vars
<1>1. /\ run' = [run EXCEPT !.stage = run'.stage]
      /\ UNCHANGED <<machine, settled, step>>
      /\ ~Ended
  BY DEF IInv, TypeOK, Runs, Build, Test, Login, Infra, Wait, Complete, Enter, deployment,
         Ended
<1>2. UNCHANGED run.hosts
  BY <1>1 DEF IInv, TypeOK, Runs
<1>3. UNCHANGED Installed /\ UNCHANGED (run.hosts \ settled)
  BY <1>1, <1>2 DEF Installed
<1>4. Busy = None
  BY BusyWithNone DEF IInv, StagesInOrder, Build, Test, Login, Infra, Wait, Complete
<1>5. Busy' = None
  <2>1. CASE Complete
    BY <1>1, <1>2, <2>1, BusyNext DEF Complete
  <2>2. CASE ~Complete
    <3>1. step = "profile"
      BY <2>2 DEF IInv, StagesInOrder, Build, Test, Login, Infra, Wait
    <3> QED
      BY <1>1, <3>1, BusyNext
  <2> QED
    BY <2>1, <2>2
<1> QED
  BY <1>1, <1>3, <1>4, <1>5 DEF Rolled!Next, Rolled!Stop, Rolled!vars, Ended

LEMMA StartRolls ==
    ASSUME IInv, NEW flags \in Invocations, NEW version \in Version,
           StartRun(flags, version)
    PROVE  Rolled!Next
<1>1. /\ Ended
      /\ run'.stage = "build"
      /\ run'.hosts = Planned(flags.named)
      /\ settled' = {}
      /\ UNCHANGED machine
  BY DEF StartRun
<1>2. Busy = None /\ Busy' = None
  BY <1>1, BusyWithNone, BusyNext DEF Ended
<1>3. ~Ended' /\ UNCHANGED Installed
  BY <1>1 DEF Ended, Installed
<1>4. run'.hosts \ settled' = Planned(flags.named) /\ Planned(flags.named) \in SUBSET Host
  BY <1>1 DEF Planned
<1> QED
  BY <1>1, <1>2, <1>3, <1>4 DEF Rolled!Next, Rolled!Plan

\* What neither sets the hosts nor moves the run on is no step of the rollout.
LEMMA Stutters ==
    ASSUME UNCHANGED <<run, settled, step>>, UNCHANGED Installed
    PROVE  UNCHANGED Rolled!vars
<1>1. UNCHANGED Ended /\ UNCHANGED (run.hosts \ settled)
  BY DEF Ended
<1>2. \A h \in Host : At(h)' = At(h)
  BY DEF At
<1>3. UNCHANGED Busy
  <2>1. (CHOOSE h \in Host : At(h))' = CHOOSE h \in Host : At(h)
    BY DEF At
  <2> QED
    BY <1>2, <2>1 DEF Busy
<1> QED
  BY <1>1, <1>3 DEF Rolled!vars

LEMMA NextRolls == IInv /\ IInv' /\ [Next]_vars => [Rolled!Next]_(Rolled!vars)
<1> SUFFICES ASSUME IInv, IInv', [Next]_vars
             PROVE  Rolled!Next \/ UNCHANGED Rolled!vars
  OBVIOUS
<1>1. ASSUME NEW h \in Host, Pushing(h) PROVE UNCHANGED Rolled!vars
  <2>1. UNCHANGED <<machine, run, settled, step>>
    BY <1>1 DEF Pushing, Go, Push, PushToAttic, CheckRebootNeeded, deployment
  <2> QED
    BY <2>1, Stutters DEF Installed
<1>2. ASSUME NEW h \in Host, PowerCycle(h) PROVE UNCHANGED Rolled!vars
  <2>1. machine' = Rebooted(h) /\ UNCHANGED <<run, settled, step>>
    BY <1>2 DEF PowerCycle
  <2>2. machine \in [Host -> Machines]
    BY DEF IInv, TypeOK
  <2>3. UNCHANGED Installed
    BY <2>1, <2>2 DEF Installed, Rebooted, Machines
  <2> QED
    BY <2>1, <2>3, Stutters
<1>3. CASE UNCHANGED vars
  BY <1>3, Stutters DEF vars, Installed
<1> QED
  BY <1>1, <1>2, <1>3, StartRolls, StageRolls, DeploymentRolls, BreakStops
  DEF Next, RunStep, Preparing

LEMMA InitRolls == Init => Rolled!Init
<1> SUFFICES ASSUME Init PROVE Rolled!Init
  OBVIOUS
<1>1. Installed \in [Host -> [profile : Version, boot : Version]]
  BY RolloutAssumption DEF Init, Installed
<1>2. Busy = None
  BY BusyWithNone DEF Init
<1>3. run.hosts \ settled = {} /\ Ended = TRUE
  BY DEF Init, Ended
<1> QED
  BY <1>1, <1>2, <1>3 DEF Rolled!Init

\* Hosts are deployed one at a time, phase after phase, each finished with before
\* the next is touched, and none is touched once the run is over.
THEOREM RolloutIsPhased == Spec => ImplementsPhasedRollout
BY InitRolls, NextRolls, InvHolds, PTL DEF Spec, ImplementsPhasedRollout, Rolled!Spec

-----------------------------------------------------------------------------
(* HealthWait: how long WaitUntilHealthy, the step that ends a host's turn, has *)
(* to sleep: a passing check that is older than the activation is replaced     *)
(* after the interval and the timeout of a probe.                              *)

Stale(s) == status[s] = "passing" /\ s \notin answered

\* The ticks left to a stale check, and those slept, stay what they were when the
\* activation ended: less than the sleep.
StaleOnlyAsleep ==
    \A s \in Service : Stale(s) =>
        /\ pc = "sleep"
        /\ timer[s] + (ProbeTimeout - age[s]) + slept < Delay

WaitInv == WaitTypeOK /\ StaleOnlyAsleep /\ OkMeansAnswered

LEMMA InitWait == WaitInit => WaitInv
<1> SUFFICES ASSUME WaitInit PROVE WaitInv
  OBVIOUS
<1> USE HealthAssumption DEF WaitInit
<1>1. WaitTypeOK
  <2>1. UNION {0 .. Interval[s] : s \in Service} \subseteq Nat
    OBVIOUS
  <2> QED
    BY <2>1 DEF WaitTypeOK
<1>2. ASSUME NEW s \in Service, Stale(s)
      PROVE  timer[s] + (ProbeTimeout - age[s]) + slept < Delay
  <2>1. timer[s] \in Nat /\ age[s] \in Nat /\ Interval[s] \in Nat /\ slept = 0
    BY <1>1 DEF WaitTypeOK
  <2>2. ~(Interval[s] - timer[s] + age[s] <= Interval[s] + ProbeTimeout - Delay)
    BY <1>2 DEF Stale, MaxAge
  <2> QED
    BY <2>1, <2>2
<1>3. StaleOnlyAsleep
  BY <1>2 DEF StaleOnlyAsleep
<1> QED
  BY <1>1, <1>3 DEF WaitInv, OkMeansAnswered

LEMMA NextWaitType == WaitTypeOK /\ [WaitNext]_waitVars => WaitTypeOK'
<1> SUFFICES ASSUME WaitTypeOK, [WaitNext]_waitVars PROVE WaitTypeOK'
  OBVIOUS
<1> USE HealthAssumption DEF WaitTypeOK, caller
<1>1. ASSUME NEW s \in Service, Flip(s) PROVE WaitTypeOK'
  BY <1>1 DEF Flip
<1>2. ASSUME NEW s \in Service, Register(s) PROVE WaitTypeOK'
  BY <1>2 DEF Register, Publish
<1>3. ASSUME NEW s \in Service, Probe(s) PROVE WaitTypeOK'
  BY <1>3 DEF Probe, Publish
<1>4. CASE Tick
  <2>1. timer' \in [Service -> Nat] /\ \A s \in Service : timer'[s] <= Interval[s]
    BY <1>4 DEF Tick
  <2>2. ASSUME NEW s \in Service PROVE age'[s] \in 0 .. ProbeTimeout
    BY <1>4 DEF Tick
  <2>3. age' \in [Service -> 0 .. ProbeTimeout]
    BY <1>4, <2>2 DEF Tick
  <2> QED
    BY <1>4, <2>1, <2>3 DEF Tick
<1>5. CASE Wake
  BY <1>5 DEF Wake
<1>6. CASE Ask
  BY <1>6 DEF Ask
<1>7. CASE AskFails
  BY <1>7 DEF AskFails
<1>8. CASE UNCHANGED waitVars
  BY <1>8 DEF waitVars
<1> QED
  BY <1>1, <1>2, <1>3, <1>4, <1>5, <1>6, <1>7, <1>8 DEF WaitNext

LEMMA NextStale ==
    WaitTypeOK /\ StaleOnlyAsleep /\ [WaitNext]_waitVars => StaleOnlyAsleep'
<1> SUFFICES ASSUME WaitTypeOK, StaleOnlyAsleep, [WaitNext]_waitVars,
                    NEW s \in Service, Stale(s)'
             PROVE  /\ pc' = "sleep"
                    /\ timer'[s] + (ProbeTimeout - age'[s]) + slept' < Delay
  BY DEF StaleOnlyAsleep
<1> USE HealthAssumption DEF WaitTypeOK, StaleOnlyAsleep, Stale, caller
<1> DEFINE Kept == Stale(s) /\ pc' = pc
<1>1. ASSUME NEW r \in Service, Flip(r)
      PROVE  Kept /\ UNCHANGED <<timer, age, slept>>
  BY <1>1 DEF Flip
<1>2. ASSUME NEW r \in Service, Register(r)
      PROVE  r # s /\ Kept /\ UNCHANGED <<timer[s], age[s], slept>>
  BY <1>2 DEF Register, Publish
<1>3. ASSUME NEW r \in Service, Probe(r)
      PROVE  r # s /\ Kept /\ UNCHANGED <<timer[s], age[s], slept>>
  BY <1>3 DEF Probe, Publish
<1>4. CASE Tick
  <2>1. Kept
    BY <1>4 DEF Tick
  <2>2. timer[s] \in Nat /\ age[s] \in 0 .. ProbeTimeout /\ slept \in 0 .. Delay
    OBVIOUS
  <2>3. \/ timer'[s] = timer[s] - 1 /\ age'[s] = age[s]
        \/ timer'[s] = timer[s] /\ age'[s] = age[s] + 1
    BY <1>4, <2>1, <2>2 DEF Tick
  <2>4. slept' <= slept + 1 /\ slept' \in Int
    BY <1>4, <2>2 DEF Tick
  <2> QED
    BY <2>1, <2>2, <2>3, <2>4
<1>5. CASE Wake
  <2>1. Stale(s) /\ slept = Delay
    BY <1>5 DEF Wake
  <2>2. timer[s] \in Nat /\ age[s] \in 0 .. ProbeTimeout
    OBVIOUS
  <2> QED
    BY <2>1, <2>2
<1>6. CASE Ask
  BY <1>6 DEF Ask
<1>7. CASE AskFails
  BY <1>7 DEF AskFails
<1>8. CASE UNCHANGED waitVars
  BY <1>8 DEF waitVars
<1> QED
  BY <1>1, <1>2, <1>3, <1>4, <1>5, <1>6, <1>7, <1>8 DEF WaitNext

LEMMA NextAnswered ==
    WaitTypeOK /\ StaleOnlyAsleep /\ OkMeansAnswered /\ [WaitNext]_waitVars => OkMeansAnswered'
<1> SUFFICES ASSUME WaitTypeOK, StaleOnlyAsleep, OkMeansAnswered, [WaitNext]_waitVars, pc' = "ok"
             PROVE  answered' = Service
  BY DEF OkMeansAnswered
<1>1. answered \subseteq Service /\ answered \subseteq answered' /\ answered' \subseteq Service
  BY DEF WaitTypeOK, WaitNext, waitVars, caller, Flip, Register, Probe, Tick, Wake, Ask, AskFails
<1>2. CASE pc = "ok"
  BY <1>1, <1>2 DEF OkMeansAnswered
<1>3. CASE pc # "ok"
  <2>1. pc = "ask" /\ AllPassing
    BY <1>3 DEF WaitNext, waitVars, caller, Flip, Register, Probe, Tick, Wake, Ask, AskFails
  <2> QED
    BY <1>1, <2>1 DEF StaleOnlyAsleep, Stale, AllPassing
<1> QED
  BY <1>2, <1>3

\* WaitUntilHealthy keeps its state in order; in particular it never waits for
\* an index that Consul has not reached.
THEOREM HealthTypeCorrect == WaitSpec => []WaitTypeOK
<1>1. WaitInit => WaitTypeOK
  BY InitWait DEF WaitInv
<1> QED
  BY <1>1, NextWaitType, PTL DEF WaitSpec

\* Whatever the intervals, the timeout and the sleep: when the wait ends well,
\* every service answered a probe since the activation, or before it by no more
\* than its interval and the timeout exceed the sleep.
THEOREM AnswersAreRecent == WaitSpec => []OkMeansAnswered
<1>1. WaitInv /\ [WaitNext]_waitVars => WaitInv'
  BY NextWaitType, NextStale, NextAnswered DEF WaitInv
<1>2. WaitInv => OkMeansAnswered
  BY DEF WaitInv
<1> QED
  BY InitWait, <1>1, <1>2, PTL DEF WaitSpec

=============================================================================
