------------------------------ MODULE CmdDiffProofs ------------------------------
(* What dippy diff's note says of the hosts, for any closures, deployments   *)
(* and failures.                                                             *)
EXTENDS CmdDiff, FiniteSetTheorems, TLAPS

-----------------------------------------------------------------------------
(* The inductive invariant. *)

Runs == [named : SUBSET Host, tests : BOOLEAN, attic : BOOLEAN,
         hosts : SUBSET Host, stage : Stages]

Places == {"waiting", "attic", "push", "diff", "done", "failed"}

TypeOK ==
    /\ machine \in [Remote -> Machines]
    /\ run \in Runs
    /\ worker \in [Host -> Places]
    /\ tries \in [Host -> 0 .. Retries]
    /\ seen \in [DOMAIN seen -> Machines]
    /\ diffs = [h \in DOMAIN seen |-> diffs[h]]
    /\ changes \in 0 .. MaxChanges
    /\ faults \in 0 .. MaxFaults

\* EachHost returns without an error only when every goroutine has.
WorkersInv ==
    /\ \A h \in Host \ run.hosts : worker[h] = "done"
    /\ \A h \in Host : worker[h] \in {"push", "diff"} => h \in Remote
    /\ run.stage \in {"preview", "aggregate", "post", "ok"} =>
           \A h \in Host : worker[h] = "done"

\* What nvd-json answers on a host whose store it can read.
Answer(h) ==
    DiffResult(Installed[h][seen[h].running], Installed[h][Target],
               Installed[h][seen[h].booted])

\* A remote host's file is there once its goroutine is done, and says what the
\* host ran and had booted at that time.
FilesInv ==
    /\ DOMAIN seen = {h \in run.hosts \cap Remote : worker[h] = "done"}
    /\ \A h \in DOMAIN seen \ blind : diffs[h] = Answer(h)

NoteInv == run.stage \in {"post", "ok"} => note = Aggregate(diffs)

IInv == TypeOK /\ WorkersInv /\ FilesInv /\ NoteInv

-----------------------------------------------------------------------------
(* The invariant holds. *)

LEMMA InitInv == Init => IInv
  <1> SUFFICES ASSUME Init PROVE IInv
    OBVIOUS
  <1>1. PICK f \in Invocations :
          run = [named |-> f.named, tests |-> f.tests, attic |-> f.attic,
                 hosts |-> IF f.named = {} THEN Host ELSE f.named, stage |-> "build"]
    BY DEF Init
  <1>2. f.named \in SUBSET Host /\ f.tests \in BOOLEAN /\ f.attic \in BOOLEAN
    BY DiffAssumption DEF Flags
  <1>3. run \in Runs /\ run.stage = "build"
    BY <1>1, <1>2 DEF Runs, Stages
  <1>4. DOMAIN seen = {} /\ diffs = seen
    BY DEF Init
  <1>5. TypeOK
    <2>1. machine \in [Remote -> Machines]
      BY DiffAssumption DEF Init
    <2>2. worker \in [Host -> Places] /\ tries \in [Host -> 0 .. Retries]
      BY DiffAssumption DEF Init, Places
    <2>3. seen \in [DOMAIN seen -> Machines] /\ diffs = [h \in DOMAIN seen |-> diffs[h]]
      BY <1>4 DEF Init
    <2>4. changes \in 0 .. MaxChanges /\ faults \in 0 .. MaxFaults
      BY DiffAssumption DEF Init
    <2> QED BY <1>3, <2>1, <2>2, <2>3, <2>4 DEF TypeOK
  <1>6. WorkersInv
    BY <1>3 DEF WorkersInv, Init
  <1>7. FilesInv
    BY <1>3, <1>4 DEF FilesInv, Init, Runs
  <1> QED BY <1>3, <1>5, <1>6, <1>7 DEF IInv, NoteInv

\* Entering another stage, or failing, changes the stage alone.
LEMMA EnterKeeps ==
    ASSUME run \in Runs, NEW s \in Stages, Enter(s)
    PROVE  run' \in Runs /\ run'.stage = s /\ run'.hosts = run.hosts
  BY DEF Runs, Enter

LEMMA FaultKeeps ==
    ASSUME faults \in 0 .. MaxFaults, Fault \/ UNCHANGED faults
    PROVE  faults' \in 0 .. MaxFaults
  BY DiffAssumption DEF Fault

\* A goroutine moves to a place that is its own.
LEMMA MovePreserves ==
    ASSUME IInv, NEW h \in Host, NEW pc \in Places, run.stage = "push",
           worker[h] \in {"waiting", "attic", "push", "diff"},
           Becomes(h, pc), UNCHANGED <<run, diffs, seen, blind>>,
           pc \in {"push", "diff"} => h \in Remote,
           pc = "done" => h \notin Remote
    PROVE  worker' \in [Host -> Places] /\ WorkersInv' /\ FilesInv' /\ NoteInv'
  <1>1. worker \in [Host -> Places] /\ run \in Runs
    BY DEF IInv, TypeOK
  <1>2. worker' = [worker EXCEPT ![h] = pc]
    BY DEF Becomes
  <1>3. h \in run.hosts
    BY DEF IInv, WorkersInv
  <1>4. WorkersInv'
    BY <1>1, <1>2, <1>3 DEF IInv, WorkersInv
  <1>5. DOMAIN seen = {g \in run.hosts \cap Remote : worker'[g] = "done"}
    <2>1. \A g \in run.hosts \cap Remote : worker[g] = "done" <=> worker'[g] = "done"
      BY <1>1, <1>2, DiffAssumption
    <2> QED BY <2>1 DEF IInv, FilesInv
  <1>6. FilesInv'
    BY <1>5 DEF IInv, FilesInv, Answer
  <1> QED BY <1>1, <1>2, <1>4, <1>6 DEF NoteInv

LEMMA NextInv == IInv /\ [Next]_vars => IInv'
  <1> SUFFICES ASSUME IInv, [Next]_vars PROVE IInv'
    OBVIOUS
  <1> USE DiffAssumption
  <1>t. TypeOK /\ WorkersInv /\ FilesInv /\ NoteInv
    BY DEF IInv
  <1>r. run \in Runs /\ worker \in [Host -> Places] /\ faults \in 0 .. MaxFaults
    BY <1>t DEF TypeOK
  <1>k. ASSUME UNCHANGED <<seen, diffs, blind>>, UNCHANGED worker, run'.hosts = run.hosts
        PROVE  FilesInv'
    BY <1>t, <1>k DEF FilesInv, Answer
  <1>1. CASE Prepare
    <2>1. PICK s \in {"test", "login", "push", "aggregate", "ok"} :
             /\ Enter(s)
             /\ s = "aggregate" => run.stage = "preview"
             /\ s = "ok" => run.stage = "post"
      BY <1>1 DEF Prepare
    <2>2. run' \in Runs /\ run'.stage = s /\ run'.hosts = run.hosts
      BY <1>r, <2>1, EnterKeeps DEF Stages
    <2>3. UNCHANGED <<machine, worker, tries, diffs, seen, blind, note, changes, faults>>
      BY <1>1 DEF Prepare, compared
    <2>4. TypeOK'
      BY <1>t, <2>2, <2>3 DEF TypeOK
    <2>5. WorkersInv'
      BY <1>t, <2>1, <2>2, <2>3 DEF WorkersInv
    <2>6. NoteInv'
      BY <1>t, <2>1, <2>2, <2>3 DEF NoteInv
    <2> QED BY <1>k, <2>2, <2>3, <2>4, <2>5, <2>6 DEF IInv
  <1>2. CASE Wait
    <2>1. PICK s \in {"failed", "preview", "aggregate"} :
             Enter(s) /\ (s # "failed" => \A h \in Host : worker[h] # "failed")
      BY <1>2 DEF Wait
    <2>2. run' \in Runs /\ run'.stage = s /\ run'.hosts = run.hosts
      BY <1>r, <2>1, EnterKeeps DEF Stages
    <2>3. UNCHANGED <<machine, worker, tries, diffs, seen, blind, note, changes, faults>>
      BY <1>2 DEF Wait, compared
    <2>4. TypeOK'
      BY <1>t, <2>2, <2>3 DEF TypeOK
    <2>5. s # "failed" => \A h \in Host : worker[h] = "done"
      BY <1>2, <1>t, <2>1 DEF Wait, WorkersInv
    <2>6. WorkersInv' /\ NoteInv'
      BY <1>t, <2>1, <2>2, <2>3, <2>5 DEF WorkersInv, NoteInv
    <2> QED BY <1>k, <2>2, <2>3, <2>4, <2>6 DEF IInv
  <1>3. CASE AggregateDiffs
    <2>1. run' \in Runs /\ run'.stage = "post" /\ run'.hosts = run.hosts
      BY <1>3, <1>r, EnterKeeps DEF Stages, AggregateDiffs
    <2>2. UNCHANGED <<machine, worker, tries, diffs, seen, blind, changes, faults>>
      BY <1>3 DEF AggregateDiffs, compared
    <2>3. TypeOK'
      BY <1>t, <2>1, <2>2 DEF TypeOK
    <2>4. WorkersInv'
      BY <1>3, <1>t, <2>1, <2>2 DEF WorkersInv, AggregateDiffs
    <2>5. NoteInv'
      BY <1>3, <2>2 DEF NoteInv, AggregateDiffs, Aggregate
    <2> QED BY <1>k, <2>1, <2>2, <2>3, <2>4, <2>5 DEF IInv
  <1>4. CASE Break
    <2>1. run' \in Runs /\ run'.stage = "failed" /\ run'.hosts = run.hosts
      BY <1>4, <1>r, EnterKeeps DEF Stages, Break
    <2>2. UNCHANGED <<machine, worker, tries, diffs, seen, blind, note, changes>>
      BY <1>4 DEF Break, compared
    <2>3. faults' \in 0 .. MaxFaults
      BY <1>4, <1>r, FaultKeeps DEF Break
    <2>4. TypeOK'
      BY <1>t, <2>1, <2>2, <2>3 DEF TypeOK
    <2>5. WorkersInv' /\ NoteInv'
      BY <1>t, <2>1, <2>2 DEF WorkersInv, NoteInv
    <2> QED BY <1>k, <2>1, <2>2, <2>4, <2>5 DEF IInv
  <1>5. ASSUME NEW h \in Host, Go(h) PROVE IInv'
    <2> DEFINE pc == IF run.attic THEN "attic" ELSE AfterAttic(h)
    <2>1. /\ pc \in Places /\ (pc \in {"push", "diff"} => h \in Remote)
          /\ (pc = "done" => h \notin Remote)
      BY DEF AfterAttic, Places
    <2>2. /\ run.stage = "push" /\ worker[h] = "waiting" /\ Becomes(h, pc)
          /\ UNCHANGED <<machine, run, tries, diffs, seen, blind, note, changes, faults>>
      BY <1>5 DEF Go, compared
    <2> HIDE DEF pc
    <2>3. worker' \in [Host -> Places] /\ WorkersInv' /\ FilesInv' /\ NoteInv'
      BY <2>1, <2>2, MovePreserves
    <2>4. TypeOK'
      BY <1>t, <2>2, <2>3 DEF TypeOK
    <2> QED BY <2>3, <2>4 DEF IInv
  <1>6. ASSUME NEW h \in Host, PushToAttic(h) PROVE IInv'
    <2>1. /\ run.stage = "push" /\ worker[h] = "attic"
          /\ UNCHANGED <<machine, run, diffs, seen, blind, note, changes>>
      BY <1>6 DEF PushToAttic, compared
    <2>2. faults' \in 0 .. MaxFaults
      <3>1. Fault \/ UNCHANGED faults
        BY <1>6 DEF PushToAttic, CommandFails
      <3> QED BY <1>r, <3>1, FaultKeeps
    <2>3. CASE UNCHANGED worker
      <3>1. UNCHANGED tries \/ (tries[h] < Retries /\ tries' = [tries EXCEPT ![h] = @ + 1])
        BY <1>6 DEF PushToAttic
      <3>2. tries' \in [Host -> 0 .. Retries]
        BY <1>t, <3>1 DEF TypeOK
      <3>3. TypeOK'
        BY <1>t, <2>1, <2>2, <2>3, <3>2 DEF TypeOK
      <3>4. WorkersInv' /\ NoteInv'
        BY <1>t, <2>1, <2>3 DEF WorkersInv, NoteInv
      <3> QED BY <1>k, <2>1, <2>3, <3>3, <3>4 DEF IInv
    <2>4. CASE UNCHANGED tries /\ \E pc \in {AfterAttic(h), "failed"} : Becomes(h, pc)
      <3>1. PICK pc \in {AfterAttic(h), "failed"} : Becomes(h, pc)
        BY <2>4
      <3>2. /\ pc \in Places /\ (pc \in {"push", "diff"} => h \in Remote)
            /\ (pc = "done" => h \notin Remote)
        BY DEF AfterAttic, Places
      <3>3. worker' \in [Host -> Places] /\ WorkersInv' /\ FilesInv' /\ NoteInv'
        BY <2>1, <3>1, <3>2, MovePreserves
      <3>4. TypeOK'
        BY <1>t, <2>1, <2>2, <2>4, <3>3 DEF TypeOK
      <3> QED BY <3>3, <3>4 DEF IInv
    <2> QED BY <1>6, <2>3, <2>4 DEF PushToAttic
  <1>7. ASSUME NEW h \in Host, Push(h) PROVE IInv'
    <2>1. /\ run.stage = "push" /\ worker[h] = "push"
          /\ UNCHANGED <<machine, run, tries, diffs, seen, blind, note, changes>>
      BY <1>7 DEF Push, compared
    <2>2. PICK pc \in {"diff", "failed"} : Becomes(h, pc)
      BY <1>7 DEF Push
    <2>3. faults' \in 0 .. MaxFaults
      <3>1. Fault \/ UNCHANGED faults
        BY <1>7 DEF Push, CommandFails
      <3> QED BY <1>r, <3>1, FaultKeeps
    <2>4. h \in Remote /\ pc \in Places
      BY <1>t, <2>1 DEF WorkersInv, Places
    <2>5. worker' \in [Host -> Places] /\ WorkersInv' /\ FilesInv' /\ NoteInv'
      BY <2>1, <2>2, <2>4, MovePreserves
    <2>6. TypeOK'
      BY <1>t, <2>1, <2>3, <2>5 DEF TypeOK
    <2> QED BY <2>5, <2>6 DEF IInv
  <1>8. ASSUME NEW h \in Host, DiffFails(h) PROVE IInv'
    <2>1. /\ run.stage = "push" /\ worker[h] = "diff" /\ Becomes(h, "failed")
          /\ UNCHANGED <<machine, run, tries, diffs, seen, blind, note, changes>>
      BY <1>8 DEF DiffFails, compared
    <2>2. faults' \in 0 .. MaxFaults
      BY <1>8, <1>r, FaultKeeps DEF DiffFails
    <2>3. worker' \in [Host -> Places] /\ WorkersInv' /\ FilesInv' /\ NoteInv'
      <3>1. "failed" \in Places BY DEF Places
      <3> QED BY <2>1, <3>1, MovePreserves
    <2>4. TypeOK'
      BY <1>t, <2>1, <2>2, <2>3 DEF TypeOK
    <2> QED BY <2>3, <2>4 DEF IInv
  <1>9. ASSUME NEW h \in Host, Diff(h) PROVE IInv'
    <2>1. /\ run.stage = "push" /\ worker[h] = "diff" /\ Becomes(h, "done")
          /\ UNCHANGED <<machine, run, tries, note, changes>>
          /\ seen' = Written(seen, h, machine[h])
      BY <1>9 DEF Diff
    <2>2. PICK failing \in SUBSET {"left", "right", "boot"} :
          /\ diffs' = Written(diffs, h, DiffResult(
                  Query(Installed[h][machine[h].running], "left" \in failing),
                  Query(Installed[h][Target], "right" \in failing),
                  Query(Installed[h][machine[h].booted], "boot" \in failing)))
          /\ IF failing = {} THEN UNCHANGED <<blind, faults>>
             ELSE Fault /\ blind' = blind \cup {h}
      BY <1>9 DEF Diff
    <2>3. h \in run.hosts /\ h \in Remote
      BY <1>t, <2>1 DEF WorkersInv
    <2>4. machine[h] \in Machines
      BY <1>t, <2>3 DEF TypeOK
    <2>5. DOMAIN diffs = DOMAIN seen
      BY <1>t DEF TypeOK
    <2>6. /\ DOMAIN seen' = DOMAIN seen \cup {h} /\ seen'[h] = machine[h]
          /\ \A k \in DOMAIN seen \ {h} : seen'[k] = seen[k] /\ diffs'[k] = diffs[k]
          /\ seen' \in [DOMAIN seen' -> Machines]
          /\ diffs' = [k \in DOMAIN seen' |-> diffs'[k]]
      BY <1>t, <2>1, <2>2, <2>4, <2>5 DEF Written, TypeOK
    <2>7. faults' \in 0 .. MaxFaults
      BY <1>r, <2>2, FaultKeeps
    <2>8. worker' = [worker EXCEPT ![h] = "done"] /\ worker' \in [Host -> Places]
      BY <1>r, <2>1 DEF Becomes, Places
    <2>9. TypeOK'
      BY <1>t, <2>1, <2>6, <2>7, <2>8 DEF TypeOK
    <2>10. WorkersInv' /\ NoteInv'
      BY <1>t, <1>r, <2>1, <2>8 DEF WorkersInv, NoteInv
    <2>11. DOMAIN seen' = {g \in run.hosts \cap Remote : worker'[g] = "done"}
      BY <1>t, <1>r, <2>3, <2>6, <2>8 DEF FilesInv
    <2>12. ASSUME NEW k \in DOMAIN seen' \ blind' PROVE diffs'[k] = Answer(k)'
      <3>1. CASE k = h
        <4>1. CASE failing = {}
          <5>1. diffs'[h] = DiffResult(Installed[h][machine[h].running], Installed[h][Target],
                                       Installed[h][machine[h].booted])
            BY <2>2, <4>1 DEF Written, Query
          <5> QED BY <3>1, <5>1, <2>6 DEF Answer
        <4>2. CASE failing # {}
          BY <2>2, <2>12, <3>1, <4>2
        <4> QED BY <4>1, <4>2
      <3>2. CASE k # h
        <4>1. k \in DOMAIN seen \ blind
          BY <2>2, <2>6, <2>12, <3>2
        <4>2. diffs[k] = Answer(k) /\ diffs'[k] = diffs[k] /\ seen'[k] = seen[k]
          BY <1>t, <2>6, <3>2, <4>1 DEF FilesInv
        <4> QED BY <4>2 DEF Answer
      <3> QED BY <3>1, <3>2
    <2>13. FilesInv'
      BY <2>1, <2>11, <2>12 DEF FilesInv
    <2> QED BY <2>9, <2>10, <2>13 DEF IInv
  <1>10. ASSUME NEW h \in Remote, Redeploy(h) PROVE IInv'
    <2>1. /\ changes' \in 0 .. MaxChanges
          /\ UNCHANGED <<run, worker, tries, diffs, seen, blind, note, faults>>
      BY <1>10, <1>t DEF Redeploy, compared, TypeOK
    <2>2. machine' \in [Remote -> Machines]
      <3>1. machine \in [Remote -> Machines]
        BY <1>t DEF TypeOK
      <3>2. PICK v \in Version :
              \/ machine' = [machine EXCEPT ![h].running = v]
              \/ machine' = [machine EXCEPT ![h] = [running |-> v, booted |-> v]]
        BY <1>10 DEF Redeploy
      <3> QED BY <3>1, <3>2 DEF Machines
    <2>3. TypeOK'
      BY <1>t, <2>1, <2>2 DEF TypeOK
    <2>4. WorkersInv' /\ NoteInv'
      BY <1>t, <2>1 DEF WorkersInv, NoteInv
    <2> QED BY <1>k, <2>1, <2>3, <2>4 DEF IInv
  <1>11. CASE UNCHANGED vars
    <2>1. UNCHANGED <<machine, run, worker, tries, diffs, seen, blind, note, changes, faults>>
      BY <1>11 DEF vars
    <2>2. TypeOK' /\ WorkersInv' /\ NoteInv'
      BY <1>t, <2>1 DEF TypeOK, WorkersInv, NoteInv
    <2> QED BY <1>k, <2>1, <2>2 DEF IInv
  <1> QED
    BY <1>1, <1>2, <1>3, <1>4, <1>5, <1>6, <1>7, <1>8, <1>9, <1>10, <1>11
       DEF Next, RunStep, Pushing

\* Every reachable state of the command has values of the right kind, whoever
\* deploys the hosts and whatever fails meanwhile.
THEOREM CmdDiffTypeCorrect == Spec => []TypeOK
  <1>1. IInv => TypeOK
    BY DEF IInv
  <1> QED BY InitInv, NextInv, <1>1, PTL DEF Spec

-----------------------------------------------------------------------------
(* nvd-json's operators. *)

\* Every name in a set of packages has a version, so none is taken for missing.
LEMMA NamesHaveVersions ==
    ASSUME NEW paths, NEW p \in DOMAIN PackageSet(paths)
    PROVE  DOMAIN PackageSet(paths)[p] # {}
  <1>1. PICK path \in paths : Pname(path) = p
    BY DEF PackageSet
  <1>2. VersionOf(path) \in DOMAIN PackageSet(paths)[p]
    BY <1>1 DEF PackageSet
  <1> QED BY <1>2

\* The four sections of a difference, each of a kind of change of its own.
LEMMA DiffSections ==
    ASSUME NEW left, NEW right, NEW boot
    PROVE  /\ DiffResult(left, right, boot)["version_changes"] =
                  Changes(left, right, Changed(left, right))
           /\ DiffResult(left, right, boot)["added_packages"] =
                  Changes(left, right, DOMAIN right \ DOMAIN left)
           /\ DiffResult(left, right, boot)["removed_packages"] =
                  Changes(left, right, DOMAIN left \ DOMAIN right)
           /\ DiffResult(left, right, boot)["reboot_packages"] = RebootPackages(boot, right)
  BY DEF DiffResult, Sections

\* A change of a list says of which name, and between which versions.
LEMMA ChangeOf ==
    ASSUME NEW left, NEW right, NEW names, NEW ch
    PROVE  ch \in Changes(left, right, names) <=>
              \E p \in names : /\ Versions(left, p) # Versions(right, p)
                               /\ ch = Change(p, Versions(left, p), Versions(right, p))
  BY DEF Changes

\* Two sets of packages, each with a version of every name in it.
Sets(left, right) ==
    /\ \A p \in DOMAIN left : DOMAIN left[p] # {}
    /\ \A p \in DOMAIN right : DOMAIN right[p] # {}

\* A package is listed once, in the section that fits it, if its versions
\* differ, and in none if they do not.
LEMMA SectionFits ==
    ASSUME NEW left, NEW right, NEW boot, Sets(left, right),
           NEW p \in DOMAIN left \cup DOMAIN right, NEW s \in MainSections,
           NEW ch
    PROVE  LET old == Versions(left, p)
               new == Versions(right, p)
           IN  (ch \in DiffResult(left, right, boot)[s] /\ ch.pname = p) <=>
                   /\ old # new
                   /\ s = SectionOf(old, new)
                   /\ ch = Change(p, old, new)
  <1> DEFINE old == Versions(left, p)
             new == Versions(right, p)
  <1>1. DOMAIN old = {} <=> p \notin DOMAIN left
    BY DEF Versions, Sets
  <1>2. DOMAIN new = {} <=> p \notin DOMAIN right
    BY DEF Versions, Sets
  <1>3. p \in DOMAIN left \cap DOMAIN right => old = left[p] /\ new = right[p]
    BY DEF Versions
  <1>4. SectionOf(old, new) = IF p \notin DOMAIN left THEN "added_packages"
                              ELSE IF p \notin DOMAIN right THEN "removed_packages"
                              ELSE "version_changes"
    BY <1>1, <1>2 DEF SectionOf
  <1>5. p \notin DOMAIN left \cap DOMAIN right => old # new
    BY <1>1, <1>2
  <1>6. ASSUME NEW names
        PROVE  (ch \in Changes(left, right, names) /\ ch.pname = p) <=>
                   p \in names /\ old # new /\ ch = Change(p, old, new)
    <2>1. Change(p, old, new).pname = p /\ \A q, o, n : Change(q, o, n).pname = q
      BY DEF Change
    <2> QED BY <2>1, ChangeOf
  <1> HIDE DEF old, new
  <1>7. s \in {"version_changes", "added_packages", "removed_packages"}
    BY DEF MainSections, Sections
  <1> SUFFICES (ch \in DiffResult(left, right, boot)[s] /\ ch.pname = p) <=>
                   old # new /\ s = SectionOf(old, new) /\ ch = Change(p, old, new)
    BY DEF old, new
  <1>8. CASE s = "version_changes"
    <2>1. p \in Changed(left, right) <=> p \in DOMAIN left \cap DOMAIN right /\ old # new
      BY <1>3 DEF Changed
    <2>2. DiffResult(left, right, boot)[s] = Changes(left, right, Changed(left, right))
      BY <1>8, DiffSections
    <2>3. (ch \in DiffResult(left, right, boot)[s] /\ ch.pname = p) <=>
              p \in Changed(left, right) /\ old # new /\ ch = Change(p, old, new)
      BY <1>6, <2>2
    <2> QED BY <1>4, <1>5, <1>8, <2>1, <2>3
  <1>9. CASE s = "added_packages"
    <2>1. DiffResult(left, right, boot)[s] = Changes(left, right, DOMAIN right \ DOMAIN left)
      BY <1>9, DiffSections
    <2>2. (ch \in DiffResult(left, right, boot)[s] /\ ch.pname = p) <=>
              p \in DOMAIN right \ DOMAIN left /\ old # new /\ ch = Change(p, old, new)
      BY <1>6, <2>1
    <2> QED BY <1>4, <1>5, <1>9, <2>2
  <1>10. CASE s = "removed_packages"
    <2>1. DiffResult(left, right, boot)[s] = Changes(left, right, DOMAIN left \ DOMAIN right)
      BY <1>10, DiffSections
    <2>2. (ch \in DiffResult(left, right, boot)[s] /\ ch.pname = p) <=>
              p \in DOMAIN left \ DOMAIN right /\ old # new /\ ch = Change(p, old, new)
      BY <1>6, <2>1
    <2> QED BY <1>4, <1>5, <1>10, <2>2
  <1> QED BY <1>7, <1>8, <1>9, <1>10

-----------------------------------------------------------------------------
(* The aggregated differences. *)

Pushed(files, s) == UNION {{h} \X files[h][s] : h \in DOMAIN files}

\* What is pushed to a section is what some host's file has there.
LEMMA PushedIs ==
    ASSUME NEW files, NEW s \in Sections, NEW x
    PROVE  x \in Pushed(files, s) <=>
               \E h \in DOMAIN files : \E ch \in files[h][s] : x = <<h, ch>>
  BY DEF Pushed

\* A section of the note has the changes of that section of every file, each
\* with the name of its host ...
LEMMA AggregateIs ==
    ASSUME NEW files, NEW s \in Sections, NEW c
    PROVE  c \in DOMAIN Aggregate(files)[s] <=>
               \E h \in DOMAIN files : \E ch \in files[h][s] : c = HostChange(h, ch)
  <1>1. DOMAIN Aggregate(files)[s] = {HostChange(x[1], x[2]) : x \in Pushed(files, s)}
    BY DEF Aggregate, Pushed
  <1>2. ASSUME NEW x \in Pushed(files, s), c = HostChange(x[1], x[2])
        PROVE  \E h \in DOMAIN files : \E ch \in files[h][s] : c = HostChange(h, ch)
    <2>1. PICK h \in DOMAIN files : \E ch \in files[h][s] : x = <<h, ch>>
      BY PushedIs
    <2>2. PICK ch \in files[h][s] : x = <<h, ch>>
      BY <2>1
    <2> QED BY <1>2, <2>2
  <1>3. ASSUME NEW h \in DOMAIN files, NEW ch \in files[h][s], c = HostChange(h, ch)
        PROVE  \E x \in Pushed(files, s) : c = HostChange(x[1], x[2])
    <2>1. <<h, ch>> \in Pushed(files, s)
      BY PushedIs
    <2> QED BY <1>3, <2>1
  <1> QED BY <1>1, <1>2, <1>3

\* ... as often as it was pushed.
LEMMA AggregateCounts ==
    ASSUME NEW files, NEW s \in Sections, NEW c \in DOMAIN Aggregate(files)[s]
    PROVE  Aggregate(files)[s][c] =
               Cardinality({x \in Pushed(files, s) : HostChange(x[1], x[2]) = c})
  BY DEF Aggregate, Pushed

\* The names that the note gives a host's packages tell them apart.
LEMMA CommonNameInjective ==
    ASSUME NEW h, NEW p, NEW q, p # <<"nixos", "system">>, q # <<"nixos", "system">>,
           CommonName(h, p) = CommonName(h, q)
    PROVE  p = q
  BY DEF CommonName

\* What the note says of one package of a host with an exact file: the change of
\* the one section it belongs to, once.
LEMMA ListedExactly ==
    ASSUME NEW h \in DOMAIN diffs, NEW left, NEW right, NEW boot, Sets(left, right),
           diffs[h] = DiffResult(left, right, boot), note = Aggregate(diffs),
           <<"nixos", "system">> \notin DOMAIN left \cup DOMAIN right,
           NEW p \in DOMAIN left \cup DOMAIN right
    PROVE  LET old == Versions(left, p)
               new == Versions(right, p)
               there == Listed(MainSections, h, CommonName(h, p))
           IN  IF old = new THEN there = {}
               ELSE LET s == SectionOf(old, new)
                        c == HostChange(h, Change(p, old, new))
                    IN  there = {<<s, c>>} /\ note[s][c] = 1
  <1> DEFINE old == Versions(left, p)
             new == Versions(right, p)
             there == Listed(MainSections, h, CommonName(h, p))
             place == SectionOf(old, new)
             change == Change(p, old, new)
  <1>1. MainSections \subseteq Sections
    BY DEF MainSections
  <1>2. \A g, ch : /\ HostChange(g, ch).hostname = g
                   /\ HostChange(g, ch).pname = CommonName(g, ch.pname)
                   /\ HostChange(g, ch).old = ch.old /\ HostChange(g, ch).new = ch.new
    BY DEF HostChange
  <1>3. ASSUME NEW s \in MainSections, NEW ch \in DiffResult(left, right, boot)[s]
        PROVE  ch.pname \in DOMAIN left \cup DOMAIN right
    <2>1. PICK names \in {Changed(left, right), DOMAIN right \ DOMAIN left,
                          DOMAIN left \ DOMAIN right} :
             ch \in Changes(left, right, names)
      BY <1>3, DiffSections DEF MainSections, Sections
    <2>2. \A q \in names : q \in DOMAIN left \cup DOMAIN right
      BY <2>1 DEF Changed
    <2>3. \A q, o, n : Change(q, o, n).pname = q
      BY DEF Change
    <2> QED BY <2>1, <2>2, <2>3, ChangeOf
  <1>4. ASSUME NEW s \in MainSections, NEW ch \in DiffResult(left, right, boot)[s],
               CommonName(h, ch.pname) = CommonName(h, p)
        PROVE  ch.pname = p
    <2>1. ch.pname # <<"nixos", "system">> /\ p # <<"nixos", "system">>
      BY <1>3
    <2> QED BY <1>4, <2>1, CommonNameInjective
  <1>5. ASSUME NEW s \in MainSections, NEW c
        PROVE  (c \in DOMAIN note[s] /\ c.hostname = h /\ c.pname = CommonName(h, p)) <=>
                   old # new /\ s = place /\ c = HostChange(h, change)
    <2>1. c \in DOMAIN note[s] <=>
              \E g \in DOMAIN diffs : \E ch \in diffs[g][s] : c = HostChange(g, ch)
      <3>1. s \in Sections
        BY <1>1
      <3>2. c \in DOMAIN Aggregate(diffs)[s] <=>
                \E g \in DOMAIN diffs : \E ch \in diffs[g][s] : c = HostChange(g, ch)
        BY <3>1, AggregateIs
      <3> QED BY <3>2
    <2>2. (c \in DOMAIN note[s] /\ c.hostname = h /\ c.pname = CommonName(h, p)) <=>
              \E ch \in DiffResult(left, right, boot)[s] :
                  ch.pname = p /\ c = HostChange(h, ch)
      BY <2>1, <1>2, <1>4
    <2>3. \A ch : (ch \in DiffResult(left, right, boot)[s] /\ ch.pname = p) <=>
                      old # new /\ s = place /\ ch = change
      BY SectionFits
    <2> QED BY <2>2, <2>3
  <1>6. \A x : x \in there <=>
            \E s \in MainSections : \E c \in DOMAIN note[s] :
                x = <<s, c>> /\ c.hostname = h /\ c.pname = CommonName(h, p)
    BY DEF Listed
  <1>7. \A x : x \in there <=>
            old # new /\ place \in MainSections /\ x = <<place, HostChange(h, change)>>
    BY <1>5, <1>6
  <1>8. place \in MainSections
    BY DEF SectionOf, MainSections, Sections
  <1>9. ASSUME old # new PROVE note[place][HostChange(h, change)] = 1
    <2> DEFINE c == HostChange(h, change)
    <2>1. c \in DOMAIN note[place] /\ c.hostname = h /\ c.pname = CommonName(h, p)
      BY <1>5, <1>8, <1>9
    <2>2. note[place][c] =
              Cardinality({x \in Pushed(diffs, place) : HostChange(x[1], x[2]) = c})
      BY <1>1, <1>8, <2>1, AggregateCounts
    <2>3. change \in DiffResult(left, right, boot)[place] /\ change.pname = p
      BY <1>8, <1>9, SectionFits
    <2>4. <<h, change>> \in Pushed(diffs, place)
      BY <1>1, <1>8, <2>3, PushedIs
    <2>5. ASSUME NEW x \in Pushed(diffs, place), HostChange(x[1], x[2]) = c
          PROVE  x = <<h, change>>
      <3>1. PICK g \in DOMAIN diffs : \E ch \in diffs[g][place] : x = <<g, ch>>
        BY <1>1, <1>8, <2>5, PushedIs
      <3>2. PICK ch \in diffs[g][place] : x = <<g, ch>>
        BY <3>1
      <3>3. HostChange(g, ch) = c
        BY <2>5, <3>2
      <3>4. g = h /\ CommonName(h, ch.pname) = CommonName(h, p)
        BY <1>2, <2>1, <3>3
      <3>5. ch.pname = p
        BY <1>4, <1>8, <3>2, <3>4
      <3>6. ch = change
        BY <1>8, <3>2, <3>4, <3>5, SectionFits
      <3> QED BY <3>2, <3>4, <3>6
    <2>6. {x \in Pushed(diffs, place) : HostChange(x[1], x[2]) = c} = {<<h, change>>}
      <3>1. <<h, change>>[1] = h /\ <<h, change>>[2] = change
        OBVIOUS
      <3> QED BY <2>4, <2>5, <3>1
    <2> QED BY <2>2, <2>6, FS_Singleton
  <1>10. CASE old = new
    <2>1. there = {}
      BY <1>7, <1>10
    <2> QED BY <1>10, <2>1
  <1>11. CASE old # new
    <2>1. there = {<<place, HostChange(h, change)>>}
      BY <1>7, <1>8, <1>11
    <2> QED BY <1>9, <1>11, <2>1
  <1> QED BY <1>10, <1>11

-----------------------------------------------------------------------------
(* The note. *)

\* When the command has ended well, every host it must speak for has an exact
\* file, and the note is the aggregate of the files.
LEMMA EndedWell ==
    ASSUME IInv, run.stage = "ok", NEW h \in Compared
    PROVE  /\ h \in Host /\ h \in DOMAIN seen /\ h \in DOMAIN diffs
           /\ diffs[h] = Answer(h)
           /\ seen[h] \in Machines
           /\ note = Aggregate(diffs)
  <1>1. h \in run.hosts \cap Remote /\ h \notin blind /\ h \in Host
    BY DiffAssumption DEF Compared
  <1>2. worker[h] = "done"
    BY <1>1 DEF IInv, WorkersInv
  <1>3. h \in DOMAIN seen
    BY <1>1, <1>2 DEF IInv, FilesInv
  <1>4. DOMAIN diffs = DOMAIN seen /\ seen[h] \in Machines
    BY <1>3 DEF IInv, TypeOK
  <1> QED
    BY <1>1, <1>3, <1>4 DEF IInv, FilesInv, NoteInv

\* The systems of a host are sets of packages, none with the notes' own name.
LEMMA InstalledSets ==
    ASSUME NEW h \in Host, NEW v \in Version, NEW w \in Version
    PROVE  /\ Sets(Installed[h][v], Installed[h][w])
           /\ <<"nixos", "system">> \notin DOMAIN Installed[h][v] \cup DOMAIN Installed[h][w]
  <1>1. Installed[h][v] = PackageSet(Closure[h][v]) /\ Installed[h][w] = PackageSet(Closure[h][w])
    BY DEF Installed
  <1>2. Sets(Installed[h][v], Installed[h][w])
    BY <1>1, NamesHaveVersions DEF Sets
  <1> QED BY <1>2, NamesAssumption

LEMMA InvNoteIsExact == IInv => NoteIsExact
  <1> SUFFICES ASSUME IInv, run.stage = "ok", NEW h \in Compared
      PROVE  h \in DOMAIN seen /\
             LET left == Installed[h][seen[h].running]
                 right == Installed[h][Target]
             IN \A p \in DOMAIN left \cup DOMAIN right :
                     LET old == Versions(left, p)
                         new == Versions(right, p)
                         there == Listed(MainSections, h, CommonName(h, p))
                     IN  IF old = new THEN there = {}
                         ELSE LET s == SectionOf(old, new)
                                  c == HostChange(h, Change(p, old, new))
                              IN  there = {<<s, c>>} /\ note[s][c] = 1
    BY DEF NoteIsExact
  <1> DEFINE left == Installed[h][seen[h].running]
             right == Installed[h][Target]
             boot == Installed[h][seen[h].booted]
  <1>1. /\ h \in Host /\ h \in DOMAIN seen /\ h \in DOMAIN diffs
        /\ diffs[h] = DiffResult(left, right, boot)
        /\ note = Aggregate(diffs)
    BY EndedWell DEF Answer
  <1>2. seen[h].running \in Version /\ Target \in Version
    BY EndedWell, DiffAssumption DEF Machines
  <1>3. Sets(left, right) /\ <<"nixos", "system">> \notin DOMAIN left \cup DOMAIN right
    BY <1>1, <1>2, InstalledSets
  <1> HIDE DEF left, right, boot
  <1>4. ASSUME NEW p \in DOMAIN left \cup DOMAIN right
        PROVE  LET old == Versions(left, p)
                   new == Versions(right, p)
                   there == Listed(MainSections, h, CommonName(h, p))
               IN  IF old = new THEN there = {}
                   ELSE LET s == SectionOf(old, new)
                            c == HostChange(h, Change(p, old, new))
                        IN  there = {<<s, c>>} /\ note[s][c] = 1
    BY <1>1, <1>3, ListedExactly
  <1> QED BY <1>1, <1>4 DEF left, right

LEMMA InvRebootAnnounced == IInv => RebootAnnounced
  <1> SUFFICES ASSUME IInv, run.stage = "ok", NEW h \in Compared
      PROVE  LET reboots == {c \in DOMAIN note["reboot_packages"] : c.hostname = h}
             IN  /\ RebootCheck(Installed[h][seen[h].booted], Installed[h][Target])
                         <=> reboots # {}
                 /\ seen[h].running = seen[h].booted =>
                         \A c \in reboots : Listed(MainSections, h, c.pname) # {}
    BY DEF RebootAnnounced
  <1> DEFINE left == Installed[h][seen[h].running]
             right == Installed[h][Target]
             boot == Installed[h][seen[h].booted]
             reboots == {c \in DOMAIN note["reboot_packages"] : c.hostname = h}
  <1>1. /\ h \in Host /\ h \in DOMAIN seen /\ h \in DOMAIN diffs
        /\ diffs[h] = DiffResult(left, right, boot)
        /\ note = Aggregate(diffs)
    BY EndedWell DEF Answer
  <1>2. seen[h].running \in Version /\ Target \in Version
    BY EndedWell, DiffAssumption DEF Machines
  <1>3. Sets(left, right) /\ <<"nixos", "system">> \notin DOMAIN left \cup DOMAIN right
    BY <1>1, <1>2, InstalledSets
  <1>4. seen[h].running = seen[h].booted => left = boot
    OBVIOUS
  <1> HIDE DEF left, right, boot
  <1>5. \A g, ch : /\ HostChange(g, ch).hostname = g
                   /\ HostChange(g, ch).pname = CommonName(g, ch.pname)
    BY DEF HostChange
  <1>6. \A c : c \in reboots <=> \E ch \in RebootPackages(boot, right) : c = HostChange(h, ch)
    <2>1. "reboot_packages" \in Sections
      BY DEF Sections
    <2>2. \A c : c \in DOMAIN note["reboot_packages"] <=>
              \E g \in DOMAIN diffs :
                  \E ch \in diffs[g]["reboot_packages"] : c = HostChange(g, ch)
      BY <1>1, <2>1, AggregateIs
    <2>3. diffs[h]["reboot_packages"] = RebootPackages(boot, right)
      <3>1. DiffResult(left, right, boot)["reboot_packages"] = RebootPackages(boot, right)
        BY DiffSections
      <3> QED BY <1>1, <3>1
    <2> QED BY <1>1, <1>5, <2>2, <2>3
  <1>7. RebootCheck(boot, right) <=> reboots # {}
    BY <1>6 DEF RebootCheck
  <1>8. ASSUME left = boot, NEW c \in reboots
        PROVE  Listed(MainSections, h, c.pname) # {}
    <2>1. PICK ch \in RebootPackages(boot, right) : c = HostChange(h, ch)
      BY <1>6, <1>8
    <2>2. PICK p \in {<<"linux">>, <<"systemd">>} :
             /\ SimpleVersions(boot, p) # SimpleVersions(right, p)
             /\ ch = Change(p, SimpleVersions(boot, p), SimpleVersions(right, p))
      BY <2>1 DEF RebootPackages, SimpleChanges
    <2>3. c.pname = CommonName(h, p)
      BY <1>5, <2>1, <2>2 DEF Change
    <2>4. p \in DOMAIN left \cup DOMAIN right
      <3>1. p \notin DOMAIN left => SimpleVersions(left, p) = {}
        BY DEF SimpleVersions
      <3>2. p \notin DOMAIN right => SimpleVersions(right, p) = {}
        BY DEF SimpleVersions
      <3> QED BY <1>8, <2>2, <3>1, <3>2
    <2>5. Versions(left, p) # Versions(right, p)
      <3>1. CASE p \in DOMAIN left /\ p \in DOMAIN right
        <4>1. left[p] # right[p]
          <5>1. SimpleVersions(boot, p) = {{v[1] : v \in DOMAIN left[p] \ {<<>>}}}
            BY <1>8, <3>1 DEF SimpleVersions
          <5>2. SimpleVersions(right, p) = {{v[1] : v \in DOMAIN right[p] \ {<<>>}}}
            BY <3>1 DEF SimpleVersions
          <5> QED BY <2>2, <5>1, <5>2
        <4> QED BY <3>1, <4>1 DEF Versions
      <3>2. CASE p \in DOMAIN left /\ p \notin DOMAIN right
        BY <1>3, <3>2 DEF Versions, Sets
      <3>3. CASE p \notin DOMAIN left /\ p \in DOMAIN right
        BY <1>3, <3>3 DEF Versions, Sets
      <3> QED BY <2>4, <3>1, <3>2, <3>3
    <2> DEFINE listed == <<SectionOf(Versions(left, p), Versions(right, p)),
                           HostChange(h, Change(p, Versions(left, p), Versions(right, p)))>>
    <2>6. Listed(MainSections, h, CommonName(h, p)) = {listed}
      BY <1>1, <1>3, <2>4, <2>5, ListedExactly
    <2> QED BY <2>3, <2>6
  <1> QED BY <1>4, <1>7, <1>8 DEF left, right, boot

\* Whichever goroutines are scheduled, whatever fails, and whoever deploys or
\* reboots the hosts meanwhile: a note that is posted lists each package of each
\* remote host of the plan once if its versions differ, in the section that fits,
\* and not at all otherwise.
THEOREM NoteExact == Spec => []NoteIsExact
  BY InitInv, NextInv, InvNoteIsExact, PTL DEF Spec

\* It announces a reboot exactly of the hosts that a deployment which finds them
\* as they were will reboot, and on a host that runs what it booted lists the
\* reason for it with the other changes.
THEOREM RebootsAnnounced == Spec => []RebootAnnounced
  BY InitInv, NextInv, InvRebootAnnounced, PTL DEF Spec

-----------------------------------------------------------------------------
(* What Rollout takes of the reboot check: a number for each system. *)

\* What the check looks at.
RebootVersions(set) == [p \in {<<"linux">>, <<"systemd">>} |-> SimpleVersions(set, p)]

LEMMA RebootCheckCompares ==
    ASSUME NEW boot, NEW new
    PROVE  RebootCheck(boot, new) <=> RebootVersions(boot) # RebootVersions(new)
  <1> DEFINE differ == {p \in {<<"linux">>, <<"systemd">>} :
                           SimpleVersions(boot, p) # SimpleVersions(new, p)}
  <1>1. RebootPackages(boot, new) =
            {Change(p, SimpleVersions(boot, p), SimpleVersions(new, p)) : p \in differ}
    BY DEF RebootPackages, SimpleChanges
  <1>2. RebootCheck(boot, new) <=> differ # {}
    BY <1>1 DEF RebootCheck
  <1>3. differ = {} <=> RebootVersions(boot) = RebootVersions(new)
    BY DEF RebootVersions
  <1> QED BY <1>2, <1>3

\* The builds of a system can be numbered so that nvd-json's reboot check of
\* two of them is whether their numbers differ.
THEOREM RebootCheckNumbers ==
    ASSUME NEW Builds, IsFiniteSet(Builds), NEW closure
    PROVE  \E kernel \in [Builds -> Nat] : \A a, b \in Builds :
               RebootCheck(closure[a], closure[b]) <=> kernel[a] # kernel[b]
  <1> DEFINE found == [s \in Builds |-> RebootVersions(closure[s])]
  <1>1. PICK n \in Nat : ExistsSurjection(1 .. n, Builds)
    BY FS_NatSurjection
  <1>2. PICK nth \in Surjection(1 .. n, Builds) : TRUE
    BY <1>1 DEF ExistsSurjection
  <1>3. /\ nth \in [1 .. n -> Builds]
        /\ \A s \in Builds : \E i \in 1 .. n : nth[i] = s
    BY <1>2 DEF Surjection
  <1> DEFINE kernel == [s \in Builds |-> CHOOSE i \in 1 .. n : found[nth[i]] = found[s]]
  <1>4. ASSUME NEW s \in Builds
        PROVE  kernel[s] \in 1 .. n /\ found[nth[kernel[s]]] = found[s]
    <2>1. \E i \in 1 .. n : found[nth[i]] = found[s]
      BY <1>3
    <2> QED BY <2>1
  <1>5. kernel \in [Builds -> Nat]
    BY <1>4
  <1>6. ASSUME NEW a \in Builds, NEW b \in Builds
        PROVE  RebootCheck(closure[a], closure[b]) <=> kernel[a] # kernel[b]
    <2>1. RebootCheck(closure[a], closure[b]) <=> found[a] # found[b]
      BY RebootCheckCompares
    <2>2. found[a] = found[b] => kernel[a] = kernel[b]
      OBVIOUS
    <2>3. kernel[a] = kernel[b] => found[a] = found[b]
      BY <1>4
    <2> QED BY <2>1, <2>2, <2>3
  <1> QED BY <1>5, <1>6

\* A check that learns nothing of one system finds that a reboot is needed if the
\* other one has a kernel or a systemd, and one that learns nothing of both does not.
THEOREM BlindChecks ==
    ASSUME NEW set
    PROVE  /\ ~RebootCheck(NoPackages, NoPackages)
           /\ RebootCheck(NoPackages, set)
                 <=> <<"linux">> \in DOMAIN set \/ <<"systemd">> \in DOMAIN set
           /\ RebootCheck(set, NoPackages) <=> RebootCheck(NoPackages, set)
  <1>1. ASSUME NEW p
        PROVE  /\ SimpleVersions(NoPackages, p) = {}
               /\ SimpleVersions(set, p) = {} <=> p \notin DOMAIN set
    BY DEF NoPackages, PackageSet, SimpleVersions
  <1>2. RebootVersions(set) = RebootVersions(NoPackages)
            <=> <<"linux">> \notin DOMAIN set /\ <<"systemd">> \notin DOMAIN set
    BY <1>1 DEF RebootVersions
  <1> QED BY <1>2, RebootCheckCompares

=============================================================================
