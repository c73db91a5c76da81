--------------------------------- MODULE CmdDiff ---------------------------------
(***************************************************************************)
(* dippy diff, for a merge request: build and test the new systems, push   *)
(* them to the hosts and compare them there with what the hosts run and    *)
(* have booted, in parallel; preview the infrastructure; then aggregate the*)
(* hosts' differences and post them as a note.                             *)
(*                                                                         *)
(* Meanwhile hosts are deployed and rebooted by others.  A command may     *)
(* fail, and nvd-json's queries of the store may fail unnoticed: it does   *)
(* not look at the exit status of nix-store.                               *)
(***************************************************************************)
EXTENDS Packages

CONSTANTS
    Host,
    Remote,         \* hosts with a targetHost
    Version,        \* systems, one for each commit
    Target,         \* the merge request's
    Closure,        \* [Host -> [Version -> set of store paths]]
    Systems,        \* what the hosts run and have booted at first
    Invocations,    \* the flags and host names dippy is called with
    Limit,          \* -concurrency
    Retries,        \* how often a failed push to attic is tried again
    MaxChanges,     \* bound on foreign deployments and reboots
    MaxFaults       \* bound on failures

Flags == [named : SUBSET Host, tests : BOOLEAN, attic : BOOLEAN]

Machines == [running : Version, booted : Version]

ASSUME DiffAssumption ==
    /\ IsFiniteSet(Host)
    /\ Remote \subseteq Host
    /\ Target \in Version
    /\ Systems \subseteq Machines
    /\ Invocations \subseteq Flags
    /\ Limit \in Nat \ {0}
    /\ Retries \in Nat
    /\ MaxChanges \in Nat
    /\ MaxFaults \in Nat
    /\ DOMAIN Closure = Host
    /\ \A h \in Host : DOMAIN Closure[h] = Version

\* The packages of a host's systems.
Installed == [h \in Host |-> [v \in Version |-> PackageSet(Closure[h][v])]]

\* The name that the notes give every system is no package's.
ASSUME NamesAssumption ==
    \A h \in Host, v \in Version : <<"nixos", "system">> \notin DOMAIN Installed[h][v]

VARIABLES
    machine,    \* the system that each remote host runs, and the one it booted
    run,        \* the flags, the hosts of the plan and the stage
    worker,     \* the goroutine of each host in EachHost
    tries,      \* its attempts to push to attic
    diffs,      \* the directory of diffs: the files of some hosts
    note,       \* the aggregated diff
    seen,       \* history: what those hosts ran and had booted when compared
    blind,      \* history: hosts with a query that failed unnoticed
    changes, faults

vars == <<machine, run, worker, tries, diffs, note, seen, blind, changes, faults>>

compared == <<diffs, seen, blind>>

Init ==
    /\ machine \in [Remote -> Systems]
    /\ run \in {[named |-> f.named, tests |-> f.tests, attic |-> f.attic,
                 hosts |-> IF f.named = {} THEN Host ELSE f.named,
                 stage |-> "build"] : f \in Invocations}
    /\ worker = [h \in Host |-> IF h \in run.hosts THEN "waiting" ELSE "done"]
    /\ tries = [h \in Host |-> 0]
    /\ diffs = <<>>
    /\ note = <<>>
    /\ seen = <<>>
    /\ blind = {}
    /\ changes = 0
    /\ faults = 0

Ended == run.stage \in {"ok", "failed"}

Enter(stage) == run' = [run EXCEPT !.stage = stage]

Fault == faults < MaxFaults /\ faults' = faults + 1

-----------------------------------------------------------------------------
(* DiffCmd.Run *)

\* One command after the other, each of them without an effect on the hosts.
Prepare ==
    /\ \/ run.stage = "build" /\ Enter(IF run.tests THEN "test" ELSE "login")
       \/ run.stage = "test" /\ Enter("login")
       \/ run.stage = "login" /\ Enter("push")
       \/ run.stage = "preview" /\ Enter("aggregate")
       \/ run.stage = "post" /\ Enter("ok")
    /\ UNCHANGED <<machine, worker, tries, compared, note, changes, faults>>

\* Seeded fault: the hosts that were not compared are left out.
WaitForAny ==
    /\ run.stage = "push"
    /\ \A h \in run.hosts : worker[h] \in {"done", "failed"}
    /\ Enter(IF \A h \in run.hosts : worker[h] = "failed" THEN "failed"
             ELSE IF run.named = {} THEN "preview" ELSE "aggregate")
    /\ UNCHANGED <<machine, worker, tries, compared, note, changes, faults>>

Wait ==
    /\ run.stage = "push"
    /\ \A h \in run.hosts : worker[h] \in {"done", "failed"}
    /\ Enter(IF \E h \in Host : worker[h] = "failed" THEN "failed"
             ELSE IF run.named = {} THEN "preview" ELSE "aggregate")
    /\ UNCHANGED <<machine, worker, tries, compared, note, changes, faults>>

\* aggregateDiffs: all the files of the directory.
AggregateDiffs ==
    /\ run.stage = "aggregate"
    /\ note' = Aggregate(diffs)
    /\ Enter("post")
    /\ UNCHANGED <<machine, worker, tries, compared, changes, faults>>

Break ==
    /\ ~Ended
    /\ Fault
    /\ Enter("failed")
    /\ UNCHANGED <<machine, worker, tries, compared, note, changes>>

-----------------------------------------------------------------------------
(* The goroutines of EachHost: push to attic, push to the host, compare. *)

\* The context of the group is cancelled by the first error.
Cancelled == \E h \in Host : worker[h] = "failed"

\* Seeded fault: a goroutine that fails keeps its slot.
ActiveOrFailed == {h \in Host : worker[h] \in {"attic", "push", "diff", "failed"}}

Active == {h \in Host : worker[h] \in {"attic", "push", "diff"}}

Becomes(h, pc) == worker' = [worker EXCEPT ![h] = pc]

\* A command that is cancelled fails of itself; any other failure is a fault.
CommandFails == IF Cancelled THEN UNCHANGED faults ELSE Fault

AfterAttic(h) == IF h \in Remote THEN "push" ELSE "done"

Go(h) ==
    /\ run.stage = "push"
    /\ worker[h] = "waiting"
    /\ Cardinality(Active) < Limit
    /\ Becomes(h, IF run.attic THEN "attic" ELSE AfterAttic(h))
    /\ UNCHANGED <<machine, run, tries, compared, note, changes, faults>>

PushToAttic(h) ==
    /\ run.stage = "push"
    /\ worker[h] = "attic"
    /\ \/ ~Cancelled /\ Becomes(h, AfterAttic(h)) /\ UNCHANGED <<tries, faults>>
       \/ /\ CommandFails
          /\ IF tries[h] < Retries
             THEN tries' = [tries EXCEPT ![h] = @ + 1] /\ UNCHANGED worker
             ELSE Becomes(h, "failed") /\ UNCHANGED tries
    /\ UNCHANGED <<machine, run, compared, note, changes>>

Push(h) ==
    /\ run.stage = "push"
    /\ worker[h] = "push"
    /\ \/ ~Cancelled /\ Becomes(h, "diff") /\ UNCHANGED faults
       \/ CommandFails /\ Becomes(h, "failed")
    /\ UNCHANGED <<machine, run, tries, compared, note, changes>>

\* What a query of the store returns: of a failing one, nothing.
Query(set, failing) == IF failing THEN NoPackages ELSE set

\* os.Create and its Write: a file there may be is replaced.
Written(files, h, content) ==
    [k \in DOMAIN files \cup {h} |-> IF k = h THEN content ELSE files[k]]

\* nvd-json over ssh, which does not look at the context, and its file.
Diff(h) ==
    /\ run.stage = "push"
    /\ worker[h] = "diff"
    /\ \E failing \in SUBSET {"left", "right", "boot"} :
        /\ diffs' = Written(diffs, h, DiffResult(
                Query(Installed[h][machine[h].running], "left" \in failing),
                Query(Installed[h][Target], "right" \in failing),
                Query(Installed[h][machine[h].booted], "boot" \in failing)))
        /\ IF failing = {} THEN UNCHANGED <<blind, faults>>
           ELSE Fault /\ blind' = blind \cup {h}
    /\ seen' = Written(seen, h, machine[h])
    /\ Becomes(h, "done")
    /\ UNCHANGED <<machine, run, tries, note, changes>>

DiffFails(h) ==
    /\ run.stage = "push"
    /\ worker[h] = "diff"
    /\ Fault
    /\ Becomes(h, "failed")
    /\ UNCHANGED <<machine, run, tries, compared, note, changes>>

-----------------------------------------------------------------------------
(* Others: a deployment switches a host, or somebody reboots it into what its *)
(* boot loader has by then.                                                  *)

Redeploy(h) ==
    /\ changes < MaxChanges
    /\ changes' = changes + 1
    /\ \E v \in Version :
        \/ machine' = [machine EXCEPT ![h].running = v]
        \/ machine' = [machine EXCEPT ![h] = [running |-> v, booted |-> v]]
    /\ UNCHANGED <<run, worker, tries, compared, note, faults>>

-----------------------------------------------------------------------------
Pushing(h) == Go(h) \/ PushToAttic(h) \/ Push(h) \/ Diff(h) \/ DiffFails(h)

RunStep == Prepare \/ Wait \/ AggregateDiffs \/ \E h \in Host : Pushing(h)

Next == RunStep \/ Break \/ \E h \in Remote : Redeploy(h)

Spec == Init /\ [][Next]_vars

\* The process runs on, and every command returns.
FairSpec == Spec /\ WF_vars(RunStep)

-----------------------------------------------------------------------------
Stages == {"build", "test", "login", "push", "preview", "aggregate", "post", "ok", "failed"}

\* The hosts the note must speak for, and with whose store nothing was wrong.
Compared == (run.hosts \cap Remote) \ blind

\* What the note says of a package of a host, in the sections given.
Listed(sections, h, pname) ==
    UNION {{s} \X {c \in DOMAIN note[s] : c.hostname = h /\ c.pname = pname} : s \in sections}

MainSections == Sections \ {"reboot_packages"}

\* The section for a package with these versions before and after.
SectionOf(old, new) ==
    IF DOMAIN old = {} THEN "added_packages"
    ELSE IF DOMAIN new = {} THEN "removed_packages" ELSE "version_changes"

\* A note that is posted covers every remote host of the plan, none left out by
\* a goroutine that failed: a package is in it once, in the section it belongs
\* to, if its versions differ from those the host ran when it was compared, and
\* not at all otherwise.
NoteIsExact ==
    run.stage = "ok" =>
        \A h \in Compared :
            h \in DOMAIN seen /\
            LET left == Installed[h][seen[h].running]
                right == Installed[h][Target]
            IN \A p \in DOMAIN left \cup DOMAIN right :
                    LET old == Versions(left, p)
                        new == Versions(right, p)
                        there == Listed(MainSections, h, CommonName(h, p))
                    IN  IF old = new THEN there = {}
                        ELSE LET s == SectionOf(old, new)
                                 c == HostChange(h, Change(p, old, new))
                             IN  there = {<<s, c>>} /\ note[s][c] = 1

\* The note announces a reboot of a host exactly if a deployment that found the
\* host as it was would ask for one; and on a host that runs the system it
\* booted, the package that asks for it is in another section too.
RebootAnnounced ==
    run.stage = "ok" =>
        \A h \in Compared :
            LET reboots == {c \in DOMAIN note["reboot_packages"] : c.hostname = h}
            IN  /\ RebootCheck(Installed[h][seen[h].booted], Installed[h][Target])
                        <=> reboots # {}
                /\ seen[h].running = seen[h].booted =>
                        \A c \in reboots : Listed(MainSections, h, c.pname) # {}

\* The command ends, whichever goroutines fail.
DiffEnds == <>Ended

=============================================================================
