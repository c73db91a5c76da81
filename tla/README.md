# A TLA+ model of the programs of this configuration

The repository describes one person's machines in Nix and carries the programs
that run on them or deploy them. The Nix files are declarations; the programs
have state, concurrency and failures, and they are what is modelled here.

## Inventory

| Part | Code | State | Operations | What is hard about it | What makes it correct |
|---|---|---|---|---|---|
| **launchpad: tasks and reminders** (Rust) | `packages/launchpad/src/tasks.rs`, `tasks/routes/`, `migrations/`, `services/launchpad` | PostgreSQL tables `tasks` and `reminders` | create, edit, snooze, toggle, delete (HTTP); `process-reminders` (timer) | two programs and concurrent handlers on one database at READ COMMITTED; multi-statement transactions over rows read without locks; cascades; crashes between firing, notifying and snoozing | one open task per firing reminder; no task put off before its notification was posted; a completed occurrence stays completed; everything due fires and is notified |
| **launchpad: deploys and home pages** (Rust) | `deploys.rs`, `home.rs`, `app.rs` | none | concurrent reads of Consul, GitLab, Woodpecker | partial failures of reads | shows what it read |
| **dippy: rollout** (Go) | `plan.go`, `cmd_deploy.go`, `host.go` | the machines' active systems; the phases of the run | build, push, test, deploy, apply, reboot, wait until healthy | hosts in parallel under a limit, the first error cancelling the rest; phases; confirmations | no host of a later phase changes while an earlier one is unhealthy or failed; a failed test stops the deployment |
| **dippy: reboot** (Go) | `host.go` `Reboot`, `getBootID` | boot identifier | run the reboot, poll over ssh | ssh errors while the machine goes down | returns success only after the boot identifier changed |
| **dippy: health wait** (Go) | `host.go` `WaitUntilHealthy` | Consul's wait index, the set of critical checks | blocking queries | missed or stale updates | returns only after a view without critical checks |
| **dippy: retry** (Go) | `retry.go` | attempts | run, sleep, run again | off-by-one | `times`+1 attempts, the last error returned |
| **dippy: diff** (Go) | `cmd_diff.go`, `main.go` `aggregateDiffs`, `gitlab.go`, `format.go` | a directory of diffs, one note | build, test, push to and compare each host, preview the infrastructure, aggregate, post | goroutines that fail while others have written; hosts that change meanwhile | the note speaks of every host, exactly |
| **dippy: commands, configuration, nix** (Go) | `main.go`, `config.go`, `ssh.go`, `cmd_*.go`, `vault/`, `nix/`, `cmd/` | what `Config` keeps: a Vault client, a secret, the directory with the private key; the plan; the ssh connection | generate the configuration, evaluate, realise, copy, log in, ask, and the operations above, in the order of each command | any operation may fail, and the process be killed; nix-eval-jobs dies while it streams; the certificate expires; the agent goes away | the key is removed; a plan has all hosts or there is none; every command ends |
| **dippy: infrastructure** (Go) | `infra/` | Pulumi's stack | set up the stack, refresh, preview, up | what is not declared is removed; a run may fail in the middle | no host of the plans loses its role in Vault, whichever hosts a command names |
| **spire-provision** (Go) | `packages/spiffe-tool/cmd/spire-provision` | the SPIRE server's registration entries | list, diff, create, update, delete in batches; restarted on failure | a batch failing half way; a merge of two sorted lists; entries it does not own, and entries the server takes for the same | the server converges on the configured entries; those in service stay in service, but for a reordering of selectors |
| **spiffe-creds** (Go) | `.../cmd/spiffe-creds` | a Vault client and its token; systemd's socket with its backlog | accept, look up the peer, fetch, answer | started on demand and exiting when idle; three goroutines and a channel between a socket and an answer; logins that fail unnoticed; a panic that ends it for everybody | a unit gets its own credentials or none, and is never left waiting |
| **spiffe-garage** (Go) | `.../cmd/spiffe-garage` | an HTTP server with a SPIFFE source; the keys are Garage's | credentials endpoint: list the keys, take the one named after the SPIFFE ID, fetch its secret | a key that is deleted between the list and the fetch; shutting down while requests are answered | a peer gets the key of its own identity, or an error; requests in flight are answered, and the server stops all the same |
| **spiffe-user-srv** (Go) | `.../cmd/spiffe-user-srv` | login cookie | OIDC login and callback | replayed state | |
| **nvd-json** (Rust) | `packages/nvd-json` | none | parse store paths, compare versions, diff closures | packages with several versions or none, names that are empty; queries that fail unnoticed | the diff names every package that changed, once; the reboot check agrees with what the diff announces |
| **deploy phases** (Nix) | `packages/dippy/deploy.nix` | none | assign hosts to phases | hosts matching no phase or several | each host in exactly one phase |

Left out: the resources that `packages/dippy/infra` declares (their state and the
order of operations are Pulumi's; what `dippy` does around them is in `Session`);
the generated SDK; `caddy-desec` (a plugin registration); the Nix modules, hosts and
services, which are declarations read by Nix and systemd; the editor's and shell's
configuration.

## How the parts interact

- `launchpad serve` (HTTP handlers) and `launchpad process-reminders` (a oneshot
  unit, every five minutes) share the database and nothing else. The job calls
  ntfy.sh between two statements of its own.
- `dippy deploy` drives hosts through Nix, ssh and Consul: per host it pushes a
  system, asks `nvd-json reboot-check` on the host, sets the profile, activates,
  reboots if needed and waits for Consul. Its phases come from `deploy.nix`.
  Before that it logs in to Vault with the SPIRE agent's help, which signs the key
  it uses for ssh.
- `spire-provision` is a unit that a deployment restarts; it and administrators'
  join tokens write the same SPIRE server. The entries it provisions are what
  `spiffe-creds`, `spiffe-garage` and the tunnels live on.
- systemd holds the sockets of `spiffe-creds` and `spiffe-garage`, starts the first
  when a unit connects to read a credential, and restarts the second. One asks
  Vault, the other Garage.

## Modules

| Module | Models | Role |
|---|---|---|
| `Schedule` | `advance_by`, `advance_by_minutes` | closed form of the loops for a step of fixed length |
| `Calendar`, `AdvanceLoop`, `MCAdvanceLoop` | `RepeatInterval`, the two loops, over chrono's calendar | detail of `Schedule`; steps of whole months too |
| `ReminderLifecycle` | the life of a reminder | abstract specification |
| `Reminders`, `MCReminders` | the store: handlers, job, row locks | implements `ReminderLifecycle`; EXTENDS `Schedule` |
| `PhasedRollout` | the promise of a rollout | abstract specification |
| `Rollout`, `MCRollout` | `DeployCmd.Run`, `EachHost`, `Host.Deploy` | implements `PhasedRollout` |
| `HostReboot` | `Host.Reboot` | detail of `Rollout`'s step `Reboot`; part of `Session` |
| `Session` | one call of `dippy`: the sequence of each command, `Config`, the evaluation | EXTENDS `HostReboot` |
| `HealthWait`, `MCHealthWait` | `Host.WaitUntilHealthy` | detail of `Rollout`'s step `WaitUntilHealthy` |
| `Packages` | nvd-json: package sets, their differences, their aggregation | used by `CmdDiff` |
| `CmdDiff`, `MCCmdDiff` | `DiffCmd.Run`, `Host.Diff`, `aggregateDiffs` | EXTENDS `Packages` |
| `SpireDiff` | `diffEntries`, the merge turn by turn | part of the next |
| `SpireProvision`, `MCSpireProvision` | the unit against the server | EXTENDS `SpireDiff` |
| `SpiffeCreds`, `MCSpiffeCreds` | the credentials helper, its socket, its clients | |
| `SpiffeGarage`, `MCSpiffeGarage` | the key server, its clients, Garage's operator | |
| `*Proofs` | | theorems and proofs |

`Session` and `Rollout` look at a deployment from two sides. `Session` has everything
one process does, for one host (`Target`) that stands for each of them, and takes what
happens to the hosts between "copy" and the end as a few operations; `Rollout` has
these for all hosts, with their goroutines and over several runs, and takes the rest as
steps that succeed or fail. `CmdDiff` is the same for the diff, and `HealthWait` for
the operation "health".

Every module has its constants' assumptions as a named ASSUME, one action per
operation, and then its properties. An operator marked *Seeded fault* is not
part of any specification: it is a faulty variant of the definition below it,
which PROJECT.json names so that one can see which property it breaks.

### Reminders

State: `task` and `reminder` are the two tables as committed (`state` of a task
is `completed_at IS NULL` or not; `unused` and `deleted` stand for a missing row
before and after its life). `web` holds the handlers that take several
statements, `job` the run of `process-reminders`. What a statement reads it
reads from the committed tables, as READ COMMITTED does; what a transaction
writes stays in its slot until it commits; the row locks it holds are functions
of its program counter.

| Action | Code |
|---|---|
| `CreateTask`, `SnoozeTask`, `CreateReminder`, `UpdateReminder` | one statement, so one step; they wait for row locks |
| `ToggleRead`, `ToggleSimple` or `ToggleMark`, `ToggleGet`, `ToggleCommit` | `Task::toggle` and `Reminder::complete`, statement by statement |
| `EraseTask`, `EraseCommit`, `DropReminder`, `DropCommit` | `DELETE`, with the time it may wait for its ON DELETE SET NULL cascade |
| `JobStart`, `JobFire`, `JobCommit` | `process_outstanding`: the list, one insert and update per reminder, the commit |
| `JobList`, `JobSend`, `JobRefused`, `JobSendFails`, `JobGet`, `JobPostpone`, `JobEnd` | `process_pending_notifications`, `send_notification`, `auto_snooze` |
| `WebAbort`, `BreakDeadlock`, `JobCrash` | a dropped request; PostgreSQL's deadlock detector; the death of the job |

Merged steps: the UPDATE of the reminder and COMMIT are one step in
`ToggleCommit`, and the insert and `set_current_task` one in `JobFire`. Between
the two nothing becomes visible, and the only other effect is a lock that the
next step releases, or that the first one holds already.

`send_notification` fails when the POST has no answer (`JobSendFails`), and does not look at
the status of an answer: with a 429 or a 503 (`JobRefused`, a fault) the run goes on and puts the
task off, of which the user has not heard. So `reached` has the tasks whose POST got to ntfy.sh, or
that the user snoozed, and the properties of notifications are about that.

A form takes any number of minutes and any repeat interval that is not all zeros.
`Endless` and `AdvanceFrom` are what the loops make of them: of nothing, they go on for ever
(`looping`, with the locks that are held); a negative repeat interval panics, which rolls the toggle
back, and negative snooze minutes panic in every run that comes to the task. Each run has one
of these kinds at least: `Reminders.cfg` has minutes of both signs, `RemindersLive.cfg` zero too.

`SerialToggles` says that one task is not toggled by two requests at once. A
page guarantees it (htmx queues the second request of an element until the first
is answered); two tabs or two devices do not. The runs say which they assume.

Left out: titles, tags, descriptions, timestamps nobody reads (so `Task::update`
changes nothing here), daylight saving (all instants are UTC), overflow of
`weeks * 7` in an i32, and the series of months (`AdvanceLoop` has them;
`Reminders` uses steps of fixed length). An identifier that a rolled back insert
consumed stays available, since nobody has seen it.

### AdvanceLoop

The clock is read once per call, the loop adds until it is not in the past, and
the result is where the next call starts: `Call`, `Again`, `Return`, `Store`.
`AddMonths` is what chrono does (the day is clamped to the length of the month),
then weeks and days. The calendar goes on for ever from January 2024; the run looks at
two years of it, the theorems at all. A negative number of months, or of days in sum, panics in the
code (`as u32`, `as u64`): the state `panicked`. Minutes may be negative: the sum is in the
past and stays there, so the loop runs backwards until chrono has no such instant (`Earliest`)
and panics. `advance_by_minutes` is only called for a notification that is due (`Comes`).

### Rollout, HostReboot, HealthWait

State of `Rollout`: `machine` is what each host has as profile, as boot loader
default, as running and as booted system; `stored` is its Nix store; `worker` is
its goroutine in `EachHost`; `run` is the run with its flags, hosts, target and
stage; `needed` is `RebootNeeded`, `settled` the hosts the run is done with, and
`step` where it is with the current one. The first failing goroutine cancels the
others: local commands then fail, the ssh check does not look at the context and
may still succeed, and `Wait` waits for all. `Break` is the failure of any
command and the death of `dippy`, with the command in progress done in full, in
part (a boot loader entry without a switch) or not at all. `PowerCycle` is a
reboot by somebody else. `Kernel` numbers the versions of kernel and systemd
that the reboot check compares between the booted and the new system of a host: that
`Packages`' `RebootCheck` is such a comparison is the theorem `RebootCheckNumbers`. A check
with a query of the store that failed unnoticed may find anything (`BlindChecks` says what);
`misjudged` has these hosts and those that others rebooted after the check.
The pipeline's resource group makes runs follow one another; two runs at a time
from two machines are outside the model, since `dippy` takes no lock.
Hosts in no phase (`Phase[h] = 0`) are not deployed.

`HostReboot`: one tick is five seconds, `Patience` the minutes after which the kernel gives a connection up. A command
over a connection to an earlier boot fails or hangs. A dial needs the certificate, which expires (`Expire`): nothing renews it. Whether `errors.Is` finds the
closed connection is unspecified (pointers to a zero-size struct): both. The module
has no run of its own: `Session` starts it without a connection or on the one that the
commands before have left, which are its initial states.

`HealthWait`: the activation ended at time 0; one tick is five seconds; checks
have any status and any phase of their interval at the start. Consul probes a
service `Interval` after the previous probe ended and gives up after
`ProbeTimeout`. The blocking query is answered when the index moved.
Its definitions have names of their own (`WaitInit`, `WaitSpec`), because `RolloutProofs`
extends it together with `Rollout`. `MaxAge` is how long before the activation an answer may lie
that the sleep leaves in place: a probe that was answered then is followed by one that hangs until
its timeout. The services that hosts wait for by way of Consul's agents, garage and gitlab's, have the
default interval (15 s, with a timeout of 10 s and a sleep of 20 s), which makes it five seconds; vault
registers a check of its own, outside this model. launchpad's interval is 30 s: no host waits
for launchpad, and one that did could take an answer of 20 s before. The comment at `host.go:267`
would have both at zero.

### Packages, CmdDiff

A store path is the sequence of its file name's chunks between the dashes, so that
`from_store_path` is what it is in the code: the name ends before the first chunk that
begins with a digit or looks like a hash (`VersionLike`). A list of versions is the bag
of them: the code sorts it by `Version`'s derived order, which compares the text
first, so that the order of `VersionChunk`s never decides. A section of an aggregated
diff is the bag of the changes pushed to it. `NamesAssumption`: no package of a system has the
name that the notes give the system itself (`CommonName`).

State of `CmdDiff`: `machine` is what each remote host runs and has booted; `run`,
`worker` and `tries` are as in `Rollout`; `diffs` is the directory of diffs and `note`
the aggregated one. `seen` and `blind` are history: what a host was when it was
compared, and whether a query of its store failed unnoticed (nvd-json does not look
at the exit status of `nix-store`). `Redeploy` is everybody else: another
deployment, or a reboot into whatever the boot loader has by then. The comparison
and the writing of its file are one step, since nothing happens to either between
them. Left out: the layout of the note, and whether it is printed or posted.

### Session

`todo` is what is left of the command, the current operation first; `Operations` reads
the six `Run` methods off line by line. `client`, `secret` and `keys` are what `Config`
holds, `child`, `got`, `bad` what nix-eval-jobs has told so far, `plan` the hosts of the
`DeployPlan`, `infra` the hosts with a role in Vault (`Known` from earlier runs), `note` the token of the note.
`host`, `conn`, `pc`, `cert` are `HostReboot`'s.

| Action | Code |
|---|---|
| `Client`, `GetSecret` | `vault.NewClient`, `Config.Vault`, `Config.GetSecret` in `atticLogin` |
| `WriteKeys`, `End` | `writeSSHKey`; the deferred `Cleanup`, which is not reached before `GenerateConfig` has returned (`InSetup`) |
| `EvalLine`, `EvalExits`, `Evaluated` | `EvalJobs` line by line, its `Wait`, `EvalNodes` |
| `SetUpStack`, `Up` | `infra.setUpStack`, `Stack.Up` |
| `Copy`, `DialTarget`, `OverSSH` | `nix copy`; `getRunner`; `CheckRebootNeeded`, `Diff`, `apply` on the remote host |
| `Reboot`, `RebootHangs`, `RebootFails`, `Rebooted`, `NoSuchHost` | `Host.Reboot` within a command; `plan.Hosts[0]` of an empty plan |
| `CreateNote` | the end of `DiffCmd.Run`, where an error of `GetSecret` is overwritten |
| `Run`, `Ask`, `Fails`, `Killed` | the operations with no effect on this state; the prompt; the error returns; SIGKILL |

Pulumi adds and removes roles one by one: an `Up` that fails or is killed leaves any part of the way
from `infra` to the roles it was given (`Partly`), never less than what both have. A note whose sending
failed may have arrived.

Hosts that are not in the plan, or in no phase, are skipped (`Elsewhere`); `reboot`
takes the plan's first host. Left out: `--no-attic` and `--goal`, which skip or choose
operations, and the retries (`Rollout` has them).

### SpireDiff, SpireProvision

An entry is a key (SPIFFE ID, parent and selectors, in the order of
`entryCompare`) and the rest that `entryNeedsUpdate` compares (`dns`). The
server's identifier of an entry is its key too. `Token` are keys under a join
token. `Begin` sorts the two slices; `slices.SortFunc` is not stable, so each slice is any
order of its entries that `entryCompare` accepts (`Listings`, `Reorderings`); `Match`, `Remove`, `Add`, `RemoveRest` and `AddRest`
are the turns of the three loops, and the results are sets of positions in the slices.
The server refuses to create an entry that differs from one it has only in the order
of its selectors (`Similar`), since SPIRE compares sets. A batch is applied
entry by entry: `Fail` leaves any part of it, and a refused entry is only logged.
`entryCompare` tells orders of selectors apart, so a deployment that only puts them in another order
has its create refused and the old entry deleted: the workload is without an entry until the unit
starts again, which it does not do by itself since it ended well. `ServedStaysServed` is about
what the server takes for one entry (`InService`) and excepts this case alone (`LostToReordering`).

### SpiffeCreds

State: `helper` is the process and `why` what is stopping it; `acceptor` and
`dispatcher` are its two loops; a client's connection (`conn`) is in the `backlog`,
accepted, queued in the channel, handled, or closed; `token` says that the last
successful login left a token; `vault` and `agent` are the world. One tick is a minute,
and what takes no time is done before it passes.

| Action | Code |
|---|---|
| `Connect`, `Activate`, `StartTimeout` | a unit with `LoadCredential=`, the socket unit, systemd's start timeout |
| `Start`, `Renew` | `newVaultClient`, `updateVaultToken`, whose errors nobody looks at |
| `Accept`, `Send` | the first goroutine; it looks at the context between connections only |
| `Dispatch`, `IdleExit`, `Cancelled` | the select of the second one, which may choose any branch that is ready |
| `Answer`, `NoAnswer`, `Panic` | `handleConn` with `resolveAlias`, `resolvePath` and the lookup |
| `Terminate`, `Exit` | SIGTERM; the end of `Run`: `ProcessEnds`, as after a panic, closes what was accepted, and with a signal (`partOf`) the backlog too |

`SecretName` and `Unescape` are Nix's `replaceStrings` and Go's `ReplaceAll` over
sequences of words. They are inverse exactly for paths without `__` and `_/`
(`Unambiguous`, `NamesResolve`): no name in the repository has either. `Join` is `path.Join` below
`prod/services/<Service>`, cleaned, and gives the segments of a secret's path. An alias is cut at its first
`/`: for another service there is no answer, and without a `/` the helper indexes what is not there
(`Panics`), which ends it and every lookup in progress. `Found` tabulates what the names mean, for
TLC's sake. Left out: the lifetime of Vault's tokens; a token that was got
stays one.

### SpiffeGarage

State: `keys` maps the keys of Garage to names, `request`, `chosen` and `result` are the
handlers, `own` and `age` history (the keys with the caller's name, and the ticks, since
its request began), `phase` and `timer` the server. `ListKeys` and `GetKey` are the
two calls to Garage, `Rename` what an operator does in between. `Shutdown`,
`ShutdownReturns`, `ShutdownTimesOut` and `Exit` are `Run` from the signal on: five
seconds of drain, `srv.Shutdown` with fifteen, `stopRequests`, five more. One tick is
five seconds. `Tick` says that a cancelled request ends within one: the client of Garage
looks at the context. Left out: the health endpoint and the rotation of the
certificate.

## Runs

Each run is one question. "States" are distinct states.

| Run | Module, configuration | Result | Shows | States |
|---|---|---|---|---|
| `reminders` | `MCReminders`, `Reminders.cfg` | pass | Two handlers and the job on one reminder: with one page per task, every interleaving, crash, POST without an answer or answered with an error, lock wait and negative interval keeps one open task per firing reminder, puts no task off before a POST for it got to ntfy.sh, repeats one only after a fault, and implements the reminder lifecycle. | 721,812 |
| `reminders_two_pages` | `MCReminders`, `RemindersTwoPages.cfg` | violation | The guard against completing a reminder twice reads a snapshot: a second page's toggle of the same task passes it, waits for the row lock and completes the reminder again. | to the counterexample |
| `reminders_live` | `MCReminders`, `RemindersLive.cfg` | pass | Two handlers that lock a task and its reminder in opposite orders, two pages toggling, and the job: PostgreSQL's deadlock detection is enough for every handler to end, every outstanding reminder fires, every due task is posted and then put off, up to a bounded number of faults, and but for the intervals, of no minutes or of negative ones, at which the code loops for ever or panics. | 87,707 |
| `advance_loop` | `MCAdvanceLoop`, `AdvanceLoop.cfg` | pass | The loops of advance_by and advance_by_minutes, called for one occurrence after another around the ends of months: they return the first occurrence that is not in the past, however late the call, and end unless what is added sums up to nothing, with a panic when a negative number of minutes takes them back to the beginning of time. | 11,992 |
| `spire_provision` | `MCSpireProvision`, `SpireProvision.cfg` | pass | The provisioner, its merge turn by turn, against the SPIRE server through failing batches, crashes, refused entries, deployments and new join tokens: it converges on the configured entries unless one was refused, and takes none of them out of service on the way, but for one whose selectors were reordered, whose create the server refuses. | 173,993 |
| `spire_tokens` | `MCSpireProvision`, `SpireTokens.cfg` | violation | The provisioner deletes join-token entries when they sort after every configured entry. | to the counterexample |
| `rollout` | `MCRollout`, `Rollout.cfg` | pass | Two deployments in a row of four hosts in two phases, with failing commands and queries, killed runs, foreign reboots and a kernel change: hosts change one at a time in phase order, only after everything is pushed, and end with a kernel that fits. Whichever goroutines fail, every run comes to its end. | 623,268 |
| `session` | `Session`, `Session.cfg` | pass | Every command of dippy from the command line to its exit, with a dying evaluation, failing operations, kills, an agent that goes away, a certificate that expires and a host that stops and boots: keys are removed, plans complete, every host's role in Vault left in place, reboots real, and every command ends. | 462,592 |
| `health_wait` | `MCHealthWait`, `HealthWait.cfg` | pass | The wait against Consul's probes of two services, with the default interval of the services hosts wait for and with the longest interval in the repository (30 s, launchpad): it ends when the services come up, and never on an answer from more than 5 or 20 seconds before the activation. | 198,758 |
| `cmd_diff` | `MCCmdDiff`, `CmdDiff.cfg` | pass | The diff of a merge request over two remote hosts and a local one, which others deploy and reboot meanwhile, with failing commands: a note is posted only when all hosts were compared, lists each package that differs once, and announces exactly the reboots a deployment would ask for. | 181,374 |
| `creds` | `MCSpiffeCreds`, `SpiffeCreds.cfg` | pass | Two units that ask under one name, one of them with an alias (to another secret by a path that is to be cleaned, to another service, or without a path, at which the helper panics), from a helper that starts on demand, logs in, renews its token, exits when idle or told to, while Vault and the agent come and go: each gets its own secret or none, every connection ends, and a failed login is made good. | 44,852 |
| `garage` | `MCSpiffeGarage`, `SpiffeGarage.cfg` | pass | Callers with and without an identifier get keys from Garage while an operator creates, renames and deletes them and the server is told to stop: the key was the caller's during the request, no request is cut short before the time is over, and the server stops even if Garage never answers. | 358,764 |

Why the bounds are enough. `Reminders.cfg`: two handlers on two tasks of one
reminder, with and without repetition, are all the pairs of transactions that
share a row; two clock instants make "due" and "not yet due" differ, and one fault
is enough for what a retry sees; minutes go forwards and back. With one reminder a run of the job seldom has more
than one row to notify: what a failure in the middle of a longer list leaves is
proved instead, for any number of tasks and reminders (`NoRepeatWithoutFault`,
`FirstNoticeKept`). `RemindersLive.cfg` checks the waits without
symmetry, so it is smaller: one task and one reminder, locked from both ends.
`Rollout.cfg`: two phases, a phase with several hosts, a local host, a limit of
two goroutines for four hosts, two runs (the second starts from what the first
left), two faults; the code's five attempts to push to attic are two here.
`AdvanceLoop.cfg`: both kinds of step around the ends of months, in a leap year
and the year after; minutes forwards, back and none, and a beginning of time (`Earliest`) that they reach. `CmdDiff.cfg`: two remote hosts and a local one under a limit of two; three systems
that differ in the number of packages of one name and version, in a version, in
packages without a version or a name, and in the kernel; one foreign change, two faults.
`SpireProvision.cfg`: three configurations over five keys, so that from one to the
next an entry is added, dropped, given other DNS names or has its selectors reordered,
one names an entry twice, with different DNS names, so that the unstable sort may leave
either first, and join-token entries sort before, between and after;
two deployments and two faults. `Session.cfg`: two hosts in a phase and one in none,
each of them named or all, of which one has its role already, and a host that is gone has one; a token file or the agent; two faults, so that a
command fails on a host that another fault has changed. `SpiffeCreds.cfg`: two
clients, one more than the channel has room for, and three settings of the aliases: one whose path has
to be cleaned, one for another service, one without a path; the idle time is two renewals, and a
lookup takes less than the idle time, as the timeout of Vault's client (60 s) and
its few retries see to. `SpiffeGarage.cfg`: three keys, so that two may have the caller's name and one
another's; the code's 5, 15 and 5 seconds in ticks. `HealthWait.cfg` has the constants
of the code, in ticks, with the default interval and the longest in the repository. `CHECK_DEADLOCK FALSE` stands where a model ends: a run that is over, a
call that returned, a bounded calendar, a call that panicked or a job that loops.

## Fairness

- `Reminders`: the job goes on (WF of `JobStep`): the timer starts a run every
  five minutes after whatever fault. It assumes that every POST is answered
  or fails, which the code does not enforce (no timeout on the request, none on the
  unit). Steps that wait for a row lock are strongly fair, since PostgreSQL
  queues waiters in order of arrival. The deadlock detector runs
  (WF of `BreakDeadlock`). Time goes on (WF of `Tick`). Faults are bounded; aborted requests, and panics
over negative minutes, are not. Where a loop never ends the properties say so: `HandlersEnd`,
`ReminderFires` and `NoticeArrives` except a `looping` handler or run (`Hung`), and `NoticeArrives` reminders
with negative minutes, whose panic may come before the others' turn (`Excused`), and a user
who snoozes a task for ever.
- `AdvanceLoop`: the loop runs on.
- `Rollout`: commands return; hosts come up and get healthy (the waits have no
  bound of their own, so `RunEnds` needs it).
- `CmdDiff`: the process runs on and commands return.
- `Session`: an operation that is possible again and again is done (SF of `Work`), one
  that cannot succeed fails in the end (`Hopeless`, `RebootFails` without an answer), a
  host that goes down does and comes up. Neither the agent nor the certificate is
  asked to be there: `CommandEnds` names both as the ways not to end.
- `HealthWait`: time passes, agents probe, and Consul answers a query with news.
- `SpireProvision`: the unit is started and restarted (`wantedBy`,
  `Restart=on-failure`) and goes on.
- `SpiffeCreds`: systemd starts the helper, and its goroutines go on. Starts, logins,
  dispatches and lookups are strongly fair: they are tried again and again, and the agent,
  Vault or a branch of a select comes and goes meanwhile. `ConnectionEnds` assumes in its
  statement that the agent stays, `TokenRecovers` that time passes and Vault stays.
- `SpiffeGarage`: time passes once the server is told to stop, what is due is done, and
  cancelled calls return. Nothing is assumed of Garage.

## What the runs found

- `reminders_two_pages`: the guard against uncompleting a completed reminder task
  is evaluated on a row read without a lock. Two pages that toggle one task at
  once both pass it, and the reminder is completed twice.
- `spire_tokens`: join-token entries are spared while both lists last, but not
  in the loop over the rest of the listed entries.

Also in the models, as the code has it, and contradicting no text of the
repository: a reminder whose task is deleted while it fires can never be
completed ("stuck" in `ReminderLifecycle`); a snooze or an edit of `remind_at`
that commits between a read and the write that follows it is lost; a notification that ntfy.sh
answered with an error counts as delivered; zero snooze minutes make the job run for ever, and a
repeat interval that sums up to nothing the toggle, with its task locked; negative snooze minutes make
every run panic that comes to the task, and delays what is listed after it; a monthly
reminder on the 31st drifts to the 28th; an interval of one week and -7 days
passes `is_zero` and makes the loop idle (excepted in `CallEnds`); the ten seconds
of `getBootID` do not bound a check over ssh, whose runner ignores its context (`Hang`);
a host that takes more than two hours to come up can never be dialled again, and
`Reboot` goes on for ever (excepted in `CommandEnds`, like an agent that never answers);
the private key stays in `/tmp` when `GenerateConfig` fails after it wrote it
(excepted in `KeysRemoved`); `dippy reboot` of a darwin host panics (`NoSuchHost`);
a connection that arrives while the helper is exiting may be closed unanswered, which
fails the unit that asks (allowed by `ConnectionEnds`), and so may one that is open when an alias
without a path makes the helper panic; a workload whose selectors were reordered loses its entry
(excepted in `ServedStaysServed`);
a query of the store that fails makes nvd-json's diff of that host wrong, and two of them
make "no reboot needed" (`blind`, excepted in `NoteIsExact` and `RebootAnnounced`, and
`misjudged` in `KernelFits`); a
refused SPIRE entry is never tried again (excepted in
`EventuallyProvisioned`).

## Proofs

The theorems hold for every value of the constants that the named assumptions
allow; each proof is an inductive invariant unless said otherwise.

- `RemindersProofs`. `TypeCorrect` is inductive with `SlotsFilled`: a handler
  that acts on a row knows which. `FirstNoticeKept` adds `NotifyingInv`: the POST
  for the task the run is busy with got to ntfy.sh (with whatever answer). `CompletedIsFinal` needs `BookkeepingInv`: a
  toggle that read a `reminder_id` acts on a row that has this one or none. That also
  carries `FiringCompletable`: a second toggle may complete a reminder twice, but the
  task it closes is never another reminder's current one. `NoRepeatWithoutFault` adds
  `DeliveryInv`: what the run listed has kept its reminder or lost it, and a task
  belongs to a reminder that exists. All of these hold for two pages as well as for one.
  `OneOpenTask` and `LifecycleImplemented` assume `SerialToggles` (with two pages both are
  false, TLC finds with the constants of `RemindersTwoPages.cfg`: the second completion
  makes a reminder wait whose next task is open) and rest on `SerialInv`: row locks
  are exclusive, what the run listed is still pending or was deleted, and the
  task a handler completes is open and its reminder's. None of these is
  inductive alone: that an open task is the current one depends on
  who may complete it, which depends on the locks. The proofs go by the kinds of steps
  (`KindsOfSteps`): most leave alone which row belongs to which (`QuietSteps`) or change
  only what a handler remembers (`WebMoves`).
- `AdvanceLoopProofs`. What the recursive `MonthStart` and `Series` are is
  induction over numbers. The library's induction theorems cannot be used (their predicate
  is an operator parameter), so the module proves `SetInduction`: a set that has 0 and, with
  a number, the next one is all of `Nat`, since the rest of `Nat` would have a least
  element (`WFMin`). `Iteration` shows by it that a function with a given first value and
  step exists, so that the recursive definitions are what their equations say
  (`MonthStarts`, `SeriesSteps`). From there: a date is in one month (`MonthOfDate`),
  adding months goes forward by at least 28 days each (`AddedMonths`), the series grows
  (`SeriesGrows`, `SeriesOrder`). `SeriesInv` is inductive: `due` and `new` are
  occurrences, and the last one that was passed on the way is over. It carries `KeepsSchedule`,
  `NeverSkips` (against the infinite series, where the run looks at its beginning) and
  `TurnsMakeHeadway`, the safety part of `CallEnds`, for negative minutes too: a turn goes forward by the
  shortest interval at least, back by the whole of the minutes, or, of an interval that sums up to nothing,
  nowhere (`NegativeNeverReturns`: a call with negative minutes does not return). `AdvanceIsFirst` says that
  `Schedule`'s closed form is the first instant that is not past, and
  `LoopComputesAdvance` that the loops compute it for steps of fixed length: this
  is why `Reminders` may use it. Days are counted from 2024 up; no other assumption is made.
- `RolloutProofs`: one invariant, `IInv`, carries the safety properties: pushed
  goroutines have stored the target, the deployment begins only after `Wait`
  and `Infra`, at most one host is in work, what was checked is what is needed,
  and settled hosts run (or boot) the target. `RolloutIsPhased` maps each step to
  a step or a stutter of `PhasedRollout`.
  The module also has `AnswersAreRecent` of the wait, for any intervals, timeout and sleep: what a
  check says while it is not probed again is at most `MaxAge` old.
- `SessionProofs`: one invariant, `SessionInv`. Its core is about what is left of a
  command: `Queue` (the keys are written just before GenerateConfig returns, and
  operations are those of the command), `GoesOn` (something follows), and `NoteLater` (a note is
  preceded by the first use of the secret, or that has been). None of the theorems
  is inductive alone: whether the key is removed, the note has a token or Pulumi is given all
  hosts (`RolesAlwaysKept`) depends on the operations that came before, which the
  state no longer has. `Begun` shows the invariant of every command by joining the parts
  of its sequence, `Skipped` that it survives any operation done or skipped.
  `RebootSound` and `RebootSoundInSession` are `HostReboot`'s invariant, kept by its own
  steps and by those of all commands.
- `SpiffeGarageProofs`: `FoundOwn` (the key found is one that had the caller's name since
  the request began) carries `KeyIsCallersOwn`; `WaitedFor` (who is still waited for is at
  least as old as the wait) carries `ShutdownCutsNoRequestShort`, for any `Grace`
  above zero.
- `SpireProvisionProofs`. That the merge finds exactly what differs (`DiffEntriesIsExact`) is a
  statement about the end of three loops. `FrontierInv` is what they keep: what was
  passed in one slice is no greater than what is to come in the other, and a listed entry that
  was passed has met its counterpart if it has one, so that none is still to come. It needs both
  slices sorted (`SlicesInv`), and `ResultsInv` reads the three results off the part that was
  passed. `CleanRunProvisions` and `ConfiguredStaysServed` add `ServerInv`: what was
  listed stays on the server until the update batch, an update keeps an entry's key, and unless
  an entry was refused the configured ones are all there when the deletions begin. What is deleted
  although it is configured in another order of selectors is therefore what a refused create left out
  (`LostToReordering`).
- `CmdDiffProofs`. `WorkersInv` and `FilesInv` say that a goroutine beyond its comparison
  has left a file, that a file is the comparison of what the host was then, and that
  the note is made after all goroutines returned. The lemmas below it are about `Packages`:
  a name is in the one section that fits it if its versions differ and in none otherwise
  (`SectionFits`), and aggregating counts each host's change once (`AggregateCounts`).
  `ListedExactly` joins them, and `NoteExact` applies it to every host and name. `RebootsAnnounced` follows because diff and reboot check look
  for the same name in the same two systems (`CommonNameInjective`). `RebootCheckNumbers` and
  `BlindChecks` are what `Rollout` takes of nvd-json's reboot check: the check compares a function
  of each system, whose values can be numbered.
- `SpiffeCredsProofs`. `IdleExitIsHarmless` holds because nothing waits for an answer while
  the dispatcher is idle that long: a lookup is at least as old as the wait that began after
  it (`LookupInv`), and ends before (`LookupMax < IdleAfter`).
  `UnitsGetTheirOwn` assumes `WellConfigured`: a name that is no alias was made from an
  unambiguous path, the one the unit wants, and an alias leads to what the unit wants or nowhere. TLC
  evaluates it for the configuration of the run (`MCConfiguration`). It follows from
  `NamesResolve`, whose proof is induction over the length of a path: `UnescapeEscaped` takes
  the escaped path apart from the front and finds that `Unescape` returns what was escaped
  exactly as long as no `_` comes before another or before a `/`.

Only model-checked: liveness (`HandlersEnd`, `ReminderFires`, `NoticeArrives`, `CallEnds`,
`EventuallyProvisioned`, `RunEnds`, `CommandEnds`, `WaitEnds`, `DiffEnds`, `ConnectionEnds`,
`TokenRecovers`, `ShutdownEnds`), since the prover does not reason about fairness here. Every
invariant and every action property of the passing runs is a theorem, under the assumptions
named above where it has some.

## Not modelled

- launchpad's other pages, `spiffe-user-srv`, `vault unseal`, `caddy-desec`, the scripts:
  no state of their own, or a library's.
- The phases in `deploy.nix` are a pure function of the Nix configuration: `findFirst`
  gives each host at most one. `Rollout` and `Session` take the result as a constant.
- The resources in `infra/`, and the certificates and tunnels of SPIRE: declarations for
  Pulumi, spiffe-helper and ghostunnel, whose steps are not this repository's.
- Two `dippy` processes at a time: it takes no lock, and every property of a rollout
  fails trivially.

## Plan

Done, in this order: the reminder store (the only part that loses a person's
data if it is wrong) with its schedule, spire-provision, the rollout with its
reboot and its health wait, the diff of a merge request, the commands of `dippy` as
wholes, the two credential servers; type correctness and the main safety of most.

Nothing of the plan is left. What could be added: the liveness proofs, if the prover
learns of fairness, and an abstract specification of a whole deployment over `Session`
and `Rollout`.

## Running

`tlc -config Reminders.cfg MCReminders` and likewise for the others (the runs
table has the modules); `tlapm RemindersProofs.tla` and likewise.
