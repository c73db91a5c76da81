---------------------------- MODULE SpireProvision ----------------------------
(***************************************************************************)
(* The spire-provision unit against the SPIRE server: a oneshot that lists *)
(* the entries, computes the difference to the configured ones, and sends  *)
(* three batches, in this order: create, update, delete.  systemd restarts *)
(* it when it fails; a deployment restarts it with other entries.  Agents  *)
(* that are given a join token add entries of their own at any time.       *)
(*                                                                         *)
(* The server keeps one entry for a SPIFFE ID, a parent and a set of       *)
(* selectors, so the key of an entry stands for its identifier too.        *)
(***************************************************************************)
EXTENDS SpireDiff

CONSTANTS
    Configs,        \* slices of configured entries
    Similar(_, _),  \* keys that differ in the order of their selectors only
    MaxDeploys,     \* bound on deployments
    MaxFaults       \* bound on crashes, failing calls and refused entries

ASSUME ProvisionAssumption ==
    /\ Configs \subseteq Seq(Entry)
    /\ \A slice \in Configs : Keys(Entries(slice)) \cap Token = {}
    /\ MaxDeploys \in Nat
    /\ MaxFaults \in Nat

VARIABLES
    server,     \* the entries the server holds
    config,     \* the entries of the current deployment
    pc,         \* what the unit's process is about to do
    refused,    \* an entry of this run was refused, which is only logged
    deploys, faults

vars == <<diffVars, server, config, pc, refused, deploys, faults>>

Init ==
    /\ before = <<>> /\ after = <<>>
    /\ i = 1 /\ j = 1
    /\ added = {} /\ removed = {} /\ updated = {} /\ unchanged = {}
    /\ server = {}
    /\ config \in Configs
    /\ pc = "list"
    /\ refused = FALSE
    /\ deploys = 0
    /\ faults = 0

-----------------------------------------------------------------------------
(* The server. *)

\* Keys the server takes for those of one entry.
Same(k, l) == k = l \/ Similar(k, l)

\* BatchCreateEntry refuses an entry that is there already, whatever the order
\* of its selectors; an earlier one of the batch is there by then.
Creatable(batch) ==
    {n \in batch :
        /\ \A k \in Keys(server) : ~Same(k, after[n].key)
        /\ \A m \in batch : m < n => ~Same(after[m].key, after[n].key)}

\* BatchUpdateEntry refuses an entry that is no longer there.
Updatable(batch) == {n \in batch : after[n].key \in Keys(server)}

\* The entries at some positions of a slice.
At(slice, batch) == {slice[n] : n \in batch}

\* The server after a create, an update or a delete of some entries.
AfterCreate(batch) == server \cup At(after, Creatable(batch))

AfterUpdate(batch) ==
    {x \in server : x.key \notin Keys(At(after, batch))} \cup At(after, Updatable(batch))

AfterDelete(batch) == {x \in server : x.key \notin Keys(At(before, batch))}

\* An administrator generates a join token for an agent.
CreateToken(e) ==
    /\ e.key \in Token \ Keys(server)
    /\ server' = server \cup {e}
    /\ UNCHANGED <<diffVars, config, pc, refused, deploys, faults>>

-----------------------------------------------------------------------------
(* RunCmd.Run. *)

List ==
    /\ pc = "list"
    /\ Begin(server, config)
    /\ pc' = "diff"
    /\ refused' = FALSE
    /\ UNCHANGED <<server, config, deploys, faults>>

Diff ==
    /\ pc = "diff"
    /\ IF Merged
       THEN pc' = "create" /\ UNCHANGED diffVars
       ELSE Turn /\ UNCHANGED pc
    /\ UNCHANGED <<server, config, refused, deploys, faults>>

\* Every batch answers for each of its entries; one that is refused is logged
\* and the run goes on.  The entries in `some` are refused for no reason of
\* this model's: that counts as a fault.
BatchDone(some, taken, batch, next) ==
    /\ faults' = faults + IF some = {} THEN 0 ELSE 1
    /\ faults' <= MaxFaults
    /\ refused' = (refused \/ taken # batch)
    /\ pc' = next

Create ==
    /\ pc = "create"
    /\ \E some \in SUBSET added :
          /\ BatchDone(some, Creatable(added \ some), added, "update")
          /\ server' = AfterCreate(added \ some)
    /\ UNCHANGED <<diffVars, config, deploys>>

Update ==
    /\ pc = "update"
    /\ \E some \in SUBSET updated :
          /\ BatchDone(some, Updatable(updated \ some), updated, "delete")
          /\ server' = AfterUpdate(updated \ some)
    /\ UNCHANGED <<diffVars, config, deploys>>

Delete ==
    /\ pc = "delete"
    /\ \E some \in SUBSET removed :
          /\ BatchDone(some, removed \ some, removed, "done")
          /\ server' = AfterDelete(removed \ some)
    /\ UNCHANGED <<diffVars, config, deploys>>

\* Seeded fault: the unit is not restarted when it fails.
FailForGood ==
    /\ pc # "done"
    /\ faults < MaxFaults
    /\ faults' = faults + 1
    /\ pc' = "done"
    /\ UNCHANGED <<diffVars, server, config, refused, deploys>>

\* A call returns an error, or the process dies: the batch it was waiting for
\* may have been applied in part.  Restart=on-failure starts the next run.
Fail ==
    /\ pc # "done"
    /\ faults < MaxFaults
    /\ faults' = faults + 1
    /\ \/ UNCHANGED server
       \/ pc = "create" /\ \E some \in SUBSET added : server' = AfterCreate(some)
       \/ pc = "update" /\ \E some \in SUBSET updated : server' = AfterUpdate(some)
       \/ pc = "delete" /\ \E some \in SUBSET removed : server' = AfterDelete(some)
    /\ pc' = "list"
    /\ UNCHANGED <<diffVars, config, refused, deploys>>

\* A deployment changes the file the unit is started with: systemd stops the
\* unit, in whatever state it is, and starts it anew.
Deploy(new) ==
    /\ deploys < MaxDeploys
    /\ new # config
    /\ config' = new
    /\ pc' = "list"
    /\ deploys' = deploys + 1
    /\ UNCHANGED <<diffVars, server, refused, faults>>

-----------------------------------------------------------------------------
Running == List \/ Diff \/ Create \/ Update \/ Delete

Next ==
    \/ \E e \in Entry : CreateToken(e)
    \/ Running
    \/ Fail
    \/ \E new \in Configs : Deploy(new)

Spec == Init /\ [][Next]_vars

\* The unit is wanted by multi-user.target and restarted when it fails.
FairSpec == Spec /\ WF_vars(Running)

-----------------------------------------------------------------------------
\* The first of the configured entries with its key.
First(n) == \A m \in 1 .. n - 1 : after[m].key # after[n].key

Matched(n) == First(n) /\ after[n].key \in Keys(Entries(before))

\* What the merge returns is what the difference of the two slices says: a
\* repeated entry of the configuration is added once more than there is a
\* listed entry for it, and a join-token entry is removed only when it sorts
\* after every configured entry (the loops of cmd_run.go:184-214).
DiffIsExact ==
    pc = "create" =>
        /\ added = {n \in DOMAIN after : ~Matched(n)}
        /\ updated = {n \in DOMAIN after : Matched(n) /\ after[n] \notin Entries(before)}
        /\ unchanged = DOMAIN after \ (added \cup updated)
        /\ removed = {n \in DOMAIN before :
               /\ before[n].key \notin Keys(Entries(after))
               /\ before[n].key \in Token =>
                      \A m \in DOMAIN after : after[m].key < before[n].key}

Configured == Entries(config)

Served == Keys(server)

\* A run that ended without a refusal leaves the configured entries, with
\* their DNS names, and besides them join-token entries only.
Provisioned ==
    /\ Configured \subseteq server
    /\ Served \subseteq Keys(Configured) \cup Token

DoneMeansProvisioned == pc = "done" /\ ~refused => Provisioned

\* The server serves what a configured entry with this key stands for,
\* whatever the order of its selectors.
InService(k) == \E l \in Served : Same(l, k)

\* The server has the entry with its selectors in another order only.  The
\* provisioner takes the two for different entries: it asked for the one, which
\* was refused and logged, and now deletes the other.
LostToReordering(k) ==
    /\ pc = "delete"
    /\ refused
    /\ k \in Keys(At(after, added)) \ Served

\* However many runs fail half way, a configured entry that is in service and
\* stays configured is neither deleted nor created anew, but for one whose
\* selectors a deployment put in another order.
ServedStaysServed ==
    [][\A k \in Keys(Configured) \cap Keys(Configured') :
          InService(k) => InService(k)' \/ LostToReordering(k)]_vars

\* What the test in the merge loop says: an agent's join-token entry is not
\* the provisioner's to remove.
TokensKept == [][\A key \in Served \cap Token : key \in Keys(server')]_vars

\* When deployments and faults are over, a run gets to its end and the server
\* holds what is configured, unless an entry was refused.
EventuallyProvisioned == <>[](pc = "done" /\ (refused \/ Provisioned))

=============================================================================
