-------------------------------- MODULE Session --------------------------------
(***************************************************************************)
(* One call of dippy, whichever command it is: what Config keeps (a Vault  *)
(* client, the secret read with it, the key directory), the evaluation of  *)
(* the plan as nix-eval-jobs streams it, and the commands run here and on  *)
(* one remote host, Target.  Of deploy and diff only the sequence is here: *)
(* Rollout and CmdDiff are their detail, HealthWait that of "health".      *)
(* Reboot is HostReboot's, on the connection the earlier commands left.    *)
(***************************************************************************)
EXTENDS HostReboot, Sequences, FiniteSets

CONSTANTS
    Hosts,      \* the hosts of plans.nix
    Target,     \* the host that is followed
    Unphased,   \* hosts in no phase: the darwin ones
    Known       \* hosts with a role in Vault from earlier runs

\* The attributes of plans.nix that are no hosts.
Files == {"configJson", "infraJson"}

ASSUME SessionAssumption ==
    /\ Unphased \subseteq Hosts
    /\ Target \in Hosts \ Unphased
    /\ Hosts \cap Files = {}
    /\ None # ""

VARIABLES
    command,    \* the command line and the environment
    todo,       \* the operations that are left, the current one first
    result,     \* "running", or how the process ended
    agent,      \* the SPIRE agent behind SPIFFE_ENDPOINT_SOCKET
    client,     \* Config.vault is set
    secret,     \* Config.vaultSecret is set
    keys,       \* the directory with the private key exists
    child,      \* nix-eval-jobs
    got, bad,   \* the attributes it has told of, and those it failed for
    plan,       \* the hosts of the DeployPlan, once there is one
    infra,      \* the hosts with a role in Vault, which Pulumi manages
    note        \* the token of the merge request note

caches == <<client, secret, keys>>
eval == <<child, got, bad, plan>>
process == <<command, todo, result, caches, eval, infra, note>>
sessionVars == <<vars, process, agent>>

Running == result = "running"

OnTarget == {"copy", "check", "apply", "reboot", "health"}

\* Target is not in the plan; reboot takes the plan's first host, whichever.
Elsewhere ==
    /\ Head(todo) \in OnTarget
    /\ command.kind # "reboot"
    /\ Target \notin plan

Op(o) == Running /\ Head(todo) = o /\ ~Elsewhere

-----------------------------------------------------------------------------
(* The commands. *)

Kinds == {"deploy", "diff", "reboot", "apply-local", "infra-apply", "infra-diff"}

Commands == [kind : Kinds, named : {{}} \cup {{h} : h \in Hosts}, ci : BOOLEAN,
             source : {"token_file", "spiffe"}]

GenerateConfig == <<"client", "sign", "keys", "known_hosts">>

\* Seeded fault: the infrastructure is looked at whatever hosts were named.
AnyHosts(c) == TRUE

AllHosts(c) == c.named = {}

When(condition, ops) == IF condition THEN ops ELSE << >>

Operations(c) ==
    CASE c.kind = "deploy" ->
            GenerateConfig \o <<"eval", "build">> \o When(c.ci, <<"test">>)
            \o <<"secret", "copy", "attic", "check">>
            \o When(AllHosts(c), <<"client", "stack", "refresh", "up">>)
            \o <<"apply", "reboot", "health">>
      [] c.kind = "diff" ->
            GenerateConfig \o <<"eval", "build">> \o When(c.ci, <<"test">>)
            \o <<"secret", "attic", "copy", "check">>
            \o When(AllHosts(c), <<"client", "stack", "refresh", "preview">>)
            \o When(c.ci, <<"note">>)
      [] c.kind = "reboot" -> GenerateConfig \o <<"eval", "reboot", "health">>
      [] c.kind = "apply-local" ->
            <<"eval_json", "build", "secret", "attic", "diff_here", "ask", "apply_here">>
      [] c.kind = "infra-apply" -> <<"eval_json", "client", "stack", "refresh", "up">>
      [] c.kind = "infra-diff" -> <<"eval_json", "client", "stack", "refresh", "preview">>

SessionInit ==
    /\ Init
    /\ conn = None
    /\ command \in Commands
    /\ todo = Operations(command)
    /\ result = "running"
    /\ agent \in {"up", "down"}
    /\ client = FALSE
    /\ secret = FALSE
    /\ keys = FALSE
    /\ child = "running"
    /\ got = {}
    /\ bad = {}
    /\ plan = None
    /\ infra = Known
    /\ note = None

\* GenerateConfig has not returned, so that nobody knows where the keys are.
InSetup == \E i \in DOMAIN todo : todo[i] = "known_hosts"

\* Seeded fault: Cleanup runs at the end of Run, not whenever it returns.
EndUncleaned(r) == result' = r /\ keys' = (keys /\ (InSetup \/ r # "ok"))

\* Run returns or panics, and the deferred Cleanup runs if it was reached.
End(r) == result' = r /\ keys' = (keys /\ InSetup)

Continue(rest) ==
    /\ todo' = rest
    /\ IF rest = << >> THEN End("ok") ELSE UNCHANGED <<result, keys>>

-----------------------------------------------------------------------------
(* Vault. *)

\* A client logs in with the agent's help, or reads the token file.
Reachable == command.source = "token_file" \/ agent = "up"

Client ==
    /\ Op("client")
    /\ client \/ Reachable
    /\ client' = TRUE
    /\ Continue(Tail(todo))
    /\ UNCHANGED <<vars, command, agent, secret, eval, infra, note>>

\* Seeded fault: the secret is not kept.
GetSecretAgain ==
    /\ Op("secret")
    /\ client \/ Reachable
    /\ client' = TRUE
    /\ Continue(Tail(todo))
    /\ UNCHANGED <<vars, command, agent, secret, eval, infra, note>>

\* atticLogin, and with it the first GetSecret.
GetSecret ==
    /\ Op("secret")
    /\ client \/ Reachable
    /\ client' = TRUE
    /\ secret' = TRUE
    /\ Continue(Tail(todo))
    /\ UNCHANGED <<vars, command, agent, eval, infra, note>>

\* GetSecret's error is overwritten before it is looked at.
NoteTokens == IF secret THEN {"token"} ELSE {"token", ""}

CreateNote ==
    /\ Op("note")
    /\ note' \in NoteTokens
    /\ Continue(Tail(todo))
    /\ UNCHANGED <<vars, command, agent, client, secret, eval, infra>>

\* setUpStack needs the agent's bundle to talk to Vault.
SetUpStack ==
    /\ Op("stack")
    /\ Reachable
    /\ Continue(Tail(todo))
    /\ UNCHANGED <<vars, command, agent, client, secret, eval, infra, note>>

Wanted == IF command.named = {} THEN Hosts ELSE command.named

\* The hosts infra.Input has roles for: plans.nix makes it from those wanted.
Roles == (IF command.kind = "deploy" THEN Wanted ELSE Hosts) \ Unphased

\* Pulumi makes what is registered, and removes what is not any more.
Up ==
    /\ Op("up")
    /\ infra' = Roles
    /\ Continue(Tail(todo))
    /\ UNCHANGED <<vars, command, agent, client, secret, eval, note>>

\* What Pulumi may have made of it when it failed or was killed.
Partly(roles) == {some \in SUBSET (infra \cup roles) : infra \cap roles \subseteq some}

WriteKeys ==
    /\ Op("keys")
    /\ keys' = TRUE
    /\ todo' = Tail(todo)
    /\ UNCHANGED <<vars, command, result, agent, client, secret, eval, infra, note>>

-----------------------------------------------------------------------------
(* EvalNodes. *)

Attributes == Files \cup Wanted

EvalLine ==
    /\ Op("eval")
    /\ child = "running"
    /\ \E a \in Attributes \ got :
          /\ got' = got \cup {a}
          /\ bad' \in {bad, bad \cup {a}}
    /\ UNCHANGED <<vars, command, todo, result, agent, caches, child, plan, infra, note>>

\* nix-eval-jobs closes its output when it is done, and when it dies.
EvalExits ==
    /\ Op("eval")
    /\ child = "running"
    /\ \/ Attributes = got /\ child' = "done" /\ UNCHANGED faults
       \/ child' = "died" /\ Fault
    /\ UNCHANGED <<host, conn, oldID, pc, waited, cert, command, todo, result, agent,
                   caches, got, bad, plan, infra, note>>

\* Seeded fault: the exit status of nix-eval-jobs is not looked at.
EvaluatedUnwaited ==
    /\ Op("eval")
    /\ child # "running"
    /\ bad = {}
    /\ plan' = (got \cap Hosts) \ Unphased
    /\ Continue(Tail(todo))
    /\ UNCHANGED <<vars, command, agent, client, secret, child, got, bad, infra, note>>

\* Neither child nor attribute failed, and both JSON files were realised.
Evaluated ==
    /\ Op("eval")
    /\ child = "done"
    /\ bad = {}
    /\ plan' = (got \cap Hosts) \ Unphased
    /\ Continue(Tail(todo))
    /\ UNCHANGED <<vars, command, agent, client, secret, child, got, bad, infra, note>>

-----------------------------------------------------------------------------
(* The other operations. *)

\* They change nothing that is modelled here.
Plain == {"sign", "known_hosts", "build", "test", "attic", "refresh", "preview", "health",
          "eval_json", "diff_here", "apply_here"}

Run ==
    /\ Running
    /\ Head(todo) \in Plain \/ Elsewhere
    /\ Continue(Tail(todo))
    /\ UNCHANGED <<vars, command, agent, client, secret, eval, infra, note>>

\* Any answer but a no goes on; input that is neither is asked for again.
Ask ==
    /\ Op("ask")
    /\ \E rest \in {Tail(todo), << >>} : Continue(rest)
    /\ UNCHANGED <<vars, command, agent, client, secret, eval, infra, note>>

\* nix copy makes a connection of its own, with the key in the directory.
Copy ==
    /\ Op("copy")
    /\ host.state # "down"
    /\ cert = "valid"
    /\ Continue(Tail(todo))
    /\ UNCHANGED <<vars, command, agent, client, secret, eval, infra, note>>

DialTarget ==
    /\ \E o \in {"check", "apply", "reboot"} : Op(o)
    /\ plan # {}
    /\ Dial
    /\ UNCHANGED <<process, agent>>

\* Diff or CheckRebootNeeded; then apply, after which comes a reboot, or the
\* wait only, or neither.
OverSSH ==
    /\ \/ Op("check") /\ Continue(Tail(todo))
       \/ Op("apply") /\ \E n \in 1 .. 3 : Continue(SubSeq(todo, n + 1, Len(todo)))
    /\ Answers
    /\ UNCHANGED <<vars, command, agent, client, secret, eval, infra, note>>

Reboot ==
    /\ Op("reboot")
    /\ plan # {}
    /\ FirstID \/ RunReboot \/ CheckID
    /\ UNCHANGED <<process, agent>>

RebootHangs ==
    /\ Op("reboot")
    /\ plan # {}
    /\ Hang
    /\ UNCHANGED <<process, agent>>

RebootFails ==
    /\ Op("reboot")
    /\ plan # {}
    /\ CommandFails
    /\ UNCHANGED <<process, agent>>

Rebooted ==
    /\ Op("reboot")
    /\ \/ pc = "ok" /\ Continue(Tail(todo))
       \/ pc = "error" /\ End("failed") /\ UNCHANGED todo
    /\ UNCHANGED <<vars, command, agent, client, secret, eval, infra, note>>

\* plan.Hosts[0] of an empty plan.
NoSuchHost ==
    /\ Op("reboot")
    /\ plan = {}
    /\ End("panic")
    /\ UNCHANGED <<vars, command, todo, agent, client, secret, eval, infra, note>>

\* The operation cannot succeed.
Hopeless ==
    \/ Op("eval") /\ (child = "died" \/ (child = "done" /\ bad # {}))
    \/ Op("copy") /\ (host.state = "down" \/ cert = "expired")
    \/ /\ Op("check") \/ Op("apply")
       /\ ~Answers
       /\ conn # None \/ host.state = "down" \/ cert = "expired"

\* An operation fails, and Run returns the error; only the local host goes on
\* without attic.  Writing the keys may fail with the directory made, Pulumi
\* with the work half done, and the note before or after it is sent.
Fails ==
    /\ Running
    /\ ~Op("reboot")
    /\ IF Hopeless THEN UNCHANGED faults ELSE Fault
    /\ CASE Op("keys") -> result' = "failed" /\ keys' \in BOOLEAN /\ UNCHANGED todo
         [] Op("secret") /\ command.kind = "apply-local" -> Continue(SubSeq(todo, 3, Len(todo)))
         [] OTHER -> End("failed") /\ UNCHANGED todo
    /\ infra' \in IF Op("up") THEN Partly(Roles) ELSE {infra}
    /\ note' \in IF Op("note") THEN {note} \cup NoteTokens ELSE {note}
    /\ UNCHANGED <<host, conn, oldID, pc, waited, cert, command, agent, client, secret, eval>>

Killed ==
    /\ Running
    /\ Fault
    /\ result' = "killed"
    /\ infra' \in IF Op("up") THEN Partly(Roles) ELSE {infra}
    /\ UNCHANGED <<host, conn, oldID, pc, waited, cert, command, todo, agent, caches,
                   eval, note>>

-----------------------------------------------------------------------------
(* The world. *)

HostSteps == (Stop \/ Boot) /\ UNCHANGED <<process, agent>>

\* The certificate is valid from when Vault signs it.
CertificateExpires ==
    /\ \A i \in DOMAIN todo : todo[i] # "sign"
    /\ Expire
    /\ UNCHANGED <<process, agent>>

AgentChanges ==
    /\ \/ agent = "down" /\ agent' = "up" /\ UNCHANGED faults
       \/ agent = "up" /\ agent' = "down" /\ Fault
    /\ UNCHANGED <<host, conn, oldID, pc, waited, cert, process>>

Work == \/ Client \/ WriteKeys \/ EvalLine \/ EvalExits \/ Evaluated \/ Run \/ GetSecret
        \/ CreateNote \/ SetUpStack \/ Up \/ Ask \/ Copy \/ DialTarget \/ OverSSH \/ Reboot
        \/ Rebooted \/ NoSuchHost

SessionNext == \/ Work \/ RebootHangs \/ RebootFails \/ Fails \/ Killed
               \/ HostSteps \/ CertificateExpires \/ AgentChanges

SessionSpec == SessionInit /\ [][SessionNext]_sessionVars

\* Commands end by themselves, a dial that is possible again and again is made,
\* what cannot succeed fails, and the host stops and boots.
SessionFairness ==
    /\ SF_sessionVars(Work)
    /\ WF_sessionVars(Fails /\ Hopeless)
    /\ WF_sessionVars(RebootFails /\ ~Answers)
    /\ WF_sessionVars(HostSteps /\ host.state # "up")

FairSession == SessionSpec /\ SessionFairness

-----------------------------------------------------------------------------
\* The private key is left on disk only by a process that was killed, or by
\* GenerateConfig when it fails after it made the directory.
KeysRemoved == ~Running /\ keys => result = "killed" \/ InSetup

\* A plan has every host that was asked for and is in a phase, however the
\* evaluation went: what nix-eval-jobs did not get to, or could not evaluate,
\* is never mistaken for something that is not there.
PlanIsComplete == plan # None => plan = Wanted \ Unphased

\* A host of plans.nix that has its role in Vault keeps it, whichever hosts a
\* command was given and however far Pulumi got: it is never run for some of the
\* hosts only, whose roles it would take for all there are.
RolesKept == [][infra \cap (Hosts \ Unphased) \subseteq infra']_sessionVars

\* The note is posted with a token, although DiffCmd does not look at the error
\* of GetSecret: logging in to attic has cached the secret before.
NoteHasToken == note # ""

\* Every command ends, unless the SPIRE agent stays away for good (the clients'
\* X509 sources wait for it without a bound), or the two hours of the
\* certificate are over while the host reboots: dialling will never succeed
\* again, and Reboot never gives up.
CommandEnds ==
    \/ <>(result # "running")
    \/ <>[](command.source = "spiffe" /\ agent = "down")
    \/ <>[](cert = "expired" /\ pc = "check" /\ conn = None)

=============================================================================
