------------------------------ MODULE HealthWait ------------------------------
(***************************************************************************)
(* Host.WaitUntilHealthy after the activation of a new system: sleep, then *)
(* ask Consul for the checks of the host, with a blocking query that is    *)
(* answered when something changed, until all of them pass.                *)
(*                                                                         *)
(* Consul's agent probes every service, waits for the interval, and probes *)
(* it again; a probe without an answer fails at its timeout.  Until then a *)
(* check keeps the status it had, whatever the deployment did.             *)
(***************************************************************************)
EXTENDS Integers

CONSTANTS
    Service,        \* the host's consulChecks
    Interval,       \* ticks from a probe of a service to the next one
    ProbeTimeout,   \* ticks until a probe fails
    Delay,          \* ticks Host.WaitUntilHealthy sleeps at first
    MaxFlips        \* bound on services starting and failing

ASSUME HealthAssumption ==
    /\ Interval \in [Service -> Nat \ {0}]
    /\ ProbeTimeout \in Nat
    /\ Delay \in Nat
    /\ MaxFlips \in Nat

VARIABLES
    up,         \* services that answer
    status,     \* what Consul's catalog says of each service
    timer,      \* ticks until its next probe; 0 while one is in progress
    age,        \* ticks the probe in progress has lasted
    answered,   \* services that answered a probe recently enough
    index,      \* Consul's index of the host's checks
    pc, slept, waitIndex,   \* the caller
    flips

waitVars == <<up, status, timer, age, answered, index, pc, slept, waitIndex, flips>>

caller == <<pc, slept, waitIndex>>

\* How many ticks before the activation an answer may lie that the sleep leaves
\* in place: the next probe ends an interval and a timeout later.
MaxAge(s) == Interval[s] + ProbeTimeout - Delay

\* The activation has just ended; the probes know nothing of it.
WaitInit ==
    /\ up \in SUBSET Service
    /\ status \in [Service -> {"none", "critical", "passing"}]
    /\ timer \in [Service -> UNION {0 .. Interval[s] : s \in Service}]
    /\ age \in [Service -> 0 .. ProbeTimeout]
    /\ \A s \in Service : timer[s] <= Interval[s] /\ (timer[s] > 0 => age[s] = 0)
    /\ answered = {s \in Service :
          status[s] = "passing" /\ Interval[s] - timer[s] + age[s] <= MaxAge(s)}
    /\ index = 1
    /\ pc = "sleep"
    /\ slept = 0
    /\ waitIndex = 0
    /\ flips = 0

-----------------------------------------------------------------------------
(* The services and Consul. *)

\* A service starts, or fails.
Flip(s) ==
    /\ flips < MaxFlips
    /\ up' = IF s \in up THEN up \ {s} ELSE up \cup {s}
    /\ flips' = flips + 1
    /\ UNCHANGED <<status, timer, age, answered, index, caller>>

Publish(s, new) ==
    /\ status' = [status EXCEPT ![s] = new]
    /\ index' = IF status[s] = new THEN index ELSE index + 1

\* The agent loads the definition of a service: its check begins as critical.
Register(s) ==
    /\ status[s] = "none"
    /\ Publish(s, "critical")
    /\ \E t \in 0 .. Interval[s] : timer' = [timer EXCEPT ![s] = t]
    /\ age' = [age EXCEPT ![s] = 0]
    /\ UNCHANGED <<up, answered, caller, flips>>

\* The probe in progress ends: answered, or refused or timed out.
Probe(s) ==
    /\ status[s] # "none"
    /\ timer[s] = 0
    /\ Publish(s, IF s \in up THEN "passing" ELSE "critical")
    /\ answered' = IF s \in up THEN answered \cup {s} ELSE answered
    /\ timer' = [timer EXCEPT ![s] = Interval[s]]
    /\ age' = [age EXCEPT ![s] = 0]
    /\ UNCHANGED <<up, caller, flips>>

\* A probe that reached its timeout ends before time goes on.
Tick ==
    /\ \A s \in Service : timer[s] = 0 /\ status[s] # "none" => age[s] < ProbeTimeout
    /\ timer' = [s \in Service |-> IF timer[s] = 0 THEN 0 ELSE timer[s] - 1]
    /\ age' = [s \in Service |->
                 IF timer[s] = 0 /\ status[s] # "none" THEN age[s] + 1 ELSE age[s]]
    /\ slept' = IF slept < Delay THEN slept + 1 ELSE slept
    /\ UNCHANGED <<up, status, answered, index, pc, waitIndex, flips>>

-----------------------------------------------------------------------------
(* WaitUntilHealthy. *)

\* Seeded fault: no sleep.
WakeAtOnce ==
    /\ pc = "sleep"
    /\ pc' = "ask"
    /\ UNCHANGED <<up, status, timer, age, answered, index, slept, waitIndex, flips>>

Wake ==
    /\ pc = "sleep"
    /\ slept = Delay
    /\ pc' = "ask"
    /\ UNCHANGED <<up, status, timer, age, answered, index, slept, waitIndex, flips>>

AllPassing == \A s \in Service : status[s] = "passing"

\* Seeded fault: the next query waits for the change after the next.
AskAhead ==
    /\ pc = "ask"
    /\ index > waitIndex
    /\ IF AllPassing THEN pc' = "ok" /\ UNCHANGED waitIndex
       ELSE waitIndex' = index + 1 /\ UNCHANGED pc
    /\ UNCHANGED <<up, status, timer, age, answered, index, slept, flips>>

\* The query returns the checks and their index when the index is beyond the
\* one it was given.
Ask ==
    /\ pc = "ask"
    /\ index > waitIndex
    /\ IF AllPassing THEN pc' = "ok" /\ UNCHANGED waitIndex
       ELSE waitIndex' = index /\ UNCHANGED pc
    /\ UNCHANGED <<up, status, timer, age, answered, index, slept, flips>>

\* Consul cannot be asked.
AskFails ==
    /\ pc = "ask"
    /\ flips < MaxFlips
    /\ flips' = flips + 1
    /\ pc' = "error"
    /\ UNCHANGED <<up, status, timer, age, answered, index, slept, waitIndex>>

-----------------------------------------------------------------------------
WaitNext ==
    \/ \E s \in Service : Flip(s) \/ Register(s) \/ Probe(s)
    \/ Tick
    \/ Wake \/ Ask \/ AskFails

WaitSpec == WaitInit /\ [][WaitNext]_waitVars

\* Time goes on, agents register what is configured and probe it, the caller
\* wakes up, and Consul answers a query when there is news.
FairWaitSpec ==
    /\ WaitSpec
    /\ WF_waitVars(Tick)
    /\ \A s \in Service : WF_waitVars(Register(s)) /\ WF_waitVars(Probe(s))
    /\ WF_waitVars(Wake)
    /\ WF_waitVars(Ask)

-----------------------------------------------------------------------------
WaitTypeOK ==
    /\ up \subseteq Service
    /\ status \in [Service -> {"none", "critical", "passing"}]
    /\ timer \in [Service -> Nat] /\ \A s \in Service : timer[s] <= Interval[s]
    /\ age \in [Service -> 0 .. ProbeTimeout]
    /\ answered \subseteq Service
    /\ index \in Nat
    /\ pc \in {"sleep", "ask", "ok", "error"}
    /\ slept \in 0 .. Delay
    /\ waitIndex \in 0 .. index
    /\ flips \in 0 .. MaxFlips

\* The wait ends well only if every service answered a probe since the
\* activation, or at most MaxAge ticks before it.
OkMeansAnswered == pc = "ok" => answered = Service

\* If all the services come up and stay up, the wait ends.
WaitEnds == <>[](up = Service) => <>(pc \in {"ok", "error"})

=============================================================================
