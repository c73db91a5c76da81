------------------------------ MODULE SpiffeGarage ------------------------------
(***************************************************************************)
(* spiffe-garage: a caller with a SPIFFE certificate gets the access key   *)
(* that has its SPIFFE ID for a name in Garage.  The keys are listed and   *)
(* the one found is fetched, while an operator creates, renames and        *)
(* deletes keys.  Told to stop, the server drains, stops listening, waits  *)
(* for the requests in flight, cancels those that take too long, gives     *)
(* them time to say so, and exits; systemd starts it again.                *)
(***************************************************************************)
EXTENDS Integers

CONSTANTS
    Client,
    None,
    ID,             \* SPIFFE IDs, and thereby names of keys
    Caller,         \* [Client -> ID \cup {None}]: the ID in its certificate, if it has one
    MaxKeys,        \* bound on the keys ever created
    Drain,          \* ticks from the signal to Shutdown
    ShutdownLimit,  \* ticks Shutdown waits at most
    Grace           \* ticks left to the requests that were cancelled

Results == {"key", "error", "cancelled", "lost"}

ASSUME SpiffeGarageAssumption ==
    /\ None \notin ID \cup Results
    /\ Caller \in [Client -> ID \cup {None}]
    /\ MaxKeys \in Nat
    /\ Drain \in Nat /\ ShutdownLimit \in Nat /\ Grace \in Nat \ {0}

Key == 1 .. MaxKeys

VARIABLES
    keys,       \* the name of each key, or None
    created,    \* how many have been created
    request,    \* where the handler of each client's request is
    chosen,     \* the key it has found in the list
    result,     \* what it has answered: the key chosen, or nothing
    own,        \* the keys that had the caller's name at some time since it began
    age,        \* ticks since it began
    phase,      \* of the server
    timer       \* ticks since the phase began

store == <<keys, created>>
handler == <<request, chosen, result>>
server == <<phase, timer>>
vars == <<store, handler, own, age, server>>

Init ==
    /\ keys = [k \in Key |-> None]
    /\ created = 0
    /\ request = [c \in Client |-> "none"]
    /\ chosen = [c \in Client |-> None]
    /\ result = [c \in Client |-> None]
    /\ own = [c \in Client |-> {}]
    /\ age = [c \in Client |-> 0]
    /\ phase = "serving"
    /\ timer = 0

InFlight == {c \in Client : request[c] # "none"}

Named(names, id) == {k \in Key : names[k] = id /\ id # None}

Respond(c, r) ==
    /\ request' = [request EXCEPT ![c] = "none"]
    /\ result' = [result EXCEPT ![c] = r]
    /\ UNCHANGED chosen

-----------------------------------------------------------------------------
(* GET /creds. *)

\* Seeded fault: the key found last time is fetched again.
RequestRemembered(c) ==
    /\ phase \in {"serving", "draining"}
    /\ request[c] = "none"
    /\ request' = [request EXCEPT ![c] = IF chosen[c] = None THEN "list" ELSE "get"]
    /\ result' = [result EXCEPT ![c] = None]
    /\ own' = [own EXCEPT ![c] = Named(keys, Caller[c])]
    /\ age' = [age EXCEPT ![c] = 0]
    /\ UNCHANGED <<store, chosen, server>>

Request(c) ==
    /\ phase \in {"serving", "draining"}
    /\ request[c] = "none"
    /\ request' = [request EXCEPT ![c] = "list"]
    /\ chosen' = [chosen EXCEPT ![c] = None]
    /\ result' = [result EXCEPT ![c] = None]
    /\ own' = [own EXCEPT ![c] = Named(keys, Caller[c])]
    /\ age' = [age EXCEPT ![c] = 0]
    /\ UNCHANGED <<store, server>>

\* getSPIFFEIDFromCerts: a certificate without exactly one SPIFFE ID.
NoID(c) ==
    /\ request[c] = "list"
    /\ Caller[c] = None
    /\ Respond(c, "error")
    /\ UNCHANGED <<store, own, age, server>>

\* The first of the keys listed that has the name.
ListKeys(c) ==
    /\ request[c] = "list"
    /\ Caller[c] # None
    /\ phase # "cancelled"
    /\ LET candidates == Named(keys, Caller[c])
       IN IF candidates = {} THEN Respond(c, "error")
          ELSE \E k \in candidates :
                  /\ \A other \in candidates : k <= other
                  /\ chosen' = [chosen EXCEPT ![c] = k]
                  /\ request' = [request EXCEPT ![c] = "get"]
                  /\ UNCHANGED result
    /\ UNCHANGED <<store, own, age, server>>

\* By now the key may be gone, or have another name.
GetKey(c) ==
    /\ request[c] = "get"
    /\ phase # "cancelled"
    /\ Respond(c, IF keys[chosen[c]] # None THEN "key" ELSE "error")
    /\ UNCHANGED <<store, own, age, server>>

\* A call to Garage fails; the calls of a cancelled request do.
GarageFails(c) ==
    /\ request[c] # "none"
    /\ Caller[c] # None
    /\ Respond(c, IF phase = "cancelled" THEN "cancelled" ELSE "error")
    /\ UNCHANGED <<store, own, age, server>>

-----------------------------------------------------------------------------
(* Garage, where the operator of the keys is at work. *)

Rename(k, name) ==
    /\ keys' = [keys EXCEPT ![k] = name]
    /\ own' = [c \in Client |-> IF c \in InFlight
                                THEN own[c] \cup Named(keys', Caller[c]) ELSE own[c]]
    /\ UNCHANGED <<handler, age, server>>

CreateKey ==
    /\ created < MaxKeys
    /\ created' = created + 1
    /\ \E name \in ID : Rename(created + 1, name)

\* A key gets another name, or is deleted.
ChangeKey ==
    /\ \E k \in Key, name \in ID \cup {None} : keys[k] # None /\ Rename(k, name)
    /\ UNCHANGED created

-----------------------------------------------------------------------------
(* ServeCmd.Run, from the signal on. *)

Enter(p) == phase' = p /\ timer' = 0

Terminate ==
    /\ phase = "serving"
    /\ Enter("draining")
    /\ UNCHANGED <<store, handler, own, age>>

\* Seeded fault: the requests are cancelled before Shutdown waits for them.
ShutdownCancelling ==
    /\ phase = "draining"
    /\ timer = Drain
    /\ Enter("cancelled")
    /\ UNCHANGED <<store, handler, own, age>>

Shutdown ==
    /\ phase = "draining"
    /\ timer = Drain
    /\ Enter("shutdown")
    /\ UNCHANGED <<store, handler, own, age>>

ShutdownReturns ==
    /\ phase = "shutdown"
    /\ InFlight = {}
    /\ Enter("stopped")
    /\ UNCHANGED <<store, handler, own, age>>

\* Seeded fault: Shutdown waits without a limit.
ShutdownWaits == FALSE /\ UNCHANGED vars

\* The context of Shutdown expires, and stopRequests cancels what is left.
ShutdownTimesOut ==
    /\ phase = "shutdown"
    /\ timer = ShutdownLimit
    /\ InFlight # {}
    /\ Enter("cancelled")
    /\ UNCHANGED <<store, handler, own, age>>

Exit ==
    /\ phase = "cancelled"
    /\ timer = Grace
    /\ Enter("stopped")
    /\ request' = [c \in Client |-> "none"]
    /\ result' = [c \in Client |-> IF c \in InFlight THEN "lost" ELSE result[c]]
    /\ UNCHANGED <<store, chosen, own, age>>

Restart ==
    /\ phase = "stopped"
    /\ Enter("serving")
    /\ UNCHANGED <<store, handler, own, age>>

\* How long each phase lasts; a request that is cancelled ends within a tick.
Due ==
    \/ phase = "draining" /\ timer = Drain
    \/ phase = "shutdown" /\ (timer = ShutdownLimit \/ InFlight = {})
    \/ phase = "cancelled" /\ (timer = Grace \/ InFlight # {})
    \/ phase = "stopped"

Tick ==
    /\ ~Due
    /\ timer' = IF phase = "serving" THEN 0 ELSE timer + 1
    /\ age' = [c \in Client |-> IF c \in InFlight /\ age[c] < ShutdownLimit
                                THEN age[c] + 1 ELSE age[c]]
    /\ UNCHANGED <<store, handler, own, phase>>

Handle(c) == Request(c) \/ NoID(c) \/ ListKeys(c) \/ GetKey(c) \/ GarageFails(c)

Stopping == Shutdown \/ ShutdownReturns \/ ShutdownTimesOut \/ Exit \/ Restart

Next ==
    \/ \E c \in Client : Handle(c)
    \/ CreateKey \/ ChangeKey \/ Terminate \/ Stopping \/ Tick

Spec == Init /\ [][Next]_vars

\* Time passes for a server that is told to stop, and what is due is done.
\* Garage may never answer, nor the operator ever do anything.
Fairness ==
    /\ WF_vars(Stopping)
    /\ WF_vars(phase # "serving" /\ Tick)
    /\ \A c \in Client : WF_vars(phase = "cancelled" /\ (NoID(c) \/ GarageFails(c)))

FairSpec == Spec /\ Fairness

-----------------------------------------------------------------------------
TypeOK ==
    /\ keys \in [Key -> ID \cup {None}]
    /\ created \in 0 .. MaxKeys
    /\ request \in [Client -> {"none", "list", "get"}]
    /\ chosen \in [Client -> Key \cup {None}]
    /\ result \in [Client -> Results \cup {None}]
    /\ own \in [Client -> SUBSET Key]
    /\ age \in [Client -> 0 .. ShutdownLimit]
    /\ phase \in {"serving", "draining", "shutdown", "cancelled", "stopped"}
    /\ timer \in Nat

\* Whatever the operator does between the two calls to Garage, the key a caller
\* gets was named for it at some time during its request.
OwnKey == \A c \in Client : result[c] = "key" => chosen[c] \in own[c]

\* No request is cut short by a shutdown unless it has lasted for all the time
\* that Shutdown waits, and then it is told so before the process is gone.
ShutdownIsGraceful ==
    \A c \in Client :
        /\ result[c] = "cancelled" => age[c] = ShutdownLimit
        /\ result[c] # "lost"

\* A server that is told to stop exits, even if Garage never answers again.
ShutdownEnds == phase = "draining" ~> phase = "stopped"

=============================================================================
