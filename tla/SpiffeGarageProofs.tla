-------------------------- MODULE SpiffeGarageProofs --------------------------
(* Whose key a caller gets, and what a shutdown does to it, for any number of *)
(* callers, keys and ticks.                                                  *)
EXTENDS SpiffeGarage, TLAPS

\* The keys with the caller's name now, and the one found in the list, are
\* among those that had it since the request began.
FoundOwn ==
    /\ \A c \in InFlight : Named(keys, Caller[c]) \subseteq own[c]
    /\ \A c \in Client : request[c] = "get" => chosen[c] \in own[c]

\* A request that Shutdown waits for is at least as old as the wait, and one
\* that is cancelled has no tick left.
WaitedFor ==
    /\ phase = "shutdown" =>
          /\ timer <= ShutdownLimit
          /\ \A c \in InFlight : timer <= age[c]
    /\ phase = "cancelled" =>
          \A c \in InFlight : age[c] = ShutdownLimit /\ timer = 0

GarageInv == TypeOK /\ FoundOwn /\ OwnKey /\ WaitedFor /\ ShutdownIsGraceful

LEMMA InitGarage == Init => GarageInv
<1> SUFFICES ASSUME Init PROVE GarageInv
  OBVIOUS
<1> USE SpiffeGarageAssumption DEF Init
<1>1. TypeOK
  BY DEF TypeOK
<1>2. FoundOwn /\ WaitedFor
  BY DEF FoundOwn, InFlight, WaitedFor
<1>3. \A c \in Client : result[c] \notin Results
  OBVIOUS
<1>4. OwnKey /\ ShutdownIsGraceful
  BY <1>3 DEF OwnKey, ShutdownIsGraceful, Results
<1> QED
  BY <1>1, <1>2, <1>4 DEF GarageInv

\* A handler that responds touches its own request and result only.
LEMMA Responding ==
    ASSUME GarageInv, NEW c \in Client, NEW r \in Results \ {"lost"}, Respond(c, r),
           UNCHANGED <<store, own, age, server>>,
           r = "key" => chosen[c] \in own[c],
           r = "cancelled" => age[c] = ShutdownLimit
    PROVE  GarageInv'
<1> USE DEF GarageInv, Respond, store, server
<1>1. TypeOK'
  BY DEF TypeOK
<1>2. \A d \in Client : /\ request'[d] = IF d = c THEN "none" ELSE request[d]
                        /\ result'[d] = IF d = c THEN r ELSE result[d]
                        /\ chosen'[d] = chosen[d]
  BY DEF TypeOK
<1>3. FoundOwn' /\ OwnKey'
  BY <1>2 DEF FoundOwn, InFlight, OwnKey
<1>4. WaitedFor'
  BY <1>2 DEF WaitedFor, InFlight
<1>5. ShutdownIsGraceful'
  BY <1>2 DEF ShutdownIsGraceful
<1> QED
  BY <1>1, <1>3, <1>4, <1>5

\* What Garage's operator does only adds to what a caller may get.
LEMMA Renaming ==
    ASSUME GarageInv, NEW k \in Key, NEW name \in ID \cup {None}, Rename(k, name),
           created' \in 0 .. MaxKeys
    PROVE  GarageInv'
<1> USE DEF GarageInv, Rename, handler, server
<1>1. TypeOK'
  BY DEF TypeOK, Named
<1>2. \A c \in Client : own[c] \subseteq own'[c]
  BY DEF TypeOK
<1>3. FoundOwn' /\ OwnKey' /\ WaitedFor' /\ ShutdownIsGraceful'
  BY <1>2 DEF FoundOwn, InFlight, OwnKey, WaitedFor, ShutdownIsGraceful, InFlight
<1> QED
  BY <1>1, <1>3

LEMMA NextGarage == GarageInv /\ [Next]_vars => GarageInv'
<1> SUFFICES ASSUME GarageInv, [Next]_vars PROVE GarageInv'
  OBVIOUS
<1> USE SpiffeGarageAssumption
<1>1. ASSUME NEW c \in Client, Request(c) PROVE GarageInv'
  <2> USE <1>1 DEF GarageInv, Request, store, server
  <2>1. TypeOK'
    BY DEF TypeOK, Named
  <2>2. /\ request'[c] = "list" /\ result'[c] \notin Results
        /\ own'[c] = Named(keys, Caller[c]) /\ UNCHANGED keys
        /\ \A d \in Client \ {c} : /\ request'[d] = request[d] /\ chosen'[d] = chosen[d]
                                   /\ result'[d] = result[d] /\ own'[d] = own[d]
                                   /\ age'[d] = age[d]
    BY DEF TypeOK
  <2>3. FoundOwn'
    BY <2>2 DEF FoundOwn, InFlight, Named
  <2>4. OwnKey'
    BY <2>2 DEF OwnKey, Results
  <2>5. WaitedFor'
    BY <2>2 DEF WaitedFor, InFlight
  <2>6. ShutdownIsGraceful'
    BY <2>2 DEF ShutdownIsGraceful, Results
  <2> QED
    BY <2>1, <2>3, <2>4, <2>5, <2>6
<1>2. ASSUME NEW c \in Client, NoID(c) PROVE GarageInv'
  BY <1>2, Responding DEF NoID, Results
<1>3. ASSUME NEW c \in Client, ListKeys(c) PROVE GarageInv'
  <2>1. CASE Respond(c, "error")
    BY <1>3, <2>1, Responding DEF ListKeys, Results
  <2>2. CASE \E k \in Named(keys, Caller[c]) :
               /\ chosen' = [chosen EXCEPT ![c] = k]
               /\ request' = [request EXCEPT ![c] = "get"]
               /\ UNCHANGED result
    <3>1. PICK k \in Named(keys, Caller[c]) :
             /\ chosen' = [chosen EXCEPT ![c] = k]
             /\ request' = [request EXCEPT ![c] = "get"]
             /\ UNCHANGED result
      BY <2>2
    <3> USE DEF GarageInv, store, server
    <3>2. TypeOK' /\ UNCHANGED <<keys, result, own, age, phase, timer>>
      BY <1>3, <3>1 DEF ListKeys, TypeOK, Named
    <3>3. \A d \in Client :
             /\ chosen'[d] = IF d = c THEN k ELSE chosen[d]
             /\ request'[d] = IF d = c THEN "get" ELSE request[d]
      BY <3>1 DEF TypeOK
    <3>4. k \in own[c]
      BY <1>3, <3>1 DEF FoundOwn, InFlight, ListKeys
    <3>5. FoundOwn'
      BY <1>3, <3>2, <3>3, <3>4 DEF FoundOwn, InFlight, Named, ListKeys
    <3>6. OwnKey'
      BY <3>2, <3>3, <3>4 DEF OwnKey
    <3>7. WaitedFor'
      BY <1>3, <3>2, <3>3 DEF WaitedFor, InFlight, ListKeys
    <3>8. ShutdownIsGraceful'
      BY <3>2 DEF ShutdownIsGraceful
    <3> QED
      BY <3>2, <3>5, <3>6, <3>7, <3>8
  <2> QED
    BY <1>3, <2>1, <2>2 DEF ListKeys
<1>4. ASSUME NEW c \in Client, GetKey(c) PROVE GarageInv'
  BY <1>4, Responding DEF GetKey, Results, GarageInv, FoundOwn, InFlight
<1>5. ASSUME NEW c \in Client, GarageFails(c) PROVE GarageInv'
  BY <1>5, Responding DEF GarageFails, Results, GarageInv, WaitedFor, InFlight
<1>6. ASSUME CreateKey PROVE GarageInv'
  <2>1. PICK name \in ID : Rename(created + 1, name)
    BY <1>6 DEF CreateKey
  <2>2. created + 1 \in Key /\ created' \in 0 .. MaxKeys
    BY <1>6 DEF CreateKey, GarageInv, TypeOK, Key
  <2> QED
    BY <2>1, <2>2, Renaming
<1>7. ASSUME ChangeKey PROVE GarageInv'
  <2>1. PICK k \in Key, name \in ID \cup {None} : Rename(k, name)
    BY <1>7 DEF ChangeKey
  <2>2. created' \in 0 .. MaxKeys
    BY <1>7 DEF ChangeKey, GarageInv, TypeOK
  <2> QED
    BY <2>1, <2>2, Renaming
<1>8. ASSUME Terminate \/ Shutdown \/ ShutdownReturns \/ ShutdownTimesOut \/ Restart
      PROVE  GarageInv'
  <2> USE <1>8 DEF Terminate, Shutdown, ShutdownReturns, ShutdownTimesOut, Restart, Enter,
                   store, handler, GarageInv
  <2>1. TypeOK'
    BY DEF TypeOK
  <2>2. FoundOwn' /\ OwnKey' /\ ShutdownIsGraceful'
    BY DEF FoundOwn, InFlight, OwnKey, ShutdownIsGraceful
  <2>3. WaitedFor'
    BY DEF WaitedFor, InFlight, TypeOK
  <2> QED
    BY <2>1, <2>2, <2>3
<1>9. ASSUME Exit PROVE GarageInv'
  <2> USE <1>9 DEF Exit, Enter, store, GarageInv
  <2>1. InFlight = {}
    BY DEF WaitedFor
  <2>2. \A c \in Client : request'[c] = "none" /\ result'[c] = result[c]
    BY <2>1
  <2>3. TypeOK'
    BY <2>1 DEF TypeOK
  <2>4. FoundOwn' /\ OwnKey' /\ WaitedFor' /\ ShutdownIsGraceful'
    BY <2>2 DEF FoundOwn, InFlight, OwnKey, WaitedFor, ShutdownIsGraceful, InFlight
  <2> QED
    BY <2>3, <2>4
<1>10. ASSUME Tick PROVE GarageInv'
  <2> USE <1>10 DEF Tick, store, handler, GarageInv
  <2>1. TypeOK'
    BY DEF TypeOK
  <2>2. FoundOwn' /\ OwnKey'
    BY DEF FoundOwn, InFlight, OwnKey
  <2>3. \A c \in Client : age'[c] = IF c \in InFlight /\ age[c] < ShutdownLimit
                                    THEN age[c] + 1 ELSE age[c]
    OBVIOUS
  <2>4. WaitedFor'
    BY <2>3 DEF WaitedFor, InFlight, TypeOK, Due
  <2>5. ShutdownIsGraceful'
    BY <2>3 DEF ShutdownIsGraceful, TypeOK
  <2> QED
    BY <2>1, <2>2, <2>4, <2>5
<1>11. CASE UNCHANGED vars
  BY <1>11 DEF vars, store, handler, server, GarageInv, TypeOK, FoundOwn, InFlight, OwnKey,
               WaitedFor, ShutdownIsGraceful, InFlight
<1> QED
  BY <1>1, <1>2, <1>3, <1>4, <1>5, <1>6, <1>7, <1>8, <1>9, <1>10, <1>11
  DEF Next, Handle, Stopping

\* The server keeps its state in order (getCreds, ServeCmd.Run).
THEOREM GarageTypeCorrect == Spec => []TypeOK
<1>1. GarageInv => TypeOK
  BY DEF GarageInv
<1> QED
  BY InitGarage, NextGarage, <1>1, PTL DEF Spec

\* However keys are created, renamed and deleted between the two calls of
\* getKeyForSPIFFEID, a caller gets a key that was named for it meanwhile.
THEOREM KeyIsCallersOwn == Spec => []OwnKey
<1>1. GarageInv => OwnKey
  BY DEF GarageInv
<1> QED
  BY InitGarage, NextGarage, <1>1, PTL DEF Spec

\* ServeCmd.Run cuts no request short that is younger than the time Shutdown
\* waits, and leaves none without an answer.
THEOREM ShutdownCutsNoRequestShort == Spec => []ShutdownIsGraceful
<1>1. GarageInv => ShutdownIsGraceful
  BY DEF GarageInv
<1> QED
  BY InitGarage, NextGarage, <1>1, PTL DEF Spec

=============================================================================
