--------------------------- MODULE SpiffeCredsProofs ---------------------------
(* When the helper of spiffe-creds gives up, and what a name is resolved to,  *)
(* for any clients, names and times.                                         *)
EXTENDS SpiffeCreds, SequenceTheorems, WellFoundedInduction, TLAPS

-----------------------------------------------------------------------------
(* The inductive invariant. *)

TypeOK ==
    /\ helper \in {"stopped", "starting", "running", "stopping"}
    /\ acceptor \in {"gone", "accept", "send"}
    /\ dispatcher \in {"gone", "select"}
    /\ why \in {"none", "signal", "idle"}
    /\ idle \in 0 .. IdleAfter
    /\ since \in 0 .. RenewEvery
    /\ backlog \in Seq(Client)
    /\ conn \in [Client -> {"closed", "backlog", "accepted", "queued", "handled"}]
    /\ age \in [Client -> 0 .. LookupMax]
    /\ token \in BOOLEAN
    /\ vault \in {"up", "down"}
    /\ agent \in {"up", "down"}
    /\ aliases \in Aliases

\* Only a process has goroutines and connections, and the dispatcher is the last
\* to know that it is to stop, but for the idle exit, which is its own doing.
ProcessInv ==
    /\ helper \in {"stopped", "starting"} =>
          /\ acceptor = "gone" /\ dispatcher = "gone" /\ why = "none"
          /\ \A c \in Client : conn[c] \in {"closed", "backlog"}
    /\ helper = "running" => dispatcher = "select" /\ why = "none"
    /\ why = "idle" => helper = "stopping" /\ dispatcher = "gone"

\* While the dispatcher waits, every lookup in progress is at least as old as its
\* wait: the wait began no earlier than the last connection was handed over.
LookupInv ==
    \A c \in Client :
        /\ conn[c] # "handled" => age[c] = 0
        /\ conn[c] = "handled" /\ dispatcher = "select" => idle <= age[c]

\* The backlog lists the connections that wait to be accepted, each once.
BacklogInv ==
    /\ \A i \in 1 .. Len(backlog) : conn[backlog[i]] = "backlog"
    /\ \A i, j \in 1 .. Len(backlog) : backlog[i] = backlog[j] => i = j
    /\ \A c \in At("backlog") : \E i \in 1 .. Len(backlog) : backlog[i] = c

CredsInv == TypeOK /\ ProcessInv /\ LookupInv /\ BacklogInv /\ IdleExitHarmless

-----------------------------------------------------------------------------
(* The invariant holds. *)

LEMMA InitCreds == Init => CredsInv
<1> SUFFICES ASSUME Init PROVE CredsInv
  OBVIOUS
<1> USE SpiffeCredsAssumption DEF Init
<1>1. TypeOK
  <2>1. age \in [Client -> 0 .. LookupMax]
    OBVIOUS
  <2>2. conn \in [Client -> {"closed", "backlog", "accepted", "queued", "handled"}]
    OBVIOUS
  <2>3. backlog \in Seq(Client) /\ idle \in 0 .. IdleAfter /\ since \in 0 .. RenewEvery
    OBVIOUS
  <2> QED
    BY <2>1, <2>2, <2>3 DEF TypeOK
<1>2. ProcessInv /\ LookupInv /\ BacklogInv /\ IdleExitHarmless
  BY DEF ProcessInv, LookupInv, BacklogInv, IdleExitHarmless, At
<1> QED
  BY <1>1, <1>2 DEF CredsInv

\* The backlog stands as long as nobody joins or leaves it.
LEMMA BacklogStands ==
    ASSUME TypeOK, BacklogInv, UNCHANGED backlog,
           \A c \in Client : conn'[c] = "backlog" <=> conn[c] = "backlog"
    PROVE  BacklogInv'
<1>1. \A i \in 1 .. Len(backlog) : backlog[i] \in Client
  BY DEF TypeOK
<1> QED
  BY <1>1 DEF BacklogInv, At

\* What neither starts nor ends a lookup, nor touches the process or the clock.
LEMMA ConnectionMoves ==
    ASSUME CredsInv, TypeOK', BacklogInv', UNCHANGED <<helper, dispatcher, why, idle, age>>,
           helper \in {"stopped", "starting"} =>
               /\ acceptor' = "gone"
               /\ \A c \in Client : conn'[c] \in {"closed", "backlog"},
           \A c \in Client : conn'[c] = "handled" <=> conn[c] = "handled"
    PROVE  CredsInv'
<1> USE DEF CredsInv
<1>1. ProcessInv'
  BY DEF ProcessInv
<1>2. LookupInv'
  BY DEF LookupInv
<1>3. IdleExitHarmless'
  BY DEF IdleExitHarmless, At
<1> QED
  BY <1>1, <1>2, <1>3

\* A lookup that ends leaves the others alone.
LEMMA LookupEnds ==
    ASSUME CredsInv, NEW c \in Client, conn[c] = "handled",
           Closed({c}), age' = [age EXCEPT ![c] = 0],
           UNCHANGED <<process, idle, since, backlog, token, world>>
    PROVE  CredsInv'
<1> USE DEF CredsInv, process, world
<1>1. conn' = [d \in Client |-> IF d = c THEN "closed" ELSE conn[d]]
  BY DEF Closed
<1>2. TypeOK'
  <2>1. conn' \in [Client -> {"closed", "backlog", "accepted", "queued", "handled"}]
    BY <1>1 DEF TypeOK
  <2>2. age' \in [Client -> 0 .. LookupMax]
    BY SpiffeCredsAssumption DEF TypeOK
  <2> QED
    BY <2>1, <2>2 DEF TypeOK
<1>3. \A d \in Client : /\ conn'[d] = IF d = c THEN "closed" ELSE conn[d]
                        /\ age'[d] = IF d = c THEN 0 ELSE age[d]
  BY <1>1 DEF TypeOK
<1>4. ProcessInv'
  BY <1>3 DEF ProcessInv
<1>5. LookupInv'
  BY <1>3 DEF LookupInv
<1>6. BacklogInv'
  BY <1>3, BacklogStands
<1>7. IdleExitHarmless'
  BY <1>3 DEF IdleExitHarmless, At
<1> QED
  BY <1>2, <1>4, <1>5, <1>6, <1>7

\* When the ten minutes are over no lookup is in progress: it would be as old.
LEMMA NoneWhenIdle ==
    ASSUME CredsInv, dispatcher = "select", idle = IdleAfter
    PROVE  At("handled") = {}
<1> SUFFICES ASSUME NEW c \in Client, conn[c] = "handled" PROVE FALSE
  BY DEF At
<1>1. idle <= age[c] /\ age[c] \in 0 .. LookupMax
  BY DEF CredsInv, LookupInv, TypeOK
<1> QED
  BY <1>1, SpiffeCredsAssumption

LEMMA NextCreds == CredsInv /\ [Next]_vars => CredsInv'
<1> SUFFICES ASSUME CredsInv, [Next]_vars PROVE CredsInv'
  OBVIOUS
<1> USE SpiffeCredsAssumption
<1>t. TypeOK /\ ProcessInv /\ LookupInv /\ BacklogInv /\ IdleExitHarmless
  BY DEF CredsInv
<1>1. ASSUME NEW c \in Client, Connect(c) PROVE CredsInv'
  <2> USE <1>1 DEF Connect, process, clock, world
  <2>1. TypeOK'
    BY <1>t DEF TypeOK
  <2>2. \A d \in Client : conn'[d] = IF d = c THEN "backlog" ELSE conn[d]
    BY <1>t DEF TypeOK
  <2>3. \A d \in Client : conn'[d] = "handled" <=> conn[d] = "handled"
    BY <2>2
  <2>4. helper \in {"stopped", "starting"} =>
            acceptor' = "gone" /\ \A d \in Client : conn'[d] \in {"closed", "backlog"}
    BY <1>t, <2>2 DEF ProcessInv
  <2>5. BacklogInv'
    <3>1. /\ Len(backlog') = Len(backlog) + 1 /\ backlog'[Len(backlog) + 1] = c
          /\ \A i \in 1 .. Len(backlog) : backlog'[i] = backlog[i] /\ backlog[i] \in Client
          /\ Len(backlog) \in Nat
      BY <1>t DEF TypeOK
    <3>2. \A i \in 1 .. Len(backlog) : backlog[i] # c
      BY <1>t DEF BacklogInv
    <3>3. \A i \in 1 .. Len(backlog') : i \in 1 .. Len(backlog) \/ i = Len(backlog) + 1
      BY <3>1
    <3>4. \A i \in 1 .. Len(backlog') : conn'[backlog'[i]] = "backlog"
      BY <1>t, <2>2, <3>1, <3>3 DEF BacklogInv
    <3>5. \A i, j \in 1 .. Len(backlog') : backlog'[i] = backlog'[j] => i = j
      BY <1>t, <3>1, <3>2, <3>3 DEF BacklogInv
    <3>6. ASSUME NEW d \in At("backlog")' PROVE \E i \in 1 .. Len(backlog') : backlog'[i] = d
      <4>1. CASE d = c
        <5>1. Len(backlog) + 1 \in 1 .. Len(backlog')
          BY <3>1
        <5> QED
          BY <3>1, <4>1, <5>1
      <4>2. CASE d # c
        <5>1. d \in At("backlog")
          BY <2>2, <3>6, <4>2 DEF At
        <5>2. PICK i \in 1 .. Len(backlog) : backlog[i] = d
          BY <1>t, <5>1 DEF BacklogInv
        <5>3. i \in 1 .. Len(backlog')
          BY <3>1
        <5> QED
          BY <3>1, <5>2, <5>3
      <4> QED
        BY <4>1, <4>2
    <3> QED
      BY <3>4, <3>5, <3>6 DEF BacklogInv
  <2> QED
    BY <2>1, <2>3, <2>4, <2>5, ConnectionMoves
<1>2. ASSUME Activate PROVE CredsInv'
  <2> USE <1>2 DEF Activate, clock, clients, world
  <2>1. TypeOK'
    BY <1>t DEF TypeOK
  <2>2. ProcessInv' /\ LookupInv' /\ BacklogInv' /\ IdleExitHarmless'
    BY <1>t DEF ProcessInv, LookupInv, BacklogInv, IdleExitHarmless, At
  <2> QED
    BY <2>1, <2>2 DEF CredsInv
<1>3. ASSUME Start PROVE CredsInv'
  <2> USE <1>3 DEF Start, clients, world
  <2>1. TypeOK'
    BY <1>t DEF TypeOK
  <2>2. ProcessInv' /\ IdleExitHarmless'
    BY <1>t DEF ProcessInv, IdleExitHarmless, TypeOK
  <2>3. LookupInv'
    BY <1>t DEF LookupInv, ProcessInv
  <2>4. BacklogInv'
    BY <1>t, BacklogStands
  <2> QED
    BY <2>1, <2>2, <2>3, <2>4 DEF CredsInv
<1>4. ASSUME StartTimeout PROVE CredsInv'
  <2> USE <1>4 DEF StartTimeout, clock, clients, world
  <2>1. TypeOK'
    BY <1>t DEF TypeOK
  <2>2. ProcessInv' /\ LookupInv' /\ BacklogInv' /\ IdleExitHarmless'
    BY <1>t DEF ProcessInv, LookupInv, BacklogInv, IdleExitHarmless, At
  <2> QED
    BY <2>1, <2>2 DEF CredsInv
<1>5. ASSUME Terminate PROVE CredsInv'
  <2> USE <1>5 DEF Terminate, clock, clients, world
  <2>1. TypeOK'
    BY <1>t DEF TypeOK
  <2>2. ProcessInv' /\ LookupInv' /\ BacklogInv' /\ IdleExitHarmless'
    BY <1>t DEF ProcessInv, LookupInv, BacklogInv, IdleExitHarmless, At
  <2> QED
    BY <2>1, <2>2 DEF CredsInv
<1>e. ASSUME ProcessEnds PROVE CredsInv'
  <2> USE <1>e DEF ProcessEnds, world
  <2>1. /\ BacklogInv' /\ backlog' \in Seq(Client)
        /\ conn' \in [Client -> {"closed", "backlog", "accepted", "queued", "handled"}]
        /\ \A c \in Client : conn'[c] \in {"closed", "backlog"}
    <3>1. CASE why = "signal"
      <4>1. conn' = [c \in Client |-> "closed"] /\ backlog' = << >>
        BY <3>1 DEF Closed
      <4> QED
        BY <4>1 DEF BacklogInv, At
    <3>2. CASE why # "signal"
      <4>1. conn' = [c \in Client |-> IF conn[c] = "backlog" THEN "backlog" ELSE "closed"]
        BY <3>2 DEF Closed, At
      <4>2. \A c \in Client : conn'[c] = "backlog" <=> conn[c] = "backlog"
        BY <4>1
      <4>3. BacklogInv' /\ backlog' \in Seq(Client)
        BY <1>t, <3>2, <4>2, BacklogStands DEF TypeOK
      <4> QED
        BY <4>1, <4>3
    <3> QED
      BY <3>1, <3>2
  <2>2. \A c \in Client : age'[c] = 0
    OBVIOUS
  <2>3. age' \in [Client -> 0 .. LookupMax]
    <3>1. 0 \in 0 .. LookupMax
      OBVIOUS
    <3> QED
      BY <3>1
  <2>4. 0 \in 0 .. IdleAfter /\ 0 \in 0 .. RenewEvery
    OBVIOUS
  <2>5. TypeOK'
    BY <1>t, <2>1, <2>3, <2>4 DEF TypeOK
  <2>6. ProcessInv' /\ LookupInv' /\ IdleExitHarmless'
    BY <2>1, <2>2 DEF ProcessInv, LookupInv, IdleExitHarmless
  <2> QED
    BY <2>1, <2>5, <2>6 DEF CredsInv
<1>6. ASSUME Exit PROVE CredsInv'
  BY <1>6, <1>e DEF Exit
<1>7. ASSUME Accept PROVE CredsInv'
  <2> USE <1>7 DEF Accept, clock, world
  <2>1. Head(backlog) \in Client /\ backlog' \in Seq(Client)
    BY <1>t DEF TypeOK
  <2>2. TypeOK'
    BY <1>t, <2>1 DEF TypeOK
  <2>3. \A c \in Client : conn'[c] = IF c = Head(backlog) THEN "accepted" ELSE conn[c]
    BY <1>t DEF TypeOK
  <2>4. helper \notin {"stopped", "starting"}
    BY <1>t DEF ProcessInv
  <2>5. ProcessInv'
    BY <1>t, <2>4 DEF ProcessInv
  <2>6. /\ Len(backlog) \in Nat /\ Len(backlog) > 0 /\ Head(backlog) = backlog[1]
        /\ Len(backlog') = Len(backlog) - 1
        /\ \A i \in 1 .. Len(backlog') : backlog'[i] = backlog[i + 1]
        /\ \A i \in 1 .. Len(backlog) : backlog[i] \in Client
    BY <1>t DEF TypeOK
  <2>7. conn[Head(backlog)] = "backlog"
    BY <1>t, <2>6 DEF BacklogInv
  <2>8. LookupInv'
    BY <1>t, <2>3, <2>7 DEF LookupInv
  <2>9. IdleExitHarmless'
    BY <1>t, <2>3 DEF IdleExitHarmless, At
  <2>10. BacklogInv'
    <3>1. \A i \in 1 .. Len(backlog') : i + 1 \in 1 .. Len(backlog) /\ i + 1 # 1
      BY <2>6
    <3>2. \A i \in 1 .. Len(backlog') : conn'[backlog'[i]] = "backlog"
      BY <1>t, <2>3, <2>6, <3>1 DEF BacklogInv
    <3>3. \A i, j \in 1 .. Len(backlog') : backlog'[i] = backlog'[j] => i = j
      BY <1>t, <2>6, <3>1 DEF BacklogInv
    <3>4. ASSUME NEW c \in At("backlog")' PROVE \E i \in 1 .. Len(backlog') : backlog'[i] = c
      <4>1. c \in At("backlog") /\ c # Head(backlog)
        BY <2>3, <3>4 DEF At
      <4>2. PICK i \in 1 .. Len(backlog) : backlog[i] = c
        BY <1>t, <4>1 DEF BacklogInv
      <4>3. i # 1
        BY <2>6, <4>1, <4>2
      <4>4. i - 1 \in 1 .. Len(backlog') /\ backlog'[i - 1] = c
        BY <2>6, <4>2, <4>3
      <4> QED
        BY <4>4
    <3> QED
      BY <3>2, <3>3, <3>4 DEF BacklogInv
  <2> QED
    BY <2>2, <2>5, <2>8, <2>9, <2>10 DEF CredsInv
<1>8. ASSUME Send PROVE CredsInv'
  <2> USE <1>8 DEF Send, clock, world
  <2>1. TypeOK'
    BY <1>t DEF TypeOK
  <2>2. \A c \in Client : conn'[c] = IF conn[c] = "accepted" THEN "queued" ELSE conn[c]
    OBVIOUS
  <2>3. \A c \in Client : conn'[c] = "handled" <=> conn[c] = "handled"
    BY <2>2
  <2>4. helper \notin {"stopped", "starting"}
    BY <1>t DEF ProcessInv
  <2>5. BacklogInv'
    BY <1>t, <2>2, BacklogStands
  <2> QED
    BY <2>1, <2>3, <2>4, <2>5, ConnectionMoves
<1>9. ASSUME NEW c \in Client, Dispatch(c) PROVE CredsInv'
  <2> USE <1>9 DEF Dispatch, process, world
  <2>1. TypeOK'
    BY <1>t DEF TypeOK
  <2>2. \A d \in Client : conn'[d] = IF d = c THEN "handled" ELSE conn[d]
    BY <1>t DEF TypeOK
  <2>3. ProcessInv' /\ IdleExitHarmless'
    BY <1>t DEF ProcessInv, IdleExitHarmless
  <2>4. \A d \in Client : age[d] \in 0 .. LookupMax
    BY <1>t DEF TypeOK
  <2>5. LookupInv'
    BY <1>t, <2>2, <2>4 DEF LookupInv
  <2>6. BacklogInv'
    BY <1>t, <2>2, BacklogStands
  <2> QED
    BY <2>1, <2>3, <2>5, <2>6 DEF CredsInv
<1>10. ASSUME IdleExit PROVE CredsInv'
  <2> USE <1>10 DEF IdleExit, clock, clients, world
  <2>1. TypeOK'
    BY <1>t DEF TypeOK
  <2>2. At("handled") = {}
    BY NoneWhenIdle
  <2>3. ProcessInv' /\ LookupInv' /\ BacklogInv'
    BY <1>t DEF ProcessInv, LookupInv, BacklogInv, At
  <2>4. IdleExitHarmless'
    BY <2>2 DEF IdleExitHarmless, At
  <2> QED
    BY <2>1, <2>3, <2>4 DEF CredsInv
<1>11. ASSUME Cancelled PROVE CredsInv'
  <2> USE <1>11 DEF Cancelled, clock, clients, world
  <2>1. TypeOK'
    BY <1>t DEF TypeOK
  <2>2. ProcessInv' /\ LookupInv' /\ BacklogInv' /\ IdleExitHarmless'
    BY <1>t DEF ProcessInv, LookupInv, BacklogInv, IdleExitHarmless, At
  <2> QED
    BY <2>1, <2>2 DEF CredsInv
<1>12. ASSUME NEW c \in Client, Handle(c) PROVE CredsInv'
  BY <1>12, <1>e, LookupEnds DEF Handle, Answer, NoAnswer, Panic
<1>13. ASSUME Renew PROVE CredsInv'
  <2> USE <1>13 DEF Renew, process, clients, world
  <2>1. TypeOK'
    BY <1>t DEF TypeOK
  <2>2. ProcessInv' /\ LookupInv' /\ BacklogInv' /\ IdleExitHarmless'
    BY <1>t DEF ProcessInv, LookupInv, BacklogInv, IdleExitHarmless, At
  <2> QED
    BY <2>1, <2>2 DEF CredsInv
<1>14. ASSUME Tick PROVE CredsInv'
  <2> USE <1>14 DEF Tick, process, clients, world
  <2>1. \A c \in Client :
          /\ age[c] \in 0 .. LookupMax
          /\ age'[c] = IF conn[c] = "handled" THEN age[c] + 1 ELSE age[c]
          /\ conn[c] = "handled" => age[c] < LookupMax
    BY <1>t DEF TypeOK, At
  <2>2. age' \in [Client -> 0 .. LookupMax]
    <3>1. \A c \in Client : age'[c] \in 0 .. LookupMax
      BY <2>1
    <3>2. age' = [c \in Client |-> age'[c]]
      OBVIOUS
    <3> QED
      BY <3>1, <3>2
  <2>3. idle' \in 0 .. IdleAfter /\ since' \in 0 .. RenewEvery
    BY <1>t DEF TypeOK
  <2>4. TypeOK'
    BY <1>t, <2>2, <2>3 DEF TypeOK
  <2>5. ProcessInv' /\ IdleExitHarmless'
    BY <1>t DEF ProcessInv, IdleExitHarmless, At
  <2>6. LookupInv'
    BY <1>t, <2>1 DEF LookupInv, TypeOK
  <2>7. BacklogInv'
    BY <1>t, BacklogStands
  <2> QED
    BY <2>4, <2>5, <2>6, <2>7 DEF CredsInv
<1>15. ASSUME WorldChanges PROVE CredsInv'
  <2> USE <1>15 DEF WorldChanges, process, clock, clients
  <2>1. TypeOK'
    BY <1>t DEF TypeOK
  <2>2. ProcessInv' /\ LookupInv' /\ BacklogInv' /\ IdleExitHarmless'
    BY <1>t DEF ProcessInv, LookupInv, BacklogInv, IdleExitHarmless, At
  <2> QED
    BY <2>1, <2>2 DEF CredsInv
<1>16. CASE UNCHANGED vars
  <2> USE <1>16 DEF vars, process, clock, clients, world
  <2>1. TypeOK'
    BY <1>t DEF TypeOK
  <2>2. ProcessInv' /\ LookupInv' /\ BacklogInv' /\ IdleExitHarmless'
    BY <1>t DEF ProcessInv, LookupInv, BacklogInv, IdleExitHarmless, At
  <2> QED
    BY <2>1, <2>2 DEF CredsInv
<1> QED
  BY <1>1, <1>2, <1>3, <1>4, <1>5, <1>6, <1>7, <1>8, <1>9, <1>10, <1>11, <1>12,
     <1>13, <1>14, <1>15, <1>16
  DEF Next

-----------------------------------------------------------------------------

\* The helper and its goroutines keep their state in order; no lookup outlasts
\* the time Vault's client takes.
THEOREM CredsTypeCorrect == Spec => []TypeOK
<1>1. CredsInv => TypeOK
  BY DEF CredsInv
<1> QED
  BY InitCreds, NextCreds, <1>1, PTL DEF Spec

\* However connections arrive, and however Vault and the agent come and go: the
\* helper does not exit for lack of connections while one is being looked up, if
\* only Vault's client takes less time than that (ServeCmd.Run).
THEOREM IdleExitIsHarmless == Spec => []IdleExitHarmless
<1>1. CredsInv => IdleExitHarmless
  BY DEF CredsInv
<1> QED
  BY InitCreds, NextCreds, <1>1, PTL DEF Spec

-----------------------------------------------------------------------------
(* Induction over the natural numbers, and the two recursions. *)

\* The order of the natural numbers, as a relation.
Below == {pair \in Nat \X Nat : pair[1] < pair[2]}

\* No sequence of natural numbers goes down for ever.
LEMMA BelowWellFounded == IsWellFoundedOn(Below, Nat)
  BY NatLessThanWellFounded DEF OpToRel, Below

\* Induction, for a set in the place of a predicate.
LEMMA SetInduction ==
    ASSUME NEW X \in SUBSET Nat, 0 \in X, \A n \in X : n + 1 \in X
    PROVE  X = Nat
  <1> SUFFICES ASSUME Nat \ X # {} PROVE FALSE
    OBVIOUS
  <1>1. PICK least \in Nat \ X : \A n \in Nat \ X : ~(<<n, least>> \in Below)
    BY BelowWellFounded, WFMin, Nat \ X \subseteq Nat
  <1>2. least \in Nat /\ least # 0 /\ least - 1 \in Nat
    BY <1>1
  <1>3. <<least - 1, least>> \in Below
    BY <1>2 DEF Below
  <1>4. least - 1 \in X
    BY <1>1, <1>2, <1>3
  <1> QED
    BY <1>1, <1>2, <1>4

\* F lists what is got by joining the first sequences of e, then one more at a
\* time.
Joins(F, e, T) ==
    /\ F \in [1 .. Len(e) -> Seq(T)]
    /\ F[1] = e[1]
    /\ \A i \in 2 .. Len(e) : F[i] = F[i - 1] \o e[i]

\* FlattenSeq joins them all.
LEMMA FlattenJoins ==
    ASSUME NEW T, NEW e \in Seq(Seq(T)), e # << >>
    PROVE  \E F : Joins(F, e, T) /\ FlattenSeq(e) = F[Len(e)]
  <1> DEFINE n == Len(e)
             Built(F, k) ==
                 /\ F \in [1 .. k -> Seq(T)]
                 /\ F[1] = e[1]
                 /\ \A i \in 2 .. k : F[i] = F[i - 1] \o e[i]
             X == {j \in Nat : j + 1 <= n => \E F : Built(F, j + 1)}
  <1>1. n \in Nat \ {0} /\ \A i \in 1 .. n : e[i] \in Seq(T)
    OBVIOUS
  <1> HIDE DEF n
  <1>2. \E F : Built(F, 1)
    <2> DEFINE F == [i \in 1 .. 1 |-> e[1]]
    <2>1. e[1] \in Seq(T)
      BY <1>1
    <2>2. F \in [1 .. 1 -> Seq(T)] /\ F[1] = e[1]
      BY <2>1
    <2> HIDE DEF F
    <2> QED BY <2>2
  <1>3. ASSUME NEW k \in Nat \ {0}, k + 1 <= n, NEW f, Built(f, k)
        PROVE  \E F : Built(F, k + 1)
    <2> DEFINE F == [i \in 1 .. k + 1 |-> IF i = k + 1 THEN f[k] \o e[i] ELSE f[i]]
    <2>1. f[k] \in Seq(T) /\ e[k + 1] \in Seq(T)
      BY <1>1, <1>3
    <2>2. f[k] \o e[k + 1] \in Seq(T)
      BY <2>1
    <2>3. F[k + 1] = f[k] \o e[k + 1] /\ \A i \in 1 .. k : F[i] = f[i]
      <3>1. k + 1 \in 1 .. k + 1
        OBVIOUS
      <3>2. \A i \in 1 .. k : i \in 1 .. k + 1 /\ i # k + 1
        OBVIOUS
      <3> QED BY <3>1, <3>2
    <2>4. DOMAIN F = 1 .. k + 1 /\ F = [i \in DOMAIN F |-> F[i]]
      OBVIOUS
    <2> HIDE DEF F
    <2>5. \A i \in 1 .. k + 1 : F[i] \in Seq(T)
      <3>1. \A i \in 1 .. k + 1 : i = k + 1 \/ i \in 1 .. k
        OBVIOUS
      <3>2. \A i \in 1 .. k : f[i] \in Seq(T)
        BY <1>3
      <3> QED BY <2>2, <2>3, <3>1, <3>2
    <2>6. F \in [1 .. k + 1 -> Seq(T)]
      BY <2>4, <2>5
    <2>7. ASSUME NEW i \in 2 .. k + 1 PROVE F[i] = F[i - 1] \o e[i]
      <3>1. CASE i = k + 1
        <4>1. i - 1 = k /\ k \in 1 .. k
          BY <3>1
        <4> QED BY <2>3, <3>1, <4>1
      <3>2. CASE i # k + 1
        <4>1. i \in 2 .. k /\ i \in 1 .. k /\ i - 1 \in 1 .. k
          BY <3>2
        <4> QED BY <1>3, <2>3, <4>1
      <3> QED BY <3>1, <3>2
    <2>8. F[1] = e[1]
      BY <1>3, <2>3
    <2> QED BY <2>6, <2>7, <2>8
  <1> HIDE DEF Built
  <1>4. \E F : Built(F, n)
    <2>1. 0 \in X
      BY <1>2
    <2>2. ASSUME NEW j \in X PROVE j + 1 \in X
      <3> SUFFICES ASSUME (j + 1) + 1 <= n PROVE \E F : Built(F, (j + 1) + 1)
        OBVIOUS
      <3>1. j + 1 \in Nat \ {0} /\ j + 1 <= n
        BY <1>1
      <3>2. \E F : Built(F, j + 1)
        BY <3>1
      <3> QED BY <1>3, <3>1, <3>2
    <2>3. X \in SUBSET Nat
      OBVIOUS
    <2> HIDE DEF X
    <2>4. X = Nat
      BY <2>1, <2>2, <2>3, SetInduction
    <2>5. n - 1 \in X /\ (n - 1) + 1 = n /\ n <= n
      BY <1>1, <2>4
    <2> QED BY <2>5 DEF X
  <1>7. PICK f : Built(f, n)
    BY <1>4
  <1> USE DEF Built
  <1> DEFINE Flat(F) == F = [i \in 1 .. n |-> IF i = 1 THEN e[i] ELSE F[i - 1] \o e[i]]
  <1>8. Flat(f)
    <2> DEFINE g == [i \in 1 .. n |-> IF i = 1 THEN e[i] ELSE f[i - 1] \o e[i]]
    <2>1. ASSUME NEW i \in 1 .. n PROVE f[i] = g[i]
      <3>1. CASE i = 1
        BY <1>7, <3>1
      <3>2. CASE i # 1
        <4>1. i \in 2 .. n
          BY <1>1, <3>2
        <4> QED BY <1>7, <3>2, <4>1
      <3> QED BY <3>1, <3>2
    <2>2. f = g
      BY <1>7, <2>1
    <2> QED BY <2>2
  <1> DEFINE F == CHOOSE F : Flat(F)
  <1>9. Flat(F)
    <2> HIDE DEF Flat
    <2> QED BY <1>8
  <1>10. FlattenSeq(e) = F[n]
    <2>1. Len(e) # 0
      BY <1>1 DEF n
    <2> QED BY <2>1 DEF FlattenSeq, n
  <1> HIDE DEF F
  <1>11. \A i \in 1 .. n : F[i] = IF i = 1 THEN e[i] ELSE F[i - 1] \o e[i]
    BY <1>9
  <1>12. \A i \in 1 .. n : F[i] = f[i]
    <2> DEFINE Y == {j \in Nat : j + 1 <= n => F[j + 1] = f[j + 1]}
    <2>1. 0 \in Y
      BY <1>1, <1>7, <1>11
    <2>2. ASSUME NEW j \in Y PROVE j + 1 \in Y
      <3> SUFFICES ASSUME (j + 1) + 1 <= n PROVE F[(j + 1) + 1] = f[(j + 1) + 1]
        OBVIOUS
      <3> DEFINE i == (j + 1) + 1
      <3>1. F[j + 1] = f[j + 1] /\ i \in 2 .. n /\ i \in 1 .. n /\ i - 1 = j + 1 /\ i # 1
        BY <1>1
      <3> HIDE DEF i
      <3>2. f[i] = f[i - 1] \o e[i] /\ F[i] = F[i - 1] \o e[i]
        BY <1>7, <1>11, <3>1
      <3>3. F[i] = f[i]
        BY <3>1, <3>2
      <3> QED BY <3>3 DEF i
    <2>3. Y \in SUBSET Nat
      OBVIOUS
    <2> HIDE DEF Y
    <2>4. Y = Nat
      BY <2>1, <2>2, <2>3, SetInduction
    <2> SUFFICES ASSUME NEW i \in 1 .. n PROVE F[i] = f[i]
      OBVIOUS
    <2>5. i - 1 \in Y /\ (i - 1) + 1 = i
      BY <2>4
    <2> QED BY <1>1, <2>5 DEF Y
  <1>13. F[n] = f[n]
    BY <1>1, <1>12
  <1> QED
    BY <1>7, <1>10, <1>13 DEF Joins, n

\* "__" begins at i.
Escape(s, i) == i < Len(s) /\ s[i] = "_" /\ s[i + 1] = "_"

\* r[i] is the text of s from i on, unescaped.
Unescapes(r, s, T) ==
    /\ r \in [1 .. Len(s) + 2 -> Seq(T)]
    /\ r[Len(s) + 1] = << >>
    /\ \A i \in 1 .. Len(s) :
        /\ Escape(s, i) => r[i] = <<"/">> \o r[i + 2]
        /\ ~Escape(s, i) => r[i] = <<s[i]>> \o r[i + 1]

\* Unescape does so from the start of s.
LEMMA UnescapeSteps ==
    ASSUME NEW T, NEW s \in Seq(T), "/" \in T
    PROVE  \E r : Unescapes(r, s, T) /\ Unescape(s) = r[1]
  <1> DEFINE n == Len(s)
             Turn(F, i) == IF Escape(s, i) THEN <<"/">> \o F[i + 2] ELSE <<s[i]>> \o F[i + 1]
             Built(F, k) ==
                 /\ F \in [k .. n + 2 -> Seq(T)]
                 /\ F[n + 1] = << >> /\ F[n + 2] = << >>
                 /\ \A i \in k .. n : F[i] = Turn(F, i)
             X == {j \in Nat : j <= n => \E F : Built(F, n + 1 - j)}
  <1>1. n \in Nat /\ \A i \in 1 .. n : s[i] \in T
    OBVIOUS
  <1> HIDE DEF n
  <1>2. \E F : Built(F, n + 1)
    <2> DEFINE F == [i \in n + 1 .. n + 2 |-> << >>]
    <2>1. << >> \in Seq(T)
      OBVIOUS
    <2>2. F \in [n + 1 .. n + 2 -> Seq(T)] /\ F[n + 1] = << >> /\ F[n + 2] = << >>
      BY <1>1, <2>1
    <2>3. n + 1 .. n = {}
      BY <1>1
    <2> HIDE DEF F, Turn
    <2> QED BY <2>2, <2>3
  <1>3. ASSUME NEW k \in 1 .. n, NEW f, Built(f, k + 1)
        PROVE  \E F : Built(F, k)
    <2> DEFINE F == [i \in k .. n + 2 |-> IF i = k THEN Turn(f, k) ELSE f[i]]
    <2>0. k \in Nat
      BY <1>1
    <2>1. f[k + 1] \in Seq(T) /\ f[k + 2] \in Seq(T) /\ s[k] \in T
      BY <1>1, <1>3
    <2>2. Turn(f, k) \in Seq(T)
      <3>1. <<"/">> \in Seq(T) /\ <<s[k]>> \in Seq(T)
        BY <2>1
      <3>2. <<"/">> \o f[k + 2] \in Seq(T) /\ <<s[k]>> \o f[k + 1] \in Seq(T)
        BY <2>1, <3>1
      <3> QED BY <3>2
    <2> HIDE DEF Turn
    <2>3. F[k] = Turn(f, k) /\ \A i \in k + 1 .. n + 2 : F[i] = f[i]
      <3>1. k \in k .. n + 2
        BY <1>1, <2>0
      <3>2. \A i \in k + 1 .. n + 2 : i \in k .. n + 2 /\ i # k
        BY <1>1, <2>0
      <3> QED BY <3>1, <3>2
    <2>4. DOMAIN F = k .. n + 2 /\ F = [i \in DOMAIN F |-> F[i]]
      OBVIOUS
    <2> HIDE DEF F
    <2>5. \A i \in k .. n + 2 : F[i] \in Seq(T)
      <3>1. \A i \in k .. n + 2 : i = k \/ i \in k + 1 .. n + 2
        BY <1>1, <2>0
      <3>2. \A i \in k + 1 .. n + 2 : f[i] \in Seq(T)
        BY <1>3
      <3> QED BY <2>2, <2>3, <3>1, <3>2
    <2>6. F \in [k .. n + 2 -> Seq(T)]
      BY <2>4, <2>5
    <2>7. ASSUME NEW i \in k .. n PROVE F[i] = Turn(F, i)
      <3>1. i + 1 \in k + 1 .. n + 2 /\ i + 2 \in k + 1 .. n + 2
        BY <1>1, <2>0
      <3>2. F[i + 1] = f[i + 1] /\ F[i + 2] = f[i + 2]
        BY <2>3, <3>1
      <3>3. Turn(F, i) = Turn(f, i)
        BY <3>2 DEF Turn
      <3>4. CASE i = k
        BY <2>3, <3>3, <3>4
      <3>5. CASE i # k
        <4>1. i \in k + 1 .. n /\ i \in k + 1 .. n + 2
          BY <1>1, <2>0, <3>5
        <4> QED BY <1>3, <2>3, <3>3, <4>1
      <3> QED BY <3>4, <3>5
    <2>8. F[n + 1] = << >> /\ F[n + 2] = << >>
      <3>1. n + 1 \in k + 1 .. n + 2 /\ n + 2 \in k + 1 .. n + 2
        BY <1>1, <2>0
      <3> QED BY <1>3, <2>3, <3>1
    <2> QED BY <2>6, <2>7, <2>8
  <1> HIDE DEF Built
  <1>4. \E F : Built(F, 1)
    <2>1. 0 \in X
      <3>1. n + 1 - 0 = n + 1
        BY <1>1
      <3> QED BY <1>2, <3>1
    <2>2. ASSUME NEW j \in X PROVE j + 1 \in X
      <3> SUFFICES ASSUME j + 1 <= n PROVE \E F : Built(F, n + 1 - (j + 1))
        OBVIOUS
      <3> DEFINE k == n - j
      <3>1. /\ k \in 1 .. n /\ j <= n
            /\ n + 1 - j = k + 1 /\ n + 1 - (j + 1) = k
        BY <1>1
      <3> HIDE DEF k
      <3>2. \E F : Built(F, k + 1)
        BY <3>1
      <3>3. \E F : Built(F, k)
        BY <1>3, <3>1, <3>2
      <3> QED BY <3>1, <3>3
    <2>3. X \in SUBSET Nat
      OBVIOUS
    <2> HIDE DEF X
    <2>4. X = Nat
      BY <2>1, <2>2, <2>3, SetInduction
    <2>5. n \in X /\ n + 1 - n = 1 /\ n <= n
      BY <1>1, <2>4
    <2> QED BY <2>5 DEF X
  <1>5. PICK f : Built(f, 1)
    BY <1>4
  <1> DEFINE Rest(F) ==
                 F = [i \in 1 .. n + 2 |->
                        IF i > n THEN << >>
                        ELSE IF i < n /\ s[i] = "_" /\ s[i + 1] = "_"
                        THEN <<"/">> \o F[i + 2] ELSE <<s[i]>> \o F[i + 1]]
  <1>6. Rest(f)
    <2> DEFINE g == [i \in 1 .. n + 2 |->
                        IF i > n THEN << >>
                        ELSE IF i < n /\ s[i] = "_" /\ s[i + 1] = "_"
                        THEN <<"/">> \o f[i + 2] ELSE <<s[i]>> \o f[i + 1]]
    <2>1. ASSUME NEW i \in 1 .. n + 2 PROVE f[i] = g[i]
      <3>1. CASE i > n
        <4>1. i = n + 1 \/ i = n + 2
          BY <1>1, <3>1
        <4> QED BY <1>5, <3>1, <4>1 DEF Built
      <3>2. CASE ~(i > n)
        <4>1. i \in 1 .. n
          BY <1>1, <3>2
        <4>2. f[i] = Turn(f, i)
          BY <1>5, <4>1 DEF Built
        <4> QED BY <3>2, <4>2 DEF Escape, n
      <3> QED BY <3>1, <3>2
    <2>2. f \in [1 .. n + 2 -> Seq(T)]
      BY <1>5 DEF Built
    <2>3. f = g
      BY <2>1, <2>2
    <2> QED BY <2>3
  <1> DEFINE r == CHOOSE F : Rest(F)
  <1>7. Rest(r)
    <2> HIDE DEF Rest
    <2> QED BY <1>6
  <1>8. Unescape(s) = r[1]
    BY DEF Unescape, n
  <1> HIDE DEF r
  <1>9. /\ \A i \in 1 .. n : r[i] = Turn(r, i)
        /\ r[n + 1] = << >> /\ r[n + 2] = << >>
        /\ DOMAIN r = 1 .. n + 2 /\ r = [i \in DOMAIN r |-> r[i]]
    <2>1. \A i \in 1 .. n + 2 : r[i] = IF i > n THEN << >>
                        ELSE IF i < n /\ s[i] = "_" /\ s[i + 1] = "_"
                        THEN <<"/">> \o r[i + 2] ELSE <<s[i]>> \o r[i + 1]
      BY <1>7
    <2>2. DOMAIN r = 1 .. n + 2 /\ r = [i \in DOMAIN r |-> r[i]]
      BY <1>7
    <2> HIDE DEF Rest
    <2>3. n + 1 \in 1 .. n + 2 /\ n + 2 \in 1 .. n + 2 /\ n + 1 > n /\ n + 2 > n
      BY <1>1
    <2>4. \A i \in 1 .. n : i \in 1 .. n + 2 /\ ~(i > n)
      BY <1>1
    <2> QED BY <2>1, <2>2, <2>3, <2>4 DEF Escape, n
  <1> HIDE DEF Rest
  <1>10. \A i \in 1 .. n + 2 : r[i] \in Seq(T)
    <2> DEFINE Y == {j \in Nat : j <= n => r[n + 1 - j] \in Seq(T) /\ r[n + 2 - j] \in Seq(T)}
    <2>1. 0 \in Y
      <3>1. n + 1 - 0 = n + 1 /\ n + 2 - 0 = n + 2 /\ << >> \in Seq(T)
        BY <1>1
      <3> QED BY <1>9, <3>1
    <2>2. ASSUME NEW j \in Y PROVE j + 1 \in Y
      <3> SUFFICES ASSUME j + 1 <= n
                   PROVE  r[n + 1 - (j + 1)] \in Seq(T) /\ r[n + 2 - (j + 1)] \in Seq(T)
        OBVIOUS
      <3> DEFINE k == n - j
      <3>1. /\ k \in 1 .. n /\ j <= n
            /\ n + 1 - j = k + 1 /\ n + 2 - j = k + 2
            /\ n + 1 - (j + 1) = k /\ n + 2 - (j + 1) = k + 1
        BY <1>1
      <3> HIDE DEF k
      <3>2. r[k + 1] \in Seq(T) /\ r[k + 2] \in Seq(T)
        BY <3>1
      <3>3. <<"/">> \in Seq(T) /\ <<s[k]>> \in Seq(T)
        BY <1>1, <3>1
      <3>4. <<"/">> \o r[k + 2] \in Seq(T) /\ <<s[k]>> \o r[k + 1] \in Seq(T)
        BY <3>2, <3>3
      <3>5. r[k] \in Seq(T)
        BY <1>9, <3>1, <3>4
      <3> QED BY <3>1, <3>2, <3>5
    <2>3. Y \in SUBSET Nat
      OBVIOUS
    <2> HIDE DEF Y
    <2>4. Y = Nat
      BY <2>1, <2>2, <2>3, SetInduction
    <2> SUFFICES ASSUME NEW i \in 1 .. n + 2 PROVE r[i] \in Seq(T)
      OBVIOUS
    <2>5. CASE i = n + 2
      <3>1. << >> \in Seq(T)
        OBVIOUS
      <3> QED BY <1>9, <2>5, <3>1
    <2>6. CASE i # n + 2
      <3>1. n + 1 - i \in Y /\ n + 1 - (n + 1 - i) = i /\ n + 1 - i <= n
        BY <1>1, <2>4, <2>6
      <3> QED BY <3>1 DEF Y
    <2> QED BY <2>5, <2>6
  <1>11. r \in [1 .. n + 2 -> Seq(T)]
    BY <1>9, <1>10
  <1> QED
    BY <1>8, <1>9, <1>11 DEF Unescapes, n

-----------------------------------------------------------------------------
(* Names. *)

\* What secretName makes of one piece of a path.
Escaped(x) == IF x = "/" THEN <<"_", "_">> ELSE <<x>>

\* Short sequences.
LEMMA ShortSeqs ==
    ASSUME NEW U, NEW x \in U, NEW y \in U
    PROVE  /\ <<x>> \in Seq(U) /\ Len(<<x>>) = 1 /\ <<x>>[1] = x
           /\ <<x, y>> \in Seq(U) /\ Len(<<x, y>>) = 2 /\ <<x, y>>[1] = x /\ <<x, y>>[2] = y
  <1>1. <<x>> \in Seq(U)
    OBVIOUS
  <1>2. <<x, y>> \in Seq(U)
    OBVIOUS
  <1>3. Len(<<x>>) = 1 /\ Len(<<x, y>>) = 2
    OBVIOUS
  <1> QED BY <1>1, <1>2, <1>3

\* A piece stands for itself, or is two characters.
LEMMA EscapedForm ==
    ASSUME NEW U, NEW x \in U, "_" \in U
    PROVE  /\ Escaped(x) \in Seq(U)
           /\ Len(Escaped(x)) \in {1, 2}
           /\ x = "/" => /\ Len(Escaped(x)) = 2
                         /\ Escaped(x)[1] = "_" /\ Escaped(x)[2] = "_"
           /\ x # "/" => Len(Escaped(x)) = 1 /\ Escaped(x)[1] = x
  <1>1. CASE x = "/"
    <2>1. Escaped(x) = <<"_", "_">>
      BY <1>1 DEF Escaped
    <2>2. /\ <<"_", "_">> \in Seq(U) /\ Len(<<"_", "_">>) = 2
          /\ <<"_", "_">>[1] = "_" /\ <<"_", "_">>[2] = "_"
      BY ShortSeqs
    <2> QED BY <1>1, <2>1, <2>2
  <1>2. CASE x # "/"
    <2>1. Escaped(x) = <<x>>
      BY <1>2 DEF Escaped
    <2> QED BY <1>2, <2>1, ShortSeqs
  <1> QED
    BY <1>1, <1>2

\* Unescaping undoes escaping for these paths, and no others.
LEMMA UnescapeEscaped ==
    ASSUME NEW T, NEW path \in Seq(T), path # << >>
    PROVE  LET flat == FlattenSeq([i \in DOMAIN path |-> Escaped(path[i])])
           IN  /\ flat \in Seq(T \cup {"_", "/"})
               /\ Unescape(flat) = path <=> Unambiguous(path)
  <1> DEFINE U == T \cup {"_", "/"}
             n == Len(path)
             e == [i \in DOMAIN path |-> Escaped(path[i])]
             flat == FlattenSeq(e)
  <1>1. /\ n \in Nat \ {0}
        /\ DOMAIN path = 1 .. n
        /\ \A i \in 1 .. n : path[i] \in T
    OBVIOUS
  <1>2. /\ Len(e) = n /\ e \in Seq(Seq(U)) /\ e # << >>
        /\ \A i \in 1 .. n : path[i] \in U /\ e[i] = Escaped(path[i])
    <2>1. "_" \in U /\ \A i \in 1 .. n : path[i] \in U
      BY <1>1
    <2> HIDE DEF U
    <2>2. \A i \in 1 .. n : Escaped(path[i]) \in Seq(U)
      BY <2>1, EscapedForm
    <2>3. e \in [1 .. n -> Seq(U)] /\ \A i \in 1 .. n : e[i] = Escaped(path[i])
      BY <1>1, <2>2
    <2> HIDE DEF e, n
    <2>4. e \in Seq(Seq(U)) /\ Len(e) = n
      BY <1>1, <2>3
    <2> QED BY <1>1, <2>1, <2>3, <2>4
  <1> HIDE DEF e, n
  <1>3. PICK F : Joins(F, e, U) /\ flat = F[n]
    BY <1>2, FlattenJoins
  <1> HIDE DEF flat
  <1> DEFINE off == [k \in 0 .. n |-> IF k = 0 THEN 0 ELSE Len(F[k])]
  <1>4. \A k \in 1 .. n : F[k] \in Seq(U) /\ Len(F[k]) \in Nat
    <2>1. \A k \in 1 .. n : F[k] \in Seq(U)
      BY <1>2, <1>3 DEF Joins
    <2> HIDE DEF U, off
    <2> QED BY <2>1
  <1>5. \A k \in 1 .. n : e[k] \in Seq(U) /\ Len(e[k]) \in {1, 2}
    <2>1. "_" \in U
      OBVIOUS
    <2> HIDE DEF U
    <2> QED BY <1>2, <2>1, EscapedForm
  <1> HIDE DEF U
  <1>0. \A x, y, z \in Seq(U) : (x \o y) \o z = x \o (y \o z)
    BY ConcatAssociative
  \* Where each piece begins and ends.
  <1>6. ASSUME NEW k \in 1 .. n
        PROVE  /\ off[k] = off[k - 1] + Len(e[k])
               /\ \A j \in 1 .. Len(e[k]) : F[k][off[k - 1] + j] = e[k][j]
               /\ k > 1 => \A j \in 1 .. Len(F[k - 1]) : F[k][j] = F[k - 1][j]
    <2>1. CASE k = 1
      <3>1. F[1] = e[1] /\ off[1] = Len(F[1]) /\ off[0] = 0
        BY <1>1, <1>3 DEF Joins
      <3>2. Len(e[1]) \in Nat
        BY <1>1, <1>5
      <3> HIDE DEF off
      <3>3. off[k - 1] = 0 /\ off[k] = Len(e[k]) /\ F[k] = e[k] /\ ~(k > 1)
        BY <2>1, <3>1
      <3>4. off[k] = off[k - 1] + Len(e[k]) /\ \A j \in 1 .. Len(e[k]) : off[k - 1] + j = j
        BY <2>1, <3>2, <3>3
      <3> QED BY <3>3, <3>4
    <2>2. CASE k > 1
      <3>1. k - 1 \in 1 .. n /\ k \in 2 .. n /\ k - 1 \in 0 .. n /\ k \in 0 .. n /\ k - 1 # 0 /\ k # 0
        BY <1>1, <2>2
      <3>2. F[k] = F[k - 1] \o e[k]
        BY <1>2, <1>3, <3>1 DEF Joins
      <3>3. off[k] = Len(F[k]) /\ off[k - 1] = Len(F[k - 1])
        BY <3>1
      <3> HIDE DEF off
      <3> DEFINE f == F[k - 1]
                 g == e[k]
      <3>4. f \in Seq(U) /\ g \in Seq(U)
        BY <1>4, <1>5, <3>1
      <3> HIDE DEF f, g
      <3>5. /\ Len(f \o g) = Len(f) + Len(g)
            /\ \A j \in 1 .. Len(f) + Len(g) :
                   (f \o g)[j] = IF j <= Len(f) THEN f[j] ELSE g[j - Len(f)]
        BY <3>4, ConcatProperties
      <3>6. Len(f) \in Nat /\ Len(g) \in Nat
        BY <3>4
      <3>7. \A j \in 1 .. Len(g) : (f \o g)[Len(f) + j] = g[j]
        BY <3>5, <3>6
      <3>8. \A j \in 1 .. Len(f) : (f \o g)[j] = f[j]
        BY <3>5, <3>6
      <3> QED BY <3>2, <3>3, <3>5, <3>7, <3>8 DEF f, g
    <2>3. k = 1 \/ k > 1
      BY <1>1
    <2> HIDE DEF off
    <2> QED BY <2>1, <2>2, <2>3
  <1>7. off \in [0 .. n -> Nat] /\ off[0] = 0 /\ off[n] = Len(flat) /\ flat \in Seq(U)
    BY <1>1, <1>3, <1>4
  <1> HIDE DEF off
  \* Each join goes on as the whole does.
  <1>8. ASSUME NEW k \in 1 .. n
        PROVE  off[k] <= Len(flat) /\ \A j \in 1 .. off[k] : flat[j] = F[k][j]
    <2> DEFINE X == {d \in Nat : d < n =>
                        /\ off[n - d] <= Len(flat)
                        /\ \A j \in 1 .. off[n - d] : flat[j] = F[n - d][j]}
    <2>1. 0 \in X
      <3>1. n - 0 = n
        BY <1>1
      <3> QED BY <1>3, <1>7, <3>1
    <2>2. ASSUME NEW d \in X PROVE d + 1 \in X
      <3> SUFFICES ASSUME d + 1 < n
                   PROVE  /\ off[n - (d + 1)] <= Len(flat)
                          /\ \A j \in 1 .. off[n - (d + 1)] : flat[j] = F[n - (d + 1)][j]
        OBVIOUS
      <3> DEFINE m == n - d
      <3>1. m \in 1 .. n /\ m > 1 /\ n - (d + 1) = m - 1 /\ m - 1 \in 1 .. n /\ m - 1 \in 0 .. n /\ m \in 0 .. n
        BY <1>1
      <3>2. off[m] <= Len(flat) /\ \A j \in 1 .. off[m] : flat[j] = F[m][j]
        BY <1>1
      <3> HIDE DEF m
      <3>3. off[m] = off[m - 1] + Len(e[m]) /\ off[m] \in Nat /\ off[m - 1] \in Nat
        BY <1>6, <1>7, <3>1
      <3>4. Len(e[m]) \in Nat
        BY <1>5, <3>1
      <3>5. off[m - 1] = Len(F[m - 1])
        BY <1>1, <3>1 DEF off
      <3>6. \A j \in 1 .. off[m - 1] : F[m][j] = F[m - 1][j]
        BY <1>6, <3>1, <3>5
      <3>7. Len(flat) \in Nat
        BY <1>7
      <3>8. off[m - 1] <= Len(flat) /\ \A j \in 1 .. off[m - 1] : j \in 1 .. off[m]
        BY <3>2, <3>3, <3>4, <3>7
      <3> QED BY <3>1, <3>2, <3>6, <3>8
    <2>3. X \in SUBSET Nat
      OBVIOUS
    <2> HIDE DEF X
    <2>4. X = Nat
      BY <2>1, <2>2, <2>3, SetInduction
    <2>5. n - k \in X /\ n - k < n /\ n - (n - k) = k
      BY <1>1, <2>4
    <2> QED BY <2>5 DEF X
  \* What is at the place of a piece.
  <1>9. ASSUME NEW k \in 1 .. n
        PROVE  /\ off[k - 1] \in Nat /\ off[k] \in Nat /\ Len(flat) \in Nat
               /\ off[k] <= Len(flat)
               /\ path[k] = "/" => /\ off[k] = off[k - 1] + 2
                                   /\ flat[off[k - 1] + 1] = "_"
                                   /\ flat[off[k - 1] + 2] = "_"
               /\ path[k] # "/" => /\ off[k] = off[k - 1] + 1
                                   /\ flat[off[k - 1] + 1] = path[k]
               /\ off[k] = Len(flat) <=> k = n
    <2>1. k - 1 \in 0 .. n /\ k \in 0 .. n
      BY <1>1
    <2>2. off[k - 1] \in Nat /\ off[k] \in Nat /\ Len(flat) \in Nat /\ off[k] <= Len(flat)
      BY <1>7, <1>8, <2>1
    <2>3. /\ off[k] = off[k - 1] + Len(e[k])
          /\ \A j \in 1 .. Len(e[k]) : F[k][off[k - 1] + j] = e[k][j]
      BY <1>6
    <2>4. \A j \in 1 .. Len(e[k]) : flat[off[k - 1] + j] = e[k][j]
      <3> SUFFICES ASSUME NEW j \in 1 .. Len(e[k]) PROVE flat[off[k - 1] + j] = e[k][j]
        OBVIOUS
      <3>1. Len(e[k]) \in Nat
        BY <1>5
      <3>2. off[k - 1] + j \in 1 .. off[k]
        BY <2>2, <2>3, <3>1
      <3> QED BY <1>8, <2>3, <3>2
    <2>5. path[k] \in U /\ "_" \in U /\ e[k] = Escaped(path[k])
      BY <1>2 DEF U
    <2>6. path[k] = "/" => /\ off[k] = off[k - 1] + 2
                           /\ flat[off[k - 1] + 1] = "_"
                           /\ flat[off[k - 1] + 2] = "_"
      <3> SUFFICES ASSUME path[k] = "/"
                   PROVE  /\ off[k] = off[k - 1] + 2
                          /\ flat[off[k - 1] + 1] = "_"
                          /\ flat[off[k - 1] + 2] = "_"
        OBVIOUS
      <3>1. Len(e[k]) = 2 /\ e[k][1] = "_" /\ e[k][2] = "_"
        BY <2>5, EscapedForm
      <3>2. 1 \in 1 .. 2 /\ 2 \in 1 .. 2
        OBVIOUS
      <3> QED BY <2>3, <2>4, <3>1, <3>2
    <2>7. path[k] # "/" => off[k] = off[k - 1] + 1 /\ flat[off[k - 1] + 1] = path[k]
      <3> SUFFICES ASSUME path[k] # "/"
                   PROVE  off[k] = off[k - 1] + 1 /\ flat[off[k - 1] + 1] = path[k]
        OBVIOUS
      <3>1. Len(e[k]) = 1 /\ e[k][1] = path[k]
        BY <2>5, EscapedForm
      <3>2. 1 \in 1 .. 1
        OBVIOUS
      <3> QED BY <2>3, <2>4, <3>1, <3>2
    <2>8. off[k] = Len(flat) <=> k = n
      <3>1. ASSUME k # n PROVE off[k] # Len(flat)
        <4>1. k + 1 \in 1 .. n /\ k + 1 \in 0 .. n /\ (k + 1) - 1 = k
          BY <1>1, <3>1
        <4>2. off[k + 1] = off[(k + 1) - 1] + Len(e[k + 1])
          BY <1>6, <4>1
        <4>3. off[k + 1] <= Len(flat) /\ off[k + 1] \in Nat
          BY <1>7, <1>8, <4>1
        <4>4. Len(e[k + 1]) \in {1, 2}
          BY <1>5, <4>1
        <4>5. off[k + 1] = off[k] + Len(e[k + 1])
          BY <4>1, <4>2
        <4>6. \A a, b, c \in Nat, l \in {1, 2} : b = a + l /\ b <= c => a # c
          OBVIOUS
        <4> QED BY <2>2, <4>3, <4>4, <4>5, <4>6
      <3> QED BY <1>7, <3>1
    <2> QED BY <2>2, <2>6, <2>7, <2>8
  <1>10. PICK r : Unescapes(r, flat, U) /\ Unescape(flat) = r[1]
    BY <1>7, UnescapeSteps, "/" \in U DEF U
  <1>11. \A i \in 1 .. Len(flat) + 2 : r[i] \in Seq(U)
    BY <1>10 DEF Unescapes
  <1> DEFINE Bad(k) == k < n /\ path[k] = "_" /\ path[k + 1] \in {"_", "/"}
             Tight(k) == \A i \in 1 .. k : ~Bad(i)
  \* A piece is unescaped as itself, or swallowed into a "/".
  <1>12. ASSUME NEW k \in 1 .. n
         PROVE  /\ off[k - 1] + 1 \in 1 .. Len(flat)
                /\ Escape(flat, off[k - 1] + 1) <=> path[k] = "/" \/ Bad(k)
    <2> DEFINE o == off[k - 1]
    <2>0. \A a, b, c \in Nat :
              /\ b = a + 2 /\ b <= c =>
                     a + 1 \in 1 .. c /\ a + 1 < c /\ (a + 1) + 1 = a + 2
              /\ b = a + 1 /\ b <= c => a + 1 \in 1 .. c /\ (a + 1 < c <=> b # c)
      OBVIOUS
    <2>1. /\ o \in Nat /\ off[k] \in Nat /\ Len(flat) \in Nat /\ off[k] <= Len(flat)
          /\ off[k] = Len(flat) <=> k = n
      BY <1>9
    <2>2. CASE path[k] = "/"
      <3>1. off[k] = o + 2 /\ flat[o + 1] = "_" /\ flat[o + 2] = "_"
        BY <1>9, <2>2
      <3> HIDE DEF o
      <3>2. o + 1 \in 1 .. Len(flat) /\ o + 1 < Len(flat) /\ (o + 1) + 1 = o + 2
        BY <2>0, <2>1, <3>1
      <3> QED BY <2>2, <3>1, <3>2 DEF Escape, o
    <2>3. CASE path[k] # "/"
      <3>1. off[k] = o + 1 /\ flat[o + 1] = path[k]
        BY <1>9, <2>3
      <3>2. CASE k = n
        <4> HIDE DEF o
        <4>1. o + 1 \in 1 .. Len(flat) /\ ~(o + 1 < Len(flat))
          BY <2>0, <2>1, <3>1, <3>2
        <4>2. ~Bad(k)
          <5>1. ~(k < n)
            BY <1>1, <3>2
          <5> QED BY <5>1
        <4> QED BY <2>3, <4>1, <4>2 DEF Escape, o
      <3>3. CASE k # n
        <4>1. k + 1 \in 1 .. n /\ (k + 1) - 1 = k /\ k < n
          BY <1>1, <3>3
        <4>2. /\ path[k + 1] = "/" => flat[off[k] + 1] = "_"
              /\ path[k + 1] # "/" => flat[off[k] + 1] = path[k + 1]
          BY <1>9, <4>1
        <4> HIDE DEF o
        <4>3. o + 1 \in 1 .. Len(flat) /\ o + 1 < Len(flat) /\ (o + 1) + 1 = off[k] + 1
          BY <2>0, <2>1, <3>1, <3>3
        <4>4. flat[(o + 1) + 1] = "_" <=> path[k + 1] \in {"_", "/"}
          BY <4>2, <4>3
        <4> QED BY <2>3, <3>1, <4>1, <4>3, <4>4 DEF Escape, o
      <3> QED BY <3>2, <3>3
    <2> QED BY <2>2, <2>3
  <1>13. ASSUME NEW k \in 1 .. n, ~Bad(k)
         PROVE  r[off[k - 1] + 1] = <<path[k]>> \o r[off[k] + 1]
    <2>1. CASE path[k] = "/"
      <3>1. r[off[k - 1] + 1] = <<"/">> \o r[(off[k - 1] + 1) + 2]
        BY <1>10, <1>12, <2>1 DEF Unescapes
      <3>2. (off[k - 1] + 1) + 2 = off[k] + 1
        <4>1. \A a, b \in Nat : b = a + 2 => (a + 1) + 2 = b + 1
          OBVIOUS
        <4> QED BY <1>9, <2>1, <4>1
      <3> QED BY <2>1, <3>1, <3>2
    <2>2. CASE path[k] # "/"
      <3>1. r[off[k - 1] + 1] = <<flat[off[k - 1] + 1]>> \o r[(off[k - 1] + 1) + 1]
        BY <1>10, <1>12, <1>13, <2>2 DEF Unescapes
      <3>2. (off[k - 1] + 1) + 1 = off[k] + 1 /\ flat[off[k - 1] + 1] = path[k]
        BY <1>9, <2>2
      <3> QED BY <3>1, <3>2
    <2> QED BY <2>1, <2>2
  <1>14. ASSUME NEW k \in 1 .. n, Bad(k)
         PROVE  \E t \in Seq(U) : r[off[k - 1] + 1] = <<"/">> \o t
    <2>1. r[off[k - 1] + 1] = <<"/">> \o r[(off[k - 1] + 1) + 2]
      BY <1>10, <1>12, <1>14 DEF Unescapes
    <2>2. off[k - 1] \in Nat /\ Len(flat) \in Nat /\ off[k - 1] + 1 \in 1 .. Len(flat)
      BY <1>9, <1>12
    <2>3. (off[k - 1] + 1) + 2 \in 1 .. Len(flat) + 2
      <3>1. \A a, c \in Nat : a + 1 \in 1 .. c => (a + 1) + 2 \in 1 .. c + 2
        OBVIOUS
      <3> QED BY <2>2, <3>1
    <2> QED BY <1>11, <2>1, <2>3
  <1> DEFINE Before(k) == SubSeq(path, 1, k)
  <1>15. \A k \in 0 .. n : Before(k) \in Seq(U) /\ Len(Before(k)) = k
    BY <1>1, <1>2, SubSeqProperties
  <1> HIDE DEF Bad
  <1>16. ASSUME NEW k \in 1 .. n
         PROVE  /\ Before(k) = Before(k - 1) \o <<path[k]>>
                /\ <<path[k]>> \in Seq(U)
    <2>1. 1 \in 1 .. n /\ k \in 1 .. Len(path) /\ 1 \in 1 .. Len(path)
      BY <1>1 DEF n
    <2>2. Before(k) = Before(k - 1) \o <<path[k]>>
      BY <2>1, SubSeqRecursiveSecond
    <2>3. path[k] \in U
      BY <1>2
    <2> QED BY <2>2, <2>3, ShortSeqs
  <1> HIDE DEF Before
  \* Up to the first piece that is swallowed, what comes out is the path.
  <1>17. ASSUME NEW k \in 0 .. n, Tight(k)
         PROVE  r[1] = Before(k) \o r[off[k] + 1]
    <2> DEFINE X == {j \in Nat : j <= k => r[1] = Before(j) \o r[off[j] + 1]}
    <2>0. k \in Nat /\ k <= n
      BY <1>1
    <2>1. 0 \in X
      <3>1. Before(0) = << >>
        BY SubSeqEmpty DEF Before
      <3>2. off[0] + 1 = 1 /\ r[1] \in Seq(U)
        <4>1. \A c \in Nat : 1 \in 1 .. c + 2
          OBVIOUS
        <4>2. Len(flat) \in Nat
          BY <1>7
        <4> QED BY <1>7, <1>11, <4>1, <4>2
      <3> QED BY <3>1, <3>2, ConcatEmptySeq
    <2>2. ASSUME NEW j \in X PROVE j + 1 \in X
      <3> SUFFICES ASSUME j + 1 <= k
                   PROVE  r[1] = Before(j + 1) \o r[off[j + 1] + 1]
        <4>1. j \in Nat /\ j + 1 \in Nat
          OBVIOUS
        <4> QED BY <4>1
      <3> DEFINE i == j + 1
      <3>1. i \in 1 .. n /\ i \in 1 .. k /\ i - 1 = j /\ j <= k /\ j \in 0 .. n
        BY <1>1, <2>0
      <3> HIDE DEF i
      <3>2. ~Bad(i)
        BY <1>17, <3>1
      <3>3. r[1] = Before(j) \o r[off[j] + 1]
        BY <3>1
      <3>4. r[off[j] + 1] = <<path[i]>> \o r[off[i] + 1]
        BY <1>13, <3>1, <3>2
      <3>5. Before(i) = Before(j) \o <<path[i]>> /\ <<path[i]>> \in Seq(U) /\ Before(j) \in Seq(U)
        BY <1>15, <1>16, <3>1
      <3>6. r[off[i] + 1] \in Seq(U)
        <4>1. \A a, c \in Nat : a <= c => a + 1 \in 1 .. c + 2
          OBVIOUS
        <4>2. off[i] \in Nat /\ Len(flat) \in Nat /\ off[i] <= Len(flat)
          BY <1>9, <3>1
        <4> QED BY <1>11, <4>1, <4>2
      <3>7. r[1] = Before(i) \o r[off[i] + 1]
        <4> DEFINE a == Before(j)
                   b == <<path[i]>>
                   c == r[off[i] + 1]
        <4>1. a \in Seq(U) /\ b \in Seq(U) /\ c \in Seq(U)
          BY <3>5, <3>6
        <4>2. r[1] = a \o (b \o c) /\ Before(i) = a \o b
          BY <3>3, <3>4, <3>5
        <4> HIDE DEF a, b, c
        <4>3. (a \o b) \o c = a \o (b \o c)
          BY <1>0, <4>1
        <4> QED BY <4>2, <4>3 DEF c
      <3> QED BY <3>7 DEF i
    <2>3. X \in SUBSET Nat
      OBVIOUS
    <2> HIDE DEF X
    <2>4. X = Nat
      BY <2>1, <2>2, <2>3, SetInduction
    <2>5. k \in X /\ k <= k
      BY <2>0, <2>4
    <2> QED BY <2>5 DEF X
  <1>18. Tight(n) => r[1] = path
    <2> SUFFICES ASSUME Tight(n) PROVE r[1] = path
      OBVIOUS
    <2>1. n \in 0 .. n
      BY <1>1
    <2>2. r[1] = Before(n) \o r[off[n] + 1]
      BY <1>17, <2>1
    <2>3. r[off[n] + 1] = << >>
      BY <1>7, <1>10 DEF Unescapes
    <2>4. Before(n) = path
      BY SubSeqFull DEF Before, n
    <2>5. Before(n) \in Seq(U)
      BY <1>15, <2>1
    <2> QED BY <2>2, <2>3, <2>4, <2>5, ConcatEmptySeq
  <1>19. r[1] = path => Tight(n)
    <2> SUFFICES ASSUME r[1] = path PROVE Tight(n)
      OBVIOUS
    <2> DEFINE X == {j \in Nat : j <= n => Tight(j)}
    <2>1. 0 \in X
      OBVIOUS
    <2>2. ASSUME NEW j \in X PROVE j + 1 \in X
      <3> SUFFICES ASSUME j + 1 <= n, Bad(j + 1) PROVE FALSE
        <4>1. j \in Nat /\ (j + 1 <= n => Tight(j))
          BY <1>1
        <4>2. \A i \in 1 .. j + 1 : i = j + 1 \/ i \in 1 .. j
          BY <4>1
        <4> QED BY <4>1, <4>2
      <3> DEFINE i == j + 1
      <3>1. i \in 1 .. n /\ i - 1 = j /\ j \in 0 .. n /\ Tight(j) /\ j \in Nat
        BY <1>1
      <3> HIDE DEF Tight
      <3>2. r[1] = Before(j) \o r[off[j] + 1]
        BY <1>17, <3>1
      <3>3. PICK t \in Seq(U) : r[off[j] + 1] = <<"/">> \o t
        BY <1>14, <3>1
      <3>4. <<"/">> \in Seq(U) /\ Len(<<"/">>) = 1 /\ <<"/">>[1] = "/"
        BY ShortSeqs DEF U
      <3>5. /\ <<"/">> \o t \in Seq(U)
            /\ Len(<<"/">> \o t) = 1 + Len(t)
            /\ (<<"/">> \o t)[1] = "/"
        <4>1. Len(t) \in Nat
          OBVIOUS
        <4>2. 1 \in 1 .. 1 + Len(t) /\ 1 <= 1
          BY <4>1
        <4> QED BY <3>4, <4>2, ConcatProperties
      <3>6. r[1][i] = "/"
        <4> DEFINE a == Before(j)
                   b == <<"/">> \o t
        <4>1. a \in Seq(U) /\ Len(a) = j /\ b \in Seq(U) /\ Len(b) = 1 + Len(t) /\ b[1] = "/"
          BY <1>15, <3>1, <3>5
        <4>2. r[1] = a \o b
          BY <3>2, <3>3
        <4> HIDE DEF a, b
        <4>3. Len(t) \in Nat
          OBVIOUS
        <4>4. i \in 1 .. Len(a) + Len(b) /\ ~(i <= Len(a)) /\ i - Len(a) = 1
          BY <3>1, <4>1, <4>3 DEF i
        <4>5. (a \o b)[i] = b[i - Len(a)]
          BY <4>1, <4>4, ConcatProperties
        <4> QED BY <4>1, <4>2, <4>4, <4>5
      <3>7. path[i] = "_"
        BY DEF Bad, i
      <3> QED BY <3>6, <3>7
    <2>3. X \in SUBSET Nat
      OBVIOUS
    <2> HIDE DEF X
    <2>4. X = Nat
      BY <2>1, <2>2, <2>3, SetInduction
    <2>5. n \in X /\ n <= n
      BY <1>1, <2>4
    <2> QED BY <2>5 DEF X
  <1>20. Tight(n) <=> Unambiguous(path)
    <2>1. \A i \in 1 .. n : i < n <=> i \in 1 .. n - 1
      BY <1>1
    <2>2. \A i \in 1 .. n - 1 : i \in 1 .. n
      BY <1>1
    <2> QED BY <2>1, <2>2 DEF Bad, Unambiguous, n
  <1> QED
    BY <1>7, <1>10, <1>18, <1>19, <1>20 DEF flat, e, U

\* In a name that secretName makes the helper finds its own service, and the
\* path the name was made of exactly when no "_" in the path stands before
\* another or before a "/": strings.ReplaceAll takes the first "__" it meets for
\* a "/".
THEOREM NamesResolve ==
    ASSUME NEW T, NEW path \in Seq(T), path # << >>
    PROVE  /\ OfService(SecretName(path))
           /\ PathOf(SecretName(path)) = path <=> Unambiguous(path)
  <1> DEFINE U == (T \cup {"_", "/"}) \cup {Service}
             flat == FlattenSeq([i \in DOMAIN path |-> Escaped(path[i])])
             name == <<Service, "_">> \o flat
  <1>1. flat \in Seq(T \cup {"_", "/"}) /\ (Unescape(flat) = path <=> Unambiguous(path))
    BY UnescapeEscaped
  <1>2. SecretName(path) = name
    BY DEF SecretName, Escaped
  <1> HIDE DEF flat
  <1>3. flat \in Seq(U)
    BY <1>1, SeqMonotonic, T \cup {"_", "/"} \subseteq U
  <1>4. Service \in U /\ "_" \in U
    OBVIOUS
  <1> HIDE DEF U
  <1> DEFINE prefix == <<Service, "_">>
  <1>5. prefix \in Seq(U) /\ Len(prefix) = 2 /\ prefix[1] = Service /\ prefix[2] = "_"
    BY <1>4, ShortSeqs
  <1>6. name = prefix \o flat
    OBVIOUS
  <1> HIDE DEF prefix, name
  <1>7. Len(flat) \in Nat
    BY <1>3
  <1>8. /\ name \in Seq(U) /\ Len(name) = 2 + Len(flat)
        /\ \A i \in 1 .. 2 + Len(flat) : name[i] = IF i <= 2 THEN prefix[i] ELSE flat[i - 2]
    <2>1. /\ prefix \o flat \in Seq(U)
          /\ Len(prefix \o flat) = Len(prefix) + Len(flat)
          /\ \A i \in 1 .. Len(prefix) + Len(flat) :
                 (prefix \o flat)[i] =
                     IF i <= Len(prefix) THEN prefix[i] ELSE flat[i - Len(prefix)]
      BY <1>3, <1>5, ConcatProperties
    <2> QED BY <1>5, <1>6, <2>1
  <1>9. Len(name) > 1 /\ name[1] = Service /\ name[2] = "_"
    <2>1. 1 \in 1 .. 2 + Len(flat) /\ 2 \in 1 .. 2 + Len(flat) /\ 2 + Len(flat) > 1
      BY <1>7
    <2>2. 1 <= 2 /\ 2 <= 2
      OBVIOUS
    <2>3. name[1] = prefix[1] /\ name[2] = prefix[2]
      BY <1>8, <2>1, <2>2
    <2>4. Len(name) > 1
      BY <1>8, <2>1
    <2> QED BY <1>5, <2>3, <2>4
  <1>10. SubSeq(name, 3, Len(name)) = flat
    <2> DEFINE rest == SubSeq(name, 3, Len(name))
    <2>1. \A i \in 3 .. Len(name) : name[i] \in U
      BY <1>7, <1>8
    <2>2. /\ rest \in Seq(U)
          /\ Len(rest) = IF 3 <= Len(name) THEN Len(name) - 3 + 1 ELSE 0
          /\ \A i \in 1 .. Len(name) - 3 + 1 : rest[i] = name[3 + i - 1]
      BY <1>7, <1>8, <2>1, SubSeqProperties
    <2> HIDE DEF rest
    <2>3. Len(rest) = Len(flat)
      BY <1>7, <1>8, <2>2
    <2>4. ASSUME NEW i \in 1 .. Len(rest) PROVE rest[i] = flat[i]
      <3>1. i \in 1 .. Len(name) - 3 + 1 /\ 3 + i - 1 \in 1 .. 2 + Len(flat)
            /\ ~(3 + i - 1 <= 2) /\ (3 + i - 1) - 2 = i
        BY <1>7, <1>8, <2>3
      <3> QED BY <1>8, <2>2, <3>1
    <2>5. rest = flat
      BY <1>3, <2>2, <2>3, <2>4, SeqEqual
    <2> QED BY <2>5 DEF rest
  <1> QED
    BY <1>1, <1>2, <1>9, <1>10 DEF OfService, PathOf

\* What each client has got so far.
AnswerInv ==
    /\ aliases \in Aliases
    /\ answer \in [Client -> Stored \cup {None}]
    /\ OwnAnswer

\* However many units ask at the same time, and whatever stops the helper in
\* between: what a unit gets is the secret its declaration means, for all
\* configurations in which a name can be resolved at all.
THEOREM UnitsGetTheirOwn ==
    ASSUME WellConfigured
    PROVE  Spec => []OwnAnswer
  <1>1. ASSUME NEW as \in Aliases, NEW c \in Client
        PROVE  Find(as, c) \in {Join(Wants[c]), None}
    <2>1. CASE <<Unit[c], Name[c]>> \in DOMAIN as
      BY <2>1 DEF WellConfigured, Find
    <2>2. CASE <<Unit[c], Name[c]>> \notin DOMAIN as
      <3>1. /\ Wants[c] \in Seq(STRING) /\ Wants[c] # << >>
            /\ Unambiguous(Wants[c])
            /\ Name[c] = SecretName(Wants[c])
        BY <2>2 DEF WellConfigured
      <3>2. OfService(Name[c]) /\ PathOf(Name[c]) = Wants[c]
        BY <3>1, NamesResolve
      <3> QED BY <2>2, <3>2 DEF Find, ResolvePath
    <2> QED BY <2>1, <2>2
  <1>2. Init => AnswerInv
    BY DEF Init, AnswerInv, OwnAnswer
  <1>3. AnswerInv /\ [Next]_vars => AnswerInv'
    <2> SUFFICES ASSUME AnswerInv, [Next]_vars PROVE AnswerInv'
      OBVIOUS
    <2>1. CASE UNCHANGED <<answer, aliases>>
      BY <2>1 DEF AnswerInv, OwnAnswer
    <2>2. ASSUME NEW c \in Client, Connect(c) PROVE AnswerInv'
      BY <2>2 DEF Connect, AnswerInv, OwnAnswer, world
    <2>3. ASSUME NEW c \in Client, Answer(c) PROVE AnswerInv'
      <3>1. Resolve(c) \in {Join(Wants[c]), None}
        BY <1>1 DEF AnswerInv, Resolve, Found
      <3>2. Resolve(c) \in Stored /\ None \notin Stored
        BY <2>3, SpiffeCredsAssumption DEF Answer
      <3>3. answer' = [answer EXCEPT ![c] = Join(Wants[c])] /\ Join(Wants[c]) \in Stored
        BY <2>3, <3>1, <3>2 DEF Answer
      <3>4. aliases' = aliases
        BY <2>3 DEF Answer, world
      <3> QED BY <3>3, <3>4 DEF AnswerInv, OwnAnswer
    <2>4. CASE UNCHANGED vars
      BY <2>1, <2>4 DEF vars, clients, world
    <2>5. CASE Activate \/ Start \/ StartTimeout \/ Terminate \/ Exit
      BY <2>1, <2>5 DEF Activate, Start, StartTimeout, Terminate, Exit, ProcessEnds, clients, world
    <2>6. CASE Accept \/ Send \/ IdleExit \/ Cancelled
      BY <2>1, <2>6 DEF Accept, Send, IdleExit, Cancelled, clients, world
    <2>7. CASE Renew \/ Tick \/ WorldChanges
      BY <2>1, <2>7 DEF Renew, Tick, WorldChanges, clients, world
    <2>8. ASSUME NEW c \in Client, Dispatch(c) \/ NoAnswer(c) \/ Panic(c) PROVE AnswerInv'
      BY <2>1, <2>8 DEF Dispatch, NoAnswer, Panic, ProcessEnds, world
    <2> QED
      BY <2>2, <2>3, <2>4, <2>5, <2>6, <2>7, <2>8 DEF Next, Handle
  <1>4. AnswerInv => OwnAnswer
    BY DEF AnswerInv
  <1> QED
    BY <1>2, <1>3, <1>4, PTL DEF Spec

=============================================================================
