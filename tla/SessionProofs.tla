----------------------------- MODULE SessionProofs -----------------------------
(* What holds of every call of dippy, for any plan; and of a reboot alone.   *)
EXTENDS Session, SequenceTheorems, TLAPS

-----------------------------------------------------------------------------
(* A reboot by itself succeeds only after a reboot, whatever fails and how   *)
(* often.                                                                    *)

RebootInv == TypeOK /\ OkMeansRebooted

LEMMA InitRebootInv == Init => RebootInv
  BY RebootAssumption DEF Init, RebootInv, TypeOK, OkMeansRebooted

LEMMA NextRebootInv == RebootInv /\ [Next]_vars => RebootInv'
<1> SUFFICES ASSUME RebootInv, [Next]_vars PROVE RebootInv'
  OBVIOUS
<1> USE RebootAssumption DEF RebootInv, TypeOK, OkMeansRebooted
<1>1. CASE Dial
  BY <1>1 DEF Dial, Returned
<1>2. CASE FirstID
  BY <1>2 DEF FirstID, Answers
<1>3. CASE RunReboot
  BY <1>3 DEF RunReboot, Answers, Fault
<1>4. CASE CheckID
  BY <1>4 DEF CheckID, Answers
<1>5. CASE CommandFails
  BY <1>5 DEF CommandFails, Fail, Fault, Returned
<1>6. CASE Hang
  BY <1>6 DEF Hang
<1>7. CASE Stop
  BY <1>7 DEF Stop, Fault
<1>8. CASE Boot
  <2>1. host'.boot = host.boot + 1 /\ host.boot \in Nat \ {0}
    BY <1>8 DEF Boot
  <2>2. 0 .. host.boot \subseteq 0 .. host'.boot /\ 1 .. host.boot \subseteq 1 .. host'.boot
    BY <2>1
  <2>3. conn' \in {None} \cup 0 .. host'.boot
    BY <1>8, <2>2 DEF Boot
  <2>4. (oldID \in 1 .. host'.boot \/ (oldID = None /\ pc \in {"first", "error"}))
    BY <2>2
  <2>5. host' \in [boot : Nat \ {0}, state : {"up", "stopping", "down"}]
    BY <1>8, <2>1 DEF Boot
  <2>6. ASSUME pc = "ok" PROVE oldID < conn /\ conn <= host'.boot
    <3>1. conn \in 0 .. host.boot
      BY <2>6
    <3> QED
      BY <2>1, <2>6, <3>1
  <2> QED
    BY <1>8, <2>3, <2>4, <2>5, <2>6 DEF Boot
<1>9. CASE Expire
  BY <1>9 DEF Expire
<1>10. CASE UNCHANGED vars
  BY <1>10 DEF vars
<1> QED
  BY <1>1, <1>2, <1>3, <1>4, <1>5, <1>6, <1>7, <1>8, <1>9, <1>10 DEF Next, Step

\* Host.Reboot keeps its state in order: an identifier is known whenever one is
\* compared, and is not of the future.
THEOREM RebootTypeCorrect == Spec => []TypeOK
<1>1. RebootInv => TypeOK
  BY DEF RebootInv
<1> QED
  BY InitRebootInv, NextRebootInv, <1>1, PTL DEF Spec

\* Host.Reboot returns without an error only if the host it is then connected
\* to booted after the call began.
THEOREM RebootSound == Spec => []OkMeansRebooted
<1>1. RebootInv => OkMeansRebooted
  BY DEF RebootInv
<1> QED
  BY InitRebootInv, NextRebootInv, <1>1, PTL DEF Spec

-----------------------------------------------------------------------------
(* The operations of a command, and what is left of them.                    *)

Words == Plain \cup OnTarget \cup
         {"client", "keys", "eval", "secret", "stack", "up", "note", "ask"}

Setup == {"client", "sign", "keys", "known_hosts"}

\* The operations a command may meet, GenerateConfig's last two apart.
Allowed(c) ==
    {o \in Words \ {"keys", "known_hosts"} :
        /\ o = "apply" => c.kind = "deploy"
        /\ o = "note" => c.kind = "diff"
        /\ o = "up" /\ c.kind = "deploy" => c.named = {}}

\* The keys are written just before known_hosts, with which GenerateConfig
\* returns.
Queue(c, s) ==
    /\ s \in Seq(Allowed(c) \cup Setup)
    /\ \A i \in 1 .. Len(s) :
          /\ s[i] = "keys" => i < Len(s) /\ s[i + 1] = "known_hosts"
          /\ s[i] = "known_hosts" => \A j \in 1 .. i - 1 : s[j] \in Setup

Has(o, s) == \E i \in 1 .. Len(s) : s[i] = o

\* An operation "note" comes after the one that caches the secret.
NoteLater(s) ==
    \A i \in 1 .. Len(s) : s[i] = "note" => \E j \in 1 .. i - 1 : s[j] = "secret"

\* GenerateConfig is not all there is.
GoesOn(s) == s # << >> /\ s[Len(s)] # "known_hosts"

LEMMA Joined ==
    ASSUME NEW c, NEW s, NEW t \in Seq(Allowed(c)), Queue(c, s)
    PROVE  Queue(c, s \o t)
<1> DEFINE u == s \o t
<1> DEFINE A == Allowed(c) \cup Setup
<1>1. s \in Seq(A) /\ t \in Seq(A)
  <2>1. s \in Seq(A)
    BY DEF Queue
  <2> QED
    BY <2>1, SeqMonotonic, Allowed(c) \subseteq A
<1>2. \A o \in Allowed(c) : o \notin {"keys", "known_hosts"}
  BY DEF Allowed
<1>3. Allowed(c) \subseteq A
  OBVIOUS
<1> HIDE DEF A
<1>4. /\ u \in Seq(A)
      /\ Len(s) \in Nat /\ Len(t) \in Nat /\ Len(u) = Len(s) + Len(t)
      /\ \A i \in 1 .. Len(u) : u[i] = IF i <= Len(s) THEN s[i] ELSE t[i - Len(s)]
  BY <1>1
<1> HIDE DEF u
<1>5. ASSUME NEW i \in 1 .. Len(u)
      PROVE  /\ u[i] = "keys" => i < Len(u) /\ u[i + 1] = "known_hosts"
             /\ u[i] = "known_hosts" => \A j \in 1 .. i - 1 : u[j] \in Setup
  <2>1. CASE i <= Len(s)
    <3>1. i \in 1 .. Len(s) /\ u[i] = s[i]
      BY <1>4, <2>1
    <3>2. i < Len(s) => i < Len(u) /\ u[i + 1] = s[i + 1]
      BY <1>4, <2>1
    <3>3. \A j \in 1 .. i - 1 : u[j] = s[j]
      BY <1>4, <2>1
    <3> QED
      BY <3>1, <3>2, <3>3 DEF Queue
  <2>2. CASE ~(i <= Len(s))
    <3>1. i - Len(s) \in 1 .. Len(t) /\ u[i] = t[i - Len(s)]
      BY <1>4, <2>2
    <3>2. u[i] \in Allowed(c)
      BY <3>1
    <3> QED
      BY <1>2, <3>2
  <2> QED
    BY <2>1, <2>2
<1> QED
  BY <1>4, <1>5 DEF Queue, u, A

LEMMA NoteJoined ==
    ASSUME NEW S, NEW s \in Seq(S), NEW t \in Seq(S), NoteLater(s),
           ~Has("note", t) \/ Has("secret", s)
    PROVE  NoteLater(s \o t)
<1> DEFINE u == s \o t
<1>1. /\ Len(s) \in Nat /\ Len(t) \in Nat /\ Len(u) = Len(s) + Len(t)
      /\ \A i \in 1 .. Len(u) : u[i] = IF i <= Len(s) THEN s[i] ELSE t[i - Len(s)]
  OBVIOUS
<1> HIDE DEF u
<1>2. ASSUME NEW i \in 1 .. Len(u), u[i] = "note"
      PROVE  \E j \in 1 .. i - 1 : u[j] = "secret"
  <2>1. CASE i <= Len(s)
    <3>1. i \in 1 .. Len(s) /\ s[i] = "note"
      BY <1>1, <1>2, <2>1
    <3>2. PICK j \in 1 .. i - 1 : s[j] = "secret"
      BY <3>1 DEF NoteLater
    <3>3. u[j] = "secret"
      BY <1>1, <3>1, <3>2
    <3> QED
      BY <3>3
  <2>2. CASE ~(i <= Len(s))
    <3>1. i - Len(s) \in 1 .. Len(t) /\ t[i - Len(s)] = "note"
      BY <1>1, <1>2, <2>2
    <3>2. PICK j \in 1 .. Len(s) : s[j] = "secret"
      BY <3>1 DEF Has
    <3>3. j \in 1 .. i - 1 /\ u[j] = "secret"
      BY <1>1, <2>2, <3>2
    <3> QED
      BY <3>3
  <2> QED
    BY <2>1, <2>2
<1> QED
  BY <1>1, <1>2 DEF NoteLater, u

LEMMA HasJoined ==
    ASSUME NEW o, NEW S, NEW s \in Seq(S), NEW t \in Seq(S), Has(o, s) \/ Has(o, t)
    PROVE  Has(o, s \o t)
<1> DEFINE u == s \o t
<1>1. /\ Len(s) \in Nat /\ Len(t) \in Nat /\ Len(u) = Len(s) + Len(t)
      /\ \A i \in 1 .. Len(u) : u[i] = IF i <= Len(s) THEN s[i] ELSE t[i - Len(s)]
  OBVIOUS
<1> HIDE DEF u
<1>2. \A i \in 1 .. Len(s) : i \in 1 .. Len(u) /\ u[i] = s[i]
  BY <1>1
<1>3. \A i \in 1 .. Len(t) : i + Len(s) \in 1 .. Len(u) /\ u[i + Len(s)] = t[i]
  BY <1>1
<1>4. Has(o, u)
  BY <1>2, <1>3 DEF Has
<1> QED
  BY <1>4 DEF u

\* What a command has to do, at any time.
Good(c, s) == Queue(c, s) /\ NoteLater(s) /\ GoesOn(s)

LEMMA Chained ==
    ASSUME NEW c, NEW s, NEW t \in Seq(Allowed(c)),
           Queue(c, s), NoteLater(s), GoesOn(s) \/ t # << >>,
           ~Has("note", t) \/ Has("secret", s)
    PROVE  /\ Good(c, s \o t)
           /\ Has("secret", s) \/ Has("secret", t) => Has("secret", s \o t)
<1> DEFINE A == Allowed(c) \cup Setup
<1>1. s \in Seq(A) /\ t \in Seq(A)
  <2>1. s \in Seq(A)
    BY DEF Queue
  <2> QED
    BY <2>1, SeqMonotonic, Allowed(c) \subseteq A
<1> HIDE DEF A
<1>2. Queue(c, s \o t) /\ NoteLater(s \o t)
  BY <1>1, Joined, NoteJoined
<1>3. CASE t = << >>
  <2>1. s \o t = s
    BY <1>1, <1>3
  <2> QED
    BY <1>1, <1>2, <1>3, <2>1, HasJoined DEF Good
<1>4. CASE t # << >>
  <2> DEFINE u == s \o t
  <2>1. /\ Len(t) \in 1 .. Len(t) /\ Len(u) \in Nat \ {0}
        /\ u[Len(u)] = t[Len(t)] /\ u # << >>
    BY <1>1, <1>4
  <2>2. t[Len(t)] \in Allowed(c)
    BY <2>1
  <2>3. t[Len(t)] # "known_hosts"
    BY <2>2 DEF Allowed
  <2>4. GoesOn(u)
    BY <2>1, <2>3 DEF GoesOn
  <2> QED
    BY <1>1, <1>2, <2>4, HasJoined DEF Good
<1> QED
  BY <1>3, <1>4

LEMMA GenerateConfigBegins ==
    ASSUME NEW c
    PROVE  Queue(c, GenerateConfig) /\ NoteLater(GenerateConfig)
<1> DEFINE g == GenerateConfig
           A == Allowed(c) \cup Setup
<1>1. /\ g \in Seq(Setup) /\ Len(g) = 4
      /\ g[1] = "client" /\ g[2] = "sign" /\ g[3] = "keys" /\ g[4] = "known_hosts"
  BY DEF GenerateConfig, Setup
<1> HIDE DEF g
<1>2. ASSUME NEW i \in 1 .. 4
      PROVE  g[i] \in Setup /\ (g[i] = "keys" => i = 3) /\ g[i] # "note"
  <2>1. i = 1 \/ i = 2 \/ i = 3 \/ i = 4
    OBVIOUS
  <2> QED
    BY <1>1, <2>1 DEF Setup
<1>3. g \in Seq(A) /\ Len(g) = 4 /\ g[4] = "known_hosts"
  BY <1>1, SeqMonotonic, Setup \subseteq A
<1>4. ASSUME NEW i \in 1 .. 4
      PROVE  /\ g[i] = "keys" => i < 4 /\ g[i + 1] = "known_hosts"
             /\ \A j \in 1 .. i - 1 : g[j] \in Setup
  <2>1. g[i] = "keys" => i = 3
    BY <1>2
  <2>2. g[i] = "keys" => i < 4 /\ i + 1 = 4
    BY <2>1
  <2>3. ASSUME NEW j \in 1 .. i - 1 PROVE g[j] \in Setup
    <3>1. j \in 1 .. 4
      OBVIOUS
    <3> QED
      BY <1>2, <3>1
  <2> QED
    BY <1>3, <2>2, <2>3
<1>5. Queue(c, g)
  BY <1>3, <1>4 DEF Queue, A
<1>6. NoteLater(g)
  BY <1>2, <1>3 DEF NoteLater
<1> QED
  BY <1>5, <1>6 DEF g

\* No note, in a part of what a command has to do.
Plainly(c, s) == s \in Seq(Allowed(c)) /\ ~Has("note", s)

LEMMA Parts ==
    ASSUME NEW c
    PROVE  /\ Plainly(c, <<"eval", "build">>)
           /\ Plainly(c, <<"test">>)
           /\ Plainly(c, <<"secret", "copy", "attic", "check">>)
           /\ Plainly(c, <<"secret", "attic", "copy", "check">>)
           /\ Plainly(c, <<"client", "stack", "refresh", "preview">>)
           /\ Plainly(c, <<"eval", "reboot", "health">>)
<1>1. \A o \in {"eval", "build", "test", "secret", "copy", "attic", "check", "client", "stack",
                "refresh", "preview", "reboot", "health"} : o \in Allowed(c)
  BY DEF Allowed, Words, Plain, OnTarget
<1>2. Plainly(c, <<"eval", "build">>)
  BY <1>1 DEF Plainly, Has
<1>3. Plainly(c, <<"test">>)
  BY <1>1 DEF Plainly, Has
<1>4. Plainly(c, <<"secret", "copy", "attic", "check">>)
  BY <1>1 DEF Plainly, Has
<1>5. Plainly(c, <<"secret", "attic", "copy", "check">>)
  BY <1>1 DEF Plainly, Has
<1>6. Plainly(c, <<"client", "stack", "refresh", "preview">>)
  BY <1>1 DEF Plainly, Has
<1>7. Plainly(c, <<"eval", "reboot", "health">>)
  BY <1>1 DEF Plainly, Has
<1> QED
  BY <1>2, <1>3, <1>4, <1>5, <1>6, <1>7

LEMMA WhenPlainly ==
    ASSUME NEW c, NEW b, NEW s, Plainly(c, s)
    PROVE  Plainly(c, When(b, s))
<1>1. Plainly(c, << >>)
  BY DEF Plainly, Has
<1> QED
  BY <1>1 DEF When

LEMMA LocalParts ==
    ASSUME NEW c, NEW s
    PROVE  /\ /\ c.kind = "apply-local"
              /\ s = <<"eval_json", "build", "secret", "attic", "diff_here", "ask",
                       "apply_here">>
              => Plainly(c, s) /\ s # << >>
           /\ /\ c.kind = "infra-apply"
              /\ s = <<"eval_json", "client", "stack", "refresh", "up">>
              => Plainly(c, s) /\ s # << >>
           /\ s = <<"eval_json", "client", "stack", "refresh", "preview">>
              => Plainly(c, s) /\ s # << >>
<1>1. \A o \in {"eval_json", "build", "secret", "attic", "diff_here", "ask", "apply_here",
                "client", "stack", "refresh", "preview"} : o \in Allowed(c)
  BY DEF Allowed, Words, Plain
<1>2. c.kind = "infra-apply" => "up" \in Allowed(c)
  BY DEF Allowed, Words, Plain
<1>3. Plainly(c, <<"eval_json", "build", "secret", "attic", "diff_here", "ask", "apply_here">>)
  BY <1>1 DEF Plainly, Has
<1>4. c.kind = "infra-apply" => Plainly(c, <<"eval_json", "client", "stack", "refresh", "up">>)
  BY <1>1, <1>2 DEF Plainly, Has
<1>5. Plainly(c, <<"eval_json", "client", "stack", "refresh", "preview">>)
  BY <1>1 DEF Plainly, Has
<1> QED
  BY <1>3, <1>4, <1>5

LEMMA Begun == ASSUME NEW c \in Commands PROVE Good(c, Operations(c))
<1> DEFINE ev == <<"eval", "build">>
           tst == When(c.ci, <<"test">>)
           dep == <<"secret", "copy", "attic", "check">>
           dif == <<"secret", "attic", "copy", "check">>
           stk == When(AllHosts(c), <<"client", "stack", "refresh", "up">>)
           prv == When(AllHosts(c), <<"client", "stack", "refresh", "preview">>)
           app == <<"apply", "reboot", "health">>
           nte == When(c.ci, <<"note">>)
           boot == <<"eval", "reboot", "health">>
<1>1. Queue(c, GenerateConfig) /\ NoteLater(GenerateConfig)
  BY GenerateConfigBegins
<1>2. /\ Plainly(c, ev) /\ Plainly(c, tst) /\ Plainly(c, dep) /\ Plainly(c, dif)
      /\ Plainly(c, prv) /\ Plainly(c, boot)
  BY Parts, WhenPlainly
<1>3. ev # << >> /\ app # << >> /\ boot # << >> /\ Has("secret", dif)
  <2>1. Len(dif) = 4 /\ dif[1] = "secret"
    OBVIOUS
  <2> QED
    BY <2>1 DEF Has
<1>4. c.kind = "deploy" => Plainly(c, app)
  <2>1. c.kind = "deploy" => \A o \in {"apply", "reboot", "health"} : o \in Allowed(c)
    BY DEF Allowed, Words, Plain, OnTarget
  <2> QED
    BY <2>1 DEF Plainly, Has
<1>5. Plainly(c, stk)
  <2>1. AllHosts(c) => \A o \in {"client", "stack", "refresh", "up"} : o \in Allowed(c)
    BY DEF Allowed, Words, Plain, OnTarget, AllHosts
  <2>2. AllHosts(c) => Plainly(c, <<"client", "stack", "refresh", "up">>)
    BY <2>1 DEF Plainly, Has
  <2>3. Plainly(c, << >>)
    BY DEF Plainly, Has
  <2> QED
    BY <2>2, <2>3 DEF When
<1>6. c.kind = "diff" => nte \in Seq(Allowed(c))
  <2>1. c.kind = "diff" => "note" \in Allowed(c)
    BY DEF Allowed, Words
  <2> QED
    BY <2>1 DEF When
<1> HIDE DEF ev, tst, dep, dif, stk, prv, app, nte, boot
<1>7. Good(c, GenerateConfig \o ev \o tst)
  <2>1. Good(c, GenerateConfig \o ev)
    BY <1>1, <1>2, <1>3, Chained DEF Plainly
  <2> QED
    BY <1>2, <2>1, Chained DEF Good, Plainly
<1>8. CASE c.kind = "deploy"
  <2>1. Good(c, GenerateConfig \o ev \o tst \o dep)
    BY <1>2, <1>7, Chained DEF Good, Plainly
  <2>2. Good(c, GenerateConfig \o ev \o tst \o dep \o stk)
    BY <1>5, <2>1, Chained DEF Good, Plainly
  <2>3. Good(c, GenerateConfig \o ev \o tst \o dep \o stk \o app)
    BY <1>3, <1>4, <1>8, <2>2, Chained DEF Good, Plainly
  <2> QED
    BY <1>8, <2>3 DEF Operations, ev, tst, dep, stk, app
<1>9. CASE c.kind = "diff"
  <2> DEFINE d == GenerateConfig \o ev \o tst \o dif
  <2>1. Good(c, d) /\ Has("secret", d)
    BY <1>2, <1>3, <1>7, Chained DEF Good, Plainly
  <2> HIDE DEF d
  <2>2. Good(c, d \o prv) /\ Has("secret", d \o prv)
    BY <1>2, <2>1, Chained DEF Good, Plainly
  <2>3. Good(c, d \o prv \o nte)
    BY <1>6, <1>9, <2>2, Chained DEF Good
  <2> QED
    BY <1>9, <2>3 DEF Operations, ev, tst, dif, prv, nte, d
<1>10. CASE c.kind = "reboot"
  <2>1. Good(c, GenerateConfig \o boot)
    BY <1>1, <1>2, <1>3, Chained DEF Plainly
  <2> QED
    BY <1>10, <2>1 DEF Operations, boot
<1>11. CASE c.kind \in {"apply-local", "infra-apply", "infra-diff"}
  <2> DEFINE l == Operations(c)
  <2>1. Plainly(c, l) /\ l # << >>
    BY <1>11, LocalParts DEF Operations
  <2> HIDE DEF l
  <2>2. Queue(c, << >>) /\ NoteLater(<< >>)
    BY DEF Queue, NoteLater
  <2>3. Good(c, << >> \o l)
    BY <2>1, <2>2, Chained DEF Plainly
  <2>4. << >> \o l = l
    BY <2>1 DEF Plainly
  <2> QED
    BY <2>3, <2>4 DEF l
<1>12. c.kind \in Kinds
  BY DEF Commands
<1> QED
  BY <1>8, <1>9, <1>10, <1>11, <1>12 DEF Kinds

-----------------------------------------------------------------------------
(* What is left when some operations are done, or skipped.                   *)

LEMMA Skipped ==
    ASSUME NEW c, NEW s, NEW m \in Nat \ {0}, Queue(c, s), GoesOn(s)
    PROVE  /\ Queue(c, SubSeq(s, m + 1, Len(s)))
           /\ \/ SubSeq(s, m + 1, Len(s)) = << >> /\ Len(s) <= m
              \/ GoesOn(SubSeq(s, m + 1, Len(s)))
           /\ NoteLater(s) /\ m = 1 /\ s[1] # "secret" =>
                 NoteLater(SubSeq(s, m + 1, Len(s)))
<1> DEFINE r == SubSeq(s, m + 1, Len(s))
           A == Allowed(c) \cup Setup
<1>1. s \in Seq(A) /\ Len(s) \in Nat
  BY DEF Queue
<1>2. /\ r \in Seq(A) /\ Len(r) = IF m < Len(s) THEN Len(s) - m ELSE 0
      /\ \A i \in 1 .. Len(s) - m : r[i] = s[i + m]
  <2>1. \A i \in m + 1 .. Len(s) : i \in 1 .. Len(s) /\ s[i] \in A
    BY <1>1
  <2>2. /\ r \in Seq(A)
        /\ Len(r) = IF m + 1 <= Len(s) THEN Len(s) - (m + 1) + 1 ELSE 0
        /\ \A i \in 1 .. Len(s) - (m + 1) + 1 : r[i] = s[m + 1 + i - 1]
    BY <1>1, <2>1, SubSeqProperties
  <2> QED
    BY <1>1, <2>2
<1> HIDE DEF r, A
<1>3. \A i \in 1 .. Len(r) : i + m \in 1 .. Len(s) /\ r[i] = s[i + m]
  BY <1>1, <1>2
<1>4. ASSUME NEW i \in 1 .. Len(r)
      PROVE  /\ r[i] = "keys" => i < Len(r) /\ r[i + 1] = "known_hosts"
             /\ r[i] = "known_hosts" => \A j \in 1 .. i - 1 : r[j] \in Setup
  <2>1. i + m \in 1 .. Len(s) /\ r[i] = s[i + m] /\ Len(s) = Len(r) + m
    BY <1>1, <1>2, <1>3
  <2>2. ASSUME r[i] = "keys" PROVE i < Len(r) /\ r[i + 1] = "known_hosts"
    <3>1. i + m < Len(s) /\ s[i + m + 1] = "known_hosts"
      BY <2>1, <2>2 DEF Queue
    <3>2. i < Len(r) /\ i + 1 \in 1 .. Len(r) /\ (i + 1) + m = i + m + 1
      BY <1>2, <2>1, <3>1
    <3> QED
      BY <1>3, <3>1, <3>2
  <2>3. ASSUME r[i] = "known_hosts", NEW j \in 1 .. i - 1 PROVE r[j] \in Setup
    <3>1. j \in 1 .. Len(r) /\ j + m \in 1 .. (i + m) - 1
      BY <1>2, <2>1
    <3>2. s[j + m] \in Setup
      BY <2>1, <2>3, <3>1 DEF Queue
    <3> QED
      BY <1>3, <3>1, <3>2
  <2> QED
    BY <2>2, <2>3
<1>5. Queue(c, r)
  BY <1>2, <1>4 DEF Queue, A
<1>6. (r = << >> /\ Len(s) <= m) \/ GoesOn(r)
  <2>1. CASE m < Len(s)
    <3>1. Len(r) \in 1 .. Len(r) /\ Len(r) + m = Len(s) /\ r # << >>
      BY <1>1, <1>2, <2>1
    <3>2. r[Len(r)] = s[Len(s)]
      BY <1>3, <3>1
    <3> QED
      BY <3>1, <3>2 DEF GoesOn
  <2>2. CASE ~(m < Len(s))
    BY <1>1, <1>2, <2>2
  <2> QED
    BY <2>1, <2>2
<1>7. ASSUME NoteLater(s), m = 1, s[1] # "secret" PROVE NoteLater(r)
  <2> SUFFICES ASSUME NEW i \in 1 .. Len(r), r[i] = "note"
               PROVE  \E j \in 1 .. i - 1 : r[j] = "secret"
    BY DEF NoteLater
  <2>1. i + 1 \in 1 .. Len(s) /\ s[i + 1] = "note"
    BY <1>3, <1>7
  <2>2. PICK j \in 1 .. (i + 1) - 1 : s[j] = "secret"
    BY <1>7, <2>1 DEF NoteLater
  <2>3. j - 1 \in 1 .. i - 1 /\ j - 1 \in 1 .. Len(r) /\ (j - 1) + 1 = j
    BY <1>2, <1>7, <2>2
  <2>4. r[j - 1] = "secret"
    BY <1>3, <1>7, <2>2, <2>3
  <2> QED
    BY <2>3, <2>4
<1> QED
  BY <1>5, <1>6, <1>7 DEF r

LEMMA NoNoteBut ==
    ASSUME NEW c, NEW s, Queue(c, s), c.kind # "diff"
    PROVE  NoteLater(s)
<1>1. s \in Seq(Allowed(c) \cup Setup)
  BY DEF Queue
<1>2. "note" \notin Allowed(c) \cup Setup
  BY DEF Allowed, Setup
<1>3. \A i \in 1 .. Len(s) : s[i] # "note"
  BY <1>1, <1>2
<1> QED
  BY <1>3 DEF NoteLater

\* The order of the operations, and what Cleanup depends on.
TodoInv ==
    /\ command \in Commands
    /\ Queue(command, todo)
    /\ Running => GoesOn(todo)
    /\ secret \/ NoteLater(todo)
    /\ KeysRemoved

LEMMA Proceeds ==
    ASSUME TodoInv, Running, command' = command, NEW m \in Nat \ {0},
           Continue(SubSeq(todo, m + 1, Len(todo))),
           m = 1 \/ todo[1] \notin Setup,
           \/ m = 1 /\ todo[1] # "secret"
           \/ secret'
           \/ command.kind # "diff"
           \/ m >= Len(todo),
           secret => secret'
    PROVE  TodoInv'
<1> DEFINE r == SubSeq(todo, m + 1, Len(todo))
<1>1. todo' = r /\ (IF r = << >> THEN End("ok") ELSE UNCHANGED <<result, keys>>)
  BY DEF Continue
<1>2. Queue(command, todo) /\ GoesOn(todo) /\ (secret \/ NoteLater(todo))
  BY DEF TodoInv
<1>3. todo \in Seq(Allowed(command) \cup Setup) /\ Len(todo) \in Nat
  BY <1>2 DEF Queue
<1>4. /\ Queue(command, r)
      /\ (r = << >> /\ Len(todo) <= m) \/ GoesOn(r)
      /\ NoteLater(todo) /\ m = 1 /\ todo[1] # "secret" => NoteLater(r)
  BY <1>2, Skipped
<1> HIDE DEF r
<1>5. secret' \/ NoteLater(r)
  <2>1. ASSUME m >= Len(todo) PROVE NoteLater(r)
    <3>1. r = << >>
      BY <1>3, <2>1, SubSeqEmpty DEF r
    <3> QED
      BY <3>1 DEF NoteLater
  <2> QED
    BY <1>2, <1>4, <2>1, NoNoteBut
<1>6. Running' => GoesOn(r)
  BY <1>1, <1>4 DEF Running, End
<1>7. KeysRemoved'
  <2>1. CASE r # << >>
    BY <1>1, <2>1 DEF KeysRemoved, Running
  <2>2. CASE r = << >>
    <3>1. r = << >> /\ Len(todo) <= m
      BY <1>4, <2>2 DEF GoesOn
    <3>2. ~InSetup
      <4> SUFFICES ASSUME NEW i \in DOMAIN todo, todo[i] = "known_hosts" PROVE FALSE
        BY DEF InSetup
      <4>1. i \in 1 .. Len(todo)
        BY <1>3
      <4>2. \A j \in 1 .. i - 1 : todo[j] \in Setup
        BY <1>2, <4>1 DEF Queue
      <4>3. CASE m = 1
        <5>1. i = Len(todo)
          BY <1>3, <3>1, <4>1, <4>3
        <5> QED
          BY <1>2, <5>1 DEF GoesOn
      <4>4. CASE todo[1] \notin Setup
        <5>1. i = 1
          BY <4>1, <4>2, <4>4
        <5> QED
          BY <4>4, <5>1 DEF Setup
      <4> QED
        BY <4>3, <4>4
    <3> QED
      BY <1>1, <2>2, <3>2 DEF KeysRemoved, End
  <2> QED
    BY <2>1, <2>2
<1> QED
  BY <1>1, <1>4, <1>5, <1>6, <1>7 DEF TodoInv

\* The process ends, with the operation it was at still to be done.
LEMMA Ends ==
    ASSUME TodoInv, UNCHANGED <<command, todo, secret>>, result' # "running",
           result' = "killed" \/ (keys' => InSetup)
    PROVE  TodoInv'
<1>1. InSetup' = InSetup /\ ~Running'
  BY DEF InSetup, Running
<1> QED
  BY <1>1 DEF TodoInv, KeysRemoved

LEMMA Stays ==
    ASSUME TodoInv, UNCHANGED <<command, todo, secret, result, keys>>
    PROVE  TodoInv'
  BY DEF TodoInv, KeysRemoved, InSetup, Running

-----------------------------------------------------------------------------
(* Every step preserves it.                                                  *)

\* What the head of the queue says of all of it.
LEMMA AtHead ==
    ASSUME TodoInv, Running
    PROVE  /\ todo \in Seq(Words) /\ Len(todo) \in Nat \ {0}
           /\ Head(todo) = todo[1] /\ Tail(todo) = SubSeq(todo, 1 + 1, Len(todo))
           /\ todo[1] \in Allowed(command) \cup Setup
<1>1. todo \in Seq(Allowed(command) \cup Setup) /\ todo # << >>
  BY DEF TodoInv, Queue, GoesOn
<1>2. Allowed(command) \cup Setup \subseteq Words
  BY DEF Allowed, Words, Plain, Setup
<1>3. todo \in Seq(Words) /\ Len(todo) \in Nat \ {0}
  BY <1>1, <1>2, SeqMonotonic
<1>4. Head(todo) = todo[1] /\ todo[1] \in Allowed(command) \cup Setup
  BY <1>1, <1>3
<1>5. Tail(todo) = SubSeq(todo, 2, Len(todo))
  BY <1>1, TailIsSubSeq
<1> QED
  BY <1>3, <1>4, <1>5

\* One operation is done.
LEMMA Done ==
    ASSUME TodoInv, Running, command' = command, Continue(Tail(todo)),
           Head(todo) # "secret" \/ secret', secret => secret'
    PROVE  TodoInv'
<1>1. Tail(todo) = SubSeq(todo, 1 + 1, Len(todo)) /\ 1 \in Nat \ {0}
  BY AtHead
<1>2. Continue(SubSeq(todo, 1 + 1, Len(todo)))
  BY <1>1 DEF Continue
<1>3. todo[1] # "secret" \/ secret'
  BY AtHead
<1> QED
  BY <1>1, <1>2, <1>3, Proceeds

LEMMA InitTodo == SessionInit => TodoInv
<1> SUFFICES ASSUME SessionInit PROVE TodoInv
  OBVIOUS
<1>1. command \in Commands /\ todo = Operations(command) /\ keys = FALSE
  BY DEF SessionInit
<1>2. Good(command, todo)
  BY <1>1, Begun
<1> QED
  BY <1>1, <1>2 DEF TodoInv, Good, KeysRemoved

LEMMA NextTodo == TodoInv /\ [SessionNext]_sessionVars => TodoInv'
<1> SUFFICES ASSUME TodoInv, [SessionNext]_sessionVars PROVE TodoInv'
  OBVIOUS
<1> USE DEF process, caches, eval
<1>1. CASE Client
  BY <1>1, Done DEF Client, Op
<1>2. CASE GetSecret
  BY <1>2, Done DEF GetSecret, Op
<1>3. CASE CreateNote
  BY <1>3, Done DEF CreateNote, Op
<1>4. CASE SetUpStack
  BY <1>4, Done DEF SetUpStack, Op
<1>5. CASE Up
  BY <1>5, Done DEF Up, Op
<1>6. CASE WriteKeys
  <2>1. Running /\ todo' = SubSeq(todo, 2, Len(todo)) /\ todo[1] = "keys"
    BY <1>6, AtHead DEF WriteKeys, Op
  <2>2. 1 < Len(todo)
    BY <2>1, AtHead DEF TodoInv, Queue
  <2>3. /\ Queue(command, todo') /\ GoesOn(todo')
        /\ secret' \/ NoteLater(todo')
    <3>1. 1 \in Nat \ {0} /\ 1 + 1 = 2 /\ GoesOn(todo) /\ Queue(command, todo) /\ ~(Len(todo) <= 1)
      BY <2>1, <2>2, AtHead DEF TodoInv
    <3> QED
      BY <1>6, <2>1, <3>1, Skipped DEF TodoInv, WriteKeys
  <2> QED
    BY <1>6, <2>1, <2>3 DEF TodoInv, WriteKeys, KeysRemoved, Running
<1>7. CASE EvalLine
  BY <1>7, Stays DEF EvalLine
<1>8. CASE EvalExits
  BY <1>8, Stays DEF EvalExits
<1>9. CASE Evaluated
  BY <1>9, Done DEF Evaluated, Op
<1>10. CASE Run
  <2>1. Head(todo) # "secret"
    BY <1>10 DEF Run, Plain, Elsewhere, OnTarget
  <2> QED
    BY <1>10, <2>1, Done DEF Run
<1>11. CASE Ask
  <2>1. Running /\ Head(todo) = "ask" /\ UNCHANGED <<command, secret>>
    BY <1>11 DEF Ask, Op
  <2>2. CASE Continue(Tail(todo))
    BY <2>1, <2>2, Done
  <2>3. CASE Continue(<< >>)
    <3>1. Len(todo) \in Nat \ {0} /\ todo[1] = "ask" /\ Len(todo) >= Len(todo)
      BY <2>1, AtHead
    <3>2. Continue(SubSeq(todo, Len(todo) + 1, Len(todo)))
      <4>1. SubSeq(todo, Len(todo) + 1, Len(todo)) = << >>
        BY <3>1, SubSeqEmpty
      <4> QED
        BY <2>3, <4>1 DEF Continue
    <3>3. todo[1] \notin Setup
      BY <3>1 DEF Setup
    <3> QED
      BY <2>1, <3>1, <3>2, <3>3, Proceeds
  <2> QED
    BY <1>11, <2>2, <2>3 DEF Ask
<1>12. CASE Copy
  BY <1>12, Done DEF Copy, Op
<1>13. CASE DialTarget
  BY <1>13, Stays DEF DialTarget
<1>14. CASE OverSSH
  <2>1. Running /\ UNCHANGED <<command, secret>> /\ Head(todo) \in {"check", "apply"}
    BY <1>14 DEF OverSSH, Op
  <2>2. CASE Continue(Tail(todo))
    BY <2>1, <2>2, Done
  <2>3. ASSUME Head(todo) = "apply", NEW n \in 1 .. 3,
               Continue(SubSeq(todo, n + 1, Len(todo)))
        PROVE  TodoInv'
    <3>1. todo[1] = "apply" /\ todo[1] \in Allowed(command) \cup Setup
      BY <2>1, <2>3, AtHead
    <3>2. todo[1] \notin Setup /\ command.kind # "diff"
      BY <3>1 DEF Setup, Allowed
    <3>3. n \in Nat \ {0}
      OBVIOUS
    <3> QED
      BY <2>1, <2>3, <3>2, <3>3, Proceeds
  <2> QED
    BY <1>14, <2>2, <2>3 DEF OverSSH, Op
<1>15. CASE Reboot
  BY <1>15, Stays DEF Reboot
<1>16. CASE RebootHangs
  BY <1>16, Stays DEF RebootHangs
<1>17. CASE RebootFails
  BY <1>17, Stays DEF RebootFails
<1>18. CASE Rebooted
  <2>1. CASE Continue(Tail(todo))
    BY <1>18, <2>1, Done DEF Rebooted, Op
  <2>2. CASE End("failed") /\ UNCHANGED todo
    BY <1>18, <2>2, Ends DEF Rebooted, End
  <2> QED
    BY <1>18, <2>1, <2>2 DEF Rebooted
<1>19. CASE NoSuchHost
  BY <1>19, Ends DEF NoSuchHost, End
<1>20. CASE Fails
  <2>1. Running /\ UNCHANGED <<command, secret>>
    BY <1>20 DEF Fails
  <2>2. CASE Op("keys")
    <3>1. UNCHANGED todo /\ result' = "failed"
      BY <1>20, <2>2 DEF Fails, Op
    <3>2. todo[1] = "keys"
      BY <2>1, <2>2, AtHead DEF Op
    <3>3. 2 \in DOMAIN todo /\ todo[2] = "known_hosts"
      BY <2>1, <3>2, AtHead DEF TodoInv, Queue
    <3>4. InSetup
      BY <3>3 DEF InSetup
    <3> QED
      BY <2>1, <3>1, <3>4, Ends
  <2>3. CASE ~Op("keys") /\ Op("secret") /\ command.kind = "apply-local"
    <3>1. Continue(SubSeq(todo, 2 + 1, Len(todo)))
      BY <1>20, <2>3 DEF Fails
    <3>2. todo[1] \notin Setup /\ 2 \in Nat \ {0}
      BY <2>1, <2>3, AtHead DEF Op, Setup
    <3>3. command.kind # "diff"
      BY <2>3
    <3> QED
      BY <2>1, <3>1, <3>2, <3>3, Proceeds
  <2>4. CASE ~Op("keys") /\ ~(Op("secret") /\ command.kind = "apply-local")
    <3>1. End("failed") /\ UNCHANGED todo
      BY <1>20, <2>4 DEF Fails
    <3> QED
      BY <2>1, <3>1, Ends DEF End
  <2> QED
    BY <2>2, <2>3, <2>4
<1>21. CASE Killed
  BY <1>21, Ends DEF Killed
<1>22. CASE HostSteps
  BY <1>22, Stays DEF HostSteps
<1>23. CASE CertificateExpires
  BY <1>23, Stays DEF CertificateExpires
<1>24. CASE AgentChanges
  BY <1>24, Stays DEF AgentChanges
<1>25. CASE UNCHANGED sessionVars
  BY <1>25, Stays DEF sessionVars
<1> QED
  BY <1>1, <1>2, <1>3, <1>4, <1>5, <1>6, <1>7, <1>8, <1>9, <1>10, <1>11, <1>12, <1>13, <1>14,
     <1>15, <1>16, <1>17, <1>18, <1>19, <1>20, <1>21, <1>22, <1>23, <1>24, <1>25
  DEF SessionNext, Work

-----------------------------------------------------------------------------
(* The evaluation, what Vault is told, and the reboot.                       *)

EvalInv ==
    /\ child = "done" => got = Attributes
    /\ PlanIsComplete

LEMMA NextEval == TodoInv /\ EvalInv /\ [SessionNext]_sessionVars => EvalInv'
<1> SUFFICES ASSUME TodoInv, EvalInv, [SessionNext]_sessionVars PROVE EvalInv'
  OBVIOUS
<1> USE DEF process, caches, eval
<1>1. UNCHANGED command
  BY DEF SessionNext, Work, Client, GetSecret, CreateNote, SetUpStack, Up, WriteKeys, EvalLine,
         EvalExits, Evaluated, Run, Ask, Copy, DialTarget, OverSSH, Reboot, RebootHangs,
         RebootFails, Rebooted, NoSuchHost, Fails, Killed, HostSteps, CertificateExpires,
         AgentChanges, sessionVars
<1>2. Attributes' = Attributes /\ Wanted' = Wanted
  BY <1>1 DEF Attributes, Wanted
<1>3. CASE EvalLine
  BY <1>2, <1>3 DEF EvalLine, EvalInv, PlanIsComplete
<1>4. CASE EvalExits
  BY <1>2, <1>4 DEF EvalExits, EvalInv, PlanIsComplete
<1>5. CASE Evaluated
  <2>1. got = Attributes
    BY <1>5 DEF Evaluated, EvalInv
  <2>2. Wanted \subseteq Hosts
    BY DEF TodoInv, Commands, Wanted
  <2>3. (got \cap Hosts) \ Unphased = Wanted \ Unphased
    BY <2>1, <2>2, SessionAssumption DEF Attributes
  <2> QED
    BY <1>2, <1>5, <2>1, <2>3 DEF Evaluated, EvalInv, PlanIsComplete
<1>6. CASE ~EvalLine /\ ~EvalExits /\ ~Evaluated
  <2>1. UNCHANGED eval
    BY <1>6 DEF SessionNext, Work, Client, GetSecret, CreateNote, SetUpStack, Up, WriteKeys,
         Run, Ask, Copy, DialTarget, OverSSH, Reboot, RebootHangs, RebootFails, Rebooted,
         NoSuchHost, Fails, Killed, HostSteps, CertificateExpires, AgentChanges, sessionVars
  <2> QED
    BY <1>2, <2>1 DEF EvalInv, PlanIsComplete
<1> QED
  BY <1>3, <1>4, <1>5, <1>6

LEMMA NextNote == TodoInv /\ NoteHasToken /\ [SessionNext]_sessionVars => NoteHasToken'
<1> SUFFICES ASSUME TodoInv, NoteHasToken, [SessionNext]_sessionVars PROVE NoteHasToken'
  OBVIOUS
<1> USE DEF process, caches, eval
<1>1. ASSUME Op("note") PROVE NoteTokens = {"token"}
  <2>1. todo[1] = "note" /\ Len(todo) \in Nat \ {0}
    BY <1>1, AtHead DEF Op
  <2>2. secret
    BY <2>1 DEF TodoInv, NoteLater
  <2> QED
    BY <2>2 DEF NoteTokens
<1>2. CASE Fails
  <2>1. note' \in IF Op("note") THEN {note} \cup NoteTokens ELSE {note}
    BY <1>2 DEF Fails
  <2> QED
    BY <1>1, <2>1 DEF NoteHasToken
<1>3. CASE CreateNote
  BY <1>1, <1>3 DEF CreateNote, NoteHasToken
<1>4. CASE ~Fails /\ ~CreateNote
  <2>1. UNCHANGED note
    BY <1>4 DEF SessionNext, Work, Client, GetSecret, SetUpStack, Up, WriteKeys, EvalLine,
         EvalExits, Evaluated, Run, Ask, Copy, DialTarget, OverSSH, Reboot, RebootHangs,
         RebootFails, Rebooted, NoSuchHost, Killed, HostSteps, CertificateExpires, AgentChanges,
         sessionVars
  <2> QED
    BY <2>1 DEF NoteHasToken
<1> QED
  BY <1>2, <1>3, <1>4

\* Pulumi is run with the roles of all hosts or not at all.
LEMMA UpForAll == ASSUME TodoInv, Op("up") PROVE Roles = Hosts \ Unphased
<1>1. "up" \in Allowed(command) \cup Setup
  BY AtHead DEF Op
<1>2. command.kind = "deploy" => command.named = {}
  BY <1>1 DEF Allowed, Setup
<1> QED
  BY <1>2 DEF Roles, Wanted

\* Reboot's state is changed by Reboot's own steps; the others count faults.
LEMMA NextReboot == RebootInv /\ [SessionNext]_sessionVars => RebootInv'
<1> SUFFICES ASSUME RebootInv, [SessionNext]_sessionVars PROVE RebootInv'
  OBVIOUS
<1> USE DEF process, caches, eval
<1>1. \/ [Next]_vars
      \/ UNCHANGED <<host, conn, oldID, pc, waited, cert>> /\ (Fault \/ UNCHANGED faults)
  <2>1. CASE EvalExits
    BY <2>1 DEF EvalExits
  <2>2. CASE Fails
    BY <2>2 DEF Fails
  <2>3. CASE Killed \/ AgentChanges
    BY <2>3 DEF Killed, AgentChanges
  <2>4. CASE DialTarget \/ Reboot \/ RebootHangs \/ RebootFails
    BY <2>4 DEF DialTarget, Reboot, RebootHangs, RebootFails, Next, Step
  <2>5. CASE HostSteps \/ CertificateExpires
    BY <2>5 DEF HostSteps, CertificateExpires, Next
  <2>6. CASE UNCHANGED vars
    BY <2>6
  <2> QED
    BY <2>1, <2>2, <2>3, <2>4, <2>5, <2>6 DEF SessionNext, Work, Client, GetSecret, CreateNote,
       SetUpStack, Up, WriteKeys, EvalLine, Evaluated, Run, Ask, Copy, OverSSH, Rebooted,
       NoSuchHost, sessionVars
<1>2. CASE [Next]_vars
  BY <1>2, NextRebootInv
<1>3. CASE UNCHANGED <<host, conn, oldID, pc, waited, cert>> /\ (Fault \/ UNCHANGED faults)
  BY <1>3, RebootAssumption DEF RebootInv, TypeOK, OkMeansRebooted, Fault
<1> QED
  BY <1>1, <1>2, <1>3

-----------------------------------------------------------------------------
SessionInv == TodoInv /\ EvalInv /\ NoteHasToken /\ RebootInv

LEMMA SessionInvariant == SessionSpec => []SessionInv
<1>1. SessionInit => SessionInv
  <2>1. SessionInit => TodoInv
    BY InitTodo
  <2>2. SessionInit => EvalInv
    BY DEF SessionInit, EvalInv, PlanIsComplete
  <2>3. SessionInit => NoteHasToken
    BY SessionAssumption DEF SessionInit, NoteHasToken
  <2>4. SessionInit => RebootInv
    BY InitRebootInv DEF SessionInit
  <2> QED
    BY <2>1, <2>2, <2>3, <2>4 DEF SessionInv
<1>2. SessionInv /\ [SessionNext]_sessionVars => SessionInv'
  BY NextTodo, NextEval, NextNote, NextReboot DEF SessionInv
<1> QED
  BY <1>1, <1>2, PTL DEF SessionSpec

\* Whatever the command, and however it ends, no private key is left on disk,
\* but by a process that was killed or by GenerateConfig failing half-way.
THEOREM KeysAlwaysRemoved == SessionSpec => []KeysRemoved
<1>1. SessionInv => KeysRemoved
  BY DEF SessionInv, TodoInv
<1> QED
  BY SessionInvariant, <1>1, PTL

\* EvalNodes returns no plan that lacks a host: the exit status of
\* nix-eval-jobs is what it hangs on.
THEOREM PlanAlwaysComplete == SessionSpec => []PlanIsComplete
<1>1. SessionInv => PlanIsComplete
  BY DEF SessionInv, EvalInv
<1> QED
  BY SessionInvariant, <1>1, PTL

\* No command takes the role in Vault away from a host of plans.nix, whichever
\* hosts it names, and however much Pulumi did before it failed or was killed.
THEOREM RolesAlwaysKept == SessionSpec => RolesKept
<1>1. SessionInv /\ [SessionNext]_sessionVars =>
          [infra \cap (Hosts \ Unphased) \subseteq infra']_sessionVars
  <2> SUFFICES ASSUME TodoInv, [SessionNext]_sessionVars
               PROVE  infra \cap (Hosts \ Unphased) \subseteq infra'
    BY DEF SessionInv
  <2> USE DEF process, caches, eval
  <2>1. CASE Up
    BY <2>1, UpForAll DEF Up
  <2>2. CASE Fails \/ Killed
    <3>1. infra' \in IF Op("up") THEN Partly(Roles) ELSE {infra}
      BY <2>2 DEF Fails, Killed
    <3> QED
      BY <3>1, UpForAll DEF Partly
  <2>3. CASE ~Up /\ ~Fails /\ ~Killed
    <3>1. UNCHANGED infra
      BY <2>3 DEF SessionNext, Work, Client, GetSecret, CreateNote, SetUpStack, WriteKeys,
           EvalLine, EvalExits, Evaluated, Run, Ask, Copy, DialTarget, OverSSH, Reboot,
           RebootHangs, RebootFails, Rebooted, NoSuchHost, HostSteps, CertificateExpires,
           AgentChanges, sessionVars
    <3> QED
      BY <3>1
  <2> QED
    BY <2>1, <2>2, <2>3
<1> QED
  BY SessionInvariant, <1>1, PTL DEF SessionSpec, RolesKept

\* In no command is the note posted before the secret was read with success.
THEOREM NoteAlwaysHasToken == SessionSpec => []NoteHasToken
<1>1. SessionInv => NoteHasToken
  BY DEF SessionInv
<1> QED
  BY SessionInvariant, <1>1, PTL

\* Within a command, with a connection that earlier operations made, Reboot
\* still succeeds only after the host booted.
THEOREM RebootSoundInSession == SessionSpec => []OkMeansRebooted
<1>1. SessionInv => OkMeansRebooted
  BY DEF SessionInv, RebootInv
<1> QED
  BY SessionInvariant, <1>1, PTL

=============================================================================
