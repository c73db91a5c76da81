------------------------------ MODULE SpiffeCreds ------------------------------
(***************************************************************************)
(* spiffe-creds: units read their credentials from a socket that systemd   *)
(* keeps; the helper behind it is started by a connection, logs in to      *)
(* Vault, looks each credential up, and exits when nobody has asked for a  *)
(* while.  A connection waits in the socket's backlog, is accepted by one  *)
(* goroutine, handed over a channel to another, and served by a third; it  *)
(* ends with the secret, or closed without it.                             *)
(*                                                                         *)
(* Text is a sequence of words, "_" and "/".                               *)
(***************************************************************************)
EXTENDS Integers, Sequences, FiniteSets, SequencesExt

CONSTANTS
    Client,
    None,
    Service,        \* the service of the helper, in --path prod/services/<Service>
    Unit, Name,     \* [Client -> ...]: the unit that asks, and for which name
    Aliases,        \* what SECRET_ALIASES may be: from a unit and a name to text
    Wants,          \* [Client -> ...]: the path in Service that is meant
    Stored,         \* the secrets Vault has, by their cleaned paths
    IdleAfter,      \* minutes without connections before the helper exits
    RenewEvery,     \* minutes between logins
    LookupMax       \* minutes Vault's client takes at most

ASSUME SpiffeCredsAssumption ==
    /\ None \notin Client \cup Stored
    /\ IdleAfter \in Nat /\ RenewEvery \in Nat
    /\ LookupMax \in 0 .. IdleAfter - 1

VARIABLES
    helper,     \* the process
    acceptor,   \* the goroutine in Accept, sending, or gone
    dispatcher, \* the one that takes from the channel
    why,        \* what is stopping the helper
    idle,       \* minutes the dispatcher has waited
    since,      \* minutes since the last login
    backlog,    \* the connections not accepted
    conn,       \* where each client's connection is
    age,        \* minutes its lookup has taken
    answer,     \* the secret it has got
    token,      \* the Vault client has a token
    vault, agent,
    aliases     \* SECRET_ALIASES

process == <<helper, acceptor, dispatcher, why>>
clock == <<idle, since, age>>
clients == <<backlog, conn, answer>>
world == <<vault, agent, aliases>>
vars == <<process, clock, clients, token, world>>

Init ==
    /\ helper = "stopped"
    /\ acceptor = "gone"
    /\ dispatcher = "gone"
    /\ why = "none"
    /\ idle = 0
    /\ since = 0
    /\ backlog = << >>
    /\ conn = [c \in Client |-> "closed"]
    /\ age = [c \in Client |-> 0]
    /\ answer = [c \in Client |-> None]
    /\ token = FALSE
    /\ vault \in {"up", "down"}
    /\ agent \in {"up", "down"}
    /\ aliases \in Aliases

At(place) == {c \in Client : conn[c] = place}

\* Served or not, these connections are closed.
Closed(cs) == conn' = [c \in Client |-> IF c \in cs THEN "closed" ELSE conn[c]]

-----------------------------------------------------------------------------
(* Names. *)

\* secretName: the service, "_", and the path with "__" for "/".
SecretName(path) ==
    <<Service, "_">> \o FlattenSeq([i \in DOMAIN path |->
                            IF path[i] = "/" THEN <<"_", "_">> ELSE <<path[i]>>])

\* strings.ReplaceAll(s, "__", "/").
Unescape(s) ==
    LET rest[i \in 1 .. Len(s) + 2] ==
            IF i > Len(s) THEN << >>
            ELSE IF i < Len(s) /\ s[i] = "_" /\ s[i + 1] = "_" THEN <<"/">> \o rest[i + 2]
            ELSE <<s[i]>> \o rest[i + 1]
    IN rest[1]

Slash(x) == x = "/"

\* The segments of a text, between the "/".
Segments(text) ==
    LET from[i \in 1 .. Len(text) + 1] ==
            LET cut == SelectInSubSeq(text, i, Len(text), Slash)
            IN IF cut = 0 THEN <<SubSeq(text, i, Len(text))>>
               ELSE <<SubSeq(text, i, cut - 1)>> \o from[cut + 1]
    IN from[1]

\* path.Join of the service's directory and this text, cleaned from its end: an
\* empty segment and "." are dropped, and ".." takes away a segment before it.
Join(text) ==
    LET segs == << <<"prod">>, <<"services">>, <<Service>> >> \o Segments(text)
        upto[i \in 0 .. Len(segs), up \in 0 .. Len(segs)] ==
            IF i = 0 THEN [k \in 1 .. up |-> <<"..">>]
            ELSE IF segs[i] \in {<< >>, <<".">>} THEN upto[i - 1, up]
            ELSE IF segs[i] = <<"..">> THEN upto[i - 1, up + 1]
            ELSE IF up > 0 THEN upto[i - 1, up - 1]
            ELSE Append(upto[i - 1, 0], segs[i])
    IN upto[Len(segs), 0]

\* The first "_" of a name ends the service; what follows is a path.
OfService(name) == Len(name) > 1 /\ name[1] = Service /\ name[2] = "_"
PathOf(name) == Unescape(SubSeq(name, 3, Len(name)))

ResolvePath(name) == IF OfService(name) THEN Join(PathOf(name)) ELSE None

\* The first "/" of an alias ends the service.
ResolveAlias(text) ==
    LET cut == SelectInSeq(text, Slash)
    IN IF cut > 0 /\ SubSeq(text, 1, cut - 1) = <<Service>>
       THEN Join(SubSeq(text, cut + 1, Len(text)))
       ELSE None

\* Seeded fault: aliases are looked up by name alone.
FindAnyUnit(as, c) ==
    IF \E k \in DOMAIN as : k[2] = Name[c]
    THEN ResolveAlias(as[CHOOSE k \in DOMAIN as : k[2] = Name[c]])
    ELSE ResolvePath(Name[c])

\* The name that an alias replaces is not resolved itself, even if the alias is
\* for another service.
Find(as, c) ==
    IF <<Unit[c], Name[c]>> \in DOMAIN as
    THEN ResolveAlias(as[<<Unit[c], Name[c]>>])
    ELSE ResolvePath(Name[c])

\* Find, tabulated.
Found == [as \in Aliases |-> [c \in Client |-> Find(as, c)]]

Resolve(c) == Found[aliases][c]

\* The alias is the service and no more: there is no second part to index.
Panics(c) ==
    /\ <<Unit[c], Name[c]>> \in DOMAIN aliases
    /\ aliases[<<Unit[c], Name[c]>>] = <<Service>>

-----------------------------------------------------------------------------
(* The clients, and systemd. *)

Connect(c) ==
    /\ conn[c] = "closed"
    /\ conn' = [conn EXCEPT ![c] = "backlog"]
    /\ backlog' = Append(backlog, c)
    /\ answer' = [answer EXCEPT ![c] = None]
    /\ UNCHANGED <<process, clock, token, world>>

Activate ==
    /\ helper = "stopped"
    /\ backlog # << >>
    /\ helper' = "starting"
    /\ UNCHANGED <<acceptor, dispatcher, why, clock, clients, token, world>>

\* newVaultClient waits for the agent, then logs in; that the login failed is
\* not noticed.
Start ==
    /\ helper = "starting"
    /\ agent = "up"
    /\ helper' = "running"
    /\ acceptor' = "accept"
    /\ dispatcher' = "select"
    /\ token' = (vault = "up")
    /\ idle' = 0
    /\ since' = 0
    /\ UNCHANGED <<why, age, clients, world>>

\* systemd gives a helper up that does not get ready.
StartTimeout ==
    /\ helper = "starting"
    /\ agent = "down"
    /\ helper' = "stopped"
    /\ UNCHANGED <<acceptor, dispatcher, why, clock, clients, token, world>>

\* The context is cancelled by SIGTERM.
Terminate ==
    /\ helper = "running"
    /\ helper' = "stopping"
    /\ why' = "signal"
    /\ UNCHANGED <<acceptor, dispatcher, clock, clients, token, world>>

\* With the process go the connections it has accepted.  The socket outlives
\* it, but is restarted along with a helper that is stopped.
ProcessEnds ==
    /\ helper' = "stopped"
    /\ acceptor' = "gone"
    /\ dispatcher' = "gone"
    /\ token' = FALSE
    /\ IF why = "signal"
       THEN Closed(Client) /\ backlog' = << >>
       ELSE Closed(Client \ At("backlog")) /\ UNCHANGED backlog
    /\ why' = "none"
    /\ idle' = 0
    /\ since' = 0
    /\ age' = [c \in Client |-> 0]
    /\ UNCHANGED <<answer, world>>

\* Run returns.
Exit == helper = "stopping" /\ ProcessEnds

-----------------------------------------------------------------------------
(* The goroutines. *)

\* Accept is not interrupted: it may take one connection more.
Accept ==
    /\ acceptor = "accept"
    /\ backlog # << >>
    /\ acceptor' = "send"
    /\ conn' = [conn EXCEPT ![Head(backlog)] = "accepted"]
    /\ backlog' = Tail(backlog)
    /\ UNCHANGED <<helper, dispatcher, why, clock, answer, token, world>>

\* connCh has room for one.
Send ==
    /\ acceptor = "send"
    /\ At("queued") = {}
    /\ conn' = [c \in Client |-> IF conn[c] = "accepted" THEN "queued" ELSE conn[c]]
    /\ acceptor' = IF helper = "running" THEN "accept" ELSE "gone"
    /\ UNCHANGED <<helper, dispatcher, why, clock, backlog, answer, token, world>>

\* Seeded fault: the ten minutes are counted from the start.
DispatchOneTimer(c) ==
    /\ dispatcher = "select"
    /\ conn[c] = "queued"
    /\ conn' = [conn EXCEPT ![c] = "handled"]
    /\ UNCHANGED <<process, clock, backlog, answer, token, world>>

\* The select may choose a connection although the context is done, or the ten
\* minutes are over.
Dispatch(c) ==
    /\ dispatcher = "select"
    /\ conn[c] = "queued"
    /\ conn' = [conn EXCEPT ![c] = "handled"]
    /\ idle' = 0
    /\ UNCHANGED <<process, since, age, backlog, answer, token, world>>

\* Seeded fault: the dispatcher returns and leaves the process alone.
IdleReturn ==
    /\ dispatcher = "select"
    /\ idle = IdleAfter
    /\ dispatcher' = "gone"
    /\ UNCHANGED <<helper, acceptor, why, clock, clients, token, world>>

IdleExit ==
    /\ dispatcher = "select"
    /\ idle = IdleAfter
    /\ dispatcher' = "gone"
    /\ IF helper = "running" THEN helper' = "stopping" /\ why' = "idle"
       ELSE UNCHANGED <<helper, why>>
    /\ UNCHANGED <<acceptor, clock, clients, token, world>>

Cancelled ==
    /\ dispatcher = "select"
    /\ helper = "stopping"
    /\ dispatcher' = "gone"
    /\ UNCHANGED <<helper, acceptor, why, clock, clients, token, world>>

\* handleConn: the name is resolved and the secret read.
Answer(c) ==
    /\ conn[c] = "handled"
    /\ helper = "running"
    /\ ~Panics(c)
    /\ Resolve(c) \in Stored
    /\ token /\ vault = "up"
    /\ answer' = [answer EXCEPT ![c] = Resolve(c)]
    /\ Closed({c})
    /\ age' = [age EXCEPT ![c] = 0]
    /\ UNCHANGED <<process, idle, since, backlog, token, world>>

\* No such name or secret, no token, no answer from Vault, or the context done:
\* the connection is closed without a word.
NoAnswer(c) ==
    /\ conn[c] = "handled"
    /\ ~Panics(c)
    /\ helper # "running" \/ Resolve(c) \notin Stored \/ ~token \/ vault = "down"
    /\ Closed({c})
    /\ age' = [age EXCEPT ![c] = 0]
    /\ UNCHANGED <<process, idle, since, backlog, answer, token, world>>

\* A panic in one goroutine ends the process, and everybody's lookups.
Panic(c) ==
    /\ conn[c] = "handled"
    /\ Panics(c)
    /\ ProcessEnds

\* Seeded fault: a login that fails is the last.
RenewOrEnd ==
    /\ helper = "running"
    /\ since = RenewEvery
    /\ agent = "up"
    /\ IF vault = "up" THEN token' = TRUE /\ since' = 0
       ELSE since' = RenewEvery + 1 /\ UNCHANGED token
    /\ UNCHANGED <<process, idle, age, clients, world>>

\* updateVaultToken waits for the agent; a login that fails leaves the token.
Renew ==
    /\ helper = "running"
    /\ since = RenewEvery
    /\ agent = "up"
    /\ token' = (token \/ vault = "up")
    /\ since' = 0
    /\ UNCHANGED <<process, idle, age, clients, world>>

-----------------------------------------------------------------------------
\* A minute passes: no lookup takes longer than LookupMax, and what takes no
\* time is done before.
Tick ==
    /\ helper = "running"
    /\ \A c \in At("handled") : age[c] < LookupMax
    /\ At("accepted") \cup At("queued") = {}
    /\ acceptor = "accept" => backlog = << >>
    /\ dispatcher = "select" => idle < IdleAfter
    /\ idle' = IF dispatcher = "select" THEN idle + 1 ELSE idle
    /\ since' = IF since < RenewEvery THEN since + 1 ELSE since
    /\ age' = [c \in Client |-> IF conn[c] = "handled" THEN age[c] + 1 ELSE age[c]]
    /\ UNCHANGED <<process, clients, token, world>>

WorldChanges ==
    /\ \/ vault' = (IF vault = "up" THEN "down" ELSE "up") /\ UNCHANGED agent
       \/ agent' = (IF agent = "up" THEN "down" ELSE "up") /\ UNCHANGED vault
    /\ UNCHANGED aliases
    /\ UNCHANGED <<process, clock, clients, token>>

Handle(c) == Answer(c) \/ NoAnswer(c) \/ Panic(c)

Next ==
    \/ \E c \in Client : Connect(c) \/ Dispatch(c) \/ Handle(c)
    \/ Activate \/ Start \/ StartTimeout \/ Terminate \/ Exit
    \/ Accept \/ Send \/ IdleExit \/ Cancelled \/ Renew \/ Tick \/ WorldChanges

Spec == Init /\ [][Next]_vars

\* systemd starts and the process exits; goroutines that can go on do, and a
\* start or a login that is possible again and again is made.
Fairness ==
    /\ WF_vars(Activate) /\ WF_vars(Exit) /\ SF_vars(Start) /\ SF_vars(Renew)
    /\ WF_vars(Accept) /\ WF_vars(Send) /\ WF_vars(IdleExit)
    /\ \A c \in Client : SF_vars(Dispatch(c)) /\ SF_vars(Handle(c))

FairSpec == Spec /\ Fairness

-----------------------------------------------------------------------------
\* No "_" stands before another, or before a "/": the paths that can be made
\* out again of the name secretName gives them.
Unambiguous(path) ==
    \A i \in 1 .. Len(path) - 1 : path[i] = "_" => path[i + 1] \notin {"_", "/"}

\* What a declaration has to say: an alias of the unit leads to the secret
\* meant, if it leads anywhere, and without one the unit asks under the name
\* that secretName makes of the path.
WellConfigured ==
    \A c \in Client, as \in Aliases :
        IF <<Unit[c], Name[c]>> \in DOMAIN as
        THEN ResolveAlias(as[<<Unit[c], Name[c]>>]) \in {Join(Wants[c]), None}
        ELSE /\ Wants[c] \in Seq(STRING) \ {<< >>}
             /\ Unambiguous(Wants[c])
             /\ Name[c] = SecretName(Wants[c])

\* What a unit gets is the secret its declaration means, whether it is asked
\* for under an alias of the unit or under the name systemd's module makes of
\* the path, and however many units are asking at the same time.
OwnAnswer == \A c \in Client : answer[c] # None => answer[c] = Join(Wants[c])

\* The helper never gives up for lack of connections while one is being
\* looked up: only connections that arrive at that very moment can be lost.
IdleExitHarmless == helper = "stopping" /\ why = "idle" => At("handled") = {}

\* Every connection is closed, with the secret or without, whatever happens to
\* the helper on the way, if only the agent is there in the end.
ConnectionEnds ==
    <>[](agent = "up") => \A c \in Client : conn[c] = "backlog" ~> conn[c] = "closed"

\* A login that failed is made good while the helper runs, and time passes.
TokenRecovers ==
    /\ []<><<Tick>>_vars
    /\ <>[](vault = "up" /\ agent = "up" /\ helper = "running")
    => <>[]token

=============================================================================
