------------------------- MODULE SpireProvisionProofs -------------------------
(* What spire-provision computes and leaves, for any entries, deployments    *)
(* and failures.                                                             *)
EXTENDS SpireProvision, FiniteSetTheorems, TLAPS

-----------------------------------------------------------------------------
(* The inductive invariant. *)

Compared == {"create", "update", "delete", "done"}

DiffType ==
    /\ before \in Seq(Entry) /\ after \in Seq(Entry)
    /\ i \in 1 .. Len(before) + 1 /\ j \in 1 .. Len(after) + 1
    /\ added \subseteq 1 .. Len(after)
    /\ updated \subseteq 1 .. Len(after)
    /\ unchanged \subseteq 1 .. Len(after)
    /\ removed \subseteq 1 .. Len(before)

TypeOK ==
    /\ DiffType
    /\ server \in SUBSET Entry /\ IsFiniteSet(server)
    /\ config \in Configs
    /\ pc \in {"list", "diff"} \cup Compared
    /\ refused \in BOOLEAN
    /\ deploys \in Nat /\ faults \in Nat

\* No two entries that entryCompare takes for one.
Distinct(entries) == \A x, y \in entries : x.key = y.key => x = y

\* The slices diffEntries merges: the configured entries may repeat a key, the
\* listed ones do not.
SlicesInv ==
    /\ \A m, n \in 1 .. Len(before) : m < n => before[m].key < before[n].key
    /\ \A m, n \in 1 .. Len(after) : m < n => after[m].key <= after[n].key
    /\ pc # "list" => Entries(after) = Configured

\* What is before the two positions was compared with all that could equal it.
FrontierInv ==
    /\ \A m \in 1 .. Len(before), n \in 1 .. Len(after) :
          /\ m < i /\ n >= j => before[m].key <= after[n].key
          /\ m >= i /\ n < j => after[n].key < before[m].key
          /\ m < i /\ before[m].key = after[n].key =>
                 \E k \in 1 .. j - 1 : after[k].key = before[m].key
    /\ pc \in Compared => Merged

Obsolete(m) ==
    /\ before[m].key \notin Keys(Entries(after))
    /\ before[m].key \in Token => \A n \in 1 .. Len(after) : after[n].key < before[m].key

\* The results so far are the exact ones, of the positions passed.
ResultsInv ==
    /\ \A n \in 1 .. Len(after) :
          /\ n \in added <=> n < j /\ ~Matched(n)
          /\ n \in updated <=> n < j /\ Matched(n) /\ after[n] \notin Entries(before)
          /\ n \in unchanged <=> n < j /\ Matched(n) /\ after[n] \in Entries(before)
    /\ \A m \in 1 .. Len(before) : m \in removed <=> m < i /\ Obsolete(m)

\* What the server holds after each batch: what was listed stays until the
\* configured entries are there.
Listed == Entries(before)

ServerInv ==
    /\ Distinct(server)
    /\ pc \in {"diff", "create", "update"} => Listed \subseteq server
    /\ pc \in {"diff", "create"} => \A x \in server : x \in Listed \/ x.key \in Token
    /\ pc \in {"update", "delete"} =>
           \A x \in server : x.key \in Keys(Listed) \cup Token \cup Keys(Configured)
    /\ pc = "delete" => Keys(Listed) \cap Keys(Configured) \subseteq Keys(server)
    /\ pc = "update" /\ ~refused =>
           \A n \in added : after[n] \in server /\ after[n].key \notin Keys(Listed)
    /\ pc = "delete" /\ ~refused => Configured \subseteq server
    /\ pc = "done" /\ ~refused => Provisioned

IInv == TypeOK /\ SlicesInv /\ FrontierInv /\ ResultsInv /\ ServerInv

-----------------------------------------------------------------------------
(* Slices. *)

\* The entries of a slice, by position.
LEMMA SliceEntries ==
    ASSUME NEW s \in Seq(Entry)
    PROVE  /\ Len(s) \in Nat /\ DOMAIN s = 1 .. Len(s)
           /\ \A n \in 1 .. Len(s) : s[n] \in Entry /\ s[n].key \in Key /\ s[n].key \in Nat
           /\ Entries(s) = {s[n] : n \in 1 .. Len(s)}
           /\ \A k : k \in Keys(Entries(s)) <=> \E n \in 1 .. Len(s) : s[n].key = k
  <1>1. Len(s) \in Nat /\ DOMAIN s = 1 .. Len(s) /\ \A n \in 1 .. Len(s) : s[n] \in Entry
    OBVIOUS
  <1>2. \A e \in Entry : e.key \in Key /\ e.key \in Nat
    BY EntryAssumption DEF Entry
  <1> QED
    BY <1>1, <1>2 DEF Entries, Keys

\* A finite set can be listed, and what lists it has each of its elements once.
LEMMA Listing ==
    ASSUME NEW S \in SUBSET Entry, IsFiniteSet(S), NEW s \in Listings(S)
    PROVE  /\ s \in Seq(Entry)
           /\ Entries(s) = S
           /\ \A m, n \in 1 .. Len(s) : m # n => s[m] # s[n]
  <1> DEFINE N == Cardinality(S)
  <1>1. N \in Nat /\ IsFiniteSet(1 .. N) /\ Cardinality(1 .. N) = N
    BY FS_CardinalityType, FS_Interval
  <1>2. s \in [1 .. N -> S] /\ \A m, n \in 1 .. N : m # n => s[m] # s[n]
    BY DEF Listings, Injection, IsInjective
  <1> HIDE DEF N
  <1>3. s \in Seq(Entry) /\ Len(s) = N /\ DOMAIN s = 1 .. N
    <2>1. s \in [1 .. N -> Entry]
      BY <1>2
    <2> QED BY <1>1, <2>1
  <1>4. s \in Injection(1 .. N, S)
    BY DEF Listings, N
  <1>5. s \in Surjection(1 .. N, S)
    BY <1>1, <1>4, FS_Injection DEF N
  <1>6. Entries(s) = S
    BY <1>3, <1>2, <1>5 DEF Surjection, Entries
  <1> QED
    BY <1>2, <1>3, <1>6

\* A reordered slice has the same entries.
LEMMA Reordering ==
    ASSUME NEW c \in Seq(Entry), NEW s \in Reorderings(c)
    PROVE  s \in Seq(Entry) /\ Entries(s) = Entries(c)
  <1> DEFINE D == 1 .. Len(c)
  <1>1. DOMAIN c = D /\ Len(c) \in Nat /\ \A n \in D : c[n] \in Entry
    OBVIOUS
  <1>2. PICK p \in Bijection(D, D) : s = [n \in D |-> c[p[n]]]
    BY <1>1 DEF Reorderings
  <1>3. p \in [D -> D] /\ \A d \in D : \E n \in D : p[n] = d
    BY DEF Bijection, Injection, Surjection
  <1>4. s \in [D -> Entry] /\ DOMAIN s = D
    BY <1>1, <1>2, <1>3
  <1>5. s \in Seq(Entry)
    BY <1>1, <1>4
  <1>6. ASSUME NEW d \in D PROVE \E n \in D : s[n] = c[d]
    BY <1>2, <1>3
  <1>7. ASSUME NEW n \in D PROVE \E d \in D : c[d] = s[n]
    BY <1>2, <1>3
  <1> HIDE DEF D
  <1> QED
    BY <1>1, <1>4, <1>5, <1>6, <1>7 DEF Entries

\* The entries of a batch are finitely many.
LEMMA BatchFinite ==
    ASSUME NEW s \in Seq(Entry), NEW batch \in SUBSET (1 .. Len(s))
    PROVE  IsFiniteSet(At(s, batch)) /\ At(s, batch) \subseteq Entry
  <1> DEFINE f == [n \in batch |-> s[n]]
  <1>1. IsFiniteSet(batch)
    <2>1. Len(s) \in Nat
      OBVIOUS
    <2>2. IsFiniteSet(1 .. Len(s))
      BY <2>1, FS_Interval
    <2> QED BY <2>2, FS_Subset
  <1>2. f \in Surjection(batch, At(s, batch))
    BY DEF Surjection, At
  <1> HIDE DEF f
  <1>3. IsFiniteSet(At(s, batch))
    BY <1>1, <1>2, FS_Surjection
  <1>4. \A n \in batch : s[n] \in Entry
    OBVIOUS
  <1> QED
    BY <1>3, <1>4 DEF At

-----------------------------------------------------------------------------
(* Types. *)

\* The slices a run starts from.
LEMMA Begun ==
    ASSUME TypeOK, Distinct(server), Begin(server, config)
    PROVE  /\ before' \in Seq(Entry) /\ Entries(before') = server
           /\ after' \in Seq(Entry) /\ Entries(after') = Configured
           /\ \A m, n \in 1 .. Len(before') : m < n => before'[m].key < before'[n].key
           /\ \A m, n \in 1 .. Len(after') : m < n => after'[m].key <= after'[n].key
  <1>1. /\ before' \in Listings(server) /\ Sorted(before')
        /\ after' \in Reorderings(config) /\ Sorted(after')
    BY DEF Begin
  <1>2. /\ before' \in Seq(Entry) /\ Entries(before') = server
        /\ \A m, n \in 1 .. Len(before') : m # n => before'[m] # before'[n]
    BY <1>1, Listing DEF TypeOK
  <1>3. after' \in Seq(Entry) /\ Entries(after') = Configured
    BY <1>1, Reordering, ProvisionAssumption DEF TypeOK, Configured
  <1>4. ASSUME NEW m \in 1 .. Len(before'), NEW n \in 1 .. Len(before'), m < n
        PROVE  before'[m].key < before'[n].key
    <2>1. before'[m] \in server /\ before'[n] \in server
      BY <1>2, SliceEntries
    <2>2. before'[m].key \in Nat /\ before'[n].key \in Nat
      BY <1>2, SliceEntries
    <2>3. before'[m].key # before'[n].key
      BY <1>2, <1>4, <2>1 DEF Distinct
    <2>4. before'[m].key <= before'[n].key
      BY <1>1, <1>2, <1>4, SliceEntries DEF Sorted
    <2> QED BY <2>2, <2>3, <2>4
  <1>5. ASSUME NEW m \in 1 .. Len(after'), NEW n \in 1 .. Len(after'), m < n
        PROVE  after'[m].key <= after'[n].key
    BY <1>1, <1>3, <1>5, SliceEntries DEF Sorted
  <1> QED
    BY <1>2, <1>3, <1>4, <1>5

\* Every change of the server keeps to entries, finitely many of them.
LEMMA BatchTypes ==
    ASSUME TypeOK
    PROVE  /\ \A b \in SUBSET added :
                 AfterCreate(b) \in SUBSET Entry /\ IsFiniteSet(AfterCreate(b))
           /\ \A b \in SUBSET updated :
                 AfterUpdate(b) \in SUBSET Entry /\ IsFiniteSet(AfterUpdate(b))
           /\ \A b \in SUBSET removed :
                 AfterDelete(b) \in SUBSET Entry /\ IsFiniteSet(AfterDelete(b))
  <1> USE DEF TypeOK, DiffType
  <1>1. ASSUME NEW b \in SUBSET added
        PROVE  AfterCreate(b) \in SUBSET Entry /\ IsFiniteSet(AfterCreate(b))
    <2>1. Creatable(b) \in SUBSET (1 .. Len(after))
      BY DEF Creatable
    <2>2. IsFiniteSet(At(after, Creatable(b))) /\ At(after, Creatable(b)) \subseteq Entry
      BY <2>1, BatchFinite
    <2> QED BY <2>2, FS_Union DEF AfterCreate
  <1>2. ASSUME NEW b \in SUBSET updated
        PROVE  AfterUpdate(b) \in SUBSET Entry /\ IsFiniteSet(AfterUpdate(b))
    <2>1. Updatable(b) \in SUBSET (1 .. Len(after))
      BY DEF Updatable
    <2>2. IsFiniteSet(At(after, Updatable(b))) /\ At(after, Updatable(b)) \subseteq Entry
      BY <2>1, BatchFinite
    <2> DEFINE kept == {x \in server : x.key \notin Keys(At(after, b))}
    <2>3. IsFiniteSet(kept) /\ kept \subseteq Entry
      BY FS_Subset
    <2>4. AfterUpdate(b) = kept \cup At(after, Updatable(b))
      BY DEF AfterUpdate
    <2> HIDE DEF kept
    <2>5. IsFiniteSet(kept \cup At(after, Updatable(b)))
      BY <2>2, <2>3, FS_Union
    <2> QED BY <2>2, <2>3, <2>4, <2>5
  <1>3. ASSUME NEW b \in SUBSET removed
        PROVE  AfterDelete(b) \in SUBSET Entry /\ IsFiniteSet(AfterDelete(b))
    BY FS_Subset DEF AfterDelete
  <1> QED
    BY <1>1, <1>2, <1>3

\* What a batch does besides changing the server.
LEMMA BatchAnswers ==
    ASSUME NEW some, NEW taken, NEW batch, NEW next,
           faults \in Nat, refused \in BOOLEAN, BatchDone(some, taken, batch, next)
    PROVE  faults' \in Nat /\ refused' \in BOOLEAN /\ pc' = next
  <1>1. faults' \in Nat
    BY DEF BatchDone
  <1>2. refused' \in BOOLEAN
    BY Zenon DEF BatchDone
  <1> QED
    BY <1>1, <1>2 DEF BatchDone

LEMMA SameDiff == DiffType /\ UNCHANGED diffVars => DiffType'
  BY DEF DiffType, diffVars, results

LEMMA NextType == TypeOK /\ Distinct(server) /\ [Next]_vars => TypeOK'
  <1> SUFFICES ASSUME TypeOK, Distinct(server), [Next]_vars PROVE TypeOK'
    OBVIOUS
  <1> USE SameDiff DEF TypeOK
  <1>1. CASE \E e \in Entry : CreateToken(e)
    <2>1. PICK e \in Entry : CreateToken(e)
      BY <1>1
    <2>2. IsFiniteSet(server')
      BY <2>1, FS_AddElement DEF CreateToken
    <2> QED BY <2>1, <2>2 DEF CreateToken
  <1>2. CASE List
    <2>1. /\ before' \in Seq(Entry) /\ after' \in Seq(Entry)
      BY <1>2, Begun DEF List
    <2>2. Len(before') \in Nat /\ Len(after') \in Nat
      BY <2>1
    <2>3. DiffType'
      BY <1>2, <2>1, <2>2 DEF List, Begin, DiffType
    <2> QED BY <1>2, <2>3 DEF List
  <1>3. CASE Diff
    <2>1. DiffType'
      <3>1. Len(before) \in Nat /\ Len(after) \in Nat
        BY DEF DiffType
      <3> USE <3>1 DEF DiffType, results, MoreBefore, MoreAfter
      <3>2. CASE Match
        <4>1. i \in 1 .. Len(before) /\ j \in 1 .. Len(after)
          BY <3>2 DEF Match
        <4>2. updated' \subseteq updated \cup {j} /\ unchanged' \subseteq unchanged \cup {j}
          BY <3>2 DEF Match
        <4>3. /\ UNCHANGED <<before, after, added, removed>>
              /\ i' = i + 1 /\ j' = j + 1
          BY <3>2 DEF Match
        <4> QED BY <4>1, <4>2, <4>3
      <3>3. CASE Remove
        BY <3>3 DEF Remove
      <3>4. CASE Add
        BY <3>4 DEF Add
      <3>5. CASE RemoveRest
        BY <3>5 DEF RemoveRest
      <3>6. CASE AddRest
        BY <3>6 DEF AddRest
      <3> QED BY <1>3, <3>2, <3>3, <3>4, <3>5, <3>6, SameDiff DEF Diff, Turn
    <2> QED BY <1>3, <2>1 DEF Diff, Compared
  <1>4. CASE Create
    <2>1. PICK some \in SUBSET added :
            /\ BatchDone(some, Creatable(added \ some), added, "update")
            /\ server' = AfterCreate(added \ some)
      BY <1>4 DEF Create
    <2>2. server' \in SUBSET Entry /\ IsFiniteSet(server')
      BY <2>1, BatchTypes
    <2>3. faults' \in Nat /\ refused' \in BOOLEAN /\ pc' \in Compared
      BY <2>1, BatchAnswers DEF Compared
    <2> QED BY <1>4, <2>2, <2>3 DEF Create
  <1>5. CASE Update
    <2>1. PICK some \in SUBSET updated :
            /\ BatchDone(some, Updatable(updated \ some), updated, "delete")
            /\ server' = AfterUpdate(updated \ some)
      BY <1>5 DEF Update
    <2>2. server' \in SUBSET Entry /\ IsFiniteSet(server')
      BY <2>1, BatchTypes
    <2>3. faults' \in Nat /\ refused' \in BOOLEAN /\ pc' \in Compared
      BY <2>1, BatchAnswers DEF Compared
    <2> QED BY <1>5, <2>2, <2>3 DEF Update
  <1>6. CASE Delete
    <2>1. PICK some \in SUBSET removed :
            /\ BatchDone(some, removed \ some, removed, "done")
            /\ server' = AfterDelete(removed \ some)
      BY <1>6 DEF Delete
    <2>2. server' \in SUBSET Entry /\ IsFiniteSet(server')
      BY <2>1, BatchTypes
    <2>3. faults' \in Nat /\ refused' \in BOOLEAN /\ pc' \in Compared
      BY <2>1, BatchAnswers DEF Compared
    <2> QED BY <1>6, <2>2, <2>3 DEF Delete
  <1>7. CASE Fail
    <2>1. server' \in SUBSET Entry /\ IsFiniteSet(server')
      BY <1>7, BatchTypes DEF Fail
    <2> QED BY <1>7, <2>1 DEF Fail
  <1>8. CASE \E new \in Configs : Deploy(new)
    BY <1>8 DEF Deploy
  <1>9. CASE UNCHANGED vars
    BY <1>9 DEF vars
  <1> QED
    BY <1>1, <1>2, <1>3, <1>4, <1>5, <1>6, <1>7, <1>8, <1>9 DEF Next, Running

-----------------------------------------------------------------------------
(* The merge. *)

\* The keys of the two slices, as the turns of the merge compare them.
LEMMA SliceKeys ==
    ASSUME TypeOK
    PROVE  /\ Len(before) \in Nat /\ Len(after) \in Nat
           /\ DOMAIN before = 1 .. Len(before) /\ DOMAIN after = 1 .. Len(after)
           /\ i \in Nat /\ j \in Nat
           /\ \A m \in 1 .. Len(before) : before[m] \in Entry /\ before[m].key \in Nat
           /\ \A n \in 1 .. Len(after) : after[n] \in Entry /\ after[n].key \in Nat
           /\ \A k : k \in Keys(Listed) <=> \E m \in 1 .. Len(before) : before[m].key = k
           /\ \A k : k \in Keys(Entries(after)) <=> \E n \in 1 .. Len(after) : after[n].key = k
  BY SliceEntries DEF TypeOK, DiffType, Listed

\* Entries that compare equal are matched, the first of the configured ones.
LEMMA MatchIsRight ==
    ASSUME TypeOK, SlicesInv, FrontierInv,
           MoreBefore, MoreAfter, before[i].key = after[j].key
    PROVE  /\ Matched(j)
           /\ after[j] \in Entries(before) <=> before[i].dns = after[j].dns
           /\ ~Obsolete(i)
  <1> USE SliceKeys
  <1>1. i \in 1 .. Len(before) /\ j \in 1 .. Len(after)
    BY DEF MoreBefore, MoreAfter, TypeOK, DiffType
  <1>2. First(j)
    BY <1>1 DEF FrontierInv, First
  <1>3. Matched(j) /\ ~Obsolete(i)
    BY <1>1, <1>2 DEF Matched, Obsolete, Listed
  <1>4. after[j] \in Entries(before) => before[i].dns = after[j].dns
    <2> SUFFICES ASSUME after[j] \in Entries(before) PROVE before[i].dns = after[j].dns
      OBVIOUS
    <2>1. PICK m \in 1 .. Len(before) : before[m] = after[j]
      BY DEF Entries
    <2>2. m = i
      BY <1>1, <2>1 DEF SlicesInv
    <2> QED BY <2>1, <2>2
  <1>5. before[i].dns = after[j].dns => after[j] \in Entries(before)
    <2>1. \A x, y \in Entry : x.key = y.key /\ x.dns = y.dns => x = y
      BY DEF Entry
    <2> QED BY <1>1, <2>1 DEF Entries
  <1> QED
    BY <1>3, <1>4, <1>5

\* A listed entry that is smaller than the next configured one has no equal,
\* and is not after all of them.
LEMMA RemoveIsRight ==
    ASSUME TypeOK, SlicesInv, FrontierInv,
           MoreBefore, MoreAfter, before[i].key < after[j].key
    PROVE  /\ before[i].key \notin Keys(Entries(after))
           /\ Obsolete(i) <=> before[i].key \notin Token
  <1> USE SliceKeys
  <1>1. i \in 1 .. Len(before) /\ j \in 1 .. Len(after)
    BY DEF MoreBefore, MoreAfter, TypeOK, DiffType
  <1>2. ASSUME NEW n \in 1 .. Len(after) PROVE after[n].key # before[i].key
    <2>1. CASE n < j
      BY <1>1, <2>1 DEF FrontierInv
    <2>2. CASE n >= j
      <3>1. after[j].key <= after[n].key
        BY <1>1, <2>2 DEF SlicesInv
      <3> QED BY <1>1, <3>1
    <2> QED BY <2>1, <2>2
  <1>3. before[i].key \notin Keys(Entries(after))
    BY <1>2
  <1>4. Obsolete(i) <=> before[i].key \notin Token
    BY <1>1, <1>3 DEF Obsolete
  <1> QED
    BY <1>3, <1>4

\* A configured entry that is smaller than the next listed one, or left when
\* there is none, has no match.
LEMMA AddIsRight ==
    ASSUME TypeOK, SlicesInv, FrontierInv, MoreAfter,
           MoreBefore => before[i].key > after[j].key
    PROVE  ~Matched(j)
  <1> USE SliceKeys
  <1>1. j \in 1 .. Len(after)
    BY DEF MoreAfter, TypeOK, DiffType
  <1> SUFFICES ASSUME Matched(j) PROVE FALSE
    OBVIOUS
  <1>2. PICK m \in 1 .. Len(before) : before[m].key = after[j].key
    BY DEF Matched, Listed
  <1>3. CASE m < i
    BY <1>1, <1>2, <1>3 DEF FrontierInv, Matched, First
  <1>4. CASE m >= i
    <2>1. i \in 1 .. Len(before) /\ before[i].key <= before[m].key
      BY <1>4 DEF SlicesInv, TypeOK, DiffType
    <2> QED BY <1>1, <1>2, <2>1 DEF MoreBefore
  <1> QED
    BY <1>3, <1>4

\* A listed entry that is left is after all the configured ones.
LEMMA RestIsRight ==
    ASSUME TypeOK, SlicesInv, FrontierInv, MoreBefore, ~MoreAfter
    PROVE  Obsolete(i) /\ before[i].key \notin Keys(Entries(after))
  <1> USE SliceKeys
  <1>1. i \in 1 .. Len(before)
    BY DEF MoreBefore, TypeOK, DiffType
  <1>2. \A n \in 1 .. Len(after) : after[n].key < before[i].key
    BY <1>1 DEF FrontierInv, MoreAfter
  <1>3. \A n \in 1 .. Len(after) : after[n].key # before[i].key
    BY <1>1, <1>2
  <1> QED
    BY <1>2, <1>3 DEF Obsolete

MergeInv == TypeOK /\ SlicesInv /\ FrontierInv /\ ResultsInv

\* Outside of List and Diff the slices and the results stay.
LEMMA OtherSteps ==
    ASSUME [Next]_vars
    PROVE  \/ List
           \/ Diff
           \/ /\ UNCHANGED diffVars
              /\ \/ pc' = "list"
                 \/ config' = config /\ pc \in Compared /\ pc' \in Compared
                 \/ config' = config /\ pc' = pc
  BY DEF Next, Running, CreateToken, Create, Update, Delete, BatchDone, Fail, Deploy,
         Compared, vars, diffVars, results

LEMMA DiffKeeps == Diff => UNCHANGED <<before, after, config>>
  BY DEF Diff, Turn, Match, Remove, Add, RemoveRest, AddRest, diffVars, results

LEMMA NextSlices ==
    TypeOK /\ Distinct(server) /\ SlicesInv /\ [Next]_vars => SlicesInv'
  <1> SUFFICES ASSUME TypeOK, Distinct(server), SlicesInv, [Next]_vars PROVE SlicesInv'
    OBVIOUS
  <1>1. CASE List
    <2>1. Begin(server, config) /\ config' = config
      BY <1>1 DEF List
    <2>2. Entries(after') = Entries(config)
      BY <2>1, Begun DEF Configured
    <2>3. (Entries(after) = Configured)'
      BY <2>1, <2>2 DEF Configured, Entries
    <2> QED BY <2>1, <2>3, Begun DEF SlicesInv
  <1>2. CASE Diff
    <2>1. UNCHANGED <<before, after, config>> /\ pc = "diff"
      BY <1>2, DiffKeeps DEF Diff
    <2>2. (Entries(after) = Configured)'
      BY <2>1 DEF SlicesInv, Configured, Entries
    <2> QED BY <2>1, <2>2 DEF SlicesInv
  <1>3. CASE /\ UNCHANGED diffVars
             /\ pc' = "list" \/ (config' = config /\ (pc # "list" \/ pc' = pc))
    <2>1. UNCHANGED <<before, after>>
      BY <1>3 DEF diffVars
    <2>2. pc' # "list" => (Entries(after) = Configured)'
      BY <1>3, <2>1 DEF SlicesInv, Configured, Entries
    <2> QED BY <2>1, <2>2 DEF SlicesInv
  <1> QED
    BY <1>1, <1>2, <1>3, OtherSteps DEF Compared

\* One turn moves the frontier past entries that were compared with each other.
LEMMA TurnFrontier ==
    ASSUME TypeOK, SlicesInv, FrontierInv, Turn, UNCHANGED <<before, after>>,
           NEW m \in 1 .. Len(before), NEW n \in 1 .. Len(after)
    PROVE  /\ m < i' /\ n >= j' => before[m].key <= after[n].key
           /\ m >= i' /\ n < j' => after[n].key < before[m].key
           /\ m < i' /\ before[m].key = after[n].key =>
                  \E k \in 1 .. j' - 1 : after[k].key = before[m].key
  <1> USE SliceKeys
  <1>1. /\ m < i /\ n >= j => before[m].key <= after[n].key
        /\ m >= i /\ n < j => after[n].key < before[m].key
        /\ m < i /\ before[m].key = after[n].key =>
               \E k \in 1 .. j - 1 : after[k].key = before[m].key
    BY DEF FrontierInv
  <1>2. /\ i < m => before[i].key < before[m].key
        /\ j < n => after[j].key <= after[n].key
    <2>1. i < m => i \in 1 .. Len(before)
      BY DEF TypeOK, DiffType
    <2>2. j < n => j \in 1 .. Len(after)
      BY DEF TypeOK, DiffType
    <2> QED BY <2>1, <2>2 DEF SlicesInv
  <1>3. j \in Nat \ {0} /\ i \in Nat \ {0}
    BY DEF TypeOK, DiffType
  <1> USE DEF MoreBefore, MoreAfter
  <1>4. CASE Match
    <2>1. i' = i + 1 /\ j' = j + 1 /\ before[i].key = after[j].key
          /\ i <= Len(before) /\ j <= Len(after)
      BY <1>4 DEF Match
    <2>2. before[i].key \in Nat /\ after[j].key \in Nat
      BY <1>3, <2>1
    <2>3. m < i' /\ n >= j' => before[m].key <= after[n].key
      BY <1>1, <1>2, <1>3, <2>1, <2>2
    <2>4. m >= i' /\ n < j' => after[n].key < before[m].key
      BY <1>1, <1>2, <1>3, <2>1, <2>2
    <2>5. ASSUME m < i', before[m].key = after[n].key
          PROVE  \E k \in 1 .. j' - 1 : after[k].key = before[m].key
      <3>1. CASE m = i
        <4>1. j \in 1 .. j' - 1
          BY <1>3, <2>1
        <4> QED BY <2>1, <3>1, <4>1
      <3>2. CASE m < i
        <4>1. PICK k \in 1 .. j - 1 : after[k].key = before[m].key
          BY <1>1, <2>5, <3>2
        <4>2. k \in 1 .. j' - 1
          BY <1>3, <2>1, <4>1
        <4> QED BY <4>1, <4>2
      <3> QED BY <1>3, <2>1, <2>5, <3>1, <3>2
    <2> QED BY <2>3, <2>4, <2>5
  <1>5. CASE Remove \/ RemoveRest
    <2>1. i' = i + 1 /\ j' = j /\ i <= Len(before) /\ before[i].key \in Nat
      BY <1>3, <1>5 DEF Remove, RemoveRest
    <2>2. before[i].key \notin Keys(Entries(after))
      BY <1>5, RemoveIsRight, RestIsRight DEF Remove, RemoveRest
    <2>3. m = i /\ n >= j => before[m].key <= after[n].key
      <3> SUFFICES ASSUME m = i, n >= j PROVE before[m].key <= after[n].key
        OBVIOUS
      <3>1. j <= Len(after) /\ after[j].key \in Nat /\ before[i].key < after[j].key
        BY <1>3, <1>5 DEF Remove, RemoveRest
      <3> QED BY <1>2, <1>3, <3>1
    <2>4. m = i => before[m].key # after[n].key
      BY <2>2
    <2> QED BY <1>1, <1>3, <2>1, <2>3, <2>4
  <1>6. CASE Add \/ AddRest
    <2>1. i' = i /\ j' = j + 1 /\ j <= Len(after) /\ after[j].key \in Nat
      BY <1>3, <1>6 DEF Add, AddRest
    <2>2. n = j /\ m >= i => after[n].key < before[m].key
      <3> SUFFICES ASSUME n = j, m >= i PROVE after[n].key < before[m].key
        OBVIOUS
      <3>1. i <= Len(before) /\ before[i].key \in Nat /\ after[j].key < before[i].key
        BY <1>3, <1>6 DEF Add, AddRest
      <3> QED BY <1>2, <1>3, <3>1
    <2>3. m < i /\ before[m].key = after[n].key =>
              \E k \in 1 .. j' - 1 : after[k].key = before[m].key
      <3>1. 1 .. j - 1 \subseteq 1 .. j' - 1
        BY <1>3, <2>1
      <3> QED BY <1>1, <3>1
    <2> QED BY <1>1, <1>3, <2>1, <2>2, <2>3
  <1> QED
    BY <1>4, <1>5, <1>6 DEF Turn

LEMMA NextFrontier ==
    TypeOK /\ SlicesInv /\ FrontierInv /\ [Next]_vars => FrontierInv'
  <1> SUFFICES ASSUME TypeOK, SlicesInv, FrontierInv, [Next]_vars PROVE FrontierInv'
    OBVIOUS
  <1>1. CASE List
    <2>1. i' = 1 /\ j' = 1 /\ pc' = "diff"
      BY <1>1 DEF List, Begin
    <2> QED BY <2>1 DEF FrontierInv, Compared
  <1>2. CASE Diff /\ Merged
    <2>1. UNCHANGED diffVars
      BY <1>2 DEF Diff
    <2> QED BY <1>2, <2>1 DEF FrontierInv, Merged, MoreBefore, MoreAfter, diffVars
  <1>3. CASE Diff /\ ~Merged
    <2>1. Turn /\ UNCHANGED <<before, after>> /\ pc' = "diff"
      BY <1>3, DiffKeeps DEF Diff
    <2> QED BY <2>1, TurnFrontier DEF FrontierInv, Compared
  <1>4. CASE /\ UNCHANGED diffVars
             /\ pc' = "list" \/ pc' = pc \/ pc \in Compared
    <2>1. UNCHANGED <<before, after, i, j>>
      BY <1>4 DEF diffVars
    <2>2. pc' \in Compared => Merged'
      BY <1>4, <2>1 DEF FrontierInv, Merged, MoreBefore, MoreAfter, Compared
    <2> QED BY <2>1, <2>2 DEF FrontierInv
  <1> QED
    BY <1>1, <1>2, <1>3, <1>4, OtherSteps

\* What a configured entry is found to be depends on the slices alone.
LEMMA SameFindings ==
    ASSUME UNCHANGED <<before, after>>
    PROVE  /\ \A n : Matched(n)' <=> Matched(n)
           /\ \A m : Obsolete(m)' <=> Obsolete(m)
           /\ \A n : (after[n] \in Entries(before))' <=> after[n] \in Entries(before)
  <1>1. Entries(before)' = Entries(before) /\ Entries(after)' = Entries(after)
    BY DEF Entries
  <1>2. \A n : First(n)' <=> First(n)
    BY DEF First
  <1> QED
    BY <1>1, <1>2 DEF Matched, Obsolete

LEMMA TurnResults ==
    ASSUME TypeOK, SlicesInv, FrontierInv, ResultsInv, Turn, UNCHANGED <<before, after>>
    PROVE  ResultsInv'
  <1>1. Len(before)' = Len(before) /\ Len(after)' = Len(after) /\ i \in Nat /\ j \in Nat
    BY SliceKeys
  <1>2. ASSUME NEW n \in 1 .. Len(after)
        PROVE  /\ n \in added' <=> n < j' /\ ~Matched(n)
               /\ n \in updated' <=> n < j' /\ Matched(n) /\ after[n] \notin Entries(before)
               /\ n \in unchanged' <=> n < j' /\ Matched(n) /\ after[n] \in Entries(before)
    <2>1. /\ n \in added <=> n < j /\ ~Matched(n)
          /\ n \in updated <=> n < j /\ Matched(n) /\ after[n] \notin Entries(before)
          /\ n \in unchanged <=> n < j /\ Matched(n) /\ after[n] \in Entries(before)
      BY DEF ResultsInv
    <2>2. CASE Match
      <3>1. /\ j' = j + 1 /\ added' = added
            /\ IF before[i].dns # after[j].dns
               THEN updated' = updated \cup {j} /\ unchanged' = unchanged
               ELSE unchanged' = unchanged \cup {j} /\ updated' = updated
        BY <2>2 DEF Match
      <3>2. Matched(j) /\ (after[j] \in Entries(before) <=> before[i].dns = after[j].dns)
        BY <2>2, MatchIsRight DEF Match
      <3>3. n < j' <=> n < j \/ n = j
        BY <1>1, <3>1
      <3> QED BY <2>1, <3>1, <3>2, <3>3, <1>1
    <2>3. CASE Remove \/ RemoveRest
      BY <2>1, <2>3 DEF Remove, RemoveRest
    <2>4. CASE Add \/ AddRest
      <3>1. j' = j + 1 /\ added' = added \cup {j} /\ updated' = updated /\ unchanged' = unchanged
        BY <2>4 DEF Add, AddRest
      <3>2. ~Matched(j)
        BY <2>4, AddIsRight DEF Add, AddRest
      <3>3. n < j' <=> n < j \/ n = j
        BY <1>1, <3>1
      <3> QED BY <2>1, <3>1, <3>2, <3>3, <1>1
    <2> QED BY <2>2, <2>3, <2>4 DEF Turn
  <1>3. ASSUME NEW m \in 1 .. Len(before)
        PROVE  m \in removed' <=> m < i' /\ Obsolete(m)
    <2>1. m \in removed <=> m < i /\ Obsolete(m)
      BY DEF ResultsInv
    <2>2. m < i + 1 <=> m < i \/ m = i
      BY <1>1
    <2>3. CASE Match
      <3>1. ~Obsolete(i)
        BY <2>3, MatchIsRight DEF Match
      <3> QED BY <2>1, <2>2, <2>3, <3>1 DEF Match
    <2>4. CASE Remove
      <3>1. Obsolete(i) <=> before[i].key \notin Token
        BY <2>4, RemoveIsRight DEF Remove
      <3> QED BY <2>1, <2>2, <2>4, <3>1, <1>1 DEF Remove
    <2>5. CASE RemoveRest
      <3>1. Obsolete(i)
        BY <2>5, RestIsRight DEF RemoveRest
      <3> QED BY <2>1, <2>2, <2>5, <3>1, <1>1 DEF RemoveRest
    <2>6. CASE Add \/ AddRest
      BY <2>1, <2>6 DEF Add, AddRest
    <2> QED BY <2>3, <2>4, <2>5, <2>6 DEF Turn
  <1> QED
    BY <1>1, <1>2, <1>3, SameFindings DEF ResultsInv

LEMMA NextResults == MergeInv /\ [Next]_vars => ResultsInv'
  <1> SUFFICES ASSUME MergeInv, [Next]_vars PROVE ResultsInv'
    OBVIOUS
  <1> USE DEF MergeInv
  <1>1. CASE List
    <2>1. /\ i' = 1 /\ j' = 1
          /\ added' = {} /\ updated' = {} /\ unchanged' = {} /\ removed' = {}
      BY <1>1 DEF List, Begin
    <2> QED BY <2>1 DEF ResultsInv
  <1>2. CASE Diff /\ ~Merged
    BY <1>2, TurnResults, DiffKeeps DEF Diff
  <1>3. CASE UNCHANGED diffVars
    BY <1>3, SameFindings DEF ResultsInv, diffVars, results
  <1> QED
    BY <1>1, <1>2, <1>3, OtherSteps DEF Diff

\* The results are the difference of the slices when the merge is over.
LEMMA ExactWhenMerged ==
    ASSUME MergeInv, pc \in Compared
    PROVE  /\ added = {n \in 1 .. Len(after) : ~Matched(n)}
           /\ updated = {n \in 1 .. Len(after) : Matched(n) /\ after[n] \notin Entries(before)}
           /\ unchanged = {n \in 1 .. Len(after) : Matched(n) /\ after[n] \in Entries(before)}
           /\ removed = {m \in 1 .. Len(before) : Obsolete(m)}
  <1>1. i = Len(before) + 1 /\ j = Len(after) + 1
    BY SliceKeys DEF MergeInv, FrontierInv, Merged, MoreBefore, MoreAfter, TypeOK, DiffType
  <1>2. /\ \A n \in 1 .. Len(after) : n < j
        /\ \A m \in 1 .. Len(before) : m < i
    BY <1>1, SliceKeys
  <1> QED
    BY <1>2 DEF MergeInv, ResultsInv, TypeOK, DiffType

-----------------------------------------------------------------------------
(* The batches. *)

\* Of the listed entries, one is updated under a key at most.
LEMMA OneUpdate ==
    ASSUME MergeInv, NEW m \in updated, NEW n \in updated \cup unchanged,
           after[m].key = after[n].key
    PROVE  m = n
  <1>1. m \in 1 .. Len(after) /\ n \in 1 .. Len(after)
    BY DEF MergeInv, TypeOK, DiffType
  <1>2. First(m) /\ First(n)
    BY <1>1 DEF MergeInv, ResultsInv, Matched
  <1>3. m \notin 1 .. n - 1 /\ n \notin 1 .. m - 1
    BY <1>2 DEF First
  <1> QED
    BY <1>1, <1>3, SliceKeys DEF MergeInv

\* Positions and the entries and keys there.
LEMMA BatchKeys ==
    ASSUME TypeOK
    PROVE  /\ \A b \in SUBSET (1 .. Len(after)) :
                 /\ At(after, b) \subseteq Entries(after)
                 /\ \A k : k \in Keys(At(after, b)) <=> \E n \in b : after[n].key = k
           /\ \A b \in SUBSET (1 .. Len(before)) :
                 \A k : k \in Keys(At(before, b)) <=> \E n \in b : before[n].key = k
  <1>1. ASSUME NEW b, NEW s, NEW k
        PROVE  k \in Keys(At(s, b)) <=> \E n \in b : s[n].key = k
    <2>1. k \in Keys(At(s, b)) <=> \E e \in At(s, b) : e.key = k
      BY DEF Keys
    <2>2. \A e : e \in At(s, b) <=> \E n \in b : e = s[n]
      BY DEF At
    <2> QED BY <2>1, <2>2
  <1>2. ASSUME NEW b \in SUBSET (1 .. Len(after))
        PROVE  At(after, b) \subseteq Entries(after)
    <2>1. DOMAIN after = 1 .. Len(after)
      BY SliceKeys
    <2> QED BY <2>1 DEF At, Entries
  <1>3. \A b, k : k \in Keys(At(after, b)) <=> \E n \in b : after[n].key = k
    BY <1>1
  <1>4. \A b, k : k \in Keys(At(before, b)) <=> \E n \in b : before[n].key = k
    BY <1>1
  <1> QED
    BY <1>2, <1>3, <1>4, Zenon

LEMMA CreateKeepsApart ==
    ASSUME TypeOK, Distinct(server), NEW b \in SUBSET added
    PROVE  Distinct(AfterCreate(b))
  <1> SUFFICES ASSUME NEW x \in AfterCreate(b), NEW y \in AfterCreate(b), x.key = y.key
               PROVE  x = y
    BY DEF Distinct
  <1>1. b \subseteq 1 .. Len(after) /\ Len(after) \in Nat
    BY SliceKeys DEF TypeOK, DiffType
  <1>2. ASSUME NEW n \in Creatable(b), NEW z \in server PROVE z.key # after[n].key
    BY <1>2 DEF Creatable, Same, Keys
  <1>3. ASSUME NEW m \in Creatable(b), NEW n \in Creatable(b), after[m].key = after[n].key
        PROVE  m = n
    <2>1. m \in b /\ n \in b /\ m \in Nat /\ n \in Nat
      BY <1>1 DEF Creatable
    <2>2. ~(m < n) /\ ~(n < m)
      BY <1>3, <2>1 DEF Creatable, Same
    <2> QED BY <2>1, <2>2
  <1>4. \A z \in AfterCreate(b) : z \in server \/ \E n \in Creatable(b) : z = after[n]
    BY DEF AfterCreate, At
  <1>5. CASE x \in server /\ y \in server
    BY <1>5 DEF Distinct
  <1>6. CASE x \notin server \/ y \notin server
    BY <1>2, <1>3, <1>4, <1>6
  <1> QED
    BY <1>5, <1>6

\* An update changes no key: what it takes away it puts back.
LEMMA UpdateKeepsKeys ==
    ASSUME MergeInv, Distinct(server), NEW b \in SUBSET updated
    PROVE  Distinct(AfterUpdate(b)) /\ Keys(AfterUpdate(b)) = Keys(server)
  <1>1. b \subseteq 1 .. Len(after) /\ Updatable(b) \subseteq b
    BY DEF MergeInv, TypeOK, DiffType, Updatable
  <1>2. \A k : k \in Keys(At(after, b)) <=> \E n \in b : after[n].key = k
    BY <1>1, BatchKeys DEF MergeInv
  <1>3. \A n \in b : n \in Updatable(b) <=> after[n].key \in Keys(server)
    BY DEF Updatable
  <1>4. \A z : z \in AfterUpdate(b) <=>
                  \/ z \in server /\ z.key \notin Keys(At(after, b))
                  \/ \E n \in Updatable(b) : z = after[n]
    BY DEF AfterUpdate, At
  <1>5. ASSUME NEW x \in AfterUpdate(b), NEW y \in AfterUpdate(b), x.key = y.key
        PROVE  x = y
    <2>1. \A m, n \in b : after[m].key = after[n].key => m = n
      BY OneUpdate
    <2>2. CASE x \in server /\ y \in server
      BY <1>5, <2>2 DEF Distinct
    <2>3. ASSUME NEW n \in Updatable(b) PROVE after[n].key \in Keys(At(after, b))
      BY <1>1, <1>2
    <2>4. ASSUME NEW v \in AfterUpdate(b), NEW n \in Updatable(b), v.key = after[n].key
          PROVE  v = after[n]
      <3>1. v.key \in Keys(At(after, b)) /\ n \in b
        BY <1>1, <2>3, <2>4
      <3>2. PICK m \in Updatable(b) : v = after[m]
        BY <1>4, <3>1
      <3>3. m \in b
        BY <1>1
      <3> QED BY <2>1, <2>4, <3>1, <3>2, <3>3
    <2> QED BY <1>4, <1>5, <2>2, <2>4
  <1>6. ASSUME NEW x \in server PROVE x.key \in Keys(AfterUpdate(b))
    <2>1. CASE x.key \notin Keys(At(after, b))
      BY <1>4, <2>1 DEF Keys
    <2>2. CASE x.key \in Keys(At(after, b))
      <3>1. PICK n \in b : after[n].key = x.key
        BY <1>2, <2>2
      <3>2. after[n].key \in Keys(server)
        BY <3>1 DEF Keys
      <3>3. after[n] \in AfterUpdate(b)
        BY <1>3, <1>4, <3>2
      <3>4. after[n].key \in Keys(AfterUpdate(b))
        BY <3>3 DEF Keys
      <3> QED BY <3>1, <3>4
    <2> QED BY <2>1, <2>2
  <1>7. ASSUME NEW x \in AfterUpdate(b) PROVE x.key \in Keys(server)
    BY <1>1, <1>3, <1>4 DEF Keys
  <1>8. Keys(AfterUpdate(b)) = Keys(server)
    BY <1>6, <1>7 DEF Keys
  <1> QED
    BY <1>5, <1>8 DEF Distinct

\* What a delete takes away is not configured.
LEMMA DeleteKeepsConfigured ==
    ASSUME MergeInv, pc # "list", NEW b \in SUBSET removed
    PROVE  /\ AfterDelete(b) \subseteq server
           /\ \A x \in server : x.key \in Keys(Configured) => x \in AfterDelete(b)
  <1>1. b \subseteq 1 .. Len(before)
    BY DEF MergeInv, TypeOK, DiffType
  <1>2. ASSUME NEW m \in b PROVE before[m].key \notin Keys(Configured)
    BY <1>1 DEF MergeInv, ResultsInv, Obsolete, SlicesInv
  <1>3. \A k : k \in Keys(At(before, b)) <=> \E m \in b : before[m].key = k
    BY <1>1, BatchKeys DEF MergeInv
  <1> QED
    BY <1>2, <1>3 DEF AfterDelete

\* A batch that nothing of was refused is applied as a whole.
LEMMA WholeBatch ==
    ASSUME NEW batch, NEW some \in SUBSET batch, NEW taken, taken \subseteq batch \ some,
           NEW next, refused \in BOOLEAN, BatchDone(some, taken, batch, next), ~refused'
    PROVE  ~refused /\ some = {} /\ taken = batch
  <1>1. ~refused /\ taken = batch
    BY Zenon DEF BatchDone
  <1> QED
    BY <1>1

LEMMA CreateServer == IInv /\ Create => ServerInv'
  <1> SUFFICES ASSUME IInv, Create PROVE ServerInv'
    OBVIOUS
  <1> USE DEF IInv, MergeInv
  <1>1. PICK some \in SUBSET added :
          /\ BatchDone(some, Creatable(added \ some), added, "update")
          /\ server' = AfterCreate(added \ some)
    BY DEF Create
  <1>2. /\ pc = "create" /\ pc' = "update"
        /\ UNCHANGED <<before, after, added, config>>
    BY <1>1 DEF Create, BatchDone, diffVars, results
  <1>3. /\ Listed' = Listed /\ Configured' = Configured /\ Entries(after) = Configured
        /\ added \subseteq 1 .. Len(after)
    BY <1>2 DEF Listed, Configured, Entries, SlicesInv, TypeOK, DiffType
  <1>4. Distinct(server)'
    <2>1. added \ some \in SUBSET added
      OBVIOUS
    <2> QED BY <1>1, <2>1, CreateKeepsApart DEF ServerInv, Distinct
  <1>5. server \subseteq server' /\ Listed \subseteq server
    BY <1>1, <1>2 DEF AfterCreate, ServerInv
  <1>6. \A x \in server' : x.key \in Keys(Listed) \cup Token \cup Keys(Configured)
    <2>1. \A x \in server : x.key \in Keys(Listed) \cup Token
      BY <1>2 DEF ServerInv, Keys
    <2>2. Creatable(added \ some) \subseteq 1 .. Len(after)
      BY <1>3 DEF Creatable
    <2>3. \A x \in At(after, Creatable(added \ some)) : x \in Configured
      BY <1>3, <2>2, BatchKeys
    <2> QED BY <1>1, <2>1, <2>3 DEF AfterCreate, Keys
  <1>7. ASSUME ~refused', NEW n \in added
        PROVE  after[n] \in server' /\ after[n].key \notin Keys(Listed)
    <2>1. Creatable(added \ some) \subseteq added \ some
      BY DEF Creatable
    <2>2. some = {} /\ Creatable(added \ some) = added
      BY <1>1, <1>7, <2>1, WholeBatch DEF TypeOK
    <2>3. after[n] \in server'
      BY <1>1, <2>2 DEF AfterCreate, At
    <2>4. \A x \in server : x.key # after[n].key
      BY <2>2 DEF Creatable, Same, Keys
    <2> QED BY <1>5, <2>3, <2>4 DEF Keys
  <1> QED
    BY <1>2, <1>3, <1>4, <1>5, <1>6, <1>7 DEF ServerInv

LEMMA UpdateServer == IInv /\ Update => ServerInv'
  <1> SUFFICES ASSUME IInv, Update PROVE ServerInv'
    OBVIOUS
  <1> USE DEF IInv, MergeInv
  <1>1. PICK some \in SUBSET updated :
          /\ BatchDone(some, Updatable(updated \ some), updated, "delete")
          /\ server' = AfterUpdate(updated \ some)
    BY DEF Update
  <1>2. /\ pc = "update" /\ pc' = "delete"
        /\ UNCHANGED <<before, after, config>>
    BY <1>1 DEF Update, BatchDone, diffVars, results
  <1>3. /\ Listed' = Listed /\ Configured' = Configured /\ Entries(after) = Configured
        /\ updated \subseteq 1 .. Len(after)
    BY <1>2 DEF Listed, Configured, Entries, SlicesInv, TypeOK, DiffType
  <1>4. Distinct(server)' /\ Keys(server') = Keys(server)
    <2>1. updated \ some \in SUBSET updated
      OBVIOUS
    <2> QED BY <1>1, <2>1, UpdateKeepsKeys DEF ServerInv, Distinct
  <1>5. \A x \in server' : x.key \in Keys(Listed) \cup Token \cup Keys(Configured)
    <2>1. \A k \in Keys(server) : k \in Keys(Listed) \cup Token \cup Keys(Configured)
      BY <1>2 DEF ServerInv, Keys
    <2>2. \A x \in server' : x.key \in Keys(server)
      BY <1>4 DEF Keys
    <2> QED BY <2>1, <2>2
  <1>7. Keys(Listed) \subseteq Keys(server')
    BY <1>2, <1>4 DEF ServerInv, Keys
  <1>6. ASSUME ~refused' PROVE Configured \subseteq server'
    <2>1. Updatable(updated \ some) \subseteq updated \ some
      BY DEF Updatable
    <2>2. ~refused /\ some = {} /\ Updatable(updated) = updated
      <3>1. ~refused /\ some = {} /\ Updatable(updated \ some) = updated
        BY <1>1, <1>6, <2>1, WholeBatch DEF TypeOK
      <3>2. updated \ some = updated
        BY <3>1
      <3> QED BY <3>1, <3>2
    <2>3. server' = {x \in server : x.key \notin Keys(At(after, updated))} \cup At(after, updated)
      <3>1. updated \ some = updated
        BY <2>2
      <3> QED BY <1>1, <2>2, <3>1 DEF AfterUpdate
    <2>4. ASSUME NEW n \in 1 .. Len(after) PROVE after[n] \in server'
      <3>1. CASE n \in updated
        BY <2>3, <3>1 DEF At
      <3>2. ASSUME n \notin updated, after[n] \in server,
                   \A m \in updated : after[m].key # after[n].key
            PROVE  after[n] \in server'
        BY <1>3, <2>3, <3>2, BatchKeys
      <3>3. CASE n \in added
        <4>1. after[n] \in server /\ after[n].key \notin Keys(Listed)
          BY <1>2, <2>2, <3>3 DEF ServerInv
        <4>2. \A m \in updated : after[m].key \in Keys(Listed)
          BY <1>3 DEF ResultsInv, Matched, Listed
        <4>3. n \notin updated
          BY <4>1, <4>2
        <4> QED BY <3>2, <4>1, <4>2, <4>3
      <3>4. CASE n \in unchanged
        <4>1. after[n] \in Listed /\ n \notin updated
          BY <3>4 DEF ResultsInv, Listed
        <4>2. after[n] \in server
          BY <1>2, <4>1 DEF ServerInv
        <4>3. \A m \in updated : after[m].key # after[n].key
          BY <3>4, <4>1, OneUpdate
        <4> QED BY <3>2, <4>1, <4>2, <4>3
      <3>5. n \in added \cup updated \cup unchanged
        BY <1>2, ExactWhenMerged DEF Compared
      <3> QED BY <3>1, <3>3, <3>4, <3>5
    <2> QED BY <1>3, <2>4, SliceKeys DEF Entries
  <1> QED
    BY <1>2, <1>3, <1>4, <1>5, <1>6, <1>7 DEF ServerInv

LEMMA DeleteServer == IInv /\ Delete => ServerInv'
  <1> SUFFICES ASSUME IInv, Delete PROVE ServerInv'
    OBVIOUS
  <1> USE DEF IInv, MergeInv
  <1>1. PICK some \in SUBSET removed :
          /\ BatchDone(some, removed \ some, removed, "done")
          /\ server' = AfterDelete(removed \ some)
    BY DEF Delete
  <1>2. /\ pc = "delete" /\ pc' = "done"
        /\ UNCHANGED <<before, after, config>>
    BY <1>1 DEF Delete, BatchDone, diffVars, results
  <1>3. Configured' = Configured /\ Entries(after) = Configured
    BY <1>2 DEF Configured, Entries, SlicesInv
  <1>4. /\ server' \subseteq server
        /\ \A x \in server : x.key \in Keys(Configured) => x \in server'
    <2>1. removed \ some \in SUBSET removed
      OBVIOUS
    <2> QED BY <1>1, <1>2, <2>1, DeleteKeepsConfigured
  <1>5. Distinct(server)'
    BY <1>4 DEF ServerInv, Distinct
  <1>6. ASSUME ~refused' PROVE Provisioned'
    <2>1. ~refused /\ some = {}
      BY <1>1, <1>6, WholeBatch DEF TypeOK
    <2>2. Configured \subseteq server'
      BY <1>2, <1>4, <2>1 DEF ServerInv, Keys
    <2>3. ASSUME NEW x \in server' PROVE x.key \in Keys(Configured) \cup Token
      <3> SUFFICES ASSUME x.key \notin Keys(Configured), x.key \notin Token PROVE FALSE
        OBVIOUS
      <3>1. x.key \in Keys(Listed)
        BY <1>2, <1>4 DEF ServerInv
      <3>2. PICK m \in 1 .. Len(before) : before[m].key = x.key
        BY <3>1, SliceKeys
      <3>3. m \in removed
        BY <1>2, <1>3, <3>2, ExactWhenMerged DEF Obsolete, Compared
      <3>4. x.key \in Keys(At(before, removed))
        <4>1. removed \in SUBSET (1 .. Len(before))
          BY DEF TypeOK, DiffType
        <4> QED BY <3>2, <3>3, <4>1, BatchKeys
      <3>5. removed \ some = removed
        BY <2>1
      <3> QED BY <1>1, <3>4, <3>5 DEF AfterDelete
    <2>4. (Served \subseteq Keys(Configured) \cup Token)'
      BY <1>3, <2>3 DEF Served, Keys
    <2> QED BY <1>3, <2>2, <2>4 DEF Provisioned
  <1> QED
    BY <1>2, <1>5, <1>6 DEF ServerInv

LEMMA TokenServer == IInv /\ (\E e \in Entry : CreateToken(e)) => ServerInv'
  <1> SUFFICES ASSUME IInv, NEW e \in Entry, CreateToken(e) PROVE ServerInv'
    OBVIOUS
  <1>1. /\ server' = server \cup {e} /\ e.key \in Token /\ e.key \notin Keys(server)
        /\ UNCHANGED <<before, after, added, config, pc, refused>>
    BY DEF CreateToken, diffVars, results
  <1>2. Listed' = Listed /\ Configured' = Configured
    BY <1>1 DEF Listed, Configured, Entries
  <1>3. Distinct(server)'
    BY <1>1 DEF IInv, ServerInv, Distinct, Keys
  <1>4. Provisioned => Provisioned'
    <2>1. Keys(server') = Keys(server) \cup {e.key}
      BY <1>1 DEF Keys
    <2> QED BY <1>1, <1>2, <2>1 DEF Provisioned, Served
  <1>5. Keys(server) \subseteq Keys(server')
    BY <1>1 DEF Keys
  <1> QED
    BY <1>1, <1>2, <1>3, <1>4, <1>5 DEF IInv, ServerInv

LEMMA FailServer == IInv /\ Fail => ServerInv'
  <1> SUFFICES ASSUME IInv, Fail PROVE ServerInv'
    OBVIOUS
  <1> USE DEF IInv, MergeInv
  <1>1. pc' = "list"
    BY DEF Fail
  <1>2. Distinct(server)'
    <2>1. CASE UNCHANGED server
      BY <2>1 DEF ServerInv, Distinct
    <2>2. CASE \E some \in SUBSET added : server' = AfterCreate(some)
      BY <2>2, CreateKeepsApart DEF ServerInv, Distinct
    <2>3. CASE \E some \in SUBSET updated : server' = AfterUpdate(some)
      BY <2>3, UpdateKeepsKeys DEF ServerInv, Distinct
    <2>4. CASE \E some \in SUBSET removed : server' = AfterDelete(some)
      BY <2>4 DEF ServerInv, Distinct, AfterDelete
    <2> QED BY <2>1, <2>2, <2>3, <2>4 DEF Fail
  <1> QED
    BY <1>1, <1>2 DEF ServerInv

LEMMA NextServer == IInv /\ [Next]_vars => ServerInv'
  <1> SUFFICES ASSUME IInv, [Next]_vars PROVE ServerInv'
    OBVIOUS
  <1>1. CASE List
    <2>1. /\ Begin(server, config) /\ pc' = "diff" /\ server' = server /\ config' = config
      BY <1>1 DEF List
    <2>2. Listed' = server
      <3>1. Entries(before') = server
        BY <2>1, Begun DEF IInv, ServerInv
      <3> QED BY <3>1 DEF Listed, Entries
    <2> QED BY <2>1, <2>2 DEF IInv, ServerInv, Distinct
  <1>2. CASE Diff
    <2>1. UNCHANGED <<before, server, config>> /\ pc = "diff" /\ pc' \in {"diff", "create"}
      BY <1>2, DiffKeeps DEF Diff
    <2>2. Listed' = Listed
      BY <2>1 DEF Listed, Entries
    <2> QED BY <2>1, <2>2 DEF IInv, ServerInv, Distinct
  <1>3. CASE \E new \in Configs : Deploy(new)
    BY <1>3 DEF Deploy, IInv, ServerInv, Distinct
  <1>4. CASE UNCHANGED vars
    <2>1. UNCHANGED <<before, after, added, server, config, pc, refused>>
      BY <1>4 DEF vars, diffVars, results
    <2>2. Listed' = Listed /\ Configured' = Configured /\ Provisioned' = Provisioned
      BY <2>1 DEF Listed, Configured, Entries, Provisioned, Served
    <2> QED BY <2>1, <2>2 DEF IInv, ServerInv, Distinct
  <1> QED
    BY <1>1, <1>2, <1>3, <1>4, TokenServer, CreateServer, UpdateServer, DeleteServer,
       FailServer DEF Next, Running

-----------------------------------------------------------------------------
(* The theorems. *)

LEMMA InitIInv == Init => IInv
  <1> SUFFICES ASSUME Init PROVE IInv
    OBVIOUS
  <1>1. Entries(before) = {} /\ Len(before) = 0 /\ Len(after) = 0
    BY DEF Init, Entries
  <1>2. DiffType
    <2>1. before = <<>> /\ after = <<>> /\ <<>> \in Seq(Entry)
      BY DEF Init
    <2> QED BY <1>1, <2>1 DEF Init, DiffType
  <1>3. TypeOK
    BY <1>2, FS_EmptySet DEF Init, TypeOK
  <1> QED
    BY <1>1, <1>3 DEF Init, IInv, SlicesInv, FrontierInv, ResultsInv, ServerInv, Distinct,
                      Compared, Listed

LEMMA NextIInv == IInv /\ [Next]_vars => IInv'
  BY NextType, NextSlices, NextFrontier, NextResults, NextServer
  DEF IInv, MergeInv, ServerInv

LEMMA Invariance == Spec => []IInv
  BY InitIInv, NextIInv, PTL DEF Spec

\* Entries, slices and positions keep their types, and the entries of the
\* server and of a run are finitely many.
THEOREM ProvisionTypeCorrect == Spec => []TypeOK
  <1>1. IInv => TypeOK
    BY DEF IInv
  <1> QED
    BY <1>1, Invariance, PTL

\* diffEntries returns the difference of any two lists of entries, whichever
\* way an unstable sort leaves those that compare equal: what is not listed is
\* added, what differs in its DNS names updated, what is not configured
\* removed, but for the join-token entries with a configured one after them.
THEOREM DiffEntriesIsExact == Spec => []DiffIsExact
  <1>1. IInv => DiffIsExact
    <2> SUFFICES ASSUME IInv, pc = "create" PROVE DiffIsExact
      BY DEF DiffIsExact
    <2>1. DOMAIN before = 1 .. Len(before) /\ DOMAIN after = 1 .. Len(after)
      BY SliceKeys DEF IInv
    <2>2. /\ added = {n \in 1 .. Len(after) : ~Matched(n)}
          /\ updated = {n \in 1 .. Len(after) : Matched(n) /\ after[n] \notin Entries(before)}
          /\ unchanged = {n \in 1 .. Len(after) : Matched(n) /\ after[n] \in Entries(before)}
          /\ removed = {m \in 1 .. Len(before) : Obsolete(m)}
      BY ExactWhenMerged DEF IInv, MergeInv, Compared
    <2>3. unchanged = DOMAIN after \ (added \cup updated)
      BY <2>1, <2>2
    <2> QED BY <2>1, <2>2, <2>3 DEF DiffIsExact, Obsolete
  <1> QED
    BY <1>1, Invariance, PTL

\* A run that came to its end without a refusal leaves the configured entries,
\* with their DNS names, and else join-token entries only, whatever runs
\* before it failed half way and whatever agents added in the meantime.
THEOREM CleanRunProvisions == Spec => []DoneMeansProvisioned
  <1>1. IInv => DoneMeansProvisioned
    BY DEF IInv, ServerInv, DoneMeansProvisioned
  <1> QED
    BY <1>1, Invariance, PTL

\* No step, and no failure half way through one, takes a configured entry out
\* of service, as the server sees it, but the one of a run that was refused the
\* entry because its selectors are in another order on the server.
THEOREM ConfiguredStaysServed == Spec => ServedStaysServed
  <1>1. ASSUME IInv, [Next]_vars, NEW k \in Keys(Configured) \cap Keys(Configured'), InService(k)
        PROVE  InService(k)' \/ LostToReordering(k)
    <2> USE DEF IInv, MergeInv, Served
    <2>1. PICK l \in Keys(server) : Same(l, k)
      BY <1>1 DEF InService
    <2>2. ASSUME l \in Keys(server') PROVE InService(k)'
      BY <2>1, <2>2 DEF InService
    <2>3. ASSUME server \subseteq server' PROVE InService(k)'
      BY <2>1, <2>2, <2>3 DEF Keys
    <2>4. ASSUME NEW b \in SUBSET added, server' = AfterCreate(b) PROVE InService(k)'
      BY <2>3, <2>4 DEF AfterCreate
    <2>5. ASSUME NEW b \in SUBSET updated, server' = AfterUpdate(b) PROVE InService(k)'
      <3>1. Keys(AfterUpdate(b)) = Keys(server)
        BY <1>1, UpdateKeepsKeys DEF ServerInv
      <3>2. Keys(server') = Keys(server)
        BY <2>5, <3>1
      <3> QED BY <2>1, <2>2, <3>2
    <2>6. ASSUME NEW b \in SUBSET removed, pc = "delete", server' = AfterDelete(b)
          PROVE  InService(k)' \/ LostToReordering(k)
      <3>1. CASE k \in Keys(server)
        <4>1. PICK x \in server : x.key = k
          BY <3>1 DEF Keys
        <4>2. x \in server'
          BY <1>1, <2>6, <4>1, DeleteKeepsConfigured
        <4>3. k \in Keys(server') /\ Same(k, k)
          BY <4>1, <4>2 DEF Keys, Same
        <4> QED BY <4>3 DEF InService
      <3>2. CASE k \notin Keys(server)
        <4>1. refused
          BY <1>1, <2>6, <3>2 DEF ServerInv, Keys, TypeOK
        <4>2. k \notin Keys(Listed)
          BY <1>1, <2>6, <3>2 DEF ServerInv
        <4>3. Entries(after) = Configured
          BY <1>1, <2>6 DEF SlicesInv
        <4>4. PICK n \in 1 .. Len(after) : after[n].key = k
          BY <1>1, <4>3, SliceKeys
        <4>5. n \in added
          BY <1>1, <2>6, <4>2, <4>4, ExactWhenMerged DEF Matched, Listed, Compared
        <4>6. k \in Keys(At(after, added))
          BY <4>4, <4>5 DEF Keys, At
        <4> QED BY <2>6, <3>2, <4>1, <4>6 DEF LostToReordering
      <3> QED BY <3>1, <3>2
    <2>7. CASE Create
      <3>1. PICK some \in SUBSET added : server' = AfterCreate(added \ some)
        BY <2>7 DEF Create
      <3>2. added \ some \in SUBSET added
        OBVIOUS
      <3> QED BY <2>4, <3>1, <3>2
    <2>8. CASE Update
      <3>1. PICK some \in SUBSET updated : server' = AfterUpdate(updated \ some)
        BY <2>8 DEF Update
      <3>2. updated \ some \in SUBSET updated
        OBVIOUS
      <3> QED BY <2>5, <3>1, <3>2
    <2>9. CASE Delete
      <3>1. PICK some \in SUBSET removed : server' = AfterDelete(removed \ some)
        BY <2>9 DEF Delete
      <3>2. removed \ some \in SUBSET removed
        OBVIOUS
      <3> QED BY <2>6, <2>9, <3>1, <3>2 DEF Delete
    <2>10. CASE Fail
      BY <2>3, <2>4, <2>5, <2>6, <2>10 DEF Fail
    <2>11. CASE List \/ Diff \/ UNCHANGED vars
      BY <2>3, <2>11 DEF List, Diff, vars
    <2>12. CASE \E e \in Entry : CreateToken(e)
      BY <2>3, <2>12 DEF CreateToken
    <2>13. CASE \E new \in Configs : Deploy(new)
      BY <2>3, <2>13 DEF Deploy
    <2> QED
      BY <1>1, <2>7, <2>8, <2>9, <2>10, <2>11, <2>12, <2>13 DEF Next, Running
  <1>2. IInv /\ [Next]_vars =>
            [\A k \in Keys(Configured) \cap Keys(Configured') :
                InService(k) => InService(k)' \/ LostToReordering(k)]_vars
    BY <1>1
  <1> QED
    BY <1>2, Invariance, PTL DEF Spec, ServedStaysServed

=============================================================================
