------------------------------- MODULE SpireDiff -------------------------------
(***************************************************************************)
(* diffEntries of spire-provision, turn by turn: both slices are sorted,   *)
(* then merged, and two loops take what is left of either.  The results    *)
(* are sets of positions in the sorted slices.                             *)
(*                                                                         *)
(* entryCompare orders entries by SPIFFE ID, parent ID and selectors; only *)
(* that order matters, so the key of an entry is its place in it.          *)
(***************************************************************************)
EXTENDS Integers, Sequences, FiniteSets, Functions

CONSTANTS
    Key,        \* what entryCompare compares, in its order
    Token,      \* keys whose parent path starts with /spire/agent/join_token/
    Dns         \* lists of DNS names

ASSUME EntryAssumption ==
    /\ Key \subseteq Nat
    /\ Token \subseteq Key

Entry == [key : Key, dns : Dns]

Keys(entries) == {e.key : e \in entries}

VARIABLES
    before,     \* the listed entries
    after,      \* the configured entries
    i,          \* position of x in before
    j,          \* position of y in after
    added, removed, updated, unchanged

results == <<added, removed, updated, unchanged>>

diffVars == <<before, after, i, j, results>>

Entries(slice) == {slice[n] : n \in DOMAIN slice}

Sorted(slice) == \A m, n \in DOMAIN slice : m < n => slice[m].key <= slice[n].key

\* The slices that list a set of entries, in any order.
Listings(entries) == Injection(1 .. Cardinality(entries), entries)

\* The entries of a slice, in any order.
Reorderings(slice) ==
    {[n \in DOMAIN slice |-> slice[p[n]]] :
        p \in Bijection(DOMAIN slice, DOMAIN slice)}

\* diffEntries up to its first loop: slices.SortFunc leaves entries that
\* compare equal in any order.
Begin(listed, configured) ==
    /\ before' \in {slice \in Listings(listed) : Sorted(slice)}
    /\ after' \in {slice \in Reorderings(configured) : Sorted(slice)}
    /\ i' = 1
    /\ j' = 1
    /\ added' = {}
    /\ removed' = {}
    /\ updated' = {}
    /\ unchanged' = {}

MoreBefore == i <= Len(before)

MoreAfter == j <= Len(after)

\* Seeded fault: an entry with other DNS names is replaced, not updated.
MatchReplacing ==
    /\ MoreBefore /\ MoreAfter
    /\ before[i].key = after[j].key
    /\ IF before[i].dns # after[j].dns
       THEN added' = added \cup {j} /\ removed' = removed \cup {i} /\ UNCHANGED unchanged
       ELSE unchanged' = unchanged \cup {j} /\ UNCHANGED <<added, removed>>
    /\ i' = i + 1
    /\ j' = j + 1
    /\ UNCHANGED <<before, after, updated>>

\* Seeded fault: entryNeedsUpdate without its negation.
MatchInverted ==
    /\ MoreBefore /\ MoreAfter
    /\ before[i].key = after[j].key
    /\ IF before[i].dns = after[j].dns
       THEN updated' = updated \cup {j} /\ UNCHANGED unchanged
       ELSE unchanged' = unchanged \cup {j} /\ UNCHANGED updated
    /\ i' = i + 1
    /\ j' = j + 1
    /\ UNCHANGED <<before, after, added, removed>>

\* entryNeedsUpdate: entries that compare equal differ in their DNS names.
Match ==
    /\ MoreBefore /\ MoreAfter
    /\ before[i].key = after[j].key
    /\ IF before[i].dns # after[j].dns
       THEN updated' = updated \cup {j} /\ UNCHANGED unchanged
       ELSE unchanged' = unchanged \cup {j} /\ UNCHANGED updated
    /\ i' = i + 1
    /\ j' = j + 1
    /\ UNCHANGED <<before, after, added, removed>>

\* Seeded fault: a join-token entry is skipped in the slice of configured
\* entries as well.
RemoveSkippingBoth ==
    /\ MoreBefore /\ MoreAfter
    /\ before[i].key < after[j].key
    /\ IF before[i].key \in Token
       THEN j' = j + 1 /\ UNCHANGED removed
       ELSE removed' = removed \cup {i} /\ UNCHANGED j
    /\ i' = i + 1
    /\ UNCHANGED <<before, after, added, updated, unchanged>>

Remove ==
    /\ MoreBefore /\ MoreAfter
    /\ before[i].key < after[j].key
    /\ removed' = IF before[i].key \in Token THEN removed ELSE removed \cup {i}
    /\ i' = i + 1
    /\ UNCHANGED <<before, after, j, added, updated, unchanged>>

Add ==
    /\ MoreBefore /\ MoreAfter
    /\ before[i].key > after[j].key
    /\ added' = added \cup {j}
    /\ j' = j + 1
    /\ UNCHANGED <<before, after, i, removed, updated, unchanged>>

RemoveRest ==
    /\ MoreBefore /\ ~MoreAfter
    /\ removed' = removed \cup {i}
    /\ i' = i + 1
    /\ UNCHANGED <<before, after, j, added, updated, unchanged>>

AddRest ==
    /\ MoreAfter /\ ~MoreBefore
    /\ added' = added \cup {j}
    /\ j' = j + 1
    /\ UNCHANGED <<before, after, i, removed, updated, unchanged>>

Turn == Match \/ Remove \/ Add \/ RemoveRest \/ AddRest

Merged == ~MoreBefore /\ ~MoreAfter

=============================================================================
