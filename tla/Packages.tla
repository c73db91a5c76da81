-------------------------------- MODULE Packages --------------------------------
(***************************************************************************)
(* nvd-json: the packages of two systems' closures, their differences, and *)
(* the differences of many hosts in one.                                   *)
(*                                                                         *)
(* A store path is the sequence of the chunks of its file name between the *)
(* dashes, the hash first; names and versions are sequences of chunks too. *)
(* A list of versions is sorted by Version's derived order, text first, so *)
(* it stands for the bag of its versions: an Option of one is a bag, the   *)
(* empty one for None, since no name is in a set without a package.        *)
(***************************************************************************)
EXTENDS Integers, Sequences, FiniteSets, FiniteSetsExt

CONSTANT VersionLike    \* the chunks that begin a version: digits first, or a hash

-----------------------------------------------------------------------------
(* Package::from_store_path *)

\* The place in Tail(path) at which the version begins.
VersionAt(path) ==
    LET starts == {i \in DOMAIN Tail(path) : Tail(path)[i] \in VersionLike}
    IN  IF starts = {} THEN Len(path) ELSE Min(starts)

Pname(path) == SubSeq(Tail(path), 1, VersionAt(path) - 1)

VersionOf(path) == SubSeq(Tail(path), VersionAt(path), Len(path) - 1)

-----------------------------------------------------------------------------
(* PackageSet: the versions of each name in a set of store paths. *)

PackageSet(paths) ==
    LET by(pname) == {path \in paths : Pname(path) = pname}
        of(packages, version) == {path \in packages : VersionOf(path) = version}
    IN  [pname \in {Pname(path) : path \in paths} |->
            [v \in {VersionOf(path) : path \in by(pname)} |->
                Cardinality(of(by(pname), v))]]

\* The set of a query of the store that fails unnoticed.
NoPackages == PackageSet({})

\* get_pname_versions, get_pname_version_strings
Versions(set, pname) == IF pname \in DOMAIN set THEN set[pname] ELSE <<>>

\* get_simple_pname_version_strings: {} for None, {versions} for Some(versions),
\* each up to its first dash, without the packages that have no version.
SimpleVersions(set, pname) ==
    IF pname \in DOMAIN set THEN {{v[1] : v \in DOMAIN set[pname] \ {<<>>}}} ELSE {}

-----------------------------------------------------------------------------
(* PackageSetPair *)

\* Seeded fault: as many different versions of a name are taken for the same.
ChangedInNumber(left, right) ==
    {p \in DOMAIN left \cap DOMAIN right :
        Cardinality(DOMAIN left[p]) # Cardinality(DOMAIN right[p])}

\* changed_pnames
Changed(left, right) == {p \in DOMAIN left \cap DOMAIN right : left[p] # right[p]}

Change(pname, old, new) == [pname |-> pname, old |-> old, new |-> new]

\* get_changes
Changes(left, right, pnames) ==
    {Change(p, Versions(left, p), Versions(right, p)) :
        p \in {q \in pnames : Versions(left, q) # Versions(right, q)}}

\* get_simple_changes
SimpleChanges(left, right, pnames) ==
    {Change(p, SimpleVersions(left, p), SimpleVersions(right, p)) :
        p \in {q \in pnames : SimpleVersions(left, q) # SimpleVersions(right, q)}}

RebootPackages(boot, right) ==
    SimpleChanges(boot, right, {<<"linux">>, <<"systemd">>})

\* run_reboot_check
RebootCheck(boot, new) == RebootPackages(boot, new) # {}

Sections == {"version_changes", "added_packages", "removed_packages", "reboot_packages"}

\* run_diff, of the system that runs, the new one and the one that was booted.
DiffResult(left, right, boot) ==
    [section \in Sections |->
        CASE section = "version_changes" -> Changes(left, right, Changed(left, right))
          [] section = "added_packages" ->
                Changes(left, right, DOMAIN right \ DOMAIN left)
          [] section = "removed_packages" ->
                Changes(left, right, DOMAIN left \ DOMAIN right)
          [] section = "reboot_packages" -> RebootPackages(boot, right)]

-----------------------------------------------------------------------------
(* AggregatedDiffResult *)

\* Every system's name ends with its host's.
CommonName(host, pname) ==
    IF pname = <<"nixos", "system", host>> THEN <<"nixos", "system">> ELSE pname

HostChange(host, change) ==
    [pname |-> CommonName(host, change.pname), hostname |-> host,
     old |-> change.old, new |-> change.new]

\* from_diffs, of the diffs of some hosts: for each section the bag of the
\* changes pushed to it, under the name of the package and the host.
Aggregate(diffs) ==
    [section \in Sections |->
        LET pushed == UNION {{h} \X diffs[h][section] : h \in DOMAIN diffs}
        IN  [c \in {HostChange(x[1], x[2]) : x \in pushed} |->
                Cardinality({x \in pushed : HostChange(x[1], x[2]) = c})]]

=============================================================================
