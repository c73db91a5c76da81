-------------------------------- MODULE MCCmdDiff --------------------------------
(* Two remote hosts and a local one.  The second system is the first one   *)
(* rebuilt, with a package less of one name; the third has another kernel. *)
EXTENDS CmdDiff, TLC

CONSTANTS arges, brontes, mars

Starts == {"6.6", "6.12", "255", "24.11", "7zz", "2.5"}

\* What all three systems contain, under the hash of the build.
Common(hash, h, kernel) ==
    {<<hash, "linux", kernel>>, <<hash, "linux", kernel, "modules">>,
     <<hash, "systemd", "255">>, <<hash, "source">>,
     <<hash, "nixos", "system", h, "24.11", kernel>>}

System(h) ==
    1 :> Common("a", h, "6.6") \cup {<<"b", "source">>, <<"a", "systemd", "255", "man">>,
                                     <<"a", "7zz", "24.11">>}
    @@ 2 :> Common("c", h, "6.6") \cup {<<"c", "systemd", "255", "man">>, <<"c", "attr", "2.5">>}
    @@ 3 :> Common("d", h, "6.12") \cup {<<"d", "attr", "2.5">>, <<"e", "attr", "2.5">>}

Closures == [h \in Host |-> System(h)]

Call(named, tests, attic) == [named |-> named, tests |-> tests, attic |-> attic]

\* The pipeline's call, and one of a workstation.
SomeCalls == {Call({}, TRUE, TRUE), Call({arges, mars}, FALSE, FALSE)}

Before == {[running |-> 1, booted |-> 1], [running |-> 2, booted |-> 1],
           [running |-> 3, booted |-> 1]}

=============================================================================
