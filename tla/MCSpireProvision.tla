-------------------------- MODULE MCSpireProvision ---------------------------
(* Three configurations over five keys.  From one to another an entry is    *)
(* added, dropped, given other DNS names, or has its selectors reordered;   *)
(* the last one names an entry twice, with different DNS names.  Keys 2 and *)
(* 5 are join-token entries, one of them after all the others.              *)
EXTENDS SpireProvision

Named(key, dns) == [key |-> key, dns |-> dns]

SomeConfigs ==
    {<<Named(3, 0), Named(1, 0)>>, <<Named(4, 0), Named(1, 1)>>, <<Named(3, 1), Named(3, 0)>>}

\* Keys 3 and 4 are one entry with its selectors in two orders.
Reordered(k, l) == {k, l} = {3, 4}

=============================================================================
