--------------------------- MODULE MCSpiffeGarage ---------------------------
(* One caller whose certificate carries an identifier, and one without; three *)
(* keys, with that identifier or another for a name.                          *)
EXTENDS SpiffeGarage, TLC

CONSTANTS a, n, x, y

MCClient == {a, n}
MCID == {x, y}
MCCaller == (a :> x) @@ (n :> None)

=============================================================================
