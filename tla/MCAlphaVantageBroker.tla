------------------------- MODULE MCAlphaVantageBroker -------------------------
(* The broker for three calls, the third of which may join the first. *)
EXTENDS AlphaVantageBroker, TLC

CONSTANTS c1, c2, c3, k1, k2, k3

\* The third call is for the key of the first, or for a key of its own.
SharedOrOwn == c1 :> {k1} @@ c2 :> {k2} @@ c3 :> {k1, k3}
=============================================================================
