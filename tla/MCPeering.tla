----------------------------- MODULE MCPeering -----------------------------
(***************************************************************************)
(* An instance of the peering assembly for TLC: two blocks with a bundle   *)
(* each, and a stray round that only the second block makes plausible.     *)
(***************************************************************************)
EXTENDS Peering, TLC

CONSTANTS p, q

MCProduced == 1 :> 1 @@ 2 :> 1
MCBundles  == 1 :> {p} @@ 2 :> {q}
MCStray    == {3}
=============================================================================
