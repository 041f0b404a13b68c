------------------------------ MODULE MCDecoded ------------------------------
(***************************************************************************)
(* An instance of the decoded leg of peering for TLC: two blocks.          *)
(***************************************************************************)
EXTENDS DecodedPeering, TLC

CONSTANTS p, q

MCProduced == 1 :> 1 @@ 2 :> 2
MCBundles  == 1 :> {p} @@ 2 :> {q}
=============================================================================
