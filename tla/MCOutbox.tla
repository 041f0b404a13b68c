------------------------------ MODULE MCOutbox ------------------------------
(***************************************************************************)
(* Instances of the outbox for TLC.  Window 4 is over the batch limit,     *)
(* windows 1 and 3 together are over the byte cap, any three windows are   *)
(* over the file cap.                                                      *)
(***************************************************************************)
EXTENDS Outbox

MCBytes == [w \in Windows |-> CASE w = 1 -> 2 [] w = 2 -> 1 [] w = 3 -> 2 [] OTHER -> 3]

\* The wall clock of one publication against another: the same, or stepped back.
MCWallTimes == {0, 7}
=============================================================================
