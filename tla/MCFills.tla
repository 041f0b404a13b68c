------------------------------ MODULE MCFills ------------------------------
(***************************************************************************)
(* An instance of the fills tail for TLC: two hours of a day.              *)
(***************************************************************************)
EXTENDS FillsTail

MCHourFiles == <<[day |-> 1, hour |-> 9], [day |-> 1, hour |-> 10]>>
=============================================================================
