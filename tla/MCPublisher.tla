----------------------------- MODULE MCPublisher -----------------------------
(***************************************************************************)
(* The publisher of src/main.rs, for TLC: publication and the outbox it    *)
(* submits to.  Publication leaves open what submit() answers and when the *)
(* process dies, and the outbox which windows are submitted and when, so a *)
(* behaviour of one is a behaviour of it whatever the other does: one is   *)
(* chosen at the start, and it alone takes steps.                          *)
(***************************************************************************)
EXTENDS MCOutbox, Publication

VARIABLE part      \* the component that takes the steps

PublisherInit ==
    /\ part \in {"publication", "delivery"}
    /\ Init /\ PublicationInit
    /\ part = "delivery" => wall = 0

Publishing == part = "publication" /\ PublicationNext /\ UNCHANGED <<part, vars>>
Delivering == part = "delivery" /\ Next /\ UNCHANGED <<part, publicationVars>>

PublisherSpec ==
    PublisherInit /\ [][Publishing \/ Delivering]_<<part, vars, publicationVars>>
=============================================================================
