-------------------------- MODULE DeliveryContract --------------------------
(***************************************************************************)
(* What the publication loop may rely on when submit() answers, said       *)
(* without files, fsyncs, locks, attempts or restarts: an ordered queue    *)
(* with at-least-once delivery (docs/METHODOLOGY.md, "Publication and      *)
(* replay").  Windows are numbered in the order they are submitted.        *)
(*                                                                         *)
(* A window is in doubt while its admission is not confirmed.  A doubtful  *)
(* window may be delivered, may be forgotten, or may become owed; an owed  *)
(* window is never forgotten, and nothing newer is delivered before it.    *)
(***************************************************************************)
EXTENDS Integers

CONSTANT Windows

VARIABLES
    owed,      \* admitted, and no full acknowledgement yet
    doubtful,  \* neither admitted nor refused yet, or never to be answered
    stored     \* in the ingest service, once or more often

contractVars == <<owed, doubtful, stored>>

Init == owed = {} /\ doubtful = {} /\ stored = {}

\* The admission of a new window begins to leave traces.
Begin(w) ==
    /\ \A v \in owed \cup doubtful \cup stored : v < w
    /\ doubtful' = doubtful \cup {w}
    /\ UNCHANGED <<owed, stored>>

\* submit() answers Ok(true).
Admit(w) ==
    /\ w \in doubtful
    /\ owed' = owed \cup {w}
    /\ doubtful' = doubtful \ {w}
    /\ UNCHANGED stored

\* An accident ends some of the doubt the other way.
Forget(W) ==
    /\ W \subseteq doubtful
    /\ doubtful' = doubtful \ W
    /\ UNCHANGED <<owed, stored>>

\* The oldest window reaches the service, which may or may not confirm it.
Deliver(w, confirmed) ==
    /\ w \in owed \cup doubtful
    /\ \A v \in owed \cup doubtful : w <= v
    /\ stored' = stored \cup {w}
    /\ owed' = IF confirmed THEN owed \ {w} ELSE owed
    /\ doubtful' = IF confirmed THEN doubtful \ {w} ELSE doubtful

Next ==
    \/ \E w \in Windows : Begin(w) \/ Admit(w)
    \/ \E W \in SUBSET Windows : Forget(W)
    \/ \E w \in Windows, confirmed \in BOOLEAN : Deliver(w, confirmed)

Spec == Init /\ [][Next]_contractVars
=============================================================================
