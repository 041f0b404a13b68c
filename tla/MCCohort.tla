------------------------------ MODULE MCCohort ------------------------------
(***************************************************************************)
(* Instances of cohort admission for TLC.  Bases and contents are only     *)
(* ever compared, so those of one configuration may be interchanged.       *)
(***************************************************************************)
EXTENDS Cohort, TLC

CONSTANTS a, b, x, y, z, w, e1, e2, f1, f2, f3

\* Two sources compared, every cap within reach.
Compared ==
    [providers |-> {a, b}, reference |-> a, anyArrival |-> FALSE,
     timeout |-> 2, window |-> 2, lag |-> 0, maxPending |-> 1, maxSettled |-> 1, maxRolling |-> 1,
     signatures |-> 2, bases |-> {e1, e2}, contents |-> {x, y, z},
     arrivals |-> 3, lastArrival |-> 2, end |-> 4]

\* Content every source agrees on and stamps that lag, as in peering.
Agreed ==
    [Compared EXCEPT !.anyArrival = TRUE, !.lag = 1, !.maxSettled = 2, !.maxRolling = 2,
                     !.signatures = 1, !.arrivals = 2, !.end = 5]

\* One source, sealed at once, over the life of a tombstone.
Single ==
    [providers |-> {a}, reference |-> a, anyArrival |-> FALSE,
     timeout |-> 1, window |-> 2, lag |-> 0, maxPending |-> 1, maxSettled |-> 2, maxRolling |-> 2,
     signatures |-> 2, bases |-> {f1, f2, f3}, contents |-> {w},
     arrivals |-> 4, lastArrival |-> 4, end |-> 5]

MCConfigs  == {Compared, Agreed, Single}
MCCompared == {Compared}

Interchangeable ==
    Permutations({x, y, z}) \cup Permutations({e1, e2}) \cup Permutations({f1, f2, f3})
=============================================================================
