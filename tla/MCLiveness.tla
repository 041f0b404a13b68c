----------------------------- MODULE MCLiveness -----------------------------
(***************************************************************************)
(* What must happen in a process, for TLC: the outbox delivers and its     *)
(* worker stops, and the admission of cohorts seals its bases.  The two    *)
(* have the publication between them and share no state, so a behaviour of *)
(* one is a behaviour of it in company: one is chosen at the start, and it *)
(* alone takes steps.                                                      *)
(***************************************************************************)
EXTENDS MCOutbox

CONSTANTS Configs, QueueCap, a, b, x, e1, e2

VARIABLES
    part,          \* the component that takes the steps
    config, clock, stamped, queue, queueDropped, left, loop, now, obs, expired, sealing, final,
    pending, settledBases, settled, cohorts, coverage, lastLoss, evictions, count, verdicts,
    opened

Admission == INSTANCE Cohort WITH dropped <- queueDropped

admissionVars == <<config, clock, stamped, queue, queueDropped, left, loop, now, obs, expired,
                   sealing, final, pending, settledBases, settled, cohorts, coverage, lastLoss,
                   evictions, count, verdicts, opened>>

\* Two sources that agree on the content, with stamps that lag, and room for one pending base.
MCAgreed ==
    {[providers |-> {a, b}, reference |-> a, anyArrival |-> TRUE,
      timeout |-> 1, window |-> 1, lag |-> 1, maxPending |-> 1, maxSettled |-> 1,
      maxRolling |-> 1, signatures |-> 1, bases |-> {e1, e2}, contents |-> {x},
      arrivals |-> 2, lastArrival |-> 1, end |-> 3]}
-----------------------------------------------------------------------------
LivenessInit == part \in {"admission", "delivery"} /\ Init /\ Admission!Init

Admitting  == part = "admission" /\ Admission!Next /\ UNCHANGED <<part, vars>>
Delivering == part = "delivery" /\ Next /\ UNCHANGED <<part, admissionVars>>

\* The part that runs is as fair as its module says (Cohort, Fairness; Outbox, Scheduling).
AdmissionFairness ==
    /\ WF_admissionVars(part = "admission" /\ Admission!Running)
    /\ SF_admissionVars(part = "admission" /\ Admission!Advance)
    /\ SF_admissionVars(part = "admission" /\ Admission!BeginTick)

DeliveryFairness ==
    /\ WF_vars(part = "delivery" /\ WorkerStep)
    /\ WF_vars(part = "delivery" /\ PersistStep)
    /\ WF_vars(part = "delivery" /\ ExitPoisoned)
    /\ WF_vars(part = "delivery" /\ Open)

LivenessSpec ==
    /\ LivenessInit /\ [][Admitting \/ Delivering]_<<part, vars, admissionVars>>
    /\ AdmissionFairness /\ DeliveryFairness
-----------------------------------------------------------------------------
EveryBaseSealed == Admission!EveryBaseSealed
=============================================================================
