---------------------------- MODULE Publication ----------------------------
(***************************************************************************)
(* Publication of the outcomes of complete cohorts: `window_events',       *)
(* `commit_prepared_publication' and `reject_prepared_publication' of      *)
(* src/benchmark.rs, driven by `publish_window' and the loop of            *)
(* src/main.rs, for one coin of a comparison dataset.                      *)
(*                                                                         *)
(* A publication counts the cohorts no earlier one has counted and offers  *)
(* the batch to the outbox (module Outbox).  The loop waits for the        *)
(* answer; the cohorts are marked, and the cursor moves, after the batch   *)
(* is durable.  Two clocks are at work: the monotonic one orders cohorts   *)
(* and drives the tick, the wall clock names the interval.  The process    *)
(* may be killed at any moment; its successor is a run of its own.         *)
(***************************************************************************)
EXTENDS Integers, FiniteSets, Sequences

CONSTANTS
    Interval,    \* publish_interval
    Window,      \* rolling_window
    MaxRolling,  \* max_rolling_cohorts
    Delay,       \* bound: how long an arrival may wait in the receipt queue
    MaxCohorts,  \* bound: complete cohorts in a behaviour
    MaxRuns,     \* bound: runs of the process
    MaxSteps,    \* bound: corrections of the wall clock, each by one unit
    MaxTime      \* bound: the monotonic clock stops here

ASSUME PublicationAssumption ==
    /\ Interval \in Nat \ {0} /\ Window \in Nat /\ MaxRolling \in Nat \ {0}
    /\ Delay \in Nat /\ MaxCohorts \in Nat /\ MaxRuns \in Nat \ {0}
    /\ MaxSteps \in Nat /\ MaxTime \in Nat

VARIABLES
    clock,         \* the monotonic clock
    wall,          \* the wall clock
    stepsLeft,     \* corrections of the wall clock still to come
    runId,         \* run_id
    due,           \* the next deadline of the publish interval
    phase          \* of publish_window: idle, submitting or durable

VARIABLES
    ring,          \* CoinWindow.cohorts: what of a cohort outcomes depend on
    lastLoss,      \* CoinWindow.last_integrity_loss
    cursor,        \* Benchmark.outcome_cursor
    cursorWall,    \* Benchmark.outcome_cursor_wall_ms
    hasPublished,  \* Benchmark.outcome_has_published
    prepared,      \* Benchmark.prepared_outcome_interval, none or one
    offered        \* the batch given to submit(), none or one

(***************************************************************************)
(* History, read by no guard: the batches made durable, in order, and every *)
(* complete cohort with the run and the batches it came after.             *)
(***************************************************************************)
VARIABLES durable, entered

timeVars    == <<clock, wall, stepsLeft>>
cursorVars  == <<cursor, cursorWall, hasPublished>>
publicationVars ==
    <<timeVars, runId, due, phase, ring, lastLoss, cursorVars, prepared, offered, durable, entered>>

NoLoss == -1
-----------------------------------------------------------------------------
\* Instant::saturating_duration_since
Since(t, from) == IF t < from THEN 0 ELSE t - from

\* aligned_window_end_ms
Aligned(t) == t - (t % Interval)

\* next_publish_deadline: the next multiple of the interval on the wall clock.
FirstDue == clock + Interval - (wall % Interval)

\* tokio's interval with MissedTickBehavior::Skip: deadlines missed are skipped.
NextDue == due + Interval * ((clock - due) \div Interval + 1)

\* The cohort at the front of the ring; ids grow in the order of insertion.
OldestCohort(S) ==
    CHOOSE x \in S : \A y \in S : x.at < y.at \/ (x.at = y.at /\ x.id <= y.id)

\* Mutant: the ring holds one cohort more than its cap.
OverCap_OffByOne(S) == Cardinality(S) > MaxRolling + 1

OverCap(S) == Cardinality(S) > MaxRolling
-----------------------------------------------------------------------------
(* Time, and cohorts becoming complete while the loop is free. *)

Elapse ==
    /\ clock < MaxTime
    /\ clock' = clock + 1 /\ wall' = wall + 1
    /\ UNCHANGED <<stepsLeft, runId, due, phase, ring, lastLoss, cursorVars, prepared, offered,
                   durable, entered>>

\* The wall clock is corrected by one unit.
StepWall ==
    /\ stepsLeft > 0
    /\ \E step \in {-1, 1} : wall + step >= 0 /\ wall' = wall + step
    /\ stepsLeft' = stepsLeft - 1
    /\ UNCHANGED <<clock, runId, due, phase, ring, lastLoss, cursorVars, prepared, offered, durable,
                   entered>>

\* finalize_candidate pushes a complete cohort.  It carries its last arrival (at),
\* and a loss the time its base was settled (t): both may lie behind the clock,
\* because observations wait in the queue.
Complete ==
    /\ phase = "idle" /\ Cardinality(entered) < MaxCohorts
    /\ \E t \in 0 .. clock : \E at \in 0 .. t :
        LET id     == Cardinality(entered) + 1
            longer == ring \cup {[id |-> id, at |-> at, reported |-> FALSE]}
        IN
        /\ at + Delay >= clock
        /\ IF OverCap(longer)
           THEN ring' = longer \ {OldestCohort(longer)} /\ lastLoss' = t
           ELSE ring' = longer /\ UNCHANGED lastLoss
        /\ entered' = entered \cup {[id |-> id, run |-> runId, after |-> Len(durable),
                                     wall |-> wall - (clock - at)]}
    /\ UNCHANGED <<timeVars, runId, due, phase, cursorVars, prepared, offered, durable>>

\* prune(): cohorts older than the rolling window leave the ring.
Pruned == {x \in ring : Since(clock, x.at) <= Window}

\* The maintenance tick.
Maintain ==
    /\ phase = "idle"
    /\ ring' = Pruned
    /\ UNCHANGED <<timeVars, runId, due, phase, lastLoss, cursorVars, prepared, offered, durable,
                   entered>>
-----------------------------------------------------------------------------
(* publish_window(): the publish tick. *)

\* Mutant: only the monotonic clock is compared with the cursor.
Overtaken_Wall == clock <= cursor

\* The interval is empty on one of the clocks: nothing is published.
Overtaken == Aligned(wall) <= cursorWall \/ clock <= cursor

\* unreported_outcomes
Unreported(S) == {x \in S : ~x.reported /\ x.at <= clock}

\* Mutant: a loss is forgotten after one publication interval.
Intact_Briefly == lastLoss = NoLoss \/ Since(clock, lastLoss) > Interval

Intact == lastLoss = NoLoss \/ Since(clock, lastLoss) > Window

\* outcome_interval_complete: nominal duration, not the first of its run, no loss in
\* the window; the health of streams, queue and clock is whatever it is.
MayBeComplete == hasPublished /\ Aligned(wall) - cursorWall = Interval /\ Intact

Skip ==
    /\ phase = "idle" /\ clock >= due /\ Overtaken
    /\ due' = NextDue
    /\ ring' = Pruned
    /\ prepared' = <<>>
    /\ UNCHANGED <<timeVars, runId, phase, lastLoss, cursorVars, offered, durable, entered>>

Prepare ==
    /\ phase = "idle" /\ clock >= due /\ ~Overtaken
    /\ due' = NextDue
    /\ ring' = Pruned
    /\ prepared' = <<[end |-> clock, endWall |-> Aligned(wall)]>>
    /\ \E healthy \in BOOLEAN :
        offered' = <<[run |-> runId, start |-> cursorWall, end |-> Aligned(wall),
                      counted |-> {x.id : x \in Unreported(Pruned)},
                      complete |-> healthy /\ MayBeComplete]>>
    /\ phase' = "submitting"
    /\ UNCHANGED <<timeVars, runId, lastLoss, cursorVars, durable, entered>>

\* Mutant: cohorts exactly at the end of the interval are not marked.
Marked_Strictly(S, through) ==
    {IF x.at < through THEN [x EXCEPT !.reported = TRUE] ELSE x : x \in S}

\* mark_outcomes_reported
Marked(S, through) == {IF x.at <= through THEN [x EXCEPT !.reported = TRUE] ELSE x : x \in S}

\* submit() has made the batch durable; its answer is yet to be read.
Admit ==
    /\ phase = "submitting"
    /\ durable' = Append(durable, offered[1])
    /\ phase' = "durable"
    /\ UNCHANGED <<timeVars, runId, due, ring, lastLoss, cursorVars, prepared, offered, entered>>

\* Mutant: the ring is marked whatever the outbox answered.
RingAfter_Anyway(accepted) == Marked(ring, prepared[1].end)

RingAfter(accepted) == IF accepted THEN Marked(ring, prepared[1].end) ELSE ring

\* publish_window returns to the loop.
Answered(accepted) ==
    /\ ring' = RingAfter(accepted)
    /\ prepared' = <<>> /\ offered' = <<>> /\ phase' = "idle"
    /\ UNCHANGED <<timeVars, runId, due, lastLoss, durable, entered>>

\* The prepared interval ends after the last one, on both clocks.
MovesCursor == prepared[1].endWall > cursorWall /\ prepared[1].end > cursor

\* commit_prepared_publication after submit() answered Ok(true).
Commit ==
    /\ phase = "durable"
    /\ Answered(MovesCursor)
    /\ IF MovesCursor
       THEN /\ cursor' = prepared[1].end
            /\ cursorWall' = prepared[1].endWall
            /\ hasPublished' = TRUE
       ELSE UNCHANGED cursorVars

\* reject_prepared_publication after Ok(false): the outbox is full or could not write.
Reject ==
    /\ phase = "submitting"
    /\ Answered(FALSE)
    /\ UNCHANGED cursorVars

\* The process is killed, or leaves by itself because submit() failed or took too
\* long; the supervisor starts another.  Nothing of Benchmark is persistent.
Restart ==
    /\ runId < MaxRuns
    /\ runId' = runId + 1
    /\ ring' = {} /\ lastLoss' = NoLoss
    /\ cursor' = clock /\ cursorWall' = wall /\ hasPublished' = FALSE
    /\ prepared' = <<>> /\ offered' = <<>> /\ phase' = "idle"
    /\ due' = FirstDue
    /\ UNCHANGED <<timeVars, durable, entered>>
-----------------------------------------------------------------------------
PublicationInit ==
    /\ clock = 0 /\ wall \in 0 .. Interval - 1 /\ stepsLeft = MaxSteps
    /\ runId = 1 /\ phase = "idle"
    /\ due = FirstDue
    /\ ring = {} /\ lastLoss = NoLoss
    /\ cursor = clock /\ cursorWall = wall /\ hasPublished = FALSE
    /\ prepared = <<>> /\ offered = <<>>
    /\ durable = <<>> /\ entered = {}

PublicationNext == Elapse \/ StepWall \/ Complete \/ Maintain
        \/ Skip \/ Prepare \/ Admit \/ Commit \/ Reject \/ Restart

PublicationSpec == PublicationInit /\ [][PublicationNext]_publicationVars
-----------------------------------------------------------------------------
(* Properties *)

Sample == [id : Nat, at : Nat, reported : BOOLEAN]
Batch == [run : Nat, start : Nat, end : Nat, counted : SUBSET Nat, complete : BOOLEAN]

\* Every variable has its type; the ring is within its cap and a batch is on offer
\* exactly while publish_window runs.
PublicationTypeOK ==
    /\ clock \in Nat /\ wall \in Nat /\ stepsLeft \in Nat
    /\ runId \in Nat \ {0} /\ due \in Nat
    /\ phase \in {"idle", "submitting", "durable"}
    /\ ring \subseteq Sample /\ IsFiniteSet(ring) /\ Cardinality(ring) <= MaxRolling
    /\ lastLoss \in Nat \cup {NoLoss}
    /\ cursor \in Nat /\ cursorWall \in Nat /\ hasPublished \in BOOLEAN
    /\ IF phase = "idle"
       THEN prepared = <<>> /\ offered = <<>>
       ELSE /\ prepared \in Seq([end : Nat, endWall : Nat]) /\ Len(prepared) = 1
            /\ offered \in Seq(Batch) /\ Len(offered) = 1
    /\ durable \in Seq(Batch)
    /\ entered \subseteq [id : Nat, run : Nat, after : Nat, wall : Int] /\ IsFiniteSet(entered)

\* Each publication "counts each complete cohort exactly once"
\* (docs/METHODOLOGY.md:281): no cohort is counted by two durable batches, whatever is
\* rejected, retried or lost in between.
CountedOnce ==
    \A i, j \in DOMAIN durable :
        i # j => durable[i].counted \cap durable[j].counted = {}

\* While the loop is free, a cohort of the ring is marked if and only if a durable
\* batch counts it: a rejected batch keeps its cohorts for the next one, and what is
\* marked is never missing from the outbox.
ReportedIsDurable ==
    phase = "idle" =>
        \A x \in ring :
            x.reported <=> \E i \in DOMAIN durable : x.id \in durable[i].counted

\* The intervals of one run are not empty, end on a multiple of the publication
\* interval and follow each other without gap or overlap, so that no two have the
\* same identity; and as long as nobody corrects the wall clock, a run starts after
\* the last interval of the run before.
IntervalsAbut ==
    \A i \in DOMAIN durable :
        /\ durable[i].start < durable[i].end /\ durable[i].end % Interval = 0
        /\ i + 1 \in DOMAIN durable =>
            /\ durable[i].run = durable[i + 1].run => durable[i].end = durable[i + 1].start
            /\ stepsLeft = MaxSteps => durable[i].end <= durable[i + 1].start

\* An interval marked complete counts exactly the cohorts that became complete since
\* the batch before it.
CompleteIsAll ==
    \A i \in DOMAIN durable : durable[i].complete =>
        durable[i].counted =
            {c.id : c \in {e \in entered : e.run = durable[i].run /\ e.after = i - 1}}

\* outcome_complete_cohort_count is the "complete exact cohorts committed in this
\* interval", between "half-open outcome interval boundaries"
\* (docs/DATA_DICTIONARY.md:117 and 114); the boundary itself is let pass here.
CountedWithinBoundaries ==
    \A i \in DOMAIN durable : \A e \in entered :
        e.id \in durable[i].counted =>
            durable[i].start <= e.wall /\ e.wall <= durable[i].end
=============================================================================
