------------------------------- MODULE Cohort -------------------------------
(***************************************************************************)
(* Cohort admission of src/benchmark.rs (`Benchmark::record', `tick',      *)
(* `settle', `finalize_candidate', `prune') with the receipt queue of      *)
(* src/model.rs in front of it (`ProbeSender::send'), for one coin.        *)
(*                                                                         *)
(* Stream tasks stamp an observation and then try to queue it.  A market   *)
(* stream stamps what it has just decoded; a peering leg or a join gives a *)
(* round or a bundle the time its last part arrived, and may do so later   *)
(* and for the rounds of one read in any order (src/peering.rs,            *)
(* `drain_ready'; src/vpc_mempool.rs, `expire').  So the stamps in the     *)
(* queue are in order for each provider and base, and in no order across   *)
(* providers, or, when stamps lag, across bases.  One loop (`main.rs')     *)
(* takes observations from the queue and, on its maintenance and           *)
(* publication ticks, seals the bases whose deadline is over; which of the *)
(* two it does next is chosen at random.  A handler of the loop runs to    *)
(* its end without waiting, so its steps are not interleaved with          *)
(* stamping, queueing and time; they are steps of their own because maps   *)
(* are walked in no fixed order.                                           *)
(***************************************************************************)
EXTENDS Integers, FiniteSets, Sequences, Functions, SequencesExt

CONSTANTS
    Configs,       \* what a behaviour may run with
    QueueCap       \* EVENT_QUEUE_CAPACITY

VARIABLE config    \* BenchmarkConfig, with the bounds of the behaviour; never changed

Providers   == config.providers   \* BenchmarkConfig::providers()
Reference   == config.reference   \* BenchmarkConfig::reference_provider()
AnyArrival  == config.anyArrival  \* BenchmarkConfig::canonical_by_any_arrival()
Timeout     == config.timeout     \* cohort_timeout
Window      == config.window      \* rolling_window
MaxPending  == config.maxPending  \* max_pending
MaxSettled  == config.maxSettled  \* max_settled
MaxRolling  == config.maxRolling  \* max_rolling_cohorts
MaxSignatures == config.signatures \* MAX_SIGNATURES_PER_BASE
Bases       == config.bases       \* BaseKey: coin, event time and trade id, hash or round
Contents    == config.contents    \* ContentKey: the canonical content claimed for a base
Lag         == config.lag         \* how long after its stamp an observation may be emitted
MaxArrivals == config.arrivals    \* bound: observations stamped in a behaviour
LastArrival == config.lastArrival \* bound: no observation is stamped after this time
MaxTime     == config.end         \* bound: the clock stops here

ASSUME ConfigsAssumption ==
    \A c \in Configs :
        /\ IsFiniteSet(c.providers) /\ c.reference \in c.providers /\ c.anyArrival \in BOOLEAN
        /\ c.timeout \in Nat \ {0} /\ c.window \in Nat /\ c.lag \in Nat
        /\ {c.maxPending, c.maxSettled, c.maxRolling, c.signatures} \subseteq Nat \ {0}
        /\ {c.arrivals, c.lastArrival, c.end} \subseteq Nat

ASSUME QueueAssumption == QueueCap \in Nat \ {0}

VARIABLES
    clock,         \* the monotonic clock
    stamped,       \* for each provider: stamped and not yet queued, none or one
    queue,         \* the bounded receipt queue
    dropped,       \* for each provider: StreamSignal.queue_dropped
    left           \* observations the behaviour may still stamp

VARIABLES
    loop,          \* what the main loop is doing: see LoopStates
    now,           \* the time argument of the running handler
    obs,           \* the observation being recorded
    expired,       \* bases the running tick still has to settle
    sealing,       \* what settle() knows of the base it is finalizing
    final          \* its canonical candidates not finalized yet

VARIABLES
    pending,       \* Benchmark.pending
    settledBases,  \* Benchmark.settled_bases
    settled,       \* Benchmark.settled
    cohorts,       \* CoinWindow.cohorts, the ring of complete cohorts
    coverage,      \* CoinWindow.coverage
    lastLoss,      \* CoinWindow.last_integrity_loss
    evictions,     \* the three eviction counters of CoinWindow
    count          \* the ProviderCounters of each provider

(***************************************************************************)
(* History, read by no guard.                                              *)
(***************************************************************************)
VARIABLES
    verdicts,      \* the candidates finalized so far
    opened         \* when each base sealed so far was first observed

receiptVars == <<clock, stamped, queue, dropped, left>>
handlerVars == <<loop, now, obs, expired, sealing, final>>
mapVars     == <<pending, settledBases, settled>>
windowVars  == <<cohorts, coverage, lastLoss, evictions>>
historyVars == <<verdicts, opened>>
vars == <<config, receiptVars, handlerVars, mapVars, windowVars, count, historyVars>>

\* What a message claims: a content for a base, or an event time that is zero or
\* ahead of the wall clock, which record_market rejects.
Anomaly == <<0, 0>>
Claims  == (Bases \X Contents) \cup {Anomaly}

LoopStates == {"idle", "record", "admitted", "tick", "view"}
Counters   == {"observed", "matched", "missing", "mismatch", "duplicate", "late",
               "orphaned", "overflow", "malformed"}
NoLoss     == -1
NoObs      == [prov |-> Reference, claim |-> Anomaly, at |-> 0]
NoSealing  == [base |-> 0, first |-> 0, heard |-> {}, stray |-> {}]
-----------------------------------------------------------------------------
(***************************************************************************)
(* Time, maps and counters.                                                *)
(***************************************************************************)
\* Instant::saturating_duration_since
Since(t, from) == IF t < from THEN 0 ELSE t - from

Earlier(s, t) == IF s < t THEN s ELSE t

Put(f, k, v) == [x \in DOMAIN f \cup {k} |-> IF x = k THEN v ELSE f[x]]
Without(f, S) == Restrict(f, DOMAIN f \ S)

\* The keys min_by_key may return, time being what it compares.
Oldest(time) == {k \in DOMAIN time : \A j \in DOMAIN time : time[k] <= time[j]}

Add(p, what) == [count EXCEPT ![p][what] = @ + 1]

\* Insertion by time, after the entries of the same time.
InsertByTime(s, x) ==
    LET later == SelectInSeq(s, LAMBDA y : y.at > x.at)
    IN  InsertAt(s, IF later = 0 THEN Len(s) + 1 ELSE later, x)

\* The ring after a push: over its cap it loses its oldest entry.
Pushed(s, x) ==
    LET longer == InsertByTime(s, x)
    IN  IF Len(longer) > MaxRolling THEN Tail(longer) ELSE longer
Overflows(s) == Len(s) + 1 > MaxRolling

\* A handler returns to the loop.
Return == loop' = "idle" /\ now' = 0 /\ obs' = NoObs /\ sealing' = NoSealing
-----------------------------------------------------------------------------
(***************************************************************************)
(* Receipt: stream tasks, the queue and time.                              *)
(***************************************************************************)
\* What a provider reports of one base it stamps in order: a repeat comes later.
InOrder(p, base, at) ==
    /\ \A i \in DOMAIN queue :
        queue[i].prov = p /\ queue[i].claim # Anomaly /\ queue[i].claim[1] = base => queue[i].at <= at
    /\ base \in DOMAIN pending => \A h \in pending[base].heard : h.prov = p => h.at <= at

\* A stream task has an observation for the loop: stamped as it is decoded, or, where stamps
\* lag, with the earlier time at which the last part of it arrived.
Stamp(p) ==
    /\ loop = "idle" /\ left > 0 /\ clock <= LastArrival
    /\ stamped[p] = <<>>
    /\ \E claim \in Claims, at \in Since(clock, Lag) .. clock :
        /\ claim = Anomaly \/ InOrder(p, claim[1], at)
        /\ stamped' = [stamped EXCEPT ![p] = <<[prov |-> p, claim |-> claim, at |-> at]>>]
    /\ left' = left - 1
    /\ UNCHANGED <<config, clock, queue, dropped, handlerVars, mapVars, windowVars, count,
                   historyVars>>

\* Mutant: the queue takes one observation more than its capacity.
QueueHasRoom_OffByOne == Len(queue) <= QueueCap

QueueHasRoom == Len(queue) < QueueCap

\* ProbeSender::send: try_send never waits; a full queue is counted.
Send(p) ==
    /\ loop = "idle" /\ stamped[p] # <<>>
    /\ stamped' = [stamped EXCEPT ![p] = <<>>]
    /\ IF QueueHasRoom
       THEN queue' = Append(queue, Head(stamped[p])) /\ UNCHANGED dropped
       ELSE dropped' = [dropped EXCEPT ![p] = @ + 1] /\ UNCHANGED queue
    /\ UNCHANGED <<config, clock, left, handlerVars, mapVars, windowVars, count, historyVars>>

Advance ==
    /\ loop = "idle" /\ clock < MaxTime
    /\ clock' = clock + 1
    /\ UNCHANGED <<config, stamped, queue, dropped, left, handlerVars, mapVars, windowVars,
                   count, historyVars>>
-----------------------------------------------------------------------------
(***************************************************************************)
(* settle(): the base leaves pending as a unit.                            *)
(***************************************************************************)
\* Mutant: an arrival exactly at the deadline is still in time.
Timely_Inclusive(p, c) ==
    {q \in DOMAIN p.cands[c].arr : p.cands[c].arr[q] - p.first <= Timeout}

\* The providers whose arrival of c came before the deadline of the base.
Timely(p, c) == {q \in DOMAIN p.cands[c].arr : p.cands[c].arr[q] - p.first < Timeout}

Canonical(p) ==
    {c \in DOMAIN p.cands :
        IF AnyArrival THEN Timely(p, c) # {} ELSE Reference \in Timely(p, c)}

\* insert_settled_base: at its cap the oldest tombstone is lost.
InsertSettledBase(base, at, evicted) ==
    LET full == Cardinality(DOMAIN settledBases) >= MaxSettled IN
    /\ \E gone \in IF full
                   THEN {{b} : b \in Oldest(settledBases)}
                   ELSE {{}} :
        settledBases' = Put(Without(settledBases, gone), base, at)
    /\ evictions' = evictions + (IF full THEN 1 ELSE 0) + (IF evicted THEN 1 ELSE 0)
    /\ lastLoss' = IF full \/ evicted THEN at ELSE lastLoss

\* Mutant: arrivals after the deadline are taken out without being counted.
LateContents_Uncounted(p, q) == {}

LateContents(p, q) == {c \in DOMAIN p.cands : q \in DOMAIN p.cands[c].arr \ Timely(p, c)}

\* What q sent in time and the reference did not.
Orphaned(p, q) == {c \in DOMAIN p.cands \ Canonical(p) : q \in Timely(p, c)}

Settle(base, evicted) ==
    LET p == pending[base] IN
    /\ pending' = Without(pending, {base})
    /\ InsertSettledBase(base, now, evicted)
    /\ count' = [q \in Providers |->
                    [count[q] EXCEPT !["late"] = @ + Cardinality(LateContents(p, q)),
                                     !["orphaned"] = @ + Cardinality(Orphaned(p, q))]]
    /\ sealing' = [base |-> base, first |-> p.first, heard |-> p.heard,
                   stray |-> {q \in Providers : Orphaned(p, q) # {}}]
    /\ final' = {[content |-> c, first |-> p.cands[c].first,
                  arr |-> Restrict(p.cands[c].arr, Timely(p, c))] : c \in Canonical(p)}
    /\ opened' = Put(opened, base, p.first)

\* Mutant: the evictions of a verdict are counted and not declared a loss.
LossAfter_CountedOnly(keyEvicted, sampleEvicted, at) == lastLoss

\* The loss declared last: insert_settled comes after the rings, with its own time.
LossAfter(keyEvicted, sampleEvicted, at) ==
    IF keyEvicted THEN at ELSE IF sampleEvicted THEN now ELSE lastLoss

\* finalize_candidate: the verdict on one canonical candidate of the sealed base.
Finalize ==
    /\ loop \in {"record", "admitted", "tick"}
    /\ \E c \in final :
        LET key      == <<sealing.base, c.content>>
            complete == DOMAIN c.arr = Providers
            at       == IF complete THEN Max({c.arr[q] : q \in Providers}) ELSE now
            outcome  == [q \in Providers |->
                            IF q \in DOMAIN c.arr THEN "matched"
                            ELSE IF q \in sealing.stray THEN "mismatch" ELSE "missing"]
            full     == Cardinality(DOMAIN settled) >= MaxSettled
        IN
        /\ final' = final \ {c}
        /\ count' = [q \in Providers |->
                        [count[q] EXCEPT
                            !["matched"]  = IF outcome[q] = "matched" THEN @ + 1 ELSE @,
                            !["missing"]  = IF outcome[q] # "matched" THEN @ + 1 ELSE @,
                            !["mismatch"] = IF outcome[q] = "mismatch" THEN @ + 1 ELSE @]]
        /\ coverage' = Pushed(coverage, [at |-> at, outcome |-> outcome])
        /\ cohorts' = IF complete
                      THEN Pushed(cohorts, [at |-> at, key |-> key, latency |-> c.arr,
                                            delay |-> at - c.first])
                      ELSE cohorts
        /\ \E gone \in IF full
                       THEN {{k} : k \in Oldest([k \in DOMAIN settled |-> settled[k].at])}
                       ELSE {{}} :
            settled' = Put(Without(settled, gone), key, [at |-> at, matched |-> DOMAIN c.arr])
        /\ evictions' = evictions + (IF Overflows(coverage) THEN 1 ELSE 0)
                                  + (IF complete /\ Overflows(cohorts) THEN 1 ELSE 0)
                                  + (IF full THEN 1 ELSE 0)
        /\ lastLoss' = LossAfter(full, Overflows(coverage) \/ (complete /\ Overflows(cohorts)), at)
        /\ verdicts' = verdicts \cup
                       {[key |-> key, at |-> at, matched |-> DOMAIN c.arr,
                         first |-> sealing.first, heard |-> sealing.heard]}
    /\ UNCHANGED <<config, receiptVars, loop, now, obs, expired, sealing, pending, settledBases,
                   opened>>
-----------------------------------------------------------------------------
(***************************************************************************)
(* record_market(): one observation from the queue.                        *)
(***************************************************************************)
Claimed == obs.claim[1]
Content == obs.claim[2]

\* An anomaly is counted and costs the window its integrity.
RecordAnomaly ==
    /\ loop = "idle" /\ queue # <<>> /\ Head(queue).claim = Anomaly
    /\ queue' = Tail(queue)
    /\ count' = Add(Head(queue).prov, "malformed")
    /\ lastLoss' = Head(queue).at
    /\ UNCHANGED <<config, clock, stamped, dropped, left, handlerVars, mapVars, cohorts,
                   coverage, evictions, historyVars>>

BeginRecord ==
    /\ loop = "idle" /\ queue # <<>> /\ Head(queue).claim # Anomaly
    /\ queue' = Tail(queue)
    /\ obs' = Head(queue) /\ now' = Head(queue).at
    /\ count' = Add(Head(queue).prov, "observed")
    /\ loop' = "record"
    /\ UNCHANGED <<config, clock, stamped, dropped, left, expired, sealing, final, mapVars,
                   windowVars, historyVars>>

IsPending == Claimed \in DOMAIN pending
IsSealed  == Claimed \in DOMAIN settledBases
IsExpired == IsPending /\ Since(obs.at, pending[Claimed].first) >= Timeout
NeedsRoom == ~IsPending /\ Cardinality(DOMAIN pending) >= MaxPending

\* The observation comes after the deadline of its own base: seal it first.
RecordExpired ==
    /\ loop = "record" /\ final = {} /\ IsExpired
    /\ Settle(Claimed, FALSE)
    /\ UNCHANGED <<config, receiptVars, loop, now, obs, expired, settled, cohorts, coverage,
                   verdicts>>

\* The base is sealed: a repeat or a late arrival, and never a new candidate.
RecordSealed ==
    /\ loop = "record" /\ final = {} /\ ~IsExpired /\ IsSealed
    /\ count' = Add(obs.prov,
                    IF obs.claim \in DOMAIN settled /\ obs.prov \in settled[obs.claim].matched
                    THEN "duplicate" ELSE "late")
    /\ Return
    /\ UNCHANGED <<config, receiptVars, expired, final, mapVars, windowVars, historyVars>>

\* No room for a new base: the oldest pending one is sealed before its time.
RecordMakesRoom ==
    /\ loop = "record" /\ final = {} /\ ~IsExpired /\ ~IsSealed /\ NeedsRoom
    /\ \E base \in Oldest([b \in DOMAIN pending |-> pending[b].first]) : Settle(base, TRUE)
    /\ UNCHANGED <<config, receiptVars, loop, now, obs, expired, settled, cohorts, coverage,
                   verdicts>>

\* Mutant: the opening time of a base is the stamp of the first arrival queued.
Opened_First(p) == p.first

\* The opening time of a base is its earliest stamp, whatever the queueing order.
Opened(p) == Earlier(p.first, obs.at)

\* The observation joins its base: a new candidate, a new arrival, a repeat, or
\* one content too many.
RecordAdmitted ==
    /\ loop = "record" /\ final = {} /\ ~IsExpired /\ ~IsSealed /\ ~NeedsRoom
    /\ LET base == IF IsPending THEN pending[Claimed]
                   ELSE [first |-> obs.at, cands |-> <<>>, heard |-> {}]
           known == Content \in DOMAIN base.cands
           room  == known \/ Cardinality(DOMAIN base.cands) < MaxSignatures
           p == [base EXCEPT !.first = Opened(base),
                             !.heard = @ \cup {[prov |-> obs.prov, content |-> Content,
                                                at |-> obs.at, kept |-> room]}]
           cand == IF known
                   THEN [p.cands[Content] EXCEPT !.first = Earlier(@, obs.at)]
                   ELSE [first |-> obs.at, arr |-> <<>>]
           with(c) == Put(pending, Claimed, [p EXCEPT !.cands = Put(@, Content, c)])
       IN
       \/ /\ ~room
          /\ pending' = Put(pending, Claimed, p)
          /\ count' = Add(obs.prov, "overflow")
          /\ lastLoss' = obs.at
          /\ Return
       \/ /\ room /\ obs.prov \in DOMAIN cand.arr
          /\ pending' = with(cand)
          /\ count' = Add(obs.prov, "duplicate")
          /\ Return
          /\ UNCHANGED lastLoss
       \/ /\ room /\ obs.prov \notin DOMAIN cand.arr
          /\ pending' = with([cand EXCEPT !.arr = Put(@, obs.prov, obs.at)])
          /\ loop' = "admitted"
          /\ UNCHANGED <<count, lastLoss, now, obs, sealing>>
    /\ UNCHANGED <<config, receiptVars, expired, final, settledBases, settled, cohorts,
                   coverage, evictions, historyVars>>

\* With one source the base is sealed at once.
SettleImmediately ==
    /\ loop = "admitted" /\ Cardinality(Providers) = 1 /\ IsPending
    /\ Settle(Claimed, FALSE)
    /\ UNCHANGED <<config, receiptVars, loop, now, obs, expired, settled, cohorts, coverage,
                   verdicts>>

EndRecord ==
    /\ loop = "admitted" /\ final = {}
    /\ Cardinality(Providers) = 1 => ~IsPending
    /\ Return
    /\ UNCHANGED <<config, receiptVars, expired, final, mapVars, windowVars, count,
                   historyVars>>
-----------------------------------------------------------------------------
(***************************************************************************)
(* tick(): the maintenance tick, which window_events also begins with.     *)
(***************************************************************************)
\* Mutant: a base is settled only by the tick that falls on its deadline.
Overdue_OnTheDot(p) == Since(clock, p.first) = Timeout

Overdue(p) == Since(clock, p.first) >= Timeout

BeginTick ==
    /\ loop = "idle"
    /\ loop' = "tick"
    /\ now' = clock
    /\ expired' = {b \in DOMAIN pending : Overdue(pending[b])}
    /\ UNCHANGED <<config, receiptVars, obs, sealing, final, mapVars, windowVars, count,
                   historyVars>>

SettleExpired ==
    /\ loop = "tick" /\ final = {}
    /\ \E base \in expired :
        /\ Settle(base, FALSE)
        /\ expired' = expired \ {base}
    /\ UNCHANGED <<config, receiptVars, loop, now, obs, settled, cohorts, coverage, verdicts>>

\* The entries of s at the positions K, in their order: what retain keeps.
Kept(s, K) ==
    LET kept[n \in 0 .. Len(s)] ==
            IF n = 0 THEN <<>>
            ELSE IF n \in K THEN Append(kept[n - 1], s[n]) ELSE kept[n - 1]
    IN  kept[Len(s)]

\* Mutants: tombstones are kept for the cohort timeout only; samples as old as the
\* window are dropped.
Remembered_Briefly(at) == Since(now, at) <= Timeout
InWindow_Strict(s) == Kept(s, {i \in DOMAIN s : Since(now, s[i].at) < Window})

\* prune(): what is older than the rolling window is forgotten.
Remembered(at) == Since(now, at) <= Window
InWindow(s) == Kept(s, {i \in DOMAIN s : Since(now, s[i].at) <= Window})

Prune ==
    /\ loop = "tick" /\ final = {} /\ expired = {}
    /\ settledBases' =
        Restrict(settledBases, {b \in DOMAIN settledBases : Remembered(settledBases[b])})
    /\ settled' =
        Restrict(settled, {k \in DOMAIN settled : Remembered(settled[k].at)})
    /\ cohorts' = InWindow(cohorts)
    /\ coverage' = InWindow(coverage)
    /\ loop' = "view"
    /\ UNCHANGED <<config, receiptVars, now, obs, expired, sealing, final, pending, lastLoss,
                   evictions, count, historyVars>>

\* The tick returns, or the publication that began with it has read the window.
EndTick ==
    /\ loop = "view"
    /\ Return
    /\ UNCHANGED <<config, receiptVars, expired, final, mapVars, windowVars, count,
                   historyVars>>
-----------------------------------------------------------------------------
Init ==
    /\ config \in Configs
    /\ clock = 0 /\ left = MaxArrivals
    /\ stamped = [p \in Providers |-> <<>>] /\ queue = <<>>
    /\ dropped = [p \in Providers |-> 0]
    /\ loop = "idle" /\ now = 0 /\ obs = NoObs
    /\ expired = {} /\ sealing = NoSealing /\ final = {}
    /\ pending = <<>> /\ settledBases = <<>> /\ settled = <<>>
    /\ cohorts = <<>> /\ coverage = <<>>
    /\ lastLoss = NoLoss /\ evictions = 0
    /\ count = [p \in Providers |-> [c \in Counters |-> 0]]
    /\ verdicts = {} /\ opened = <<>>

Receipt == (\E p \in Providers : Stamp(p) \/ Send(p)) \/ Advance

Record == RecordAnomaly \/ BeginRecord \/ RecordExpired \/ RecordSealed
          \/ RecordMakesRoom \/ RecordAdmitted \/ SettleImmediately \/ EndRecord

Tick == BeginTick \/ SettleExpired \/ Prune \/ EndTick

Next == Receipt \/ Record \/ Tick \/ Finalize

Spec == Init /\ [][Next]_vars

\* A handler runs to its end, and time passes however busy the loop is.  The
\* maintenance tick is served however many observations wait: select! polls its
\* branches in random order.
Running == RecordExpired \/ RecordSealed \/ RecordMakesRoom \/ RecordAdmitted
           \/ SettleImmediately \/ EndRecord \/ SettleExpired \/ Prune \/ EndTick \/ Finalize

Fairness == WF_vars(Running) /\ SF_vars(Advance) /\ SF_vars(BeginTick)

FairSpec == Spec /\ Fairness
-----------------------------------------------------------------------------
(* Properties *)

Times == 0 .. MaxTime
Observation == [prov : Providers, claim : Claims, at : Times]

\* Every variable has its type.
TypeOK ==
    /\ clock \in Times /\ left \in 0 .. MaxArrivals
    /\ \A p \in Providers : stamped[p] = <<>> \/ \E o \in Observation : stamped[p] = <<o>>
    /\ queue \in Seq(Observation) /\ Len(queue) <= QueueCap
    /\ dropped \in [Providers -> Nat]
    /\ loop \in LoopStates /\ now \in Times /\ obs \in Observation
    /\ expired \subseteq DOMAIN pending /\ DOMAIN pending \subseteq Bases
    /\ \A e \in DOMAIN pending :
        /\ pending[e].first \in Times
        /\ DOMAIN pending[e].cands \subseteq Contents
        /\ \A c \in DOMAIN pending[e].cands :
            /\ pending[e].cands[c].first \in Times
            /\ DOMAIN pending[e].cands[c].arr \subseteq Providers
            /\ \A p \in DOMAIN pending[e].cands[c].arr : pending[e].cands[c].arr[p] \in Times
    /\ \A c \in final : c.content \in Contents /\ DOMAIN c.arr \subseteq Providers
    /\ DOMAIN settledBases \subseteq Bases /\ Range(settledBases) \subseteq Times
    /\ DOMAIN settled \subseteq Bases \X Contents
    /\ lastLoss \in Times \cup {NoLoss} /\ evictions \in Nat
    /\ count \in [Providers -> [Counters -> Nat]]

\* What p stamped that is not in the queue: in its task's hand, dropped, rejected or recorded.
Handled == [p \in Providers |-> Len(stamped[p]) + dropped[p]
                                + count[p]["malformed"] + count[p]["observed"]]

\* The arrivals of p in pending candidates.
Waits(p) == {k \in (DOMAIN pending) \X Contents :
                k[2] \in DOMAIN pending[k[1]].cands /\ p \in DOMAIN pending[k[1]].cands[k[2]].arr}

\* Every observation is counted in exactly one way: dropped at a full queue, rejected as
\* an anomaly, or recorded; what is recorded matched, came late, was a repeat, had no
\* reference, was one content too many, or waits in a pending candidate; and every
\* verdict says of every provider that it matched or that it is missing.
EveryObservationCounted ==
    loop = "idle" =>
        /\ MaxArrivals - left = Len(queue) + MapThenSumSet(LAMBDA p : Handled[p], Providers)
        /\ \A p \in Providers :
            count[p]["observed"] =
                count[p]["matched"] + count[p]["late"] + count[p]["duplicate"]
                + count[p]["orphaned"] + count[p]["overflow"] + Cardinality(Waits(p))
        /\ \A p, q \in Providers :
            count[p]["matched"] + count[p]["missing"] = count[q]["matched"] + count[q]["missing"]

\* A verdict depends on the stamps and not on the order of the queue: a provider
\* matched if and only if it was stamped before the deadline that the earliest stamp
\* of the whole base set; and every content the reference delivered in time, not one
\* too many, has a verdict.
AdmissionExact ==
    \A v \in verdicts :
        LET opening == Min({h.at : h \in v.heard})
            inTime(c) == {h.prov : h \in {g \in v.heard :
                            g.kept /\ g.content = c /\ g.at - opening < Timeout}}
        IN
        /\ v.matched = inTime(v.key[2])
        /\ final = {} => \A c \in Contents :
            (IF AnyArrival THEN inTime(c) # {} ELSE Reference \in inTime(c)) =>
                \E w \in verdicts : w.key = <<v.key[1], c>> /\ w.heard = v.heard

\* No event is sampled twice in one distribution, unless a tombstone was evicted.
SampledOnce ==
    evictions = 0 =>
        \A i, j \in DOMAIN cohorts : cohorts[i].key = cohorts[j].key => i = j

Whole ==
    LET recent == {v \in verdicts : Since(now, v.at) <= Window} IN
    /\ Len(coverage) = Cardinality(recent)
    /\ Len(cohorts) = Cardinality({v \in recent : v.matched = Providers})

\* As long as no loss was ever declared, what a publication reads is exactly the
\* verdicts of the rolling window.
LosslessIsWhole == loop = "view" /\ lastLoss = NoLoss => Whole

\* "Any cap eviction is published as integrity loss rather than silently producing a
\* percentile" (docs/METHODOLOGY.md:334): a window published as integrity-complete
\* holds every verdict of the rolling window.
IntegrityCompleteIsWhole ==
    loop = "view" /\ (lastLoss = NoLoss \/ Since(now, lastLoss) > Window) => Whole

\* The same of a process with one source that stamps what it has just decoded, as a market
\* stream does (src/streams.rs): its stamps reach the loop in their order, no declared loss
\* moves back, and what docs/METHODOLOGY.md:334 says is true of it.  Of one peering leg it is
\* not: the stamps of two rounds may come in either order.
SingleSourceIsWhole == Cardinality(Providers) = 1 /\ Lag = 0 => IntegrityCompleteIsWhole

\* late_count is "arrivals after deadline" (docs/DATA_DICTIONARY.md:147).
LateIsAfterDeadline ==
    [][\A p \in Providers :
        (loop = "record" /\ count'[p]["late"] > count[p]["late"] /\ IsSealed) =>
            obs.at - opened[Claimed] >= Timeout]_vars

\* Every pending base is sealed sometime, however busy the queue is.
EveryBaseSealed ==
    \A b \in UNION {c.bases : c \in Configs} : (b \in DOMAIN pending) ~> (b \notin DOMAIN pending)
=============================================================================
