------------------------------ MODULE Peering ------------------------------
(***************************************************************************)
(* The wire leg of the peering dataset: `Assembly' of src/peering.rs and   *)
(* the loops that drive it, `run_peering_once' (a subscription of its own) *)
(* and `run_peering_tap_once' (a copy of the node's connection).           *)
(*                                                                         *)
(* A round is ready when its ordering record and every bundle it names     *)
(* have arrived on the wire.  Which bundles those are, and that the round  *)
(* is a block at all, comes from the reference feed, a connection of its   *)
(* own that may lag behind the wire by any time.  Every turn of the loop   *)
(* takes one read, one line or a tick and then drains: rounds that are     *)
(* whole become samples, rounds past the deadline become gaps.  When the   *)
(* session ends the assembly is thrown away, and the next session scores   *)
(* no round produced before its warm-up is over.                           *)
(***************************************************************************)
EXTENDS Integers, FiniteSets, FiniteSetsExt, Functions

CONSTANTS
    Produced,      \* the chain: round |-> the time its block is produced
    Bundles,       \* the chain: round |-> the bundles its block names; an empty round is no block
    Stray,         \* rounds the ordering scan finds and the chain never made
    Deadline,      \* INCOMPLETE_DEADLINE
    Warmup,        \* SUBSCRIPTION_WARMUP
    RoundWindow,   \* ROUND_WINDOW
    RoundRetain,   \* ROUND_RETAIN
    BundleRetain,  \* BUNDLE_RETAIN
    Lag,           \* bound: how long the tap sits on a segment; 0 when dialled
    FrameBound,    \* bound: frames in one read
    MaxReads,      \* bound: reads in a behaviour
    MaxSessions,   \* bound: sessions in a behaviour
    MaxTime        \* bound: the clock stops here

Rounds     == DOMAIN Produced
AnyRound   == Rounds \cup Stray
AllBundles == UNION {Bundles[r] : r \in Rounds}

ASSUME PeeringAssumption ==
    /\ Rounds \subseteq Nat \ {0} /\ IsFiniteSet(Rounds) /\ Produced \in [Rounds -> Nat]
    /\ DOMAIN Bundles = Rounds
    /\ Stray \subseteq Nat \ {0} /\ IsFiniteSet(Stray) /\ Stray \cap Rounds = {}
    /\ \A r \in Rounds : Bundles[r] # {} /\ IsFiniteSet(Bundles[r])
    /\ Deadline \in Nat /\ Warmup \in Nat \ {0}
    /\ RoundWindow \in Nat /\ RoundRetain \in Nat /\ BundleRetain \in Nat
    /\ Lag \in Nat /\ FrameBound \in Nat
    /\ MaxReads \in Nat /\ MaxSessions \in Nat \ {0} /\ MaxTime \in Nat

\* The tap waits REORDER_WAIT (250 ms, tap.rs:22) for a segment, BUNDLE_RETAIN is two minutes.
ASSUME LagAssumption == Lag <= BundleRetain

VARIABLES
    now,        \* the clock
    session,    \* number of the session
    running,    \* the session is up
    reads       \* reads so far

VARIABLES
    rounds,     \* Assembly.rounds: TrackedRound of every tracked round
    bundles,    \* Assembly.bundles: first arrival, and when it was noted
    maxRef,     \* Assembly.max_ref_round
    scoreFrom,  \* Assembly.score_from_ms
    sent        \* the events of the last drain: samples and gaps

(***************************************************************************)
(* History, read by no guard: how often a round was reported, over all     *)
(* sessions; and of this session the first usable arrival of every frame   *)
(* and the time the feed first named each scored round.                    *)
(***************************************************************************)
VARIABLES reports, heard, named

worldVars    == <<session, running, reads>>
assemblyVars == <<rounds, bundles, maxRef, scoreFrom>>
vars == <<now, worldVars, assemblyVars, sent, reports, heard, named>>

NoTime  == -1
Nothing == [samples |-> {}, gaps |-> {}]
Empty   == [x \in {} |-> 0]

Ordering(r) == <<"ordering", r>>
Bundle(b)   == <<"bundle", b>>
Needed(r)   == {Ordering(r)} \cup {Bundle(b) : b \in Bundles[r]}

\* What the wire can carry by time t: ordering records of rounds produced so far,
\* bytes that look like one, and any bundle.
Frames(t) ==
    {Ordering(r) : r \in {q \in Rounds : Produced[q] <= t} \cup Stray}
    \cup {Bundle(b) : b \in AllBundles}
-----------------------------------------------------------------------------
(* Assembly *)

Distance(r, q) == IF r < q THEN q - r ELSE r - q

\* track_ordering looks only at rounds near the newest one the feed has named.
Plausible(r) == maxRef # 0 /\ Distance(r, maxRef) <= RoundWindow

\* Floor of `prune'; saturating_sub.
Floor(newest) == IF newest < RoundRetain THEN 0 ELSE newest - RoundRetain

Fresh(t) == [ordering |-> NoTime, named |-> FALSE, seen |-> t, closed |-> FALSE]

Entry(r, t) == IF r \in DOMAIN rounds THEN rounds[r] ELSE Fresh(t)

\* Mutant: a re-served ordering record moves the boundary.
Timed_Last(e, t) == [e EXCEPT !.ordering = t]

\* The first copy wins.
Timed(e, t) == IF e.ordering = NoTime THEN [e EXCEPT !.ordering = t] ELSE e

\* track_ordering for the ordering records R of one read that arrived at t.
TrackOrderings(R, t) ==
    [r \in DOMAIN rounds \cup R |-> IF r \in R THEN Timed(Entry(r, t), t) ELSE rounds[r]]

\* track_bundle for the bundles B of one read that arrived at t.
TrackBundles(B, t) ==
    [b \in DOMAIN bundles \cup B |->
        IF b \in DOMAIN bundles THEN bundles[b] ELSE [at |-> t, noted |-> now]]

\* Mutant: rounds of the attach replay are scored.
Scored_Always(r) == TRUE

\* A round produced before the warm-up is over is neither a sample nor a gap.
Scored(r) == Produced[r] >= scoreFrom

\* track_reference, once the line is parsed and every bundle has a signature.
TrackReference(r) ==
    IF Scored(r)
    THEN [q \in DOMAIN rounds \cup {r} |->
            IF q = r THEN [Entry(r, now) EXCEPT !.named = TRUE] ELSE rounds[q]]
    ELSE Restrict(rounds, DOMAIN rounds \ {r})

Whole(r, e, held) == e.named /\ e.ordering # NoTime /\ Bundles[r] \subseteq DOMAIN held

\* Mutant: the deadline runs from the ordering record.
Overdue_Ordered(e) == e.ordering # NoTime /\ now - e.ordering > Deadline

Overdue(e) == now - e.seen > Deadline

\* The boundary: the last required arrival.
ReadyAt(r, e, held) == Max({e.ordering} \cup {held[b].at : b \in Bundles[r]})

\* Mutants: a round past the deadline is a gap whether the feed named it or not;
\* only a round whose ordering record came is one.
IsGap_Unnamed(e) == TRUE
IsGap_Ordered(e) == e.named /\ e.ordering # NoTime

\* A round the feed never named is no block the service failed to deliver.
IsGap(e) == e.named

\* Mutant: pruning is left to a later turn.
Retained_All(rs) == DOMAIN rs

Retained(rs) == {r \in DOMAIN rs : r >= Floor(maxRef')}

\* Of the rounds still open, what drain_ready finds in the rounds rs and the bundles held.
Samples(rs, held) == {r \in DOMAIN rs : ~rs[r].closed /\ Whole(r, rs[r], held)}
Expired(rs, held) ==
    {r \in DOMAIN rs : ~rs[r].closed /\ ~Whole(r, rs[r], held) /\ Overdue(rs[r])}
Gaps(rs, held)    == {r \in Expired(rs, held) : IsGap(rs[r])}

\* drain_ready, then prune.
Drain(rs, held) ==
    /\ rounds' = [r \in Retained(rs) |->
                    [rs[r] EXCEPT !.closed = @ \/ r \in Samples(rs, held) \cup Expired(rs, held)]]
    /\ bundles' = Restrict(held, {b \in DOMAIN held : now - held[b].noted < BundleRetain})
    /\ sent' = [samples |-> {[round |-> r, at |-> ReadyAt(r, rs[r], held)]
                                : r \in Samples(rs, held)},
                gaps |-> Gaps(rs, held)]
    /\ reports' = [r \in AnyRound |->
                    reports[r] + (IF r \in Samples(rs, held) \cup Gaps(rs, held) THEN 1 ELSE 0)]
-----------------------------------------------------------------------------
(* The turns of the loop. *)

\* The socket is read, or the tap delivers what the kernel received up to Lag ago.
\* track_payload: of the ordering records only the plausible ones are tracked.
Read ==
    /\ running /\ reads < MaxReads
    /\ \E lag \in 0 .. Lag :
        LET t == now - lag IN
        \E chunk \in UNION {kSubset(k, Frames(t)) : k \in 1 .. FrameBound} :
            LET R == {r \in AnyRound : Ordering(r) \in chunk /\ Plausible(r)}
                B == {b \in AllBundles : Bundle(b) \in chunk}
                usable == {Ordering(r) : r \in R} \cup {Bundle(b) : b \in B}
            IN
            /\ t >= 0
            /\ maxRef' = maxRef
            /\ Drain(TrackOrderings(R, t), TrackBundles(B, t))
            /\ heard' = [f \in DOMAIN heard \cup usable |->
                            IF f \in DOMAIN heard THEN heard[f] ELSE t]
    /\ reads' = reads + 1
    /\ UNCHANGED <<now, session, running, scoreFrom, named>>

\* A line of the feed, which may name the blocks in any order and more than once.  Lines that
\* cannot be read, or that name a bundle without a signature, are ignored by track_reference.
ReadLine ==
    /\ running
    /\ \E r \in Rounds :
        /\ Produced[r] <= now
        /\ maxRef' = (IF r > maxRef THEN r ELSE maxRef)
        /\ Drain(TrackReference(r), bundles)
        /\ named' = [q \in DOMAIN named \cup (IF Scored(r) THEN {r} ELSE {}) |->
                        IF q \in DOMAIN named THEN named[q] ELSE now]
    /\ UNCHANGED <<now, session, running, reads, scoreFrom, heard>>

\* The maintenance tick.
Maintain ==
    /\ running
    /\ maxRef' = maxRef
    /\ Drain(rounds, bundles)
    /\ UNCHANGED <<now, worldVars, scoreFrom, heard, named>>

\* A closed socket, a read deadline, an oversize frame or the end of the feed: the
\* task returns, Reconnect is sent, and the assembly is gone.
EndSession ==
    /\ running /\ session < MaxSessions
    /\ running' = FALSE
    /\ rounds' = Empty /\ bundles' = Empty /\ maxRef' = 0 /\ sent' = Nothing
    /\ heard' = Empty /\ named' = Empty
    /\ UNCHANGED <<now, session, reads, scoreFrom, reports>>

\* After the backoff: a connection to the feed, then one to the endpoint and a new Assembly.
StartSession ==
    /\ ~running
    /\ running' = TRUE /\ session' = session + 1
    /\ scoreFrom' = now + Warmup
    /\ UNCHANGED <<now, reads, rounds, bundles, maxRef, sent, reports, heard, named>>

Elapse ==
    /\ now < MaxTime
    /\ now' = now + 1
    /\ UNCHANGED <<worldVars, assemblyVars, sent, reports, heard, named>>
-----------------------------------------------------------------------------
Init ==
    /\ now = 0 /\ session = 1 /\ running = TRUE /\ reads = 0
    /\ rounds = Empty /\ bundles = Empty /\ maxRef = 0 /\ scoreFrom = Warmup
    /\ sent = Nothing
    /\ reports = [r \in AnyRound |-> 0] /\ heard = Empty /\ named = Empty

Next == Elapse \/ Read \/ ReadLine \/ Maintain \/ EndSession \/ StartSession

Spec == Init /\ [][Next]_vars
-----------------------------------------------------------------------------
(* Properties *)

Times == {NoTime} \cup 0 .. MaxTime

\* Every variable has its type, and nothing is kept that prune drops: no round behind
\* the floor (peering.rs:245-250).
TypeOK ==
    /\ now \in 0 .. MaxTime /\ session \in 1 .. MaxSessions /\ running \in BOOLEAN
    /\ reads \in 0 .. MaxReads
    /\ DOMAIN rounds \subseteq AnyRound
    /\ \A r \in DOMAIN rounds :
        /\ rounds[r] \in [ordering : Times, named : BOOLEAN, seen : 0 .. MaxTime,
                          closed : BOOLEAN]
        /\ r >= Floor(maxRef)
        /\ rounds[r].named => r \in Rounds
    /\ DOMAIN bundles \subseteq AllBundles
    /\ \A b \in DOMAIN bundles : bundles[b] \in [at : 0 .. MaxTime, noted : 0 .. MaxTime]
    /\ maxRef \in {0} \cup Rounds /\ scoreFrom \in 0 .. MaxTime + Warmup
    /\ reports \in [AnyRound -> Nat]

\* A round is reported once at most, as one sample or one gap, whatever is served again
\* in this session or after a reconnect (docs/METHODOLOGY.md: "one consensus round
\* contributes at most one sample"; drain_ready, prune and score_from_ms).
ReportedOnce == \A r \in AnyRound : reports[r] <= 1

\* A bundle whose first copy may have been pruned.
Forgotten(f) == f[1] = "bundle" /\ now - heard[f] >= BundleRetain

\* A sample carries the last of the first arrivals of what its block names, so neither the
\* lag of the feed nor a re-served frame moves it; if a bundle was forgotten, a later
\* copy may make it later but never earlier (track_ordering, track_bundle, drain_ready).
StampIsBoundary ==
    \A s \in sent.samples :
        LET boundary == Max({heard[f] : f \in Needed(s.round) \cap DOMAIN heard}) IN
        /\ Needed(s.round) \subseteq DOMAIN heard
        /\ s.at >= boundary
        /\ (\A f \in Needed(s.round) : ~Forgotten(f)) => s.at = boundary

\* A gap is a block of the chain of which something has not arrived, or is no longer
\* held: never a stray pattern of the ordering scan, never a round that was complete and
\* merely drained late (drain_ready).  It does not say that every round past the deadline is a
\* gap: one that is whole when it is drained is a sample, see SampleInTime.
GapIsIncomplete ==
    \A r \in sent.gaps :
        /\ r \in DOMAIN named
        /\ \E f \in Needed(r) : f \notin DOMAIN heard \/ Forgotten(f)

\* "A round that does not complete within the five-second cohort deadline is counted through
\* sequence_gaps rather than guessed" (docs/METHODOLOGY.md:229-231): of a sample, the last
\* arrival comes within the deadline of the arrival of the ordering record.
SampleInTime == \A s \in sent.samples : s.at - heard[Ordering(s.round)] <= Deadline

Pending(r) == r \in DOMAIN rounds /\ ~rounds[r].closed

Reported(r) == reports[r] > 0

\* The feed named the round after its ordering record had waited out the deadline.
NamedLate(r) ==
    Ordering(r) \in DOMAIN heard /\ named[r] - heard[Ordering(r)] > Deadline

\* A scored round the feed names in time is pending, or was reported, or has fallen
\* behind the rounds kept: none is lost on the way (track_reference, drain_ready).
NamedRoundsAccounted ==
    \A r \in DOMAIN named :
        Reported(r) \/ Pending(r) \/ r < Floor(maxRef) \/ NamedLate(r)

\* The documents say it of every round: the lag of the feed only delays the report
\* (docs/METHODOLOGY.md:225-231, the header of src/peering.rs).
EveryRoundAccounted ==
    \A r \in DOMAIN named : Reported(r) \/ Pending(r) \/ r < Floor(maxRef)

\* A round the feed has named is closed sometime, if its session lasts: by its content,
\* or by the deadline on a tick, however quiet the wire is.
NamedRoundsClose ==
    \A r \in Rounds :
        (r \in DOMAIN named /\ Pending(r) /\ named[r] + Deadline < MaxTime)
            ~> (~Pending(r) \/ ~running)
=============================================================================
