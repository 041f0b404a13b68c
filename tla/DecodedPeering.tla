-------------------------- MODULE DecodedPeering --------------------------
(***************************************************************************)
(* The leg of the peering dataset on the box of the node:                  *)
(* `DecodedAssembly' of src/peering.rs and its loop `run_vpc_decoded_once'.*)
(*                                                                         *)
(* The sentry writes a line per block it decodes, sometimes first an       *)
(* incomplete one that a patch completes, and blocks the chain never       *)
(* makes.  A round is ready when a complete line has been read; the        *)
(* reference feed, the same as for the wire leg, then says whether the     *)
(* line is the block of the chain.  Clock, sessions, the lines of the feed *)
(* and the window of plausible rounds are those of Peering.                *)
(***************************************************************************)
EXTENDS Peering

CONSTANT MaxLines \* bound: lines of the sentry read in a behaviour

ASSUME LinesAssumption == MaxLines \in Nat

VARIABLES
    decoded,      \* DecodedAssembly.rounds: DecodedRound of every tracked round
    lines,        \* lines of the sentry read so far
    decodedSent   \* the events of the last drain: samples and gaps

\* History, read by no guard: how often this session reported a round, when it read
\* which first complete line of it in the window, and the rounds the feed has named.
VARIABLES decodedReports, firstLine, decodedNamed

decodedVars   == <<decoded, lines, decodedSent, decodedReports, firstLine, decodedNamed>>
untouchedVars == <<reads, rounds, bundles, scoreFrom, sent, reports, heard, named>>

NoLine == [at |-> NoTime, right |-> FALSE]

DecodedFresh == [line |-> NoLine, reference |-> FALSE, seen |-> now, reported |-> FALSE]
DecodedEntry(r) == IF r \in DOMAIN decoded THEN decoded[r] ELSE DecodedFresh

Put(f, r, e) == [q \in DOMAIN f \cup {r} |-> IF q = r THEN e ELSE f[q]]
-----------------------------------------------------------------------------
(* DecodedAssembly *)

\* Mutant: a line sent again moves the boundary.
WithLine_Last(e, complete, right) ==
    IF complete THEN [e EXCEPT !.line = [at |-> now, right |-> right]] ELSE e

\* The first complete line counts; an incomplete one waits for its patch.
WithLine(e, complete, right) ==
    IF complete /\ e.line = NoLine THEN [e EXCEPT !.line = [at |-> now, right |-> right]] ELSE e

\* track_line; a line that names a hash that cannot be read is as good as incomplete.
TrackLine(r, complete, right) ==
    IF Plausible(r) THEN Put(decoded, r, WithLine(DecodedEntry(r), complete, right)) ELSE decoded

\* track_reference
NameDecoded(r) == Put(decoded, r, [DecodedEntry(r) EXCEPT !.reference = TRUE])

Joined(e) == e.line # NoLine /\ e.reference

DecodedOverdue(e) == now - e.seen > Deadline

\* Mutant: a gap leaves its round open.
ClosedBy_Samples(samples, gaps) == samples

\* Sample or gap, each round is counted once.
ClosedBy(samples, gaps) == samples \cup gaps

\* drain_ready with its pruning.
DrainDecoded(rs) ==
    LET open    == {r \in DOMAIN rs : ~rs[r].reported}
        samples == {r \in open : Joined(rs[r]) /\ rs[r].line.right}
        gaps    == {r \in open : IF Joined(rs[r]) THEN ~rs[r].line.right ELSE DecodedOverdue(rs[r])}
    IN
    /\ decoded' = [r \in Retained(rs) |-> [rs[r] EXCEPT !.reported = @ \/ r \in ClosedBy(samples, gaps)]]
    /\ decodedSent' = [samples |-> {[round |-> r, at |-> rs[r].line.at] : r \in samples}, gaps |-> gaps]
    /\ decodedReports' = [r \in AnyRound |->
                            decodedReports[r] + (IF r \in samples \cup gaps THEN 1 ELSE 0)]
-----------------------------------------------------------------------------
(* The turns of the loop. *)

\* A line of the sentry: of a block of the chain, as it is or not, or of one that never was.
ReadDecodedLine ==
    /\ running /\ lines < MaxLines
    /\ \E r \in {q \in Rounds : Produced[q] <= now} \cup Stray, complete, right \in BOOLEAN :
        /\ right => r \in Rounds
        /\ maxRef' = maxRef
        /\ DrainDecoded(TrackLine(r, complete, right))
        /\ firstLine' = IF complete /\ Plausible(r) /\ r \notin DOMAIN firstLine
                        THEN Put(firstLine, r, [at |-> now, right |-> right]) ELSE firstLine
    /\ lines' = lines + 1
    /\ UNCHANGED <<now, session, running, decodedNamed, untouchedVars>>

\* A line of the feed: any block, in any order and again.
ReadDecodedReference ==
    /\ running
    /\ \E r \in Rounds :
        /\ Produced[r] <= now
        /\ maxRef' = (IF r > maxRef THEN r ELSE maxRef)
        /\ DrainDecoded(NameDecoded(r))
        /\ decodedNamed' = decodedNamed \cup {r}
    /\ UNCHANGED <<now, session, running, lines, firstLine, untouchedVars>>

\* The maintenance tick.
MaintainDecoded ==
    /\ running
    /\ maxRef' = maxRef
    /\ DrainDecoded(decoded)
    /\ UNCHANGED <<now, session, running, lines, firstLine, decodedNamed, untouchedVars>>

\* A read deadline, a line too long, a closed socket or the end of the feed.
EndDecodedSession ==
    /\ running /\ session < MaxSessions
    /\ running' = FALSE /\ maxRef' = 0
    /\ decoded' = Empty /\ decodedSent' = Nothing
    /\ decodedReports' = [r \in AnyRound |-> 0] /\ firstLine' = Empty /\ decodedNamed' = {}
    /\ UNCHANGED <<now, session, lines, untouchedVars>>

\* After the backoff: the feed first, then the socket, and a new DecodedAssembly.
StartDecodedSession ==
    /\ ~running
    /\ running' = TRUE /\ session' = session + 1
    /\ UNCHANGED <<now, maxRef, decodedVars, untouchedVars>>

ElapseDecoded == Elapse /\ UNCHANGED decodedVars
-----------------------------------------------------------------------------
DecodedInit ==
    /\ decoded = Empty /\ lines = 0 /\ decodedSent = Nothing
    /\ decodedReports = [r \in AnyRound |-> 0] /\ firstLine = Empty /\ decodedNamed = {}

DecodedNext ==
    \/ ElapseDecoded \/ ReadDecodedLine \/ ReadDecodedReference \/ MaintainDecoded
    \/ EndDecodedSession \/ StartDecodedSession

DecodedSpec == Init /\ DecodedInit /\ [][DecodedNext]_<<vars, decodedVars>>
-----------------------------------------------------------------------------
(* Properties *)

DecodedTypeOK ==
    /\ lines \in 0 .. MaxLines
    /\ DOMAIN decoded \subseteq AnyRound
    /\ \A r \in DOMAIN decoded :
        /\ decoded[r].line \in [at : Times, right : BOOLEAN]
        /\ decoded[r].reference \in BOOLEAN /\ decoded[r].reported \in BOOLEAN
        /\ decoded[r].seen \in 0 .. now /\ r >= Floor(maxRef)
    /\ decodedReports \in [AnyRound -> Nat] /\ decodedNamed \subseteq Rounds

\* A sample is a block of the chain the feed has named, stamped when its first complete line
\* was read: an incomplete line, a patch sent again and the lag of the feed do not move it
\* (track_line, drain_ready; src/peering.rs:682-686).
DecodedStampIsFirst ==
    \A s \in decodedSent.samples :
        /\ s.round \in decodedNamed \cap DOMAIN firstLine
        /\ firstLine[s.round] = [at |-> s.at, right |-> TRUE]

\* A round the feed names is reported exactly once in its session, as a sample or as a gap,
\* if it stays within the rounds kept, whether the sentry writes it or not.
DecodedAccounted ==
    /\ \A r \in AnyRound : decodedReports[r] <= 1
    /\ \A r \in decodedNamed :
        \/ decodedReports[r] = 1
        \/ r < Floor(maxRef)
        \/ r \in DOMAIN decoded /\ ~decoded[r].reported

\* In each session every round the feed names is accounted for once and by its own first
\* complete line (src/peering.rs:613-615, drain_ready): the rounds of the first minute too,
\* see WarmupIsForEveryLeg.
DecodedExact == DecodedStampIsFirst /\ DecodedAccounted

\* "Rounds before this are neither samples nor gaps.  Applied to every leg alike", of the end
\* of the warm-up (src/peering.rs:100-105): said of this leg, whose first session starts at 0.
WarmupIsForEveryLeg ==
    session = 1 =>
        \A r \in {s.round : s \in decodedSent.samples} \cup (decodedSent.gaps \cap Rounds) :
            Produced[r] >= Warmup
=============================================================================
