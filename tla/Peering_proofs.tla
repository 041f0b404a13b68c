--------------------------- MODULE Peering_proofs ---------------------------
(***************************************************************************)
(* Theorems about the peering assembly, for every chain, deadline, warm-up *)
(* and retention and any number of frames, lines and sessions: its types,  *)
(* that a round is reported once, that a gap is incomplete, that no round  *)
(* named in time is lost, and that a sample is stamped with its boundary.  *)
(*                                                                         *)
(* The invariant says what an entry knows of what was heard and named      *)
(* (EntryTruth).  It is stated over any rounds and bundles, because a turn *)
(* of the loop first tracks and then drains: the tracking lemmas establish *)
(* it for the rounds about to be drained, and the lemma on Drain carries   *)
(* it from there to the next state.                                        *)
(***************************************************************************)
EXTENDS DecodedPeering, Totals

\* A round of the chain the session scores.
ScoredRound(r) == r \in Rounds /\ Scored(r)

\* What an entry of the rounds rs knows, given what was heard (hd) and named (nm).
\* Rounds behind the floor have no entry between two turns; within a turn they may.
EntryTruth(r, e, hd, nm) ==
    /\ e.named => ScoredRound(r) /\ Produced[r] <= now /\ r \in DOMAIN nm
    /\ ~e.named => e.ordering # NoTime /\ e.seen = e.ordering
    /\ e.closed /\ ScoredRound(r) =>
        \/ reports[r] >= 1
        \/ /\ e.ordering # NoTime
           /\ IF e.named THEN nm[r] - e.ordering > Deadline ELSE now - e.ordering > Deadline
    /\ r >= Floor(maxRef) =>
        /\ r \in DOMAIN nm => e.named
        /\ ScoredRound(r) /\ e.ordering # NoTime =>
            Ordering(r) \in DOMAIN hd /\ hd[Ordering(r)] = e.ordering
        /\ ScoredRound(r) /\ Ordering(r) \in DOMAIN hd => e.ordering # NoTime
    /\ r < Floor(maxRef) =>
        ~e.closed /\ (~e.named \/ (e.ordering = NoTime /\ e.seen = now))

Tracked(r, rs) == r \in DOMAIN rs \/ r < Floor(maxRef)

Consistent(rs, held, hd, nm) ==
    /\ \A r \in DOMAIN rs : EntryTruth(r, rs[r], hd, nm)
    /\ \A r \in AnyRound : running /\ reports[r] >= 1 /\ ScoredRound(r) =>
        r < Floor(maxRef) \/ (r \in DOMAIN rs /\ rs[r].closed)
    /\ \A r \in DOMAIN nm :
        /\ ScoredRound(r) /\ Produced[r] <= now /\ nm[r] \in 0 .. now
        /\ Tracked(r, rs)
    /\ \A f \in DOMAIN hd : hd[f] \in 0 .. now
    /\ \A r \in Rounds : ScoredRound(r) /\ Ordering(r) \in DOMAIN hd => Tracked(r, rs)
    /\ \A b \in DOMAIN held : Bundle(b) \in DOMAIN hd
    /\ \A b \in AllBundles : Bundle(b) \in DOMAIN hd =>
        \/ b \in DOMAIN held /\ hd[Bundle(b)] <= held[b].noted
        \/ now - hd[Bundle(b)] >= BundleRetain

\* Whatever was reported is a block produced by now.
ReportsTruth ==
    \A r \in AnyRound : reports[r] >= 1 => r \in Rounds /\ Produced[r] <= now

\* Between two sessions there is no assembly, and another session to come.
IdleTruth ==
    ~running => /\ rounds = Empty /\ bundles = Empty /\ heard = Empty /\ named = Empty
                /\ session < MaxSessions

IInv ==
    /\ TypeOK /\ ReportedOnce /\ GapIsIncomplete
    /\ ReportsTruth /\ IdleTruth
    /\ Consistent(rounds, bundles, heard, named)

TrackedRound == [ordering : Times, named : BOOLEAN, seen : 0 .. MaxTime, closed : BOOLEAN]

\* The types of rounds and bundles within a turn.
Typed(rs, held) ==
    /\ DOMAIN rs \subseteq AnyRound
    /\ \A r \in DOMAIN rs : rs[r] \in TrackedRound /\ (rs[r].named => r \in Rounds)
    /\ DOMAIN held \subseteq AllBundles
    /\ \A b \in DOMAIN held : held[b] \in [at : 0 .. MaxTime, noted : 0 .. MaxTime]
-----------------------------------------------------------------------------
(* The floor of the rounds kept moves up with the highest named. *)
LEMMA FloorGrows ==
    ASSUME NEW m \in Nat, NEW n \in Nat, m <= n
    PROVE  Floor(m) \in Nat /\ Floor(n) \in Nat /\ Floor(m) <= Floor(n)
BY PeeringAssumption DEF Floor

(* What the assumptions say of the constants, for the leaves that count. *)
LEMMA ConstantTypes ==
    /\ Rounds \subseteq Nat /\ AnyRound \subseteq Nat /\ Rounds \subseteq AnyRound
    /\ Deadline \in Nat /\ BundleRetain \in Nat /\ Warmup \in Nat \ {0} /\ MaxTime \in Nat
    /\ \A r \in Rounds : Produced[r] \in Nat
    /\ \A r \in Rounds : Bundles[r] \subseteq AllBundles
<1>1. Produced \in [Rounds -> Nat] BY PeeringAssumption
<1>2. \A r \in Rounds : Produced[r] \in Nat BY <1>1
<1> QED BY <1>2, PeeringAssumption DEF AnyRound, AllBundles

(* The floor is a number. *)
LEMMA FloorType ==
    ASSUME TypeOK
    PROVE  Floor(maxRef) \in Nat
<1>1. maxRef \in {0} \cup Rounds BY DEF TypeOK
<1>2. maxRef \in Nat BY <1>1, ConstantTypes
<1>3. maxRef <= maxRef BY <1>2
<1> QED BY <1>2, <1>3, FloorGrows

(* Tracking the orderings of a read adds the entries of its rounds and takes none away. *)
LEMMA TrackOrderingsDomain ==
    ASSUME NEW R, NEW t
    PROVE  DOMAIN TrackOrderings(R, t) = DOMAIN rounds \cup R
BY DEF TrackOrderings

(* The frames of one read are tracked. *)
LEMMA ReadTracks ==
    ASSUME IInv, NEW t \in 0 .. now,
           NEW R \in SUBSET AnyRound, NEW B \in SUBSET AllBundles, NEW hd,
           hd = [f \in DOMAIN heard \cup ({Ordering(r) : r \in R} \cup {Bundle(b) : b \in B}) |->
                    IF f \in DOMAIN heard THEN heard[f] ELSE t]
    PROVE  /\ Typed(TrackOrderings(R, t), TrackBundles(B, t))
           /\ Consistent(TrackOrderings(R, t), TrackBundles(B, t), hd, named)
<1> DEFINE rs == TrackOrderings(R, t)
           held == TrackBundles(B, t)
<1>t. TypeOK /\ now \in Nat /\ t \in Nat /\ t <= now /\ now <= MaxTime
  BY ConstantTypes DEF IInv, TypeOK
<1>f. Floor(maxRef) \in Nat BY <1>t, FloorType
<1>1. DOMAIN rs = DOMAIN rounds \cup R BY TrackOrderingsDomain
<1>2. \A r \in DOMAIN rs : \/ r \in DOMAIN rounds /\ rs[r] = rounds[r]
                           \/ r \in R /\ r \in DOMAIN rounds /\ rs[r] = Timed(rounds[r], t)
                           \/ r \in R /\ r \notin DOMAIN rounds /\ rs[r] = Timed(Fresh(t), t)
  BY DEF TrackOrderings, Entry
<1>3. \A r \in DOMAIN rounds : rounds[r] \in TrackedRound /\ r >= Floor(maxRef) /\ r \in AnyRound
  BY <1>t DEF TypeOK, TrackedRound
<1>4. Timed(Fresh(t), t) = [ordering |-> t, named |-> FALSE, seen |-> t, closed |-> FALSE]
  BY DEF Timed, Fresh, NoTime
<1>5. \A r \in DOMAIN rounds :
        Timed(rounds[r], t) = IF rounds[r].ordering = NoTime
                              THEN [rounds[r] EXCEPT !.ordering = t] ELSE rounds[r]
  BY DEF Timed
<1>6. Typed(rs, held)
  <2>1. ASSUME NEW r \in DOMAIN rs
        PROVE  rs[r] \in TrackedRound /\ (rs[r].named => r \in Rounds)
    <3>1. t \in Times /\ t \in 0 .. MaxTime BY <1>t, ConstantTypes DEF Times
    <3>2. r \in DOMAIN rounds => rounds[r] \in TrackedRound /\ (rounds[r].named => r \in Rounds)
      BY <1>t DEF TypeOK, TrackedRound
    <3>3. r \in DOMAIN rounds => /\ [rounds[r] EXCEPT !.ordering = t] \in TrackedRound
                                /\ [rounds[r] EXCEPT !.ordering = t].named = rounds[r].named
      BY <3>1, <3>2 DEF TrackedRound
    <3>4. [ordering |-> t, named |-> FALSE, seen |-> t, closed |-> FALSE] \in TrackedRound
      BY <3>1 DEF TrackedRound
    <3>5. CASE r \in DOMAIN rounds /\ rs[r] = rounds[r] BY <3>2, <3>5
    <3>6. CASE r \in R /\ r \in DOMAIN rounds /\ rs[r] = Timed(rounds[r], t)
      BY <1>5, <3>2, <3>3, <3>6
    <3>7. CASE r \in R /\ r \notin DOMAIN rounds /\ rs[r] = Timed(Fresh(t), t)
      BY <1>4, <3>4, <3>7
    <3> QED BY <1>2, <3>5, <3>6, <3>7
  <2>2. DOMAIN held \subseteq AllBundles BY <1>t DEF TrackBundles, TypeOK
  <2>3. ASSUME NEW b \in DOMAIN held
        PROVE  held[b] \in [at : 0 .. MaxTime, noted : 0 .. MaxTime]
    <3>1. b \in DOMAIN bundles => bundles[b] \in [at : 0 .. MaxTime, noted : 0 .. MaxTime]
      BY <1>t DEF TypeOK
    <3>2. [at |-> t, noted |-> now] \in [at : 0 .. MaxTime, noted : 0 .. MaxTime]
      BY <1>t, ConstantTypes
    <3> QED BY <3>1, <3>2 DEF TrackBundles
  <2> QED BY <1>1, <1>3, <2>1, <2>2, <2>3 DEF Typed
<1>7. /\ \A f \in DOMAIN heard : f \in DOMAIN hd /\ hd[f] = heard[f]
      /\ \A r \in R : Ordering(r) \in DOMAIN hd
      /\ \A f \in DOMAIN hd : f \notin DOMAIN heard => hd[f] = t
  OBVIOUS
<1>8. \A r : Ordering(r) \in DOMAIN hd => Ordering(r) \in DOMAIN heard \/ r \in R
  BY DEF Ordering, Bundle
<1>9. \A b : Bundle(b) \in DOMAIN hd => Bundle(b) \in DOMAIN heard \/ b \in B
  BY DEF Ordering, Bundle
<1>10. \A r \in DOMAIN rs : EntryTruth(r, rs[r], hd, named)
  <2> SUFFICES ASSUME NEW r \in DOMAIN rs PROVE EntryTruth(r, rs[r], hd, named) OBVIOUS
  <2>1. CASE r \in DOMAIN rounds
    <3>1. EntryTruth(r, rounds[r], heard, named) BY <2>1 DEF IInv, Consistent
    <3>2. rounds[r] \in TrackedRound /\ r >= Floor(maxRef) /\ r \in Nat
      BY <1>3, <2>1, ConstantTypes
    <3>3. CASE rs[r] = rounds[r] /\ (r \in R => rounds[r].ordering # NoTime)
      BY <1>7, <1>8, <3>1, <3>2, <3>3, <1>f DEF EntryTruth
    <3>4. CASE /\ r \in R /\ rounds[r].ordering = NoTime
               /\ rs[r] = [rounds[r] EXCEPT !.ordering = t]
      <4>1. /\ rs[r].ordering = t /\ t # NoTime
            /\ rs[r].named = rounds[r].named /\ rs[r].closed = rounds[r].closed
            /\ rs[r].seen = rounds[r].seen
        BY <3>2, <3>4, <1>t DEF TrackedRound, NoTime
      <4>2. rounds[r].named BY <3>1, <3>4 DEF EntryTruth
      <4>3. ScoredRound(r) /\ Produced[r] <= now /\ r \in DOMAIN named
        BY <3>1, <4>2 DEF EntryTruth
      <4>4. Ordering(r) \notin DOMAIN heard BY <3>1, <3>2, <3>4, <4>3 DEF EntryTruth
      <4>5. Ordering(r) \in DOMAIN hd /\ hd[Ordering(r)] = t BY <1>7, <3>4, <4>4
      <4>6. rounds[r].closed => reports[r] >= 1 BY <3>1, <3>4, <4>3 DEF EntryTruth
      <4> QED BY <3>2, <4>1, <4>2, <4>3, <4>5, <4>6, <1>f DEF EntryTruth
    <3>5. \/ rs[r] = rounds[r] /\ (r \in R => rounds[r].ordering # NoTime)
          \/ /\ r \in R /\ rounds[r].ordering = NoTime
             /\ rs[r] = [rounds[r] EXCEPT !.ordering = t]
      BY <2>1, <1>5 DEF TrackOrderings, Entry
    <3> QED BY <3>3, <3>4, <3>5
  <2>2. CASE r \notin DOMAIN rounds
    <3>1. rs[r] = [ordering |-> t, named |-> FALSE, seen |-> t, closed |-> FALSE] /\ r \in R
      BY <1>2, <1>4, <2>2
    <3>2. /\ rs[r].ordering = t /\ t # NoTime /\ ~rs[r].named /\ rs[r].seen = t
          /\ ~rs[r].closed
      BY <3>1, <1>t DEF NoTime
    <3>n. r \in Nat BY <3>1, ConstantTypes
    <3>3. ASSUME r >= Floor(maxRef) PROVE r \notin DOMAIN named
      <4>1. r \in DOMAIN named => Tracked(r, rounds) BY DEF IInv, Consistent
      <4> QED BY <4>1, <2>2, <3>3, <3>n, <1>f DEF Tracked
    <3>4. ASSUME r >= Floor(maxRef), ScoredRound(r) PROVE Ordering(r) \notin DOMAIN heard
      BY <2>2, <3>4, <1>f, ConstantTypes, <1>t DEF IInv, Consistent, Tracked, ScoredRound
    <3>5. ASSUME r >= Floor(maxRef), ScoredRound(r)
          PROVE  Ordering(r) \in DOMAIN hd /\ hd[Ordering(r)] = t
      BY <3>1, <3>4, <3>5, <1>7
    <3> QED BY <3>2, <3>3, <3>5 DEF EntryTruth
  <2> QED BY <2>1, <2>2
<1>11. \A r \in AnyRound : running /\ reports[r] >= 1 /\ ScoredRound(r) =>
        r < Floor(maxRef) \/ (r \in DOMAIN rs /\ rs[r].closed)
  <2> SUFFICES ASSUME NEW r \in AnyRound, running, reports[r] >= 1, ScoredRound(r),
                      ~(r < Floor(maxRef))
               PROVE  r \in DOMAIN rs /\ rs[r].closed
    OBVIOUS
  <2>1. r \in DOMAIN rounds /\ rounds[r].closed BY DEF IInv, Consistent
  <2>2. rs[r] = rounds[r] \/ rs[r] = [rounds[r] EXCEPT !.ordering = t]
    BY <1>2, <1>5, <1>1, <2>1
  <2> QED BY <1>1, <1>3, <2>1, <2>2 DEF TrackedRound
<1>12. \A r \in DOMAIN named :
        ScoredRound(r) /\ Produced[r] <= now /\ named[r] \in 0 .. now /\ Tracked(r, rs)
  BY <1>1 DEF IInv, Consistent, Tracked
<1>13. \A f \in DOMAIN hd : hd[f] \in 0 .. now BY <1>7, <1>t DEF IInv, Consistent
<1>14. \A r \in Rounds : ScoredRound(r) /\ Ordering(r) \in DOMAIN hd => Tracked(r, rs)
  BY <1>1, <1>8 DEF IInv, Consistent, Tracked
<1>15. \A b \in AllBundles : Bundle(b) \in DOMAIN hd =>
        \/ b \in DOMAIN held /\ hd[Bundle(b)] <= held[b].noted
        \/ now - hd[Bundle(b)] >= BundleRetain
  <2> SUFFICES ASSUME NEW b \in AllBundles, Bundle(b) \in DOMAIN hd,
                      ~(now - hd[Bundle(b)] >= BundleRetain)
               PROVE  b \in DOMAIN held /\ hd[Bundle(b)] <= held[b].noted
    OBVIOUS
  <2>1. CASE Bundle(b) \in DOMAIN heard
    <3>1. b \in DOMAIN bundles /\ heard[Bundle(b)] <= bundles[b].noted
      BY <2>1, <1>7 DEF IInv, Consistent
    <3> QED BY <3>1, <2>1, <1>7 DEF TrackBundles
  <2>2. CASE Bundle(b) \notin DOMAIN heard
    <3>1. b \in B /\ hd[Bundle(b)] = t BY <2>2, <1>7, <1>9
    <3>2. b \notin DOMAIN bundles BY <2>2 DEF IInv, Consistent
    <3> QED BY <3>1, <3>2, <1>t DEF TrackBundles
  <2> QED BY <2>1, <2>2
<1>16. \A b \in DOMAIN held : Bundle(b) \in DOMAIN hd
  <2>1. \A b \in DOMAIN held : b \in DOMAIN bundles \/ b \in B BY DEF TrackBundles
  <2> QED BY <2>1, <1>7 DEF IInv, Consistent
<1> QED BY <1>6, <1>10, <1>11, <1>12, <1>13, <1>14, <1>15, <1>16 DEF Consistent

(* A line of the feed is tracked. *)
LEMMA LineTracks ==
    ASSUME IInv, running, NEW q \in Rounds, Produced[q] <= now, NEW nm,
           nm = [r \in DOMAIN named \cup (IF Scored(q) THEN {q} ELSE {}) |->
                    IF r \in DOMAIN named THEN named[r] ELSE now]
    PROVE  /\ Typed(TrackReference(q), bundles)
           /\ Consistent(TrackReference(q), bundles, heard, nm)
<1> DEFINE rs == TrackReference(q)
<1>t. TypeOK /\ now \in Nat /\ now <= MaxTime /\ q \in AnyRound /\ q \in Nat
  BY ConstantTypes DEF IInv, TypeOK
<1>f. Floor(maxRef) \in Nat BY <1>t, FloorType
<1>1. \A r \in DOMAIN rounds : /\ rounds[r] \in TrackedRound /\ r >= Floor(maxRef)
                               /\ r \in AnyRound /\ r \in Nat /\ (rounds[r].named => r \in Rounds)
  BY <1>t, ConstantTypes DEF TypeOK, TrackedRound
<1>2. DOMAIN bundles \subseteq AllBundles
      /\ \A b \in DOMAIN bundles : bundles[b] \in [at : 0 .. MaxTime, noted : 0 .. MaxTime]
  BY <1>t DEF TypeOK
<1>3. CASE ~Scored(q)
  <2>1. /\ DOMAIN rs = DOMAIN rounds \ {q} /\ \A r \in DOMAIN rs : rs[r] = rounds[r]
        /\ nm = [r \in DOMAIN named |-> named[r]]
    BY <1>3 DEF TrackReference, Restrict
  <2>2. DOMAIN nm = DOMAIN named /\ \A r \in DOMAIN named : nm[r] = named[r] BY <2>1
  <2>3. Typed(rs, bundles) BY <2>1, <1>1, <1>2 DEF Typed
  <2>4. \A r \in DOMAIN rs : EntryTruth(r, rs[r], heard, nm)
    BY <2>1, <2>2 DEF IInv, Consistent, EntryTruth
  <2>5. \A r \in AnyRound : ScoredRound(r) => r # q BY <1>3 DEF ScoredRound
  <2>6. \A r \in AnyRound : running /\ reports[r] >= 1 /\ ScoredRound(r) =>
            r < Floor(maxRef) \/ (r \in DOMAIN rs /\ rs[r].closed)
    BY <2>1, <2>5 DEF IInv, Consistent
  <2>7. \A r \in DOMAIN nm :
            ScoredRound(r) /\ Produced[r] <= now /\ nm[r] \in 0 .. now /\ Tracked(r, rs)
    BY <2>1, <2>2, <1>3 DEF IInv, Consistent, Tracked, ScoredRound
  <2>8. \A r \in Rounds : ScoredRound(r) /\ Ordering(r) \in DOMAIN heard => Tracked(r, rs)
    BY <2>1, <1>3 DEF IInv, Consistent, Tracked, ScoredRound
  <2> QED BY <2>3, <2>4, <2>6, <2>7, <2>8 DEF IInv, Consistent
<1>4. CASE Scored(q)
  <2>1. /\ DOMAIN rs = DOMAIN rounds \cup {q}
        /\ \A r \in DOMAIN rounds : r # q => rs[r] = rounds[r]
        /\ q \in DOMAIN rounds => rs[q] = [rounds[q] EXCEPT !.named = TRUE]
        /\ q \notin DOMAIN rounds => rs[q] = [Fresh(now) EXCEPT !.named = TRUE]
    BY <1>4 DEF TrackReference, Entry
  <2>2. /\ DOMAIN nm = DOMAIN named \cup {q}
        /\ \A r \in DOMAIN named : nm[r] = named[r]
        /\ q \notin DOMAIN named => nm[q] = now
    BY <1>4
  <2>3. \A e \in TrackedRound : /\ [e EXCEPT !.named = TRUE] \in TrackedRound
                               /\ [e EXCEPT !.named = TRUE].ordering = e.ordering
                               /\ [e EXCEPT !.named = TRUE].seen = e.seen
                               /\ [e EXCEPT !.named = TRUE].closed = e.closed
                               /\ [e EXCEPT !.named = TRUE].named
    BY DEF TrackedRound
  <2>4. ScoredRound(q) BY <1>4 DEF ScoredRound
  <2>5. q \in DOMAIN rounds => /\ [rounds[q] EXCEPT !.named = TRUE] \in TrackedRound
                              /\ rs[q].ordering = rounds[q].ordering
                              /\ rs[q].seen = rounds[q].seen
                              /\ rs[q].closed = rounds[q].closed
                              /\ rs[q].named
    BY <1>1, <2>1, <2>3
  <2>6. q \notin DOMAIN rounds => /\ rs[q] \in TrackedRound /\ rs[q].ordering = NoTime
                                 /\ rs[q].seen = now /\ ~rs[q].closed /\ rs[q].named
    <3>1. NoTime \in Times /\ now \in 0 .. MaxTime BY <1>t, ConstantTypes DEF Times
    <3>2. /\ Fresh(now) \in TrackedRound /\ Fresh(now).ordering = NoTime
          /\ Fresh(now).seen = now /\ ~Fresh(now).closed
      BY <3>1 DEF TrackedRound, Fresh
    <3> QED BY <2>1, <2>3, <3>2
  <2>7. Typed(rs, bundles)
    <3>1. \A r \in DOMAIN rs : rs[r] \in TrackedRound /\ (rs[r].named => r \in Rounds)
      BY <1>1, <2>1, <2>5, <2>6
    <3> QED BY <3>1, <2>1, <1>1, <1>2, <1>t DEF Typed
  <2>8. ASSUME NEW r \in DOMAIN rs PROVE EntryTruth(r, rs[r], heard, nm)
    <3>1. CASE r # q
      <4>1. r \in DOMAIN rounds /\ rs[r] = rounds[r] /\ (r \in DOMAIN nm <=> r \in DOMAIN named)
        BY <3>1, <2>1, <2>2
      <4>2. EntryTruth(r, rounds[r], heard, named) BY <4>1 DEF IInv, Consistent
      <4> QED BY <4>1, <4>2, <2>2 DEF EntryTruth
    <3>2. CASE r = q /\ q \in DOMAIN rounds
      <4>1. EntryTruth(q, rounds[q], heard, named) /\ q >= Floor(maxRef)
        BY <3>2, <1>1 DEF IInv, Consistent
      <4>2. rounds[q].named <=> q \in DOMAIN named BY <4>1 DEF EntryTruth
      <4>3. rounds[q].closed /\ reports[q] < 1 =>
                rounds[q].ordering # NoTime /\ nm[q] - rounds[q].ordering > Deadline
        <5>1. reports[q] \in Nat BY <1>t DEF TypeOK
        <5>2. CASE rounds[q].named BY <4>1, <4>2, <5>1, <5>2, <2>2, <2>4 DEF EntryTruth
        <5>3. CASE ~rounds[q].named BY <4>1, <4>2, <5>1, <5>3, <2>2, <2>4 DEF EntryTruth
        <5> QED BY <5>2, <5>3
      <4>4. reports[q] \in Nat BY <1>t DEF TypeOK
      <4> QED BY <3>2, <4>1, <4>3, <4>4, <2>2, <2>4, <2>5, <1>f, <1>t DEF EntryTruth
    <3>3. CASE r = q /\ q \notin DOMAIN rounds
      <4>1. q >= Floor(maxRef) => Ordering(q) \notin DOMAIN heard
        BY <3>3, <2>4, <1>f, <1>t DEF IInv, Consistent, Tracked
      <4> QED BY <3>3, <4>1, <2>2, <2>4, <2>6, <1>f, <1>t DEF EntryTruth
    <3> QED BY <3>1, <3>2, <3>3
  <2>9. \A r \in AnyRound : running /\ reports[r] >= 1 /\ ScoredRound(r) =>
            r < Floor(maxRef) \/ (r \in DOMAIN rs /\ rs[r].closed)
    BY <2>1, <2>5 DEF IInv, Consistent
  <2>10. \A r \in DOMAIN nm :
            ScoredRound(r) /\ Produced[r] <= now /\ nm[r] \in 0 .. now /\ Tracked(r, rs)
    BY <2>1, <2>2, <2>4, <1>t DEF IInv, Consistent, Tracked
  <2>11. \A r \in Rounds : ScoredRound(r) /\ Ordering(r) \in DOMAIN heard => Tracked(r, rs)
    BY <2>1 DEF IInv, Consistent, Tracked
  <2> QED BY <2>7, <2>8, <2>9, <2>10, <2>11 DEF IInv, Consistent
<1> QED BY <1>3, <1>4
-----------------------------------------------------------------------------
(* The drain closes a turn: from rounds and bundles that are consistent with what was *)
(* heard and named up to and in this turn, it leads back to the invariant. *)
LEMMA DrainKeepsInv ==
    ASSUME IInv, running, NEW rs, NEW held, Typed(rs, held),
           Consistent(rs, held, heard', named'), Drain(rs, held),
           maxRef' \in {0} \cup Rounds, maxRef' >= maxRef,
           now' = now, session' = session, running' = running, scoreFrom' = scoreFrom,
           reads' \in 0 .. MaxReads
    PROVE  IInv'
<1> DEFINE S == Samples(rs, held)
           X == Expired(rs, held)
           G == Gaps(rs, held)
<1>t. TypeOK /\ now \in Nat /\ now <= MaxTime BY ConstantTypes DEF IInv, TypeOK
<1>f. /\ Floor(maxRef) \in Nat /\ Floor(maxRef') \in Nat
      /\ Floor(maxRef) <= Floor(maxRef')
  <2>1. maxRef \in Nat /\ maxRef' \in Nat /\ maxRef <= maxRef'
    BY <1>t, ConstantTypes DEF TypeOK
  <2> QED BY <2>1, FloorGrows
<1>1. /\ rounds' = [r \in Retained(rs) |-> [rs[r] EXCEPT !.closed = @ \/ r \in S \cup X]]
      /\ bundles' = Restrict(held, {b \in DOMAIN held : now - held[b].noted < BundleRetain})
      /\ sent'.gaps = G
      /\ reports' = [r \in AnyRound |-> reports[r] + (IF r \in S \cup G THEN 1 ELSE 0)]
  BY DEF Drain
<1>2. \A r \in DOMAIN rs : /\ rs[r] \in TrackedRound /\ (rs[r].named => r \in Rounds)
                           /\ r \in AnyRound /\ r \in Nat
  BY ConstantTypes DEF Typed
<1>3. DOMAIN rounds' = {r \in DOMAIN rs : r >= Floor(maxRef')} BY <1>1 DEF Retained
<1>4. ASSUME NEW r \in DOMAIN rounds'
      PROVE  /\ r \in DOMAIN rs /\ r >= Floor(maxRef') /\ r >= Floor(maxRef)
             /\ rounds'[r] = [rs[r] EXCEPT !.closed = @ \/ r \in S \cup X]
             /\ rounds'[r] \in TrackedRound
             /\ rounds'[r].ordering = rs[r].ordering /\ rounds'[r].named = rs[r].named
             /\ rounds'[r].seen = rs[r].seen
             /\ rounds'[r].closed <=> rs[r].closed \/ r \in S \cup X
  <2>1. r \in DOMAIN rs /\ r >= Floor(maxRef') /\ r >= Floor(maxRef)
    BY <1>2, <1>3, <1>f
  <2>2. rounds'[r] = [rs[r] EXCEPT !.closed = @ \/ r \in S \cup X] BY <1>1, <1>4
  <2>3. rs[r] \in TrackedRound BY <1>2, <2>1
  <2>4. (rs[r].closed \/ r \in S \cup X) \in BOOLEAN OBVIOUS
  <2> HIDE DEF S, X, G
  <2> QED BY <2>1, <2>2, <2>3, <2>4 DEF TrackedRound
<1>5. \A r \in DOMAIN rs : EntryTruth(r, rs[r], heard', named') BY DEF Consistent
<1>6. \A r \in S \cup G : /\ r \in DOMAIN rs /\ rs[r].named /\ ~rs[r].closed
                          /\ r >= Floor(maxRef) /\ ScoredRound(r) /\ Produced[r] <= now
                          /\ reports[r] = 0 /\ r \in Rounds /\ r \in DOMAIN named'
  <2> SUFFICES ASSUME NEW r \in S \cup G
               PROVE  /\ r \in DOMAIN rs /\ rs[r].named /\ ~rs[r].closed
                      /\ r >= Floor(maxRef) /\ ScoredRound(r) /\ Produced[r] <= now
                      /\ reports[r] = 0 /\ r \in Rounds /\ r \in DOMAIN named'
    OBVIOUS
  <2>1. r \in DOMAIN rs /\ rs[r].named /\ ~rs[r].closed
    BY DEF Samples, Gaps, Expired, Whole, IsGap
  <2>2. (rs[r].ordering # NoTime) \/ now - rs[r].seen > Deadline
    BY DEF Samples, Gaps, Expired, Whole, Overdue
  <2>3. r >= Floor(maxRef)
    BY <2>1, <2>2, <1>2, <1>5, <1>f, <1>t, ConstantTypes DEF EntryTruth
  <2>4. ScoredRound(r) /\ Produced[r] <= now /\ r \in DOMAIN named'
    BY <2>1, <1>5 DEF EntryTruth
  <2>5. ~(reports[r] >= 1) BY <2>1, <2>3, <2>4, <1>2, <1>f DEF Consistent
  <2>6. reports[r] \in Nat BY <2>1, <1>2, <1>t DEF TypeOK
  <2> QED BY <2>1, <2>3, <2>4, <2>5, <2>6, <1>2
<1>7. \A r \in AnyRound : /\ reports[r] \in Nat /\ reports'[r] \in Nat
                          /\ reports'[r] = IF r \in S \cup G THEN 1 ELSE reports[r]
  <2>1. \A r \in AnyRound : reports[r] \in Nat BY <1>t DEF TypeOK
  <2> QED BY <1>1, <1>6, <2>1
<1>8. TypeOK'
  <2>1. reports' \in [AnyRound -> Nat] BY <1>1, <1>7
  <2>2. \A b \in DOMAIN bundles' : b \in DOMAIN held /\ bundles'[b] = held[b]
    BY <1>1 DEF Restrict
  <2>3. DOMAIN bundles' \subseteq AllBundles
        /\ \A b \in DOMAIN bundles' : bundles'[b] \in [at : 0 .. MaxTime, noted : 0 .. MaxTime]
    BY <2>2 DEF Typed
  <2>4. \A r \in DOMAIN rounds' : rounds'[r] \in TrackedRound /\ r >= Floor(maxRef')
                                  /\ (rounds'[r].named => r \in Rounds) /\ r \in AnyRound
    BY <1>2, <1>4
  <2> QED BY <2>1, <2>3, <2>4, <1>t DEF TypeOK, TrackedRound
<1>9. ReportedOnce' BY <1>7 DEF IInv, ReportedOnce
<1>10. ReportsTruth' BY <1>6, <1>7 DEF IInv, ReportsTruth
<1>11. IdleTruth' BY DEF IdleTruth
<1>12. GapIsIncomplete'
  <2> SUFFICES ASSUME NEW r \in G
               PROVE  /\ r \in DOMAIN named'
                      /\ \E f \in Needed(r) : f \notin DOMAIN heard' \/ Forgotten(f)'
    BY <1>1 DEF GapIsIncomplete
  <2>1. /\ r \in DOMAIN rs /\ rs[r].named /\ r >= Floor(maxRef) /\ ScoredRound(r)
        /\ r \in DOMAIN named' /\ r \in Rounds
    BY <1>6
  <2>2. rs[r].ordering = NoTime \/ \E b \in Bundles[r] : b \notin DOMAIN held
    BY <2>1 DEF Gaps, Expired, Whole
  <2>3. CASE rs[r].ordering = NoTime
    <3>1. Ordering(r) \notin DOMAIN heard' BY <2>1, <2>3, <1>5 DEF EntryTruth
    <3> QED BY <2>1, <3>1 DEF Needed
  <2>4. CASE \E b \in Bundles[r] : b \notin DOMAIN held
    <3>1. PICK b \in Bundles[r] : b \notin DOMAIN held BY <2>4
    <3>2. b \in AllBundles /\ Bundle(b) \in Needed(r) BY <2>1, ConstantTypes DEF Needed
    <3>3. Bundle(b) \in DOMAIN heard' => now - heard'[Bundle(b)] >= BundleRetain
      BY <3>1, <3>2 DEF Consistent
    <3>4. Bundle(b)[1] = "bundle" BY DEF Bundle
    <3>5. Bundle(b) \in DOMAIN heard' => Forgotten(Bundle(b))'
      BY <3>3, <3>4 DEF Forgotten
    <3> QED BY <2>1, <3>2, <3>5
  <2> QED BY <2>2, <2>3, <2>4
<1>13. \A r : ScoredRound(r)' <=> ScoredRound(r) BY DEF ScoredRound, Scored
<1>14. ASSUME NEW r \in DOMAIN rounds'
       PROVE  EntryTruth(r, rounds[r], heard, named)'
  <2>1. /\ EntryTruth(r, rs[r], heard', named') /\ r \in DOMAIN rs /\ r >= Floor(maxRef)
        /\ r >= Floor(maxRef') /\ r \in AnyRound /\ r \in Nat
    BY <1>2, <1>4, <1>5, <1>14
  <2>2. ASSUME r \in S \cup X, ScoredRound(r)
        PROVE  \/ reports'[r] >= 1
               \/ /\ rs[r].ordering # NoTime
                  /\ IF rs[r].named THEN named'[r] - rs[r].ordering > Deadline
                                    ELSE now - rs[r].ordering > Deadline
    <3>1. CASE r \in S \cup G BY <3>1, <1>7, <2>1
    <3>2. CASE r \in X /\ r \notin G
      <4>1. ~rs[r].named /\ now - rs[r].seen > Deadline
        BY <3>2 DEF Gaps, Expired, Overdue, IsGap
      <4> QED BY <4>1, <2>1 DEF EntryTruth
    <3> QED BY <2>2, <3>1, <3>2
  <2>3. reports[r] >= 1 => reports'[r] >= 1 BY <1>7, <2>1
  <2>4. rounds'[r].closed /\ ScoredRound(r) =>
           \/ reports'[r] >= 1
           \/ /\ rs[r].ordering # NoTime
              /\ IF rs[r].named THEN named'[r] - rs[r].ordering > Deadline
                                ELSE now - rs[r].ordering > Deadline
    <3>1. rounds'[r].closed <=> rs[r].closed \/ r \in S \cup X BY <1>4, <1>14
    <3>2. CASE rs[r].closed BY <2>1, <2>3, <3>2 DEF EntryTruth
    <3> QED BY <2>2, <3>1, <3>2
  <2>5. /\ rounds'[r].ordering = rs[r].ordering /\ rounds'[r].named = rs[r].named
        /\ rounds'[r].seen = rs[r].seen
    BY <1>4, <1>14
  <2>6. ~(r < Floor(maxRef')) BY <2>1, <1>f
  <2> HIDE DEF S, X, G
  <2> QED BY <2>1, <2>4, <2>5, <2>6, <1>13 DEF EntryTruth
<1>15. \A r \in AnyRound : running' /\ reports'[r] >= 1 /\ ScoredRound(r) =>
          r < Floor(maxRef') \/ (r \in DOMAIN rounds' /\ rounds'[r].closed)
  <2> SUFFICES ASSUME NEW r \in AnyRound, running', reports'[r] >= 1, ScoredRound(r),
                      ~(r < Floor(maxRef'))
               PROVE  r \in DOMAIN rounds' /\ rounds'[r].closed
    OBVIOUS
  <2>n. r \in Nat BY ConstantTypes
  <2>1. CASE r \in S \cup G
    <3>1. r \in DOMAIN rounds' BY <2>1, <1>6, <1>3, <2>n, <1>f
    <3>2. r \in S \cup X BY <2>1 DEF Gaps
    <3> QED BY <3>1, <3>2, <1>4
  <2>2. CASE r \notin S \cup G
    <3>1. reports[r] >= 1 BY <2>2, <1>7
    <3>2. ~(r < Floor(maxRef)) BY <1>f, <2>n
    <3>3. r \in DOMAIN rs /\ rs[r].closed BY <3>1, <3>2 DEF Consistent
    <3>4. r \in DOMAIN rounds' BY <3>3, <1>3, <2>n, <1>f
    <3> QED BY <3>3, <3>4, <1>4
  <2> QED BY <2>1, <2>2
<1>16. \A r \in Nat : r \in DOMAIN rs \/ r < Floor(maxRef) =>
                        r \in DOMAIN rounds' \/ r < Floor(maxRef')
  BY <1>3, <1>f
<1>17. \A r \in DOMAIN named' : /\ ScoredRound(r) /\ Produced[r] <= now
                                /\ named'[r] \in 0 .. now
                                /\ r \in DOMAIN rounds' \/ r < Floor(maxRef')
  <2>1. \A r \in DOMAIN named' : /\ ScoredRound(r) /\ Produced[r] <= now
                                 /\ named'[r] \in 0 .. now
                                 /\ r \in DOMAIN rs \/ r < Floor(maxRef)
    BY DEF Consistent, Tracked
  <2>2. \A r \in DOMAIN named' : r \in Nat BY <2>1, ConstantTypes DEF ScoredRound
  <2> QED BY <2>1, <2>2, <1>16
<1>18. \A r \in Rounds : ScoredRound(r) /\ Ordering(r) \in DOMAIN heard' =>
                            r \in DOMAIN rounds' \/ r < Floor(maxRef')
  BY <1>16, ConstantTypes DEF Consistent, Tracked
<1>19. \A b \in DOMAIN bundles' : Bundle(b) \in DOMAIN heard'
  BY <1>1 DEF Restrict, Consistent
<1>20. \A b \in AllBundles : Bundle(b) \in DOMAIN heard' =>
          \/ b \in DOMAIN bundles' /\ heard'[Bundle(b)] <= bundles'[b].noted
          \/ now - heard'[Bundle(b)] >= BundleRetain
  <2> SUFFICES ASSUME NEW b \in AllBundles, Bundle(b) \in DOMAIN heard',
                      ~(now - heard'[Bundle(b)] >= BundleRetain)
               PROVE  b \in DOMAIN bundles' /\ heard'[Bundle(b)] <= bundles'[b].noted
    OBVIOUS
  <2>1. b \in DOMAIN held /\ heard'[Bundle(b)] <= held[b].noted BY DEF Consistent
  <2>2. heard'[Bundle(b)] \in Nat BY <1>t DEF Consistent
  <2>3. held[b].noted \in Nat BY <2>1, ConstantTypes DEF Typed
  <2>4. now - held[b].noted < BundleRetain BY <2>1, <2>2, <2>3, <1>t, ConstantTypes
  <2> QED BY <2>1, <2>4, <1>1 DEF Restrict
<1>21. \A f \in DOMAIN heard' : heard'[f] \in 0 .. now BY DEF Consistent
<1>22. Consistent(rounds, bundles, heard, named)'
  BY <1>13, <1>14, <1>15, <1>17, <1>18, <1>19, <1>20, <1>21 DEF Consistent, Tracked
<1> QED BY <1>8, <1>9, <1>10, <1>11, <1>12, <1>22 DEF IInv
-----------------------------------------------------------------------------
(* Every step keeps the invariant. *)

(* A read of the wire, tracked and drained, keeps the invariant. *)
LEMMA ReadKeepsInv ==
    ASSUME IInv, Read
    PROVE  IInv'
<1>1. PICK lag \in 0 .. Lag :
        LET t == now - lag IN
        \E chunk \in UNION {kSubset(k, Frames(t)) : k \in 1 .. FrameBound} :
            LET R == {r \in AnyRound : Ordering(r) \in chunk /\ Plausible(r)}
                B == {b \in AllBundles : Bundle(b) \in chunk}
                usable == {Ordering(r) : r \in R} \cup {Bundle(b) : b \in B}
            IN
            /\ t >= 0
            /\ maxRef' = maxRef
            /\ Drain(TrackOrderings(R, t), TrackBundles(B, t))
            /\ heard' = [f \in DOMAIN heard \cup usable |->
                            IF f \in DOMAIN heard THEN heard[f] ELSE t]
  BY DEF Read
<1> DEFINE t == now - lag
<1>2. PICK chunk :
            LET R == {r \in AnyRound : Ordering(r) \in chunk /\ Plausible(r)}
                B == {b \in AllBundles : Bundle(b) \in chunk}
                usable == {Ordering(r) : r \in R} \cup {Bundle(b) : b \in B}
            IN
            /\ t >= 0
            /\ maxRef' = maxRef
            /\ Drain(TrackOrderings(R, t), TrackBundles(B, t))
            /\ heard' = [f \in DOMAIN heard \cup usable |->
                            IF f \in DOMAIN heard THEN heard[f] ELSE t]
  BY <1>1
<1> DEFINE R == {r \in AnyRound : Ordering(r) \in chunk /\ Plausible(r)}
           B == {b \in AllBundles : Bundle(b) \in chunk}
<1>3. /\ t >= 0 /\ maxRef' = maxRef
      /\ Drain(TrackOrderings(R, t), TrackBundles(B, t))
      /\ heard' = [f \in DOMAIN heard \cup ({Ordering(r) : r \in R} \cup {Bundle(b) : b \in B}) |->
                      IF f \in DOMAIN heard THEN heard[f] ELSE t]
  BY <1>2
<1>4. R \in SUBSET AnyRound /\ B \in SUBSET AllBundles OBVIOUS
<1>5. /\ running /\ reads' = reads + 1 /\ reads < MaxReads
      /\ now' = now /\ session' = session /\ running' = running
      /\ scoreFrom' = scoreFrom /\ named' = named
  BY DEF Read
<1>6. TypeOK BY DEF IInv
<1>7. t \in 0 .. now
  <2>1. now \in Nat /\ lag \in Nat BY <1>6, ConstantTypes, PeeringAssumption DEF TypeOK
  <2> QED BY <1>3, <2>1
<1> HIDE DEF t, R, B
<1>8. /\ Typed(TrackOrderings(R, t), TrackBundles(B, t))
      /\ Consistent(TrackOrderings(R, t), TrackBundles(B, t), heard', named)
  BY <1>3, <1>4, <1>7, ReadTracks
<1>9. /\ maxRef' \in {0} \cup Rounds /\ maxRef' >= maxRef
      /\ reads' \in 0 .. MaxReads
  BY <1>3, <1>5, <1>6, ConstantTypes, PeeringAssumption DEF TypeOK
<1>10. Consistent(TrackOrderings(R, t), TrackBundles(B, t), heard', named')
  BY <1>5, <1>8
<1> QED BY <1>3, <1>5, <1>8, <1>9, <1>10, DrainKeepsInv

(* So does a line of the reference feed, *)
LEMMA LineKeepsInv ==
    ASSUME IInv, ReadLine
    PROVE  IInv'
<1>1. PICK q \in Rounds :
        /\ Produced[q] <= now
        /\ maxRef' = (IF q > maxRef THEN q ELSE maxRef)
        /\ Drain(TrackReference(q), bundles)
        /\ named' = [r \in DOMAIN named \cup (IF Scored(q) THEN {q} ELSE {}) |->
                        IF r \in DOMAIN named THEN named[r] ELSE now]
  BY DEF ReadLine
<1>2. /\ running /\ now' = now /\ session' = session /\ running' = running
      /\ reads' = reads /\ scoreFrom' = scoreFrom /\ heard' = heard
  BY DEF ReadLine
<1>3. TypeOK BY DEF IInv
<1>4. /\ Typed(TrackReference(q), bundles)
      /\ Consistent(TrackReference(q), bundles, heard, named')
  BY <1>1, <1>2, LineTracks
<1>5. /\ maxRef' \in {0} \cup Rounds /\ maxRef' >= maxRef
      /\ reads' \in 0 .. MaxReads
  BY <1>1, <1>2, <1>3, ConstantTypes DEF TypeOK
<1>6. Consistent(TrackReference(q), bundles, heard', named') BY <1>2, <1>4
<1> QED BY <1>1, <1>2, <1>4, <1>5, <1>6, DrainKeepsInv

(* so does the tick of maintenance, *)
LEMMA MaintainKeepsInv ==
    ASSUME IInv, Maintain
    PROVE  IInv'
<1>1. /\ running /\ maxRef' = maxRef /\ Drain(rounds, bundles) /\ now' = now
      /\ session' = session /\ running' = running /\ reads' = reads
      /\ scoreFrom' = scoreFrom /\ heard' = heard /\ named' = named
  BY DEF Maintain, worldVars
<1>2. TypeOK /\ Consistent(rounds, bundles, heard, named) BY DEF IInv
<1>3. Typed(rounds, bundles) BY <1>2 DEF TypeOK, Typed, TrackedRound
<1>4. Consistent(rounds, bundles, heard', named') BY <1>1, <1>2
<1>5. /\ maxRef' \in {0} \cup Rounds /\ maxRef' >= maxRef
      /\ reads' \in 0 .. MaxReads
  BY <1>1, <1>2, ConstantTypes DEF TypeOK
<1> QED BY <1>1, <1>3, <1>4, <1>5, DrainKeepsInv

(* so does the end of a session, which forgets everything, *)
LEMMA EndKeepsInv ==
    ASSUME IInv, EndSession
    PROVE  IInv'
<1>1. /\ running' = FALSE /\ session < MaxSessions /\ rounds' = Empty /\ bundles' = Empty
      /\ maxRef' = 0 /\ sent' = Nothing /\ heard' = Empty /\ named' = Empty
      /\ now' = now /\ session' = session /\ reads' = reads
      /\ scoreFrom' = scoreFrom /\ reports' = reports
  BY DEF EndSession
<1>2. DOMAIN Empty = {} BY DEF Empty
<1>3. TypeOK' BY <1>1, <1>2 DEF IInv, TypeOK
<1>4. ReportedOnce' /\ ReportsTruth' BY <1>1 DEF IInv, ReportedOnce, ReportsTruth
<1>5. GapIsIncomplete' BY <1>1 DEF GapIsIncomplete, Nothing
<1>6. IdleTruth' BY <1>1 DEF IdleTruth
<1>7. Consistent(rounds, bundles, heard, named)' BY <1>1, <1>2 DEF Consistent
<1> QED BY <1>3, <1>4, <1>5, <1>6, <1>7 DEF IInv

(* so does the start of the next, *)
LEMMA StartKeepsInv ==
    ASSUME IInv, StartSession
    PROVE  IInv'
<1>1. /\ ~running /\ running' = TRUE /\ session' = session + 1
      /\ scoreFrom' = now + Warmup /\ now' = now /\ reads' = reads /\ rounds' = rounds
      /\ bundles' = bundles /\ maxRef' = maxRef /\ sent' = sent /\ reports' = reports
      /\ heard' = heard /\ named' = named
  BY DEF StartSession
<1>2. /\ DOMAIN rounds = {} /\ DOMAIN bundles = {} /\ DOMAIN heard = {} /\ DOMAIN named = {}
      /\ session < MaxSessions
  BY <1>1 DEF IInv, IdleTruth, Empty
<1>3. TypeOK /\ now \in Nat /\ now <= MaxTime BY ConstantTypes DEF IInv, TypeOK
<1>4. TypeOK'
  <2>1. session' \in 1 .. MaxSessions BY <1>1, <1>2, <1>3, PeeringAssumption DEF TypeOK
  <2>2. scoreFrom' \in 0 .. MaxTime + Warmup BY <1>1, <1>3, ConstantTypes
  <2> QED BY <1>1, <1>2, <1>3, <2>1, <2>2 DEF TypeOK
<1>5. ReportedOnce' /\ ReportsTruth' BY <1>1 DEF IInv, ReportedOnce, ReportsTruth
<1>6. GapIsIncomplete' BY <1>1 DEF IInv, GapIsIncomplete, Forgotten
<1>7. IdleTruth' BY <1>1 DEF IdleTruth
<1>8. \A r \in AnyRound : reports'[r] >= 1 => ~ScoredRound(r)'
  <2>1. \A r \in AnyRound : reports[r] >= 1 => r \in Rounds /\ Produced[r] <= now
    BY DEF IInv, ReportsTruth
  <2> QED BY <1>1, <1>3, <2>1, ConstantTypes DEF ScoredRound, Scored
<1>9. Consistent(rounds, bundles, heard, named)' BY <1>1, <1>2, <1>8 DEF Consistent
<1> QED BY <1>4, <1>5, <1>6, <1>7, <1>9 DEF IInv

(* and so does time. *)
LEMMA ElapseKeepsInv ==
    ASSUME IInv, Elapse
    PROVE  IInv'
<1>1. /\ now < MaxTime /\ now' = now + 1 /\ session' = session /\ running' = running
      /\ reads' = reads /\ rounds' = rounds /\ bundles' = bundles
      /\ maxRef' = maxRef /\ scoreFrom' = scoreFrom /\ sent' = sent /\ reports' = reports
      /\ heard' = heard /\ named' = named
  BY DEF Elapse, worldVars, assemblyVars
<1>2. TypeOK /\ Consistent(rounds, bundles, heard, named) BY DEF IInv
<1>3. now \in Nat /\ now' \in Nat /\ now' \in 0 .. MaxTime BY <1>1, <1>2, ConstantTypes DEF TypeOK
<1>4. TypeOK' BY <1>1, <1>2, <1>3 DEF TypeOK
<1>5. ReportedOnce' BY <1>1 DEF IInv, ReportedOnce
<1>p. \A r \in Rounds : Produced[r] <= now => Produced[r] <= now'
  <2>1. \A n \in Nat : n <= now => n <= now' BY <1>1, <1>3
  <2> QED BY <2>1, ConstantTypes
<1>6. ReportsTruth'
  <2>1. ReportsTruth BY DEF IInv
  <2> QED BY <1>1, <1>p, <2>1 DEF ReportsTruth
<1>7. IdleTruth' BY <1>1 DEF IInv, IdleTruth
<1>8. \A f \in DOMAIN heard : heard[f] \in Nat /\ heard[f] <= now BY <1>2, <1>3 DEF Consistent
<1>9. GapIsIncomplete'
  <2>1. \A f \in DOMAIN heard : Forgotten(f) => Forgotten(f)'
    BY <1>1, <1>3, <1>8, ConstantTypes DEF Forgotten
  <2> QED BY <1>1, <2>1 DEF IInv, GapIsIncomplete
<1>10. ASSUME NEW r \in DOMAIN rounds
       PROVE  EntryTruth(r, rounds[r], heard, named)'
  <2>1. EntryTruth(r, rounds[r], heard, named) BY <1>2 DEF Consistent
  <2>2. /\ rounds[r] \in TrackedRound /\ r >= Floor(maxRef) /\ r \in Nat
        /\ (rounds[r].named => r \in Rounds)
    BY <1>2, ConstantTypes DEF TypeOK, TrackedRound
  <2>3. Floor(maxRef) \in Nat BY <1>2, FloorType
  <2>4. ScoredRound(r)' <=> ScoredRound(r) BY <1>1 DEF ScoredRound, Scored
  <2>5. rounds[r].ordering \in Int BY <2>2, ConstantTypes DEF TrackedRound, Times, NoTime
  <2>6. now - rounds[r].ordering > Deadline => now' - rounds[r].ordering > Deadline
    BY <1>1, <1>3, <2>5, ConstantTypes
  <2>7. r \in Rounds /\ Produced[r] <= now => Produced[r] <= now'
    BY <1>p
  <2>8. ~(r < Floor(maxRef)) BY <2>2, <2>3
  <2> QED BY <1>1, <2>1, <2>2, <2>4, <2>6, <2>7, <2>8 DEF EntryTruth
<1>11. \A r \in DOMAIN named : Produced[r] <= now' /\ named[r] \in 0 .. now'
  <2> SUFFICES ASSUME NEW r \in DOMAIN named
               PROVE  Produced[r] <= now' /\ named[r] \in 0 .. now'
    OBVIOUS
  <2>1. r \in Rounds /\ Produced[r] <= now /\ named[r] \in 0 .. now
    BY <1>2 DEF Consistent, ScoredRound
  <2>2. named[r] \in 0 .. now' BY <1>1, <1>3, <2>1
  <2> QED BY <2>1, <2>2, <1>p
<1>12. \A b \in AllBundles :
          Bundle(b) \in DOMAIN heard /\ now - heard[Bundle(b)] >= BundleRetain =>
              now' - heard[Bundle(b)] >= BundleRetain
  BY <1>1, <1>3, <1>8, ConstantTypes
<1>13. \A r : ScoredRound(r)' <=> ScoredRound(r) BY <1>1 DEF ScoredRound, Scored
<1>14. \A f \in DOMAIN heard : heard[f] \in 0 .. now' BY <1>1, <1>3, <1>8
<1>15. Consistent(rounds, bundles, heard, named)'
  BY <1>1, <1>2, <1>10, <1>11, <1>12, <1>13, <1>14 DEF Consistent, Tracked
<1> QED BY <1>4, <1>5, <1>6, <1>7, <1>9, <1>15 DEF IInv

(* The invariant holds before the first session. *)
LEMMA InitInv == Init => IInv
<1> SUFFICES ASSUME Init PROVE IInv OBVIOUS
<1>1. /\ now = 0 /\ session = 1 /\ running /\ reads = 0 /\ rounds = Empty
      /\ bundles = Empty /\ maxRef = 0 /\ scoreFrom = Warmup /\ sent = Nothing
      /\ reports = [r \in AnyRound |-> 0] /\ heard = Empty /\ named = Empty
  BY DEF Init
<1>2. DOMAIN Empty = {} BY DEF Empty
<1>3. TypeOK BY <1>1, <1>2, ConstantTypes, PeeringAssumption DEF TypeOK
<1>4. ReportedOnce /\ ReportsTruth BY <1>1 DEF ReportedOnce, ReportsTruth
<1>5. GapIsIncomplete BY <1>1 DEF GapIsIncomplete, Nothing
<1>6. Consistent(rounds, bundles, heard, named) BY <1>1, <1>2 DEF Consistent
<1> QED BY <1>1, <1>3, <1>4, <1>5, <1>6 DEF IInv, IdleTruth

(* Every step of the wire leg keeps it. *)
LEMMA StepInv == IInv /\ [Next]_vars => IInv'
<1> SUFFICES ASSUME IInv, [Next]_vars PROVE IInv' OBVIOUS
<1>1. CASE Elapse BY <1>1, ElapseKeepsInv
<1>2. CASE Read BY <1>2, ReadKeepsInv
<1>3. CASE ReadLine BY <1>3, LineKeepsInv
<1>4. CASE Maintain BY <1>4, MaintainKeepsInv
<1>5. CASE EndSession BY <1>5, EndKeepsInv
<1>6. CASE StartSession BY <1>6, StartKeepsInv
<1>7. CASE UNCHANGED vars
  BY <1>7 DEF vars, worldVars, assemblyVars, IInv, TypeOK, ReportedOnce, GapIsIncomplete,
              Forgotten, ReportsTruth, IdleTruth, Consistent, Tracked, EntryTruth,
              ScoredRound, Scored
<1> QED BY <1>1, <1>2, <1>3, <1>4, <1>5, <1>6, <1>7 DEF Next
-----------------------------------------------------------------------------
(* The theorems. *)

\* What an entry of the assembly knows, and what was heard and named, agree in every
\* reachable state, whatever is read, served or lost (track_payload, track_reference,
\* drain_ready, prune).
THEOREM InductiveInvariant == Spec => []IInv
BY InitInv, StepInv, PTL DEF Spec

\* Every variable keeps its type, and no round behind the floor is kept (prune).
THEOREM TypeCorrect == Spec => []TypeOK
<1>1. IInv => TypeOK BY DEF IInv
<1> QED BY <1>1, InductiveInvariant, PTL

\* A round is one sample or one gap at most, over all sessions: `emitted' and the floor
\* keep it within a session, the warm-up from one session to the next (drain_ready).
THEOREM RoundReportedOnce == Spec => []ReportedOnce
<1>1. IInv => ReportedOnce BY DEF IInv
<1> QED BY <1>1, InductiveInvariant, PTL

\* A gap is a block the feed named of which some frame never came or is no longer held,
\* so a stray pattern of the scan is never charged to the service (drain_ready).
THEOREM GapsAreIncomplete == Spec => []GapIsIncomplete
<1>1. IInv => GapIsIncomplete BY DEF IInv
<1> QED BY <1>1, InductiveInvariant, PTL

\* A scored round is pending, was reported or fell behind, unless the feed named it after
\* its ordering record had waited out the deadline (track_reference, drain_ready).
THEOREM NamedRoundsAreAccounted == Spec => []NamedRoundsAccounted
<1>1. IInv => NamedRoundsAccounted
  <2> SUFFICES ASSUME IInv, NEW r \in DOMAIN named, ~(r < Floor(maxRef)),
                      r \in DOMAIN rounds => rounds[r].closed
               PROVE  Reported(r) \/ NamedLate(r)
    BY DEF NamedRoundsAccounted, Pending
  <2>1. ScoredRound(r) /\ r \in DOMAIN rounds
    BY DEF IInv, Consistent, Tracked
  <2>2. EntryTruth(r, rounds[r], heard, named) /\ rounds[r].closed
    BY <2>1 DEF IInv, Consistent
  <2>3. r \in AnyRound /\ r >= Floor(maxRef) /\ reports[r] \in Nat
    BY <2>1 DEF IInv, TypeOK
  <2>4. rounds[r].named BY <2>2, <2>3 DEF EntryTruth
  <2>5. CASE reports[r] >= 1 BY <2>3, <2>5 DEF Reported
  <2>6. CASE rounds[r].ordering # NoTime /\ named[r] - rounds[r].ordering > Deadline
    BY <2>1, <2>2, <2>3, <2>6 DEF EntryTruth, NamedLate
  <2> QED BY <2>1, <2>2, <2>4, <2>5, <2>6 DEF EntryTruth
<1> QED BY <1>1, InductiveInvariant, PTL
-----------------------------------------------------------------------------
(* The stamp of a sample.  A bundle held is stamped with its first arrival, or with a *)
(* later copy when the first may have been pruned; the invariant needs the other one  *)
(* for the ordering records (EntryTruth) and for what is known of a pruned bundle.    *)

StampTruth(held, hd) ==
    \A b \in DOMAIN held :
        /\ held[b].at >= hd[Bundle(b)]
        /\ held[b].at = hd[Bundle(b)] \/ now - hd[Bundle(b)] >= BundleRetain

StampInv == StampTruth(bundles, heard) /\ StampIsBoundary

(* A read stamps the bundles it is the first to bring, and the pruned ones again. *)
LEMMA ReadStamps ==
    ASSUME IInv, StampInv, NEW t \in 0 .. now, now - t <= Lag, NEW B \in SUBSET AllBundles,
           NEW R \in SUBSET AnyRound, NEW hd,
           hd = [f \in DOMAIN heard \cup ({Ordering(r) : r \in R} \cup {Bundle(b) : b \in B}) |->
                    IF f \in DOMAIN heard THEN heard[f] ELSE t]
    PROVE  StampTruth(TrackBundles(B, t), hd)
<1> DEFINE held == TrackBundles(B, t)
<1>t. TypeOK /\ Consistent(rounds, bundles, heard, named) /\ now \in Nat /\ t \in Nat /\ t <= now
  BY ConstantTypes DEF IInv, TypeOK
<1> SUFFICES ASSUME NEW b \in DOMAIN held
             PROVE  /\ held[b].at >= hd[Bundle(b)]
                    /\ held[b].at = hd[Bundle(b)] \/ now - hd[Bundle(b)] >= BundleRetain
  BY DEF StampTruth
<1>1. \A f \in DOMAIN heard : f \in DOMAIN hd /\ hd[f] = heard[f] OBVIOUS
<1>2. CASE b \in DOMAIN bundles
  <2>1. Bundle(b) \in DOMAIN heard /\ held[b] = bundles[b]
    BY <1>t, <1>2 DEF Consistent, TrackBundles
  <2> QED BY <2>1, <1>1, <1>2 DEF StampInv, StampTruth
<1>3. CASE b \notin DOMAIN bundles
  <2>1. b \in B /\ held[b].at = t BY <1>3 DEF TrackBundles
  <2>2. Bundle(b) \notin DOMAIN heard => hd[Bundle(b)] = t BY <2>1
  <2>3. Bundle(b) \in DOMAIN heard => /\ heard[Bundle(b)] \in Nat
                                      /\ now - heard[Bundle(b)] >= BundleRetain
    BY <1>t, <1>3, <2>1 DEF Consistent
  <2>4. Lag \in Nat /\ BundleRetain \in Nat BY PeeringAssumption
  <2>5. Bundle(b) \in DOMAIN heard => t >= heard[Bundle(b)]
    BY <1>t, <2>3, <2>4, LagAssumption
  <2> QED BY <1>1, <1>t, <2>1, <2>2, <2>3, <2>5
<1> QED BY <1>2, <1>3

(* What a drain sends is stamped with the boundary. *)
LEMMA DrainStamps ==
    ASSUME IInv, NEW rs, NEW held, Typed(rs, held), StampTruth(held, heard'),
           Consistent(rs, held, heard', named'), Drain(rs, held),
           now' = now, scoreFrom' = scoreFrom
    PROVE  StampInv'
<1>t. TypeOK /\ now \in Nat /\ now <= MaxTime /\ MaxTime \in Nat BY ConstantTypes DEF IInv, TypeOK
<1>f. Floor(maxRef) \in Nat BY <1>t, FloorType
<1>1. StampTruth(bundles, heard)'
  BY DEF Drain, Restrict, StampTruth
<1>2. StampIsBoundary'
  <2> SUFFICES ASSUME NEW s \in sent'.samples
               PROVE  LET boundary == Max({heard'[f] : f \in Needed(s.round) \cap DOMAIN heard'}) IN
                      /\ Needed(s.round) \subseteq DOMAIN heard'
                      /\ s.at >= boundary
                      /\ (\A f \in Needed(s.round) : ~Forgotten(f)') => s.at = boundary
    BY DEF StampIsBoundary
  <2>1. PICK r \in Samples(rs, held) : s = [round |-> r, at |-> ReadyAt(r, rs[r], held)]
    BY DEF Drain
  <2>2. /\ r \in DOMAIN rs /\ rs[r].named /\ rs[r].ordering # NoTime
        /\ Bundles[r] \subseteq DOMAIN held
    BY DEF Samples, Whole
  <2>3. EntryTruth(r, rs[r], heard', named') /\ r \in Rounds /\ r \in Nat
    BY <2>2, ConstantTypes DEF Consistent, Typed
  <2>4. r >= Floor(maxRef) /\ ScoredRound(r) BY <2>2, <2>3, <1>f DEF EntryTruth
  <2>5. Ordering(r) \in DOMAIN heard' /\ heard'[Ordering(r)] = rs[r].ordering
    BY <2>2, <2>3, <2>4 DEF EntryTruth
  <2>6. \A b \in Bundles[r] : /\ Bundle(b) \in DOMAIN heard' /\ held[b].at \in 0 .. MaxTime
                              /\ held[b].at >= heard'[Bundle(b)]
                              /\ \/ held[b].at = heard'[Bundle(b)]
                                 \/ now - heard'[Bundle(b)] >= BundleRetain
    <3> TAKE b \in Bundles[r]
    <3>1. b \in DOMAIN held BY <2>2
    <3>2. held[b] \in [at : 0 .. MaxTime, noted : 0 .. MaxTime] BY <3>1 DEF Typed
    <3> QED BY <3>1, <3>2 DEF StampTruth, Consistent
  <2>7. Needed(r) \subseteq DOMAIN heard' BY <2>5, <2>6 DEF Needed
  <2>8. \A f \in DOMAIN heard' : heard'[f] \in 0 .. MaxTime BY <1>t DEF Consistent
  <2> DEFINE Heard == {heard'[f] : f \in Needed(r) \cap DOMAIN heard'}
             Ready == {rs[r].ordering} \cup {held[b].at : b \in Bundles[r]}
  <2>9. Heard \in SUBSET (0 .. MaxTime) /\ Heard # {} BY <2>5, <2>7, <2>8 DEF Needed
  <2>10. Ready \in SUBSET (0 .. MaxTime) /\ Ready # {} BY <2>5, <2>6, <2>8
  <2>11. s.at = Max(Ready) /\ s.round = r BY <2>1 DEF ReadyAt
  <2>12. \A x \in Heard : \E y \in Ready : y >= x
    <3> SUFFICES ASSUME NEW f \in Needed(r) \cap DOMAIN heard' PROVE \E y \in Ready : y >= heard'[f]
      OBVIOUS
    <3>1. CASE f = Ordering(r) BY <3>1, <2>5, <2>8
    <3>2. CASE \E b \in Bundles[r] : f = Bundle(b) BY <3>2, <2>6
    <3> QED BY <3>1, <3>2 DEF Needed
  <2>13. ASSUME \A f \in Needed(r) : ~Forgotten(f)' PROVE Ready = Heard
    <3>1. \A b \in Bundles[r] : held[b].at = heard'[Bundle(b)]
      <4> TAKE b \in Bundles[r]
      <4>1. Bundle(b) \in Needed(r) /\ Bundle(b)[1] = "bundle" BY DEF Needed, Bundle
      <4> QED BY <4>1, <2>6, <2>13 DEF Forgotten
    <3>2. Needed(r) \cap DOMAIN heard' = {Ordering(r)} \cup {Bundle(b) : b \in Bundles[r]}
      BY <2>7 DEF Needed
    <3>3. Ready \subseteq Heard BY <3>1, <3>2, <2>5
    <3>4. Heard \subseteq Ready BY <3>1, <3>2, <2>5
    <3> QED BY <3>3, <3>4
  <2> HIDE DEF Heard, Ready
  <2>14. /\ Max(Heard) \in Heard
         /\ Max(Ready) \in Ready /\ \A x \in Ready : x <= Max(Ready)
    BY <2>9, <2>10, <1>t, MaxOfBounded
  <2>15. Max(Ready) >= Max(Heard)
    <3>1. PICK y \in Ready : y >= Max(Heard) BY <2>12, <2>14
    <3>2. \A x \in Ready \cup Heard : x \in Nat BY <2>9, <2>10, <1>t
    <3>3. Max(Ready) \in Nat /\ Max(Heard) \in Nat /\ y \in Nat /\ y <= Max(Ready)
      BY <3>1, <3>2, <2>14
    <3> QED BY <3>1, <3>3
  <2> QED BY <2>7, <2>11, <2>13, <2>15 DEF Heard
<1> QED BY <1>1, <1>2 DEF StampInv

(* A read keeps what is known of the boundaries. *)
LEMMA ReadKeepsStamps ==
    ASSUME IInv, StampInv, Read
    PROVE  StampInv'
<1>1. PICK lag \in 0 .. Lag :
        LET t == now - lag IN
        \E chunk \in UNION {kSubset(k, Frames(t)) : k \in 1 .. FrameBound} :
            LET R == {r \in AnyRound : Ordering(r) \in chunk /\ Plausible(r)}
                B == {b \in AllBundles : Bundle(b) \in chunk}
                usable == {Ordering(r) : r \in R} \cup {Bundle(b) : b \in B}
            IN
            /\ t >= 0
            /\ maxRef' = maxRef
            /\ Drain(TrackOrderings(R, t), TrackBundles(B, t))
            /\ heard' = [f \in DOMAIN heard \cup usable |->
                            IF f \in DOMAIN heard THEN heard[f] ELSE t]
  BY DEF Read
<1> DEFINE t == now - lag
<1>2. PICK chunk :
            LET R == {r \in AnyRound : Ordering(r) \in chunk /\ Plausible(r)}
                B == {b \in AllBundles : Bundle(b) \in chunk}
                usable == {Ordering(r) : r \in R} \cup {Bundle(b) : b \in B}
            IN
            /\ t >= 0
            /\ Drain(TrackOrderings(R, t), TrackBundles(B, t))
            /\ heard' = [f \in DOMAIN heard \cup usable |->
                            IF f \in DOMAIN heard THEN heard[f] ELSE t]
  BY <1>1
<1> DEFINE R == {r \in AnyRound : Ordering(r) \in chunk /\ Plausible(r)}
           B == {b \in AllBundles : Bundle(b) \in chunk}
<1>3. /\ t >= 0 /\ Drain(TrackOrderings(R, t), TrackBundles(B, t))
      /\ heard' = [f \in DOMAIN heard \cup ({Ordering(r) : r \in R} \cup {Bundle(b) : b \in B}) |->
                      IF f \in DOMAIN heard THEN heard[f] ELSE t]
  BY <1>2
<1>4. R \in SUBSET AnyRound /\ B \in SUBSET AllBundles OBVIOUS
<1>5. now' = now /\ scoreFrom' = scoreFrom /\ named' = named BY DEF Read
<1>6. t \in 0 .. now /\ now - t <= Lag
  <2>1. now \in Nat /\ lag \in Nat /\ lag <= Lag /\ Lag \in Nat
    BY ConstantTypes, PeeringAssumption DEF IInv, TypeOK
  <2> QED BY <1>3, <2>1
<1> HIDE DEF t, R, B
<1>7. /\ Typed(TrackOrderings(R, t), TrackBundles(B, t))
      /\ Consistent(TrackOrderings(R, t), TrackBundles(B, t), heard', named)
  BY <1>3, <1>4, <1>6, ReadTracks
<1>8. StampTruth(TrackBundles(B, t), heard') BY <1>3, <1>4, <1>6, ReadStamps
<1>9. Consistent(TrackOrderings(R, t), TrackBundles(B, t), heard', named') BY <1>5, <1>7
<1> QED BY <1>3, <1>5, <1>7, <1>8, <1>9, DrainStamps

(* So does a line of the feed, *)
LEMMA LineKeepsStamps ==
    ASSUME IInv, StampInv, ReadLine
    PROVE  StampInv'
<1>1. PICK q \in Rounds :
        /\ Produced[q] <= now
        /\ Drain(TrackReference(q), bundles)
        /\ named' = [r \in DOMAIN named \cup (IF Scored(q) THEN {q} ELSE {}) |->
                        IF r \in DOMAIN named THEN named[r] ELSE now]
  BY DEF ReadLine
<1>2. running /\ now' = now /\ scoreFrom' = scoreFrom /\ heard' = heard BY DEF ReadLine
<1>3. /\ Typed(TrackReference(q), bundles)
      /\ Consistent(TrackReference(q), bundles, heard, named')
  BY <1>1, <1>2, LineTracks
<1>4. StampTruth(bundles, heard') BY <1>2 DEF StampInv
<1>5. Consistent(TrackReference(q), bundles, heard', named') BY <1>2, <1>3
<1> QED BY <1>1, <1>2, <1>3, <1>4, <1>5, DrainStamps

(* so does the tick, *)
LEMMA MaintainKeepsStamps ==
    ASSUME IInv, StampInv, Maintain
    PROVE  StampInv'
<1>1. /\ Drain(rounds, bundles) /\ now' = now /\ scoreFrom' = scoreFrom
      /\ heard' = heard /\ named' = named
  BY DEF Maintain
<1>2. Typed(rounds, bundles) BY DEF IInv, TypeOK, Typed, TrackedRound
<1>3. Consistent(rounds, bundles, heard', named') BY <1>1 DEF IInv
<1>4. StampTruth(bundles, heard') BY <1>1 DEF StampInv
<1> QED BY <1>1, <1>2, <1>3, <1>4, DrainStamps

(* and so does time. *)
LEMMA ElapseKeepsStamps ==
    ASSUME IInv, StampInv, Elapse
    PROVE  StampInv'
<1>1. now' = now + 1 /\ bundles' = bundles /\ sent' = sent /\ heard' = heard
  BY DEF Elapse, assemblyVars
<1>2. Consistent(rounds, bundles, heard, named) /\ now \in Nat BY ConstantTypes DEF IInv, TypeOK
<1>3. \A f \in DOMAIN heard : heard[f] \in Nat BY <1>2 DEF Consistent
<1>4. \A f \in DOMAIN heard :
        now - heard[f] >= BundleRetain => now' - heard[f] >= BundleRetain
  BY <1>1, <1>2, <1>3, ConstantTypes
<1>5. \A b \in DOMAIN bundles : Bundle(b) \in DOMAIN heard BY <1>2 DEF Consistent
<1>6. StampTruth(bundles, heard)' BY <1>1, <1>4, <1>5 DEF StampInv, StampTruth
<1>7. StampIsBoundary'
  <2>1. \A f \in DOMAIN heard : Forgotten(f) => Forgotten(f)' BY <1>1, <1>4 DEF Forgotten
  <2>2. \A s \in sent.samples : Needed(s.round) \subseteq DOMAIN heard
    BY DEF StampInv, StampIsBoundary
  <2> QED BY <1>1, <2>1, <2>2 DEF StampInv, StampIsBoundary
<1> QED BY <1>6, <1>7 DEF StampInv

(* Every step of the wire leg keeps it. *)
LEMMA StepStamps == IInv /\ StampInv /\ [Next]_vars => StampInv'
<1> SUFFICES ASSUME IInv, StampInv, [Next]_vars PROVE StampInv' OBVIOUS
<1>1. CASE Elapse BY <1>1, ElapseKeepsStamps
<1>2. CASE Read BY <1>2, ReadKeepsStamps
<1>3. CASE ReadLine BY <1>3, LineKeepsStamps
<1>4. CASE Maintain BY <1>4, MaintainKeepsStamps
<1>5. CASE EndSession
  BY <1>5 DEF EndSession, Empty, Nothing, StampInv, StampTruth, StampIsBoundary
<1>6. CASE StartSession
  BY <1>6 DEF StartSession, StampInv, StampTruth, StampIsBoundary, Forgotten
<1>7. CASE UNCHANGED vars
  BY <1>7 DEF vars, worldVars, assemblyVars, StampInv, StampTruth, StampIsBoundary, Forgotten
<1> QED BY <1>1, <1>2, <1>3, <1>4, <1>5, <1>6, <1>7 DEF Next

\* A sample is stamped with the last of the first arrivals its block needs, whatever the
\* lag of the feed and however often a frame is served again; a bundle that was pruned
\* can only make it later, because the tap hands nothing over later than the assembly
\* remembers it (track_ordering, track_bundle, drain_ready, prune).
THEOREM SamplesAreBoundaries == Spec => []StampIsBoundary
<1>1. Init => StampInv
  BY DEF Init, Empty, Nothing, StampInv, StampTruth, StampIsBoundary
<1>2. StampInv => StampIsBoundary BY DEF StampInv
<1> QED BY <1>1, <1>2, StepStamps, InductiveInvariant, PTL DEF Spec
-----------------------------------------------------------------------------
(***************************************************************************)
(* The decoded leg of the dataset, for every chain, deadline and retention *)
(* and any number of lines and sessions: every round the feed names is     *)
(* reported once, and a sample has the time of its first complete line.    *)
(*                                                                         *)
(* A turn tracks and then drains here as well: the invariant (Known) is    *)
(* stated over any rounds, first lines and names, and the lemma on the     *)
(* drain leads from there to the next state.                               *)
(***************************************************************************)
LineRecord == [at : Nat \cup {NoTime}, right : BOOLEAN]
RoundRecord == [line : LineRecord, reference : BOOLEAN, seen : Nat, reported : BOOLEAN]

\* What an entry knows: whether its round was reported, its first complete line, its name.
Truth(r, e, fl, nm) ==
    /\ e.reported <=> decodedReports[r] = 1
    /\ e.line # NoLine => r \in DOMAIN fl /\ fl[r] = e.line
    /\ e.line = NoLine => r \notin DOMAIN fl
    /\ e.reference => r \in nm

\* An entry made again, within a turn, for a round behind the floor: the drain neither
\* reports nor keeps it.
Revenant(r, e) == r < Floor(maxRef) /\ ~e.reported /\ ~Joined(e) /\ e.seen = now

Known(rs, fl, nm) ==
    /\ DOMAIN rs \subseteq AnyRound /\ DOMAIN fl \subseteq AnyRound /\ nm \subseteq AnyRound
    /\ \A r \in DOMAIN rs :
        /\ rs[r] \in RoundRecord
        /\ Truth(r, rs[r], fl, nm) \/ Revenant(r, rs[r])
    /\ \A r \in AnyRound :
        /\ decodedReports[r] \in {0, 1}
        /\ r \notin DOMAIN rs =>
            \/ r < Floor(maxRef)
            \/ decodedReports[r] = 0 /\ r \notin DOMAIN fl /\ r \notin nm

DecodedInv ==
    /\ now \in Nat /\ maxRef \in {0} \cup Rounds
    /\ Known(decoded, firstLine, decodedNamed)
    /\ \A r \in DOMAIN decoded : r >= Floor(maxRef)
    /\ DecodedStampIsFirst
-----------------------------------------------------------------------------
(* A round of the chain is a positive number. *)
LEMMA RoundTypes ==
    /\ AnyRound \subseteq Nat /\ Rounds \subseteq AnyRound /\ 0 \in Nat
    /\ \A m \in {0} \cup Rounds : m \in Nat /\ Floor(m) \in Nat
    /\ \A m, n \in {0} \cup Rounds : m <= n => Floor(m) <= Floor(n)
BY PeeringAssumption DEF AnyRound, Floor

\* A fresh entry is empty.
LEMMA FreshEntry ==
    ASSUME now \in Nat
    PROVE  /\ DecodedFresh \in RoundRecord /\ DecodedFresh.line = NoLine /\ ~DecodedFresh.reference
           /\ DecodedFresh.seen = now /\ ~DecodedFresh.reported
BY DEF DecodedFresh, RoundRecord, LineRecord, NoLine, NoTime

\* A drain reports what was not reported, keeps what is not behind the floor, and leaves
\* the rest behind it.
LEMMA DrainKeeps ==
    ASSUME now \in Nat, maxRef \in {0} \cup Rounds, maxRef' \in {0} \cup Rounds, maxRef <= maxRef',
           now' = now, NEW rs, Known(rs, firstLine', decodedNamed'), DrainDecoded(rs)
    PROVE  DecodedInv'
<1> DEFINE open    == {r \in DOMAIN rs : ~rs[r].reported}
           samples == {r \in open : Joined(rs[r]) /\ rs[r].line.right}
           gaps    == {r \in open : IF Joined(rs[r]) THEN ~rs[r].line.right ELSE DecodedOverdue(rs[r])}
           shut    == samples \cup gaps
<1>1. /\ decoded' = [r \in Retained(rs) |-> [rs[r] EXCEPT !.reported = @ \/ r \in shut]]
      /\ decodedSent' = [samples |-> {[round |-> r, at |-> rs[r].line.at] : r \in samples}, gaps |-> gaps]
      /\ decodedReports' = [r \in AnyRound |-> decodedReports[r] + (IF r \in shut THEN 1 ELSE 0)]
    BY Zenon DEF DrainDecoded, ClosedBy
<1>2. Floor(maxRef) \in Nat /\ Floor(maxRef') \in Nat /\ Floor(maxRef) <= Floor(maxRef')
    BY RoundTypes
<1>3. Deadline \in Nat
    BY PeeringAssumption
<1>4. DOMAIN rs \subseteq AnyRound /\ AnyRound \subseteq Nat
    BY RoundTypes DEF Known
\* What is reported now was not reported before.
<1>5. \A r \in shut : Truth(r, rs[r], firstLine', decodedNamed') /\ decodedReports[r] = 0 /\ r \in DOMAIN rs
    <2>1. SUFFICES ASSUME NEW r \in shut
                   PROVE  Truth(r, rs[r], firstLine', decodedNamed') /\ decodedReports[r] = 0 /\ r \in DOMAIN rs
        OBVIOUS
    <2>2. r \in DOMAIN rs /\ ~rs[r].reported /\ (Joined(rs[r]) \/ DecodedOverdue(rs[r]))
        BY <2>1
    <2>3. ~Revenant(r, rs[r])
        <3>1. SUFFICES ASSUME rs[r].seen = now PROVE ~DecodedOverdue(rs[r])
            BY <2>2 DEF Revenant
        <3>2. QED
            BY <1>3, <3>1 DEF DecodedOverdue
    <2>4. Truth(r, rs[r], firstLine', decodedNamed')
        BY <2>2, <2>3 DEF Known
    <2>5. decodedReports[r] # 1
        BY <2>2, <2>4 DEF Truth
    <2>6. QED
        BY <1>4, <2>2, <2>4, <2>5 DEF Known
<1> HIDE DEF shut
<1>6. /\ DOMAIN decoded' = {r \in DOMAIN rs : r >= Floor(maxRef')}
      /\ \A r \in DOMAIN decoded' :
            /\ decoded'[r] \in RoundRecord
            /\ decoded'[r].line = rs[r].line /\ decoded'[r].reference = rs[r].reference
            /\ decoded'[r].reported <=> rs[r].reported \/ r \in shut
    <2>1. DOMAIN decoded' = {r \in DOMAIN rs : r >= Floor(maxRef')}
        BY <1>1 DEF Retained
    <2>2. ASSUME NEW r \in DOMAIN decoded'
          PROVE  /\ decoded'[r] \in RoundRecord
                 /\ decoded'[r].line = rs[r].line /\ decoded'[r].reference = rs[r].reference
                 /\ decoded'[r].reported <=> rs[r].reported \/ r \in shut
        <3>1. rs[r] \in RoundRecord
            BY <2>1 DEF Known
        <3>2. decoded'[r] = [rs[r] EXCEPT !.reported = @ \/ r \in shut]
            BY <1>1 DEF Retained
        <3>3. QED
            BY <3>1, <3>2 DEF RoundRecord
    <2>3. QED
        BY <2>1, <2>2
<1>7. \A r \in AnyRound : /\ decodedReports[r] \in {0, 1}
                          /\ decodedReports'[r] = IF r \in shut THEN 1 ELSE decodedReports[r]
    BY <1>1, <1>5 DEF Known
<1>8. ASSUME NEW r \in DOMAIN decoded' PROVE Truth(r, decoded[r], firstLine, decodedNamed)'
    <2>1. r \in DOMAIN rs /\ r >= Floor(maxRef') /\ r \in AnyRound /\ r \in Nat
        BY <1>4, <1>6
    <2>2. Truth(r, rs[r], firstLine', decodedNamed')
        BY <1>2, <2>1 DEF Known, Revenant
    <2>3. decoded'[r].reported <=> decodedReports'[r] = 1
        BY <1>6, <1>7, <2>1, <2>2 DEF Truth
    <2>4. QED
        BY <1>6, <2>2, <2>3 DEF Truth
<1>9. Known(decoded, firstLine, decodedNamed)'
    <2>1. /\ DOMAIN decoded' \subseteq AnyRound /\ DOMAIN firstLine' \subseteq AnyRound
          /\ decodedNamed' \subseteq AnyRound
        BY <1>4, <1>6 DEF Known
    <2>2. ASSUME NEW r \in AnyRound, r \notin DOMAIN decoded'
          PROVE  \/ r < Floor(maxRef')
                 \/ decodedReports'[r] = 0 /\ r \notin DOMAIN firstLine' /\ r \notin decodedNamed'
        <3>1. CASE r \in DOMAIN rs
            BY <1>2, <1>4, <1>6, <2>2, <3>1
        <3>2. CASE r \notin DOMAIN rs
            <4>1. r \notin shut
                BY <1>5, <3>2
            <4>2. QED
                BY <1>2, <1>4, <1>7, <3>2, <4>1 DEF Known
        <3>3. QED
            BY <3>1, <3>2
    <2>3. QED
        BY <1>6, <1>7, <1>8, <2>1, <2>2 DEF Known
<1>10. DecodedStampIsFirst'
    <2>1. SUFFICES ASSUME NEW s \in decodedSent'.samples
                   PROVE  /\ s.round \in decodedNamed' \cap DOMAIN firstLine'
                          /\ firstLine'[s.round] = [at |-> s.at, right |-> TRUE]
        BY DEF DecodedStampIsFirst
    <2>2. PICK r \in samples : s = [round |-> r, at |-> rs[r].line.at]
        BY <1>1
    <2>3. r \in DOMAIN rs /\ Joined(rs[r]) /\ rs[r].line.right /\ r \in shut
        BY DEF shut
    <2>4. Truth(r, rs[r], firstLine', decodedNamed') /\ rs[r] \in RoundRecord
        BY <1>5, <2>3 DEF Known
    <2>5. rs[r].line = [at |-> rs[r].line.at, right |-> TRUE]
        BY <2>3, <2>4 DEF RoundRecord, LineRecord
    <2>6. QED
        BY <2>2, <2>3, <2>4, <2>5 DEF Truth, Joined
<1>11. QED
    BY <1>6, <1>9, <1>10 DEF DecodedInv
-----------------------------------------------------------------------------
(* One lemma for each turn. *)

(* The decoded leg starts within its invariant. *)
LEMMA DecodedInitKeeps ==
    ASSUME Init, DecodedInit
    PROVE  DecodedInv
BY RoundTypes DEF Init, DecodedInit, DecodedInv, Known, Empty, Nothing, DecodedStampIsFirst

\* The entry a turn tracks: the one that is there, or a fresh one.
LEMMA EntryOf ==
    ASSUME DecodedInv, NEW r \in AnyRound
    PROVE  LET e == DecodedEntry(r) IN
           /\ e \in RoundRecord
           /\ r \in DOMAIN decoded => Truth(r, e, firstLine, decodedNamed)
           /\ r \notin DOMAIN decoded => /\ e.line = NoLine /\ ~e.reference /\ e.seen = now /\ ~e.reported
                                         /\ r >= Floor(maxRef) => Truth(r, e, firstLine, decodedNamed)
<1>1. CASE r \in DOMAIN decoded
    <2>1. DecodedEntry(r) = decoded[r] /\ r >= Floor(maxRef)
        BY <1>1 DEF DecodedEntry, DecodedInv
    <2>2. ~(r < Floor(maxRef)) /\ r \in Nat /\ Floor(maxRef) \in Nat
        BY <2>1, RoundTypes DEF DecodedInv
    <2>3. QED
        BY <1>1, <2>1, <2>2 DEF DecodedInv, Known, Revenant
<1>2. CASE r \notin DOMAIN decoded
    <2>1. DecodedEntry(r) = DecodedFresh
        BY <1>2 DEF DecodedEntry
    <2>2. ASSUME r >= Floor(maxRef)
          PROVE  decodedReports[r] = 0 /\ r \notin DOMAIN firstLine /\ r \notin decodedNamed
        <3>1. r \in Nat /\ Floor(maxRef) \in Nat
            BY RoundTypes DEF DecodedInv
        <3>2. QED
            BY <1>2, <2>2, <3>1 DEF DecodedInv, Known
    <2>3. /\ DecodedFresh \in RoundRecord /\ DecodedFresh.line = NoLine /\ ~DecodedFresh.reference
          /\ DecodedFresh.seen = now /\ ~DecodedFresh.reported
        BY FreshEntry DEF DecodedInv
    <2>4. QED
        BY <1>2, <2>1, <2>2, <2>3 DEF Truth
<1>3. QED
    BY <1>1, <1>2

(* A line of the decoded socket keeps it, *)
LEMMA LineKeeps ==
    ASSUME DecodedInv, ReadDecodedLine
    PROVE  DecodedInv'
<1>1. PICK r \in AnyRound, complete \in BOOLEAN, right \in BOOLEAN :
        /\ maxRef' = maxRef
        /\ DrainDecoded(TrackLine(r, complete, right))
        /\ firstLine' = IF complete /\ Plausible(r) /\ r \notin DOMAIN firstLine
                        THEN Put(firstLine, r, [at |-> now, right |-> right]) ELSE firstLine
    BY DEF ReadDecodedLine, AnyRound
<1>2. now' = now /\ decodedNamed' = decodedNamed
    BY DEF ReadDecodedLine
<1>3. /\ now \in Nat /\ maxRef \in {0} \cup Rounds /\ maxRef \in Nat /\ Floor(maxRef) \in Nat
      /\ r \in Nat /\ AnyRound \subseteq Nat
    BY RoundTypes DEF DecodedInv
<1> DEFINE rs == TrackLine(r, complete, right)
           e  == DecodedEntry(r)
           f  == WithLine(e, complete, right)
<1>4. Known(rs, firstLine', decodedNamed')
    <2>1. CASE ~Plausible(r)
        BY <1>1, <1>2, <2>1 DEF TrackLine, DecodedInv
    <2>2. CASE Plausible(r)
        <3>1. rs = Put(decoded, r, f)
            BY <2>2 DEF TrackLine
        <3>2. /\ DOMAIN rs = DOMAIN decoded \cup {r} /\ rs[r] = f
              /\ \A q \in DOMAIN decoded : q # r => rs[q] = decoded[q]
            <4> HIDE DEF rs, f
            <4>1. QED
                BY <3>1 DEF Put
        <3>3. /\ e \in RoundRecord
              /\ r \in DOMAIN decoded => Truth(r, e, firstLine, decodedNamed)
              /\ r \notin DOMAIN decoded => /\ e.line = NoLine /\ ~e.reference /\ e.seen = now /\ ~e.reported
                                            /\ r >= Floor(maxRef) => Truth(r, e, firstLine, decodedNamed)
            BY EntryOf
        <3>4. /\ DOMAIN firstLine' \subseteq DOMAIN firstLine \cup {r}
              /\ DOMAIN firstLine \subseteq DOMAIN firstLine'
              /\ \A q \in DOMAIN firstLine : firstLine'[q] = firstLine[q]
              /\ complete => r \in DOMAIN firstLine'
              /\ ~complete => firstLine' = firstLine
              /\ complete /\ r \notin DOMAIN firstLine => firstLine'[r] = [at |-> now, right |-> right]
            BY <1>1, <2>2 DEF Put
        <3>5. /\ f \in RoundRecord /\ f.reference = e.reference /\ f.seen = e.seen
              /\ f.reported = e.reported
              /\ f.line = IF complete /\ e.line = NoLine THEN [at |-> now, right |-> right] ELSE e.line
            <4>1. CASE complete /\ e.line = NoLine
                <5>1. f = [e EXCEPT !.line = [at |-> now, right |-> right]]
                    BY <4>1 DEF WithLine
                <5>2. [at |-> now, right |-> right] \in LineRecord
                    BY <1>3 DEF LineRecord
                <5> DEFINE l == [at |-> now, right |-> right]
                <5> HIDE DEF l
                <5>3. f = [e EXCEPT !.line = l] /\ l \in LineRecord
                    BY <5>1, <5>2 DEF l
                <5>4. f \in RoundRecord /\ f.reference = e.reference /\ f.seen = e.seen
                      /\ f.reported = e.reported /\ f.line = l
                    BY <3>3, <5>3 DEF RoundRecord
                <5>5. QED
                    BY <4>1, <5>4 DEF l
            <4>2. CASE ~(complete /\ e.line = NoLine)
                BY <3>3, <4>2 DEF WithLine
            <4>3. QED
                BY <4>1, <4>2
        <3> HIDE DEF rs, e, f
        <3>6. [at |-> now, right |-> right] # NoLine
            BY <1>3 DEF NoLine, NoTime
        <3>7. ASSUME Truth(r, e, firstLine, decodedNamed) PROVE Truth(r, f, firstLine', decodedNamed')
            <4>1. CASE complete /\ e.line = NoLine
                <5>1. r \notin DOMAIN firstLine
                    BY <3>7, <4>1 DEF Truth
                <5>2. r \in DOMAIN firstLine' /\ firstLine'[r] = f.line /\ f.line # NoLine
                    BY <3>4, <3>5, <3>6, <4>1, <5>1
                <5>3. QED
                    BY <1>2, <3>5, <3>7, <5>2 DEF Truth
            <4>2. CASE complete /\ e.line # NoLine
                <5>1. r \in DOMAIN firstLine /\ firstLine[r] = e.line
                    BY <3>7, <4>2 DEF Truth
                <5>2. QED
                    BY <1>2, <3>4, <3>5, <3>7, <4>2, <5>1 DEF Truth
            <4>3. CASE ~complete
                BY <1>2, <3>4, <3>5, <3>7, <4>3 DEF Truth
            <4>4. QED
                BY <4>1, <4>2, <4>3
        <3>8. Truth(r, f, firstLine', decodedNamed') \/ Revenant(r, f)
            <4>1. CASE r \in DOMAIN decoded \/ r >= Floor(maxRef)
                BY <3>3, <3>7, <4>1
            <4>2. CASE r \notin DOMAIN decoded /\ ~(r >= Floor(maxRef))
                BY <1>3, <3>3, <3>5, <4>2 DEF Revenant, Joined
            <4>3. QED
                BY <4>1, <4>2
        <3>9. ASSUME NEW q \in DOMAIN rs, q # r
              PROVE  /\ rs[q] \in RoundRecord
                     /\ Truth(q, rs[q], firstLine', decodedNamed') \/ Revenant(q, rs[q])
            <4>1. q \in DOMAIN decoded /\ rs[q] = decoded[q]
                BY <3>2, <3>9
            <4>2. /\ decoded[q] \in RoundRecord
                  /\ Truth(q, decoded[q], firstLine, decodedNamed) \/ Revenant(q, decoded[q])
                BY <4>1 DEF DecodedInv, Known
            <4>3. q \in DOMAIN firstLine' <=> q \in DOMAIN firstLine
                BY <3>4, <3>9
            <4>4. QED
                BY <1>2, <3>4, <4>1, <4>2, <4>3 DEF Truth
        <3>10. /\ DOMAIN rs \subseteq AnyRound /\ DOMAIN firstLine' \subseteq AnyRound
               /\ decodedNamed' \subseteq AnyRound
            BY <1>2, <3>2, <3>4 DEF DecodedInv, Known
        <3>11. ASSUME NEW q \in AnyRound
               PROVE  /\ decodedReports[q] \in {0, 1}
                      /\ q \notin DOMAIN rs => q < Floor(maxRef)
                            \/ (decodedReports[q] = 0 /\ q \notin DOMAIN firstLine' /\ q \notin decodedNamed')
            BY <1>2, <3>2, <3>4 DEF DecodedInv, Known
        <3>12. QED
            BY <3>2, <3>5, <3>8, <3>9, <3>10, <3>11 DEF Known
    <2>3. QED
        BY <2>1, <2>2
<1>5. QED
    BY <1>1, <1>2, <1>3, <1>4, DrainKeeps

(* so does a line of the feed, *)
LEMMA ReferenceKeeps ==
    ASSUME DecodedInv, ReadDecodedReference
    PROVE  DecodedInv'
<1>1. PICK r \in Rounds :
        /\ maxRef' = (IF r > maxRef THEN r ELSE maxRef)
        /\ DrainDecoded(NameDecoded(r))
        /\ decodedNamed' = decodedNamed \cup {r}
    BY DEF ReadDecodedReference
<1>2. now' = now /\ firstLine' = firstLine
    BY DEF ReadDecodedReference
<1>3. /\ now \in Nat /\ maxRef \in {0} \cup Rounds /\ maxRef \in Nat /\ Floor(maxRef) \in Nat
      /\ r \in Nat /\ r \in AnyRound /\ AnyRound \subseteq Nat
    BY RoundTypes DEF DecodedInv
<1>4. maxRef' \in {0} \cup Rounds /\ maxRef <= maxRef'
    BY <1>1, <1>3
<1> DEFINE rs == NameDecoded(r)
           e  == DecodedEntry(r)
           f  == [e EXCEPT !.reference = TRUE]
<1>5. Known(rs, firstLine', decodedNamed')
    <2>1. rs = Put(decoded, r, f)
        BY DEF NameDecoded
    <2>2. /\ DOMAIN rs = DOMAIN decoded \cup {r} /\ rs[r] = f
          /\ \A q \in DOMAIN decoded : q # r => rs[q] = decoded[q]
        <3> HIDE DEF rs, f
        <3>1. QED
            BY <2>1 DEF Put
    <2>3. /\ e \in RoundRecord
          /\ r \in DOMAIN decoded => Truth(r, e, firstLine, decodedNamed)
          /\ r \notin DOMAIN decoded => /\ e.line = NoLine /\ ~e.reference /\ e.seen = now /\ ~e.reported
                                        /\ r >= Floor(maxRef) => Truth(r, e, firstLine, decodedNamed)
        BY <1>3, EntryOf
    <2> HIDE DEF e
    <2>4. /\ f \in RoundRecord /\ f.reference /\ f.seen = e.seen /\ f.reported = e.reported /\ f.line = e.line
        BY <2>3 DEF RoundRecord
    <2> HIDE DEF rs, f
    <2>5. Truth(r, f, firstLine', decodedNamed') \/ Revenant(r, f)
        <3>1. CASE r \in DOMAIN decoded \/ r >= Floor(maxRef)
            <4>1. Truth(r, e, firstLine, decodedNamed)
                BY <2>3, <3>1
            <4>2. QED
                BY <1>1, <1>2, <2>4, <4>1 DEF Truth
        <3>2. CASE r \notin DOMAIN decoded /\ ~(r >= Floor(maxRef))
            BY <1>3, <2>3, <2>4, <3>2 DEF Revenant, Joined
        <3>3. QED
            BY <3>1, <3>2
    <2>6. ASSUME NEW q \in DOMAIN rs, q # r
          PROVE  /\ rs[q] \in RoundRecord
                 /\ Truth(q, rs[q], firstLine', decodedNamed') \/ Revenant(q, rs[q])
        <3>1. q \in DOMAIN decoded /\ rs[q] = decoded[q]
            BY <2>2, <2>6
        <3>2. /\ decoded[q] \in RoundRecord
              /\ Truth(q, decoded[q], firstLine, decodedNamed) \/ Revenant(q, decoded[q])
            BY <3>1 DEF DecodedInv, Known
        <3>3. QED
            BY <1>1, <1>2, <3>1, <3>2 DEF Truth
    <2>7. /\ DOMAIN rs \subseteq AnyRound /\ DOMAIN firstLine' \subseteq AnyRound
          /\ decodedNamed' \subseteq AnyRound
        BY <1>1, <1>2, <1>3, <2>2 DEF DecodedInv, Known
    <2>8. ASSUME NEW q \in AnyRound
          PROVE  /\ decodedReports[q] \in {0, 1}
                 /\ q \notin DOMAIN rs => q < Floor(maxRef)
                        \/ (decodedReports[q] = 0 /\ q \notin DOMAIN firstLine' /\ q \notin decodedNamed')
        BY <1>1, <1>2, <2>2 DEF DecodedInv, Known
    <2>9. QED
        BY <2>2, <2>4, <2>5, <2>6, <2>7, <2>8 DEF Known
<1>6. QED
    BY <1>1, <1>2, <1>3, <1>4, <1>5, DrainKeeps

(* so does the tick, *)
LEMMA TickKeeps ==
    ASSUME DecodedInv, MaintainDecoded
    PROVE  DecodedInv'
<1>1. /\ maxRef' = maxRef /\ now' = now /\ firstLine' = firstLine /\ decodedNamed' = decodedNamed
      /\ DrainDecoded(decoded)
    BY DEF MaintainDecoded
<1>2. maxRef \in Nat
    BY RoundTypes DEF DecodedInv
<1>3. Known(decoded, firstLine', decodedNamed')
    BY <1>1 DEF DecodedInv
<1>4. QED
    BY <1>1, <1>2, <1>3, DrainKeeps DEF DecodedInv

\* A new assembly knows nothing, and nothing of it has been reported.
LEMMA EndKeeps ==
    ASSUME DecodedInv, EndDecodedSession
    PROVE  DecodedInv'
<1>1. /\ maxRef' = 0 /\ now' = now
      /\ decoded' = Empty /\ decodedSent' = Nothing /\ decodedNamed' = {} /\ firstLine' = Empty
      /\ decodedReports' = [r \in AnyRound |-> 0]
    BY DEF EndDecodedSession, untouchedVars
<1>2. QED
    BY <1>1 DEF DecodedInv, Known, Empty, Nothing, DecodedStampIsFirst

(* and so does the start of a session. *)
LEMMA StartKeeps ==
    ASSUME DecodedInv, StartDecodedSession \/ UNCHANGED <<vars, decodedVars>>
    PROVE  DecodedInv'
<1>1. UNCHANGED <<now, maxRef, decoded, decodedSent, decodedReports, firstLine, decodedNamed>>
    BY DEF StartDecodedSession, vars, worldVars, assemblyVars, decodedVars
<1>2. QED
    BY <1>1 DEF DecodedInv, Known, Truth, Revenant, Joined, DecodedStampIsFirst

\* Time passes between turns, when no entry is behind the floor.
LEMMA TimeKeeps ==
    ASSUME DecodedInv, ElapseDecoded
    PROVE  DecodedInv'
<1>1. /\ now' = now + 1
      /\ UNCHANGED <<maxRef, decoded, decodedSent, decodedReports, firstLine, decodedNamed>>
    BY DEF ElapseDecoded, Elapse, assemblyVars, decodedVars
<1>2. \A r \in DOMAIN decoded : Truth(r, decoded[r], firstLine, decodedNamed)
    BY EntryOf DEF DecodedEntry, DecodedInv, Known
<1>3. Known(decoded, firstLine, decodedNamed)'
    BY <1>1, <1>2 DEF DecodedInv, Known, Truth
<1>4. QED
    BY <1>1, <1>3 DEF DecodedInv, DecodedStampIsFirst
-----------------------------------------------------------------------------
\* The invariant of the decoded leg: what its entries know of the reports, the lines read and
\* the rounds named (src/peering.rs, DecodedAssembly).
THEOREM DecodedInvariant == DecodedSpec => []DecodedInv
<1>1. Init /\ DecodedInit => DecodedInv
    BY DecodedInitKeeps
<1>2. DecodedInv /\ [DecodedNext]_<<vars, decodedVars>> => DecodedInv'
    BY LineKeeps, ReferenceKeeps, TickKeeps, EndKeeps, StartKeeps, TimeKeeps DEF DecodedNext
<1>3. QED
    BY <1>1, <1>2, PTL DEF DecodedSpec

\* Every round the feed names is reported once, as a sample with the time of its first complete
\* line or as a gap, while it stays within the rounds kept (src/peering.rs, drain_ready).
THEOREM DecodedIsExact == DecodedSpec => []DecodedExact
<1>1. DecodedInv => DecodedExact
    <2>1. SUFFICES ASSUME DecodedInv PROVE DecodedAccounted
        BY DEF DecodedInv, DecodedExact
    <2>2. \A r \in DOMAIN decoded : Truth(r, decoded[r], firstLine, decodedNamed)
        BY <2>1, EntryOf DEF DecodedEntry, DecodedInv, Known
    <2>3. QED
        BY <2>1, <2>2 DEF DecodedInv, Known, Truth, DecodedAccounted
<1>2. QED
    BY <1>1, DecodedInvariant, PTL
-----------------------------------------------------------------------------
(* The types of the decoded leg. *)

PastRound(e) == e \in RoundRecord /\ e.line.at <= now /\ e.seen <= now

DecodedBounds ==
    /\ now \in 0 .. MaxTime /\ lines \in 0 .. MaxLines
    /\ \A r \in DOMAIN decoded : PastRound(decoded[r])
    /\ decodedReports \in [AnyRound -> Nat] /\ decodedNamed \subseteq Rounds

\* A drain dates nothing anew.
LEMMA DrainDates ==
    ASSUME now' = now, decodedReports \in [AnyRound -> Nat], NEW rs,
           \A r \in DOMAIN rs : PastRound(rs[r]), DrainDecoded(rs)
    PROVE  /\ \A r \in DOMAIN decoded' : PastRound(decoded[r])'
           /\ decodedReports' \in [AnyRound -> Nat]
<1> PICK shut, retained :
        /\ retained \subseteq DOMAIN rs
        /\ decoded' = [r \in retained |-> [rs[r] EXCEPT !.reported = @ \/ r \in shut]]
        /\ decodedReports' = [r \in AnyRound |-> decodedReports[r] + (IF r \in shut THEN 1 ELSE 0)]
  <2>1. Retained(rs) \subseteq DOMAIN rs BY DEF Retained
  <2> QED BY <2>1, Zenon DEF DrainDecoded, ClosedBy
<1>1. ASSUME NEW r \in retained PROVE PastRound(decoded[r])'
  <2>1. rs[r] \in RoundRecord /\ rs[r].line.at <= now /\ rs[r].seen <= now BY DEF PastRound
  <2> PICK e : e = rs[r] OBVIOUS
  <2> PICK d : d = [e EXCEPT !.reported = @ \/ r \in shut] OBVIOUS
  <2>2. e.reported \in BOOLEAN BY <2>1 DEF RoundRecord
  <2>3. d \in RoundRecord /\ d.line = e.line /\ d.seen = e.seen BY <2>1, <2>2 DEF RoundRecord
  <2>4. decoded'[r] = d OBVIOUS
  <2>5. d.line.at <= now' /\ d.seen <= now' BY <2>1, <2>3
  <2> QED BY <2>3, <2>4, <2>5 DEF PastRound
<1>2. \A r \in AnyRound : decodedReports[r] \in Nat OBVIOUS
<1>3. decodedReports' \in [AnyRound -> Nat] BY <1>2
<1> QED BY <1>1, <1>3

\* The entry a turn tracks is of no later time.
LEMMA EntryDates ==
    ASSUME DecodedInv, DecodedBounds, NEW r \in AnyRound
    PROVE  PastRound(DecodedEntry(r))
<1>1. DecodedEntry(r) \in RoundRecord BY EntryOf
<1>2. CASE r \in DOMAIN decoded BY <1>2 DEF DecodedEntry, DecodedBounds
<1>3. CASE r \notin DOMAIN decoded
  <2>1. DecodedEntry(r).line = NoLine /\ DecodedEntry(r).seen = now BY <1>3, EntryOf
  <2>2. NoLine.at <= now /\ now <= now BY DEF NoLine, NoTime, DecodedInv
  <2> QED BY <1>1, <2>1, <2>2 DEF PastRound
<1> QED BY <1>2, <1>3

(* Each turn keeps the bounds. *)
LEMMA DecodedBoundsStay ==
    DecodedInv /\ DecodedBounds /\ [DecodedNext]_<<vars, decodedVars>> => DecodedBounds'
<1> SUFFICES ASSUME DecodedInv, DecodedBounds, [DecodedNext]_<<vars, decodedVars>>
             PROVE  DecodedBounds'
  OBVIOUS
<1>1. /\ now \in 0 .. MaxTime /\ now \in Nat /\ lines \in 0 .. MaxLines /\ decodedNamed \subseteq Rounds
      /\ decodedReports \in [AnyRound -> Nat] /\ \A r \in DOMAIN decoded : PastRound(decoded[r])
  BY DEF DecodedBounds
<1>2. MaxTime \in Nat BY PeeringAssumption
<1>3. CASE ElapseDecoded
  <2>1. now < MaxTime /\ now' = now + 1
        /\ UNCHANGED <<lines, decoded, decodedReports, decodedNamed>>
    BY <1>3 DEF ElapseDecoded, Elapse, decodedVars
  <2>2. ASSUME NEW r \in DOMAIN decoded PROVE PastRound(decoded[r])'
    <3>1. /\ decoded[r] \in RoundRecord
          /\ decoded[r].line.at <= now /\ decoded[r].seen <= now
          /\ decoded[r].line.at \in Int /\ decoded[r].seen \in Int
      BY <1>1 DEF PastRound, RoundRecord, LineRecord, NoTime
    <3> PICK a, s \in Int, n \in Nat : a = decoded[r].line.at /\ s = decoded[r].seen /\ n = now
      BY <1>1, <3>1
    <3>2. a <= n + 1 /\ s <= n + 1 BY <3>1
    <3> QED BY <2>1, <3>1, <3>2 DEF PastRound
  <2>3. now' \in 0 .. MaxTime BY <1>1, <1>2, <2>1
  <2> QED BY <1>1, <2>1, <2>2, <2>3 DEF DecodedBounds
<1>4. CASE ReadDecodedLine
  <2> PICK r \in AnyRound, complete \in BOOLEAN, right \in BOOLEAN :
          DrainDecoded(TrackLine(r, complete, right))
    BY <1>4 DEF ReadDecodedLine, AnyRound
  <2>1. /\ now' = now /\ lines < MaxLines /\ lines' = lines + 1 /\ decodedNamed' = decodedNamed
    BY <1>4 DEF ReadDecodedLine
  <2> PICK e : e = DecodedEntry(r) OBVIOUS
  <2>2. PastRound(e) BY EntryDates
  <2> PICK f : f = WithLine(e, complete, right) OBVIOUS
  <2>3. PastRound(f)
    <3>1. CASE complete /\ e.line = NoLine
      <4> PICK l : l = [at |-> now, right |-> right] OBVIOUS
      <4>1. l \in LineRecord /\ l.at <= now BY <1>1 DEF LineRecord
      <4>2. f = [e EXCEPT !.line = l] BY <3>1 DEF WithLine
      <4>3. e \in RoundRecord BY <2>2 DEF PastRound
      <4>4. f \in RoundRecord /\ f.line = l /\ f.seen = e.seen BY <4>1, <4>2, <4>3 DEF RoundRecord
      <4> QED BY <2>2, <4>1, <4>4 DEF PastRound
    <3>2. CASE ~(complete /\ e.line = NoLine) BY <2>2, <3>2 DEF WithLine
    <3> QED BY <3>1, <3>2
  <2> PICK rs : rs = TrackLine(r, complete, right) OBVIOUS
  <2>4. rs = decoded \/ rs = [q \in DOMAIN decoded \cup {r} |-> IF q = r THEN f ELSE decoded[q]]
    BY Zenon DEF TrackLine, Put
  <2>5. \A q \in DOMAIN rs : PastRound(rs[q]) BY <1>1, <2>3, <2>4
  <2>6. /\ \A q \in DOMAIN decoded' : PastRound(decoded[q])'
        /\ decodedReports' \in [AnyRound -> Nat]
    BY <1>1, <2>1, <2>5, DrainDates
  <2>7. lines' \in 0 .. MaxLines BY <1>1, <2>1, LinesAssumption
  <2> QED BY <1>1, <2>1, <2>6, <2>7 DEF DecodedBounds
<1>5. CASE ReadDecodedReference
  <2> PICK r \in Rounds : DrainDecoded(NameDecoded(r)) /\ decodedNamed' = decodedNamed \cup {r}
    BY <1>5 DEF ReadDecodedReference
  <2>1. now' = now /\ lines' = lines BY <1>5 DEF ReadDecodedReference
  <2> PICK e : e = DecodedEntry(r) OBVIOUS
  <2>2. PastRound(e) BY EntryDates DEF AnyRound
  <2> PICK f : f = [e EXCEPT !.reference = TRUE] OBVIOUS
  <2>3. PastRound(f)
    <3>1. f \in RoundRecord /\ f.line = e.line /\ f.seen = e.seen BY <2>2 DEF PastRound, RoundRecord
    <3> QED BY <2>2, <3>1 DEF PastRound
  <2> PICK rs : rs = NameDecoded(r) OBVIOUS
  <2>4. rs = [q \in DOMAIN decoded \cup {r} |-> IF q = r THEN f ELSE decoded[q]]
    BY Zenon DEF NameDecoded, Put
  <2>5. \A q \in DOMAIN rs : PastRound(rs[q]) BY <1>1, <2>3, <2>4
  <2>6. /\ \A q \in DOMAIN decoded' : PastRound(decoded[q])'
        /\ decodedReports' \in [AnyRound -> Nat]
    BY <1>1, <2>1, <2>5, DrainDates
  <2> QED BY <1>1, <2>1, <2>6 DEF DecodedBounds
<1>6. CASE MaintainDecoded
  <2>1. now' = now /\ lines' = lines /\ decodedNamed' = decodedNamed /\ DrainDecoded(decoded)
    BY <1>6 DEF MaintainDecoded
  <2>2. /\ \A q \in DOMAIN decoded' : PastRound(decoded[q])'
        /\ decodedReports' \in [AnyRound -> Nat]
    BY <1>1, <2>1, DrainDates
  <2> QED BY <1>1, <2>1, <2>2 DEF DecodedBounds
<1>7. CASE EndDecodedSession
  <2>1. /\ now' = now /\ lines' = lines /\ decodedNamed' = {} /\ decoded' = Empty
        /\ decodedReports' = [r \in AnyRound |-> 0]
    BY <1>7 DEF EndDecodedSession
  <2>2. DOMAIN decoded' = {} BY <2>1 DEF Empty
  <2> QED BY <1>1, <2>1, <2>2 DEF DecodedBounds
<1>8. CASE StartDecodedSession \/ UNCHANGED <<vars, decodedVars>>
  <2>1. UNCHANGED <<now, lines, decoded, decodedReports, decodedNamed>>
    BY <1>8 DEF StartDecodedSession, vars, worldVars, decodedVars
  <2> QED BY <1>1, <2>1 DEF DecodedBounds, PastRound
<1> QED BY <1>3, <1>4, <1>5, <1>6, <1>7, <1>8 DEF DecodedNext

LEMMA DecodedInvTypes == DecodedInv /\ DecodedBounds => DecodedTypeOK
<1> SUFFICES ASSUME DecodedInv, DecodedBounds PROVE DecodedTypeOK OBVIOUS
<1>1. ASSUME NEW r \in DOMAIN decoded
      PROVE  /\ decoded[r].line \in [at : Times, right : BOOLEAN]
             /\ decoded[r].reference \in BOOLEAN /\ decoded[r].reported \in BOOLEAN
             /\ decoded[r].seen \in 0 .. now /\ r >= Floor(maxRef)
  <2>1. PastRound(decoded[r]) /\ now \in 0 .. MaxTime BY DEF DecodedBounds
  <2>2. /\ decoded[r].line \in LineRecord /\ decoded[r].reference \in BOOLEAN
        /\ decoded[r].reported \in BOOLEAN /\ decoded[r].seen \in Nat
    BY <2>1 DEF PastRound, RoundRecord
  <2> PICK a \in Nat \cup {NoTime}, b \in BOOLEAN : decoded[r].line = [at |-> a, right |-> b]
    BY <2>2 DEF LineRecord
  <2>3. a <= now /\ decoded[r].seen <= now BY <2>1 DEF PastRound
  <2>4. MaxTime \in Nat BY PeeringAssumption
  <2>5. a \in Times
    <3>1. now <= MaxTime /\ now \in Nat BY <2>1, <2>4
    <3> QED BY <2>3, <2>4, <3>1 DEF Times
  <2>6. decoded[r].seen \in 0 .. now BY <2>1, <2>2, <2>3
  <2>7. r >= Floor(maxRef) BY DEF DecodedInv
  <2> QED BY <2>2, <2>5, <2>6, <2>7
<1>2. DOMAIN decoded \subseteq AnyRound BY DEF DecodedInv, Known
<1> QED BY <1>1, <1>2 DEF DecodedTypeOK, DecodedBounds

\* No entry of the decoded leg is of a later time than the clock's or behind the floor, and the
\* feed has named rounds of the chain only (src/peering.rs, DecodedAssembly).
THEOREM DecodedTypes == DecodedSpec => []DecodedTypeOK
<1>1. Init /\ DecodedInit => DecodedBounds
  <2> SUFFICES ASSUME Init, DecodedInit PROVE DecodedBounds OBVIOUS
  <2>1. MaxTime \in Nat /\ MaxLines \in Nat BY PeeringAssumption, LinesAssumption
  <2> QED BY <2>1 DEF Init, DecodedInit, DecodedBounds, Empty
<1> QED BY <1>1, DecodedBoundsStay, DecodedInvTypes, DecodedInvariant, PTL DEF DecodedSpec
=============================================================================
