------------------------- MODULE Publication_proofs -------------------------
(***************************************************************************)
(* Theorems about publication, for every interval, window and cap, and for *)
(* any number of cohorts, runs and corrections of the wall clock: the      *)
(* types, that no cohort is counted by two durable batches, that the marks *)
(* of the ring agree with the durable batches, that the intervals abut,    *)
(* and that an interval marked complete counts all of it.                  *)
(*                                                                         *)
(* The heart is what holds while publish_window waits for submit(): the    *)
(* ring does not change, so the cohorts counted are the ones the commit    *)
(* will mark (Waiting), and the guard of the commit is still true.         *)
(***************************************************************************)
EXTENDS Publication, FiniteSetTheorems, WellFoundedInduction, TLAPS

Ids == 1 .. Cardinality(entered)

\* Cohorts are told apart by their ids, which grow.
Identified ==
    /\ \A e \in entered : e.id \in Ids
    /\ \A x \in ring : x.id \in Ids
    /\ \A x, y \in ring : x.id = y.id => x = y
    /\ \A i \in DOMAIN durable : durable[i].counted \subseteq Ids

\* No cohort lies ahead of the clock.
Past == \A x \in ring : x.at <= clock

Counted(id) == \E i \in DOMAIN durable : id \in durable[i].counted

\* While submit() runs: the batch counts what is not marked, and the commit that
\* follows will mark the whole ring.
Waiting ==
    phase # "idle" =>
        /\ prepared[1].end > cursor /\ prepared[1].endWall > cursorWall
        /\ \A x \in ring : x.at <= prepared[1].end
        /\ offered[1].counted = {x.id : x \in {y \in ring : ~y.reported}}

\* Until the batch is durable the marks agree with the durable batches.
Marks == phase # "durable" => \A x \in ring : x.reported <=> Counted(x.id)

\* Then every cohort of the ring is counted, marked or not.
AllCounted == phase = "durable" => \A x \in ring : Counted(x.id)

IInv == PublicationTypeOK /\ Identified /\ Past /\ Waiting /\ Marks /\ AllCounted /\ CountedOnce
-----------------------------------------------------------------------------
(* Every non-empty set of naturals has a least element. *)
LEMMA LeastNatural ==
    ASSUME NEW S \in SUBSET Nat, S # {}
    PROVE  \E m \in S : \A n \in S : m <= n
<1> DEFINE Less == OpToRel(<, Nat)
<1>1. IsWellFoundedOn(Less, Nat) BY NatLessThanWellFounded, Zenon
<1> HIDE DEF Less
<1>2. PICK m \in S : \A n \in S : <<n, m>> \notin Less
  BY <1>1, WFMin, Zenon
<1>3. \A n \in S : ~(n < m)
  <2> TAKE n \in S
  <2>1. n < m => <<n, m>> \in Less BY Zenon DEF Less, OpToRel
  <2> QED BY <2>1, <1>2
<1> QED BY <1>2, <1>3

(* The front of a ring that is not empty is one of its cohorts. *)
LEMMA FrontIsInside ==
    ASSUME NEW S \in SUBSET Sample, S # {}
    PROVE  OldestCohort(S) \in S
<1>1. PICK first \in {x.at : x \in S} : \A t \in {x.at : x \in S} : first <= t
  <2> {x.at : x \in S} \in SUBSET Nat BY DEF Sample
  <2> {x.at : x \in S} # {} OBVIOUS
  <2> QED BY LeastNatural
<1> DEFINE F == {x \in S : x.at = first}
<1>2. PICK id \in {x.id : x \in F} : \A k \in {x.id : x \in F} : id <= k
  <2> {x.id : x \in F} \in SUBSET Nat BY DEF Sample
  <2> F # {} BY <1>1
  <2> {x.id : x \in F} # {} OBVIOUS
  <2> QED BY LeastNatural
<1>3. PICK x \in F : x.id = id BY <1>2
<1>4. \A y \in S : x.at < y.at \/ (x.at = y.at /\ x.id <= y.id)
  <2> TAKE y \in S
  <2>1. x.at <= y.at /\ x.at \in Nat /\ y.at \in Nat BY <1>1, <1>3 DEF Sample
  <2>2. x.at = y.at => x.id <= y.id BY <1>2, <1>3
  <2> QED BY <2>1, <2>2
<1> QED BY <1>3, <1>4 DEF OldestCohort

(* Part of a ring is a ring within the cap. *)
LEMMA PartOfRing ==
    ASSUME PublicationTypeOK, NEW S \in SUBSET ring
    PROVE  S \subseteq Sample /\ IsFiniteSet(S) /\ Cardinality(S) <= MaxRolling
<1>1. IsFiniteSet(S) /\ Cardinality(S) <= Cardinality(ring) BY FS_Subset DEF PublicationTypeOK
<1>2. Cardinality(S) \in Nat /\ Cardinality(ring) \in Nat
  BY <1>1, FS_CardinalityType DEF PublicationTypeOK
<1> QED BY <1>1, <1>2, PublicationAssumption DEF PublicationTypeOK

(* Marking changes nothing but the marks. *)
LEMMA MarkedRing ==
    ASSUME PublicationTypeOK, NEW t \in Nat
    PROVE  /\ Marked(ring, t) \subseteq Sample
           /\ IsFiniteSet(Marked(ring, t)) /\ Cardinality(Marked(ring, t)) <= MaxRolling
<1> DEFINE mark == [x \in ring |-> IF x.at <= t THEN [x EXCEPT !.reported = TRUE] ELSE x]
<1>1. mark \in Surjection(ring, Marked(ring, t)) BY DEF Surjection, Marked
<1>2. /\ IsFiniteSet(Marked(ring, t))
      /\ Cardinality(Marked(ring, t)) <= Cardinality(ring)
  <2> HIDE DEF mark
  <2> QED BY <1>1, FS_Surjection DEF PublicationTypeOK
<1>3. Cardinality(Marked(ring, t)) \in Nat /\ Cardinality(ring) \in Nat
  BY <1>2, FS_CardinalityType DEF PublicationTypeOK
<1>4. Marked(ring, t) \subseteq Sample BY DEF Marked, Sample, PublicationTypeOK
<1> QED BY <1>2, <1>3, <1>4, PublicationAssumption DEF PublicationTypeOK

-----------------------------------------------------------------------------
(* The first deadline of a publish interval lies ahead. *)
LEMMA Deadlines ==
    ASSUME PublicationTypeOK
    PROVE  /\ FirstDue \in Nat
           /\ clock >= due => NextDue \in Nat
           /\ Aligned(wall) \in Int
<1>1. Interval \in Nat /\ Interval > 0 /\ wall \in Nat /\ clock \in Nat /\ due \in Nat
  BY PublicationAssumption DEF PublicationTypeOK
<1>2. wall % Interval \in 0 .. Interval - 1 BY <1>1
<1>3. FirstDue \in Nat BY <1>1, <1>2 DEF FirstDue
<1>4. Aligned(wall) \in Int BY <1>1, <1>2 DEF Aligned
<1>5. ASSUME clock >= due PROVE NextDue \in Nat
  <2>1. clock - due \in Nat BY <1>1, <1>5
  <2> DEFINE d == clock - due
  <2>2. d \div Interval \in Nat
    <3> HIDE DEF d
    <3> QED BY <2>1, <1>1 DEF d
  <2>3. (d \div Interval) + 1 \in Nat BY <2>2
  <2>4. Interval * ((d \div Interval) + 1) \in Nat
    <3> DEFINE k == (d \div Interval) + 1
    <3>1. k \in Nat BY <2>3
    <3> HIDE DEF k
    <3>2. Interval * k \in Nat BY <3>1, <1>1
    <3> QED BY <3>2 DEF k
  <2> QED BY <2>4, <1>1 DEF NextDue
<1> QED BY <1>3, <1>4, <1>5

(* A new run of the process starts with nothing in hand. *)
LEMMA InvInit == PublicationInit => IInv
<1> SUFFICES ASSUME PublicationInit PROVE IInv OBVIOUS
<1>1. IsFiniteSet(ring) /\ Cardinality(ring) = 0 /\ IsFiniteSet(entered)
  BY FS_EmptySet DEF PublicationInit
<1>2. clock \in Nat /\ wall \in Nat /\ stepsLeft \in Nat
  BY PublicationAssumption DEF PublicationInit
<1>3. wall % Interval \in 0 .. Interval - 1 BY <1>2, PublicationAssumption
<1>4. due \in Nat BY <1>2, <1>3, PublicationAssumption DEF PublicationInit, FirstDue
<1>5. durable \in Seq(Batch) /\ DOMAIN durable = {} BY DEF PublicationInit
<1>6. PublicationTypeOK
  <2>1. /\ runId \in Nat \ {0} /\ phase = "idle" /\ hasPublished \in BOOLEAN
        /\ cursor \in Nat /\ cursorWall \in Nat /\ lastLoss = NoLoss
        /\ prepared = <<>> /\ offered = <<>>
    <3>1. hasPublished \in BOOLEAN BY Zenon DEF PublicationInit
    <3>2. cursor \in Nat /\ cursorWall \in Nat BY <1>2 DEF PublicationInit
    <3>3. runId \in Nat \ {0} /\ phase = "idle" /\ lastLoss = NoLoss BY DEF PublicationInit
    <3>4. prepared = <<>> /\ offered = <<>> BY DEF PublicationInit
    <3> QED BY <3>1, <3>2, <3>3, <3>4
  <2>2. ring \subseteq Sample /\ entered \subseteq [id : Nat, run : Nat, after : Nat, wall : Int]
    BY DEF PublicationInit
  <2>3. Cardinality(ring) <= MaxRolling BY <1>1, PublicationAssumption
  <2> QED BY <1>1, <1>2, <1>4, <1>5, <2>1, <2>2, <2>3 DEF PublicationTypeOK
<1>7. Identified /\ Past /\ Waiting /\ Marks /\ AllCounted /\ CountedOnce
  BY <1>5 DEF PublicationInit, Identified, Past, Waiting, Marks, AllCounted, CountedOnce
<1> QED BY <1>6, <1>7 DEF IInv

-----------------------------------------------------------------------------
(* Time passes, and the wall clock is corrected. *)
LEMMA TimeKeepsInv ==
    ASSUME IInv, Elapse \/ StepWall
    PROVE  IInv'
<1>t. PublicationTypeOK BY DEF IInv
<1>1. /\ UNCHANGED <<runId, due, phase, ring, lastLoss, cursorVars, prepared, offered, durable,
                     entered>>
      /\ clock' \in Nat /\ clock' >= clock /\ wall' \in Nat /\ stepsLeft' \in Nat
  BY <1>t DEF Elapse, StepWall, PublicationTypeOK
<1>2. PublicationTypeOK' BY <1>t, <1>1 DEF PublicationTypeOK, cursorVars
<1>3. (Identified /\ Waiting /\ Marks /\ AllCounted /\ CountedOnce)'
  BY <1>1 DEF IInv, Identified, Ids, Waiting, Marks, AllCounted, Counted, CountedOnce,
     cursorVars
<1>4. Past' BY <1>1, <1>t DEF IInv, Past, PublicationTypeOK, Sample
<1> QED BY <1>2, <1>3, <1>4 DEF IInv

(* Part of the ring satisfies what the ring does, while nothing is on offer. *)
LEMMA FewerKeepInv ==
    ASSUME IInv, ring' \subseteq ring, phase = "idle",
           UNCHANGED <<clock, phase, durable, entered>>
    PROVE  (Identified /\ Past /\ Waiting /\ Marks /\ AllCounted /\ CountedOnce)'
<1>1. (Identified /\ CountedOnce)' BY DEF IInv, Identified, Ids, CountedOnce
<1>2. (Past /\ Waiting /\ Marks /\ AllCounted)'
  BY DEF IInv, Past, Waiting, Marks, AllCounted, Counted
<1> QED BY <1>1, <1>2

(* The maintenance tick, and a publish tick that publishes nothing. *)
LEMMA PruneKeepsInv ==
    ASSUME IInv, Maintain \/ Skip
    PROVE  IInv'
<1>t. PublicationTypeOK BY DEF IInv
<1>1. ring' \subseteq ring /\ phase = "idle" BY DEF Maintain, Skip, Pruned
<1>2. /\ UNCHANGED <<clock, wall, stepsLeft, runId, phase, lastLoss, cursorVars, offered, durable,
                     entered>>
      /\ due' \in Nat /\ prepared' = <<>>
  BY <1>t, Deadlines DEF Maintain, Skip, timeVars, PublicationTypeOK
<1>3. PublicationTypeOK' BY <1>t, <1>1, <1>2, PartOfRing DEF PublicationTypeOK, cursorVars
<1>4. (Identified /\ Past /\ Waiting /\ Marks /\ AllCounted /\ CountedOnce)'
  BY <1>1, <1>2, FewerKeepInv
<1> QED BY <1>3, <1>4 DEF IInv

(* A cohort becomes complete: its id is new, and it is not counted yet. *)
LEMMA CompleteKeepsInv ==
    ASSUME IInv, Complete
    PROVE  IInv'
<1>t. PublicationTypeOK BY DEF IInv
<1> DEFINE id == Cardinality(entered) + 1
<1>1. PICK t \in 0 .. clock : \E at \in 0 .. t :
        /\ \/ /\ OverCap(ring \cup {[id |-> id, at |-> at, reported |-> FALSE]})
              /\ ring' = (ring \cup {[id |-> id, at |-> at, reported |-> FALSE]})
                         \ {OldestCohort(ring \cup {[id |-> id, at |-> at, reported |-> FALSE]})}
              /\ lastLoss' = t
           \/ /\ ~OverCap(ring \cup {[id |-> id, at |-> at, reported |-> FALSE]})
              /\ ring' = ring \cup {[id |-> id, at |-> at, reported |-> FALSE]}
              /\ lastLoss' = lastLoss
        /\ entered' = entered \cup {[id |-> id, run |-> runId, after |-> Len(durable),
                                     wall |-> wall - (clock - at)]}
  BY DEF Complete
<1>2. PICK at \in 0 .. t :
        /\ \/ /\ OverCap(ring \cup {[id |-> id, at |-> at, reported |-> FALSE]})
              /\ ring' = (ring \cup {[id |-> id, at |-> at, reported |-> FALSE]})
                         \ {OldestCohort(ring \cup {[id |-> id, at |-> at, reported |-> FALSE]})}
              /\ lastLoss' = t
           \/ /\ ~OverCap(ring \cup {[id |-> id, at |-> at, reported |-> FALSE]})
              /\ ring' = ring \cup {[id |-> id, at |-> at, reported |-> FALSE]}
              /\ lastLoss' = lastLoss
        /\ entered' = entered \cup {[id |-> id, run |-> runId, after |-> Len(durable),
                                     wall |-> wall - (clock - at)]}
  BY <1>1
<1> DEFINE new   == [id |-> id, at |-> at, reported |-> FALSE]
           fact  == [id |-> id, run |-> runId, after |-> Len(durable), wall |-> wall - (clock - at)]
           longer == ring \cup {new}
<1>3. /\ UNCHANGED <<timeVars, runId, due, phase, cursorVars, prepared, offered, durable>>
      /\ phase = "idle"
  BY DEF Complete
<1>4. Cardinality(entered) \in Nat /\ id \in Nat \ {0} /\ at \in Nat /\ at <= clock /\ t \in Nat
  BY <1>t, FS_CardinalityType DEF PublicationTypeOK
<1>5. new \in Sample BY <1>4 DEF Sample
<1>6. fact \in [id : Nat, run : Nat, after : Nat, wall : Int]
  BY <1>t, <1>4 DEF PublicationTypeOK
<1>7. fact \notin entered BY <1>4 DEF IInv, Identified, Ids
<1>8. IsFiniteSet(entered') /\ Cardinality(entered') = id
  <2> HIDE DEF fact
  <2>1. entered' = entered \cup {fact} BY <1>2 DEF fact
  <2> QED BY <2>1, <1>7, <1>t, FS_AddElement DEF PublicationTypeOK
<1> HIDE DEF fact, id
<1>9. /\ IsFiniteSet(longer) /\ Cardinality(longer) \in Nat /\ longer \in SUBSET Sample
      /\ longer # {}
  <2>1. IsFiniteSet(longer) BY <1>t, FS_AddElement DEF PublicationTypeOK
  <2> QED BY <2>1, <1>t, <1>5, FS_CardinalityType DEF PublicationTypeOK
<1>10. Cardinality(longer) <= MaxRolling + 1
  <2>1. Cardinality(longer) <= Cardinality(ring) + 1 /\ Cardinality(ring) \in Nat
    <3> HIDE DEF new
    <3>1. IsFiniteSet(ring) BY <1>t DEF PublicationTypeOK
    <3>2. Cardinality(ring) \in Nat BY <3>1, FS_CardinalityType
    <3>3. Cardinality(longer) = IF new \in ring THEN Cardinality(ring) ELSE Cardinality(ring) + 1
      BY <3>1, FS_AddElement
    <3> QED BY <3>2, <3>3
  <2> QED BY <2>1, <1>9, <1>t, PublicationAssumption DEF PublicationTypeOK
<1>11. ring' \subseteq longer /\ IsFiniteSet(ring') /\ Cardinality(ring') <= MaxRolling
  <2>1. CASE OverCap(longer) /\ ring' = longer \ {OldestCohort(longer)}
    <3> HIDE DEF longer
    <3>1. OldestCohort(longer) \in longer BY <1>9, FrontIsInside
    <3>2. Cardinality(ring') = Cardinality(longer) - 1 /\ IsFiniteSet(ring')
      BY <2>1, <3>1, <1>9, FS_RemoveElement
    <3> QED BY <2>1, <3>2, <1>9, <1>10, PublicationAssumption
  <2>2. CASE ~OverCap(longer) /\ ring' = longer
    BY <2>2, <1>9, PublicationAssumption DEF OverCap
  <2> QED BY <2>1, <2>2, <1>2
<1>12. lastLoss' \in Nat \cup {NoLoss} BY <1>2, <1>4, <1>t DEF PublicationTypeOK
<1>13. PublicationTypeOK'
  <2>1. ring' \subseteq Sample BY <1>9, <1>11
  <2>2. entered' \subseteq [id : Nat, run : Nat, after : Nat, wall : Int]
    BY <1>2, <1>6, <1>t DEF PublicationTypeOK, fact
  <2> HIDE DEF longer, new
  <2> QED BY <1>t, <1>3, <1>8, <1>11, <1>12, <2>1, <2>2 DEF PublicationTypeOK, timeVars, cursorVars
<1>14. Ids \subseteq Ids' /\ id \in Ids' /\ id \notin Ids
  BY <1>4, <1>8 DEF Ids, id
<1>15. Identified'
  <2>1. \A e \in entered' : e.id \in Ids'
    BY <1>2, <1>14 DEF IInv, Identified, fact
  <2>2. \A x \in ring' : x.id \in Ids'
    BY <1>11, <1>14 DEF IInv, Identified
  <2>3. ASSUME NEW x \in ring', NEW y \in ring', x.id = y.id
        PROVE  x = y
    <3>1. new.id = id OBVIOUS
    <3> HIDE DEF new
    <3>2. \A z \in ring : z.id # id BY <1>14 DEF IInv, Identified
    <3>3. (x \in ring \/ x = new) /\ (y \in ring \/ y = new) BY <1>11
    <3>4. CASE x \in ring /\ y \in ring BY <2>3, <3>4 DEF IInv, Identified
    <3> QED BY <2>3, <3>1, <3>2, <3>3, <3>4
  <2>4. \A i \in DOMAIN durable' : durable'[i].counted \subseteq Ids'
    BY <1>3, <1>14 DEF IInv, Identified
  <2> QED BY <2>1, <2>2, <2>3, <2>4 DEF Identified
<1>16. Past' BY <1>3, <1>4, <1>11 DEF IInv, Past, timeVars
<1>17. Marks'
  <2>1. ~Counted(id) BY <1>14 DEF IInv, Identified, Counted
  <2>2. \A k : Counted(k)' <=> Counted(k) BY <1>3 DEF Counted
  <2> QED BY <2>1, <2>2, <1>3, <1>11 DEF IInv, Marks
<1>18. (Waiting /\ AllCounted /\ CountedOnce)'
  BY <1>3 DEF IInv, Waiting, AllCounted, CountedOnce
<1> QED BY <1>13, <1>15, <1>16, <1>17, <1>18 DEF IInv

-----------------------------------------------------------------------------
(* A publication is prepared: it counts what is not marked. *)
LEMMA PrepareKeepsInv ==
    ASSUME IInv, Prepare
    PROVE  IInv'
<1>t. PublicationTypeOK BY DEF IInv
<1>1. PICK healthy \in BOOLEAN :
        offered' = <<[run |-> runId, start |-> cursorWall, end |-> Aligned(wall),
                      counted |-> {x.id : x \in Unreported(Pruned)},
                      complete |-> healthy /\ MayBeComplete]>>
  BY DEF Prepare
<1>2. /\ UNCHANGED <<clock, wall, stepsLeft, runId, lastLoss, cursor, cursorWall, hasPublished,
                     durable, entered>>
      /\ phase = "idle" /\ phase' = "submitting"
      /\ ring' = Pruned /\ prepared' = <<[end |-> clock, endWall |-> Aligned(wall)]>>
      /\ due' = NextDue /\ clock >= due /\ ~Overtaken
  BY DEF Prepare, timeVars, cursorVars
<1>3. due' \in Nat BY <1>2, <1>t, Deadlines
<1>4. Aligned(wall) \in Nat /\ Aligned(wall) > cursorWall /\ clock > cursor
  BY <1>2, <1>t, Deadlines DEF Overtaken, PublicationTypeOK
<1>5. ring' \subseteq ring BY <1>2 DEF Pruned
<1>6. {x.id : x \in Unreported(Pruned)} = {x.id : x \in {y \in ring' : ~y.reported}}
  <2>1. \A x \in Pruned : x.at <= clock BY DEF IInv, Past, Pruned
  <2>2. Unreported(Pruned) = {y \in ring' : ~y.reported} BY <2>1, <1>2 DEF Unreported
  <2> QED BY <2>2
<1>7. {x.id : x \in Unreported(Pruned)} \subseteq Nat
  BY <1>t DEF Unreported, Pruned, PublicationTypeOK, Sample
<1>8. offered' \in Seq(Batch) /\ Len(offered') = 1
      /\ offered'[1].counted = {x.id : x \in Unreported(Pruned)}
  <2> DEFINE c == {x.id : x \in Unreported(Pruned)}
             d == healthy /\ MayBeComplete
             b == [run |-> runId, start |-> cursorWall, end |-> Aligned(wall), counted |-> c,
                   complete |-> d]
  <2>1. c \in SUBSET Nat BY <1>7
  <2>2. d \in BOOLEAN BY <1>t DEF MayBeComplete, PublicationTypeOK
  <2>3. offered' = <<b>> BY <1>1
  <2> HIDE DEF c, d
  <2>4. b \in Batch /\ b.counted = c BY <2>1, <2>2, <1>4, <1>t DEF Batch, PublicationTypeOK
  <2> HIDE DEF b
  <2>5. offered' \in Seq(Batch) /\ Len(offered') = 1 /\ offered'[1] = b BY <2>3, <2>4
  <2> QED BY <2>4, <2>5 DEF c
<1>9. /\ prepared' \in Seq([end : Nat, endWall : Nat]) /\ Len(prepared') = 1
      /\ prepared'[1].end = clock /\ prepared'[1].endWall = Aligned(wall)
  BY <1>2, <1>4, <1>t DEF PublicationTypeOK
<1>10. /\ ring' \subseteq Sample /\ IsFiniteSet(ring') /\ Cardinality(ring') <= MaxRolling
  BY <1>5, <1>t, PartOfRing
<1>11. PublicationTypeOK' BY <1>t, <1>2, <1>3, <1>8, <1>9, <1>10 DEF PublicationTypeOK
<1>12. (Identified /\ Past /\ CountedOnce)'
  BY <1>2, <1>5 DEF IInv, Identified, Ids, Past, CountedOnce
<1>13. Waiting'
  <2>1. \A x \in ring' : x.at <= prepared'[1].end BY <1>5, <1>9 DEF IInv, Past
  <2>2. offered'[1].counted = {x.id : x \in {y \in ring' : ~y.reported}} BY <1>6, <1>8
  <2>3. prepared'[1].end > cursor' /\ prepared'[1].endWall > cursorWall'
    BY <1>2, <1>4, <1>9
  <2> QED BY <2>1, <2>2, <2>3 DEF Waiting
<1>14. (Marks /\ AllCounted)'
  BY <1>2, <1>5 DEF IInv, Marks, AllCounted, Counted
<1> QED BY <1>11, <1>12, <1>13, <1>14 DEF IInv

(* The batch is durable: what it counts no earlier batch does. *)
LEMMA AdmitKeepsInv ==
    ASSUME IInv, Admit
    PROVE  IInv'
<1>t. PublicationTypeOK BY DEF IInv
<1>1. /\ UNCHANGED <<clock, wall, stepsLeft, runId, due, ring, lastLoss, cursor, cursorWall,
                     hasPublished, prepared, offered, entered>>
      /\ phase = "submitting" /\ phase' = "durable" /\ durable' = Append(durable, offered[1])
  BY DEF Admit, timeVars, cursorVars
<1>2. offered \in Seq(Batch) /\ Len(offered) = 1 /\ durable \in Seq(Batch)
  BY <1>1, <1>t DEF PublicationTypeOK
<1>b. offered[1] \in Batch BY <1>2
<1> DEFINE n == Len(durable)
<1>3. /\ n \in Nat /\ durable' \in Seq(Batch) /\ Len(durable') = n + 1
      /\ durable'[n + 1] = offered[1]
      /\ \A i \in 1 .. n : durable'[i] = durable[i]
      /\ DOMAIN durable = 1 .. n /\ DOMAIN durable' = 1 .. n + 1
  <2> DEFINE b == offered[1]
  <2>1. b \in Batch /\ durable' = Append(durable, b) BY <1>b, <1>1
  <2> HIDE DEF b
  <2> SUFFICES /\ n \in Nat /\ durable' \in Seq(Batch) /\ Len(durable') = n + 1
               /\ durable'[n + 1] = b
               /\ \A i \in 1 .. n : durable'[i] = durable[i]
               /\ DOMAIN durable = 1 .. n /\ DOMAIN durable' = 1 .. n + 1
    BY DEF b
  <2> QED BY <2>1, <1>2
<1>4. PublicationTypeOK' BY <1>t, <1>1, <1>3 DEF PublicationTypeOK
<1>5. offered[1].counted = {x.id : x \in {y \in ring : ~y.reported}}
  BY <1>1 DEF IInv, Waiting
<1>6. Identified'
  <2>1. offered[1].counted \subseteq Ids BY <1>5 DEF IInv, Identified
  <2>2. Ids' = Ids BY <1>1 DEF Ids
  <2>3. \A i \in DOMAIN durable' : durable'[i].counted \subseteq Ids'
    BY <2>1, <2>2, <1>3 DEF IInv, Identified
  <2> QED BY <2>2, <2>3, <1>1 DEF IInv, Identified
<1>7. (Past /\ Waiting /\ Marks)'
  BY <1>1 DEF IInv, Past, Waiting, Marks
<1>8. AllCounted'
  <2> SUFFICES ASSUME NEW x \in ring PROVE Counted(x.id)'
    BY <1>1 DEF AllCounted
  <2>1. CASE x.reported
    <3>1. PICK i \in DOMAIN durable : x.id \in durable[i].counted
      BY <2>1, <1>1 DEF IInv, Marks, Counted
    <3>2. i \in DOMAIN durable' /\ x.id \in durable'[i].counted BY <3>1, <1>3
    <3> QED BY <3>2 DEF Counted
  <2>2. CASE ~x.reported
    <3>1. n + 1 \in DOMAIN durable' /\ x.id \in durable'[n + 1].counted
      BY <2>2, <1>3, <1>5
    <3> QED BY <3>1 DEF Counted
  <2> QED BY <2>1, <2>2
<1>9. CountedOnce'
  <2>1. \A i \in 1 .. n : durable[i].counted \cap offered[1].counted = {}
    <3> SUFFICES ASSUME NEW i \in 1 .. n, NEW k \in durable[i].counted,
                        k \in offered[1].counted
                 PROVE  FALSE
      OBVIOUS
    <3>1. PICK x \in ring : x.id = k /\ ~x.reported BY <1>5
    <3>2. Counted(x.id) BY <3>1, <1>3 DEF Counted
    <3> QED BY <3>1, <3>2, <1>1 DEF IInv, Marks
  <2> SUFFICES ASSUME NEW i \in 1 .. n + 1, NEW j \in 1 .. n + 1, i # j
               PROVE  durable'[i].counted \cap durable'[j].counted = {}
    BY <1>3 DEF CountedOnce
  <2>2. CASE i = n + 1 BY <2>1, <2>2, <1>3
  <2>3. CASE j = n + 1 BY <2>1, <2>3, <1>3
  <2>4. CASE i # n + 1 /\ j # n + 1
    <3>1. i \in 1 .. n /\ j \in 1 .. n BY <2>4, <1>3
    <3> QED BY <3>1, <1>3 DEF IInv, CountedOnce
  <2> QED BY <2>2, <2>3, <2>4
<1> QED BY <1>4, <1>6, <1>7, <1>8, <1>9 DEF IInv

-----------------------------------------------------------------------------
(* The commit marks the whole ring, every cohort of which is counted. *)
LEMMA CommitKeepsInv ==
    ASSUME IInv, Commit
    PROVE  IInv'
<1>t. PublicationTypeOK BY DEF IInv
<1>1. phase = "durable" /\ MovesCursor
  BY DEF IInv, Waiting, Commit, MovesCursor
<1> DEFINE end == prepared[1].end
<1>2. end \in Nat /\ prepared[1].endWall \in Nat
  <2> DEFINE T == [end : Nat, endWall : Nat]
  <2>1. prepared \in Seq(T) /\ Len(prepared) = 1 BY <1>1, <1>t DEF PublicationTypeOK
  <2>2. prepared[1] \in T
    <3> HIDE DEF T
    <3> QED BY <2>1
  <2> QED BY <2>2
<1>3. /\ UNCHANGED <<clock, wall, stepsLeft, runId, due, lastLoss, durable, entered>>
      /\ ring' = Marked(ring, end) /\ prepared' = <<>> /\ offered' = <<>> /\ phase' = "idle"
      /\ cursor' = end /\ cursorWall' = prepared[1].endWall
  BY <1>1 DEF Commit, Answered, RingAfter, timeVars
<1>4. hasPublished' \in BOOLEAN
  <2>1. MovesCursor => hasPublished' = TRUE BY Zenon DEF Commit
  <2>2. MovesCursor BY <1>1
  <2> QED BY <2>1, <2>2, Zenon
<1>5. PublicationTypeOK'
  <2>1. /\ ring' \subseteq Sample /\ IsFiniteSet(ring') /\ Cardinality(ring') <= MaxRolling
    BY <1>2, <1>3, <1>t, MarkedRing
  <2> HIDE DEF end
  <2> QED BY <1>t, <1>2, <1>3, <1>4, <2>1 DEF PublicationTypeOK
<1>6. \A y \in ring' : \E x \in ring : y.id = x.id /\ y.at = x.at /\ y.reported
                                        /\ y = [x EXCEPT !.reported = TRUE]
  <2>1. \A x \in ring : x.at <= end BY <1>1 DEF IInv, Waiting
  <2>2. \A x \in ring : /\ [x EXCEPT !.reported = TRUE].id = x.id
                        /\ [x EXCEPT !.reported = TRUE].at = x.at
                        /\ [x EXCEPT !.reported = TRUE].reported
    BY <1>t DEF PublicationTypeOK, Sample
  <2>3. ring' = {[x EXCEPT !.reported = TRUE] : x \in ring}
    BY <2>1, <1>3 DEF Marked
  <2> QED BY <2>2, <2>3
<1>7. Identified'
  <2>1. \A y \in ring' : y.id \in Ids' BY <1>3, <1>6 DEF IInv, Identified, Ids
  <2>2. ASSUME NEW x \in ring', NEW y \in ring', x.id = y.id
        PROVE  x = y
    <3>1. PICK v \in ring : x.id = v.id /\ x = [v EXCEPT !.reported = TRUE] BY <1>6
    <3>2. PICK w \in ring : y.id = w.id /\ y = [w EXCEPT !.reported = TRUE] BY <1>6
    <3>3. v = w BY <2>2, <3>1, <3>2, Zenon DEF IInv, Identified
    <3> QED BY <3>1, <3>2, <3>3, Zenon
  <2> QED BY <2>1, <2>2, <1>3 DEF IInv, Identified, Ids
<1>8. Past' BY <1>3, <1>6 DEF IInv, Past
<1>9. Marks'
  <2>1. \A x \in ring : Counted(x.id) BY <1>1 DEF IInv, AllCounted
  <2>2. \A k : Counted(k)' <=> Counted(k) BY <1>3 DEF Counted
  <2> QED BY <2>1, <2>2, <1>6 DEF Marks
<1>10. (Waiting /\ AllCounted /\ CountedOnce)'
  BY <1>3 DEF IInv, Waiting, AllCounted, CountedOnce
<1> QED BY <1>5, <1>7, <1>8, <1>9, <1>10 DEF IInv

(* A refused batch leaves the ring and the durable batches as they are. *)
LEMMA RejectKeepsInv ==
    ASSUME IInv, Reject
    PROVE  IInv'
<1>t. PublicationTypeOK BY DEF IInv
<1>1. /\ UNCHANGED <<clock, wall, stepsLeft, runId, due, ring, lastLoss, cursor, cursorWall,
                     hasPublished, durable, entered>>
      /\ phase = "submitting" /\ phase' = "idle" /\ prepared' = <<>> /\ offered' = <<>>
  BY DEF Reject, Answered, RingAfter, timeVars, cursorVars
<1>2. PublicationTypeOK' BY <1>t, <1>1 DEF PublicationTypeOK
<1>3. (Identified /\ Past /\ Waiting /\ Marks /\ AllCounted /\ CountedOnce)'
  BY <1>1 DEF IInv, Identified, Ids, Past, Waiting, Marks, AllCounted, Counted, CountedOnce
<1> QED BY <1>2, <1>3 DEF IInv

(* A restart forgets everything but what is durable. *)
LEMMA RestartKeepsInv ==
    ASSUME IInv, Restart
    PROVE  IInv'
<1>t. PublicationTypeOK BY DEF IInv
<1>1. /\ UNCHANGED <<clock, wall, stepsLeft, durable, entered>>
      /\ runId' = runId + 1 /\ ring' = {} /\ lastLoss' = NoLoss
      /\ cursor' = clock /\ cursorWall' = wall
      /\ prepared' = <<>> /\ offered' = <<>> /\ phase' = "idle" /\ due' = FirstDue
  BY DEF Restart, timeVars
<1>2. hasPublished' \in BOOLEAN BY Zenon DEF Restart
<1>3. IsFiniteSet(ring') /\ Cardinality(ring') <= MaxRolling /\ due' \in Nat
  BY <1>1, <1>t, FS_EmptySet, Deadlines, PublicationAssumption
<1>4. PublicationTypeOK' BY <1>t, <1>1, <1>2, <1>3 DEF PublicationTypeOK
<1>5. (Identified /\ Past /\ Waiting /\ Marks /\ AllCounted /\ CountedOnce)'
  BY <1>1 DEF IInv, Identified, Ids, Past, Waiting, Marks, AllCounted, CountedOnce
<1> QED BY <1>4, <1>5 DEF IInv
-----------------------------------------------------------------------------
(* The invariant holds in every state, of every run of the process: whatever is *)
(* refused, lost or restarted, the marks tell what the durable batches count. *)
THEOREM InductiveInvariant == PublicationSpec => []IInv
<1>1. PublicationInit => IInv BY InvInit
<1>2. IInv /\ [PublicationNext]_publicationVars => IInv'
  <2> SUFFICES ASSUME IInv, [PublicationNext]_publicationVars PROVE IInv' OBVIOUS
  <2>1. CASE Elapse \/ StepWall BY <2>1, TimeKeepsInv
  <2>2. CASE Complete BY <2>2, CompleteKeepsInv
  <2>3. CASE Maintain \/ Skip BY <2>3, PruneKeepsInv
  <2>4. CASE Prepare BY <2>4, PrepareKeepsInv
  <2>5. CASE Admit BY <2>5, AdmitKeepsInv
  <2>6. CASE Commit BY <2>6, CommitKeepsInv
  <2>7. CASE Reject BY <2>7, RejectKeepsInv
  <2>8. CASE Restart BY <2>8, RestartKeepsInv
  <2>9. CASE UNCHANGED publicationVars
    BY <2>9 DEF publicationVars, timeVars, cursorVars, IInv, PublicationTypeOK, Identified, Ids, Past, Waiting, Marks,
       AllCounted, Counted, CountedOnce
  <2> QED BY <2>1, <2>2, <2>3, <2>4, <2>5, <2>6, <2>7, <2>8, <2>9 DEF PublicationNext
<1> QED BY <1>1, <1>2, PTL DEF PublicationSpec

(* Every variable of a publication keeps its type, and the ring its cap. *)
THEOREM TypeCorrect == PublicationSpec => []PublicationTypeOK
<1>1. IInv => PublicationTypeOK BY DEF IInv
<1> QED BY <1>1, InductiveInvariant, PTL

(* No cohort is counted by two durable batches: mark_outcomes_reported marks exactly *)
(* what unreported_outcomes counted, and only after the batch is durable. *)
THEOREM NeverCountedTwice == PublicationSpec => []CountedOnce
<1>1. IInv => CountedOnce BY DEF IInv
<1> QED BY <1>1, InductiveInvariant, PTL

(* While the loop is free, what the ring marks as reported is what is durable, so that *)
(* a refused batch loses no cohort. *)
THEOREM MarksAreDurable == PublicationSpec => []ReportedIsDurable
<1>1. IInv => ReportedIsDurable BY DEF IInv, Marks, Counted, ReportedIsDurable
<1> QED BY <1>1, InductiveInvariant, PTL
-----------------------------------------------------------------------------
(***************************************************************************)
(* The intervals of publication, for every interval and any corrections of *)
(* the wall clock: within a run they follow each other without a gap, and  *)
(* no run repeats an interval of the run before unless somebody set the    *)
(* wall clock back.                                                        *)
(*                                                                         *)
(* The cursor is the end of the last durable interval of this run, except  *)
(* between the durable write and the commit, when that end is the prepared *)
(* one; a crash in between leaves a cursor that nobody needs.              *)
(***************************************************************************)

\* Nobody has corrected the wall clock.
Uncorrected == stepsLeft = MaxSteps

\* An interval is not empty and ends on a multiple of the publication interval.
Proper(b) == b.start < b.end /\ b.end % Interval = 0

Neighbours ==
    \A i \in DOMAIN durable :
        i + 1 \in DOMAIN durable =>
            /\ durable[i].run = durable[i + 1].run => durable[i].end = durable[i + 1].start
            /\ Uncorrected => durable[i].end <= durable[i + 1].start

AllProper == \A i \in DOMAIN durable : Proper(durable[i]) /\ durable[i].run <= runId

\* The cursor continues the last durable interval.
Continues ==
    phase # "durable" /\ durable # <<>> =>
        /\ durable[Len(durable)].run = runId => durable[Len(durable)].end = cursorWall
        /\ Uncorrected => durable[Len(durable)].end <= cursorWall

\* The interval on offer continues the cursor.
OnOffer ==
    /\ phase # "idle" =>
        /\ offered[1].run = runId /\ offered[1].start = cursorWall
        /\ offered[1].end = prepared[1].endWall
        /\ Proper(offered[1])
        /\ Uncorrected => offered[1].end <= wall
    /\ phase = "durable" => durable # <<>> /\ durable[Len(durable)] = offered[1]

Behind == stepsLeft <= MaxSteps /\ (Uncorrected => cursorWall <= wall)

KInv == Neighbours /\ AllProper /\ Continues /\ OnOffer /\ Behind
-----------------------------------------------------------------------------
(* Rounding a number down to a multiple. *)
LEMMA RoundDown ==
    ASSUME NEW n \in Nat \ {0}, NEW t \in Nat
    PROVE  (t - (t % n)) % n = 0 /\ t % n >= 0 /\ t % n \in Int
<1> DEFINE q == t \div n
<1>1. t = n * q + (t % n) OBVIOUS
<1>2. q \in Int /\ t % n >= 0 /\ t % n \in Int OBVIOUS
<1>3. t - (t % n) = n * q BY <1>1, <1>2
<1> HIDE DEF q
<1>4. (n * q) % n = 0
  <2>1. n * q \in Int BY <1>2
  <2> QED BY <1>2, <2>1
<1> QED BY <1>2, <1>3, <1>4

(* Aligned rounds down to a multiple of the publication interval. *)
LEMMA AlignedIsMultiple ==
    ASSUME NEW t \in Nat
    PROVE  Aligned(t) % Interval = 0 /\ Aligned(t) <= t
<1>1. Interval \in Nat \ {0} BY PublicationAssumption
<1>2. (t - (t % Interval)) % Interval = 0 /\ t % Interval >= 0 /\ t % Interval \in Int
  BY <1>1, RoundDown
<1> QED BY <1>2 DEF Aligned

(* The chain is empty at first. *)
LEMMA KInvInit == PublicationInit => KInv
<1> SUFFICES ASSUME PublicationInit PROVE KInv OBVIOUS
<1>1. durable = <<>> /\ phase = "idle" /\ stepsLeft = MaxSteps /\ cursorWall = wall BY DEF PublicationInit
<1>2. wall \in Nat BY PublicationAssumption DEF PublicationInit
<1> QED
  BY <1>1, <1>2, PublicationAssumption DEF KInv, Neighbours, AllProper, Continues, OnOffer, Behind

(* Steps that touch neither the intervals nor the cursor. *)
LEMMA OthersKeepKInv ==
    ASSUME IInv, KInv, Elapse \/ StepWall \/ Complete \/ Maintain \/ Skip \/ UNCHANGED publicationVars
    PROVE  KInv'
<1>t. PublicationTypeOK BY DEF IInv
<1>1. /\ UNCHANGED <<runId, phase, cursorWall, durable>>
      /\ phase # "idle" => UNCHANGED <<prepared, offered>>
  BY DEF Elapse, StepWall, Complete, Maintain, Skip, publicationVars, timeVars, cursorVars
<1>2. stepsLeft' <= MaxSteps /\ (Uncorrected' => Uncorrected /\ wall <= wall')
  <2>t. /\ stepsLeft \in Nat /\ wall \in Nat /\ MaxSteps \in Nat
        /\ stepsLeft <= MaxSteps
    BY <1>t, PublicationAssumption DEF PublicationTypeOK, KInv, Behind
  <2>1. CASE Elapse BY <2>t, <2>1 DEF Elapse, Uncorrected
  <2>2. CASE StepWall
    <3>1. stepsLeft' = stepsLeft - 1 BY <2>2 DEF StepWall
    <3> QED BY <2>t, <3>1 DEF Uncorrected
  <2>3. CASE Complete \/ Maintain \/ Skip \/ UNCHANGED publicationVars
    <3>1. UNCHANGED <<stepsLeft, wall>>
      BY <2>3 DEF Complete, Maintain, Skip, publicationVars, timeVars
    <3> QED BY <2>t, <3>1 DEF Uncorrected
  <2> QED BY <2>1, <2>2, <2>3
<1>3. Neighbours' BY <1>1, <1>2 DEF KInv, Neighbours
<1>4. AllProper' BY <1>1 DEF KInv, AllProper, Proper
<1>5. Continues' BY <1>1, <1>2 DEF KInv, Continues
<1>6. wall \in Int /\ wall' \in Int /\ cursorWall \in Int
  BY <1>t DEF Elapse, StepWall, Complete, Maintain, Skip, publicationVars, timeVars, PublicationTypeOK
<1>7. OnOffer'
  <2>1. phase # "idle" => offered[1].end \in Nat
    <3>1. phase # "idle" => offered \in Seq(Batch) /\ Len(offered) = 1 BY <1>t DEF PublicationTypeOK
    <3>2. phase # "idle" => offered[1] \in Batch BY <3>1
    <3> QED BY <3>2 DEF Batch
  <2> QED BY <2>1, <1>1, <1>2, <1>6 DEF KInv, OnOffer, Proper
<1>8. Behind' BY <1>1, <1>2, <1>6 DEF KInv, Behind
<1> QED BY <1>3, <1>4, <1>5, <1>7, <1>8 DEF KInv

(* The interval prepared begins at the cursor and ends on a multiple. *)
LEMMA PrepareKeepsKInv ==
    ASSUME IInv, KInv, Prepare
    PROVE  KInv'
<1>t. PublicationTypeOK BY DEF IInv
<1>1. PICK healthy \in BOOLEAN :
        offered' = <<[run |-> runId, start |-> cursorWall, end |-> Aligned(wall),
                      counted |-> {x.id : x \in Unreported(Pruned)},
                      complete |-> healthy /\ MayBeComplete]>>
  BY DEF Prepare
<1>2. /\ UNCHANGED <<wall, stepsLeft, runId, cursorWall, durable>>
      /\ phase = "idle" /\ phase' = "submitting"
      /\ prepared' = <<[end |-> clock, endWall |-> Aligned(wall)]>>
      /\ Aligned(wall) > cursorWall
  BY <1>t, Deadlines DEF Prepare, Overtaken, timeVars, cursorVars, PublicationTypeOK
<1>3. /\ offered'[1].run = runId /\ offered'[1].start = cursorWall
      /\ offered'[1].end = Aligned(wall) /\ prepared'[1].endWall = Aligned(wall)
  BY <1>1, <1>2
<1>4. Aligned(wall) % Interval = 0 /\ Aligned(wall) <= wall BY <1>t, AlignedIsMultiple DEF PublicationTypeOK
<1>5. OnOffer' BY <1>2, <1>3, <1>4 DEF OnOffer, Proper
<1>6. (Neighbours /\ AllProper /\ Continues /\ Behind)'
  BY <1>2 DEF KInv, Neighbours, AllProper, Proper, Continues, Behind, Uncorrected
<1> QED BY <1>5, <1>6 DEF KInv

(* The chain of durable intervals grows by the one on offer. *)
LEMMA AdmitKeepsKInv ==
    ASSUME IInv, KInv, Admit
    PROVE  KInv'
<1>t. PublicationTypeOK BY DEF IInv
<1>1. /\ UNCHANGED <<wall, stepsLeft, runId, cursorWall, prepared, offered>>
      /\ phase = "submitting" /\ phase' = "durable" /\ durable' = Append(durable, offered[1])
  BY DEF Admit, timeVars, cursorVars
<1> DEFINE n == Len(durable)
           b == offered[1]
<1>b. b \in Batch
  <2>1. offered \in Seq(Batch) /\ Len(offered) = 1 BY <1>1, <1>t DEF PublicationTypeOK
  <2> QED BY <2>1
<1>3. /\ n \in Nat /\ Len(durable') = n + 1 /\ durable'[n + 1] = b /\ durable' # <<>>
      /\ \A i \in 1 .. n : durable'[i] = durable[i]
      /\ DOMAIN durable = 1 .. n /\ DOMAIN durable' = 1 .. n + 1
      /\ n > 0 => durable # <<>>
  <2>1. durable \in Seq(Batch) /\ durable' = Append(durable, b) BY <1>1, <1>t DEF PublicationTypeOK
  <2> HIDE DEF b
  <2> QED BY <2>1, <1>b
<1>4. b.run = runId /\ b.start = cursorWall /\ Proper(b) BY <1>1 DEF KInv, OnOffer
<1>5. b.run <= runId BY <1>4, <1>t DEF PublicationTypeOK
<1>6. OnOffer' BY <1>1, <1>3 DEF KInv, OnOffer, Proper, Uncorrected
<1>7. (Continues /\ Behind)' BY <1>1 DEF KInv, Continues, Behind, Uncorrected
<1> HIDE DEF n, b
<1>8. AllProper'
  <2> SUFFICES ASSUME NEW i \in 1 .. n + 1
               PROVE  Proper(durable'[i]) /\ durable'[i].run <= runId
    BY <1>1, <1>3 DEF AllProper, Proper
  <2>1. CASE i = n + 1 BY <2>1, <1>3, <1>4, <1>5
  <2>2. CASE i # n + 1
    <3>1. i \in 1 .. n BY <2>2, <1>3
    <3> QED BY <3>1, <1>3 DEF KInv, AllProper
  <2> QED BY <2>1, <2>2
<1>9. Neighbours'
  <2> SUFFICES ASSUME NEW i \in 1 .. n
               PROVE  /\ durable'[i].run = durable'[i + 1].run =>
                            durable'[i].end = durable'[i + 1].start
                      /\ Uncorrected => durable'[i].end <= durable'[i + 1].start
    BY <1>1, <1>3 DEF Neighbours, Uncorrected
  <2>1. CASE i = n
    <3>1. durable'[i] = durable[n] /\ durable'[i + 1] = b /\ durable # <<>> BY <2>1, <1>3
    <3>2. /\ durable[n].run = runId => durable[n].end = cursorWall
          /\ Uncorrected => durable[n].end <= cursorWall
      BY <3>1, <1>1 DEF KInv, Continues, n
    <3> QED BY <3>1, <3>2, <1>4
  <2>2. CASE i # n
    <3>1. i \in 1 .. n /\ i + 1 \in 1 .. n BY <2>2, <1>3
    <3> QED BY <3>1, <1>3 DEF KInv, Neighbours
  <2> QED BY <2>1, <2>2
<1> QED BY <1>6, <1>7, <1>8, <1>9 DEF KInv

(* The cursor moves to the end of the chain, or stays there. *)
LEMMA AnswerKeepsKInv ==
    ASSUME IInv, KInv, Commit \/ Reject
    PROVE  KInv'
<1>1. UNCHANGED <<wall, stepsLeft, runId, durable>> /\ phase' = "idle"
  BY DEF Commit, Reject, Answered, timeVars
<1>2. (Neighbours /\ AllProper /\ OnOffer)'
  BY <1>1 DEF KInv, Neighbours, AllProper, Proper, OnOffer, Uncorrected
<1>3. CASE Commit
  <2>1. phase = "durable" /\ MovesCursor BY <1>3 DEF IInv, Waiting, Commit, MovesCursor
  <2>2. cursorWall' = prepared[1].endWall BY <2>1, <1>3 DEF Commit
  <2>3. /\ durable[Len(durable)].end = prepared[1].endWall
        /\ Uncorrected => prepared[1].endWall <= wall
    BY <2>1 DEF KInv, OnOffer
  <2>4. prepared[1].endWall \in Nat
    <3> DEFINE T == [end : Nat, endWall : Nat]
    <3>1. prepared \in Seq(T) /\ Len(prepared) = 1 BY <2>1 DEF IInv, PublicationTypeOK
    <3>2. prepared[1] \in T
      <4> HIDE DEF T
      <4> QED BY <3>1
    <3> QED BY <3>2
  <2>5. (Continues /\ Behind)'
    BY <1>1, <2>2, <2>3, <2>4 DEF KInv, Continues, Behind, Uncorrected
  <2> QED BY <1>2, <2>5 DEF KInv
<1>4. CASE Reject
  <2>1. UNCHANGED cursorWall /\ phase = "submitting" BY <1>4 DEF Reject, cursorVars
  <2>2. (Continues /\ Behind)' BY <1>1, <2>1 DEF KInv, Continues, Behind, Uncorrected
  <2> QED BY <1>2, <2>2 DEF KInv
<1> QED BY <1>3, <1>4

(* A new run starts its chain at the wall clock. *)
LEMMA RestartKeepsKInv ==
    ASSUME IInv, KInv, Restart
    PROVE  KInv'
<1>t. PublicationTypeOK BY DEF IInv
<1>1. /\ UNCHANGED <<wall, stepsLeft, durable>>
      /\ runId' = runId + 1 /\ cursorWall' = wall /\ phase' = "idle"
  BY DEF Restart, timeVars
<1> DEFINE n == Len(durable)
<1>2. durable # <<>> => n \in DOMAIN durable /\ durable[n] \in Batch
  BY <1>t DEF PublicationTypeOK
<1>3. durable # <<>> => durable[n].run <= runId /\ durable[n].run \in Nat /\ durable[n].end \in Nat
  BY <1>2 DEF KInv, AllProper, Batch
<1>4. durable # <<>> /\ Uncorrected => durable[n].end <= wall
  <2>1. CASE phase = "durable" BY <2>1 DEF KInv, OnOffer
  <2>2. CASE phase # "durable"
    BY <2>2, <1>3, <1>t DEF KInv, Continues, Behind, PublicationTypeOK
  <2> QED BY <2>1, <2>2
<1>5. AllProper'
  <2> SUFFICES ASSUME NEW i \in DOMAIN durable
               PROVE  Proper(durable[i]) /\ durable[i].run <= runId + 1
    BY <1>1 DEF AllProper, Proper
  <2>1. durable[i] \in Batch BY <1>t DEF PublicationTypeOK
  <2> QED BY <2>1, <1>t DEF KInv, AllProper, Batch, PublicationTypeOK
<1>6. Continues' BY <1>1, <1>3, <1>4, <1>t DEF Continues, Uncorrected, PublicationTypeOK
<1>7. (Neighbours /\ OnOffer /\ Behind)'
  BY <1>1, <1>t DEF KInv, Neighbours, OnOffer, Behind, Uncorrected, PublicationTypeOK
<1> QED BY <1>5, <1>6, <1>7 DEF KInv
-----------------------------------------------------------------------------
(* The cursor, the interval on offer and the durable intervals form one chain. *)
THEOREM ChainInvariant == PublicationSpec => [](IInv /\ KInv)
<1>1. ASSUME IInv, KInv, [PublicationNext]_publicationVars PROVE KInv'
  <2>1. CASE Elapse \/ StepWall \/ Complete \/ Maintain \/ Skip \/ UNCHANGED publicationVars
    BY <1>1, <2>1, OthersKeepKInv
  <2>2. CASE Prepare BY <1>1, <2>2, PrepareKeepsKInv
  <2>3. CASE Admit BY <1>1, <2>3, AdmitKeepsKInv
  <2>4. CASE Commit \/ Reject BY <1>1, <2>4, AnswerKeepsKInv
  <2>5. CASE Restart BY <1>1, <2>5, RestartKeepsKInv
  <2> QED BY <1>1, <2>1, <2>2, <2>3, <2>4, <2>5 DEF PublicationNext
<1> QED BY <1>1, KInvInit, InductiveInvariant, PTL DEF PublicationSpec

(* Durable intervals are not empty, end on a multiple of the publication interval and *)
(* abut within a run; without corrections of the wall clock no run repeats one. *)
THEOREM IntervalsFollowEachOther == PublicationSpec => []IntervalsAbut
<1>1. KInv => IntervalsAbut
  BY DEF KInv, Neighbours, AllProper, Proper, Uncorrected, IntervalsAbut
<1> QED BY <1>1, ChainInvariant, PTL
-----------------------------------------------------------------------------
(* An interval marked complete counts what was completed in it, as long as the rolling window *)
(* outlasts two intervals, the corrections of the wall clock and the wait in the queue.       *)

\* publish_interval is 30 s and rolling_window 300 s (src/benchmark.rs:104).
WindowCovers == 2 * Interval - 1 + MaxSteps + Delay <= Window

Corrections == MaxSteps - stepsLeft

\* Since the cursor, and since the interval on offer ended, the monotonic clock gained on the wall
\* clock no more than the wall clock was corrected.
Paced ==
    /\ cursor <= clock /\ clock - cursor <= wall - cursorWall + Corrections
    /\ phase # "idle" =>
        /\ prepared[1].end <= clock
        /\ clock - prepared[1].end <= wall - prepared[1].endWall + Corrections

\* The cohorts that run r completed between its batches n and n + 1, and those the running
\* process completed since the last batch.
CompletedIn(r, n) == {e \in entered : e.run = r /\ e.after = n}
Fresh == CompletedIn(runId, Len(durable))
IdsOf(S) == {e.id : e \in S}

Registered ==
    \A e \in entered : /\ e.run <= runId /\ e.after <= Len(durable)
                       /\ phase = "durable" => e.after < Len(durable)

\* What no batch counts is fresh, and what is fresh no batch counts.
FreshUncounted ==
    /\ \A e \in Fresh : ~Counted(e.id)
    /\ phase # "durable" => \A x \in ring : ~x.reported => x.id \in IdsOf(Fresh)

\* Too late for the window to hold what is fresh, or something of it was evicted.
Missed == clock - cursor + Delay > Window \/ (lastLoss # NoLoss /\ lastLoss + Delay >= cursor)

\* What is fresh is in the ring.
FreshKept ==
    phase # "durable" =>
        \A e \in Fresh : Missed \/ \E x \in ring : x.id = e.id /\ x.at + Delay >= cursor

OfferIsAll ==
    phase = "submitting" /\ offered[1].complete => offered[1].counted = IdsOf(Fresh)

PInv == Paced /\ Registered /\ FreshUncounted /\ FreshKept /\ OfferIsAll /\ CompleteIsAll

(* What is prepared and on offer is typed. *)
LEMMA OnOfferTyped ==
    ASSUME PublicationTypeOK, phase # "idle"
    PROVE  /\ prepared[1].end \in Nat /\ prepared[1].endWall \in Nat /\ offered[1] \in Batch
<1> DEFINE T == [end : Nat, endWall : Nat]
<1>1. prepared \in Seq(T) /\ Len(prepared) = 1 BY DEF PublicationTypeOK
<1>2. prepared[1] \in T
  <2> HIDE DEF T
  <2> QED BY <1>1
<1>3. offered \in Seq(Batch) /\ Len(offered) = 1 BY DEF PublicationTypeOK
<1>4. offered[1] \in Batch BY <1>3
<1> QED BY <1>2, <1>4

(* What a later time leaves behind stays behind. *)
LEMMA LaterIsFurther ==
    ASSUME NEW t \in Int, NEW u \in Int, NEW from \in Int, NEW d \in Int, NEW w \in Int,
           t <= u, t - from + d > w
    PROVE  u - from + d > w
OBVIOUS

(* The clocks keep pace, but for the corrections. *)
LEMMA PaceKept ==
    ASSUME IInv, KInv, Paced, [PublicationNext]_publicationVars
    PROVE  Paced'
<1>t. PublicationTypeOK BY DEF IInv
<1>1. /\ clock \in Nat /\ wall \in Nat /\ cursor \in Nat /\ cursorWall \in Nat
      /\ stepsLeft \in Nat /\ MaxSteps \in Nat /\ stepsLeft <= MaxSteps
  BY <1>t, PublicationAssumption DEF PublicationTypeOK, KInv, Behind
<1>2. phase # "idle" => prepared[1].end \in Nat /\ prepared[1].endWall \in Nat
  BY <1>t, OnOfferTyped
<1>3. CASE Elapse
  <2>1. /\ clock' = clock + 1 /\ wall' = wall + 1
        /\ UNCHANGED <<stepsLeft, phase, cursor, cursorWall, prepared>>
    BY <1>3 DEF Elapse, cursorVars
  <2> QED BY <1>1, <1>2, <2>1 DEF Paced, Corrections
<1>4. CASE StepWall
  <2>1. UNCHANGED <<clock, phase, cursor, cursorWall, prepared>>
    BY <1>4 DEF StepWall, cursorVars
  <2>2. stepsLeft' = stepsLeft - 1 BY <1>4 DEF StepWall
  <2>3. PICK step \in {-1, 1} : wall' = wall + step BY <1>4 DEF StepWall
  <2>4. step \in Int /\ -1 <= step BY <2>3
  <2>5. PICK v \in Int : v = wall' /\ wall <= v + 1
    <3>1. wall + step \in Int /\ wall <= (wall + step) + 1 BY <1>1, <2>4
    <3> QED BY <2>3, <3>1
  <2>6. PICK c \in Int : c = Corrections /\ Corrections' = c + 1
    BY <1>1, <2>2 DEF Corrections
  <2>7. cursor' <= clock' /\ clock' - cursor' <= wall' - cursorWall' + Corrections'
    <3>1. cursor <= clock /\ clock - cursor <= wall - cursorWall + Corrections BY DEF Paced
    <3>2. wall <= v + 1 /\ clock - cursor <= wall - cursorWall + c BY <2>5, <2>6, <3>1
    <3>3. clock - cursor <= v - cursorWall + (c + 1) BY <1>1, <3>2
    <3> QED BY <2>1, <2>5, <2>6, <3>1, <3>3
  <2>8. ASSUME phase' # "idle"
        PROVE  /\ prepared'[1].end <= clock'
               /\ clock' - prepared'[1].end <= wall' - prepared'[1].endWall + Corrections'
    <3>1. /\ prepared[1].end <= clock
          /\ clock - prepared[1].end <= wall - prepared[1].endWall + Corrections
      BY <2>1, <2>8 DEF Paced
    <3>2. prepared[1].end \in Nat /\ prepared[1].endWall \in Nat BY <1>2, <2>1, <2>8
    <3>3. PICK x, y \in Nat : x = prepared[1].end /\ y = prepared[1].endWall BY <3>2
    <3>4. wall <= v + 1 /\ clock - x <= wall - y + c BY <2>5, <2>6, <3>1, <3>3
    <3>5. clock - x <= v - y + (c + 1) BY <1>1, <3>4
    <3> QED BY <2>1, <2>5, <2>6, <3>1, <3>3, <3>5
  <2> QED BY <2>7, <2>8 DEF Paced
<1>5. CASE Complete \/ Maintain \/ Skip \/ Admit \/ UNCHANGED publicationVars
  <2>1. /\ UNCHANGED <<clock, wall, stepsLeft, cursor, cursorWall>>
        /\ phase' # "idle" => phase # "idle" /\ prepared' = prepared
    BY <1>5 DEF Complete, Maintain, Skip, Admit, publicationVars, timeVars, cursorVars
  <2> QED BY <2>1 DEF Paced, Corrections
<1>6. CASE Prepare
  <2>1. /\ UNCHANGED <<clock, wall, stepsLeft, cursor, cursorWall>>
        /\ prepared' = <<[end |-> clock, endWall |-> Aligned(wall)]>>
    BY <1>6 DEF Prepare, timeVars, cursorVars
  <2>2. prepared'[1].end = clock /\ prepared'[1].endWall = Aligned(wall) BY <2>1
  <2>3. Aligned(wall) <= wall /\ Aligned(wall) \in Int BY <1>1, <1>t, AlignedIsMultiple, Deadlines
  <2> QED BY <1>1, <2>1, <2>2, <2>3 DEF Paced, Corrections
<1>7. CASE Commit
  <2>1. phase = "durable" /\ MovesCursor BY <1>7 DEF IInv, Waiting, Commit, MovesCursor
  <2>2. /\ UNCHANGED <<clock, wall, stepsLeft>> /\ phase' = "idle"
        /\ cursor' = prepared[1].end /\ cursorWall' = prepared[1].endWall
    BY <1>7, <2>1 DEF Commit, Answered, timeVars
  <2> QED BY <2>1, <2>2 DEF Paced, Corrections
<1>8. CASE Reject
  <2>1. UNCHANGED <<clock, wall, stepsLeft, cursor, cursorWall>> /\ phase' = "idle"
    BY <1>8 DEF Reject, Answered, timeVars, cursorVars
  <2> QED BY <2>1 DEF Paced, Corrections
<1>9. CASE Restart
  <2>1. UNCHANGED <<clock, wall, stepsLeft>> /\ cursor' = clock /\ cursorWall' = wall /\ phase' = "idle"
    BY <1>9 DEF Restart, timeVars
  <2> QED BY <1>1, <2>1 DEF Paced, Corrections
<1> QED BY <1>3, <1>4, <1>5, <1>6, <1>7, <1>8, <1>9 DEF PublicationNext

(* Steps that complete no cohort, and make no batch durable. *)
LEMMA FreshStays ==
    ASSUME PInv, UNCHANGED <<runId, durable, entered, phase>>
    PROVE  /\ Fresh' = Fresh /\ Registered' /\ (\A e \in Fresh : ~Counted(e.id))' /\ CompleteIsAll'
<1>1. Fresh' = Fresh BY DEF Fresh, CompletedIn
<1>2. \A k : Counted(k)' <=> Counted(k) BY DEF Counted
<1>3. Registered' BY DEF PInv, Registered
<1>4. CompleteIsAll' BY DEF PInv, CompleteIsAll
<1> QED BY <1>1, <1>2, <1>3, <1>4 DEF PInv, FreshUncounted

(* Time only makes the window miss more. *)
LEMMA TimeKeepsPInv ==
    ASSUME IInv, PInv, Elapse \/ StepWall
    PROVE  (Registered /\ FreshUncounted /\ FreshKept /\ OfferIsAll /\ CompleteIsAll)'
<1>t. PublicationTypeOK BY DEF IInv
<1>1. /\ UNCHANGED <<runId, phase, ring, lastLoss, cursor, prepared, offered, durable, entered>>
      /\ clock' = clock \/ clock' = clock + 1
  BY DEF Elapse, StepWall, cursorVars
<1>2. Fresh' = Fresh /\ Registered' /\ (\A e \in Fresh : ~Counted(e.id))' /\ CompleteIsAll'
  BY <1>1, FreshStays
<1>3. FreshUncounted' BY <1>1, <1>2 DEF PInv, FreshUncounted, IdsOf
<1>4. Missed => Missed'
  <2>1. clock \in Nat /\ cursor \in Nat /\ Delay \in Nat /\ Window \in Nat
    BY <1>t, PublicationAssumption DEF PublicationTypeOK
  <2>2. PICK u \in Nat : u = clock' /\ clock <= u
    <3>1. clock \in Nat /\ clock + 1 \in Nat /\ clock <= clock + 1 BY <2>1
    <3> QED BY <1>1, <3>1
  <2>3. clock - cursor + Delay > Window => u - cursor + Delay > Window
    <3>1. clock \in Int /\ cursor \in Int /\ Delay \in Int /\ Window \in Int /\ u \in Int
      BY <2>1
    <3>2. clock <= u BY <2>2
    <3> QED BY ONLY <3>1, <3>2, LaterIsFurther
  <2>4. clock - cursor + Delay > Window => clock' - cursor' + Delay > Window
    BY <1>1, <2>2, <2>3
  <2> QED BY <1>1, <2>4 DEF Missed
<1>5. FreshKept' BY <1>1, <1>2, <1>4 DEF PInv, FreshKept
<1>6. OfferIsAll' BY <1>1, <1>2 DEF PInv, OfferIsAll, IdsOf
<1> QED BY <1>2, <1>3, <1>5, <1>6

(* What is pruned from the ring was not fresh, or came too late. *)
LEMMA PruneKeepsFresh ==
    ASSUME IInv, PInv, phase = "idle", ring' = Pruned,
           UNCHANGED <<clock, runId, lastLoss, cursor, durable, entered>>
    PROVE  (FreshUncounted /\ FreshKept)'
<1>t. PublicationTypeOK BY DEF IInv
<1>1. Fresh' = Fresh BY DEF Fresh, CompletedIn
<1>2. \A k : Counted(k)' <=> Counted(k) BY DEF Counted
<1>3. ring' \subseteq ring BY DEF Pruned
<1>4. FreshUncounted' BY <1>1, <1>2, <1>3 DEF PInv, FreshUncounted, IdsOf
<1>5. Missed' <=> Missed BY DEF Missed
<1>6. ASSUME NEW e \in Fresh, ~Missed
      PROVE  \E x \in ring' : x.id = e.id /\ x.at + Delay >= cursor
  <2>1. PICK x \in ring : x.id = e.id /\ x.at + Delay >= cursor BY <1>6 DEF PInv, FreshKept
  <2>2. x.at \in Nat BY <1>t DEF PublicationTypeOK, Sample
  <2>3. clock - cursor + Delay <= Window
    BY <1>6, <1>t, PublicationAssumption DEF Missed, PublicationTypeOK
  <2>4. Since(clock, x.at) <= Window
    BY <1>t, <2>1, <2>2, <2>3, PublicationAssumption DEF Since, PublicationTypeOK
  <2>5. x \in ring' BY <2>4 DEF Pruned
  <2> QED BY <2>1, <2>5
<1>7. FreshKept' BY <1>1, <1>5, <1>6 DEF FreshKept
<1> QED BY <1>4, <1>7

(* A cohort becomes complete: it is fresh and in the ring, unless the ring overflows, and then *)
(* the loss is declared at a time after the cursor, less the wait in the queue.                *)
LEMMA CompleteKeepsPInv ==
    ASSUME IInv, IInv', PInv, Complete
    PROVE  (Registered /\ FreshUncounted /\ FreshKept /\ OfferIsAll /\ CompleteIsAll)'
<1>t. PublicationTypeOK BY DEF IInv
<1> DEFINE id == Cardinality(entered) + 1
           new(at)  == [id |-> id, at |-> at, reported |-> FALSE]
           fact(at) == [id |-> id, run |-> runId, after |-> Len(durable), wall |-> wall - (clock - at)]
<1>1. PICK t \in 0 .. clock : \E at \in 0 .. t :
        /\ at + Delay >= clock
        /\ \/ /\ ring' = (ring \cup {new(at)}) \ {OldestCohort(ring \cup {new(at)})}
              /\ lastLoss' = t
           \/ ring' = ring \cup {new(at)} /\ lastLoss' = lastLoss
        /\ entered' = entered \cup {fact(at)}
  BY DEF Complete
<1>2. PICK at \in 0 .. t :
        /\ at + Delay >= clock
        /\ \/ /\ ring' = (ring \cup {new(at)}) \ {OldestCohort(ring \cup {new(at)})}
              /\ lastLoss' = t
           \/ ring' = ring \cup {new(at)} /\ lastLoss' = lastLoss
        /\ entered' = entered \cup {fact(at)}
  BY <1>1
<1> PICK x, f : x = new(at) /\ f = fact(at)
  OBVIOUS
<1>3. /\ UNCHANGED <<clock, runId, cursor, offered, durable, phase>> /\ phase = "idle"
  BY DEF Complete, timeVars, cursorVars
<1>4. /\ f.id = id /\ f.run = runId /\ f.after = Len(durable)
      /\ x.id = id /\ x.at = at /\ entered' = entered \cup {f} /\ ring' \subseteq ring \cup {x}
  BY <1>2
<1>5. /\ at \in Nat /\ t \in Nat /\ clock \in Nat /\ cursor \in Nat /\ cursor <= clock
      /\ at + Delay >= clock /\ at <= t /\ Delay \in Nat /\ Window \in Nat
      /\ runId \in Nat /\ Len(durable) \in Nat
  BY <1>2, <1>t, PublicationAssumption DEF PublicationTypeOK, PInv, Paced
<1>6. (ring' = ring \cup {x} /\ lastLoss' = lastLoss) \/ lastLoss' = t
  BY <1>2
<1> HIDE DEF new, fact, id
<1>7. Registered' BY <1>3, <1>4, <1>5 DEF PInv, Registered
<1>8. /\ Fresh' = Fresh \cup {f}
      /\ \A r, n : n # Len(durable) => CompletedIn(r, n)' = CompletedIn(r, n)
  BY <1>3, <1>4 DEF Fresh, CompletedIn
<1>9. FreshUncounted'
  <2>1. \A k : Counted(k)' <=> Counted(k) BY <1>3 DEF Counted
  <2>2. ~Counted(id)
    <3>1. Cardinality(entered) \in Nat BY <1>t, FS_CardinalityType DEF PublicationTypeOK
    <3>2. id \notin Ids BY <3>1 DEF Ids, id
    <3> QED BY <3>2 DEF IInv, Identified, Counted
  <2>3. \A e \in Fresh' : ~Counted(e.id)'
    BY <1>4, <1>8, <2>1, <2>2 DEF PInv, FreshUncounted
  <2>4. \A y \in ring' : ~y.reported => y.id \in IdsOf(Fresh)'
    BY <1>3, <1>4, <1>8 DEF PInv, FreshUncounted, IdsOf
  <2> QED BY <2>3, <2>4 DEF FreshUncounted
<1>10. FreshKept'
  <2>1. CASE lastLoss' = t
    <3>1. lastLoss' # NoLoss /\ lastLoss' + Delay >= cursor BY <1>5, <2>1 DEF NoLoss
    <3>2. Missed' BY <1>3, <3>1 DEF Missed
    <3> QED BY <3>2 DEF FreshKept
  <2>2. CASE ring' = ring \cup {x} /\ lastLoss' = lastLoss
    <3>1. Missed => Missed' BY <1>3, <2>2 DEF Missed
    <3>2. x.at + Delay >= cursor BY <1>4, <1>5
    <3>3. \A e \in Fresh : Missed \/ \E y \in ring : y.id = e.id /\ y.at + Delay >= cursor
      BY <1>3 DEF PInv, FreshKept
    <3>4. \A e \in Fresh' : Missed' \/ \E y \in ring' : y.id = e.id /\ y.at + Delay >= cursor
      BY <1>4, <1>8, <2>2, <3>1, <3>2, <3>3
    <3> QED BY <1>3, <3>4 DEF FreshKept
  <2> QED BY <1>6, <2>1, <2>2
<1>11. OfferIsAll' BY <1>3 DEF OfferIsAll
<1>12. CompleteIsAll'
  <2> SUFFICES ASSUME NEW i \in DOMAIN durable, durable[i].complete
               PROVE  durable[i].counted = IdsOf(CompletedIn(durable[i].run, i - 1))'
    BY <1>3 DEF CompleteIsAll, CompletedIn, IdsOf
  <2>1. i - 1 # Len(durable)
    <3>1. i \in 1 .. Len(durable) BY <1>t DEF PublicationTypeOK
    <3> QED BY <1>5, <3>1
  <2>2. durable[i].counted = IdsOf(CompletedIn(durable[i].run, i - 1))
    BY DEF PInv, CompleteIsAll, CompletedIn, IdsOf
  <2>3. CompletedIn(durable[i].run, i - 1)' = CompletedIn(durable[i].run, i - 1)
    BY <1>3, <1>8, <2>1
  <2> QED BY <2>2, <2>3 DEF IdsOf
<1> QED BY <1>7, <1>9, <1>10, <1>11, <1>12

(* A batch that is marked complete counts what is fresh: none of it was pruned or evicted. *)
LEMMA PrepareCountsAll ==
    ASSUME WindowCovers, IInv, KInv, PInv, Prepare
    PROVE  OfferIsAll'
<1>t. PublicationTypeOK BY DEF IInv
<1>1. PICK healthy \in BOOLEAN :
        offered' = <<[run |-> runId, start |-> cursorWall, end |-> Aligned(wall),
                      counted |-> {x.id : x \in Unreported(Pruned)},
                      complete |-> healthy /\ MayBeComplete]>>
  BY DEF Prepare
<1>2. phase = "idle" /\ UNCHANGED <<runId, durable, entered>>
  BY DEF Prepare
<1>3. Fresh' = Fresh BY <1>2 DEF Fresh, CompletedIn
<1>4. offered'[1].counted = IdsOf(Unreported(Pruned)) /\ (offered'[1].complete => MayBeComplete)
  BY <1>1 DEF IdsOf
<1>5. ASSUME MayBeComplete
      PROVE  IdsOf(Unreported(Pruned)) = IdsOf(Fresh)
  <2>1. /\ clock \in Nat /\ wall \in Nat /\ cursor \in Nat /\ cursorWall \in Nat
        /\ stepsLeft \in Nat /\ MaxSteps \in Nat /\ stepsLeft <= MaxSteps
        /\ Interval \in Nat \ {0} /\ Window \in Nat /\ Delay \in Nat
    BY <1>t, PublicationAssumption DEF PublicationTypeOK, KInv, Behind
  <2>2. wall < cursorWall + 2 * Interval
    <3>1. wall % Interval \in 0 .. Interval - 1 BY <2>1
    <3>2. wall - (wall % Interval) - cursorWall = Interval BY <1>5 DEF MayBeComplete, Aligned
    <3> QED BY <2>1, <3>1, <3>2
  <2>3. clock - cursor + Delay <= Window
    <3>1. clock - cursor <= wall - cursorWall + (MaxSteps - stepsLeft)
      BY DEF PInv, Paced, Corrections
    <3> QED BY <2>1, <2>2, <3>1 DEF WindowCovers
  <2>4. ~Missed
    <3>1. lastLoss = NoLoss \/ Since(clock, lastLoss) > Window BY <1>5 DEF MayBeComplete, Intact
    <3>2. ASSUME lastLoss # NoLoss PROVE lastLoss + Delay < cursor
      <4>1. lastLoss \in Nat /\ Since(clock, lastLoss) > Window
        BY <3>1, <3>2, <1>t DEF PublicationTypeOK
      <4> QED BY <2>1, <2>3, <4>1 DEF Since
    <3>3. lastLoss # NoLoss => ~(lastLoss + Delay >= cursor)
      <4>1. lastLoss # NoLoss => lastLoss \in Nat BY <1>t DEF PublicationTypeOK
      <4> QED BY <2>1, <3>2, <4>1
    <3>4. ~(clock - cursor + Delay > Window) BY <2>1, <2>3
    <3> QED BY <3>3, <3>4 DEF Missed
  <2>5. ASSUME NEW x \in Unreported(Pruned)
        PROVE  x.id \in IdsOf(Fresh)
    <3>1. x \in ring /\ ~x.reported BY DEF Unreported, Pruned
    <3> QED BY <1>2, <3>1 DEF PInv, FreshUncounted
  <2>6. ASSUME NEW e \in Fresh
        PROVE  \E x \in Unreported(Pruned) : x.id = e.id
    <3>1. PICK x \in ring : x.id = e.id /\ x.at + Delay >= cursor
      BY <1>2, <2>4 DEF PInv, FreshKept
    <3>2. ~x.reported
      <4>1. ~Counted(x.id) BY <3>1 DEF PInv, FreshUncounted
      <4> QED BY <1>2, <4>1 DEF IInv, Marks
    <3>3. x.at \in Nat /\ x.at <= clock BY <1>t DEF PublicationTypeOK, Sample, IInv, Past
    <3>4. Since(clock, x.at) <= Window BY <2>1, <2>3, <3>1, <3>3 DEF Since
    <3>5. x \in Unreported(Pruned) BY <3>2, <3>3, <3>4 DEF Unreported, Pruned
    <3> QED BY <3>1, <3>5
  <2>7. IdsOf(Unreported(Pruned)) \subseteq IdsOf(Fresh) BY <2>5 DEF IdsOf
  <2>8. IdsOf(Fresh) \subseteq IdsOf(Unreported(Pruned)) BY <2>6 DEF IdsOf
  <2> QED BY <2>7, <2>8
<1>6. offered'[1].complete => offered'[1].counted = IdsOf(Fresh) BY <1>4, <1>5
<1>7. IdsOf(Fresh)' = IdsOf(Fresh) BY <1>3 DEF IdsOf
<1> QED BY <1>6, <1>7 DEF OfferIsAll

(* The other steps of the loop while it is free: the ring is pruned. *)
LEMMA PruningKeepsPInv ==
    ASSUME WindowCovers, IInv, KInv, PInv, Maintain \/ Skip \/ Prepare
    PROVE  (Registered /\ FreshUncounted /\ FreshKept /\ OfferIsAll /\ CompleteIsAll)'
<1>1. /\ phase = "idle" /\ ring' = Pruned /\ phase' # "durable"
      /\ UNCHANGED <<clock, runId, lastLoss, cursor, durable, entered>>
  BY DEF Maintain, Skip, Prepare, timeVars, cursorVars
<1>2. (FreshUncounted /\ FreshKept)' BY <1>1, PruneKeepsFresh
<1>3. Registered' BY <1>1 DEF PInv, Registered
<1>4. CompleteIsAll' BY <1>1 DEF PInv, CompleteIsAll
<1>5. OfferIsAll'
  <2>1. CASE Prepare BY <2>1, PrepareCountsAll
  <2>2. CASE Maintain \/ Skip
    <3>1. phase' = "idle" BY <1>1, <2>2 DEF Maintain, Skip
    <3> QED BY <3>1 DEF OfferIsAll
  <2> QED BY <2>1, <2>2
<1> QED BY <1>2, <1>3, <1>4, <1>5

(* The batch made durable is the one on offer; nothing is fresh after it. *)
LEMMA AdmitKeepsPInv ==
    ASSUME IInv, KInv, PInv, Admit
    PROVE  (Registered /\ FreshUncounted /\ FreshKept /\ OfferIsAll /\ CompleteIsAll)'
<1>t. PublicationTypeOK BY DEF IInv
<1>1. /\ UNCHANGED <<runId, entered>> /\ phase = "submitting" /\ phase' = "durable"
      /\ durable' = Append(durable, offered[1])
  BY DEF Admit
<1> DEFINE n == Len(durable)
           b == offered[1]
<1>2. b \in Batch BY <1>1, <1>t, OnOfferTyped
<1>3. /\ n \in Nat /\ Len(durable') = n + 1 /\ durable'[n + 1] = b
      /\ \A i \in 1 .. n : durable'[i] = durable[i]
      /\ DOMAIN durable = 1 .. n /\ DOMAIN durable' = 1 .. n + 1
  <2>1. durable \in Seq(Batch) /\ durable' = Append(durable, b) BY <1>1, <1>t DEF PublicationTypeOK
  <2> HIDE DEF b
  <2> QED BY <2>1, <1>2
<1>4. b.run = runId BY <1>1 DEF KInv, OnOffer
<1>5. b.complete => b.counted = IdsOf(CompletedIn(runId, n))
  BY <1>1 DEF PInv, OfferIsAll, Fresh
<1>6. \A e \in entered : e.run <= runId /\ e.after <= n /\ e.after \in Nat
  BY <1>t DEF PInv, Registered, PublicationTypeOK
<1> HIDE DEF n, b
<1>7. Registered'
  <2> SUFFICES ASSUME NEW e \in entered
               PROVE  e.run <= runId /\ e.after <= n + 1 /\ e.after < n + 1
    BY <1>1, <1>3 DEF Registered
  <2> QED BY <1>3, <1>6
<1>8. Fresh' = {}
  <2>1. \A e \in entered : e.after # n + 1 BY <1>3, <1>6
  <2> QED BY <1>1, <1>3, <2>1 DEF Fresh, CompletedIn
<1>9. (FreshUncounted /\ FreshKept /\ OfferIsAll)'
  BY <1>1, <1>8 DEF FreshUncounted, FreshKept, OfferIsAll
<1>10. CompleteIsAll'
  <2> SUFFICES ASSUME NEW i \in 1 .. n + 1, durable'[i].complete
               PROVE  durable'[i].counted = IdsOf(CompletedIn(durable'[i].run, i - 1))
    BY <1>1, <1>3 DEF CompleteIsAll, CompletedIn, IdsOf
  <2>1. CASE i = n + 1
    <3>1. i - 1 = n BY <1>3, <2>1
    <3> QED BY <1>3, <1>4, <1>5, <2>1, <3>1
  <2>2. CASE i # n + 1
    <3>1. i \in 1 .. n BY <1>3, <2>2
    <3> QED BY <1>3, <3>1 DEF PInv, CompleteIsAll, CompletedIn, IdsOf
  <2> QED BY <2>1, <2>2
<1> QED BY <1>7, <1>9, <1>10

(* The commit marks the ring, which holds nothing fresh. *)
LEMMA CommitKeepsPInv ==
    ASSUME IInv, PInv, Commit
    PROVE  (Registered /\ FreshUncounted /\ FreshKept /\ OfferIsAll /\ CompleteIsAll)'
<1>t. PublicationTypeOK BY DEF IInv
<1>1. phase = "durable" /\ MovesCursor BY DEF IInv, Waiting, Commit, MovesCursor
<1>2. /\ UNCHANGED <<runId, durable, entered>> /\ phase' = "idle"
      /\ ring' = Marked(ring, prepared[1].end)
  BY <1>1 DEF Commit, Answered, RingAfter
<1>3. Fresh' = {}
  <2>1. \A e \in entered : e.after < Len(durable) BY <1>1 DEF PInv, Registered
  <2>2. \A e \in entered : e.after \in Nat BY <1>t DEF PublicationTypeOK
  <2>3. Len(durable) \in Nat BY <1>t DEF PublicationTypeOK
  <2>4. \A e \in entered : e.after # Len(durable) BY <2>1, <2>2, <2>3
  <2> QED BY <1>2, <2>4 DEF Fresh, CompletedIn
<1>4. \A y \in ring' : y.reported
  <2> SUFFICES ASSUME NEW y \in ring' PROVE y.reported OBVIOUS
  <2>1. PICK x \in ring :
          y = IF x.at <= prepared[1].end THEN [x EXCEPT !.reported = TRUE] ELSE x
    BY <1>2 DEF Marked
  <2>2. x.at <= prepared[1].end BY <1>1 DEF IInv, Waiting
  <2>3. x \in Sample BY <1>t DEF PublicationTypeOK
  <2> QED BY <2>1, <2>2, <2>3 DEF Sample
<1>5. FreshUncounted' BY <1>3, <1>4 DEF FreshUncounted
<1>6. (FreshKept /\ OfferIsAll)' BY <1>2, <1>3 DEF FreshKept, OfferIsAll
<1>7. Registered' BY <1>2 DEF PInv, Registered
<1>8. CompleteIsAll' BY <1>2 DEF PInv, CompleteIsAll
<1> QED BY <1>5, <1>6, <1>7, <1>8

(* A batch refused leaves everything as it was. *)
LEMMA RejectKeepsPInv ==
    ASSUME PInv, Reject
    PROVE  (Registered /\ FreshUncounted /\ FreshKept /\ OfferIsAll /\ CompleteIsAll)'
<1>1. /\ UNCHANGED <<clock, runId, lastLoss, ring, cursor, durable, entered>>
      /\ phase = "submitting" /\ phase' = "idle"
  BY DEF Reject, Answered, RingAfter, timeVars, cursorVars
<1>2. Fresh' = Fresh BY <1>1 DEF Fresh, CompletedIn
<1>3. \A k : Counted(k)' <=> Counted(k) BY <1>1 DEF Counted
<1>4. FreshUncounted' BY <1>1, <1>2, <1>3 DEF PInv, FreshUncounted, IdsOf
<1>5. Missed' <=> Missed BY <1>1 DEF Missed
<1>6. FreshKept' BY <1>1, <1>2, <1>5 DEF PInv, FreshKept
<1>7. (Registered /\ OfferIsAll /\ CompleteIsAll)'
  BY <1>1 DEF PInv, Registered, OfferIsAll, CompleteIsAll
<1> QED BY <1>4, <1>6, <1>7

(* A new run has completed nothing. *)
LEMMA RestartKeepsPInv ==
    ASSUME IInv, PInv, Restart
    PROVE  (Registered /\ FreshUncounted /\ FreshKept /\ OfferIsAll /\ CompleteIsAll)'
<1>t. PublicationTypeOK BY DEF IInv
<1>1. /\ runId' = runId + 1 /\ ring' = {} /\ phase' = "idle" /\ UNCHANGED <<durable, entered>>
  BY DEF Restart
<1>2. /\ \A e \in entered : e.run \in Nat /\ e.run <= runId
      /\ runId \in Nat
  BY <1>t DEF PInv, Registered, PublicationTypeOK
<1>3. \A e \in entered : e.run # runId + 1 /\ e.run <= runId + 1 BY <1>2
<1>4. Fresh' = {} BY <1>1, <1>3 DEF Fresh, CompletedIn
<1>5. (FreshUncounted /\ FreshKept /\ OfferIsAll)'
  BY <1>1, <1>4 DEF FreshUncounted, FreshKept, OfferIsAll
<1>6. Registered' BY <1>1, <1>3 DEF PInv, Registered
<1>7. CompleteIsAll' BY <1>1 DEF PInv, CompleteIsAll
<1> QED BY <1>5, <1>6, <1>7

(* A step that changes nothing. *)
LEMMA StutterKeepsPInv ==
    ASSUME PInv, UNCHANGED publicationVars
    PROVE  (Registered /\ FreshUncounted /\ FreshKept /\ OfferIsAll /\ CompleteIsAll)'
<1>1. UNCHANGED <<clock, runId, phase, lastLoss, ring, cursor, offered, durable, entered>>
  BY DEF publicationVars, timeVars, cursorVars
<1>2. Fresh' = Fresh BY <1>1 DEF Fresh, CompletedIn
<1>3. \A k : Counted(k)' <=> Counted(k) BY <1>1 DEF Counted
<1>4. FreshUncounted' BY <1>1, <1>2, <1>3 DEF PInv, FreshUncounted, IdsOf
<1>5. Missed' <=> Missed BY <1>1 DEF Missed
<1>6. FreshKept' BY <1>1, <1>2, <1>5 DEF PInv, FreshKept
<1>7. OfferIsAll' BY <1>1, <1>2 DEF PInv, OfferIsAll, IdsOf
<1>8. (Registered /\ CompleteIsAll)' BY <1>1 DEF PInv, Registered, CompleteIsAll
<1> QED BY <1>4, <1>6, <1>7, <1>8

(* Nothing is complete at first. *)
LEMMA PInvInit == PublicationInit => PInv
<1> SUFFICES ASSUME PublicationInit PROVE PInv OBVIOUS
<1>1. /\ entered = {} /\ ring = {} /\ durable = <<>> /\ phase = "idle"
      /\ cursor = clock /\ cursorWall = wall /\ stepsLeft = MaxSteps
  BY DEF PublicationInit
<1>2. clock \in Int /\ wall \in Int /\ MaxSteps \in Int
  BY PublicationAssumption DEF PublicationInit
<1>3. Paced BY <1>1, <1>2 DEF Paced, Corrections
<1>4. Fresh = {} BY <1>1 DEF Fresh, CompletedIn
<1>5. Registered /\ FreshUncounted /\ FreshKept /\ OfferIsAll /\ CompleteIsAll
  BY <1>1, <1>4 DEF Registered, FreshUncounted, FreshKept, OfferIsAll, CompleteIsAll
<1> QED BY <1>3, <1>5 DEF PInv
-----------------------------------------------------------------------------
(* If the rolling window outlasts two publication intervals, the corrections of the wall clock *)
(* and the wait in the queue, then what no batch counts yet is in the ring, or a loss the      *)
(* publication will see has been declared.                                                     *)
THEOREM IntervalInvariant == WindowCovers => (PublicationSpec => []PInv)
<1> SUFFICES ASSUME WindowCovers PROVE PublicationSpec => []PInv OBVIOUS
<1>1. ASSUME IInv, IInv', KInv, PInv, [PublicationNext]_publicationVars PROVE PInv'
  <2>1. Paced' BY <1>1, PaceKept DEF PInv
  <2>2. CASE Elapse \/ StepWall BY <1>1, <2>1, <2>2, TimeKeepsPInv DEF PInv
  <2>3. CASE Complete BY <1>1, <2>1, <2>3, CompleteKeepsPInv DEF PInv
  <2>4. CASE Maintain \/ Skip \/ Prepare BY <1>1, <2>1, <2>4, PruningKeepsPInv DEF PInv
  <2>5. CASE Admit BY <1>1, <2>1, <2>5, AdmitKeepsPInv DEF PInv
  <2>6. CASE Commit BY <1>1, <2>1, <2>6, CommitKeepsPInv DEF PInv
  <2>7. CASE Reject BY <1>1, <2>1, <2>7, RejectKeepsPInv DEF PInv
  <2>8. CASE Restart BY <1>1, <2>1, <2>8, RestartKeepsPInv DEF PInv
  <2>9. CASE UNCHANGED publicationVars BY <1>1, <2>1, <2>9, StutterKeepsPInv DEF PInv
  <2> QED BY <1>1, <2>2, <2>3, <2>4, <2>5, <2>6, <2>7, <2>8, <2>9 DEF PublicationNext
<1> QED BY <1>1, PInvInit, ChainInvariant, PTL DEF PublicationSpec

(* An interval marked complete counts exactly the cohorts that became complete since the batch *)
(* before it: outcome_interval_complete looks at one nominal interval, and the window still    *)
(* holds everything of it or the loss of what it evicted.                                      *)
THEOREM CompleteIntervalsAreWhole == WindowCovers => (PublicationSpec => []CompleteIsAll)
<1>1. PInv => CompleteIsAll BY DEF PInv
<1> QED BY <1>1, IntervalInvariant, PTL
=============================================================================
