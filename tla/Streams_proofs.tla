--------------------------- MODULE Streams_proofs ---------------------------
(***************************************************************************)
(* Theorems about the task that collects a network stream, for any         *)
(* backoff, any number of messages and of connections: its types, what it  *)
(* makes of the numbers of a service that replays, repeats and loses       *)
(* messages, and how long it waits between connections.                    *)
(*                                                                         *)
(* Three parts of its invariant are what the properties leave out: where   *)
(* the numbers read stand within those sent (Numbered), what is left of a  *)
(* replay while none of its messages was lost (Replaying), and that the    *)
(* connection the signals speak of is the one being timed (SignalTimed).   *)
(*                                                                         *)
(* About the tail of the node's fills, for any hour files and any way the  *)
(* reads cut them: what is left in its buffer is half a line (Tailing),    *)
(* and what it timed is behind it (TimedBehind) and all there was          *)
(* (Drained).                                                              *)
(*                                                                         *)
(* About the join of the mempool's two legs, for every set of bundles,     *)
(* deadline, memory and queue and any number of copies: a bundle is        *)
(* emitted again only after its memory ran out, and its first emission     *)
(* carries of each leg the first copy it read.  What is remembered settles *)
(* the first (Spacing).  The second follows a first copy through the three *)
(* places where it can be: the entry, the queue, and the hand of its       *)
(* reader (Following).                                                     *)
(*                                                                         *)
(* And about a process that chooses its tasks: what is proved of a task by *)
(* itself holds there.  A behaviour of Streams is one of the task that     *)
(* runs, and of the tap, of the join, of the tail, of the task that        *)
(* collects a network stream, of its reading of messages and of the        *)
(* reading of proposals in any case, for they are none of the others'      *)
(* business.                                                               *)
(***************************************************************************)
EXTENDS Streams, Peering_proofs, TapStream_proofs, Content_proofs

(* A task that collects a network stream. *)

\* The messages of a connection that are behind it: all before the first it is sent, at first.
Reached == IF lastSeq = 0 THEN sendStart - 1 ELSE lastSeq

Numbered ==
    /\ produced \in 0 .. Messages /\ sendStart \in Nat \ {0} /\ sendFrom \in Nat
    /\ sendStart <= sendFrom /\ sendFrom <= produced + 1
    /\ lastSeq < sendFrom /\ missing \in Nat
    /\ accepted \in SUBSET (sendStart .. lastSeq) /\ scored \in SUBSET accepted
    /\ IF lastSeq = 0 THEN missing = 0 ELSE lastSeq \in accepted
    /\ CollectorSeqAccounted

\* The count of a replay is never below what may still come of it, and exact until a message
\* of it fails to come once and legible.
Replaying ==
    /\ replayEnd \in 0 .. produced /\ replayFault \in BOOLEAN /\ announce \in BOOLEAN
    /\ announce => lastSeq = 0 /\ replayEnd = 0 /\ replayLeft = 0 /\ sendFrom = sendStart
                   /\ ~replayFault
    /\ replayLeft + Reached >= replayEnd
    /\ ~replayFault /\ sendFrom > replayEnd => replayLeft = 0
    /\ ~announce /\ ~replayFault /\ sendFrom <= replayEnd + 1 =>
        replayLeft = replayEnd + 1 - sendFrom /\ Reached = sendFrom - 1
    /\ CollectorScoresLive

\* The duration the task reads from the signals is that of its own connection.
SignalTimed ==
    /\ signal \in [up : BOOLEAN, generation : Nat, since : {NotUp} \cup Nat] /\ generation \in Nat
    /\ phase \in {"connecting", "open"} => signal.generation = generation
    /\ phase # "up" => upSince = NotUp
    /\ phase = "up" => upSince \in Nat /\ upSince = signal.since /\ signal.generation # generation

\* The wait was taken from the backoff, which has since doubled.
Doubling ==
    /\ shortRuns \in Nat \cup {-1}
    /\ backoff = MinOf(InitialBackoff * 2 ^ (shortRuns + 1), MaxBackoff)
    /\ CollectorBackoffGrows

CollectorInv == CollectorTypeOK /\ Numbered /\ Replaying /\ SignalTimed /\ Doubling
-----------------------------------------------------------------------------
(* The subsets of a set with one element more: half of them have the element. *)
LEMMA SubsetsDouble ==
    ASSUME NEW S, NEW e, e \notin S, IsFiniteSet(S)
    PROVE  Cardinality(SUBSET (S \cup {e})) = 2 * Cardinality(SUBSET S)
<1> DEFINE Lacking == SUBSET S
           Having == {T \cup {e} : T \in Lacking}
<1>1. \A U : U \in Having <=> \E T \in Lacking : U = T \cup {e} OBVIOUS
<1>2. \A T \in Lacking : e \notin T OBVIOUS
<1>3. \A T, U \in Lacking : T \cup {e} = U \cup {e} => T = U
  <2> TAKE T, U \in Lacking
  <2> HAVE T \cup {e} = U \cup {e}
  <2>1. \A x : x \in T <=> x \in U BY <1>2
  <2> QED BY <2>1
<1>4. SUBSET (S \cup {e}) = Lacking \cup Having
  <2>1. ASSUME NEW U \in SUBSET (S \cup {e}), e \in U PROVE U \in Having
    <3>1. U \ {e} \in Lacking BY <2>1
    <3>2. U = (U \ {e}) \cup {e} BY <2>1
    <3> QED BY <1>1, <3>1, <3>2, Zenon
  <2>2. ASSUME NEW U \in SUBSET (S \cup {e}), e \notin U PROVE U \in Lacking BY <2>2
  <2>3. ASSUME NEW U \in Having PROVE U \in SUBSET (S \cup {e})
    <3>1. PICK T \in Lacking : U = T \cup {e} BY <1>1
    <3> QED BY <3>1
  <2>4. \A U \in Lacking : U \in SUBSET (S \cup {e}) OBVIOUS
  <2> DEFINE All == SUBSET (S \cup {e})
  <2> HIDE DEF Lacking, Having, All
  <2>5. \A U : U \in All <=> U \in Lacking \cup Having BY <2>1, <2>2, <2>3, <2>4 DEF All
  <2>6. All = Lacking \cup Having BY <2>5
  <2> QED BY <2>6 DEF All
<1> HIDE DEF Having, Lacking
<1>5. Lacking \cap Having = {} BY <1>1, <1>2
<1>6. IsFiniteSet(Lacking) BY FS_SUBSET DEF Lacking
<1>7. ExistsBijection(Lacking, Having)
  <2> DEFINE f == [T \in Lacking |-> T \cup {e}]
  <2>1. f \in [Lacking -> Having] BY <1>1
  <2>2. \A T, U \in Lacking : f[T] = f[U] => T = U BY <1>3
  <2>3. \A W \in Having : \E T \in Lacking : f[T] = W BY <1>1
  <2> HIDE DEF f
  <2>4. f \in Bijection(Lacking, Having)
    BY <2>1, <2>2, <2>3 DEF Bijection, Injection, Surjection, IsInjective
  <2> QED BY <2>4 DEF ExistsBijection
<1>8. IsFiniteSet(Having) /\ Cardinality(Having) = Cardinality(Lacking) BY <1>6, <1>7, FS_Bijection
<1>9. Cardinality(Lacking \cup Having) =
            Cardinality(Lacking) + Cardinality(Having) - Cardinality(Lacking \cap Having)
  BY <1>6, <1>8, FS_Union
<1>10. Cardinality(Lacking \cap Having) = 0 BY <1>5, FS_EmptySet, Zenon
<1>11. Cardinality(Lacking) \in Nat BY <1>6, FS_CardinalityType
<1>12. Cardinality(Lacking \cup Having) = 2 * Cardinality(Lacking)
  <2>1. Cardinality(Lacking \cup Having) =
            Cardinality(Lacking) + Cardinality(Lacking) - Cardinality(Lacking \cap Having)
    BY <1>8, <1>9
  <2> QED BY <2>1, <1>10, <1>11
<1> QED BY <1>4, <1>12 DEF Lacking

(* Powers of two double, as the library counts subsets. *)
LEMMA PowersDouble ==
    ASSUME NEW n \in Nat
    PROVE  2 ^ n \in Nat /\ 2 ^ (n + 1) = 2 * 2 ^ n
<1>1. /\ IsFiniteSet(1 .. n) /\ Cardinality(1 .. n) = n
      /\ IsFiniteSet(1 .. n + 1) /\ Cardinality(1 .. n + 1) = n + 1
  <2>1. \A m \in Nat : IsFiniteSet(1 .. m) /\ Cardinality(1 .. m) = IF 1 > m THEN 0 ELSE m - 1 + 1
    BY FS_Interval
  <2>2. \A m \in Nat : IsFiniteSet(1 .. m) /\ Cardinality(1 .. m) = m BY <2>1
  <2> QED BY <2>2
<1>2. /\ Cardinality(SUBSET (1 .. n)) = 2 ^ Cardinality(1 .. n)
      /\ IsFiniteSet(SUBSET (1 .. n))
  BY <1>1, FS_SUBSET
<1>3. Cardinality(SUBSET (1 .. n + 1)) = 2 ^ Cardinality(1 .. n + 1)
  BY <1>1, FS_SUBSET
<1>4. Cardinality(SUBSET (1 .. n)) \in Nat BY <1>2, FS_CardinalityType
<1>5. 1 .. n + 1 = (1 .. n) \cup {n + 1} /\ n + 1 \notin 1 .. n OBVIOUS
<1>6. Cardinality(SUBSET ((1 .. n) \cup {n + 1})) = 2 * Cardinality(SUBSET (1 .. n))
  BY <1>1, <1>5, SubsetsDouble
<1>7. Cardinality(SUBSET (1 .. n)) = 2 ^ n BY <1>1, <1>2
<1>8. Cardinality(SUBSET (1 .. n + 1)) = 2 ^ (n + 1) BY <1>1, <1>3
<1> QED BY <1>4, <1>5, <1>6, <1>7, <1>8
-----------------------------------------------------------------------------
(* The wait. *)

\* A wait is the backoff, or the first one again after a connection that lasted.
LEMMA WaitDoubles ==
    ASSUME CollectorInv, Wait, phase # "waiting"
    PROVE  SignalTimed' /\ Doubling' /\ backoff' \in InitialBackoff .. MaxBackoff
<1>1. /\ phase' = "waiting" /\ signal' = [signal EXCEPT !.up = FALSE]
      /\ backoff' = MinOf(2 * BackoffNow, MaxBackoff) /\ pause' = BackoffNow
      /\ shortRuns' = (IF upSince # NotUp /\ clock - upSince >= Healthy THEN 0 ELSE shortRuns + 1)
      /\ upSince' = NotUp /\ generation' = generation
  BY DEF Wait
<1>2. CollectorTypeOK /\ SignalTimed /\ Doubling BY DEF CollectorInv
<1>3. /\ InitialBackoff \in Nat \ {0} /\ MaxBackoff \in Nat /\ InitialBackoff <= MaxBackoff
      /\ Healthy \in Nat \ {0} /\ clock \in Nat
  BY <1>2, CollectorAssumption DEF CollectorTypeOK
<1>4. (ConnectionDuration >= Healthy) <=> (upSince # NotUp /\ clock - upSince >= Healthy)
  <2>1. CASE phase = "up"
    BY <2>1, <1>2, <1>3 DEF SignalTimed, ConnectionDuration, NotUp
  <2>2. CASE phase # "up"
    <3>1. phase \in {"connecting", "open"} BY <2>2, <1>2 DEF CollectorTypeOK
    <3> QED BY <2>2, <3>1, <1>2, <1>3 DEF SignalTimed, ConnectionDuration
  <2> QED BY <2>1, <2>2
<1> DEFINE D(n) == InitialBackoff * 2 ^ n
<1>5. \A n \in Nat : D(n) \in Nat /\ D(n + 1) = 2 * D(n)
  <2> TAKE n \in Nat
  <2>1. 2 ^ n \in Nat /\ 2 ^ (n + 1) = 2 * 2 ^ n BY PowersDouble
  <2> DEFINE x == 2 ^ n
             y == 2 ^ (n + 1)
  <2>2. x \in Nat /\ y = 2 * x BY <2>1
  <2> HIDE DEF x, y
  <2>3. InitialBackoff * x \in Nat /\ InitialBackoff * y = 2 * (InitialBackoff * x)
    BY <2>2, <1>3
  <2> QED BY <2>3 DEF x, y
<1>6. D(0) = InitialBackoff
  <2>1. 2 ^ 0 = 1 BY SMT
  <2>2. D(0) = InitialBackoff * 1 BY <2>1
  <2> QED BY <2>2, <1>3
<1>7. /\ shortRuns + 1 \in Nat /\ backoff = MinOf(D(shortRuns + 1), MaxBackoff)
      /\ shortRuns' \in Nat
  BY <1>1, <1>2 DEF Doubling
<1> HIDE DEF D
<1>8. BackoffNow = MinOf(D(shortRuns'), MaxBackoff)
  <2>1. CASE ConnectionDuration >= Healthy
    BY <2>1, <1>1, <1>3, <1>4, <1>6 DEF BackoffNow, MinOf
  <2>2. CASE ~(ConnectionDuration >= Healthy)
    BY <2>2, <1>1, <1>4, <1>7 DEF BackoffNow
  <2> QED BY <2>1, <2>2
<1>9. backoff' = MinOf(D(shortRuns' + 1), MaxBackoff)
  <2>1. D(shortRuns') \in Nat /\ D(shortRuns' + 1) = 2 * D(shortRuns') BY <1>5, <1>7
  <2> QED BY <2>1, <1>1, <1>3, <1>8 DEF MinOf
<1>10. Doubling'
  <2>1. pause' = MinOf(D(IF shortRuns' < 0 THEN 0 ELSE shortRuns'), MaxBackoff)
    <3>1. (IF shortRuns' < 0 THEN 0 ELSE shortRuns') = shortRuns' BY <1>7
    <3> QED BY <1>1, <1>8, <3>1
  <2> QED BY <1>7, <1>9, <2>1 DEF Doubling, CollectorBackoffGrows, D
<1>11. backoff' \in InitialBackoff .. MaxBackoff
  <2>1. backoff \in InitialBackoff .. MaxBackoff BY <1>2 DEF CollectorTypeOK
  <2> QED BY <2>1, <1>1, <1>3 DEF BackoffNow, MinOf
<1>12. SignalTimed'
  <2>1. signal' \in [up : BOOLEAN, generation : Nat, since : {NotUp} \cup Nat]
    BY <1>1, <1>2 DEF SignalTimed
  <2> QED BY <1>1, <1>2, <2>1 DEF SignalTimed
<1> QED BY <1>10, <1>11, <1>12

(* A step that touches none of the numbers keeps what is known of them. *)
LEMMA NumbersStay ==
    ASSUME CollectorInv, UNCHANGED <<serviceVars, lastSeq, replayLeft, seqHistory>>
    PROVE  Numbered' /\ Replaying'
<1>1. /\ produced' = produced /\ sendStart' = sendStart /\ sendFrom' = sendFrom
      /\ announce' = announce /\ lastSeq' = lastSeq /\ replayLeft' = replayLeft
      /\ replayEnd' = replayEnd /\ accepted' = accepted /\ scored' = scored
      /\ missing' = missing /\ replayFault' = replayFault
  BY DEF serviceVars, seqHistory
<1> QED BY <1>1 DEF CollectorInv, Numbered, Replaying, Reached, CollectorSeqAccounted, CollectorScoresLive

\* However the connection ends.
LEMMA WaitKeepsCollector ==
    ASSUME CollectorInv, Wait, phase # "waiting", cursor' \in {0, cursor},
           UNCHANGED <<frames, serviceVars, lastSeq, replayLeft, seqHistory>>
    PROVE  CollectorInv'
<1>1. Numbered' /\ Replaying' BY NumbersStay
<1>2. SignalTimed' /\ Doubling' /\ backoff' \in InitialBackoff .. MaxBackoff BY WaitDoubles
<1>3. CollectorTypeOK'
  <2>1. /\ phase' = "waiting" /\ signal' = [signal EXCEPT !.up = FALSE] /\ clock' = clock
        /\ source' = source /\ attempt' = attempt
    BY DEF Wait
  <2>2. produced' = produced /\ lastSeq' = lastSeq /\ replayLeft' = replayLeft
    BY DEF serviceVars
  <2>3. signal'.up = FALSE BY <2>1 DEF CollectorInv, SignalTimed
  <2>4. produced \in Nat BY CollectorAssumption DEF CollectorInv, Numbered
  <2> QED BY <1>2, <2>1, <2>2, <2>3, <2>4 DEF CollectorInv, CollectorTypeOK
<1> QED BY <1>1, <1>2, <1>3 DEF CollectorInv
-----------------------------------------------------------------------------
(* The numbers. *)

\* A message with the next number, or after a hole, or of the replay.
LEMMA FrameKeepsCollector ==
    ASSUME CollectorInv, NEW seq \in 1 .. produced, ReadFrame(seq)
    PROVE  CollectorInv'
<1>t. /\ CollectorTypeOK /\ Numbered /\ Replaying
      /\ produced \in Nat /\ sendStart \in Nat \ {0} /\ sendFrom \in Nat /\ lastSeq \in Nat
      /\ replayLeft \in Nat /\ replayEnd \in Nat /\ missing \in Nat /\ seq \in Nat /\ Messages \in Nat
      /\ produced <= Messages
  BY CollectorAssumption DEF CollectorInv, CollectorTypeOK, Numbered, Replaying
<1>1. /\ ~announce /\ seq >= sendStart /\ seq <= produced
      /\ sendFrom' = IF seq < sendFrom THEN sendFrom ELSE seq + 1
      /\ clock' = clock /\ source' = source /\ produced' = produced /\ sendStart' = sendStart
      /\ announce' = announce /\ replayEnd' = replayEnd
      /\ phase' = phase /\ attempt' = attempt /\ generation' = generation /\ backoff' = backoff
      /\ signal' = signal /\ upSince' = upSince /\ shortRuns' = shortRuns /\ pause' = pause
  BY <1>t DEF ReadFrame, taskVars, waitHistory
<1>f. /\ replayFault' \in BOOLEAN
      /\ ~replayFault' => ~replayFault
      /\ ~replayFault' /\ sendFrom <= replayEnd /\ sendFrom <= seq =>
            seq = sendFrom /\ seq = lastSeq'
  <2>1. replayFault' = (replayFault \/ (sendFrom <= replayEnd /\ sendFrom <= seq
                                            /\ ~(seq = sendFrom /\ seq = lastSeq')))
    BY DEF ReadFrame
  <2> QED BY <2>1
<1>2. SignalTimed' /\ Doubling'
  BY <1>1 DEF CollectorInv, SignalTimed, Doubling, CollectorBackoffGrows
<1>3. sendFrom' \in Nat /\ sendStart <= sendFrom' /\ sendFrom' <= produced + 1 /\ sendFrom <= sendFrom'
  BY <1>1, <1>t DEF Numbered
<1>4. CASE Accept(seq) /\ seq > lastSeq
  <2>1. /\ lastSeq' = seq /\ missing' = missing + MissingBefore(seq)
        /\ accepted' = accepted \cup {seq} /\ cursor' = seq
        /\ IF replayLeft > 0 THEN replayLeft' = replayLeft - 1 /\ scored' = scored
                             ELSE replayLeft' = replayLeft /\ scored' = scored \cup {seq}
    BY <1>4 DEF Accept, IsReplayed
  <2>2. accepted \in SUBSET (sendStart .. lastSeq) /\ scored \in SUBSET accepted
    BY <1>t DEF Numbered
  <2>3. accepted' \in SUBSET (sendStart .. lastSeq') /\ scored' \in SUBSET accepted'
    <3>1. \A s \in accepted : s \in sendStart .. seq BY <1>4, <1>t, <2>2
    <3>2. seq \in sendStart .. seq BY <1>1, <1>t
    <3> QED BY <2>1, <2>2, <3>1, <3>2
  <2>4. CollectorSeqAccounted' /\ missing' \in Nat
    <3>1. IsFiniteSet(accepted) /\ seq \notin accepted
      <4>1. IsFiniteSet(sendStart .. lastSeq) BY <1>t, FS_Interval
      <4>2. IsFiniteSet(accepted) BY <4>1, <2>2, FS_Subset
      <4> QED BY <4>2, <2>2, <1>4, <1>t
    <3>2. Cardinality(accepted') = Cardinality(accepted) + 1 /\ Cardinality(accepted) \in Nat
      BY <2>1, <3>1, FS_AddElement, FS_CardinalityType
    <3>3. CASE lastSeq = 0
      <4>1. accepted = {} /\ missing' = missing
        BY <2>1, <2>2, <3>3, <1>t DEF MissingBefore
      <4>2. accepted' = {seq} /\ Cardinality(accepted') = 1
        <5>1. accepted' = {seq} BY <2>1, <4>1
        <5>2. Cardinality({seq}) = 1 BY FS_Singleton
        <5> QED BY <5>1, <5>2, Zenon
      <4>3. missing = 0
        BY <4>1, <1>t DEF Numbered
      <4> QED BY <2>1, <4>1, <4>2, <4>3, <1>t DEF CollectorSeqAccounted
    <3>4. CASE lastSeq # 0
      <4>1. lastSeq \in accepted BY <3>4, <1>t DEF Numbered
      <4>2. PICK first \in accepted :
                /\ \A s \in accepted : first <= s
                /\ Cardinality(accepted) + missing = lastSeq - first + 1
        BY <4>1, <1>t DEF Numbered, CollectorSeqAccounted
      <4>3. first \in Nat /\ first <= lastSeq BY <2>2, <1>t
      <4>4. missing' = missing + (seq - (lastSeq + 1)) BY <2>1, <3>4 DEF MissingBefore
      <4>5. Cardinality(accepted') + missing' = lastSeq' - first + 1
        BY <2>1, <3>2, <4>2, <4>3, <4>4, <1>t
      <4>6. first \in accepted' /\ \A s \in accepted' : first <= s
        BY <2>1, <4>2, <4>3, <1>4, <1>t
      <4>7. missing' \in Nat BY <4>4, <1>4, <1>t
      <4> QED BY <4>5, <4>6, <4>7 DEF CollectorSeqAccounted
    <3> QED BY <3>3, <3>4
  <2>5. Numbered'
    <3>1. lastSeq' < sendFrom' BY <1>1, <1>t, <2>1
    <3>2. lastSeq' \in accepted' BY <2>1
    <3> QED BY <1>1, <1>3, <1>t, <2>3, <2>4, <3>1, <3>2 DEF Numbered
  <2>6. replayLeft' \in Nat /\ replayLeft' <= replayLeft BY <2>1, <1>t
  <2>7. Reached' = seq /\ Reached \in Nat /\ Reached < seq /\ Reached < sendFrom
    BY <1>1, <1>4, <2>1, <1>t DEF Reached, Numbered
  <2>8. replayLeft' + Reached' >= replayEnd
    BY <2>1, <2>7, <1>t DEF Replaying
  <2>9. ASSUME ~replayFault', sendFrom <= replayEnd
        PROVE  /\ seq = sendFrom /\ replayLeft = replayEnd + 1 - sendFrom /\ replayLeft > 0
               /\ replayLeft' = replayLeft - 1 /\ sendFrom' = sendFrom + 1
    <3>1. ~replayFault BY <1>f, <2>9
    <3>2. replayLeft = replayEnd + 1 - sendFrom /\ Reached = sendFrom - 1
      BY <3>1, <1>1, <1>t, <2>9 DEF Replaying
    <3>3. seq >= sendFrom BY <2>7, <3>2, <1>t
    <3>4. seq = sendFrom BY <1>f, <2>9, <3>3, <1>t
    <3> QED BY <1>1, <2>1, <2>9, <3>2, <3>4, <1>t
  <2>10. ~replayFault' /\ sendFrom' > replayEnd => replayLeft' = 0
    <3>1. CASE sendFrom <= replayEnd BY <3>1, <2>9, <1>t
    <3>2. CASE sendFrom > replayEnd
      <4>1. ~replayFault' => replayLeft = 0 BY <1>f, <3>2, <1>t DEF Replaying
      <4> QED BY <4>1, <2>1, <1>t
    <3> QED BY <3>1, <3>2, <1>t
  <2>11. ~replayFault' /\ sendFrom' <= replayEnd + 1 =>
            replayLeft' = replayEnd + 1 - sendFrom' /\ Reached' = sendFrom' - 1
    <3>1. CASE sendFrom <= replayEnd BY <3>1, <2>7, <2>9, <1>t
    <3>2. CASE sendFrom > replayEnd
      <4> SUFFICES ASSUME ~replayFault', sendFrom' <= replayEnd + 1 PROVE FALSE OBVIOUS
      <4>1. ~replayFault BY <1>f
      <4>m. sendFrom = replayEnd + 1 BY <1>3, <3>2, <1>t
      <4>2. Reached = sendFrom - 1 BY <4>1, <4>m, <1>1, <1>t DEF Replaying
      <4>3. seq >= sendFrom BY <4>2, <2>7, <1>t
      <4> QED BY <4>m, <4>3, <1>1, <1>t
    <3> QED BY <3>1, <3>2, <1>t
  <2>12. CollectorScoresLive'
    <3> SUFFICES ASSUME NEW s \in accepted'
                 PROVE  /\ s <= replayEnd => s \notin scored'
                        /\ s > replayEnd /\ ~replayFault' => s \in scored'
      BY <1>1 DEF CollectorScoresLive
    <3>1. CASE s # seq
      <4>1. s \in accepted /\ (s \in scored' <=> s \in scored) BY <2>1, <3>1
      <4> QED BY <4>1, <1>f, <1>t DEF Replaying, CollectorScoresLive
    <3>2. CASE s = seq
      <4>1. seq \notin scored BY <2>2, <1>4, <1>t
      <4>2. seq <= replayEnd => replayLeft > 0
        BY <2>7, <1>t DEF Replaying
      <4>3. seq > replayEnd /\ ~replayFault' => replayLeft = 0
        <5>1. sendFrom > replayEnd /\ ~replayFault => replayLeft = 0 BY <1>t DEF Replaying
        <5>2. ~replayFault' => ~replayFault BY <1>f
        <5>3. seq > replayEnd /\ ~replayFault' => sendFrom > replayEnd BY <2>9, <1>t
        <5> QED BY <5>1, <5>2, <5>3
      <4>4. replayLeft > 0 => scored' = scored BY <2>1
      <4>5. replayLeft = 0 => seq \in scored' BY <2>1
      <4> QED BY <3>2, <4>1, <4>2, <4>3, <4>4, <4>5
    <3> QED BY <3>1, <3>2
  <2>13. Replaying' BY <1>1, <1>f, <1>t, <2>8, <2>10, <2>11, <2>12 DEF Replaying
  <2>14. CollectorTypeOK'
    BY <1>1, <1>t, <2>1, <2>6 DEF CollectorTypeOK
  <2> QED BY <1>2, <2>5, <2>13, <2>14 DEF CollectorInv
<1>5. CASE UNCHANGED <<cursor, lastSeq, replayLeft, accepted, scored, missing>>
  <2>1. /\ cursor' = cursor /\ lastSeq' = lastSeq /\ replayLeft' = replayLeft
        /\ accepted' = accepted /\ scored' = scored /\ missing' = missing
    BY <1>5
  <2>2. Numbered'
    BY <1>1, <1>3, <2>1, <1>t DEF Numbered, CollectorSeqAccounted
  <2>3. Reached' = Reached BY <1>1, <2>1 DEF Reached
  <2>4. ASSUME ~replayFault', sendFrom <= replayEnd
        PROVE  sendFrom' = sendFrom
    <3>1. lastSeq' < sendFrom BY <2>1, <1>t DEF Numbered
    <3>2. ~(sendFrom <= seq) BY <2>4, <3>1, <1>f, <1>t
    <3> QED BY <3>2, <1>1, <1>t
  <2>5. ~replayFault' => ~replayFault BY <1>f
  <2>6. ~replayFault' /\ sendFrom' > replayEnd => replayLeft' = 0
    BY <2>1, <2>4, <2>5, <1>t DEF Replaying
  <2>7. ~replayFault' /\ sendFrom' <= replayEnd + 1 =>
            replayLeft' = replayEnd + 1 - sendFrom' /\ Reached' = sendFrom' - 1
    <3> SUFFICES ASSUME ~replayFault', sendFrom' <= replayEnd + 1
                 PROVE  sendFrom' = sendFrom
      BY <1>1, <1>3, <2>1, <2>3, <2>5, <1>t DEF Replaying
    <3>1. CASE sendFrom <= replayEnd BY <3>1, <2>4
    <3>2. CASE sendFrom > replayEnd BY <3>2, <1>3, <1>t
    <3> QED BY <3>1, <3>2, <1>t
  <2>8. CollectorScoresLive'
    BY <1>1, <2>1, <2>5, <1>t DEF Replaying, CollectorScoresLive
  <2>9. Replaying' BY <1>1, <1>f, <1>t, <2>1, <2>3, <2>6, <2>7, <2>8 DEF Replaying
  <2>10. CollectorTypeOK' BY <1>1, <1>t, <2>1 DEF CollectorTypeOK
  <2> QED BY <1>2, <2>2, <2>9, <2>10 DEF CollectorInv
<1> QED BY <1>4, <1>5 DEF ReadFrame

\* A new connection starts from the cursor or from the present, with nothing read of it.
LEMMA ConnectKeepsCollector ==
    ASSUME CollectorInv, Connect
    PROVE  CollectorInv'
<1>t. /\ CollectorTypeOK /\ Numbered /\ SignalTimed /\ Doubling
      /\ produced \in Nat /\ cursor \in 0 .. produced /\ clock \in Nat /\ Messages \in Nat
  BY CollectorAssumption DEF CollectorInv, CollectorTypeOK, Numbered
<1>1. /\ phase = "connecting"
      /\ IF source = "plain" THEN phase' = "up" /\ Connected
                             ELSE phase' = "open" /\ signal' = signal /\ upSince' = upSince
      /\ sendStart' = (IF cursor > 0 THEN cursor ELSE produced) + 1
      /\ sendFrom' = sendStart' /\ announce' = (cursor > 0)
      /\ lastSeq' = 0 /\ replayLeft' = 0 /\ replayEnd' = 0 /\ accepted' = {} /\ scored' = {}
      /\ missing' = 0 /\ replayFault' = FALSE
      /\ clock' = clock /\ source' = source /\ attempt' = attempt /\ generation' = generation
      /\ backoff' = backoff /\ produced' = produced /\ cursor' = cursor
      /\ shortRuns' = shortRuns /\ pause' = pause
  BY DEF Connect
<1>2. sendStart' \in Nat \ {0} /\ sendStart' <= produced + 1 BY <1>1, <1>t
<1>3. Numbered'
  BY <1>1, <1>2, <1>t DEF Numbered, CollectorSeqAccounted
<1>4. Replaying'
  <2>1. Reached' = sendStart' - 1 BY <1>1 DEF Reached
  <2>2. CollectorScoresLive' BY <1>1 DEF CollectorScoresLive
  <2>3. announce' \in BOOLEAN /\ replayFault' \in BOOLEAN /\ ~replayFault'
    <3>1. announce' = (cursor > 0) /\ replayFault' = FALSE BY DEF Connect
    <3>2. (cursor > 0) \in BOOLEAN OBVIOUS
    <3> QED BY <3>1, <3>2, Zenon
  <2>4. replayEnd' \in 0 .. produced' /\ replayLeft' + Reached' >= replayEnd'
    BY <1>1, <1>2, <1>t, <2>1
  <2>5. ~announce' /\ sendFrom' <= replayEnd' + 1 =>
            replayLeft' = replayEnd' + 1 - sendFrom' /\ Reached' = sendFrom' - 1
    BY <1>1, <1>2, <2>1
  <2> QED BY <1>1, <2>2, <2>3, <2>4, <2>5 DEF Replaying
<1>5. Doubling' BY <1>1, <1>t DEF Doubling, CollectorBackoffGrows
<1>6. SignalTimed' /\ (signal'.up <=> phase' = "up") /\ phase' \in {"open", "up"}
  <2>1. CASE source = "plain"
    <3>1. /\ phase' = "up" /\ upSince' = clock
          /\ signal' = [up |-> TRUE, generation |-> signal.generation + 1, since |-> clock]
      BY <1>1, <2>1 DEF Connected
    <3>2. signal.generation \in Nat /\ generation \in Nat /\ signal.generation = generation
      BY <1>1, <1>t DEF SignalTimed
    <3>3. /\ signal' \in [up : BOOLEAN, generation : Nat, since : {NotUp} \cup Nat]
          /\ signal'.up /\ signal'.generation = signal.generation + 1 /\ signal'.since = clock
      BY <3>1, <3>2, <1>t
    <3> QED BY <1>1, <1>t, <3>1, <3>2, <3>3 DEF SignalTimed
  <2>2. CASE source # "plain" BY <1>1, <1>t, <2>2 DEF SignalTimed, CollectorTypeOK
  <2> QED BY <2>1, <2>2
<1>7. CollectorTypeOK' BY <1>1, <1>6, <1>t DEF CollectorTypeOK
<1> QED BY <1>3, <1>4, <1>5, <1>6, <1>7 DEF CollectorInv

(* A confirmed subscription keeps the invariant. *)
LEMMA ConfirmKeepsCollector ==
    ASSUME CollectorInv, Confirm
    PROVE  CollectorInv'
<1>1. /\ phase = "open" /\ phase' = "up" /\ upSince' = clock
      /\ signal' = [up |-> TRUE, generation |-> signal.generation + 1, since |-> clock]
      /\ UNCHANGED <<serviceVars, lastSeq, replayLeft, seqHistory>>
      /\ clock' = clock /\ source' = source /\ attempt' = attempt /\ generation' = generation
      /\ backoff' = backoff /\ shortRuns' = shortRuns /\ pause' = pause /\ cursor' = cursor
  BY DEF Confirm, Connected, replayVars
<1>2. Numbered' /\ Replaying' BY <1>1, NumbersStay
<1>3. Doubling' BY <1>1 DEF CollectorInv, Doubling, CollectorBackoffGrows
<1>4. /\ signal.generation \in Nat /\ generation \in Nat /\ signal.generation = generation
      /\ clock \in Nat
  BY <1>1, CollectorAssumption DEF CollectorInv, SignalTimed, CollectorTypeOK
<1>5. /\ signal' \in [up : BOOLEAN, generation : Nat, since : {NotUp} \cup Nat]
      /\ signal'.up /\ signal'.generation = signal.generation + 1 /\ signal'.since = clock
  BY <1>1, <1>4
<1>6. SignalTimed' BY <1>1, <1>4, <1>5 DEF SignalTimed
<1>7. CollectorTypeOK' BY <1>1, <1>5 DEF CollectorInv, CollectorTypeOK, serviceVars
<1> QED BY <1>2, <1>3, <1>6, <1>7 DEF CollectorInv

\* The announcement counts what is still to come.
LEMMA AnnounceKeepsCollector ==
    ASSUME CollectorInv, AnnounceReplay
    PROVE  CollectorInv'
<1>t. /\ CollectorTypeOK /\ Numbered /\ Replaying
      /\ produced \in Nat /\ sendStart \in Nat \ {0} /\ sendFrom \in Nat /\ Messages \in Nat
      /\ produced <= Messages
  BY CollectorAssumption DEF CollectorInv, CollectorTypeOK, Numbered
<1>1. /\ announce /\ replayLeft' = produced + 1 - sendFrom /\ cursor' \in {cursor, produced}
      /\ announce' = FALSE /\ replayEnd' = produced
      /\ clock' = clock /\ source' = source /\ produced' = produced /\ sendStart' = sendStart
      /\ sendFrom' = sendFrom /\ lastSeq' = lastSeq /\ accepted' = accepted /\ scored' = scored
      /\ missing' = missing /\ replayFault' = replayFault
      /\ phase' = phase /\ attempt' = attempt /\ generation' = generation /\ backoff' = backoff
      /\ signal' = signal /\ upSince' = upSince /\ shortRuns' = shortRuns /\ pause' = pause
  BY DEF AnnounceReplay, taskVars, waitHistory
<1>2. SignalTimed' /\ Doubling' BY <1>1 DEF CollectorInv, SignalTimed, Doubling, CollectorBackoffGrows
<1>3. Numbered' BY <1>1, <1>t DEF Numbered, CollectorSeqAccounted
<1>4. lastSeq = 0 /\ sendFrom = sendStart /\ ~replayFault BY <1>1, <1>t DEF Replaying
<1>5. accepted = {} BY <1>4, <1>t DEF Numbered
<1>6. Reached' = sendStart - 1 BY <1>1, <1>4 DEF Reached
<1>7. replayLeft' \in 0 .. Messages BY <1>1, <1>t DEF Numbered
<1>8. Replaying'
  <2>1. CollectorScoresLive' BY <1>1, <1>5 DEF CollectorScoresLive
  <2>2. replayLeft' + Reached' >= replayEnd' /\ replayEnd' \in 0 .. produced'
    BY <1>1, <1>4, <1>6, <1>t
  <2>3. sendFrom' > replayEnd' => replayLeft' = 0 BY <1>1, <1>t DEF Numbered
  <2>4. replayLeft' = replayEnd' + 1 - sendFrom' /\ Reached' = sendFrom' - 1
    BY <1>1, <1>4, <1>6
  <2>5. ~announce' /\ announce' \in BOOLEAN /\ replayFault' \in BOOLEAN
    BY <1>1, <1>t DEF Replaying
  <2> QED BY <2>1, <2>2, <2>3, <2>4, <2>5 DEF Replaying
<1>9. CollectorTypeOK' BY <1>1, <1>7, <1>t DEF CollectorTypeOK
<1> QED BY <1>2, <1>3, <1>8, <1>9 DEF CollectorInv

(* So does the service, when it has one message more, *)
LEMMA ProduceKeepsCollector ==
    ASSUME CollectorInv, Produce
    PROVE  CollectorInv'
<1>t. /\ CollectorTypeOK /\ Numbered /\ Replaying
      /\ produced \in Nat /\ Messages \in Nat
  BY CollectorAssumption DEF CollectorInv, CollectorTypeOK, Numbered
<1>1. /\ produced < Messages /\ produced' = produced + 1
      /\ clock' = clock /\ source' = source /\ sendStart' = sendStart
      /\ sendFrom' = sendFrom /\ announce' = announce /\ lastSeq' = lastSeq
      /\ replayLeft' = replayLeft /\ cursor' = cursor
      /\ replayEnd' = replayEnd /\ accepted' = accepted /\ scored' = scored
      /\ missing' = missing /\ replayFault' = replayFault
      /\ phase' = phase /\ attempt' = attempt /\ generation' = generation /\ backoff' = backoff
      /\ signal' = signal /\ upSince' = upSince /\ shortRuns' = shortRuns /\ pause' = pause
  BY DEF Produce, taskVars, replayVars, seqHistory, waitHistory
<1>2. SignalTimed' /\ Doubling' BY <1>1 DEF CollectorInv, SignalTimed, Doubling, CollectorBackoffGrows
<1>3. Numbered' BY <1>1, <1>t DEF Numbered, CollectorSeqAccounted
<1>4. Reached' = Reached BY <1>1 DEF Reached
<1>5. Replaying' BY <1>1, <1>4, <1>t DEF Replaying, CollectorScoresLive
<1>6. CollectorTypeOK' BY <1>1, <1>t DEF CollectorTypeOK
<1> QED BY <1>2, <1>3, <1>5, <1>6 DEF CollectorInv

(* so does the end of a wait, *)
LEMMA RetryKeepsCollector ==
    ASSUME CollectorInv, Retry
    PROVE  CollectorInv'
<1>1. /\ phase = "waiting" /\ attempt < MaxAttempts /\ phase' = "connecting"
      /\ attempt' = attempt + 1 /\ generation' = signal.generation
      /\ UNCHANGED <<serviceVars, lastSeq, replayLeft, seqHistory>>
      /\ clock' = clock /\ source' = source /\ backoff' = backoff /\ signal' = signal
      /\ upSince' = upSince /\ shortRuns' = shortRuns /\ pause' = pause /\ cursor' = cursor
  BY DEF Retry, replayVars, waitHistory
<1>2. Numbered' /\ Replaying' BY <1>1, NumbersStay
<1>3. Doubling' BY <1>1 DEF CollectorInv, Doubling, CollectorBackoffGrows
<1>4. SignalTimed' BY <1>1 DEF CollectorInv, SignalTimed
<1>5. attempt' \in 1 .. MaxAttempts BY <1>1, CollectorAssumption DEF CollectorInv, CollectorTypeOK
<1>6. CollectorTypeOK' BY <1>1, <1>5 DEF CollectorInv, CollectorTypeOK, serviceVars
<1> QED BY <1>2, <1>3, <1>4, <1>6 DEF CollectorInv

(* and so does time. *)
LEMMA PassKeepsCollector ==
    ASSUME CollectorInv, Pass
    PROVE  CollectorInv'
<1>1. /\ clock' = MinOf(clock + 1, StreamMaxTime) /\ phase' = phase /\ attempt' = attempt
      /\ generation' = generation
      /\ UNCHANGED <<serviceVars, lastSeq, replayLeft, seqHistory>>
      /\ source' = source /\ backoff' = backoff /\ signal' = signal
      /\ upSince' = upSince /\ shortRuns' = shortRuns /\ pause' = pause /\ cursor' = cursor
  BY DEF Pass, taskVars, replayVars, waitHistory
<1>2. Numbered' /\ Replaying' BY <1>1, NumbersStay
<1>3. Doubling' /\ SignalTimed' BY <1>1 DEF CollectorInv, Doubling, CollectorBackoffGrows, SignalTimed
<1>4. clock' \in 0 .. StreamMaxTime
  BY <1>1, CollectorAssumption DEF CollectorInv, CollectorTypeOK, MinOf
<1>5. CollectorTypeOK' BY <1>1, <1>4 DEF CollectorInv, CollectorTypeOK, serviceVars
<1> QED BY <1>2, <1>3, <1>5 DEF CollectorInv
-----------------------------------------------------------------------------
(* The invariant holds before the first connection. *)
LEMMA CollectorInitInv == CollectorInit => CollectorInv
<1> SUFFICES ASSUME CollectorInit PROVE CollectorInv OBVIOUS
<1>1. /\ clock = 0 /\ source \in {"hydromancer", "plain"} /\ phase = "connecting" /\ attempt = 1
      /\ generation = 0 /\ backoff = InitialBackoff
      /\ signal = [up |-> FALSE, generation |-> 0, since |-> NotUp]
      /\ produced = 0 /\ sendStart = 1 /\ sendFrom = 1 /\ announce = FALSE
      /\ cursor = 0 /\ lastSeq = 0 /\ replayLeft = 0
      /\ replayEnd = 0 /\ accepted = {} /\ scored = {} /\ missing = 0 /\ replayFault = FALSE
      /\ upSince = NotUp /\ shortRuns = -1 /\ pause = InitialBackoff
  BY DEF CollectorInit
<1>2. Numbered
  <2>1. CollectorSeqAccounted BY <1>1 DEF CollectorSeqAccounted
  <2> QED BY <1>1, <2>1, CollectorAssumption DEF Numbered
<1>3. Replaying
  <2>1. Reached = 0 BY <1>1 DEF Reached
  <2>2. CollectorScoresLive BY <1>1 DEF CollectorScoresLive
  <2>3. announce \in BOOLEAN /\ replayFault \in BOOLEAN BY <1>1
  <2> QED BY <1>1, <2>1, <2>2, <2>3 DEF Replaying
<1>4. SignalTimed BY <1>1 DEF SignalTimed
<1>5. Doubling
  <2>1. 2 ^ 0 = 1 BY SMT
  <2>2. InitialBackoff * 2 ^ 0 = InitialBackoff
    <3>1. InitialBackoff * 2 ^ 0 = InitialBackoff * 1 BY <2>1
    <3> QED BY <3>1, CollectorAssumption
  <2>3. shortRuns + 1 = 0 /\ (IF shortRuns < 0 THEN 0 ELSE shortRuns) = 0 BY <1>1
  <2>4. MinOf(InitialBackoff, MaxBackoff) = InitialBackoff BY CollectorAssumption DEF MinOf
  <2>5. MinOf(InitialBackoff * 2 ^ (shortRuns + 1), MaxBackoff) = InitialBackoff
    BY <2>2, <2>3, <2>4
  <2>6. CollectorBackoffGrows BY <1>1, <2>2, <2>3, <2>4 DEF CollectorBackoffGrows
  <2> QED BY <1>1, <2>5, <2>6 DEF Doubling
<1>6. CollectorTypeOK BY <1>1, CollectorAssumption DEF CollectorTypeOK
<1> QED BY <1>2, <1>3, <1>4, <1>5, <1>6 DEF CollectorInv

(* Every step of the collecting task and of the service keeps it. *)
LEMMA CollectorStepInv == CollectorInv /\ [CollectorNext]_collectorVars => CollectorInv'
<1> SUFFICES ASSUME CollectorInv, [CollectorNext]_collectorVars PROVE CollectorInv' OBVIOUS
<1>1. CASE Pass BY <1>1, PassKeepsCollector
<1>2. CASE Produce BY <1>2, ProduceKeepsCollector
<1>3. CASE Refuse \/ Disconnect
  <2>1. Wait /\ phase # "waiting" /\ UNCHANGED <<frames, serviceVars, replayVars, seqHistory>>
    BY <1>3 DEF Refuse, Disconnect
  <2>2. cursor' = cursor /\ lastSeq' = lastSeq /\ replayLeft' = replayLeft
    BY <2>1 DEF replayVars
  <2> QED BY <2>1, <2>2, WaitKeepsCollector
<1>4. CASE ServerError
  <2>1. Wait /\ phase # "waiting" BY <1>4 DEF ServerError
  <2>2. cursor' = 0 /\ UNCHANGED <<frames, serviceVars, lastSeq, replayLeft, seqHistory>>
    BY <1>4 DEF ServerError
  <2> QED BY <2>1, <2>2, WaitKeepsCollector
<1>5. CASE Retry BY <1>5, RetryKeepsCollector
<1>6. CASE Connect BY <1>6, ConnectKeepsCollector
<1>7. CASE Confirm BY <1>7, ConfirmKeepsCollector
<1>8. CASE AnnounceReplay BY <1>8, AnnounceKeepsCollector
<1>9. ASSUME NEW seq \in 1 .. produced, ReadFrame(seq) PROVE CollectorInv' BY <1>9, FrameKeepsCollector
<1>10. CASE UNCHANGED collectorVars
  <2>1. UNCHANGED <<serviceVars, lastSeq, replayLeft, seqHistory>>
    BY <1>10 DEF collectorVars, replayVars
  <2>2. Numbered' /\ Replaying' BY <2>1, NumbersStay
  <2>3. Doubling' /\ SignalTimed' /\ CollectorTypeOK'
    BY <1>10 DEF CollectorInv, Doubling, CollectorBackoffGrows, SignalTimed, CollectorTypeOK, collectorVars,
                 taskVars, serviceVars, replayVars, waitHistory
  <2> QED BY <2>2, <2>3 DEF CollectorInv
<1> QED BY <1>1, <1>2, <1>3, <1>4, <1>5, <1>6, <1>7, <1>8, <1>9, <1>10 DEF CollectorNext
-----------------------------------------------------------------------------
(* The theorems. *)

\* Every variable of a collecting task keeps its type, and the signals say the connection is
\* up exactly while the task reads from it (ProbeSender::connected, the connection's guard).
THEOREM CollectorTypes == CollectorSpec => []CollectorTypeOK
<1>1. CollectorInv => CollectorTypeOK BY DEF CollectorInv
<1> QED BY <1>1, CollectorInitInv, CollectorStepInv, PTL DEF CollectorSpec

\* Every number from the first message read of a connection to the last is read once or
\* counted as missing once; no replayed message is timed, and no live one is lost to the
\* replay unless a replayed one was (run_hydromancer_once: last_seq, replay_remaining).
THEOREM ReplayIsExact == CollectorSpec => []CollectorReplayExact
<1>1. CollectorInv => CollectorReplayExact BY DEF CollectorInv, Numbered, Replaying, CollectorReplayExact
<1> QED BY <1>1, CollectorInitInv, CollectorStepInv, PTL DEF CollectorSpec

\* The n-th wait after a connection that lasted is 2^n times the first, up to the limit
\* (ReconnectBackoff::after_connection, connection_duration).
THEOREM BackoffDoubles == CollectorSpec => []CollectorBackoffGrows
<1>1. CollectorInv => CollectorBackoffGrows BY DEF CollectorInv, Doubling
<1> QED BY <1>1, CollectorInitInv, CollectorStepInv, PTL DEF CollectorSpec
-----------------------------------------------------------------------------
(***************************************************************************)
(* The fills tail.  The newest file is the last one made, so the tail only *)
(* moves on; what is left in its buffer is the first half of a line, and   *)
(* every line that was whole when the tail read to its end was timed.      *)
(***************************************************************************)

\* The files are made in their order, and a file in the directory of its day.
Hourly ==
    /\ Made = 1 .. Cardinality(Made) /\ Made \subseteq FileIds /\ size \in [Made -> Nat]
    /\ days \subseteq Nat /\ \A f \in Made : HourFiles[f].day \in days

\* Half a line is in the buffer, unless the tail began in the middle of that line.
Tailing ==
    /\ tail \in {"down", "read", "eof"} /\ due \in BOOLEAN
    /\ tail # "down" =>
        /\ file \in Made /\ offset \in 0 .. size[file]
        /\ \/ offset % 2 = 0 /\ buf = <<>>
           \/ /\ offset % 2 = 1
              /\ buf = << <<file, offset>> >> \/ (buf = <<>> /\ entered[file] = offset)

\* What was timed was written, and is behind the tail.
TimedBehind ==
    /\ \A l \in Range(timed) : l[1] \in Made /\ 2 * l[2] <= size[l[1]]
    /\ tail # "down" =>
        \A l \in Range(timed) : l[1] <= file /\ (l[1] = file => 2 * l[2] <= offset)

\* How far the tail has read a file it came into, and what it timed of it.
ReadTo(f)       == IF f = file THEN offset ELSE drained[f]
TimedOf(f, end) == \A n \in Nat : entered[f] < 2 * n - 1 /\ 2 * n <= end => <<f, n>> \in Range(timed)

Drained ==
    /\ DOMAIN drained \subseteq DOMAIN entered /\ \A f \in DOMAIN drained : drained[f] \in Nat
    /\ tail = "down" => DOMAIN entered = {}
    /\ tail # "down" => file \in DOMAIN entered /\ entered[file] <= offset
    /\ tail = "eof" => file \in DOMAIN drained /\ drained[file] = offset
    /\ \A f \in DOMAIN entered :
        /\ f \in Nat /\ f <= file /\ entered[f] \in Nat
        /\ f # file => f \in DOMAIN drained
        /\ TimedOf(f, ReadTo(f))

FillsInv ==
    /\ Hourly /\ Tailing /\ timed \in Seq(Nat \X Nat) /\ FillsInOrder /\ TimedBehind /\ Drained

(* The files made are the first ones, and their number is a number. *)
LEMMA MadeFiles ==
    ASSUME Hourly
    PROVE  /\ Cardinality(Made) \in Nat
           /\ \A f : f \in Made <=> f \in Nat /\ 1 <= f /\ f <= Cardinality(Made)
<1>1. Made \subseteq 1 .. Len(HourFiles) /\ Len(HourFiles) \in Nat
  BY FillsAssumption DEF Hourly, FileIds
<1>2. IsFiniteSet(1 .. Len(HourFiles)) BY <1>1, FS_Interval
<1>3. Cardinality(Made) \in Nat BY <1>1, <1>2, FS_Subset, FS_CardinalityType
<1> QED BY <1>3 DEF Hourly

(* The newest file is the last one made. *)
LEMMA NewestIsLast ==
    ASSUME Hourly, Made # {}
    PROVE  Newest = Cardinality(Made) /\ Newest \in Made /\ Newest # 0
<1> DEFINE n == Cardinality(Made)
           d == HourFiles[n].day
<1>1. n \in Nat /\ \A f : f \in Made <=> f \in Nat /\ 1 <= f /\ f <= n BY MadeFiles
<1> HIDE DEF n
<1>2. n \in Made BY <1>1
<1>3. \A f \in Made : /\ f \in DOMAIN HourFiles
                      /\ HourFiles[f].day \in Nat /\ HourFiles[f].hour \in Nat
  <2> SUFFICES ASSUME NEW f \in Made
               PROVE /\ f \in DOMAIN HourFiles
                     /\ HourFiles[f].day \in Nat /\ HourFiles[f].hour \in Nat
    OBVIOUS
  <2>1. f \in DOMAIN HourFiles BY DEF Hourly, FileIds
  <2> DEFINE T == [day : Nat, hour : 0 .. 23]
  <2>2. HourFiles \in Seq(T) BY FillsAssumption
  <2>3. HourFiles[f] \in T
    <3> HIDE DEF T
    <3> QED BY <2>1, <2>2
  <2> QED BY <2>1, <2>3
<1>4. \A f \in Made : f # n =>
        \/ HourFiles[f].day < d
        \/ HourFiles[f].day = d /\ HourFiles[f].hour < HourFiles[n].hour
  BY <1>1, <1>2, <1>3, FillsAssumption
<1>5. NewestDay = d
  <2> DEFINE P(x) == FilesOf(x) # {} /\ \A e \in days : FilesOf(e) # {} => e <= x
  <2>1. d \in days /\ d \in Nat BY <1>2, <1>3 DEF Hourly
  <2>2. FilesOf(d) # {} BY <1>2 DEF FilesOf
  <2>3. ASSUME NEW e \in days, FilesOf(e) # {} PROVE e <= d
    <3>1. PICK f \in Made : HourFiles[f].day = e BY <2>3 DEF FilesOf
    <3> QED BY <1>3, <1>4, <2>1, <3>1
  <2>4. P(d) BY <2>2, <2>3
  <2>5. NewestDay = CHOOSE x \in days : P(x) BY DEF NewestDay
  <2>6. NewestDay \in days /\ P(NewestDay)
    <3> HIDE DEF P
    <3> QED BY <2>1, <2>4, <2>5
  <2>7. NewestDay <= d /\ d <= NewestDay BY <2>1, <2>3, <2>4, <2>6
  <2>8. NewestDay \in Nat BY <2>6 DEF Hourly
  <2> QED BY <2>1, <2>7, <2>8
<1>6. NewestFile = n
  <2> DEFINE Q(x) == \A g \in FilesOf(d) : ~HourBefore(HourFiles[x], HourFiles[g])
  <2>1. n \in FilesOf(d) BY <1>2 DEF FilesOf
  <2>2. Q(n)
    <3> SUFFICES ASSUME NEW g \in FilesOf(d) PROVE ~(HourFiles[n].hour < HourFiles[g].hour)
      BY DEF HourBefore
    <3>1. g \in Made /\ HourFiles[g].day = d BY DEF FilesOf
    <3> QED BY <1>2, <1>3, <1>4, <3>1
  <2>3. NewestFile = CHOOSE x \in FilesOf(d) : Q(x) BY <1>5 DEF NewestFile
  <2>4. NewestFile \in FilesOf(d) /\ Q(NewestFile)
    <3> HIDE DEF Q, d
    <3> QED BY <2>1, <2>2, <2>3
  <2>5. NewestFile \in Made /\ HourFiles[NewestFile].day = d BY <2>4 DEF FilesOf
  <2>6. ~(HourFiles[NewestFile].hour < HourFiles[n].hour) BY <2>1, <2>4 DEF HourBefore
  <2> QED BY <1>2, <1>3, <1>4, <2>5, <2>6
<1> QED BY <1>1, <1>2, <1>6 DEF Newest, n

(* What is read of a file from base on: of len pieces, the lines that are whole and the rest. *)
IsRead(b, f, base, len) ==
    /\ b \in Seq(Nat \X Nat) /\ Len(b) = len
    /\ \A i \in 1 .. len : b[i] = <<f, base + i>>

(* Two places of a sequence, one after the other. *)
LEMMA TwoOf ==
    ASSUME NEW T, NEW s \in Seq(T), NEW i \in 1 .. Len(s) - 1
    PROVE  SubSeq(s, i, i + 1) = << s[i], s[i + 1] >>
<1>1. i \in 1 .. Len(s) /\ i + 1 \in 1 .. Len(s) OBVIOUS
<1>2. SubSeq(s, i, i + 1) = [j \in 1 .. 2 |-> s[i + j - 1]] BY <1>1
<1>3. [j \in 1 .. 2 |-> s[i + j - 1]] = << s[i], s[i + 1] >> OBVIOUS
<1> QED BY <1>2, <1>3

(* Its lines are the ones whose two pieces are both among the pieces read. *)
LEMMA LinesRead ==
    ASSUME NEW f \in Nat, NEW base \in Nat, NEW len \in Nat, NEW b, IsRead(b, f, base, len)
    PROVE  \A l : l \in LinesOf(b) <=>
                \E k \in Nat : l = <<f, k>> /\ base + 1 <= 2 * k - 1 /\ 2 * k <= base + len
<1>a. b \in Seq(Nat \X Nat) /\ Len(b) = len BY DEF IsRead
<1>b. DOMAIN b = 1 .. len BY <1>a
<1>c. \A i \in 1 .. len : b[i] = <<f, base + i>> BY DEF IsRead
<1>1. /\ b \in Seq(Nat \X Nat) /\ Len(b) = len /\ DOMAIN b = 1 .. len
      /\ \A i \in 1 .. len : b[i] = <<f, base + i>> /\ b[i][1] = f /\ b[i][2] = base + i
  BY <1>a, <1>b, <1>c
<1>2. ASSUME NEW k \in Nat, base + 1 <= 2 * k - 1, 2 * k <= base + len
      PROVE  <<f, k>> \in LinesOf(b)
  <2> DEFINE i == 2 * k - 1 - base
  <2>1. i \in 1 .. len - 1 /\ i \in 1 .. len /\ i + 1 \in 1 .. len BY <1>2
  <2>2. b[i] = <<f, 2 * k - 1>> /\ b[i + 1] = <<f, 2 * k>>
    <3>1. base + i = 2 * k - 1 /\ base + (i + 1) = 2 * k OBVIOUS
    <3>2. b[i] = <<f, base + i>> /\ b[i + 1] = <<f, base + (i + 1)>> BY <1>1, <2>1
    <3> HIDE DEF i
    <3> QED BY <3>1, <3>2
  <2>3. SubSeq(b, i, i + 1) = Line(f, k)
    <3> HIDE DEF i
    <3>1. SubSeq(b, i, i + 1) = << b[i], b[i + 1] >> BY <1>1, <2>1, TwoOf
    <3> QED BY <2>2, <3>1 DEF Line
  <2>4. i = 1 \/ EndsLine(b[i - 1])
    <3> SUFFICES ASSUME i # 1 PROVE (b[i - 1][2]) % 2 = 0 BY DEF EndsLine
    <3>1. i - 1 \in 1 .. len BY <2>1
    <3>2. b[i - 1][2] = 2 * (k - 1) BY <1>1, <3>1
    <3>3. (2 * (k - 1)) % 2 = 0 OBVIOUS
    <3> QED BY <3>2, <3>3
  <2>5. b[i + 1] \in {q \in Range(b) : EndsLine(q)}
    <3>1. b[i + 1] \in Range(b) BY <1>1, <2>1 DEF Range
    <3>2. (2 * k) % 2 = 0 OBVIOUS
    <3>3. EndsLine(b[i + 1]) BY <2>2, <3>2 DEF EndsLine
    <3> QED BY <3>1, <3>3
  <2>6. <<f, k>> = << b[i + 1][1], b[i + 1][2] \div 2 >>
    <3>1. (2 * k) \div 2 = k OBVIOUS
    <3>2. b[i + 1][1] = f /\ b[i + 1][2] = 2 * k BY <2>2
    <3> QED BY <3>1, <3>2
  <2>7. <<f, k>>[1] = f /\ <<f, k>>[2] = k OBVIOUS
  <2> HIDE DEF i
  <2> QED BY <1>1, <2>1, <2>3, <2>4, <2>5, <2>6, <2>7 DEF LinesOf
<1>3. ASSUME NEW l \in LinesOf(b)
      PROVE  \E k \in Nat : l = <<f, k>> /\ base + 1 <= 2 * k - 1 /\ 2 * k <= base + len
  <2>1. PICK p \in Range(b) : EndsLine(p) /\ l = <<p[1], p[2] \div 2>>
    BY DEF LinesOf
  <2>2. PICK j \in 1 .. len : p = b[j] BY <1>1, <2>1 DEF Range
  <2>3. p[1] = f /\ p[2] = base + j BY <1>1, <2>2
  <2> DEFINE k == (base + j) \div 2
  <2>4. (base + j) % 2 = 0 BY <2>1, <2>3 DEF EndsLine
  <2>5. k \in Nat /\ 2 * k = base + j BY <2>4
  <2>6. l = <<f, k>> /\ l[1] = f /\ l[2] = k BY <2>1, <2>3
  <2> HIDE DEF k
  <2>7. PICK i \in 1 .. len - 1 : SubSeq(b, i, i + 1) = Line(f, k)
    BY <1>1, <2>6 DEF LinesOf
  <2>8. b[i] = <<f, 2 * k - 1>>
    <3>1. SubSeq(b, i, i + 1) = << b[i], b[i + 1] >> BY <1>1, TwoOf
    <3>2. << b[i], b[i + 1] >>[1] = b[i] OBVIOUS
    <3>3. Line(f, k)[1] = <<f, 2 * k - 1>> BY DEF Line
    <3> QED BY <2>7, <3>1, <3>2, <3>3
  <2>9. base + i = 2 * k - 1
    <3>1. i \in 1 .. len BY <2>7
    <3>2. b[i][2] = base + i BY <1>1, <3>1
    <3> QED BY <2>8, <3>2
  <2>10. base + 1 <= 2 * k - 1 /\ 2 * k <= base + len BY <2>5, <2>7, <2>9
  <2> QED BY <2>5, <2>6, <2>10
<1> QED BY <1>2, <1>3

(* What is left of it is half a line, if the last piece read is the first half of one. *)
LEMMA RestRead ==
    ASSUME NEW f \in Nat, NEW base \in Nat, NEW len \in Nat \ {0}, NEW b, IsRead(b, f, base, len)
    PROVE  Rest(b) = IF (base + len) % 2 = 0 THEN <<>> ELSE << <<f, base + len>> >>
<1>a. b \in Seq(Nat \X Nat) /\ Len(b) = len BY DEF IsRead
<1>b. DOMAIN b = 1 .. len BY <1>a
<1>c. \A i \in 1 .. len : b[i] = <<f, base + i>> BY DEF IsRead
<1>1. /\ b \in Seq(Nat \X Nat) /\ Len(b) = len /\ DOMAIN b = 1 .. len
      /\ \A i \in 1 .. len : b[i] = <<f, base + i>> /\ b[i][2] = base + i
  BY <1>a, <1>b, <1>c
<1> DEFINE S == {0} \cup {i \in DOMAIN b : EndsLine(b[i])}
           e == IF (base + len) % 2 = 0 THEN len ELSE len - 1
<1>2. \A i \in 1 .. len : EndsLine(b[i]) <=> (base + i) % 2 = 0 BY <1>1 DEF EndsLine
<1>3. e \in S /\ e \in Nat
  <2>1. CASE (base + len) % 2 = 0
    <3>1. len \in 1 .. len OBVIOUS
    <3> QED BY <1>1, <1>2, <2>1, <3>1
  <2>2. CASE (base + len) % 2 # 0
    <3>1. (base + (len - 1)) % 2 = 0 BY <2>2
    <3>2. e = len - 1 BY <2>2
    <3>3. len - 1 = 0 \/ len - 1 \in 1 .. len OBVIOUS
    <3>4. len - 1 \in 1 .. len => EndsLine(b[len - 1]) BY <1>2, <3>1
    <3>5. len - 1 \in S BY <1>1, <3>3, <3>4
    <3>6. len - 1 \in Nat OBVIOUS
    <3> QED BY <3>2, <3>5, <3>6
  <2> QED BY <2>1, <2>2
<1>4. \A i \in S : i \in Int /\ e >= i
  <2> SUFFICES ASSUME NEW i \in S PROVE i \in Int /\ e >= i OBVIOUS
  <2>1. CASE i = 0 BY <1>3, <2>1
  <2>2. CASE i # 0
    <3>1. i \in 1 .. len /\ (base + i) % 2 = 0 BY <1>1, <1>2, <2>2
    <3> QED BY <3>1
  <2> QED BY <2>1, <2>2
<1>5. LastEnd(b) = e
  <2>1. LastEnd(b) = CHOOSE x \in S : \A y \in S : x >= y BY DEF LastEnd, Max
  <2> HIDE DEF S, e
  <2>2. LastEnd(b) \in S /\ \A y \in S : LastEnd(b) >= y BY <1>3, <1>4, <2>1
  <2>3. LastEnd(b) >= e /\ e >= LastEnd(b) /\ LastEnd(b) \in Int BY <1>3, <1>4, <2>2
  <2> QED BY <1>3, <2>3
<1>6. Rest(b) = SubSeq(b, e + 1, len) BY <1>1, <1>5 DEF Rest
<1>7. CASE (base + len) % 2 = 0
  <2>1. Rest(b) = SubSeq(b, len + 1, len) BY <1>6, <1>7
  <2>2. SubSeq(b, len + 1, len) = <<>> BY <1>1
  <2> QED BY <1>7, <2>1, <2>2
<1>8. CASE (base + len) % 2 # 0
  <2>1. Rest(b) = SubSeq(b, len, len)
    <3>1. e + 1 = len BY <1>8
    <3> QED BY <1>6, <3>1
  <2>2. len \in 1 .. len OBVIOUS
  <2>3. SubSeq(b, len, len) = [j \in 1 .. 1 |-> b[len + j - 1]] BY <1>1, <2>2
  <2>4. [j \in 1 .. 1 |-> b[len + j - 1]] = << b[len] >> BY <2>2
  <2> QED BY <1>1, <1>8, <2>1, <2>2, <2>3, <2>4
<1> QED BY <1>7, <1>8

(* Lines of one file, with consecutive numbers, are put in order. *)
LEMMA LinesInOrder ==
    ASSUME NEW f \in Nat, NEW lo \in Nat, NEW hi \in Nat, NEW S,
           \A l : l \in S <=> \E k \in Nat : l = <<f, k>> /\ lo <= k /\ k <= hi
    PROVE  /\ InOrder(S) \in Seq(Nat \X Nat) /\ Range(InOrder(S)) = S
           /\ \A i, j \in DOMAIN InOrder(S) : i < j => InOrder(S)[i][2] < InOrder(S)[j][2]
<1> DEFINE len == IF lo <= hi THEN hi - lo + 1 ELSE 0
           s == [i \in 1 .. len |-> <<f, lo + i - 1>>]
           P(x) == Range(x) = S /\ \A i, j \in DOMAIN x : i < j => x[i][2] < x[j][2]
<1>1. len \in Nat OBVIOUS
<1>2. \A i \in 1 .. len : s[i] = <<f, lo + i - 1>> /\ s[i][2] = lo + i - 1 /\ s[i] \in S
  <2> SUFFICES ASSUME NEW i \in 1 .. len PROVE <<f, lo + i - 1>> \in S
    OBVIOUS
  <2>1. lo + i - 1 \in Nat /\ lo <= lo + i - 1 /\ lo + i - 1 <= hi OBVIOUS
  <2> QED BY <2>1
<1>3. \A l \in S : \E i \in 1 .. len : s[i] = l
  <2> SUFFICES ASSUME NEW l \in S PROVE \E i \in 1 .. len : s[i] = l OBVIOUS
  <2>1. PICK k \in Nat : l = <<f, k>> /\ lo <= k /\ k <= hi OBVIOUS
  <2>2. k - lo + 1 \in 1 .. len /\ lo + (k - lo + 1) - 1 = k BY <2>1
  <2> QED BY <2>1, <2>2
<1>4. s \in [1 .. len -> S] /\ DOMAIN s = 1 .. len BY <1>2
<1>5. Cardinality(S) = len
  <2>1. s \in Bijection(1 .. len, S)
    <3>1. \A i, j \in 1 .. len : s[i] = s[j] => i = j BY <1>1, <1>2
    <3> HIDE DEF s, len
    <3> QED BY <1>3, <1>4, <3>1 DEF Bijection, Injection, Surjection, IsInjective
  <2>2. IsFiniteSet(1 .. len) /\ Cardinality(1 .. len) = len
    <3> HIDE DEF len
    <3> QED BY <1>1, FS_Interval
  <2> HIDE DEF s, len
  <2>3. ExistsBijection(1 .. len, S) BY <2>1 DEF ExistsBijection
  <2> QED BY <2>2, <2>3, FS_Bijection
<1>6. P(s)
  <2>1. Range(s) = S
    <3>1. Range(s) = {s[i] : i \in 1 .. len} BY <1>4 DEF Range
    <3> HIDE DEF s, len
    <3> QED BY <1>2, <1>3, <3>1
  <2>2. \A i, j \in DOMAIN s : i < j => s[i][2] < s[j][2]
    <3> SUFFICES ASSUME NEW i \in 1 .. len, NEW j \in 1 .. len, i < j PROVE s[i][2] < s[j][2]
      BY <1>4
    <3>1. s[i][2] = lo + i - 1 /\ s[j][2] = lo + j - 1 BY <1>2
    <3> HIDE DEF s
    <3> QED BY <1>1, <3>1
  <2> QED BY <2>1, <2>2
<1>7. InOrder(S) = CHOOSE x \in [1 .. Cardinality(S) -> S] : P(x) BY DEF InOrder
<1> HIDE DEF P, s, len
<1>8. InOrder(S) \in [1 .. len -> S] /\ P(InOrder(S)) BY <1>4, <1>5, <1>6, <1>7
<1>9. S \subseteq Nat \X Nat OBVIOUS
<1>10. InOrder(S) \in Seq(Nat \X Nat) BY <1>1, <1>8, <1>9
<1> QED BY <1>8, <1>10 DEF P

(* What is in a sequence, and in two sequences put together. *)
LEMMA RangeIn ==
    ASSUME NEW T, NEW s \in Seq(T)
    PROVE  Range(s) \subseteq T
<1>1. DOMAIN s = 1 .. Len(s) /\ \A i \in 1 .. Len(s) : s[i] \in T OBVIOUS
<1> QED BY <1>1 DEF Range

(* Both sequences, and nothing else, are in the one made of the two. *)
LEMMA RangeOfBoth ==
    ASSUME NEW T, NEW s \in Seq(T), NEW t \in Seq(T)
    PROVE  Range(s \o t) = Range(s) \cup Range(t)
<1> DEFINE m == Len(s)
           n == Len(t)
<1>1. /\ DOMAIN s = 1 .. m /\ DOMAIN t = 1 .. n /\ m \in Nat /\ n \in Nat
      /\ DOMAIN (s \o t) = 1 .. m + n
  OBVIOUS
<1>2. /\ \A i \in 1 .. m : (s \o t)[i] = s[i]
      /\ \A i \in 1 .. n : (s \o t)[m + i] = t[i]
  OBVIOUS
<1> HIDE DEF m, n
<1>3. \A i \in 1 .. m + n : i \in 1 .. m \/ (i - m \in 1 .. n /\ m + (i - m) = i) BY <1>1
<1>4. \A i \in 1 .. n : m + i \in 1 .. m + n BY <1>1
<1>5. \A i \in 1 .. m : i \in 1 .. m + n BY <1>1
<1>6. Range(s \o t) \subseteq Range(s) \cup Range(t)
  <2> SUFFICES ASSUME NEW i \in 1 .. m + n PROVE (s \o t)[i] \in Range(s) \cup Range(t)
    BY <1>1 DEF Range
  <2>1. CASE i \in 1 .. m BY <1>1, <1>2, <2>1 DEF Range
  <2>2. CASE i \notin 1 .. m
    <3>1. i - m \in 1 .. n /\ m + (i - m) = i BY <1>3, <2>2
    <3>2. (s \o t)[i] = t[i - m] BY <1>2, <3>1
    <3> QED BY <1>1, <3>1, <3>2 DEF Range
  <2> QED BY <2>1, <2>2
<1>7. Range(s) \subseteq Range(s \o t) BY <1>1, <1>2, <1>5 DEF Range
<1>8. Range(t) \subseteq Range(s \o t)
  <2> SUFFICES ASSUME NEW i \in 1 .. n PROVE t[i] \in Range(s \o t) BY <1>1 DEF Range
  <2>1. (s \o t)[m + i] = t[i] /\ m + i \in 1 .. m + n BY <1>2, <1>4
  <2> QED BY <1>1, <2>1 DEF Range
<1> QED BY <1>6, <1>7, <1>8

(* The node writes: what is there grows, and the tail stays where it is. *)
LEMMA NodeKeepsFills ==
    ASSUME FillsInv, Hourly', \A f \in Made : f \in Made' /\ size[f] <= size'[f],
           UNCHANGED <<tail, file, offset, buf, due, timed, entered, drained>>
    PROVE  FillsInv'
<1>1. \A f \in Made : size[f] \in Nat /\ size'[f] \in Nat /\ size[f] <= size'[f] /\ f \in Made'
  BY DEF FillsInv, Hourly
<1>2. Tailing'
  <2>1. tail # "down" => offset \in 0 .. size'[file] BY <1>1 DEF FillsInv, Tailing
  <2> QED BY <1>1, <2>1 DEF FillsInv, Tailing
<1>3. TimedBehind'
  <2>1. ASSUME NEW l \in Range(timed) PROVE l[1] \in Made' /\ 2 * l[2] <= size'[l[1]]
    <3>1. l \in Nat \X Nat /\ l[2] \in Nat BY RangeIn DEF FillsInv
    <3>2. l[1] \in Made /\ 2 * l[2] <= size[l[1]] BY DEF FillsInv, TimedBehind
    <3> QED BY <1>1, <3>1, <3>2
  <2> QED BY <2>1 DEF FillsInv, TimedBehind
<1>4. Drained' BY DEF FillsInv, Drained, ReadTo, TimedOf
<1>5. FillsInOrder' BY DEF FillsInv, FillsInOrder
<1> QED BY <1>2, <1>3, <1>4, <1>5 DEF FillsInv

(* It writes to its newest file, makes a day, or makes the file of the next hour. *)
LEMMA NodeStepKeepsFills ==
    ASSUME FillsInv, Append1 \/ MakeDay \/ NextHour
    PROVE  FillsInv'
<1> DEFINE n == Cardinality(Made)
<1>h. Hourly BY DEF FillsInv
<1>1. n \in Nat /\ \A f : f \in Made <=> f \in Nat /\ 1 <= f /\ f <= n BY <1>h, MadeFiles
<1>2. UNCHANGED <<tail, file, offset, buf, due, timed, entered, drained>>
  BY DEF Append1, MakeDay, NextHour
<1>3. \A f \in Made : size[f] \in Nat BY <1>h DEF Hourly
<1> HIDE DEF n
<1>4. CASE Append1
  <2>1. Made # {} /\ size' = [size EXCEPT ![n] = @ + 1] /\ days' = days BY <1>4 DEF Append1, n
  <2>2. Made' = Made BY <2>1 DEF Made
  <2>3. \A f \in Made : size'[f] \in Nat /\ size[f] <= size'[f]
    <3> SUFFICES ASSUME NEW f \in Made PROVE size'[f] \in Nat /\ size[f] <= size'[f] OBVIOUS
    <3>1. size'[f] = size[f] \/ size'[f] = size[f] + 1 BY <2>1 DEF Made
    <3> QED BY <1>3, <3>1
  <2>4. size' \in [Made -> Nat] BY <2>1, <2>3, <1>h DEF Hourly
  <2>5. Hourly' BY <2>1, <2>2, <2>4, <1>h DEF Hourly
  <2> QED BY <1>2, <2>2, <2>3, <2>5, NodeKeepsFills
<1>5. CASE MakeDay
  <2>1. PICK f \in FileIds : days' = days \cup {HourFiles[f].day} BY <1>5 DEF MakeDay
  <2>2. size' = size BY <1>5 DEF MakeDay
  <2>3. HourFiles[f].day \in Nat
    <3> DEFINE T == [day : Nat, hour : 0 .. 23]
    <3>1. HourFiles \in Seq(T) BY FillsAssumption
    <3>2. HourFiles[f] \in T
      <4> HIDE DEF T
      <4> QED BY <2>1, <3>1 DEF FileIds
    <3> QED BY <3>2
  <2>4. Made' = Made BY <2>2 DEF Made
  <2>5. Hourly' BY <1>h, <2>1, <2>2, <2>3, <2>4 DEF Hourly
  <2>6. \A f1 \in Made : size[f1] <= size'[f1] BY <1>3, <2>2
  <2> QED BY <1>2, <2>4, <2>5, <2>6, NodeKeepsFills
<1>6. CASE NextHour
  <2>1. /\ n + 1 \in FileIds /\ HourFiles[n + 1].day \in days /\ days' = days
        /\ size' = [g \in Made \cup {n + 1} |-> IF g \in Made THEN size[g] ELSE 0]
    BY <1>6 DEF NextHour, n
  <2>2. /\ Made' = Made \cup {n + 1}
        /\ \A g \in Made : size'[g] = size[g]
        /\ size' \in [Made' -> Nat]
    <3>1. Made' = Made \cup {n + 1} BY <2>1 DEF Made
    <3>2. \A g \in Made : size'[g] = size[g] BY <2>1
    <3>3. size' \in [Made \cup {n + 1} -> Nat] BY <2>1, <1>3
    <3> QED BY <3>1, <3>2, <3>3
  <2>3. Made' = 1 .. n + 1 BY <1>1, <2>2
  <2>4. Cardinality(1 .. n + 1) = n + 1 BY <1>1, FS_Interval
  <2>5. Hourly'
    <3>1. Made \subseteq FileIds /\ days \subseteq Nat /\ \A f \in Made : HourFiles[f].day \in days
      BY <1>h DEF Hourly
    <3>2. Made' \subseteq FileIds /\ \A f \in Made' : HourFiles[f].day \in days'
      BY <2>1, <2>2, <3>1
    <3> QED BY <2>1, <2>2, <2>3, <2>4, <3>1, <3>2 DEF Hourly
  <2>6. \A f \in Made : f \in Made' /\ size[f] <= size'[f] BY <1>3, <2>2
  <2> QED BY <1>2, <2>5, <2>6, NodeKeepsFills
<1> QED BY <1>4, <1>5, <1>6

(* A tail starts at the end of the newest file. *)
LEMMA StartKeepsFills ==
    ASSUME FillsInv, Start
    PROVE  FillsInv'
<1>h. Hourly BY DEF FillsInv
<1>1. /\ UNCHANGED <<size, days, timed>>
      /\ tail' = "read" /\ file' = Newest /\ offset' = size[Newest] /\ buf' = <<>> /\ due' = FALSE
      /\ entered' = [f \in {Newest} |-> size[Newest]] /\ drained' = [f \in {} |-> 0]
      /\ Made # {}
  BY DEF Start, StartOf, Newest
<1>2. Newest = Cardinality(Made) /\ Newest \in Made BY <1>h, <1>1, NewestIsLast
<1>m. Made' = Made BY <1>1 DEF Made
<1>3. Newest \in Nat /\ size[Newest] \in Nat /\ \A f \in Made : f \in Nat /\ f <= Newest
  <2>1. /\ Cardinality(Made) \in Nat
        /\ \A f : f \in Made <=> f \in Nat /\ 1 <= f /\ f <= Cardinality(Made)
    BY <1>h, MadeFiles
  <2>2. size[Newest] \in Nat BY <1>h, <1>2 DEF Hourly
  <2> QED BY <1>2, <2>1, <2>2
<1>4. Hourly' BY <1>1, <1>m, <1>h DEF Hourly
<1>5. Tailing'
  <2>1. size[Newest] % 2 = 0 \/ size[Newest] % 2 = 1 BY <1>3
  <2>2. entered'[file'] = offset' BY <1>1
  <2>3. offset' \in 0 .. size'[file'] BY <1>1, <1>3
  <2>4. file' \in Made' /\ tail' = "read" /\ due' = FALSE BY <1>1, <1>2, <1>m
  <2>5. offset' = size[Newest] /\ buf' = <<>> BY <1>1
  <2> QED BY <2>1, <2>2, <2>3, <2>4, <2>5 DEF Tailing
<1>6. TimedBehind'
  <2> SUFFICES ASSUME NEW l \in Range(timed)
               PROVE  /\ l[1] \in Made /\ 2 * l[2] <= size[l[1]]
                      /\ l[1] <= Newest /\ (l[1] = Newest => 2 * l[2] <= size[Newest])
    BY <1>1, <1>m DEF TimedBehind
  <2>1. l[1] \in Made /\ 2 * l[2] <= size[l[1]] BY DEF FillsInv, TimedBehind
  <2> QED BY <1>3, <2>1
<1>7. Drained'
  <2>1. \A k \in Nat : ~(size[Newest] < 2 * k - 1 /\ 2 * k <= size[Newest]) BY <1>3
  <2> QED BY <1>1, <1>3, <2>1 DEF Drained, ReadTo, TimedOf
<1>8. FillsInOrder' BY <1>1 DEF FillsInv, FillsInOrder
<1> QED BY <1>1, <1>4, <1>5, <1>6, <1>7, <1>8 DEF FillsInv

(* One sequence after another. *)
LEMMA OneAfterTheOther ==
    ASSUME NEW T, NEW s \in Seq(T), NEW t \in Seq(T)
    PROVE  /\ s \o t \in Seq(T) /\ Len(s \o t) = Len(s) + Len(t)
           /\ \A i \in 1 .. Len(s) + Len(t) :
                (s \o t)[i] = IF i <= Len(s) THEN s[i] ELSE t[i - Len(s)]
  OBVIOUS

(* A read of some pieces times the lines they complete. *)
LEMMA ReadKeepsFills ==
    ASSUME FillsInv, ReadSome
    PROVE  FillsInv'
<1>h. Hourly BY DEF FillsInv
<1>1. PICK upto \in offset + 1 .. size[file] :
        LET b == buf \o [i \in 1 .. upto - offset |-> <<file, offset + i>>] IN
        /\ buf' = Rest(b)
        /\ timed' = timed \o InOrder(LinesOf(b))
        /\ offset' = upto
  BY DEF ReadSome
<1> DEFINE more == [i \in 1 .. upto - offset |-> <<file, offset + i>>]
<1>2. PICK b : /\ b = buf \o more /\ buf' = Rest(b)
               /\ timed' = timed \o InOrder(LinesOf(b)) /\ offset' = upto
  BY <1>1
<1>3. UNCHANGED <<size, days, tail, file, due, entered, drained>> /\ tail = "read"
  BY DEF ReadSome
<1>m. Made' = Made BY <1>3 DEF Made
<1>4. /\ file \in Made /\ file \in Nat /\ offset \in Nat /\ upto \in Nat /\ offset < upto
      /\ size[file] \in Nat /\ upto <= size[file]
  BY <1>h, <1>1, <1>3, MadeFiles DEF FillsInv, Tailing, Hourly
<1>5. \/ offset % 2 = 0 /\ buf = <<>>
      \/ offset % 2 = 1 /\ buf = << <<file, offset>> >>
      \/ offset % 2 = 1 /\ buf = <<>> /\ entered[file] = offset
  BY <1>3 DEF FillsInv, Tailing
<1> DEFINE base == IF buf = <<>> THEN offset ELSE offset - 1
           len == upto - base
<1>6. IsRead(b, file, base, len) /\ base \in Nat /\ len \in Nat \ {0} /\ base + len = upto
  <2>1. more \in Seq(Nat \X Nat) /\ Len(more) = upto - offset BY <1>4
  <2>2. CASE buf = <<>>
    <3>1. b = more BY <1>2, <2>1, <2>2
    <3>2. base = offset /\ len = upto - offset BY <2>2
    <3>3. \A i \in 1 .. upto - offset : more[i] = <<file, offset + i>> OBVIOUS
    <3> HIDE DEF more, base, len
    <3>4. IsRead(b, file, base, len) BY <2>1, <3>1, <3>2, <3>3 DEF IsRead
    <3>5. base \in Nat /\ len \in Nat \ {0} /\ base + len = upto BY <1>4, <3>2
    <3> QED BY <3>4, <3>5
  <2>3. CASE buf # <<>>
    <3>1. offset % 2 = 1 /\ buf = << <<file, offset>> >> BY <1>5, <2>3
    <3>2. base = offset - 1 /\ len = upto - offset + 1 /\ base \in Nat BY <1>4, <2>3, <3>1
    <3>3. buf \in Seq(Nat \X Nat) /\ Len(buf) = 1 /\ buf[1] = <<file, offset>> BY <1>4, <3>1
    <3> HIDE DEF more, base, len
    <3>4. b \in Seq(Nat \X Nat) /\ Len(b) = upto - offset + 1
      <4>1. b \in Seq(Nat \X Nat) /\ Len(b) = Len(buf) + Len(more)
        BY <1>2, <2>1, <3>3, OneAfterTheOther
      <4>2. 1 + (upto - offset) = upto - offset + 1 BY <1>4
      <4> QED BY <2>1, <3>3, <4>1, <4>2
    <3>5. \A i \in 1 .. upto - offset + 1 : b[i] = IF i <= 1 THEN buf[i] ELSE more[i - 1]
      <4>1. \A i \in 1 .. Len(buf) + Len(more) :
              b[i] = IF i <= Len(buf) THEN buf[i] ELSE more[i - Len(buf)]
        BY <1>2, <2>1, <3>3, OneAfterTheOther
      <4>2. 1 + (upto - offset) = upto - offset + 1 BY <1>4
      <4> QED BY <2>1, <3>3, <4>1, <4>2
    <3>6. \A i \in 1 .. len : b[i] = <<file, base + i>>
      <4> SUFFICES ASSUME NEW i \in 1 .. upto - offset + 1 PROVE b[i] = <<file, base + i>>
        BY <3>2
      <4>1. CASE i = 1
        <5>1. base + i = offset BY <1>4, <3>2, <4>1
        <5> QED BY <3>3, <3>5, <4>1, <5>1
      <4>2. CASE i # 1
        <5>1. i - 1 \in 1 .. upto - offset /\ b[i] = more[i - 1] BY <1>4, <3>5, <4>2
        <5>2. more[i - 1] = <<file, offset + (i - 1)>> BY <5>1 DEF more
        <5>3. offset + (i - 1) = base + i BY <1>4, <3>2
        <5> QED BY <5>1, <5>2, <5>3
      <4> QED BY <4>1, <4>2
    <3>7. IsRead(b, file, base, len) BY <3>2, <3>4, <3>6 DEF IsRead
    <3>8. len \in Nat \ {0} /\ base + len = upto BY <1>4, <3>2
    <3> QED BY <3>2, <3>7, <3>8
  <2> QED BY <2>2, <2>3
<1>7. /\ base <= offset /\ offset <= base + 1 /\ (base = offset - 1 => offset % 2 = 1)
      /\ base # offset - 1 => offset % 2 = 0 \/ entered[file] = offset
  <2>1. CASE buf = <<>>
    <3>1. base = offset BY <2>1
    <3>2. offset % 2 = 0 \/ entered[file] = offset BY <1>5, <2>1
    <3>3. base <= offset /\ offset <= base + 1 /\ base # offset - 1 BY <1>4, <3>1
    <3> QED BY <3>2, <3>3
  <2>2. CASE buf # <<>>
    <3>1. base = offset - 1 BY <2>2
    <3>2. offset % 2 = 1 BY <1>5, <2>2
    <3>3. base <= offset /\ offset <= base + 1 BY <1>4, <3>1
    <3> QED BY <3>1, <3>2, <3>3
  <2> QED BY <2>1, <2>2
<1> HIDE DEF base, len, more
<1>8. Rest(b) = IF upto % 2 = 0 THEN <<>> ELSE << <<file, upto>> >>
  BY <1>4, <1>6, RestRead
<1>9. \A l : l \in LinesOf(b) <=>
        \E k \in Nat : l = <<file, k>> /\ base + 1 <= 2 * k - 1 /\ 2 * k <= upto
  BY <1>4, <1>6, LinesRead
<1> DEFINE more1 == InOrder(LinesOf(b))
<1>10. /\ more1 \in Seq(Nat \X Nat) /\ Range(more1) = LinesOf(b)
       /\ \A i, j \in DOMAIN more1 : i < j => more1[i][2] < more1[j][2]
  <2> DEFINE lo == (base + 3) \div 2
             hi == upto \div 2
  <2>1. lo \in Nat /\ hi \in Nat BY <1>4, <1>6
  <2>2. \A k \in Nat : lo <= k <=> base + 1 <= 2 * k - 1 BY <1>6
  <2>3. \A k \in Nat : k <= hi <=> 2 * k <= upto BY <1>4
  <2> HIDE DEF lo, hi
  <2>4. \A l : l \in LinesOf(b) <=> \E k \in Nat : l = <<file, k>> /\ lo <= k /\ k <= hi
    BY <1>9, <2>2, <2>3
  <2> QED BY <1>4, <2>1, <2>4, LinesInOrder
<1>11. timed' = timed \o more1 BY <1>2
<1> HIDE DEF more1
<1>12. \A l \in Range(more1) :
         \E k \in Nat : l = <<file, k>> /\ offset + 1 <= 2 * k /\ 2 * k <= upto
  <2> SUFFICES ASSUME NEW k \in Nat, base + 1 <= 2 * k - 1 PROVE offset + 1 <= 2 * k
    BY <1>9, <1>10
  <2> QED BY <1>4, <1>6, <1>7
<1>13. timed \in Seq(Nat \X Nat) BY DEF FillsInv
<1>14. /\ timed' \in Seq(Nat \X Nat) /\ Range(timed') = Range(timed) \cup Range(more1)
       /\ Len(timed') = Len(timed) + Len(more1) /\ DOMAIN timed' = 1 .. Len(timed')
       /\ DOMAIN timed = 1 .. Len(timed) /\ DOMAIN more1 = 1 .. Len(more1)
       /\ Len(timed) \in Nat /\ Len(more1) \in Nat
       /\ \A i \in 1 .. Len(timed) + Len(more1) :
            timed'[i] = IF i <= Len(timed) THEN timed[i] ELSE more1[i - Len(timed)]
  BY <1>10, <1>11, <1>13, RangeOfBoth
<1>15. \A l \in Range(timed) :
        /\ l[1] \in Nat /\ l[2] \in Nat /\ l[1] \in Made /\ 2 * l[2] <= size[l[1]]
        /\ l[1] <= file /\ (l[1] = file => 2 * l[2] <= offset)
  <2> SUFFICES ASSUME NEW l \in Range(timed)
               PROVE  /\ l[1] \in Nat /\ l[2] \in Nat /\ l[1] \in Made /\ 2 * l[2] <= size[l[1]]
                      /\ l[1] <= file /\ (l[1] = file => 2 * l[2] <= offset)
    OBVIOUS
  <2>1. l \in Nat \X Nat BY <1>13, RangeIn
  <2> QED BY <2>1, <1>3 DEF FillsInv, TimedBehind
<1>16. FillsInOrder'
  <2> DEFINE m == Len(timed)
             n == Len(more1)
  <2> SUFFICES ASSUME NEW i \in 1 .. m + n, NEW j \in 1 .. m + n, i < j
               PROVE  \/ timed'[i][1] < timed'[j][1]
                      \/ timed'[i][1] = timed'[j][1] /\ timed'[i][2] < timed'[j][2]
    BY <1>14 DEF FillsInOrder
  <2>1. m \in Nat /\ n \in Nat BY <1>14
  <2>2. CASE j <= m
    <3>1. i \in 1 .. m /\ j \in 1 .. m /\ i <= m BY <2>1, <2>2
    <3>2. timed'[i] = timed[i] /\ timed'[j] = timed[j] BY <1>14, <2>2, <3>1
    <3>3. i \in DOMAIN timed /\ j \in DOMAIN timed BY <1>14, <3>1
    <3>4. FillsInOrder BY DEF FillsInv
    <3> QED BY <3>2, <3>3, <3>4 DEF FillsInOrder
  <2>3. CASE ~(j <= m)
    <3>1. j - m \in 1 .. n BY <2>1, <2>3
    <3>2. timed'[j] = more1[j - m] BY <1>14, <2>3
    <3>3. more1[j - m] \in Range(more1) BY <1>14, <3>1 DEF Range
    <3>4. PICK k \in Nat : more1[j - m] = <<file, k>> /\ offset + 1 <= 2 * k BY <1>12, <3>3
    <3>5. timed'[j][1] = file /\ timed'[j][2] = k BY <3>2, <3>4
    <3>6. CASE i <= m
      <4>1. i \in 1 .. m /\ timed'[i] = timed[i] BY <1>14, <3>6, <2>1
      <4>2. timed[i] \in Range(timed) BY <1>14, <4>1 DEF Range
      <4>3. PICK x, y \in Nat : timed[i][1] = x /\ timed[i][2] = y /\ x <= file
                                /\ (x = file => 2 * y <= offset)
        BY <1>15, <4>2
      <4>4. x < file \/ (x = file /\ y < k) BY <1>4, <3>4, <4>3
      <4> QED BY <3>5, <4>1, <4>3, <4>4
    <3>7. CASE ~(i <= m)
      <4>1. i - m \in 1 .. n /\ i - m < j - m BY <2>1, <2>3, <3>7
      <4>2. timed'[i] = more1[i - m] BY <1>14, <3>7
      <4>3. more1[i - m] \in Range(more1) BY <1>14, <4>1 DEF Range
      <4>4. more1[i - m][1] = file BY <1>12, <4>3
      <4>5. more1[i - m][2] < more1[j - m][2] BY <1>10, <1>14, <3>1, <4>1
      <4> QED BY <3>2, <3>5, <4>2, <4>4, <4>5
    <3> QED BY <3>6, <3>7
  <2> QED BY <2>2, <2>3
<1>17. Tailing'
  <2>1. upto % 2 = 0 \/ upto % 2 = 1 BY <1>4
  <2>2. offset' \in 0 .. size'[file'] BY <1>2, <1>3, <1>4
  <2>3. IF upto % 2 = 0 THEN buf' = <<>> ELSE buf' = << <<file, upto>> >> BY <1>2, <1>8
  <2>4. \/ offset' % 2 = 0 /\ buf' = <<>>
        \/ offset' % 2 = 1 /\ buf' = << <<file', offset'>> >>
    BY <1>2, <1>3, <2>1, <2>3
  <2>5. file' \in Made' /\ tail' = "read" /\ due' \in BOOLEAN
    BY <1>3, <1>4, <1>m DEF FillsInv, Tailing
  <2> QED BY <2>2, <2>4, <2>5 DEF Tailing
<1>18. TimedBehind'
  <2> SUFFICES ASSUME NEW l \in Range(timed) \cup Range(more1)
               PROVE  /\ l[1] \in Made /\ 2 * l[2] <= size[l[1]]
                      /\ l[1] <= file /\ (l[1] = file => 2 * l[2] <= upto)
    BY <1>2, <1>3, <1>m, <1>14 DEF TimedBehind
  <2>1. CASE l \in Range(timed)
    <3>1. /\ l[1] \in Made /\ 2 * l[2] <= size[l[1]] /\ l[1] <= file
          /\ l[2] \in Nat /\ (l[1] = file => 2 * l[2] <= offset)
      BY <1>15, <2>1
    <3>2. 2 * l[2] <= offset => 2 * l[2] <= upto
      <4>1. PICK y \in Nat : y = l[2] BY <3>1
      <4>2. 2 * y <= offset => 2 * y <= upto BY <1>4
      <4> QED BY <4>1, <4>2
    <3> QED BY <3>1, <3>2
  <2>2. CASE l \in Range(more1)
    <3>1. PICK k \in Nat : l = <<file, k>> /\ 2 * k <= upto BY <1>12, <2>2
    <3>2. l[1] = file /\ l[2] = k /\ 2 * k <= size[file] BY <1>4, <3>1
    <3> QED BY <1>4, <3>1, <3>2
  <2> QED BY <2>1, <2>2
<1>19. ASSUME NEW n \in Nat, entered[file] < 2 * n - 1, 2 * n <= upto
       PROVE  <<file, n>> \in Range(timed')
  <2>1. file \in DOMAIN entered /\ entered[file] \in Nat /\ TimedOf(file, offset)
    BY <1>3 DEF FillsInv, Drained, ReadTo
  <2>2. CASE 2 * n <= offset BY <1>14, <1>19, <2>1, <2>2 DEF TimedOf
  <2>3. CASE ~(2 * n <= offset)
    <3>1. CASE base = offset - 1 \/ offset % 2 = 0
      <4>1. base + 1 <= 2 * n - 1 BY <1>4, <1>6, <1>7, <2>3, <3>1
      <4> QED BY <1>9, <1>10, <1>14, <1>19, <4>1
    <3>2. CASE base # offset - 1 /\ entered[file] = offset
      <4>1. base + 1 <= 2 * n - 1 BY <1>4, <1>6, <1>7, <1>19, <2>3, <3>2
      <4> QED BY <1>9, <1>10, <1>14, <1>19, <4>1
    <3> QED BY <1>7, <3>1, <3>2
  <2> QED BY <2>2, <2>3
<1>20. Drained'
  <2>1. \A f \in DOMAIN entered : f # file => (TimedOf(f, ReadTo(f)))'
    <3>1. \A f \in DOMAIN entered : f # file => ReadTo(f)' = ReadTo(f) /\ TimedOf(f, ReadTo(f))
      BY <1>3 DEF FillsInv, Drained, ReadTo
    <3> QED BY <1>3, <1>14, <3>1 DEF TimedOf
  <2>2. (TimedOf(file, ReadTo(file)))'
    <3>1. ReadTo(file)' = upto BY <1>2, <1>3 DEF ReadTo
    <3> QED BY <1>3, <1>19, <3>1 DEF TimedOf
  <2>3. entered[file] <= upto /\ file \in DOMAIN entered
    <3>1. file \in DOMAIN entered /\ entered[file] <= offset /\ entered[file] \in Nat
      BY <1>3 DEF FillsInv, Drained
    <3> QED BY <1>4, <3>1
  <2>4. /\ DOMAIN drained \subseteq DOMAIN entered /\ \A f \in DOMAIN drained : drained[f] \in Nat
        /\ \A f \in DOMAIN entered :
            f \in Nat /\ f <= file /\ entered[f] \in Nat /\ (f # file => f \in DOMAIN drained)
    BY DEF FillsInv, Drained
  <2>5. ASSUME NEW f \in DOMAIN entered PROVE (TimedOf(f, ReadTo(f)))'
    <3>1. CASE f = file BY <1>3, <2>2, <3>1 DEF TimedOf, ReadTo
    <3>2. CASE f # file BY <2>1, <3>2
    <3> QED BY <3>1, <3>2
  <2> QED BY <1>2, <1>3, <2>3, <2>4, <2>5 DEF Drained
<1>21. Hourly' BY <1>3, <1>m, <1>h DEF Hourly
<1> QED BY <1>14, <1>16, <1>17, <1>18, <1>20, <1>21 DEF FillsInv

(* The tail finds nothing more in a file. *)
LEMMA EofKeepsFills ==
    ASSUME FillsInv, ReadNothing
    PROVE  FillsInv'
<1>1. /\ UNCHANGED <<size, days, file, offset, buf, due, entered, timed>>
      /\ tail = "read" /\ tail' = "eof"
      /\ drained' = [f \in DOMAIN drained \cup {file} |-> IF f = file THEN offset ELSE drained[f]]
  BY DEF ReadNothing
<1>2. \A f : f # file /\ f \in DOMAIN drained => drained'[f] = drained[f] BY <1>1
<1>3. DOMAIN drained' = DOMAIN drained \cup {file} /\ drained'[file] = offset BY <1>1
<1>4. \A f \in DOMAIN entered : ReadTo(f)' = ReadTo(f)
  BY <1>1, <1>2 DEF FillsInv, Drained, ReadTo
<1>5. Drained'
  <2>1. \A f \in DOMAIN drained' : drained'[f] \in Nat
    BY <1>1, <1>2, <1>3 DEF FillsInv, Drained, Tailing
  <2> QED BY <1>1, <1>3, <1>4, <2>1 DEF FillsInv, Drained, TimedOf
<1>m. Made' = Made BY <1>1 DEF Made
<1>6. Hourly' BY <1>1, <1>m DEF FillsInv, Hourly
<1>7. Tailing' BY <1>1, <1>m DEF FillsInv, Tailing
<1>8. TimedBehind' BY <1>1, <1>m DEF FillsInv, TimedBehind
<1>9. FillsInOrder' /\ timed' \in Seq(Nat \X Nat) BY <1>1 DEF FillsInv, FillsInOrder
<1> QED BY <1>5, <1>6, <1>7, <1>8, <1>9 DEF FillsInv

(* It sleeps, or goes over to the newest file, which it has not been in. *)
LEMMA RecheckKeepsFills ==
    ASSUME FillsInv, Recheck
    PROVE  FillsInv'
<1>h. Hourly BY DEF FillsInv
<1>1. /\ UNCHANGED <<size, days, timed, drained>> /\ tail = "eof" /\ tail' = "read" /\ due' = FALSE
  BY DEF Recheck
<1>m. Made' = Made BY <1>1 DEF Made
<1>2. CASE UNCHANGED <<file, offset, buf, entered>>
  <2>1. Hourly' BY <1>1, <1>m DEF FillsInv, Hourly
  <2>2. Tailing' BY <1>1, <1>2, <1>m DEF FillsInv, Tailing
  <2>3. TimedBehind' BY <1>1, <1>2, <1>m DEF FillsInv, TimedBehind
  <2>4. FillsInOrder' /\ timed' \in Seq(Nat \X Nat) BY <1>1 DEF FillsInv, FillsInOrder
  <2>5. Drained' BY <1>1, <1>2 DEF FillsInv, Drained, ReadTo, TimedOf
  <2> QED BY <2>1, <2>2, <2>3, <2>4, <2>5 DEF FillsInv
<1>3. CASE /\ Newest # file /\ file' = Newest /\ offset' = 0 /\ buf' = <<>>
           /\ entered' = [f \in DOMAIN entered \cup {Newest} |->
                            IF f = Newest THEN 0 ELSE entered[f]]
  <2>1. file \in Made BY <1>1 DEF FillsInv, Tailing
  <2>2. Newest = Cardinality(Made) /\ Newest \in Made BY <1>h, <2>1, NewestIsLast
  <2>3. file \in Nat /\ Newest \in Nat /\ file < Newest /\ size[Newest] \in Nat
    BY <1>3, <1>h, <2>1, <2>2, MadeFiles DEF Hourly
  <2>4. \A f \in DOMAIN entered : f \in Nat /\ f <= file /\ f # Newest
    BY <2>3 DEF FillsInv, Drained
  <2>5. /\ DOMAIN entered' = DOMAIN entered \cup {Newest} /\ entered'[Newest] = 0
        /\ \A f \in DOMAIN entered : entered'[f] = entered[f]
    BY <1>3, <2>4
  <2>6. Tailing'
    <3>1. 0 % 2 = 0 /\ 0 \in 0 .. size[Newest] BY <2>3
    <3> QED BY <1>1, <1>3, <1>m, <2>2, <3>1 DEF Tailing
  <2>7. TimedBehind'
    <3>1. \A l \in Range(timed) : l[1] <= Newest /\ l[1] # Newest
      <4> SUFFICES ASSUME NEW l \in Range(timed) PROVE l[1] <= Newest /\ l[1] # Newest OBVIOUS
      <4>1. l[1] <= file /\ l[1] \in Made BY <1>1 DEF FillsInv, TimedBehind
      <4>2. l[1] \in Nat BY <1>h, <4>1, MadeFiles
      <4> QED BY <2>3, <4>1, <4>2
    <3> QED BY <1>1, <1>3, <1>m, <3>1 DEF FillsInv, TimedBehind
  <2>8. Drained'
    <3>1. file \in DOMAIN drained /\ drained[file] = offset BY <1>1 DEF FillsInv, Drained
    <3>2. \A f \in DOMAIN entered : ReadTo(f)' = ReadTo(f)
      BY <1>1, <1>3, <2>4, <3>1 DEF ReadTo
    <3>4. \A k \in Nat : ~(0 < 2 * k - 1 /\ 2 * k <= 0) OBVIOUS
    <3>5. \A f \in DOMAIN entered' :
            /\ f \in Nat /\ f <= file' /\ entered'[f] \in Nat
            /\ f # file' => f \in DOMAIN drained'
      <4> SUFFICES ASSUME NEW f \in DOMAIN entered, f # Newest
                   PROVE f \in Nat /\ f <= Newest /\ entered[f] \in Nat /\ f \in DOMAIN drained
        BY <1>1, <1>3, <2>3, <2>5
      <4>1. f \in Nat /\ f <= file BY <2>4
      <4>2. entered[f] \in Nat /\ f \in DOMAIN drained BY <3>1 DEF FillsInv, Drained
      <4> QED BY <2>3, <4>1, <4>2
    <3>6. \A f \in DOMAIN entered' : (TimedOf(f, ReadTo(f)))'
      <4>1. \A f \in DOMAIN entered : TimedOf(f, ReadTo(f)) BY DEF FillsInv, Drained
      <4> SUFFICES ASSUME NEW f \in DOMAIN entered \cup {Newest} PROVE (TimedOf(f, ReadTo(f)))'
        BY <2>5
      <4>2. CASE f \in DOMAIN entered
        BY <1>1, <2>5, <3>2, <4>1, <4>2 DEF TimedOf
      <4>3. CASE f = Newest
        <5>1. entered'[f] = 0 /\ ReadTo(f)' = 0 BY <1>3, <2>5, <4>3 DEF ReadTo
        <5> QED BY <3>4, <5>1 DEF TimedOf
      <4> QED BY <4>2, <4>3
    <3>7. DOMAIN drained' \subseteq DOMAIN entered' /\ \A f \in DOMAIN drained' : drained'[f] \in Nat
      BY <1>1, <2>5 DEF FillsInv, Drained
    <3>8. file' \in DOMAIN entered' /\ entered'[file'] <= offset' BY <1>3, <2>5
    <3> QED BY <1>1, <3>5, <3>6, <3>7, <3>8 DEF Drained
  <2>9. Hourly' BY <1>1, <1>m, <1>h DEF Hourly
  <2>10. FillsInOrder' BY <1>1 DEF FillsInv, FillsInOrder
  <2> QED BY <1>1, <2>6, <2>7, <2>8, <2>9, <2>10 DEF FillsInv
<1> QED BY <1>2, <1>3 DEF Recheck, Switched

(* A second passes, or the tail fails and forgets where it was. *)
LEMMA OthersKeepFills ==
    ASSUME FillsInv, RecheckDue \/ Fail \/ UNCHANGED fillsVars
    PROVE  FillsInv'
<1>1. UNCHANGED <<size, days, timed>> BY DEF RecheckDue, Fail, fillsVars
<1>m. Made' = Made BY <1>1 DEF Made
<1>2. Hourly' /\ FillsInOrder' /\ timed' \in Seq(Nat \X Nat)
  <2>1. Hourly' BY <1>1, <1>m DEF FillsInv, Hourly
  <2> QED BY <1>1, <2>1 DEF FillsInv, FillsInOrder
<1>3. CASE RecheckDue \/ UNCHANGED fillsVars
  <2>1. UNCHANGED <<tail, file, offset, buf, entered, drained>> /\ due' \in BOOLEAN
    BY <1>3 DEF RecheckDue, fillsVars, FillsInv, Tailing
  <2>2. Tailing' BY <1>1, <1>m, <2>1 DEF FillsInv, Tailing
  <2>3. TimedBehind' BY <1>1, <1>m, <2>1 DEF FillsInv, TimedBehind
  <2>4. Drained' BY <1>1, <2>1 DEF FillsInv, Drained, ReadTo, TimedOf
  <2> QED BY <1>2, <2>2, <2>3, <2>4 DEF FillsInv
<1>4. CASE Fail
  <2>1. /\ tail' = "down" /\ due' = FALSE
        /\ entered' = [f \in {} |-> 0] /\ drained' = [f \in {} |-> 0]
    BY <1>4 DEF Fail
  <2>2. TimedBehind' BY <1>1, <1>m, <2>1 DEF FillsInv, TimedBehind
  <2>3. Tailing' BY <2>1 DEF Tailing
  <2>4. Drained' BY <2>1 DEF Drained
  <2> QED BY <1>2, <2>2, <2>3, <2>4 DEF FillsInv
<1> QED BY <1>3, <1>4

(* The tail starts with nothing timed and nothing made. *)
LEMMA FillsInitInv == FillsInit => FillsInv
<1> SUFFICES ASSUME FillsInit PROVE FillsInv OBVIOUS
<1>1. /\ size = [f \in {} |-> 0] /\ days = {} /\ tail = "down" /\ due = FALSE /\ timed = <<>>
      /\ entered = [f \in {} |-> 0] /\ drained = [f \in {} |-> 0]
  BY DEF FillsInit
<1>2. Made = {} BY <1>1 DEF Made
<1>3. Cardinality(Made) = 0 BY <1>2, FS_EmptySet
<1>4. Hourly BY <1>1, <1>2, <1>3 DEF Hourly
<1>5. Range(timed) = {} /\ DOMAIN timed = {} /\ timed \in Seq(Nat \X Nat) BY <1>1 DEF Range
<1>6. Tailing BY <1>1 DEF Tailing
<1>7. FillsInOrder BY <1>5 DEF FillsInOrder
<1>8. TimedBehind BY <1>1, <1>5 DEF TimedBehind
<1>9. Drained BY <1>1 DEF Drained
<1> QED BY <1>4, <1>5, <1>6, <1>7, <1>8, <1>9 DEF FillsInv

(* Every step of the node, of the clock and of the tail keeps the invariant. *)
LEMMA FillsStepInv == FillsInv /\ [FillsNext]_fillsVars => FillsInv'
<1> SUFFICES ASSUME FillsInv, [FillsNext]_fillsVars PROVE FillsInv' OBVIOUS
<1>1. CASE Append1 \/ MakeDay \/ NextHour BY <1>1, NodeStepKeepsFills
<1>2. CASE Start BY <1>2, StartKeepsFills
<1>3. CASE ReadSome BY <1>3, ReadKeepsFills
<1>4. CASE ReadNothing BY <1>4, EofKeepsFills
<1>5. CASE Recheck BY <1>5, RecheckKeepsFills
<1>6. CASE RecheckDue \/ Fail \/ UNCHANGED fillsVars BY <1>6, OthersKeepFills
<1> QED BY <1>1, <1>2, <1>3, <1>4, <1>5, <1>6 DEF FillsNext

(* The states of the node's hour files and of the tail over them have their types.   *)
THEOREM FillsTypes == FillsSpec => []FillsTypeOK
<1>1. FillsInv => FillsTypeOK BY DEF FillsInv, Hourly, Tailing, Drained, FillsTypeOK
<1> QED BY <1>1, FillsInitInv, FillsStepInv, PTL DEF FillsSpec

(* The lines are timed in the order in which the node wrote them, and none of them   *)
(* twice: neither a restart of the tail, which begins at the end of the newest file, *)
(* nor a move to a new hour, which begins at its first byte, reads a line again      *)
(* (collect_fills, tail_fill_hour).                                                  *)
THEOREM FillsStayInOrder == FillsSpec => []FillsInOrder
<1>1. FillsInv => FillsInOrder BY DEF FillsInv
<1> QED BY <1>1, FillsInitInv, FillsStepInv, PTL DEF FillsSpec

(* Of the lines written after the tail came into a file, it loses only what the node *)
(* wrote there after the tail last found nothing more in it, within the second before *)
(* it saw the next hour's file.                                                       *)
THEOREM FillsLossIsBounded == FillsSpec => []FillsLossIsLastSecond
<1>1. FillsInv => FillsLossIsLastSecond
  <2> SUFFICES ASSUME FillsInv, NEW f \in Made, NEW n \in 1 .. LinesIn(f, size[f]),
                      AfterEntry(f, n), f # file, <<f, n>> \notin Range(timed)
               PROVE  2 * n > drained[f]
    BY DEF FillsLossIsLastSecond
  <2>1. f \in DOMAIN entered /\ entered[f] < 2 * n - 1
    <3>1. f \in DOMAIN entered /\ 2 * n - 1 > entered[f] BY DEF AfterEntry
    <3>2. entered[f] \in Nat BY <3>1 DEF FillsInv, Drained
    <3> QED BY <3>1, <3>2
  <2>2. TimedOf(f, drained[f]) BY <2>1 DEF FillsInv, Drained, ReadTo
  <2>3. ~(2 * n <= drained[f]) BY <2>1, <2>2 DEF TimedOf
  <2>4. drained[f] \in Nat BY <2>1 DEF FillsInv, Drained
  <2> QED BY <2>3, <2>4
<1> QED BY <1>1, FillsInitInv, FillsStepInv, PTL DEF FillsSpec
-----------------------------------------------------------------------------
(* The join of the mempool's two legs. *)

Maybe     == Nat \cup {None}
Inputs    == [leg : Legs, hash : Hashes, at : Nat, recv : Nat]
Entries   == [recv : Maybe, vpc : Maybe, grpc : Maybe, seen : Nat]
Emissions == [event : Nat, vpc : Maybe, grpc : Maybe, at : Nat]

Shape ==
    /\ joinNow \in Nat
    /\ hand \in [Legs -> Inputs \cup {Idle}]
    /\ joinQueue \in Seq(Inputs)
    /\ DOMAIN open \subseteq Hashes /\ open \in [DOMAIN open -> Entries]
    /\ DOMAIN done \subseteq Hashes /\ done \in [DOMAIN done -> Nat]
    /\ emitted \in [Hashes -> Seq(Emissions)]
    /\ firstRead \in [Legs -> [Hashes -> Maybe]]

LegOf(e, l) == IF l = "vpc" THEN e.vpc ELSE e.grpc

\* Nothing is of the future.
PastEntry(e) == e.recv <= joinNow /\ e.vpc <= joinNow /\ e.grpc <= joinNow /\ e.seen <= joinNow

Past ==
    /\ \A i \in DOMAIN joinQueue : joinQueue[i].at <= joinNow /\ joinQueue[i].recv <= joinNow
    /\ \A l \in Legs : hand[l] # Idle => hand[l].at <= joinNow /\ hand[l].recv <= joinNow
    /\ \A h \in DOMAIN open : PastEntry(open[h])

\* An entry is open for one leg, and for a bundle that is not remembered.
Half ==
    \A h \in DOMAIN open :
        h \notin DOMAIN done /\ ~Complete(open[h]) /\ (open[h].vpc # None \/ open[h].grpc # None)

\* A bundle is forgotten no sooner than DoneRetain after its last emission.
Spaced(h) ==
    /\ \A i, j \in DOMAIN emitted[h] :
        i < j => emitted[h][j].at - emitted[h][i].at >= DoneRetain
    /\ \A i \in DOMAIN emitted[h] :
        IF h \in DOMAIN done THEN emitted[h][i].at <= done[h]
        ELSE joinNow - emitted[h][i].at >= DoneRetain
    /\ h \in DOMAIN done => emitted[h] # <<>> /\ done[h] <= joinNow

Spacing == \A h \in Hashes : Spaced(h)

IsOf(input, l, h) == input.leg = l /\ input.hash = h

InEntry(l, h) == h \in DOMAIN open /\ LegOf(open[h], l) # None
HandOf(l, h)  == hand[l] # Idle /\ hand[l].hash = h

\* Of a bundle not yet emitted: the entry has the leg's first copy, or it is the first in the
\* queue, or in the hand of the reader; and it is in one of them if the leg has read any.
Following(l, h) ==
    /\ InEntry(l, h) => LegOf(open[h], l) = firstRead[l][h]
    /\ ~InEntry(l, h) =>
        /\ \A i \in DOMAIN joinQueue :
            IsOf(joinQueue[i], l, h) /\ (\A j \in 1 .. i - 1 : ~IsOf(joinQueue[j], l, h))
                => joinQueue[i].at = firstRead[l][h]
        /\ HandOf(l, h) /\ (\A j \in DOMAIN joinQueue : ~IsOf(joinQueue[j], l, h))
                => hand[l].at = firstRead[l][h]
    /\ firstRead[l][h] # None <=>
        \/ InEntry(l, h)
        \/ \E i \in DOMAIN joinQueue : IsOf(joinQueue[i], l, h)
        \/ HandOf(l, h)

\* A reader holds copies of its own leg.
OwnLeg == \A l \in Legs : hand[l] # Idle => hand[l].leg = l

FirstIsTrue(h) ==
    LET e == Head(emitted[h]) IN
    /\ \A l \in Legs : LegOf(e, l) # None => LegOf(e, l) = firstRead[l][h] /\ e.event <= LegOf(e, l)
    /\ e.event <= e.at

Followed == \A h \in Hashes : IF emitted[h] = <<>> THEN \A l \in Legs : Following(l, h) ELSE FirstIsTrue(h)

JoinInv == Shape /\ Past /\ Half /\ Spacing /\ OwnLeg /\ Followed
-----------------------------------------------------------------------------
(* The operators. *)

\* The reference time of an entry with a leg is one of its times and none is less.
LEMMA ReferenceIsLeast ==
    ASSUME NEW e \in Entries, e.vpc # None \/ e.grpc # None
    PROVE  /\ ReferenceMs(e) \in {e.recv, e.vpc, e.grpc} \ {None}
           /\ \A u \in {e.recv, e.vpc, e.grpc} \ {None} : ReferenceMs(e) <= u
<1> DEFINE S == {e.recv, e.vpc, e.grpc} \ {None}
<1>1. S # {} /\ S \subseteq Nat
    BY DEF Entries, Maybe
<1>2. \E t \in S : \A u \in S : t <= u
    <2>1. PICK a, b, c \in Maybe : S = {a, b, c} \ {None}
        BY DEF Entries
    <2>2. QED
        BY <1>1, <2>1 DEF Maybe, None
<1>3. QED
    BY <1>2 DEF ReferenceMs

\* What is emitted of an entry that has a leg: the times of its legs, the present, and an
\* event no later than either.
LEMMA EmissionIsTrue ==
    ASSUME Shape, NEW e \in Entries, PastEntry(e), e.vpc # None \/ e.grpc # None
    PROVE  /\ Emission(e) \in Emissions
           /\ Emission(e).at = joinNow /\ Emission(e).event <= joinNow
           /\ \A l \in Legs : /\ LegOf(Emission(e), l) = LegOf(e, l)
                              /\ LegOf(e, l) # None => Emission(e).event <= LegOf(e, l)
<1>1. /\ ReferenceMs(e) \in {e.recv, e.vpc, e.grpc} \ {None}
      /\ \A u \in {e.recv, e.vpc, e.grpc} \ {None} : ReferenceMs(e) <= u
    BY ReferenceIsLeast
<1>2. /\ e.recv \in Maybe /\ e.vpc \in Maybe /\ e.grpc \in Maybe
      /\ e.recv <= joinNow /\ e.vpc <= joinNow /\ e.grpc <= joinNow /\ joinNow \in Nat
    BY DEF Entries, PastEntry, Shape
<1>3. ReferenceMs(e) \in Nat /\ ReferenceMs(e) <= joinNow
    BY <1>1, <1>2 DEF Maybe
<1>4. /\ Emission(e).event = ReferenceMs(e) /\ Emission(e).vpc = e.vpc
      /\ Emission(e).grpc = e.grpc /\ Emission(e).at = joinNow
    BY DEF Emission
<1>5. Emission(e) \in Emissions
    BY <1>2, <1>3 DEF Emission, Emissions
<1>6. QED
    BY <1>1, <1>3, <1>4, <1>5 DEF LegOf, Legs

\* An input fills its own leg if that is empty and leaves the other; the entry has a leg then.
LEMMA WithLegFills ==
    ASSUME Shape, Past, NEW e \in Entries, PastEntry(e), NEW input \in Inputs,
           input.at <= joinNow, input.recv <= joinNow
    PROVE  /\ WithLeg(e, input) \in Entries /\ PastEntry(WithLeg(e, input))
           /\ WithLeg(e, input).vpc # None \/ WithLeg(e, input).grpc # None
           /\ \A l \in Legs : LegOf(WithLeg(e, input), l) =
                IF l = input.leg /\ LegOf(e, l) = None THEN input.at ELSE LegOf(e, l)
<1>1. /\ input.leg \in {"vpc", "grpc"} /\ input.at \in Nat /\ input.recv \in Nat
      /\ e.recv \in Maybe /\ e.vpc \in Maybe /\ e.grpc \in Maybe /\ e.seen \in Nat
    BY DEF Inputs, Entries, Legs
<1>2. CASE input.leg = "vpc" /\ e.vpc = None
    <2> DEFINE f == [e EXCEPT !.vpc = input.at, !.recv = input.recv]
    <2>1. WithLeg(e, input) = f
        BY <1>2 DEF WithLeg
    <2>2. f \in Entries /\ f.vpc = input.at /\ f.recv = input.recv /\ f.grpc = e.grpc /\ f.seen = e.seen
        BY <1>1 DEF Entries, Maybe
    <2>3. QED
        BY <1>1, <1>2, <2>1, <2>2 DEF LegOf, Legs, PastEntry, None
<1>3. CASE input.leg = "grpc" /\ e.grpc = None
    <2> DEFINE f == [e EXCEPT !.grpc = input.at]
    <2>1. WithLeg(e, input) = f
        BY <1>3 DEF WithLeg
    <2>2. f \in Entries /\ f.vpc = e.vpc /\ f.recv = e.recv /\ f.grpc = input.at /\ f.seen = e.seen
        BY <1>1 DEF Entries, Maybe
    <2>3. QED
        BY <1>1, <1>3, <2>1, <2>2 DEF LegOf, Legs, PastEntry, None
<1>4. CASE LegOf(e, input.leg) # None
    <2>1. WithLeg(e, input) = e
        BY <1>1, <1>4 DEF WithLeg, LegOf
    <2>2. QED
        BY <1>1, <1>4, <2>1 DEF LegOf, Legs
<1>5. QED
    BY <1>1, <1>2, <1>3, <1>4 DEF LegOf

\* A fresh entry is as empty as no entry.
LEMMA OfferedIsEntry ==
    ASSUME Shape, Past, NEW h \in Hashes
    PROVE  /\ OfferedTo(h) \in Entries /\ PastEntry(OfferedTo(h))
           /\ \A l \in Legs : LegOf(OfferedTo(h), l) =
                IF h \in DOMAIN open THEN LegOf(open[h], l) ELSE None
<1>1. CASE h \in DOMAIN open
    BY <1>1 DEF OfferedTo, Shape, Past
<1>2. CASE h \notin DOMAIN open
    <2>1. OfferedTo(h) = [recv |-> None, vpc |-> None, grpc |-> None, seen |-> joinNow]
        BY <1>2 DEF OfferedTo, NoEntry
    <2>2. QED
        BY <1>2, <2>1 DEF Shape, Entries, Maybe, PastEntry, LegOf, None
<1>3. QED
    BY <1>1, <1>2
-----------------------------------------------------------------------------
(* The readers. *)

\* A first copy is followed wherever its place in the queue moves to.
LEMMA TailFollows ==
    ASSUME Shape, joinQueue # <<>>, joinQueue' = Tail(joinQueue), hand' = hand, firstRead' = firstRead,
           NEW l \in Legs, NEW h \in Hashes, Following(l, h), ~IsOf(Head(joinQueue), l, h),
           InEntry(l, h)' <=> InEntry(l, h), InEntry(l, h) => LegOf(open[h], l)' = LegOf(open[h], l)
    PROVE  Following(l, h)'
<1> DEFINE q == joinQueue
<1>1. /\ q \in Seq(Inputs) /\ Len(q) \in Nat \ {0} /\ DOMAIN q = 1 .. Len(q)
      /\ DOMAIN q' = 1 .. Len(q) - 1 /\ \A i \in 1 .. Len(q) - 1 : q'[i] = q[i + 1]
      /\ q[1] = Head(q)
    BY HeadTailProperties DEF Shape
<1>2. (\E i \in DOMAIN q : IsOf(q[i], l, h)) <=> (\E i \in DOMAIN q' : IsOf(q'[i], l, h))
    <2>1. ASSUME NEW i \in DOMAIN q, IsOf(q[i], l, h) PROVE \E k \in DOMAIN q' : IsOf(q'[k], l, h)
        <3>1. i - 1 \in DOMAIN q' /\ q'[i - 1] = q[i]
            BY <1>1, <2>1
        <3>2. QED
            BY <2>1, <3>1
    <2>2. ASSUME NEW i \in DOMAIN q', IsOf(q'[i], l, h) PROVE \E k \in DOMAIN q : IsOf(q[k], l, h)
        BY <1>1, <2>2
    <2>3. QED
        BY <2>1, <2>2
<1>3. ASSUME NEW i \in DOMAIN q', IsOf(q'[i], l, h), \A j \in 1 .. i - 1 : ~IsOf(q'[j], l, h), ~InEntry(l, h)
      PROVE  q'[i].at = firstRead[l][h]
    <2>1. i + 1 \in DOMAIN q /\ q[i + 1] = q'[i]
        BY <1>1
    <2>2. \A j \in 1 .. (i + 1) - 1 : ~IsOf(q[j], l, h)
        <3>1. SUFFICES ASSUME NEW j \in 1 .. i PROVE ~IsOf(q[j], l, h)
            BY <1>1
        <3>2. CASE j = 1
            BY <1>1, <3>2
        <3>3. CASE j # 1
            <4>1. j - 1 \in 1 .. i - 1 /\ q'[j - 1] = q[j]
                BY <1>1, <3>3
            <4>2. QED
                BY <1>3, <4>1
        <3>4. QED
            BY <3>2, <3>3
    <2>3. QED
        BY <1>3, <2>1, <2>2 DEF Following
<1>4. HandOf(l, h)' <=> HandOf(l, h)
    BY DEF HandOf
<1>5. QED
    BY <1>2, <1>3, <1>4 DEF Following

\* A leg whose entry has its first copy is followed by that alone.
LEMMA EntryFollows ==
    ASSUME NEW l \in Legs, NEW h \in Hashes, InEntry(l, h)', firstRead[l][h]' # None,
           LegOf(open[h], l)' = firstRead[l][h]'
    PROVE  Following(l, h)'
BY DEF Following

\* An input at the end of the queue is the leg's first copy or comes after it.
LEMMA AppendFollows ==
    ASSUME Shape, NEW input \in Inputs, joinQueue' = Append(joinQueue, input), open' = open,
           NEW l \in Legs, NEW h \in Hashes, Following(l, h),
           IF IsOf(input, l, h)
           THEN /\ ~HandOf(l, h)' /\ firstRead'[l][h] # None
                /\ firstRead[l][h] # None => firstRead'[l][h] = firstRead[l][h]
                /\ (~InEntry(l, h) /\ \A j \in DOMAIN joinQueue : ~IsOf(joinQueue[j], l, h))
                        => input.at = firstRead'[l][h]
           ELSE /\ HandOf(l, h)' <=> HandOf(l, h)
                /\ HandOf(l, h) => hand'[l] = hand[l]
                /\ firstRead'[l][h] = firstRead[l][h]
    PROVE  Following(l, h)'
<1> DEFINE q == joinQueue
<1>1. /\ Len(q) \in Nat /\ DOMAIN q = 1 .. Len(q) /\ DOMAIN q' = 1 .. Len(q) + 1
      /\ \A i \in 1 .. Len(q) : q'[i] = q[i]
      /\ q'[Len(q) + 1] = input
    BY AppendProperties DEF Shape
<1>2. InEntry(l, h)' <=> InEntry(l, h)
    BY DEF InEntry
<1>3. CASE IsOf(input, l, h)
    <2>1. ASSUME ~InEntry(l, h), NEW i \in DOMAIN q', IsOf(q'[i], l, h),
                 \A j \in 1 .. i - 1 : ~IsOf(q'[j], l, h)
          PROVE  q'[i].at = firstRead'[l][h]
        <3>1. CASE i = Len(q) + 1
            BY <1>1, <1>3, <2>1, <3>1
        <3>2. CASE i \in 1 .. Len(q)
            <4>1. IsOf(q[i], l, h) /\ \A j \in 1 .. i - 1 : ~IsOf(q[j], l, h)
                BY <1>1, <2>1, <3>2
            <4>2. q[i].at = firstRead[l][h] /\ firstRead[l][h] # None
                BY <1>1, <2>1, <3>2, <4>1 DEF Following
            <4>3. QED
                BY <1>1, <1>3, <3>2, <4>2
        <3>3. QED
            BY <1>1, <3>1, <3>2
    <2>2. InEntry(l, h) => LegOf(open[h], l)' = firstRead'[l][h]
        BY <1>3 DEF Following
    <2>3. \E i \in DOMAIN q' : IsOf(q'[i], l, h)
        BY <1>1, <1>3
    <2>4. ~HandOf(l, h)' /\ firstRead'[l][h] # None
        BY <1>3
    <2>5. QED
        BY <1>2, <2>1, <2>2, <2>3, <2>4 DEF Following
<1>4. CASE ~IsOf(input, l, h)
    <2>1. (\E i \in DOMAIN q : IsOf(q[i], l, h)) <=> (\E i \in DOMAIN q' : IsOf(q'[i], l, h))
        BY <1>1, <1>4
    <2>2. ASSUME ~InEntry(l, h), NEW i \in DOMAIN q', IsOf(q'[i], l, h),
                 \A j \in 1 .. i - 1 : ~IsOf(q'[j], l, h)
          PROVE  q'[i].at = firstRead'[l][h]
        <3>1. i \in 1 .. Len(q) /\ IsOf(q[i], l, h) /\ \A j \in 1 .. i - 1 : ~IsOf(q[j], l, h)
            BY <1>1, <1>4, <2>2
        <3>2. QED
            BY <1>1, <1>4, <2>2, <3>1 DEF Following
    <2>3. ASSUME ~InEntry(l, h), HandOf(l, h), \A j \in DOMAIN q' : ~IsOf(q'[j], l, h)
          PROVE  hand'[l].at = firstRead'[l][h]
        BY <1>4, <2>1, <2>3 DEF Following
    <2>4. InEntry(l, h) => LegOf(open[h], l)' = firstRead'[l][h]
        BY <1>4 DEF Following
    <2>5. HandOf(l, h)' <=> HandOf(l, h)
        BY <1>4
    <2>6. firstRead'[l][h] = firstRead[l][h]
        BY <1>4
    <2>7. QED
        BY <1>2, <2>1, <2>2, <2>3, <2>4, <2>5, <2>6 DEF Following
<1>5. QED
    BY <1>3, <1>4

\* A first emission stays true: what a leg read first is never read again.
LEMMA FirstStays ==
    ASSUME NEW h \in Hashes, emitted[h]' = emitted[h], FirstIsTrue(h),
           \A l \in Legs : firstRead[l][h] # None => firstRead'[l][h] = firstRead[l][h]
    PROVE  FirstIsTrue(h)'
BY DEF FirstIsTrue
-----------------------------------------------------------------------------
(* One lemma for each action. *)

\* The times of what was emitted and is remembered are times.
LEMMA EmissionTimes ==
    ASSUME Shape, NEW h \in Hashes
    PROVE  /\ emitted[h] \in Seq(Emissions) /\ DOMAIN emitted[h] = 1 .. Len(emitted[h])
           /\ \A i \in DOMAIN emitted[h] : emitted[h][i].at \in Nat
           /\ h \in DOMAIN done => done[h] \in Nat
<1>1. emitted[h] \in Seq(Emissions)
    BY DEF Shape
<1>2. \A i \in DOMAIN emitted[h] : emitted[h][i] \in Emissions
    BY <1>1, ElementOfSeq
<1>3. \A i \in DOMAIN emitted[h] : emitted[h][i].at \in Nat
    BY <1>2 DEF Emissions
<1>4. h \in DOMAIN done => done[h] \in Nat
    BY DEF Shape
<1>5. QED
    BY <1>1, <1>3, <1>4

\* The initial state.
LEMMA InitKeeps ==
    ASSUME JoinInit
    PROVE  JoinInv
<1> USE JoinAssumption
<1>1. Shape
    BY DEF JoinInit, Shape, Maybe, Entries
<1>2. Past /\ Half /\ OwnLeg
    BY DEF JoinInit, Past, Half, OwnLeg
<1>3. Spacing
    BY DEF JoinInit, Spacing, Spaced
<1>4. Followed
    <2>1. ASSUME NEW l \in Legs, NEW h \in Hashes PROVE Following(l, h)
        BY DEF JoinInit, Following, InEntry, HandOf
    <2>2. QED
        BY <2>1 DEF JoinInit, Followed
<1>5. QED
    BY <1>1, <1>2, <1>3, <1>4 DEF JoinInv

\* Time passes: what is of the past stays so.
LEMMA ElapseKeeps ==
    ASSUME JoinInv, JoinElapse
    PROVE  JoinInv'
<1> USE JoinAssumption
<1>1. /\ joinNow' = joinNow + 1 /\ joinNow \in Nat
      /\ UNCHANGED <<hand, joinQueue, open, done, emitted, firstRead>>
    BY DEF JoinElapse, JoinInv, Shape
<1>2. Shape'
    BY <1>1 DEF JoinInv, Shape
<1>3. Past'
    <2>1. ASSUME NEW h \in DOMAIN open PROVE PastEntry(open[h])'
        <3>1. open[h] \in Entries /\ PastEntry(open[h])
            BY DEF JoinInv, Shape, Past
        <3>2. QED
            BY <1>1, <3>1 DEF PastEntry, Entries, Maybe, None
    <2>2. ASSUME NEW i \in DOMAIN joinQueue PROVE joinQueue[i].at <= joinNow' /\ joinQueue[i].recv <= joinNow'
        <3>1. joinQueue[i] \in Inputs
            BY ElementOfSeq DEF JoinInv, Shape
        <3>2. QED
            BY <1>1, <3>1 DEF JoinInv, Past, Inputs
    <2>3. ASSUME NEW l \in Legs, hand[l] # Idle PROVE hand[l].at <= joinNow' /\ hand[l].recv <= joinNow'
        <3>1. hand[l] \in Inputs
            BY <2>3 DEF JoinInv, Shape
        <3>2. QED
            BY <1>1, <2>3, <3>1 DEF JoinInv, Past, Inputs
    <2>4. QED
        BY <1>1, <2>1, <2>2, <2>3 DEF Past
<1>4. Half' /\ OwnLeg'
    BY <1>1 DEF JoinInv, Half, OwnLeg
<1>5. Spacing'
    <2>1. SUFFICES ASSUME NEW h \in Hashes PROVE Spaced(h)'
        BY DEF Spacing
    <2>2. /\ Spaced(h)
          /\ h \in DOMAIN done => done[h] \in Nat
          /\ \A i \in DOMAIN emitted[h] : emitted[h][i].at \in Nat
        BY EmissionTimes DEF JoinInv, Spacing
    <2>3. QED
        BY <1>1, <2>2 DEF Spaced
<1>6. Followed'
    BY <1>1 DEF JoinInv, Followed, FirstIsTrue, Following, InEntry, HandOf
<1>7. QED
    BY <1>2, <1>3, <1>4, <1>5, <1>6 DEF JoinInv

\* Steps of the readers leave entries and memory alone.
LEMMA ReaderKeepsSpacing ==
    ASSUME JoinInv, UNCHANGED <<joinNow, open, done, emitted>>
    PROVE  Half' /\ Spacing'
BY DEF JoinInv, Half, Spacing, Spaced

\* A reader sends what it held: it moves from the hand to the end of the queue.
LEMMA SendKeeps ==
    ASSUME JoinInv, NEW leg \in Legs, SendToJoin(leg)
    PROVE  JoinInv'
<1> DEFINE input == hand[leg]
<1>1. /\ hand[leg] # Idle /\ hand[leg].leg = leg /\ input \in Inputs
      /\ joinQueue' = Append(joinQueue, input) /\ hand' = [hand EXCEPT ![leg] = Idle]
      /\ UNCHANGED <<joinNow, open, done, emitted, firstRead>>
    BY DEF SendToJoin, JoinInv, Shape, OwnLeg
<1>2. /\ joinQueue \in Seq(Inputs) /\ joinQueue' \in Seq(Inputs) /\ Len(joinQueue) \in Nat
      /\ DOMAIN joinQueue = 1 .. Len(joinQueue) /\ DOMAIN joinQueue' = 1 .. Len(joinQueue) + 1
      /\ \A i \in 1 .. Len(joinQueue) : joinQueue'[i] = joinQueue[i]
      /\ joinQueue'[Len(joinQueue) + 1] = input
    BY <1>1, AppendProperties DEF JoinInv, Shape
<1>3. \A l \in Legs : hand'[l] = IF l = leg THEN Idle ELSE hand[l]
    BY <1>1 DEF JoinInv, Shape
<1>4. Shape'
    BY <1>1, <1>2 DEF JoinInv, Shape
<1>5. Past'
    BY <1>1, <1>2, <1>3 DEF JoinInv, Past, PastEntry
<1>6. Half' /\ Spacing'
    BY <1>1, ReaderKeepsSpacing
<1>7. OwnLeg'
    BY <1>3 DEF JoinInv, OwnLeg
<1>8. Followed'
    <2>1. SUFFICES ASSUME NEW h \in Hashes, emitted[h] = <<>>, NEW l \in Legs PROVE Following(l, h)'
        BY <1>1 DEF JoinInv, Followed, FirstIsTrue
    <2>2. Following(l, h)
        BY <2>1 DEF JoinInv, Followed
    <2>3. CASE IsOf(input, l, h)
        <3>1. l = leg /\ HandOf(l, h) /\ ~HandOf(l, h)'
            BY <1>1, <1>3, <2>3 DEF IsOf, HandOf
        <3>2. firstRead[l][h] # None
            BY <2>2, <3>1 DEF Following
        <3>3. ~InEntry(l, h) /\ (\A j \in DOMAIN joinQueue : ~IsOf(joinQueue[j], l, h))
                => input.at = firstRead'[l][h]
            BY <1>1, <2>2, <3>1 DEF Following
        <3>4. QED
            BY <1>1, <2>2, <2>3, <3>1, <3>2, <3>3, AppendFollows DEF JoinInv
    <2>4. CASE ~IsOf(input, l, h)
        <3>1. CASE l = leg
            <4>1. ~HandOf(l, h) /\ ~HandOf(l, h)'
                BY <1>1, <1>3, <2>4, <3>1 DEF IsOf, HandOf
            <4>2. QED
                BY <1>1, <2>2, <2>4, <4>1, AppendFollows DEF JoinInv
        <3>2. CASE l # leg
            <4>1. hand'[l] = hand[l]
                BY <1>3, <3>2
            <4>2. HandOf(l, h)' <=> HandOf(l, h)
                BY <4>1 DEF HandOf
            <4>3. QED
                BY <1>1, <2>2, <2>4, <4>1, <4>2, AppendFollows DEF JoinInv
        <3>3. QED
            BY <3>1, <3>2
    <2>5. QED
        BY <2>3, <2>4
<1>9. QED
    BY <1>4, <1>5, <1>6, <1>7, <1>8 DEF JoinInv

\* A reader reads a bundle, and sends or holds it.
LEMMA ReadKeeps ==
    ASSUME JoinInv, NEW leg \in Legs, NEW g \in Hashes, ReadBundle(leg, g)
    PROVE  JoinInv'
<1>1. PICK recv \in {t \in 0 .. joinNow : joinNow - t <= RecvLag} :
        LET input == [leg |-> leg, hash |-> g, at |-> joinNow, recv |-> recv] IN
        \/ joinQueue' = Append(joinQueue, input) /\ hand' = hand
        \/ hand' = [hand EXCEPT ![leg] = input] /\ joinQueue' = joinQueue
    BY DEF ReadBundle
<1> DEFINE input == [leg |-> leg, hash |-> g, at |-> joinNow, recv |-> recv]
<1>2. /\ hand[leg] = Idle
      /\ firstRead' = [firstRead EXCEPT ![leg][g] = IF @ = None THEN joinNow ELSE @]
      /\ UNCHANGED <<joinNow, open, done, emitted>>
    BY DEF ReadBundle
<1>3. /\ input \in Inputs /\ input.leg = leg /\ input.hash = g /\ input.at = joinNow
      /\ input.recv <= joinNow /\ input.at <= joinNow /\ joinNow \in Nat
    BY <1>1 DEF JoinInv, Shape, Inputs
<1>4. \A l \in Legs, h \in Hashes :
        firstRead'[l][h] = IF l = leg /\ h = g /\ firstRead[l][h] = None THEN joinNow ELSE firstRead[l][h]
    BY <1>2 DEF JoinInv, Shape
<1>5. firstRead' \in [Legs -> [Hashes -> Maybe]]
    BY <1>2, <1>3 DEF JoinInv, Shape, Maybe
<1>6. \A l \in Legs, h \in Hashes :
        /\ firstRead[l][h] # None => firstRead'[l][h] = firstRead[l][h]
        /\ firstRead[l][h] \in Maybe
    BY <1>4 DEF JoinInv, Shape
<1>7. Half' /\ Spacing'
    BY <1>2, ReaderKeepsSpacing
<1>8. ASSUME NEW h \in Hashes, emitted[h] # <<>> PROVE FirstIsTrue(h)'
    BY <1>2, <1>6, <1>8, FirstStays DEF JoinInv, Followed
<1>9. CASE joinQueue' = Append(joinQueue, input) /\ hand' = hand
    <2>1. /\ joinQueue \in Seq(Inputs) /\ joinQueue' \in Seq(Inputs) /\ Len(joinQueue) \in Nat
          /\ DOMAIN joinQueue = 1 .. Len(joinQueue) /\ DOMAIN joinQueue' = 1 .. Len(joinQueue) + 1
          /\ \A i \in 1 .. Len(joinQueue) : joinQueue'[i] = joinQueue[i]
          /\ joinQueue'[Len(joinQueue) + 1] = input
        BY <1>3, <1>9, AppendProperties DEF JoinInv, Shape
    <2>2. Shape'
        BY <1>2, <1>5, <1>9, <2>1 DEF JoinInv, Shape
    <2>3. Past'
        BY <1>2, <1>3, <1>9, <2>1 DEF JoinInv, Past, PastEntry
    <2>4. OwnLeg'
        BY <1>9 DEF JoinInv, OwnLeg
    <2>5. ASSUME NEW h \in Hashes, emitted[h] = <<>>, NEW l \in Legs PROVE Following(l, h)'
        <3>1. Following(l, h)
            BY <2>5 DEF JoinInv, Followed
        <3>2. HandOf(l, h)' <=> HandOf(l, h)
            BY <1>9 DEF HandOf
        <3>3. CASE IsOf(input, l, h)
            <4>1. l = leg /\ h = g /\ ~HandOf(l, h)
                BY <1>2, <1>3, <3>3 DEF IsOf, HandOf
            <4>2. firstRead'[l][h] # None
                BY <1>3, <1>4, <4>1 DEF None
            <4>3. ~InEntry(l, h) /\ (\A j \in DOMAIN joinQueue : ~IsOf(joinQueue[j], l, h))
                    => input.at = firstRead'[l][h]
                <5>1. SUFFICES ASSUME ~InEntry(l, h), \A j \in DOMAIN joinQueue : ~IsOf(joinQueue[j], l, h)
                               PROVE  firstRead[l][h] = None
                    BY <1>3, <1>4, <4>1
                <5>2. QED
                    BY <3>1, <4>1, <5>1 DEF Following
            <4>4. firstRead[l][h] # None => firstRead'[l][h] = firstRead[l][h]
                BY <1>6
            <4>5. ~HandOf(l, h)'
                BY <3>2, <4>1
            <4>6. QED
                BY <1>2, <1>3, <1>9, <3>1, <3>3, <4>2, <4>3, <4>4, <4>5, AppendFollows DEF JoinInv
        <3>4. CASE ~IsOf(input, l, h)
            <4>1. firstRead'[l][h] = firstRead[l][h]
                BY <1>3, <1>4, <3>4 DEF IsOf
            <4>2. HandOf(l, h) => hand'[l] = hand[l]
                BY <1>9
            <4>3. QED
                BY <1>2, <1>3, <1>9, <3>1, <3>2, <3>4, <4>1, <4>2, AppendFollows DEF JoinInv
        <3>5. QED
            BY <3>3, <3>4
    <2>6. Followed'
        BY <1>2, <1>8, <2>5 DEF Followed
    <2>7. QED
        BY <1>7, <2>2, <2>3, <2>4, <2>6 DEF JoinInv
<1>10. CASE hand' = [hand EXCEPT ![leg] = input] /\ joinQueue' = joinQueue
    <2>1. \A l \in Legs : hand'[l] = IF l = leg THEN input ELSE hand[l]
        BY <1>10 DEF JoinInv, Shape
    <2>2. Shape'
        <3>1. hand' \in [Legs -> Inputs \cup {Idle}]
            BY <1>3, <1>10 DEF JoinInv, Shape
        <3>2. QED
            BY <1>2, <1>5, <1>10, <3>1 DEF JoinInv, Shape
    <2>3. Past'
        BY <1>2, <1>3, <1>10, <2>1 DEF JoinInv, Past, PastEntry
    <2>4. OwnLeg'
        BY <1>3, <2>1 DEF JoinInv, OwnLeg
    <2>5. ASSUME NEW h \in Hashes, emitted[h] = <<>>, NEW l \in Legs PROVE Following(l, h)'
        <3>1. Following(l, h)
            BY <2>5 DEF JoinInv, Followed
        <3>2. InEntry(l, h)' <=> InEntry(l, h)
            BY <1>2 DEF InEntry
        <3>3. LegOf(open[h], l)' = LegOf(open[h], l)
            BY <1>2 DEF LegOf
        <3>4. CASE l = leg /\ h = g
            <4>1. ~HandOf(l, h) /\ hand'[l] = input
                BY <1>2, <2>1, <3>4 DEF HandOf
            <4>2. hand'[l] # Idle
                <5>1. "leg" \in DOMAIN input /\ "leg" \notin DOMAIN Idle
                    BY DEF Idle
                <5>2. QED
                    BY <4>1, <5>1
            <4>3. HandOf(l, h)' /\ hand'[l].at = joinNow
                BY <1>3, <3>4, <4>1, <4>2 DEF HandOf
            <4>4. firstRead'[l][h] # None
                BY <1>3, <1>4, <3>4 DEF None
            <4>5. CASE firstRead[l][h] = None
                <5>1. ~InEntry(l, h) /\ \A i \in DOMAIN joinQueue : ~IsOf(joinQueue[i], l, h)
                    BY <3>1, <4>5 DEF Following
                <5>2. firstRead'[l][h] = joinNow
                    BY <1>4, <3>4, <4>5
                <5>3. QED
                    BY <1>10, <3>2, <4>3, <4>4, <5>1, <5>2 DEF Following
            <4>6. CASE firstRead[l][h] # None
                <5>1. InEntry(l, h) \/ \E i \in DOMAIN joinQueue : IsOf(joinQueue[i], l, h)
                    BY <3>1, <4>1, <4>6 DEF Following
                <5>2. firstRead'[l][h] = firstRead[l][h]
                    BY <1>6, <4>6
                <5>3. QED
                    BY <1>10, <3>1, <3>2, <3>3, <4>3, <4>4, <5>1, <5>2 DEF Following
            <4>7. QED
                BY <4>5, <4>6
        <3>5. CASE ~(l = leg /\ h = g)
            <4>1. HandOf(l, h)' <=> HandOf(l, h)
                BY <1>2, <1>3, <2>1, <3>5 DEF HandOf
            <4>2. HandOf(l, h) => hand'[l] = hand[l]
                BY <1>2, <2>1 DEF HandOf
            <4>3. firstRead'[l][h] = firstRead[l][h]
                BY <1>4, <3>5
            <4>4. QED
                BY <1>10, <3>1, <3>2, <3>3, <4>1, <4>2, <4>3 DEF Following
        <3>6. QED
            BY <3>4, <3>5
    <2>6. Followed'
        BY <1>2, <1>8, <2>5 DEF Followed
    <2>7. QED
        BY <1>7, <2>2, <2>3, <2>4, <2>6 DEF JoinInv
<1>11. QED
    BY <1>1, <1>9, <1>10
-----------------------------------------------------------------------------
(* The join task. *)

\* An emission of a bundle that is not remembered comes DoneRetain after the last.
LEMMA EmittedInTime ==
    ASSUME Shape, NEW h \in Hashes, Spaced(h), h \notin DOMAIN done,
           NEW em \in Emissions, em.at = joinNow, emitted'[h] = Append(emitted[h], em),
           h \in DOMAIN done', done'[h] = joinNow, joinNow' = joinNow
    PROVE  Spaced(h)'
<1> DEFINE s == emitted[h]
<1>1. /\ s \in Seq(Emissions) /\ Len(s) \in Nat /\ DOMAIN s = 1 .. Len(s)
      /\ \A i \in DOMAIN s : s[i].at \in Nat
    BY EmissionTimes
<1>2. /\ DOMAIN emitted'[h] = 1 .. Len(s) + 1 /\ emitted'[h] # <<>>
      /\ \A i \in 1 .. Len(s) : emitted'[h][i] = s[i]
      /\ emitted'[h][Len(s) + 1] = em
    BY <1>1, AppendProperties
<1>3. \A i \in DOMAIN s : joinNow - s[i].at >= DoneRetain
    BY DEF Spaced
<1>4. joinNow \in Nat /\ DoneRetain \in Nat
    BY JoinAssumption DEF Shape
<1>5. ASSUME NEW i \in DOMAIN emitted'[h], NEW j \in DOMAIN emitted'[h], i < j
      PROVE  emitted'[h][j].at - emitted'[h][i].at >= DoneRetain
    <2>1. i \in 1 .. Len(s) /\ emitted'[h][i] = s[i]
        BY <1>1, <1>2, <1>5
    <2>2. CASE j \in 1 .. Len(s)
        <3>1. s[j].at - s[i].at >= DoneRetain
            BY <1>1, <1>5, <2>1, <2>2 DEF Spaced
        <3>2. QED
            BY <1>2, <2>1, <2>2, <3>1
    <2>3. CASE j = Len(s) + 1
        BY <1>1, <1>2, <1>3, <2>1, <2>3
    <2>4. QED
        BY <1>1, <1>2, <2>2, <2>3
<1>6. ASSUME NEW i \in DOMAIN emitted'[h] PROVE emitted'[h][i].at <= joinNow
    <2>1. CASE i \in 1 .. Len(s)
        <3>1. s[i].at \in Nat /\ joinNow - s[i].at >= DoneRetain
            BY <1>1, <1>3, <2>1
        <3>2. QED
            BY <1>2, <1>4, <2>1, <3>1
    <2>2. CASE i = Len(s) + 1
        BY <1>2, <1>4, <2>2
    <2>3. QED
        BY <1>1, <1>2, <2>1, <2>2
<1>7. QED
    BY <1>2, <1>4, <1>5, <1>6 DEF Spaced

\* The first emission of a bundle is true of every leg its entry has followed.
LEMMA FirstEmissionIsTrue ==
    ASSUME Shape, NEW h \in Hashes, NEW e \in Entries, PastEntry(e), e.vpc # None \/ e.grpc # None,
           \A l \in Legs : LegOf(e, l) # None => LegOf(e, l) = firstRead[l][h],
           emitted[h] = <<>>, emitted'[h] = Append(emitted[h], Emission(e)), firstRead' = firstRead
    PROVE  FirstIsTrue(h)'
<1>1. /\ Emission(e) \in Emissions
      /\ Emission(e).at = joinNow /\ Emission(e).event <= joinNow
      /\ \A l \in Legs : /\ LegOf(Emission(e), l) = LegOf(e, l)
                         /\ LegOf(e, l) # None => Emission(e).event <= LegOf(e, l)
    BY EmissionIsTrue
<1>2. emitted[h] \in Seq(Emissions)
    BY DEF Shape
<1>3. Head(emitted'[h]) = Emission(e)
    BY <1>1, <1>2, HeadTailAppend
<1>4. QED
    BY <1>1, <1>3 DEF FirstIsTrue

\* A later emission leaves the first.
LEMMA LaterEmission ==
    ASSUME Shape, NEW h \in Hashes, NEW em \in Emissions, emitted[h] # <<>>, FirstIsTrue(h),
           emitted'[h] = Append(emitted[h], em), firstRead' = firstRead
    PROVE  FirstIsTrue(h)'
<1>1. emitted[h] \in Seq(Emissions)
    BY DEF Shape
<1>2. Head(emitted'[h]) = Head(emitted[h])
    BY <1>1, HeadTailAppend
<1>3. QED
    BY <1>2 DEF FirstIsTrue

\* What a step of the join emits of an entry adds one true emission.
LEMMA EmitAppends ==
    ASSUME Shape, NEW S \in SUBSET Hashes, NEW es, Emit(S, es),
           \A h \in S : es[h] \in Entries /\ PastEntry(es[h]) /\ (es[h].vpc # None \/ es[h].grpc # None)
    PROVE  /\ \A h \in Hashes : emitted'[h] = IF h \in S THEN Append(emitted[h], Emission(es[h]))
                                                         ELSE emitted[h]
           /\ \A h \in S : Emission(es[h]) \in Emissions /\ Emission(es[h]).at = joinNow
           /\ emitted' \in [Hashes -> Seq(Emissions)]
<1>1. \A h \in Hashes : emitted'[h] = IF h \in S THEN Append(emitted[h], Emission(es[h])) ELSE emitted[h]
    BY DEF Emit
<1>2. \A h \in S : Emission(es[h]) \in Emissions /\ Emission(es[h]).at = joinNow
    BY EmissionIsTrue
<1>3. \A h \in Hashes : emitted[h] \in Seq(Emissions)
    BY DEF Shape
<1>4. \A h \in S : emitted'[h] \in Seq(Emissions)
    <2>1. SUFFICES ASSUME NEW h \in S PROVE emitted'[h] \in Seq(Emissions)
        OBVIOUS
    <2>2. emitted[h] \in Seq(Emissions) /\ Emission(es[h]) \in Emissions
          /\ emitted'[h] = Append(emitted[h], Emission(es[h]))
        BY <1>1, <1>2, <1>3
    <2>3. QED
        BY <2>2, AppendProperties
<1>5. \A h \in Hashes : emitted'[h] \in Seq(Emissions)
    BY <1>1, <1>3, <1>4
<1>6. QED
    BY <1>1, <1>2, <1>5 DEF Emit

\* The maintenance tick emits the entries past the deadline and forgets what is old.
LEMMA ExpireKeeps ==
    ASSUME JoinInv, Expire
    PROVE  JoinInv'
<1> DEFINE over     == Expirable
           finished == [h \in DOMAIN done \cup over |-> IF h \in over THEN joinNow ELSE done[h]]
           old      == {h \in DOMAIN finished : joinNow - finished[h] >= DoneRetain}
<1>1. /\ Emit(over, open) /\ open' = Without(open, over) /\ done' = Without(finished, old)
      /\ UNCHANGED <<joinNow, hand, joinQueue, firstRead>>
    BY DEF Expire
<1>2. /\ over \subseteq DOMAIN open /\ DOMAIN open \subseteq Hashes /\ joinNow \in Nat
      /\ DoneRetain \in Nat \ {0} /\ DOMAIN done \subseteq Hashes
      /\ \A h \in DOMAIN done : done[h] \in Nat
    BY JoinAssumption DEF Expirable, JoinInv, Shape
<1>3. \A h \in DOMAIN open : /\ open[h] \in Entries /\ PastEntry(open[h]) /\ h \notin DOMAIN done
                             /\ open[h].vpc # None \/ open[h].grpc # None
    BY DEF JoinInv, Shape, Past, Half
<1>4. /\ \A h \in Hashes : emitted'[h] = IF h \in over THEN Append(emitted[h], Emission(open[h]))
                                                       ELSE emitted[h]
      /\ \A h \in over : Emission(open[h]) \in Emissions /\ Emission(open[h]).at = joinNow
      /\ emitted' \in [Hashes -> Seq(Emissions)]
    <2>1. \A h \in Hashes : emitted'[h] = IF h \in over THEN Append(emitted[h], Emission(open[h]))
                                                          ELSE emitted[h]
        BY <1>1 DEF Emit
    <2>2. \A h \in over : Emission(open[h]) \in Emissions /\ Emission(open[h]).at = joinNow
        BY <1>2, <1>3, EmissionIsTrue DEF JoinInv
    <2>3. \A h \in Hashes : emitted[h] \in Seq(Emissions)
        BY DEF JoinInv, Shape
    <2>4. \A h \in Hashes : emitted'[h] \in Seq(Emissions)
        <3>1. SUFFICES ASSUME NEW h \in Hashes PROVE emitted'[h] \in Seq(Emissions)
            OBVIOUS
        <3>2. CASE h \in over
            <4>1. /\ emitted[h] \in Seq(Emissions) /\ Emission(open[h]) \in Emissions
                  /\ emitted'[h] = Append(emitted[h], Emission(open[h]))
                BY <2>1, <2>2, <2>3, <3>2
            <4>2. QED
                BY <4>1, AppendProperties
        <3>3. CASE h \notin over
            BY <2>1, <2>3, <3>3
        <3>4. QED
            BY <3>2, <3>3
    <2>5. QED
        BY <1>1, <2>1, <2>2, <2>4 DEF Emit
<1>5. DOMAIN open' = DOMAIN open \ over /\ \A h \in DOMAIN open' : open'[h] = open[h]
    BY <1>1 DEF Without, Restrict
<1>6. /\ DOMAIN done' \subseteq DOMAIN done \cup over
      /\ over \subseteq DOMAIN done'
      /\ \A h \in DOMAIN done' : done'[h] = IF h \in over THEN joinNow ELSE done[h]
      /\ \A h \in DOMAIN done \ DOMAIN done' : joinNow - done[h] >= DoneRetain
    <2>1. /\ DOMAIN done' = DOMAIN finished \ old /\ \A h \in DOMAIN done' : done'[h] = finished[h]
          /\ DOMAIN finished = DOMAIN done \cup over
        BY <1>1 DEF Without, Restrict
    <2>2. \A h \in over : finished[h] = joinNow /\ h \notin old
        BY <1>2
    <2>3. \A h \in DOMAIN done \ over : finished[h] = done[h]
        OBVIOUS
    <2>4. QED
        BY <1>2, <1>3, <2>1, <2>2, <2>3
<1>7. Shape'
    <2>1. open' \in [DOMAIN open' -> Entries]
        BY <1>1, <1>3, <1>5 DEF Without, Restrict
    <2>2. done' \in [DOMAIN done' -> Nat]
        <3>1. \A h \in DOMAIN done' : done'[h] \in Nat
            BY <1>2, <1>6
        <3>2. done' = [h \in DOMAIN done' |-> done'[h]]
            BY <1>1 DEF Without, Restrict
        <3>3. QED
            BY <3>1, <3>2
    <2>3. DOMAIN open' \subseteq Hashes /\ DOMAIN done' \subseteq Hashes
        BY <1>2, <1>5, <1>6
    <2>4. QED
        BY <1>1, <1>4, <2>1, <2>2, <2>3 DEF JoinInv, Shape
<1>8. Past'
    BY <1>1, <1>5 DEF JoinInv, Past, PastEntry
<1>9. Half' /\ OwnLeg'
    BY <1>1, <1>3, <1>5, <1>6 DEF JoinInv, Half, OwnLeg
<1>10. Spacing'
    <2>1. SUFFICES ASSUME NEW h \in Hashes PROVE Spaced(h)'
        BY DEF Spacing
    <2>2. Spaced(h)
        BY DEF JoinInv, Spacing
    <2>3. CASE h \in over
        BY <1>1, <1>2, <1>3, <1>4, <1>6, <2>2, <2>3, EmittedInTime DEF JoinInv
    <2>4. CASE h \notin over
        <3>1. emitted'[h] = emitted[h] /\ joinNow' = joinNow
            BY <1>1, <1>4, <2>4
        <3>2. \A i \in DOMAIN emitted[h] : emitted[h][i].at \in Nat
            BY EmissionTimes DEF JoinInv
        <3>3. CASE h \in DOMAIN done'
            BY <1>6, <2>2, <2>4, <3>1, <3>3 DEF Spaced
        <3>4. CASE h \notin DOMAIN done' /\ h \in DOMAIN done
            <4>1. joinNow - done[h] >= DoneRetain /\ done[h] \in Nat
                BY <1>2, <1>6, <3>4
            <4>2. \A i \in DOMAIN emitted[h] : emitted[h][i].at <= done[h]
                BY <2>2, <3>4 DEF Spaced
            <4>3. \A i \in DOMAIN emitted[h] : joinNow - emitted[h][i].at >= DoneRetain
                BY <1>2, <3>2, <4>1, <4>2
            <4>4. QED
                BY <2>2, <3>1, <3>4, <4>3 DEF Spaced
        <3>5. CASE h \notin DOMAIN done' /\ h \notin DOMAIN done
            BY <2>2, <3>1, <3>5 DEF Spaced
        <3>6. QED
            BY <3>3, <3>4, <3>5
    <2>5. QED
        BY <2>3, <2>4
<1>11. Followed'
    <2>1. SUFFICES ASSUME NEW h \in Hashes
                   PROVE  IF emitted'[h] = <<>> THEN \A l \in Legs : Following(l, h)' ELSE FirstIsTrue(h)'
        BY DEF Followed
    <2>2. CASE h \in over
        <3>1. emitted'[h] = Append(emitted[h], Emission(open[h])) /\ Emission(open[h]) \in Emissions
            BY <1>4, <2>2
        <3>2. emitted'[h] # <<>>
            <4>1. emitted[h] \in Seq(Emissions)
                BY DEF JoinInv, Shape
            <4>2. QED
                BY <3>1, <4>1, AppendProperties
        <3>3. CASE emitted[h] = <<>>
            <4>1. \A l \in Legs : LegOf(open[h], l) # None => LegOf(open[h], l) = firstRead[l][h]
                BY <1>2, <2>2, <3>3 DEF JoinInv, Followed, Following, InEntry
            <4>2. QED
                BY <1>1, <1>2, <1>3, <2>2, <3>1, <3>2, <3>3, <4>1, FirstEmissionIsTrue DEF JoinInv
        <3>4. CASE emitted[h] # <<>>
            BY <1>1, <3>1, <3>2, <3>4, LaterEmission DEF JoinInv, Followed
        <3>5. QED
            BY <3>3, <3>4
    <2>3. CASE h \notin over
        <3>1. emitted'[h] = emitted[h]
            BY <1>4, <2>3
        <3>2. CASE emitted[h] # <<>>
            BY <1>1, <3>1, <3>2, FirstStays DEF JoinInv, Followed
        <3>3. ASSUME emitted[h] = <<>>, NEW l \in Legs PROVE Following(l, h)'
            <4>1. Following(l, h)
                BY <3>3 DEF JoinInv, Followed
            <4>2. InEntry(l, h)' <=> InEntry(l, h)
                BY <1>5, <2>3 DEF InEntry
            <4>3. InEntry(l, h) => LegOf(open[h], l)' = LegOf(open[h], l)
                BY <1>5, <2>3 DEF InEntry
            <4>4. HandOf(l, h)' <=> HandOf(l, h)
                BY <1>1 DEF HandOf
            <4>5. QED
                BY <1>1, <4>1, <4>2, <4>3, <4>4 DEF Following
        <3>4. QED
            BY <3>1, <3>2, <3>3
    <2>4. QED
        BY <2>2, <2>3
<1>12. QED
    BY <1>7, <1>8, <1>9, <1>10, <1>11 DEF JoinInv

\* The join takes the head of the queue: a repeat, the second leg or the first.
LEMMA OfferKeeps ==
    ASSUME JoinInv, Offer
    PROVE  JoinInv'
<1>0. PICK input \in Inputs : input = Head(joinQueue)
    BY HeadTailProperties DEF Offer, JoinInv, Shape
<1> DEFINE g == input.hash
           e == WithLeg(OfferedTo(g), input)
<1>1. /\ joinQueue # <<>> /\ joinQueue' = Tail(joinQueue)
      /\ UNCHANGED <<joinNow, hand, firstRead>>
    BY DEF Offer
<1>2. /\ joinQueue \in Seq(Inputs) /\ Len(joinQueue) \in Nat \ {0} /\ DOMAIN joinQueue = 1 .. Len(joinQueue)
      /\ joinQueue' \in Seq(Inputs) /\ DOMAIN joinQueue' = 1 .. Len(joinQueue) - 1
      /\ \A i \in 1 .. Len(joinQueue) - 1 : joinQueue'[i] = joinQueue[i + 1]
      /\ input = joinQueue[1] /\ 1 \in DOMAIN joinQueue
    BY <1>0, <1>1, HeadTailProperties DEF JoinInv, Shape
<1>3. /\ g \in Hashes /\ input.leg \in Legs /\ input.at \in Nat
      /\ input.at <= joinNow /\ input.recv <= joinNow
    <2>1. g \in Hashes /\ input.leg \in Legs /\ input.at \in Nat
        BY DEF Inputs
    <2>2. QED
        BY <1>2, <2>1 DEF JoinInv, Past
<1>4. /\ e \in Entries /\ PastEntry(e)
      /\ e.vpc # None \/ e.grpc # None
      /\ \A l \in Legs : LegOf(e, l) =
            IF l = input.leg /\ ~InEntry(l, g) THEN input.at
            ELSE IF g \in DOMAIN open THEN LegOf(open[g], l) ELSE None
    <2>1. /\ OfferedTo(g) \in Entries /\ PastEntry(OfferedTo(g))
          /\ \A l \in Legs : LegOf(OfferedTo(g), l) = IF g \in DOMAIN open THEN LegOf(open[g], l) ELSE None
        BY <1>3, OfferedIsEntry DEF JoinInv
    <2>2. /\ e \in Entries /\ PastEntry(e)
          /\ e.vpc # None \/ e.grpc # None
          /\ \A l \in Legs : LegOf(e, l) =
                IF l = input.leg /\ LegOf(OfferedTo(g), l) = None THEN input.at ELSE LegOf(OfferedTo(g), l)
        BY <1>2, <1>3, <2>1, WithLegFills DEF JoinInv
    <2>3. QED
        BY <2>1, <2>2 DEF InEntry
\* Each leg of the entry is the leg's first copy, if the bundle has not been emitted.
<1>5. ASSUME emitted[g] = <<>>, NEW l \in Legs, LegOf(e, l) # None
      PROVE  LegOf(e, l) = firstRead[l][g] /\ firstRead[l][g] # None
    <2>1. Following(l, g)
        BY <1>3, <1>5 DEF JoinInv, Followed
    <2>2. CASE InEntry(l, g)
        BY <1>4, <2>1, <2>2 DEF Following, InEntry
    <2>3. CASE ~InEntry(l, g)
        <3>1. l = input.leg /\ LegOf(e, l) = input.at
            BY <1>4, <1>5, <2>3 DEF InEntry
        <3>2. /\ IsOf(joinQueue[1], l, g) /\ 1 \in DOMAIN joinQueue
              /\ \A j \in 1 .. 1 - 1 : ~IsOf(joinQueue[j], l, g)
            BY <1>2, <3>1 DEF IsOf
        <3>3. joinQueue[1].at = firstRead[l][g] /\ firstRead[l][g] # None
            BY <2>1, <2>3, <3>2 DEF Following
        <3>4. QED
            BY <1>2, <3>1, <3>3
    <2>4. QED
        BY <2>2, <2>3
\* The other bundles are followed as before.
<1>6. ASSUME NEW h \in Hashes, h # g, emitted[h] = <<>>, NEW l \in Legs,
             h \in DOMAIN open' <=> h \in DOMAIN open, h \in DOMAIN open => open'[h] = open[h]
      PROVE  Following(l, h)'
    <2>1. Following(l, h)
        BY <1>6 DEF JoinInv, Followed
    <2>2. ~IsOf(input, l, h)
        BY <1>6 DEF IsOf
    <2>3. InEntry(l, h)' <=> InEntry(l, h)
        BY <1>6 DEF InEntry
    <2>4. InEntry(l, h) => LegOf(open[h], l)' = LegOf(open[h], l)
        BY <1>6 DEF InEntry
    <2>5. QED
        BY <1>1, <1>0, <2>1, <2>2, <2>3, <2>4, TailFollows DEF JoinInv
<1>7. /\ \A i \in DOMAIN joinQueue' : joinQueue'[i].at <= joinNow' /\ joinQueue'[i].recv <= joinNow'
      /\ \A l \in Legs : hand'[l] # Idle => hand'[l].at <= joinNow' /\ hand'[l].recv <= joinNow'
    <2>1. \A i \in DOMAIN joinQueue' : i + 1 \in DOMAIN joinQueue /\ joinQueue'[i] = joinQueue[i + 1]
        BY <1>2
    <2>2. QED
        BY <1>1, <2>1 DEF JoinInv, Past
<1>8. OwnLeg'
    BY <1>1 DEF JoinInv, OwnLeg
<1>9. CASE Remembered(g) /\ UNCHANGED <<open, done, emitted>>
    <2>1. Shape' /\ Past' /\ Half' /\ Spacing'
        BY <1>1, <1>2, <1>7, <1>9 DEF JoinInv, Shape, Past, PastEntry, Half, Spacing, Spaced
    <2>2. emitted[g] # <<>>
        BY <1>3, <1>9 DEF Remembered, JoinInv, Spacing, Spaced
    <2>3. Followed'
        <3>1. ASSUME NEW h \in Hashes, emitted[h] = <<>>, NEW l \in Legs PROVE Following(l, h)'
            BY <1>6, <1>9, <2>2, <3>1
        <3>2. QED
            BY <1>1, <1>9, <3>1 DEF JoinInv, Followed, FirstIsTrue
    <2>4. QED
        BY <1>8, <2>1, <2>3 DEF JoinInv
<1>10. CASE /\ ~Remembered(g) /\ Complete(e) /\ Emit({g}, [h \in {g} |-> e])
            /\ open' = Without(open, {g})
            /\ done' = [h \in DOMAIN done \cup {g} |-> IF h = g THEN joinNow ELSE done[h]]
    <2>1. /\ \A h \in Hashes : emitted'[h] = IF h = g THEN Append(emitted[h], Emission(e)) ELSE emitted[h]
          /\ Emission(e) \in Emissions /\ Emission(e).at = joinNow
          /\ emitted'[g] # <<>> /\ emitted' \in [Hashes -> Seq(Emissions)]
        <3> DEFINE es == [h \in {g} |-> e]
        <3>1. {g} \in SUBSET Hashes /\ es[g] = e
            BY <1>3
        <3> HIDE DEF es, e, g
        <3>2. \A h \in {g} : es[h] \in Entries /\ PastEntry(es[h]) /\ (es[h].vpc # None \/ es[h].grpc # None)
            BY <1>4, <3>1
        <3>3. Emit({g}, es)
            BY <1>10 DEF es
        <3>4. /\ \A h \in Hashes : emitted'[h] = IF h \in {g} THEN Append(emitted[h], Emission(es[h]))
                                                              ELSE emitted[h]
              /\ \A h \in {g} : Emission(es[h]) \in Emissions /\ Emission(es[h]).at = joinNow
              /\ emitted' \in [Hashes -> Seq(Emissions)]
            BY <3>1, <3>2, <3>3, EmitAppends DEF JoinInv
        <3>5. emitted'[g] = Append(emitted[g], Emission(e)) /\ emitted[g] \in Seq(Emissions)
            BY <1>3, <3>1, <3>4 DEF JoinInv, Shape
        <3>6. emitted'[g] # <<>>
            BY <1>4, <3>1, <3>4, <3>5, AppendProperties
        <3>7. QED
            BY <3>1, <3>4, <3>6
    <2> HIDE DEF e, g
    <2>2. DOMAIN open' = DOMAIN open \ {g} /\ \A h \in DOMAIN open' : open'[h] = open[h]
        BY <1>10 DEF Without, Restrict
    <2>3. /\ DOMAIN done' = DOMAIN done \cup {g} /\ done'[g] = joinNow
          /\ \A h \in DOMAIN done : h # g => done'[h] = done[h]
          /\ g \notin DOMAIN done
        BY <1>10 DEF Remembered
    <2>4. Shape'
        <3>1. open' \in [DOMAIN open' -> Entries] /\ DOMAIN open' \subseteq Hashes
            BY <1>10, <2>2 DEF JoinInv, Shape, Without, Restrict
        <3>2. done' \in [DOMAIN done' -> Nat] /\ DOMAIN done' \subseteq Hashes
            BY <1>3, <1>10, <2>3 DEF JoinInv, Shape
        <3>3. QED
            BY <1>1, <1>2, <2>1, <3>1, <3>2 DEF JoinInv, Shape
    <2>5. Past'
        BY <1>1, <1>7, <2>2 DEF JoinInv, Past, PastEntry
    <2>6. Half'
        BY <2>2, <2>3 DEF JoinInv, Half
    <2>7. Spacing'
        <3>1. SUFFICES ASSUME NEW h \in Hashes PROVE Spaced(h)'
            BY DEF Spacing
        <3>2. Spaced(h)
            BY DEF JoinInv, Spacing
        <3>3. CASE h = g
            BY <1>1, <2>1, <2>3, <3>2, <3>3, EmittedInTime DEF JoinInv
        <3>4. CASE h # g
            BY <1>1, <2>1, <2>3, <3>2, <3>4 DEF Spaced
        <3>5. QED
            BY <3>3, <3>4
    <2>8. FirstIsTrue(g)'
        <3>1. CASE emitted[g] = <<>>
            BY <1>1, <1>3, <1>4, <1>5, <2>1, <3>1, FirstEmissionIsTrue DEF JoinInv
        <3>2. CASE emitted[g] # <<>>
            BY <1>1, <1>3, <2>1, <3>2, LaterEmission DEF JoinInv, Followed
        <3>3. QED
            BY <3>1, <3>2
    <2>9. Followed'
        <3>1. SUFFICES ASSUME NEW h \in Hashes, h # g
                       PROVE  IF emitted'[h] = <<>> THEN \A l \in Legs : Following(l, h)' ELSE FirstIsTrue(h)'
            BY <2>1, <2>8 DEF Followed
        <3>2. CASE emitted[h] = <<>>
            BY <1>6, <2>1, <2>2, <3>1, <3>2
        <3>3. CASE emitted[h] # <<>>
            BY <1>1, <2>1, <3>1, <3>3, FirstStays DEF JoinInv, Followed
        <3>4. QED
            BY <3>2, <3>3
    <2>10. QED
        BY <1>8, <2>4, <2>5, <2>6, <2>7, <2>9 DEF JoinInv
<1>11. CASE /\ ~Remembered(g) /\ ~Complete(e)
            /\ open' = [h \in DOMAIN open \cup {g} |-> IF h = g THEN e ELSE open[h]]
            /\ UNCHANGED <<done, emitted>>
    <2> HIDE DEF e, g
    <2>1. /\ DOMAIN open' = DOMAIN open \cup {g} /\ open'[g] = e
          /\ \A h \in DOMAIN open : h # g => open'[h] = open[h]
        BY <1>11
    <2>2. Shape'
        <3>1. open' \in [DOMAIN open' -> Entries] /\ DOMAIN open' \subseteq Hashes
            BY <1>3, <1>4, <1>11, <2>1 DEF JoinInv, Shape
        <3>2. QED
            BY <1>1, <1>2, <1>11, <3>1 DEF JoinInv, Shape
    <2>3. Past'
        BY <1>1, <1>4, <1>7, <2>1 DEF JoinInv, Past, PastEntry
    <2>4. Half'
        BY <1>4, <1>11, <2>1 DEF JoinInv, Half, Remembered
    <2>5. Spacing'
        BY <1>1, <1>11 DEF JoinInv, Spacing, Spaced
    <2>6. Followed'
        <3>1. SUFFICES ASSUME NEW h \in Hashes
                       PROVE  IF emitted'[h] = <<>> THEN \A l \in Legs : Following(l, h)' ELSE FirstIsTrue(h)'
            BY DEF Followed
        <3>2. CASE emitted[h] # <<>>
            BY <1>1, <1>11, <3>2, FirstStays DEF JoinInv, Followed
        <3>3. CASE emitted[h] = <<>> /\ h # g
            BY <1>6, <1>11, <2>1, <3>3
        <3>4. ASSUME emitted[h] = <<>>, h = g, NEW l \in Legs PROVE Following(l, h)'
            <4>1. LegOf(open[h], l)' = LegOf(e, l) /\ (InEntry(l, h)' <=> LegOf(e, l) # None)
                BY <2>1, <3>4 DEF InEntry
            <4>2. CASE LegOf(e, l) # None
                <5>1. LegOf(e, l) = firstRead[l][h] /\ firstRead[l][h] # None
                    BY <1>5, <3>4, <4>2
                <5>2. QED
                    BY <1>1, <4>1, <4>2, <5>1, EntryFollows
            <4>3. CASE LegOf(e, l) = None
                <5>1. input.at # None
                    BY <1>3 DEF None
                <5>2. ~InEntry(l, h) /\ l # input.leg
                    BY <1>4, <3>4, <4>3, <5>1 DEF InEntry
                <5>3. ~IsOf(input, l, h)
                    BY <5>2 DEF IsOf
                <5>4. Following(l, h)
                    BY <3>4 DEF JoinInv, Followed
                <5>5. QED
                    BY <1>1, <4>1, <4>3, <5>2, <5>3, <5>4, <1>0, TailFollows DEF JoinInv
            <4>4. QED
                BY <4>2, <4>3
        <3>5. QED
            BY <1>11, <3>2, <3>3, <3>4
    <2>7. QED
        BY <1>8, <2>2, <2>3, <2>4, <2>5, <2>6 DEF JoinInv
<1>12. QED
    BY <1>0, <1>9, <1>10, <1>11 DEF Offer
-----------------------------------------------------------------------------
\* The invariant of the join: what is remembered, and where each first copy is (src/vpc_mempool.rs,
\* MempoolJoin).
THEOREM JoinInvariant == JoinSpec => []JoinInv
<1>1. JoinInit => JoinInv
    BY InitKeeps
<1>2. JoinInv /\ [JoinNext]_joinVars => JoinInv'
    <2>1. SUFFICES ASSUME JoinInv, [JoinNext]_joinVars PROVE JoinInv'
        OBVIOUS
    <2>2. CASE JoinElapse
        BY <2>1, <2>2, ElapseKeeps
    <2>3. CASE Offer
        BY <2>1, <2>3, OfferKeeps
    <2>4. CASE Expire
        BY <2>1, <2>4, ExpireKeeps
    <2>5. ASSUME NEW leg \in Legs, SendToJoin(leg) PROVE JoinInv'
        BY <2>1, <2>5, SendKeeps
    <2>6. ASSUME NEW leg \in Legs, NEW h \in Hashes, ReadBundle(leg, h) PROVE JoinInv'
        BY <2>1, <2>6, ReadKeeps
    <2>7. CASE UNCHANGED joinVars
        BY <2>1, <2>7 DEF joinVars, JoinInv, Shape, Past, PastEntry, Half, Spacing, Spaced, OwnLeg,
                          Followed, Following, InEntry, HandOf, FirstIsTrue
    <2>8. QED
        BY <2>1, <2>2, <2>3, <2>4, <2>5, <2>6, <2>7 DEF JoinNext
<1>3. QED
    BY <1>1, <1>2, PTL DEF JoinSpec

\* However often, in whatever order and how late copies come: two emissions of a bundle are
\* DONE_RETAIN apart (src/vpc_mempool.rs, offer and expire).
THEOREM EmittedOnce == JoinSpec => []JoinEmitsOnce
<1>1. JoinInv => JoinEmitsOnce
    BY DEF JoinInv, Spacing, Spaced, JoinEmitsOnce
<1>2. QED
    BY <1>1, JoinInvariant, PTL

\* The first emission of a bundle has of each leg its first read and a reference time no later
\* (src/vpc_mempool.rs, Entry and offer).
THEOREM FirstEmissionTrue == JoinSpec => []JoinStampTrue
<1>1. JoinInv => JoinStampTrue
    <2>1. SUFFICES ASSUME JoinInv, NEW h \in Hashes, emitted[h] # <<>>
                   PROVE  LET e == Head(emitted[h]) IN
                          /\ \A l \in Legs : e[l] # None => e[l] = firstRead[l][h] /\ e.event <= e[l]
                          /\ e.event \in 0 .. e.at
        BY DEF JoinStampTrue
    <2> DEFINE e == Head(emitted[h])
    <2>2. e \in Emissions
        BY <2>1, HeadTailProperties DEF JoinInv, Shape
    <2>3. FirstIsTrue(h)
        BY <2>1 DEF JoinInv, Followed
    <2>4. \A l \in Legs : LegOf(e, l) = e[l]
        BY <2>2 DEF Legs, LegOf, Emissions
    <2>5. QED
        BY <2>2, <2>3, <2>4 DEF FirstIsTrue, Emissions
<1>2. QED
    BY <1>1, JoinInvariant, PTL

\* What bounds the clock, the copies and the channel.
JoinBounds ==
    /\ joinNow <= JoinMaxTime /\ copies \in 0 .. MaxCopies /\ Len(joinQueue) <= JoinQueue

(* The bounds hold in every step: a reader that finds the channel full waits. *)
LEMMA BoundsStay == JoinInv /\ JoinBounds /\ [JoinNext]_joinVars => JoinBounds'
<1> SUFFICES ASSUME JoinInv, JoinBounds, [JoinNext]_joinVars PROVE JoinBounds' OBVIOUS
<1> USE JoinAssumption
<1>1. /\ joinNow \in Nat /\ hand \in [Legs -> Inputs \cup {Idle}] /\ joinQueue \in Seq(Inputs)
      /\ Len(joinQueue) \in Nat
  BY DEF JoinInv, Shape
<1>2. \A x : Len(Append(joinQueue, x)) = Len(joinQueue) + 1 BY <1>1
<1>3. CASE JoinElapse BY <1>1, <1>3 DEF JoinElapse, JoinBounds
<1>4. CASE Offer
  <2>1. joinQueue # <<>> /\ joinQueue' = Tail(joinQueue) /\ UNCHANGED <<joinNow, copies>>
    BY <1>4 DEF Offer
  <2>2. Len(Tail(joinQueue)) <= Len(joinQueue) BY <1>1, <2>1
  <2>3. Len(Tail(joinQueue)) \in Nat BY <1>1, <2>1
  <2> PICK q : q = Tail(joinQueue) OBVIOUS
  <2>4. Len(q) <= JoinQueue BY <1>1, <2>2, <2>3 DEF JoinBounds
  <2> QED BY <2>1, <2>4 DEF JoinBounds
<1>5. CASE Expire BY <1>5 DEF Expire, JoinBounds
<1>6. ASSUME NEW leg \in Legs, SendToJoin(leg) PROVE JoinBounds'
  <2>1. /\ Len(joinQueue) < JoinQueue /\ joinQueue' = Append(joinQueue, hand[leg])
        /\ UNCHANGED <<joinNow, copies>>
    BY <1>6 DEF SendToJoin
  <2> PICK q : q = Append(joinQueue, hand[leg]) OBVIOUS
  <2>2. Len(q) <= JoinQueue BY <1>1, <1>2, <2>1
  <2> QED BY <2>1, <2>2 DEF JoinBounds
<1>7. ASSUME NEW leg \in Legs, NEW h \in Hashes, ReadBundle(leg, h) PROVE JoinBounds'
  <2>1. copies < MaxCopies /\ copies' = copies + 1 /\ joinNow' = joinNow BY <1>7 DEF ReadBundle
  <2>2. \/ joinQueue' = joinQueue
        \/ Len(joinQueue) < JoinQueue /\ \E input : joinQueue' = Append(joinQueue, input)
    BY <1>7, Zenon DEF ReadBundle
  <2>3. Len(joinQueue') <= JoinQueue BY <1>1, <1>2, <2>2 DEF JoinBounds
  <2> QED BY <2>1, <2>3 DEF JoinBounds
<1>8. CASE UNCHANGED joinVars BY <1>8 DEF joinVars, JoinBounds
<1> QED BY <1>3, <1>4, <1>5, <1>6, <1>7, <1>8 DEF JoinNext

LEMMA JoinInvTypes == JoinInv /\ JoinBounds => JoinTypeOK
<1> SUFFICES ASSUME JoinInv, JoinBounds PROVE JoinTypeOK OBVIOUS
<1> USE JoinAssumption
<1>1. joinNow \in 0 .. JoinMaxTime BY DEF JoinInv, Shape, JoinBounds
<1>2. \A l \in Legs : hand[l] = Idle \/ hand[l].hash \in Hashes BY DEF JoinInv, Shape, Inputs
<1>3. DOMAIN open \subseteq Hashes /\ DOMAIN done \subseteq Hashes BY DEF JoinInv, Shape
<1>4. \A h \in DOMAIN open :
        h \notin DOMAIN done /\ ~Complete(open[h]) /\ (open[h].vpc # None \/ open[h].grpc # None)
  BY DEF JoinInv, Half
<1>5. ASSUME NEW h \in DOMAIN open
      PROVE  open[h] \in [recv : JoinTimes, vpc : JoinTimes, grpc : JoinTimes, seen : 0 .. joinNow]
  <2>1. open[h] \in Entries BY DEF JoinInv, Shape
  <2>2. PastEntry(open[h]) BY DEF JoinInv, Past
  <2> PICK r, v, g \in Maybe, s \in Nat : open[h] = [recv |-> r, vpc |-> v, grpc |-> g, seen |-> s]
    BY <2>1 DEF Entries
  <2>3. r <= joinNow /\ v <= joinNow /\ g <= joinNow /\ s <= joinNow BY <2>2 DEF PastEntry
  <2>4. r \in JoinTimes /\ v \in JoinTimes /\ g \in JoinTimes /\ s \in 0 .. joinNow
    BY <1>1, <2>3 DEF Maybe, JoinTimes, None
  <2> QED BY <2>4
<1> QED BY <1>1, <1>2, <1>3, <1>4, <1>5 DEF JoinTypeOK, JoinBounds

\* A bundle is open for one leg alone, never open and remembered at once, and the channel of
\* the join never holds more than JOIN_QUEUE bundles (src/vpc_mempool.rs, offer and expire).
THEOREM JoinTypes == JoinSpec => []JoinTypeOK
<1>1. JoinInit => JoinBounds BY JoinAssumption DEF JoinInit, JoinBounds
<1> QED BY <1>1, BoundsStay, JoinInvTypes, JoinInvariant, PTL DEF JoinSpec
-----------------------------------------------------------------------------
(* The tasks of a process. *)

\* Whatever task runs, the tap, the join, the collecting task, its reading of messages, the tail
\* and the reading of proposals take their own steps or none, and it is the same task ever after;
\* if it is a leg of the peering dataset, every step is one of that leg's (src/streams.rs,
\* spawn_streams).
THEOREM StreamsRunTasks ==
    StreamsSpec => /\ JoinSpec /\ CollectorSpec
                   /\ FillsSpec /\ TapSpec
                   /\ CanonicalSpec /\ OrderingSpec
                   /\ task = "wire" => Spec
                   /\ task = "decoded" => DecodedSpec
<1>1. StreamsInit => JoinInit /\ CollectorInit /\ FillsInit /\ TapInit
                    /\ CanonicalInit /\ OrderingInit /\ Init /\ DecodedInit
    BY DEF StreamsInit
<1>2. [StreamsNext]_streamsVars => [JoinNext]_joinVars /\ [CollectorNext]_collectorVars
                                              /\ [FillsNext]_fillsVars /\ [TapNext]_tapVars /\ UNCHANGED task
    BY DEF StreamsNext, streamsVars, Wire, Decoded, Tap, Join, FillsLeg, Collect, Content, Scan
<1>3. [StreamsNext]_streamsVars => [CanonicalNext]_canonicalVars /\ [OrderingNext]_orderingVars
    BY DEF StreamsNext, streamsVars, Wire, Decoded, Tap, Join, FillsLeg, Collect, Content, Scan
<1>4. [StreamsNext]_streamsVars /\ task = "wire" => [Next]_vars
    BY DEF StreamsNext, streamsVars, Wire, Decoded, Tap, Join, FillsLeg, Collect, Content, Scan
<1>5. [StreamsNext]_streamsVars /\ task = "decoded" => [DecodedNext]_<<vars, decodedVars>>
    BY DEF StreamsNext, streamsVars, Wire, Decoded, Tap, Join, FillsLeg, Collect, Content, Scan
<1>6. /\ task = "wire" /\ UNCHANGED task => (task = "wire")'
      /\ task = "decoded" /\ UNCHANGED task => (task = "decoded")'
    OBVIOUS
<1>7. QED
    BY <1>1, <1>2, <1>3, <1>4, <1>5, <1>6, PTL
    DEF StreamsSpec, JoinSpec, CollectorSpec, FillsSpec, TapSpec, CanonicalSpec, OrderingSpec, Spec,
        DecodedSpec

\* The task that runs is one that some process runs, and it is the same task ever after.
SomeTask ==
    task \in {"wire", "decoded", "tap", "join", "fills", "collector", "content", "ordering"}

LEMMA StreamsKeepTask == StreamsSpec => []SomeTask
<1>1. StreamsInit => SomeTask BY DEF StreamsInit, Tasks, SomeTask
<1>2. SomeTask /\ [StreamsNext]_streamsVars => SomeTask'
    BY DEF StreamsNext, streamsVars, Wire, Decoded, Tap, Join, FillsLeg, Collect, Content, Scan, SomeTask
<1> QED BY <1>1, <1>2, PTL DEF StreamsSpec

LEMMA StreamsKeepOthers ==
    StreamsSpec => /\ ~(task = "wire") => [](~(task = "wire"))
                   /\ ~(task = "decoded") => [](~(task = "decoded"))
<1>1. [StreamsNext]_streamsVars => UNCHANGED task
  BY DEF StreamsNext, streamsVars, Wire, Decoded, Tap, Join, FillsLeg, Collect, Content, Scan
<1>2. /\ ~(task = "wire") /\ UNCHANGED task => (~(task = "wire"))'
      /\ ~(task = "decoded") /\ UNCHANGED task => (~(task = "decoded"))'
  OBVIOUS
<1> QED BY <1>1, <1>2, PTL DEF StreamsSpec

\* In every process the variables of the task that runs have their types, and its buffers and
\* queues stay within their caps: the bytes a flow of the tap holds back (MAX_PENDING_BYTES), the
\* channel of the join (JOIN_QUEUE), the rounds a leg keeps (src/streams.rs, spawn_streams).
THEOREM StreamsTypes == StreamsSpec => []StreamsTypeOK
<1>1. /\ SomeTask
      /\ task = "wire" => TypeOK
      /\ task = "decoded" => DecodedTypeOK
      /\ TapTypeOK /\ JoinTypeOK /\ FillsTypeOK /\ CollectorTypeOK /\ CanonicalTypeOK /\ OrderingTypeOK
      => StreamsTypeOK
  BY DEF StreamsTypeOK, SomeTask
<1>2. StreamsSpec => [](task = "wire" => TypeOK)
  BY StreamsRunTasks, StreamsKeepOthers, TypeCorrect, PTL
<1>3. StreamsSpec => [](task = "decoded" => DecodedTypeOK)
  BY StreamsRunTasks, StreamsKeepOthers, DecodedTypes, PTL
<1> QED
  BY <1>1, <1>2, <1>3, StreamsKeepTask, StreamsRunTasks, TapTypes, JoinTypes, FillsTypes,
     CollectorTypes, CanonicalTypes, OrderingTypes, PTL

\* In every process a bundle is emitted once while it is remembered, and with the first reads of
\* its legs (src/vpc_mempool.rs).
THEOREM StreamsEmitOnce == StreamsSpec => [](JoinEmitsOnce /\ JoinStampTrue)
BY StreamsRunTasks, EmittedOnce, FirstEmissionTrue, PTL

\* In every process a collecting task accounts for the numbers it is sent, times no replayed
\* message, and waits longer from one short connection to the next (src/streams.rs).
THEOREM StreamsCollect ==
    StreamsSpec => [](CollectorTypeOK /\ CollectorReplayExact /\ CollectorBackoffGrows)
BY StreamsRunTasks, CollectorTypes, ReplayIsExact, BackoffDoubles, PTL

\* In every process the tail of the node's fills times its lines once and in their order, and
\* of a file it leaves loses the last second only (src/streams.rs, run_vpc_fills_once).
THEOREM StreamsTail ==
    StreamsSpec => [](FillsTypeOK /\ FillsInOrder /\ FillsLossIsLastSecond)
BY StreamsRunTasks, FillsTypes, FillsStayInOrder, FillsLossIsBounded, PTL

\* In every process the tap hands its frames on as the connection had them, none stamped with a
\* time before all of its bytes were captured, and holds nothing it could hand on
\* (src/tap.rs, Reassembler and Flow).
THEOREM StreamsTap == StreamsSpec => [](TapTypeOK /\ TapFramesTrue /\ TapHeldAhead)
BY StreamsRunTasks, TapTypes, TapFramesAreTrue, TapHeldIsAhead, PTL

\* In every process either leg of the peering dataset accounts for the rounds the feed names,
\* and what the wire leg reports is stamped with its boundary
\* (src/peering.rs, drain_ready of Assembly and of DecodedAssembly).
THEOREM StreamsAccountForRounds ==
    StreamsSpec => /\ task = "wire" => [](/\ ReportedOnce /\ GapIsIncomplete
                                          /\ NamedRoundsAccounted /\ StampIsBoundary)
                   /\ task = "decoded" => []DecodedExact
BY StreamsRunTasks, RoundReportedOnce, GapsAreIncomplete, NamedRoundsAreAccounted,
   SamplesAreBoundaries, DecodedIsExact, PTL

\* In every process a message of a snapshot or of fills has the key of its content whatever
\* service sends it and however it writes its numbers, and of a proposal the rounds are found
\* that the node wrote in it (src/model.rs and src/axiom.rs, src/ordering.rs).
THEOREM StreamsRead == StreamsSpec => [](ContentIsKey /\ OrderingExact)
BY StreamsRunTasks, ContentHasItsKey, OrderingIsExact, PTL
=============================================================================
