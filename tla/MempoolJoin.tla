---------------------------- MODULE MempoolJoin ----------------------------
(***************************************************************************)
(* The mempool dataset on the box of the node: src/vpc_mempool.rs and the  *)
(* gRPC leg of src/streams.rs that feeds it.                               *)
(*                                                                         *)
(* Two readers, one of the sentry's bundle lines and one of the gRPC       *)
(* stream, stamp every bundle they read and put it on one bounded queue,   *)
(* waiting while it is full.  The join task holds the first copy of each   *)
(* leg per hash, emits both the moment the second arrives and a single leg *)
(* once it is past the deadline, and remembers a finished hash for a while *)
(* so that copies sent again change nothing.                               *)
(***************************************************************************)
EXTENDS Integers, Sequences, Functions

CONSTANTS
    Hashes,        \* bundles that touch the coin's asset; others never get here
    JoinDeadline,  \* JOIN_DEADLINE
    DoneRetain,    \* DONE_RETAIN
    JoinQueue,     \* JOIN_QUEUE
    RecvLag,       \* bound: how long before its line the sentry received a bundle
    MaxCopies,     \* bound: bundles read in a behaviour, copies included
    JoinMaxTime    \* bound: the clock stops here

ASSUME JoinAssumption ==
    /\ JoinDeadline \in Nat \ {0} /\ DoneRetain \in Nat \ {0} /\ JoinQueue \in Nat \ {0}
    /\ RecvLag \in Nat /\ MaxCopies \in Nat /\ JoinMaxTime \in Nat

Legs == {"vpc", "grpc"}

VARIABLES
    joinNow,    \* the clock; readers and join run on one box
    copies,     \* bundles read so far
    hand,       \* leg |-> the stamped bundle its reader waits to send, or Idle
    joinQueue,  \* the channel between the readers and the join task
    open,       \* MempoolJoin.open: hash |-> Entry
    done        \* MempoolJoin.done: hash |-> when it was finished

\* History, read by no guard: what was emitted for each hash, in order, and when each
\* leg first read it.
VARIABLES emitted, firstRead

joinVars == <<joinNow, copies, hand, joinQueue, open, done, emitted, firstRead>>

None == -1
Idle == [hash |-> "none"]

NoEntry(t) == [recv |-> None, vpc |-> None, grpc |-> None, seen |-> t]
-----------------------------------------------------------------------------
(* Entry *)

Complete(e) == e.vpc # None /\ e.grpc # None

\* Mutant: the sentry's receipt alone is the reference.
ReferenceMs_Recv(e) == IF e.recv # None THEN e.recv ELSE e.grpc

\* The least of the times that are there.
ReferenceMs(e) ==
    CHOOSE t \in {e.recv, e.vpc, e.grpc} \ {None} :
        \A u \in {e.recv, e.vpc, e.grpc} \ {None} : t <= u

\* The events of an entry: one per leg that is there, under one reference time.
Emission(e) == [event |-> ReferenceMs(e), vpc |-> e.vpc, grpc |-> e.grpc, at |-> joinNow]

\* Mutant: a later copy of a leg replaces the first.
WithLeg_Last(e, input) ==
    IF input.leg = "vpc" THEN [e EXCEPT !.vpc = input.at, !.recv = input.recv]
    ELSE [e EXCEPT !.grpc = input.at]

\* The first copy of a leg wins.
WithLeg(e, input) ==
    IF input.leg = "vpc"
    THEN IF e.vpc = None THEN [e EXCEPT !.vpc = input.at, !.recv = input.recv] ELSE e
    ELSE IF e.grpc = None THEN [e EXCEPT !.grpc = input.at] ELSE e

Without(f, S) == Restrict(f, DOMAIN f \ S)

Emit(S, es) ==
    emitted' = [h \in Hashes |-> IF h \in S THEN Append(emitted[h], Emission(es[h]))
                                            ELSE emitted[h]]
-----------------------------------------------------------------------------
(* The readers. *)

\* A bundle line, or a gRPC message, is read and stamped, and sent if there is room;
\* the sentry's own receipt of the bundle, which its line carries, is no later.  Any
\* bundle may be read again and again: a reader that reconnects may be sent it once more.
ReadBundle(leg, h) ==
    /\ hand[leg] = Idle /\ copies < MaxCopies
    /\ \E recv \in {t \in 0 .. joinNow : joinNow - t <= RecvLag} :
        LET input == [leg |-> leg, hash |-> h, at |-> joinNow, recv |-> recv] IN
        /\ leg = "grpc" => recv = joinNow
        /\ \/ /\ Len(joinQueue) < JoinQueue
              /\ joinQueue' = Append(joinQueue, input) /\ hand' = hand
           \/ /\ Len(joinQueue) = JoinQueue
              /\ hand' = [hand EXCEPT ![leg] = input] /\ joinQueue' = joinQueue
    /\ copies' = copies + 1
    /\ firstRead' = [firstRead EXCEPT ![leg][h] = IF @ = None THEN joinNow ELSE @]
    /\ UNCHANGED <<joinNow, open, done, emitted>>

\* join.send: a reader that found the queue full goes on once there is room.
SendToJoin(leg) ==
    /\ hand[leg] # Idle /\ Len(joinQueue) < JoinQueue
    /\ joinQueue' = Append(joinQueue, hand[leg])
    /\ hand' = [hand EXCEPT ![leg] = Idle]
    /\ UNCHANGED <<joinNow, copies, open, done, emitted, firstRead>>
-----------------------------------------------------------------------------
(* The join task. *)

OfferedTo(h) == IF h \in DOMAIN open THEN open[h] ELSE NoEntry(joinNow)

\* Mutant: a finished hash opens an entry again.
Remembered_Never(h) == FALSE

Remembered(h) == h \in DOMAIN done

\* offer
Offer ==
    /\ joinQueue # <<>>
    /\ LET input == Head(joinQueue)
           h == input.hash
           e == WithLeg(OfferedTo(h), input)
       IN
       \/ /\ Remembered(h)
          /\ UNCHANGED <<open, done, emitted>>
       \/ /\ ~Remembered(h) /\ Complete(e)
          /\ Emit({h}, [g \in {h} |-> e])
          /\ open' = Without(open, {h})
          /\ done' = [g \in DOMAIN done \cup {h} |-> IF g = h THEN joinNow ELSE done[g]]
       \/ /\ ~Remembered(h) /\ ~Complete(e)
          /\ open' = [g \in DOMAIN open \cup {h} |-> IF g = h THEN e ELSE open[g]]
          /\ UNCHANGED <<done, emitted>>
    /\ joinQueue' = Tail(joinQueue)
    /\ UNCHANGED <<joinNow, copies, hand, firstRead>>

Expirable == {h \in DOMAIN open : joinNow - open[h].seen >= JoinDeadline}

\* expire, on the maintenance tick.  The count of what was half joined, and the gap the join
\* task reports of it, are left out.
Expire ==
    /\ LET over == Expirable
           finished == [h \in DOMAIN done \cup over |-> IF h \in over THEN joinNow ELSE done[h]]
       IN
       /\ Emit(over, open)
       /\ open' = Without(open, over)
       /\ done' = Without(finished, {h \in DOMAIN finished : joinNow - finished[h] >= DoneRetain})
    /\ UNCHANGED <<joinNow, copies, hand, joinQueue, firstRead>>

JoinElapse ==
    /\ joinNow < JoinMaxTime
    /\ joinNow' = joinNow + 1
    /\ UNCHANGED <<copies, hand, joinQueue, open, done, emitted, firstRead>>
-----------------------------------------------------------------------------
JoinInit ==
    /\ joinNow = 0 /\ copies = 0
    /\ hand = [l \in Legs |-> Idle] /\ joinQueue = <<>>
    /\ open = [h \in {} |-> NoEntry(0)] /\ done = [h \in {} |-> 0]
    /\ emitted = [h \in Hashes |-> <<>>]
    /\ firstRead = [l \in Legs |-> [h \in Hashes |-> None]]

JoinNext ==
    \/ JoinElapse \/ Offer \/ Expire
    \/ \E leg \in Legs : SendToJoin(leg) \/ \E h \in Hashes : ReadBundle(leg, h)

JoinSpec == JoinInit /\ [][JoinNext]_joinVars
-----------------------------------------------------------------------------
(* Properties *)

JoinTimes == {None} \cup 0 .. JoinMaxTime

JoinTypeOK ==
    /\ joinNow \in 0 .. JoinMaxTime /\ copies \in 0 .. MaxCopies
    /\ \A l \in Legs : hand[l] = Idle \/ hand[l].hash \in Hashes
    /\ Len(joinQueue) <= JoinQueue
    /\ DOMAIN open \subseteq Hashes /\ DOMAIN done \subseteq Hashes
    /\ DOMAIN open \cap DOMAIN done = {}
    /\ \A h \in DOMAIN open :
        /\ open[h] \in [recv : JoinTimes, vpc : JoinTimes, grpc : JoinTimes, seen : 0 .. joinNow]
        /\ ~Complete(open[h]) /\ (open[h].vpc # None \/ open[h].grpc # None)

\* A bundle is emitted again only when its memory has run out: whatever copies either leg
\* is sent, in any order and however long they wait in the queue, two emissions of a hash
\* are DONE_RETAIN apart (src/vpc_mempool.rs:33-34, offer and expire).
JoinEmitsOnce ==
    \A h \in Hashes : \A i, j \in DOMAIN emitted[h] :
        i < j => emitted[h][j].at - emitted[h][i].at >= DoneRetain

\* The first emission of a bundle carries of each leg its first read, whichever order the
\* copies were in, and a reference time no later than either leg, so that no leg measures
\* a negative latency (src/vpc_mempool.rs:68-69, 10-12).
JoinStampTrue ==
    \A h \in Hashes : emitted[h] # <<>> =>
        LET e == Head(emitted[h]) IN
        /\ \A l \in Legs : e[l] # None => e[l] = firstRead[l][h] /\ e.event <= e[l]
        /\ e.event \in 0 .. e.at
=============================================================================
