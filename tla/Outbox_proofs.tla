--------------------------- MODULE Outbox_proofs ---------------------------
(***************************************************************************)
(* Theorems about the outbox, for every number of windows, size, cap,      *)
(* retry bound, and history of crashes and power losses: the types, that   *)
(* no admitted window is lost, that no refused one is delivered, and that  *)
(* no process posts again what it saw acknowledged.                        *)
(*                                                                         *)
(* None of these is inductive by itself.  IInv adds what ties the two      *)
(* tasks together: what each may know of a window (Known, Fresh), what the *)
(* worker has in hand (InHand), and which acknowledged files are still     *)
(* queued (AckedLeaves).  JInv adds the directory and the order of names,  *)
(* for the contract, KInv the running byte total and the caps.             *)
(***************************************************************************)
EXTENDS Outbox, Totals

\* What the in-memory queue holds.
Queued == {files[i] : i \in DOMAIN files}
\* The worker has a file in hand: before, and after its acknowledgement.
Busy   == worker \in {"read", "attempt", "posting"}
Commit == worker \in {"unlink", "unlinked", "remove"}

\* The windows the two tasks have in hand were submitted.
HandsKnown ==
    /\ Persisting => last \in Windows
    /\ Busy \/ Commit => cur \in Windows

\* Nothing is known of a window that was not submitted.
Known ==
    /\ dirNow \subseteq 1 .. last /\ dirDisk \subseteq 1 .. last
    /\ accepted \subseteq 1 .. last /\ acked \subseteq 1 .. last
    /\ delivered \subseteq 1 .. last /\ dropped \subseteq 1 .. last
    /\ Queued \subseteq 1 .. last
    /\ cur <= last

\* The window being admitted is new to everything but the directory.
Fresh ==
    /\ Persisting =>
        /\ last >= 1
        /\ last \notin accepted /\ last \notin acked /\ last \notin delivered
        /\ last \notin dropped /\ last \notin Queued
        /\ cur # last
    /\ persist \in {"write", "rename"} => last \notin dirNow /\ last \notin dirDisk
    /\ persist = "sync" => last \in dirNow

\* A refused window is gone from everywhere.
DroppedGone ==
    \A w \in dropped :
        w \notin delivered /\ w \notin dirNow /\ w \notin dirDisk /\ w \notin Queued

\* What the worker has in hand is queued, and acknowledged once it is committing.
InHand ==
    /\ Busy \/ Commit => cur \in Queued
    /\ Commit => cur \in ackedRun

\* While the worker runs, only the file being committed is queued and acknowledged.
AckedLeaves ==
    worker # "stopped" =>
        \A w \in Queued : w \in ackedRun => Commit /\ w = cur

\* No file is queued twice.
Distinct == \A i, j \in DOMAIN files : files[i] = files[j] => i = j

\* No process, no call in progress and nothing seen.
Down == run = "down" => persist = "idle" /\ ackedRun = {}

IInv ==
    /\ TypeOK /\ NoAcceptedLoss /\ Known /\ Fresh /\ DroppedGone
    /\ InHand /\ AckedLeaves /\ Distinct /\ Down

-----------------------------------------------------------------------------
(* The variables start with their types. *)
LEMMA TypeInit == Init => TypeOK
<1> SUFFICES ASSUME Init PROVE TypeOK OBVIOUS
<1>1. files \in Seq(Windows) /\ order \in [Windows -> Nat] BY DEF Init
<1>2. last \in 0 .. MaxWindows /\ cur \in 0 .. MaxWindows
  BY SizesAssumption DEF Init
<1>3. /\ run \in {"up", "down"} /\ persist \in PersistStates
      /\ worker \in WorkerStates /\ stopping \in BOOLEAN
  BY DEF Init, PersistStates, WorkerStates
<1> HIDE DEF Windows
<1> QED BY <1>1, <1>2, <1>3 DEF Init, TypeOK

(* The publisher keeps the types: the number and the name of a new window. *)
LEMMA TypePublisher ==
    ASSUME TypeOK, HandsKnown, Publisher
    PROVE  TypeOK'
<1> USE DEF TypeOK, publisherVars, workerVars, diskVars, stateVars, historyVars
<1>0. MaxWindows \in Nat BY SizesAssumption
<1>n. CanSubmit => last + 1 \in Windows /\ last + 1 \in 0 .. MaxWindows
  BY <1>0 DEF CanSubmit, Windows
<1>1. CASE SubmitDrop
  BY <1>1, <1>n DEF SubmitDrop
<1>2. CASE SubmitStart
  <2>1. PICK now \in WallTimes : order' = [order EXCEPT ![last + 1] = NextOrder(now)]
    BY <1>2 DEF SubmitStart
  <2>2. NextOrder(now) \in Nat
    <3>1. now \in Nat BY <2>1, BoundsAssumption
    <3>2. CASE files = <<>> BY <3>1, <3>2 DEF NextOrder
    <3>3. CASE files # <<>>
      <4>1. files[Len(files)] \in Windows BY <3>3
      <4>2. order[files[Len(files)]] + 1 \in Nat BY <4>1
      <4> QED BY <4>2, <3>1, <3>3 DEF NextOrder
    <3> QED BY <3>2, <3>3
  <2>3. order' \in [Windows -> Nat] BY <2>1, <2>2
  <2> QED BY <1>2, <1>n, <2>3 DEF SubmitStart, PersistStates
<1>3. CASE WriteOk \/ SyncFail
  BY <1>3 DEF WriteOk, SyncFail, PersistStates
<1>4. CASE RenameOk \/ PersistFail
  BY <1>4 DEF RenameOk, PersistFail, PersistStates, HandsKnown, Persisting
<1>5. CASE SyncOk
  <2>1. last \in Windows BY <1>5 DEF SyncOk, HandsKnown, Persisting
  <2>2. files' \in Seq(Windows) BY <1>5, <2>1 DEF SyncOk
  <2> QED BY <1>5, <2>1, <2>2 DEF SyncOk, PersistStates
<1>6. CASE Close
  BY <1>6 DEF Close
<1> QED BY <1>1, <1>2, <1>3, <1>4, <1>5, <1>6 DEF Publisher

(* The delivery worker keeps the types: the head it takes, the file it drops. *)
LEMMA TypeWorker ==
    ASSUME TypeOK, HandsKnown, WorkerStep
    PROVE  TypeOK'
<1> USE DEF TypeOK, publisherVars, workerVars, diskVars, stateVars, historyVars
<1>0. MaxWindows \in Nat BY SizesAssumption
<1>1. CASE Poll
  <2>1. files # <<>> => Front \in Windows BY DEF Front
  <2>2. Front \in Windows => Front \in 0 .. MaxWindows BY <1>0 DEF Windows
  <2> QED BY <1>1, <2>1, <2>2 DEF Poll, FirstAttempt, WorkerStates
<1>2. CASE Wake \/ ReadOk \/ ReadFail \/ BeginAttempt \/ GiveUp \/ AcknowledgeFail
  BY <1>2 DEF Wake, ReadOk, ReadFail, BeginAttempt, GiveUp, AcknowledgeFail,
              AfterFailure, AfterCommitFailure, WorkerStates
<1>3. CASE PostOk
  BY <1>3 DEF PostOk, HandsKnown, Busy, WorkerStates
<1>4. CASE PostFail
  BY <1>4 DEF PostFail, HandsKnown, Busy, WorkerStates
<1>5. CASE Unlink \/ UnlinkSync
  BY <1>5 DEF Unlink, UnlinkSync, WorkerStates
<1>6. CASE RemoveAcknowledged
  <2>1. PICK i \in DOMAIN files :
          files' = [k \in 1 .. Len(files) - 1 |-> IF k < i THEN files[k] ELSE files[k + 1]]
    BY <1>6 DEF RemoveAcknowledged
  <2>2. Len(files) - 1 \in Nat BY <2>1
  <2>3. \A k \in 1 .. Len(files) - 1 : files'[k] \in Windows BY <2>1
  <2>4. files' \in Seq(Windows) BY <2>1, <2>2, <2>3
  <2> QED BY <1>6, <2>4 DEF RemoveAcknowledged, WorkerStates
<1> QED BY <1>1, <1>2, <1>3, <1>4, <1>5, <1>6 DEF WorkerStep

(* open() queues exactly the files of the directory, each once. *)
LEMMA OpenFiles ==
    ASSUME TypeOK, Open
    PROVE  /\ files' \in Seq(Windows)
           /\ Queued' = dirNow
           /\ \A i, j \in DOMAIN files' : files'[i] = files'[j] => i = j
<1>0. MaxWindows \in Nat BY SizesAssumption
<1>1. IsFiniteSet(Windows) BY <1>0, FS_Interval DEF Windows
<1>2. dirNow \subseteq Windows BY DEF TypeOK
<1>3. IsFiniteSet(dirNow) BY <1>1, <1>2, FS_Subset
<1>4. Cardinality(dirNow) \in Nat BY <1>3, FS_CardinalityType
<1>5. /\ files' \in [1 .. Cardinality(dirNow) -> dirNow]
      /\ \A w \in dirNow : \E i \in DOMAIN files' : files'[i] = w
      /\ \A i, j \in DOMAIN files' : files'[i] = files'[j] => i = j
  BY DEF Open, SortedFiles
<1>6. files' \in Seq(Windows) BY <1>2, <1>4, <1>5
<1>7. Queued' = dirNow BY <1>5 DEF Queued
<1> QED BY <1>5, <1>6, <1>7

(* Process end and start keep the types. *)
LEMMA TypeLifecycle ==
    ASSUME TypeOK, Lifecycle
    PROVE  TypeOK'
<1> USE DEF TypeOK, publisherVars, workerVars, diskVars, stateVars, historyVars
<1>1. CASE Exit \/ Crash
  <2>1. ProcessGone /\ UNCHANGED diskVars /\ stops' \in Nat
    BY <1>1 DEF Exit, Crash
  <2>2. files' \in Seq(Windows) BY <2>1 DEF ProcessGone
  <2>3. persist' \in PersistStates /\ worker' \in WorkerStates
    BY <2>1 DEF ProcessGone, PersistStates, WorkerStates
  <2> QED BY <2>1, <2>2, <2>3 DEF ProcessGone
<1>2. CASE PowerLoss
  <2>1. ProcessGone /\ stops' \in Nat /\ dirNow' \subseteq Windows /\ dirDisk' \subseteq Windows
    BY <1>2 DEF PowerLoss
  <2>2. files' \in Seq(Windows) BY <2>1 DEF ProcessGone
  <2>3. persist' \in PersistStates /\ worker' \in WorkerStates
    BY <2>1 DEF ProcessGone, PersistStates, WorkerStates
  <2> QED BY <2>1, <2>2, <2>3 DEF ProcessGone
<1>3. CASE Open
  <2>1. files' \in Seq(Windows) BY <1>3, OpenFiles
  <2> QED BY <1>3, <2>1 DEF Open, WorkerStates
<1> QED BY <1>1, <1>2, <1>3 DEF Lifecycle

(* What is queued is a window. *)
LEMMA QueuedIsTyped == ASSUME TypeOK PROVE Queued \subseteq Windows
<1> QED BY DEF TypeOK, Queued

(* The windows in hand are windows. *)
LEMMA IInvHandsKnown == ASSUME IInv PROVE HandsKnown
<1>1. MaxWindows \in Nat BY SizesAssumption
<1>2. Persisting => last \in Windows
  BY <1>1 DEF IInv, TypeOK, Fresh, Windows
<1>3. Busy \/ Commit => cur \in Windows
  BY QueuedIsTyped DEF IInv, InHand
<1> QED BY <1>2, <1>3 DEF HandsKnown

(* The invariant holds of the first start. *)
LEMMA InvInit == Init => IInv
<1> SUFFICES ASSUME Init PROVE IInv OBVIOUS
<1>1. TypeOK BY TypeInit
<1>2. Queued = {} BY DEF Init, Queued
<1>3. ~Persisting /\ ~Busy /\ ~Commit BY DEF Init, Persisting, Busy, Commit
<1>4. NoAcceptedLoss BY DEF Init, NoAcceptedLoss
<1>5. Known BY <1>2 DEF Init, Known
<1>6. Fresh BY <1>3 DEF Init, Fresh
<1>7. DroppedGone BY DEF Init, DroppedGone
<1>8. InHand /\ AckedLeaves BY <1>2, <1>3 DEF InHand, AckedLeaves
<1>9. Distinct /\ Down BY DEF Init, Distinct, Down
<1> QED BY <1>1, <1>4, <1>5, <1>6, <1>7, <1>8, <1>9 DEF IInv

(* persist_body's push_back appends the window and nothing else. *)
LEMMA AppendFiles ==
    ASSUME TypeOK, SyncOk
    PROVE  /\ Queued' = Queued \cup {last}
           /\ DOMAIN files = 1 .. Len(files) /\ Len(files) \in Nat
           /\ DOMAIN files' = 1 .. Len(files) + 1
           /\ files'[Len(files) + 1] = last
           /\ \A i \in 1 .. Len(files) : files'[i] = files[i]
<1>1. /\ DOMAIN files' = 1 .. Len(files) + 1 /\ DOMAIN files = 1 .. Len(files)
      /\ Len(files) \in Nat
      /\ files'[Len(files) + 1] = last
      /\ \A i \in 1 .. Len(files) : files'[i] = files[i]
  BY DEF SyncOk, TypeOK
<1>2. Queued' = Queued \cup {last} BY <1>1 DEF Queued
<1> QED BY <1>1, <1>2

(* acknowledge()'s retain removes the acknowledged file and nothing else. *)
LEMMA RemoveFiles ==
    ASSUME IInv, RemoveAcknowledged
    PROVE  /\ Queued' = Queued \ {cur}
           /\ Distinct'
           /\ \E i \in DOMAIN files :
                /\ files[i] = cur
                /\ files' = [k \in 1 .. Len(files) - 1 |->
                              IF k < i THEN files[k] ELSE files[k + 1]]
<1>1. PICK i \in DOMAIN files :
        /\ files[i] = cur
        /\ files' = [k \in 1 .. Len(files) - 1 |-> IF k < i THEN files[k] ELSE files[k + 1]]
  BY DEF RemoveAcknowledged
<1>2. DOMAIN files = 1 .. Len(files) /\ Len(files) \in Nat /\ i \in 1 .. Len(files)
  BY <1>1 DEF IInv, TypeOK
<1>3. \A j, k \in DOMAIN files : files[j] = files[k] => j = k
  BY DEF IInv, Distinct
<1>4. Queued' = Queued \ {cur}
  <2>1. ASSUME NEW k \in DOMAIN files' PROVE files'[k] \in Queued \ {cur}
    BY <1>1, <1>2, <1>3, <2>1 DEF Queued
  <2>2. ASSUME NEW j \in DOMAIN files, files[j] # cur PROVE \E k \in DOMAIN files' : files'[k] = files[j]
    <3>1. CASE j < i
      <4>1. j \in DOMAIN files' /\ files'[j] = files[j] BY <1>1, <1>2, <2>2, <3>1
      <4> QED BY <4>1
    <3>2. CASE j > i
      <4>1. j - 1 \in DOMAIN files' /\ files'[j - 1] = files[j] BY <1>1, <1>2, <2>2, <3>2
      <4> QED BY <4>1
    <3> QED BY <1>1, <1>2, <2>2, <3>1, <3>2
  <2> QED BY <2>1, <2>2 DEF Queued
<1>5. Distinct' BY <1>1, <1>2, <1>3 DEF Distinct
<1> QED BY <1>1, <1>4, <1>5

(* The invariant survives each step of persist_events and close(). *)
LEMMA InvPublisher ==
    ASSUME IInv, Publisher
    PROVE  IInv'
<1> USE DEF publisherVars, workerVars, diskVars, stateVars, historyVars
<1>t. TypeOK /\ TypeOK' BY IInvHandsKnown, TypePublisher DEF IInv
<1>w. UNCHANGED <<Busy, Commit>>
  BY DEF Publisher, SubmitDrop, SubmitStart, WriteOk, RenameOk, PersistFail,
         SyncOk, SyncFail, Close, Busy, Commit
<1>l. last \in Nat /\ cur \in Int BY <1>t DEF TypeOK
<1>p. ~SyncOk => UNCHANGED Queued
  BY DEF Publisher, SubmitDrop, SubmitStart, WriteOk, RenameOk, PersistFail,
         SyncFail, Close, Queued
<1>1. CASE SubmitDrop
  <2>1. last' = last + 1 /\ dropped' = dropped \cup {last + 1} /\ UNCHANGED Queued
    BY <1>1 DEF SubmitDrop, Queued
  <2>2. ~Persisting' BY <1>1 DEF SubmitDrop, CanSubmit, Persisting
  <2>3. NoAcceptedLoss' BY <1>1 DEF IInv, SubmitDrop, NoAcceptedLoss
  <2>4. Known' BY <1>1, <2>1, <1>l DEF IInv, SubmitDrop, Known
  <2>5. Fresh' BY <1>1, <2>2 DEF SubmitDrop, CanSubmit, Fresh
  <2>6. DroppedGone' BY <1>1, <2>1, <1>l DEF IInv, SubmitDrop, DroppedGone, Known
  <2>7. InHand' /\ AckedLeaves' BY <1>1, <2>1, <1>w DEF IInv, SubmitDrop, InHand, AckedLeaves
  <2>8. Distinct' /\ Down' BY <1>1 DEF IInv, SubmitDrop, Distinct, Down
  <2> QED BY <1>t, <2>3, <2>4, <2>5, <2>6, <2>7, <2>8 DEF IInv
<1>2. CASE SubmitStart
  <2>1. last' = last + 1 /\ UNCHANGED Queued
    BY <1>2 DEF SubmitStart, Queued
  <2>3. NoAcceptedLoss' BY <1>2 DEF IInv, SubmitStart, NoAcceptedLoss
  <2>4. Known' BY <1>2, <2>1, <1>l DEF IInv, SubmitStart, Known
  <2>5. Fresh' BY <1>2, <2>1, <1>l DEF IInv, SubmitStart, Fresh, Known
  <2>6. DroppedGone' BY <1>2, <2>1 DEF IInv, SubmitStart, DroppedGone
  <2>7. InHand' /\ AckedLeaves' BY <1>2, <2>1, <1>w DEF IInv, SubmitStart, InHand, AckedLeaves
  <2>8. Distinct' /\ Down' BY <1>2 DEF IInv, SubmitStart, CanSubmit, Distinct, Down
  <2> QED BY <1>t, <2>3, <2>4, <2>5, <2>6, <2>7, <2>8 DEF IInv
<1>3. CASE WriteOk \/ SyncFail \/ Close
  <2> USE DEF WriteOk, SyncFail, Close
  <2>1. UNCHANGED Queued BY <1>3 DEF Queued
  <2>3. NoAcceptedLoss' BY <1>3 DEF IInv, NoAcceptedLoss
  <2>4. Known' BY <1>3, <2>1 DEF IInv, Known
  <2>5. Fresh' BY <1>3, <2>1 DEF IInv, Fresh, Persisting
  <2>6. DroppedGone' BY <1>3, <2>1 DEF IInv, DroppedGone
  <2>7. InHand' /\ AckedLeaves' BY <1>3, <2>1, <1>w DEF IInv, InHand, AckedLeaves
  <2>8. Distinct' /\ Down' BY <1>3 DEF IInv, Distinct, Down
  <2> QED BY <1>t, <2>3, <2>4, <2>5, <2>6, <2>7, <2>8 DEF IInv
<1>4. CASE RenameOk
  <2>1. UNCHANGED Queued /\ Persisting BY <1>4 DEF RenameOk, Queued, Persisting
  <2>2. last >= 1 /\ last \notin dropped BY <2>1 DEF IInv, Fresh
  <2>3. NoAcceptedLoss' BY <1>4 DEF IInv, RenameOk, NoAcceptedLoss
  <2>4. Known' BY <1>4, <2>1, <2>2, <1>l DEF IInv, RenameOk, Known
  <2>5. Fresh' BY <1>4, <2>1 DEF IInv, RenameOk, Fresh
  <2>6. DroppedGone' BY <1>4, <2>1, <2>2 DEF IInv, RenameOk, DroppedGone
  <2>7. InHand' /\ AckedLeaves' BY <1>4, <2>1, <1>w DEF IInv, RenameOk, InHand, AckedLeaves
  <2>8. Distinct' /\ Down' BY <1>4 DEF IInv, RenameOk, Distinct, Down
  <2> QED BY <1>t, <2>3, <2>4, <2>5, <2>6, <2>7, <2>8 DEF IInv
<1>5. CASE PersistFail
  <2>1. UNCHANGED Queued /\ Persisting /\ ~Persisting'
    BY <1>5 DEF PersistFail, Queued, Persisting
  <2>2. /\ last >= 1 /\ last \notin delivered /\ last \notin Queued
        /\ last \notin dirNow /\ last \notin dirDisk
    BY <1>5, <2>1 DEF IInv, Fresh, PersistFail
  <2>3. NoAcceptedLoss' BY <1>5 DEF IInv, PersistFail, NoAcceptedLoss
  <2>4. Known' BY <1>5, <2>1, <2>2, <1>l DEF IInv, PersistFail, Known
  <2>5. Fresh' BY <1>5, <2>1 DEF PersistFail, Fresh
  <2>6. DroppedGone' BY <1>5, <2>1, <2>2 DEF IInv, PersistFail, DroppedGone
  <2>7. InHand' /\ AckedLeaves' BY <1>5, <2>1, <1>w DEF IInv, PersistFail, InHand, AckedLeaves
  <2>8. Distinct' /\ Down' BY <1>5 DEF IInv, PersistFail, Distinct, Down
  <2> QED BY <1>t, <2>3, <2>4, <2>5, <2>6, <2>7, <2>8 DEF IInv
<1>6. CASE SyncOk
  <2>1. Persisting /\ ~Persisting' BY <1>6 DEF SyncOk, Persisting
  <2>2. /\ last >= 1 /\ last \notin acked /\ last \notin delivered
        /\ last \notin dropped /\ last \notin Queued /\ last \in dirNow
    BY <1>6, <2>1 DEF IInv, Fresh, SyncOk
  <2>3. /\ Queued' = Queued \cup {last}
        /\ DOMAIN files = 1 .. Len(files) /\ Len(files) \in Nat
        /\ DOMAIN files' = 1 .. Len(files) + 1
        /\ files'[Len(files) + 1] = last
        /\ \A i \in 1 .. Len(files) : files'[i] = files[i]
    BY <1>6, <1>t, AppendFiles
  <2>4. Queued' = Queued \cup {last} BY <2>3
  <2>5. NoAcceptedLoss' BY <1>6, <2>2 DEF IInv, SyncOk, NoAcceptedLoss
  <2>6. Known' BY <1>6, <2>2, <2>4, <1>l DEF IInv, SyncOk, Known
  <2>7. Fresh' BY <1>6, <2>1 DEF SyncOk, Fresh
  <2>8. DroppedGone' BY <1>6, <2>2, <2>4 DEF IInv, SyncOk, DroppedGone
  <2>9. InHand' BY <1>6, <2>4, <1>w DEF IInv, SyncOk, InHand
  <2>10. AckedLeaves'
    BY <1>6, <1>t, <2>2, <2>4, <1>w DEF IInv, SyncOk, AckedLeaves, TypeOK
  <2>11. Distinct' BY <2>2, <2>3 DEF IInv, Distinct, Queued
  <2>12. Down' BY <1>6 DEF SyncOk, Down
  <2> QED BY <1>t, <2>5, <2>6, <2>7, <2>8, <2>9, <2>10, <2>11, <2>12 DEF IInv
<1> QED BY <1>1, <1>2, <1>3, <1>4, <1>5, <1>6 DEF Publisher

(* The invariant survives each step of the delivery worker. *)
LEMMA InvWorker ==
    ASSUME IInv, WorkerStep
    PROVE  IInv'
<1> USE DEF publisherVars, workerVars, diskVars, stateVars, historyVars
<1>t. TypeOK /\ TypeOK' BY IInvHandsKnown, TypeWorker DEF IInv
<1>1. CASE Poll
  <2>1. UNCHANGED Queued BY <1>1 DEF Poll, Queued
  <2>2. files # <<>> => Front \in Queued BY <1>t DEF Front, Queued, TypeOK
  <2>3. ~Commit' /\ ~Commit /\ ~Busy /\ (Busy' => files # <<>> /\ cur' = Front)
    BY <1>1 DEF Poll, Busy, Commit
  <2>4. NoAcceptedLoss' BY <1>1 DEF IInv, Poll, NoAcceptedLoss
  <2>5. Known'
    <3>1. cur' <= last
      <4>1. Queued \subseteq 1 .. last /\ cur <= last BY DEF IInv, Known
      <4>2. cur' = cur \/ (files # <<>> /\ cur' = Front) BY <1>1 DEF Poll
      <4>3. \A w \in Queued : w <= last BY <4>1, <1>t DEF TypeOK
      <4> QED BY <4>1, <4>2, <4>3, <2>2
    <3> QED BY <1>1, <2>1, <3>1 DEF IInv, Poll, Known
  <2>6. Fresh' BY <1>1 DEF Poll, LockFree, Fresh, Persisting, IInv
  <2>7. DroppedGone' BY <1>1, <2>1 DEF IInv, Poll, DroppedGone
  <2>8. InHand' BY <2>1, <2>2, <2>3 DEF InHand
  <2>9. AckedLeaves'
    <3>1. \A w \in Queued : w \notin ackedRun
      BY <1>1, <2>3 DEF IInv, AckedLeaves, Poll
    <3> QED BY <1>1, <2>1, <3>1 DEF Poll, AckedLeaves
  <2>10. Distinct' /\ Down' BY <1>1 DEF IInv, Poll, Distinct, Down
  <2> QED BY <1>t, <2>4, <2>5, <2>6, <2>7, <2>8, <2>9, <2>10 DEF IInv
<1>2. CASE Wake \/ ReadOk \/ ReadFail \/ BeginAttempt \/ GiveUp
  <2> USE DEF Wake, ReadOk, ReadFail, BeginAttempt, GiveUp, AfterFailure
  <2>1. UNCHANGED <<Queued, Persisting>> BY <1>2 DEF Queued, Persisting
  <2>2. ~Commit' /\ ~Commit /\ (Busy' => Busy) /\ worker # "stopped"
    BY <1>2 DEF Busy, Commit
  <2>3. NoAcceptedLoss' BY <1>2 DEF IInv, NoAcceptedLoss
  <2>4. Known' BY <1>2, <2>1 DEF IInv, Known
  <2>5. Fresh' BY <1>2, <2>1 DEF IInv, Fresh
  <2>6. DroppedGone' BY <1>2, <2>1 DEF IInv, DroppedGone
  <2>7. InHand' BY <1>2, <2>1, <2>2 DEF IInv, InHand
  <2>8. AckedLeaves' BY <1>2, <2>1, <2>2 DEF IInv, AckedLeaves
  <2>9. Distinct' /\ Down' BY <1>2 DEF IInv, Distinct, Down
  <2> QED BY <1>t, <2>3, <2>4, <2>5, <2>6, <2>7, <2>8, <2>9 DEF IInv
<1>3. CASE PostOk \/ PostFail
  <2> USE DEF PostOk, PostFail
  <2>1. UNCHANGED <<Queued, Persisting>> BY <1>3 DEF Queued, Persisting
  <2>2. Busy /\ ~Commit BY <1>3 DEF Busy, Commit
  <2>3. cur \in Queued BY <2>2 DEF IInv, InHand
  <2>4. NoAcceptedLoss' BY <1>3 DEF IInv, NoAcceptedLoss
  <2>5. Known' BY <1>3, <2>1, <2>3 DEF IInv, Known
  <2>6. Fresh' BY <1>3, <2>1 DEF IInv, Fresh
  <2>7. DroppedGone' BY <1>3, <2>1, <2>3 DEF IInv, DroppedGone
  <2>8. InHand' BY <1>3, <2>1, <2>3 DEF InHand, Busy, Commit
  <2>9. AckedLeaves' BY <1>3, <2>1, <2>2 DEF IInv, AckedLeaves, Commit
  <2>10. Distinct' /\ Down' BY <1>3 DEF IInv, Distinct, Down
  <2> QED BY <1>t, <2>4, <2>5, <2>6, <2>7, <2>8, <2>9, <2>10 DEF IInv
<1>4. CASE Unlink \/ UnlinkSync \/ AcknowledgeFail
  <2> USE DEF Unlink, UnlinkSync, AcknowledgeFail, AfterCommitFailure
  <2>1. UNCHANGED <<Queued, Persisting>> BY <1>4 DEF Queued, Persisting
  <2>2. ~Busy /\ ~Busy' /\ Commit /\ (Commit' \/ worker' = "stopped")
    BY <1>4 DEF Busy, Commit
  <2>3. cur \in Queued /\ cur \in ackedRun /\ cur \in acked
    BY <1>t, <2>2 DEF IInv, InHand, TypeOK
  <2>4. NoAcceptedLoss' BY <1>4, <2>3 DEF IInv, NoAcceptedLoss
  <2>5. Known' BY <1>4, <2>1 DEF IInv, Known
  <2>6. Fresh'
    <3>1. persist = "sync" => last # cur BY DEF IInv, Fresh, Persisting
    <3> QED BY <1>4, <2>1, <3>1 DEF IInv, Fresh
  <2>7. DroppedGone' BY <1>4, <2>1 DEF IInv, DroppedGone
  <2>8. InHand' BY <1>4, <2>1, <2>2 DEF IInv, InHand
  <2>9. AckedLeaves' BY <1>4, <2>1, <2>2 DEF IInv, AckedLeaves, Commit
  <2>10. Distinct' /\ Down' BY <1>4 DEF IInv, Distinct, Down
  <2> QED BY <1>t, <2>4, <2>5, <2>6, <2>7, <2>8, <2>9, <2>10 DEF IInv
<1>5. CASE RemoveAcknowledged
  <2>4. Queued' = Queued \ {cur} /\ Distinct' BY <1>5, RemoveFiles
  <2>5. UNCHANGED Persisting /\ ~Busy' /\ ~Commit' /\ ~Busy /\ Commit
    BY <1>5 DEF RemoveAcknowledged, Persisting, Busy, Commit
  <2>6. NoAcceptedLoss' BY <1>5 DEF IInv, RemoveAcknowledged, NoAcceptedLoss
  <2>7. Known' BY <1>5, <2>4 DEF IInv, RemoveAcknowledged, Known
  <2>8. Fresh' BY <1>5, <2>4, <2>5 DEF IInv, RemoveAcknowledged, Fresh
  <2>9. DroppedGone' BY <1>5, <2>4 DEF IInv, RemoveAcknowledged, DroppedGone
  <2>10. InHand' BY <2>5 DEF InHand
  <2>11. AckedLeaves' BY <1>5, <2>4 DEF IInv, RemoveAcknowledged, AckedLeaves
  <2>13. Down' BY <1>5 DEF RemoveAcknowledged, Down
  <2> QED BY <1>t, <2>6, <2>7, <2>8, <2>9, <2>10, <2>11, <2>13, <2>4 DEF IInv
<1> QED BY <1>1, <1>2, <1>3, <1>4, <1>5 DEF WorkerStep

(* The invariant survives the end of a process, in whatever way, and open(). *)
LEMMA InvLifecycle ==
    ASSUME IInv, Lifecycle
    PROVE  IInv'
<1> USE DEF publisherVars, workerVars, diskVars, stateVars, historyVars
<1>t. TypeOK /\ TypeOK' BY TypeLifecycle DEF IInv
<1>1. CASE Exit \/ Crash \/ PowerLoss
  <2>1. /\ ProcessGone
        /\ dirNow' \subseteq dirNow \cup dirDisk /\ dirDisk' \subseteq dirNow \cup dirDisk
        /\ dirNow \cap dirDisk \subseteq dirNow' \cap dirDisk'
    BY <1>1 DEF Exit, Crash, PowerLoss
  <2>2. /\ Queued' = {} /\ ~Persisting' /\ ~Busy' /\ ~Commit'
        /\ worker' = "stopped" /\ persist' = "idle" /\ files' = <<>> /\ ackedRun' = {}
        /\ UNCHANGED <<cur, last, accepted, dropped, delivered, acked>>
    BY <2>1 DEF ProcessGone, Queued, Persisting, Busy, Commit
  <2>3. NoAcceptedLoss' BY <2>1, <2>2 DEF IInv, NoAcceptedLoss
  <2>4. Known' BY <2>1, <2>2 DEF IInv, Known
  <2>5. Fresh' BY <2>2 DEF Fresh
  <2>6. DroppedGone' BY <2>1, <2>2 DEF IInv, DroppedGone
  <2>7. InHand' /\ AckedLeaves' BY <2>2 DEF InHand, AckedLeaves
  <2>8. Distinct' /\ Down' BY <2>2 DEF Distinct, Down
  <2> QED BY <1>t, <2>3, <2>4, <2>5, <2>6, <2>7, <2>8 DEF IInv
<1>2. CASE Open
  <2>1. /\ Queued' = dirNow
        /\ \A i, j \in DOMAIN files' : files'[i] = files'[j] => i = j
    BY <1>2, <1>t, OpenFiles
  <2>2. /\ dirDisk' = dirNow /\ worker' = "poll" /\ run' = "up"
        /\ UNCHANGED <<cur, last, dirNow, persist, accepted, dropped, delivered, acked, ackedRun>>
    BY <1>2 DEF Open
  <2>3. persist = "idle" /\ ackedRun = {} BY <1>2 DEF IInv, Down, Open
  <2>4. NoAcceptedLoss' BY <2>2 DEF IInv, NoAcceptedLoss
  <2>5. Known' BY <2>1, <2>2 DEF IInv, Known
  <2>6. Fresh' BY <2>2, <2>3 DEF Fresh, Persisting
  <2>7. DroppedGone' BY <2>1, <2>2 DEF IInv, DroppedGone
  <2>8. InHand' /\ AckedLeaves' BY <2>2, <2>3 DEF InHand, AckedLeaves, Busy, Commit
  <2>9. Distinct' /\ Down' BY <2>1, <2>2 DEF Distinct, Down
  <2> QED BY <1>t, <2>4, <2>5, <2>6, <2>7, <2>8, <2>9 DEF IInv
<1> QED BY <1>1, <1>2 DEF Lifecycle

(* The inductive invariant holds in every reachable state. *)
THEOREM InductiveInvariant == Spec => []IInv
<1>1. ASSUME IInv, [Next]_vars PROVE IInv'
  <2>1. CASE Next
    BY <1>1, <2>1, InvPublisher, InvWorker, InvLifecycle DEF Next
  <2>2. CASE UNCHANGED vars
    <3>1. TypeOK /\ NoAcceptedLoss /\ Known /\ DroppedGone /\ Fresh /\ InHand
      BY <1>1 DEF IInv
    <3>2. AckedLeaves /\ Distinct /\ Down BY <1>1 DEF IInv
    <3>3. /\ run' = run /\ stopping' = stopping
          /\ persist' = persist /\ last' = last /\ order' = order
          /\ worker' = worker /\ cur' = cur /\ attempt' = attempt
          /\ dirNow' = dirNow /\ dirDisk' = dirDisk /\ files' = files /\ bytes' = bytes
          /\ accepted' = accepted /\ dropped' = dropped /\ delivered' = delivered
          /\ acked' = acked /\ ackedRun' = ackedRun /\ stops' = stops
      BY <2>2 DEF vars, publisherVars, workerVars, diskVars, stateVars, historyVars
    <3>4. TypeOK' BY <3>1, <3>3 DEF TypeOK
    <3>5. NoAcceptedLoss' BY <3>1, <3>3 DEF NoAcceptedLoss
    <3>q. Queued' = Queued /\ Busy' = Busy /\ Commit' = Commit /\ Persisting' = Persisting
      BY <3>3 DEF Queued, Busy, Commit, Persisting
    <3>6. Known' /\ DroppedGone' BY <3>1, <3>3, <3>q DEF Known, DroppedGone
    <3>7. Fresh' BY <3>1, <3>3, <3>q DEF Fresh
    <3>8. InHand' BY <3>1, <3>3, <3>q DEF InHand
    <3>9. AckedLeaves' BY <3>2, <3>3, <3>q DEF AckedLeaves
    <3>a. Distinct' BY <3>2, <3>3 DEF Distinct
    <3>b. Down' BY <3>2, <3>3 DEF Down
    <3> QED BY <3>4, <3>5, <3>6, <3>7, <3>8, <3>9, <3>a, <3>b DEF IInv
  <2> QED BY <1>1, <2>1, <2>2
<1> QED BY InvInit, <1>1, PTL DEF Spec

(* Every variable of the outbox keeps its type. *)
THEOREM TypeCorrect == Spec => []TypeOK
<1>1. IInv => TypeOK BY DEF IInv
<1> QED BY <1>1, InductiveInvariant, PTL

(* A window whose submit() returned Ok(true) is acknowledged or in a file that *)
(* no crash and no power loss can take, whatever the order of rename, directory *)
(* fsync, acknowledgement, unlink and restart. *)
THEOREM AcceptedIsNeverLost == Spec => []NoAcceptedLoss
<1>1. IInv => NoAcceptedLoss BY DEF IInv
<1> QED BY <1>1, InductiveInvariant, PTL

(* A window whose submit() returned Ok(false) is never posted, by this process *)
(* or a later one, so its outcomes may be published under another identity. *)
THEOREM DroppedIsNeverDelivered == Spec => []DroppedNeverDelivered
<1>1. IInv => DroppedNeverDelivered
  BY DEF IInv, DroppedGone, DroppedNeverDelivered
<1> QED BY <1>1, InductiveInvariant, PTL

(* A process that saw a full acknowledgement never posts that file again: a *)
(* failed unlink or directory fsync leads back to the local commit only. *)
THEOREM AcknowledgedIsNotReposted == Spec => []NoRepostInRun
<1>1. IInv => NoRepostInRun
  BY DEF IInv, InHand, AckedLeaves, NoRepostInRun, Busy, Commit
<1> QED BY <1>1, InductiveInvariant, PTL
-----------------------------------------------------------------------------
(***************************************************************************)
(* The outbox implements DeliveryContract.  What that takes, beyond IInv,  *)
(* is an account of the directory: it holds what the queue holds up to the *)
(* file being admitted and the one being removed, and the names of the     *)
(* files sort in the order of submission, so that a restart finds the      *)
(* queue in the order it was left in.                                      *)
(***************************************************************************)
\* The window whose file is in the directory and not yet in the queue.
InDoubt == IF persist \in {"sync", "poisoned"} THEN {last} ELSE {}

\* The window whose name is chosen and that is not yet in the queue.
Named == IF Persisting THEN {last} ELSE {}

\* A live process has everything on disk in its queue, the window in doubt aside.
DirQueued == run = "up" => dirNow \cup dirDisk \subseteq Queued \cup InDoubt

\* Only acknowledged files come out of the directory or linger on the disk.
DirLags ==
    /\ dirDisk \subseteq dirNow \cup acked
    /\ Queued \subseteq dirNow \cup acked
    /\ worker \in {"unlinked", "remove"} => cur \notin dirNow
    /\ worker = "remove" => cur \notin dirDisk

\* What was acknowledged was stored.
AckedStored == acked \subseteq delivered

\* The names in the directory sort in the order of submission.
NamesSorted ==
    \A v, w \in dirNow \cup dirDisk \cup Queued \cup Named : v < w => order[v] < order[w]

\* And so does the queue, whose head the worker has in hand.
QueueSorted ==
    /\ \A i, j \in DOMAIN files : i < j => files[i] < files[j]
    /\ Busy \/ Commit => files # <<>> /\ cur = files[1]

JInv == DirQueued /\ DirLags /\ AckedStored /\ NamesSorted /\ QueueSorted

(* A window is its number. *)
LEMMA WindowsAreIntegers == \A w \in Windows : w \in Int
<1> QED BY DEF Windows

(* The strengthening holds of the first start. *)
LEMMA ContractInit == Init => JInv
<1> SUFFICES ASSUME Init PROVE JInv OBVIOUS
<1>1. Queued = {} /\ Named = {} BY DEF Init, Queued, Named, Persisting
<1>2. DirQueued /\ DirLags /\ AckedStored BY <1>1 DEF Init, DirQueued, DirLags, AckedStored
<1>3. NamesSorted BY <1>1 DEF Init, NamesSorted
<1>4. QueueSorted BY DEF Init, QueueSorted, Busy, Commit
<1> QED BY <1>2, <1>3, <1>4 DEF JInv

(* The name of a new file sorts after every file queued or in the directory, *)
(* whatever the wall clock says. *)
LEMMA NewestName ==
    ASSUME IInv, JInv, SubmitStart
    PROVE  \E n \in Nat : /\ order' = [order EXCEPT ![last + 1] = n]
                          /\ \A v \in dirNow \cup dirDisk \cup Queued : order[v] < n
<1>1. PICK now \in WallTimes : order' = [order EXCEPT ![last + 1] = NextOrder(now)]
  BY DEF SubmitStart
<1>2. now \in Nat BY <1>1, BoundsAssumption
<1>3. dirNow \cup dirDisk \subseteq Queued
  BY DEF JInv, DirQueued, InDoubt, SubmitStart, CanSubmit
<1>4. files \in Seq(Windows) /\ order \in [Windows -> Nat] BY DEF IInv, TypeOK
<1>5. CASE files = <<>>
  <2>1. Queued = {} BY <1>5 DEF Queued
  <2> QED BY <1>1, <1>2, <1>3, <1>5, <2>1 DEF NextOrder
<1>6. CASE files # <<>>
  <2> DEFINE newest == files[Len(files)]
  <2>1. Len(files) \in 1 .. Len(files) /\ DOMAIN files = 1 .. Len(files) BY <1>4, <1>6
  <2>2. newest \in Queued /\ newest \in Windows BY <1>4, <2>1 DEF Queued
  <2>3. \A v \in Queued : v = newest \/ v < newest
    BY <1>4, <2>1 DEF JInv, QueueSorted, Queued
  <2>4. \A v \in Queued : v = newest \/ order[v] < order[newest]
    BY <2>2, <2>3 DEF JInv, NamesSorted
  <2>5. order[newest] \in Nat BY <1>4, <2>2
  <2>6. NextOrder(now) \in Nat /\ order[newest] < NextOrder(now)
    BY <1>2, <1>6, <2>5 DEF NextOrder
  <2>7. \A v \in Queued : order[v] \in Nat BY <1>4, QueuedIsTyped DEF IInv
  <2>8. \A v \in Queued : order[v] < NextOrder(now) BY <2>4, <2>5, <2>6, <2>7
  <2> QED BY <1>1, <1>3, <2>6, <2>8
<1> QED BY <1>5, <1>6

(* The strengthening survives the publisher. *)
LEMMA JPublisher ==
    ASSUME IInv, JInv, Publisher
    PROVE  JInv'
<1> USE DEF publisherVars, workerVars, diskVars, stateVars, historyVars
<1>t. TypeOK BY DEF IInv
<1>l. last \in Nat BY <1>t DEF TypeOK
<1>w. UNCHANGED <<Busy, Commit, worker, cur>>
  BY DEF Publisher, SubmitDrop, SubmitStart, WriteOk, RenameOk, PersistFail,
         SyncOk, SyncFail, Close, Busy, Commit
<1>1. CASE SubmitStart
  <2>1. /\ UNCHANGED <<Queued, InDoubt, dirNow, dirDisk, files, run>>
        /\ last' = last + 1 /\ Named' = {last + 1}
    BY <1>1 DEF SubmitStart, CanSubmit, Queued, InDoubt, Named, Persisting
  <2>2. DirQueued' BY <2>1 DEF JInv, DirQueued
  <2>3. DirLags' BY <1>1, <1>w, <2>1 DEF JInv, DirLags, SubmitStart
  <2>4. AckedStored' BY <1>1 DEF JInv, AckedStored, SubmitStart
  <2>5. NamesSorted'
    <3>1. PICK n \in Nat :
            /\ order' = [order EXCEPT ![last + 1] = n]
            /\ \A v \in dirNow \cup dirDisk \cup Queued : order[v] < n
      BY <1>1, NewestName
    <3>2. \A v \in dirNow \cup dirDisk \cup Queued : v \in Windows /\ v # last + 1 /\ v < last + 1
      BY <1>l, QueuedIsTyped, <1>t DEF IInv, Known, TypeOK
    <3>3. \A v \in dirNow \cup dirDisk \cup Queued : order'[v] = order[v]
      BY <3>1, <3>2, <1>t DEF TypeOK
    <3>4. last + 1 \in Windows
      <4>1. last < MaxWindows BY <1>1 DEF SubmitStart, CanSubmit
      <4> QED BY <4>1, <1>l, SizesAssumption DEF Windows
    <3>5. order'[last + 1] = n BY <3>1, <3>4, <1>t DEF TypeOK
    <3>6. \A v, w \in dirNow \cup dirDisk \cup Queued : v < w => order[v] < order[w]
      BY DEF JInv, NamesSorted
    <3>7. ASSUME NEW v \in dirNow \cup dirDisk \cup Queued \cup {last + 1},
                 NEW w \in dirNow \cup dirDisk \cup Queued \cup {last + 1}, v < w
          PROVE  order'[v] < order'[w]
      <4>1. v # last + 1 BY <1>l, <3>2, <3>7, WindowsAreIntegers
      <4>2. CASE w = last + 1 BY <3>1, <3>3, <3>5, <4>1, <4>2
      <4>3. CASE w # last + 1 BY <3>3, <3>6, <3>7, <4>1, <4>3
      <4> QED BY <4>2, <4>3
    <3> QED BY <2>1, <3>7 DEF NamesSorted
  <2>6. QueueSorted' BY <2>1, <1>w DEF JInv, QueueSorted
  <2> QED BY <2>2, <2>3, <2>4, <2>5, <2>6 DEF JInv
<1>2. CASE SubmitDrop \/ WriteOk \/ PersistFail \/ SyncFail \/ Close
  <2> USE DEF SubmitDrop, CanSubmit, WriteOk, PersistFail, SyncFail, Close
  <2>1. /\ UNCHANGED <<Queued, InDoubt, dirNow, dirDisk, files, run, order>>
        /\ Named' \subseteq Named
    BY <1>2 DEF Queued, InDoubt, Named, Persisting
  <2>2. DirQueued' BY <2>1 DEF JInv, DirQueued
  <2>3. DirLags' BY <1>2, <1>w, <2>1 DEF JInv, DirLags
  <2>4. AckedStored' BY <1>2 DEF JInv, AckedStored
  <2>5. NamesSorted' BY <2>1 DEF JInv, NamesSorted
  <2>6. QueueSorted' BY <2>1, <1>w DEF JInv, QueueSorted
  <2> QED BY <2>2, <2>3, <2>4, <2>5, <2>6 DEF JInv
<1>3. CASE RenameOk
  <2>1. /\ UNCHANGED <<Queued, Named, dirDisk, files, run, order, last, acked, delivered>>
        /\ InDoubt' = {last} /\ Named = {last} /\ dirNow' = dirNow \cup {last}
    BY <1>3 DEF RenameOk, Queued, InDoubt, Named, Persisting
  <2>2. DirQueued' BY <1>3, <2>1 DEF JInv, DirQueued, InDoubt, RenameOk
  <2>3. DirLags'
    <3>1. cur # last BY <1>3 DEF IInv, Fresh, RenameOk, Persisting
    <3> QED BY <1>w, <2>1, <3>1 DEF JInv, DirLags
  <2>4. AckedStored' BY <2>1 DEF JInv, AckedStored
  <2>5. NamesSorted' BY <2>1 DEF JInv, NamesSorted
  <2>6. QueueSorted' BY <2>1, <1>w DEF JInv, QueueSorted
  <2> QED BY <2>2, <2>3, <2>4, <2>5, <2>6 DEF JInv
<1>4. CASE SyncOk
  <2>1. /\ Queued' = Queued \cup {last}
        /\ DOMAIN files = 1 .. Len(files) /\ Len(files) \in Nat
        /\ DOMAIN files' = 1 .. Len(files) + 1
        /\ files'[Len(files) + 1] = last
        /\ \A i \in 1 .. Len(files) : files'[i] = files[i]
    BY <1>4, <1>t, AppendFiles
  <2>2. /\ UNCHANGED <<dirNow, run, order, last, acked, delivered>> /\ dirDisk' = dirNow
        /\ InDoubt = {last} /\ InDoubt' = {} /\ Named = {last} /\ Named' = {}
        /\ Persisting
    BY <1>4 DEF SyncOk, InDoubt, Named, Persisting
  <2>3. last \in dirNow BY <1>4 DEF IInv, Fresh, SyncOk, Persisting
  <2>4. DirQueued' BY <2>1, <2>2 DEF JInv, DirQueued
  <2>5. DirLags' BY <2>1, <2>2, <2>3, <1>w DEF JInv, DirLags
  <2>6. AckedStored' BY <2>2 DEF JInv, AckedStored
  <2>7. NamesSorted' BY <2>1, <2>2 DEF JInv, NamesSorted
  <2>8. QueueSorted'
    <3>1. \A i \in DOMAIN files : files[i] < last
      <4>1. last \notin Queued /\ Queued \subseteq 1 .. last
        BY <2>2 DEF IInv, Fresh, Known
      <4> QED BY <4>1, <1>l DEF Queued
    <3>2. \A i, j \in DOMAIN files' : i < j => files'[i] < files'[j]
      BY <2>1, <3>1 DEF JInv, QueueSorted
    <3>3. Busy \/ Commit => files' # <<>> /\ cur = files'[1]
      <4>1. files # <<>> => 1 \in 1 .. Len(files) BY <1>t DEF TypeOK
      <4>2. files' # <<>> BY <1>4, <1>t DEF SyncOk, TypeOK
      <4> QED BY <2>1, <4>1, <4>2 DEF JInv, QueueSorted
    <3> QED BY <3>2, <3>3, <1>w DEF QueueSorted
  <2> QED BY <2>4, <2>5, <2>6, <2>7, <2>8 DEF JInv
<1> QED BY <1>1, <1>2, <1>3, <1>4 DEF Publisher

(* The strengthening survives the delivery worker. *)
LEMMA JWorker ==
    ASSUME IInv, JInv, WorkerStep
    PROVE  JInv'
<1> USE DEF publisherVars, workerVars, diskVars, stateVars, historyVars
<1>t. TypeOK BY DEF IInv
<1>1. CASE Poll
  <2>1. UNCHANGED <<Queued, InDoubt, Named, dirNow, dirDisk, files, run, order, acked, delivered>>
    BY <1>1 DEF Poll, Queued, InDoubt, Named, Persisting
  <2>2. DirQueued' /\ AckedStored' /\ NamesSorted'
    BY <2>1 DEF JInv, DirQueued, AckedStored, NamesSorted
  <2>3. DirLags' BY <1>1, <2>1 DEF JInv, DirLags, Poll
  <2>4. QueueSorted' BY <1>1, <2>1 DEF JInv, QueueSorted, Poll, Busy, Commit, Front
  <2> QED BY <2>2, <2>3, <2>4 DEF JInv
<1>2. CASE Wake \/ ReadOk \/ ReadFail \/ BeginAttempt \/ GiveUp \/ AcknowledgeFail
  <2> USE DEF Wake, ReadOk, ReadFail, BeginAttempt, GiveUp, AcknowledgeFail,
              AfterFailure, AfterCommitFailure
  <2>1. UNCHANGED <<Queued, InDoubt, Named, dirNow, dirDisk, files, run, order, acked, delivered>>
    BY <1>2 DEF Queued, InDoubt, Named, Persisting
  <2>2. DirQueued' /\ AckedStored' /\ NamesSorted'
    BY <2>1 DEF JInv, DirQueued, AckedStored, NamesSorted
  <2>3. DirLags' BY <1>2, <2>1 DEF JInv, DirLags
  <2>4. QueueSorted' BY <1>2, <2>1 DEF JInv, QueueSorted, Busy, Commit
  <2> QED BY <2>2, <2>3, <2>4 DEF JInv
<1>3. CASE PostOk \/ PostFail
  <2> USE DEF PostOk, PostFail
  <2>1. UNCHANGED <<Queued, InDoubt, Named, dirNow, dirDisk, files, run, order, cur>>
    BY <1>3 DEF Queued, InDoubt, Named, Persisting
  <2>2. DirQueued' /\ NamesSorted' BY <2>1 DEF JInv, DirQueued, NamesSorted
  <2>3. AckedStored' BY <1>3 DEF JInv, AckedStored
  <2>4. DirLags' BY <1>3, <2>1 DEF JInv, DirLags
  <2>5. QueueSorted' BY <1>3, <2>1 DEF JInv, QueueSorted, Busy, Commit
  <2> QED BY <2>2, <2>3, <2>4, <2>5 DEF JInv
<1>4. CASE Unlink \/ UnlinkSync
  <2> USE DEF Unlink, UnlinkSync
  <2>1. /\ UNCHANGED <<Queued, InDoubt, Named, files, run, order, cur, acked, delivered>>
        /\ dirNow' \subseteq dirNow /\ dirDisk' \subseteq dirNow \cup dirDisk
    BY <1>4 DEF Queued, InDoubt, Named, Persisting
  <2>2. cur \in acked BY <1>4, <1>t DEF IInv, InHand, Commit, TypeOK
  <2>3. DirQueued' BY <2>1 DEF JInv, DirQueued
  <2>4. AckedStored' BY <2>1 DEF JInv, AckedStored
  <2>5. NamesSorted' BY <2>1 DEF JInv, NamesSorted
  <2>6. DirLags' BY <1>4, <2>1, <2>2 DEF JInv, DirLags
  <2>7. QueueSorted' BY <1>4, <2>1 DEF JInv, QueueSorted, Busy, Commit
  <2> QED BY <2>3, <2>4, <2>5, <2>6, <2>7 DEF JInv
<1>5. CASE RemoveAcknowledged
  <2>1. PICK i \in DOMAIN files :
          /\ files[i] = cur
          /\ files' = [k \in 1 .. Len(files) - 1 |-> IF k < i THEN files[k] ELSE files[k + 1]]
    BY <1>5, RemoveFiles
  <2>2. Queued' = Queued \ {cur} BY <1>5, RemoveFiles
  <2>3. UNCHANGED <<InDoubt, Named, dirNow, dirDisk, run, order, cur, acked, delivered>>
    BY <1>5 DEF RemoveAcknowledged, InDoubt, Named, Persisting
  <2>4. cur \notin dirNow /\ cur \notin dirDisk
    BY <1>5 DEF JInv, DirLags, RemoveAcknowledged
  <2>5. DirQueued' BY <2>2, <2>3, <2>4 DEF JInv, DirQueued
  <2>6. AckedStored' BY <2>3 DEF JInv, AckedStored
  <2>7. NamesSorted' BY <2>2, <2>3 DEF JInv, NamesSorted
  <2>8. DirLags' BY <1>5, <2>2, <2>3 DEF JInv, DirLags, RemoveAcknowledged
  <2>9. QueueSorted'
    <3>1. DOMAIN files = 1 .. Len(files) /\ Len(files) \in Nat BY <1>t DEF TypeOK
    <3>2. DOMAIN files' = 1 .. Len(files) - 1 BY <2>1
    <3>3. \A j, k \in DOMAIN files : j < k => files[j] < files[k] BY DEF JInv, QueueSorted
    <3>4. \A k \in DOMAIN files : files[k] \in Int
      BY <1>t, <3>1, WindowsAreIntegers DEF TypeOK
    <3>5. ASSUME NEW j \in DOMAIN files', NEW k \in DOMAIN files', j < k
          PROVE  files'[j] < files'[k]
      <4>1. j \in 1 .. Len(files) - 1 /\ k \in 1 .. Len(files) - 1 BY <3>2
      <4>2. files'[j] \in {files[j], files[j + 1]} /\ files'[k] \in {files[k], files[k + 1]}
        BY <2>1, <4>1
      <4>3. CASE j < i BY <2>1, <3>1, <3>3, <3>5, <4>1, <4>3
      <4>4. CASE ~(j < i) BY <2>1, <3>1, <3>3, <3>5, <4>1, <4>4
      <4> QED BY <4>3, <4>4
    <3>6. ~Busy' /\ ~Commit' BY <1>5 DEF RemoveAcknowledged, Busy, Commit
    <3> QED BY <3>5, <3>6 DEF QueueSorted
  <2> QED BY <2>5, <2>6, <2>7, <2>8, <2>9 DEF JInv
<1> QED BY <1>1, <1>2, <1>3, <1>4, <1>5 DEF WorkerStep

(* The strengthening survives process end and open(): the names sort the queue. *)
LEMMA JLifecycle ==
    ASSUME IInv, JInv, Lifecycle
    PROVE  JInv'
<1> USE DEF publisherVars, workerVars, diskVars, stateVars, historyVars
<1>1. CASE Exit \/ Crash \/ PowerLoss
  <2>1. /\ ProcessGone
        /\ dirNow' \subseteq dirNow \cup dirDisk /\ dirDisk' \subseteq dirNow' \cup acked
        /\ dirDisk' \subseteq dirNow \cup dirDisk
    BY <1>1 DEF Exit, Crash, PowerLoss, JInv, DirLags
  <2>2. /\ Queued' = {} /\ Named' = {} /\ ~Busy' /\ ~Commit' /\ files' = <<>>
        /\ run' = "down" /\ worker' = "stopped"
        /\ UNCHANGED <<order, acked, delivered>>
    BY <2>1 DEF ProcessGone, Queued, Named, Persisting, Busy, Commit
  <2>3. DirQueued' BY <2>2 DEF DirQueued
  <2>4. DirLags' BY <2>1, <2>2 DEF DirLags
  <2>5. AckedStored' BY <2>2 DEF JInv, AckedStored
  <2>6. NamesSorted' BY <2>1, <2>2 DEF JInv, NamesSorted
  <2>7. QueueSorted' BY <2>2 DEF QueueSorted
  <2> QED BY <2>3, <2>4, <2>5, <2>6, <2>7 DEF JInv
<1>2. CASE Open
  <2>1. /\ Queued' = dirNow /\ files' \in Seq(Windows)
        /\ \A i, j \in DOMAIN files' : files'[i] = files'[j] => i = j
    BY <1>2, OpenFiles DEF IInv
  <2>2. /\ dirDisk' = dirNow /\ worker' = "poll" /\ run' = "up" /\ ~Busy' /\ ~Commit'
        /\ UNCHANGED <<cur, last, dirNow, order, acked, delivered, Named>>
    BY <1>2 DEF Open, Busy, Commit, Named, Persisting
  <2>3. \A i, j \in DOMAIN files' : i < j => order[files'[i]] <= order[files'[j]]
    BY <1>2 DEF Open, SortedFiles, IsSorted
  <2>4. DirQueued' BY <2>1, <2>2 DEF DirQueued
  <2>5. DirLags' BY <2>1, <2>2 DEF DirLags
  <2>6. AckedStored' BY <2>2 DEF JInv, AckedStored
  <2>7. NamesSorted' BY <2>1, <2>2 DEF JInv, NamesSorted
  <2>8. QueueSorted'
    <3>1. ASSUME NEW i \in DOMAIN files', NEW j \in DOMAIN files', i < j
          PROVE  files'[i] < files'[j]
      <4>1. files'[i] \in dirNow /\ files'[j] \in dirNow BY <2>1 DEF Queued
      <4>2. files'[i] # files'[j] BY <2>1, <3>1
      <4>3. files'[i] \in Int /\ files'[j] \in Int BY <2>1, WindowsAreIntegers
      <4>4. order[files'[i]] \in Int /\ order[files'[j]] \in Int
        BY <2>1 DEF IInv, TypeOK
      <4>5. files'[j] < files'[i] => order[files'[j]] < order[files'[i]]
        BY <4>1 DEF JInv, NamesSorted
      <4> QED BY <2>3, <3>1, <4>2, <4>3, <4>4, <4>5
    <3> QED BY <2>2, <3>1 DEF QueueSorted
  <2> QED BY <2>4, <2>5, <2>6, <2>7, <2>8 DEF JInv
<1> QED BY <1>1, <1>2 DEF Lifecycle

(* The file being posted is on disk or was acknowledged before, and everything *)
(* owed or in doubt was submitted after it. *)
LEMMA HeadIsOldest ==
    ASSUME IInv, JInv, run = "up", worker = "posting"
    PROVE  /\ cur \in Windows
           /\ cur \in Owed \cup Doubtful \/ cur \in acked
           /\ \A v \in Owed \cup Doubtful : cur <= v
<1>1. Busy BY DEF Busy
<1>2. cur \in Queued /\ cur \in Windows BY <1>1, QueuedIsTyped DEF IInv, InHand
<1>3. cur \in Owed \cup Doubtful \/ cur \in acked
  BY <1>2 DEF JInv, DirLags, Owed, Doubtful
<1>4. Owed \cup Doubtful \subseteq Queued \cup InDoubt
  BY DEF IInv, NoAcceptedLoss, JInv, DirQueued, Owed, Doubtful
<1>5. \A v \in Queued : cur <= v
  <2>1. files \in Seq(Windows) BY DEF IInv, TypeOK
  <2>2. cur = files[1] /\ files # <<>> BY <1>1 DEF JInv, QueueSorted
  <2>3. \A i \in DOMAIN files : i = 1 \/ (1 < i /\ 1 \in DOMAIN files) BY <2>1
  <2>4. \A i \in DOMAIN files : files[i] = cur \/ cur < files[i]
    BY <2>2, <2>3 DEF JInv, QueueSorted
  <2>5. \A v \in Queued : v = cur \/ cur < v BY <2>4 DEF Queued
  <2> QED BY <2>5, <1>2, QueuedIsTyped, WindowsAreIntegers DEF IInv
<1>6. cur <= last BY DEF IInv, Known
<1> QED BY <1>2, <1>3, <1>4, <1>5, <1>6 DEF InDoubt

(* Both invariants hold in every reachable state. *)
THEOREM ContractInvariant == Spec => [](IInv /\ JInv)
<1>1. ASSUME IInv, JInv, [Next]_vars PROVE JInv'
  <2>1. CASE Next BY <1>1, <2>1, JPublisher, JWorker, JLifecycle DEF Next
  <2>2. CASE UNCHANGED vars
    BY <1>1, <2>2 DEF JInv, DirQueued, DirLags, AckedStored, NamesSorted, QueueSorted,
        InDoubt, Named, Queued, Busy, Commit, Persisting, vars,
        publisherVars, workerVars, diskVars, stateVars, historyVars
  <2> QED BY <1>1, <2>1, <2>2
<1> QED BY ContractInit, <1>1, InductiveInvariant, PTL DEF Spec

(* The ingest service never gets a new window while one admitted before it is *)
(* not fully acknowledged, across restarts and backward steps of the wall clock. *)
THEOREM OldestIsFirst == Spec => OldestFirst
<1>1. ASSUME IInv, JInv, [Next]_vars
      PROVE  [\A w \in delivered' \ delivered :
                 \A v \in accepted : v < w => v \in acked]_vars
  <2>1. SUFFICES ASSUME NEW w \in delivered' \ delivered, NEW v \in accepted, v < w
                 PROVE  v \in acked
    OBVIOUS
  <2>2. PostOk \/ PostFail
    BY <1>1, <2>1 DEF Next, Publisher, WorkerStep, Lifecycle, SubmitDrop, SubmitStart,
        WriteOk, RenameOk, PersistFail, SyncOk, SyncFail, Close, Poll, Wake, ReadOk,
        ReadFail, BeginAttempt, GiveUp, Unlink, UnlinkSync, AcknowledgeFail,
        RemoveAcknowledged, Exit, Crash, PowerLoss, Open, ProcessGone, vars,
        publisherVars, workerVars, diskVars, stateVars, historyVars
  <2>3. w = cur /\ run = "up" /\ worker = "posting"
    BY <2>1, <2>2 DEF PostOk, PostFail
  <2>4. v \in Owed => cur <= v BY <1>1, <2>3, HeadIsOldest
  <2>5. v \in Int /\ cur \in Int BY <1>1 DEF IInv, TypeOK, Windows
  <2> QED BY <2>1, <2>3, <2>4, <2>5 DEF Owed
<1> QED BY <1>1, ContractInvariant, PTL DEF OldestFirst, Spec

(* An attempt is a delivery of the oldest window, confirmed or not, or invisible. *)
LEMMA DeliverStep ==
    ASSUME IInv, JInv, PostOk \/ PostFail
    PROVE  [Contract!Next]_(Contract!contractVars)
<1> USE DEF publisherVars, workerVars, diskVars, stateVars, historyVars
<1>1. /\ run = "up" /\ worker = "posting" /\ UNCHANGED <<dirNow, dirDisk, accepted>>
      /\ delivered' \in {delivered, delivered \cup {cur}}
      /\ acked' \in {acked, acked \cup {cur}}
      /\ acked' = acked \/ delivered' = delivered \cup {cur}
  BY DEF PostOk, PostFail
<1>2. /\ cur \in Windows
      /\ cur \in Owed \cup Doubtful \/ cur \in acked
      /\ \A v \in Owed \cup Doubtful : cur <= v
  BY <1>1, HeadIsOldest
<1>3. acked \subseteq delivered BY DEF JInv, AckedStored
<1>4. CASE acked' = acked /\ delivered' = delivered
  BY <1>1, <1>4 DEF Contract!contractVars, Owed, Doubtful
<1>5. CASE cur \in acked
  BY <1>1, <1>3, <1>5 DEF Contract!contractVars, Owed, Doubtful
<1>6. CASE cur \notin acked /\ acked' = acked /\ delivered' = delivered \cup {cur}
  <2>1. UNCHANGED <<Owed, Doubtful>> BY <1>1, <1>6 DEF Owed, Doubtful
  <2>2. Contract!Deliver(cur, FALSE) BY <1>2, <1>6, <2>1 DEF Contract!Deliver
  <2> QED BY <1>2, <2>2 DEF Contract!Next
<1>7. CASE cur \notin acked /\ acked' = acked \cup {cur} /\ delivered' = delivered \cup {cur}
  <2>1. Owed' = Owed \ {cur} /\ Doubtful' = Doubtful \ {cur}
    BY <1>1, <1>7 DEF Owed, Doubtful
  <2>2. Contract!Deliver(cur, TRUE) BY <1>2, <1>7, <2>1 DEF Contract!Deliver
  <2> QED BY <1>2, <2>2 DEF Contract!Next
<1> QED BY <1>1, <1>4, <1>5, <1>6, <1>7

(* The outbox, with its files, fsyncs, retries, crashes and power losses, is an *)
(* at-least-once queue that delivers in order: every step is a step of *)
(* DeliveryContract or invisible to its caller. *)
THEOREM OutboxImplementsContract == Spec => ImplementsContract
<1>1. Init => Contract!Init
  BY DEF Init, Contract!Init, Owed, Doubtful
<1>2. ASSUME IInv, JInv, [Next]_vars
      PROVE  [Contract!Next]_(Contract!contractVars)
  <2> USE DEF publisherVars, workerVars, diskVars, stateVars, historyVars
  <2>1. CASE PostOk \/ PostFail BY <1>2, <2>1, DeliverStep
  <2>2. CASE RenameOk
    <3>1. last \in Windows /\ last \notin accepted /\ last \notin acked /\ last \notin delivered
      BY <1>2, <2>2, IInvHandsKnown DEF IInv, Fresh, RenameOk, HandsKnown, Persisting
    <3>2. last \notin dirNow /\ last \notin dirDisk
      BY <1>2, <2>2 DEF IInv, Fresh, RenameOk
    <3>3. \A v \in Owed \cup Doubtful \cup delivered : v \in 1 .. last /\ v # last
      BY <1>2, <3>1, <3>2 DEF IInv, Known, Owed, Doubtful
    <3>4. last \in Int BY <3>1, WindowsAreIntegers
    <3>5. \A v \in Owed \cup Doubtful \cup delivered : v < last BY <3>3, <3>4
    <3>6. Doubtful' = Doubtful \cup {last} /\ UNCHANGED <<Owed, delivered>>
      BY <2>2, <3>1 DEF RenameOk, Owed, Doubtful
    <3>7. Contract!Begin(last) BY <3>5, <3>6 DEF Contract!Begin
    <3> QED BY <3>1, <3>7 DEF Contract!Next
  <2>3. CASE SyncOk
    <3>1. last \in Windows /\ last \notin accepted /\ last \notin acked /\ last \in dirNow
      BY <1>2, <2>3, IInvHandsKnown DEF IInv, Fresh, SyncOk, HandsKnown, Persisting
    <3>2. dirDisk \subseteq dirNow \cup acked BY <1>2 DEF JInv, DirLags
    <3>3. /\ last \in Doubtful /\ Owed' = Owed \cup {last}
          /\ Doubtful' = Doubtful \ {last} /\ UNCHANGED delivered
      BY <2>3, <3>1, <3>2 DEF SyncOk, Owed, Doubtful
    <3>4. Contract!Admit(last) BY <3>3 DEF Contract!Admit
    <3> QED BY <3>1, <3>4 DEF Contract!Next
  <2>4. CASE PowerLoss
    <3> DEFINE lost == Doubtful \ Doubtful'
    <3>1. /\ UNCHANGED <<accepted, acked, delivered>>
          /\ dirNow' \cup dirDisk' \subseteq dirNow \cup dirDisk
      BY <2>4 DEF PowerLoss, ProcessGone
    <3>2. Doubtful' = Doubtful \ lost /\ UNCHANGED <<Owed, delivered>>
      BY <3>1 DEF Owed, Doubtful
    <3>3. lost \in SUBSET Windows BY <1>2 DEF IInv, TypeOK, Doubtful
    <3>4. Contract!Forget(lost) BY <3>2 DEF Contract!Forget
    <3> QED BY <3>3, <3>4 DEF Contract!Next
  <2>5. CASE Unlink \/ UnlinkSync \/ Open
    <3>1. dirDisk \subseteq dirNow \cup acked BY <1>2 DEF JInv, DirLags
    <3>2. Unlink => cur \in acked BY <1>2 DEF IInv, InHand, Commit, TypeOK, Unlink
    <3>3. UNCHANGED <<Owed, Doubtful, delivered>>
      BY <2>5, <3>1, <3>2 DEF Unlink, UnlinkSync, Open, Owed, Doubtful
    <3> QED BY <3>3 DEF Contract!contractVars
  <2>6. CASE SubmitDrop \/ SubmitStart \/ WriteOk \/ PersistFail \/ SyncFail \/ Close
    BY <2>6 DEF SubmitDrop, SubmitStart, WriteOk, PersistFail, SyncFail, Close,
        Owed, Doubtful, Contract!contractVars
  <2>7. CASE Poll \/ Wake \/ ReadOk \/ ReadFail \/ BeginAttempt \/ GiveUp
             \/ AcknowledgeFail \/ RemoveAcknowledged
    BY <2>7 DEF Poll, Wake, ReadOk, ReadFail, BeginAttempt, GiveUp, AcknowledgeFail,
        RemoveAcknowledged, Owed, Doubtful, Contract!contractVars
  <2>8. CASE Exit \/ Crash
    BY <2>8 DEF Exit, Crash, ProcessGone, Owed, Doubtful, Contract!contractVars
  <2>9. CASE UNCHANGED vars
    BY <2>9 DEF vars, Owed, Doubtful, Contract!contractVars
  <2> QED BY <1>2, <2>1, <2>2, <2>3, <2>4, <2>5, <2>6, <2>7, <2>8, <2>9
          DEF Next, Publisher, WorkerStep, Lifecycle
<1> QED BY <1>1, <1>2, ContractInvariant, PTL DEF Spec, ImplementsContract, Contract!Spec
-----------------------------------------------------------------------------
(***************************************************************************)
(* The running byte total and the caps.  Both are sums over sets of files, *)
(* so they rest on what Totals says of a sum.  The caps are kept by more   *)
(* than the directory: they cover everything queued, on disk in either     *)
(* view, or reserved by the admission in progress.  Only SubmitStart adds  *)
(* to that, and it has checked the caps against the queue, which by        *)
(* DirQueued is then all there is.                                         *)
(***************************************************************************)
\* Everything a directory may hold before the next admission is checked.
Held == dirNow \cup dirDisk \cup Queued \cup Named

\* The running total is the weight of what is queued.
Charged == bytes = Total(Bytes, Queued)

\* Everything held is within the caps.
Capped ==
    /\ Cardinality(Held) <= MaxFiles
    /\ Total(Bytes, Held) <= MaxBytes

\* The directory lacks nothing of the queue but the file being committed.
HeadGone ==
    run = "up" =>
        /\ Queued \ dirNow \subseteq {cur}
        /\ worker \notin {"unlink", "unlinked", "remove", "stopped"} => Queued \subseteq dirNow

KInv == Charged /\ Capped /\ HeadGone

(* The size of a set of files is the sum of their sizes. *)
LEMMA SizeIsTotal == \A S : SizeOf(S) = Total(Bytes, S)
<1> QED BY DEF SizeOf, MapThenSumSet, MapThenFoldSet, Total, IsTally, Pick

(* Every set of windows is finite and its windows have sizes. *)
LEMMA WindowsAreSized ==
    ASSUME NEW S, S \subseteq Windows
    PROVE  /\ IsFiniteSet(S) /\ Cardinality(S) \in Nat
           /\ \A w \in S : Bytes[w] \in Nat
           /\ Total(Bytes, S) \in Nat
<1>1. MaxWindows \in Nat BY SizesAssumption
<1>2. IsFiniteSet(Windows) BY <1>1, FS_Interval DEF Windows
<1>3. IsFiniteSet(S) BY <1>2, FS_Subset
<1>4. \A w \in S : Bytes[w] \in Nat BY SizesAssumption
<1>5. Cardinality(S) \in Nat BY <1>3, FS_CardinalityType
<1>6. Total(Bytes, S) \in Nat BY <1>3, <1>4, TotalIsNatural
<1> QED BY <1>3, <1>4, <1>5, <1>6

(* A part of what is within the caps is within the caps. *)
LEMMA CapsShrink ==
    ASSUME NEW S, NEW T, S \subseteq Windows, T \subseteq S,
           Cardinality(S) <= MaxFiles, Total(Bytes, S) <= MaxBytes
    PROVE  Cardinality(T) <= MaxFiles /\ Total(Bytes, T) <= MaxBytes
<1>1. /\ IsFiniteSet(S) /\ Cardinality(S) \in Nat /\ Total(Bytes, S) \in Nat
      /\ \A w \in S : Bytes[w] \in Nat
  BY WindowsAreSized
<1>2. T \subseteq Windows OBVIOUS
<1>3. Cardinality(T) \in Nat /\ Total(Bytes, T) \in Nat BY <1>2, WindowsAreSized
<1>4. Cardinality(T) <= Cardinality(S) BY <1>1, FS_Subset
<1>5. Total(Bytes, T) <= Total(Bytes, S) BY <1>1, TotalGrows
<1> QED BY <1>1, <1>3, <1>4, <1>5, CapsAssumption

(* A queue without repeats holds as many windows as it is long. *)
LEMMA QueueCounts ==
    ASSUME TypeOK, Distinct
    PROVE  Cardinality(Queued) = Len(files)
<1>1. files \in Seq(Windows) BY DEF TypeOK
<1>2. Len(files) \in Nat /\ DOMAIN files = 1 .. Len(files) BY <1>1
<1>3. IsFiniteSet(1 .. Len(files)) /\ Cardinality(1 .. Len(files)) = Len(files)
  <2>1. \A m \in Nat : IsFiniteSet(1 .. m) /\ Cardinality(1 .. m) = IF 1 > m THEN 0 ELSE m - 1 + 1
    BY FS_Interval
  <2>2. \A m \in Nat : IsFiniteSet(1 .. m) /\ Cardinality(1 .. m) = m BY <2>1
  <2> QED BY <1>2, <2>2
<1>4. files \in Bijection(1 .. Len(files), Queued)
  <2>1. files \in [1 .. Len(files) -> Queued] BY <1>1, <1>2 DEF Queued
  <2>2. files \in Injection(1 .. Len(files), Queued)
    BY <1>2, <2>1 DEF Distinct, Injection, IsInjective
  <2>3. files \in Surjection(1 .. Len(files), Queued)
    BY <1>2, <2>1 DEF Queued, Surjection
  <2> QED BY <2>2, <2>3 DEF Bijection
<1>5. ExistsBijection(1 .. Len(files), Queued) BY <1>4 DEF ExistsBijection
<1>6. IsFiniteSet(Queued) /\ Cardinality(1 .. Len(files)) = Cardinality(Queued)
  BY <1>3, <1>5, FS_Bijection
<1> QED BY <1>3, <1>6

(* Everything held was submitted. *)
LEMMA HeldIsTyped == ASSUME IInv PROVE Held \subseteq Windows
<1>1. Named \subseteq Windows BY IInvHandsKnown DEF Named, HandsKnown
<1> QED BY <1>1, QueuedIsTyped DEF IInv, TypeOK, Held

(* The ledger holds of the first start. *)
LEMMA LedgerInit == Init => KInv
<1> SUFFICES ASSUME Init PROVE KInv OBVIOUS
<1>1. Queued = {} /\ Held = {} BY DEF Init, Queued, Named, Persisting, Held
<1>2. Total(Bytes, {}) = 0 BY TotalOfNothing
<1>3. Charged BY <1>1, <1>2 DEF Init, Charged
<1>4. Cardinality({}) = 0 BY FS_EmptySet
<1>5. Capped BY <1>1, <1>2, <1>4, CapsAssumption DEF Capped
<1>6. HeadGone BY DEF Init, HeadGone
<1> QED BY <1>3, <1>5, <1>6 DEF KInv

(* A step that holds nothing new keeps the caps. *)
LEMMA CapsKept ==
    ASSUME IInv, Capped, Held' \subseteq Held
    PROVE  Capped'
<1> DEFINE S == Held
           T == Held'
<1>1. S \subseteq Windows BY HeldIsTyped
<1>2. Cardinality(S) <= MaxFiles /\ Total(Bytes, S) <= MaxBytes BY DEF Capped
<1>3. T \subseteq S OBVIOUS
<1> HIDE DEF S, T
<1>4. Cardinality(T) <= MaxFiles /\ Total(Bytes, T) <= MaxBytes
  BY <1>1, <1>2, <1>3, CapsShrink
<1> QED BY <1>4 DEF Capped, T

(* A step that leaves the queue alone keeps the total. *)
LEMMA TotalKept ==
    ASSUME Charged, UNCHANGED <<Queued, bytes>>
    PROVE  Charged'
<1>1. Total(Bytes, Queued)' = Total(Bytes, Queued) OBVIOUS
<1> QED BY <1>1 DEF Charged

(* The ledger survives the publisher. *)
LEMMA LedgerPublisher ==
    ASSUME IInv, JInv, KInv, Publisher
    PROVE  KInv'
<1> USE DEF publisherVars, workerVars, diskVars, stateVars, historyVars
<1>t. TypeOK BY DEF IInv
<1>w. UNCHANGED <<worker, cur, run>>
  BY DEF Publisher, SubmitDrop, SubmitStart, WriteOk, RenameOk, PersistFail,
         SyncOk, SyncFail, Close
<1>1. CASE SubmitStart
  <2>1. /\ UNCHANGED <<Queued, dirNow, dirDisk, bytes>> /\ Named' = {last + 1}
        /\ last < MaxWindows /\ Len(files) < MaxFiles /\ bytes + Bytes[last + 1] <= MaxBytes
        /\ InDoubt = {} /\ run = "up"
    BY <1>1 DEF SubmitStart, CanSubmit, Queued, InDoubt, Named, Persisting
  <2>2. last \in Nat /\ last + 1 \in Windows
    BY <1>t, <2>1, SizesAssumption DEF TypeOK, Windows
  <2>3. dirNow \cup dirDisk \subseteq Queued BY <2>1 DEF JInv, DirQueued
  <2>4. Held' = Queued \cup {last + 1} BY <2>1, <2>3 DEF Held
  <2>5. Queued \subseteq Windows /\ Queued \subseteq 1 .. last
    BY <1>t, QueuedIsTyped DEF IInv, Known
  <2>6. last + 1 \notin Queued BY <2>2, <2>5
  <2> DEFINE Q == Queued
             w == last + 1
  <2>7. /\ IsFiniteSet(Q) /\ Cardinality(Q) \in Nat /\ Total(Bytes, Q) \in Nat
        /\ \A v \in Q : Bytes[v] \in Nat
    BY <2>5, WindowsAreSized
  <2>8. Bytes[w] \in Nat BY <2>2, SizesAssumption
  <2>9. Cardinality(Q) = Len(files) BY <1>t, QueueCounts DEF IInv
  <2>10. bytes = Total(Bytes, Q) BY DEF KInv, Charged
  <2>11. w \notin Q BY <2>6
  <2> HIDE DEF Q, w
  <2>12. Cardinality(Q \cup {w}) = Cardinality(Q) + 1 BY <2>7, <2>11, FS_AddElement
  <2>13. Total(Bytes, Q \cup {w}) = Total(Bytes, Q) + Bytes[w]
    BY <2>7, <2>8, <2>11, TotalPutsIn
  <2>14. Len(files) < MaxFiles /\ bytes + Bytes[w] <= MaxBytes BY <2>1 DEF w
  <2>15. Cardinality(Q \cup {w}) <= MaxFiles /\ Total(Bytes, Q \cup {w}) <= MaxBytes
    BY <2>7, <2>9, <2>10, <2>12, <2>13, <2>14, CapsAssumption
  <2>16. Capped' BY <2>4, <2>15 DEF Capped, Q, w
  <2>17. Charged' BY <2>1, TotalKept DEF KInv
  <2>18. HeadGone' BY <1>w, <2>1 DEF KInv, HeadGone
  <2> QED BY <2>16, <2>17, <2>18 DEF KInv
<1>2. CASE SubmitDrop \/ WriteOk \/ PersistFail \/ SyncFail \/ Close
  <2> USE DEF SubmitDrop, CanSubmit, WriteOk, PersistFail, SyncFail, Close
  <2>1. /\ UNCHANGED <<Queued, dirNow, dirDisk, bytes>>
        /\ Named' \subseteq Named
    BY <1>2 DEF Queued, Named, Persisting
  <2>2. Held' \subseteq Held BY <2>1 DEF Held
  <2>3. Charged' /\ Capped' BY <2>1, <2>2, TotalKept, CapsKept DEF KInv
  <2>4. HeadGone' BY <1>w, <2>1 DEF KInv, HeadGone
  <2> QED BY <2>3, <2>4 DEF KInv
<1>3. CASE RenameOk
  <2>1. /\ UNCHANGED <<Queued, dirDisk, bytes, Named>>
        /\ dirNow' = dirNow \cup {last} /\ Named = {last}
    BY <1>3 DEF RenameOk, Queued, Named, Persisting
  <2>2. Held' \subseteq Held BY <2>1 DEF Held
  <2>3. Charged' /\ Capped' BY <2>1, <2>2, TotalKept, CapsKept DEF KInv
  <2>4. HeadGone' BY <1>w, <2>1 DEF KInv, HeadGone
  <2> QED BY <2>3, <2>4 DEF KInv
<1>4. CASE SyncOk
  <2>1. Queued' = Queued \cup {last} BY <1>4, <1>t, AppendFiles
  <2>2. /\ UNCHANGED dirNow /\ dirDisk' = dirNow /\ bytes' = bytes + Bytes[last]
        /\ Named = {last} /\ Named' = {} /\ Persisting
    BY <1>4 DEF SyncOk, Named, Persisting
  <2>3. last \in dirNow /\ last \notin Queued /\ last \in Windows
    BY <1>4, <2>2, IInvHandsKnown DEF IInv, Fresh, SyncOk, HandsKnown
  <2>4. Held' \subseteq Held BY <2>1, <2>2 DEF Held
  <2>5. Capped' BY <2>4, CapsKept DEF KInv
  <2>6. Charged'
    <3> DEFINE Q == Queued
    <3>1. Q \subseteq Windows BY <1>t, QueuedIsTyped
    <3>2. last \notin Q /\ bytes = Total(Bytes, Q) BY <2>3 DEF KInv, Charged
    <3> HIDE DEF Q
    <3>3. IsFiniteSet(Q) /\ \A v \in Q : Bytes[v] \in Nat BY <3>1, WindowsAreSized
    <3>4. Bytes[last] \in Nat BY <2>3, SizesAssumption
    <3>5. Total(Bytes, Q \cup {last}) = Total(Bytes, Q) + Bytes[last]
      BY <3>2, <3>3, <3>4, TotalPutsIn
    <3>6. bytes' = Total(Bytes, Q \cup {last}) BY <2>2, <3>2, <3>5
    <3> QED BY <2>1, <3>6 DEF Charged, Q
  <2>7. HeadGone' BY <1>w, <2>1, <2>2, <2>3 DEF KInv, HeadGone
  <2> QED BY <2>5, <2>6, <2>7 DEF KInv
<1> QED BY <1>1, <1>2, <1>3, <1>4 DEF Publisher

(* The ledger survives the delivery worker: the total and the queue lose the *)
(* acknowledged file together, and saturating_sub never saturates. *)
LEMMA LedgerWorker ==
    ASSUME IInv, JInv, KInv, WorkerStep
    PROVE  KInv'
<1> USE DEF publisherVars, workerVars, diskVars, stateVars, historyVars
<1>t. TypeOK BY DEF IInv
<1>1. CASE Poll \/ Wake \/ ReadOk \/ ReadFail \/ BeginAttempt \/ GiveUp \/ PostOk
           \/ PostFail \/ AcknowledgeFail
  <2> USE DEF Poll, Wake, ReadOk, ReadFail, BeginAttempt, GiveUp, PostOk, PostFail,
              AcknowledgeFail, AfterFailure, AfterCommitFailure
  <2>1. UNCHANGED <<Queued, Named, dirNow, dirDisk, bytes, run>>
    BY <1>1 DEF Queued, Named, Persisting
  <2>2. Held' \subseteq Held BY <2>1 DEF Held
  <2>3. Charged' /\ Capped' BY <2>1, <2>2, TotalKept, CapsKept DEF KInv
  <2>4. HeadGone' BY <1>1, <2>1 DEF KInv, HeadGone
  <2> QED BY <2>3, <2>4 DEF KInv
<1>2. CASE Unlink \/ UnlinkSync
  <2> USE DEF Unlink, UnlinkSync
  <2>1. /\ UNCHANGED <<Queued, Named, bytes, run, cur>>
        /\ dirNow' \subseteq dirNow /\ dirNow \ dirNow' \subseteq {cur}
        /\ dirDisk' \subseteq dirNow \cup dirDisk
        /\ worker' \in {"unlinked", "remove"}
    BY <1>2 DEF Queued, Named, Persisting
  <2>2. Held' \subseteq Held BY <2>1 DEF Held
  <2>3. Charged' /\ Capped' BY <2>1, <2>2, TotalKept, CapsKept DEF KInv
  <2>4. HeadGone' BY <2>1 DEF KInv, HeadGone
  <2> QED BY <2>3, <2>4 DEF KInv
<1>3. CASE RemoveAcknowledged
  <2>1. Queued' = Queued \ {cur} BY <1>3, RemoveFiles
  <2>2. /\ UNCHANGED <<Named, dirNow, dirDisk, run, cur>> /\ bytes' = BytesWithout(cur)
        /\ worker' = "poll"
    BY <1>3 DEF RemoveAcknowledged, Named, Persisting
  <2>3. cur \in Queued BY <1>3 DEF RemoveAcknowledged, IInv, InHand, Commit
  <2>4. Held' \subseteq Held BY <2>1, <2>2 DEF Held
  <2>5. Capped' BY <2>4, CapsKept DEF KInv
  <2>6. Charged'
    <3> DEFINE Q == Queued
    <3>1. Q \subseteq Windows BY <1>t, QueuedIsTyped
    <3>2. cur \in Q /\ bytes = Total(Bytes, Q) BY <2>3 DEF KInv, Charged
    <3> HIDE DEF Q
    <3>3. IsFiniteSet(Q) /\ \A v \in Q : Bytes[v] \in Nat BY <3>1, WindowsAreSized
    <3>4. Total(Bytes, Q) = Bytes[cur] + Total(Bytes, Q \ {cur})
      BY <3>2, <3>3, TotalTakesOut
    <3>5. Total(Bytes, Q \ {cur}) \in Nat
      <4>1. Q \ {cur} \subseteq Windows BY <3>1
      <4> QED BY <4>1, WindowsAreSized
    <3>6. Bytes[cur] \in Nat BY <3>2, <3>3
    <3>7. BytesWithout(cur) = Total(Bytes, Q \ {cur})
      BY <3>2, <3>4, <3>5, <3>6 DEF BytesWithout
    <3> QED BY <2>1, <2>2, <3>7 DEF Charged, Q
  <2>7. HeadGone' BY <2>1, <2>2 DEF KInv, HeadGone
  <2> QED BY <2>5, <2>6, <2>7 DEF KInv
<1> QED BY <1>1, <1>2, <1>3 DEF WorkerStep

(* The ledger survives process end and open(). *)
LEMMA LedgerLifecycle ==
    ASSUME IInv, JInv, KInv, Lifecycle
    PROVE  KInv'
<1> USE DEF publisherVars, workerVars, diskVars, stateVars, historyVars
<1>1. CASE Exit \/ Crash \/ PowerLoss
  <2>1. /\ ProcessGone
        /\ dirNow' \subseteq dirNow \cup dirDisk /\ dirDisk' \subseteq dirNow \cup dirDisk
    BY <1>1 DEF Exit, Crash, PowerLoss
  <2>2. Queued' = {} /\ Named' = {} /\ bytes' = 0 /\ run' = "down"
    BY <2>1 DEF ProcessGone, Queued, Named, Persisting
  <2>3. Held' \subseteq Held BY <2>1, <2>2 DEF Held
  <2>4. Capped' BY <2>3, CapsKept DEF KInv
  <2>5. Total(Bytes, {}) = 0 BY TotalOfNothing
  <2>6. Charged' BY <2>2, <2>5 DEF Charged
  <2>7. HeadGone' BY <2>2 DEF HeadGone
  <2> QED BY <2>4, <2>6, <2>7 DEF KInv
<1>2. CASE Open
  <2>1. Queued' = dirNow BY <1>2, OpenFiles DEF IInv
  <2>2. /\ dirDisk' = dirNow /\ dirNow' = dirNow /\ bytes' = SizeOf(dirNow)
        /\ UNCHANGED Named
    BY <1>2 DEF Open, Named, Persisting
  <2>3. Held' \subseteq Held BY <2>1, <2>2 DEF Held
  <2>4. Capped' BY <2>3, CapsKept DEF KInv
  <2>5. SizeOf(dirNow) = Total(Bytes, dirNow) BY SizeIsTotal
  <2>6. Charged' BY <2>1, <2>2, <2>5 DEF Charged
  <2>7. HeadGone' BY <2>1, <2>2 DEF HeadGone
  <2> QED BY <2>4, <2>6, <2>7 DEF KInv
<1> QED BY <1>1, <1>2 DEF Lifecycle

(* The byte total, the caps and the directory agree in every reachable state. *)
THEOREM LedgerInvariant == Spec => [](IInv /\ JInv /\ KInv)
<1>1. ASSUME IInv, JInv, KInv, [Next]_vars PROVE KInv'
  <2>1. CASE Next BY <1>1, <2>1, LedgerPublisher, LedgerWorker, LedgerLifecycle DEF Next
  <2>2. CASE UNCHANGED vars
    <3>1. UNCHANGED <<Queued, Named, dirNow, dirDisk, bytes, run, worker, cur>>
      BY <2>2 DEF Queued, Named, Persisting, vars,
          publisherVars, workerVars, diskVars, stateVars, historyVars
    <3>2. Held' \subseteq Held BY <3>1 DEF Held
    <3>3. Charged' /\ Capped' BY <1>1, <3>1, <3>2, TotalKept, CapsKept DEF KInv
    <3>4. HeadGone' BY <1>1, <3>1 DEF KInv, HeadGone
    <3> QED BY <3>3, <3>4 DEF KInv
  <2> QED BY <1>1, <2>1, <2>2
<1> QED BY LedgerInit, <1>1, ContractInvariant, PTL DEF Spec

(* The running total is the size of the queued files and the queue agrees with *)
(* the directory up to the file being admitted and the one being acknowledged. *)
THEOREM ByteTotalIsExact == Spec => []ByteLedger
<1>1. ASSUME IInv, JInv, KInv PROVE ByteLedger
  <2>1. bytes = SizeOf(Queued) BY <1>1, SizeIsTotal DEF KInv, Charged
  <2>2. Cardinality(Queued) = Len(files) BY <1>1, QueueCounts DEF IInv
  <2>3. run = "up" => dirNow \subseteq Queued \cup InDoubt
    BY <1>1 DEF JInv, DirQueued
  <2>4. run = "up" => Queued \ dirNow \subseteq {cur} BY <1>1 DEF KInv, HeadGone
  <2> QED BY <2>1, <2>2, <2>3, <2>4 DEF ByteLedger, Queued, InDoubt
<1> QED BY <1>1, LedgerInvariant, PTL

(* Whatever a crash or a power loss leaves in the directory, the next process *)
(* with the same caps opens it. *)
THEOREM ReopenIsWithinCaps == Spec => []ReopenWithinCaps
<1>1. ASSUME IInv, KInv PROVE ReopenWithinCaps
  <2> DEFINE D == dirNow \cup dirDisk
  <2>1. Held \subseteq Windows /\ D \subseteq Held BY <1>1, HeldIsTyped DEF Held
  <2>2. Cardinality(Held) <= MaxFiles /\ Total(Bytes, Held) <= MaxBytes
    BY <1>1 DEF KInv, Capped
  <2> HIDE DEF D
  <2>3. Cardinality(D) <= MaxFiles /\ Total(Bytes, D) <= MaxBytes
    BY <2>1, <2>2, CapsShrink
  <2>4. SizeOf(D) = Total(Bytes, D) BY SizeIsTotal
  <2> QED BY <2>3, <2>4 DEF ReopenWithinCaps, D
<1> QED BY <1>1, LedgerInvariant, PTL
=============================================================================
