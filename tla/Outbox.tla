------------------------------- MODULE Outbox -------------------------------
(***************************************************************************)
(* The persistent Axiom outbox of src/axiom.rs: the bounded on-disk queue  *)
(* between the publication loop, which admits one latency window at a time *)
(* (`PersistentOutbox::persist_events'), and the delivery worker, which    *)
(* posts the oldest file until the ingest service accepts it and only then *)
(* removes it (`spawn_axiom_worker').                                      *)
(*                                                                         *)
(* The two tasks run concurrently: the publisher holds the state mutex     *)
(* across its file-system calls, the worker takes it only to look at the   *)
(* head and to drop an acknowledged entry, so the worker's unlink and      *)
(* directory fsync interleave with every step of the publisher.            *)
(*                                                                         *)
(* The directory has two views.  dirNow is what the running kernel shows;  *)
(* dirDisk is what the last successful directory fsync made durable.  A    *)
(* process exit keeps dirNow, a power loss keeps any directory between the *)
(* two views.                                                              *)
(***************************************************************************)
EXTENDS Integers, FiniteSets, Sequences, FiniteSetsExt

CONSTANTS
    MaxWindows,   \* publications of the instance: a window is its number
    Bytes,        \* Bytes[w]: the encoded size of window w
    MaxBatchBytes,\* AXIOM_MAX_BATCH_BYTES
    MaxFiles,     \* OutboxConfig.max_files
    MaxBytes,     \* OutboxConfig.max_bytes
    WallTimes,    \* what now_ms() may return (the wall clock can step back)
    MaxAttempts,  \* RETRY_DELAYS.len()
    MaxStops,     \* bound on shutdowns, crashes and power losses
    Crashes       \* whether the process may die other than by shutdown

Windows == 1 .. MaxWindows

ASSUME SizesAssumption ==
    /\ MaxWindows \in Nat
    /\ Bytes \in [Windows -> Nat \ {0}]
    /\ MaxBatchBytes \in Nat

\* open() refuses caps of zero.
ASSUME CapsAssumption ==
    /\ MaxFiles \in Nat \ {0}
    /\ MaxBytes \in Nat \ {0}

ASSUME BoundsAssumption ==
    /\ WallTimes \subseteq Nat
    /\ MaxAttempts \in Nat \ {0}
    /\ MaxStops \in Nat
    /\ Crashes \in BOOLEAN

VARIABLES
    run,       \* "up" while a process owns the outbox lock, else "down"
    dirNow,    \* windows whose .ndjson file the directory shows
    dirDisk,   \* windows whose .ndjson file the last directory fsync saved
    order,     \* the ordering key in the name of each window's file
    files,     \* OutboxState.files
    bytes,     \* OutboxState.bytes
    persist,   \* where persist_events is: see PersistStates
    last,      \* the last window submitted; the one in hand while Persisting
    stopping,  \* the stopping flag close() sets
    worker,    \* where the delivery worker is: see WorkerStates
    cur,       \* the file the worker has in hand (0: none yet)
    attempt    \* the attempt of the retry cycle, from 1

(***************************************************************************)
(* History, read by no guard except the bound on stops.                    *)
(***************************************************************************)
VARIABLES
    accepted,   \* windows whose submit returned Ok(true)
    dropped,    \* windows whose submit returned Ok(false)
    delivered,  \* windows the ingest service has stored at least once
    acked,      \* windows for which a POST returned a full acknowledgement
    ackedRun,   \* the part of acked this process has seen
    stops       \* shutdowns, crashes and power losses so far

publisherVars == <<persist, last, order>>
workerVars    == <<worker, cur, attempt>>
diskVars      == <<dirNow, dirDisk>>
stateVars     == <<files, bytes>>
historyVars   == <<accepted, dropped, delivered, acked, ackedRun, stops>>
vars == <<run, stopping, publisherVars, workerVars, diskVars, stateVars, historyVars>>

PersistStates == {"idle", "write", "rename", "sync", "poisoned"}
WorkerStates  == {"poll", "idle", "read", "attempt", "posting", "unlink",
                  "unlinked", "remove", "backoff", "stopped"}

\* persist_body holds the state mutex from the cap check to its return.
Persisting == persist \in {"write", "rename", "sync"}
LockFree   == ~Persisting
-----------------------------------------------------------------------------
(***************************************************************************)
(* The bytes of a set of files, and the files of a directory sorted by the *)
(* ordering key in their names, as open() sorts them.                      *)
(***************************************************************************)
SizeOf(S) == MapThenSumSet(LAMBDA w : Bytes[w], S)

\* Mutant: the comparison of two ordering keys is swapped.
IsSorted_Swapped(s) == \A i, j \in DOMAIN s : i < j => order[s[i]] >= order[s[j]]

IsSorted(s) == \A i, j \in DOMAIN s : i < j => order[s[i]] <= order[s[j]]

\* Files with the same key are told apart by the random part of their names.
SortedFiles(S) ==
    {s \in [1 .. Cardinality(S) -> S] :
        /\ \A w \in S : \E i \in DOMAIN s : s[i] = w
        /\ \A i, j \in DOMAIN s : s[i] = s[j] => i = j
        /\ IsSorted(s)}

FitsCaps(S) == Cardinality(S) <= MaxFiles /\ SizeOf(S) <= MaxBytes

\* The ordering key of a new file: now, but always after the newest file held.
NextOrder(now) ==
    IF files = <<>> THEN now
    ELSE LET newest == order[files[Len(files)]] + 1
         IN  IF now < newest THEN newest ELSE now
-----------------------------------------------------------------------------
(***************************************************************************)
(* The publisher: AxiomSubmitter::submit, one window at a time.            *)
(***************************************************************************)
CanSubmit == run = "up" /\ ~stopping /\ persist = "idle" /\ last < MaxWindows

\* The window is refused, for its size or because the outbox is at a cap.
SubmitDrop ==
    /\ CanSubmit
    /\ LET w == last + 1 IN
        /\ \/ Bytes[w] > MaxBatchBytes
           \/ Len(files) >= MaxFiles
           \/ bytes + Bytes[w] > MaxBytes
        /\ dropped' = dropped \cup {w}
        /\ last' = w
    /\ UNCHANGED <<run, stopping, persist, order, workerVars, diskVars, stateVars,
                   accepted, delivered, acked, ackedRun, stops>>

\* Admission starts: the mutex is taken, the caps hold, the name is fixed.
SubmitStart ==
    /\ CanSubmit
    /\ LET w == last + 1 IN
        /\ Bytes[w] <= MaxBatchBytes
        /\ Len(files) < MaxFiles
        /\ bytes + Bytes[w] <= MaxBytes
        /\ \E now \in WallTimes : order' = [order EXCEPT ![w] = NextOrder(now)]
        /\ last' = w
    /\ persist' = "write"
    /\ UNCHANGED <<run, stopping, workerVars, diskVars, stateVars, historyVars>>

\* The temporary file is written and fsynced.
WriteOk ==
    /\ run = "up" /\ persist = "write"
    /\ persist' = "rename"
    /\ UNCHANGED <<run, stopping, last, order, workerVars, diskVars, stateVars,
                   historyVars>>

\* The temporary file is renamed into place.
RenameOk ==
    /\ run = "up" /\ persist = "rename"
    /\ dirNow' = dirNow \cup {last}
    /\ persist' = "sync"
    /\ UNCHANGED <<run, stopping, last, order, workerVars, dirDisk, stateVars,
                   historyVars>>

\* The write or the rename fails: the window is dropped, nothing is left behind.
PersistFail ==
    /\ run = "up" /\ persist \in {"write", "rename"}
    /\ dropped' = dropped \cup {last}
    /\ persist' = "idle"
    /\ UNCHANGED <<run, stopping, last, order, workerVars, diskVars, stateVars,
                   accepted, delivered, acked, ackedRun, stops>>

\* Mutant: the window is queued without waiting for the directory fsync.
SyncOk_NoFsync ==
    /\ run = "up" /\ persist = "sync"
    /\ files' = Append(files, last)
    /\ bytes' = bytes + Bytes[last]
    /\ accepted' = accepted \cup {last}
    /\ persist' = "idle"
    /\ UNCHANGED <<run, stopping, last, order, workerVars, diskVars, dropped,
                   delivered, acked, ackedRun, stops>>

\* The directory fsync succeeds: only now does the window enter the queue.
SyncOk ==
    /\ run = "up" /\ persist = "sync"
    /\ dirDisk' = dirNow
    /\ files' = Append(files, last)
    /\ bytes' = bytes + Bytes[last]
    /\ accepted' = accepted \cup {last}
    /\ persist' = "idle"
    /\ UNCHANGED <<run, stopping, last, order, workerVars, dirNow, dropped,
                   delivered, acked, ackedRun, stops>>

\* Mutant: a failed directory fsync is an ordinary drop.
SyncFail_IsDrop ==
    /\ run = "up" /\ persist = "sync"
    /\ dropped' = dropped \cup {last}
    /\ persist' = "idle"
    /\ UNCHANGED <<run, stopping, last, order, workerVars, diskVars, stateVars,
                   accepted, delivered, acked, ackedRun, stops>>

\* The directory fsync fails: durability is ambiguous, the error ends the process.
SyncFail ==
    /\ run = "up" /\ persist = "sync"
    /\ persist' = "poisoned"
    /\ UNCHANGED <<run, stopping, last, order, workerVars, diskVars, stateVars,
                   historyVars>>

\* Graceful shutdown: the loop ends and close() tells the worker.
Close ==
    /\ run = "up" /\ ~stopping /\ persist = "idle"
    /\ stops < MaxStops
    /\ stopping' = TRUE
    /\ stops' = stops + 1
    /\ UNCHANGED <<run, publisherVars, workerVars, diskVars, stateVars, accepted,
                   dropped, delivered, acked, ackedRun>>
-----------------------------------------------------------------------------
(***************************************************************************)
(* The delivery worker.                                                    *)
(***************************************************************************)
\* Mutants: the worker takes the newest file; attempts are counted from zero.
Front_Newest == files[Len(files)]
FirstAttempt_Zero == 0

\* next(): the oldest file.
Front == files[1]
FirstAttempt == 1

\* The worker looks at the head; with nothing to do it waits, or stops.
Poll ==
    /\ run = "up" /\ worker = "poll" /\ LockFree
    /\ IF files = <<>>
       THEN /\ worker' = IF stopping THEN "stopped" ELSE "idle"
            /\ UNCHANGED <<cur, attempt>>
       ELSE /\ worker' = "read"
            /\ cur' = Front
            /\ attempt' = FirstAttempt
    /\ UNCHANGED <<run, stopping, publisherVars, diskVars, stateVars, historyVars>>

\* A notification, the poll interval or the failed-cycle backoff ends the wait.
Wake ==
    /\ run = "up" /\ worker \in {"idle", "backoff"}
    /\ worker' = "poll"
    /\ UNCHANGED <<run, stopping, publisherVars, cur, attempt, diskVars, stateVars,
                   historyVars>>

ReadOk ==
    /\ run = "up" /\ worker = "read"
    /\ worker' = "attempt"
    /\ UNCHANGED <<run, stopping, publisherVars, cur, attempt, diskVars, stateVars,
                   historyVars>>

\* Mutants: a failed cycle ends the worker; a failed cycle ignores the shutdown.
AfterFailure_Stops == worker' = "stopped"
AfterFailure_Continues == worker' = "backoff"

\* The failed cycle, whether the file could not be read or no attempt succeeded.
AfterFailure == worker' = IF stopping THEN "stopped" ELSE "backoff"

ReadFail ==
    /\ run = "up" /\ worker = "read"
    /\ AfterFailure
    /\ UNCHANGED <<run, stopping, publisherVars, cur, attempt, diskVars, stateVars,
                   historyVars>>

\* The next attempt of the cycle, unless it is used up or shutdown cuts it short.
BeginAttempt ==
    /\ run = "up" /\ worker = "attempt"
    /\ attempt <= MaxAttempts
    /\ ~(stopping /\ attempt > 1)
    /\ worker' = "posting"
    /\ UNCHANGED <<run, stopping, publisherVars, cur, attempt, diskVars, stateVars,
                   historyVars>>

GiveUp ==
    /\ run = "up" /\ worker = "attempt"
    /\ attempt > MaxAttempts \/ (stopping /\ attempt > 1)
    /\ AfterFailure
    /\ UNCHANGED <<run, stopping, publisherVars, cur, attempt, diskVars, stateVars,
                   historyVars>>

\* The service stored every event and the response says so.
PostOk ==
    /\ run = "up" /\ worker = "posting"
    /\ delivered' = delivered \cup {cur}
    /\ acked' = acked \cup {cur}
    /\ ackedRun' = ackedRun \cup {cur}
    /\ worker' = "unlink"
    /\ UNCHANGED <<run, stopping, publisherVars, cur, attempt, diskVars, stateVars,
                   accepted, dropped, stops>>

\* The attempt fails: the service stored the events (the response was lost or
\* counts some as rejected) or it did not.
PostFail ==
    /\ run = "up" /\ worker = "posting"
    /\ delivered' \in {delivered, delivered \cup {cur}}
    /\ attempt' = attempt + 1
    /\ worker' = "attempt"
    /\ UNCHANGED <<run, stopping, publisherVars, cur, diskVars, stateVars,
                   accepted, dropped, acked, ackedRun, stops>>

\* Mutant: the entry is forgotten without the directory fsync.
Unlink_NoFsync ==
    /\ run = "up" /\ worker = "unlink"
    /\ dirNow' = dirNow \ {cur}
    /\ worker' = "remove"
    /\ UNCHANGED <<run, stopping, publisherVars, cur, attempt, dirDisk, stateVars,
                   historyVars>>

\* acknowledge(): unlink; a file already gone counts as unlinked.
Unlink ==
    /\ run = "up" /\ worker = "unlink"
    /\ dirNow' = dirNow \ {cur}
    /\ worker' = "unlinked"
    /\ UNCHANGED <<run, stopping, publisherVars, cur, attempt, dirDisk, stateVars,
                   historyVars>>

UnlinkSync ==
    /\ run = "up" /\ worker = "unlinked"
    /\ dirDisk' = dirNow
    /\ worker' = "remove"
    /\ UNCHANGED <<run, stopping, publisherVars, cur, attempt, dirNow, stateVars,
                   historyVars>>

\* Mutant: a failed local commit goes back to the POST.
AfterCommitFailure_Reposts == worker' = IF stopping THEN "stopped" ELSE "attempt"

\* The unlink or its directory fsync fails: only the local commit is retried,
\* and a worker told to stop does not retry it.
AfterCommitFailure == worker' = IF stopping THEN "stopped" ELSE "unlink"

AcknowledgeFail ==
    /\ run = "up" /\ worker \in {"unlink", "unlinked"}
    /\ AfterCommitFailure
    /\ UNCHANGED <<run, stopping, publisherVars, cur, attempt, diskVars, stateVars,
                   historyVars>>

\* Mutant: the byte total is not reduced.
BytesWithout_Kept(w) == bytes

\* saturating_sub of an acknowledged file.
BytesWithout(w) == IF bytes < Bytes[w] THEN 0 ELSE bytes - Bytes[w]

\* The entry leaves the in-memory queue, under the mutex.
RemoveAcknowledged ==
    /\ run = "up" /\ worker = "remove" /\ LockFree
    /\ \E i \in DOMAIN files :
        /\ files[i] = cur
        /\ files' = [k \in 1 .. Len(files) - 1 |-> IF k < i THEN files[k] ELSE files[k + 1]]
    /\ bytes' = BytesWithout(cur)
    /\ worker' = "poll"
    /\ UNCHANGED <<run, stopping, publisherVars, cur, attempt, diskVars, historyVars>>
-----------------------------------------------------------------------------
(***************************************************************************)
(* Process life cycle.                                                     *)
(***************************************************************************)
\* What a process leaves behind when it is gone.
ProcessGone ==
    /\ run' = "down"
    /\ persist' = "idle"
    /\ worker' = "stopped"
    /\ stopping' = FALSE
    /\ files' = <<>>
    /\ bytes' = 0
    /\ ackedRun' = {}
    /\ UNCHANGED <<cur, attempt, last, order, accepted, dropped, delivered, acked>>

\* main returns: after a shutdown (the worker has stopped, or 15 seconds are
\* over) or because the publication ended in an error.
Exit ==
    /\ run = "up"
    /\ stopping \/ persist = "poisoned"
    /\ ProcessGone
    /\ UNCHANGED <<diskVars, stops>>

\* The process dies at any point: killed, or a publication over its deadline.
Crash ==
    /\ Crashes /\ run = "up" /\ stops < MaxStops
    /\ ProcessGone
    /\ stops' = stops + 1
    /\ UNCHANGED diskVars

\* Power is lost: every directory change since the last fsync may be lost or kept.
PowerLoss ==
    /\ Crashes /\ stops < MaxStops
    /\ \E kept \in SUBSET (dirNow \cup dirDisk) :
        /\ dirNow \cap dirDisk \subseteq kept
        /\ dirNow' = kept
        /\ dirDisk' = kept
    /\ ProcessGone
    /\ stops' = stops + 1

\* A new process opens the outbox: scan, sort, check the caps, fsync.
Open ==
    /\ run = "down"
    /\ FitsCaps(dirNow)
    /\ run' = "up"
    /\ files' \in SortedFiles(dirNow)
    /\ bytes' = SizeOf(dirNow)
    /\ dirDisk' = dirNow
    /\ worker' = "poll"
    /\ UNCHANGED <<stopping, publisherVars, cur, attempt, dirNow, historyVars>>
-----------------------------------------------------------------------------
Init ==
    /\ run = "down"
    /\ dirNow = {} /\ dirDisk = {}
    /\ order = [w \in Windows |-> 0]
    /\ files = <<>> /\ bytes = 0
    /\ persist = "idle" /\ last = 0
    /\ stopping = FALSE
    /\ worker = "stopped" /\ cur = 0 /\ attempt = 1
    /\ accepted = {} /\ dropped = {} /\ delivered = {}
    /\ acked = {} /\ ackedRun = {}
    /\ stops = 0

Publisher == SubmitDrop \/ SubmitStart \/ WriteOk \/ RenameOk \/ PersistFail
             \/ SyncOk \/ SyncFail \/ Close

WorkerStep == Poll \/ Wake \/ ReadOk \/ ReadFail \/ BeginAttempt \/ GiveUp
              \/ PostOk \/ PostFail \/ Unlink \/ UnlinkSync \/ AcknowledgeFail
              \/ RemoveAcknowledged

Lifecycle == Exit \/ Crash \/ PowerLoss \/ Open

Next == Publisher \/ WorkerStep \/ Lifecycle

Spec == Init /\ [][Next]_vars

(***************************************************************************)
(* Fairness.  A live process keeps running its worker and finishes the     *)
(* persist call it is in (the runtime schedules both, and each await       *)
(* returns); a supervisor restarts a dead one.  That a read, a POST, an    *)
(* unlink or a directory fsync that is retried for ever succeeds sometime  *)
(* is an assumption on the file system and on the ingest service.          *)
(***************************************************************************)
PersistStep  == WriteOk \/ RenameOk \/ PersistFail \/ SyncOk \/ SyncFail
ExitPoisoned == Exit /\ persist = "poisoned"

Scheduling ==
    /\ WF_vars(WorkerStep)
    /\ WF_vars(PersistStep)
    /\ WF_vars(ExitPoisoned)
    /\ WF_vars(Open)

Recovery ==
    /\ WF_vars(Exit)
    /\ SF_vars(ReadOk) /\ SF_vars(PostOk) /\ SF_vars(Unlink) /\ SF_vars(UnlinkSync)
    /\ SF_vars(Poll) /\ SF_vars(RemoveAcknowledged)

FairSpec == Spec /\ Scheduling
-----------------------------------------------------------------------------
(***************************************************************************)
(* The outbox as the queue its caller sees: a window is owed from the      *)
(* answer of submit() to its acknowledgement, and in doubt while only the  *)
(* directory knows of it.                                                  *)
(***************************************************************************)
Owed == accepted \ acked
Doubtful == (dirNow \cup dirDisk) \ (accepted \cup acked)

Contract == INSTANCE DeliveryContract
                WITH owed <- Owed, doubtful <- Doubtful, stored <- delivered

\* Every step of the outbox, crashes and power losses included, is a step of
\* the queue or invisible to its caller.
ImplementsContract == Contract!Spec
-----------------------------------------------------------------------------
(* Properties *)

\* Every variable has its type; the byte total is ByteLedger's.
TypeOK ==
    /\ run \in {"up", "down"}
    /\ dirNow \subseteq Windows /\ dirDisk \subseteq Windows
    /\ order \in [Windows -> Nat]
    /\ files \in Seq(Windows)
    /\ persist \in PersistStates
    /\ last \in 0 .. MaxWindows
    /\ stopping \in BOOLEAN
    /\ worker \in WorkerStates
    /\ cur \in 0 .. MaxWindows
    /\ attempt \in Nat \ {0}
    /\ accepted \subseteq Windows /\ dropped \subseteq Windows
    /\ delivered \subseteq Windows
    /\ acked \subseteq Windows /\ ackedRun \subseteq acked
    /\ stops \in Nat

\* No admitted window is lost: once submit has returned Ok(true) the window is
\* either fully acknowledged or in a file that no crash or power loss can take.
NoAcceptedLoss == accepted \subseteq acked \cup (dirNow \cap dirDisk)

\* A window the caller was told was dropped never reaches the ingest service:
\* the benchmark will publish its outcomes again under another identity.
DroppedNeverDelivered == dropped \cap (delivered \cup dirNow \cup dirDisk) = {}

\* Whatever a crash leaves in the directory, the same caps let the next process
\* open it: "existing Axiom outbox exceeds configured caps" is never hit.
ReopenWithinCaps ==
    /\ Cardinality(dirNow \cup dirDisk) <= MaxFiles
    /\ SizeOf(dirNow \cup dirDisk) <= MaxBytes

\* The running byte total and the queue agree with the directory: what is
\* queued is on disk except the head being acknowledged, and is what is charged.
ByteLedger ==
    LET queued == {files[i] : i \in DOMAIN files} IN
    /\ bytes = SizeOf(queued)
    /\ Cardinality(queued) = Len(files)
    /\ run = "up" => /\ dirNow \subseteq queued \cup (IF persist \in {"sync", "poisoned"}
                                                      THEN {last} ELSE {})
                     /\ queued \ dirNow \subseteq {cur}

\* Oldest first: the service gets a window it has not seen only when every
\* window admitted before it is fully acknowledged, across restarts and clock steps.
OldestFirst ==
    [][\A w \in delivered' \ delivered :
          \A v \in accepted : v < w => v \in acked]_vars

\* Within one process a fully acknowledged file is never posted again: a failed
\* unlink or directory fsync retries only the local commit.
NoRepostInRun == worker = "posting" => cur \notin ackedRun

\* "A fully acknowledged file is never posted again" (docs/METHODOLOGY.md:322),
\* said of the file and so of every process that ever serves it.
NeverReposted == worker = "posting" => cur \notin acked

\* Every admitted window is sometime fully acknowledged, if the service and the
\* disk recover.
AcceptedAcked == Recovery => \A w \in Windows : (w \in accepted) ~> (w \in acked)

\* A worker told to stop stops by itself, even if neither ever recovers.
CloseStopsWorker == stopping ~> (worker = "stopped")
=============================================================================
