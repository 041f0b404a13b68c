# Formal models of the Hyperliquid market benchmark

This directory holds TLA+ modules that model the benchmark's own logic, the TLC
configurations that check them on small instances, and TLAPS proofs of the
results that matter most. Source paths below are relative to the repository.

The program is one process: stream tasks stamp and queue observations, one main
loop groups them into exact cohorts and publishes a rolling window every few
seconds, and an outbox delivers the published windows to Axiom at least once.
What a reader of the dashboard relies on is that a cohort is judged by its
stamps and not by scheduling, that it is counted once in the published outcomes,
and that a published window is neither lost nor silently incomplete. Those are
the statements made here.

## Inventory

| Component | Source | State | Operations | Hard behaviour | Correct when |
|---|---|---|---|---|---|
| Main loop, publication cycle | `src/main.rs`, `src/benchmark.rs` | cursor of the last interval on two clocks, prepared interval, tick deadlines | publish tick, maintenance tick, `publish_window`, commit, reject, shutdown | await between counting and marking, refusal, crash after the durable write, late ticks, wall-clock corrections | a cohort is counted by at most one durable batch; intervals abut; "complete" is earned |
| Cohort admission, rolling window | `src/benchmark.rs` | pending bases, tombstones, settled keys, two rings, declared loss, counters | `record`, `tick`, `settle`, `finalize_candidate`, `prune` | queue order differs from stamp order, deadlines decided in three places, every map bounded | admission is a function of the stamps; every observation is counted once; losses are declared |
| Receipt queue, stream signals | `src/model.rs` | bounded channel, drop counters, connection and freshness atomics | `ProbeSender::send`, `ConnectionGuard` | full queue, two generations of one connection | drops are counted; health never mixes generations |
| Outbox, delivery worker | `src/axiom.rs` | files of a directory, in-memory queue, byte total, poison flag | open, `persist_events`, `acknowledge`, worker cycle, close | two tasks, fsync failures, crash and power loss at any step, lost responses, retries | admitted windows are never lost, dropped ones never delivered, oldest first |
| Peering wire assembly | `src/peering.rs` | tracked rounds, bundles, newest round named, start of scoring | `track_ordering`, `track_bundle`, `track_reference`, `drain_ready`, `prune`, reconnect | three inputs in any order, a feed that lags, deadlines, memory limits, sessions | a round is one sample with the right stamp, one justified gap, or still open |
| Decoded peering assembly | `src/peering.rs` | rounds of the decoded stream, reference feed | as above, by round | reference ahead of or behind the stream | as above |
| VPC mempool join | `src/vpc_mempool.rs` | one half-joined entry per bundle hash, finished hashes | two readers, offer, expire | legs in either order, a full queue between readers and join, repeats after the memory expires | a bundle is emitted once, with its true first-seen time |
| Tap reassembler | `src/tap.rs`, `TapFlow` of `src/peering.rs` | next sequence number, out-of-order segments, byte count; buffer and sync of the flow | segment, reset, resync | 32-bit wrap, overlaps, duplicates, lost segments, limits, two connections on one port | every frame it yields was sent, with the kernel's time of its last byte or an earlier one |
| Stream collectors | `src/streams.rs` | last sequence, replay remainder, file tail position, backoff | connect, message, gap, replay, rollover | reconnects, replay accounting, file rollover | a gap is a real gap; nothing read twice or skipped |
| Message canonicalization | `src/streams.rs` | none | JSON and decimals to content keys | numeric forms | equal content has equal keys |
| Ordering record parser | `src/ordering.rs` | none | scan of one proposal, old layout and new | bytes that look like a record, timeout certificates | what is found is the slot's record, and the proposal's own unless it is ambiguous |
| Clock health | `src/clock.rs` | last sample | assessment of chrony output | staleness | publications with an unhealthy clock say so |
| gRPC bindings | `src/grpc.rs`, `proto/`, `build.rs` | generated | - | - | - |
| Operator scripts | `scripts/` | separate tools | - | - | - |

Interactions: stream tasks send observations to the main loop through one bounded
channel (`try_send`, never waiting). The loop calls `Benchmark` synchronously, and
awaits `AxiomSubmitter::submit` in the publish arm, during which it serves nothing
else. `submit` and the worker share `PersistentOutbox` behind one async mutex; the
worker unlinks and fsyncs without it. Stream health reaches a publication through
relaxed atomics, clock health through a watch channel.

`PROJECT.json` lists the hazards of this code line by line, with the property that
watches each one, or the reason why none does.

## Modules

| Module | Models | Uses |
|---|---|---|
| `Outbox` | the outbox with its two tasks, its directory and the life of the process | `DeliveryContract` (refined) |
| `DeliveryContract` | what `submit()`'s caller may rely on: an ordered at-least-once queue | |
| `Outbox_proofs` | theorems about `Outbox`: its promises, its contract, its byte total | `Outbox`, `Totals` |
| `Publication_proofs` | theorems about `Publication` | `Publication`, TLAPS |
| `Cohort` | the receipt queue and cohort admission for one coin | |
| `Publication` | publication of outcome intervals, its commit and its restarts | |
| `Peering` | the wire assembly of the peering dataset and the sessions that drive it | |
| `Cohort_proofs` | theorems about `Cohort`: admission, types, the rolling window, the counts | `Cohort`, `Totals` |
| `Peering_proofs` | theorems about `Peering` and `DecodedPeering` | `DecodedPeering`, `Totals` |
| `TapStream_proofs` | theorems about `TapStream` | `TapStream`, `Totals` |
| `Streams_proofs` | theorems about `Collector`, `FillsTail` and `MempoolJoin`, and what all of them say of the whole process | `Streams`, `Peering_proofs`, `TapStream_proofs`, `Content_proofs` |
| `Content_proofs` | theorems about `Canonical` and `OrderingScan` | `Canonical`, `OrderingScan`, `Totals` |
| `Totals` | lemmas on sums and maxima over finite sets, which several of the proofs need | TLAPS |
| `DecodedPeering` | the decoded assembly, over the feed, clock and sessions of `Peering` | `Peering` |
| `OrderingScan` | the scan for ordering records in the bytes of a proposal | |
| `TapStream` | one tapped connection: reassembly of segments, and the frames in its bytes | |
| `MempoolJoin` | the two readers of the mempool, their queue and the join | |
| `FillsTail` | the tail of the node's hourly files, with the node as its writer | |
| `Collector` | one network collector: connect, backoff, sequence numbers, replays | |
| `Canonical` | messages to content keys | |
| `Streams` | which stream tasks a process runs; the seven modules above and `Peering` together | all of them |
| `MCOutbox`, `MCCohort`, `MCPublication`, `MCPeering`, `MCDecoded`, `MCStreams`, `MCFills` | instances for TLC | |
| `MCPublisher` | `Publication` and `Outbox` for one TLC run | both |
| `MCLiveness` | `Outbox` and `Cohort` for one TLC run | both |

`MCPublisher` and `MCLiveness` put two modules together that share no variable: a behaviour chooses
one of the two at the start, and only that one takes steps. Such a run says of each module what a run of its
own would say, and no more.

### Outbox

A window is its number, in the order of submission; a file is its window plus the
ordering key in its name (`order`). `dirNow` is the directory the kernel shows,
`dirDisk` the one the last successful directory fsync saved; a process death keeps
`dirNow`, a power loss keeps anything between the two. `files` and `bytes` are
`OutboxState`. `persist` is the program counter of `persist_events` (`write`,
`rename`, `sync`; the mutex is held exactly then; `poisoned` after a failed
directory fsync). `worker` is the worker's: it polls the head, reads it, posts it
up to `MaxAttempts` times per cycle, and after a full acknowledgement unlinks,
fsyncs and removes the entry. Every file operation and every POST may fail, a
failed POST may have stored the batch, and `PersistFail` covers both the failed
write and the failed rename.

Abstracted: the content of a batch, HTTP status codes (a response is a full
acknowledgement or a failure), the temporary file (never seen by a scan), lengths of
delays, the exclusive lock file (one process at a time is `run`).

### Cohort

`Stamp` is a stream task with an observation for the loop, `Send` its `try_send`. A market stream stamps what
it has just decoded. A peering leg or the mempool join gives a round or a bundle the time its last part
arrived, later and, within one drain, in any order (`src/peering.rs:176`, `src/vpc_mempool.rs:175`); so a
stamp may be up to `Lag` old, and only what a provider reports of one base is in the order of its stamps
(`InOrder`: a leg reports a round once, a repeat comes later). With `Lag = 0` all stamps of a provider are in order. The loop's
handlers are split into steps (`loop` is the program counter, `now` the handler's
time argument) because maps are walked in no fixed order; time, stamping and
queueing wait while a handler runs, as handlers never await and each stamp is
compared with the handler's own `now`. `BeginTick` is the maintenance tick and also
the `self.tick(now)` a publication begins with; in `view` the publication reads the
window. A base is an event, a content is what a source claims about it. `verdicts`
and `opened` are history and no guard reads them. The arms of `record` for
reconnects, sequence gaps and replays only add to counters and are left out.

`config` is the `BenchmarkConfig` of the process with the bounds of the behaviour. It is
a variable that never changes, so that one run checks the properties for every
configuration of the instance.

### Publication

The cohorts of one coin with what outcomes depend on: commit time and the
`outcome_reported` mark. `Prepare` is `window_events` with the ring pruned, the
interval prepared and the unreported cohorts counted; `Admit` is `submit()` making
the batch durable, and `Commit` / `Reject` what follows its answer. A restart may
come at any step, also between `Admit` and `Commit`. `healthy` in `Prepare` stands
for everything else completeness depends on (streams, queue, coverage, clock), which
is free. The outbox is reduced to its answer: that an admitted batch is durable is
what `Outbox` shows.

### Peering

`rounds` holds the `TrackedRound` of each round (`closed` is `reported_gap`, which the
code also sets on completion), `bundles` first arrivals with the time they were noted,
`maxRef` and `scoreFrom` the fields of that name. `Read` is one turn of the loop on the
socket or the tap: the frames of one read are tracked, then `drain_ready` and `prune`
run (`Drain`, in the same action). `ReadLine` is a turn on a line of the feed,
`Maintain` one on the tick. The wire may carry any frame of a block produced by then,
again and again and in any order, and bytes the scan takes for a round that never was
(`Stray`); a tap may deliver them up to `Lag` late, stamped with their arrival at the
kernel. The feed may name the blocks in any order, again and again or not at all, and lags without bound.
`EndSession` is every way a session ends; `StartSession` makes the next one with an
empty assembly. `reports`, `heard` and `named` are history and no guard reads them.

A line that cannot be parsed or names a bundle without signature is a skipped line.
Rounds without bundles are left out: the feed and the scan know none. Abstracted: the
bytes of a frame, hashes (a bundle is its first signature) and the two counters of why a
round is a gap. The time a block was produced and the clock of the process are one clock.

### DecodedPeering

`decoded` is `DecodedAssembly.rounds`. `ReadDecodedLine` is a turn of `run_vpc_decoded_once` on a
line of the sentry, which may be incomplete, repeated, not the block of the chain, or of a
round that never was; `ReadDecodedReference` and `MaintainDecoded` are the turns on the feed and on
the tick, each with its drain, and two actions end a session and start the next. `DecodedExact`
relates what is reported to what was read: a sample is a round the feed has named, with the time of
its first complete line, and a round the feed names is reported once or still open or too old.
Two things the code does and the model shows. There is no warm-up here (finding 7), so `DecodedExact`
speaks of the rounds of the first minute too. And a feed later than
the deadline turns a round whose line was good into a gap, while the wire leg is silent about it.

### TapStream

A byte is its connection and its position, a segment a run of bytes with a sequence
number modulo `SeqSpace`; a connection may be longer than the space, so that numbers are used again.
The capture gives any segment near the byte expected next (`Nearby`) at any time, again
and with other cuts, or never; the connection may be followed by another on the same port.
`reassembler` and `flow` are the structures of those names. `Data`, `Syn`, `Close` and `Tick` are a
captured segment and the tick, each with everything the flow does with what the reassembler
delivers: bytes are appended and parsed into frames, `Reset` clears the buffer and sets `synced`
back, and an unsynced flow looks for `RESYNC_FRAMES` good frames in a row.

Assumed of the environment: while a next byte is expected, a captured segment starts and ends less than half of
the sequence space (2 GiB) from it, which is what `seq_diff` needs and what the window of a TCP connection gives; the SYN of a new connection is captured and no segment of the old one
comes after it; the stamps of the kernel do not decrease in the order of the
ring; a frame of the stream decompresses, and bytes that are not at a boundary never look like
`RESYNC_FRAMES` good frames. A session that restarts joins a connection in the middle, which is
how every behaviour without SYN begins. Two oddities of the code are in the model and
break no property: `pending_bytes` counts a duplicate of a stored segment again, so "reorder
buffer full" can come early; and a longer segment with the same first byte as a stored one is dropped.

### MempoolJoin

`hand` is what a reader waits to send (`Sender::send` awaits while the channel is full), `open` and `done`
the maps of `MempoolJoin`, with the deadline of an entry counted from its first leg.
`Offer` is one receive of the join task with `MempoolJoin::offer`, `Expire` its tick. Receipt in
the sentry, reading a line and the join are on one box and have one clock. `JoinEmitsOnce` says
that two emissions of one bundle are at least `DoneRetain` apart: a copy joined after that gives
another one, which is what the code means by forgetting. The gap the join reports of bundles the sentry never
saw is a counter and left out.

### FillsTail

A line is two pieces, so that a read may end inside one. The node appends to its newest file, makes
a new one when the hour is over, and may make the directory of a day before the file in
it. `ReadSome` is one turn of the loop with bytes, `ReadNothing` the read that finds none, `Recheck` what
follows: a sleep, or when it is due `newest_hourly_file` and the switch. A tail that failed starts again
at the end of the newest file. What the code promises after a switch is
`FillsOldDrained`, which does not hold (finding 8); what does hold is
`FillsLossIsLastSecond`: the lines lost are those after the last empty read of their file.
Bound: a tail that is up has come to the newest file before the node makes the one after it.

### Collector

`phase` is where the loop of a task is, `signal` what `StreamSignal` says of its connection
(`ConnectionGuard` sets it and takes it down), `backoff` the `ReconnectBackoff`. For Hydromancer
`cursor`, `lastSeq` and `replayLeft` are the fields of its resume state. The service sends its messages
in order on one connection, may repeat one, pass over some, send one that cannot be read,
and after a resume announces how many it replays. Every message has a number and a cursor, and every announcement a count. Two numbers of the service are taken as true:
the count it announces is the count of distinct messages it replays (a service that counts
repeats would leave `replay_remaining` above zero, and live messages untimed), and the wall clock from
which the duration of a connection is taken does not step.

### Canonical

Decimals are mantissa and scale, `Normal` is `Decimal::normalize`. Keys of books, trades and
bundles are built as the parsers of each source do. `ContentIsKey` compares them with a reference
definition: a book is its worths, a trade the same told by its fills or by its record, a bundle the same
by either leg, and what is no content has no key. A price is any mantissa and scale, negative ones
included; a number too long for `Decimal` is rounded or refused by its parser, before any of this.

### OrderingScan

`src/ordering.rs` in full, over scaled bytes: an integer wider than a byte, a proposer and a hash take
one byte each, the eight integers of the head are one, and the markers of a varint are the five highest
values of a byte. `ProposalBytes` is the encoder the fixtures of the tests imply, and `IsProposal` says what it
may be given (`ProposalsAssumption`): two records whose rounds follow each other, the own one's parent no
more than `TAIL_TC_MAX` below, bytes of any kind between them, as many hashes as the parser accepts
(`CountBytes`: a count that is no small byte is a marker and the count). A proposal
that is no `decoy` has no second place that reads like its own record; in the old layout no round is just the
marker and no count is above what the scan believes.

`OrderingExact` says that `ordering_rounds` finds the record in the slot and the proposal's own record, or the
first alone where other bytes are just like the second, and never anything else. That is so while the own
record has a count of one byte (`Locatable`). A larger one (above 250 in the code) is not located
(`src/ordering.rs:247-249`), and then a single place inside its hashes that reads like a record is taken instead:
the record of the own round has another number of bundles, against `src/ordering.rs:27-28`. Of such a
proposal `OrderingExact` says that there is the record of the slot and at most one more, of the own round. The scan of the
old layout is a pattern without a tail: of it the property speaks where no marker stands between the records
or in the hashes of a record whose round is outside the window (`quiet`), since the scan steps into those hashes.

### Streams

`spawn_streams` chooses the tasks of a process from its dataset and what of a node is on its
box (`Tasks`). Tasks share nothing but the sender of observations, so a behaviour of one
is a behaviour of that task in any company, and `Streams` lets one task, chosen at the start, take
all the steps. The two readers and the join of the mempool share a channel and are one task here.

## Runs

| Run | Instance | Shows |
|---|---|---|
| `publisher_safety` | publication: interval 2, window 5, ring 1, queueing delay 1, 2 cohorts, 2 runs, 1 correction of the wall clock, 6 time units; outbox: 4 windows, file cap 2, byte cap 3, batch limit 2, 2 attempts, 2 stops, wall clock 0 or 7 | publication: counted once, marks agree with the durable batches, intervals abut, complete means all; outbox: no admitted window is lost, none reported as dropped is delivered, the next process can always open the directory, the byte total is exact, order holds, nothing is reposted within a run, `DeliveryContract` is implemented |
| `cohort_safety` | three configurations, `Compared`, `Agreed` and `Single` | admission exactness, counting, no event sampled twice, a window without declared loss is whole |
| `liveness` | admission: `MCAgreed`, 2 bases; outbox: 2 windows, 2 stops | every pending base is sealed; admitted windows get acknowledged; a worker told to stop stops |
| `streams` | every task, see below | wire: one sample or gap per round, the stamp is the boundary, a gap is incomplete, no round named in time is lost, every named round closes; decoded: the report is exact; tap: frames are true, nothing is held that could be emitted; mempool: one emission, true first-seen time; fills: order, and what can be lost; collector: replays are exact, backoff grows; keys are content; the scan is exact |
| `outbox_repost` (violation) | shutdowns only | a fully acknowledged file is posted again by the next process |
| `cohort_integrity` (violation) | `Compared` | declared loss moves back in time |
| `cohort_late` (violation) | `Compared` | observations stamped in time are counted late |
| `publication_boundary` (violation) | as `publisher_safety`, no delay, no correction, 1 run | a late tick counts cohorts completed after the end of its interval |
| `peering_late_feed` (violation) | 2 blocks, as the wire task of `streams` | a line later than the deadline finds its round closed in silence |
| `peering_late_sample` (violation) | the same | a round completed after its deadline and before the tick is a sample |
| `decoded_warmup` (violation) | 2 blocks, warm-up 2 | the decoded leg reports a block of the warm-up |
| `fills_rollover` (violation) | as the fills task of `streams` | the last line of an hour is never read |

### Why these bounds

* `publisher_safety`, the outbox: windows 1, 2 and 3 have sizes 2, 1, 2, so 1 and 3 together are over
  the byte cap while 1 and 2 fill both caps; window 4 is over the batch limit. Two
  stops give every pair of accident and recovery (a crash in an admission followed by a
  power loss, a restart whose file is acknowledged and then lost again). Clock values
  0 and 7 give equal keys, growing keys and a step back across a restart.
* `cohort_safety`: `Compared` is two sources, two bases, three contents and three arrivals, which
  reach every branch (new, repeated, one content too many, evicting), with caps of one, so that
  every eviction happens, two signatures per base and a queue of two. `Agreed` has
  `AnyArrival`, as the mempool and peering datasets do, and stamps up to one unit old, with two arrivals. `Single` has one
  source, four arrivals and three bases over five units with a window of two, so that a
  tombstone expires and its base comes back.
* `publisher_safety`, the publication: a real window is 300 s and a publication comes every few
  seconds, so between two publications nothing is pruned; in the instance consecutive
  prepares are at most 4 units apart and a cohort waits at most 1, hence `Window` 5.
  Six time units contain two intervals, a skipped tick and a restart.
* `streams`, the wire task: both blocks are scored in the first session, and in the second one
  only if it starts before they are produced; the stray round is plausible once the second
  block is named, and its line drops the first round behind the floor. Two reads of up
  to three frames let a frame come twice in one turn, and again after it was pruned or in the
  next session; three time units contain warm-up, deadline and one expiry of a bundle.
* the decoded task: four lines of the sentry are a round that is incomplete and patched, repeated, and one more.
* the tap: of two connections with thirteen bytes and numbers modulo 12 each runs over the end and uses a number again, one early
  and one late. Thirteen bytes are frames of two and a rest; one is oversize. Four segments make a hole, an overlap, a duplicate and what
  fills the hole; the held bytes may exceed `MaxPendingBytes`, and two units contain `ReorderWait`.
* the mempool: four copies of one bundle on a queue of one are a pair and another pair; four
  units contain the deadline and the memory of what is finished.
* the fills: three hours, of which the second has the name that sorts first (9 and 10 are not padded) and
  the third is on a new day; four pieces are two lines per file; one failure.
* a collector: waits of 1 to 3, a connection healthy from 2 units on, four messages, three
  frames read, three attempts, four units.
* keys: decimals 0, 1, 1.0, 2 and 2.5; books of two levels, two trades, batches of up to three fills.
* proposals: rounds 5 and 6 with up to two hashes out of every marker, or with seventeen, a count
  of two bytes, of which a slot is read and an own record is not located; none, one or two
  rounds timed out, and between slot and own record nothing, a marker or bytes that are a record;
  the newest round of the feed is unknown, just before, or the slot's.

The bounds (`MaxStops`, `MaxArrivals`, `LastArrival`, `MaxTime`, `MaxCohorts`, `MaxRuns`,
`MaxSteps`, `Delay`, `Lag`, `FrameBound`, `MaxReads`, `MaxLines`, `MaxSessions`, `SegLens`,
`MaxSegments`, `CaptureLag`, `TapMaxTime`, `RecvLag`, `MaxCopies`, `JoinMaxTime`, `MaxPieces`,
`MaxFailures`, `Messages`, `MaxFrames`, `MaxAttempts`, `StreamMaxTime`, `BatchLen`)
limit the environment only; the caps of the code are constants of their own. No run disables the deadlock check.

### Fairness

* `Outbox!Scheduling`: weak fairness of the worker, of an admission in progress, of
  the exit after a poisoned outbox and of `Open`. tokio schedules both tasks, each await
  has a timeout or ends with its system call, a publication that hangs ends the process,
  and a supervisor restarts it. Nothing is assumed to succeed: `CloseStopsWorker` holds
  under it alone.
* `Outbox!Recovery`: the antecedent of `AcceptedAcked` only. A read, POST, unlink or
  fsync that is tried again and again succeeds sometime; a worker that wants the mutex
  again and again gets it (tokio's mutex is FIFO); a process told to stop exits.
* `Cohort!FairSpec`: a handler runs to its end; time passes (strong fairness, as the loop
  is between handlers again and again); and the maintenance tick, always due again and
  again, is served although the queue may never be empty, since `select!` polls its
  branches in random order.
* `StreamsFairness`, of the wire task: time passes, and the maintenance tick is served in every
  session: it is one branch of a `select!` that is always ready again after its interval. Nothing
  is assumed of the wire or the feed, nor of any other task.

## Proofs

Proved for every value of the constants, from the assumptions named in `Outbox`
(`SizesAssumption`, `CapsAssumption`, `BoundsAssumption`), in `Publication`
(`PublicationAssumption`), in `Cohort` (`ConfigsAssumption`), in `Peering`
(`PeeringAssumption`, for the decoded leg too, and `LagAssumption`), in `MempoolJoin`
(`JoinAssumption`), in `Collector` (`CollectorAssumption`), in `FillsTail`
(`FillsAssumption`), in `TapStream` (`TapAssumption`), in `DecodedPeering` (`LinesAssumption`), in
`Canonical` (`CanonicalAssumption`) and in `OrderingScan` (`OrderingAssumption`, `ProposalsAssumption`).

The outbox:

| Theorem | Statement |
|---|---|
| `TypeCorrect` | `Spec => []TypeOK` |
| `InductiveInvariant` | `Spec => []IInv` |
| `AcceptedIsNeverLost` | `Spec => []NoAcceptedLoss` |
| `DroppedIsNeverDelivered` | `Spec => []DroppedNeverDelivered` |
| `AcknowledgedIsNotReposted` | `Spec => []NoRepostInRun` |
| `ContractInvariant` | `Spec => [](IInv /\ JInv)` |
| `OldestIsFirst` | `Spec => OldestFirst` |
| `OutboxImplementsContract` | `Spec => ImplementsContract` |
| `LedgerInvariant` | `Spec => [](IInv /\ JInv /\ KInv)` |
| `ByteTotalIsExact` | `Spec => []ByteLedger` |
| `ReopenIsWithinCaps` | `Spec => []ReopenWithinCaps` |

Argument. `NoAcceptedLoss` is not inductive: a step of the worker takes a file out of
`dirNow` and a step of the publisher copies `dirNow` to `dirDisk`. `IInv` adds what
each task knows: nothing is known of a window that was never submitted (`Known`); the
window being admitted is in no other set (`Fresh`); a refused window is gone from
everywhere (`DroppedGone`); what the worker has in hand is queued, and acknowledged once
it commits (`InHand`); no queued file is acknowledged but the one being committed
(`AckedLeaves`, which is what keeps a POST from being repeated); no file is queued twice
(`Distinct`). The proof has a lemma per task and a step per action.

The order needs an account of the directory, `JInv`: it holds what the queue holds, up
to the window in doubt and the file being removed (`DirQueued`, `DirLags`), and the keys in
the names sort as the windows do (`NamesSorted`), so that a restart finds the queue in the
order it was left in (`QueueSorted`). It is inductive because `NextOrder` takes the newest
queued key into account and everything on disk is queued. The refinement maps admitted
and unacknowledged windows to `owed`, windows only the directory knows of to `doubtful`,
delivered ones to `stored`; each action is one step of the contract or a stutter.

The byte total and the caps are sums and cardinalities of sets. `KInv` says that the running
total is the weight of the queue (`Charged`), which needs `Distinct`: a file twice in the queue
would be charged twice and discharged twice. And it says that not only the queue but everything
held, on disk, in the directory or between the two, is within the caps (`Capped`), because the
guard of an admission counts a queue that may be smaller than the directory: a file whose removal
is not durable is still there. What closes the gap is that the worker takes an entry out of memory only
after its removal is durable (`HeadGone`), so a reopened outbox fits wherever the process was cut off.

Publication:

| Theorem | Statement |
|---|---|
| `InductiveInvariant` (`Publication_proofs`) | `PublicationSpec => []IInv` |
| `TypeCorrect` (`Publication_proofs`) | `PublicationSpec => []PublicationTypeOK` |
| `NeverCountedTwice` | `PublicationSpec => []CountedOnce` |
| `MarksAreDurable` | `PublicationSpec => []ReportedIsDurable` |
| `ChainInvariant` | `PublicationSpec => [](IInv /\ KInv)` |
| `IntervalsFollowEachOther` | `PublicationSpec => []IntervalsAbut` |
| `IntervalInvariant` | `WindowCovers => (PublicationSpec => []PInv)` |
| `CompleteIntervalsAreWhole` | `WindowCovers => (PublicationSpec => []CompleteIsAll)` |

Argument. `CountedOnce` says nothing of the ring, and `ReportedIsDurable` nothing of the
time between the durable write and the commit, so neither is inductive. `IInv` says what
holds then: the batch on offer counts exactly the cohorts not marked, all of them lie
at or before the prepared end, and the guard of the commit is still true (`Waiting`:
the loop serves nothing else while it awaits `submit()`); until the batch is durable a
cohort is marked if and only if a durable batch counts it (`Marks`); once it is durable
every cohort of the ring is counted, marked or not (`AllCounted`); the commit then marks
them all. Ids of cohorts are unique and grow (`Identified`), so a restart, which
empties the ring, cannot bring one back. `KInv` makes the durable intervals a chain whose
end is the cursor, or between write and commit the prepared end.

A batch marked complete counts every cohort completed since the last durable batch, if none of
them can have left the ring before. `WindowCovers` says when: the rolling window is no shorter than two
intervals less a second, the corrections of the wall clock and the wait in the queue together
(`2 * Interval - 1 + MaxSteps + Delay <= Window`). The code has 30 s and 300 s, so it holds with
more than three minutes to spare for corrections and waits; the bound is sharp, for on the instance of
the run TLC finds a counterexample one second below it. `PInv` follows how far the monotonic clock can have run
ahead of the interval on the wall clock (`Paced`), that what is fresh is in the
ring unless a loss was declared since the cursor (`FreshKept`), and that it is what the batch on offer
counts (`OfferIsAll`). It is a hypothesis of the theorem and not an assumption of the module,
because the other theorems hold without it.

Admission, in the first part of `Cohort_proofs`:

| Theorem | Statement |
|---|---|
| `AdmissionInvariant` | `Spec => []AInv` |
| `AdmissionIsExact` | `Spec => []AdmissionExact` |

Argument. A pending base keeps, for each content and provider, the arrival it recorded first,
and a verdict is computed from those; `AdmissionExact` speaks of everything heard. The two agree
because what one provider stamps of one base stays in order from its task through the queue to the loop
(`Ordered`, `HeardBefore`; across bases, where stamps lag, nothing is), so that the first recorded is the earliest, and because the opening
of a base takes the minimum with every observation, a repeat or a content too many included
(`Bodies`). Once sealed, a base owes a verdict for each content its reference delivered in
time; until the last is given, what is owed is still to be finalized (`Sealing`). Caps,
evictions and tombstones play no part: the theorem holds through a base sealed early for room
and one opened again.

What admission leaves behind, in the second part of it:

| Theorem | Statement |
|---|---|
| `CohortTypes` | `Spec => []TypeOK` |
| `WindowInvariant` | `Spec => []WInv` |
| `SampleIsOnce` | `Spec => []SampledOnce` |
| `LosslessWindow` | `Spec => []LosslessIsWhole` |
| `SingleSourceWindow` | `Spec => []SingleSourceIsWhole` |
| `AccountsInvariant` | `Spec => []Counted` |
| `ObservationsCounted` | `Spec => []EveryObservationCounted` |

Argument. `WInv` gives each entry of a ring, younger than the last loss, a verdict of its own among
those of the window, none of which is left over (`Backed`), and each such verdict a
tombstone no older than itself, so that a base judged and still in the window cannot be
opened and judged again. That is lost when a cap evicts something, and exactly then a loss is declared;
but a later declaration may overwrite a newer time with an older one (finding 2), so `Backed` holds
while nothing was evicted, or while the process has one source whose stamps do not lag (`Lag = 0`). Then every
observation seals its own base at once (`AtOnce`) and the times of the loop never step back,
so that an overwriting loss is never older. Of a single peering leg this is not so: its stamps go back from
one round to the next, and a declared loss with them. The lemmas on the rings say what an insertion by time and
a `retain` do to any sequence (`InsertsAt`, `KeptThins`), by smallest counterexample.

For the counts, `Balanced` says of each provider where what it had recorded is: booked under one of
five heads, in a candidate of a pending base, in the sealed base awaiting the verdict, or in
hand. A handler only moves it; `Conserved` says the same of what was stamped and has not yet been recorded,
and `Even` that a verdict counts each provider, as matched or as missing. Cardinalities of
the places change by one at each step, and `Totals` adds them up over the providers.

The peering assembly, in `Peering_proofs`:

| Theorem | Statement |
|---|---|
| `InductiveInvariant` | `Spec => []IInv` |
| `TypeCorrect` | `Spec => []TypeOK` |
| `RoundReportedOnce` | `Spec => []ReportedOnce` |
| `GapsAreIncomplete` | `Spec => []GapIsIncomplete` |
| `NamedRoundsAreAccounted` | `Spec => []NamedRoundsAccounted` |
| `SamplesAreBoundaries` | `Spec => []StampIsBoundary` |

Argument. A turn first tracks and then drains, and the rounds in between are no state of
the specification, so the invariant `Consistent` is stated over any rounds and bundles:
the tracking lemmas (`ReadTracks`, `LineTracks`) establish it for the rounds about to be
drained, and `DrainKeepsInv` leads from there to the next state. Its core, `EntryTruth`,
is what one entry knows: a named entry is a scored block of the chain, a closed one was
reported or had waited out the deadline unnamed, its ordering time is the first arrival.
A round behind the floor has an entry only within a turn and is not closed by it, or it
would be reported again after the pruning. Across sessions `ReportedOnce` holds because
whatever was reported is older than the warm-up of the session that follows
(`ReportsTruth`), which is why the warm-up is assumed to be positive.

`SamplesAreBoundaries` needs what the entries of the bundles know (`StampTruth`): each has the time at
which it was first heard, or was forgotten after `BUNDLE_RETAIN` and heard again. A copy
read late is stamped with the time of its segment, up to `Lag` ago; `LagAssumption` (the tap gives up a hole
after 250 ms, a bundle is kept two minutes) is what keeps such a stamp from being older than the
memory of the first.

The decoded leg, also in `Peering_proofs`, and the mempool join, in `Streams_proofs`:

| Theorem | Statement |
|---|---|
| `DecodedInvariant` | `DecodedSpec => []DecodedInv` |
| `DecodedTypes` | `DecodedSpec => []DecodedTypeOK` |
| `DecodedIsExact` | `DecodedSpec => []DecodedExact` |
| `JoinInvariant` | `JoinSpec => []JoinInv` |
| `JoinTypes` | `JoinSpec => []JoinTypeOK` |
| `EmittedOnce` | `JoinSpec => []JoinEmitsOnce` |
| `FirstEmissionTrue` | `JoinSpec => []JoinStampTrue` |

Argument. The decoded leg has the same turn as the wire leg, track and then drain, so what
its entries know (`Known`) is again stated over any rounds. A line may make an entry again for a
round behind the floor; such an entry (`Revenant`) lives within one turn only and may not be
reported from. For the join, `JoinEmitsOnce` follows from what is remembered (`Spacing`): a
remembered bundle was last emitted no later than its memory says, and one that is not
remembered `DONE_RETAIN` ago or never. `JoinStampTrue` follows a first copy through the places
where it can be (`Followed`): until the bundle is emitted, the first copy a leg has read is in
the entry, or is the first of its leg in the queue, or is the one in its reader's hand.

The tap, in `TapStream_proofs`:

| Theorem | Statement |
|---|---|
| `TapStands` | `TapSpec => []TapInv` |
| `TapTypes` | `TapSpec => []TapTypeOK` |
| `TapFramesAreTrue` | `TapSpec => []TapFramesTrue` |
| `TapHeldIsAhead` | `TapSpec => []TapHeldAhead` |

Argument. Between two turns either the reassembler and the flow are as they began, or there
is one position of the connection (`Placed`): the reassembler expects its byte next, every
segment held starts behind it and holds the bytes of the connection from where its sequence
number says, its bytes are within the count and the count within the cap (`Keeps`), and the
flow's buffer ends right before it, beginning at a frame boundary if the flow is synced
(`FlowTrue`). Within a turn reassembler and flow part: `push` hands on several pieces, and
the flow takes them only after. The invariant of the turn (`Tracks`) therefore speaks of what the
flow will be when it has taken everything handed on so far, from the begin of the turn through
`take`, the pulling of held segments, and the giving up of a hole to its end. The pulling is a recursive
function of a number of steps: `PullExists` shows that it is defined and `PullsKeep` that as many
pulls as segments are held leave none ready, both by the smallest number of steps for which that fails. Sequence numbers are compared modulo
`SeqSpace`, and of a connection longer than that two bytes have one number. What is compared is always near the
byte expected next: a captured segment by `Nearby`, a held one because it was near when it came and the
position has only moved towards it since (`KeepsFrom`). For two positions less than half of the space apart the
difference of their numbers is the difference of the positions, over the wrap (`SeqDistance`), and held
segments lie in one half of the space, so that they have numbers of their own. A segment is shorter than half of the
space (`TapAssumption`); the length of a connection is free.

What is read of messages and proposals, in `Content_proofs`:

| Theorem | Statement |
|---|---|
| `CanonicalTypes` | `CanonicalSpec => []CanonicalTypeOK` |
| `ContentHasItsKey` | `CanonicalSpec => []ContentIsKey` |
| `OrderingTypes` | `OrderingSpec => []OrderingTypeOK` |
| `OrderingIsExact` | `OrderingSpec => []OrderingExact` |

Argument. In both modules the state is one message and what was computed of it, so the invariant is no
harder than the computation, and all of the work is in lemmas about the operators. Of decimals: ten to any
power exists, is positive and adds up in the exponent (`TensExist` and what follows, by smallest counterexample);
`Normal` takes off as many zeros as there are, so its result is the decimal of its worth with the
fewest digits, and that is unique. The code compares and normalizes one decimal at a time, the reference
compares worths in a common unit: once the two are known to agree, a sorted side has one key, the fills of a
trade have the key of its record when they tell it alike, and what is crossed, tied, not positive or short has none.

Of a proposal, `Holds` says that a piece stands at a position, and `Layout` and `LegacyLayout` where every piece of
`ProposalBytes` does. One lemma per parser says what it reads at a place that holds its
input, whatever stands before and behind: the varint, the hashes, the certificates, the small bytes
(as many as there are, because what follows them is a marker), the close, the tail. They give the slot, and an end and, if its count is one byte, a place of the count
for the own record. That place may have rivals in the bytes of hashes or between
the records; with one the code takes neither, and a place alone is the own record's. Of an own record with a larger
count any place is a rival; what is read there is still a record of the own round. The old
layout has no such structure: `ScanQuiet` passes over a stretch without a marker and `LegacyStep` over one record, which
it believes or steps into.

The tasks that collect, and the whole process, in `Streams_proofs`:

| Theorem | Statement |
|---|---|
| `CollectorTypes` | `CollectorSpec => []CollectorTypeOK` |
| `ReplayIsExact` | `CollectorSpec => []CollectorReplayExact` |
| `BackoffDoubles` | `CollectorSpec => []CollectorBackoffGrows` |
| `FillsTypes` | `FillsSpec => []FillsTypeOK` |
| `FillsStayInOrder` | `FillsSpec => []FillsInOrder` |
| `FillsLossIsBounded` | `FillsSpec => []FillsLossIsLastSecond` |
| `StreamsRunTasks` | `StreamsSpec` lets every task take only its own steps, the legs of the peering dataset if they were chosen |
| `StreamsTypes` | `StreamsSpec => []StreamsTypeOK` |
| `StreamsRead` | `StreamsSpec => [](ContentIsKey /\ OrderingExact)` |
| `StreamsEmitOnce` | `StreamsSpec => [](JoinEmitsOnce /\ JoinStampTrue)` |
| `StreamsCollect` | `StreamsSpec => [](CollectorTypeOK /\ CollectorReplayExact /\ CollectorBackoffGrows)` |
| `StreamsTail` | `StreamsSpec => [](FillsTypeOK /\ FillsInOrder /\ FillsLossIsLastSecond)` |
| `StreamsTap` | `StreamsSpec => [](TapTypeOK /\ TapFramesTrue /\ TapHeldAhead)` |
| `StreamsAccountForRounds` | what the two legs promise of the rounds named, whenever the process runs them |

Argument. Of a collecting task, `Numbered` says where the numbers read stand within those sent, with what
is missing as the difference, and `Replaying` that the count of a replay is never below what may still come of
it, so no replayed message is timed, and is exact until one of its messages is lost, repeated or illegible.
The wait doubles because `2 ^ n` does, which is not in the library: `SubsetsDouble` and
`PowersDouble` get it from the subsets of a set with one element more.

Of the tail, the newest file is always the last the node made (`NewestIsLast`, from the order of the
names), so the tail only moves on. Its buffer holds half a line or nothing, unless it began in the middle of a line
(`Tailing`): hence what a read completes (`LinesRead`) and leaves behind (`RestRead`) is known wherever
the pieces were cut. What was timed lies behind the tail (`TimedBehind`), which gives the order; and
whatever was whole between the place where the tail came in and the place up to which it read was timed (`Drained`), which bounds the loss.

The task of a behaviour is chosen once, and nothing but its own actions changes its
variables, so a behaviour of the process is one of each task's own specification, and the
theorems above carry over to the specification the `streams` run checks.

Induction over data has no theorem that could be cited here (the library's take an operator as a parameter),
so the lemmas on sums, powers and filtered sequences are proved from the least element of a
non-empty set of naturals: a smallest counterexample, and the step that makes a smaller one.

Model-checked and not proved: liveness, for which the provers have no ENABLED
(`AcceptedAcked`, `CloseStopsWorker`, `EveryBaseSealed` and `NamedRoundsClose`). Every invariant and every action property of a passing run is stated by a
theorem, so what the runs add to the proofs is that the cases occur: each property
has a mutant of the code that breaks it on the instance.

## Findings

1. `outbox_repost`. METHODOLOGY says a fully acknowledged file is never posted
   again. A process that is gone between the acknowledgement and the durable unlink leaves the file
   to the next one, which posts it again. It takes no crash: the worker retries a failed commit only until
   `close()`, and `main` waits for it 15 seconds. Readers de-duplicate by
   event id, so the effect is a repeated batch.
2. `cohort_integrity`. METHODOLOGY says any cap eviction is published as integrity
   loss. `last_integrity_loss` is overwritten by whichever loss is recorded last, even
   when its time is earlier, so a declared loss can leave the rolling window too soon. The run has two sources;
   a single one with stamps out of order, a peering leg, does it as well.
3. `cohort_late`. The data dictionary says `late_count` is arrivals after the deadline.
   A base is sealed by comparing with the present, while observations stamped before its
   deadline may wait in the queue; they are then counted as late.
4. `publication_boundary`. The data dictionary says the interval is half-open and the
   count is of the cohorts committed in it. The count goes up to the moment the tick is
   served, the interval ends at the last multiple before it: a cohort completed in between, before a
   tick served late, is counted in the interval before its own.
5. `peering_late_feed`. METHODOLOGY says the lag of the reference feed only delays a
   report. A round whose line comes more than the deadline after its ordering record was
   closed before it had a name, and is neither a sample nor a gap.
6. `peering_late_sample`. METHODOLOGY says a round that does not complete within five seconds is a gap and
   can never enter a latency distribution late. `drain_ready` looks at completeness before the deadline, so a
   bundle that comes after it and before the next tick makes a sample. Against other sources admission has
   its own deadline.
7. `decoded_warmup`. The comment at `src/peering.rs:100-105` says that rounds before the warm-up are neither
   samples nor gaps, of every leg alike. The decoded leg has no warm-up.
8. `fills_rollover`. The comment at the switch says that the old file is drained. The read
   that found nothing came before the directory was listed: a line the node appends in between
   is not read again.

All eight are disagreements between documentation or comments and code, and need particular timing, but for the
seventh. A ninth has no run: an own record of more than 250 hashes may be taken for one with fewer (see
`OrderingScan`).

## Not modelled, and the plan

* Clock health: `src/clock.rs` assesses one chrony sample; what it says is a free choice
  of every publication in `Publication`, and so the properties there hold whatever it says.
* The freshness and connection signals as a publication reads them: they are copied into
  the event and nothing is decided by them.
* The percentiles of a window: a pure function on a sorted vector.
* The peering loops take the backoff from the time since the attempt began, which
  includes a slow connect; `Collector` has the backoff of the other tasks only.
* The composition of `Publication` with `DeliveryContract` beyond what `MCPublisher` does, which lets one of the two
  take the steps: their meeting point is one statement (an admitted batch is durable) that each side
  states for itself.

Left out for good: transports, TLS, subscription messages and JSON (I/O without state of
their own), packet capture, generated gRPC code, the scripts, argument parsing, event
formatting and logging. Their effect on what is modelled is an unconstrained input.

## Running

`tlc -config Publisher_safety.cfg MCPublisher` (and so for each row of `PROJECT.json`'s runs);
`tlapm Outbox_proofs.tla`. Every run ends within about four minutes on two cores.
