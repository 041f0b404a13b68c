----------------------------- MODULE Collector -----------------------------
(***************************************************************************)
(* One task of src/streams.rs that collects a network stream: the          *)
(* websockets of Foundation and Hydromancer and the gRPC of Quicknode.     *)
(*                                                                         *)
(* A task connects, reads until the connection ends in whichever way,      *)
(* reports a reconnect, waits and connects again.  How long it waits       *)
(* depends on how long the connection lasted, which the task reads from    *)
(* the signals the main loop reads too.                                    *)
(*                                                                         *)
(* Hydromancer numbers its messages and, asked to go on from a cursor,     *)
(* first replays the messages after it, saying how many.  Replayed         *)
(* messages are late and must not be timed; holes in the numbers are       *)
(* reported.  The messages of the service are 1, 2, ...; on one            *)
(* connection it may repeat one, pass over some, or send one that cannot   *)
(* be read.                                                                *)
(***************************************************************************)
EXTENDS Integers, FiniteSets

CONSTANTS
    InitialBackoff,   \* INITIAL_RECONNECT_BACKOFF
    MaxBackoff,       \* MAX_RECONNECT_BACKOFF
    Healthy,          \* HEALTHY_CONNECTION
    Messages,         \* bound: messages of the service
    MaxFrames,        \* bound: frames of messages read in a behaviour
    MaxAttempts,      \* bound: attempts to connect
    StreamMaxTime     \* bound: the clock stops here

ASSUME CollectorAssumption ==
    /\ InitialBackoff \in Nat \ {0} /\ MaxBackoff \in Nat /\ InitialBackoff <= MaxBackoff
    /\ Healthy \in Nat \ {0}
    /\ Messages \in Nat /\ MaxFrames \in Nat /\ MaxAttempts \in Nat \ {0} /\ StreamMaxTime \in Nat

VARIABLES
    clock,        \* the clock
    source,       \* which task: "hydromancer", or "plain" for the other two
    phase,        \* "connecting", "open" before the subscription is confirmed, "up", "waiting"
    attempt,      \* number of the attempt
    generation,   \* connection_generation before the attempt
    wakeAt,       \* when the wait is over
    backoff,      \* ReconnectBackoff.next
    signal,       \* [up, generation, since]: what StreamSignal says of the connection
    frames        \* frames read so far

\* The service, as Hydromancer.
VARIABLES
    produced,     \* messages that exist
    sendStart,    \* the first message of this connection
    sendFrom,     \* the message it sends next
    announce      \* a replay is to be announced first

\* run_hydromancer_once and its HydromancerResume.
VARIABLES
    cursor,       \* the message after which to go on; 0 for none
    lastSeq,      \* 0 for none
    replayLeft    \* replay_remaining

(***************************************************************************)
(* History, read by no guard: the last message of the replay announced to  *)
(* this connection, the messages it accepted, those it sent on as market   *)
(* events, the holes it reported, whether a replayed message did not come  *)
(* once and legible; when the connection was made, attempts since one that *)
(* was healthy, and the last wait.                                         *)
(***************************************************************************)
VARIABLES replayEnd, accepted, scored, missing, replayFault, upSince, shortRuns, pause

taskVars    == <<phase, attempt, generation, wakeAt, backoff, signal>>
serviceVars == <<produced, sendStart, sendFrom, announce>>
replayVars  == <<cursor, lastSeq, replayLeft>>
seqHistory  == <<replayEnd, accepted, scored, missing, replayFault>>
waitHistory == <<upSince, shortRuns, pause>>
collectorVars == <<clock, source, frames, taskVars, serviceVars, replayVars, seqHistory, waitHistory>>

NotUp == -1
MinOf(x, y) == IF x <= y THEN x ELSE y
-----------------------------------------------------------------------------
(* The wait between connections. *)

\* Mutant: the time of the last connection counts, whenever that was.
ConnectionDuration_Stale ==
    IF signal.since = NotUp THEN 0 ELSE clock - signal.since

\* connection_duration
ConnectionDuration ==
    IF signal.generation = generation \/ signal.since = NotUp THEN 0 ELSE clock - signal.since

\* The backoff a wait is taken from.
BackoffNow == IF ConnectionDuration >= Healthy THEN InitialBackoff ELSE backoff

\* The task returns from its connection, in whichever way: the guard of the connection is
\* dropped, Reconnect is sent, and after_connection says how long to wait.
Wait ==
    /\ phase' = "waiting"
    /\ signal' = [signal EXCEPT !.up = FALSE]
    /\ wakeAt' = clock + BackoffNow
    /\ backoff' = MinOf(2 * BackoffNow, MaxBackoff)
    /\ pause' = BackoffNow
    /\ shortRuns' = IF upSince # NotUp /\ clock - upSince >= Healthy THEN 0 ELSE shortRuns + 1
    /\ upSince' = NotUp
    /\ UNCHANGED <<clock, source, attempt, generation>>

\* The connection cannot be made.
Refuse ==
    /\ phase = "connecting"
    /\ Wait
    /\ UNCHANGED <<frames, serviceVars, replayVars, seqHistory>>

\* Closed, silent for too long, a subscription not confirmed.
Disconnect ==
    /\ phase \in {"open", "up"}
    /\ Wait
    /\ UNCHANGED <<frames, serviceVars, replayVars, seqHistory>>

\* The wait is over: the generation is noted and the task connects.
Retry ==
    /\ phase = "waiting" /\ clock >= wakeAt /\ attempt < MaxAttempts
    /\ phase' = "connecting" /\ attempt' = attempt + 1
    /\ generation' = signal.generation
    /\ UNCHANGED <<clock, source, frames, wakeAt, backoff, signal, serviceVars, replayVars,
                   seqHistory, waitHistory>>

\* ProbeSender::connected
Connected ==
    /\ signal' = [up |-> TRUE, generation |-> signal.generation + 1, since |-> clock]
    /\ upSince' = clock

\* The connection is there and the subscription sent.  Hydromancer goes on from the cursor,
\* with a replay, or from the present, and has yet to confirm.
Connect ==
    /\ phase = "connecting"
    /\ IF source = "plain"
       THEN phase' = "up" /\ Connected
       ELSE phase' = "open" /\ UNCHANGED <<signal, upSince>>
    /\ sendStart' = (IF cursor > 0 THEN cursor ELSE produced) + 1
    /\ sendFrom' = sendStart'
    /\ announce' = (cursor > 0)
    /\ lastSeq' = 0 /\ replayLeft' = 0
    /\ replayEnd' = 0 /\ accepted' = {} /\ scored' = {} /\ missing' = 0 /\ replayFault' = FALSE
    /\ UNCHANGED <<clock, source, frames, attempt, generation, wakeAt, backoff, produced, cursor,
                   shortRuns, pause>>
-----------------------------------------------------------------------------
(* The frames of Hydromancer. *)

\* A subscriptionUpdate that names the channel.
Confirm ==
    /\ phase = "open" /\ source = "hydromancer"
    /\ phase' = "up" /\ Connected
    /\ UNCHANGED <<clock, source, frames, attempt, generation, wakeAt, backoff, serviceVars,
                   replayVars, seqHistory, shortRuns, pause>>

\* The announcement of a replay, with its length; its cursor is that of either end.
AnnounceReplay ==
    /\ phase \in {"open", "up"} /\ announce
    /\ replayLeft' = produced + 1 - sendFrom
    /\ cursor' \in {cursor, produced}
    /\ announce' = FALSE /\ replayEnd' = produced
    /\ UNCHANGED <<clock, source, frames, taskVars, produced, sendStart, sendFrom, lastSeq, accepted,
                   scored, missing, replayFault, waitHistory>>

\* An error: the cursor is given up, and the connection.
ServerError ==
    /\ phase \in {"open", "up"} /\ source = "hydromancer"
    /\ Wait
    /\ cursor' = 0
    /\ UNCHANGED <<frames, serviceVars, lastSeq, replayLeft, seqHistory>>

\* Mutant: the last message counts as missing too.
MissingBefore_Inclusive(seq) == IF lastSeq = 0 THEN 0 ELSE seq - lastSeq

MissingBefore(seq) == IF lastSeq = 0 THEN 0 ELSE seq - (lastSeq + 1)

\* Mutant: a hole in the numbers ends the replay.
IsReplayed_NoHole(seq) == replayLeft > 0 /\ MissingBefore(seq) = 0

IsReplayed(seq) == replayLeft > 0

\* A message that is read and not of the past: holes before it are reported, and while a
\* replay is running it is taken off that and not timed.
Accept(seq) ==
    /\ lastSeq' = seq /\ missing' = missing + MissingBefore(seq)
    /\ accepted' = accepted \cup {seq}
    /\ cursor' = seq
    /\ IF IsReplayed(seq)
       THEN replayLeft' = replayLeft - 1 /\ scored' = scored
       ELSE replayLeft' = replayLeft /\ scored' = scored \cup {seq}

\* A frame of message seq.  The service is taken to give every message a number and a
\* cursor, and every announcement of a replay a count.
ReadFrame(seq) ==
    /\ phase \in {"open", "up"} /\ source = "hydromancer" /\ ~announce
    /\ frames < MaxFrames /\ frames' = frames + 1
    /\ seq >= sendStart
    /\ sendFrom' = IF seq < sendFrom THEN sendFrom ELSE seq + 1
    /\ \/ Accept(seq) /\ seq > lastSeq
       \/ UNCHANGED <<cursor, lastSeq, replayLeft, accepted, scored, missing>>
    /\ replayFault' =
        (replayFault \/ (sendFrom <= replayEnd /\ sendFrom <= seq /\ ~(seq = sendFrom /\ seq = lastSeq')))
    /\ UNCHANGED <<clock, source, taskVars, produced, sendStart, announce, replayEnd, waitHistory>>

Produce ==
    /\ source = "hydromancer" /\ produced < Messages
    /\ produced' = produced + 1
    /\ UNCHANGED <<clock, source, frames, taskVars, sendStart, sendFrom, announce, replayVars,
                   seqHistory, waitHistory>>

\* At the bound the clock stands still.
Pass ==
    /\ clock' = MinOf(clock + 1, StreamMaxTime)
    /\ UNCHANGED <<source, frames, taskVars, serviceVars, replayVars, seqHistory, waitHistory>>
-----------------------------------------------------------------------------
CollectorInit ==
    /\ clock = 0 /\ source \in {"hydromancer", "plain"}
    /\ phase = "connecting" /\ attempt = 1 /\ generation = 0 /\ wakeAt = 0
    /\ backoff = InitialBackoff /\ signal = [up |-> FALSE, generation |-> 0, since |-> NotUp]
    /\ frames = 0
    /\ produced = 0 /\ sendStart = 1 /\ sendFrom = 1 /\ announce = FALSE
    /\ cursor = 0 /\ lastSeq = 0 /\ replayLeft = 0
    /\ replayEnd = 0 /\ accepted = {} /\ scored = {} /\ missing = 0 /\ replayFault = FALSE
    /\ upSince = NotUp /\ shortRuns = -1 /\ pause = InitialBackoff

CollectorNext ==
    \/ Pass \/ Produce \/ Refuse \/ Disconnect \/ Retry \/ Connect
    \/ Confirm \/ AnnounceReplay \/ ServerError
    \/ \E seq \in 1 .. produced : ReadFrame(seq)

CollectorSpec == CollectorInit /\ [][CollectorNext]_collectorVars
-----------------------------------------------------------------------------
(* Properties *)

CollectorTypeOK ==
    /\ clock \in 0 .. StreamMaxTime /\ source \in {"hydromancer", "plain"}
    /\ phase \in {"connecting", "open", "up", "waiting"}
    /\ signal.up <=> phase = "up"
    /\ backoff \in InitialBackoff .. MaxBackoff /\ attempt \in 1 .. MaxAttempts
    /\ cursor \in 0 .. produced /\ lastSeq \in 0 .. produced /\ replayLeft \in 0 .. Messages

\* Of the numbers from the first message of a connection to its last each is accounted for once:
\* read, or reported as missing, whatever is repeated, lost or illegible.
CollectorSeqAccounted ==
    accepted # {} =>
        \E first \in accepted :
            /\ \A s \in accepted : first <= s
            /\ Cardinality(accepted) + missing = lastSeq - first + 1

\* No replayed message is timed; and if every message of the replay came once and could be
\* read, every later one that is read is timed.
CollectorScoresLive ==
    \A s \in accepted :
        /\ s <= replayEnd => s \notin scored
        /\ s > replayEnd /\ ~replayFault => s \in scored

\* What a connection makes of the numbers it is sent: no hole is missed or counted twice, and
\* no replayed message is timed (run_hydromancer_once: last_seq, replay_remaining).
CollectorReplayExact == CollectorSeqAccounted /\ CollectorScoresLive

\* The wait doubles from one short or refused connection to the next, up to its limit, and
\* starts again only after a connection that lasted (ReconnectBackoff, connection_duration).
CollectorBackoffGrows ==
    pause = MinOf(InitialBackoff * 2 ^ (IF shortRuns < 0 THEN 0 ELSE shortRuns), MaxBackoff)
=============================================================================
