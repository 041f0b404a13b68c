----------------------------- MODULE TapStream -----------------------------
(***************************************************************************)
(* One tapped connection of the peering dataset: `Reassembler' of          *)
(* src/tap.rs, which puts captured segments in order, and the `TapFlow' of *)
(* src/peering.rs, which finds the frames in the bytes.                    *)
(*                                                                         *)
(* The capture sees each segment never, once or several times, cut into    *)
(* segments differently, and in any order.  Sequence numbers wrap.  What   *)
(* cannot be put in order in time is given up with a Reset, after which    *)
(* the flow looks for a run of good frames before it trusts a boundary.    *)
(*                                                                         *)
(* A byte is its connection and its position.  Every frame has FrameLen    *)
(* bytes, the first of them its header.                                    *)
(***************************************************************************)
EXTENDS Integers, Sequences, FiniteSets, FiniteSetsExt, SequencesExt, Functions

CONSTANTS
    SeqSpace,       \* 2^32
    Isn,            \* the connections on the port, in order: initial sequence numbers
    StreamLen,      \* bound: bytes of a connection
    FrameLen,       \* bytes of a frame
    Oversize,       \* frames whose header announces more than MAX_FRAME_BODY
    ResyncFrames,   \* RESYNC_FRAMES
    KeepBytes,      \* what an unsynced flow keeps: twice the largest frame
    MaxPendingBytes,\* MAX_PENDING_BYTES
    ReorderWait,    \* REORDER_WAIT
    SegLens,        \* bound: lengths of a segment
    MaxSegments,    \* bound: segments captured
    CaptureLag,     \* bound: time from the kernel's stamp to the loop
    TapMaxTime      \* bound: the clock stops here

ASSUME TapAssumption ==
    /\ SeqSpace \in Nat /\ SeqSpace > 2 /\ SeqSpace % 2 = 0 /\ StreamLen \in Nat \ {0}
    /\ Isn \in Seq(0 .. SeqSpace - 1) /\ Isn # <<>>
    /\ FrameLen \in Nat \ {0} /\ Oversize \subseteq Nat /\ ResyncFrames \in Nat \ {0}
    /\ KeepBytes \in Nat /\ MaxPendingBytes \in Nat /\ ReorderWait \in Nat
    /\ SegLens \subseteq Nat \ {0} /\ \A n \in SegLens : n < SeqSpace \div 2
    /\ MaxSegments \in Nat /\ CaptureLag \in Nat /\ TapMaxTime \in Nat

VARIABLES
    tapNow,       \* the clock
    connection,   \* the connection on the port
    segments,     \* segments captured so far
    lastWall,     \* kernel time of the last of them
    reassembler,  \* [next, pending, count]: Reassembler
    flow,         \* [buf, synced]: the rest of TapFlow
    parsed        \* the frames the last step took out of the buffer: [bytes, stamp]

\* History, read by nothing of the code: the kernel time of the first copy of every byte
\* captured, and the byte `next' stands for.
VARIABLES captured, nextByte

tapVars == <<tapNow, connection, segments, lastWall, reassembler, flow, parsed, captured, nextByte>>

Byte(c, pos) == <<c, pos>>
SeqNo(b)     == (Isn[b[1]] + 1 + b[2]) % SeqSpace
Nobody       == Byte(0, 0)
NoNext       == -1
Cleared      == [next |-> NoNext, pending |-> [s \in {} |-> 0], count |-> 0]

\* Mutant: sequence numbers are compared as numbers.
SeqDiff_Plain(a, b) == a - b

\* seq_diff: the signed distance from b to a.
SeqDiff(a, b) == LET d == (a - b) % SeqSpace IN IF d < SeqSpace \div 2 THEN d ELSE d - SeqSpace

\* What the reassembler hands on.
Reset              == [reset |-> TRUE]
Delivered(bs, wall) == [reset |-> FALSE, bytes |-> bs, wall |-> wall]

\* A reassembler r in work: its fields and what it has handed on.
Working(r)  == [next |-> r.next, pending |-> r.pending, count |-> r.count, out |-> <<>>]
Settled(w)  == [next |-> w.next, pending |-> w.pending, count |-> w.count]
Skip(bs, n) == SubSeq(bs, n + 1, Len(bs))
-----------------------------------------------------------------------------
(* Reassembler *)

\* Mutant: bytes pulled from those held keep the time of the segment before them.
PulledWall_First(data, p) == data.wall

PulledWall(data, p) == IF p.wall > data.wall THEN p.wall ELSE data.wall

\* One held segment that starts at or before `next' goes behind the data.
PullOne(x) ==
    LET ready == {s \in DOMAIN x.w.pending : SeqDiff(s, x.w.next) <= 0} IN
    IF ready = {} THEN x
    ELSE LET s    == Min(ready)
             p    == x.w.pending[s]
             more == Skip(p.bytes, SeqDiff(x.w.next, s))
         IN
         [w |-> [x.w EXCEPT !.pending = Restrict(@, DOMAIN @ \ {s}), !.count = @ - Len(p.bytes),
                            !.next = (@ + Len(more)) % SeqSpace],
          data |-> IF more = <<>> THEN x.data
                   ELSE Delivered(x.data.bytes \o more, PulledWall(x.data, p))]

\* Bytes at `next' are handed on, with every held segment they make contiguous.
HandOn(w, bs, wall) ==
    LET start == [w |-> [w EXCEPT !.next = (@ + Len(bs)) % SeqSpace], data |-> Delivered(bs, wall)]
        pull[n \in 0 .. Cardinality(DOMAIN w.pending)] ==
            IF n = 0 THEN start ELSE PullOne(pull[n - 1])
        done == pull[Cardinality(DOMAIN w.pending)]
    IN [done.w EXCEPT !.out = Append(@, done.data)]

\* Mutant: what is held is not counted.
Hold_Uncounted(w, seq, bs, wall) ==
    [w EXCEPT !.pending = IF seq \in DOMAIN @ THEN @
                          ELSE [s \in DOMAIN @ \cup {seq} |->
                                  IF s = seq THEN [bytes |-> bs, wall |-> wall, since |-> tapNow]
                                  ELSE @[s]]]

\* A segment ahead of `next' waits; a second copy is counted and not kept.
Hold(w, seq, bs, wall) ==
    [w EXCEPT !.count = @ + Len(bs),
              !.pending = IF seq \in DOMAIN @ THEN @
                          ELSE [s \in DOMAIN @ \cup {seq} |->
                                  IF s = seq THEN [bytes |-> bs, wall |-> wall, since |-> tapNow]
                                  ELSE @[s]]]

\* take
Take(w, seq, bs, wall) ==
    LET d == SeqDiff(seq, w.next) IN
    CASE d < 0 /\ -d >= Len(bs) -> w
      [] d <= 0 /\ -d < Len(bs) -> HandOn(w, Skip(bs, -d), wall)
      [] d > 0 /\ w.count + Len(bs) > MaxPendingBytes ->
            HandOn([next |-> seq, pending |-> Cleared.pending, count |-> 0,
                    out |-> Append(w.out, Reset)], bs, wall)
      [] d > 0 /\ w.count + Len(bs) <= MaxPendingBytes -> Hold(w, seq, bs, wall)

\* Mutant: the jump over lost bytes is not announced.
Jumped_Silently(out) == out

Jumped(out) == Append(out, Reset)

HoleIsOld(w) == \E s \in DOMAIN w.pending : tapNow - w.pending[s].since >= ReorderWait

\* expire: the earliest segment held becomes the next.
GivenUp(w) ==
    IF ~HoleIsOld(w) THEN w
    ELSE LET first == CHOOSE s \in DOMAIN w.pending :
                        \A t \in DOMAIN w.pending : SeqDiff(s, w.next) <= SeqDiff(t, w.next)
             p     == w.pending[first]
         IN Take([next |-> first, pending |-> Restrict(w.pending, DOMAIN w.pending \ {first}),
                  count |-> w.count - Len(p.bytes), out |-> Jumped(w.out)],
                 first, p.bytes, p.wall)

\* Whatever is held belongs to a connection that is over.
Closed(r) ==
    [next |-> NoNext, pending |-> Cleared.pending, count |-> 0,
     out |-> IF r.next = NoNext THEN <<>> ELSE <<Reset>>]
-----------------------------------------------------------------------------
(* TapFlow *)

IsHeader(b)  == b[2] % FrameLen = 0
FrameOf(b)   == b[2] \div FrameLen
IsRefused(b) == IsHeader(b) /\ FrameOf(b) \in Oversize

\* FrameLen bytes that are one frame.
WellFormed(bs) ==
    /\ Len(bs) = FrameLen /\ IsHeader(bs[1]) /\ ~IsRefused(bs[1])
    /\ \A i \in 1 .. FrameLen : bs[i] = Byte(bs[1][1], bs[1][2] + i - 1)

\* find_frame_boundary: the offsets where ResyncFrames good frames begin.
Boundaries(buf) ==
    {o \in 0 .. Len(buf) - ResyncFrames * FrameLen :
        \A k \in 0 .. ResyncFrames - 1 :
            WellFormed(SubSeq(buf, o + k * FrameLen + 1, o + (k + 1) * FrameLen))}

Tail2(buf) == IF Len(buf) > KeepBytes THEN Skip(buf, Len(buf) - KeepBytes) ELSE buf

\* consume_frames: frames are taken off the front until the next is not whole, or its header
\* is refused, which ends the trust in the boundary.
ConsumeFrames(buf, stamp, f) ==
    LET starts  == {k \in 0 .. Len(buf) \div FrameLen : k * FrameLen < Len(buf)}
        refused == {k \in starts : IsRefused(buf[k * FrameLen + 1])}
        n       == IF refused = {} THEN Len(buf) \div FrameLen ELSE Min(refused)
        frames  == {[bytes |-> SubSeq(buf, k * FrameLen + 1, (k + 1) * FrameLen), stamp |-> stamp]
                        : k \in 0 .. n - 1}
    IN [buf |-> IF refused = {} THEN Skip(buf, n * FrameLen) ELSE <<>>,
        synced |-> refused = {}, frames |-> f.frames \cup frames]

\* Mutant: after a Reset the flow trusts the next byte to be a boundary.
Resync_Trusting(buf) == 0

Resync(buf) == Min(Boundaries(buf))

\* The loop over the deliveries, one of them.
AfterDelivery(f, delivery) ==
    IF delivery.reset THEN [buf |-> <<>>, synced |-> FALSE, frames |-> f.frames]
    ELSE LET buf == f.buf \o delivery.bytes IN
         CASE f.synced -> ConsumeFrames(buf, delivery.wall, f)
           [] ~f.synced /\ Boundaries(buf) # {} ->
                ConsumeFrames(Skip(buf, Resync(buf)), delivery.wall, f)
           [] ~f.synced /\ Boundaries(buf) = {} -> [f EXCEPT !.buf = Tail2(buf)]

\* The turn of the loop that ends with what w has handed on; without bytes `next' stands for
\* the byte at.
Deliver(w, at) ==
    LET f == FoldLeft(AfterDelivery, [buf |-> flow.buf, synced |-> flow.synced, frames |-> {}], w.out)
        bs == {i \in DOMAIN w.out : ~w.out[i].reset}
    IN
    /\ reassembler' = Settled(w)
    /\ flow' = [buf |-> f.buf, synced |-> f.synced]
    /\ parsed' = f.frames
    /\ nextByte' = IF w.next = NoNext THEN Nobody
                   ELSE IF bs # {} THEN LET b == Last(w.out[Max(bs)].bytes) IN Byte(b[1], b[2] + 1)
                   ELSE at
-----------------------------------------------------------------------------
(* The turns of the loop. *)

\* The kernel stamps segments in order; the loop gets to one up to CaptureLag later.
Stamps == {t \in lastWall .. tapNow : tapNow - t <= CaptureLag}

Payload(c, from, n) == [i \in 1 .. n |-> Byte(c, from + i - 1)]

Capture(bs, wall) ==
    /\ segments < MaxSegments
    /\ segments' = segments + 1 /\ lastWall' = wall
    /\ captured' = [b \in DOMAIN captured \cup Range(bs) |->
                        IF b \in DOMAIN captured THEN captured[b] ELSE wall]

\* What seq_diff takes for granted: while `next' stands for a byte, no segment is captured that
\* starts or ends half of the sequence space away from it.
Nearby(from, n) ==
    reassembler.next # NoNext =>
        nextByte[2] - from < SeqSpace \div 2 /\ from + n - nextByte[2] < SeqSpace \div 2

\* push of a segment with bytes: any nearby, in any order, again and again.
Data ==
    /\ \E from \in 0 .. StreamLen - 1, n \in SegLens, wall \in Stamps :
        LET bs == Payload(connection, from, n)
            seq == SeqNo(bs[1])
            joined == [Working(reassembler) EXCEPT !.next = IF @ = NoNext THEN seq ELSE @]
        IN
        /\ from + n <= StreamLen /\ Nearby(from, n)
        /\ Capture(bs, wall)
        /\ connection' = connection
        /\ Deliver(GivenUp(Take(joined, seq, bs, wall)), nextByte)
    /\ UNCHANGED tapNow

\* push of a SYN, with or without bytes: of the next connection, or another copy of one.
Syn ==
    /\ \E c \in {connection, connection + 1} \cap DOMAIN Isn, n \in 0 .. 1, wall \in Stamps :
        LET bs == Payload(c, 0, n)
            new == [Closed(reassembler) EXCEPT !.next = SeqNo(Byte(c, 0))]
        IN
        /\ Capture(bs, wall)
        /\ connection' = c
        /\ Deliver(IF bs = <<>> THEN new ELSE Take(new, new.next, bs, wall), Byte(c, 0))
    /\ UNCHANGED tapNow

\* push of an RST, or of a FIN without bytes.
Close ==
    /\ \E wall \in Stamps : Capture(<<>>, wall)
    /\ connection' = connection
    /\ Deliver(Closed(reassembler), Nobody)
    /\ UNCHANGED tapNow

\* tick
Tick ==
    /\ connection' = connection
    /\ Deliver(GivenUp(Working(reassembler)), nextByte)
    /\ UNCHANGED <<tapNow, segments, lastWall, captured>>

TapElapse ==
    /\ tapNow < TapMaxTime
    /\ tapNow' = tapNow + 1
    /\ UNCHANGED <<connection, segments, lastWall, reassembler, flow, parsed, captured, nextByte>>
-----------------------------------------------------------------------------
TapInit ==
    /\ tapNow = 0 /\ connection = 1 /\ segments = 0 /\ lastWall = 0
    /\ reassembler = Cleared /\ flow = [buf |-> <<>>, synced |-> FALSE] /\ parsed = {}
    /\ captured = [b \in {} |-> 0] /\ nextByte = Nobody

TapNext == Data \/ Syn \/ Close \/ Tick \/ TapElapse

TapSpec == TapInit /\ [][TapNext]_tapVars
-----------------------------------------------------------------------------
(* Properties *)

HeldBytes ==
    LET size == [s \in DOMAIN reassembler.pending |-> Len(reassembler.pending[s].bytes)] IN
    MapThenSumSet(LAMBDA s : size[s], DOMAIN reassembler.pending)

\* The bytes held are within the count, and the count within its cap.
TapTypeOK ==
    /\ tapNow \in 0 .. TapMaxTime /\ connection \in DOMAIN Isn /\ segments \in 0 .. MaxSegments
    /\ lastWall \in 0 .. tapNow /\ flow.synced \in BOOLEAN
    /\ reassembler.next \in {NoNext} \cup 0 .. SeqSpace - 1
    /\ HeldBytes <= reassembler.count /\ reassembler.count <= MaxPendingBytes
    /\ reassembler.next # NoNext => SeqNo(nextByte) = reassembler.next

\* A frame the assembly is given is one frame of one connection, never the front of one
\* and the back of another, whatever was lost in between; and it is not stamped
\* earlier than the first copy of any of its bytes (src/tap.rs:13-15, HandOn, AfterDelivery).
TapFramesTrue ==
    \A f \in parsed : WellFormed(f.bytes) /\ \A b \in Range(f.bytes) : captured[b] <= f.stamp

\* What is held lies ahead of the next byte, on its connection, across the wrap of the sequence
\* numbers: bytes handed on are never held to be handed on again (take, seq_diff).
TapHeldAhead ==
    \A s \in DOMAIN reassembler.pending :
        LET b == reassembler.pending[s].bytes[1] IN b[1] = nextByte[1] /\ b[2] > nextByte[2]
=============================================================================
