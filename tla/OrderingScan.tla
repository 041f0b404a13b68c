---------------------------- MODULE OrderingScan ----------------------------
(***************************************************************************)
(* src/ordering.rs: the records of consensus rounds in the bytes of a      *)
(* proposal of the node's gossip.                                          *)
(*                                                                         *)
(* A proposal for round R carries the record of R-1 in a slot at its       *)
(* front and its own record further on, behind material of which nothing   *)
(* is known.  Since the upgrade of 2026-09 a record is closed by a tail    *)
(* with its round; before, it was led by its round.  Bytes are scaled: an  *)
(* integer wider than a byte, a proposer and a hash take one byte each and *)
(* the eight integers of the head are one.                                 *)
(*                                                                         *)
(* An Option is the set of what it holds; positions count from zero.       *)
(***************************************************************************)
EXTENDS Integers, Sequences, FiniteSets, FiniteSetsExt, SequencesExt

CONSTANTS
    SmallBytes,    \* 0xfb: a byte below it stands for itself, it marks a u16
    TailTcMax,     \* TAIL_TC_MAX
    MaxHashCount,  \* MAX_BUNDLE_HASHES
    ScanMax,       \* the most hashes the marker scan believes
    Proposals,     \* what the node may send: records of its layout, slot, bytes between, own
    Anchors,       \* newest rounds of the reference feed; 0 for none
    ScanWindow     \* ROUND_WINDOW

U16 == SmallBytes
U32 == SmallBytes + 1
U64 == SmallBytes + 2
ByteValues == SmallBytes + 5

ASSUME OrderingAssumption ==
    /\ {SmallBytes, TailTcMax, MaxHashCount, ScanMax} \subseteq Nat \ {0}
    /\ 1 < SmallBytes /\ TailTcMax < SmallBytes /\ ScanMax < SmallBytes
    /\ Anchors \subseteq Nat /\ ScanWindow \in Nat

VARIABLES
    proposal,      \* the proposal received
    recordsFound   \* what ordering_rounds makes of it

orderingVars == <<proposal, recordsFound>>
-----------------------------------------------------------------------------
(* Bytes *)

\* payload.get(i)
At(d, i) == IF i \in 0 .. Len(d) - 1 THEN {d[i + 1]} ELSE {}

IsAt(d, i, byte) == At(d, i) = {byte}

Wrapping(n) == n % ByteValues

\* read_varint
ReadVarint(d, i) ==
    UNION {CASE m < SmallBytes          -> {[value |-> m, next |-> i + 1]}
             [] m \in {U16, U32, U64}   -> {[value |-> v, next |-> i + 2] : v \in At(d, i + 1)}
             [] OTHER                   -> {}
            : m \in At(d, i)}

\* read_hashes
ReadHashes(d, k, count) ==
    IF count > MaxHashCount \/ k + count > Len(d) THEN {} ELSE {SubSeq(d, k + 1, k + count)}

\* slot_start: behind the tag, the integers of the head and the number of signers.
SlotStart(d) ==
    IF IsAt(d, 0, 0)
    THEN UNION {{s.next : s \in ReadVarint(d, h.next)} : h \in ReadVarint(d, 1)}
    ELSE {}
-----------------------------------------------------------------------------
(* The tail of a record *)

\* The certificates of timed-out rounds at j: a count and that many rounds, or none at all.
Certificates(d, j) ==
    LET counts == {c \in ReadVarint(d, j) : c.value \in 1 .. TailTcMax /\ IsAt(d, c.next, U32)}
        each(c, n) == c.next + 2 * n
    IN
    IF counts = {} THEN {[rounds |-> {}, next |-> j]}
    ELSE {[rounds |-> UNION {At(d, each(c, n) + 1) : n \in 0 .. c.value - 1},
           next |-> each(c, c.value)]
            : c \in {e \in counts : \A n \in 0 .. e.value - 1 :
                        IsAt(d, each(e, n), U32) /\ At(d, each(e, n) + 1) # {}}}

\* The small bytes at j, four at most.
Smalls(d, j) ==
    Max({n \in 0 .. 4 : \A i \in j .. j + n - 1 : \E b \in At(d, i) : b < SmallBytes})

RoundOf(timedOut, parent) ==
    Wrapping((IF timedOut = {} THEN parent ELSE Max(timedOut)) + 1)

\* The close of a tail: small bytes at j, the activation round and the parent.
Closing(d, timedOut, j) ==
    LET k == j + Smalls(d, j) IN
    IF k > j /\ IsAt(d, k, U32) /\ IsAt(d, k + 2, U32)
    THEN {[activation |-> d[k + 2], round |-> RoundOf(timedOut, parent), end |-> k + 4]
            : parent \in At(d, k + 3)}
    ELSE {}

\* parse_tail
ParseTail(d, at) ==
    IF IsAt(d, at, U32)
    THEN UNION {UNION {Closing(d, c.rounds, c.next) : c \in Certificates(d, v.next)}
                : v \in ReadVarint(d, at + 2)}
    ELSE {}
-----------------------------------------------------------------------------
(* The records *)

LegacySlot(d, p) ==
    UNION {UNION {{[legacy |-> TRUE, round |-> r, hashes |-> h, activation |-> 0,
                    end |-> c.next + Len(h)]
                    : h \in ReadHashes(d, c.next, c.value), r \in At(d, p + 2)}}
            : c \in ReadVarint(d, p + 3)}

TailedSlot(d, p) ==
    UNION {UNION {{[legacy |-> FALSE, round |-> t.round, hashes |-> h,
                    activation |-> t.activation, end |-> t.end]
                    : t \in ParseTail(d, c.next + c.value)}
                  : h \in ReadHashes(d, c.next, c.value)}
            : c \in ReadVarint(d, p + 1)}

\* parse_slot, for the proposer at p.
ParseSlot(d) ==
    UNION {IF IsAt(d, p + 1, U32) THEN LegacySlot(d, p) ELSE TailedSlot(d, p)
            : p \in {q \in SlotStart(d) : q < Len(d)}}

\* Where the own record may end: at the slot's activation round and a parent not far below
\* the round of the slot.
Ends(d, slot) ==
    {j + 4 : j \in {i \in slot.end .. Len(d) - 4 :
        /\ d[i + 1] = U32 /\ d[i + 2] = slot.activation /\ d[i + 3] = U32
        /\ d[i + 4] \in Wrapping(slot.round - TailTcMax) .. slot.round}}

\* The bytes of the shortest and the longest tail: the first integer, the second, the
\* certificates, the small bytes and the two of the close.
TailMin == 2 + 2 + 2 + 4
TailMax == 2 + 2 + 1 + 2 * TailTcMax + 4 + 4

\* Where the count of the own record may be: every place from which count, hashes and tail
\* run to one of the ends, behind what precedes a record.
CountPlaces(d, slot) ==
    {idx \in 4 .. Len(d) - 1 :
        /\ d[idx + 1] < SmallBytes
        /\ d[idx - 1] < SmallBytes /\ d[idx - 3] = U64
        /\ LET hashesEnd == idx + 1 + d[idx + 1] IN
           \E t \in ParseTail(d, hashesEnd) :
            /\ t.end \in Ends(d, slot) /\ t.end - hashesEnd \in TailMin .. TailMax
            /\ t.activation = slot.activation /\ t.round = Wrapping(slot.round + 1)}

\* Mutant: the first place will do.
OwnCount_First(places) == IF places = {} THEN {} ELSE {Min(places)}

\* Two places are ambiguous.
OwnCount(places) == IF Cardinality(places) = 1 THEN places ELSE {}

\* A record without bundles is none.
NonEmpty(r, hashes) == IF hashes = <<>> THEN <<>> ELSE <<[round |-> r, hashes |-> hashes]>>

\* tailed_records
TailedRecords(d, slot) ==
    LET own == UNION {ReadHashes(d, i + 1, d[i + 1]) : i \in OwnCount(CountPlaces(d, slot))} IN
    NonEmpty(slot.round, slot.hashes)
    \o (IF own = {} THEN <<>> ELSE NonEmpty(Wrapping(slot.round + 1), CHOOSE h \in own : TRUE))

\* scan_block_records: a marker and a round in the window, and a count that fits.
Hit(d, lo, hi, p) ==
    {c \in ReadVarint(d, p + 2) :
        /\ IsAt(d, p, U32) /\ \E r \in At(d, p + 1) : r \in lo .. hi
        /\ c.value \in 1 .. ScanMax /\ c.next + c.value <= Len(d)}

ScanBlockRecords(d, lo, hi) ==
    LET from[p \in 0 .. Len(d)] ==
            IF p + 2 > Len(d) THEN <<>>
            ELSE IF Hit(d, lo, hi, p) = {} THEN from[p + 1]
            ELSE LET c == CHOOSE x \in Hit(d, lo, hi, p) : TRUE IN
                 <<[round |-> d[p + 2], hashes |-> SubSeq(d, c.next + 1, c.next + c.value)]>>
                 \o from[c.next + c.value]
    IN  IF Len(d) = 0 THEN <<>> ELSE from[1]

\* find_block_records: which layout it is is decided before the window.
FindBlockRecords(d, lo, hi) ==
    LET tailed == {s \in ParseSlot(d) : ~s.legacy} IN
    IF tailed = {} THEN ScanBlockRecords(d, lo, hi)
    ELSE LET slot == CHOOSE s \in tailed : TRUE IN
         IF slot.round \in lo .. hi THEN TailedRecords(d, slot) ELSE <<>>

\* ordering_rounds: rounds with their number of bundles.
OrderingRounds(d, anchor) ==
    IF anchor = 0 THEN <<>>
    ELSE LET records == FindBlockRecords(d, Max({0, anchor - ScanWindow}),
                                         Min({ByteValues - 1, anchor + ScanWindow}))
         IN [i \in DOMAIN records |-> <<records[i].round, Len(records[i].hashes)>>]
-----------------------------------------------------------------------------
(* The proposals of the node. *)

\* A record: its round, that of its parent, the rounds that timed out in between, and how
\* the second integer of its tail is written.
CertificateBytes(timedOut) ==
    [k \in 1 .. 2 * Len(timedOut) |-> IF k % 2 = 1 THEN U32 ELSE timedOut[k \div 2]]

TailBytes(r, activation) ==
    <<U32, 1, r.second, 1, Len(r.timedOut)>> \o CertificateBytes(r.timedOut)
    \o <<0, U32, activation, U32, r.parent>>

\* A count that is no small byte follows a marker.
CountBytes(n) == IF n < SmallBytes THEN <<n>> ELSE <<U16, n>>

RecordBytes(r, legacy, activation) ==
    IF legacy THEN <<1, U32, r.round>> \o CountBytes(Len(r.hashes)) \o r.hashes
    ELSE <<1>> \o CountBytes(Len(r.hashes)) \o r.hashes \o TailBytes(r, activation)

\* The own record follows a u64 and a number of signers.
ProposalBytes(p) ==
    <<0, 1, 1>> \o RecordBytes(p.slot, p.legacy, p.activation) \o p.between
    \o <<U64, 1, 1>> \o RecordBytes(p.own, p.legacy, p.activation)

Bytes == 0 .. ByteValues - 1

IsRecord(r) ==
    /\ r.hashes \in Seq(Bytes) /\ Len(r.hashes) \in Bytes /\ Len(r.hashes) <= MaxHashCount
    /\ r.second \in {U16, U32, U64} /\ r.parent \in Bytes /\ r.round \in Bytes
    /\ r.timedOut \in Seq(Bytes) /\ Len(r.timedOut) <= TailTcMax
    /\ r.round = 1 + (IF r.timedOut = <<>> THEN r.parent ELSE Max(Range(r.timedOut)))

\* The search for the own record knows counts of one byte.
Locatable(r) == Len(r.hashes) < SmallBytes

\* A proposal is a decoy if more than its own record reads like it.
IsProposal(p) ==
    /\ p.legacy \in BOOLEAN /\ p.decoy \in BOOLEAN
    /\ p.activation \in Bytes /\ p.between \in Seq(Bytes)
    /\ IsRecord(p.slot) /\ IsRecord(p.own)
    /\ p.own.round = p.slot.round + 1 /\ TailTcMax <= p.slot.round
    /\ p.own.parent \in p.slot.round - TailTcMax .. p.slot.round
    /\ ~p.legacy /\ ~p.decoy /\ p.own.hashes # <<>> =>
         \A s \in ParseSlot(ProposalBytes(p)) :
            Cardinality(CountPlaces(ProposalBytes(p), s)) <= (IF Locatable(p.own) THEN 1 ELSE 0)

ASSUME ProposalsAssumption == \A p \in Proposals : IsProposal(p)

Receive ==
    /\ proposal = <<>>
    /\ \E p \in Proposals, anchor \in Anchors :
        /\ proposal' = <<p, anchor>>
        /\ recordsFound' = OrderingRounds(ProposalBytes(p), anchor)

OrderingInit == proposal = <<>> /\ recordsFound = <<>>

\* The next proposal has nothing to do with the last.
NextProposal == proposal # <<>> /\ proposal' = <<>> /\ recordsFound' = <<>>

OrderingNext == Receive \/ NextProposal

OrderingSpec == OrderingInit /\ [][OrderingNext]_orderingVars
-----------------------------------------------------------------------------
(* Properties *)

OrderingTypeOK == \A i \in DOMAIN recordsFound : recordsFound[i] \in Nat \X (Nat \ {0})

\* What is found of a proposal is the record of its slot and its own, or that of its slot
\* alone if something else in it is just like a record ("yields the parent slot alone rather
\* than a guess", src/ordering.rs:27-28).  An own record whose count takes more than a byte is
\* not located (247-249); what reads like a record in its place is taken for it then, with
\* another number of bundles, but never for a third round.  Of a proposal in the old layout
\* both are found, if the scan believes their counts and no marker stands outside them
\* (tailed_records, parse_tail, scan_block_records).
OrderingExact ==
    proposal # <<>> =>
        LET p       == proposal[1]
            near(r) == proposal[2] # 0 /\ r \in proposal[2] - ScanWindow .. proposal[2] + ScanWindow
            found(r) == IF r.hashes = <<>> THEN <<>> ELSE <<<<r.round, Len(r.hashes)>>>>
            parent  == IF near(p.slot.round) THEN found(p.slot) ELSE <<>>
            own     == IF near(IF p.legacy THEN p.own.round ELSE p.slot.round)
                          /\ (p.legacy \/ Locatable(p.own))
                       THEN found(p.own) ELSE <<>>
            quiet   == /\ ~Contains(p.between, U32)
                       /\ \A r \in {p.slot, p.own} :
                            /\ r.round # U32 /\ Len(r.hashes) <= ScanMax
                            /\ near(r.round) \/ ~Contains(r.hashes, U32)
        IN
        /\ ~p.legacy /\ Locatable(p.own) => recordsFound \in {parent, parent \o own}
        /\ ~p.legacy =>
             \/ recordsFound = parent
             \/ near(p.slot.round)
                /\ \E c \in Bytes : recordsFound = parent \o <<<<p.own.round, c>>>>
        /\ (~p.decoy /\ (p.legacy => quiet)) => recordsFound = parent \o own
=============================================================================
