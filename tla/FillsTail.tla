----------------------------- MODULE FillsTail -----------------------------
(***************************************************************************)
(* The fills source on the box of the node: `run_vpc_fills' of             *)
(* src/streams.rs follows the newest file of the tree                      *)
(* <root>/<date>/<hour> that the node writes, from its end.                *)
(*                                                                         *)
(* The node is another process: it appends to the newest file in pieces    *)
(* that need not end with a line, and begins the file of the next hour     *)
(* when the hour is over.  The tail reads what is there; when a read finds *)
(* nothing and a second has passed since it last looked, it looks for a    *)
(* newer file and goes over to that one.                                   *)
(***************************************************************************)
EXTENDS Integers, Sequences, FiniteSets, FiniteSetsExt, Functions

CONSTANTS
    HourFiles,     \* the files the node makes, in order: [day |-> .., hour |-> ..]
    MaxPieces,     \* bound: pieces written to one file; a line is two pieces
    MaxFailures    \* bound: times the tail fails

\* The node makes a file when its hour comes, so their order is that of day and hour.
ASSUME FillsAssumption ==
    /\ HourFiles \in Seq([day : Nat, hour : 0 .. 23]) /\ HourFiles # <<>>
    /\ \A i, j \in DOMAIN HourFiles : i < j =>
        \/ HourFiles[i].day < HourFiles[j].day
        \/ HourFiles[i].day = HourFiles[j].day /\ HourFiles[i].hour < HourFiles[j].hour
    /\ MaxPieces \in Nat /\ MaxFailures \in Nat

FileIds == DOMAIN HourFiles

VARIABLES
    size,       \* file |-> pieces written; only made files are in the domain
    days,       \* the directories of days that exist
    tail,       \* "down", "read" before a read, "eof" after one that found nothing
    file,       \* run_vpc_fills_once: path
    offset,     \* how far the file has been read
    buf,        \* the pieces read and not yet a line, as <<file, number>>
    due,        \* VPC_TAIL_RECHECK has passed since last_recheck
    failures

\* History, read by no guard: the lines turned into trades, in order, where the tail of
\* this session came into each file, and how far it had been read when the tail last
\* found nothing more in it.
VARIABLES timed, entered, drained

fillsVars == <<size, days, tail, file, offset, buf, due, failures, timed, entered, drained>>

Made == DOMAIN size

\* Line n of a file is its pieces 2n-1 and 2n; the second carries the newline.
Line(f, n)    == <<<<f, 2 * n - 1>>, <<f, 2 * n>>>>
EndsLine(p)   == p[2] % 2 = 0
LinesIn(f, k) == k \div 2
-----------------------------------------------------------------------------
(* newest_hourly_file *)

\* Hour files are sorted by number: their names are not padded.
HourBefore(x, y) == x.hour < y.hour

FilesOf(day) == {f \in Made : HourFiles[f].day = day}

\* A day whose directory is still empty is passed over.
NewestDay == CHOOSE d \in days : FilesOf(d) # {} /\ \A e \in days : FilesOf(e) # {} => e <= d

\* The last of the sorted hours.
NewestFile ==
    CHOOSE f \in FilesOf(NewestDay) :
        \A g \in FilesOf(NewestDay) : ~HourBefore(HourFiles[f], HourFiles[g])

Newest == IF Made = {} THEN 0 ELSE NewestFile
-----------------------------------------------------------------------------
(* The node. *)

\* It writes a piece of a line to the file of the hour.
Append1 ==
    /\ Made # {}
    /\ LET f == Cardinality(Made) IN
        /\ size[f] < MaxPieces
        /\ size' = [size EXCEPT ![f] = @ + 1]
    /\ UNCHANGED <<days, tail, file, offset, buf, due, failures, timed, entered, drained>>

MakeDay ==
    /\ \E f \in FileIds : f = Cardinality(Made) + 1 /\ HourFiles[f].day \notin days
        /\ days' = days \cup {HourFiles[f].day}
    /\ UNCHANGED <<size, tail, file, offset, buf, due, failures, timed, entered, drained>>

\* The hour is over: the line begun is complete, and the next file is made.  An hour is
\* long: a tail that is up has come to the file by then.
NextHour ==
    LET f == Cardinality(Made) IN
    /\ f + 1 \in FileIds /\ HourFiles[f + 1].day \in days
    /\ f > 0 => size[f] % 2 = 0 /\ (tail = "down" \/ file = f)
    /\ size' = [g \in Made \cup {f + 1} |-> IF g \in Made THEN size[g] ELSE 0]
    /\ UNCHANGED <<days, tail, file, offset, buf, due, failures, timed, entered, drained>>
-----------------------------------------------------------------------------
(* The tail. *)

\* Mutant: a tail starts at the beginning of the file.
StartOf_Begin(f) == 0

\* Only lines written after the start are timed.
StartOf(f) == size[f]

Start ==
    /\ tail = "down" /\ Newest # 0
    /\ tail' = "read" /\ file' = Newest /\ offset' = StartOf(Newest) /\ buf' = <<>>
    /\ due' = FALSE
    /\ entered' = [f \in {Newest} |-> StartOf(Newest)] /\ drained' = [f \in {} |-> 0]
    /\ UNCHANGED <<size, days, failures, timed>>

\* The pieces up to the last newline leave the buffer.
LastEnd(b) == Max({0} \cup {i \in DOMAIN b : EndsLine(b[i])})
Rest(b)    == SubSeq(b, LastEnd(b) + 1, Len(b))

\* Of those the lines whose text is whole are parsed; a piece of one is no JSON.
LinesOf(b) ==
    {l \in {<<p[1], p[2] \div 2>> : p \in {q \in Range(b) : EndsLine(q)}} :
        \E i \in 1 .. Len(b) - 1 :
            /\ SubSeq(b, i, i + 1) = Line(l[1], l[2])
            /\ i = 1 \/ EndsLine(b[i - 1])}

InOrder(S) ==
    CHOOSE s \in [1 .. Cardinality(S) -> S] :
        Range(s) = S /\ \A i, j \in DOMAIN s : i < j => s[i][2] < s[j][2]

\* A read that finds pieces: they are appended and complete lines turned into trades.
ReadSome ==
    /\ tail = "read" /\ offset < size[file]
    /\ \E upto \in offset + 1 .. size[file] :
        LET b == buf \o [i \in 1 .. upto - offset |-> <<file, offset + i>>] IN
        /\ buf' = Rest(b)
        /\ timed' = timed \o InOrder(LinesOf(b))
        /\ offset' = upto
    /\ UNCHANGED <<size, days, tail, file, due, failures, entered, drained>>

\* A read that finds nothing.
ReadNothing ==
    /\ tail = "read" /\ offset = size[file]
    /\ tail' = "eof"
    /\ drained' = [f \in DOMAIN drained \cup {file} |-> IF f = file THEN offset ELSE drained[f]]
    /\ UNCHANGED <<size, days, file, offset, buf, due, failures, timed, entered>>

\* Mutant: what is left of the old file's last line stays in the buffer.
Switched_Keep == buf

Switched == <<>>

\* After such a read: a sleep, or a look for a newer file.
Recheck ==
    /\ tail = "eof"
    /\ tail' = "read"
    /\ \/ /\ ~due \/ Newest = file
          /\ due' = FALSE
          /\ UNCHANGED <<file, offset, buf, entered>>
       \/ /\ due /\ Newest # file
          /\ due' = FALSE
          /\ file' = Newest /\ offset' = 0 /\ buf' = Switched
          /\ entered' = [f \in DOMAIN entered \cup {Newest} |-> IF f = Newest THEN 0 ELSE entered[f]]
    /\ UNCHANGED <<size, days, failures, timed, drained>>

\* A second has passed.
RecheckDue ==
    /\ tail # "down" /\ ~due
    /\ due' = TRUE
    /\ UNCHANGED <<size, days, tail, file, offset, buf, failures, timed, entered, drained>>

\* A read or an open fails: Reconnect, and a new start after the backoff.
Fail ==
    /\ tail # "down" /\ failures < MaxFailures
    /\ tail' = "down" /\ failures' = failures + 1
    /\ file' = 0 /\ offset' = 0 /\ buf' = <<>> /\ due' = FALSE
    /\ entered' = [f \in {} |-> 0] /\ drained' = [f \in {} |-> 0]
    /\ UNCHANGED <<size, days, timed>>
-----------------------------------------------------------------------------
FillsInit ==
    /\ size = [f \in {} |-> 0] /\ days = {}
    /\ tail = "down" /\ file = 0 /\ offset = 0 /\ buf = <<>> /\ due = FALSE /\ failures = 0
    /\ timed = <<>> /\ entered = [f \in {} |-> 0] /\ drained = [f \in {} |-> 0]

FillsNext ==
    \/ Append1 \/ MakeDay \/ NextHour
    \/ Start \/ ReadSome \/ ReadNothing \/ Recheck \/ RecheckDue \/ Fail

FillsSpec == FillsInit /\ [][FillsNext]_fillsVars
-----------------------------------------------------------------------------
(* Properties *)

FillsTypeOK ==
    /\ Made = 1 .. Cardinality(Made) /\ Made \subseteq FileIds
    /\ tail \in {"down", "read", "eof"} /\ due \in BOOLEAN
    /\ tail # "down" => file \in Made /\ offset \in 0 .. size[file]
    /\ DOMAIN drained \subseteq DOMAIN entered

\* No line is timed twice and none out of the order it was written in, across pieces,
\* hour files, failures and new starts (run_vpc_fills_once, newest_hourly_file).
FillsInOrder ==
    \A i, j \in DOMAIN timed : i < j =>
        \/ timed[i][1] < timed[j][1]
        \/ timed[i][1] = timed[j][1] /\ timed[i][2] < timed[j][2]

\* Line n of a file was written whole after the tail of this session came to it.
AfterEntry(f, n) == f \in DOMAIN entered /\ 2 * n - 1 > entered[f] /\ 2 * n <= size[f]

\* A line of a file the tail has left was timed, or was not there whole when the tail
\* last read the file to its end: nothing else is lost, whatever the pieces
\* (src/streams.rs:1391-1406).
FillsLossIsLastSecond ==
    \A f \in Made : \A n \in 1 .. LinesIn(f, size[f]) :
        (AfterEntry(f, n) /\ f # file /\ <<f, n>> \notin Range(timed)) => 2 * n > drained[f]

\* The comment says it without exception: "the old one is drained" (src/streams.rs:1397).
FillsOldDrained ==
    \A f \in Made : \A n \in 1 .. LinesIn(f, size[f]) :
        (AfterEntry(f, n) /\ f # file) => <<f, n>> \in Range(timed)
=============================================================================
