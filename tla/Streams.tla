------------------------------ MODULE Streams ------------------------------
(***************************************************************************)
(* The stream tasks of a collector, `spawn_streams' of src/streams.rs.     *)
(*                                                                         *)
(* Which tasks a process runs follows from its dataset and from what of    *)
(* the node it finds on its box.  They share nothing but the queue of      *)
(* observations they send into (Cohort has its other end), and the two     *)
(* readers of the mempool the channel of their join (MempoolJoin).  So a   *)
(* behaviour of one task is a behaviour of that task in any company: one   *)
(* is chosen at the start, and it alone takes steps.                       *)
(***************************************************************************)
EXTENDS DecodedPeering, TapStream, MempoolJoin, FillsTail, Collector, Canonical, OrderingScan

VARIABLE task   \* the task that takes the steps

streamsVars == <<vars, decodedVars, tapVars, joinVars, fillsVars, collectorVars, canonicalVars,
                 orderingVars, task>>

\* StreamConfig: the dataset, and whether the files, the gRPC service and the decoded socket of
\* a node are on this box, and its connection is tapped.
Configs == [dataset : {"bbo", "l2book", "fills", "mempool", "peering"},
            nodeData : BOOLEAN, vpcGrpc : BOOLEAN, socket : BOOLEAN, taps : BOOLEAN]

IsBook(c)  == c.dataset \in {"bbo", "l2book"}
VpcOnly(c) == (c.dataset = "fills" /\ c.nodeData) \/ (IsBook(c) /\ c.vpcGrpc)

\* The tasks it spawns.  Of a collector the control of its connection and the reading of its
\* messages are two, of which neither guards a step of the other; so are the assembly of a
\* wire leg and the reading of the proposals it is given.
Tasks(c) ==
    (IF c.dataset # "peering" /\ (~VpcOnly(c) \/ IsBook(c)) THEN {"collector", "content"} ELSE {})
    \cup (IF c.dataset = "mempool" /\ c.socket THEN {"join"} ELSE {})
    \cup (IF c.dataset = "fills" /\ c.nodeData THEN {"fills"} ELSE {})
    \cup (IF c.dataset = "peering" THEN {"wire", "ordering"} ELSE {})
    \cup (IF c.dataset = "peering" /\ c.taps THEN {"tap"} ELSE {})
    \cup (IF c.dataset = "peering" /\ c.socket THEN {"decoded"} ELSE {})
-----------------------------------------------------------------------------
StreamsInit ==
    /\ Init /\ DecodedInit /\ TapInit /\ JoinInit /\ FillsInit /\ CollectorInit /\ CanonicalInit
    /\ OrderingInit
    /\ task \in UNION {Tasks(c) : c \in Configs}
    /\ task # "collector" => source = "plain"

Wire ==
    /\ task = "wire" /\ Next
    /\ UNCHANGED <<task, decodedVars, tapVars, joinVars, fillsVars, collectorVars,
                   canonicalVars, orderingVars>>

Decoded ==
    /\ task = "decoded" /\ DecodedNext
    /\ UNCHANGED <<task, tapVars, joinVars, fillsVars, collectorVars, canonicalVars,
                   orderingVars>>

Tap ==
    /\ task = "tap" /\ TapNext
    /\ UNCHANGED <<task, vars, decodedVars, joinVars, fillsVars, collectorVars, canonicalVars,
                   orderingVars>>

Join ==
    /\ task = "join" /\ JoinNext
    /\ UNCHANGED <<task, vars, decodedVars, tapVars, fillsVars, collectorVars, canonicalVars,
                   orderingVars>>

FillsLeg ==
    /\ task = "fills" /\ FillsNext
    /\ UNCHANGED <<task, vars, decodedVars, tapVars, joinVars, collectorVars, canonicalVars,
                   orderingVars>>

Collect ==
    /\ task = "collector" /\ CollectorNext
    /\ UNCHANGED <<task, vars, decodedVars, tapVars, joinVars, fillsVars, canonicalVars,
                   orderingVars>>

Content ==
    /\ task = "content" /\ CanonicalNext
    /\ UNCHANGED <<task, vars, decodedVars, tapVars, joinVars, fillsVars, collectorVars,
                   orderingVars>>

Scan ==
    /\ task = "ordering" /\ OrderingNext
    /\ UNCHANGED <<task, vars, decodedVars, tapVars, joinVars, fillsVars, collectorVars,
                   canonicalVars>>

StreamsNext == Wire \/ Decoded \/ Tap \/ Join \/ FillsLeg \/ Collect \/ Content \/ Scan

StreamsSpec == StreamsInit /\ [][StreamsNext]_streamsVars

\* The wire leg as in Peering: time passes, and the interval of its loop fires.
StreamsFairness == WF_vars(task = "wire" /\ Elapse) /\ WF_vars(task = "wire" /\ Maintain)

StreamsFairSpec == StreamsSpec /\ StreamsFairness
-----------------------------------------------------------------------------
\* The variables of the task that runs have their types, and what its buffers and queues hold
\* stays within their caps (MAX_PENDING_BYTES, JOIN_QUEUE, the rounds kept).
StreamsTypeOK ==
    CASE task = "wire"      -> TypeOK
      [] task = "decoded"   -> DecodedTypeOK
      [] task = "tap"       -> TapTypeOK
      [] task = "join"      -> JoinTypeOK
      [] task = "fills"     -> FillsTypeOK
      [] task = "collector" -> CollectorTypeOK
      [] task = "content"   -> CanonicalTypeOK
      [] task = "ordering"  -> OrderingTypeOK
=============================================================================
