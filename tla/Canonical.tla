----------------------------- MODULE Canonical -----------------------------
(***************************************************************************)
(* How src/streams.rs and src/vpc_mempool.rs turn a message into the key   *)
(* its content is compared by.  Sources tell the same book, trade or       *)
(* bundle in different ways: decimals with or without zeros at the end,    *)
(* hex in either case, a trade as one record or as the fills of its two    *)
(* sides, in any order and more than once.  Equal content must have equal  *)
(* keys, or it is published as a disagreement of the sources.              *)
(*                                                                         *)
(* A decimal is [m, s], m with s of its digits behind the point; a hex     *)
(* string is its digits and whether they are upper case.                   *)
(***************************************************************************)
EXTENDS Integers, Sequences, FiniteSets, SequencesExt

CONSTANTS
    Prices,        \* bound: the decimals levels and fills come with
    L2BookDepth,   \* L2_BOOK_DEPTH
    Trades,        \* bound: trades, [aggressor, px]: the side that took and the decimals of its price
    BatchLen       \* bound: fills in a batch

ASSUME CanonicalAssumption ==
    /\ Prices \in SUBSET [m : Int, s : Nat] /\ IsFiniteSet(Prices) /\ Prices # {}
    /\ L2BookDepth \in Nat \ {0} /\ BatchLen \in Nat
    /\ Trades \in Seq([aggressor : {"A", "B"}, px : SUBSET Prices]) /\ Trades # <<>>

VARIABLES
    message,   \* the message in hand, or NoMessage
    keys       \* the keys it was given

canonicalVars == <<message, keys>>

NoMessage == [kind |-> "none"]

\* What finds a key or finds none gives a set of one key or of none.
-----------------------------------------------------------------------------
(* Decimals. *)

\* The powers of ten.
Tens[n \in Nat] == IF n = 0 THEN 1 ELSE 10 * Tens[n - 1]

\* Mutant: zeros at the end stay.
Normal_Spelled(d) == d

\* Decimal::normalize: no zeros at the end of the digits behind the point.
Normal(d) ==
    LET zeros == CHOOSE k \in 0 .. d.s :
                    d.m % Tens[k] = 0 /\ \A j \in k + 1 .. d.s : d.m % Tens[j] # 0
    IN [m |-> d.m \div Tens[zeros], s |-> d.s - zeros]

AtMost(d, e) == d.m * Tens[e.s] <= e.m * Tens[d.s]
Positive(d)  == d.m > 0
-----------------------------------------------------------------------------
(* Books. *)

\* canonical_level; the size and the number of orders go the way of the price.
LevelKey(px) == Normal(px)

\* Mutant: a price may come twice.
OutOfOrder_Strictly(first, second, descending) ==
    IF descending THEN ~AtMost(second, first) ELSE ~AtMost(first, second)

OutOfOrder(first, second, descending) ==
    IF descending THEN AtMost(first, second) ELSE AtMost(second, first)

\* canonical_side: the prices strictly from best to worst, or no key at all.
CanonicalSide(side, descending) ==
    IF \/ \E i \in DOMAIN side : ~Positive(side[i])
       \/ \E i \in 1 .. Len(side) - 1 : OutOfOrder(side[i], side[i + 1], descending)
    THEN {}
    ELSE {[i \in DOMAIN side |-> LevelKey(side[i])]}

\* book_is_crossed; a side that is empty crosses nothing.
IsCrossed(bids, asks) == bids # <<>> /\ asks # <<>> /\ AtMost(asks[1], bids[1])

\* An L2 message, of either source.
L2Key(bids, asks) ==
    {k \in CanonicalSide(bids, TRUE) \X CanonicalSide(asks, FALSE) :
        Len(bids) = L2BookDepth /\ Len(asks) = L2BookDepth /\ ~IsCrossed(k[1], k[2])}

\* A BBO message; one side may be missing.
BboKey(bids, asks) ==
    {k \in CanonicalSide(bids, TRUE) \X CanonicalSide(asks, FALSE) :
        k # <<<<>>, <<>>>> /\ ~IsCrossed(k[1], k[2])}
-----------------------------------------------------------------------------
(* Trades. *)

Hash(t, upper) == [digits |-> t, upper |-> upper]
Lower(h)       == [h EXCEPT !.upper = FALSE]
User(t, side)  == <<t, side>>

\* canonical_trade
TradeKey(t, side, px, hash, buyer, seller) ==
    IF Positive(px)
    THEN {[tid |-> t, side |-> side, px |-> Normal(px), hash |-> Lower(hash),
           users |-> <<buyer, seller>>]}
    ELSE {}

\* canonical_ws_trade: the trade as one record.
WsTradeKey(t, px, upper) ==
    TradeKey(t, Trades[t].aggressor, px, Hash(t, upper), User(t, "B"), User(t, "A"))

\* A fill of side A or B of a trade, told well or with the wrong side as the taker.
Fill(t, side, px, upper, wrong) ==
    [tid |-> t, side |-> side, user |-> User(t, side), px |-> px, hash |-> Hash(t, upper),
     crossed |-> (side = Trades[t].aggressor) # wrong]

\* Hex is upper case where the price has zeros at the end: two spellings, not four.
Fills ==
    {Fill(t, side, px, px # Normal(px), wrong) :
        t \in DOMAIN Trades, side \in {"A", "B"}, px \in Prices, wrong \in BOOLEAN}

IsTold(f) == f.px \in Trades[f.tid].px

\* The fill of a side a pair keeps, as its index: the first; 0 for none.
FirstOf(batch, t, side) ==
    SelectInSeq(batch, LAMBDA f : f.tid = t /\ f.side = side)

\* The key of a pair, if its fills agree.
PairKey(ask, bid) ==
    IF \/ ~Positive(ask.px) \/ ~Positive(bid.px) \/ Normal(ask.px) # Normal(bid.px)
       \/ Lower(ask.hash) # Lower(bid.hash) \/ ask.crossed = bid.crossed
    THEN {}
    ELSE TradeKey(ask.tid, IF ask.crossed THEN "A" ELSE "B", ask.px, ask.hash, bid.user, ask.user)

\* parse_quicknode_fill_batch
BatchKeys(batch) ==
    UNION {PairKey(batch[FirstOf(batch, t, "A")], batch[FirstOf(batch, t, "B")]) :
               t \in {u \in DOMAIN Trades : FirstOf(batch, u, "A") # 0 /\ FirstOf(batch, u, "B") # 0}}
-----------------------------------------------------------------------------
(* Bundles. *)

\* A signed action is of a type and names assets at some of these places; one that is no
\* JSON object has neither.
Places  == {"orders", "cancels", "modifies", "order", "twap", "action"}
Types   == {"order", "cancel", "cancelByCloid", "batchModify", "modify", "twapOrder", "twapCancel", "other"}
Actions == [object : {TRUE}, type : Types, names : {{}} \cup {{p} : p \in Places}]
           \cup {[object |-> FALSE, type |-> "other", names |-> {}]}

\* mempool_action_matches_asset: where an action of the type names the assets it touches.
PlacesOf(type) ==
    CASE type = "order" -> {"orders"}
      [] type \in {"cancel", "cancelByCloid"} -> {"cancels"}
      [] type = "batchModify" -> {"modifies"}
      [] type = "modify" -> {"order", "action"}
      [] type = "twapOrder" -> {"twap"}
      [] type = "twapCancel" -> {"action"}
      [] type = "other" -> {}

Touches(action) == action.names \cap PlacesOf(action.type) # {}

\* parse_quicknode_mempool_bundle
GrpcBundleKey(hash, actions) ==
    IF actions # <<>> /\ (\A i \in DOMAIN actions : actions[i].object)
                      /\ (\E i \in DOMAIN actions : Touches(actions[i]))
    THEN {Lower(hash)} ELSE {}

\* Mutant: only the first action is looked at.
VpcTouches_First(actions) == actions # <<>> /\ Touches(actions[1])

VpcTouches(actions) == \E i \in DOMAIN actions : Touches(actions[i])

\* bundle_input
VpcBundleKey(hash, actions) == IF VpcTouches(actions) THEN {Lower(hash)} ELSE {}
-----------------------------------------------------------------------------
Sides(n) == UNION {[1 .. k -> Prices] : k \in 0 .. n}

\* A book of either kind: one key of it.
ReceiveBook ==
    /\ message = NoMessage
    /\ \E bids, asks \in Sides(L2BookDepth) :
        \/ /\ message' = [kind |-> "l2", bids |-> bids, asks |-> asks]
           /\ keys' = L2Key(bids, asks)
        \/ /\ Len(bids) <= 1 /\ Len(asks) <= 1
           /\ message' = [kind |-> "bbo", bids |-> bids, asks |-> asks]
           /\ keys' = BboKey(bids, asks)

\* The fills of a block.
ReceiveFills ==
    /\ message = NoMessage
    /\ \E batch \in BoundedSeq({f \in Fills : IsTold(f)}, BatchLen) :
        /\ message' = [kind |-> "fills", batch |-> batch]
        /\ keys' = BatchKeys(batch)

\* A bundle, read by both legs.
ReceiveBundle ==
    /\ message = NoMessage
    /\ \E actions \in BoundedSeq(Actions, 2), upper \in BOOLEAN :
        LET hash == Hash(1, upper) IN
        /\ message' = [kind |-> "bundle", hash |-> hash, actions |-> actions]
        /\ keys' = GrpcBundleKey(hash, actions) \cup VpcBundleKey(hash, actions)

Forget == message # NoMessage /\ message' = NoMessage /\ keys' = {}

CanonicalInit == message = NoMessage /\ keys = {}
CanonicalNext == ReceiveBook \/ ReceiveFills \/ ReceiveBundle \/ Forget
CanonicalSpec == CanonicalInit /\ [][CanonicalNext]_canonicalVars
-----------------------------------------------------------------------------
(* Properties *)

CanonicalTypeOK ==
    /\ message.kind \in {"none", "l2", "bbo", "fills", "bundle"}
    /\ Cardinality(keys) <= Len(Trades)

\* The reference: a decimal is worth a number of units in the last place of all Prices, and
\* of the decimals of a worth the plain one has the fewest digits.
Unit     == Tens[Max({p.s : p \in Prices})]
Worth(d) == (d.m * Unit) \div Tens[d.s]
Decimals == UNION {[m : (0 .. p.m) \cup (p.m .. 0), s : 0 .. p.s] : p \in Prices}
Plain(d) == LET same == {q \in Decimals : Worth(q) = Worth(d)}
            IN  CHOOSE p \in same : \A q \in same : p.s <= q.s

\* A book has a key when its sides are sorted by worth without a tie, all of it above zero and
\* every bid below every ask; the key then depends on the worths and on nothing else.
BookIsKey ==
    LET b == message.bids
        a == message.asks
        sorted == /\ \A i, j \in DOMAIN b : i < j => Worth(b[i]) > Worth(b[j])
                  /\ \A i, j \in DOMAIN a : i < j => Worth(a[i]) < Worth(a[j])
                  /\ \A i \in DOMAIN b, j \in DOMAIN a : Worth(b[i]) < Worth(a[j])
                  /\ \A p \in Range(b) \cup Range(a) : Worth(p) > 0
        full   == IF message.kind = "l2" THEN Len(b) = L2BookDepth /\ Len(a) = L2BookDepth
                                         ELSE b # <<>> \/ a # <<>>
    IN keys = IF sorted /\ full
              THEN {<<[i \in DOMAIN b |-> Plain(b[i])], [i \in DOMAIN a |-> Plain(a[i])]>>}
              ELSE {}

\* A trade all of whose fills tell it alike has the key its one record has, and one of which a
\* side is missing has none; no trade has two, whatever its fills tell.
TradeIsKey ==
    \A t \in DOMAIN Trades :
        LET told  == {f \in Range(message.batch) : f.tid = t}
            alike == /\ \A f, g \in told : Worth(f.px) = Worth(g.px)
                     /\ \A f \in told : f.crossed <=> f.side = Trades[t].aggressor
            found == {k \in keys : k.tid = t}
        IN /\ Cardinality(found) <= 1
           /\ {f.side : f \in told} # {"A", "B"} => found = {}
           /\ {f.side : f \in told} = {"A", "B"} /\ alike =>
                 LET p == (CHOOSE f \in told : TRUE).px
                 IN found = WsTradeKey(t, Plain(p), FALSE)

\* A bundle with an action on the asset has one key, and both legs find it if they can read
\* all of its actions.
BundleIsKey ==
    LET actions == message.actions IN
    /\ keys = IF \E i \in DOMAIN actions : Touches(actions[i])
              THEN {[digits |-> message.hash.digits, upper |-> FALSE]} ELSE {}
    /\ (\A i \in DOMAIN actions : actions[i].object) => GrpcBundleKey(message.hash, actions) = keys

\* Equal content has equal keys, whatever way it is told, and what is no content has none:
\* a book by its worths alone, a trade by its fills as by its record, a bundle by either leg
\* (parse_ws_book, parse_quicknode_fill_batch, canonical_ws_trade, bundle_input).
ContentIsKey ==
    CASE message.kind = "none"            -> keys = {}
      [] message.kind \in {"l2", "bbo"}   -> BookIsKey
      [] message.kind = "fills"           -> TradeIsKey
      [] message.kind = "bundle"          -> BundleIsKey
=============================================================================
