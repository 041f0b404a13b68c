----------------------------- MODULE MCStreams -----------------------------
(***************************************************************************)
(* An instance of the stream tasks for TLC.                                *)
(***************************************************************************)
EXTENDS Streams, TLC

CONSTANTS bundleP, bundleQ

\* The peering legs: two blocks with a bundle each, and a stray round that only the second
\* block makes plausible.
MCProduced == 1 :> 1 @@ 2 :> 1
MCBundles  == 1 :> {bundleP} @@ 2 :> {bundleQ}
MCStray    == {3}

\* The tap: two connections longer than the sequence space, whose numbers run over its end
\* early and late.
MCIsn == <<6, 1>>

\* The fills: an hour whose name sorts before that of the hour before, and a new day.
MCHourFiles == <<[day |-> 1, hour |-> 9], [day |-> 1, hour |-> 10], [day |-> 2, hour |-> 0]>>

\* The content: 0, 1, 1.0, 2 and 2.5; a trade whose fills may disagree on the price, and one
\* with the other side as its taker.
MCPrices == {[m |-> 0, s |-> 0], [m |-> 1, s |-> 0], [m |-> 10, s |-> 1], [m |-> 2, s |-> 0],
             [m |-> 25, s |-> 1]}
MCTrades ==
    <<[aggressor |-> "B", px |-> {[m |-> 1, s |-> 0], [m |-> 10, s |-> 1], [m |-> 2, s |-> 0]}],
      [aggressor |-> "A", px |-> {[m |-> 2, s |-> 0]}]>>

\* The proposals: hashes and material with every marker, and with what is just like a record.
MCOdd      == {0, 1, U32, U64}
MCHashes   == {<<>>} \cup {<<h>> : h \in MCOdd} \cup {<<h, g>> : h \in MCOdd, g \in MCOdd}
MCMaterial == {<<>>} \cup {<<byte>> : byte \in MCOdd}

\* Records of round r whose parents are the last round or one before rounds timed out.
MCRecords(r, hashes) ==
    {[round |-> r, hashes |-> h, second |-> s, timedOut |-> t, parent |-> r - 1 - Len(t)]
        : h \in hashes, s \in {U16, U32}, t \in {<<>>, <<r - 1>>, <<r - 2, r - 1>>}}

\* In the old layout there is no tail.
MCUntimed(r) == {e \in MCRecords(r, MCHashes) : e.parent = r - 1 /\ e.second = U32}

MCLike(hashes, r, activation) ==
    <<U64, 1, 1>> \o RecordBytes([round |-> r, hashes |-> hashes, second |-> U32,
                                 timedOut |-> <<>>, parent |-> r - 1], FALSE, activation)

\* Hashes whose count takes two bytes, and is the value of a marker.
MCMany == [i \in 1 .. U32 |-> 9]

MCProposals ==
    LET like  == MCLike(<<>>, 6, 3)
        slots == MCRecords(5, {<<>>, <<U32>>, MCMany})
        of(legacy, decoy, slot, own, material) ==
            [legacy : {legacy}, decoy : {decoy}, activation : {3}, slot : slot, own : own,
             between : material]
    IN
    of(FALSE, FALSE, slots, MCRecords(6, MCHashes),
       MCMaterial \cup {MCLike(<<>>, 5, 3), MCLike(<<>>, 6, 4)})
    \cup of(FALSE, TRUE, slots, MCRecords(6, {<<9>>}), {like, MCLike(<<7, 7>>, 6, 3)})
    \cup of(FALSE, TRUE, slots, MCRecords(6, {like}), MCMaterial)
    \cup of(FALSE, FALSE, slots, MCRecords(6, {MCMany}), MCMaterial)
    \cup of(FALSE, TRUE, slots, MCRecords(6, {MCLike(<<7>>, 6, 3)}), MCMaterial)
    \cup of(TRUE, FALSE, MCUntimed(5), MCUntimed(6), MCMaterial)
    \cup of(TRUE, FALSE, MCRecords(5, {MCMany}), MCUntimed(6), {<<>>})
=============================================================================
