-------------------------- MODULE TapStream_proofs --------------------------
(***************************************************************************)
(* Theorems about one tapped connection of the peering dataset, for every  *)
(* size of the sequence space and of a connection, every frame length, cap *)
(* and wait, and any number of segments captured in any order, as long as  *)
(* none is half of the sequence space or more from the byte expected next  *)
(* (Nearby): its types and caps, that what is held lies ahead of what was  *)
(* handed on, and that the frames found are frames of the connection.      *)
(*                                                                         *)
(* The invariant (TapInv) relates the two halves of the task.  Either both *)
(* are as they began, or there is one position of the connection where the *)
(* reassembler expects its next byte, everything held starts behind it and *)
(* is whole, and the flow's buffer ends right before it, with a boundary   *)
(* at its front if the flow says so (Placed).  Within a turn the two part: *)
(* the reassembler hands on several pieces and the flow takes them after.  *)
(* So the proof carries what the flow will be once it has taken what has   *)
(* been handed on so far (Tracks), from the begin of a turn through take,  *)
(* the pulling of held segments and the giving up of a hole to its end.    *)
(*                                                                         *)
(* Remainders and products of the constants stay behind operators of their *)
(* own (AtBoundary, Wholes, FrameAt), opaque but for a few lemmas of them. *)
(***************************************************************************)
EXTENDS TapStream, Totals, SequenceTheorems
-----------------------------------------------------------------------------
(* Sequence numbers. *)

(* The remainder is what is left over, *)
LEMMA Divided ==
    ASSUME NEW m \in Nat \ {0}, NEW x \in Int
    PROVE  \E q \in Int, r \in 0 .. m - 1 : r = x % m /\ x = m * q + r
<1>1. x % m \in 0 .. m - 1 /\ x \div m \in Int /\ x = m * (x \div m) + (x % m)
  OBVIOUS
<1> QED BY <1>1

(* and there is one only. *)
LEMMA LeftOver ==
    ASSUME NEW m \in Nat \ {0}, NEW q \in Int, NEW r \in 0 .. m - 1, NEW x, x = m * q + r
    PROVE  x % m = r
OBVIOUS

(* Counting on from a remainder is counting on from the number. *)
LEMMA RemainderOn ==
    ASSUME NEW m \in Nat \ {0}, NEW x \in Nat, NEW k \in Int
    PROVE  ((x % m) + k) % m = (x + k) % m
<1>1. x \in Int /\ x + k \in Int OBVIOUS
<1>2. PICK q \in Int, a \in 0 .. m - 1 : a = x % m /\ x = m * q + a BY <1>1, Divided, ZenonT(40)
<1>3. PICK t \in Int, b \in 0 .. m - 1 : b = (x + k) % m /\ x + k = m * t + b
  BY <1>1, Divided, ZenonT(40)
<1>4. m \in Nat OBVIOUS
<1>5. m * (t - q) = m * t - m * q /\ m * t \in Int /\ m * q \in Int
  BY ONLY m \in Nat, t \in Int, q \in Int
<1>6. t - q \in Int OBVIOUS
<1> PICK z : z = t - q OBVIOUS
<1>7. a + k = m * z + b
  <2> PICK u, v \in Int : u = m * t /\ v = m * q BY <1>5, Zenon
  <2>1. x = v + a /\ x + k = u + b /\ m * z = u - v BY <1>2, <1>3, <1>5, Zenon
  <2> PICK w : w = m * z OBVIOUS
  <2>2. w = u - v BY <2>1
  <2>3. a + k = w + b
    BY ONLY <2>1, <2>2, a \in 0 .. m - 1, b \in 0 .. m - 1, m \in Nat, u \in Int, v \in Int, k \in Int
  <2> QED BY <2>3
<1> PICK y : y = a + k OBVIOUS
<1>8. y % m = b
  <2>1. z \in Int /\ y = m * z + b BY <1>6, <1>7, Zenon
  <2> QED BY <2>1, LeftOver, ZenonT(40)
<1> QED BY <1>2, <1>3, <1>8, Zenon

\* What is left over of the distance of two remainders.
Apart(x, y, m) == ((x % m) - (y % m)) % m

(* Half of the space at most apart, the remainders tell the distance. *)
LEMMA RemainderApart ==
    ASSUME NEW m \in Nat \ {0}, NEW h \in Nat, m = 2 * h, NEW x \in Nat, NEW y \in Nat,
           x - y < h, y - x < h
    PROVE  Apart(x, y, m) = IF x >= y THEN x - y ELSE m + (x - y)
<1>1. x \in Int /\ y \in Int /\ m \in Nat OBVIOUS
<1>2. PICK q \in Int, a \in 0 .. m - 1 : a = x % m /\ x = m * q + a BY <1>1, Divided, ZenonT(40)
<1>3. PICK t \in Int, b \in 0 .. m - 1 : b = y % m /\ y = m * t + b BY <1>1, Divided, ZenonT(40)
<1>4. /\ m * (t - q) = m * t - m * q /\ m * t \in Int /\ m * q \in Int
      /\ m * (t - q - 1) = m * t - m * q - m
  BY ONLY m \in Nat, t \in Int, q \in Int
<1> PICK u \in Int, v \in Int : u = m * q /\ v = m * t BY <1>4, Zenon
<1>5. x = u + a /\ y = v + b BY <1>2, <1>3, Zenon
<1>6. m * (t - q) = v - u /\ m * (t - q - 1) = v - u - m BY <1>4, Zenon
<1>7. CASE x >= y
  <2>1. x - y \in 0 .. m - 1 BY <1>7
  <2>2. a - b = (v - u) + (x - y) BY <1>5
  <2> PICK z, w, r : z = t - q /\ w = a - b /\ r = x - y OBVIOUS
  <2>3. w = m * z + r BY <1>6, <2>2, Zenon
  <2>4. z \in Int OBVIOUS
  <2>7. r \in 0 .. m - 1 BY <2>1, Zenon
  <2>5. w % m = r BY ONLY <2>3, <2>4, <2>7, m \in Nat \ {0}
  <2>6. Apart(x, y, m) = x - y BY <1>2, <1>3, <2>5, Zenon DEF Apart
  <2> QED BY <1>7, <2>6, Zenon
<1>8. CASE ~(x >= y)
  <2>1. m + (x - y) \in 0 .. m - 1 BY <1>8
  <2>2. a - b = (v - u - m) + (m + (x - y)) BY <1>5
  <2> PICK z, w, r : z = t - q - 1 /\ w = a - b /\ r = m + (x - y) OBVIOUS
  <2>3. w = m * z + r BY <1>6, <2>2, Zenon
  <2>4. z \in Int OBVIOUS
  <2>7. r \in 0 .. m - 1 BY <2>1, Zenon
  <2>5. w % m = r BY ONLY <2>3, <2>4, <2>7, m \in Nat \ {0}
  <2>6. Apart(x, y, m) = m + (x - y) BY <1>2, <1>3, <2>5, Zenon DEF Apart
  <2> QED BY <1>8, <2>6, Zenon
<1> QED BY <1>7, <1>8

\* Half of the space of sequence numbers.
HalfSpace == SeqSpace \div 2

(* What the assumptions say of the space of sequence numbers. *)
LEMMA Space ==
    /\ SeqSpace \in Nat \ {0} /\ StreamLen \in Nat \ {0}
    /\ HalfSpace \in Nat /\ SeqSpace = 2 * HalfSpace /\ 1 < HalfSpace
    /\ \A c \in DOMAIN Isn : Isn[c] \in Nat
<1>1. SeqSpace \in Nat /\ SeqSpace > 2 /\ SeqSpace % 2 = 0 /\ StreamLen \in Nat \ {0}
  BY TapAssumption
<1>2. SeqSpace \in Nat \ {0} /\ HalfSpace \in Nat /\ SeqSpace = 2 * HalfSpace /\ 1 < HalfSpace
  BY <1>1 DEF HalfSpace
<1>3. \A c \in DOMAIN Isn : Isn[c] \in Nat
  <2>1. Isn \in Seq(0 .. SeqSpace - 1) BY TapAssumption
  <2> QED BY <1>1, <2>1
<1> QED BY <1>1, <1>2, <1>3

LEMMA Caps == MaxPendingBytes \in Nat /\ KeepBytes \in Nat /\ TapMaxTime \in Nat /\ MaxSegments \in Nat
BY TapAssumption

(* A sequence number is in its space, and that of a later byte follows by counting on. *)
LEMMA NumberOn ==
    ASSUME NEW c \in DOMAIN Isn, NEW p \in Nat, NEW k \in Int, p + k >= 0
    PROVE  /\ SeqNo(Byte(c, p)) \in 0 .. SeqSpace - 1
           /\ (SeqNo(Byte(c, p)) + k) % SeqSpace = SeqNo(Byte(c, p + k))
<1> DEFINE x == Isn[c] + 1 + p
<1>1. x \in Nat /\ SeqSpace \in Nat \ {0} BY Space
<1>2. SeqNo(Byte(c, p)) = x % SeqSpace /\ SeqNo(Byte(c, p + k)) = (x + k) % SeqSpace
  <2>1. Isn[c] + 1 + (p + k) = x + k BY Space
  <2> QED BY <2>1 DEF SeqNo, Byte
<1> HIDE DEF x
<1>3. ((x % SeqSpace) + k) % SeqSpace = (x + k) % SeqSpace BY <1>1, RemainderOn, Zenon
<1>4. x % SeqSpace \in 0 .. SeqSpace - 1 BY <1>1
<1> QED BY <1>2, <1>3, <1>4

(* The distance of two sequence numbers of a connection is that of their bytes, across the wrap, *)
(* as long as the bytes are less than half of the space apart.                                   *)
LEMMA SeqDistance ==
    ASSUME NEW c \in DOMAIN Isn, NEW a \in Nat, NEW b \in Nat, a - b < HalfSpace, b - a < HalfSpace
    PROVE  SeqDiff(SeqNo(Byte(c, a)), SeqNo(Byte(c, b))) = a - b
<1> DEFINE x == Isn[c] + 1 + a
           y == Isn[c] + 1 + b
           h == HalfSpace
<1>1. /\ x \in Nat /\ y \in Nat /\ SeqSpace \in Nat \ {0} /\ h \in Nat /\ SeqSpace = 2 * h
      /\ x - y < h /\ y - x < h /\ x - y = a - b
  BY Space
<1>2. SeqNo(Byte(c, a)) = x % SeqSpace /\ SeqNo(Byte(c, b)) = y % SeqSpace
  BY DEF SeqNo, Byte
<1> PICK d : d = ((x % SeqSpace) - (y % SeqSpace)) % SeqSpace OBVIOUS
<1>3. SeqDiff(SeqNo(Byte(c, a)), SeqNo(Byte(c, b))) = IF d < h THEN d ELSE d - SeqSpace
  BY <1>2, Zenon DEF SeqDiff, h, HalfSpace
<1> HIDE DEF x, y, h
<1> PICK p, q, k, m : p = x /\ q = y /\ k = h /\ m = SeqSpace OBVIOUS
<1>6. d = Apart(p, q, m) BY Zenon DEF Apart
<1>7. p \in Nat /\ q \in Nat /\ m \in Nat \ {0} /\ k \in Nat /\ m = 2 * k /\ p - q < k /\ q - p < k
  BY <1>1, Zenon
<1>8. Apart(p, q, m) = IF p >= q THEN p - q ELSE m + (p - q) BY ONLY <1>7, RemainderApart
<1>4. d = IF x >= y THEN x - y ELSE SeqSpace + (x - y)
  BY <1>6, <1>8, Zenon
<1>5. (IF d < h THEN d ELSE d - SeqSpace) = x - y BY <1>1, <1>4
<1> QED BY <1>1, <1>3, <1>5, Zenon

-----------------------------------------------------------------------------
(* Bytes of a stream. *)

\* The bytes of connection c.
Stream(c) == {Byte(c, p) : p \in Nat}

(* A piece of the stream is a sequence of its bytes. *)
LEMMA PayloadIs ==
    ASSUME NEW c, NEW f \in Nat, NEW n \in Nat
    PROVE  /\ Payload(c, f, n) \in Seq(Stream(c)) /\ Len(Payload(c, f, n)) = n
           /\ DOMAIN Payload(c, f, n) = 1 .. n
           /\ \A i \in 1 .. n : Payload(c, f, n)[i] = Byte(c, f + i - 1)
<1>1. \A i \in 1 .. n : f + i - 1 \in Nat OBVIOUS
<1>2. \A i \in 1 .. n : Byte(c, f + i - 1) \in Stream(c) BY <1>1 DEF Stream
<1>3. Payload(c, f, n) \in [1 .. n -> Stream(c)] BY <1>2 DEF Payload
<1>4. /\ DOMAIN Payload(c, f, n) = 1 .. n
      /\ \A i \in 1 .. n : Payload(c, f, n)[i] = Byte(c, f + i - 1)
  BY DEF Payload
<1>5. Payload(c, f, n) \in Seq(Stream(c)) BY <1>3
<1>6. Len(Payload(c, f, n)) = n BY <1>4, <1>5, LenProperties
<1> QED BY <1>4, <1>5, <1>6

(* Sequences of a stream's bytes that agree everywhere are one. *)
LEMMA SamePiece ==
    ASSUME NEW c, NEW f \in Nat, NEW n \in Nat, NEW s \in Seq(Stream(c)), Len(s) = n,
           \A i \in 1 .. n : s[i] = Byte(c, f + i - 1)
    PROVE  s = Payload(c, f, n)
<1>1. /\ Payload(c, f, n) \in Seq(Stream(c)) /\ Len(Payload(c, f, n)) = n
      /\ \A i \in 1 .. n : Payload(c, f, n)[i] = Byte(c, f + i - 1)
  BY PayloadIs
<1> QED BY <1>1, SeqEqual

(* A part of a piece is a piece. *)
LEMMA PartOf ==
    ASSUME NEW c, NEW f \in Nat, NEW n \in Nat, NEW a \in 0 .. n, NEW b \in a .. n
    PROVE  SubSeq(Payload(c, f, n), a + 1, b) = Payload(c, f + a, b - a)
<1> PICK p : p = Payload(c, f, n) OBVIOUS
<1>1. \A i \in 1 .. n : p[i] = Byte(c, f + i - 1) BY PayloadIs
<1>2. \A i \in a + 1 .. b : p[i] \in Stream(c)
  <2> TAKE i \in a + 1 .. b
  <2>1. i \in 1 .. n /\ f + i - 1 \in Nat OBVIOUS
  <2> QED BY <1>1, <2>1 DEF Stream
<1> PICK s : s = SubSeq(p, a + 1, b) OBVIOUS
<1>3. a + 1 \in Int /\ b \in Int /\ b - a \in Nat /\ f + a \in Nat OBVIOUS
<1>4. /\ s \in Seq(Stream(c)) /\ Len(s) = IF a + 1 <= b THEN b - (a + 1) + 1 ELSE 0
      /\ \A i \in 1 .. b - (a + 1) + 1 : s[i] = p[a + 1 + i - 1]
  BY <1>2, <1>3, SubSeqProperties
<1>5. Len(s) = b - a BY <1>4
<1>6. \A i \in 1 .. b - a : s[i] = Byte(c, f + a + i - 1)
  <2> TAKE i \in 1 .. b - a
  <2>1. s[i] = p[a + 1 + i - 1] BY <1>4
  <2>2. a + i \in 1 .. n /\ a + 1 + i - 1 = a + i /\ f + (a + i) - 1 = f + a + i - 1 OBVIOUS
  <2> QED BY <1>1, <2>1, <2>2
<1> QED BY <1>3, <1>4, <1>5, <1>6, SamePiece

(* What is left of a piece after its first k bytes. *)
LEMMA SkipIs ==
    ASSUME NEW c, NEW f \in Nat, NEW n \in Nat, NEW k \in Nat
    PROVE  Skip(Payload(c, f, n), k) = IF k <= n THEN Payload(c, f + k, n - k) ELSE <<>>
<1>1. Skip(Payload(c, f, n), k) = SubSeq(Payload(c, f, n), k + 1, n) BY PayloadIs DEF Skip
<1>2. CASE k <= n
  <2>1. k \in 0 .. n /\ n \in k .. n BY <1>2
  <2> QED BY <1>1, <1>2, <2>1, PartOf
<1>3. CASE ~(k <= n)
  <2>1. k + 1 \in Int /\ n \in Int /\ n < k + 1 BY <1>3
  <2>2. SubSeq(Payload(c, f, n), k + 1, n) = <<>> BY <2>1, SubSeqEmpty
  <2> QED BY <1>1, <1>3, <2>2
<1> QED BY <1>2, <1>3

(* A piece and the one behind it are a piece. *)
LEMMA PayloadsJoin ==
    ASSUME NEW c, NEW f \in Nat, NEW n \in Nat, NEW m \in Nat
    PROVE  Payload(c, f, n) \o Payload(c, f + n, m) = Payload(c, f, n + m)
<1> PICK p, q : p = Payload(c, f, n) /\ q = Payload(c, f + n, m) OBVIOUS
<1>1. /\ p \in Seq(Stream(c)) /\ Len(p) = n /\ \A i \in 1 .. n : p[i] = Byte(c, f + i - 1)
  BY PayloadIs
<1>2. /\ q \in Seq(Stream(c)) /\ Len(q) = m
      /\ \A i \in 1 .. m : q[i] = Byte(c, (f + n) + i - 1)
  <2>1. f + n \in Nat OBVIOUS
  <2> QED BY <2>1, PayloadIs
<1> PICK s : s = p \o q OBVIOUS
<1>3. /\ s \in Seq(Stream(c)) /\ Len(s) = n + m
      /\ \A i \in 1 .. n + m : s[i] = IF i <= n THEN p[i] ELSE q[i - n]
  BY <1>1, <1>2, ConcatProperties
<1>4. \A i \in 1 .. n + m : s[i] = Byte(c, f + i - 1)
  <2> TAKE i \in 1 .. n + m
  <2>1. CASE i <= n
    <3>1. i \in 1 .. n BY <2>1
    <3> QED BY <1>1, <1>3, <2>1, <3>1
  <2>2. CASE ~(i <= n)
    <3>1. i - n \in 1 .. m /\ (f + n) + (i - n) - 1 = f + i - 1 BY <2>2
    <3>2. s[i] = q[i - n] BY <1>3, <2>2
    <3>3. q[i - n] = Byte(c, (f + n) + (i - n) - 1) BY <1>2, <3>1
    <3> QED BY <3>1, <3>2, <3>3
  <2> QED BY <2>1, <2>2
<1>5. n + m \in Nat OBVIOUS
<1> QED BY <1>3, <1>4, <1>5, SamePiece

(* A piece of no bytes is empty, and the only such. *)
LEMMA NoPiece ==
    ASSUME NEW c, NEW f \in Nat, NEW n \in Nat
    PROVE  (Payload(c, f, n) = <<>>) <=> n = 0
<1>1. Payload(c, f, n) \in Seq(Stream(c)) /\ Len(Payload(c, f, n)) = n BY PayloadIs
<1> QED BY <1>1, EmptySeq

(* The last byte of a piece. *)
LEMMA EndOfPiece ==
    ASSUME NEW c, NEW f \in Nat, NEW n \in Nat, n # 0
    PROVE  Last(Payload(c, f, n)) = Byte(c, f + n - 1)
<1> PICK s : s = Payload(c, f, n) OBVIOUS
<1>1. n \in 1 .. n OBVIOUS
<1>2. Len(s) = n /\ \A i \in 1 .. n : s[i] = Byte(c, f + i - 1) BY PayloadIs
<1>3. s[n] = Byte(c, f + n - 1) BY <1>1, <1>2
<1> QED BY <1>2, <1>3 DEF Last

(* What is in a piece. *)
LEMMA InPiece ==
    ASSUME NEW c, NEW f \in Nat, NEW n \in Nat
    PROVE  /\ \A b \in Range(Payload(c, f, n)) : \E p \in f .. f + n - 1 : b = Byte(c, p)
           /\ \A p \in f .. f + n - 1 : Byte(c, p) \in Range(Payload(c, f, n))
<1> PICK s : s = Payload(c, f, n) OBVIOUS
<1>1. DOMAIN s = 1 .. n /\ \A i \in 1 .. n : s[i] = Byte(c, f + i - 1) BY PayloadIs
<1>2. ASSUME NEW b \in Range(s) PROVE \E p \in f .. f + n - 1 : b = Byte(c, p)
  <2>1. PICK i \in 1 .. n : b = s[i] BY <1>1 DEF Range
  <2>2. f + i - 1 \in f .. f + n - 1 OBVIOUS
  <2> QED BY <1>1, <2>1, <2>2
<1>3. ASSUME NEW p \in f .. f + n - 1 PROVE Byte(c, p) \in Range(s)
  <2>1. p - f + 1 \in 1 .. n /\ f + (p - f + 1) - 1 = p OBVIOUS
  <2>2. s[p - f + 1] = Byte(c, p) BY <1>1, <2>1
  <2> QED BY <1>1, <2>1, <2>2 DEF Range
<1> QED BY <1>2, <1>3

(* What a piece of a piece holds, the piece holds. *)
LEMMA PartHolds ==
    ASSUME NEW c, NEW f \in Nat, NEW n \in Nat, NEW g \in Nat, NEW m \in Nat,
           m # 0 => f <= g /\ g + m <= f + n
    PROVE  Range(Payload(c, g, m)) \subseteq Range(Payload(c, f, n))
<1> SUFFICES ASSUME NEW b \in Range(Payload(c, g, m)) PROVE b \in Range(Payload(c, f, n)) OBVIOUS
<1>1. PICK p \in g .. g + m - 1 : b = Byte(c, p) BY InPiece
<1>2. p \in f .. f + n - 1 BY <1>1
<1> QED BY <1>1, <1>2, InPiece

(* What two pieces in a row hold. *)
LEMMA JoinedHolds ==
    ASSUME NEW c, NEW f \in Nat, NEW n \in Nat, NEW m \in Nat
    PROVE  Range(Payload(c, f, n + m)) = Range(Payload(c, f, n)) \cup Range(Payload(c, f + n, m))
<1>0. n + m \in Nat /\ f + n \in Nat OBVIOUS
<1>1. ASSUME NEW b \in Range(Payload(c, f, n + m))
      PROVE  b \in Range(Payload(c, f, n)) \cup Range(Payload(c, f + n, m))
  <2>1. PICK p \in f .. f + (n + m) - 1 : b = Byte(c, p) BY <1>0, InPiece
  <2>2. p \in f .. f + n - 1 \/ p \in f + n .. (f + n) + m - 1 OBVIOUS
  <2> QED BY <1>0, <2>1, <2>2, InPiece
<1>2. Range(Payload(c, f, n)) \subseteq Range(Payload(c, f, n + m)) BY <1>0, PartHolds
<1>3. Range(Payload(c, f + n, m)) \subseteq Range(Payload(c, f, n + m)) BY <1>0, PartHolds
<1> QED BY <1>1, <1>2, <1>3

-----------------------------------------------------------------------------
(* The deliveries of a turn. *)

\* What the reassembler can hand on.
Handed == {Reset} \cup {Delivered(Payload(c, p, n), wall) :
                          c \in DOMAIN Isn, p \in Nat, n \in Nat \ {0}, wall \in Nat}

\* g folds AfterDelivery over every part of what is handed on, the last of it last.
IsFold(out, f0, g) ==
    g = [t \in SUBSET DOMAIN out |->
            IF t = {} THEN f0 ELSE AfterDelivery(g[t \ {Max(t)}], out[Max(t)])]

\* f is what the flow comes to, from f0.
FlowOf(out, f0, f) == \E g : IsFold(out, f0, g) /\ f = g[DOMAIN out]
Folding(out) == \A f0 : \E g : IsFold(out, f0, g)

(* The fold of the model is one of them. *)
LEMMA FoldsToFlow ==
    ASSUME NEW out, NEW f0, Folding(out)
    PROVE  FlowOf(out, f0, FoldLeft(AfterDelivery, f0, out))
<1> DEFINE h == CHOOSE g : IsFold(out, f0, g)
<1>1. IsFold(out, f0, h) BY Zenon DEF Folding
<1>2. FoldLeft(AfterDelivery, f0, out) = h[DOMAIN out]
  BY DEF FoldLeft, MapThenFoldSet, IsFold
<1> HIDE DEF h
<1> QED BY <1>1, <1>2, Zenon DEF FlowOf

(* Of nothing, nothing comes. *)
LEMMA FoldNothing ==
    /\ Folding(<<>>)
    /\ \A f0, f : FlowOf(<<>>, f0, f) => f = f0
<1>1. SUBSET DOMAIN <<>> = {{}} OBVIOUS
<1>2. ASSUME NEW f0 PROVE \E g : IsFold(<<>>, f0, g)
  <2> DEFINE g == [t \in SUBSET DOMAIN <<>> |-> f0]
  <2>1. g[{}] = f0 /\ DOMAIN g = SUBSET DOMAIN <<>> BY <1>1
  <2>2. IsFold(<<>>, f0, g) BY <1>1 DEF IsFold
  <2> QED BY <2>2
<1>3. ASSUME NEW f0, NEW f, FlowOf(<<>>, f0, f) PROVE f = f0
  <2>1. PICK g : IsFold(<<>>, f0, g) /\ f = g[DOMAIN <<>>] BY <1>3 DEF FlowOf
  <2> QED BY <1>1, <2>1 DEF IsFold
<1> QED BY <1>2, <1>3 DEF Folding

(* The largest of some numbers up to n + 1. *)
LEMMA LargestOf ==
    ASSUME NEW n \in Nat, NEW t \in SUBSET (1 .. n + 1), t # {}
    PROVE  /\ Max(t) \in t
           /\ n + 1 \in t => Max(t) = n + 1
           /\ n + 1 \notin t => Max(t) \in 1 .. n /\ t \ {Max(t)} \in SUBSET (1 .. n)
           /\ t \ {n + 1} \in SUBSET (1 .. n)
<1>1. n + 1 \in Nat /\ t \in SUBSET (0 .. n + 1) OBVIOUS
<1>2. Max(t) \in t /\ \A x \in t : x <= Max(t) BY <1>1, MaxOfBounded
<1>3. Max(t) \in 1 .. n + 1 BY <1>2
<1> PICK m : m = Max(t) OBVIOUS
<1>4. n + 1 \in t => m = n + 1 BY <1>2, <1>3
<1>5. n + 1 \notin t => m \in 1 .. n /\ t \ {m} \in SUBSET (1 .. n)
  <2> SUFFICES ASSUME n + 1 \notin t PROVE m \in 1 .. n /\ t \ {m} \in SUBSET (1 .. n) OBVIOUS
  <2>1. \A x \in t : x \in 1 .. n
    <3> TAKE x \in t
    <3>1. x \in 1 .. n + 1 /\ x # n + 1 OBVIOUS
    <3> QED BY <3>1
  <2> QED BY <1>2, <2>1
<1> QED BY <1>2, <1>4, <1>5

(* One more delivery is one more step. *)
LEMMA FoldMore ==
    ASSUME NEW out \in Seq(Handed), NEW d \in Handed
    PROVE  /\ Folding(out) => Folding(Append(out, d))
           /\ \A f0, f : FlowOf(Append(out, d), f0, f) =>
                 \E e : FlowOf(out, f0, e) /\ f = AfterDelivery(e, d)
<1> PICK n, o : n = Len(out) /\ o = Append(out, d) OBVIOUS
<1>1. n \in Nat /\ DOMAIN out = 1 .. n BY LenProperties
<1>2. /\ DOMAIN o = 1 .. n + 1 /\ o[n + 1] = d /\ \A i \in 1 .. n : o[i] = out[i]
  <2>1. /\ o \in Seq(Handed) /\ Len(o) = n + 1 /\ o[n + 1] = d /\ \A i \in 1 .. n : o[i] = out[i]
    BY AppendProperties
  <2> QED BY <2>1, LenProperties
<1>3. ASSUME NEW f0, NEW g, IsFold(out, f0, g) PROVE \E k : IsFold(o, f0, k)
  <2> DEFINE k == [t \in SUBSET (1 .. n + 1) |->
                     IF n + 1 \in t THEN AfterDelivery(g[t \ {n + 1}], d) ELSE g[t]]
  <2>1. ASSUME NEW t \in SUBSET (1 .. n + 1)
        PROVE  k[t] = IF t = {} THEN f0 ELSE AfterDelivery(k[t \ {Max(t)}], o[Max(t)])
    <3>1. CASE t = {}
      <4>1. k[t] = g[t] /\ t \in SUBSET (1 .. n) BY <3>1
      <4> QED BY <1>1, <1>3, <3>1, <4>1 DEF IsFold
    <3>2. CASE t # {} /\ n + 1 \in t
      <4>1. Max(t) = n + 1 /\ t \ {n + 1} \in SUBSET (1 .. n) BY <1>1, <3>2, LargestOf
      <4>2. k[t] = AfterDelivery(g[t \ {n + 1}], d) BY <3>2
      <4>3. k[t \ {n + 1}] = g[t \ {n + 1}] BY <4>1
      <4> QED BY <1>2, <3>2, <4>1, <4>2, <4>3
    <3>3. CASE t # {} /\ n + 1 \notin t
      <4>1. /\ Max(t) \in 1 .. n /\ t \ {Max(t)} \in SUBSET (1 .. n) /\ t \in SUBSET (1 .. n)
        BY <1>1, <3>3, LargestOf
      <4>2. k[t] = g[t] BY <3>3
      <4>3. k[t \ {Max(t)}] = g[t \ {Max(t)}] BY <1>1, <3>3
      <4>4. g[t] = AfterDelivery(g[t \ {Max(t)}], out[Max(t)]) BY <1>1, <1>3, <3>3, <4>1 DEF IsFold
      <4> QED BY <1>2, <3>3, <4>1, <4>2, <4>3, <4>4
    <3> QED BY <3>1, <3>2, <3>3
  <2>2. k = [t \in SUBSET (1 .. n + 1) |-> k[t]] OBVIOUS
  <2> HIDE DEF k
  <2>3. k = [t \in SUBSET (1 .. n + 1) |->
               IF t = {} THEN f0 ELSE AfterDelivery(k[t \ {Max(t)}], o[Max(t)])]
    BY <2>1, <2>2
  <2>4. IsFold(o, f0, k) BY <1>2, <2>3 DEF IsFold
  <2> QED BY <2>4
<1>4. ASSUME NEW f0, NEW f, FlowOf(o, f0, f)
      PROVE  \E e : FlowOf(out, f0, e) /\ f = AfterDelivery(e, d)
  <2>1. PICK k : IsFold(o, f0, k) /\ f = k[1 .. n + 1] BY <1>2, <1>4 DEF FlowOf
  <2> DEFINE g == [t \in SUBSET (1 .. n) |-> k[t]]
  <2>2. ASSUME NEW t \in SUBSET (1 .. n + 1)
        PROVE  k[t] = IF t = {} THEN f0 ELSE AfterDelivery(k[t \ {Max(t)}], o[Max(t)])
    BY <1>2, <2>1 DEF IsFold
  <2>3. ASSUME NEW t \in SUBSET (1 .. n)
        PROVE  g[t] = IF t = {} THEN f0 ELSE AfterDelivery(g[t \ {Max(t)}], out[Max(t)])
    <3>1. t \in SUBSET (1 .. n + 1) /\ n + 1 \notin t BY <1>1
    <3>2. g[t] = k[t] OBVIOUS
    <3>3. CASE t = {} BY <2>2, <3>1, <3>2, <3>3
    <3>4. CASE t # {}
      <4>1. Max(t) \in 1 .. n /\ t \ {Max(t)} \in SUBSET (1 .. n) BY <1>1, <3>1, <3>4, LargestOf
      <4>2. g[t \ {Max(t)}] = k[t \ {Max(t)}] BY <4>1
      <4>3. k[t] = AfterDelivery(k[t \ {Max(t)}], o[Max(t)]) BY <2>2, <3>1, <3>4
      <4> QED BY <1>2, <3>2, <3>4, <4>1, <4>2, <4>3
    <3> QED BY <3>3, <3>4
  <2>4. g = [t \in SUBSET (1 .. n) |-> g[t]] /\ g[1 .. n] = k[1 .. n] OBVIOUS
  <2> HIDE DEF g
  <2>5. g = [t \in SUBSET (1 .. n) |->
               IF t = {} THEN f0 ELSE AfterDelivery(g[t \ {Max(t)}], out[Max(t)])]
    BY <2>3, <2>4
  <2>6. IsFold(out, f0, g) BY <1>1, <2>5 DEF IsFold
  <2>7. FlowOf(out, f0, g[1 .. n]) BY <1>1, <2>6 DEF FlowOf
  <2>8. 1 .. n + 1 \in SUBSET (1 .. n + 1) /\ 1 .. n + 1 # {} /\ n + 1 \in 1 .. n + 1 BY <1>1
  <2>9. Max(1 .. n + 1) = n + 1 BY <1>1, <2>8, LargestOf
  <2>10. (1 .. n + 1) \ {n + 1} = 1 .. n BY <1>1
  <2>11. f = AfterDelivery(k[1 .. n], d) BY <1>2, <2>1, <2>2, <2>8, <2>9, <2>10
  <2> QED BY <2>4, <2>7, <2>11
<1>5. Folding(out) => Folding(o) BY <1>3 DEF Folding
<1> QED BY <1>4, <1>5
-----------------------------------------------------------------------------
\* What is handed on ends with the byte before position p of connection c.
Delivers(out) == {i \in DOMAIN out : ~out[i].reset}
EndsAt(out, c, p) ==
    Delivers(out) # {} /\ Last(out[Max(Delivers(out))].bytes) = Byte(c, p - 1)

(* A Reset ends nothing; bytes do. *)
LEMMA ResetAfter ==
    ASSUME NEW out \in Seq(Handed)
    PROVE  /\ Append(out, Reset) \in Seq(Handed)
           /\ Delivers(Append(out, Reset)) = Delivers(out)
           /\ \A c, p : EndsAt(out, c, p) => EndsAt(Append(out, Reset), c, p)
<1> PICK n, o : n = Len(out) /\ o = Append(out, Reset) OBVIOUS
<1>1. n \in Nat /\ DOMAIN out = 1 .. n BY LenProperties
<1>2. Reset \in Handed BY DEF Handed
<1>3. /\ o \in Seq(Handed) /\ DOMAIN o = 1 .. n + 1 /\ o[n + 1] = Reset
      /\ \A i \in 1 .. n : o[i] = out[i]
  <2>1. /\ o \in Seq(Handed) /\ Len(o) = n + 1 /\ o[n + 1] = Reset
        /\ \A i \in 1 .. n : o[i] = out[i]
    BY <1>2, AppendProperties
  <2> QED BY <2>1, LenProperties
<1>4. Reset.reset = TRUE BY DEF Reset
<1>5. Delivers(o) = Delivers(out) BY <1>1, <1>3, <1>4 DEF Delivers
<1>6. ASSUME NEW c, NEW p, EndsAt(out, c, p) PROVE EndsAt(o, c, p)
  <2> PICK m : m = Max(Delivers(out)) OBVIOUS
  <2>1. m \in Delivers(out)
    <3>1. Delivers(out) \in SUBSET (0 .. n) BY <1>1 DEF Delivers
    <3> QED BY <1>1, <1>6, <3>1, MaxOfBounded DEF EndsAt
  <2>2. o[m] = out[m] BY <1>1, <1>3, <2>1 DEF Delivers
  <2> QED BY <1>5, <1>6, <2>2 DEF EndsAt
<1> QED BY <1>3, <1>5, <1>6

LEMMA BytesAfter ==
    ASSUME NEW out \in Seq(Handed), NEW c \in DOMAIN Isn, NEW p \in Nat, NEW m \in Nat \ {0},
           NEW wall \in Nat
    PROVE  /\ Delivered(Payload(c, p, m), wall) \in Handed
           /\ Append(out, Delivered(Payload(c, p, m), wall)) \in Seq(Handed)
           /\ EndsAt(Append(out, Delivered(Payload(c, p, m), wall)), c, p + m)
<1> PICK n, d : n = Len(out) /\ d = Delivered(Payload(c, p, m), wall) OBVIOUS
<1> PICK o : o = Append(out, d) OBVIOUS
<1>1. n \in Nat /\ DOMAIN out = 1 .. n BY LenProperties
<1>2. d \in Handed BY DEF Handed
<1>3. o \in Seq(Handed) /\ DOMAIN o = 1 .. n + 1 /\ o[n + 1] = d
  <2>1. o \in Seq(Handed) /\ Len(o) = n + 1 /\ o[n + 1] = d BY <1>2, AppendProperties
  <2> QED BY <2>1, LenProperties
<1>4. d.reset = FALSE /\ d.bytes = Payload(c, p, m) BY DEF Delivered
<1>5. n + 1 \in Delivers(o) /\ Delivers(o) \in SUBSET (1 .. n + 1) BY <1>1, <1>3, <1>4 DEF Delivers
<1> PICK D : D = Delivers(o) OBVIOUS
<1>6. Max(D) = n + 1
  <2>1. D \in SUBSET (1 .. n + 1) /\ D # {} /\ n + 1 \in D BY <1>5
  <2> QED BY <1>1, <2>1, LargestOf
<1>7. Last(d.bytes) = Byte(c, (p + m) - 1)
  <2>4. Last(Payload(c, p, m)) = Byte(c, p + m - 1)
    <3>1. m \in Nat /\ m # 0 OBVIOUS
    <3> QED BY <3>1, EndOfPiece, Zenon
  <2>5. p + m - 1 = (p + m) - 1 OBVIOUS
  <2> QED BY <1>4, <2>4, <2>5
<1>8. EndsAt(o, c, p + m) BY <1>3, <1>5, <1>6, <1>7 DEF EndsAt
<1> QED BY <1>2, <1>3, <1>8

-----------------------------------------------------------------------------
(* Frames. *)

\* Where frames begin, how many are whole, and how long they are together.
AtBoundary(p) == p % FrameLen = 0
Wholes(n)     == n \div FrameLen
FrameAt(k)         == k * FrameLen

\* The flow holds the bytes before position pos of connection c, from a boundary if it trusts
\* one; its frames are true to the times in cap.
FramesTrue(frames, cap) ==
    \A g \in frames : WellFormed(g.bytes) /\ \A b \in Range(g.bytes) : cap[b] <= g.stamp
FlowTrue(f, c, pos, cap) ==
    /\ f = [buf |-> f.buf, synced |-> f.synced, frames |-> f.frames]
    /\ \E n \in 0 .. pos : f.buf = Payload(c, pos - n, n) /\ (f.synced => AtBoundary(pos - n))
    /\ f.synced \in BOOLEAN
    /\ \A b \in Range(f.buf) : b \in DOMAIN cap
    /\ FramesTrue(f.frames, cap)

LEMMA FrameSize == FrameLen \in Nat \ {0} /\ FrameLen \in Nat /\ FrameLen >= 1 /\ ResyncFrames \in Nat \ {0}
BY TapAssumption

(* The least of some numbers. *)
LEMMA LeastIs ==
    ASSUME NEW S, S \subseteq Nat, S # {}
    PROVE  Min(S) \in S /\ \A x \in S : Min(S) <= x
<1>1. \E x \in S : \A y \in S : x <= y BY LeastNumber
<1> QED BY <1>1 DEF Min

(* Multiples grow with what they count. *)
LEMMA Steps ==
    ASSUME NEW m \in Nat, NEW j \in Nat, NEW k \in Nat
    PROVE  /\ j * m \in Nat /\ (j + 1) * m = j * m + m
           /\ j <= k => j * m <= k * m
           /\ j < k => j * m + m <= k * m
<1>1. j * m \in Nat /\ (j + 1) * m = j * m + m OBVIOUS
<1>2. j <= k => j * m <= k * m
  <2> SUFFICES ASSUME j <= k PROVE j * m <= k * m OBVIOUS
  <2> PICK d \in Nat : d = k - j OBVIOUS
  <2>1. k = j + d OBVIOUS
  <2>2. k * m = j * m + d * m BY <2>1
  <2>3. d * m \in Nat /\ j * m \in Nat OBVIOUS
  <2> PICK u, v, w : u = k * m /\ v = j * m /\ w = d * m OBVIOUS
  <2>4. u = v + w /\ w \in Nat /\ v \in Nat BY <2>2, <2>3
  <2>5. v <= u BY ONLY <2>4
  <2> QED BY <2>5
<1>3. j < k => j * m + m <= k * m
  <2> SUFFICES ASSUME j < k PROVE j * m + m <= k * m OBVIOUS
  <2> PICK d \in Nat : d = k - j - 1 OBVIOUS
  <2>1. k = j + 1 + d OBVIOUS
  <2>2. k * m = j * m + m + d * m BY <2>1
  <2>3. d * m \in Nat /\ j * m \in Nat OBVIOUS
  <2> PICK u, v, w : u = k * m /\ v = j * m /\ w = d * m OBVIOUS
  <2>4. u = v + m + w /\ w \in Nat /\ v \in Nat /\ m \in Nat BY <2>2, <2>3
  <2>5. v + m <= u BY ONLY <2>4
  <2> QED BY <2>5
<1> QED BY <1>1, <1>2, <1>3

(* The frames lie one behind the other. *)
LEMMA AtIs ==
    /\ \A k \in Nat : FrameAt(k) \in Nat /\ FrameAt(k + 1) = FrameAt(k) + FrameLen
    /\ \A j, k \in Nat : j < k => FrameAt(j) + FrameLen <= FrameAt(k)
<1> PICK m \in Nat : m = FrameLen BY FrameSize
<1>1. ASSUME NEW j \in Nat, NEW k \in Nat
      PROVE  j * m \in Nat /\ (j + 1) * m = j * m + m /\ (j < k => j * m + m <= k * m)
  BY Steps
<1> QED BY <1>1 DEF FrameAt

(* What is whole fits. *)
LEMMA WholesFit == ASSUME NEW n \in Nat PROVE Wholes(n) \in Nat /\ FrameAt(Wholes(n)) <= n
<1> PICK m \in Nat \ {0} : m = FrameLen BY FrameSize
<1> PICK k : k = n \div m OBVIOUS
<1>1. k \in Nat /\ \E r \in 0 .. m - 1 : n = m * k + r
  BY ONLY k = n \div m, n \in Nat, m \in Nat \ {0}
<1>2. PICK r \in 0 .. m - 1 : n = m * k + r BY <1>1
<1>3. k * m \in Nat /\ m * k = k * m BY ONLY k \in Nat, m \in Nat \ {0}, <1>1
<1> PICK u : u = k * m OBVIOUS
<1>4. u \in Nat /\ n = u + r /\ r \in Nat BY <1>2, <1>3
<1>5. u <= n BY ONLY <1>4
<1> QED BY <1>1, <1>5 DEF Wholes, FrameAt

(* Whole frames from a boundary lead to one. *)
LEMMA BoundaryOn ==
    ASSUME NEW a \in Nat, AtBoundary(a), NEW k \in Nat
    PROVE  AtBoundary(a + FrameAt(k))
<1> PICK m \in Nat \ {0} : m = FrameLen BY FrameSize
<1>0. a % m = 0 BY DEF AtBoundary
<1>1. PICK q \in Int, r \in 0 .. m - 1 : r = a % m /\ a = m * q + r
  <2>1. a \in Int OBVIOUS
  <2> QED BY <2>1, Divided, ZenonT(40)
<1>2. a = m * q
  <2> PICK w : w = m * q OBVIOUS
  <2>1. r = 0 /\ a = w + r BY <1>0, <1>1, Zenon
  <2>2. w \in Int BY ONLY w = m * q, m \in Nat \ {0}, q \in Int
  <2>3. a = w BY ONLY <2>1, <2>2
  <2> QED BY <2>3, Zenon
<1>3. a + k * m = m * (q + k) + 0
  <2>1. m * (q + k) = m * q + m * k /\ m * k = k * m /\ m * q \in Int /\ k * m \in Int
    BY ONLY m \in Nat \ {0}, q \in Int, k \in Nat
  <2> PICK u, v, w : u = m * q /\ v = k * m /\ w = m * (q + k) OBVIOUS
  <2>2. u \in Int /\ v \in Int /\ w = u + v /\ a = u BY <1>2, <2>1, Zenon
  <2>3. a + v = w + 0 BY ONLY <2>2
  <2> QED BY <2>3, Zenon
<1> PICK x, z : x = a + k * m /\ z = q + k OBVIOUS
<1>4. x = m * z + 0 BY <1>3, Zenon
<1>5. z \in Int BY ONLY z = q + k, q \in Int, k \in Nat
<1>6. x % m = 0 BY ONLY <1>4, <1>5, m \in Nat \ {0}
<1>7. x = a + FrameAt(k) BY Zenon DEF FrameAt
<1> QED BY <1>6, <1>7, Zenon DEF AtBoundary

(* A whole frame from a boundary, its header accepted, is well formed. *)
LEMMA WholeFrame ==
    ASSUME NEW c, NEW p \in Nat, AtBoundary(p), ~IsRefused(Byte(c, p))
    PROVE  WellFormed(Payload(c, p, FrameLen))
<1> PICK s, m : s = Payload(c, p, m) /\ m = FrameLen OBVIOUS
<1>1. m \in Nat /\ m >= 1 BY FrameSize
<1>2. Len(s) = m /\ \A i \in 1 .. m : s[i] = Byte(c, p + i - 1) BY <1>1, PayloadIs
<1>3. s[1] = Byte(c, p)
  <2>1. 1 \in 1 .. m /\ p + 1 - 1 = p BY <1>1
  <2>2. s[1] = Byte(c, p + 1 - 1) BY <1>2, <2>1
  <2> QED BY <2>1, <2>2
<1>4. Byte(c, p)[1] = c /\ Byte(c, p)[2] = p BY DEF Byte
<1>5. IsHeader(s[1]) /\ ~IsRefused(s[1])
  <2>1. IsHeader(s[1]) BY <1>3, <1>4, Zenon DEF IsHeader, AtBoundary
  <2> QED BY <1>3, <2>1
<1>6. \A i \in 1 .. m : s[i] = Byte(s[1][1], s[1][2] + i - 1) BY <1>2, <1>3, <1>4
<1> QED BY <1>2, <1>5, <1>6 DEF WellFormed

(* Taking frames off the front of bytes that start at a boundary. *)
LEMMA Consumed ==
    ASSUME NEW c, NEW pos \in Nat, NEW n \in 0 .. pos, AtBoundary(pos - n),
           NEW buf, buf = Payload(c, pos - n, n), NEW stamp, NEW cap, NEW f,
           \A b \in Range(buf) : b \in DOMAIN cap /\ cap[b] <= stamp,
           FramesTrue(f.frames, cap)
    PROVE  FlowTrue(ConsumeFrames(buf, stamp, f), c, pos, cap)
<1> PICK a, m, k0 : a = pos - n /\ m = FrameLen /\ k0 = Wholes(n) OBVIOUS
<1>1. a \in Nat /\ n \in Nat /\ a + n = pos /\ m \in Nat /\ m >= 1 BY FrameSize
<1>2. k0 \in Nat /\ FrameAt(k0) \in Nat /\ FrameAt(k0) <= n
  <2>1. k0 \in Nat /\ FrameAt(k0) <= n BY <1>1, WholesFit
  <2>2. FrameAt(k0) \in Nat BY ONLY <2>1, AtIs
  <2> QED BY <2>1, <2>2
<1>b. AtBoundary(a) /\ buf = Payload(c, a, n) OBVIOUS
<1>4. Len(buf) = n /\ \A i \in 1 .. n : buf[i] = Byte(c, a + i - 1)
  <2>1. Len(Payload(c, a, n)) = n /\ \A i \in 1 .. n : Payload(c, a, n)[i] = Byte(c, a + i - 1)
    BY ONLY <1>1, PayloadIs
  <2> QED BY <1>b, <2>1, Zenon
<1> DEFINE starts  == {k \in 0 .. k0 : FrameAt(k) < n}
           refused == {k \in starts : IsRefused(buf[FrameAt(k) + 1])}
           cut     == IF refused = {} THEN k0 ELSE Min(refused)
           frames  == {[bytes |-> SubSeq(buf, FrameAt(k) + 1, FrameAt(k + 1)), stamp |-> stamp]
                           : k \in 0 .. cut - 1}
           rest    == IF refused = {} THEN Skip(buf, FrameAt(cut)) ELSE <<>>
<1>5. ConsumeFrames(buf, stamp, f) =
        [buf |-> rest, synced |-> refused = {}, frames |-> f.frames \cup frames]
  BY <1>4, ZenonT(30) DEF ConsumeFrames, FrameAt, Wholes
<1>6. cut \in 0 .. k0 /\ FrameAt(cut) \in Nat /\ FrameAt(cut) <= n
      /\ \A k \in 0 .. cut - 1 : k \in starts /\ k \notin refused
  <2>1. CASE refused = {}
    <3>1. cut = k0 BY <2>1
    <3>2. ASSUME NEW k \in 0 .. k0 - 1 PROVE FrameAt(k) < n
      <4> PICK u, v : u = FrameAt(k) /\ v = FrameAt(k0) OBVIOUS
      <4>1. k \in Nat /\ k < k0 BY <1>2
      <4>2. u \in Nat /\ u + m <= v BY <1>1, <1>2, <4>1, AtIs
      <4>3. v \in Nat /\ v <= n BY <1>2
      <4>4. u < n BY ONLY <4>2, <4>3, <1>1
      <4> QED BY <4>4
    <3>3. \A k \in 0 .. k0 - 1 : k \in starts /\ k \notin refused BY <1>2, <2>1, <3>2
    <3> HIDE DEF refused, starts, cut
    <3> QED BY <1>2, <3>1, <3>3
  <2>2. CASE refused # {}
    <3>1. refused \subseteq Nat BY <1>2
    <3> PICK t : t = cut OBVIOUS
    <3>2. t \in refused /\ \A k \in refused : t <= k
      <4>1. t = Min(refused) BY <2>2
      <4> HIDE DEF refused
      <4> QED BY <2>2, <3>1, <4>1, LeastIs
    <3>3. t \in 0 .. k0 /\ FrameAt(t) < n BY <3>2
    <3>4. FrameAt(t) \in Nat
      <4>1. t \in Nat BY <1>2, <3>3
      <4> QED BY <4>1, AtIs
    <3>5. ASSUME NEW k \in 0 .. t - 1 PROVE k \in starts /\ k \notin refused
      <4>1. k \in Nat /\ t \in Nat /\ k < t /\ k \in 0 .. k0 BY <1>2, <3>3
      <4> PICK u, v : u = FrameAt(k) /\ v = FrameAt(t) OBVIOUS
      <4>2. u \in Nat /\ u + m <= v BY <1>1, <4>1, AtIs
      <4>3. u < n BY <1>1, <3>3, <3>4, <4>2
      <4>4. k \in starts BY <4>1, <4>3
      <4>5. k \notin refused
        <5> HIDE DEF refused
        <5> QED BY <3>2, <4>1
      <4> QED BY <4>4, <4>5
    <3>6. FrameAt(t) <= n BY <1>1, <3>3, <3>4
    <3> HIDE DEF refused, starts, cut
    <3> QED BY <3>3, <3>4, <3>5, <3>6
  <2> QED BY <2>1, <2>2
<1>7. ASSUME NEW g \in frames PROVE WellFormed(g.bytes) /\ \A b \in Range(g.bytes) : cap[b] <= g.stamp
  <2>1. PICK k \in 0 .. cut - 1 : g = [bytes |-> SubSeq(buf, FrameAt(k) + 1, FrameAt(k + 1)), stamp |-> stamp]
    OBVIOUS
  <2>2. k \in Nat /\ k < cut /\ cut \in Nat /\ k \in starts /\ k \notin refused
    <3> HIDE DEF cut, starts, refused
    <3> QED BY <1>2, <1>6
  <2> PICK u : u = FrameAt(k) OBVIOUS
  <2>3. u \in Nat /\ u + m <= n /\ FrameAt(k + 1) = u + m
    <3> PICK t : t = cut OBVIOUS
    <3> PICK v : v = FrameAt(t) OBVIOUS
    <3>1. t \in Nat /\ k < t BY <2>2
    <3>2. u \in Nat /\ u + m <= v /\ FrameAt(k + 1) = u + m BY <1>1, <2>2, <3>1, AtIs
    <3>3. v \in Nat /\ v <= n BY <1>6
    <3> HIDE DEF cut
    <3> QED BY <1>1, <3>2, <3>3
  <2>4. g.bytes = Payload(c, a + u, m)
    <3>1. g.bytes = SubSeq(buf, u + 1, u + m) BY <2>1, <2>3
    <3>2. u \in 0 .. n /\ u + m \in u .. n /\ (u + m) - u = m BY <1>1, <2>3
    <3> PICK v : v = u + m OBVIOUS
    <3>3. SubSeq(Payload(c, a, n), u + 1, v) = Payload(c, a + u, v - u)
      <4>1. a \in Nat /\ n \in Nat /\ u \in 0 .. n /\ v \in u .. n BY <1>1, <3>2
      <4> QED BY ONLY <4>1, PartOf
    <3> QED BY <1>b, <3>1, <3>2, <3>3, Zenon
  <2>5. ~IsRefused(Byte(c, a + u))
    <3>1. ~IsRefused(buf[u + 1]) BY <2>2
    <3>2. u + 1 \in 1 .. n /\ a + (u + 1) - 1 = a + u BY <1>1, <2>3
    <3>3. buf[u + 1] = Byte(c, a + (u + 1) - 1) BY <1>4, <3>2
    <3> QED BY <3>1, <3>2, <3>3
  <2>6. AtBoundary(a + u) BY <1>1, <2>2, BoundaryOn
  <2>7. a + u \in Nat BY <1>1, <2>3
  <2>8. WellFormed(g.bytes) BY <2>4, <2>5, <2>6, <2>7, WholeFrame
  <2>9. Range(g.bytes) \subseteq Range(buf)
    <3>1. a <= a + u /\ (a + u) + m <= a + n BY <1>1, <2>3
    <3> QED BY <1>1, <2>4, <2>7, <3>1, PartHolds
  <2>10. g.stamp = stamp BY <2>1
  <2> QED BY <2>8, <2>9, <2>10
<1>8. FramesTrue(f.frames \cup frames, cap)
  <2> HIDE DEF frames
  <2> QED BY <1>7 DEF FramesTrue
<1>9. CASE refused = {}
  <2> PICK u : u = FrameAt(cut) OBVIOUS
  <2>1. u \in Nat /\ u <= n
    <3> HIDE DEF cut
    <3> QED BY <1>6
  <2>2. rest = Payload(c, a + u, n - u)
    <3>1. rest = Skip(buf, u) BY <1>9
    <3>2. Skip(Payload(c, a, n), u) = IF u <= n THEN Payload(c, a + u, n - u) ELSE <<>>
      BY ONLY <1>1, <2>1, SkipIs
    <3> QED BY <1>b, <2>1, <3>1, <3>2, Zenon
  <2>3. n - u \in 0 .. pos /\ pos - (n - u) = a + u /\ n - u \in Nat /\ a + u \in Nat BY <1>1, <2>1
  <2>4. AtBoundary(a + u)
    <3> PICK t : t = cut OBVIOUS
    <3>1. t \in Nat /\ u = FrameAt(t)
      <4> HIDE DEF cut
      <4> QED BY <1>2, <1>6
    <3> QED BY <1>1, <3>1, BoundaryOn
  <2>5. Range(rest) \subseteq Range(buf)
    <3>1. a <= a + u /\ (a + u) + (n - u) <= a + n BY <1>1, <2>1
    <3> PICK p, l : p = a + u /\ l = n - u OBVIOUS
    <3>2. p \in Nat /\ l \in Nat /\ a <= p /\ p + l <= a + n BY <2>3, <3>1
    <3>3. Range(Payload(c, p, l)) \subseteq Range(Payload(c, a, n)) BY ONLY <1>1, <3>2, PartHolds
    <3> HIDE DEF rest
    <3> QED BY <1>b, <2>2, <3>3, Zenon
  <2> PICK e : e = ConsumeFrames(buf, stamp, f) OBVIOUS
  <2> HIDE DEF rest, frames, refused, cut, starts
  <2>6. e.buf = rest /\ e.synced = TRUE /\ e.frames = f.frames \cup frames
    <3>1. e.buf = rest /\ e.frames = f.frames \cup frames BY <1>5
    <3>2. e.synced = (refused = {}) BY <1>5
    <3>3. e.synced = TRUE BY <1>9, <3>2, Zenon
    <3> QED BY <3>1, <3>3
  <2>7. \E l \in 0 .. pos : e.buf = Payload(c, pos - l, l) /\ (e.synced => AtBoundary(pos - l))
    BY <2>2, <2>3, <2>4, <2>6
  <2>8. \A b \in Range(e.buf) : b \in DOMAIN cap BY <2>5, <2>6
  <2>9. e = [buf |-> e.buf, synced |-> e.synced, frames |-> e.frames]
    BY <1>5
  <2> QED BY <1>8, <2>6, <2>7, <2>8, <2>9 DEF FlowTrue
<1>10. CASE refused # {}
  <2> PICK e : e = ConsumeFrames(buf, stamp, f) OBVIOUS
  <2>0. rest = <<>> BY <1>10
  <2> HIDE DEF rest, frames, refused, cut, starts
  <2>1. e.buf = <<>> /\ e.synced = FALSE /\ e.frames = f.frames \cup frames
    <3>1. e.buf = rest /\ e.frames = f.frames \cup frames BY <1>5
    <3>2. e.synced = (refused = {}) BY <1>5
    <3>3. e.synced = FALSE BY <1>10, <3>2, Zenon
    <3> QED BY <2>0, <3>1, <3>3
  <2>2. <<>> = Payload(c, pos - 0, 0)
    <3>1. pos - 0 = pos OBVIOUS
    <3> QED BY <3>1, NoPiece
  <2>3. Range(<<>>) = {} BY DEF Range
  <2>4. \E l \in 0 .. pos : e.buf = Payload(c, pos - l, l) /\ (e.synced => AtBoundary(pos - l))
    <3>1. 0 \in 0 .. pos BY <1>1
    <3> QED BY <2>1, <2>2, <3>1
  <2>5. e = [buf |-> e.buf, synced |-> e.synced, frames |-> e.frames]
    BY <1>5
  <2> QED BY <1>8, <2>1, <2>3, <2>4, <2>5 DEF FlowTrue
<1> QED BY <1>9, <1>10

-----------------------------------------------------------------------------
(* After a Reset the flow holds nothing, and stands anywhere. *)
LEMMA AfterReset ==
    ASSUME NEW f, NEW cap, FramesTrue(f.frames, cap), NEW c, NEW pos \in Nat
    PROVE  FlowTrue(AfterDelivery(f, Reset), c, pos, cap) /\ AfterDelivery(f, Reset).buf = <<>>
<1> PICK e : e = AfterDelivery(f, Reset) OBVIOUS
<1>1. e = [buf |-> <<>>, synced |-> FALSE, frames |-> f.frames] BY DEF AfterDelivery, Reset
<1>2. e.buf = <<>> /\ e.synced = FALSE /\ e.frames = f.frames BY <1>1
<1>3. \E l \in 0 .. pos : e.buf = Payload(c, pos - l, l) /\ (e.synced => AtBoundary(pos - l))
  <2>1. pos - 0 = pos /\ 0 \in 0 .. pos OBVIOUS
  <2>2. Payload(c, pos, 0) = <<>> BY NoPiece
  <2> QED BY <1>2, <2>1, <2>2
<1>4. Range(<<>>) = {} BY DEF Range
<1> QED BY <1>1, <1>2, <1>3, <1>4 DEF FlowTrue

(* Where a run of good frames begins, a frame begins. *)
LEMMA FoundBoundary ==
    ASSUME NEW c, NEW a \in Nat, NEW n \in Nat, NEW buf, buf = Payload(c, a, n),
           Boundaries(buf) # {}
    PROVE  Resync(buf) \in 0 .. n /\ AtBoundary(a + Resync(buf))
<1> PICK m \in Nat \ {0}, R \in Nat \ {0} : m = FrameLen /\ R = ResyncFrames BY FrameSize
<1>1. Len(buf) = n BY PayloadIs
<1> PICK u : u = R * m OBVIOUS
<1>2. u \in Nat /\ m <= u
  <2>1. R \in Nat /\ m \in Nat /\ R - 1 \in Nat /\ (R - 1) + 1 = R OBVIOUS
  <2>2. (R - 1) * m \in Nat /\ ((R - 1) + 1) * m = (R - 1) * m + m BY <2>1, Steps
  <2> PICK v : v = (R - 1) * m OBVIOUS
  <2>3. v \in Nat /\ u = v + m BY <2>1, <2>2
  <2> QED BY <2>3
<1>3. \A o \in Boundaries(buf) : o \in 0 .. n - u /\ WellFormed(SubSeq(buf, o + 1, o + m))
  <2> SUFFICES ASSUME NEW o \in Boundaries(buf)
               PROVE  o \in 0 .. n - u /\ WellFormed(SubSeq(buf, o + 1, o + m))
    OBVIOUS
  <2>1. /\ o \in 0 .. n - u
        /\ \A k \in 0 .. R - 1 : WellFormed(SubSeq(buf, o + k * m + 1, o + (k + 1) * m))
    BY <1>1 DEF Boundaries
  <2>2. 0 \in 0 .. R - 1 OBVIOUS
  <2>3. WellFormed(SubSeq(buf, o + 0 * m + 1, o + (0 + 1) * m)) BY <2>1, <2>2
  <2>4. o + 0 * m + 1 = o + 1 /\ o + (0 + 1) * m = o + m BY <2>1
  <2> QED BY <2>1, <2>3, <2>4
<1> PICK o : o = Resync(buf) OBVIOUS
<1>4. o \in Boundaries(buf)
  <2>1. Boundaries(buf) \subseteq Nat
    <3>1. \A x \in Boundaries(buf) : x \in 0 .. n - u BY <1>3
    <3> QED BY <3>1
  <2> QED BY <2>1, LeastIs DEF Resync
<1>5. o \in 0 .. n /\ o + m \in o .. n /\ o \in Nat /\ (o + m) - o = m BY <1>2, <1>3, <1>4
<1>6. SubSeq(buf, o + 1, o + m) = Payload(c, a + o, m)
  <2> PICK v : v = o + m OBVIOUS
  <2>1. a \in Nat /\ n \in Nat /\ o \in 0 .. n /\ v \in o .. n BY <1>5
  <2>2. SubSeq(Payload(c, a, n), o + 1, v) = Payload(c, a + o, v - o) BY ONLY <2>1, PartOf
  <2> QED BY <1>5, <2>2, Zenon
<1>7. IsHeader(Payload(c, a + o, m)[1]) BY <1>3, <1>4, <1>6 DEF WellFormed
<1>8. Payload(c, a + o, m)[1] = Byte(c, a + o)
  <2>1. a + o \in Nat /\ m \in Nat /\ 1 \in 1 .. m /\ (a + o) + 1 - 1 = a + o BY <1>5
  <2> PICK p : p = a + o OBVIOUS
  <2>3. p \in Nat /\ m \in Nat BY <2>1
  <2>4. \A i \in 1 .. m : Payload(c, p, m)[i] = Byte(c, p + i - 1) BY ONLY <2>3, PayloadIs
  <2>2. Payload(c, a + o, m)[1] = Byte(c, (a + o) + 1 - 1) BY <2>1, <2>4
  <2> QED BY <2>1, <2>2, Zenon
<1>9. Byte(c, a + o)[2] = a + o BY DEF Byte
<1>10. AtBoundary(a + o) BY <1>7, <1>8, <1>9, Zenon DEF IsHeader, AtBoundary
<1> QED BY <1>5, <1>10

(* What an unsynced flow keeps is the end of what it had. *)
LEMMA KeptEnd ==
    ASSUME NEW c, NEW a \in Nat, NEW n \in Nat, NEW buf, buf = Payload(c, a, n)
    PROVE  \E k \in 0 .. n : Tail2(buf) = Payload(c, a + k, n - k)
<1>1. Len(buf) = n /\ KeepBytes \in Nat BY PayloadIs, Caps
<1>2. CASE n > KeepBytes
  <2> PICK k : k = n - KeepBytes OBVIOUS
  <2>1. k \in 0 .. n /\ k \in Nat /\ k <= n BY <1>1, <1>2
  <2>2. Tail2(buf) = Skip(buf, k) BY <1>1, <1>2 DEF Tail2
  <2>3. Skip(buf, k) = Payload(c, a + k, n - k) BY <2>1, SkipIs
  <2> QED BY <2>1, <2>2, <2>3
<1>3. CASE ~(n > KeepBytes)
  <2>1. Tail2(buf) = Payload(c, a, n) BY <1>1, <1>3 DEF Tail2
  <2>2. 0 \in 0 .. n /\ a + 0 = a /\ n - 0 = n OBVIOUS
  <2> QED BY <2>1, <2>2
<1> QED BY <1>2, <1>3

(* After bytes the flow stands behind them. *)
LEMMA AfterBytes ==
    ASSUME NEW f, NEW cap, NEW c, NEW pos \in Nat, NEW m \in Nat, NEW wall,
           FlowTrue(f, c, pos, cap), \A b \in Range(f.buf) : cap[b] <= wall,
           \A b \in Range(Payload(c, pos, m)) : b \in DOMAIN cap /\ cap[b] <= wall
    PROVE  FlowTrue(AfterDelivery(f, Delivered(Payload(c, pos, m), wall)), c, pos + m, cap)
<1> PICK d : d = Delivered(Payload(c, pos, m), wall) OBVIOUS
<1>1. d.reset = FALSE /\ d.bytes = Payload(c, pos, m) /\ d.wall = wall BY DEF Delivered
<1>2. /\ f = [buf |-> f.buf, synced |-> f.synced, frames |-> f.frames] /\ f.synced \in BOOLEAN
      /\ FramesTrue(f.frames, cap) /\ \A b \in Range(f.buf) : b \in DOMAIN cap
  BY DEF FlowTrue
<1>3. PICK n \in 0 .. pos : f.buf = Payload(c, pos - n, n) /\ (f.synced => AtBoundary(pos - n))
  BY DEF FlowTrue
<1> PICK a, l, to : a = pos - n /\ l = n + m /\ to = pos + m OBVIOUS
<1>4. a \in Nat /\ n \in Nat /\ l \in Nat /\ to \in Nat /\ a + n = pos /\ to - l = a /\ l \in 0 .. to
      /\ to = a + l
  OBVIOUS
<1> PICK buf : buf = f.buf \o d.bytes OBVIOUS
<1>5. buf = Payload(c, a, l)
  <2>1. Payload(c, a, n) \o Payload(c, a + n, m) = Payload(c, a, n + m)
    <3>1. a \in Nat /\ n \in Nat /\ m \in Nat BY <1>4
    <3> QED BY <3>1, PayloadsJoin, ZenonT(30)
  <2> QED BY <1>1, <1>3, <1>4, <2>1, Zenon
<1>6. \A b \in Range(buf) : b \in DOMAIN cap /\ cap[b] <= wall
  <2>1. Range(Payload(c, a, n + m)) = Range(Payload(c, a, n)) \cup Range(Payload(c, a + n, m))
    BY ONLY <1>4, m \in Nat, JoinedHolds
  <2>2. Range(buf) = Range(f.buf) \cup Range(Payload(c, pos, m)) BY <1>3, <1>4, <1>5, <2>1, Zenon
  <2> QED BY <1>2, <2>2
<1> PICK e : e = AfterDelivery(f, d) OBVIOUS
<1>7. CASE f.synced
  <2>1. e = ConsumeFrames(buf, wall, f) BY <1>1, <1>7 DEF AfterDelivery
  <2>2. AtBoundary(to - l) BY <1>3, <1>4, <1>7, Zenon
  <2>3. buf = Payload(c, to - l, l) BY <1>4, <1>5, Zenon
  <2> QED BY <1>2, <1>4, <1>6, <2>1, <2>2, <2>3, Consumed
<1>8. CASE ~f.synced /\ Boundaries(buf) # {}
  <2> PICK o, rest : o = Resync(buf) /\ rest = Skip(buf, o) OBVIOUS
  <2>1. e = ConsumeFrames(rest, wall, f) BY <1>1, <1>8 DEF AfterDelivery
  <2>2. o \in 0 .. l /\ AtBoundary(a + o) BY <1>4, <1>5, <1>8, FoundBoundary
  <2> PICK j, g : j = l - o /\ g = a + o OBVIOUS
  <2>3. j \in 0 .. to /\ to - j = g /\ j \in Nat /\ g \in Nat /\ o \in Nat /\ o <= l /\ a <= g
        /\ g + j <= a + l
    <3>1. o \in 0 .. l /\ j = l - o /\ g = a + o BY <2>2
    <3> QED BY ONLY <1>4, <3>1, pos \in Nat, m \in Nat
  <2>4. rest = Payload(c, g, j)
    <3>1. Skip(Payload(c, a, l), o) = IF o <= l THEN Payload(c, a + o, l - o) ELSE <<>>
      BY ONLY <1>4, <2>3, SkipIs
    <3> QED BY <1>5, <2>3, <3>1, Zenon
  <2>5. Range(rest) \subseteq Range(buf)
    <3>1. Range(Payload(c, g, j)) \subseteq Range(Payload(c, a, l)) BY ONLY <1>4, <2>3, PartHolds
    <3> QED BY <1>5, <2>4, <3>1, Zenon
  <2>6. \A b \in Range(rest) : b \in DOMAIN cap /\ cap[b] <= wall BY <1>6, <2>5
  <2>7. AtBoundary(to - j) /\ rest = Payload(c, to - j, j) BY <2>2, <2>3, <2>4, Zenon
  <2>8. FramesTrue(f.frames, cap) BY <1>2
  <2>9. to \in Nat /\ j \in 0 .. to BY <1>4, <2>3
  <2>10. FlowTrue(ConsumeFrames(rest, wall, f), c, to, cap)
    BY ONLY <2>6, <2>7, <2>8, <2>9, Consumed
  <2> QED BY <2>1, <2>10, Zenon
<1>9. CASE ~f.synced /\ Boundaries(buf) = {}
  <2>1. e = [f EXCEPT !.buf = Tail2(buf)] BY <1>1, <1>9 DEF AfterDelivery
  <2>2. e = [buf |-> Tail2(buf), synced |-> f.synced, frames |-> f.frames] BY <1>2, <2>1
  <2>3. e.buf = Tail2(buf) /\ e.synced = f.synced /\ e.frames = f.frames BY <2>2
  <2>4. PICK k \in 0 .. l : Tail2(buf) = Payload(c, a + k, l - k) BY <1>4, <1>5, KeptEnd
  <2> PICK j, g : j = l - k /\ g = a + k OBVIOUS
  <2>5. j \in 0 .. to /\ to - j = g /\ j \in Nat /\ g \in Nat /\ a <= g /\ g + j <= a + l BY <1>4
  <2>6. e.buf = Payload(c, to - j, j) BY <2>3, <2>4, <2>5, Zenon
  <2>7. Range(e.buf) \subseteq Range(buf)
    <3>1. Range(Payload(c, g, j)) \subseteq Range(Payload(c, a, l)) BY ONLY <1>4, <2>5, PartHolds
    <3> QED BY <1>5, <2>5, <2>6, <3>1, Zenon
  <2>8. \A b \in Range(e.buf) : b \in DOMAIN cap BY <1>6, <2>7
  <2>9. \E x \in 0 .. to : e.buf = Payload(c, to - x, x) /\ (e.synced => AtBoundary(to - x))
    BY <1>9, <2>3, <2>5, <2>6
  <2>10. e.synced \in BOOLEAN BY <1>2, <2>3, Zenon
  <2>11. FramesTrue(e.frames, cap) BY <1>2, <2>3
  <2>12. e = [buf |-> e.buf, synced |-> e.synced, frames |-> e.frames] BY <2>2
  <2> QED BY <2>8, <2>9, <2>10, <2>11, <2>12, Zenon DEF FlowTrue
<1>10. FlowTrue(e, c, to, cap) BY <1>2, <1>7, <1>8, <1>9
<1> QED BY <1>10

-----------------------------------------------------------------------------
(* Segments held. *)

\* p is a piece of connection c that starts with sequence number s, and less than half of the
\* sequence space lies between position lo and its end.
IsHeld(p, s, c, cap, lo) ==
    \E f \in 0 .. StreamLen, n \in 1 .. StreamLen :
        /\ f + n <= StreamLen /\ lo <= f /\ f + n - lo < HalfSpace
        /\ s = SeqNo(Byte(c, f)) /\ p.bytes = Payload(c, f, n)
        /\ p.wall \in Nat /\ \A b \in Range(p.bytes) : b \in DOMAIN cap /\ cap[b] <= p.wall

\* What they hold is within the count, and the count within its cap.
Sizes(pending) == [s \in DOMAIN pending |-> Len(pending[s].bytes)]
Keeps(pending, count, c, cap, lo) ==
    /\ \A s \in DOMAIN pending : IsHeld(pending[s], s, c, cap, lo)
    /\ IsFiniteSet(DOMAIN pending)
    /\ count \in 0 .. MaxPendingBytes
    /\ Total(Sizes(pending), DOMAIN pending) <= count

LEMMA SizesAre ==
    ASSUME NEW pending, NEW c \in DOMAIN Isn, NEW cap, NEW lo,
           \A s \in DOMAIN pending : IsHeld(pending[s], s, c, cap, lo)
    PROVE  \A s \in DOMAIN pending : /\ Sizes(pending)[s] = Len(pending[s].bytes)
                                     /\ Len(pending[s].bytes) \in Nat /\ s \in Nat
<1> SUFFICES ASSUME NEW s \in DOMAIN pending
             PROVE  /\ Sizes(pending)[s] = Len(pending[s].bytes)
                    /\ Len(pending[s].bytes) \in Nat /\ s \in Nat
  OBVIOUS
<1>1. PICK f \in 0 .. StreamLen, n \in 1 .. StreamLen :
        s = SeqNo(Byte(c, f)) /\ pending[s].bytes = Payload(c, f, n)
  BY DEF IsHeld
<1>2. f \in Nat /\ n \in Nat BY Space
<1>3. Len(pending[s].bytes) = n
  <2>1. Len(Payload(c, f, n)) = n BY ONLY <1>2, PayloadIs
  <2> QED BY <1>1, <2>1, Zenon
<1>4. s \in Nat
  <2>0. 0 \in Int /\ f + 0 >= 0 BY <1>2
  <2>1. SeqNo(Byte(c, f)) \in 0 .. SeqSpace - 1 BY <1>2, <2>0, NumberOn
  <2> QED BY <1>1, <2>1
<1>5. Sizes(pending)[s] = Len(pending[s].bytes) BY DEF Sizes
<1> QED BY <1>2, <1>3, <1>4, <1>5

(* Nothing held is kept well. *)
LEMMA KeepsNone ==
    ASSUME NEW c \in DOMAIN Isn, NEW cap, NEW lo PROVE Keeps(Cleared.pending, 0, c, cap, lo)
<1>1. Cleared.pending = [s \in {} |-> 0] BY DEF Cleared
<1>2. DOMAIN Cleared.pending = {} BY <1>1
<1>3. Total(Sizes(Cleared.pending), {}) = 0 BY TotalOfNothing
<1>4. MaxPendingBytes \in Nat BY Caps
<1>5. IsFiniteSet({}) BY FS_EmptySet
<1> QED BY <1>2, <1>3, <1>4, <1>5 DEF Keeps

(* Letting one go takes its bytes off the count. *)
LEMMA KeepsLess ==
    ASSUME NEW pending, NEW count, NEW c \in DOMAIN Isn, NEW cap, NEW lo,
           Keeps(pending, count, c, cap, lo),
           NEW s \in DOMAIN pending, NEW less, less = Restrict(pending, DOMAIN pending \ {s})
    PROVE  /\ Keeps(less, count - Len(pending[s].bytes), c, cap, lo)
           /\ DOMAIN less = DOMAIN pending \ {s}
           /\ Cardinality(DOMAIN less) < Cardinality(DOMAIN pending)
           /\ \A t \in DOMAIN less : less[t] = pending[t]
<1> PICK D : D = DOMAIN pending OBVIOUS
<1>1. DOMAIN less = D \ {s} /\ \A t \in D \ {s} : less[t] = pending[t] BY DEF Restrict
<1>2. \A t \in D : IsHeld(pending[t], t, c, cap, lo) BY DEF Keeps
<1>3. /\ IsFiniteSet(D) /\ count \in 0 .. MaxPendingBytes /\ Total(Sizes(pending), D) <= count
  BY DEF Keeps
<1>4. IsFiniteSet(D \ {s}) /\ Cardinality(D \ {s}) < Cardinality(D) BY <1>3, TakeOut
<1> PICK z, y : z = Sizes(pending) /\ y = Sizes(less) OBVIOUS
<1>5. \A t \in D : z[t] = Len(pending[t].bytes) /\ z[t] \in Nat
  BY <1>2, SizesAre
<1>6. \A t \in D \ {s} : z[t] = y[t] BY <1>1, <1>5 DEF Sizes
<1>7. Total(z, D \ {s}) = Total(y, D \ {s}) BY ONLY <1>4, <1>6, TotalsAgree
<1>8. Total(z, D) = z[s] + Total(z, D \ {s}) BY <1>3, <1>5, TotalTakesOut
<1>9. Total(z, D \ {s}) \in Nat BY <1>4, <1>5, TotalIsNatural
<1> PICK a, b, l \in Nat : a = Total(z, D \ {s}) /\ b = MaxPendingBytes /\ l = Len(pending[s].bytes)
  <2>1. MaxPendingBytes \in Nat BY Caps
  <2>2. Len(pending[s].bytes) \in Nat BY <1>5
  <2> QED BY <1>9, <2>1, <2>2
<1>10. l + a <= count /\ count \in 0 .. b BY <1>3, <1>5, <1>8
<1>11. count - l \in 0 .. b /\ a <= count - l BY ONLY <1>10, l \in Nat, a \in Nat, b \in Nat
<1>12. Keeps(less, count - l, c, cap, lo)
  <2>1. \A t \in DOMAIN less : IsHeld(less[t], t, c, cap, lo) BY <1>1, <1>2
  <2>2. Total(y, DOMAIN less) <= count - l BY <1>1, <1>7, <1>11
  <2> QED BY <1>1, <1>4, <1>11, <2>1, <2>2 DEF Keeps
<1> QED BY <1>1, <1>4, <1>12

(* Holding one more puts its bytes on the count. *)
With(pending, s, p) == [t \in DOMAIN pending \cup {s} |-> IF t = s THEN p ELSE pending[t]]
Grows(count, p, total) == total = count + Len(p.bytes) /\ total <= MaxPendingBytes

LEMMA KeepsMore ==
    ASSUME NEW pending, NEW count, NEW c \in DOMAIN Isn, NEW cap, NEW lo,
           Keeps(pending, count, c, cap, lo),
           NEW s, NEW p, IsHeld(p, s, c, cap, lo), s \notin DOMAIN pending,
           NEW total, Grows(count, p, total)
    PROVE  Keeps(With(pending, s, p), total, c, cap, lo)
<1> PICK more : more = With(pending, s, p) OBVIOUS
<1> PICK D : D = DOMAIN pending OBVIOUS
<1>1. DOMAIN more = D \cup {s} /\ more[s] = p /\ \A t \in D : more[t] = pending[t]
  BY DEF With
<1>2. \A t \in D : IsHeld(pending[t], t, c, cap, lo) BY DEF Keeps
<1>3. /\ IsFiniteSet(D) /\ count \in 0 .. MaxPendingBytes /\ Total(Sizes(pending), D) <= count
  BY DEF Keeps
<1>4. \A t \in DOMAIN more : IsHeld(more[t], t, c, cap, lo) BY <1>1, <1>2
<1>5. IsFiniteSet(D \cup {s}) BY <1>3, FS_AddElement
<1> PICK z, y : z = Sizes(pending) /\ y = Sizes(more) OBVIOUS
<1>6. \A t \in D : z[t] = Len(pending[t].bytes) /\ z[t] \in Nat BY <1>2, SizesAre
<1>7. \A t \in D \cup {s} : y[t] = Len(more[t].bytes) /\ y[t] \in Nat
  <2>1. \A t \in DOMAIN more : Sizes(more)[t] = Len(more[t].bytes) /\ Len(more[t].bytes) \in Nat
    BY <1>4, SizesAre
  <2> QED BY <1>1, <2>1
<1>8. \A t \in D : z[t] = y[t]
  <2> TAKE t \in D
  <2>1. z[t] = Len(pending[t].bytes) /\ y[t] = Len(more[t].bytes) /\ more[t] = pending[t]
    BY <1>1, <1>6, <1>7
  <2> QED BY <2>1, Zenon
<1>9. Total(z, D) = Total(y, D) BY ONLY <1>3, <1>8, TotalsAgree
<1>10. Total(y, D \cup {s}) = Total(y, D) + y[s]
  <2>1. \A t \in D : y[t] \in Nat BY <1>7
  <2>2. y[s] \in Nat BY <1>7
  <2> QED BY <1>3, <2>1, <2>2, TotalPutsIn
<1>11. y[s] = Len(p.bytes) /\ y[s] \in Nat /\ Total(z, D) \in Nat
  <2>1. Total(z, D) \in Nat BY <1>3, <1>6, TotalIsNatural
  <2> QED BY <1>1, <1>7, <2>1
<1> PICK a, b, l \in Nat : a = Total(z, D) /\ b = MaxPendingBytes /\ l = Len(p.bytes)
  BY <1>11, Caps
<1>12. count \in 0 .. b /\ a <= count /\ total = count + l /\ total <= b BY <1>3 DEF Grows
<1>13. total \in 0 .. b /\ a + l <= total BY ONLY <1>12, l \in Nat, a \in Nat, b \in Nat
<1>14. Total(y, D \cup {s}) <= total BY <1>9, <1>10, <1>11, <1>13
<1> QED BY <1>1, <1>4, <1>5, <1>13, <1>14 DEF Keeps

(* What is held ahead of one position is held ahead of a later one that nothing held lies before. *)
LEMMA KeepsFrom ==
    ASSUME NEW pending, NEW count, NEW c \in DOMAIN Isn, NEW cap, NEW lo \in Nat, NEW to \in Nat,
           lo <= to, Keeps(pending, count, c, cap, lo),
           \A s \in DOMAIN pending, f \in Nat :
               s = SeqNo(Byte(c, f)) /\ lo <= f /\ f - lo < HalfSpace => to <= f
    PROVE  Keeps(pending, count, c, cap, to)
<1>1. HalfSpace \in Nat /\ StreamLen \in Nat BY Space
<1>2. ASSUME NEW s \in DOMAIN pending PROVE IsHeld(pending[s], s, c, cap, to)
  <2>1. IsHeld(pending[s], s, c, cap, lo) BY DEF Keeps
  <2>2. PICK f \in 0 .. StreamLen, n \in 1 .. StreamLen :
          /\ f + n <= StreamLen /\ lo <= f /\ f + n - lo < HalfSpace
          /\ s = SeqNo(Byte(c, f)) /\ pending[s].bytes = Payload(c, f, n)
          /\ pending[s].wall \in Nat
          /\ \A b \in Range(pending[s].bytes) : b \in DOMAIN cap /\ cap[b] <= pending[s].wall
    BY <2>1 DEF IsHeld
  <2>3. f \in Nat /\ n \in Nat /\ f - lo < HalfSpace BY <1>1, <2>2
  <2>4. to <= f BY <2>2, <2>3
  <2>5. f + n - to < HalfSpace BY <1>1, <2>2, <2>3
  <2> QED BY <2>2, <2>4, <2>5 DEF IsHeld
<1> QED BY <1>2 DEF Keeps

-----------------------------------------------------------------------------
(* Handing on. *)

Ready(w)    == {s \in DOMAIN w.pending : SeqDiff(s, w.next) <= 0}
IsTimes(cap) == \A b \in DOMAIN cap : cap[b] \in Nat

\* Bytes p0 and on of connection c are in hand, no earlier than wall, and out went before.
InHand(x, c, p0, wall, cap, out) ==
    /\ x.w = [next |-> x.w.next, pending |-> x.w.pending, count |-> x.w.count, out |-> out]
    /\ \E m \in 1 .. StreamLen :
        /\ p0 + m <= StreamLen /\ m < HalfSpace /\ x.w.next = SeqNo(Byte(c, p0 + m))
        /\ x.data = Delivered(Payload(c, p0, m), x.data.wall)
        /\ \A b \in Range(Payload(c, p0, m)) : b \in DOMAIN cap /\ cap[b] <= x.data.wall
    /\ x.data.wall \in Nat /\ wall <= x.data.wall
    /\ Keeps(x.w.pending, x.w.count, c, cap, p0)

(* What lies behind the next byte of a held segment follows the bytes in hand. *)
LEMMA More ==
    ASSUME NEW c \in DOMAIN Isn, NEW f \in 0 .. StreamLen, NEW n \in 1 .. StreamLen,
           f + n <= StreamLen, NEW pos \in 0 .. StreamLen, f <= pos, pos - f < HalfSpace
    PROVE  \E l \in 0 .. StreamLen :
             /\ Skip(Payload(c, f, n), SeqDiff(SeqNo(Byte(c, pos)), SeqNo(Byte(c, f)))) = Payload(c, pos, l)
             /\ pos + l <= StreamLen /\ (l # 0 => pos + l = f + n)
<1> PICK k : k = pos - f OBVIOUS
<1>1. StreamLen \in Nat /\ HalfSpace \in Nat /\ 1 < HalfSpace BY Space
<1>2. k \in Nat /\ f \in Nat /\ n \in Nat /\ pos \in Nat /\ f + k = pos BY <1>1
<1>3. SeqDiff(SeqNo(Byte(c, pos)), SeqNo(Byte(c, f))) = k
  <2>1. pos - f < HalfSpace /\ f - pos < HalfSpace BY <1>1, <1>2
  <2> QED BY <1>2, <2>1, SeqDistance
<1>4. Skip(Payload(c, f, n), k) = IF k <= n THEN Payload(c, f + k, n - k) ELSE <<>>
  BY ONLY <1>2, SkipIs
<1>5. CASE k <= n
  <2> PICK l : l = n - k OBVIOUS
  <2>1. l \in 0 .. StreamLen /\ pos + l = f + n BY <1>1, <1>2, <1>5
  <2> QED BY <1>2, <1>3, <1>4, <1>5, <2>1
<1>6. CASE ~(k <= n)
  <2>1. Payload(c, pos, 0) = <<>> BY <1>2, NoPiece
  <2>2. 0 \in 0 .. StreamLen /\ pos + 0 <= StreamLen BY <1>1
  <2> QED BY <1>3, <1>4, <1>6, <2>1, <2>2
<1> QED BY <1>5, <1>6

(* One held segment that starts at or before the next byte goes behind the bytes in hand. *)
LEMMA PullOneKeeps ==
    ASSUME NEW c \in DOMAIN Isn, NEW p0 \in Nat, NEW wall \in Nat, NEW cap, IsTimes(cap), NEW out,
           NEW x, InHand(x, c, p0, wall, cap, out)
    PROVE  /\ InHand(PullOne(x), c, p0, wall, cap, out)
           /\ IF Ready(x.w) = {} THEN PullOne(x) = x
              ELSE Cardinality(DOMAIN PullOne(x).w.pending) < Cardinality(DOMAIN x.w.pending)
<1>1. PICK m \in 1 .. StreamLen :
        /\ p0 + m <= StreamLen /\ m < HalfSpace /\ x.w.next = SeqNo(Byte(c, p0 + m))
        /\ x.data = Delivered(Payload(c, p0, m), x.data.wall)
        /\ \A b \in Range(Payload(c, p0, m)) : b \in DOMAIN cap /\ cap[b] <= x.data.wall
  BY DEF InHand
<1>2. /\ x.w = [next |-> x.w.next, pending |-> x.w.pending, count |-> x.w.count, out |-> out]
      /\ x.data.wall \in Nat /\ wall <= x.data.wall
      /\ Keeps(x.w.pending, x.w.count, c, cap, p0)
  BY DEF InHand
<1>3. CASE Ready(x.w) = {}
  <2>1. PullOne(x) = x BY <1>3 DEF PullOne, Ready
  <2> QED BY <1>3, <2>1
<1>4. CASE Ready(x.w) # {}
  <2> PICK s, P : s = Min(Ready(x.w)) /\ P = x.w.pending OBVIOUS
  <2>1. \A t \in DOMAIN P : IsHeld(P[t], t, c, cap, p0) BY <1>2 DEF Keeps
  <2>2. s \in Ready(x.w)
    <3>1. Ready(x.w) \subseteq Nat
      <4>1. \A t \in DOMAIN P : t \in Nat BY <2>1, SizesAre
      <4> QED BY <4>1 DEF Ready
    <3> QED BY <1>4, <3>1, LeastIs
  <2>3. s \in DOMAIN P /\ SeqDiff(s, x.w.next) <= 0 BY <2>2 DEF Ready
  <2>4. PICK f \in 0 .. StreamLen, n \in 1 .. StreamLen :
          /\ f + n <= StreamLen /\ p0 <= f /\ f + n - p0 < HalfSpace /\ s = SeqNo(Byte(c, f)) /\ P[s].bytes = Payload(c, f, n)
          /\ P[s].wall \in Nat /\ \A b \in Range(P[s].bytes) : b \in DOMAIN cap /\ cap[b] <= P[s].wall
    BY <2>1, <2>3 DEF IsHeld
  <2> PICK pos : pos = p0 + m OBVIOUS
  <2>5. StreamLen \in Nat /\ pos \in 0 .. StreamLen /\ m \in Nat /\ pos \in Nat /\ m < HalfSpace /\ HalfSpace \in Nat
    BY <1>1, Space
  <2>6. f <= pos
    <3>3. f \in Nat /\ f - pos < HalfSpace /\ pos - f < HalfSpace BY <2>4, <2>5
    <3>1. SeqDiff(SeqNo(Byte(c, f)), SeqNo(Byte(c, pos))) = f - pos BY <2>5, <3>3, SeqDistance
    <3>2. f - pos <= 0 BY <1>1, <2>3, <2>4, <3>1
    <3> QED BY <2>5, <3>2
  <2> PICK more : more = Skip(P[s].bytes, SeqDiff(x.w.next, s)) OBVIOUS
  <2>7. PICK l \in 0 .. StreamLen : /\ more = Payload(c, pos, l) /\ pos + l <= StreamLen
                                    /\ (l # 0 => pos + l = f + n)
    <3>1. more = Skip(Payload(c, f, n), SeqDiff(SeqNo(Byte(c, pos)), SeqNo(Byte(c, f))))
      BY <1>1, <2>4, Zenon
    <3>2. f + n <= StreamLen /\ f <= pos /\ pos \in 0 .. StreamLen /\ pos - f < HalfSpace BY <2>4, <2>5, <2>6
    <3>3. \E l \in 0 .. StreamLen :
            /\ Skip(Payload(c, f, n), SeqDiff(SeqNo(Byte(c, pos)), SeqNo(Byte(c, f)))) = Payload(c, pos, l)
            /\ pos + l <= StreamLen /\ (l # 0 => pos + l = f + n)
      BY ONLY <3>2, c \in DOMAIN Isn, f \in 0 .. StreamLen, n \in 1 .. StreamLen, More
    <3>4. PICK l \in 0 .. StreamLen :
            /\ Skip(Payload(c, f, n), SeqDiff(SeqNo(Byte(c, pos)), SeqNo(Byte(c, f)))) = Payload(c, pos, l)
            /\ pos + l <= StreamLen /\ (l # 0 => pos + l = f + n)
      BY ONLY <3>3
    <3>5. more = Payload(c, pos, l) BY <3>1, <3>4, Zenon
    <3> QED BY <3>4, <3>5
  <2>8. l \in Nat /\ f \in Nat /\ n \in Nat /\ m + l \in 1 .. StreamLen /\ p0 + (m + l) = pos + l
        /\ p0 + m = pos /\ m + l < HalfSpace
    BY <2>4, <2>5, <2>7
  <2>9. Len(more) = l
    <3>1. Len(Payload(c, pos, l)) = l BY ONLY <2>5, <2>8, PayloadIs
    <3> QED BY <2>7, <3>1, Zenon
  <2>10. (x.w.next + Len(more)) % SeqSpace = SeqNo(Byte(c, p0 + (m + l)))
    <3>1. (SeqNo(Byte(c, pos)) + l) % SeqSpace = SeqNo(Byte(c, pos + l))
      <4>1. l \in Int /\ pos + l >= 0 BY <2>5, <2>8
      <4> QED BY <2>5, <4>1, NumberOn
    <3> QED BY <1>1, <2>8, <2>9, <3>1, Zenon
  <2> PICK less : less = Restrict(P, DOMAIN P \ {s}) OBVIOUS
  <2> PICK y : y = PullOne(x) OBVIOUS
  <2> PICK data : data = IF more = <<>> THEN x.data
                         ELSE Delivered(x.data.bytes \o more, PulledWall(x.data, P[s]))
    OBVIOUS
  <2>11. y = [w |-> [next |-> (x.w.next + Len(more)) % SeqSpace, pending |-> less,
                     count |-> x.w.count - Len(P[s].bytes), out |-> out],
              data |-> data]
    <3>1. y = [w |-> [x.w EXCEPT !.pending = Restrict(@, DOMAIN @ \ {s}),
                                 !.count = @ - Len(P[s].bytes),
                                 !.next = (@ + Len(more)) % SeqSpace],
               data |-> data]
      BY <1>4 DEF PullOne, Ready
    <3> PICK w, b, k, z : /\ w = x.w /\ b = Restrict(w.pending, DOMAIN w.pending \ {s})
                          /\ k = w.count - Len(P[s].bytes) /\ z = (w.next + Len(more)) % SeqSpace
      OBVIOUS
    <3>2. [w EXCEPT !.pending = b, !.count = k, !.next = z]
          = [next |-> z, pending |-> b, count |-> k, out |-> out]
      <4> PICK a0, b0, k0 : a0 = w.next /\ b0 = w.pending /\ k0 = w.count OBVIOUS
      <4>1. w = [next |-> a0, pending |-> b0, count |-> k0, out |-> out] BY <1>2
      <4> PICK w1 : w1 = [w EXCEPT !.pending = b] OBVIOUS
      <4>2. w1 = [next |-> a0, pending |-> b, count |-> k0, out |-> out]
        BY ONLY <4>1, w1 = [w EXCEPT !.pending = b]
      <4> PICK w2 : w2 = [w1 EXCEPT !.count = k] OBVIOUS
      <4>3. w2 = [next |-> a0, pending |-> b, count |-> k, out |-> out]
        BY ONLY <4>2, w2 = [w1 EXCEPT !.count = k]
      <4> PICK w3 : w3 = [w2 EXCEPT !.next = z] OBVIOUS
      <4>4. w3 = [next |-> z, pending |-> b, count |-> k, out |-> out]
        BY ONLY <4>3, w3 = [w2 EXCEPT !.next = z]
      <4>5. w3 = [[[w EXCEPT !.pending = b] EXCEPT !.count = k] EXCEPT !.next = z]
        BY w1 = [w EXCEPT !.pending = b], w2 = [w1 EXCEPT !.count = k], w3 = [w2 EXCEPT !.next = z], Zenon
      <4>6. [w EXCEPT !.pending = b, !.count = k, !.next = z]
            = [[[w EXCEPT !.pending = b] EXCEPT !.count = k] EXCEPT !.next = z]
        BY ONLY <4>1
      <4> QED BY <4>4, <4>5, <4>6, Zenon
    <3>3. b = less /\ z = (x.w.next + Len(more)) % SeqSpace /\ k = x.w.count - Len(P[s].bytes)
          /\ w = x.w
      OBVIOUS
    <3>4. y = [w |-> [w EXCEPT !.pending = b, !.count = k, !.next = z], data |-> data] BY <3>1, <3>3
    <3> QED BY <3>2, <3>3, <3>4, Zenon
  <2>12. /\ y.w.next = SeqNo(Byte(c, p0 + (m + l))) /\ y.w.pending = less
         /\ y.w.count = x.w.count - Len(P[s].bytes) /\ y.w.out = out /\ y.data = data
         /\ y.w = [next |-> y.w.next, pending |-> y.w.pending, count |-> y.w.count, out |-> out]
    <3> PICK v, z, k : /\ v = y.w /\ z = (x.w.next + Len(more)) % SeqSpace
                       /\ k = x.w.count - Len(P[s].bytes)
      OBVIOUS
    <3>1. v = [next |-> z, pending |-> less, count |-> k, out |-> out] /\ y.data = data BY <2>11
    <3>2. v.next = z /\ v.pending = less /\ v.count = k /\ v.out = out BY ONLY <3>1
    <3>3. v = [next |-> v.next, pending |-> v.pending, count |-> v.count, out |-> out]
      BY <3>1, <3>2, Zenon
    <3>4. z = SeqNo(Byte(c, p0 + (m + l))) BY <2>10, Zenon
    <3> QED BY <3>1, <3>2, <3>3, <3>4, Zenon
  <2>13. /\ Keeps(less, y.w.count, c, cap, p0)
         /\ Cardinality(DOMAIN less) < Cardinality(DOMAIN P)
    <3>1. Keeps(P, x.w.count, c, cap, p0) BY <1>2
    <3>2. Keeps(less, x.w.count - Len(P[s].bytes), c, cap, p0) /\ Cardinality(DOMAIN less) < Cardinality(DOMAIN P)
      <4>1. s \in DOMAIN P BY <2>3
      <4>2. c \in DOMAIN Isn /\ less = Restrict(P, DOMAIN P \ {s}) OBVIOUS
      <4>3. Keeps(less, x.w.count - Len(P[s].bytes), c, cap, p0) BY <4>1, <4>2, <3>1, KeepsLess, Zenon
      <4>5. DOMAIN less = DOMAIN P \ {s} BY <4>2 DEF Restrict
      <4>6. IsFiniteSet(DOMAIN P) BY <3>1 DEF Keeps
      <4>7. Cardinality(DOMAIN P \ {s}) < Cardinality(DOMAIN P) BY ONLY <4>1, <4>6, TakeOut
      <4>4. Cardinality(DOMAIN less) < Cardinality(DOMAIN P) BY <4>5, <4>7, Zenon
      <4> QED BY <4>3, <4>4, Zenon
    <3> QED BY <2>12, <3>2, Zenon
  <2>14. /\ data.wall \in Nat /\ x.data.wall <= data.wall
         /\ data = Delivered(Payload(c, p0, m + l), data.wall)
         /\ \A b \in Range(Payload(c, p0, m + l)) : b \in DOMAIN cap /\ cap[b] <= data.wall
    <3>1. CASE l = 0
      <4>1. more = <<>> BY <2>5, <2>7, <3>1, NoPiece
      <4>2. data = x.data /\ m + l = m BY <2>5, <3>1, <4>1
      <4> QED BY <1>1, <1>2, <4>2
    <3>2. CASE l # 0
      <4>1. more # <<>>
        <5>1. Payload(c, pos, l) # <<>> BY ONLY <2>5, <2>8, <3>2, NoPiece
        <5> QED BY <2>7, <5>1, Zenon
      <4>2. x.data.bytes = Payload(c, p0, m) BY <1>1 DEF Delivered
      <4> PICK to : to = PulledWall(x.data, P[s]) OBVIOUS
      <4>3. to \in Nat /\ x.data.wall <= to /\ P[s].wall <= to BY <1>2, <2>4 DEF PulledWall
      <4>4. Payload(c, p0, m) \o Payload(c, p0 + m, l) = Payload(c, p0, m + l)
        <5>1. p0 \in Nat /\ m \in Nat /\ l \in Nat BY <2>5, <2>8
        <5> QED BY <5>1, PayloadsJoin, ZenonT(30)
      <4>5. data = Delivered(Payload(c, p0, m + l), to)
        <5>1. data = Delivered(x.data.bytes \o more, to) BY <4>1
        <5>2. p0 + m = pos /\ more = Payload(c, pos, l) BY <2>7, <2>8
        <5> PICK u, v, z : u = Payload(c, p0, m) /\ v = Payload(c, pos, l) /\ z = Payload(c, p0 + m, l)
          OBVIOUS
        <5>3. z = v BY <5>2, Zenon
        <5>4. u \o z = Payload(c, p0, m + l) BY <4>4, Zenon
        <5>5. data = Delivered(u \o v, to) BY <5>1, <5>2, <4>2, Zenon
        <5> QED BY <5>3, <5>4, <5>5, Zenon
      <4>6. data.wall = to BY ONLY <4>5 DEF Delivered
      <4>7. Range(Payload(c, p0, m + l)) = Range(Payload(c, p0, m)) \cup Range(Payload(c, p0 + m, l))
        <5>1. p0 \in Nat /\ m \in Nat /\ l \in Nat BY <2>5, <2>8
        <5> QED BY ONLY <5>1, JoinedHolds
      <4>8. Range(Payload(c, pos, l)) \subseteq Range(Payload(c, f, n))
        <5>1. f <= pos /\ pos + l <= f + n BY <2>6, <2>7, <2>8, <3>2
        <5> QED BY ONLY <2>5, <2>8, <5>1, PartHolds
      <4>9. ASSUME NEW b \in Range(Payload(c, p0, m + l)) PROVE b \in DOMAIN cap /\ cap[b] <= to
        <5>1. CASE b \in Range(Payload(c, p0, m))
          <6>1. b \in DOMAIN cap /\ cap[b] <= x.data.wall BY <1>1, <5>1
          <6>2. cap[b] \in Nat BY <6>1 DEF IsTimes
          <6> QED BY <1>2, <4>3, <6>1, <6>2
        <5>2. CASE b \in Range(Payload(c, pos, l))
          <6>1. b \in DOMAIN cap /\ cap[b] <= P[s].wall BY <2>4, <4>8, <5>2
          <6>2. cap[b] \in Nat BY <6>1 DEF IsTimes
          <6> PICK u, v : u = cap[b] /\ v = P[s].wall OBVIOUS
          <6>3. u \in Nat /\ v \in Nat /\ u <= v /\ v <= to BY <2>4, <4>3, <6>1, <6>2, Zenon
          <6>4. u <= to BY ONLY <6>3, <4>3
          <6> QED BY <6>1, <6>4
        <5> QED BY <2>8, <4>7, <5>1, <5>2
      <4> QED BY <4>3, <4>5, <4>6, <4>9
    <3> QED BY <3>1, <3>2
  <2>15. wall <= data.wall
    <3> PICK u, v : u = x.data.wall /\ v = data.wall OBVIOUS
    <3>1. u \in Nat /\ v \in Nat /\ wall <= u /\ u <= v BY <1>2, <2>14, Zenon
    <3>2. wall <= v BY ONLY <3>1, wall \in Nat
    <3> QED BY <3>2
  <2>16. p0 + (m + l) <= StreamLen BY <2>7, <2>8
  <2>17. \E k \in 1 .. StreamLen :
           /\ p0 + k <= StreamLen /\ k < HalfSpace /\ y.w.next = SeqNo(Byte(c, p0 + k))
           /\ y.data = Delivered(Payload(c, p0, k), y.data.wall)
           /\ \A b \in Range(Payload(c, p0, k)) : b \in DOMAIN cap /\ cap[b] <= y.data.wall
    BY <2>8, <2>12, <2>14, <2>16
  <2>18. InHand(y, c, p0, wall, cap, out)
    BY <2>12, <2>13, <2>14, <2>15, <2>17 DEF InHand
  <2> QED BY <1>4, <2>12, <2>13, <2>18
<1> QED BY <1>3, <1>4

-----------------------------------------------------------------------------
\* g pulls what is ready, n times, from x on.
IsPull(g, x, n) == g = [k \in 0 .. n |-> IF k = 0 THEN x ELSE PullOne(g[k - 1])]

LEMMA PullIs ==
    ASSUME NEW g, NEW x, NEW n \in Nat, IsPull(g, x, n)
    PROVE  g[0] = x /\ \A k \in 1 .. n : g[k] = PullOne(g[k - 1])
<1>1. 0 \in 0 .. n /\ \A k \in 1 .. n : k \in 0 .. n /\ k # 0 OBVIOUS
<1>2. \A k \in 0 .. n : g[k] = IF k = 0 THEN x ELSE PullOne(g[k - 1]) BY Zenon DEF IsPull
<1> QED BY <1>1, <1>2

LEMMA PullExists ==
    ASSUME NEW x, NEW n \in Nat
    PROVE  \E g : IsPull(g, x, n)
<1> SUFFICES ASSUME ~\E g : IsPull(g, x, n) PROVE FALSE OBVIOUS
<1> DEFINE Bad == {k \in Nat : ~\E g : IsPull(g, x, k)}
<1>1. Bad \subseteq Nat /\ Bad # {} OBVIOUS
<1>2. PICK k \in Bad : \A u \in Bad : k <= u BY ONLY <1>1, LeastNumber
<1>3. CASE k = 0
  <2> PICK g : g = [i \in 0 .. 0 |-> x] OBVIOUS
  <2>1. 0 .. 0 = {0} OBVIOUS
  <2>2. IsPull(g, x, 0) BY <2>1 DEF IsPull
  <2> QED BY <1>2, <1>3, <2>2
<1>4. CASE k # 0
  <2> PICK j \in Nat : j = k - 1 BY <1>2, <1>4
  <2>1. k = j + 1 /\ k \in Nat /\ ~(k <= j) /\ j + 1 \notin 0 .. j BY <1>2
  <2>2. PICK h : IsPull(h, x, j) BY <1>2, <2>1
  <2>3. /\ DOMAIN h = 0 .. j /\ h[0] = x /\ \A i \in 1 .. j : h[i] = PullOne(h[i - 1])
    <3>1. DOMAIN h = 0 .. j BY <2>2 DEF IsPull
    <3> QED BY <2>2, <3>1, PullIs
  <2> PICK g : g = [i \in 0 .. k |-> IF i = k THEN PullOne(h[j]) ELSE h[i]] OBVIOUS
  <2>4. g[k] = PullOne(h[j]) /\ \A i \in 0 .. j : g[i] = h[i]
    <3>1. k \in 0 .. k /\ \A i \in 0 .. j : i \in 0 .. k /\ i # k BY <2>1
    <3> QED BY <3>1
  <2>5. ASSUME NEW i \in 0 .. k PROVE g[i] = IF i = 0 THEN x ELSE PullOne(g[i - 1])
    <3>1. CASE i = k
      <4>1. i # 0 /\ i - 1 = j /\ j \in 0 .. j BY <2>1, <3>1
      <4> QED BY <2>4, <3>1, <4>1
    <3>2. CASE i = 0
      <4>1. i \in 0 .. j BY <3>2
      <4> QED BY <2>3, <2>4, <3>2, <4>1
    <3>3. CASE i # k /\ i # 0
      <4>1. i \in 1 .. j /\ i \in 0 .. j /\ i - 1 \in 0 .. j BY <2>1, <3>3
      <4>2. g[i] = h[i] /\ h[i] = PullOne(h[i - 1]) /\ g[i - 1] = h[i - 1] BY <2>3, <2>4, <4>1
      <4> QED BY <3>3, <4>2
    <3> QED BY <3>1, <3>2, <3>3
  <2>6. g = [i \in 0 .. k |-> IF i = 0 THEN x ELSE PullOne(g[i - 1])]
    <3>1. DOMAIN g = 0 .. k OBVIOUS
    <3> PICK e : e = [i \in 0 .. k |-> IF i = 0 THEN x ELSE PullOne(g[i - 1])] OBVIOUS
    <3>2. DOMAIN e = 0 .. k /\ \A i \in 0 .. k : e[i] = g[i] BY <2>5
    <3>3. e = [i \in 0 .. k |-> e[i]] /\ g = [i \in 0 .. k |-> g[i]] OBVIOUS
    <3> QED BY <3>2, <3>3
  <2>7. IsPull(g, x, k) BY <2>6 DEF IsPull
  <2> QED BY <1>2, <2>7
<1> QED BY <1>3, <1>4

(* As many pulls as segments are held leave none ready. *)
LEMMA PullsKeep ==
    ASSUME NEW c \in DOMAIN Isn, NEW p0 \in Nat, NEW wall \in Nat, NEW cap, IsTimes(cap), NEW out,
           NEW x, InHand(x, c, p0, wall, cap, out), NEW n, n = Cardinality(DOMAIN x.w.pending),
           NEW g, IsPull(g, x, n)
    PROVE  InHand(g[n], c, p0, wall, cap, out) /\ Ready(g[n].w) = {}
<1> DEFINE Size(k) == Cardinality(DOMAIN g[k].w.pending)
           Good(k) == InHand(g[k], c, p0, wall, cap, out) /\ (Ready(g[k].w) = {} \/ Size(k) <= n - k)
           Bad     == {k \in 0 .. n : ~Good(k)}
<1>1. n \in Nat
  <2>1. IsFiniteSet(DOMAIN x.w.pending) BY DEF InHand, Keeps
  <2> QED BY <2>1, FS_CardinalityType
<1>2. g[0] = x /\ \A k \in 1 .. n : g[k] = PullOne(g[k - 1]) BY ONLY <1>1, IsPull(g, x, n), PullIs
<1>3. \A k \in 0 .. n : InHand(g[k], c, p0, wall, cap, out) => Size(k) \in Nat /\ IsFiniteSet(DOMAIN g[k].w.pending)
  <2> TAKE k \in 0 .. n
  <2> HAVE InHand(g[k], c, p0, wall, cap, out)
  <2>1. IsFiniteSet(DOMAIN g[k].w.pending) BY DEF InHand, Keeps
  <2> QED BY <2>1, FS_CardinalityType
<1>4. Good(0)
  <2>1. Size(0) = n BY <1>2, Zenon
  <2>2. Size(0) <= n - 0 BY <1>1, <2>1
  <2> QED BY <1>2, <2>2
<1>5. ASSUME NEW j \in 0 .. n, j + 1 \in 0 .. n, Good(j) PROVE Good(j + 1)
  <2> PICK k \in 1 .. n : k = j + 1 BY <1>1, <1>5
  <2>1. k - 1 = j BY <1>1
  <2>2. g[k] = PullOne(g[j]) BY <1>2, <2>1
  <2> PICK y, z : y = g[j] /\ z = g[k] OBVIOUS
  <2>3. InHand(y, c, p0, wall, cap, out) BY <1>5
  <2>4. /\ InHand(z, c, p0, wall, cap, out)
        /\ IF Ready(y.w) = {} THEN z = y
           ELSE Cardinality(DOMAIN z.w.pending) < Cardinality(DOMAIN y.w.pending)
    <3>1. /\ InHand(PullOne(y), c, p0, wall, cap, out)
          /\ IF Ready(y.w) = {} THEN PullOne(y) = y
             ELSE Cardinality(DOMAIN PullOne(y).w.pending) < Cardinality(DOMAIN y.w.pending)
      BY <2>3, PullOneKeeps
    <3> QED BY <2>2, <3>1
  <2>5. CASE Ready(y.w) = {} BY <2>4, <2>5
  <2>6. CASE Ready(y.w) # {}
    <3> PICK a, b : a = Size(j) /\ b = Size(k) OBVIOUS
    <3>1. a \in Nat /\ b \in Nat BY <1>3, <2>3, <2>4
    <3>2. b < a /\ a <= n - j BY <1>5, <2>4, <2>6
    <3>3. b <= n - k BY ONLY <3>1, <3>2, <1>1, k = j + 1, j \in 0 .. n
    <3> QED BY <2>4, <3>3
  <2> QED BY <2>5, <2>6
<1>6. Bad = {}
  <2> SUFFICES ASSUME Bad # {} PROVE FALSE OBVIOUS
  <2>1. Bad \subseteq Nat BY <1>1
  <2> HIDE DEF Good
  <2>2. PICK k \in Bad : \A u \in Bad : k <= u BY ONLY <2>1, Bad # {}, LeastNumber
  <2>3. k \in 0 .. n /\ ~Good(k) BY <2>2
  <2>4. k # 0 BY <1>4, <2>3
  <2> PICK j : j = k - 1 OBVIOUS
  <2>5. j \in 0 .. n /\ j + 1 = k /\ ~(k <= j) BY <1>1, <2>3, <2>4
  <2>6. Good(j) BY <2>2, <2>5
  <2> QED BY <1>5, <2>3, <2>5, <2>6
<1>7. Good(n)
  <2>1. n \in 0 .. n BY <1>1
  <2> HIDE DEF Good
  <2> QED BY <1>6, <2>1
<1>8. Ready(g[n].w) = {}
  <2> SUFFICES ASSUME Ready(g[n].w) # {} PROVE FALSE OBVIOUS
  <2> PICK D : D = DOMAIN g[n].w.pending OBVIOUS
  <2>1. Cardinality(D) <= n - n BY <1>7
  <2>2. IsFiniteSet(D) /\ Cardinality(D) \in Nat BY <1>1, <1>3, <1>7
  <2>3. Cardinality(D) = 0 BY <1>1, <2>1, <2>2
  <2>4. D = {} BY <2>2, <2>3, FS_EmptySet
  <2> QED BY <2>4 DEF Ready
<1> QED BY <1>7, <1>8

-----------------------------------------------------------------------------
(* A turn of the loop. *)

\* The reassembler in work stands at position pos of connection c, and so does the flow behind it
\* once it has taken what w hands on.
Tracks(w, c, pos, cap, f0) ==
    /\ w = [next |-> w.next, pending |-> w.pending, count |-> w.count, out |-> w.out]
    /\ pos \in 0 .. StreamLen /\ w.next = SeqNo(Byte(c, pos))
    /\ Keeps(w.pending, w.count, c, cap, pos)
    /\ w.out \in Seq(Handed) /\ Folding(w.out)
    /\ \A f : FlowOf(w.out, f0, f) => FlowTrue(f, c, pos, cap)

\* Nothing held is ready, and the last byte handed on, or nb, tells the position.
Settles(w, c, pos, nb) ==
    /\ Ready(w) = {}
    /\ IF Delivers(w.out) = {} THEN nb = Byte(c, pos) ELSE EndsAt(w.out, c, pos)

\* What is stamped wall is stamped no earlier than any byte captured, or the flow starts anew.
Timely(w, cap, f0, wall) ==
    \/ \A b \in DOMAIN cap : cap[b] <= wall
    \/ \A f : FlowOf(w.out, f0, f) => f.buf = <<>>

\* What is in hand is handed on.
PassOn(x) == [x.w EXCEPT !.out = Append(@, x.data)]

(* What HandOn comes to. *)
LEMMA HandOnIs ==
    ASSUME NEW c \in DOMAIN Isn, NEW cap, IsTimes(cap), NEW pos, NEW f0, NEW w,
           Tracks(w, c, pos, cap, f0), NEW m \in 1 .. StreamLen, pos + m <= StreamLen, m < HalfSpace,
           NEW bs, bs = Payload(c, pos, m),
           NEW wall \in Nat, \A b \in Range(bs) : b \in DOMAIN cap /\ cap[b] <= wall
    PROVE  \E x : /\ InHand(x, c, pos, wall, cap, w.out) /\ Ready(x.w) = {}
                  /\ HandOn(w, bs, wall) = PassOn(x)
<1>1. /\ w = [next |-> w.next, pending |-> w.pending, count |-> w.count, out |-> w.out]
      /\ pos \in 0 .. StreamLen /\ w.next = SeqNo(Byte(c, pos)) /\ Keeps(w.pending, w.count, c, cap, pos)
  BY DEF Tracks
<1> PICK x0, u : /\ x0 = [w |-> u, data |-> Delivered(bs, wall)]
                 /\ u = [w EXCEPT !.next = (@ + Len(bs)) % SeqSpace]
  OBVIOUS
<1> PICK n : n = Cardinality(DOMAIN w.pending) OBVIOUS
<1>2. StreamLen \in Nat /\ pos \in Nat /\ m \in Nat BY <1>1, Space
<1>3. u = [next |-> SeqNo(Byte(c, pos + m)), pending |-> w.pending, count |-> w.count, out |-> w.out]
  <2>1. Len(bs) = m
    <3>1. Len(Payload(c, pos, m)) = m BY ONLY <1>2, PayloadIs
    <3> QED BY <3>1
  <2>2. (SeqNo(Byte(c, pos)) + m) % SeqSpace = SeqNo(Byte(c, pos + m))
    <3>1. m \in Int /\ pos + m >= 0 BY <1>2
    <3> QED BY <1>2, <3>1, NumberOn
  <2> PICK a, b, k, o, z : /\ a = w.next /\ b = w.pending /\ k = w.count /\ o = w.out
                           /\ z = (w.next + Len(bs)) % SeqSpace
    OBVIOUS
  <2>3. w = [next |-> a, pending |-> b, count |-> k, out |-> o] BY <1>1
  <2>4. [w EXCEPT !.next = z] = [next |-> z, pending |-> b, count |-> k, out |-> o]
    BY ONLY <2>3
  <2>5. u = [w EXCEPT !.next = z] BY <2>3
  <2>6. z = SeqNo(Byte(c, pos + m)) BY <1>1, <2>1, <2>2, Zenon
  <2> QED BY <2>4, <2>5, <2>6, Zenon
<1>4. InHand(x0, c, pos, wall, cap, w.out)
  <2>1. x0.w = u /\ x0.data = Delivered(bs, wall) OBVIOUS
  <2>2. /\ u.next = SeqNo(Byte(c, pos + m)) /\ u.pending = w.pending /\ u.count = w.count /\ u.out = w.out
        /\ u = [next |-> u.next, pending |-> u.pending, count |-> u.count, out |-> w.out]
    <3> PICK z, b, k, o : z = SeqNo(Byte(c, pos + m)) /\ b = w.pending /\ k = w.count /\ o = w.out
      OBVIOUS
    <3>1. u = [next |-> z, pending |-> b, count |-> k, out |-> o] BY <1>3
    <3>2. u.next = z /\ u.pending = b /\ u.count = k /\ u.out = o BY ONLY <3>1
    <3>3. u = [next |-> u.next, pending |-> u.pending, count |-> u.count, out |-> o]
      BY <3>1, <3>2, Zenon
    <3> QED BY <3>2, <3>3, Zenon
  <2> PICK d : d = Delivered(bs, wall) OBVIOUS
  <2>3. d.wall = wall BY DEF Delivered
  <2>4. wall <= wall OBVIOUS
  <2>5. \E k \in 1 .. StreamLen :
          /\ pos + k <= StreamLen /\ k < HalfSpace /\ x0.w.next = SeqNo(Byte(c, pos + k))
          /\ x0.data = Delivered(Payload(c, pos, k), x0.data.wall)
          /\ \A b \in Range(Payload(c, pos, k)) : b \in DOMAIN cap /\ cap[b] <= x0.data.wall
    BY <2>1, <2>2, <2>3
  <2>6. Keeps(x0.w.pending, x0.w.count, c, cap, pos) BY <1>1, <2>1, <2>2
  <2>7. x0.data.wall = wall BY <2>1, <2>3
  <2>8. x0.w = [next |-> x0.w.next, pending |-> x0.w.pending, count |-> x0.w.count, out |-> w.out]
    BY <2>1, <2>2
  <2> QED BY <2>4, <2>5, <2>6, <2>7, <2>8 DEF InHand
<1>5. n \in Nat /\ DOMAIN x0.w.pending = DOMAIN w.pending
  <2>1. IsFiniteSet(DOMAIN w.pending) BY <1>1 DEF Keeps
  <2>2. x0.w = u /\ u.pending = w.pending BY <1>3
  <2> QED BY <2>1, <2>2, FS_CardinalityType
<1> DEFINE g == CHOOSE h : IsPull(h, x0, n)
<1>6. IsPull(g, x0, n) BY <1>5, PullExists, Zenon
<1>7. HandOn(w, bs, wall) = PassOn(g[n]) BY DEF HandOn, IsPull, PassOn
<1> HIDE DEF g
<1> PICK x : x = g[n] OBVIOUS
<1>8. InHand(x, c, pos, wall, cap, w.out) /\ Ready(x.w) = {}
  <2>1. n = Cardinality(DOMAIN x0.w.pending) BY <1>5
  <2> QED BY <1>2, <1>4, <1>6, <2>1, PullsKeep, Zenon
<1> QED BY <1>7, <1>8

(* Handing on keeps the flow in step. *)
LEMMA HandOnTracks ==
    ASSUME NEW c \in DOMAIN Isn, NEW cap, IsTimes(cap), NEW pos, NEW f0, NEW w,
           Tracks(w, c, pos, cap, f0), NEW m \in 1 .. StreamLen, pos + m <= StreamLen, m < HalfSpace,
           NEW bs, bs = Payload(c, pos, m),
           NEW wall \in Nat, \A b \in Range(bs) : b \in DOMAIN cap /\ cap[b] <= wall,
           Timely(w, cap, f0, wall), NEW nb
    PROVE  \E to \in 0 .. StreamLen : /\ Tracks(HandOn(w, bs, wall), c, to, cap, f0)
                                      /\ Settles(HandOn(w, bs, wall), c, to, nb)
<1>1. /\ pos \in 0 .. StreamLen /\ w.out \in Seq(Handed) /\ Folding(w.out)
      /\ \A f : FlowOf(w.out, f0, f) => FlowTrue(f, c, pos, cap)
  BY DEF Tracks
<1> PICK out, y : out = w.out /\ y = HandOn(w, bs, wall) OBVIOUS
<1>2. PICK x : /\ InHand(x, c, pos, wall, cap, out) /\ Ready(x.w) = {}
               /\ y = PassOn(x)
  <2>1. \E x : /\ InHand(x, c, pos, wall, cap, w.out) /\ Ready(x.w) = {}
               /\ HandOn(w, bs, wall) = PassOn(x)
    BY ONLY c \in DOMAIN Isn, IsTimes(cap), Tracks(w, c, pos, cap, f0), m \in 1 .. StreamLen,
       pos + m <= StreamLen, m < HalfSpace, bs = Payload(c, pos, m), wall \in Nat,
       \A b \in Range(bs) : b \in DOMAIN cap /\ cap[b] <= wall, HandOnIs
  <2> QED BY <2>1, Zenon
<1>3. /\ x.w = [next |-> x.w.next, pending |-> x.w.pending, count |-> x.w.count, out |-> out]
      /\ Keeps(x.w.pending, x.w.count, c, cap, pos)
      /\ x.data.wall \in Nat /\ wall <= x.data.wall
  BY <1>2 DEF InHand
<1>4. PICK l \in 1 .. StreamLen :
        /\ pos + l <= StreamLen /\ l < HalfSpace /\ x.w.next = SeqNo(Byte(c, pos + l))
        /\ x.data = Delivered(Payload(c, pos, l), x.data.wall)
        /\ \A b \in Range(Payload(c, pos, l)) : b \in DOMAIN cap /\ cap[b] <= x.data.wall
  BY <1>2 DEF InHand
<1> PICK last, d, more : last = x.data.wall /\ d = x.data /\ more = Append(out, d) OBVIOUS
<1>5. y = [next |-> x.w.next, pending |-> x.w.pending, count |-> x.w.count, out |-> more]
  <2> PICK a, b, k, v : a = x.w.next /\ b = x.w.pending /\ k = x.w.count /\ v = x.w OBVIOUS
  <2>1. v = [next |-> a, pending |-> b, count |-> k, out |-> out] BY <1>3
  <2>2. [v EXCEPT !.out = more] = [next |-> a, pending |-> b, count |-> k, out |-> more]
    BY ONLY <2>1
  <2>3. v.out = out BY <2>1
  <2>4. y = [v EXCEPT !.out = more] BY <1>2, <2>3 DEF PassOn
  <2> QED BY <2>2, <2>4, Zenon
<1>6. /\ y.next = x.w.next /\ y.pending = x.w.pending /\ y.count = x.w.count /\ y.out = more
      /\ y = [next |-> y.next, pending |-> y.pending, count |-> y.count, out |-> y.out]
  BY <1>5
<1>7. StreamLen \in Nat /\ pos \in Nat /\ l \in Nat /\ l # 0 /\ l \in Nat \ {0} BY <1>1, Space
<1> PICK to \in 0 .. StreamLen : to = pos + l BY <1>4, <1>7
<1>8. d = Delivered(Payload(c, pos, l), last) /\ last \in Nat /\ wall <= last BY <1>3, <1>4
<1>9. d \in Handed /\ more \in Seq(Handed) /\ EndsAt(more, c, pos + l)
  <2>1. /\ Delivered(Payload(c, pos, l), last) \in Handed
        /\ Append(out, Delivered(Payload(c, pos, l), last)) \in Seq(Handed)
        /\ EndsAt(Append(out, Delivered(Payload(c, pos, l), last)), c, pos + l)
    <3>1. out \in Seq(Handed) BY <1>1
    <3>2. pos \in Nat /\ l \in Nat \ {0} /\ last \in Nat /\ c \in DOMAIN Isn BY <1>7, <1>8
    <3> QED BY ONLY <3>1, <3>2, BytesAfter
  <2> QED BY <1>8, <2>1, Zenon
<1>10. Folding(more) BY <1>1, <1>9, FoldMore
<1>11. ASSUME NEW f, FlowOf(more, f0, f) PROVE FlowTrue(f, c, to, cap)
  <2>1. PICK e : FlowOf(out, f0, e) /\ f = AfterDelivery(e, d) BY <1>1, <1>9, <1>11, FoldMore
  <2>2. FlowTrue(e, c, pos, cap) BY <1>1, <2>1
  <2>3. \A b \in Range(e.buf) : cap[b] <= last
    <3> TAKE b \in Range(e.buf)
    <3>1. CASE \A q \in DOMAIN cap : cap[q] <= wall
      <4>1. b \in DOMAIN cap BY <2>2 DEF FlowTrue
      <4>2. cap[b] <= wall /\ cap[b] \in Nat BY <3>1, <4>1 DEF IsTimes
      <4> QED BY <1>8, <4>2
    <3>2. CASE \A h : FlowOf(out, f0, h) => h.buf = <<>>
      <4>1. e.buf = <<>> BY <2>1, <3>2
      <4>2. b \in {} BY <4>1 DEF Range
      <4> QED BY <4>2
    <3> QED BY <3>1, <3>2 DEF Timely
  <2>4. \A b \in Range(Payload(c, pos, l)) : b \in DOMAIN cap /\ cap[b] <= last BY <1>4
  <2>5. FlowTrue(AfterDelivery(e, Delivered(Payload(c, pos, l), last)), c, pos + l, cap)
    BY <1>7, <2>2, <2>3, <2>4, AfterBytes
  <2> QED BY <1>8, <2>1, <2>5, Zenon
<1>12. y.next = SeqNo(Byte(c, to)) BY <1>4, <1>6, Zenon
<1>15. Keeps(x.w.pending, x.w.count, c, cap, to)
  <2>1. ASSUME NEW s \in DOMAIN x.w.pending, NEW f \in Nat, s = SeqNo(Byte(c, f)), pos <= f, f - pos < HalfSpace
        PROVE  to <= f
    <3>1. HalfSpace \in Nat /\ to \in Nat /\ l < HalfSpace /\ to = pos + l BY <1>4, <1>7, Space
    <3>2. f - to < HalfSpace /\ to - f < HalfSpace BY <1>7, <2>1, <3>1
    <3>3. SeqDiff(SeqNo(Byte(c, f)), SeqNo(Byte(c, to))) = f - to BY <3>1, <3>2, SeqDistance
    <3>4. ~(SeqDiff(s, x.w.next) <= 0) BY <1>2 DEF Ready
    <3>5. SeqDiff(s, x.w.next) = f - to BY <1>6, <1>12, <2>1, <3>3, Zenon
    <3> QED BY <3>1, <3>4, <3>5
  <2>2. to \in Nat /\ pos <= to BY <1>7
  <2> PICK P, i : P = x.w.pending /\ i = x.w.count OBVIOUS
  <2>3. /\ Keeps(P, i, c, cap, pos)
        /\ \A s \in DOMAIN P, f \in Nat : s = SeqNo(Byte(c, f)) /\ pos <= f /\ f - pos < HalfSpace => to <= f
    BY <1>3, <2>1, Zenon
  <2>4. Keeps(P, i, c, cap, to) BY ONLY <1>7, <2>2, <2>3, c \in DOMAIN Isn, KeepsFrom
  <2> QED BY <2>4, Zenon
<1>13. Tracks(y, c, to, cap, f0) BY <1>6, <1>9, <1>10, <1>11, <1>12, <1>15 DEF Tracks
<1>14. Settles(y, c, to, nb)
  <2>1. Ready(y) = {}
    <3>1. Ready(y) = Ready(x.w) BY <1>6 DEF Ready
    <3> QED BY <1>2, <3>1
  <2>2. EndsAt(y.out, c, to) BY <1>6, <1>9, Zenon
  <2>3. Delivers(y.out) # {} BY <2>2 DEF EndsAt
  <2> QED BY <2>1, <2>2, <2>3 DEF Settles
<1> QED BY <1>13, <1>14

-----------------------------------------------------------------------------
(* A Reset lets the reassembler stand anywhere. *)
LEMMA ResetTracks ==
    ASSUME NEW c \in DOMAIN Isn, NEW cap, NEW q \in 0 .. StreamLen, NEW f0, NEW out,
           out \in Seq(Handed), Folding(out), \A f : FlowOf(out, f0, f) => FramesTrue(f.frames, cap),
           NEW v, v = [next |-> v.next, pending |-> v.pending, count |-> v.count, out |-> v.out],
           v.next = SeqNo(Byte(c, q)), Keeps(v.pending, v.count, c, cap, q), v.out = Append(out, Reset)
    PROVE  /\ Tracks(v, c, q, cap, f0)
           /\ \A f : FlowOf(v.out, f0, f) => f.buf = <<>>
           /\ Delivers(v.out) = Delivers(out)
<1> PICK o : o = Append(out, Reset) OBVIOUS
<1>1. v.out = o OBVIOUS
<1>3. o \in Seq(Handed) /\ Delivers(o) = Delivers(out) BY ResetAfter
<1>4. Reset \in Handed BY DEF Handed
<1>5. Folding(o) BY <1>4, FoldMore
<1>6. ASSUME NEW f, FlowOf(o, f0, f) PROVE FlowTrue(f, c, q, cap) /\ f.buf = <<>>
  <2>1. PICK e : FlowOf(out, f0, e) /\ f = AfterDelivery(e, Reset) BY <1>4, <1>6, FoldMore
  <2>2. FramesTrue(e.frames, cap) BY <2>1
  <2>3. q \in Nat BY Space
  <2> QED BY <2>1, <2>2, <2>3, AfterReset
<1>7. Tracks(v, c, q, cap, f0) BY <1>1, <1>3, <1>5, <1>6, Zenon DEF Tracks
<1> QED BY <1>1, <1>3, <1>6, <1>7, Zenon

(* What is ahead of the next byte is held. *)
LEMMA HoldTracks ==
    ASSUME NEW c \in DOMAIN Isn, NEW cap, NEW pos, NEW f0, NEW w,
           Tracks(w, c, pos, cap, f0), Ready(w) = {},
           NEW f \in 0 .. StreamLen, NEW n \in 1 .. StreamLen, f + n <= StreamLen, f > pos,
           f + n - pos < HalfSpace,
           NEW bs, bs = Payload(c, f, n), NEW seq, seq = SeqNo(Byte(c, f)), w.count + Len(bs) <= MaxPendingBytes,
           NEW wall \in Nat, \A b \in Range(bs) : b \in DOMAIN cap /\ cap[b] <= wall
    PROVE  /\ Tracks(Hold(w, seq, bs, wall), c, pos, cap, f0)
           /\ Ready(Hold(w, seq, bs, wall)) = {}
           /\ Hold(w, seq, bs, wall).out = w.out
<1>1. /\ w = [next |-> w.next, pending |-> w.pending, count |-> w.count, out |-> w.out]
      /\ pos \in 0 .. StreamLen /\ w.next = SeqNo(Byte(c, pos)) /\ Keeps(w.pending, w.count, c, cap, pos)
  BY DEF Tracks
<1>2. StreamLen \in Nat /\ pos \in Nat /\ f \in Nat /\ n \in Nat /\ MaxPendingBytes \in Nat
  <2>1. StreamLen \in Nat /\ MaxPendingBytes \in Nat BY Space, Caps
  <2> QED BY ONLY <1>1, <2>1, f \in 0 .. StreamLen, n \in 1 .. StreamLen
<1>3. Len(bs) = n
  <2>1. Len(Payload(c, f, n)) = n BY ONLY <1>2, PayloadIs
  <2> QED BY <2>1
<1> PICK p : p = [bytes |-> bs, wall |-> wall, since |-> tapNow] OBVIOUS
<1> PICK P : P = w.pending OBVIOUS
<1> PICK R : R = IF seq \in DOMAIN P THEN P
                 ELSE [t \in DOMAIN P \cup {seq} |-> IF t = seq THEN p ELSE P[t]]
  OBVIOUS
<1> PICK k, y : k = w.count + Len(bs) /\ y = Hold(w, seq, bs, wall) OBVIOUS
<1>4. y = [next |-> w.next, pending |-> R, count |-> k, out |-> w.out]
  <2>1. y = [w EXCEPT !.count = k, !.pending = R] BY DEF Hold
  <2> PICK a, b, i, o : a = w.next /\ b = w.pending /\ i = w.count /\ o = w.out OBVIOUS
  <2>2. w = [next |-> a, pending |-> b, count |-> i, out |-> o] BY <1>1
  <2> PICK w1 : w1 = [w EXCEPT !.count = k] OBVIOUS
  <2>3. w1 = [next |-> a, pending |-> b, count |-> k, out |-> o]
    BY ONLY <2>2, w1 = [w EXCEPT !.count = k]
  <2>4. [w1 EXCEPT !.pending = R] = [next |-> a, pending |-> R, count |-> k, out |-> o]
    BY ONLY <2>3
  <2>5. [w EXCEPT !.count = k, !.pending = R] = [[w EXCEPT !.count = k] EXCEPT !.pending = R]
    BY ONLY <2>2
  <2> QED BY <2>1, <2>4, <2>5, Zenon
<1>5. /\ y.next = w.next /\ y.pending = R /\ y.count = k /\ y.out = w.out
      /\ y = [next |-> y.next, pending |-> y.pending, count |-> y.count, out |-> y.out]
  BY <1>4
<1>6. IsHeld(p, seq, c, cap, pos)
  <2>1. p.bytes = bs /\ p.wall = wall /\ pos <= f BY <1>2
  <2> QED BY <2>1 DEF IsHeld
<1>7. Keeps(R, k, c, cap, pos)
  <2>1. CASE seq \in DOMAIN P
    <3>1. R = P BY <2>1
    <3>2. w.count \in 0 .. MaxPendingBytes /\ Total(Sizes(P), DOMAIN P) <= w.count
      BY <1>1 DEF Keeps
    <3>3. Total(Sizes(P), DOMAIN P) \in Nat
      <4>1. IsFiniteSet(DOMAIN P) /\ \A s \in DOMAIN P : IsHeld(P[s], s, c, cap, pos) BY <1>1 DEF Keeps
      <4>2. \A s \in DOMAIN P : Sizes(P)[s] \in Nat BY ONLY <4>1, c \in DOMAIN Isn, SizesAre
      <4> QED BY <4>1, <4>2, TotalIsNatural
    <3> PICK tot, i, mx : tot = Total(Sizes(P), DOMAIN P) /\ i = w.count /\ mx = MaxPendingBytes
      OBVIOUS
    <3>4. k = i + n /\ i + n <= mx /\ i \in 0 .. mx /\ mx \in Nat /\ tot \in Nat /\ tot <= i
      BY <1>2, <1>3, <3>2, <3>3
    <3>5. k \in 0 .. mx /\ tot <= k BY ONLY <3>4, n \in Nat, <1>2
    <3> QED BY <1>1, <3>1, <3>5 DEF Keeps
  <2>2. CASE seq \notin DOMAIN P
    <3>1. R = With(P, seq, p) BY <2>2 DEF With
    <3> PICK i : i = w.count OBVIOUS
    <3>2. Keeps(P, i, c, cap, pos) BY <1>1, Zenon
    <3>3. Grows(i, p, k)
      <4>1. p.bytes = bs OBVIOUS
      <4> QED BY <4>1 DEF Grows
    <3>4. Keeps(With(P, seq, p), k, c, cap, pos)
      BY ONLY c \in DOMAIN Isn, <3>2, <1>6, <2>2, <3>3, KeepsMore
    <3> QED BY <3>1, <3>4, Zenon
  <2> QED BY <2>1, <2>2
<1>8. Tracks(y, c, pos, cap, f0) BY <1>1, <1>5, <1>7 DEF Tracks
<1>9. Ready(y) = {}
  <2>1. DOMAIN R \subseteq DOMAIN P \cup {seq} OBVIOUS
  <2>6. f - pos < HalfSpace /\ pos - f < HalfSpace
    <3>1. HalfSpace \in Nat /\ 1 < HalfSpace BY Space
    <3> QED BY <1>2, <3>1
  <2>2. SeqDiff(SeqNo(Byte(c, f)), SeqNo(Byte(c, pos))) = f - pos BY <1>2, <2>6, SeqDistance
  <2>3. SeqDiff(seq, y.next) = f - pos BY <1>1, <1>5, <2>2, Zenon
  <2>4. ~(SeqDiff(seq, y.next) <= 0) BY <1>2, <2>3
  <2>5. \A t \in DOMAIN P : ~(SeqDiff(t, y.next) <= 0) BY <1>5 DEF Ready
  <2> QED BY <1>5, <2>1, <2>4, <2>5 DEF Ready
<1> QED BY <1>5, <1>8, <1>9

-----------------------------------------------------------------------------
(* A segment taken leaves the reassembler in step, and nothing ready. *)
LEMMA TakeTracks ==
    ASSUME NEW c \in DOMAIN Isn, NEW cap, IsTimes(cap), NEW pos, NEW f0, NEW w,
           Tracks(w, c, pos, cap, f0),
           NEW f \in 0 .. StreamLen, NEW n \in 1 .. StreamLen, f + n <= StreamLen,
           pos - f < HalfSpace, f + n - pos < HalfSpace,
           NEW bs, bs = Payload(c, f, n), NEW seq, seq = SeqNo(Byte(c, f)),
           NEW wall \in Nat, \A b \in Range(bs) : b \in DOMAIN cap /\ cap[b] <= wall,
           Timely(w, cap, f0, wall), NEW nb, f # pos => Settles(w, c, pos, nb)
    PROVE  \E to \in 0 .. StreamLen : /\ Tracks(Take(w, seq, bs, wall), c, to, cap, f0)
                                      /\ Settles(Take(w, seq, bs, wall), c, to, nb)
<1>1. /\ w = [next |-> w.next, pending |-> w.pending, count |-> w.count, out |-> w.out]
      /\ pos \in 0 .. StreamLen /\ w.next = SeqNo(Byte(c, pos)) /\ Keeps(w.pending, w.count, c, cap, pos)
      /\ w.out \in Seq(Handed) /\ Folding(w.out)
      /\ \A g : FlowOf(w.out, f0, g) => FlowTrue(g, c, pos, cap)
  BY DEF Tracks
<1>2. StreamLen \in Nat /\ pos \in Nat /\ f \in Nat /\ n \in Nat /\ n >= 1 /\ HalfSpace \in Nat BY <1>1, Space
<1>3. Len(bs) = n
  <2>1. Len(Payload(c, f, n)) = n BY ONLY <1>2, PayloadIs
  <2> QED BY <2>1
<1> PICK d, y : d = SeqDiff(seq, w.next) /\ y = Take(w, seq, bs, wall) OBVIOUS
<1>4. d = f - pos
  <2>2. f - pos < HalfSpace /\ pos - f < HalfSpace BY <1>2
  <2>1. SeqDiff(SeqNo(Byte(c, f)), SeqNo(Byte(c, pos))) = f - pos BY <1>2, <2>2, SeqDistance
  <2> QED BY <1>1, <2>1
<1>5. CASE d < 0 /\ -d >= n
  <2>1. y = w
    <3>1. ~(d <= 0 /\ -d < Len(bs)) /\ ~(d > 0) /\ d < 0 /\ -d >= Len(bs)
      BY <1>2, <1>3, <1>4, <1>5
    <3> QED BY <3>1 DEF Take
  <2>2. f # pos BY <1>2, <1>4, <1>5
  <2> QED BY <1>1, <2>1, <2>2
<1>6. CASE d <= 0 /\ -d < n
  <2>1. ~(d < 0 /\ -d >= Len(bs)) /\ d <= 0 /\ -d < Len(bs) BY <1>2, <1>3, <1>4, <1>6
  <2>2. y = HandOn(w, Skip(bs, -d), wall)
    <3>1. ~(d > 0) BY <1>2, <1>4, <1>6
    <3> QED BY <2>1, <3>1 DEF Take
  <2> PICK k, m : k = pos - f /\ m = n - k OBVIOUS
  <2>3. k \in Nat /\ -d = k /\ f + k = pos /\ k <= n /\ m \in 1 .. StreamLen /\ pos + m <= StreamLen
        /\ pos + m = f + n /\ f <= pos /\ m \in Nat /\ m < HalfSpace
    BY <1>2, <1>4, <1>6
  <2>4. Skip(bs, -d) = Payload(c, pos, m)
    <3>1. Skip(Payload(c, f, n), k) = IF k <= n THEN Payload(c, f + k, n - k) ELSE <<>>
      BY ONLY <1>2, <2>3, SkipIs
    <3> QED BY <2>3, <3>1, Zenon
  <2> PICK rest : rest = Skip(bs, -d) OBVIOUS
  <2>5. \A b \in Range(rest) : b \in DOMAIN cap /\ cap[b] <= wall
    <3>1. pos + m <= f + n BY ONLY <2>3, <1>2
    <3>2. Range(Payload(c, pos, m)) \subseteq Range(Payload(c, f, n))
      BY ONLY <1>2, <2>3, <3>1, PartHolds
    <3> QED BY <2>4, <3>2
  <2>6. rest = Payload(c, pos, m) BY <2>4, Zenon
  <2>7. \E to \in 0 .. StreamLen : /\ Tracks(HandOn(w, rest, wall), c, to, cap, f0)
                                   /\ Settles(HandOn(w, rest, wall), c, to, nb)
    BY ONLY <2>3, <2>5, <2>6, c \in DOMAIN Isn, IsTimes(cap), Tracks(w, c, pos, cap, f0),
       wall \in Nat, Timely(w, cap, f0, wall), HandOnTracks
  <2> QED BY <2>2, <2>7, Zenon
<1>7. CASE d > 0 /\ w.count + Len(bs) > MaxPendingBytes
  <2> PICK v : v = [next |-> seq, pending |-> Cleared.pending, count |-> 0, out |-> Append(w.out, Reset)]
    OBVIOUS
  <2>1. y = HandOn(v, bs, wall)
    <3>1. w.count \in Nat /\ MaxPendingBytes \in Nat BY <1>1, Caps DEF Keeps
    <3>2. /\ ~(d < 0 /\ -d >= Len(bs)) /\ ~(d <= 0 /\ -d < Len(bs))
          /\ ~(d > 0 /\ w.count + Len(bs) <= MaxPendingBytes)
      BY <1>2, <1>3, <1>4, <1>7, <3>1
    <3> QED BY <1>7, <3>2 DEF Take
  <2>2. \A g : FlowOf(w.out, f0, g) => FramesTrue(g.frames, cap) BY <1>1 DEF FlowTrue
  <2>3. Keeps(Cleared.pending, 0, c, cap, f) BY KeepsNone
  <2>4. /\ v.next = SeqNo(Byte(c, f)) /\ v.pending = Cleared.pending /\ v.count = 0
        /\ v.out = Append(w.out, Reset)
        /\ v = [next |-> v.next, pending |-> v.pending, count |-> v.count, out |-> v.out]
    OBVIOUS
  <2>5. Keeps(v.pending, v.count, c, cap, f) BY <2>3, <2>4, Zenon
  <2>6. Tracks(v, c, f, cap, f0) /\ \A g : FlowOf(v.out, f0, g) => g.buf = <<>>
    BY ONLY <1>1, <2>2, <2>4, <2>5, c \in DOMAIN Isn, f \in 0 .. StreamLen, ResetTracks
  <2>7. Timely(v, cap, f0, wall) BY <2>6 DEF Timely
  <2>9. n < HalfSpace BY <1>2, <1>4, <1>7
  <2>8. \E to \in 0 .. StreamLen : /\ Tracks(HandOn(v, bs, wall), c, to, cap, f0)
                                   /\ Settles(HandOn(v, bs, wall), c, to, nb)
    BY ONLY <2>6, <2>7, <2>9, c \in DOMAIN Isn, IsTimes(cap), n \in 1 .. StreamLen, f + n <= StreamLen,
       bs = Payload(c, f, n), \A b \in Range(bs) : b \in DOMAIN cap /\ cap[b] <= wall,
       wall \in Nat, HandOnTracks
  <2> QED BY <2>1, <2>8, Zenon
<1>8. CASE d > 0 /\ w.count + Len(bs) <= MaxPendingBytes
  <2>1. y = Hold(w, seq, bs, wall)
    <3>1. w.count \in Nat /\ MaxPendingBytes \in Nat BY <1>1, Caps DEF Keeps
    <3>2. /\ ~(d < 0 /\ -d >= Len(bs)) /\ ~(d <= 0 /\ -d < Len(bs))
          /\ ~(d > 0 /\ w.count + Len(bs) > MaxPendingBytes)
      BY <1>2, <1>3, <1>4, <1>8, <3>1
    <3> QED BY <1>8, <3>2 DEF Take
  <2>2. f > pos /\ f # pos /\ f + n - pos < HalfSpace BY <1>2, <1>4, <1>8
  <2>3. Settles(w, c, pos, nb) BY <2>2
  <2>4. Ready(w) = {} BY <2>3 DEF Settles
  <2>5. w.count + Len(bs) <= MaxPendingBytes BY <1>8
  <2>6. Tracks(y, c, pos, cap, f0) /\ Ready(y) = {} /\ y.out = w.out
    <3>1. /\ Tracks(Hold(w, seq, bs, wall), c, pos, cap, f0)
          /\ Ready(Hold(w, seq, bs, wall)) = {}
          /\ Hold(w, seq, bs, wall).out = w.out
      BY ONLY <2>2, <2>4, <2>5, c \in DOMAIN Isn, Tracks(w, c, pos, cap, f0), f \in 0 .. StreamLen,
         n \in 1 .. StreamLen, f + n <= StreamLen, bs = Payload(c, f, n), seq = SeqNo(Byte(c, f)),
         wall \in Nat, \A b \in Range(bs) : b \in DOMAIN cap /\ cap[b] <= wall, HoldTracks
    <3> QED BY <2>1, <3>1, Zenon
  <2>7. Settles(y, c, pos, nb) BY <2>3, <2>6 DEF Settles
  <2> QED BY <1>1, <2>6, <2>7
<1>9. \/ d < 0 /\ -d >= n
      \/ d <= 0 /\ -d < n
      \/ d > 0 /\ w.count + Len(bs) > MaxPendingBytes
      \/ d > 0 /\ w.count + Len(bs) <= MaxPendingBytes
  <2>1. w.count \in Nat /\ MaxPendingBytes \in Nat BY <1>1, Caps DEF Keeps
  <2> QED BY <1>2, <1>3, <1>4, <2>1
<1> QED BY <1>5, <1>6, <1>7, <1>8, <1>9

(* A hole given up leaves it in step too. *)
LEMMA GivenUpTracks ==
    ASSUME NEW c \in DOMAIN Isn, NEW cap, IsTimes(cap), NEW pos, NEW f0, NEW w,
           Tracks(w, c, pos, cap, f0), NEW nb, Settles(w, c, pos, nb)
    PROVE  \E to \in 0 .. StreamLen : /\ Tracks(GivenUp(w), c, to, cap, f0)
                                      /\ Settles(GivenUp(w), c, to, nb)
<1>1. /\ pos \in 0 .. StreamLen /\ w.next = SeqNo(Byte(c, pos)) /\ Keeps(w.pending, w.count, c, cap, pos)
      /\ w.out \in Seq(Handed) /\ Folding(w.out)
      /\ \A g : FlowOf(w.out, f0, g) => FlowTrue(g, c, pos, cap)
  BY DEF Tracks
<1>2. CASE ~HoleIsOld(w)
  <2>1. GivenUp(w) = w BY <1>2 DEF GivenUp
  <2> QED BY <1>1, <2>1
<1>3. CASE HoleIsOld(w)
  <2> PICK P, D : P = w.pending /\ D = DOMAIN w.pending OBVIOUS
  <2>1. D # {} BY <1>3 DEF HoleIsOld
  <2>2. \A s \in D : IsHeld(P[s], s, c, cap, pos) BY <1>1 DEF Keeps
  <2>20. StreamLen \in Nat /\ HalfSpace \in Nat /\ 1 < HalfSpace BY Space
  <2>3. \A s \in D : SeqDiff(s, w.next) \in Nat
    <3> TAKE s \in D
    <3>1. PICK f \in 0 .. StreamLen, n \in 1 .. StreamLen :
            s = SeqNo(Byte(c, f)) /\ pos <= f /\ f + n - pos < HalfSpace
      BY <2>2 DEF IsHeld
    <3>2. SeqDiff(SeqNo(Byte(c, f)), SeqNo(Byte(c, pos))) = f - pos
      <4>1. f \in Nat /\ pos \in Nat /\ f - pos < HalfSpace /\ pos - f < HalfSpace BY <1>1, <2>20, <3>1
      <4> QED BY <4>1, SeqDistance
    <3>3. SeqDiff(s, w.next) = f - pos BY <1>1, <3>1, <3>2, Zenon
    <3>4. ~(SeqDiff(s, w.next) <= 0) BY DEF Settles, Ready
    <3>5. StreamLen \in Nat BY Space
    <3> QED BY <1>1, <3>3, <3>4, <3>5
  <2> DEFINE S == {SeqDiff(s, w.next) : s \in D}
  <2>4. PICK m \in S : \A u \in S : m <= u
    <3>1. S \subseteq Nat /\ S # {} BY <2>1, <2>3
    <3> HIDE DEF S
    <3> QED BY ONLY <3>1, LeastNumber
  <2>5. \E s \in DOMAIN w.pending : \A t \in DOMAIN w.pending : SeqDiff(s, w.next) <= SeqDiff(t, w.next)
    <3>1. PICK s \in D : m = SeqDiff(s, w.next) BY <2>4
    <3>2. \A t \in D : m <= SeqDiff(t, w.next) BY <2>4
    <3>3. \A t \in D : SeqDiff(s, w.next) <= SeqDiff(t, w.next) BY <3>1, <3>2
    <3> QED BY <3>3
  <2> PICK first : first = CHOOSE s \in DOMAIN w.pending :
                             \A t \in DOMAIN w.pending : SeqDiff(s, w.next) <= SeqDiff(t, w.next)
    OBVIOUS
  <2>6. first \in D BY <2>5
  <2> PICK p : p = P[first] OBVIOUS
  <2>7. PICK f \in 0 .. StreamLen, n \in 1 .. StreamLen :
          /\ f + n <= StreamLen /\ pos <= f /\ f + n - pos < HalfSpace /\ first = SeqNo(Byte(c, f)) /\ p.bytes = Payload(c, f, n)
          /\ p.wall \in Nat /\ \A b \in Range(p.bytes) : b \in DOMAIN cap /\ cap[b] <= p.wall
    BY <2>2, <2>6 DEF IsHeld
  <2> PICK less, k : less = Restrict(P, DOMAIN P \ {first}) /\ k = w.count - Len(p.bytes) OBVIOUS
  <2>8. Keeps(less, k, c, cap, pos)
    <3>1. Keeps(P, w.count, c, cap, pos) /\ first \in DOMAIN P BY <1>1, <2>6
    <3>2. less = Restrict(P, DOMAIN P \ {first}) /\ c \in DOMAIN Isn OBVIOUS
    <3>3. Keeps(less, w.count - Len(P[first].bytes), c, cap, pos) BY <3>1, <3>2, KeepsLess, Zenon
    <3> QED BY <3>3
  <2>18. f \in Nat /\ n \in Nat /\ pos \in Nat /\ n < HalfSpace /\ f - f < HalfSpace /\ f - pos < HalfSpace /\ pos - f < HalfSpace
         /\ f + n - f < HalfSpace
    BY <1>1, <2>7, <2>20
  <2>19. Keeps(less, k, c, cap, f)
    <3>1. ASSUME NEW s \in DOMAIN less, NEW g \in Nat, s = SeqNo(Byte(c, g)), pos <= g, g - pos < HalfSpace
          PROVE  f <= g
      <4>1. s \in D BY DEF Restrict
      <4>2. SeqDiff(first, w.next) <= SeqDiff(s, w.next) BY <2>5, <4>1
      <4>3. pos - g < HalfSpace BY <2>18, <2>20, <3>1
      <4>4. SeqDiff(SeqNo(Byte(c, g)), SeqNo(Byte(c, pos))) = g - pos BY <2>18, <3>1, <4>3, SeqDistance
      <4>5. SeqDiff(SeqNo(Byte(c, f)), SeqNo(Byte(c, pos))) = f - pos BY <2>18, SeqDistance
      <4>6. SeqDiff(s, w.next) = g - pos /\ SeqDiff(first, w.next) = f - pos
        BY <1>1, <2>7, <3>1, <4>4, <4>5, Zenon
      <4>7. f - pos <= g - pos BY <4>2, <4>6
      <4> QED BY <2>18, <4>7
    <3>2. \A s \in DOMAIN less, g \in Nat : s = SeqNo(Byte(c, g)) /\ pos <= g /\ g - pos < HalfSpace => f <= g
      BY <3>1, Zenon
    <3>3. pos <= f BY <2>7
    <3> QED BY ONLY <2>8, <2>18, <3>2, <3>3, c \in DOMAIN Isn, KeepsFrom
  <2> PICK v, bs, wall : /\ v = [next |-> first, pending |-> less, count |-> k, out |-> Append(w.out, Reset)]
                         /\ bs = p.bytes /\ wall = p.wall
    OBVIOUS
  <2>9. GivenUp(w) = Take(v, first, bs, wall) BY <1>3 DEF GivenUp, Jumped
  <2>10. \A g : FlowOf(w.out, f0, g) => FramesTrue(g.frames, cap) BY <1>1 DEF FlowTrue
  <2>16. /\ v.next = SeqNo(Byte(c, f)) /\ v.pending = less /\ v.count = k /\ v.out = Append(w.out, Reset)
         /\ v = [next |-> v.next, pending |-> v.pending, count |-> v.count, out |-> v.out]
    BY <2>7
  <2>17. Keeps(v.pending, v.count, c, cap, f) BY <2>16, <2>19, Zenon
  <2>11. Tracks(v, c, f, cap, f0) /\ \A g : FlowOf(v.out, f0, g) => g.buf = <<>>
    BY ONLY <1>1, <2>10, <2>16, <2>17, c \in DOMAIN Isn, f \in 0 .. StreamLen, ResetTracks
  <2>12. Timely(v, cap, f0, wall) BY <2>11 DEF Timely
  <2>13. f # f => Settles(v, c, f, nb) OBVIOUS
  <2>14. /\ f + n <= StreamLen /\ first = SeqNo(Byte(c, f)) /\ bs = Payload(c, f, n)
         /\ wall \in Nat /\ \A b \in Range(bs) : b \in DOMAIN cap /\ cap[b] <= wall
    BY <2>7
  <2>15. \E to \in 0 .. StreamLen : /\ Tracks(Take(v, first, bs, wall), c, to, cap, f0)
                                    /\ Settles(Take(v, first, bs, wall), c, to, nb)
    BY ONLY <2>11, <2>12, <2>13, <2>14, <2>18, c \in DOMAIN Isn, IsTimes(cap), f \in 0 .. StreamLen,
       n \in 1 .. StreamLen, TakeTracks
  <2> QED BY <2>9, <2>15, Zenon
<1> QED BY <1>2, <1>3

-----------------------------------------------------------------------------
(* The state between the turns. *)

\* The flow as a turn begins with it: it has no frames yet.
Blank(fl) == [buf |-> fl.buf, synced |-> fl.synced, frames |-> {}]

\* On a connection the reassembler and the flow stand at one position of it.
Placed(r, fl, nb, c, cap) ==
    \E pos \in 0 .. StreamLen :
        /\ nb = Byte(c, pos) /\ r = [next |-> r.next, pending |-> r.pending, count |-> r.count]
        /\ r.next = SeqNo(Byte(c, pos)) /\ Keeps(r.pending, r.count, c, cap, pos) /\ Ready(r) = {}
        /\ FlowTrue(Blank(fl), c, pos, cap)

\* Off one, both are as they began.
OffStream(r, fl) == r = Cleared /\ fl = [buf |-> <<>>, synced |-> FALSE]

Standing(r, fl, nb, c, cap) == IF r.next = NoNext THEN OffStream(r, fl) ELSE Placed(r, fl, nb, c, cap)

TapInv ==
    /\ tapNow \in 0 .. TapMaxTime /\ connection \in DOMAIN Isn /\ segments \in 0 .. MaxSegments
    /\ lastWall \in 0 .. tapNow
    /\ \A b \in DOMAIN captured : captured[b] \in 0 .. lastWall
    /\ FramesTrue(parsed, captured)
    /\ Standing(reassembler, flow, nextByte, connection, captured)

(* A turn that ends on a connection leaves both at one position of it. *)
LEMMA DeliverTracks ==
    ASSUME NEW c \in DOMAIN Isn, NEW cap, NEW to, NEW w, Tracks(w, c, to, cap, Blank(flow)),
           NEW at, Settles(w, c, to, at), connection' = c, Deliver(w, at)
    PROVE  /\ Standing(reassembler', flow', nextByte', c, cap)
           /\ FramesTrue(parsed', cap)
<1>1. /\ to \in 0 .. StreamLen /\ w.next = SeqNo(Byte(c, to)) /\ Keeps(w.pending, w.count, c, cap, to)
      /\ Folding(w.out) /\ \A f : FlowOf(w.out, Blank(flow), f) => FlowTrue(f, c, to, cap)
  BY DEF Tracks
<1> PICK f : f = FoldLeft(AfterDelivery, Blank(flow), w.out) OBVIOUS
<1>2. FlowOf(w.out, Blank(flow), f)
  <2>1. FlowOf(w.out, Blank(flow), FoldLeft(AfterDelivery, Blank(flow), w.out)) BY <1>1, FoldsToFlow, Zenon
  <2> QED BY <2>1, Zenon
<1>3. FlowTrue(f, c, to, cap) BY <1>1, <1>2
<1>4. to \in Nat /\ StreamLen \in Nat BY <1>1, Space
<1>5. w.next # NoNext
  <2>1. 0 \in Int /\ to + 0 >= 0 BY <1>4
  <2>2. SeqNo(Byte(c, to)) \in 0 .. SeqSpace - 1 BY <1>4, <2>1, NumberOn
  <2> QED BY <1>1, <2>2 DEF NoNext
<1>6. /\ reassembler' = Settled(w) /\ flow' = [buf |-> f.buf, synced |-> f.synced]
      /\ parsed' = f.frames
  BY DEF Deliver, Blank
<1> PICK r, fl, nb : r = reassembler' /\ fl = flow' /\ nb = nextByte' OBVIOUS
<1>7. nb = Byte(c, to)
  <2>1. nb = IF Delivers(w.out) # {}
             THEN LET b == Last(w.out[Max(Delivers(w.out))].bytes) IN Byte(b[1], b[2] + 1)
             ELSE at
    BY <1>5 DEF Deliver, Delivers
  <2>2. CASE Delivers(w.out) # {}
    <3> PICK b : b = Last(w.out[Max(Delivers(w.out))].bytes) OBVIOUS
    <3>1. b = Byte(c, to - 1) BY <2>2 DEF Settles, EndsAt
    <3>2. b[1] = c /\ b[2] = to - 1 BY <3>1 DEF Byte
    <3>3. b[2] + 1 = to BY <1>4, <3>2
    <3>4. nb = Byte(b[1], b[2] + 1) BY <2>1, <2>2
    <3> QED BY <3>2, <3>3, <3>4
  <2>3. CASE Delivers(w.out) = {}
    <3>1. at = Byte(c, to) BY <2>3 DEF Settles
    <3> QED BY <2>1, <2>3, <3>1
  <2> QED BY <2>2, <2>3
<1>8. /\ r.next = w.next /\ r.pending = w.pending /\ r.count = w.count
      /\ r = [next |-> r.next, pending |-> r.pending, count |-> r.count]
  BY <1>6 DEF Settled
<1>9. Ready(r) = {} BY <1>8 DEF Settles, Ready
<1>10. FlowTrue(Blank(fl), c, to, cap)
  <2>1. fl.buf = f.buf /\ fl.synced = f.synced BY <1>6
  <2> PICK e : e = Blank(fl) OBVIOUS
  <2>2. e = [buf |-> f.buf, synced |-> f.synced, frames |-> {}] BY <2>1 DEF Blank
  <2>3. e.buf = f.buf /\ e.synced = f.synced /\ e.frames = {} BY <2>2
  <2>4. e = [buf |-> e.buf, synced |-> e.synced, frames |-> e.frames] BY <2>2
  <2>5. FramesTrue(e.frames, cap) BY <2>3 DEF FramesTrue
  <2>6. FlowTrue(e, c, to, cap) BY <1>3, <2>3, <2>4, <2>5, Zenon DEF FlowTrue
  <2> QED BY <2>6
<1>11. FramesTrue(f.frames, cap) BY <1>3 DEF FlowTrue
<1>12. Keeps(r.pending, r.count, c, cap, to) BY <1>1, <1>8
<1>13. Placed(r, fl, nb, c, cap)
  BY <1>1, <1>7, <1>8, <1>9, <1>10, <1>12 DEF Placed
<1>14. r.next # NoNext BY <1>5, <1>8
<1>15. Standing(r, fl, nb, c, cap) BY <1>13, <1>14 DEF Standing
<1> QED BY <1>6, <1>11, <1>15

(* A turn that ends off one leaves both as they began. *)
LEMMA DeliverEnds ==
    ASSUME NEW c, NEW cap, NEW w, NEW at, Settled(w) = Cleared, Folding(w.out),
           \A f : FlowOf(w.out, Blank(flow), f) => f.buf = <<>> /\ f.synced = FALSE /\ f.frames = {},
           Deliver(w, at)
    PROVE  /\ Standing(reassembler', flow', nextByte', c, cap)
           /\ FramesTrue(parsed', cap)
<1> PICK f : f = FoldLeft(AfterDelivery, Blank(flow), w.out) OBVIOUS
<1>1. FlowOf(w.out, Blank(flow), f)
  <2>1. FlowOf(w.out, Blank(flow), FoldLeft(AfterDelivery, Blank(flow), w.out)) BY FoldsToFlow, Zenon
  <2> QED BY <2>1, Zenon
<1>3. f.buf = <<>> /\ f.synced = FALSE /\ f.frames = {} BY <1>1
<1>4. /\ reassembler' = Cleared /\ flow' = [buf |-> f.buf, synced |-> f.synced]
      /\ parsed' = f.frames
  BY DEF Deliver, Blank
<1>5. OffStream(reassembler', flow') BY <1>3, <1>4 DEF OffStream
<1>6. reassembler'.next = NoNext BY <1>4 DEF Cleared
<1> QED BY <1>3, <1>4, <1>5, <1>6 DEF Standing, FramesTrue

-----------------------------------------------------------------------------
\* Nothing captured is forgotten or captured anew.
Grown(cap, more) == \A b \in DOMAIN cap : b \in DOMAIN more /\ more[b] = cap[b]

LEMMA KeepsOn ==
    ASSUME NEW P, NEW k, NEW c, NEW cap, NEW more, NEW lo, Keeps(P, k, c, cap, lo), Grown(cap, more)
    PROVE  Keeps(P, k, c, more, lo)
<1>1. ASSUME NEW s \in DOMAIN P PROVE IsHeld(P[s], s, c, more, lo)
  <2>1. IsHeld(P[s], s, c, cap, lo) BY DEF Keeps
  <2>2. PICK f \in 0 .. StreamLen, n \in 1 .. StreamLen :
          /\ f + n <= StreamLen /\ lo <= f /\ f + n - lo < HalfSpace /\ s = SeqNo(Byte(c, f)) /\ P[s].bytes = Payload(c, f, n)
          /\ P[s].wall \in Nat /\ \A b \in Range(P[s].bytes) : b \in DOMAIN cap /\ cap[b] <= P[s].wall
    BY <2>1 DEF IsHeld
  <2>3. \A b \in Range(P[s].bytes) : b \in DOMAIN more /\ more[b] <= P[s].wall BY <2>2 DEF Grown
  <2> QED BY <2>2, <2>3 DEF IsHeld
<1> QED BY <1>1 DEF Keeps

LEMMA FreshOn ==
    ASSUME NEW fl, NEW c, NEW pos, NEW cap, NEW more, FlowTrue(Blank(fl), c, pos, cap), Grown(cap, more)
    PROVE  FlowTrue(Blank(fl), c, pos, more)
<1> PICK e : e = Blank(fl) OBVIOUS
<1>1. e.frames = {} BY DEF Blank
<1>2. FramesTrue(e.frames, more) BY <1>1 DEF FramesTrue
<1>3. \A b \in Range(e.buf) : b \in DOMAIN more BY DEF FlowTrue, Grown
<1>4. FlowTrue(e, c, pos, more) BY <1>2, <1>3 DEF FlowTrue
<1> QED BY <1>4

(* What Capture remembers. *)
LEMMA Captured ==
    ASSUME lastWall \in Nat, \A b \in DOMAIN captured : captured[b] \in 0 .. lastWall,
           NEW bs, NEW wall \in Nat, lastWall <= wall, Capture(bs, wall), NEW cap, cap = captured'
    PROVE  /\ Grown(captured, cap) /\ IsTimes(cap)
           /\ \A b \in DOMAIN cap : cap[b] \in 0 .. wall
           /\ \A b \in Range(bs) : b \in DOMAIN cap
<1>1. cap = [b \in DOMAIN captured \cup Range(bs) |-> IF b \in DOMAIN captured THEN captured[b] ELSE wall]
  BY DEF Capture
<1>2. Grown(captured, cap) BY <1>1 DEF Grown
<1>3. ASSUME NEW b \in DOMAIN cap PROVE cap[b] \in 0 .. wall
  <2>1. CASE b \in DOMAIN captured
    <3>1. cap[b] = captured[b] /\ captured[b] \in 0 .. lastWall BY <1>1, <2>1
    <3> QED BY <3>1
  <2>2. CASE b \notin DOMAIN captured
    <3>1. cap[b] = wall BY <1>1, <2>2
    <3> QED BY <3>1
  <2> QED BY <2>1, <2>2
<1>4. IsTimes(cap) BY <1>3 DEF IsTimes
<1>5. \A b \in Range(bs) : b \in DOMAIN cap BY <1>1
<1> QED BY <1>2, <1>3, <1>4, <1>5

(* A turn begins in step, with nothing handed on, wherever a connection is stood at. *)
LEMMA BeginTracks ==
    ASSUME NEW c \in DOMAIN Isn, NEW cap, NEW pos \in 0 .. StreamLen, NEW fl,
           FlowTrue(Blank(fl), c, pos, cap),
           NEW v, v = [next |-> v.next, pending |-> v.pending, count |-> v.count, out |-> v.out],
           v.next = SeqNo(Byte(c, pos)), Keeps(v.pending, v.count, c, cap, pos), v.out = <<>>
    PROVE  /\ Tracks(v, c, pos, cap, Blank(fl))
           /\ Delivers(v.out) = {}
<1>1. <<>> \in Seq(Handed) OBVIOUS
<1>2. Folding(<<>>) /\ \A f0, f : FlowOf(<<>>, f0, f) => f = f0 BY FoldNothing
<1>3. Delivers(<<>>) = {} BY DEF Delivers
<1>4. \A f : FlowOf(v.out, Blank(fl), f) => FlowTrue(f, c, pos, cap)
  <2> SUFFICES ASSUME NEW f, FlowOf(v.out, Blank(fl), f) PROVE FlowTrue(f, c, pos, cap) OBVIOUS
  <2>1. f = Blank(fl) BY <1>2
  <2> QED BY <2>1
<1> QED BY <1>1, <1>2, <1>3, <1>4 DEF Tracks

(* A flow off a connection is in step anywhere. *)
LEMMA OffIsTrue ==
    ASSUME NEW r, NEW fl, OffStream(r, fl), NEW c, NEW pos \in 0 .. StreamLen, NEW cap
    PROVE  FlowTrue(Blank(fl), c, pos, cap) /\ fl.buf = <<>> /\ fl.synced = FALSE
<1> PICK e : e = Blank(fl) OBVIOUS
<1>1. fl.buf = <<>> /\ fl.synced = FALSE BY DEF OffStream
<1>2. e = [buf |-> <<>>, synced |-> FALSE, frames |-> {}] BY <1>1 DEF Blank
<1>3. e.buf = <<>> /\ e.synced = FALSE /\ e.frames = {} BY <1>2
<1>4. e = [buf |-> e.buf, synced |-> e.synced, frames |-> e.frames] BY <1>2
<1>5. StreamLen \in Nat /\ pos \in Nat BY Space
<1>6. \E l \in 0 .. pos : e.buf = Payload(c, pos - l, l) /\ (e.synced => AtBoundary(pos - l))
  <2>1. pos - 0 = pos /\ 0 \in 0 .. pos BY <1>5
  <2>2. Payload(c, pos, 0) = <<>> BY <1>5, NoPiece
  <2> QED BY <1>3, <2>1, <2>2
<1>7. Range(<<>>) = {} BY DEF Range
<1>8. FramesTrue(e.frames, cap) BY <1>3 DEF FramesTrue
<1>9. FlowTrue(e, c, pos, cap) BY <1>3, <1>4, <1>6, <1>7, <1>8 DEF FlowTrue
<1> QED BY <1>1, <1>9

(* A reassembler placed on a connection begins its turn there. *)
LEMMA PlacedTracks ==
    ASSUME NEW r, NEW fl, NEW nb, NEW c \in DOMAIN Isn, NEW cap, Placed(r, fl, nb, c, cap),
           NEW more, Grown(cap, more)
    PROVE  \E pos \in 0 .. StreamLen : /\ nb = Byte(c, pos)
                                       /\ Tracks(Working(r), c, pos, more, Blank(fl))
                                       /\ Settles(Working(r), c, pos, nb)
<1>1. PICK pos \in 0 .. StreamLen :
        /\ nb = Byte(c, pos) /\ r = [next |-> r.next, pending |-> r.pending, count |-> r.count]
        /\ r.next = SeqNo(Byte(c, pos)) /\ Keeps(r.pending, r.count, c, cap, pos) /\ Ready(r) = {}
        /\ FlowTrue(Blank(fl), c, pos, cap)
  BY DEF Placed
<1> PICK v : v = Working(r) OBVIOUS
<1>2. /\ v.next = r.next /\ v.pending = r.pending /\ v.count = r.count /\ v.out = <<>>
      /\ v = [next |-> v.next, pending |-> v.pending, count |-> v.count, out |-> v.out]
  BY DEF Working
<1>3. FlowTrue(Blank(fl), c, pos, more) BY <1>1, FreshOn
<1>4. Keeps(v.pending, v.count, c, more, pos)
  <2>1. Keeps(r.pending, r.count, c, more, pos) BY <1>1, KeepsOn
  <2> QED BY <1>2, <2>1
<1>5. Tracks(v, c, pos, more, Blank(fl)) /\ Delivers(v.out) = {}
  <2>1. v.next = SeqNo(Byte(c, pos)) BY <1>1, <1>2, Zenon
  <2> QED BY ONLY <1>2, <1>3, <1>4, <2>1, c \in DOMAIN Isn, pos \in 0 .. StreamLen, BeginTracks
<1>6. Ready(v) = {} BY <1>1, <1>2 DEF Ready
<1>7. Settles(v, c, pos, nb) BY <1>1, <1>5, <1>6 DEF Settles
<1> QED BY <1>1, <1>5, <1>7

-----------------------------------------------------------------------------
(* What a turn with a segment leaves but for the reassembler, the flow and the frames. *)
LEMMA CaptureTypes ==
    ASSUME TapInv, NEW bs, NEW wall \in Stamps, Capture(bs, wall), UNCHANGED tapNow,
           connection' \in DOMAIN Isn,
           Standing(reassembler', flow', nextByte', connection', captured'), FramesTrue(parsed', captured')
    PROVE  TapInv'
<1>1. /\ tapNow \in 0 .. TapMaxTime /\ segments \in 0 .. MaxSegments /\ lastWall \in 0 .. tapNow
      /\ \A b \in DOMAIN captured : captured[b] \in 0 .. lastWall
  BY DEF TapInv
<1>2. TapMaxTime \in Nat /\ MaxSegments \in Nat BY Caps
<1>3. tapNow \in Nat /\ lastWall \in Nat /\ wall \in Nat /\ lastWall <= wall /\ wall <= tapNow
  BY <1>1, <1>2 DEF Stamps
<1> PICK cap : cap = captured' OBVIOUS
<1>4. \A b \in DOMAIN cap : cap[b] \in 0 .. wall BY <1>1, <1>3, Captured
<1>5. segments < MaxSegments /\ segments' = segments + 1 /\ lastWall' = wall BY DEF Capture
<1>6. segments' \in 0 .. MaxSegments BY <1>1, <1>2, <1>5
<1>7. tapNow' \in 0 .. TapMaxTime /\ lastWall' \in 0 .. tapNow' BY <1>1, <1>3, <1>5
<1>8. \A b \in DOMAIN captured' : captured'[b] \in 0 .. lastWall' BY <1>4, <1>5
<1> QED BY <1>6, <1>7, <1>8 DEF TapInv

LEMMA DataStep == ASSUME TapInv, Data PROVE TapInv'
<1>1. /\ connection \in DOMAIN Isn /\ tapNow \in 0 .. TapMaxTime /\ lastWall \in 0 .. tapNow
      /\ \A b \in DOMAIN captured : captured[b] \in 0 .. lastWall
      /\ Standing(reassembler, flow, nextByte, connection, captured)
  BY DEF TapInv
<1>2. PICK from \in 0 .. StreamLen - 1, n \in SegLens, wall \in Stamps :
        /\ from + n <= StreamLen /\ Nearby(from, n) /\ Capture(Payload(connection, from, n), wall)
        /\ connection' = connection /\ UNCHANGED tapNow
        /\ Deliver(GivenUp(Take([Working(reassembler) EXCEPT
                                    !.next = IF @ = NoNext THEN SeqNo(Payload(connection, from, n)[1]) ELSE @],
                                SeqNo(Payload(connection, from, n)[1]), Payload(connection, from, n), wall)), nextByte)
  BY DEF Data
<1> PICK c, bs, seq, cap : /\ c = connection /\ bs = Payload(connection, from, n) /\ seq = SeqNo(bs[1])
                           /\ cap = captured'
  OBVIOUS
<1> PICK j : j = [Working(reassembler) EXCEPT !.next = IF @ = NoNext THEN seq ELSE @] OBVIOUS
<1>3. StreamLen \in Nat /\ n \in Nat /\ n # 0 /\ n < HalfSpace /\ TapMaxTime \in Nat
  <2>1. SegLens \subseteq Nat \ {0} /\ \A l \in SegLens : l < HalfSpace BY TapAssumption DEF HalfSpace
  <2> QED BY <2>1, Space, Caps
<1>4. from \in 0 .. StreamLen /\ n \in 1 .. StreamLen /\ from \in Nat BY <1>2, <1>3
<1>5. /\ Capture(bs, wall) /\ bs = Payload(c, from, n) /\ from + n <= StreamLen
      /\ Deliver(GivenUp(Take(j, seq, bs, wall)), nextByte)
  BY <1>2
<1>6. tapNow \in Nat /\ lastWall \in Nat /\ wall \in Nat /\ lastWall <= wall
  BY <1>1, <1>3 DEF Stamps
<1>7. /\ Grown(captured, cap) /\ IsTimes(cap) /\ \A b \in DOMAIN cap : cap[b] \in 0 .. wall
      /\ \A b \in Range(bs) : b \in DOMAIN cap
  BY <1>1, <1>5, <1>6, Captured
<1>8. \A b \in DOMAIN cap : cap[b] <= wall BY <1>7
<1>9. \A b \in Range(bs) : b \in DOMAIN cap /\ cap[b] <= wall BY <1>7, <1>8
<1>10. seq = SeqNo(Byte(c, from))
  <2>1. 1 \in 1 .. n /\ from + 1 - 1 = from BY <1>3, <1>4
  <2>2. \A i \in 1 .. n : Payload(c, from, n)[i] = Byte(c, from + i - 1)
    BY ONLY <1>3, <1>4, PayloadIs
  <2>3. bs[1] = Byte(c, from) BY <1>5, <2>1, <2>2
  <2> QED BY <2>3, Zenon
<1>11. c \in DOMAIN Isn BY <1>1
<1>12. PICK pos \in 0 .. StreamLen : /\ Tracks(j, c, pos, cap, Blank(flow))
                                     /\ from # pos => Settles(j, c, pos, nextByte)
                                     /\ pos - from < HalfSpace /\ from + n - pos < HalfSpace
  <2> PICK r : r = reassembler OBVIOUS
  <2>1. CASE r.next = NoNext
    <3>1. OffStream(r, flow) BY <1>1, <2>1 DEF Standing
    <3>2. r = Cleared BY <3>1 DEF OffStream
    <3> PICK P : P = Cleared.pending OBVIOUS
    <3>3. j = [next |-> seq, pending |-> P, count |-> 0, out |-> <<>>]
      <4> PICK v : v = Working(r) OBVIOUS
      <4>1. r.next = NoNext /\ r.pending = P /\ r.count = 0 BY <3>2 DEF Cleared
      <4>2. v = [next |-> NoNext, pending |-> P, count |-> 0, out |-> <<>>] BY <4>1 DEF Working
      <4>3. v.next = NoNext BY <4>2
      <4>4. j = [v EXCEPT !.next = seq] BY <4>3
      <4>5. [v EXCEPT !.next = seq] = [next |-> seq, pending |-> P, count |-> 0, out |-> <<>>]
        BY ONLY <4>2
      <4> QED BY <4>4, <4>5, Zenon
    <3>4. /\ j.next = seq /\ j.pending = P /\ j.count = 0 /\ j.out = <<>>
          /\ j = [next |-> j.next, pending |-> j.pending, count |-> j.count, out |-> j.out]
      <4> PICK zero, none : zero = 0 /\ none = <<>> OBVIOUS
      <4>1. j = [next |-> seq, pending |-> P, count |-> zero, out |-> none] BY <3>3
      <4>2. j.next = seq /\ j.pending = P /\ j.count = zero /\ j.out = none BY ONLY <4>1
      <4>3. j = [next |-> j.next, pending |-> j.pending, count |-> j.count, out |-> j.out]
        BY <4>1, <4>2, Zenon
      <4> QED BY <4>2, <4>3
    <3>5. FlowTrue(Blank(flow), c, from, cap) BY <1>4, <3>1, OffIsTrue
    <3>6. Keeps(j.pending, j.count, c, cap, from)
      <4>1. Keeps(P, 0, c, cap, from) BY <1>11, KeepsNone
      <4> QED BY <3>4, <4>1, Zenon
    <3>7. j.next = SeqNo(Byte(c, from)) BY <1>10, <3>4, Zenon
    <3>8. Tracks(j, c, from, cap, Blank(flow))
      BY ONLY <1>4, <1>11, <3>4, <3>5, <3>6, <3>7, BeginTracks
    <3>9. from - from < HalfSpace /\ from + n - from < HalfSpace
      <4>1. HalfSpace \in Nat /\ 1 < HalfSpace BY Space
      <4> QED BY <1>3, <1>4, <4>1
    <3> QED BY <1>4, <3>8, <3>9
  <2>2. CASE r.next # NoNext
    <3>1. Placed(r, flow, nextByte, c, captured) BY <1>1, <2>2 DEF Standing
    <3>2. j = Working(r)
      <4> PICK v : v = Working(r) OBVIOUS
      <4>1. v = [next |-> r.next, pending |-> r.pending, count |-> r.count, out |-> <<>>] BY DEF Working
      <4>2. v.next # NoNext BY <2>2, <4>1
      <4>3. j = [v EXCEPT !.next = v.next] BY <4>2
      <4> PICK a, b, k, o : a = r.next /\ b = r.pending /\ k = r.count /\ o = <<>> OBVIOUS
      <4>4. v = [next |-> a, pending |-> b, count |-> k, out |-> o] /\ v.next = a BY <4>1
      <4>5. [v EXCEPT !.next = a] = [next |-> a, pending |-> b, count |-> k, out |-> o]
        BY ONLY <4>4
      <4>6. j = v BY <4>3, <4>4, <4>5, Zenon
      <4> QED BY <4>6
    <3>3. PICK pos \in 0 .. StreamLen : /\ nextByte = Byte(c, pos)
                                        /\ Tracks(Working(r), c, pos, cap, Blank(flow))
                                        /\ Settles(Working(r), c, pos, nextByte)
      BY ONLY <1>7, <1>11, <3>1, PlacedTracks
    <3>4. nextByte[2] = pos BY <3>3 DEF Byte
    <3>5. nextByte[2] - from < HalfSpace /\ from + n - nextByte[2] < HalfSpace BY <1>2, <2>2 DEF Nearby, HalfSpace
    <3>6. pos - from < HalfSpace /\ from + n - pos < HalfSpace BY <3>4, <3>5
    <3> QED BY <3>2, <3>3, <3>6, Zenon
  <2> QED BY <2>1, <2>2
<1>13. Timely(j, cap, Blank(flow), wall) BY <1>8 DEF Timely
<1> PICK w1 : w1 = Take(j, seq, bs, wall) OBVIOUS
<1>14. PICK t1 \in 0 .. StreamLen : /\ Tracks(w1, c, t1, cap, Blank(flow))
                                    /\ Settles(w1, c, t1, nextByte)
  <2>1. \E to \in 0 .. StreamLen : /\ Tracks(Take(j, seq, bs, wall), c, to, cap, Blank(flow))
                                   /\ Settles(Take(j, seq, bs, wall), c, to, nextByte)
    BY ONLY <1>4, <1>5, <1>6, <1>7, <1>9, <1>10, <1>11, <1>12, <1>13, TakeTracks
  <2> QED BY <2>1, Zenon
<1> PICK w2 : w2 = GivenUp(w1) OBVIOUS
<1>15. PICK t2 \in 0 .. StreamLen : /\ Tracks(w2, c, t2, cap, Blank(flow))
                                    /\ Settles(w2, c, t2, nextByte)
  <2>1. \E to \in 0 .. StreamLen : /\ Tracks(GivenUp(w1), c, to, cap, Blank(flow))
                                   /\ Settles(GivenUp(w1), c, to, nextByte)
    BY ONLY <1>7, <1>11, <1>14, GivenUpTracks
  <2> QED BY <2>1, Zenon
<1>16. Deliver(w2, nextByte) /\ connection' = c BY <1>2, <1>5
<1>17. /\ Standing(reassembler', flow', nextByte', c, cap)
       /\ FramesTrue(parsed', cap)
  BY <1>11, <1>15, <1>16, DeliverTracks
<1>18. /\ Standing(reassembler', flow', nextByte', connection', captured')
       /\ FramesTrue(parsed', captured') /\ connection' \in DOMAIN Isn
  BY <1>11, <1>16, <1>17
<1> QED BY <1>2, <1>5, <1>18, CaptureTypes

-----------------------------------------------------------------------------
(* Closing hands on at most a Reset, and the flow begins again. *)
LEMMA ClosedIs ==
    ASSUME NEW r, NEW fl, NEW nb, NEW c, NEW cap, Standing(r, fl, nb, c, cap),
           NEW off, off = [buf |-> <<>>, synced |-> FALSE], NEW out, out = Closed(r).out
    PROVE  /\ out \in Seq(Handed) /\ Folding(out) /\ Delivers(out) = {}
           /\ \A f : FlowOf(out, Blank(fl), f) => f = Blank(off)
<1>0. /\ <<>> \in Seq(Handed) /\ Delivers(<<>>) = {} /\ Folding(<<>>)
      /\ \A f0, f : FlowOf(<<>>, f0, f) => f = f0
  <2>1. Delivers(<<>>) = {} BY DEF Delivers
  <2> QED BY <2>1, FoldNothing
<1>1. CASE r.next = NoNext
  <2>1. out = <<>> BY <1>1 DEF Closed
  <2>2. fl = off BY <1>1 DEF Standing, OffStream
  <2>3. \A f : FlowOf(out, Blank(fl), f) => f = Blank(off) BY <1>0, <2>1, <2>2
  <2> QED BY <1>0, <2>1, <2>3
<1>2. CASE r.next # NoNext
  <2>1. out = <<Reset>> BY <1>2 DEF Closed
  <2>2. Append(<<>>, Reset) = <<Reset>> /\ Reset \in Handed BY DEF Handed
  <2>3. /\ Append(<<>>, Reset) \in Seq(Handed) /\ Delivers(Append(<<>>, Reset)) = Delivers(<<>>)
        /\ Folding(Append(<<>>, Reset))
        /\ \A f0, f : FlowOf(Append(<<>>, Reset), f0, f) =>
              \E e : FlowOf(<<>>, f0, e) /\ f = AfterDelivery(e, Reset)
    <3>1. Append(<<>>, Reset) \in Seq(Handed) /\ Delivers(Append(<<>>, Reset)) = Delivers(<<>>)
      BY <1>0, ResetAfter
    <3>2. Folding(<<>>) => Folding(Append(<<>>, Reset)) BY ONLY <1>0, <2>2, FoldMore
    <3>3. \A f0, f : FlowOf(Append(<<>>, Reset), f0, f) =>
              \E e : FlowOf(<<>>, f0, e) /\ f = AfterDelivery(e, Reset)
      BY ONLY <1>0, <2>2, FoldMore
    <3> QED BY <1>0, <3>1, <3>2, <3>3
  <2> PICK o : o = Append(<<>>, Reset) OBVIOUS
  <2>4. out = o BY <2>1, <2>2
  <2>5. ASSUME NEW f, FlowOf(out, Blank(fl), f) PROVE f = Blank(off)
    <3>1. FlowOf(o, Blank(fl), f) BY <2>4, <2>5
    <3>2. PICK e : FlowOf(<<>>, Blank(fl), e) /\ f = AfterDelivery(e, Reset) BY <2>3, <3>1
    <3>3. e = Blank(fl) BY <1>0, <3>2
    <3>4. e.frames = {} BY <3>3 DEF Blank
    <3>5. f = [buf |-> <<>>, synced |-> FALSE, frames |-> e.frames]
      BY <3>2 DEF AfterDelivery, Reset
    <3>6. f = [buf |-> <<>>, synced |-> FALSE, frames |-> {}] BY <3>4, <3>5
    <3>7. off.buf = <<>> /\ off.synced = FALSE OBVIOUS
    <3> QED BY <3>6, <3>7 DEF Blank
  <2> QED BY <1>0, <2>3, <2>4, <2>5
<1> QED BY <1>1, <1>2

LEMMA SynStep == ASSUME TapInv, Syn PROVE TapInv'
<1>1. /\ connection \in DOMAIN Isn /\ tapNow \in 0 .. TapMaxTime /\ lastWall \in 0 .. tapNow
      /\ \A b \in DOMAIN captured : captured[b] \in 0 .. lastWall
      /\ Standing(reassembler, flow, nextByte, connection, captured)
  BY DEF TapInv
<1>2. PICK c \in {connection, connection + 1} \cap DOMAIN Isn, n \in 0 .. 1, wall \in Stamps :
        /\ Capture(Payload(c, 0, n), wall) /\ connection' = c /\ UNCHANGED tapNow
        /\ Deliver(IF Payload(c, 0, n) = <<>>
                   THEN [Closed(reassembler) EXCEPT !.next = SeqNo(Byte(c, 0))]
                   ELSE Take([Closed(reassembler) EXCEPT !.next = SeqNo(Byte(c, 0))],
                             [Closed(reassembler) EXCEPT !.next = SeqNo(Byte(c, 0))].next,
                             Payload(c, 0, n), wall), Byte(c, 0))
  BY DEF Syn
<1> PICK bs, seq, cap, r : bs = Payload(c, 0, n) /\ seq = SeqNo(Byte(c, 0)) /\ cap = captured' /\ r = reassembler
  OBVIOUS
<1> PICK w : w = [Closed(r) EXCEPT !.next = seq] OBVIOUS
<1> PICK P, out : P = Cleared.pending /\ out = Closed(r).out OBVIOUS
<1> PICK off : off = [buf |-> <<>>, synced |-> FALSE] OBVIOUS
<1>3. Capture(bs, wall) /\ Deliver(IF bs = <<>> THEN w ELSE Take(w, w.next, bs, wall), Byte(c, 0)) BY <1>2
<1>4. c \in DOMAIN Isn BY <1>2
<1>5. StreamLen \in Nat /\ StreamLen >= 1 /\ TapMaxTime \in Nat /\ 0 \in 0 .. StreamLen /\ 0 \in Nat
  <2>1. StreamLen \in Nat \ {0} BY Space
  <2>2. StreamLen \in Nat /\ StreamLen >= 1 BY ONLY <2>1
  <2> QED BY <2>2, Caps
<1>6. tapNow \in Nat /\ lastWall \in Nat /\ wall \in Nat /\ lastWall <= wall
  BY <1>1, <1>5 DEF Stamps
<1>7. /\ Grown(captured, cap) /\ IsTimes(cap) /\ \A b \in DOMAIN cap : cap[b] \in 0 .. wall
      /\ \A b \in Range(bs) : b \in DOMAIN cap
  BY <1>1, <1>3, <1>6, Captured
<1>8. \A b \in DOMAIN cap : cap[b] <= wall BY <1>7
<1>9. \A b \in Range(bs) : b \in DOMAIN cap /\ cap[b] <= wall BY <1>7, <1>8
<1>10. /\ out \in Seq(Handed) /\ Folding(out) /\ Delivers(out) = {}
       /\ \A f : FlowOf(out, Blank(flow), f) => f = Blank(off)
  <2>1. Standing(r, flow, nextByte, connection, captured) BY <1>1
  <2> QED BY <2>1, ClosedIs, Zenon
<1>11. /\ w.next = seq /\ w.pending = P /\ w.count = 0 /\ w.out = out
       /\ w = [next |-> w.next, pending |-> w.pending, count |-> w.count, out |-> w.out]
  <2> PICK v, no, zero : v = Closed(r) /\ no = NoNext /\ zero = 0 OBVIOUS
  <2>1. v = [next |-> no, pending |-> P, count |-> zero, out |-> out]
    <3> PICK o : o = IF r.next = NoNext THEN <<>> ELSE <<Reset>> OBVIOUS
    <3>1. v = [next |-> no, pending |-> P, count |-> zero, out |-> o] BY DEF Closed
    <3>2. o = out BY <3>1
    <3> QED BY <3>1, <3>2
  <2> PICK s : s = seq OBVIOUS
  <2>6. [v EXCEPT !.next = s] = [next |-> s, pending |-> P, count |-> zero, out |-> out]
    BY ONLY <2>1
  <2>2. [v EXCEPT !.next = seq] = [next |-> seq, pending |-> P, count |-> zero, out |-> out]
    BY <2>6
  <2>3. w = [next |-> seq, pending |-> P, count |-> zero, out |-> out] BY <2>2
  <2>4. w.next = seq /\ w.pending = P /\ w.count = zero /\ w.out = out BY ONLY <2>3
  <2>5. w = [next |-> w.next, pending |-> w.pending, count |-> w.count, out |-> w.out]
    BY <2>3, <2>4, Zenon
  <2> QED BY <2>4, <2>5
<1>12. Keeps(w.pending, w.count, c, cap, 0)
  <2>1. Keeps(P, 0, c, cap, 0) BY <1>4, KeepsNone
  <2> QED BY <1>11, <2>1, Zenon
<1>13. FlowTrue(Blank(off), c, 0, cap)
  <2>1. OffStream(Cleared, off) BY DEF OffStream
  <2> QED BY <1>5, <2>1, OffIsTrue
<1>14. w.next = SeqNo(Byte(c, 0)) BY <1>11
<1>15. Tracks(w, c, 0, cap, Blank(flow))
  <2>1. \A f : FlowOf(w.out, Blank(flow), f) => FlowTrue(f, c, 0, cap) BY <1>10, <1>11, <1>13
  <2> QED BY <1>5, <1>10, <1>11, <1>12, <1>14, <2>1 DEF Tracks
<1>16. Settles(w, c, 0, Byte(c, 0))
  <2>1. DOMAIN P = {} BY DEF Cleared
  <2>2. Ready(w) = {} BY <1>11, <2>1 DEF Ready
  <2>3. Delivers(w.out) = {} BY <1>10, <1>11
  <2> QED BY <2>2, <2>3 DEF Settles
<1> PICK w2 : w2 = IF bs = <<>> THEN w ELSE Take(w, w.next, bs, wall) OBVIOUS
<1>17. \E to \in 0 .. StreamLen : /\ Tracks(w2, c, to, cap, Blank(flow))
                                  /\ Settles(w2, c, to, Byte(c, 0))
  <2>1. CASE bs = <<>> BY <1>5, <1>15, <1>16, <2>1
  <2>2. CASE bs # <<>>
    <3>1. n # 0
      <4>1. n \in Nat OBVIOUS
      <4>2. Payload(c, 0, 0) = <<>> BY <1>5, NoPiece
      <4> QED BY <2>2, <4>2
    <3>7. HalfSpace \in Nat /\ 1 < HalfSpace BY Space
    <3>2. /\ n = 1 /\ 1 \in 1 .. StreamLen /\ 0 + 1 <= StreamLen /\ 0 - 0 < HalfSpace /\ 0 + 1 - 0 < HalfSpace
      BY <1>5, <3>1, <3>7
    <3>3. bs = Payload(c, 0, 1) BY <3>2
    <3>4. Timely(w, cap, Blank(flow), wall) BY <1>8 DEF Timely
    <3> PICK s : s = w.next OBVIOUS
    <3>5. s = SeqNo(Byte(c, 0)) /\ (0 # 0 => Settles(w, c, 0, Byte(c, 0))) BY <1>14
    <3>6. \E to \in 0 .. StreamLen : /\ Tracks(Take(w, s, bs, wall), c, to, cap, Blank(flow))
                                     /\ Settles(Take(w, s, bs, wall), c, to, Byte(c, 0))
      BY ONLY <1>4, <1>5, <1>6, <1>7, <1>9, <1>15, <3>2, <3>3, <3>4, <3>5, TakeTracks
    <3> QED BY <2>2, <3>6
  <2> QED BY <2>1, <2>2
<1>18. Deliver(w2, Byte(c, 0)) /\ connection' = c BY <1>2, <1>3
<1>19. /\ Standing(reassembler', flow', nextByte', c, cap)
       /\ FramesTrue(parsed', cap)
  BY <1>4, <1>17, <1>18, DeliverTracks
<1>20. /\ Standing(reassembler', flow', nextByte', connection', captured')
       /\ FramesTrue(parsed', captured') /\ connection' \in DOMAIN Isn
  BY <1>4, <1>18, <1>19
<1> QED BY <1>2, <1>3, <1>20, CaptureTypes

LEMMA CloseStep == ASSUME TapInv, Close PROVE TapInv'
<1>1. /\ connection \in DOMAIN Isn /\ Standing(reassembler, flow, nextByte, connection, captured)
  BY DEF TapInv
<1>2. PICK wall \in Stamps : Capture(<<>>, wall) BY DEF Close
<1> PICK w, off, out : /\ w = Closed(reassembler) /\ off = [buf |-> <<>>, synced |-> FALSE] /\ out = w.out
  OBVIOUS
<1>3. /\ Deliver(w, Nobody) /\ connection' = connection /\ UNCHANGED tapNow BY DEF Close
<1>4. /\ Folding(out) /\ \A f : FlowOf(out, Blank(flow), f) => f = Blank(off)
  <2>1. out = Closed(reassembler).out BY Zenon
  <2> QED BY <1>1, <2>1, ClosedIs, Zenon
<1>5. Settled(w) = Cleared BY DEF Settled, Closed, Cleared
<1>6. \A f : FlowOf(w.out, Blank(flow), f) => f.buf = <<>> /\ f.synced = FALSE /\ f.frames = {}
  <2> SUFFICES ASSUME NEW f, FlowOf(w.out, Blank(flow), f)
               PROVE  f.buf = <<>> /\ f.synced = FALSE /\ f.frames = {}
    OBVIOUS
  <2>1. f = Blank(off) BY <1>4
  <2>2. off.buf = <<>> /\ off.synced = FALSE OBVIOUS
  <2>3. f = [buf |-> <<>>, synced |-> FALSE, frames |-> {}] BY <2>1, <2>2 DEF Blank
  <2> QED BY <2>3
<1> PICK c, cap : c = connection' /\ cap = captured' OBVIOUS
<1>7. Folding(w.out) BY <1>4
<1>8. /\ Standing(reassembler', flow', nextByte', c, cap)
      /\ FramesTrue(parsed', cap)
  BY <1>3, <1>5, <1>6, <1>7, DeliverEnds
<1>9. /\ Standing(reassembler', flow', nextByte', connection', captured')
      /\ FramesTrue(parsed', captured') /\ connection' \in DOMAIN Isn
  BY <1>1, <1>3, <1>8
<1> QED BY <1>2, <1>3, <1>9, CaptureTypes

LEMMA TickStep == ASSUME TapInv, Tick PROVE TapInv'
<1>1. /\ connection \in DOMAIN Isn /\ Standing(reassembler, flow, nextByte, connection, captured)
      /\ \A b \in DOMAIN captured : captured[b] \in 0 .. lastWall
  BY DEF TapInv
<1>2. /\ Deliver(GivenUp(Working(reassembler)), nextByte) /\ connection' = connection
      /\ UNCHANGED <<tapNow, segments, lastWall, captured>>
  BY DEF Tick
<1> PICK c, cap, r, w : /\ c = connection /\ cap = captured /\ r = reassembler /\ w = GivenUp(Working(r))
  OBVIOUS
<1>3. Deliver(w, nextByte) /\ connection' = c /\ captured' = cap /\ c \in DOMAIN Isn BY <1>1, <1>2
<1>4. /\ Standing(reassembler', flow', nextByte', c, cap)
      /\ FramesTrue(parsed', cap)
  <2>1. CASE r.next = NoNext
    <3>1. OffStream(r, flow) BY <1>1, <2>1 DEF Standing
    <3>2. r = Cleared /\ flow.buf = <<>> /\ flow.synced = FALSE BY <3>1 DEF OffStream
    <3> PICK v : v = Working(r) OBVIOUS
    <3>3. v.pending = Cleared.pending /\ v.out = <<>> BY <3>2 DEF Working
    <3>4. DOMAIN v.pending = {} BY <3>3 DEF Cleared
    <3>5. w = v BY <3>4 DEF GivenUp, HoleIsOld
    <3>6. Settled(w) = Cleared BY <3>2, <3>5 DEF Settled, Working, Cleared
    <3>7. Folding(w.out) /\ \A f : FlowOf(w.out, Blank(flow), f) => f = Blank(flow)
      BY <3>3, <3>5, FoldNothing
    <3>8. \A f : FlowOf(w.out, Blank(flow), f) => f.buf = <<>> /\ f.synced = FALSE /\ f.frames = {}
      <4> SUFFICES ASSUME NEW f, FlowOf(w.out, Blank(flow), f)
                   PROVE  f.buf = <<>> /\ f.synced = FALSE /\ f.frames = {}
        OBVIOUS
      <4>1. f = [buf |-> <<>>, synced |-> FALSE, frames |-> {}] BY <3>2, <3>7 DEF Blank
      <4> QED BY <4>1
    <3> QED BY <1>3, <3>6, <3>7, <3>8, DeliverEnds
  <2>2. CASE r.next # NoNext
    <3>1. Placed(r, flow, nextByte, c, cap) BY <1>1, <2>2 DEF Standing
    <3>2. Grown(cap, cap) BY DEF Grown
    <3>3. IsTimes(cap)
      <4>1. lastWall \in Nat BY Caps DEF TapInv
      <4> QED BY <1>1, <4>1 DEF IsTimes
    <3> PICK v : v = Working(r) OBVIOUS
    <3>4. PICK pos \in 0 .. StreamLen : /\ Tracks(v, c, pos, cap, Blank(flow))
                                        /\ Settles(v, c, pos, nextByte)
      <4>1. \E pos \in 0 .. StreamLen : /\ Tracks(Working(r), c, pos, cap, Blank(flow))
                                        /\ Settles(Working(r), c, pos, nextByte)
        BY ONLY <1>3, <3>1, <3>2, PlacedTracks
      <4> QED BY <4>1, Zenon
    <3>5. \E to \in 0 .. StreamLen : /\ Tracks(GivenUp(v), c, to, cap, Blank(flow))
                                     /\ Settles(GivenUp(v), c, to, nextByte)
      BY ONLY <1>3, <3>3, <3>4, GivenUpTracks
    <3>6. \E to \in 0 .. StreamLen : /\ Tracks(w, c, to, cap, Blank(flow))
                                     /\ Settles(w, c, to, nextByte)
      BY <3>5, Zenon
    <3> QED BY <1>3, <3>6, DeliverTracks
  <2> QED BY <2>1, <2>2
<1>5. /\ Standing(reassembler', flow', nextByte', connection', captured')
      /\ FramesTrue(parsed', captured')
  BY <1>3, <1>4
<1> QED BY <1>2, <1>5 DEF TapInv

LEMMA ElapseStep == ASSUME TapInv, TapElapse PROVE TapInv'
<1>1. tapNow \in 0 .. TapMaxTime /\ lastWall \in 0 .. tapNow /\ TapMaxTime \in Nat
  BY Caps DEF TapInv
<1>2. tapNow' = tapNow + 1 /\ tapNow < TapMaxTime /\ lastWall' = lastWall BY DEF TapElapse
<1>3. tapNow' \in 0 .. TapMaxTime /\ lastWall' \in 0 .. tapNow' BY <1>1, <1>2
<1> QED BY <1>3 DEF TapInv, TapElapse

LEMMA TapBegins == TapInit => TapInv
<1> SUFFICES ASSUME TapInit PROVE TapInv OBVIOUS
<1>1. 1 \in DOMAIN Isn
  <2>1. Isn \in Seq(0 .. SeqSpace - 1) /\ Isn # <<>> BY TapAssumption
  <2> QED BY <2>1, EmptySeq, LenProperties
<1>2. TapMaxTime \in Nat /\ MaxSegments \in Nat BY Caps
<1>3. OffStream(reassembler, flow) /\ reassembler.next = NoNext
  BY DEF TapInit, OffStream, Cleared
<1>4. FramesTrue(parsed, captured) BY DEF TapInit, FramesTrue
<1>5. \A b \in DOMAIN captured : captured[b] \in 0 .. lastWall BY DEF TapInit
<1>6. tapNow \in 0 .. TapMaxTime /\ segments \in 0 .. MaxSegments /\ lastWall \in 0 .. tapNow
      /\ connection \in DOMAIN Isn
  BY <1>1, <1>2 DEF TapInit
<1> QED BY <1>3, <1>4, <1>5, <1>6 DEF TapInv, Standing

\* A turn of the loop, whatever it captured, leaves the reassembler and the flow at one
\* position of one connection (src/tap.rs, src/peering.rs, TapFlow).
THEOREM TapStands == TapSpec => []TapInv
<1>1. ASSUME TapInv, [TapNext]_tapVars PROVE TapInv'
  <2>1. CASE Data BY <1>1, <2>1, DataStep
  <2>2. CASE Syn BY <1>1, <2>2, SynStep
  <2>3. CASE Close BY <1>1, <2>3, CloseStep
  <2>4. CASE Tick BY <1>1, <2>4, TickStep
  <2>5. CASE TapElapse BY <1>1, <2>5, ElapseStep
  <2>6. CASE UNCHANGED tapVars BY <1>1, <2>6 DEF TapInv, tapVars
  <2> QED BY <1>1, <2>1, <2>2, <2>3, <2>4, <2>5, <2>6 DEF TapNext
<1> QED BY <1>1, TapBegins, PTL DEF TapSpec

-----------------------------------------------------------------------------
LEMMA HeldBytesIs == HeldBytes = Total(Sizes(reassembler.pending), DOMAIN reassembler.pending)
BY DEF HeldBytes, Sizes, MapThenSumSet, MapThenFoldSet, Total, IsTally, Pick

\* The bytes held are within their count and the count within its cap, and the sequence number
\* expected is that of the next byte (src/tap.rs, push).
THEOREM TapTypes == TapSpec => []TapTypeOK
<1>1. TapInv => TapTypeOK
  <2> SUFFICES ASSUME TapInv PROVE TapTypeOK OBVIOUS
  <2>1. /\ tapNow \in 0 .. TapMaxTime /\ connection \in DOMAIN Isn /\ segments \in 0 .. MaxSegments
        /\ lastWall \in 0 .. tapNow /\ Standing(reassembler, flow, nextByte, connection, captured)
    BY DEF TapInv
  <2> PICK r : r = reassembler OBVIOUS
  <2>2. MaxPendingBytes \in Nat BY Caps
  <2>3. CASE r.next = NoNext
    <3>1. r = Cleared /\ flow = [buf |-> <<>>, synced |-> FALSE] BY <2>1, <2>3 DEF Standing, OffStream
    <3>2. flow.synced \in BOOLEAN
      <4>1. flow.synced = FALSE BY <3>1
      <4> QED BY <4>1, Zenon
    <3>3. r.count = 0 /\ r.pending = Cleared.pending /\ DOMAIN r.pending = {} BY <3>1 DEF Cleared
    <3>4. HeldBytes = 0
      <4>1. Total(Sizes(r.pending), {}) = 0 BY TotalOfNothing
      <4> QED BY <3>3, <4>1, HeldBytesIs
    <3> QED BY <2>1, <2>2, <2>3, <3>2, <3>3, <3>4 DEF TapTypeOK
  <2>4. CASE r.next # NoNext
    <3>1. PICK pos \in 0 .. StreamLen :
            /\ nextByte = Byte(connection, pos) /\ r.next = SeqNo(Byte(connection, pos))
            /\ Keeps(r.pending, r.count, connection, captured, pos)
            /\ FlowTrue(Blank(flow), connection, pos, captured)
      BY <2>1, <2>4 DEF Standing, Placed
    <3>2. pos \in Nat BY Space
    <3>3. r.next \in 0 .. SeqSpace - 1
      <4>1. 0 \in Int /\ pos + 0 >= 0 BY <3>2
      <4>2. SeqNo(Byte(connection, pos)) \in 0 .. SeqSpace - 1 BY <2>1, <3>2, <4>1, NumberOn
      <4> QED BY <3>1, <4>2
    <3>4. flow.synced \in BOOLEAN
      <4> PICK e : e = Blank(flow) OBVIOUS
      <4>1. e.synced \in BOOLEAN BY <3>1 DEF FlowTrue
      <4>2. e.synced = flow.synced BY DEF Blank
      <4> QED BY <4>1, <4>2, Zenon
    <3>5. r.count \in 0 .. MaxPendingBytes /\ Total(Sizes(r.pending), DOMAIN r.pending) <= r.count
      BY <3>1 DEF Keeps
    <3>6. HeldBytes <= r.count BY <3>5, HeldBytesIs
    <3>7. SeqNo(nextByte) = r.next BY <3>1, Zenon
    <3> QED BY <2>1, <2>2, <3>3, <3>4, <3>5, <3>6, <3>7 DEF TapTypeOK
  <2> QED BY <2>3, <2>4
<1> QED BY <1>1, TapStands, PTL

\* What the assembly is given is one frame of one connection each, whatever was lost, reordered
\* or cut, and stamped no earlier than the first copy of its bytes (src/tap.rs, expire and take;
\* src/peering.rs, TapFlow).
THEOREM TapFramesAreTrue == TapSpec => []TapFramesTrue
<1>1. TapInv => TapFramesTrue BY DEF TapInv, FramesTrue, TapFramesTrue
<1> QED BY <1>1, TapStands, PTL

\* What is held starts behind the next byte, across the wrap of the sequence numbers: nothing is
\* handed on twice (src/tap.rs, take and seq_diff).
THEOREM TapHeldIsAhead == TapSpec => []TapHeldAhead
<1>1. TapInv => TapHeldAhead
  <2> SUFFICES ASSUME TapInv, NEW s \in DOMAIN reassembler.pending
               PROVE  LET b == reassembler.pending[s].bytes[1]
                      IN  b[1] = nextByte[1] /\ b[2] > nextByte[2]
    BY DEF TapHeldAhead
  <2> PICK r, c, b : r = reassembler /\ c = connection /\ b = reassembler.pending[s].bytes[1] OBVIOUS
  <2>1. c \in DOMAIN Isn /\ Standing(r, flow, nextByte, c, captured) BY DEF TapInv
  <2>2. CASE r.next = NoNext
    <3>1. r = Cleared BY <2>1, <2>2 DEF Standing, OffStream
    <3>2. DOMAIN r.pending = {} BY <3>1 DEF Cleared
    <3> QED BY <3>2
  <2>3. CASE r.next # NoNext
    <3>1. PICK pos \in 0 .. StreamLen :
            /\ nextByte = Byte(c, pos) /\ r.next = SeqNo(Byte(c, pos))
            /\ Keeps(r.pending, r.count, c, captured, pos) /\ Ready(r) = {}
      BY <2>1, <2>3 DEF Standing, Placed
    <3>2. IsHeld(r.pending[s], s, c, captured, pos) BY <3>1 DEF Keeps
    <3>3. PICK f \in 0 .. StreamLen, n \in 1 .. StreamLen :
            pos <= f /\ f + n - pos < HalfSpace /\ s = SeqNo(Byte(c, f)) /\ r.pending[s].bytes = Payload(c, f, n)
      BY <3>2 DEF IsHeld
    <3>4. StreamLen \in Nat /\ pos \in Nat /\ f \in Nat /\ n \in Nat BY Space
    <3>5. b = Byte(c, f)
      <4>1. 1 \in 1 .. n /\ f + 1 - 1 = f BY <3>4
      <4>2. \A i \in 1 .. n : Payload(c, f, n)[i] = Byte(c, f + i - 1) BY ONLY <3>4, PayloadIs
      <4> QED BY <3>3, <4>1, <4>2
    <3>6. ~(f - pos <= 0)
      <4>1. ~(SeqDiff(s, r.next) <= 0) BY <3>1 DEF Ready
      <4>4. HalfSpace \in Nat /\ 1 < HalfSpace BY Space
      <4>5. f - pos < HalfSpace /\ pos - f < HalfSpace BY <3>3, <3>4, <4>4
      <4>2. SeqDiff(SeqNo(Byte(c, f)), SeqNo(Byte(c, pos))) = f - pos BY <2>1, <3>4, <4>5, SeqDistance
      <4>3. SeqDiff(s, r.next) = f - pos BY <3>1, <3>3, <4>2, Zenon
      <4> QED BY <4>1, <4>3
    <3>7. f > pos BY <3>4, <3>6
    <3> QED BY <3>1, <3>5, <3>7 DEF Byte
  <2> QED BY <2>2, <2>3
<1> QED BY <1>1, TapStands, PTL
=============================================================================
