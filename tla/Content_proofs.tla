--------------------------- MODULE Content_proofs ---------------------------
(***************************************************************************)
(* Theorems about what is read of the bytes that arrive.                   *)
(*                                                                         *)
(* The key of a message (Canonical), for any decimals, levels and fills    *)
(* and however a service writes them: a book that is accepted gets the key *)
(* of its content and so does every fill, so that two messages are of one  *)
(* market update just if they have the same key.  A decimal without its    *)
(* trailing zeros stands for its number alone (Worth), which takes the     *)
(* powers of ten and division by them; sorted levels then have one order.  *)
(*                                                                         *)
(* The rounds of a proposal (OrderingScan), for any proposal of the node's *)
(* layout, any anchor and any bytes in the hashes and between the records. *)
(* Where the pieces of a proposal stand (Holds, Layout, LegacyLayout) and  *)
(* what each parser reads there gives the slot and the place of the own    *)
(* record; no other place reading like it, that is the one taken.  In the  *)
(* old layout the scan is followed from record to record (LegacyStep) over *)
(* stretches in which no marker stands (ScanQuiet).                        *)
(***************************************************************************)
EXTENDS Canonical, OrderingScan, Totals, SequenceTheorems
-----------------------------------------------------------------------------
(* Powers of ten. *)

\* g holds the powers of ten up to the n-th.
IsPowers(g, n) == /\ g \in [0 .. n -> Nat] /\ g[0] = 1
                  /\ \A k \in 1 .. n : g[k] = 10 * g[k - 1]

LEMMA PowersExist == ASSUME NEW n \in Nat PROVE \E g : IsPowers(g, n)
<1> SUFFICES ASSUME ~\E g : IsPowers(g, n) PROVE FALSE OBVIOUS
<1> DEFINE Bad == {k \in Nat : ~\E g : IsPowers(g, k)}
<1>1. Bad \subseteq Nat /\ Bad # {} OBVIOUS
<1>2. PICK k \in Bad : \A u \in Bad : k <= u BY ONLY <1>1, LeastNumber
<1>3. CASE k = 0
  <2>1. IsPowers([i \in 0 .. 0 |-> 1], 0) BY DEF IsPowers
  <2> QED BY <1>2, <1>3, <2>1
<1>4. CASE k # 0
  <2> PICK j \in Nat : j = k - 1 BY <1>2, <1>4
  <2>1. k = j + 1 /\ k \in Nat /\ ~(k <= j) BY <1>2
  <2>2. PICK h : IsPowers(h, j) BY <1>2, <2>1
  <2> PICK g : g = [i \in 0 .. k |-> IF i = k THEN 10 * h[j] ELSE h[i]] OBVIOUS
  <2>3. \A i \in 0 .. j : h[i] \in Nat BY <2>2 DEF IsPowers
  <2>4. g[k] = 10 * h[j] /\ \A i \in 0 .. j : g[i] = h[i]
    <3>1. k \in 0 .. k /\ \A i \in 0 .. j : i \in 0 .. k /\ i # k BY <2>1
    <3> QED BY <3>1
  <2>5. g \in [0 .. k -> Nat]
    <3>1. 10 * h[j] \in Nat /\ \A i \in 0 .. k : i # k => i \in 0 .. j BY <2>1, <2>3
    <3> QED BY <2>3, <3>1
  <2>6. g[0] = 1 BY <2>2, <2>4 DEF IsPowers
  <2>7. ASSUME NEW i \in 1 .. k PROVE g[i] = 10 * g[i - 1]
    <3>1. CASE i = k
      <4>1. i - 1 = j /\ j \in 0 .. j BY <2>1, <3>1
      <4> QED BY <2>4, <3>1, <4>1
    <3>2. CASE i # k
      <4>1. i \in 1 .. j /\ i \in 0 .. j /\ i - 1 \in 0 .. j BY <2>1, <3>2
      <4> QED BY <2>2, <2>4, <4>1 DEF IsPowers
    <3> QED BY <3>1, <3>2
  <2>8. IsPowers(g, k) BY <2>5, <2>6, <2>7 DEF IsPowers
  <2> QED BY <1>2, <2>8
<1> QED BY <1>3, <1>4

LEMMA PowersAgree ==
    ASSUME NEW m \in Nat, NEW g, NEW h, NEW k \in Nat, NEW l \in Nat, IsPowers(g, k), IsPowers(h, l),
           m <= k, m <= l
    PROVE  g[m] = h[m]
<1> DEFINE Bad == {i \in 0 .. m : g[i] # h[i]}
<1> SUFFICES ASSUME Bad # {} PROVE FALSE OBVIOUS
<1>1. Bad \subseteq Nat OBVIOUS
<1>2. PICK i \in Bad : \A u \in Bad : i <= u BY ONLY <1>1, Bad # {}, LeastNumber
<1>3. i \in 0 .. m /\ g[i] # h[i] /\ i # 0 BY <1>2 DEF IsPowers
<1>4. i - 1 \in 0 .. m /\ ~(i <= i - 1) /\ i \in 1 .. k /\ i \in 1 .. l BY <1>3
<1>5. g[i - 1] = h[i - 1] BY <1>2, <1>4
<1>6. g[i] = 10 * g[i - 1] /\ h[i] = 10 * h[i - 1] BY <1>4 DEF IsPowers
<1> QED BY <1>3, <1>5, <1>6

LEMMA TensExist == \E f : f = [n \in Nat |-> IF n = 0 THEN 1 ELSE 10 * f[n - 1]]
<1> DEFINE P(n) == CHOOSE g : IsPowers(g, n)
<1>1. \A n \in Nat : IsPowers(P(n), n) BY PowersExist
<1> HIDE DEF P
<1> PICK f : f = [n \in Nat |-> P(n)[n]] OBVIOUS
<1>2. \A n \in Nat : f[n] = P(n)[n] OBVIOUS
<1>3. ASSUME NEW n \in Nat PROVE f[n] = IF n = 0 THEN 1 ELSE 10 * f[n - 1]
  <2>1. IsPowers(P(n), n) BY <1>1
  <2>2. CASE n = 0 BY <1>2, <2>1, <2>2 DEF IsPowers
  <2>3. CASE n # 0
    <3> PICK j \in Nat : j = n - 1 BY <2>3
    <3>1. n \in 1 .. n /\ j <= n /\ j <= j BY <2>3
    <3>2. IsPowers(P(j), j) BY <1>1
    <3>3. P(n)[j] = P(j)[j] BY <2>1, <3>1, <3>2, PowersAgree
    <3>4. P(n)[n] = 10 * P(n)[j] BY <2>1, <3>1 DEF IsPowers
    <3> QED BY <1>2, <2>3, <3>3, <3>4
  <2> QED BY <2>2, <2>3
<1> PICK e : e = [n \in Nat |-> IF n = 0 THEN 1 ELSE 10 * f[n - 1]] OBVIOUS
<1>4. DOMAIN f = Nat /\ DOMAIN e = Nat /\ \A n \in Nat : e[n] = f[n] BY <1>3
<1>5. e = [n \in Nat |-> e[n]] /\ f = [n \in Nat |-> f[n]] OBVIOUS
<1>6. e = f BY <1>4, <1>5
<1> QED BY <1>6

LEMMA TensAre ==
    /\ Tens[0] = 1
    /\ \A n \in Nat : Tens[n + 1] = 10 * Tens[n]
<1>1. Tens = [n \in Nat |-> IF n = 0 THEN 1 ELSE 10 * Tens[n - 1]]
  BY TensExist, Zenon DEF Tens
<1>2. \A n \in Nat : Tens[n] = IF n = 0 THEN 1 ELSE 10 * Tens[n - 1] BY <1>1, Zenon
<1>3. \A n \in Nat : n + 1 \in Nat /\ n + 1 # 0 /\ n + 1 - 1 = n OBVIOUS
<1> QED BY <1>2, <1>3

LEMMA TensPositive == \A n \in Nat : Tens[n] \in Nat \ {0}
<1> DEFINE Bad == {n \in Nat : Tens[n] \notin Nat \ {0}}
<1> SUFFICES ASSUME Bad # {} PROVE FALSE OBVIOUS
<1>1. Bad \subseteq Nat OBVIOUS
<1>2. PICK n \in Bad : \A u \in Bad : n <= u BY ONLY <1>1, Bad # {}, LeastNumber
<1>3. n # 0 BY <1>2, TensAre
<1> PICK j \in Nat : j = n - 1 BY <1>2, <1>3
<1>4. n = j + 1 /\ ~(n <= j) BY <1>2
<1>5. Tens[j] \in Nat \ {0} BY <1>2, <1>4
<1>6. Tens[n] = 10 * Tens[j] BY <1>4, TensAre
<1> QED BY <1>2, <1>5, <1>6

LEMMA TensAdd == ASSUME NEW a \in Nat, NEW b \in Nat PROVE Tens[a + b] = Tens[a] * Tens[b]
<1> DEFINE Bad == {n \in Nat : Tens[a + n] # Tens[a] * Tens[n]}
<1> SUFFICES ASSUME Bad # {} PROVE FALSE OBVIOUS
<1>1. Bad \subseteq Nat OBVIOUS
<1>2. PICK n \in Bad : \A u \in Bad : n <= u BY ONLY <1>1, Bad # {}, LeastNumber
<1>3. Tens[a] \in Nat BY TensPositive
<1>4. n # 0
  <2> SUFFICES ASSUME n = 0 PROVE FALSE OBVIOUS
  <2>1. a + n = a BY ONLY n = 0, a \in Nat
  <2>2. Tens[n] = 1 BY TensAre
  <2>3. Tens[a] * 1 = Tens[a] BY <1>3
  <2> QED BY <1>2, <2>1, <2>2, <2>3
<1> PICK j \in Nat : j = n - 1 BY <1>2, <1>4
<1>5. n = j + 1 /\ ~(n <= j) BY <1>2
<1>6. Tens[a + j] = Tens[a] * Tens[j] BY <1>2, <1>5
<1>7. Tens[n] = 10 * Tens[j] BY <1>5, TensAre
<1>8. a + n = (a + j) + 1 /\ a + j \in Nat BY ONLY <1>5, a \in Nat, j \in Nat
<1>9. Tens[a + n] = 10 * Tens[a + j]
  <2>1. Tens[(a + j) + 1] = 10 * Tens[a + j] BY ONLY <1>8, TensAre
  <2> QED BY <1>8, <2>1
<1>10. Tens[j] \in Nat BY TensPositive
<1> PICK x, y \in Nat : x = Tens[a] /\ y = Tens[j] BY <1>3, <1>10
<1>11. 10 * (x * y) = x * (10 * y) BY ONLY x \in Nat, y \in Nat
<1> QED BY <1>2, <1>6, <1>7, <1>9, <1>11
-----------------------------------------------------------------------------
(* Division. *)

LEMMA ExactDivision ==
    ASSUME NEW q \in Int, NEW a \in Nat \ {0}
    PROVE  (q * a) \div a = q /\ (q * a) % a = 0
<1> PICK x \in Int : x = q * a OBVIOUS
<1>1. x = a * q + 0 OBVIOUS
<1>2. q = x \div a BY ONLY x \in Int, a \in Nat \ {0}, q \in Int, <1>1
<1>3. 0 = x % a BY ONLY x \in Int, a \in Nat \ {0}, q \in Int, <1>1
<1> QED BY <1>2, <1>3

LEMMA DivisionBack ==
    ASSUME NEW x \in Int, NEW a \in Nat \ {0}, x % a = 0
    PROVE  x \div a \in Int /\ x = (x \div a) * a
<1> PICK k : k = x \div a OBVIOUS
<1>1. k \in Int BY ONLY x \in Int, a \in Nat \ {0}, k = x \div a
<1> PICK r : r = x % a OBVIOUS
<1>2. x = a * k + r BY ONLY x \in Int, a \in Nat \ {0}, k = x \div a, r = x % a
<1>3. x = k * a BY <1>1, <1>2
<1> QED BY <1>1, <1>3

(* Factors cancel. *)
LEMMA Cancel ==
    ASSUME NEW x \in Int, NEW y \in Int, NEW a \in Nat \ {0}
    PROVE  (x * a = y * a <=> x = y) /\ (x * a <= y * a <=> x <= y)
<1>1. ASSUME NEW u \in Int, NEW v \in Int, u < v PROVE u * a < v * a
  <2> PICK e \in Nat \ {0} : e = v - u BY <1>1
  <2>1. v = u + e BY <1>1
  <2>2. (u + e) * a = u * a + e * a BY ONLY u \in Int, e \in Nat, a \in Nat
  <2>3. e * a > 0 BY ONLY e \in Nat \ {0}, a \in Nat \ {0}
  <2> PICK p, q, r \in Int : p = u * a /\ q = v * a /\ r = e * a OBVIOUS
  <2>4. q = p + r /\ r > 0 BY <2>1, <2>2, <2>3
  <2>5. p < q BY ONLY <2>4, p \in Int, r \in Int
  <2> QED BY <2>5
<1>2. x * a \in Int /\ y * a \in Int OBVIOUS
<1>3. x < y => x * a < y * a BY <1>1
<1>4. y < x => y * a < x * a BY <1>1
<1>5. x = y \/ x < y \/ y < x OBVIOUS
<1> PICK p, q \in Int : p = x * a /\ q = y * a BY <1>2
<1>6. (x < y => p < q) /\ (y < x => q < p) /\ (x = y => p = q) BY <1>3, <1>4
<1>7. (p = q <=> x = y) /\ (p <= q <=> x <= y)
  BY ONLY <1>5, <1>6, p \in Int, q \in Int, x \in Int, y \in Int
<1> QED BY <1>7
-----------------------------------------------------------------------------
(* What a decimal is worth. *)

(* The greatest of finitely many numbers. *)
LEMMA MaxOfFinite ==
    ASSUME NEW S \in SUBSET Nat, IsFiniteSet(S), S # {}
    PROVE  Max(S) \in S /\ \A x \in S : x <= Max(S)
<1> DEFINE Bad == {T \in SUBSET S : T # {} /\ ~\E x \in T : \A y \in T : y <= x}
<1>1. Bad = {}
  <2> SUFFICES ASSUME Bad # {} PROVE FALSE OBVIOUS
  <2>1. \A T \in Bad : IsFiniteSet(T) BY FS_Subset
  <2>2. PICK T \in Bad : \A U \in Bad : ~(Cardinality(U) < Cardinality(T))
    BY ONLY <2>1, Bad # {}, LeastSize
  <2>3. PICK x \in T : x \in Nat BY <2>2
  <2>4. T \ {x} \notin Bad /\ T \ {x} \in SUBSET S BY <2>1, <2>2, TakeOut
  <2>5. CASE T \ {x} = {}
    <3>1. \A y \in T : y <= x BY <2>3, <2>5
    <3> QED BY <2>2, <3>1
  <2>6. CASE T \ {x} # {}
    <3>1. PICK z \in T \ {x} : \A y \in T \ {x} : y <= z BY <2>4, <2>6
    <3>2. z \in Nat BY <2>2
    <3>3. CASE x <= z
      <4>1. \A y \in T : y <= z BY <3>1, <3>3
      <4> QED BY <2>2, <4>1
    <3>4. CASE ~(x <= z)
      <4>1. \A y \in T : y \in Nat BY <2>2
      <4>2. \A y \in T : y <= x BY <2>3, <3>1, <3>2, <3>4, <4>1
      <4> QED BY <2>2, <4>2
    <3> QED BY <3>3, <3>4
  <2> QED BY <2>5, <2>6
<1>2. PICK x \in S : \A y \in S : y <= x BY <1>1
<1>3. \A y \in S : x >= y BY <1>2
<1>4. Max(S) \in S /\ \A y \in S : Max(S) >= y BY <1>3 DEF Max
<1> QED BY <1>4

Digits   == Max({p.s : p \in Prices})
IsDec(d) == d = [m |-> d.m, s |-> d.s] /\ d.m \in Int /\ d.s \in 0 .. Digits

LEMMA DigitsAre == Digits \in Nat /\ \A p \in Prices : IsDec(p)
<1> DEFINE S == {p.s : p \in Prices}
<1>1. \A p \in Prices : p = [m |-> p.m, s |-> p.s] /\ p.m \in Int /\ p.s \in Nat
  BY CanonicalAssumption
<1>2. S \in SUBSET Nat /\ S # {} BY <1>1, CanonicalAssumption
<1>3. IsFiniteSet(S)
  <2>1. IsFiniteSet(Prices) BY CanonicalAssumption
  <2> DEFINE f == [p \in Prices |-> p.s]
  <2>2. S = {f[p] : p \in Prices} OBVIOUS
  <2>3. f \in Surjection(Prices, S) BY DEF Surjection
  <2> HIDE DEF f, S
  <2> QED BY <2>1, <2>3, FS_Surjection
<1> HIDE DEF S
<1>4. Max(S) \in S /\ \A x \in S : x <= Max(S) BY ONLY <1>2, <1>3, MaxOfFinite
<1>5. Digits = Max(S) BY DEF Digits, S
<1>6. \A p \in Prices : p.s \in S BY DEF S
<1> QED BY <1>1, <1>2, <1>4, <1>5, <1>6 DEF IsDec

LEMMA WorthIs ==
    ASSUME NEW d, IsDec(d)
    PROVE  Worth(d) = d.m * Tens[Digits - d.s] /\ Digits - d.s \in Nat /\ Worth(d) \in Int
<1> PICK m \in Int, s \in 0 .. Digits : m = d.m /\ s = d.s BY DEF IsDec
<1>1. Digits \in Nat /\ s \in Nat BY DigitsAre
<1> PICK t \in Nat : t = Digits - s BY <1>1
<1>2. Digits = t + s BY <1>1
<1>3. Unit = Tens[t] * Tens[s] BY <1>1, <1>2, TensAdd DEF Unit, Digits
<1> PICK a \in Nat \ {0}, b \in Nat \ {0} : a = Tens[s] /\ b = Tens[t] BY <1>1, TensPositive
<1>4. m * Unit = (m * b) * a
  <2>1. m * (b * a) = (m * b) * a BY ONLY m \in Int, a \in Nat, b \in Nat
  <2> QED BY <1>3, <2>1
<1>5. m * b \in Int OBVIOUS
<1>6. ((m * b) * a) \div a = m * b BY <1>5, ExactDivision
<1>7. Worth(d) = m * b BY <1>4, <1>6 DEF Worth
<1> QED BY <1>5, <1>7

LEMMA AtMostIsWorth ==
    ASSUME NEW d, NEW e, IsDec(d), IsDec(e)
    PROVE  AtMost(d, e) <=> Worth(d) <= Worth(e)
<1> PICK m \in Int, s \in 0 .. Digits : m = d.m /\ s = d.s BY DEF IsDec
<1> PICK n \in Int, r \in 0 .. Digits : n = e.m /\ r = e.s BY DEF IsDec
<1>1. Digits \in Nat /\ s \in Nat /\ r \in Nat BY DigitsAre
<1> PICK t \in Nat, u \in Nat : t = Digits - s /\ u = Digits - r BY <1>1
<1>2. Digits = t + s /\ Digits = u + r BY <1>1
<1> PICK a \in Nat \ {0}, b \in Nat \ {0}, x \in Nat \ {0}, y \in Nat \ {0}, z \in Nat \ {0} :
        a = Tens[s] /\ b = Tens[r] /\ x = Tens[t] /\ y = Tens[u] /\ z = Tens[Digits]
  BY <1>1, TensPositive
<1>3. z = x * a /\ z = y * b
  <2>1. Tens[t + s] = Tens[t] * Tens[s] BY ONLY t \in Nat, <1>1, TensAdd
  <2>2. Tens[u + r] = Tens[u] * Tens[r] BY ONLY u \in Nat, <1>1, TensAdd
  <2> QED BY <1>2, <2>1, <2>2
<1>4. Worth(d) = m * x /\ Worth(e) = n * y BY WorthIs
<1>5. AtMost(d, e) <=> m * b <= n * a BY DEF AtMost
<1>6. x * y \in Nat \ {0} BY ONLY x \in Nat \ {0}, y \in Nat \ {0}
<1>7. (m * b) * (x * y) = (m * x) * z
  <2>1. (m * b) * (x * y) = (m * x) * (y * b) BY ONLY m \in Int, b \in Nat, x \in Nat, y \in Nat
  <2> QED BY <1>3, <2>1
<1>8. (n * a) * (x * y) = (n * y) * z
  <2> PICK g \in Nat : g = x * a OBVIOUS
  <2>1. (n * a) * (x * y) = (n * y) * g
    BY ONLY g = x * a, n \in Int, a \in Nat, x \in Nat, y \in Nat
  <2>2. g = z BY <1>3
  <2> QED BY ONLY <2>1, <2>2
<1> PICK f \in Nat \ {0} : f = x * y BY <1>6
<1> PICK p \in Int : p = m * b OBVIOUS
<1> PICK q \in Int : q = n * a OBVIOUS
<1> PICK v \in Int : v = m * x OBVIOUS
<1> PICK w \in Int : w = n * y OBVIOUS
<1>9. p * f <= q * f <=> p <= q BY Cancel
<1>10. v * z <= w * z <=> v <= w BY Cancel
<1>11. p * f = v * z /\ q * f = w * z BY <1>7, <1>8
<1>12. p <= q <=> v <= w BY ONLY <1>9, <1>10, <1>11
<1> QED BY <1>4, <1>5, <1>12

LEMMA PositiveIsWorth ==
    ASSUME NEW d, IsDec(d)
    PROVE  Positive(d) <=> Worth(d) > 0
<1> PICK m \in Int : m = d.m BY DEF IsDec
<1> PICK x \in Nat \ {0} : x = Tens[Digits - d.s] BY WorthIs, TensPositive
<1>1. Worth(d) = m * x BY WorthIs
<1>2. m * x <= 0 * x <=> m <= 0 BY Cancel
<1> PICK v \in Int : v = m * x OBVIOUS
<1>3. 0 * x = 0 OBVIOUS
<1>4. v <= 0 <=> m <= 0 BY <1>2, <1>3
<1>5. v > 0 <=> m > 0 BY ONLY <1>4, v \in Int, m \in Int
<1> QED BY <1>1, <1>5 DEF Positive
-----------------------------------------------------------------------------
(* The normal form of a decimal. *)

LEMMA NormalIs ==
    ASSUME NEW d, IsDec(d)
    PROVE  \E k \in 0 .. d.s :
             /\ Normal(d) = [m |-> d.m \div Tens[k], s |-> d.s - k]
             /\ d.m % Tens[k] = 0
             /\ \A j \in k + 1 .. d.s : d.m % Tens[j] # 0
<1> PICK m \in Int, s \in Nat : m = d.m /\ s = d.s BY DigitsAre DEF IsDec
<1> DEFINE S == {k \in 0 .. s : m % Tens[k] = 0}
<1>1. m % 1 = 0
  <2>1. (m * 1) % 1 = 0 BY ONLY m \in Int, 1 \in Nat \ {0}, ExactDivision
  <2>2. m * 1 = m OBVIOUS
  <2> QED BY <2>1, <2>2
<1>2. 0 \in S /\ S \in SUBSET (0 .. s) BY <1>1, TensAre
<1>3. Max(S) \in S /\ \A x \in S : x <= Max(S)
  <2> HIDE DEF S
  <2>1. S # {} BY <1>2
  <2> QED BY ONLY <1>2, <2>1, s \in Nat, MaxOfBounded
<1> PICK k \in 0 .. s : k = Max(S) BY <1>3
<1>4. m % Tens[k] = 0 /\ \A j \in k + 1 .. s : m % Tens[j] # 0 BY <1>3
<1> DEFINE Z(i) == m % Tens[i] = 0 /\ \A j \in i + 1 .. s : m % Tens[j] # 0
<1>5. k \in 0 .. s /\ Z(k) BY <1>4
<1> HIDE DEF Z
<1>6. (CHOOSE i \in 0 .. s : Z(i)) \in 0 .. s /\ Z(CHOOSE i \in 0 .. s : Z(i)) BY <1>5
<1> PICK z \in 0 .. s : z = (CHOOSE i \in 0 .. s : Z(i)) BY <1>6
<1>7. m % Tens[z] = 0 /\ \A j \in z + 1 .. s : m % Tens[j] # 0 BY <1>6 DEF Z
<1>8. Normal(d) = [m |-> m \div Tens[z], s |-> s - z] BY DEF Normal, Z
<1> QED BY <1>7, <1>8

(* It is worth the same, in no more digits. *)
LEMMA NormalKeepsWorth ==
    ASSUME NEW d, IsDec(d)
    PROVE  /\ IsDec(Normal(d)) /\ Normal(d).s <= d.s /\ Worth(Normal(d)) = Worth(d)
           /\ \E a \in Nat \ {0} : d.m = Normal(d).m * a
<1> PICK m \in Int, s \in 0 .. Digits : m = d.m /\ s = d.s BY DEF IsDec
<1>1. Digits \in Nat /\ s \in Nat BY DigitsAre
<1> PICK k \in 0 .. s : /\ Normal(d) = [m |-> m \div Tens[k], s |-> s - k]
                        /\ m % Tens[k] = 0
  BY NormalIs
<1> PICK a \in Nat \ {0} : a = Tens[k] BY TensPositive
<1> PICK n : n = m \div a OBVIOUS
<1>2. m % a = 0 OBVIOUS
<1>3. n \in Int /\ m = n * a BY ONLY m \in Int, a \in Nat \ {0}, <1>2, n = m \div a, DivisionBack
<1>4. Normal(d) = [m |-> n, s |-> s - k] OBVIOUS
<1>5. Normal(d).m = n /\ Normal(d).s = s - k BY <1>4
<1>6. s - k \in 0 .. Digits /\ s - k <= s BY <1>1
<1>7. IsDec(Normal(d)) BY <1>3, <1>4, <1>5, <1>6 DEF IsDec
<1> PICK t \in Nat : t = Digits - s BY <1>1
<1> PICK b \in Nat \ {0} : b = Tens[t] BY TensPositive
<1>8. Worth(d) = m * b BY WorthIs
<1>9. Worth(Normal(d)) = n * Tens[Digits - (s - k)] BY <1>5, <1>7, WorthIs
<1>10. Digits - (s - k) = k + t /\ k \in Nat BY <1>1
<1>11. Tens[k + t] = a * b BY ONLY <1>10, t \in Nat, a = Tens[k], b = Tens[t], TensAdd
<1>12. n * (a * b) = (n * a) * b BY ONLY n \in Int, a \in Nat, b \in Nat, <1>3
<1>13. Worth(Normal(d)) = m * b BY <1>3, <1>9, <1>10, <1>11, <1>12
<1>14. Normal(d).s <= d.s BY <1>5, <1>6
<1>15. d.m = Normal(d).m * a BY <1>3, <1>5
<1> QED BY <1>7, <1>8, <1>13, <1>14, <1>15

(* No decimal of its worth has fewer digits. *)
LEMMA NormalIsShortest ==
    ASSUME NEW d, NEW q, IsDec(d), IsDec(q), Worth(q) = Worth(d)
    PROVE  Normal(d).s <= q.s
<1> PICK m \in Int, s \in 0 .. Digits : m = d.m /\ s = d.s BY DEF IsDec
<1> PICK n \in Int, r \in 0 .. Digits : n = q.m /\ r = q.s BY DEF IsDec
<1>1. Digits \in Nat /\ s \in Nat /\ r \in Nat BY DigitsAre
<1> PICK k \in 0 .. s : /\ Normal(d) = [m |-> m \div Tens[k], s |-> s - k]
                        /\ \A j \in k + 1 .. s : m % Tens[j] # 0
  BY NormalIs
<1>2. Normal(d).s = s - k OBVIOUS
<1> SUFFICES ASSUME r < s - k PROVE FALSE BY <1>1, <1>2
<1> PICK t \in Nat : t = Digits - s BY <1>1
<1> PICK j \in Nat : j = s - r BY <1>1
<1>3. j \in k + 1 .. s /\ Digits - r = t + j BY <1>1
<1> PICK b \in Nat \ {0} : b = Tens[t] BY TensPositive
<1> PICK a \in Nat \ {0} : a = Tens[j] BY TensPositive
<1>4. Worth(d) = m * b BY WorthIs
<1>5. Worth(q) = n * Tens[t + j] BY <1>3, WorthIs
<1>6. Tens[t + j] = b * a BY ONLY j \in Nat, t \in Nat, a = Tens[j], b = Tens[t], TensAdd
<1>7. n * (b * a) = (n * a) * b BY ONLY n \in Int, a \in Nat, b \in Nat
<1> PICK na \in Int : na = n * a OBVIOUS
<1>8. na * b = m * b BY <1>4, <1>5, <1>6, <1>7
<1>9. na = m BY ONLY <1>8, na \in Int, m \in Int, b \in Nat \ {0}, Cancel
<1>10. (n * a) % a = 0 BY ExactDivision
<1>11. m % a = 0 BY ONLY <1>9, <1>10, na = n * a
<1> QED BY <1>3, <1>11

LEMMA SameWorthSameDigits ==
    ASSUME NEW d, NEW q, IsDec(d), IsDec(q), Worth(q) = Worth(d), d.s = q.s
    PROVE  d = q
<1> PICK m \in Int : m = d.m BY DEF IsDec
<1> PICK n \in Int : n = q.m BY DEF IsDec
<1>1. Digits - d.s \in Nat BY WorthIs
<1> PICK b \in Nat \ {0} : b = Tens[Digits - d.s] BY <1>1, TensPositive
<1>2. Worth(d) = m * b BY WorthIs
<1>3. Worth(q) = n * b BY WorthIs
<1>4. m = n BY ONLY <1>2, <1>3, Worth(q) = Worth(d), m \in Int, n \in Int, b \in Nat \ {0}, Cancel
<1> QED BY <1>4 DEF IsDec

(* Decimals of one worth have one normal form, and no others have. *)
LEMMA NormalIsWorth ==
    ASSUME NEW d, NEW q, IsDec(d), IsDec(q)
    PROVE  Normal(d) = Normal(q) <=> Worth(d) = Worth(q)
<1>1. IsDec(Normal(d)) /\ Worth(Normal(d)) = Worth(d) BY NormalKeepsWorth
<1>2. IsDec(Normal(q)) /\ Worth(Normal(q)) = Worth(q) BY NormalKeepsWorth
<1>3. ASSUME Worth(d) = Worth(q) PROVE Normal(d) = Normal(q)
  <2>1. Normal(d).s <= Normal(q).s BY <1>1, <1>2, <1>3, NormalIsShortest
  <2>2. Normal(q).s <= Normal(d).s BY <1>1, <1>2, <1>3, NormalIsShortest
  <2>3. Normal(d).s \in Nat /\ Normal(q).s \in Nat BY <1>1, <1>2, DigitsAre DEF IsDec
  <2>4. Normal(d).s = Normal(q).s BY <2>1, <2>2, <2>3
  <2> QED BY <1>1, <1>2, <1>3, <2>4, SameWorthSameDigits
<1>4. Normal(d) = Normal(q) => Worth(d) = Worth(q) BY <1>1, <1>2
<1> QED BY <1>3, <1>4

LEMMA NormalOfNormal ==
    ASSUME NEW d, IsDec(d)
    PROVE  Normal(Normal(d)) = Normal(d)
BY NormalKeepsWorth, NormalIsWorth

LEMMA DecimalsAre == \A q \in Decimals : IsDec(q)
<1> TAKE q \in Decimals
<1>1. PICK p \in Prices : q \in [m : (0 .. p.m) \cup (p.m .. 0), s : 0 .. p.s] BY DEF Decimals
<1>2. IsDec(p) /\ Digits \in Nat BY DigitsAre
<1>3. q = [m |-> q.m, s |-> q.s] /\ q.m \in Int /\ q.s \in 0 .. Digits BY <1>1, <1>2 DEF IsDec
<1> QED BY <1>3 DEF IsDec

LEMMA NormalIsDecimal == \A p \in Prices : Normal(p) \in Decimals
<1> TAKE p \in Prices
<1>1. IsDec(p) /\ IsDec(Normal(p)) /\ Normal(p).s <= p.s /\ Digits \in Nat
  BY DigitsAre, NormalKeepsWorth
<1> PICK m \in Int : m = p.m BY <1>1 DEF IsDec
<1> PICK n \in Int : n = Normal(p).m BY <1>1 DEF IsDec
<1> PICK a \in Nat \ {0} : m = n * a BY <1>1, NormalKeepsWorth
<1>2. n \in (0 .. m) \cup (m .. 0)
  <2>1. CASE n >= 0
    <3>1. n <= n * a BY ONLY <2>1, n \in Int, a \in Nat \ {0}
    <3> QED BY <2>1, <3>1
  <2>2. CASE n < 0
    <3>1. n * a <= n BY ONLY <2>2, n \in Int, a \in Nat \ {0}
    <3> QED BY <2>2, <3>1
  <2> QED BY <2>1, <2>2
<1>3. Normal(p) = [m |-> n, s |-> Normal(p).s] /\ Normal(p).s \in 0 .. p.s
  BY <1>1 DEF IsDec
<1>4. Normal(p) \in [m : (0 .. p.m) \cup (p.m .. 0), s : 0 .. p.s]
  <2> PICK r \in 0 .. p.s : Normal(p) = [m |-> n, s |-> r] BY <1>3
  <2> QED BY <1>2
<1> QED BY <1>4 DEF Decimals

(* The plain decimal of a worth is the normal form. *)
LEMMA PlainIsNormal ==
    ASSUME NEW p \in Prices
    PROVE  Plain(p) = Normal(p)
<1> DEFINE same == {q \in Decimals : Worth(q) = Worth(p)}
           Least(q) == q \in same /\ \A r \in same : q.s <= r.s
<1>1. IsDec(p) BY DigitsAre
<1>2. \A q \in same : IsDec(q) /\ Worth(q) = Worth(p) BY DecimalsAre
<1>3. Normal(p) \in same BY <1>1, NormalIsDecimal, NormalKeepsWorth
<1>4. Least(Normal(p)) BY <1>1, <1>2, <1>3, NormalIsShortest
<1>5. ASSUME NEW q, Least(q) PROVE q = Normal(p)
  <2>1. q.s <= Normal(p).s /\ Normal(p).s <= q.s BY <1>3, <1>4, <1>5
  <2>2. IsDec(q) /\ IsDec(Normal(p)) /\ Worth(q) = Worth(Normal(p)) BY <1>2, <1>3, <1>5
  <2>3. q.s \in Nat /\ Normal(p).s \in Nat BY <2>2, DigitsAre DEF IsDec
  <2>4. q.s = Normal(p).s BY <2>1, <2>3
  <2> QED BY <2>2, <2>4, SameWorthSameDigits
<1>6. Plain(p) = CHOOSE q \in same : \A r \in same : q.s <= r.s BY DEF Plain
<1>7. Plain(p) \in same /\ \A r \in same : Plain(p).s <= r.s
  <2> HIDE DEF same
  <2>1. \E q \in same : \A r \in same : q.s <= r.s BY <1>4
  <2> QED BY <1>6, <2>1
<1> QED BY <1>5, <1>7
-----------------------------------------------------------------------------
(* Books. *)

Falls(b)       == \A i, j \in DOMAIN b : i < j => Worth(b[i]) > Worth(b[j])
Rises(a)       == \A i, j \in DOMAIN a : i < j => Worth(a[i]) < Worth(a[j])
AboveZero(s)   == \A i \in DOMAIN s : Worth(s[i]) > 0
SidesApart(b, a) == \A i \in DOMAIN b, j \in DOMAIN a : Worth(b[i]) < Worth(a[j])
PlainSide(s)   == [i \in DOMAIN s |-> Plain(s[i])]

(* What rises from each place to the next rises from each to every later one. *)
LEMMA RisesThroughout ==
    ASSUME NEW n \in Nat, NEW w \in [1 .. n -> Int], \A i \in 1 .. n - 1 : w[i] < w[i + 1]
    PROVE  \A i, j \in 1 .. n : i < j => w[i] < w[j]
<1> SUFFICES ASSUME NEW i \in 1 .. n PROVE \A j \in 1 .. n : i < j => w[i] < w[j] OBVIOUS
<1> DEFINE Bad == {j \in 1 .. n : i < j /\ ~(w[i] < w[j])}
<1> SUFFICES ASSUME Bad # {} PROVE FALSE OBVIOUS
<1>1. Bad \subseteq Nat OBVIOUS
<1>2. PICK j \in Bad : \A u \in Bad : j <= u BY ONLY <1>1, Bad # {}, LeastNumber
<1>3. j \in 1 .. n /\ i < j /\ ~(w[i] < w[j]) BY <1>2
<1> PICK k \in 1 .. n - 1 : j = k + 1 BY <1>3
<1>4. w[k] < w[j] /\ k \in 1 .. n /\ ~(j <= k) OBVIOUS
<1>5. k = i \/ i < k BY <1>3
<1>6. k = i \/ w[i] < w[k] BY <1>2, <1>4, <1>5
<1> PICK x, y, z \in Int : x = w[i] /\ y = w[k] /\ z = w[j] BY <1>3, <1>4
<1> QED BY ONLY <1>3, <1>4, <1>6, x = w[i] /\ y = w[k] /\ z = w[j], x \in Int, y \in Int, z \in Int

LEMMA SideWorths ==
    ASSUME NEW s \in Seq(Prices)
    PROVE  /\ DOMAIN s = 1 .. Len(s) /\ Len(s) \in Nat
           /\ \A i \in DOMAIN s : s[i] \in Prices /\ IsDec(s[i]) /\ Worth(s[i]) \in Int
<1>1. \A i \in DOMAIN s : s[i] \in Prices OBVIOUS
<1> QED BY <1>1, DigitsAre, WorthIs

LEMMA KeyOfAsks ==
    ASSUME NEW a \in Seq(Prices)
    PROVE  CanonicalSide(a, FALSE) = IF Rises(a) /\ AboveZero(a) THEN {PlainSide(a)} ELSE {}
<1> PICK n \in Nat : n = Len(a) BY SideWorths
<1>1. DOMAIN a = 1 .. n /\ \A i \in 1 .. n : IsDec(a[i]) /\ Worth(a[i]) \in Int /\ a[i] \in Prices
  BY SideWorths
<1>2. AboveZero(a) <=> ~\E i \in DOMAIN a : ~Positive(a[i])
  BY <1>1, PositiveIsWorth DEF AboveZero
<1> PICK w : w = [i \in 1 .. n |-> Worth(a[i])] OBVIOUS
<1>3. w \in [1 .. n -> Int] /\ \A i \in 1 .. n : w[i] = Worth(a[i]) BY <1>1
<1>4. \A i \in 1 .. n - 1 : i \in 1 .. n /\ i + 1 \in 1 .. n /\ i < i + 1 OBVIOUS
<1>5. \A i \in 1 .. n - 1 : OutOfOrder(a[i], a[i + 1], FALSE) <=> w[i + 1] <= w[i]
  <2> TAKE i \in 1 .. n - 1
  <2>1. AtMost(a[i + 1], a[i]) <=> Worth(a[i + 1]) <= Worth(a[i]) BY <1>1, <1>4, AtMostIsWorth
  <2> QED BY <1>3, <1>4, <2>1 DEF OutOfOrder
<1>6. Rises(a) <=> \A i, j \in 1 .. n : i < j => w[i] < w[j] BY <1>1, <1>3 DEF Rises
<1>7. Rises(a) <=> \A i \in 1 .. n - 1 : w[i] < w[i + 1]
  <2>1. Rises(a) => \A i \in 1 .. n - 1 : w[i] < w[i + 1] BY <1>4, <1>6
  <2>2. (\A i \in 1 .. n - 1 : w[i] < w[i + 1]) => \A i, j \in 1 .. n : i < j => w[i] < w[j]
    BY ONLY <1>3, n \in Nat, RisesThroughout
  <2> QED BY ONLY <1>6, <2>1, <2>2, Zenon
<1>8. Rises(a) <=> ~\E i \in 1 .. Len(a) - 1 : OutOfOrder(a[i], a[i + 1], FALSE)
  <2>1. \A i \in 1 .. n - 1 : w[i + 1] <= w[i] <=> ~(w[i] < w[i + 1])
    <3> TAKE i \in 1 .. n - 1
    <3>1. w[i] \in Int /\ w[i + 1] \in Int BY ONLY <1>3, <1>4, i \in 1 .. n - 1
    <3> QED BY ONLY <3>1
  <2> QED BY <1>5, <1>7, <2>1
<1>9. [i \in DOMAIN a |-> LevelKey(a[i])] = PlainSide(a)
  BY <1>1, PlainIsNormal DEF LevelKey, PlainSide
<1> QED BY <1>2, <1>8, <1>9, Zenon DEF CanonicalSide

LEMMA KeyOfBids ==
    ASSUME NEW b \in Seq(Prices)
    PROVE  CanonicalSide(b, TRUE) = IF Falls(b) /\ AboveZero(b) THEN {PlainSide(b)} ELSE {}
<1> PICK n \in Nat : n = Len(b) BY SideWorths
<1>1. DOMAIN b = 1 .. n /\ \A i \in 1 .. n : IsDec(b[i]) /\ Worth(b[i]) \in Int /\ b[i] \in Prices
  BY SideWorths
<1>2. AboveZero(b) <=> ~\E i \in DOMAIN b : ~Positive(b[i])
  BY <1>1, PositiveIsWorth DEF AboveZero
<1> PICK w : w = [i \in 1 .. n |-> 0 - Worth(b[i])] OBVIOUS
<1>3. w \in [1 .. n -> Int] /\ \A i \in 1 .. n : w[i] = 0 - Worth(b[i]) BY <1>1
<1>4. \A i \in 1 .. n - 1 : i \in 1 .. n /\ i + 1 \in 1 .. n /\ i < i + 1 OBVIOUS
<1>5. \A i \in 1 .. n - 1 : OutOfOrder(b[i], b[i + 1], TRUE) <=> w[i + 1] <= w[i]
  <2> TAKE i \in 1 .. n - 1
  <2>1. AtMost(b[i], b[i + 1]) <=> Worth(b[i]) <= Worth(b[i + 1]) BY <1>1, <1>4, AtMostIsWorth
  <2>2. Worth(b[i]) <= Worth(b[i + 1]) <=> w[i + 1] <= w[i]
    <3> PICK x, y \in Int : x = Worth(b[i]) /\ y = Worth(b[i + 1]) BY <1>1, <1>4
    <3> QED BY <1>3, <1>4
  <2> QED BY <2>1, <2>2 DEF OutOfOrder
<1>6. Falls(b) <=> \A i, j \in 1 .. n : i < j => w[i] < w[j]
  <2>1. \A i, j \in 1 .. n : Worth(b[i]) > Worth(b[j]) <=> w[i] < w[j]
    <3> TAKE i, j \in 1 .. n
    <3> PICK x, y \in Int : x = Worth(b[i]) /\ y = Worth(b[j]) BY <1>1
    <3> QED BY <1>3
  <2> QED BY <1>1, <2>1 DEF Falls
<1>7. Falls(b) <=> \A i \in 1 .. n - 1 : w[i] < w[i + 1]
  <2>1. Falls(b) => \A i \in 1 .. n - 1 : w[i] < w[i + 1] BY <1>4, <1>6
  <2>2. (\A i \in 1 .. n - 1 : w[i] < w[i + 1]) => \A i, j \in 1 .. n : i < j => w[i] < w[j]
    BY ONLY <1>3, n \in Nat, RisesThroughout
  <2> QED BY ONLY <1>6, <2>1, <2>2, Zenon
<1>8. Falls(b) <=> ~\E i \in 1 .. Len(b) - 1 : OutOfOrder(b[i], b[i + 1], TRUE)
  <2>1. \A i \in 1 .. n - 1 : w[i + 1] <= w[i] <=> ~(w[i] < w[i + 1])
    <3> TAKE i \in 1 .. n - 1
    <3>1. w[i] \in Int /\ w[i + 1] \in Int BY ONLY <1>3, <1>4, i \in 1 .. n - 1
    <3> QED BY ONLY <3>1
  <2> QED BY <1>5, <1>7, <2>1
<1>9. [i \in DOMAIN b |-> LevelKey(b[i])] = PlainSide(b)
  BY <1>1, PlainIsNormal DEF LevelKey, PlainSide
<1> QED BY <1>2, <1>8, <1>9, Zenon DEF CanonicalSide

(* Of two sorted sides no bid reaches an ask if the best bid reaches no best ask. *)
LEMMA CrossedIsApart ==
    ASSUME NEW b \in Seq(Prices), NEW a \in Seq(Prices), Falls(b), Rises(a)
    PROVE  IsCrossed(PlainSide(b), PlainSide(a)) <=> ~SidesApart(b, a)
<1> PICK n \in Nat : n = Len(b) BY SideWorths
<1> PICK l \in Nat : l = Len(a) BY SideWorths
<1>1. DOMAIN b = 1 .. n /\ \A i \in 1 .. n : IsDec(b[i]) /\ Worth(b[i]) \in Int /\ b[i] \in Prices
  BY SideWorths
<1>2. DOMAIN a = 1 .. l /\ \A i \in 1 .. l : IsDec(a[i]) /\ Worth(a[i]) \in Int /\ a[i] \in Prices
  BY SideWorths
<1>3. PlainSide(b) = <<>> <=> n = 0
  <2>1. DOMAIN PlainSide(b) = 1 .. n BY <1>1 DEF PlainSide
  <2>2. n = 0 => PlainSide(b) = <<>> BY <2>1 DEF PlainSide
  <2> QED BY <2>1, <2>2
<1>4. PlainSide(a) = <<>> <=> l = 0
  <2>1. DOMAIN PlainSide(a) = 1 .. l BY <1>2 DEF PlainSide
  <2>2. l = 0 => PlainSide(a) = <<>> BY <2>1 DEF PlainSide
  <2> QED BY <2>1, <2>2
<1>5. CASE n = 0 \/ l = 0
  <2>1. ~IsCrossed(PlainSide(b), PlainSide(a)) BY <1>3, <1>4, <1>5 DEF IsCrossed
  <2>2. SidesApart(b, a) BY <1>1, <1>2, <1>5 DEF SidesApart
  <2> QED BY <2>1, <2>2
<1>6. CASE n # 0 /\ l # 0
  <2>1. 1 \in 1 .. n /\ 1 \in 1 .. l BY <1>6
  <2>2. PlainSide(b)[1] = Normal(b[1]) /\ PlainSide(a)[1] = Normal(a[1])
    BY <1>1, <1>2, <2>1, PlainIsNormal DEF PlainSide
  <2>3. IsDec(Normal(b[1])) /\ Worth(Normal(b[1])) = Worth(b[1]) BY <1>1, <2>1, NormalKeepsWorth
  <2>4. IsDec(Normal(a[1])) /\ Worth(Normal(a[1])) = Worth(a[1]) BY <1>2, <2>1, NormalKeepsWorth
  <2>5. AtMost(Normal(a[1]), Normal(b[1])) <=> Worth(a[1]) <= Worth(b[1])
    BY <2>3, <2>4, AtMostIsWorth
  <2>6. IsCrossed(PlainSide(b), PlainSide(a)) <=> Worth(a[1]) <= Worth(b[1])
    BY <1>3, <1>4, <1>6, <2>2, <2>5 DEF IsCrossed
  <2> PICK x, y \in Int : x = Worth(b[1]) /\ y = Worth(a[1]) BY <1>1, <1>2, <2>1
  <2>7. SidesApart(b, a) => x < y BY <1>1, <1>2, <2>1 DEF SidesApart
  <2>8. ASSUME x < y, NEW i \in 1 .. n, NEW j \in 1 .. l PROVE Worth(b[i]) < Worth(a[j])
    <3> PICK p, q \in Int : p = Worth(b[i]) /\ q = Worth(a[j]) BY <1>1, <1>2
    <3>1. i = 1 \/ 1 < i BY <1>1
    <3>2. j = 1 \/ 1 < j BY <1>1
    <3>3. i = 1 \/ x > p BY <1>1, <2>1, <3>1 DEF Falls
    <3>4. j = 1 \/ y < q BY <1>2, <2>1, <3>2 DEF Rises
    <3>5. p <= x /\ y <= q BY <3>3, <3>4
    <3>6. p < q BY ONLY <2>8, <3>5, x \in Int, y \in Int, p \in Int, q \in Int
    <3> QED BY <3>6
  <2>9. SidesApart(b, a) <=> x < y BY <1>1, <1>2, <2>7, <2>8 DEF SidesApart
  <2> QED BY <2>6, <2>9
<1> QED BY <1>5, <1>6

Sorted(b, a) == Falls(b) /\ Rises(a) /\ SidesApart(b, a) /\ AboveZero(b) /\ AboveZero(a)

(* The pairs of canonical sides that do not cross: one if all is sorted, else none. *)
LEMMA KeysOfSides ==
    ASSUME NEW b \in Seq(Prices), NEW a \in Seq(Prices)
    PROVE  {k \in CanonicalSide(b, TRUE) \X CanonicalSide(a, FALSE) : ~IsCrossed(k[1], k[2])}
           = IF Sorted(b, a) THEN {<<PlainSide(b), PlainSide(a)>>} ELSE {}
<1> DEFINE K == {k \in CanonicalSide(b, TRUE) \X CanonicalSide(a, FALSE) : ~IsCrossed(k[1], k[2])}
           B == CanonicalSide(b, TRUE)
           A == CanonicalSide(a, FALSE)
           P == PlainSide(b)
           Q == PlainSide(a)
<1>1. B = IF Falls(b) /\ AboveZero(b) THEN {P} ELSE {} BY KeyOfBids
<1>2. A = IF Rises(a) /\ AboveZero(a) THEN {Q} ELSE {} BY KeyOfAsks
<1>3. CASE Falls(b) /\ AboveZero(b) /\ Rises(a) /\ AboveZero(a)
  <2>1. IsCrossed(P, Q) <=> ~SidesApart(b, a) BY <1>3, CrossedIsApart
  <2>2. B = {P} /\ A = {Q} BY <1>1, <1>2, <1>3
  <2> HIDE DEF A, B, P, Q
  <2>3. \A k : k \in B \X A <=> k = <<P, Q>> BY <2>2
  <2>4. {k \in B \X A : ~IsCrossed(k[1], k[2])} = IF SidesApart(b, a) THEN {<<P, Q>>} ELSE {}
    <3>1. \A k : k \in {r \in B \X A : ~IsCrossed(r[1], r[2])}
                   <=> k = <<P, Q>> /\ ~IsCrossed(P, Q)
      BY <2>3
    <3> QED BY <2>1, <3>1
  <2>5. Sorted(b, a) <=> SidesApart(b, a) BY <1>3 DEF Sorted
  <2> QED BY <2>4, <2>5 DEF A, B, P, Q
<1>4. CASE ~(Falls(b) /\ AboveZero(b) /\ Rises(a) /\ AboveZero(a))
  <2>1. B = {} \/ A = {} BY <1>1, <1>2, <1>4
  <2>2. ~Sorted(b, a) BY <1>4 DEF Sorted
  <2> HIDE DEF A, B
  <2>3. {k \in B \X A : ~IsCrossed(k[1], k[2])} = {} BY <2>1
  <2> QED BY <2>2, <2>3 DEF A, B
<1> QED BY <1>3, <1>4

LEMMA L2KeyIs ==
    ASSUME NEW b \in Seq(Prices), NEW a \in Seq(Prices)
    PROVE  L2Key(b, a) = IF Sorted(b, a) /\ Len(b) = L2BookDepth /\ Len(a) = L2BookDepth
                         THEN {<<PlainSide(b), PlainSide(a)>>} ELSE {}
<1> DEFINE S == CanonicalSide(b, TRUE) \X CanonicalSide(a, FALSE)
           full == Len(b) = L2BookDepth /\ Len(a) = L2BookDepth
<1>1. {k \in S : ~IsCrossed(k[1], k[2])}
      = IF Sorted(b, a) THEN {<<PlainSide(b), PlainSide(a)>>} ELSE {}
  BY KeysOfSides
<1>2. L2Key(b, a) = {k \in S : Len(b) = L2BookDepth /\ Len(a) = L2BookDepth /\ ~IsCrossed(k[1], k[2])}
  BY DEF L2Key
<1> HIDE DEF S
<1>3. L2Key(b, a) = IF full THEN {k \in S : ~IsCrossed(k[1], k[2])} ELSE {} BY <1>2
<1> QED BY <1>1, <1>3

LEMMA BboKeyIs ==
    ASSUME NEW b \in Seq(Prices), NEW a \in Seq(Prices)
    PROVE  BboKey(b, a) = IF Sorted(b, a) /\ (b # <<>> \/ a # <<>>)
                          THEN {<<PlainSide(b), PlainSide(a)>>} ELSE {}
<1> DEFINE S == CanonicalSide(b, TRUE) \X CanonicalSide(a, FALSE)
           K == {k \in S : ~IsCrossed(k[1], k[2])}
           some == b # <<>> \/ a # <<>>
<1>1. K = IF Sorted(b, a) THEN {<<PlainSide(b), PlainSide(a)>>} ELSE {}
  BY KeysOfSides
<1>2. BboKey(b, a) = {k \in S : k # <<<<>>, <<>>>> /\ ~IsCrossed(k[1], k[2])}
  BY DEF BboKey
<1>3. BboKey(b, a) = K \ {<<<<>>, <<>>>>}
  <2> HIDE DEF S
  <2> QED BY <1>2
<1>4. <<PlainSide(b), PlainSide(a)>> = <<<<>>, <<>>>> <=> ~some
  <2>1. \A s \in Seq(Prices) : PlainSide(s) = <<>> <=> s = <<>>
    <3> TAKE s \in Seq(Prices)
    <3>1. DOMAIN PlainSide(s) = 1 .. Len(s) /\ DOMAIN s = 1 .. Len(s) /\ Len(s) \in Nat
      BY SideWorths DEF PlainSide
    <3>2. s = <<>> => PlainSide(s) = <<>> BY <3>1 DEF PlainSide
    <3> QED BY <3>1, <3>2
  <2> PICK p, q : p = PlainSide(b) /\ q = PlainSide(a) OBVIOUS
  <2>2. <<p, q>> = <<<<>>, <<>>>> <=> p = <<>> /\ q = <<>> OBVIOUS
  <2> QED BY <2>1, <2>2
<1> HIDE DEF K
<1> QED BY <1>1, <1>3, <1>4

SidesOf == Sides(L2BookDepth)

LEMMA SidesAre == \A s \in SidesOf : s \in Seq(Prices) /\ Len(s) <= L2BookDepth
<1> TAKE s \in SidesOf
<1>1. PICK k \in 0 .. L2BookDepth : s \in [1 .. k -> Prices] BY DEF SidesOf, Sides
<1>2. k \in Nat /\ L2BookDepth \in Nat BY CanonicalAssumption
<1> QED BY <1>1, <1>2

(* A book has the key its worths give it. *)
LEMMA BookHasItsKey ==
    ASSUME NEW b \in SidesOf, NEW a \in SidesOf,
           \/ message = [kind |-> "l2", bids |-> b, asks |-> a] /\ keys = L2Key(b, a)
           \/ message = [kind |-> "bbo", bids |-> b, asks |-> a] /\ keys = BboKey(b, a)
    PROVE  BookIsKey
<1>1. b \in Seq(Prices) /\ a \in Seq(Prices) BY SidesAre
<1>2. message.bids = b /\ message.asks = a /\ message.kind \in {"l2", "bbo"} OBVIOUS
<1>3. AboveZero(b) /\ AboveZero(a) <=> \A p \in Range(b) \cup Range(a) : Worth(p) > 0
  BY DEF AboveZero, Range
<1> DEFINE full == IF message.kind = "l2" THEN Len(b) = L2BookDepth /\ Len(a) = L2BookDepth
                                          ELSE b # <<>> \/ a # <<>>
<1>4. keys = IF Sorted(b, a) /\ full THEN {<<PlainSide(b), PlainSide(a)>>} ELSE {}
  <2>1. CASE message = [kind |-> "l2", bids |-> b, asks |-> a] /\ keys = L2Key(b, a)
    BY <1>1, <2>1, L2KeyIs
  <2>2. CASE message = [kind |-> "bbo", bids |-> b, asks |-> a] /\ keys = BboKey(b, a)
    <3>1. message.kind # "l2" BY <2>2
    <3> QED BY <1>1, <2>2, <3>1, BboKeyIs
  <2> QED BY <2>1, <2>2
<1>5. Sorted(b, a) <=> /\ \A i, j \in DOMAIN b : i < j => Worth(b[i]) > Worth(b[j])
                       /\ \A i, j \in DOMAIN a : i < j => Worth(a[i]) < Worth(a[j])
                       /\ \A i \in DOMAIN b, j \in DOMAIN a : Worth(b[i]) < Worth(a[j])
                       /\ \A p \in Range(b) \cup Range(a) : Worth(p) > 0
  BY <1>3 DEF Sorted, Falls, Rises, SidesApart
<1> QED BY <1>2, <1>4, <1>5, Zenon DEF BookIsKey, PlainSide
-----------------------------------------------------------------------------
(* Trades. *)

LEMMA LowerIs == \A t, upper : Lower(Hash(t, upper)) = Hash(t, FALSE)
<1> TAKE t, upper
<1> PICK h : h = [digits |-> t, upper |-> upper] OBVIOUS
<1> PICK g : g = [h EXCEPT !.upper = FALSE] OBVIOUS
<1> PICK e : e = [digits |-> t, upper |-> FALSE] OBVIOUS
<1>1. DOMAIN h = {"digits", "upper"} /\ DOMAIN e = {"digits", "upper"} OBVIOUS
<1>2. DOMAIN g = {"digits", "upper"} /\ g.digits = t /\ g.upper = FALSE BY <1>1
<1>3. e.digits = t /\ e.upper = FALSE OBVIOUS
<1>4. g = e
  <2>1. \A i \in {"digits", "upper"} : g[i] = e[i] BY <1>2, <1>3
  <2>2. g = [i \in {"digits", "upper"} |-> g[i]] BY <1>2
  <2>3. e = [i \in {"digits", "upper"} |-> e[i]] BY <1>1
  <2> QED BY <2>1, <2>2, <2>3
<1>5. Hash(t, upper) = h BY DEF Hash
<1> QED BY <1>4, <1>5 DEF Lower, Hash

LEMMA FillsAre ==
    \A f \in Fills :
        /\ f.tid \in DOMAIN Trades /\ f.side \in {"A", "B"} /\ f.px \in Prices
        /\ f.crossed \in BOOLEAN /\ f.user = User(f.tid, f.side)
        /\ Lower(f.hash) = Hash(f.tid, FALSE)
<1> TAKE f \in Fills
<1>1. PICK t \in DOMAIN Trades, side \in {"A", "B"}, px \in Prices, wrong \in BOOLEAN :
          f = Fill(t, side, px, px # Normal(px), wrong)
  BY DEF Fills
<1> PICK upper \in BOOLEAN : upper = (px # Normal(px)) OBVIOUS
<1> PICK crossed \in BOOLEAN : crossed = ((side = Trades[t].aggressor) # wrong) OBVIOUS
<1>2. f = [tid |-> t, side |-> side, user |-> User(t, side), px |-> px, hash |-> Hash(t, upper),
           crossed |-> crossed]
  BY <1>1 DEF Fill
<1>3. Lower(Hash(t, upper)) = Hash(t, FALSE) BY LowerIs
<1> QED BY <1>2, <1>3

(* What a pair of fills of one trade agrees on. *)
LEMMA PairKeyIs ==
    ASSUME NEW f \in Fills, NEW g \in Fills, f.tid = g.tid, f.side = "A", g.side = "B"
    PROVE  PairKey(f, g) =
             IF Worth(f.px) > 0 /\ Worth(f.px) = Worth(g.px) /\ f.crossed # g.crossed
             THEN {[tid |-> f.tid, side |-> IF f.crossed THEN "A" ELSE "B", px |-> Normal(f.px),
                    hash |-> Hash(f.tid, FALSE), users |-> <<User(f.tid, "B"), User(f.tid, "A")>>]}
             ELSE {}
<1>1. f.px \in Prices /\ f.user = User(f.tid, "A") /\ Lower(f.hash) = Hash(f.tid, FALSE)
  BY FillsAre
<1>2. g.px \in Prices /\ g.user = User(f.tid, "B") /\ Lower(g.hash) = Hash(f.tid, FALSE)
  BY FillsAre
<1>3. IsDec(f.px) /\ IsDec(g.px) BY <1>1, <1>2, DigitsAre
<1>4. Positive(f.px) <=> Worth(f.px) > 0 BY <1>3, PositiveIsWorth
<1>5. Positive(g.px) <=> Worth(g.px) > 0 BY <1>3, PositiveIsWorth
<1>6. Normal(f.px) = Normal(g.px) <=> Worth(f.px) = Worth(g.px) BY <1>3, NormalIsWorth
<1>7. CASE Worth(f.px) > 0 /\ Worth(f.px) = Worth(g.px) /\ f.crossed # g.crossed
  <2>1. PairKey(f, g)
        = TradeKey(f.tid, IF f.crossed THEN "A" ELSE "B", f.px, f.hash, g.user, f.user)
    BY <1>1, <1>2, <1>4, <1>5, <1>6, <1>7, Zenon DEF PairKey
  <2>2. Positive(f.px) BY <1>4, <1>7
  <2> QED BY <1>1, <1>2, <1>7, <2>1, <2>2, Zenon DEF TradeKey
<1>8. CASE ~(Worth(f.px) > 0 /\ Worth(f.px) = Worth(g.px) /\ f.crossed # g.crossed)
  <2>1. ~Positive(f.px) \/ Normal(f.px) # Normal(g.px) \/ f.crossed = g.crossed
    BY <1>4, <1>6, <1>8, Zenon
  <2>2. PairKey(f, g) = {} BY <2>1, Zenon DEF PairKey
  <2> QED BY <1>8, <2>2, Zenon
<1> QED BY <1>7, <1>8

LEMMA FirstOfIs ==
    ASSUME NEW batch \in Seq(Fills), NEW t, NEW side
    PROVE  \/ /\ FirstOf(batch, t, side) = 0
              /\ \A i \in DOMAIN batch : ~(batch[i].tid = t /\ batch[i].side = side)
           \/ /\ FirstOf(batch, t, side) \in DOMAIN batch /\ FirstOf(batch, t, side) # 0
              /\ batch[FirstOf(batch, t, side)].tid = t
              /\ batch[FirstOf(batch, t, side)].side = side
<1> DEFINE I == {i \in 1 .. Len(batch) : batch[i].tid = t /\ batch[i].side = side}
<1>1. FirstOf(batch, t, side) = IF I # {} THEN Min(I) ELSE 0
  BY DEF FirstOf, SelectInSeq
<1>2. DOMAIN batch = 1 .. Len(batch) /\ I \subseteq Nat OBVIOUS
<1>3. CASE I = {} BY <1>1, <1>2, <1>3
<1>4. CASE I # {}
  <2> HIDE DEF I
  <2>1. PICK m \in I : \A u \in I : m <= u BY ONLY <1>2, <1>4, LeastNumber
  <2>2. Min(I) \in I BY <2>1 DEF Min
  <2> PICK i \in I : i = FirstOf(batch, t, side) BY <1>1, <1>4, <2>2
  <2>3. i \in 1 .. Len(batch) /\ batch[i].tid = t /\ batch[i].side = side BY DEF I
  <2> QED BY <1>2, <2>3
<1> QED BY <1>3, <1>4

(* The pair of a trade, if both sides are told. *)
Paired(batch, t)  == FirstOf(batch, t, "A") # 0 /\ FirstOf(batch, t, "B") # 0
AskOf(batch, t)   == batch[FirstOf(batch, t, "A")]
BidOf(batch, t)   == batch[FirstOf(batch, t, "B")]
KeysFor(batch, t) == {k \in BatchKeys(batch) : k.tid = t}

LEMMA PairIs ==
    ASSUME NEW batch \in Seq(Fills), NEW t, Paired(batch, t)
    PROVE  /\ AskOf(batch, t) \in Fills /\ BidOf(batch, t) \in Fills
           /\ AskOf(batch, t).tid = t /\ AskOf(batch, t).side = "A"
           /\ BidOf(batch, t).tid = t /\ BidOf(batch, t).side = "B"
           /\ \E i, j \in DOMAIN batch : AskOf(batch, t) = batch[i] /\ BidOf(batch, t) = batch[j]
<1> PICK i : i = FirstOf(batch, t, "A") OBVIOUS
<1> PICK j : j = FirstOf(batch, t, "B") OBVIOUS
<1>1. i # 0 /\ j # 0 BY DEF Paired
<1>2. i \in DOMAIN batch /\ batch[i].tid = t /\ batch[i].side = "A" BY <1>1, FirstOfIs
<1>3. j \in DOMAIN batch /\ batch[j].tid = t /\ batch[j].side = "B" BY <1>1, FirstOfIs
<1>4. batch[i] \in Fills /\ batch[j] \in Fills BY <1>2, <1>3
<1> QED BY <1>2, <1>3, <1>4 DEF AskOf, BidOf

LEMMA PairKeyHasItsTrade ==
    ASSUME NEW batch \in Seq(Fills), NEW t, Paired(batch, t),
           NEW k \in PairKey(AskOf(batch, t), BidOf(batch, t))
    PROVE  k.tid = t
<1> PICK f \in Fills, g \in Fills : f = AskOf(batch, t) /\ g = BidOf(batch, t) BY PairIs
<1>1. f.tid = t /\ g.tid = t /\ f.side = "A" /\ g.side = "B" BY PairIs
<1>2. PairKey(f, g) =
             IF Worth(f.px) > 0 /\ Worth(f.px) = Worth(g.px) /\ f.crossed # g.crossed
             THEN {[tid |-> f.tid, side |-> IF f.crossed THEN "A" ELSE "B", px |-> Normal(f.px),
                    hash |-> Hash(f.tid, FALSE), users |-> <<User(f.tid, "B"), User(f.tid, "A")>>]}
             ELSE {}
  BY <1>1, PairKeyIs
<1>3. k = [tid |-> f.tid, side |-> IF f.crossed THEN "A" ELSE "B", px |-> Normal(f.px),
           hash |-> Hash(f.tid, FALSE), users |-> <<User(f.tid, "B"), User(f.tid, "A")>>]
  BY <1>2
<1> QED BY <1>1, <1>3

(* The keys of a batch that are of a trade are those of its pair. *)
LEMMA KeysForTrade ==
    ASSUME NEW batch \in Seq(Fills), NEW t \in DOMAIN Trades
    PROVE  KeysFor(batch, t) = IF Paired(batch, t)
                               THEN PairKey(AskOf(batch, t), BidOf(batch, t)) ELSE {}
<1>1. BatchKeys(batch) = UNION {PairKey(AskOf(batch, u), BidOf(batch, u)) :
                                   u \in {v \in DOMAIN Trades : Paired(batch, v)}}
  BY DEF BatchKeys, Paired, AskOf, BidOf
<1>2. \A k : k \in BatchKeys(batch) <=>
        \E u \in DOMAIN Trades : Paired(batch, u) /\ k \in PairKey(AskOf(batch, u), BidOf(batch, u))
  BY <1>1
<1>3. \A u : Paired(batch, u) => \A k \in PairKey(AskOf(batch, u), BidOf(batch, u)) : k.tid = u
  BY PairKeyHasItsTrade
<1>4. \A k : k \in KeysFor(batch, t)
        <=> Paired(batch, t) /\ k \in PairKey(AskOf(batch, t), BidOf(batch, t))
  BY <1>2, <1>3 DEF KeysFor
<1> QED BY <1>4

(* What the record of a trade has for a key. *)
LEMMA RecordKeyIs ==
    ASSUME NEW t \in DOMAIN Trades, NEW p \in Prices
    PROVE  WsTradeKey(t, Plain(p), FALSE) =
             IF Worth(p) > 0
             THEN {[tid |-> t, side |-> Trades[t].aggressor, px |-> Normal(p),
                    hash |-> Hash(t, FALSE), users |-> <<User(t, "B"), User(t, "A")>>]}
             ELSE {}
<1>1. IsDec(p) /\ Plain(p) = Normal(p) BY DigitsAre, PlainIsNormal
<1>2. IsDec(Normal(p)) /\ Worth(Normal(p)) = Worth(p) /\ Normal(Normal(p)) = Normal(p)
  BY <1>1, NormalKeepsWorth, NormalOfNormal
<1>3. Positive(Plain(p)) <=> Worth(p) > 0 BY <1>1, <1>2, PositiveIsWorth
<1>4. Lower(Hash(t, FALSE)) = Hash(t, FALSE) BY LowerIs
<1>5. Normal(Plain(p)) = Normal(p) BY <1>1, <1>2
<1> QED BY <1>3, <1>4, <1>5, Zenon DEF WsTradeKey, TradeKey

(* One trade of a batch. *)
LEMMA TradeHasItsKey ==
    ASSUME NEW batch \in Seq(Fills), NEW t \in DOMAIN Trades
    PROVE  LET told  == {f \in Range(batch) : f.tid = t}
               alike == /\ \A f, g \in told : Worth(f.px) = Worth(g.px)
                        /\ \A f \in told : f.crossed <=> f.side = Trades[t].aggressor
           IN /\ KeysFor(batch, t) = {} \/ \E k : KeysFor(batch, t) = {k}
              /\ {f.side : f \in told} # {"A", "B"} => KeysFor(batch, t) = {}
              /\ {f.side : f \in told} = {"A", "B"} /\ alike =>
                   LET p == (CHOOSE f \in told : TRUE).px
                   IN KeysFor(batch, t) = WsTradeKey(t, Plain(p), FALSE)
<1> DEFINE told  == {f \in Range(batch) : f.tid = t}
           alike == /\ \A f, g \in told : Worth(f.px) = Worth(g.px)
                    /\ \A f \in told : f.crossed <=> f.side = Trades[t].aggressor
           sides == {f.side : f \in told}
           p     == (CHOOSE f \in told : TRUE).px
<1>1. \A i \in DOMAIN batch : batch[i] \in Fills /\ batch[i] \in Range(batch) BY DEF Range
<1>2. \A f \in told : \E i \in DOMAIN batch : f = batch[i] BY DEF Range
<1>3. \A f \in told : f \in Fills /\ f.tid = t /\ f.side \in {"A", "B"} BY <1>1, <1>2, FillsAre
<1>4. sides \subseteq {"A", "B"} BY <1>3
<1>5. CASE ~Paired(batch, t)
  <2>1. KeysFor(batch, t) = {} BY <1>5, KeysForTrade
  <2>2. PICK side \in {"A", "B"} : FirstOf(batch, t, side) = 0 BY <1>5 DEF Paired
  <2>3. \A i \in DOMAIN batch : ~(batch[i].tid = t /\ batch[i].side = side)
    BY <2>2, FirstOfIs
  <2>4. side \notin sides BY <1>2, <1>3, <2>3
  <2>5. sides # {"A", "B"} BY <2>4
  <2> HIDE DEF told, alike, sides, p
  <2>6. (KeysFor(batch, t) = {} \/ \E k : KeysFor(batch, t) = {k})
        /\ (sides # {"A", "B"} => KeysFor(batch, t) = {})
        /\ (sides = {"A", "B"} /\ alike => KeysFor(batch, t) = WsTradeKey(t, Plain(p), FALSE))
    BY <2>1, <2>5
  <2> QED BY <2>6 DEF told, alike, sides, p
<1>6. CASE Paired(batch, t)
  <2> PICK a \in Fills, b \in Fills : a = AskOf(batch, t) /\ b = BidOf(batch, t) BY <1>6, PairIs
  <2>1. a.tid = t /\ b.tid = t /\ a.side = "A" /\ b.side = "B" /\ a \in told /\ b \in told
    BY <1>1, <1>6, PairIs
  <2>2. sides = {"A", "B"} BY <1>4, <2>1
  <2> DEFINE k == [tid |-> t, side |-> IF a.crossed THEN "A" ELSE "B", px |-> Normal(a.px),
                   hash |-> Hash(t, FALSE), users |-> <<User(t, "B"), User(t, "A")>>]
             agree == Worth(a.px) > 0 /\ Worth(a.px) = Worth(b.px) /\ a.crossed # b.crossed
  <2>3. KeysFor(batch, t) = PairKey(a, b) BY <1>6, KeysForTrade
  <2>4. KeysFor(batch, t) = IF agree THEN {k} ELSE {}
    <3>1. PairKey(a, b) =
            IF Worth(a.px) > 0 /\ Worth(a.px) = Worth(b.px) /\ a.crossed # b.crossed
            THEN {[tid |-> a.tid, side |-> IF a.crossed THEN "A" ELSE "B", px |-> Normal(a.px),
                   hash |-> Hash(a.tid, FALSE),
                   users |-> <<User(a.tid, "B"), User(a.tid, "A")>>]}
            ELSE {}
      BY ONLY <2>1, a \in Fills, b \in Fills, PairKeyIs
    <3>2. a.tid = t BY <2>1
    <3> QED BY ONLY <2>3, <3>1, <3>2
  <2>5. ASSUME alike PROVE KeysFor(batch, t) = WsTradeKey(t, Plain(p), FALSE)
    <3> PICK f \in told : f = CHOOSE e \in told : TRUE BY <2>1
    <3>1. p = f.px /\ f.px \in Prices BY <1>3, FillsAre
    <3> PICK x \in Prices : x = p BY <3>1
    <3>2. a.px \in Prices /\ a.crossed \in BOOLEAN /\ b.crossed \in BOOLEAN BY FillsAre
    <3>3. Worth(a.px) = Worth(x) /\ Worth(a.px) = Worth(b.px) BY <2>1, <2>5, <3>1
    <3>4. Normal(a.px) = Normal(x) BY <3>2, <3>3, DigitsAre, NormalIsWorth
    <3>5. (a.crossed <=> "A" = Trades[t].aggressor) /\ (b.crossed <=> "B" = Trades[t].aggressor)
      BY <2>1, <2>5
    <3>6. Trades[t].aggressor \in {"A", "B"}
      <4> PICK R : R = [aggressor : {"A", "B"}, px : SUBSET Prices] OBVIOUS
      <4>1. Trades \in Seq(R) BY CanonicalAssumption
      <4>2. Trades[t] \in R BY ONLY <4>1, t \in DOMAIN Trades
      <4>3. Trades[t] \in [aggressor : {"A", "B"}, px : SUBSET Prices] BY <4>2
      <4> QED BY ONLY <4>3
    <3>7. a.crossed # b.crossed /\ (IF a.crossed THEN "A" ELSE "B") = Trades[t].aggressor
      BY <3>2, <3>5, <3>6
    <3>8. WsTradeKey(t, Plain(x), FALSE) =
             IF Worth(x) > 0
             THEN {[tid |-> t, side |-> Trades[t].aggressor, px |-> Normal(x),
                    hash |-> Hash(t, FALSE), users |-> <<User(t, "B"), User(t, "A")>>]}
             ELSE {}
      BY RecordKeyIs
    <3>9. agree <=> Worth(x) > 0 BY <3>3, <3>7
    <3>10. k = [tid |-> t, side |-> Trades[t].aggressor, px |-> Normal(x),
                hash |-> Hash(t, FALSE), users |-> <<User(t, "B"), User(t, "A")>>]
      BY <3>4, <3>7
    <3> HIDE DEF agree, k, p
    <3> QED BY <2>4, <3>8, <3>9, <3>10
  <2> HIDE DEF told, alike, sides, p, k, agree
  <2>6. (KeysFor(batch, t) = {} \/ \E r : KeysFor(batch, t) = {r})
        /\ (sides # {"A", "B"} => KeysFor(batch, t) = {})
        /\ (sides = {"A", "B"} /\ alike => KeysFor(batch, t) = WsTradeKey(t, Plain(p), FALSE))
    BY <2>2, <2>4, <2>5
  <2> QED BY <2>6 DEF told, alike, sides, p
<1> QED BY <1>5, <1>6

LEMMA FillsHaveTheirKeys ==
    ASSUME message.batch \in Seq(Fills), keys = BatchKeys(message.batch)
    PROVE  TradeIsKey
<1>1. ASSUME NEW t \in DOMAIN Trades
      PROVE  LET told  == {f \in Range(message.batch) : f.tid = t}
                 alike == /\ \A f, g \in told : Worth(f.px) = Worth(g.px)
                          /\ \A f \in told : f.crossed <=> f.side = Trades[t].aggressor
                 found == {k \in keys : k.tid = t}
             IN /\ Cardinality(found) <= 1
                /\ {f.side : f \in told} # {"A", "B"} => found = {}
                /\ {f.side : f \in told} = {"A", "B"} /\ alike =>
                      LET p == (CHOOSE f \in told : TRUE).px
                      IN found = WsTradeKey(t, Plain(p), FALSE)
  <2>1. KeysFor(message.batch, t) = {k \in keys : k.tid = t} BY DEF KeysFor
  <2>2. KeysFor(message.batch, t) = {} \/ \E k : KeysFor(message.batch, t) = {k} BY TradeHasItsKey, Zenon
  <2>3. Cardinality(KeysFor(message.batch, t)) <= 1
    <3>1. Cardinality({}) = 0 BY FS_EmptySet
    <3>2. \A k : Cardinality({k}) = 1 BY FS_Singleton
    <3> PICK K : K = KeysFor(message.batch, t) OBVIOUS
    <3>3. Cardinality(K) = 0 \/ Cardinality(K) = 1 BY <2>2, <3>1, <3>2
    <3>4. Cardinality(K) <= 1 BY <3>3
    <3> QED BY <3>4
  <2> QED BY <2>1, <2>3, TradeHasItsKey, Zenon
<1> QED BY <1>1, Zenon DEF TradeIsKey
-----------------------------------------------------------------------------
(* Bundles. *)

TouchesAny(actions) == \E i \in DOMAIN actions : Touches(actions[i])

LEMMA BundleHasItsKey ==
    ASSUME NEW actions \in Seq(Actions), NEW upper,
           message = [kind |-> "bundle", hash |-> Hash(1, upper), actions |-> actions],
           keys = GrpcBundleKey(Hash(1, upper), actions) \cup VpcBundleKey(Hash(1, upper), actions)
    PROVE  BundleIsKey /\ keys = IF TouchesAny(actions) THEN {Hash(1, FALSE)} ELSE {}
<1> PICK h : h = Hash(1, upper) OBVIOUS
<1>1. message.actions = actions /\ message.hash = h OBVIOUS
<1>2. Lower(h) = Hash(1, FALSE) BY LowerIs
<1>3. VpcBundleKey(h, actions) = IF TouchesAny(actions) THEN {Hash(1, FALSE)} ELSE {}
  BY <1>2 DEF VpcBundleKey, VpcTouches, TouchesAny
<1>4. TouchesAny(actions) => actions # <<>> BY DEF TouchesAny
<1>5. GrpcBundleKey(h, actions)
      = IF (\A i \in DOMAIN actions : actions[i].object) /\ TouchesAny(actions)
        THEN {Hash(1, FALSE)} ELSE {}
  BY <1>2, <1>4 DEF GrpcBundleKey, TouchesAny
<1>6. keys = IF TouchesAny(actions) THEN {Hash(1, FALSE)} ELSE {} BY <1>3, <1>5
<1>7. h.digits = 1 BY DEF Hash
<1>8. Hash(1, FALSE) = [digits |-> h.digits, upper |-> FALSE] BY <1>7 DEF Hash
<1>9. keys = IF \E i \in DOMAIN actions : Touches(actions[i])
             THEN {[digits |-> h.digits, upper |-> FALSE]} ELSE {}
  BY <1>6, <1>8 DEF TouchesAny
<1>10. (\A i \in DOMAIN actions : actions[i].object) => GrpcBundleKey(h, actions) = keys
  BY <1>5, <1>6
<1>11. BundleIsKey BY <1>1, <1>9, <1>10, Zenon DEF BundleIsKey
<1> QED BY <1>6, <1>11
-----------------------------------------------------------------------------
(* The inductive invariant: the keys are what the message in hand was given. *)

CanonicalInv ==
    \/ message = NoMessage /\ keys = {}
    \/ \E b, a \in SidesOf :
         \/ message = [kind |-> "l2", bids |-> b, asks |-> a] /\ keys = L2Key(b, a)
         \/ message = [kind |-> "bbo", bids |-> b, asks |-> a] /\ keys = BboKey(b, a)
    \/ \E batch \in Seq(Fills) :
         message = [kind |-> "fills", batch |-> batch] /\ keys = BatchKeys(batch)
    \/ \E actions \in Seq(Actions), upper \in BOOLEAN :
         /\ message = [kind |-> "bundle", hash |-> Hash(1, upper), actions |-> actions]
         /\ keys = GrpcBundleKey(Hash(1, upper), actions) \cup VpcBundleKey(Hash(1, upper), actions)

LEMMA BoundedIsSeq ==
    ASSUME NEW S, NEW n \in Nat
    PROVE  BoundedSeq(S, n) \subseteq Seq(S)
<1>1. BoundedSeq(S, n) = UNION {[1 .. m -> S] : m \in 0 .. n} BY DEF BoundedSeq, SeqOf
<1> SUFFICES ASSUME NEW s \in BoundedSeq(S, n) PROVE s \in Seq(S) OBVIOUS
<1> PICK m \in 0 .. n : s \in [1 .. m -> S] BY <1>1
<1> QED OBVIOUS

LEMMA CanonicalInvInduction == CanonicalInv /\ [CanonicalNext]_canonicalVars => CanonicalInv'
<1> SUFFICES ASSUME CanonicalInv, [CanonicalNext]_canonicalVars PROVE CanonicalInv' OBVIOUS
<1>1. CASE ReceiveBook
  <2> PICK b \in SidesOf, a \in SidesOf :
          \/ message' = [kind |-> "l2", bids |-> b, asks |-> a] /\ keys' = L2Key(b, a)
          \/ message' = [kind |-> "bbo", bids |-> b, asks |-> a] /\ keys' = BboKey(b, a)
    BY <1>1 DEF ReceiveBook, SidesOf
  <2> QED BY DEF CanonicalInv
<1>2. CASE ReceiveFills
  <2> PICK batch \in BoundedSeq({f \in Fills : IsTold(f)}, BatchLen) :
          message' = [kind |-> "fills", batch |-> batch] /\ keys' = BatchKeys(batch)
    BY <1>2 DEF ReceiveFills
  <2>1. batch \in Seq({f \in Fills : IsTold(f)})
    BY BoundedIsSeq, CanonicalAssumption, Zenon
  <2>2. batch \in Seq(Fills)
    <3> PICK S : S = {f \in Fills : IsTold(f)} OBVIOUS
    <3>1. batch \in Seq(S) /\ S \subseteq Fills BY <2>1
    <3> QED BY ONLY <3>1
  <2> QED BY <2>2 DEF CanonicalInv
<1>3. CASE ReceiveBundle
  <2> PICK actions \in BoundedSeq(Actions, 2), upper \in BOOLEAN :
        /\ message' = [kind |-> "bundle", hash |-> Hash(1, upper), actions |-> actions]
        /\ keys' = GrpcBundleKey(Hash(1, upper), actions) \cup VpcBundleKey(Hash(1, upper), actions)
    BY <1>3, Zenon DEF ReceiveBundle
  <2>1. actions \in Seq(Actions)
    <3>1. 2 \in Nat OBVIOUS
    <3>2. BoundedSeq(Actions, 2) \subseteq Seq(Actions) BY ONLY <3>1, BoundedIsSeq
    <3> QED BY <3>2
  <2> QED BY <2>1, Zenon DEF CanonicalInv
<1>4. CASE Forget BY <1>4 DEF Forget, CanonicalInv
<1>5. CASE UNCHANGED canonicalVars
  <2>1. message' = message /\ keys' = keys BY <1>5 DEF canonicalVars
  <2> QED BY <2>1 DEF CanonicalInv
<1> QED BY <1>1, <1>2, <1>3, <1>4, <1>5 DEF CanonicalNext

LEMMA CanonicalInvAlways == CanonicalSpec => []CanonicalInv
<1>1. CanonicalInit => CanonicalInv BY DEF CanonicalInit, CanonicalInv
<1> QED BY <1>1, CanonicalInvInduction, PTL DEF CanonicalSpec

LEMMA CanonicalInvGivesKeys == CanonicalInv => ContentIsKey
<1> SUFFICES ASSUME CanonicalInv PROVE ContentIsKey OBVIOUS
<1>1. CASE message = NoMessage /\ keys = {}
  <2>1. message.kind = "none" BY <1>1 DEF NoMessage
  <2> QED BY <1>1, <2>1 DEF ContentIsKey
<1>2. ASSUME NEW b \in SidesOf, NEW a \in SidesOf,
             \/ message = [kind |-> "l2", bids |-> b, asks |-> a] /\ keys = L2Key(b, a)
             \/ message = [kind |-> "bbo", bids |-> b, asks |-> a] /\ keys = BboKey(b, a)
      PROVE  ContentIsKey
  <2>1. BookIsKey BY <1>2, BookHasItsKey
  <2>2. message.kind \in {"l2", "bbo"} BY <1>2
  <2>3. message.kind \notin {"none", "fills", "bundle"} BY <2>2
  <2> QED BY <2>1, <2>2, <2>3 DEF ContentIsKey
<1>3. ASSUME NEW batch \in Seq(Fills), message = [kind |-> "fills", batch |-> batch],
             keys = BatchKeys(batch)
      PROVE  ContentIsKey
  <2>1. message.batch = batch /\ message.kind = "fills" BY <1>3
  <2>2. TradeIsKey BY <1>3, <2>1, FillsHaveTheirKeys
  <2> QED BY <2>1, <2>2 DEF ContentIsKey
<1>4. ASSUME NEW actions \in Seq(Actions), NEW upper \in BOOLEAN,
             message = [kind |-> "bundle", hash |-> Hash(1, upper), actions |-> actions],
             keys = GrpcBundleKey(Hash(1, upper), actions) \cup VpcBundleKey(Hash(1, upper), actions)
      PROVE  ContentIsKey
  <2>1. BundleIsKey BY <1>4, BundleHasItsKey
  <2>2. message.kind = "bundle" BY <1>4
  <2> QED BY <2>1, <2>2 DEF ContentIsKey
<1> QED BY <1>1, <1>2, <1>3, <1>4, Zenon DEF CanonicalInv

\* Equal content has equal keys: an L2 book or BBO is keyed by the worths of its levels alone,
\* a trade by its fills as by its record, a bundle by either leg, and what is no content has
\* no key (parse_ws_book, parse_quicknode_fill_batch, canonical_ws_trade, bundle_input).
THEOREM ContentHasItsKey == CanonicalSpec => []ContentIsKey
BY CanonicalInvAlways, CanonicalInvGivesKeys, PTL
-----------------------------------------------------------------------------
(* How many keys there can be. *)

LEMMA OneKeyAtMost ==
    ASSUME NEW k
    PROVE  Cardinality({}) <= Len(Trades) /\ Cardinality({k}) <= Len(Trades) /\ Len(Trades) \in Nat
<1>1. Len(Trades) \in Nat \ {0}
  <2> PICK R : R = [aggressor : {"A", "B"}, px : SUBSET Prices] OBVIOUS
  <2>1. Trades \in Seq(R) /\ Trades # <<>> BY CanonicalAssumption
  <2> QED BY ONLY <2>1
<1>2. Cardinality({}) = 0 BY FS_EmptySet
<1>3. Cardinality({k}) = 1 BY FS_Singleton
<1> QED BY <1>1, <1>2, <1>3

LEMMA BatchKeysAreFew ==
    ASSUME NEW batch \in Seq(Fills)
    PROVE  Cardinality(BatchKeys(batch)) <= Len(Trades)
<1> DEFINE K == BatchKeys(batch)
           f == [k \in K |-> k.tid]
<1>1. BatchKeys(batch) = UNION {PairKey(AskOf(batch, u), BidOf(batch, u)) :
                                   u \in {v \in DOMAIN Trades : Paired(batch, v)}}
  BY DEF BatchKeys, Paired, AskOf, BidOf
<1>2. \A k \in K : \E u \in DOMAIN Trades :
        Paired(batch, u) /\ k \in PairKey(AskOf(batch, u), BidOf(batch, u))
  BY <1>1
<1>3. \A k \in K : k.tid \in DOMAIN Trades BY <1>2, PairKeyHasItsTrade
<1>4. \A k, l \in K : k.tid = l.tid => k = l
  <2> TAKE k, l \in K
  <2> HAVE k.tid = l.tid
  <2> PICK t \in DOMAIN Trades : t = k.tid BY <1>3
  <2>1. k \in KeysFor(batch, t) /\ l \in KeysFor(batch, t) BY DEF KeysFor
  <2>2. KeysFor(batch, t) = {} \/ \E r : KeysFor(batch, t) = {r} BY TradeHasItsKey, Zenon
  <2> QED BY <2>1, <2>2
<1> HIDE DEF K
<1>5. f \in Injection(K, DOMAIN Trades)
  <2>1. f \in [K -> DOMAIN Trades] BY <1>3
  <2>2. \A k, l \in K : f[k] = f[l] => k = l BY <1>4
  <2> QED BY <2>1, <2>2, Zenon DEF Injection, IsInjective
<1> PICK n \in Nat : n = Len(Trades) BY OneKeyAtMost
<1>6. DOMAIN Trades = 1 .. n
  <2> PICK R : R = [aggressor : {"A", "B"}, px : SUBSET Prices] OBVIOUS
  <2>1. Trades \in Seq(R) BY CanonicalAssumption
  <2> QED BY ONLY <2>1, n = Len(Trades)
<1>7. IsFiniteSet(1 .. n) /\ Cardinality(1 .. n) = n
  <2>1. 1 \in Int /\ n \in Int OBVIOUS
  <2>2. IsFiniteSet(1 .. n) /\ Cardinality(1 .. n) = IF 1 > n THEN 0 ELSE n - 1 + 1
    BY ONLY <2>1, FS_Interval
  <2>3. (IF 1 > n THEN 0 ELSE n - 1 + 1) = n OBVIOUS
  <2> QED BY <2>2, <2>3
<1> HIDE DEF f
<1>8. Cardinality(K) <= Cardinality(1 .. n) BY <1>5, <1>6, <1>7, FS_Injection
<1> QED BY <1>7, <1>8 DEF K

LEMMA CanonicalInvTypes == CanonicalInv => CanonicalTypeOK
<1> SUFFICES ASSUME CanonicalInv PROVE CanonicalTypeOK OBVIOUS
<1>1. CASE message = NoMessage /\ keys = {}
  <2>1. message.kind = "none" BY <1>1 DEF NoMessage
  <2> QED BY <1>1, <2>1, OneKeyAtMost DEF CanonicalTypeOK
<1>2. ASSUME NEW b \in SidesOf, NEW a \in SidesOf,
             \/ message = [kind |-> "l2", bids |-> b, asks |-> a] /\ keys = L2Key(b, a)
             \/ message = [kind |-> "bbo", bids |-> b, asks |-> a] /\ keys = BboKey(b, a)
      PROVE  CanonicalTypeOK
  <2>1. b \in Seq(Prices) /\ a \in Seq(Prices) BY SidesAre
  <2>2. keys = {} \/ \E k : keys = {k}
    <3>1. L2Key(b, a) = {} \/ \E k : L2Key(b, a) = {k} BY <2>1, L2KeyIs
    <3>2. BboKey(b, a) = {} \/ \E k : BboKey(b, a) = {k} BY <2>1, BboKeyIs
    <3> QED BY <1>2, <3>1, <3>2
  <2>3. message.kind \in {"l2", "bbo"} BY <1>2
  <2>4. Cardinality(keys) <= Len(Trades) BY <2>2, OneKeyAtMost
  <2> QED BY <2>3, <2>4 DEF CanonicalTypeOK
<1>3. ASSUME NEW batch \in Seq(Fills), message = [kind |-> "fills", batch |-> batch],
             keys = BatchKeys(batch)
      PROVE  CanonicalTypeOK
  <2>1. message.kind = "fills" BY <1>3
  <2> QED BY <1>3, <2>1, BatchKeysAreFew DEF CanonicalTypeOK
<1>4. ASSUME NEW actions \in Seq(Actions), NEW upper \in BOOLEAN,
             message = [kind |-> "bundle", hash |-> Hash(1, upper), actions |-> actions],
             keys = GrpcBundleKey(Hash(1, upper), actions) \cup VpcBundleKey(Hash(1, upper), actions)
      PROVE  CanonicalTypeOK
  <2>1. keys = IF TouchesAny(actions) THEN {Hash(1, FALSE)} ELSE {} BY <1>4, BundleHasItsKey
  <2>2. message.kind = "bundle" BY <1>4
  <2>3. Cardinality(keys) <= Len(Trades) BY <2>1, OneKeyAtMost
  <2> QED BY <2>2, <2>3 DEF CanonicalTypeOK
<1> QED BY <1>1, <1>2, <1>3, <1>4, Zenon DEF CanonicalInv

\* No message has more keys than there are trades: a book or a bundle has one at most, a batch
\* of fills one for each trade both of whose sides it tells (parse_quicknode_fill_batch).
THEOREM CanonicalTypes == CanonicalSpec => []CanonicalTypeOK
BY CanonicalInvAlways, CanonicalInvTypes, PTL
(* The bytes of a proposal, and where they are. *)

\* The bytes of s stand in d from place at on.
Holds(d, at, s) == at + Len(s) <= Len(d) /\ \A k \in 1 .. Len(s) : d[at + k] = s[k]

LEMMA OrderingConstants ==
    /\ SmallBytes \in Nat /\ TailTcMax \in Nat /\ MaxHashCount \in Nat /\ ScanMax \in Nat
    /\ 1 < SmallBytes /\ 0 < TailTcMax /\ TailTcMax < SmallBytes
    /\ 0 < ScanMax /\ ScanMax < SmallBytes
    /\ U16 = SmallBytes /\ U32 = SmallBytes + 1 /\ U64 = SmallBytes + 2
    /\ ByteValues = SmallBytes + 5 /\ Bytes = 0 .. SmallBytes + 4
    /\ {U16, U32, U64} \subseteq Bytes /\ Bytes \subseteq Nat
    /\ Anchors \subseteq Nat /\ ScanWindow \in Nat
<1>1. {SmallBytes, TailTcMax, MaxHashCount, ScanMax} \subseteq Nat \ {0} BY OrderingAssumption
<1>2. SmallBytes \in Nat /\ TailTcMax \in Nat \ {0} /\ MaxHashCount \in Nat /\ ScanMax \in Nat \ {0}
  BY ONLY <1>1
<1>3. 1 < SmallBytes /\ TailTcMax < SmallBytes /\ ScanMax < SmallBytes BY OrderingAssumption
<1>4. Anchors \subseteq Nat /\ ScanWindow \in Nat BY OrderingAssumption
<1> QED BY ONLY <1>2, <1>3, <1>4 DEF U16, U32, U64, ByteValues, Bytes

\* A sequence of bytes.
IsBytes(d) == d \in Seq(Bytes)

LEMMA HoldsItself == ASSUME NEW d, IsBytes(d) PROVE Holds(d, 0, d)
BY DEF Holds, IsBytes

LEMMA HoldsParts ==
    ASSUME NEW d, IsBytes(d), NEW s, IsBytes(s), NEW t, IsBytes(t), NEW at \in Nat,
           Holds(d, at, s \o t)
    PROVE  Holds(d, at, s) /\ Holds(d, at + Len(s), t)
<1> USE DEF IsBytes
<1>1. /\ at + Len(s \o t) <= Len(d)
      /\ \A k \in 1 .. Len(s \o t) : d[at + k] = (s \o t)[k]
  BY DEF Holds
<1>2. Len(s) \in Nat /\ Len(t) \in Nat /\ Len(d) \in Nat /\ Len(s \o t) = Len(s) + Len(t) OBVIOUS
<1>3. \A k \in 1 .. Len(s) : k \in 1 .. Len(s \o t) /\ (s \o t)[k] = s[k] BY <1>2
<1>4. ASSUME NEW k \in 1 .. Len(t) PROVE d[(at + Len(s)) + k] = t[k]
  <2>1. Len(s) + k \in 1 .. Len(s \o t) /\ (s \o t)[Len(s) + k] = t[k] BY <1>2
  <2>2. at + (Len(s) + k) = (at + Len(s)) + k BY <1>2
  <2> QED BY <1>1, <2>1, <2>2
<1>5. at + Len(s) <= Len(d) /\ (at + Len(s)) + Len(t) <= Len(d) BY <1>1, <1>2
<1> QED BY <1>1, <1>3, <1>4, <1>5 DEF Holds

LEMMA HoldsByte ==
    ASSUME NEW d, IsBytes(d), NEW at \in Nat, NEW i \in Nat, NEW s, Holds(d, at, s),
           Len(s) \in Nat, i < Len(s)
    PROVE  At(d, at + i) = {s[i + 1]} /\ d[at + i + 1] = s[i + 1]
<1> USE DEF IsBytes
<1>1. Len(d) \in Nat /\ at + i \in 0 .. Len(d) - 1 /\ i + 1 \in 1 .. Len(s) BY DEF Holds
<1>2. at + (i + 1) = at + i + 1 OBVIOUS
<1> QED BY <1>1, <1>2 DEF Holds, At

LEMMA HoldsHashes ==
    ASSUME NEW d, IsBytes(d), NEW at \in Nat, NEW s, IsBytes(s), Holds(d, at, s),
           Len(s) <= MaxHashCount
    PROVE  ReadHashes(d, at, Len(s)) = {s}
<1> USE DEF IsBytes
<1>1. Len(s) \in Nat /\ Len(d) \in Nat /\ at + Len(s) <= Len(d) BY DEF Holds
<1> PICK n \in Nat : n = Len(s) BY <1>1
<1>2. SubSeq(d, at + 1, at + n) = s
  <2> DEFINE u == SubSeq(d, at + 1, at + n)
  <2>1. u \in Seq(Bytes) /\ Len(u) = n /\ \A k \in 1 .. n : u[k] = d[at + k]
    <3>1. u = [k \in 1 .. ((at + n) - (at + 1)) + 1 |-> d[(at + 1) + k - 1]] OBVIOUS
    <3>2. ((at + n) - (at + 1)) + 1 = n /\ \A k \in 1 .. n : (at + 1) + k - 1 = at + k /\ at + k \in 1 .. Len(d)
      BY <1>1
    <3>3. u = [k \in 1 .. n |-> d[at + k]] BY <3>1, <3>2
    <3>4. \A k \in 1 .. n : d[at + k] \in Bytes BY <3>2
    <3> HIDE DEF u
    <3> QED BY <3>3, <3>4
  <2> HIDE DEF u
  <2>2. \A k \in 1 .. n : u[k] = s[k] BY <2>1 DEF Holds
  <2>3. u = [k \in 1 .. n |-> u[k]] /\ s = [k \in 1 .. n |-> s[k]] BY <2>1
  <2>4. u = s BY <2>2, <2>3, Zenon
  <2> QED BY <2>4 DEF u
<1>3. MaxHashCount \in Nat BY OrderingConstants
<1>4. ~(n > MaxHashCount \/ at + n > Len(d)) BY <1>1, <1>3
<1>5. ReadHashes(d, at, n) = {SubSeq(d, at + 1, at + n)} BY ONLY <1>4 DEF ReadHashes
<1> QED BY <1>2, <1>5

LEMMA ReadSmall ==
    ASSUME NEW d, NEW i \in Nat, NEW m \in Nat, At(d, i) = {m}, m < SmallBytes
    PROVE  ReadVarint(d, i) = {[value |-> m, next |-> i + 1]}
<1> DEFINE Read(x) == CASE x < SmallBytes        -> {[value |-> x, next |-> i + 1]}
                        [] x \in {U16, U32, U64} -> {[value |-> v, next |-> i + 2] : v \in At(d, i + 1)}
                        [] OTHER                 -> {}
<1>1. Read(m) = {[value |-> m, next |-> i + 1]}
  <2>1. m \notin {U16, U32, U64} BY ONLY m \in Nat, m < SmallBytes, OrderingConstants
  <2> QED BY ONLY <2>1, m < SmallBytes
<1>2. ReadVarint(d, i) = UNION {Read(x) : x \in At(d, i)} BY DEF ReadVarint
<1> HIDE DEF Read
<1>3. {Read(x) : x \in At(d, i)} = {Read(m)} OBVIOUS
<1> QED BY <1>1, <1>2, <1>3

\* The bytes that mark an integer.
Marks == {U16, U32, U64}

LEMMA ReadWide ==
    ASSUME NEW d, NEW i \in Nat, NEW m \in Marks, NEW v, At(d, i) = {m}, At(d, i + 1) = {v}
    PROVE  ReadVarint(d, i) = {[value |-> v, next |-> i + 2]}
<1>0. m \in {U16, U32, U64} BY DEF Marks
<1>1. ~(m < SmallBytes) BY <1>0, OrderingConstants
<1>2. {[value |-> w, next |-> i + 2] : w \in At(d, i + 1)} = {[value |-> v, next |-> i + 2]} OBVIOUS
<1> DEFINE Read(x) == CASE x < SmallBytes        -> {[value |-> x, next |-> i + 1]}
                        [] x \in {U16, U32, U64} -> {[value |-> w, next |-> i + 2] : w \in At(d, i + 1)}
                        [] OTHER                 -> {}
<1>3. Read(m) = {[value |-> v, next |-> i + 2]} BY <1>0, <1>1, <1>2
<1>4. ReadVarint(d, i) = UNION {Read(x) : x \in At(d, i)} BY DEF ReadVarint
<1> HIDE DEF Read
<1>5. {Read(x) : x \in At(d, i)} = {Read(m)} OBVIOUS
<1> QED BY <1>3, <1>4, <1>5

\* Two bytes that read as one integer.
LEMMA ReadWideAt ==
    ASSUME NEW d, NEW at \in Nat, NEW m \in Marks, NEW v, At(d, at + 2) = {m}, At(d, at + 3) = {v}
    PROVE  ReadVarint(d, at + 2) = {[value |-> v, next |-> at + 4]}
<1> PICK i \in Nat : i = at + 2 OBVIOUS
<1>1. i + 1 = at + 3 /\ i + 2 = at + 4 OBVIOUS
<1>2. At(d, i) = {m} /\ At(d, i + 1) = {v} BY <1>1
<1>3. ReadVarint(d, i) = {[value |-> v, next |-> i + 2]} BY ONLY <1>2, i \in Nat, m \in Marks, ReadWide
<1> QED BY <1>1, <1>3

LEMMA JoinIs ==
    ASSUME NEW s, IsBytes(s), NEW t, IsBytes(t), NEW m \in Nat, NEW n \in Nat, Len(s) = m, Len(t) = n
    PROVE  IsBytes(s \o t) /\ Len(s \o t) = m + n
BY DEF IsBytes

LEMMA MaxIs ==
    ASSUME NEW S \in SUBSET Nat, NEW n \in S, \A x \in S : x <= n
    PROVE  Max(S) = n
<1>1. S \in SUBSET (0 .. n) /\ S # {} OBVIOUS
<1>2. Max(S) \in S /\ \A x \in S : x <= Max(S) BY ONLY <1>1, n \in Nat, MaxOfBounded
<1> PICK m \in Nat : m = Max(S) BY <1>2
<1>3. m <= n /\ n <= m BY <1>2
<1> QED BY <1>3

(* The tail of a record. *)

\* The bytes of a tail, at place at of d, one by one.
TailAt(d, at, second, timedOut, parent, activation) ==
    /\ At(d, at) = {U32} /\ At(d, at + 1) = {1} /\ At(d, at + 2) = {second}
    /\ At(d, at + 3) = {1} /\ At(d, at + 4) = {Len(timedOut)}
    /\ \A i \in 0 .. Len(timedOut) - 1 :
        At(d, at + 5 + 2 * i) = {U32} /\ At(d, at + 6 + 2 * i) = {timedOut[i + 1]}
    /\ \A e \in Nat : e = at + 5 + 2 * Len(timedOut) =>
        /\ At(d, e) = {0} /\ At(d, e + 1) = {U32} /\ At(d, e + 2) = {activation}
        /\ At(d, e + 3) = {U32} /\ At(d, e + 4) = {parent} /\ e + 5 <= Len(d)

LEMMA CertificatesAre ==
    ASSUME NEW t, IsBytes(t), NEW n \in Nat, n = Len(t)
    PROVE  /\ IsBytes(CertificateBytes(t)) /\ Len(CertificateBytes(t)) = 2 * n
           /\ \A i \in 0 .. n - 1 :
                CertificateBytes(t)[2 * i + 1] = U32 /\ CertificateBytes(t)[2 * i + 2] = t[i + 1]
<1> DEFINE B(k) == IF k % 2 = 1 THEN U32 ELSE t[k \div 2]
<1>1. CertificateBytes(t) = [k \in 1 .. 2 * n |-> B(k)] BY DEF CertificateBytes
<1>2. ASSUME NEW k \in 1 .. 2 * n PROVE B(k) \in Bytes
  <2>1. CASE k % 2 = 1 BY <2>1, OrderingConstants
  <2>2. CASE k % 2 # 1
    <3>1. k \div 2 \in 1 .. n BY <2>2
    <3> QED BY <2>2, <3>1 DEF IsBytes
  <2> QED BY <2>1, <2>2
<1>3. ASSUME NEW i \in 0 .. n - 1 PROVE B(2 * i + 1) = U32 /\ B(2 * i + 2) = t[i + 1]
  <2>1. (2 * i + 1) % 2 = 1 /\ (2 * i + 2) % 2 = 0 /\ (2 * i + 2) \div 2 = i + 1 OBVIOUS
  <2> QED BY <2>1
<1>4. \A i \in 0 .. n - 1 : 2 * i + 1 \in 1 .. 2 * n /\ 2 * i + 2 \in 1 .. 2 * n OBVIOUS
<1>5. 2 * n \in Nat OBVIOUS
<1> HIDE DEF B
<1>6. CertificateBytes(t) \in [1 .. 2 * n -> Bytes] BY <1>1, <1>2
<1>7. CertificateBytes(t) \in Seq(Bytes) /\ Len(CertificateBytes(t)) = 2 * n BY <1>5, <1>6
<1> QED BY <1>1, <1>3, <1>4, <1>7 DEF IsBytes

LEMMA RecordIs ==
    ASSUME NEW r, IsRecord(r)
    PROVE  /\ IsBytes(r.timedOut) /\ Len(r.timedOut) \in Nat /\ Len(r.timedOut) \in Bytes
           /\ Len(r.timedOut) <= TailTcMax
           /\ r.second \in Marks /\ r.second \in Bytes
           /\ r.parent \in Bytes /\ r.round \in Bytes
           /\ IsBytes(r.hashes) /\ Len(r.hashes) \in Bytes /\ Len(r.hashes) \in Nat
           /\ Len(r.hashes) <= MaxHashCount
BY OrderingConstants DEF IsRecord, IsBytes, Marks

LEMMA FiveBytes ==
    ASSUME NEW a \in Bytes, NEW b \in Bytes, NEW c \in Bytes, NEW e \in Bytes, NEW f \in Bytes,
           NEW five \in Nat, five = 5
    PROVE  IsBytes(<<a, b, c, e, f>>) /\ Len(<<a, b, c, e, f>>) = five
BY DEF IsBytes

\* The three pieces of a tail: five bytes, the certificates, five bytes.
Pieces(r, activation, n, h, m, l) ==
    /\ TailBytes(r, activation) = (h \o m) \o l
    /\ IsBytes(h) /\ IsBytes(m) /\ IsBytes(l) /\ IsBytes(h \o m)
    /\ \A five \in Nat : five = 5 => /\ Len(h) = five /\ Len(l) = five /\ Len(h \o m) = five + 2 * n
    /\ Len(m) = 2 * n
    /\ h[1] = U32 /\ h[2] = 1 /\ h[3] = r.second /\ h[4] = 1 /\ h[5] = n
    /\ l[1] = 0 /\ l[2] = U32 /\ l[3] = activation /\ l[4] = U32 /\ l[5] = r.parent
    /\ \A i \in 0 .. n - 1 : m[2 * i + 1] = U32 /\ m[2 * i + 2] = r.timedOut[i + 1]

LEMMA TailPieces ==
    ASSUME NEW r, IsRecord(r), NEW activation \in Bytes, NEW n \in Nat, n = Len(r.timedOut)
    PROVE  \E h, m, l : Pieces(r, activation, n, h, m, l)
<1> PICK w \in Nat : w = 2 * n OBVIOUS
<1> PICK five \in Nat : five = 5 OBVIOUS
<1>1. /\ U32 \in Bytes /\ 0 \in Bytes /\ 1 \in Bytes /\ r.second \in Bytes /\ r.parent \in Bytes
      /\ n \in Bytes /\ IsBytes(r.timedOut)
  BY OrderingConstants, RecordIs
<1> DEFINE h == <<U32, 1, r.second, 1, n>>
           m == CertificateBytes(r.timedOut)
           l == <<0, U32, activation, U32, r.parent>>
<1>2. h[1] = U32 /\ h[2] = 1 /\ h[3] = r.second /\ h[4] = 1 /\ h[5] = n OBVIOUS
<1>3. l[1] = 0 /\ l[2] = U32 /\ l[3] = activation /\ l[4] = U32 /\ l[5] = r.parent OBVIOUS
<1>4. IsBytes(h) /\ Len(h) = five BY ONLY <1>1, five \in Nat, five = 5, FiveBytes
<1>5. IsBytes(l) /\ Len(l) = five
  <2> PICK p \in Bytes : p = r.parent BY <1>1
  <2>1. 0 \in Bytes /\ U32 \in Bytes BY OrderingConstants
  <2> HIDE DEF h
  <2>2. IsBytes(<<0, U32, activation, U32, p>>) /\ Len(<<0, U32, activation, U32, p>>) = 5
    BY ONLY <2>1, activation \in Bytes, p \in Bytes DEF IsBytes
  <2> QED BY <2>2
<1>6. TailBytes(r, activation) = (h \o m) \o l BY DEF TailBytes
<1> HIDE DEF h, m, l
<1>7. /\ IsBytes(m) /\ Len(m) = w
      /\ \A i \in 0 .. n - 1 : m[2 * i + 1] = U32 /\ m[2 * i + 2] = r.timedOut[i + 1]
  BY <1>1, CertificatesAre DEF m
<1>8. IsBytes(h \o m) /\ Len(h \o m) = five + w BY ONLY <1>4, <1>7, w \in Nat, five \in Nat, JoinIs
<1>9. \A u \in Nat : u = 5 => u = five OBVIOUS
<1>10. Pieces(r, activation, n, h, m, l)
  BY <1>2, <1>3, <1>4, <1>5, <1>6, <1>7, <1>8, <1>9 DEF Pieces
<1> QED BY <1>10

LEMMA TailBytesAre ==
    ASSUME NEW r, IsRecord(r), NEW activation \in Bytes, NEW n \in Nat, n = Len(r.timedOut)
    PROVE  IsBytes(TailBytes(r, activation)) /\ Len(TailBytes(r, activation)) = 10 + 2 * n
<1> PICK h, m, l : Pieces(r, activation, n, h, m, l) BY TailPieces
<1> PICK five \in Nat : five = 5 OBVIOUS
<1> PICK g : g = h \o m OBVIOUS
<1> PICK w \in Nat : w = five + 2 * n OBVIOUS
<1>1. TailBytes(r, activation) = g \o l /\ IsBytes(g) /\ Len(g) = w /\ IsBytes(l) /\ Len(l) = five
  BY DEF Pieces
<1>2. IsBytes(g \o l) /\ Len(g \o l) = w + five BY ONLY <1>1, w \in Nat, five \in Nat, JoinIs
<1>3. w + five = 10 + 2 * n BY ONLY w = five + 2 * n, five = 5, n \in Nat
<1> QED BY <1>1, <1>2, <1>3

LEMMA TailIsAt ==
    ASSUME NEW r, IsRecord(r), NEW activation \in Bytes, NEW d, IsBytes(d), NEW at \in Nat,
           Holds(d, at, TailBytes(r, activation))
    PROVE  TailAt(d, at, r.second, r.timedOut, r.parent, activation)
<1> PICK n \in Nat : n = Len(r.timedOut) BY RecordIs
<1> PICK h, m, l : Pieces(r, activation, n, h, m, l) BY TailPieces
<1> PICK five \in Nat : five = 5 OBVIOUS
<1> PICK w \in Nat : w = five + 2 * n OBVIOUS
<1> PICK k \in Nat : k = 2 * n OBVIOUS
<1>1. /\ TailBytes(r, activation) = (h \o m) \o l
      /\ IsBytes(h) /\ IsBytes(m) /\ IsBytes(l) /\ IsBytes(h \o m)
      /\ Len(h) = five /\ Len(l) = five /\ Len(h \o m) = w /\ Len(m) = k
  BY DEF Pieces
<1>2. Holds(d, at, h \o m) /\ Holds(d, at + w, l)
  <2>1. Holds(d, at, (h \o m) \o l) BY <1>1
  <2>2. Holds(d, at, h \o m) /\ Holds(d, at + Len(h \o m), l)
    BY ONLY <1>1, <2>1, IsBytes(d), at \in Nat, HoldsParts
  <2> QED BY ONLY <1>1, <2>2
<1>3. Holds(d, at, h) /\ Holds(d, at + five, m)
  <2>1. Holds(d, at, h) /\ Holds(d, at + Len(h), m)
    BY ONLY <1>1, <1>2, IsBytes(d), at \in Nat, HoldsParts
  <2> QED BY ONLY <1>1, <2>1
<1> PICK b \in Nat : b = at + five BY ONLY at \in Nat, five \in Nat
<1> PICK e \in Nat : e = at + w BY ONLY at \in Nat, w \in Nat
<1>4. \A i \in Nat : i < five => At(d, at + i) = {h[i + 1]}
  <2> SUFFICES ASSUME NEW i \in Nat, i < five PROVE At(d, at + i) = {h[i + 1]} OBVIOUS
  <2>1. i < Len(h) /\ Len(h) \in Nat BY ONLY <1>1, i < five, five \in Nat
  <2> QED BY ONLY <1>3, <2>1, i \in Nat, IsBytes(d), at \in Nat, HoldsByte
<1>5. \A i \in Nat : i < k => At(d, b + i) = {m[i + 1]}
  <2> SUFFICES ASSUME NEW i \in Nat, i < k PROVE At(d, b + i) = {m[i + 1]} OBVIOUS
  <2>1. i < Len(m) /\ Len(m) \in Nat BY ONLY <1>1, i < k, k \in Nat
  <2>2. Holds(d, b, m) BY ONLY <1>3, b = at + five
  <2> QED BY ONLY <2>1, <2>2, i \in Nat, IsBytes(d), b \in Nat, HoldsByte
<1>6. \A i \in Nat : i < five => At(d, e + i) = {l[i + 1]}
  <2> SUFFICES ASSUME NEW i \in Nat, i < five PROVE At(d, e + i) = {l[i + 1]} OBVIOUS
  <2>1. i < Len(l) /\ Len(l) \in Nat BY ONLY <1>1, i < five, five \in Nat
  <2>2. Holds(d, e, l) BY ONLY <1>2, e = at + w
  <2> QED BY ONLY <2>1, <2>2, i \in Nat, IsBytes(d), e \in Nat, HoldsByte
<1>7. e + 5 <= Len(d)
  <2>1. (at + w) + Len(l) <= Len(d) BY <1>2 DEF Holds
  <2> QED BY ONLY <1>1, <2>1, e = at + w, five = 5, e \in Nat
<1>8. /\ At(d, at) = {h[1]} /\ At(d, at + 1) = {h[2]} /\ At(d, at + 2) = {h[3]}
      /\ At(d, at + 3) = {h[4]} /\ At(d, at + 4) = {h[5]}
  BY ONLY <1>4, five = 5, at \in Nat
<1>9. ASSUME NEW i \in 0 .. n - 1
      PROVE  At(d, at + 5 + 2 * i) = {U32} /\ At(d, at + 6 + 2 * i) = {r.timedOut[i + 1]}
  <2> PICK j \in Nat : j = 2 * i BY ONLY i \in 0 .. n - 1
  <2>1. j < k /\ j + 1 < k /\ j + 1 \in Nat BY ONLY i \in 0 .. n - 1, n \in Nat, j = 2 * i, k = 2 * n
  <2>2. At(d, b + j) = {m[j + 1]} /\ At(d, b + (j + 1)) = {m[(j + 1) + 1]} BY ONLY <1>5, <2>1, j \in Nat
  <2>3. m[j + 1] = U32 /\ m[j + 2] = r.timedOut[i + 1]
    <3>1. \A x \in 0 .. n - 1 : m[2 * x + 1] = U32 /\ m[2 * x + 2] = r.timedOut[x + 1] BY DEF Pieces
    <3> QED BY ONLY <3>1, i \in 0 .. n - 1, j = 2 * i
  <2>4. b + j = at + 5 + 2 * i /\ b + (j + 1) = at + 6 + 2 * i /\ (j + 1) + 1 = j + 2
    BY ONLY b = at + five, five = 5, at \in Nat, i \in 0 .. n - 1, n \in Nat, j = 2 * i, j \in Nat
  <2> QED BY ONLY <2>2, <2>3, <2>4
<1>10. /\ At(d, e) = {l[1]} /\ At(d, e + 1) = {l[2]} /\ At(d, e + 2) = {l[3]}
       /\ At(d, e + 3) = {l[4]} /\ At(d, e + 4) = {l[5]}
  BY ONLY <1>6, five = 5, e \in Nat
<1>11. \A u \in Nat : u = at + 5 + 2 * n => u = e
  BY ONLY e = at + w, w = five + 2 * n, five = 5, n \in Nat, at \in Nat
<1>12. /\ h[1] = U32 /\ h[2] = 1 /\ h[3] = r.second /\ h[4] = 1 /\ h[5] = Len(r.timedOut)
       /\ l[1] = 0 /\ l[2] = U32 /\ l[3] = activation /\ l[4] = U32 /\ l[5] = r.parent
  BY DEF Pieces
<1>13. \A i \in 0 .. Len(r.timedOut) - 1 :
        At(d, at + 5 + 2 * i) = {U32} /\ At(d, at + 6 + 2 * i) = {r.timedOut[i + 1]}
  BY <1>9
<1>14. \A u \in Nat : u = at + 5 + 2 * Len(r.timedOut) => u = e BY ONLY <1>11, n = Len(r.timedOut)
<1> QED BY ONLY <1>7, <1>8, <1>10, <1>12, <1>13, <1>14 DEF TailAt

LEMMA CertificatesFound ==
    ASSUME NEW t, IsBytes(t), Len(t) <= TailTcMax, NEW second, NEW parent, NEW activation,
           NEW d, NEW at \in Nat, TailAt(d, at, second, t, parent, activation)
    PROVE  Certificates(d, at + 4) =
               {[rounds |-> Range(t),
                 next |-> IF Len(t) = 0 THEN at + 4 ELSE at + 5 + 2 * Len(t)]}
<1> PICK n \in Nat : n = Len(t) BY DEF IsBytes
<1>1. n <= TailTcMax /\ n < SmallBytes BY OrderingConstants
<1> PICK j \in Nat : j = at + 4 OBVIOUS
<1> PICK v : v = [value |-> n, next |-> j + 1] OBVIOUS
<1>2. At(d, j) = {n} BY DEF TailAt
<1>3. ReadVarint(d, j) = {v} BY ONLY <1>1, <1>2, v = [value |-> n, next |-> j + 1], n \in Nat, j \in Nat, ReadSmall
<1>4. ReadVarint(d, at + 4) = {v} BY <1>3
<1> DEFINE counts == {c \in ReadVarint(d, j) : c.value \in 1 .. TailTcMax /\ IsAt(d, c.next, U32)}
           each(c, i) == c.next + 2 * i
<1>5. Certificates(d, j) =
        IF counts = {} THEN {[rounds |-> {}, next |-> j]}
        ELSE {[rounds |-> UNION {At(d, each(c, i) + 1) : i \in 0 .. c.value - 1},
               next |-> each(c, c.value)]
                : c \in {e \in counts : \A i \in 0 .. e.value - 1 :
                            IsAt(d, each(e, i), U32) /\ At(d, each(e, i) + 1) # {}}}
  BY DEF Certificates
<1>6. CASE n = 0
  <2>1. counts = {}
    <3>1. ~(v.value \in 1 .. TailTcMax) BY <1>6
    <3> QED BY <1>3, <3>1
  <2> HIDE DEF counts, each
  <2>2. Certificates(d, j) = {[rounds |-> {}, next |-> j]} BY <1>5, <2>1
  <2>3. Range(t) = {}
    <3>1. DOMAIN t = 1 .. n BY DEF IsBytes
    <3>2. DOMAIN t = {} BY <1>6, <3>1
    <3> QED BY <3>2 DEF Range
  <2> QED BY <1>6, <2>2, <2>3
<1>7. CASE n # 0
  <2>1. \A i \in 0 .. n - 1 : At(d, at + 5 + 2 * i) = {U32} /\ At(d, at + 6 + 2 * i) = {t[i + 1]}
    BY DEF TailAt
  <2>2. \A i \in 0 .. n - 1 : At(d, each(v, i)) = {U32} /\ At(d, each(v, i) + 1) = {t[i + 1]}
    <3> SUFFICES ASSUME NEW i \in 0 .. n - 1
                 PROVE  At(d, each(v, i)) = {U32} /\ At(d, each(v, i) + 1) = {t[i + 1]}
      OBVIOUS
    <3>1. each(v, i) = at + 5 + 2 * i /\ each(v, i) + 1 = at + 6 + 2 * i OBVIOUS
    <3> QED BY <2>1, <3>1
  <2>3. v.value = n /\ v.next = each(v, 0) /\ 0 \in 0 .. n - 1 BY <1>7
  <2>4. IsAt(d, v.next, U32) BY <2>2, <2>3 DEF IsAt
  <2>5. counts = {v} BY <1>1, <1>3, <1>7, <2>3, <2>4
  <2>6. each(v, v.value) = at + 5 + 2 * n BY <2>3
  <2> DEFINE Good(e) == \A i \in 0 .. e.value - 1 : IsAt(d, each(e, i), U32) /\ At(d, each(e, i) + 1) # {}
             Found(c) == [rounds |-> UNION {At(d, each(c, i) + 1) : i \in 0 .. c.value - 1},
                          next |-> each(c, c.value)]
  <2>7. Good(v) BY <2>2, <2>3 DEF IsAt
  <2>8. UNION {At(d, each(v, i) + 1) : i \in 0 .. v.value - 1} = Range(t)
    <3>1. \A i \in 0 .. n - 1 : At(d, each(v, i) + 1) = {t[i + 1]} BY <2>2
    <3>2. Range(t) = {t[k] : k \in 1 .. n} BY <1>1 DEF Range, IsBytes
    <3>3. \A k \in 1 .. n : k - 1 \in 0 .. n - 1 /\ (k - 1) + 1 = k OBVIOUS
    <3>4. \A i \in 0 .. n - 1 : i + 1 \in 1 .. n OBVIOUS
    <3> HIDE DEF each
    <3> DEFINE U == UNION {At(d, each(v, i) + 1) : i \in 0 .. n - 1}
    <3>5. ASSUME NEW x \in U PROVE x \in Range(t) BY <3>1, <3>2, <3>4
    <3>6. ASSUME NEW x \in Range(t) PROVE x \in U
      <4> PICK k \in 1 .. n : x = t[k] BY <3>2
      <4>1. k - 1 \in 0 .. n - 1 /\ x \in At(d, each(v, k - 1) + 1) BY <3>1, <3>3
      <4> QED BY <4>1
    <3> QED BY <2>3, <3>5, <3>6
  <2>9. Certificates(d, j) = {Found(c) : c \in {e \in counts : Good(e)}} BY <1>5, <2>5
  <2>10. Found(v) = [rounds |-> Range(t), next |-> at + 5 + 2 * n] BY <2>6, <2>8
  <2> HIDE DEF counts, each, Good, Found
  <2>11. Certificates(d, j) = {Found(v)} BY <2>5, <2>7, <2>9
  <2> QED BY <1>7, <2>10, <2>11
<1> QED BY <1>6, <1>7

\* The small bytes of a tail end where the first that is none stands.
LEMMA SmallsAre ==
    ASSUME NEW d, NEW j \in Nat, NEW n \in 0 .. 4, At(d, j + n) = {U32},
           \A i \in j .. j + n - 1 : At(d, i) = {0}
    PROVE  Smalls(d, j) = n
<1> DEFINE S == {m \in 0 .. 4 : \A i \in j .. j + m - 1 : \E b \in At(d, i) : b < SmallBytes}
<1>1. n \in S
  <2>1. \A i \in j .. j + n - 1 : 0 \in At(d, i) /\ 0 < SmallBytes BY OrderingConstants
  <2> QED BY <2>1
<1>2. ASSUME NEW m \in S PROVE m <= n
  <2>1. CASE m > n
    <3>1. j + n \in j .. j + m - 1 BY <2>1
    <3>2. PICK b \in At(d, j + n) : b < SmallBytes BY <3>1
    <3> QED BY <3>2, OrderingConstants
  <2> QED BY <2>1
<1>3. Smalls(d, j) = Max(S) BY DEF Smalls
<1>4. S \in SUBSET Nat OBVIOUS
<1> HIDE DEF S
<1> QED BY ONLY <1>1, <1>2, <1>3, <1>4, MaxIs

LEMMA RoundOfRecord ==
    ASSUME NEW r, IsRecord(r)
    PROVE  RoundOf(Range(r.timedOut), r.parent) = r.round
<1>1. IsBytes(r.timedOut) /\ r.parent \in Nat /\ r.round \in Bytes BY RecordIs, OrderingConstants
<1>2. r.round = 1 + (IF r.timedOut = <<>> THEN r.parent ELSE Max(Range(r.timedOut))) BY DEF IsRecord
<1>3. \A k \in Bytes : Wrapping(k) = k BY OrderingConstants DEF Wrapping
<1>4. CASE r.timedOut = <<>>
  <2>1. Range(r.timedOut) = {} BY <1>4 DEF Range
  <2>2. r.parent + 1 = r.round BY <1>1, <1>2, <1>4
  <2> QED BY <1>1, <1>3, <2>1, <2>2 DEF RoundOf
<1>5. CASE r.timedOut # <<>>
  <2> DEFINE T == Range(r.timedOut)
  <2>1. T = {r.timedOut[k] : k \in 1 .. Len(r.timedOut)} /\ Len(r.timedOut) \in Nat BY <1>1 DEF Range, IsBytes
  <2>2. T \in SUBSET (0 .. SmallBytes + 4) /\ T \subseteq Nat
    <3>1. T \subseteq Bytes BY <1>1, <2>1 DEF IsBytes
    <3> QED BY <3>1, OrderingConstants
  <2>3. T # {}
    <3>1. 1 \in 1 .. Len(r.timedOut) BY <1>1, <1>5 DEF IsBytes
    <3> QED BY <2>1, <3>1
  <2> HIDE DEF T
  <2>5. Max(T) \in T
    <3>1. SmallBytes + 4 \in Nat BY OrderingConstants
    <3> QED BY ONLY <2>2, <2>3, <3>1, MaxOfBounded
  <2> PICK m \in Nat : m = Max(T) BY <2>2, <2>5
  <2>6. m + 1 = r.round BY <1>2, <1>5 DEF T
  <2>7. RoundOf(T, r.parent) = Wrapping(m + 1) BY <2>3 DEF RoundOf
  <2> QED BY <1>1, <1>3, <2>6, <2>7 DEF T
<1> QED BY <1>4, <1>5

\* A tail reads as what was written.
LEMMA ParseTailIs ==
    ASSUME NEW t, IsBytes(t), Len(t) <= TailTcMax, NEW second \in Marks, NEW parent,
           NEW activation, NEW round, RoundOf(Range(t), parent) = round,
           NEW d, IsBytes(d), NEW at \in Nat, TailAt(d, at, second, t, parent, activation)
    PROVE  ParseTail(d, at) = {[activation |-> activation, round |-> round,
                                end |-> at + 10 + 2 * Len(t)]}
<1> PICK n \in Nat : n = Len(t) BY DEF IsBytes
<1> PICK e \in Nat : e = at + 5 + 2 * n OBVIOUS
<1>1. /\ At(d, at) = {U32} /\ At(d, at + 2) = {second} /\ At(d, at + 3) = {1}
      /\ At(d, at + 4) = {n}
  BY DEF TailAt
<1>2. /\ At(d, e) = {0} /\ At(d, e + 1) = {U32} /\ At(d, e + 2) = {activation}
      /\ At(d, e + 3) = {U32} /\ At(d, e + 4) = {parent}
  BY DEF TailAt
<1> DEFINE read == [value |-> 1, next |-> at + 4]
           c == [rounds |-> Range(t), next |-> IF n = 0 THEN at + 4 ELSE e]
<1>3. ReadVarint(d, at + 2) = {read}
  <2> PICK one : one = 1 OBVIOUS
  <2>1. At(d, at + 2) = {second} /\ At(d, at + 3) = {one} BY <1>1
  <2>2. ReadVarint(d, at + 2) = {[value |-> one, next |-> at + 4]}
    BY ONLY <2>1, at \in Nat, second \in Marks, ReadWideAt
  <2> QED BY <2>2
<1>4. Certificates(d, read.next) = {c}
  <2>1. Certificates(d, at + 4) =
           {[rounds |-> Range(t),
             next |-> IF Len(t) = 0 THEN at + 4 ELSE at + 5 + 2 * Len(t)]}
    BY CertificatesFound
  <2> QED BY <2>1
<1>5. PICK j \in Nat, s \in {1, 2} :
        /\ j = c.next /\ j + s = e + 1 /\ Smalls(d, j) = s
  <2>1. CASE n = 0
    <3>1. e = at + 5 BY <2>1
    <3>2. \A i \in at + 4 .. (at + 4) + 2 - 1 : At(d, i) = {0}
      <4>1. \A i \in at + 4 .. (at + 4) + 2 - 1 : i = at + 4 \/ i = at + 5 OBVIOUS
      <4> QED BY <1>1, <1>2, <2>1, <3>1, <4>1
    <3>3. At(d, (at + 4) + 2) = {U32}
      <4>1. (at + 4) + 2 = e + 1 BY <3>1
      <4> QED BY <1>2, <4>1
    <3>4. Smalls(d, at + 4) = 2
      <4>1. at + 4 \in Nat /\ 2 \in 0 .. 4 OBVIOUS
      <4> QED BY ONLY <3>2, <3>3, <4>1, SmallsAre
    <3>5. at + 4 = c.next /\ (at + 4) + 2 = e + 1 /\ at + 4 \in Nat BY <2>1, <3>1
    <3> HIDE DEF c
    <3> QED BY <3>4, <3>5
  <2>2. CASE n # 0
    <3>1. \A i \in e .. e + 1 - 1 : At(d, i) = {0}
      <4>1. \A i \in e .. e + 1 - 1 : i = e OBVIOUS
      <4> QED BY <1>2, <4>1
    <3>2. Smalls(d, e) = 1
      <4>1. e \in Nat /\ 1 \in 0 .. 4 /\ At(d, e + 1) = {U32} BY <1>2
      <4> QED BY ONLY <3>1, <4>1, SmallsAre
    <3>3. e = c.next BY <2>2
    <3> HIDE DEF c
    <3> QED BY <3>2, <3>3
  <2> QED BY <2>1, <2>2
<1> DEFINE found == [activation |-> activation, round |-> round, end |-> e + 5]
<1>6. Closing(d, Range(t), j) = {found}
  <2> PICK k \in Nat : k = j + Smalls(d, j) /\ k = e + 1 /\ k > j BY <1>5
  <2>1. IsAt(d, k, U32) /\ IsAt(d, k + 2, U32) BY <1>2 DEF IsAt
  <2>2. At(d, k + 3) = {parent} BY <1>2
  <2>3. d[k + 2] = activation
    <3>1. At(d, k + 1) = {activation} /\ (k + 1) + 1 = k + 2 BY <1>2
    <3>2. k + 1 \in 0 .. Len(d) - 1 BY <3>1 DEF At
    <3> QED BY <3>1, <3>2 DEF At
  <2>5. k + 4 = e + 5 OBVIOUS
  <2> DEFINE K(q) == [activation |-> d[k + 2], round |-> RoundOf(Range(t), q), end |-> k + 4]
  <2>6. Closing(d, Range(t), j) = {K(q) : q \in At(d, k + 3)} BY <2>1 DEF Closing
  <2>7. K(parent) = found BY <2>3, <2>5
  <2> HIDE DEF K, found
  <2> QED BY <2>2, <2>6, <2>7
<1>7. ParseTail(d, at) = UNION {UNION {Closing(d, x.rounds, x.next) : x \in Certificates(d, w.next)}
                                : w \in ReadVarint(d, at + 2)}
  BY <1>1 DEF ParseTail, IsAt
<1>8. e + 5 = at + 10 + 2 * n OBVIOUS
<1>9. c.rounds = Range(t) /\ c.next = j BY <1>5
<1> HIDE DEF read, c
<1>10. UNION {Closing(d, x.rounds, x.next) : x \in Certificates(d, read.next)} = {found} BY <1>4, <1>6, <1>9
<1>11. ParseTail(d, at) = {found} BY <1>3, <1>7, <1>10
<1> QED BY <1>8, <1>11

-----------------------------------------------------------------------------
(* The records of a proposal, in the layout with tails. *)

\* A count of n is at place at of d, and ends before j.
CountAt(d, at, n, j) ==
    /\ ReadVarint(d, at) = {[value |-> n, next |-> j]} /\ ~IsAt(d, at, U32)
    /\ n < SmallBytes => At(d, at) = {n} /\ j = at + 1

\* b are the bytes of the count n, y of them.
CountIs(b, n, y) ==
    /\ IsBytes(b) /\ Len(b) = y
    /\ \A d, at : IsBytes(d) /\ at \in Nat /\ Holds(d, at, b) => CountAt(d, at, n, at + y)

LEMMA TwoBytes ==
    ASSUME NEW a \in Bytes, NEW b \in Bytes, NEW two \in Nat, two = 2
    PROVE  IsBytes(<<a, b>>) /\ Len(<<a, b>>) = two
BY DEF IsBytes

LEMMA OneByte ==
    ASSUME NEW a \in Bytes, NEW one \in Nat, one = 1
    PROVE  IsBytes(<<a>>) /\ Len(<<a>>) = one
BY DEF IsBytes

LEMMA CountBytesAre ==
    ASSUME NEW n \in Nat, n \in Bytes, NEW y \in Nat, y = IF n < SmallBytes THEN 1 ELSE 2
    PROVE  CountIs(CountBytes(n), n, y)
<1> PICK nil, one, two \in Nat : nil = 0 /\ one = 1 /\ two = 2 OBVIOUS
<1> PICK b : b = CountBytes(n) OBVIOUS
<1>1. CASE n < SmallBytes
  <2>1. b = <<n>> /\ y = one BY ONLY <1>1, b = CountBytes(n), one = 1,
                                     y = IF n < SmallBytes THEN 1 ELSE 2 DEF CountBytes
  <2>2. IsBytes(b) /\ Len(b) = one BY ONLY <2>1, n \in Bytes, one \in Nat, one = 1, OneByte
  <2>3. b[1] = n BY ONLY <2>1
  <2>4. ASSUME NEW d, NEW at, IsBytes(d), at \in Nat, Holds(d, at, b)
        PROVE  CountAt(d, at, n, at + y)
    <3>1. nil < Len(b) /\ Len(b) \in Nat BY ONLY <2>2, nil = 0, one = 1
    <3>2. At(d, at + nil) = {b[nil + 1]} BY ONLY <2>4, <3>1, nil \in Nat, HoldsByte
    <3>3. At(d, at) = {n}
      <4>1. at + nil = at /\ nil + 1 = 1 BY ONLY <2>4, nil = 0
      <4> QED BY ONLY <2>3, <3>2, <4>1
    <3>4. ReadVarint(d, at) = {[value |-> n, next |-> at + 1]}
      BY ONLY <1>1, <2>4, <3>3, n \in Nat, ReadSmall
    <3>5. ~IsAt(d, at, U32)
      <4>1. n # U32 BY ONLY <1>1, n \in Nat, OrderingConstants
      <4> QED BY ONLY <3>3, <4>1 DEF IsAt
    <3> QED BY ONLY <2>1, <3>3, <3>4, <3>5, one = 1 DEF CountAt
  <2> QED BY ONLY <2>1, <2>2, <2>4, b = CountBytes(n) DEF CountIs
<1>2. CASE ~(n < SmallBytes)
  <2>1. b = <<U16, n>> /\ y = two BY ONLY <1>2, b = CountBytes(n), two = 2,
                                          y = IF n < SmallBytes THEN 1 ELSE 2 DEF CountBytes
  <2>2. IsBytes(b) /\ Len(b) = two
    <3>1. U16 \in Bytes BY OrderingConstants
    <3> QED BY ONLY <2>1, <3>1, n \in Bytes, two \in Nat, two = 2, TwoBytes
  <2>3. b[1] = U16 /\ b[2] = n BY ONLY <2>1
  <2>4. ASSUME NEW d, NEW at, IsBytes(d), at \in Nat, Holds(d, at, b)
        PROVE  CountAt(d, at, n, at + y)
    <3>1. nil < Len(b) /\ one < Len(b) /\ Len(b) \in Nat BY ONLY <2>2, nil = 0, one = 1, two = 2
    <3>2. At(d, at + nil) = {b[nil + 1]} BY ONLY <2>4, <3>1, nil \in Nat, HoldsByte
    <3>3. At(d, at + one) = {b[one + 1]} BY ONLY <2>4, <3>1, one \in Nat, HoldsByte
    <3>4. At(d, at) = {U16} /\ At(d, at + 1) = {n}
      <4>1. at + nil = at /\ nil + 1 = 1 /\ one + 1 = 2 /\ at + one = at + 1
        BY ONLY <2>4, nil = 0, one = 1
      <4> QED BY ONLY <2>3, <3>2, <3>3, <4>1
    <3>5. ReadVarint(d, at) = {[value |-> n, next |-> at + 2]}
      <4>1. U16 \in Marks BY DEF Marks
      <4> QED BY ONLY <2>4, <3>4, <4>1, ReadWide
    <3>6. ~IsAt(d, at, U32)
      <4>1. U16 # U32 BY ONLY OrderingConstants
      <4> QED BY ONLY <3>4, <4>1 DEF IsAt
    <3> QED BY ONLY <1>2, <2>1, <3>5, <3>6, two = 2 DEF CountAt
  <2> QED BY ONLY <2>1, <2>2, <2>4, b = CountBytes(n) DEF CountIs
<1> QED BY ONLY <1>1, <1>2

\* The bytes of hashes and of what their count takes beyond the first.
Extent(h) == IF Len(h) < SmallBytes THEN Len(h) ELSE Len(h) + 1

LEMMA ExtentIs ==
    ASSUME NEW r, IsRecord(r)
    PROVE  /\ Extent(r.hashes) \in Nat
           /\ Len(r.hashes) < SmallBytes => Extent(r.hashes) = Len(r.hashes)
BY RecordIs DEF Extent

\* The hashes of a record of extent n whose first byte is at place at are at j of d.
HashesAt(d, at, r, n, j) ==
    /\ j \in Nat /\ j + Len(r.hashes) = at + 2 + n
    /\ CountAt(d, at + 1, Len(r.hashes), j) /\ Holds(d, j, r.hashes)

\* The bytes of a record of extent n, at place at of d.
RecordAt(d, at, r, n, activation) ==
    /\ At(d, at) = {1}
    /\ \E j : HashesAt(d, at, r, n, j)
    /\ Holds(d, at + 2 + n, TailBytes(r, activation))

\* The bytes of a record of extent n and k certificates.
RecordLength(n, k) == 12 + n + 2 * k

\* b are the bytes of the record r.
RecordIsIn(b, r, activation, n, k) ==
    /\ IsBytes(b) /\ Len(b) = RecordLength(n, k)
    /\ \A d, at : IsBytes(d) /\ at \in Nat /\ Holds(d, at, b) => RecordAt(d, at, r, n, activation)

LEMMA RecordFacts ==
    ASSUME NEW r, IsRecord(r), NEW activation \in Bytes, NEW n \in Nat, n = Extent(r.hashes),
           NEW k \in Nat, k = Len(r.timedOut)
    PROVE  RecordIsIn(RecordBytes(r, FALSE, activation), r, activation, n, k)
<1> PICK h : h = r.hashes OBVIOUS
<1> PICK t : t = TailBytes(r, activation) OBVIOUS
<1> PICK nil, one \in Nat : nil = 0 /\ one = 1 OBVIOUS
<1>0. IsBytes(h) /\ Len(h) \in Nat /\ Len(h) \in Bytes BY RecordIs
<1> PICK q \in Nat : q = Len(h) BY ONLY <1>0
<1> PICK y \in Nat : y = IF q < SmallBytes THEN 1 ELSE 2 OBVIOUS
<1> PICK w \in Nat : w = 10 + 2 * k BY ONLY k \in Nat
<1> PICK a, K : a = <<1>> /\ K = CountBytes(q) OBVIOUS
<1>1. IsBytes(a) /\ Len(a) = one /\ a[1] = 1
  <2>1. 1 \in Bytes BY OrderingConstants
  <2> QED BY ONLY <2>1, a = <<1>>, one \in Nat, one = 1, OneByte
<1>2. CountIs(K, q, y)
  BY ONLY <1>0, q = Len(h), q \in Nat, y \in Nat, y = IF q < SmallBytes THEN 1 ELSE 2,
          K = CountBytes(q), CountBytesAre
<1>3. RecordBytes(r, FALSE, activation) = ((a \o K) \o h) \o t BY DEF RecordBytes
<1>4. IsBytes(h) /\ Len(h) = q /\ IsBytes(t) /\ Len(t) = w /\ IsBytes(K) /\ Len(K) = y
  BY <1>2, RecordIs, TailBytesAre DEF CountIs
<1> PICK x \in Nat : x = one + y BY ONLY one \in Nat, y \in Nat
<1> PICK f : f = a \o K OBVIOUS
<1> PICK g : g = f \o h OBVIOUS
<1>5. IsBytes(f) /\ Len(f) = x BY ONLY <1>1, <1>4, one \in Nat, y \in Nat, x = one + y, f = a \o K, JoinIs
<1> PICK v \in Nat : v = x + q BY ONLY x \in Nat, q \in Nat
<1>6. IsBytes(g) /\ Len(g) = v BY ONLY <1>4, <1>5, x \in Nat, q \in Nat, v = x + q, g = f \o h, JoinIs
<1>7. IsBytes(g \o t) /\ Len(g \o t) = v + w BY ONLY <1>4, <1>6, v \in Nat, w \in Nat, JoinIs
<1>8. v = 2 + n
  <2>1. n = IF q < SmallBytes THEN q ELSE q + 1
    BY ONLY n = Extent(r.hashes), h = r.hashes, q = Len(h) DEF Extent
  <2> QED BY ONLY <2>1, v = x + q, x = one + y, one = 1, y = IF q < SmallBytes THEN 1 ELSE 2, q \in Nat
<1>9. v + w = 12 + n + 2 * k BY ONLY <1>8, w = 10 + 2 * k, n \in Nat, k \in Nat
<1>10. ASSUME NEW d, NEW at, IsBytes(d), at \in Nat, Holds(d, at, g \o t)
       PROVE  RecordAt(d, at, r, n, activation)
  <2>1. Holds(d, at, g) /\ Holds(d, at + v, t)
    <3>1. Holds(d, at, g) /\ Holds(d, at + Len(g), t) BY ONLY <1>4, <1>6, <1>10, HoldsParts
    <3> QED BY ONLY <1>6, <3>1
  <2>2. Holds(d, at, f) /\ Holds(d, at + x, h)
    <3>1. Holds(d, at, f \o h) BY ONLY <2>1, g = f \o h
    <3>2. Holds(d, at, f) /\ Holds(d, at + Len(f), h) BY ONLY <1>4, <1>5, <1>10, <3>1, HoldsParts
    <3> QED BY ONLY <1>5, <3>2
  <2>3. Holds(d, at, a) /\ Holds(d, at + one, K)
    <3>1. Holds(d, at, a \o K) BY ONLY <2>2, f = a \o K
    <3>2. Holds(d, at, a) /\ Holds(d, at + Len(a), K) BY ONLY <1>1, <1>4, <1>10, <3>1, HoldsParts
    <3> QED BY ONLY <1>1, <3>2
  <2>4. At(d, at) = {1}
    <3>1. nil < Len(a) /\ Len(a) \in Nat BY ONLY <1>1, nil = 0, one = 1
    <3>0. Holds(d, at, a) BY ONLY <2>3
    <3>2. At(d, at + nil) = {a[nil + 1]}
      BY ONLY IsBytes(d), at \in Nat, <3>0, <3>1, nil \in Nat, HoldsByte
    <3>3. at + nil = at /\ nil + 1 = 1 BY ONLY <1>10, nil = 0
    <3> QED BY ONLY <1>1, <3>2, <3>3
  <2> PICK i \in Nat : i = at + one BY ONLY <1>10, one \in Nat
  <2>5. CountAt(d, i, q, i + y)
    <3>1. Holds(d, i, K) BY ONLY <2>3, i = at + one
    <3> QED BY ONLY <1>2, <1>10, <3>1, i \in Nat DEF CountIs
  <2> PICK j \in Nat : j = at + x BY ONLY <1>10, x \in Nat
  <2>6. i = at + 1 /\ i + y = j /\ j + q = at + 2 + n /\ at + v = at + 2 + n
    BY ONLY <1>8, <1>10, i = at + one, j = at + x, x = one + y, one = 1, v = x + q, y \in Nat, q \in Nat,
            n \in Nat
  <2>7. HashesAt(d, at, r, n, j)
    BY ONLY <2>2, <2>5, <2>6, j \in Nat, j = at + x, q = Len(h), h = r.hashes DEF HashesAt
  <2> QED BY ONLY <2>1, <2>4, <2>6, <2>7, t = TailBytes(r, activation) DEF RecordAt
<1> QED BY ONLY <1>3, <1>7, <1>9, <1>10, f = a \o K, g = f \o h DEF RecordIsIn, RecordLength

LEMMA RecordIsAt ==
    ASSUME NEW r, IsRecord(r), NEW activation \in Bytes, NEW n \in Nat, n = Extent(r.hashes),
           NEW d, IsBytes(d), NEW at \in Nat, Holds(d, at, RecordBytes(r, FALSE, activation))
    PROVE  RecordAt(d, at, r, n, activation)
<1> PICK k \in Nat : k = Len(r.timedOut) BY RecordIs
<1>1. \A e, x : IsBytes(e) /\ x \in Nat /\ Holds(e, x, RecordBytes(r, FALSE, activation))
                => RecordAt(e, x, r, n, activation)
  <2>1. RecordIsIn(RecordBytes(r, FALSE, activation), r, activation, n, k)
    BY ONLY IsRecord(r), activation \in Bytes, n \in Nat, n = Extent(r.hashes), k \in Nat,
            k = Len(r.timedOut), RecordFacts
  <2> QED BY ONLY <2>1 DEF RecordIsIn
<1> QED BY <1>1

\* A record of extent n and k certificates at place at reads as what was written: its count at
\* place i, its hashes at j and its tail from l to e.
RecordReads(d, r, activation, i, j, l, e) ==
    /\ j \in Nat /\ j + Len(r.hashes) = l /\ CountAt(d, i, Len(r.hashes), j)
    /\ ReadHashes(d, j, Len(r.hashes)) = {r.hashes}
    /\ TailAt(d, l, r.second, r.timedOut, r.parent, activation)
    /\ ParseTail(d, l) = {[activation |-> activation, round |-> r.round, end |-> e]}

LEMMA ReadRecord ==
    ASSUME NEW r, IsRecord(r), NEW activation \in Bytes, NEW d, IsBytes(d), NEW at \in Nat,
           NEW n \in Nat, NEW k \in Nat, k = Len(r.timedOut),
           RecordAt(d, at, r, n, activation), NEW i \in Nat, i = at + 1,
           NEW l \in Nat, l = at + 2 + n, NEW e \in Nat, e = at + 12 + n + 2 * k
    PROVE  \E j : RecordReads(d, r, activation, i, j, l, e)
<1> PICK j : HashesAt(d, at, r, n, j) BY DEF RecordAt
<1> PICK h : h = r.hashes OBVIOUS
<1>1. j \in Nat /\ j + Len(h) = l /\ CountAt(d, i, Len(h), j) /\ Holds(d, j, h)
  BY ONLY HashesAt(d, at, r, n, j), i = at + 1, l = at + 2 + n, h = r.hashes DEF HashesAt
<1>2. Len(h) <= MaxHashCount /\ IsBytes(h) BY RecordIs
<1>3. ReadHashes(d, j, Len(h)) = {h} BY ONLY <1>1, <1>2, IsBytes(d), HoldsHashes
<1>5. TailAt(d, l, r.second, r.timedOut, r.parent, activation)
  <2>1. Holds(d, l, TailBytes(r, activation)) BY l = at + 2 + n DEF RecordAt
  <2> QED BY ONLY <2>1, IsRecord(r), activation \in Bytes, IsBytes(d), l \in Nat, TailIsAt
<1>6. ParseTail(d, l) = {[activation |-> activation, round |-> r.round, end |-> l + 10 + 2 * k]}
  <2> PICK t, o, q : t = r.timedOut /\ o = r.round /\ q = r.parent OBVIOUS
  <2> PICK w \in Marks : w = r.second BY RecordIs
  <2>1. IsBytes(t) /\ Len(t) <= TailTcMax BY RecordIs
  <2>2. RoundOf(Range(t), q) = o BY RoundOfRecord
  <2>3. TailAt(d, l, w, t, q, activation) BY <1>5
  <2>4. ParseTail(d, l) = {[activation |-> activation, round |-> o, end |-> l + 10 + 2 * Len(t)]}
    BY ONLY <2>1, <2>2, <2>3, w \in Marks, IsBytes(d), l \in Nat, ParseTailIs
  <2> QED BY <2>4
<1>7. l + 10 + 2 * k = e
  BY ONLY l = at + 2 + n, e = at + 12 + n + 2 * k, at \in Nat, n \in Nat, k \in Nat
<1> QED BY ONLY <1>1, <1>3, <1>5, <1>6, <1>7, h = r.hashes DEF RecordReads

LEMMA ThreeBytes ==
    ASSUME NEW a \in Bytes, NEW b \in Bytes, NEW c \in Bytes, NEW three \in Nat, three = 3
    PROVE  IsBytes(<<a, b, c>>) /\ Len(<<a, b, c>>) = three
BY DEF IsBytes

\* The pieces of a proposal: the head, the slot, the bytes between, what precedes the own
\* record, and that record.
Enclose(R, B, Q) == (((<<0, 1, 1>> \o R) \o B) \o <<U64, 1, 1>>) \o Q

Pieced(d, R, m, B, Q, l, u) ==
    /\ IsBytes(d) /\ Len(d) = u + 3 + l
    /\ At(d, 0) = {0} /\ At(d, 1) = {1} /\ At(d, 2) = {1}
    /\ Holds(d, 3, R) /\ Holds(d, 3 + m, B)
    /\ At(d, u) = {U64} /\ At(d, u + 1) = {1} /\ At(d, u + 2) = {1}
    /\ Holds(d, u + 3, Q)

LEMMA Envelope ==
    ASSUME NEW R, IsBytes(R), NEW m \in Nat, Len(R) = m, NEW B, IsBytes(B), NEW w \in Nat, Len(B) = w,
           NEW Q, IsBytes(Q), NEW l \in Nat, Len(Q) = l, NEW d, d = Enclose(R, B, Q),
           NEW u \in Nat, u = 3 + m + w
    PROVE  Pieced(d, R, m, B, Q, l, u)
<1> PICK three \in Nat : three = 3 OBVIOUS
<1> PICK nil \in Nat : nil = 0 OBVIOUS
<1> DEFINE A == <<0, 1, 1>>
           C == <<U64, 1, 1>>
<1>1. A[1] = 0 /\ A[2] = 1 /\ A[3] = 1 /\ C[1] = U64 /\ C[2] = 1 /\ C[3] = 1 OBVIOUS
<1>2. 0 \in Bytes /\ 1 \in Bytes /\ U64 \in Bytes BY OrderingConstants
<1>3. IsBytes(A) /\ Len(A) = three
  <2>1. IsBytes(<<0, 1, 1>>) /\ Len(<<0, 1, 1>>) = 3 BY ONLY <1>2 DEF IsBytes
  <2> QED BY ONLY <2>1, three = 3
<1>4. IsBytes(C) /\ Len(C) = three
  <2>1. IsBytes(<<U64, 1, 1>>) /\ Len(<<U64, 1, 1>>) = 3 BY ONLY <1>2 DEF IsBytes
  <2> QED BY ONLY <2>1, three = 3
<1> HIDE DEF A, C
<1>5. d = (((A \o R) \o B) \o C) \o Q BY DEF A, C, Enclose
<1> PICK x \in Nat : x = three + m BY ONLY three \in Nat, m \in Nat
<1> PICK E1 : E1 = A \o R OBVIOUS
<1> PICK E2 : E2 = E1 \o B OBVIOUS
<1> PICK E3 : E3 = E2 \o C OBVIOUS
<1>6. IsBytes(E1) /\ Len(E1) = x
  <2>1. IsBytes(A \o R) /\ Len(A \o R) = three + m
    BY ONLY <1>3, IsBytes(R), Len(R) = m, three \in Nat, m \in Nat, JoinIs
  <2> QED BY ONLY <2>1, E1 = A \o R, x = three + m
<1>7. IsBytes(E2) /\ Len(E2) = u
  <2>1. IsBytes(E1 \o B) /\ Len(E1 \o B) = x + w
    BY ONLY <1>6, IsBytes(B), Len(B) = w, x \in Nat, w \in Nat, JoinIs
  <2>2. x + w = u BY ONLY x = three + m, three = 3, u = 3 + m + w, m \in Nat, w \in Nat
  <2> QED BY ONLY <2>1, <2>2, E2 = E1 \o B
<1> PICK y \in Nat : y = u + three BY ONLY u \in Nat, three \in Nat
<1>8. IsBytes(E3) /\ Len(E3) = y
  <2>1. IsBytes(E2 \o C) /\ Len(E2 \o C) = u + three
    BY ONLY <1>4, <1>7, u \in Nat, three \in Nat, JoinIs
  <2> QED BY ONLY <2>1, E3 = E2 \o C, y = u + three
<1>9. d = E3 \o Q BY ONLY <1>5, E1 = A \o R, E2 = E1 \o B, E3 = E2 \o C
<1>10. IsBytes(d) /\ Len(d) = y + l
  <2>1. IsBytes(E3 \o Q) /\ Len(E3 \o Q) = y + l
    BY ONLY <1>8, IsBytes(Q), Len(Q) = l, y \in Nat, l \in Nat, JoinIs
  <2> QED BY ONLY <1>9, <2>1
<1>11. Holds(d, nil, E3) /\ Holds(d, y, Q)
  <2>1. Holds(d, nil, E3 \o Q)
    <3>1. Holds(d, 0, d) BY ONLY <1>10, HoldsItself
    <3> QED BY ONLY <1>9, <3>1, nil = 0
  <2>2. Holds(d, nil, E3) /\ Holds(d, nil + Len(E3), Q)
    BY ONLY <1>8, <1>10, <2>1, IsBytes(Q), nil \in Nat, HoldsParts
  <2>3. nil + Len(E3) = y BY ONLY <1>8, nil = 0, y \in Nat
  <2> QED BY ONLY <2>2, <2>3
<1>12. Holds(d, nil, E2) /\ Holds(d, u, C)
  <2>1. Holds(d, nil, E2 \o C) BY ONLY <1>11, E3 = E2 \o C
  <2>2. Holds(d, nil, E2) /\ Holds(d, nil + Len(E2), C)
    BY ONLY <1>4, <1>7, <1>10, <2>1, nil \in Nat, HoldsParts
  <2>3. nil + Len(E2) = u BY ONLY <1>7, nil = 0, u \in Nat
  <2> QED BY ONLY <2>2, <2>3
<1>13. Holds(d, nil, E1) /\ Holds(d, x, B)
  <2>1. Holds(d, nil, E1 \o B) BY ONLY <1>12, E2 = E1 \o B
  <2>2. Holds(d, nil, E1) /\ Holds(d, nil + Len(E1), B)
    BY ONLY <1>6, <1>10, <2>1, IsBytes(B), nil \in Nat, HoldsParts
  <2>3. nil + Len(E1) = x BY ONLY <1>6, nil = 0, x \in Nat
  <2> QED BY ONLY <2>2, <2>3
<1>14. Holds(d, nil, A) /\ Holds(d, three, R)
  <2>1. Holds(d, nil, A \o R) BY ONLY <1>13, E1 = A \o R
  <2>2. Holds(d, nil, A) /\ Holds(d, nil + Len(A), R)
    BY ONLY <1>3, <1>10, <2>1, IsBytes(R), nil \in Nat, HoldsParts
  <2>3. nil + Len(A) = three BY ONLY <1>3, nil = 0, three \in Nat
  <2> QED BY ONLY <2>2, <2>3
<1>15. \A i \in Nat : i < three => At(d, nil + i) = {A[i + 1]}
  <2> SUFFICES ASSUME NEW i \in Nat, i < three PROVE At(d, nil + i) = {A[i + 1]} OBVIOUS
  <2>1. i < Len(A) /\ Len(A) \in Nat BY ONLY <1>3, i < three, three \in Nat
  <2> QED BY ONLY <1>10, <1>14, <2>1, i \in Nat, nil \in Nat, HoldsByte
<1>16. \A i \in Nat : i < three => At(d, u + i) = {C[i + 1]}
  <2> SUFFICES ASSUME NEW i \in Nat, i < three PROVE At(d, u + i) = {C[i + 1]} OBVIOUS
  <2>1. i < Len(C) /\ Len(C) \in Nat BY ONLY <1>4, i < three, three \in Nat
  <2>2. Holds(d, u, C) /\ IsBytes(d) BY ONLY <1>10, <1>12
  <2> QED BY ONLY <2>1, <2>2, i \in Nat, u \in Nat, HoldsByte
<1>17. At(d, 0) = {A[1]} /\ At(d, 1) = {A[2]} /\ At(d, 2) = {A[3]}
  BY ONLY <1>15, nil = 0, three = 3
<1>18. At(d, u) = {C[1]} /\ At(d, u + 1) = {C[2]} /\ At(d, u + 2) = {C[3]}
  BY ONLY <1>16, u \in Nat, three = 3
<1>19. y + l = u + 3 + l /\ y = u + 3 /\ x = 3 + m
  BY ONLY y = u + three, three = 3, x = three + m, u \in Nat, l \in Nat, m \in Nat
<1>20. Holds(d, 3, R) /\ Holds(d, 3 + m, B) /\ Holds(d, u + 3, Q)
  BY ONLY <1>11, <1>13, <1>14, <1>19, three = 3
<1> QED BY ONLY <1>1, <1>10, <1>17, <1>18, <1>19, <1>20 DEF Pieced

\* The bytes of a proposal with tails; extent n and k certificates of the slot, extent a and c
\* certificates of the own record.
Layout(d, p, n, k, u, a, c) ==
    /\ IsBytes(d) /\ Len(d) = u + 15 + a + 2 * c
    /\ At(d, 0) = {0} /\ At(d, 1) = {1} /\ At(d, 2) = {1}
    /\ RecordAt(d, 3, p.slot, n, p.activation)
    /\ At(d, u) = {U64} /\ At(d, u + 1) = {1} /\ At(d, u + 2) = {1}
    /\ RecordAt(d, u + 3, p.own, a, p.activation)

LEMMA ProposalIs ==
    ASSUME NEW p, IsProposal(p)
    PROVE  /\ p.activation \in Bytes /\ IsBytes(p.between) /\ Len(p.between) \in Nat
           /\ IsRecord(p.slot) /\ IsRecord(p.own)
           /\ p.own.round = p.slot.round + 1 /\ TailTcMax <= p.slot.round
           /\ p.own.parent \in p.slot.round - TailTcMax .. p.slot.round
BY DEF IsProposal, IsBytes

LEMMA TailedLayout ==
    ASSUME NEW p, IsProposal(p), ~p.legacy,
           NEW n \in Nat, n = Extent(p.slot.hashes), NEW k \in Nat, k = Len(p.slot.timedOut),
           NEW a \in Nat, a = Extent(p.own.hashes), NEW c \in Nat, c = Len(p.own.timedOut),
           NEW w \in Nat, w = Len(p.between), NEW u \in Nat, u = 15 + n + 2 * k + w
    PROVE  Layout(ProposalBytes(p), p, n, k, u, a, c)
<1> PICK s, o, act, B, d : /\ s = p.slot /\ o = p.own /\ act = p.activation /\ B = p.between
                           /\ d = ProposalBytes(p)
  OBVIOUS
<1>1. IsRecord(s) /\ IsRecord(o) /\ act \in Bytes /\ IsBytes(B) BY ProposalIs
<1>2. n = Extent(s.hashes) /\ k = Len(s.timedOut) /\ a = Extent(o.hashes) /\ c = Len(o.timedOut) /\ w = Len(B)
  OBVIOUS
<1> PICK R, Q : R = RecordBytes(s, FALSE, act) /\ Q = RecordBytes(o, FALSE, act) OBVIOUS
<1> PICK m \in Nat : m = 12 + n + 2 * k BY ONLY n \in Nat, k \in Nat
<1> PICK l \in Nat : l = 12 + a + 2 * c BY ONLY a \in Nat, c \in Nat
<1>3. IsBytes(R) /\ Len(R) = m
  <2>1. IsRecord(s) /\ act \in Bytes /\ n = Extent(s.hashes) /\ k = Len(s.timedOut) BY ONLY <1>1, <1>2
  <2>2. RecordIsIn(RecordBytes(s, FALSE, act), s, act, n, k)
    BY ONLY <2>1, n \in Nat, k \in Nat, RecordFacts
  <2> QED BY ONLY <2>2, R = RecordBytes(s, FALSE, act), m = 12 + n + 2 * k DEF RecordIsIn, RecordLength
<1>4. IsBytes(Q) /\ Len(Q) = l
  <2>1. IsRecord(o) /\ act \in Bytes /\ a = Extent(o.hashes) /\ c = Len(o.timedOut) BY ONLY <1>1, <1>2
  <2>2. RecordIsIn(RecordBytes(o, FALSE, act), o, act, a, c)
    BY ONLY <2>1, a \in Nat, c \in Nat, RecordFacts
  <2> QED BY ONLY <2>2, Q = RecordBytes(o, FALSE, act), l = 12 + a + 2 * c DEF RecordIsIn, RecordLength
<1>5. d = Enclose(R, B, Q)
  <2>1. RecordBytes(s, p.legacy, act) = R /\ RecordBytes(o, p.legacy, act) = Q BY DEF RecordBytes
  <2> QED BY <2>1 DEF ProposalBytes, Enclose
<1>6. u = 3 + m + w BY ONLY u = 15 + n + 2 * k + w, m = 12 + n + 2 * k, n \in Nat, k \in Nat, w \in Nat
<1>7. /\ IsBytes(d) /\ Len(d) = u + 3 + l
      /\ At(d, 0) = {0} /\ At(d, 1) = {1} /\ At(d, 2) = {1}
      /\ Holds(d, 3, R)
      /\ At(d, u) = {U64} /\ At(d, u + 1) = {1} /\ At(d, u + 2) = {1}
      /\ Holds(d, u + 3, Q)
  <2>1. IsBytes(B) /\ Len(B) = w BY ONLY <1>1, <1>2
  <2>2. Pieced(d, R, m, B, Q, l, u)
    BY ONLY <1>3, <1>4, <1>5, <1>6, <2>1, m \in Nat, l \in Nat, w \in Nat, u \in Nat, Envelope
  <2> QED BY ONLY <2>2 DEF Pieced
<1>8. RecordAt(d, 3, s, n, act)
  <2>1. Holds(d, 3, RecordBytes(s, FALSE, act)) BY ONLY <1>7, R = RecordBytes(s, FALSE, act)
  <2>2. IsRecord(s) /\ act \in Bytes /\ n = Extent(s.hashes) /\ IsBytes(d) /\ 3 \in Nat BY ONLY <1>1, <1>2, <1>7
  <2> QED BY ONLY <2>1, <2>2, n \in Nat, RecordIsAt
<1>9. RecordAt(d, u + 3, o, a, act)
  <2>1. Holds(d, u + 3, RecordBytes(o, FALSE, act)) BY ONLY <1>7, Q = RecordBytes(o, FALSE, act)
  <2>2. IsRecord(o) /\ act \in Bytes /\ a = Extent(o.hashes) /\ IsBytes(d) BY ONLY <1>1, <1>2, <1>7
  <2>3. u + 3 \in Nat BY ONLY u \in Nat
  <2> QED BY ONLY <2>1, <2>2, <2>3, a \in Nat, RecordIsAt
<1>10. u + 3 + l = u + 15 + a + 2 * c BY ONLY l = 12 + a + 2 * c, u \in Nat, a \in Nat, c \in Nat
<1>11. Layout(d, p, n, k, u, a, c)
  BY ONLY <1>7, <1>8, <1>9, <1>10, s = p.slot, o = p.own, act = p.activation DEF Layout
<1> QED BY ONLY <1>11, d = ProposalBytes(p)

\* The slot starts behind the head.
LEMMA SlotStartIs ==
    ASSUME NEW d, At(d, 0) = {0}, At(d, 1) = {1}, At(d, 2) = {1}
    PROVE  SlotStart(d) = {3}
<1> PICK one, two, three : /\ one = 1 /\ two = 2 /\ three = 3 /\ one \in Nat /\ two \in Nat /\ three \in Nat
  OBVIOUS
<1>1. one < SmallBytes BY OrderingConstants
<1>2. ReadVarint(d, one) = {[value |-> one, next |-> two]}
  <2>1. At(d, one) = {one} OBVIOUS
  <2>2. ReadVarint(d, one) = {[value |-> one, next |-> one + 1]} BY ONLY <1>1, <2>1, one \in Nat, ReadSmall
  <2>3. one + 1 = two OBVIOUS
  <2> QED BY ONLY <2>2, <2>3
<1>3. ReadVarint(d, two) = {[value |-> one, next |-> three]}
  <2>1. At(d, two) = {one} OBVIOUS
  <2>2. ReadVarint(d, two) = {[value |-> one, next |-> two + 1]}
    BY ONLY <1>1, <2>1, one \in Nat, two \in Nat, ReadSmall
  <2>3. two + 1 = three OBVIOUS
  <2> QED BY ONLY <2>2, <2>3
<1> DEFINE Next1(h) == {s.next : s \in ReadVarint(d, h.next)}
           head == [value |-> one, next |-> two]
<1>4. SlotStart(d) = UNION {Next1(h) : h \in ReadVarint(d, one)}
  <2>1. IsAt(d, 0, 0) BY DEF IsAt
  <2>2. ReadVarint(d, one) = ReadVarint(d, 1) OBVIOUS
  <2> QED BY ONLY <2>1, <2>2 DEF SlotStart
<1>5. Next1(head) = {three}
  <2>1. head.next = two OBVIOUS
  <2>2. {s.next : s \in {[value |-> one, next |-> three]}} = {three} OBVIOUS
  <2> QED BY ONLY <1>3, <2>1, <2>2
<1> HIDE DEF Next1
<1>6. {Next1(h) : h \in ReadVarint(d, one)} = {Next1(head)} BY ONLY <1>2
<1> QED BY ONLY <1>4, <1>5, <1>6, three = 3

\* What is read of the slot of a proposal with tails.
SlotOf(p, n, k) == [legacy |-> FALSE, round |-> p.slot.round, hashes |-> p.slot.hashes,
                    activation |-> p.activation, end |-> 15 + n + 2 * k]

\* The count of the own record, a, is at u + 4.
OwnIs(d, p, n, k, w, u, a, c, slot) ==
    /\ u + 4 \in CountPlaces(d, slot) /\ d[u + 5] = a
    /\ ReadHashes(d, (u + 4) + 1, a) = {p.own.hashes}

LEMMA TailedParse ==
    ASSUME NEW p, IsProposal(p), NEW d,
           NEW n \in Nat, n = Extent(p.slot.hashes), NEW k \in Nat, k = Len(p.slot.timedOut),
           NEW u, NEW a, NEW c, Layout(d, p, n, k, u, a, c)
    PROVE  ParseSlot(d) = {SlotOf(p, n, k)}
<1> PICK s, act : s = p.slot /\ act = p.activation OBVIOUS
<1>1. IsRecord(s) /\ act \in Bytes BY ProposalIs
<1>2. k = Len(s.timedOut) OBVIOUS
<1>3. /\ IsBytes(d) /\ At(d, 0) = {0} /\ At(d, 1) = {1} /\ At(d, 2) = {1} /\ RecordAt(d, 3, s, n, act)
  BY DEF Layout
<1>4. SlotStart(d) = {3} BY ONLY <1>3, SlotStartIs
<1> PICK three : three = 3 /\ three \in Nat OBVIOUS
<1> PICK four \in Nat : four = 4 OBVIOUS
<1> PICK l \in Nat : l = 5 + n BY ONLY n \in Nat
<1> PICK e \in Nat : e = 15 + n + 2 * k BY ONLY n \in Nat, k \in Nat
<1> PICK j : RecordReads(d, s, act, four, j, l, e)
  <2>1. RecordAt(d, three, s, n, act) /\ IsBytes(d) BY ONLY <1>3, three = 3
  <2>2. four = three + 1 /\ l = three + 2 + n /\ e = three + 12 + n + 2 * k
    BY ONLY three = 3, four = 4, l = 5 + n, e = 15 + n + 2 * k, n \in Nat, k \in Nat
  <2> QED
    BY ONLY <1>1, <1>2, <2>1, <2>2, n \in Nat, k \in Nat, three \in Nat, four \in Nat, l \in Nat, e \in Nat,
            ReadRecord
<1> PICK q : q = Len(s.hashes) OBVIOUS
<1> DEFINE v == [value |-> q, next |-> j]
           t == [activation |-> act, round |-> s.round, end |-> e]
<1>5. /\ ReadVarint(d, 4) = {v} /\ ReadHashes(d, j, q) = {s.hashes} /\ ParseTail(d, j + q) = {t}
  BY ONLY RecordReads(d, s, act, four, j, l, e), four = 4, q = Len(s.hashes) DEF RecordReads, CountAt
<1>6. ~IsAt(d, 4, U32)
  BY ONLY RecordReads(d, s, act, four, j, l, e), four = 4 DEF RecordReads, CountAt
<1>7. 3 < Len(d)
  <2>1. At(d, 3) = {1} BY <1>3 DEF RecordAt
  <2>2. 3 \in 0 .. Len(d) - 1 BY ONLY <2>1 DEF At
  <2>3. Len(d) \in Nat BY <1>3 DEF IsBytes
  <2> QED BY ONLY <2>2, <2>3
<1> DEFINE Out(h, x) == [legacy |-> FALSE, round |-> x.round, hashes |-> h, activation |-> x.activation,
                         end |-> x.end]
<1>8. TailedSlot(d, 3) = {Out(s.hashes, t)}
  <2> DEFINE Y(z, h) == {Out(h, x) : x \in ParseTail(d, z.next + z.value)}
             X(z) == UNION {Y(z, h) : h \in ReadHashes(d, z.next, z.value)}
  <2>1. TailedSlot(d, 3) = UNION {X(z) : z \in ReadVarint(d, 4)}
    <3>1. 3 + 1 = 4 OBVIOUS
    <3> QED BY ONLY <3>1 DEF TailedSlot
  <2>2. v.next = j /\ v.value = q OBVIOUS
  <2> HIDE DEF v, t, Out
  <2>3. Y(v, s.hashes) = {Out(s.hashes, t)} BY ONLY <1>5, <2>2
  <2> HIDE DEF Y
  <2>4. X(v) = Y(v, s.hashes)
    <3>1. ReadHashes(d, v.next, v.value) = {s.hashes} BY ONLY <1>5, <2>2
    <3> QED BY ONLY <3>1
  <2> HIDE DEF X
  <2>5. UNION {X(z) : z \in ReadVarint(d, 4)} = X(v) BY ONLY <1>5
  <2> QED BY ONLY <2>1, <2>3, <2>4, <2>5
<1>9. Out(s.hashes, t) = [legacy |-> FALSE, round |-> s.round, hashes |-> s.hashes, activation |-> act,
                          end |-> 15 + n + 2 * k]
  BY e = 15 + n + 2 * k
<1> HIDE DEF v, t, Out
<1>10. ParseSlot(d) = TailedSlot(d, 3)
  <2> DEFINE Z(i) == IF IsAt(d, i + 1, U32) THEN LegacySlot(d, i) ELSE TailedSlot(d, i)
  <2>1. ParseSlot(d) = UNION {Z(i) : i \in {x \in SlotStart(d) : x < Len(d)}} BY DEF ParseSlot
  <2>2. {x \in SlotStart(d) : x < Len(d)} = {3} BY ONLY <1>4, <1>7
  <2>3. Z(3) = TailedSlot(d, 3)
    <3>1. 3 + 1 = 4 OBVIOUS
    <3> QED BY ONLY <1>6, <3>1
  <2> HIDE DEF Z
  <2> QED BY ONLY <2>1, <2>2, <2>3
<1> QED BY ONLY <1>8, <1>9, <1>10, s = p.slot, act = p.activation DEF SlotOf

\* The count of the own record is where it was written, if it is a small one.
LEMMA OwnPlace ==
    ASSUME NEW p, IsProposal(p), NEW d, Locatable(p.own),
           NEW n \in Nat, NEW k \in Nat,
           NEW w \in Nat, NEW u \in Nat, u = 15 + n + 2 * k + w,
           NEW a \in Nat, a = Extent(p.own.hashes), NEW c \in Nat, c = Len(p.own.timedOut),
           Layout(d, p, n, k, u, a, c),
           NEW slot, slot = SlotOf(p, n, k)
    PROVE  OwnIs(d, p, n, k, w, u, a, c, slot)
<1> PICK o, act : o = p.own /\ act = p.activation OBVIOUS
<1>1. /\ IsRecord(o) /\ act \in Bytes /\ a = Len(o.hashes) /\ c = Len(o.timedOut)
      /\ Len(o.hashes) < SmallBytes
  BY ProposalIs, ExtentIs DEF Locatable
<1>2. /\ IsBytes(d) /\ Len(d) = u + 15 + a + 2 * c
      /\ At(d, u) = {U64} /\ At(d, u + 1) = {1} /\ At(d, u + 2) = {1} /\ RecordAt(d, u + 3, o, a, act)
  BY DEF Layout
<1>3. slot.round = p.slot.round /\ slot.activation = act /\ slot.end = 15 + n + 2 * k BY DEF SlotOf
<1>4. /\ p.own.round = p.slot.round + 1 /\ TailTcMax <= p.slot.round
      /\ o.parent \in p.slot.round - TailTcMax .. p.slot.round
      /\ p.slot.round \in Bytes /\ o.round \in Bytes /\ o.parent \in Bytes
      /\ a < SmallBytes /\ c <= TailTcMax
  BY <1>1, ProposalIs, RecordIs
<1> PICK r \in Bytes : r = p.slot.round BY <1>4
<1> PICK f \in Nat : f = u + 3 BY ONLY u \in Nat
<1> PICK g \in Nat : g = u + 5 + a BY ONLY u \in Nat, a \in Nat
<1> PICK e \in Nat : e = u + 15 + a + 2 * c BY ONLY u \in Nat, a \in Nat, c \in Nat
<1> DEFINE t == [activation |-> act, round |-> o.round, end |-> e]
<1>5. /\ ReadHashes(d, f + 2, a) = {o.hashes} /\ At(d, f + 1) = {a}
      /\ TailAt(d, g, o.second, o.timedOut, o.parent, act)
      /\ ParseTail(d, g) = {t}
  <2>1. RecordAt(d, f, o, a, act) /\ IsBytes(d) BY ONLY <1>2, f = u + 3
  <2>2. g = f + 2 + a /\ e = f + 12 + a + 2 * c
    BY ONLY f = u + 3, g = u + 5 + a, e = u + 15 + a + 2 * c, u \in Nat, a \in Nat, c \in Nat
  <2> PICK i \in Nat : i = f + 1 BY ONLY f \in Nat
  <2> PICK j : RecordReads(d, o, act, i, j, g, e)
    BY ONLY <1>1, <2>1, <2>2, a \in Nat, c \in Nat, f \in Nat, i \in Nat, i = f + 1,
            g \in Nat, e \in Nat, ReadRecord
  <2>3. At(d, i) = {a} /\ j = i + 1
    BY ONLY <1>1, RecordReads(d, o, act, i, j, g, e) DEF RecordReads, CountAt
  <2>4. j = f + 2 BY ONLY <2>3, i = f + 1, f \in Nat
  <2> QED BY ONLY <1>1, <2>3, <2>4, i = f + 1, RecordReads(d, o, act, i, j, g, e) DEF RecordReads
<1>6. \A i \in Nat : \A b : At(d, i) = {b} => d[i + 1] = b /\ i < Len(d)
  <2>1. Len(d) \in Nat BY <1>2 DEF IsBytes
  <2> SUFFICES ASSUME NEW i \in Nat, NEW b, At(d, i) = {b} PROVE d[i + 1] = b /\ i < Len(d) OBVIOUS
  <2>2. i \in 0 .. Len(d) - 1 BY DEF At
  <2>3. d[i + 1] = b BY <2>2 DEF At
  <2>4. i < Len(d) BY ONLY <2>1, <2>2
  <2> QED BY ONLY <2>3, <2>4
\* The end of the own record is one of the ends.
<1>7. e \in Ends(d, slot)
  <2> PICK j \in Nat : j = e - 4 BY ONLY e = u + 15 + a + 2 * c, e \in Nat, u \in Nat, a \in Nat, c \in Nat
  <2>1. At(d, j) = {U32} /\ At(d, j + 1) = {act} /\ At(d, j + 2) = {U32} /\ At(d, j + 3) = {o.parent}
    <3> PICK x \in Nat : x = g + 5 + 2 * c BY ONLY g \in Nat, c \in Nat
    <3>1. /\ At(d, x + 1) = {U32} /\ At(d, x + 2) = {act}
          /\ At(d, x + 3) = {U32} /\ At(d, x + 4) = {o.parent}
      <4>1. \A y \in Nat : y = g + 5 + 2 * Len(o.timedOut) =>
              /\ At(d, y + 1) = {U32} /\ At(d, y + 2) = {act}
              /\ At(d, y + 3) = {U32} /\ At(d, y + 4) = {o.parent}
        BY <1>5 DEF TailAt
      <4>2. x = g + 5 + 2 * Len(o.timedOut) BY ONLY <1>1, x = g + 5 + 2 * c
      <4> QED BY ONLY <4>1, <4>2, x \in Nat
    <3>2. x + 1 = j /\ x + 2 = j + 1 /\ x + 3 = j + 2 /\ x + 4 = j + 3
      BY ONLY x = g + 5 + 2 * c, g = u + 5 + a, j = e - 4, e = u + 15 + a + 2 * c,
              u \in Nat, a \in Nat, c \in Nat, j \in Nat, x \in Nat
    <3> QED BY ONLY <3>1, <3>2
  <2>2. d[j + 1] = U32 /\ d[j + 2] = act /\ d[j + 3] = U32 /\ d[j + 4] = o.parent
    <3>1. /\ d[j + 1] = U32 /\ d[(j + 1) + 1] = act /\ d[(j + 2) + 1] = U32 /\ d[(j + 3) + 1] = o.parent
      <4>1. j + 1 \in Nat /\ j + 2 \in Nat /\ j + 3 \in Nat BY ONLY j \in Nat
      <4> QED BY ONLY <1>6, <2>1, <4>1, j \in Nat
    <3>2. (j + 1) + 1 = j + 2 /\ (j + 2) + 1 = j + 3 /\ (j + 3) + 1 = j + 4 BY ONLY j \in Nat
    <3> QED BY ONLY <3>1, <3>2
  <2>3. o.parent \in Wrapping(r - TailTcMax) .. r
    <3>1. TailTcMax <= r /\ r \in 0 .. SmallBytes + 4 /\ ByteValues = SmallBytes + 5 /\ SmallBytes \in Nat /\ TailTcMax \in Nat
      BY <1>4, OrderingConstants
    <3>2. Wrapping(r - TailTcMax) = r - TailTcMax BY ONLY <3>1 DEF Wrapping
    <3> QED BY ONLY <1>4, <3>2, r = p.slot.round
  <2>4. j \in slot.end .. Len(d) - 4
    <3>1. j \in 15 + n + 2 * k .. e - 4
      BY ONLY j = e - 4, e = u + 15 + a + 2 * c, u = 15 + n + 2 * k + w,
              n \in Nat, k \in Nat, w \in Nat, u \in Nat, a \in Nat, c \in Nat
    <3>2. Len(d) = e BY ONLY <1>2, e = u + 15 + a + 2 * c
    <3> QED BY ONLY <1>3, <3>1, <3>2
  <2>5. j + 4 = e BY ONLY j = e - 4, e \in Nat
  <2>6. j \in {i \in slot.end .. Len(d) - 4 :
          /\ d[i + 1] = U32 /\ d[i + 2] = slot.activation /\ d[i + 3] = U32
          /\ d[i + 4] \in Wrapping(slot.round - TailTcMax) .. slot.round}
    <3>1. d[j + 2] = slot.activation /\ d[j + 4] \in Wrapping(slot.round - TailTcMax) .. slot.round
      BY ONLY <1>3, <2>2, <2>3, r = p.slot.round
    <3> QED BY ONLY <2>2, <2>4, <3>1
  <2> QED BY ONLY <2>5, <2>6 DEF Ends
<1> PICK idx \in Nat : idx = u + 4 BY ONLY u \in Nat
<1>8. d[u + 5] = a
  <2>1. At(d, f + 1) = {a} BY ONLY <1>5
  <2>2. f + 1 = idx /\ idx + 1 = u + 5 BY ONLY idx = u + 4, f = u + 3, u \in Nat
  <2> QED BY ONLY <1>6, <2>1, <2>2, idx \in Nat
<1>9. d[idx + 1] = a /\ d[idx - 1] = 1 /\ d[idx - 3] = U64
  <2>1. d[(u + 2) + 1] = 1 /\ d[u + 1] = U64
    <3>1. u + 2 \in Nat BY ONLY u \in Nat
    <3> QED BY ONLY <1>2, <1>6, <3>1, u \in Nat
  <2>2. idx + 1 = u + 5 /\ (u + 2) + 1 = idx - 1 /\ u + 1 = idx - 3 BY ONLY idx = u + 4, u \in Nat
  <2> QED BY ONLY <1>8, <2>1, <2>2
<1>10. t.end = e /\ t.activation = act /\ t.round = o.round OBVIOUS
<1> HIDE DEF t
<1>11. e - g \in TailMin .. TailMax
  <2>0. TailTcMax \in Nat BY OrderingConstants
  <2>1. TailMin = 10 /\ TailMax = 13 + 2 * TailTcMax /\ TailTcMax \in Nat
    BY ONLY <2>0 DEF TailMin, TailMax
  <2> QED BY ONLY <1>4, <2>1, e = u + 15 + a + 2 * c, g = u + 5 + a, u \in Nat, a \in Nat, c \in Nat
<1>12. t.round = Wrapping(slot.round + 1)
  <2>1. o.round = r + 1 /\ r + 1 \in Bytes BY ONLY <1>4, r = p.slot.round, o = p.own
  <2>2. Wrapping(r + 1) = r + 1
    <3>1. r + 1 \in 0 .. SmallBytes + 4 /\ ByteValues = SmallBytes + 5 /\ SmallBytes \in Nat
      BY <2>1, OrderingConstants
    <3> QED BY ONLY <3>1 DEF Wrapping
  <2> QED BY ONLY <1>3, <1>10, <2>1, <2>2, r = p.slot.round
<1>13. idx \in CountPlaces(d, slot)
  <2>1. idx \in 4 .. Len(d) - 1
    BY ONLY <1>2, idx = u + 4, u \in Nat, a \in Nat, c \in Nat
  <2>2. idx + 1 + d[idx + 1] = g BY ONLY <1>9, idx = u + 4, g = u + 5 + a, u \in Nat, a \in Nat
  <2>3. d[idx + 1] < SmallBytes /\ d[idx - 1] < SmallBytes /\ d[idx - 3] = U64
    <3>1. 1 < SmallBytes BY OrderingConstants
    <3> QED BY ONLY <1>4, <1>9, <3>1
  <2>4. t \in ParseTail(d, g) BY ONLY <1>5
  <2>5. \E x \in ParseTail(d, g) :
          /\ x.end \in Ends(d, slot) /\ x.end - g \in TailMin .. TailMax
          /\ x.activation = slot.activation /\ x.round = Wrapping(slot.round + 1)
    BY ONLY <1>3, <1>7, <1>10, <1>11, <1>12, <2>4
  <2> QED BY ONLY <2>1, <2>2, <2>3, <2>5 DEF CountPlaces
<1>14. f + 2 = (u + 4) + 1 BY ONLY f = u + 3, u \in Nat
<1> QED BY ONLY <1>5, <1>8, <1>13, <1>14, o = p.own, idx = u + 4 DEF OwnIs

LEMMA NonEmptyJoins ==
    ASSUME NEW x, NEW r, NEW h
    PROVE  NonEmpty(r, h) \o <<>> = NonEmpty(r, h) /\ NonEmpty(x, <<>>) = <<>>
BY DEF NonEmpty

\* Hashes that are read are bytes, as many as were asked for.
LEMMA ReadHashesAre ==
    ASSUME NEW d, IsBytes(d), NEW i \in Nat, NEW v \in Nat, NEW h \in ReadHashes(d, i, v)
    PROVE  IsBytes(h) /\ Len(h) = v /\ ReadHashes(d, i, v) = {h}
<1>1. ~(v > MaxHashCount \/ i + v > Len(d)) BY h \in ReadHashes(d, i, v) DEF ReadHashes
<1>2. ReadHashes(d, i, v) = {SubSeq(d, i + 1, i + v)} BY ONLY <1>1 DEF ReadHashes
<1> PICK s : s = SubSeq(d, i + 1, i + v) OBVIOUS
<1>3. h = s BY ONLY <1>2, h \in ReadHashes(d, i, v), s = SubSeq(d, i + 1, i + v)
<1>4. s = [k \in 1 .. ((i + v) - (i + 1)) + 1 |-> d[(i + 1) + k - 1]]
  BY ONLY s = SubSeq(d, i + 1, i + v)
<1>5. Len(d) \in Nat BY DEF IsBytes
<1> PICK N \in Nat : N = Len(d) BY ONLY <1>5
<1>6. i + v <= N
  <2>1. ~(i + v > N) BY ONLY <1>1, N = Len(d)
  <2> QED BY ONLY <2>1, i \in Nat, v \in Nat, N \in Nat
<1>7. ((i + v) - (i + 1)) + 1 = v /\ \A k \in 1 .. v : (i + 1) + k - 1 = i + k /\ i + k \in 1 .. Len(d)
  BY ONLY <1>6, i \in Nat, v \in Nat, N = Len(d), N \in Nat
<1>8. s = [k \in 1 .. v |-> d[i + k]] BY ONLY <1>4, <1>7, i \in Nat, v \in Nat
<1>9. \A k \in 1 .. v : d[i + k] \in Bytes
  <2>1. \A x \in 1 .. Len(d) : d[x] \in Bytes BY ONLY IsBytes(d) DEF IsBytes
  <2> QED BY ONLY <1>7, <2>1
<1>10. s \in Seq(Bytes) /\ Len(s) = v BY ONLY <1>8, <1>9, v \in Nat
<1> QED BY ONLY <1>2, <1>3, <1>10, s = SubSeq(d, i + 1, i + v) DEF IsBytes

\* What is made of a proposal with tails: the record of the slot, and its own unless another
\* place reads like it too or its count takes more than a byte; at most one record more, of the
\* own round.
TailedIs(p, records) ==
    LET parent == NonEmpty(p.slot.round, p.slot.hashes)
        both   == parent \o NonEmpty(p.own.round, p.own.hashes)
    IN  /\ Locatable(p.own) => records = parent \/ records = both
        /\ ~p.decoy => records = IF Locatable(p.own) THEN both ELSE parent
        /\ \/ records = parent
           \/ \E h : IsBytes(h) /\ Len(h) \in Bytes /\ records = parent \o NonEmpty(p.own.round, h)

LEMMA TailedFound ==
    ASSUME NEW p, IsProposal(p), ~p.legacy, NEW d, d = ProposalBytes(p)
    PROVE  \E slot :
             /\ ParseSlot(d) = {slot} /\ slot.legacy = FALSE /\ slot.round = p.slot.round
             /\ TailedIs(p, TailedRecords(d, slot))
<1> PICK n, k, a, c, w : /\ n = Extent(p.slot.hashes) /\ k = Len(p.slot.timedOut)
                         /\ a = Extent(p.own.hashes) /\ c = Len(p.own.timedOut) /\ w = Len(p.between)
  OBVIOUS
<1>1. n \in Nat /\ k \in Nat /\ a \in Nat /\ c \in Nat /\ w \in Nat
  BY ProposalIs, RecordIs, ExtentIs
<1> PICK u \in Nat : u = 15 + n + 2 * k + w BY ONLY <1>1
<1> PICK slot : slot = SlotOf(p, n, k) OBVIOUS
<1>2. Layout(d, p, n, k, u, a, c)
  <2>1. Layout(ProposalBytes(p), p, n, k, u, a, c)
    BY ONLY <1>1, IsProposal(p), ~p.legacy, n = Extent(p.slot.hashes), k = Len(p.slot.timedOut),
            a = Extent(p.own.hashes), c = Len(p.own.timedOut), w = Len(p.between),
            u \in Nat, u = 15 + n + 2 * k + w, TailedLayout
  <2> QED BY ONLY <2>1, d = ProposalBytes(p)
<1>3. ParseSlot(d) = {slot}
  <2>1. ParseSlot(d) = {SlotOf(p, n, k)}
    BY ONLY <1>1, <1>2, IsProposal(p), n = Extent(p.slot.hashes), k = Len(p.slot.timedOut), TailedParse
  <2> QED BY <2>1
<1>4. ASSUME Locatable(p.own)
      PROVE  /\ u + 4 \in CountPlaces(d, slot) /\ d[u + 5] = a
             /\ ReadHashes(d, (u + 4) + 1, a) = {p.own.hashes}
  <2>1. OwnIs(d, p, n, k, w, u, a, c, slot)
    BY ONLY <1>1, <1>2, <1>4, IsProposal(p), a = Extent(p.own.hashes), c = Len(p.own.timedOut),
            u \in Nat, u = 15 + n + 2 * k + w, slot = SlotOf(p, n, k), OwnPlace
  <2> QED BY ONLY <2>1 DEF OwnIs
<1>5. /\ slot.legacy = FALSE /\ slot.round = p.slot.round /\ slot.hashes = p.slot.hashes
  BY DEF SlotOf
<1> PICK places : places = CountPlaces(d, slot) OBVIOUS
<1>6. IsFiniteSet(places) /\ places \subseteq 4 .. Len(d) - 1 /\ IsBytes(d) /\ Len(d) - 1 \in Int
  <2>1. places \subseteq 4 .. Len(d) - 1 BY DEF CountPlaces
  <2>2. Len(d) - 1 \in Int /\ IsBytes(d) BY <1>2 DEF Layout, IsBytes
  <2>3. IsFiniteSet(4 .. Len(d) - 1) BY ONLY <2>2, 4 \in Int, FS_Interval
  <2>4. IsFiniteSet(places) BY ONLY <2>1, <2>3, FS_Subset
  <2> QED BY ONLY <2>1, <2>2, <2>4
<1>7. OwnCount(places) = {} \/ \E i \in places : OwnCount(places) = {i} /\ places = {i}
  <2>1. CASE Cardinality(places) = 1
    <3>1. \E x : places = {x} BY ONLY <1>6, <2>1, FS_Singleton
    <3> QED BY ONLY <2>1, <3>1 DEF OwnCount
  <2>2. CASE Cardinality(places) # 1 BY ONLY <2>2 DEF OwnCount
  <2> QED BY ONLY <2>1, <2>2
<1> DEFINE own == UNION {ReadHashes(d, i + 1, d[i + 1]) : i \in OwnCount(places)}
<1> PICK f, g, r : /\ f = NonEmpty(p.slot.round, p.slot.hashes)
                   /\ g = NonEmpty(p.own.round, p.own.hashes) /\ r = p.own.round
  OBVIOUS
<1>8. OwnCount(places) = {} => own = {} OBVIOUS
<1>9. ASSUME Locatable(p.own), OwnCount(places) # {} PROVE own = {p.own.hashes}
  <2>1. OwnCount(places) = {u + 4}
    BY ONLY <1>4, <1>7, <1>9, places = CountPlaces(d, slot)
  <2>2. own = ReadHashes(d, (u + 4) + 1, d[(u + 4) + 1]) BY ONLY <2>1
  <2>3. (u + 4) + 1 = u + 5 BY ONLY u \in Nat
  <2> QED BY ONLY <1>4, <1>9, <2>2, <2>3
<1>10. own = {} \/ \E h : own = {h} /\ IsBytes(h) /\ Len(h) \in Bytes
  <2>1. ASSUME NEW i \in places, OwnCount(places) = {i}, NEW h \in own
        PROVE  own = {h} /\ IsBytes(h) /\ Len(h) \in Bytes
    <3>1. own = ReadHashes(d, i + 1, d[i + 1]) BY ONLY <2>1
    <3>2. i \in 4 .. Len(d) - 1 BY ONLY <1>6, <2>1
    <3>3. i \in Nat /\ i + 1 \in 1 .. Len(d) BY ONLY <1>6, <3>2 DEF IsBytes
    <3>4. d[i + 1] \in Bytes BY ONLY <1>6, <3>3 DEF IsBytes
    <3> PICK x, v : x = i + 1 /\ v = d[i + 1] OBVIOUS
    <3>5. x \in Nat /\ v \in Nat /\ v \in Bytes
      BY ONLY <3>3, <3>4, x = i + 1, v = d[i + 1], OrderingConstants
    <3>6. h \in ReadHashes(d, x, v) BY ONLY <2>1, <3>1, x = i + 1, v = d[i + 1]
    <3>7. IsBytes(h) /\ Len(h) = v /\ ReadHashes(d, x, v) = {h}
      BY ONLY <1>6, <3>5, <3>6, ReadHashesAre
    <3> QED BY ONLY <3>1, <3>5, <3>7, x = i + 1, v = d[i + 1]
  <2> HIDE DEF own
  <2> QED BY ONLY <1>7, <1>8, <2>1
<1>11. TailedRecords(d, slot)
        = NonEmpty(slot.round, slot.hashes)
          \o (IF own = {} THEN <<>> ELSE NonEmpty(Wrapping(slot.round + 1), CHOOSE h \in own : TRUE))
  BY ONLY places = CountPlaces(d, slot) DEF TailedRecords
<1> HIDE DEF own
<1>12. Wrapping(slot.round + 1) = r
  <2>1. p.own.round = p.slot.round + 1 /\ p.own.round \in Bytes BY ProposalIs, RecordIs
  <2>2. \A x \in Bytes : Wrapping(x) = x BY ONLY OrderingConstants DEF Wrapping
  <2> QED BY ONLY <1>5, <2>1, <2>2, r = p.own.round
<1> PICK T : T = TailedRecords(d, slot) OBVIOUS
<1>13. own = {} => T = f
  <2> HAVE own = {}
  <2>1. T = NonEmpty(slot.round, slot.hashes) \o <<>>
    BY ONLY <1>11, own = {}, T = TailedRecords(d, slot)
  <2> QED BY ONLY <1>5, <2>1, f = NonEmpty(p.slot.round, p.slot.hashes), NonEmptyJoins
<1>14. ASSUME NEW h, own = {h} PROVE T = f \o NonEmpty(r, h)
  <2>1. (CHOOSE x \in own : TRUE) = h
    <3>1. (CHOOSE x \in own : TRUE) \in own BY ONLY own = {h}
    <3> QED BY ONLY <3>1, own = {h}
  <2>2. own # {} BY ONLY own = {h}
  <2> QED BY ONLY <1>5, <1>11, <1>12, <2>1, <2>2, f = NonEmpty(p.slot.round, p.slot.hashes),
                  T = TailedRecords(d, slot)
<1>15. Locatable(p.own) => T = f \/ T = f \o g
  BY ONLY <1>8, <1>9, <1>13, <1>14, g = NonEmpty(p.own.round, p.own.hashes), r = p.own.round
<1>16. T = f \/ \E h : IsBytes(h) /\ Len(h) \in Bytes /\ T = f \o NonEmpty(r, h)
  BY ONLY <1>10, <1>13, <1>14
<1>17. ASSUME ~p.decoy, p.own.hashes # <<>>
       PROVE  Cardinality(places) <= (IF Locatable(p.own) THEN 1 ELSE 0)
  <2>1. \A s \in ParseSlot(ProposalBytes(p)) :
          Cardinality(CountPlaces(ProposalBytes(p), s)) <= (IF Locatable(p.own) THEN 1 ELSE 0)
    BY ONLY <1>17, IsProposal(p), ~p.legacy DEF IsProposal
  <2> QED BY ONLY <1>3, <2>1, d = ProposalBytes(p), places = CountPlaces(d, slot)
<1>18. Cardinality(places) \in Nat BY ONLY <1>6, FS_CardinalityType
<1>19. ASSUME ~p.decoy, Locatable(p.own) PROVE T = f \o g
  <2>1. CASE p.own.hashes = <<>>
    <3>1. g = <<>> BY ONLY <2>1, g = NonEmpty(p.own.round, p.own.hashes), NonEmptyJoins
    <3>2. f \o g = f BY ONLY <3>1, f = NonEmpty(p.slot.round, p.slot.hashes), NonEmptyJoins
    <3> QED BY ONLY <1>15, <1>19, <3>2
  <2>2. CASE p.own.hashes # <<>>
    <3>1. Cardinality(places) <= 1 BY ONLY <1>17, <1>19, <2>2
    <3>2. Cardinality(places) # 0
      BY ONLY <1>4, <1>6, <1>19, places = CountPlaces(d, slot), FS_EmptySet
    <3>3. Cardinality(places) = 1 BY ONLY <1>18, <3>1, <3>2
    <3>4. OwnCount(places) # {} BY ONLY <1>4, <1>19, <3>3, places = CountPlaces(d, slot) DEF OwnCount
    <3>5. own = {p.own.hashes} BY ONLY <1>9, <1>19, <3>4
    <3> QED BY ONLY <1>14, <3>5, g = NonEmpty(p.own.round, p.own.hashes), r = p.own.round
  <2> QED BY ONLY <2>1, <2>2
<1>20. ASSUME ~p.decoy, ~Locatable(p.own) PROVE T = f
  <2>1. p.own.hashes # <<>>
    <3>1. ~(Len(p.own.hashes) < SmallBytes) /\ Len(<<>>) < SmallBytes
      BY ONLY <1>20, OrderingConstants DEF Locatable
    <3> QED BY ONLY <3>1
  <2>2. Cardinality(places) <= 0 BY ONLY <1>17, <1>20, <2>1
  <2>3. Cardinality(places) # 1 BY ONLY <1>18, <2>2
  <2>4. OwnCount(places) = {} BY ONLY <2>3 DEF OwnCount
  <2> QED BY ONLY <1>8, <1>13, <2>4
<1>21. TailedIs(p, T)
  BY ONLY <1>15, <1>16, <1>19, <1>20, f = NonEmpty(p.slot.round, p.slot.hashes),
          g = NonEmpty(p.own.round, p.own.hashes), r = p.own.round DEF TailedIs
<1> QED BY ONLY <1>3, <1>5, <1>21, T = TailedRecords(d, slot)

-----------------------------------------------------------------------------
(* The rounds that are found. *)

\* The round of a record with its number of bundles, if it has any.
Found(r, h) == IF h = <<>> THEN <<>> ELSE <<<<r, Len(h)>>>>

\* ordering_rounds after find_block_records.
RoundsOf(records) == [i \in DOMAIN records |-> <<records[i].round, Len(records[i].hashes)>>]

LEMMA RoundsOfOne ==
    ASSUME NEW r, NEW h
    PROVE  RoundsOf(<<[round |-> r, hashes |-> h]>>) = <<<<r, Len(h)>>>>
<1> DEFINE one == <<[round |-> r, hashes |-> h]>>
<1>1. DOMAIN one = 1 .. 1 /\ one[1].round = r /\ one[1].hashes = h OBVIOUS
<1> HIDE DEF one
<1>2. \A i \in 1 .. 1 : i = 1 OBVIOUS
<1>3. RoundsOf(one) = [i \in 1 .. 1 |-> <<r, Len(h)>>] BY ONLY <1>1, <1>2 DEF RoundsOf
<1>4. [i \in 1 .. 1 |-> <<r, Len(h)>>] = <<<<r, Len(h)>>>> OBVIOUS
<1> QED BY ONLY <1>3, <1>4 DEF one

LEMMA OneIs ==
    ASSUME NEW S, NEW x \in S, NEW one \in Nat, one = 1
    PROVE  <<x>> \in Seq(S) /\ Len(<<x>>) = one /\ <<x>>[one] = x
OBVIOUS

LEMMA SecondPart ==
    ASSUME NEW S, NEW a \in Seq(S), NEW b \in Seq(S), NEW k \in Nat, k > Len(a), k <= Len(a) + Len(b)
    PROVE  (a \o b)[k] = b[k - Len(a)]
OBVIOUS

LEMMA JoinedPair == ASSUME NEW x, NEW y PROVE <<x>> \o <<y>> = <<x, y>>
<1> PICK one \in Nat : one = 1 OBVIOUS
<1> PICK S : S = {x, y} OBVIOUS
<1> PICK a, b : a = <<x>> /\ b = <<y>> OBVIOUS
<1>1. a \in Seq(S) /\ Len(a) = one /\ a[one] = x
  <2>1. x \in S OBVIOUS
  <2> QED BY ONLY <2>1, a = <<x>>, one \in Nat, one = 1, OneIs
<1>2. b \in Seq(S) /\ Len(b) = one /\ b[one] = y
  <2>1. y \in S OBVIOUS
  <2> QED BY ONLY <2>1, b = <<y>>, one \in Nat, one = 1, OneIs
<1>3. Len(a \o b) = one + one /\ (a \o b) \in Seq(S) /\ (a \o b)[1] = x /\ (a \o b)[2] = y
  <2>1. Len(a \o b) = one + one /\ (a \o b) \in Seq(S) BY ONLY <1>1, <1>2, one \in Nat, one = 1, ConcatProperties
  <2>2. (a \o b)[one] = x BY ONLY <1>1, <1>2, one \in Nat, one = 1, ConcatProperties
  <2>3. (a \o b)[one + one] = y
    <3> PICK k \in Nat : k = one + one OBVIOUS
    <3>1. k > Len(a) /\ k <= Len(a) + Len(b) /\ k - Len(a) = one
      BY ONLY <1>1, <1>2, one \in Nat, one = 1, k = one + one
    <3>2. (a \o b)[k] = b[k - Len(a)] BY ONLY <1>1, <1>2, <3>1, k \in Nat, SecondPart
    <3> QED BY ONLY <1>2, <3>1, <3>2, k = one + one
  <2> QED BY ONLY <2>1, <2>2, <2>3, one = 1
<1> PICK c : c = a \o b OBVIOUS
<1>4. c = <<x, y>>
  <2>1. Len(c) = 2 /\ c \in Seq(S) /\ c[1] = x /\ c[2] = y BY ONLY <1>3, one = 1, c = a \o b
  <2> QED BY ONLY <2>1
<1> QED BY ONLY <1>4, c = a \o b, a = <<x>>, b = <<y>>

TwoFound(r, h, q, g) ==
    RoundsOf(<<[round |-> r, hashes |-> h]>> \o <<[round |-> q, hashes |-> g]>>)
      = <<<<r, Len(h)>>>> \o <<<<q, Len(g)>>>>

LEMMA RoundsOfTwo == ASSUME NEW r, NEW h, NEW q, NEW g PROVE TwoFound(r, h, q, g)
<1> DEFINE two == <<[round |-> r, hashes |-> h], [round |-> q, hashes |-> g]>>
<1>1. <<[round |-> r, hashes |-> h]>> \o <<[round |-> q, hashes |-> g]>> = two BY ONLY JoinedPair
<1>2. DOMAIN two = 1 .. 2 /\ two[1].round = r /\ two[1].hashes = h /\ two[2].round = q /\ two[2].hashes = g
  OBVIOUS
<1> HIDE DEF two
<1> DEFINE F == <<<<r, Len(h)>>, <<q, Len(g)>>>>
<1>3. <<<<r, Len(h)>>>> \o <<<<q, Len(g)>>>> = F BY ONLY JoinedPair
<1>4. F = [i \in 1 .. 2 |-> F[i]] /\ F[1] = <<r, Len(h)>> /\ F[2] = <<q, Len(g)>> OBVIOUS
<1> HIDE DEF F
<1>5. \A i \in 1 .. 2 : <<two[i].round, Len(two[i].hashes)>> = F[i]
  <2>1. \A i \in 1 .. 2 : i = 1 \/ i = 2 OBVIOUS
  <2> QED BY ONLY <1>2, <1>4, <2>1
<1>6. RoundsOf(two) = [i \in 1 .. 2 |-> F[i]] BY ONLY <1>2, <1>5 DEF RoundsOf
<1> QED BY ONLY <1>1, <1>3, <1>4, <1>6 DEF TwoFound

LEMMA RoundsOfNone == RoundsOf(<<>>) = <<>>
BY DEF RoundsOf

\* The rounds of two records, either of which may be empty.
BothFound(r, h, q, g) ==
    /\ RoundsOf(NonEmpty(r, h)) = Found(r, h)
    /\ RoundsOf(NonEmpty(r, h) \o NonEmpty(q, g)) = Found(r, h) \o Found(q, g)

LEMMA RoundsFound == ASSUME NEW r, NEW h, NEW q, NEW g PROVE BothFound(r, h, q, g)
<1>1. CASE h = <<>> /\ g = <<>>
  <2>1. NonEmpty(r, h) = <<>> /\ NonEmpty(q, g) = <<>> /\ Found(r, h) = <<>> /\ Found(q, g) = <<>>
    BY <1>1 DEF NonEmpty, Found
  <2>2. <<>> \o <<>> = <<>> OBVIOUS
  <2> QED BY ONLY <2>1, <2>2, RoundsOfNone DEF BothFound
<1>2. CASE h = <<>> /\ g # <<>>
  <2>1. /\ NonEmpty(r, h) = <<>> /\ NonEmpty(q, g) = <<[round |-> q, hashes |-> g]>>
        /\ Found(r, h) = <<>> /\ Found(q, g) = <<<<q, Len(g)>>>>
    BY <1>2 DEF NonEmpty, Found
  <2>2. <<>> \o <<[round |-> q, hashes |-> g]>> = <<[round |-> q, hashes |-> g]>> OBVIOUS
  <2>3. <<>> \o <<<<q, Len(g)>>>> = <<<<q, Len(g)>>>> OBVIOUS
  <2> QED BY ONLY <2>1, <2>2, <2>3, RoundsOfNone, RoundsOfOne DEF BothFound
<1>3. CASE h # <<>> /\ g = <<>>
  <2>1. /\ NonEmpty(q, g) = <<>> /\ NonEmpty(r, h) = <<[round |-> r, hashes |-> h]>>
        /\ Found(q, g) = <<>> /\ Found(r, h) = <<<<r, Len(h)>>>>
    BY <1>3 DEF NonEmpty, Found
  <2>2. <<[round |-> r, hashes |-> h]>> \o <<>> = <<[round |-> r, hashes |-> h]>> OBVIOUS
  <2>3. <<<<r, Len(h)>>>> \o <<>> = <<<<r, Len(h)>>>> OBVIOUS
  <2> QED BY ONLY <2>1, <2>2, <2>3, RoundsOfOne DEF BothFound
<1>4. CASE h # <<>> /\ g # <<>>
  <2>1. /\ NonEmpty(q, g) = <<[round |-> q, hashes |-> g]>> /\ NonEmpty(r, h) = <<[round |-> r, hashes |-> h]>>
        /\ Found(q, g) = <<<<q, Len(g)>>>> /\ Found(r, h) = <<<<r, Len(h)>>>>
    BY <1>4 DEF NonEmpty, Found
  <2>2. TwoFound(r, h, q, g) BY ONLY RoundsOfTwo
  <2> QED BY ONLY <2>1, <2>2, RoundsOfOne DEF TwoFound, BothFound
<1> QED BY ONLY <1>1, <1>2, <1>3, <1>4

\* The window of rounds about an anchor.
Near(anchor, r) == anchor # 0 /\ r \in anchor - ScanWindow .. anchor + ScanWindow

LEMMA WindowIs ==
    ASSUME NEW anchor \in Nat, anchor # 0, NEW r \in Bytes
    PROVE  r \in Max({0, anchor - ScanWindow}) .. Min({ByteValues - 1, anchor + ScanWindow})
             <=> Near(anchor, r)
<1> PICK x \in Int : x = anchor - ScanWindow BY OrderingConstants
<1> PICK y \in Nat : y = anchor + ScanWindow BY OrderingConstants
<1> PICK b \in Nat : b = ByteValues - 1 BY OrderingConstants
<1>1. r \in Nat /\ r <= b BY OrderingConstants
<1>2. Max({0, x}) = IF x <= 0 THEN 0 ELSE x
  <2>1. CASE x <= 0
    <3>1. (CHOOSE z \in {0, x} : \A v \in {0, x} : z >= v) = 0 BY ONLY <2>1, x \in Int
    <3> QED BY ONLY <2>1, <3>1 DEF Max
  <2>2. CASE ~(x <= 0)
    <3>1. (CHOOSE z \in {0, x} : \A v \in {0, x} : z >= v) = x BY ONLY <2>2, x \in Int
    <3> QED BY ONLY <2>2, <3>1 DEF Max
  <2> QED BY ONLY <2>1, <2>2
<1>3. Min({b, y}) = IF b <= y THEN b ELSE y
  <2>1. CASE b <= y
    <3>1. (CHOOSE z \in {b, y} : \A v \in {b, y} : z <= v) = b BY ONLY <2>1, b \in Nat, y \in Nat
    <3> QED BY ONLY <2>1, <3>1 DEF Min
  <2>2. CASE ~(b <= y)
    <3>1. (CHOOSE z \in {b, y} : \A v \in {b, y} : z <= v) = y BY ONLY <2>2, b \in Nat, y \in Nat
    <3> QED BY ONLY <2>2, <3>1 DEF Min
  <2> QED BY ONLY <2>1, <2>2
<1>4. r \in Max({0, x}) .. Min({b, y}) <=> r \in x .. y BY ONLY <1>1, <1>2, <1>3, x \in Int, y \in Nat, b \in Nat
<1> QED BY ONLY <1>4, anchor # 0, x = anchor - ScanWindow, y = anchor + ScanWindow, b = ByteValues - 1 DEF Near

\* The rounds found of a proposal with tails whose slot is near.
TailedFinds(p, rounds) ==
    LET parent == Found(p.slot.round, p.slot.hashes)
        both   == parent \o Found(p.own.round, p.own.hashes)
    IN  /\ Locatable(p.own) => rounds = parent \/ rounds = both
        /\ ~p.decoy => rounds = IF Locatable(p.own) THEN both ELSE parent
        /\ \/ rounds = parent
           \/ \E h : IsBytes(h) /\ Len(h) \in Bytes /\ rounds = parent \o Found(p.own.round, h)

\* What is found of a proposal with tails, for any anchor.
LEMMA TailedRounds ==
    ASSUME NEW p, IsProposal(p), ~p.legacy, NEW anchor \in Nat
    PROVE  IF Near(anchor, p.slot.round)
           THEN TailedFinds(p, OrderingRounds(ProposalBytes(p), anchor))
           ELSE OrderingRounds(ProposalBytes(p), anchor) = <<>>
<1> PICK d : d = ProposalBytes(p) OBVIOUS
<1>1. CASE anchor = 0
  <2>1. ~Near(anchor, p.slot.round) BY <1>1 DEF Near
  <2>2. OrderingRounds(d, anchor) = <<>> BY <1>1 DEF OrderingRounds
  <2> QED BY ONLY <2>1, <2>2, d = ProposalBytes(p)
<1>2. CASE anchor # 0
  <2> PICK slot :
        /\ ParseSlot(d) = {slot} /\ slot.legacy = FALSE /\ slot.round = p.slot.round
        /\ TailedIs(p, TailedRecords(d, slot))
    BY ONLY IsProposal(p), ~p.legacy, d = ProposalBytes(p), TailedFound
  <2> PICK lo, hi : /\ lo = Max({0, anchor - ScanWindow})
                    /\ hi = Min({ByteValues - 1, anchor + ScanWindow})
    OBVIOUS
  <2>1. p.slot.round \in lo .. hi <=> Near(anchor, p.slot.round)
    <3>1. p.slot.round \in Bytes BY ProposalIs, RecordIs
    <3> QED BY ONLY <1>2, <3>1, anchor \in Nat, lo = Max({0, anchor - ScanWindow}),
                    hi = Min({ByteValues - 1, anchor + ScanWindow}), WindowIs
  <2>2. OrderingRounds(d, anchor) = RoundsOf(FindBlockRecords(d, lo, hi))
    BY ONLY <1>2, lo = Max({0, anchor - ScanWindow}), hi = Min({ByteValues - 1, anchor + ScanWindow})
    DEF OrderingRounds, RoundsOf
  <2>3. FindBlockRecords(d, lo, hi) = IF slot.round \in lo .. hi THEN TailedRecords(d, slot) ELSE <<>>
    <3> DEFINE tailed == {s \in ParseSlot(d) : ~s.legacy}
    <3>1. tailed = {slot} OBVIOUS
    <3>2. (CHOOSE s \in {slot} : TRUE) = slot OBVIOUS
    <3>3. FindBlockRecords(d, lo, hi) =
            IF tailed = {} THEN ScanBlockRecords(d, lo, hi)
            ELSE LET s == CHOOSE s \in tailed : TRUE IN
                 IF s.round \in lo .. hi THEN TailedRecords(d, s) ELSE <<>>
      BY DEF FindBlockRecords
    <3> HIDE DEF tailed
    <3> QED BY ONLY <3>1, <3>2, <3>3
  <2>4. CASE ~Near(anchor, p.slot.round)
    <3>1. FindBlockRecords(d, lo, hi) = <<>> BY ONLY <2>1, <2>3, <2>4, slot.round = p.slot.round
    <3>2. OrderingRounds(d, anchor) = <<>> BY ONLY <2>2, <3>1, RoundsOfNone
    <3> QED BY ONLY <2>4, <3>2, d = ProposalBytes(p)
  <2>5. CASE Near(anchor, p.slot.round)
    <3> PICK T, O : T = TailedRecords(d, slot) /\ O = OrderingRounds(d, anchor) OBVIOUS
    <3>1. TailedIs(p, T) BY ONLY T = TailedRecords(d, slot), TailedIs(p, TailedRecords(d, slot))
    <3>2. O = RoundsOf(T)
      BY ONLY <2>1, <2>2, <2>3, <2>5, slot.round = p.slot.round, T = TailedRecords(d, slot),
              O = OrderingRounds(d, anchor)
    <3>3. TailedFinds(p, O)
      <4> PICK r, h, q, g : /\ r = p.slot.round /\ h = p.slot.hashes
                            /\ q = p.own.round /\ g = p.own.hashes
        OBVIOUS
      <4>1. \A z : /\ RoundsOf(NonEmpty(r, h)) = Found(r, h)
                   /\ RoundsOf(NonEmpty(r, h) \o NonEmpty(q, z)) = Found(r, h) \o Found(q, z)
        BY ONLY RoundsFound DEF BothFound
      <4> PICK parent, both : parent = NonEmpty(r, h) /\ both = NonEmpty(r, h) \o NonEmpty(q, g) OBVIOUS
      <4>2. /\ Locatable(p.own) => T = parent \/ T = both
            /\ ~p.decoy => T = IF Locatable(p.own) THEN both ELSE parent
            /\ T = parent \/ \E z : IsBytes(z) /\ Len(z) \in Bytes /\ T = parent \o NonEmpty(q, z)
        <5>1. /\ NonEmpty(p.slot.round, p.slot.hashes) = parent
              /\ parent \o NonEmpty(p.own.round, p.own.hashes) = both
          BY ONLY r = p.slot.round, h = p.slot.hashes, q = p.own.round, g = p.own.hashes,
                  parent = NonEmpty(r, h), both = NonEmpty(r, h) \o NonEmpty(q, g)
        <5>2. /\ Locatable(p.own) => T = parent \/ T = both
              /\ ~p.decoy => T = IF Locatable(p.own) THEN both ELSE parent
          BY ONLY <3>1, <5>1 DEF TailedIs
        <5>3. T = parent \/ \E z : IsBytes(z) /\ Len(z) \in Bytes /\ T = parent \o NonEmpty(p.own.round, z)
          BY ONLY <3>1, <5>1 DEF TailedIs
        <5> QED BY ONLY <5>2, <5>3, q = p.own.round
      <4> PICK f, b : f = Found(r, h) /\ b = Found(r, h) \o Found(q, g) OBVIOUS
      <4>3. T = parent => O = f
        BY ONLY <3>2, <4>1, parent = NonEmpty(r, h), f = Found(r, h)
      <4>4. T = both => O = b
        BY ONLY <3>2, <4>1, both = NonEmpty(r, h) \o NonEmpty(q, g), b = Found(r, h) \o Found(q, g)
      <4>5. O = f \/ \E z : IsBytes(z) /\ Len(z) \in Bytes /\ O = f \o Found(q, z)
        <5>1. ASSUME NEW z, T = parent \o NonEmpty(q, z) PROVE O = f \o Found(q, z)
          BY ONLY <3>2, <4>1, <5>1, parent = NonEmpty(r, h), f = Found(r, h)
        <5> QED BY ONLY <4>2, <4>3, <5>1
      <4>6. (Locatable(p.own) => O = f \/ O = b) /\ (~p.decoy => O = IF Locatable(p.own) THEN b ELSE f)
        BY ONLY <4>2, <4>3, <4>4
      <4> QED BY ONLY <4>5, <4>6, r = p.slot.round, h = p.slot.hashes, q = p.own.round, g = p.own.hashes,
                      f = Found(r, h), b = Found(r, h) \o Found(q, g) DEF TailedFinds
    <3> QED BY ONLY <2>5, <3>3, O = OrderingRounds(d, anchor), d = ProposalBytes(p)
  <2> QED BY ONLY <2>4, <2>5
<1> QED BY ONLY <1>1, <1>2

-----------------------------------------------------------------------------
(* The scan for records. *)

\* The records found from place p on, given those from every later place.
FoundFrom(d, lo, hi, from, p) ==
    IF p + 2 > Len(d) THEN <<>>
    ELSE IF Hit(d, lo, hi, p) = {} THEN from[p + 1]
    ELSE LET c == CHOOSE x \in Hit(d, lo, hi, p) : TRUE IN
         <<[round |-> d[p + 2], hashes |-> SubSeq(d, c.next + 1, c.next + c.value)]>>
         \o from[c.next + c.value]

Scanned(d, lo, hi) == CHOOSE f : f = [p \in 0 .. Len(d) |-> FoundFrom(d, lo, hi, f, p)]

LEMMA ScanIs ==
    ASSUME NEW d, NEW lo, NEW hi
    PROVE  ScanBlockRecords(d, lo, hi) = IF Len(d) = 0 THEN <<>> ELSE Scanned(d, lo, hi)[1]
BY DEF ScanBlockRecords, Scanned, FoundFrom

\* An integer is read in one or two bytes.
LEMMA ReadIsShort ==
    ASSUME NEW d, NEW i \in Nat, NEW c \in ReadVarint(d, i)
    PROVE  c.next = i + 1 \/ c.next = i + 2
<1> DEFINE Read(m) == CASE m < SmallBytes        -> {[value |-> m, next |-> i + 1]}
                        [] m \in {U16, U32, U64} -> {[value |-> v, next |-> i + 2] : v \in At(d, i + 1)}
                        [] OTHER                 -> {}
<1>1. ReadVarint(d, i) = UNION {Read(m) : m \in At(d, i)} BY DEF ReadVarint
<1>2. PICK m : c \in Read(m) BY <1>1
<1>3. CASE m < SmallBytes
  <2>1. m \notin {U16, U32, U64} \/ m < SmallBytes BY <1>3
  <2>2. c \in {[value |-> m, next |-> i + 1]} \/ c \in {[value |-> v, next |-> i + 2] : v \in At(d, i + 1)}
    BY <1>2, <1>3
  <2> QED BY <2>2
<1>4. CASE ~(m < SmallBytes) /\ m \in {U16, U32, U64} BY <1>2, <1>4
<1>5. CASE ~(m < SmallBytes) /\ m \notin {U16, U32, U64} BY <1>2, <1>5
<1> QED BY <1>3, <1>4, <1>5

LEMMA HitFacts ==
    ASSUME NEW d, NEW lo, NEW hi, NEW p \in Nat, NEW c \in Hit(d, lo, hi, p)
    PROVE  /\ c.next \in Nat /\ p + 3 <= c.next /\ c.value \in Nat /\ 0 < c.value /\ c.value <= ScanMax
           /\ c.next + c.value <= Len(d)
<1>1. c \in ReadVarint(d, p + 2) /\ c.value \in 1 .. ScanMax /\ c.next + c.value <= Len(d) BY DEF Hit
<1> PICK i \in Nat : i = p + 2 OBVIOUS
<1>2. c.next = i + 1 \/ c.next = i + 2 BY ONLY <1>1, i = p + 2, i \in Nat, ReadIsShort
<1>3. ScanMax \in Nat BY OrderingConstants
<1> QED BY ONLY <1>1, <1>2, <1>3, i \in Nat, p \in Nat, i = p + 2

\* What is found from a place depends on the later places only.
LEMMA FoundFromLater ==
    ASSUME NEW d, NEW N \in Nat, N = Len(d), NEW lo, NEW hi, NEW f, NEW g, NEW p \in Nat,
           \A q \in Nat : p < q /\ q <= N => f[q] = g[q]
    PROVE  FoundFrom(d, lo, hi, f, p) = FoundFrom(d, lo, hi, g, p)
<1>1. CASE p + 2 > Len(d) BY ONLY <1>1 DEF FoundFrom
<1>2. CASE ~(p + 2 > Len(d)) /\ Hit(d, lo, hi, p) = {}
  <2>1. p + 1 \in Nat /\ p < p + 1 /\ p + 1 <= N BY ONLY <1>2, N = Len(d), N \in Nat, p \in Nat
  <2>2. f[p + 1] = g[p + 1] BY <2>1
  <2> QED BY ONLY <1>2, <2>2 DEF FoundFrom
<1>3. CASE ~(p + 2 > Len(d)) /\ Hit(d, lo, hi, p) # {}
  <2> PICK c : c = CHOOSE x \in Hit(d, lo, hi, p) : TRUE OBVIOUS
  <2>1. c \in Hit(d, lo, hi, p) BY ONLY <1>3, c = CHOOSE x \in Hit(d, lo, hi, p) : TRUE
  <2>2. /\ c.next \in Nat /\ p + 3 <= c.next /\ c.value \in Nat /\ c.next + c.value <= Len(d)
    BY ONLY <2>1, p \in Nat, HitFacts
  <2>3. c.next + c.value \in Nat /\ p < c.next + c.value /\ c.next + c.value <= N
    BY ONLY <2>2, p \in Nat, N \in Nat, N = Len(d)
  <2>4. f[c.next + c.value] = g[c.next + c.value] BY <2>3
  <2>5. \A e : FoundFrom(d, lo, hi, e, p)
           = <<[round |-> d[p + 2], hashes |-> SubSeq(d, c.next + 1, c.next + c.value)]>>
             \o e[c.next + c.value]
    BY ONLY <1>3, c = CHOOSE x \in Hit(d, lo, hi, p) : TRUE DEF FoundFrom
  <2> QED BY ONLY <2>4, <2>5
<1> QED BY ONLY <1>1, <1>2, <1>3

\* A scan from place m on.
IsScan(d, lo, hi, g, m) ==
    \A p \in Nat : m <= p /\ p <= Len(d) => g[p] = FoundFrom(d, lo, hi, g, p)

LEMMA ScanExtends ==
    ASSUME NEW d, NEW N \in Nat, N = Len(d), NEW lo, NEW hi, NEW g, NEW m \in Nat,
           IsScan(d, lo, hi, g, m + 1)
    PROVE  \E f : IsScan(d, lo, hi, f, m)
<1> PICK f : f = [p \in Nat |-> IF p = m THEN FoundFrom(d, lo, hi, g, m) ELSE g[p]] OBVIOUS
<1>1. \A p \in Nat : p # m => f[p] = g[p] OBVIOUS
<1>2. f[m] = FoundFrom(d, lo, hi, g, m) OBVIOUS
<1>3. ASSUME NEW p \in Nat, m <= p, p <= Len(d) PROVE f[p] = FoundFrom(d, lo, hi, f, p)
  <2>1. \A q \in Nat : p < q /\ q <= N => f[q] = g[q]
    <3>1. \A q \in Nat : p < q => q # m BY ONLY <1>3, m \in Nat
    <3> QED BY ONLY <1>1, <3>1
  <2>2. FoundFrom(d, lo, hi, f, p) = FoundFrom(d, lo, hi, g, p)
    BY ONLY <2>1, N \in Nat, N = Len(d), p \in Nat, FoundFromLater
  <2>3. CASE p = m BY ONLY <1>2, <2>2, <2>3
  <2>4. CASE p # m
    <3>1. m + 1 <= p BY ONLY <1>3, <2>4, m \in Nat
    <3>2. g[p] = FoundFrom(d, lo, hi, g, p) BY ONLY <1>3, <3>1, IsScan(d, lo, hi, g, m + 1) DEF IsScan
    <3> QED BY ONLY <1>1, <1>3, <2>2, <2>4, <3>2
  <2> QED BY ONLY <2>3, <2>4
<1>4. IsScan(d, lo, hi, f, m) BY ONLY <1>3 DEF IsScan
<1> QED BY ONLY <1>4

LEMMA ScanExists ==
    ASSUME NEW d, NEW N \in Nat, N = Len(d), NEW lo, NEW hi
    PROVE  \E f : IsScan(d, lo, hi, f, 0)
<1> DEFINE Bad == {k \in Nat : k <= N /\ ~ \E f : IsScan(d, lo, hi, f, N - k)}
<1> SUFFICES ASSUME Bad # {} PROVE FALSE
  <2>1. N \notin Bad BY ONLY Bad = {}
  <2>2. N - N = 0 BY ONLY N \in Nat
  <2> QED BY ONLY <2>1, <2>2, N \in Nat
<1>1. Bad \subseteq Nat OBVIOUS
<1>2. PICK k \in Bad : \A u \in Bad : k <= u
  <2> HIDE DEF Bad
  <2> QED BY ONLY <1>1, Bad # {}, LeastNumber
<1>3. k \in Nat /\ k <= N /\ ~ \E f : IsScan(d, lo, hi, f, N - k) BY ONLY <1>2
<1>4. CASE k = 0
  <2> PICK f : f = [p \in Nat |-> FoundFrom(d, lo, hi, p, p)] OBVIOUS
  <2>1. ASSUME NEW p \in Nat, N - k <= p, p <= Len(d) PROVE f[p] = FoundFrom(d, lo, hi, f, p)
    <3>1. p = N BY ONLY <1>4, <2>1, N \in Nat, N = Len(d)
    <3>2. p + 2 > Len(d) BY ONLY <3>1, N \in Nat, N = Len(d)
    <3>3. f[p] = <<>> /\ FoundFrom(d, lo, hi, f, p) = <<>> BY <3>2 DEF FoundFrom
    <3> QED BY ONLY <3>3
  <2>2. IsScan(d, lo, hi, f, N - k) BY ONLY <2>1 DEF IsScan
  <2> QED BY ONLY <1>3, <2>2
<1>5. CASE k # 0
  <2> PICK j \in Nat : j = k - 1 BY ONLY <1>3, <1>5
  <2>1. j \notin Bad
    <3> HIDE DEF Bad
    <3>1. ~(k <= j) BY ONLY <1>3, j = k - 1
    <3> QED BY ONLY <1>2, <3>1
  <2>2. j <= N BY ONLY <1>3, j = k - 1, N \in Nat
  <2> PICK g : IsScan(d, lo, hi, g, N - j) BY ONLY <2>1, <2>2, j \in Nat
  <2> PICK m \in Nat : m = N - k BY ONLY <1>3, N \in Nat
  <2>3. N - j = m + 1 BY ONLY <1>3, j = k - 1, m = N - k, N \in Nat
  <2>4. IsScan(d, lo, hi, g, m + 1) BY ONLY <2>3, IsScan(d, lo, hi, g, N - j)
  <2>5. \E f : IsScan(d, lo, hi, f, m) BY ONLY <2>4, m \in Nat, N \in Nat, N = Len(d), ScanExtends
  <2> QED BY ONLY <1>3, <2>5, m = N - k
<1> QED BY ONLY <1>4, <1>5

LEMMA ScanIsScan ==
    ASSUME NEW d, NEW N \in Nat, N = Len(d), NEW lo, NEW hi
    PROVE  IsScan(d, lo, hi, Scanned(d, lo, hi), 0)
<1> PICK g : IsScan(d, lo, hi, g, 0) BY ScanExists
<1> PICK f : f = [p \in 0 .. Len(d) |-> g[p]] OBVIOUS
<1>1. \A q \in Nat : q <= N => f[q] = g[q] BY ONLY N = Len(d), N \in Nat, f = [p \in 0 .. Len(d) |-> g[p]]
<1>2. ASSUME NEW p \in 0 .. Len(d) PROVE g[p] = FoundFrom(d, lo, hi, f, p)
  <2>1. p \in Nat /\ 0 <= p /\ p <= Len(d) BY ONLY <1>2, N \in Nat, N = Len(d)
  <2>2. \A q \in Nat : p < q /\ q <= N => f[q] = g[q] BY ONLY <1>1
  <2>3. FoundFrom(d, lo, hi, f, p) = FoundFrom(d, lo, hi, g, p)
    BY ONLY <2>1, <2>2, N \in Nat, N = Len(d), FoundFromLater
  <2>4. g[p] = FoundFrom(d, lo, hi, g, p) BY ONLY <2>1, IsScan(d, lo, hi, g, 0) DEF IsScan
  <2> QED BY ONLY <2>3, <2>4
<1>3. f = [p \in 0 .. Len(d) |-> FoundFrom(d, lo, hi, f, p)]
  <2> PICK e : e = [p \in 0 .. Len(d) |-> FoundFrom(d, lo, hi, f, p)] OBVIOUS
  <2>1. \A p \in 0 .. Len(d) : e[p] = g[p]
    BY ONLY <1>2, e = [p \in 0 .. Len(d) |-> FoundFrom(d, lo, hi, f, p)]
  <2>2. e = [p \in 0 .. Len(d) |-> e[p]] BY ONLY e = [p \in 0 .. Len(d) |-> FoundFrom(d, lo, hi, f, p)]
  <2>3. e = f BY ONLY <2>1, <2>2, f = [p \in 0 .. Len(d) |-> g[p]]
  <2> QED BY ONLY <2>3, e = [p \in 0 .. Len(d) |-> FoundFrom(d, lo, hi, f, p)]
<1>4. Scanned(d, lo, hi) = [p \in 0 .. Len(d) |-> FoundFrom(d, lo, hi, Scanned(d, lo, hi), p)]
  BY ONLY <1>3 DEF Scanned
<1> PICK s : s = Scanned(d, lo, hi) OBVIOUS
<1>5. s = [p \in 0 .. Len(d) |-> FoundFrom(d, lo, hi, s, p)] BY ONLY <1>4, s = Scanned(d, lo, hi)
<1>6. ASSUME NEW p \in Nat, 0 <= p, p <= Len(d) PROVE s[p] = FoundFrom(d, lo, hi, s, p)
  <2>1. p \in 0 .. Len(d) BY ONLY <1>6, N \in Nat, N = Len(d)
  <2> QED BY ONLY <1>5, <2>1
<1>7. IsScan(d, lo, hi, s, 0) BY ONLY <1>6 DEF IsScan
<1> QED BY ONLY <1>7, s = Scanned(d, lo, hi)

LEMMA ScanEnds ==
    ASSUME NEW d, NEW N \in Nat, N = Len(d), NEW lo, NEW hi, NEW f, IsScan(d, lo, hi, f, 0)
    PROVE  f[N] = <<>>
<1>1. f[N] = FoundFrom(d, lo, hi, f, N)
  <2>1. 0 <= N /\ N <= Len(d) BY ONLY N \in Nat, N = Len(d)
  <2> QED BY ONLY <2>1, N \in Nat, IsScan(d, lo, hi, f, 0) DEF IsScan
<1>2. N + 2 > Len(d) BY ONLY N \in Nat, N = Len(d)
<1> QED BY ONLY <1>1, <1>2 DEF FoundFrom

LEMMA ScanMoves ==
    ASSUME NEW d, NEW N \in Nat, N = Len(d), NEW lo, NEW hi, NEW f, IsScan(d, lo, hi, f, 0),
           NEW p \in Nat, p < N, Hit(d, lo, hi, p) = {}
    PROVE  f[p] = f[p + 1]
<1>1. f[p] = FoundFrom(d, lo, hi, f, p)
  <2>1. 0 <= p /\ p <= Len(d) BY ONLY p < N, p \in Nat, N \in Nat, N = Len(d)
  <2> QED BY ONLY <2>1, p \in Nat, IsScan(d, lo, hi, f, 0) DEF IsScan
<1>2. CASE p + 2 > Len(d)
  <2>1. p + 1 = N BY ONLY <1>2, p < N, p \in Nat, N \in Nat, N = Len(d)
  <2>2. f[N] = <<>> BY ONLY N \in Nat, N = Len(d), IsScan(d, lo, hi, f, 0), ScanEnds
  <2> QED BY ONLY <1>1, <1>2, <2>1, <2>2 DEF FoundFrom
<1>3. CASE ~(p + 2 > Len(d))
  BY ONLY <1>1, <1>3, Hit(d, lo, hi, p) = {} DEF FoundFrom
<1> QED BY ONLY <1>2, <1>3

\* Nothing is found where no marker stands.
LEMMA ScanQuiet ==
    ASSUME NEW d, NEW N \in Nat, N = Len(d), NEW lo, NEW hi, NEW f, IsScan(d, lo, hi, f, 0),
           NEW a \in Nat, NEW b \in Nat, a <= b, b <= N,
           \A p \in Nat : a <= p /\ p < b => ~IsAt(d, p, U32)
    PROVE  f[a] = f[b]
<1> DEFINE Bad == {k \in Nat : a + k <= b /\ f[a + k] # f[a]}
<1> SUFFICES ASSUME Bad # {} PROVE FALSE
  <2> PICK k \in Nat : k = b - a BY ONLY a \in Nat, b \in Nat, a <= b
  <2>1. a + k <= b /\ a + k = b BY ONLY k = b - a, a \in Nat, b \in Nat
  <2>2. k \notin Bad BY ONLY Bad = {}
  <2> QED BY ONLY <2>1, <2>2, k \in Nat
<1>1. Bad \subseteq Nat OBVIOUS
<1>2. PICK k \in Bad : \A u \in Bad : k <= u
  <2> HIDE DEF Bad
  <2> QED BY ONLY <1>1, Bad # {}, LeastNumber
<1>3. k \in Nat /\ a + k <= b /\ f[a + k] # f[a] BY ONLY <1>2
<1>4. k # 0
  <2>1. a + 0 = a BY ONLY a \in Nat
  <2> QED BY ONLY <1>3, <2>1
<1> PICK j \in Nat : j = k - 1 BY ONLY <1>3, <1>4
<1>5. j \notin Bad
  <2> HIDE DEF Bad
  <2>1. ~(k <= j) BY ONLY <1>3, j = k - 1
  <2> QED BY ONLY <1>2, <2>1
<1> PICK p \in Nat : p = a + j BY ONLY a \in Nat, j \in Nat
<1>6. p < b /\ a <= p /\ p <= b /\ p < N /\ p + 1 = a + k
  BY ONLY <1>3, p = a + j, j = k - 1, a \in Nat, b \in Nat, N \in Nat, b <= N
<1>7. f[p] = f[a] BY ONLY <1>5, <1>6, p = a + j, j \in Nat
<1>8. Hit(d, lo, hi, p) = {}
  <2>1. ~IsAt(d, p, U32) BY ONLY <1>6, p \in Nat, \A x \in Nat : a <= x /\ x < b => ~IsAt(d, x, U32)
  <2> QED BY ONLY <2>1 DEF Hit
<1>9. f[p] = f[p + 1]
  BY ONLY <1>6, <1>8, p \in Nat, N \in Nat, N = Len(d), IsScan(d, lo, hi, f, 0), ScanMoves
<1> QED BY ONLY <1>3, <1>6, <1>7, <1>9

\* A record is found at p, with the count c.
HitReads(d, lo, hi, f, p, c) ==
    f[p] = <<[round |-> d[p + 2], hashes |-> SubSeq(d, c.next + 1, c.next + c.value)]>>
           \o f[c.next + c.value]

LEMMA ScanHits ==
    ASSUME NEW d, NEW N \in Nat, N = Len(d), NEW lo, NEW hi, NEW f, IsScan(d, lo, hi, f, 0),
           NEW p \in Nat, p + 2 <= N, NEW c, Hit(d, lo, hi, p) = {c}
    PROVE  HitReads(d, lo, hi, f, p, c)
<1>1. f[p] = FoundFrom(d, lo, hi, f, p)
  <2>1. 0 <= p /\ p <= Len(d) BY ONLY p + 2 <= N, p \in Nat, N \in Nat, N = Len(d)
  <2> QED BY ONLY <2>1, p \in Nat, IsScan(d, lo, hi, f, 0) DEF IsScan
<1>2. ~(p + 2 > Len(d)) BY ONLY p + 2 <= N, p \in Nat, N \in Nat, N = Len(d)
<1>3. (CHOOSE x \in Hit(d, lo, hi, p) : TRUE) = c
  <2>1. (CHOOSE x \in Hit(d, lo, hi, p) : TRUE) \in Hit(d, lo, hi, p) BY ONLY Hit(d, lo, hi, p) = {c}
  <2> QED BY ONLY <2>1, Hit(d, lo, hi, p) = {c}
<1> QED BY ONLY <1>1, <1>2, <1>3, Hit(d, lo, hi, p) = {c} DEF FoundFrom, HitReads
-----------------------------------------------------------------------------
(* The records of a proposal in the old layout. *)

\* The bytes of a record of extent n, at place at of d.
LegacyAt(d, at, r, n) ==
    /\ At(d, at) = {1} /\ At(d, at + 1) = {U32}
    /\ Len(r.hashes) < SmallBytes =>
         At(d, at + 2) = {r.round} /\ At(d, at + 3) = {n} /\ Holds(d, at + 4, r.hashes)

LegacyLength(n) == 4 + n

\* b are the bytes of the record r.
LegacyIsIn(b, r, n) ==
    /\ IsBytes(b) /\ Len(b) = LegacyLength(n)
    /\ \A d, at : IsBytes(d) /\ at \in Nat /\ Holds(d, at, b) => LegacyAt(d, at, r, n)

LEMMA LegacyFacts ==
    ASSUME NEW r, IsRecord(r), NEW activation, NEW n \in Nat, n = Extent(r.hashes)
    PROVE  LegacyIsIn(RecordBytes(r, TRUE, activation), r, n)
<1> PICK h : h = r.hashes OBVIOUS
<1> PICK three \in Nat : three = 3 OBVIOUS
<1> PICK o \in Bytes : o = r.round BY RecordIs
<1>0. IsBytes(h) /\ Len(h) \in Nat /\ Len(h) \in Bytes BY RecordIs
<1> PICK q \in Nat : q = Len(h) BY ONLY <1>0
<1> PICK y \in Nat : y = IF q < SmallBytes THEN 1 ELSE 2 OBVIOUS
<1> PICK K : K = CountBytes(q) OBVIOUS
<1> DEFINE a == <<1, U32, o>>
<1>1. a[1] = 1 /\ a[2] = U32 /\ a[3] = o OBVIOUS
<1>2. IsBytes(a) /\ Len(a) = three
  <2>1. 1 \in Bytes /\ U32 \in Bytes BY OrderingConstants
  <2> QED BY ONLY <2>1, o \in Bytes, three = 3, three \in Nat, ThreeBytes
<1>3. RecordBytes(r, TRUE, activation) = (a \o K) \o h BY DEF RecordBytes
<1> HIDE DEF a
<1>4. CountIs(K, q, y)
  BY ONLY <1>0, q = Len(h), q \in Nat, y \in Nat, y = IF q < SmallBytes THEN 1 ELSE 2,
          K = CountBytes(q), CountBytesAre
<1>5. IsBytes(K) /\ Len(K) = y BY ONLY <1>4 DEF CountIs
<1> PICK x \in Nat : x = three + y BY ONLY three \in Nat, y \in Nat
<1> PICK f : f = a \o K OBVIOUS
<1>6. IsBytes(f) /\ Len(f) = x
  BY ONLY <1>2, <1>5, three \in Nat, y \in Nat, x = three + y, f = a \o K, JoinIs
<1>7. IsBytes(f \o h) /\ Len(f \o h) = x + q
  <2>1. IsBytes(h) /\ Len(h) = q BY ONLY <1>0, q = Len(h)
  <2> QED BY ONLY <1>6, <2>1, x \in Nat, q \in Nat, JoinIs
<1>8. n = IF q < SmallBytes THEN q ELSE q + 1
  BY ONLY n = Extent(r.hashes), h = r.hashes, q = Len(h) DEF Extent
<1>9. x + q = 4 + n
  BY ONLY <1>8, x = three + y, three = 3, y = IF q < SmallBytes THEN 1 ELSE 2, q \in Nat
<1>10. ASSUME NEW d, NEW at, IsBytes(d), at \in Nat, Holds(d, at, f \o h)
       PROVE  LegacyAt(d, at, r, n)
  <2>1. Holds(d, at, f) /\ Holds(d, at + x, h)
    <3>1. Holds(d, at, f) /\ Holds(d, at + Len(f), h) BY ONLY <1>0, <1>6, <1>10, HoldsParts
    <3> QED BY ONLY <1>6, <3>1
  <2>2. Holds(d, at, a) /\ Holds(d, at + three, K)
    <3>1. Holds(d, at, a \o K) BY ONLY <2>1, f = a \o K
    <3>2. Holds(d, at, a) /\ Holds(d, at + Len(a), K) BY ONLY <1>2, <1>5, <1>10, <3>1, HoldsParts
    <3> QED BY ONLY <1>2, <3>2
  <2>3. \A i \in Nat : i < three => At(d, at + i) = {a[i + 1]}
    <3> SUFFICES ASSUME NEW i \in Nat, i < three PROVE At(d, at + i) = {a[i + 1]} OBVIOUS
    <3>1. i < Len(a) /\ Len(a) \in Nat BY ONLY <1>2, i < three, three \in Nat
    <3>2. Holds(d, at, a) BY ONLY <2>2
    <3> QED BY ONLY IsBytes(d), at \in Nat, <3>1, <3>2, i \in Nat, HoldsByte
  <2>4. At(d, at) = {a[1]} /\ At(d, at + 1) = {a[2]} /\ At(d, at + 2) = {a[3]}
    BY ONLY <1>10, <2>3, three = 3
  <2>5. ASSUME q < SmallBytes PROVE At(d, at + 3) = {n} /\ Holds(d, at + 4, h)
    <3> PICK i \in Nat : i = at + three BY ONLY <1>10, three \in Nat
    <3>1. Holds(d, i, K) BY ONLY <2>2, i = at + three
    <3>2. CountAt(d, i, q, i + y) BY ONLY <1>4, <1>10, <3>1, i \in Nat DEF CountIs
    <3>3. At(d, i) = {q} BY ONLY <2>5, <3>2 DEF CountAt
    <3>4. i = at + 3 /\ at + x = at + 4 /\ q = n
      BY ONLY <1>8, <1>10, <2>5, i = at + three, three = 3, x = three + y,
              y = IF q < SmallBytes THEN 1 ELSE 2
    <3> QED BY ONLY <2>1, <3>3, <3>4
  <2> QED BY ONLY <1>1, <2>4, <2>5, h = r.hashes, q = Len(h), o = r.round DEF LegacyAt
<1> QED BY ONLY <1>3, <1>7, <1>9, <1>10, f = a \o K DEF LegacyIsIn, LegacyLength

\* Where the bytes of s stand, no marker stands unless s has one.
LEMMA NoMarkerIn ==
    ASSUME NEW d, IsBytes(d), NEW at \in Nat, NEW s, IsBytes(s), Holds(d, at, s),
           \A i \in 1 .. Len(s) : s[i] # U32, NEW p \in Nat, at <= p, p < at + Len(s)
    PROVE  ~IsAt(d, p, U32)
<1>1. Len(s) \in Nat BY DEF IsBytes
<1> PICK k \in Nat : k = Len(s) BY <1>1
<1> PICK i \in Nat : i = p - at BY ONLY p \in Nat, at \in Nat, at <= p
<1>2. i < Len(s) /\ i + 1 \in 1 .. Len(s) /\ at + i = p
  BY ONLY i = p - at, k = Len(s), k \in Nat, p \in Nat, at \in Nat, at <= p, p < at + Len(s)
<1>3. At(d, at + i) = {s[i + 1]}
  BY ONLY <1>1, <1>2, IsBytes(d), Holds(d, at, s), at \in Nat, i \in Nat, HoldsByte
<1>4. s[i + 1] # U32 BY ONLY <1>2, \A x \in 1 .. Len(s) : s[x] # U32
<1> QED BY ONLY <1>2, <1>3, <1>4 DEF IsAt

\* What the scan makes of a record: it and what follows, or what follows alone.
LegacyReads(f, at, e, r, lo, hi) ==
    f[at] = IF r.round \in lo .. hi /\ r.hashes # <<>>
            THEN <<[round |-> r.round, hashes |-> r.hashes]>> \o f[e]
            ELSE f[e]

LEMMA LegacyStep ==
    ASSUME NEW d, IsBytes(d), NEW N \in Nat, N = Len(d), NEW lo, NEW hi,
           NEW f, IsScan(d, lo, hi, f, 0),
           NEW at \in Nat, NEW r, IsRecord(r), NEW n \in Nat, n = Len(r.hashes), n < SmallBytes,
           LegacyAt(d, at, r, n), NEW e \in Nat, e = at + 4 + n, e <= N, r.round # U32, n <= ScanMax,
           r.round \in lo .. hi \/ \A i \in 1 .. n : r.hashes[i] # U32
    PROVE  LegacyReads(f, at, e, r, lo, hi)
<1> PICK m \in Nat : m = at + 1 BY ONLY at \in Nat
<1> PICK h, q : h = r.hashes /\ q = r.round OBVIOUS
<1>1. /\ At(d, at) = {1} /\ At(d, m) = {U32} /\ At(d, m + 1) = {q} /\ At(d, m + 2) = {n}
      /\ Holds(d, at + 4, h)
  <2>1. m + 1 = at + 2 /\ m + 2 = at + 3 BY ONLY m = at + 1, at \in Nat
  <2> QED BY ONLY <2>1, LegacyAt(d, at, r, n), n = Len(r.hashes), n < SmallBytes, m = at + 1,
                  h = r.hashes, q = r.round DEF LegacyAt
<1>2. IsBytes(h) /\ Len(h) = n /\ n < SmallBytes /\ n <= MaxHashCount
  BY ONLY IsRecord(r), n = Len(r.hashes), n < SmallBytes, h = r.hashes, RecordIs
<1>3. /\ SmallBytes \in Nat /\ U32 = SmallBytes + 1 /\ 1 < SmallBytes BY OrderingConstants
<1>4. f[at] = f[m]
  <2>1. \A p \in Nat : at <= p /\ p < m => ~IsAt(d, p, U32)
    <3> SUFFICES ASSUME NEW p \in Nat, at <= p, p < m PROVE ~IsAt(d, p, U32) OBVIOUS
    <3>1. p = at BY ONLY at <= p, p < m, m = at + 1, p \in Nat, at \in Nat
    <3>2. 1 # U32 BY ONLY <1>3
    <3> QED BY ONLY <1>1, <3>1, <3>2 DEF IsAt
  <2>2. at <= m /\ m <= N BY ONLY m = at + 1, e = at + 4 + n, e <= N, at \in Nat, n \in Nat, N \in Nat
  <2> QED BY ONLY <2>1, <2>2, at \in Nat, m \in Nat, N \in Nat, N = Len(d), IsScan(d, lo, hi, f, 0), ScanQuiet
<1> PICK c : c = [value |-> n, next |-> at + 4] OBVIOUS
<1>5. ReadVarint(d, m + 2) = {c}
  <2> PICK i \in Nat : i = m + 2 BY ONLY m \in Nat
  <2>1. At(d, i) = {n} BY ONLY <1>1, i = m + 2
  <2>2. ReadVarint(d, i) = {[value |-> n, next |-> i + 1]}
    BY ONLY <1>2, <2>1, i \in Nat, n \in Nat, ReadSmall
  <2>3. i + 1 = at + 4 BY ONLY i = m + 2, m = at + 1, at \in Nat
  <2> QED BY ONLY <2>2, <2>3, i = m + 2, c = [value |-> n, next |-> at + 4]
<1>6. c.value = n /\ c.next = at + 4 /\ c.next + c.value = e /\ c.next + c.value <= Len(d)
  <2>1. c.value = n /\ c.next = at + 4 BY ONLY c = [value |-> n, next |-> at + 4]
  <2>2. (at + 4) + n = e /\ e <= Len(d)
    BY ONLY e = at + 4 + n, e <= N, N = Len(d), at \in Nat, n \in Nat
  <2> QED BY ONLY <2>1, <2>2
<1>7. Hit(d, lo, hi, m) = IF q \in lo .. hi /\ n \in 1 .. ScanMax THEN {c} ELSE {}
  <2>1. \A x : x \in Hit(d, lo, hi, m)
          <=> /\ x = c /\ IsAt(d, m, U32) /\ \E r0 \in At(d, m + 1) : r0 \in lo .. hi
              /\ x.value \in 1 .. ScanMax /\ x.next + x.value <= Len(d)
    BY ONLY <1>5 DEF Hit
  <2>2. IsAt(d, m, U32) /\ ((\E r0 \in At(d, m + 1) : r0 \in lo .. hi) <=> q \in lo .. hi)
    BY ONLY <1>1 DEF IsAt
  <2>3. \A x : x \in Hit(d, lo, hi, m) <=> x = c /\ q \in lo .. hi /\ n \in 1 .. ScanMax
    BY ONLY <1>6, <2>1, <2>2
  <2> QED BY ONLY <2>3
<1>8. h = <<>> <=> n = 0 BY ONLY <1>2 DEF IsBytes
<1>9. CASE q \in lo .. hi /\ h # <<>>
  <2>1. n \in 1 .. ScanMax
    <3>1. ScanMax \in Nat BY OrderingConstants
    <3> QED BY ONLY <1>8, <1>9, <3>1, n \in Nat, n <= ScanMax
  <2>2. Hit(d, lo, hi, m) = {c} BY ONLY <1>7, <1>9, <2>1
  <2>3. m + 2 <= N BY ONLY m = at + 1, e = at + 4 + n, e <= N, at \in Nat, n \in Nat, N \in Nat
  <2>4. f[m] = <<[round |-> d[m + 2], hashes |-> SubSeq(d, c.next + 1, c.next + c.value)]>>
               \o f[c.next + c.value]
    <3>1. HitReads(d, lo, hi, f, m, c)
      BY ONLY <2>2, <2>3, m \in Nat, N \in Nat, N = Len(d), IsScan(d, lo, hi, f, 0), ScanHits
    <3> QED BY ONLY <3>1 DEF HitReads
  <2>5. d[m + 2] = q
    <3>1. m + 1 \in 0 .. Len(d) - 1 BY ONLY <1>1 DEF At
    <3>2. d[(m + 1) + 1] = q BY ONLY <1>1, <3>1 DEF At
    <3>3. (m + 1) + 1 = m + 2 BY ONLY m \in Nat
    <3> QED BY ONLY <3>2, <3>3
  <2>6. SubSeq(d, c.next + 1, c.next + c.value) = h
    <3> PICK j \in Nat : j = at + 4 BY ONLY at \in Nat
    <3>1. Holds(d, j, h) /\ Len(h) <= MaxHashCount BY ONLY <1>1, <1>2, j = at + 4
    <3>2. ReadHashes(d, j, Len(h)) = {h} BY ONLY <1>2, <3>1, IsBytes(d), j \in Nat, HoldsHashes
    <3>3. ReadHashes(d, j, n) = {h} BY ONLY <1>2, <3>2
    <3>4. SubSeq(d, j + 1, j + n) = h BY ONLY <3>3 DEF ReadHashes
    <3> QED BY ONLY <1>6, <3>4, j = at + 4
  <2> QED BY ONLY <1>4, <1>6, <1>9, <2>4, <2>5, <2>6, h = r.hashes, q = r.round DEF LegacyReads
<1>10. CASE ~(q \in lo .. hi /\ h # <<>>)
  <2>1. Hit(d, lo, hi, m) = {}
    <3>1. ~(q \in lo .. hi) \/ n \notin 1 .. ScanMax BY ONLY <1>8, <1>10, n \in Nat
    <3> QED BY ONLY <1>7, <3>1
  <2>2. m < N BY ONLY m = at + 1, e = at + 4 + n, e <= N, at \in Nat, n \in Nat, N \in Nat
  <2>3. f[m] = f[m + 1]
    BY ONLY <2>1, <2>2, m \in Nat, N \in Nat, N = Len(d), IsScan(d, lo, hi, f, 0), ScanMoves
  <2> PICK b \in Nat : b = m + 1 BY ONLY m \in Nat
  <2>4. \A i \in 1 .. n : h[i] # U32
    <3>1. h = <<>> => n = 0 BY ONLY <1>8
    <3>2. n = 0 => \A i \in 1 .. n : h[i] # U32 BY ONLY n \in Nat
    <3> QED BY ONLY <1>10, <3>1, <3>2, h = r.hashes, q = r.round,
                    r.round \in lo .. hi \/ \A i \in 1 .. n : r.hashes[i] # U32
  <2>5. \A p \in Nat : b <= p /\ p < e => ~IsAt(d, p, U32)
    <3> SUFFICES ASSUME NEW p \in Nat, b <= p, p < e PROVE ~IsAt(d, p, U32) OBVIOUS
    <3>1. CASE p = b
      <4>1. At(d, p) = {q} BY ONLY <1>1, <3>1, b = m + 1
      <4> QED BY ONLY <4>1, r.round # U32, q = r.round DEF IsAt
    <3>2. CASE p = b + 1
      <4>1. m + 2 = p BY ONLY <3>2, b = m + 1, m \in Nat
      <4>2. n # U32 BY ONLY <1>2, <1>3, n \in Nat
      <4> QED BY ONLY <1>1, <4>1, <4>2 DEF IsAt
    <3>3. CASE p # b /\ p # b + 1
      <4> PICK j \in Nat : j = at + 4 BY ONLY at \in Nat
      <4>1. j <= p /\ p < j + Len(h)
        BY ONLY <1>2, <3>3, b <= p, p < e, b = m + 1, m = at + 1, e = at + 4 + n, j = at + 4,
                p \in Nat, at \in Nat, n \in Nat
      <4>2. Holds(d, j, h) /\ \A i \in 1 .. Len(h) : h[i] # U32 BY ONLY <1>1, <1>2, <2>4, j = at + 4
      <4> QED BY ONLY <1>2, <4>1, <4>2, IsBytes(d), j \in Nat, p \in Nat, NoMarkerIn
    <3> QED BY ONLY <3>1, <3>2, <3>3
  <2>6. b <= e BY ONLY b = m + 1, m = at + 1, e = at + 4 + n, at \in Nat, n \in Nat
  <2>7. f[b] = f[e]
    BY ONLY <2>5, <2>6, b \in Nat, e \in Nat, e <= N, N \in Nat, N = Len(d), IsScan(d, lo, hi, f, 0),
            ScanQuiet
  <2> QED BY ONLY <1>4, <1>10, <2>3, <2>7, b = m + 1, h = r.hashes, q = r.round DEF LegacyReads
<1> QED BY ONLY <1>9, <1>10

\* The bytes of a proposal in the old layout; extent n of the slot, extent a of the own record.
LegacyLayout(d, p, n, u, a) ==
    /\ IsBytes(d) /\ Len(d) = u + 7 + a
    /\ At(d, 0) = {0} /\ At(d, 1) = {1} /\ At(d, 2) = {1}
    /\ LegacyAt(d, 3, p.slot, n) /\ Holds(d, 7 + n, p.between)
    /\ At(d, u) = {U64} /\ At(d, u + 1) = {1} /\ At(d, u + 2) = {1}
    /\ LegacyAt(d, u + 3, p.own, a)

LEMMA LegacyIsAt ==
    ASSUME NEW r, IsRecord(r), NEW activation, NEW n \in Nat, n = Extent(r.hashes),
           NEW d, IsBytes(d), NEW at \in Nat, Holds(d, at, RecordBytes(r, TRUE, activation))
    PROVE  LegacyAt(d, at, r, n)
<1>1. LegacyIsIn(RecordBytes(r, TRUE, activation), r, n) BY LegacyFacts
<1> QED BY ONLY <1>1, IsBytes(d), at \in Nat, Holds(d, at, RecordBytes(r, TRUE, activation)) DEF LegacyIsIn

LEMMA LegacyLaidOut ==
    ASSUME NEW p, IsProposal(p), p.legacy,
           NEW n \in Nat, n = Extent(p.slot.hashes), NEW a \in Nat, a = Extent(p.own.hashes),
           NEW w \in Nat, w = Len(p.between), NEW u \in Nat, u = 7 + n + w
    PROVE  LegacyLayout(ProposalBytes(p), p, n, u, a)
<1> PICK s, o, act, B, d : /\ s = p.slot /\ o = p.own /\ act = p.activation /\ B = p.between
                           /\ d = ProposalBytes(p)
  OBVIOUS
<1>1. IsRecord(s) /\ IsRecord(o) /\ IsBytes(B) BY ProposalIs
<1>2. n = Extent(s.hashes) /\ a = Extent(o.hashes) /\ w = Len(B) OBVIOUS
<1> PICK R, Q : R = RecordBytes(s, TRUE, act) /\ Q = RecordBytes(o, TRUE, act) OBVIOUS
<1> PICK m \in Nat : m = 4 + n BY ONLY n \in Nat
<1> PICK l \in Nat : l = 4 + a BY ONLY a \in Nat
<1>3. IsBytes(R) /\ Len(R) = m
  <2>1. IsRecord(s) /\ n = Extent(s.hashes) BY ONLY <1>1, <1>2
  <2>2. IsBytes(RecordBytes(s, TRUE, act)) /\ Len(RecordBytes(s, TRUE, act)) = LegacyLength(n)
    BY ONLY <2>1, n \in Nat, LegacyFacts DEF LegacyIsIn
  <2> QED BY ONLY <2>2, R = RecordBytes(s, TRUE, act), m = 4 + n DEF LegacyLength
<1>4. IsBytes(Q) /\ Len(Q) = l
  <2>1. IsRecord(o) /\ a = Extent(o.hashes) BY ONLY <1>1, <1>2
  <2>2. IsBytes(RecordBytes(o, TRUE, act)) /\ Len(RecordBytes(o, TRUE, act)) = LegacyLength(a)
    BY ONLY <2>1, a \in Nat, LegacyFacts DEF LegacyIsIn
  <2> QED BY ONLY <2>2, Q = RecordBytes(o, TRUE, act), l = 4 + a DEF LegacyLength
<1>5. d = Enclose(R, B, Q)
  <2>1. RecordBytes(s, p.legacy, act) = R /\ RecordBytes(o, p.legacy, act) = Q BY DEF RecordBytes
  <2> QED BY <2>1 DEF ProposalBytes, Enclose
<1>6. u = 3 + m + w BY ONLY u = 7 + n + w, m = 4 + n, n \in Nat, w \in Nat
<1>7. /\ IsBytes(d) /\ Len(d) = u + 3 + l
      /\ At(d, 0) = {0} /\ At(d, 1) = {1} /\ At(d, 2) = {1}
      /\ Holds(d, 3, R) /\ Holds(d, 3 + m, B)
      /\ At(d, u) = {U64} /\ At(d, u + 1) = {1} /\ At(d, u + 2) = {1}
      /\ Holds(d, u + 3, Q)
  <2>1. IsBytes(B) /\ Len(B) = w BY ONLY <1>1, <1>2
  <2>2. Pieced(d, R, m, B, Q, l, u)
    BY ONLY <1>3, <1>4, <1>5, <1>6, <2>1, m \in Nat, l \in Nat, w \in Nat, u \in Nat, Envelope
  <2> QED BY ONLY <2>2 DEF Pieced
<1>8. LegacyAt(d, 3, s, n)
  <2>1. Holds(d, 3, RecordBytes(s, TRUE, act)) BY ONLY <1>7, R = RecordBytes(s, TRUE, act)
  <2>2. IsRecord(s) /\ n = Extent(s.hashes) /\ IsBytes(d) /\ 3 \in Nat BY ONLY <1>1, <1>2, <1>7
  <2> QED BY ONLY <2>1, <2>2, n \in Nat, LegacyIsAt
<1>9. LegacyAt(d, u + 3, o, a)
  <2>1. Holds(d, u + 3, RecordBytes(o, TRUE, act)) BY ONLY <1>7, Q = RecordBytes(o, TRUE, act)
  <2>2. IsRecord(o) /\ a = Extent(o.hashes) /\ IsBytes(d) BY ONLY <1>1, <1>2, <1>7
  <2>3. u + 3 \in Nat BY ONLY u \in Nat
  <2> QED BY ONLY <2>1, <2>2, <2>3, a \in Nat, LegacyIsAt
<1>10. u + 3 + l = u + 7 + a /\ 3 + m = 7 + n
  BY ONLY l = 4 + a, m = 4 + n, u \in Nat, a \in Nat, n \in Nat
<1>11. LegacyLayout(d, p, n, u, a)
  BY ONLY <1>7, <1>8, <1>9, <1>10, s = p.slot, o = p.own, B = p.between DEF LegacyLayout
<1> QED BY ONLY <1>11, d = ProposalBytes(p)

\* The slot of a proposal in the old layout is read as one.
LEMMA LegacyParse ==
    ASSUME NEW p, NEW d, NEW n, NEW u, NEW a, LegacyLayout(d, p, n, u, a)
    PROVE  {s \in ParseSlot(d) : ~s.legacy} = {}
<1>1. SlotStart(d) = {3}
  <2>1. At(d, 0) = {0} /\ At(d, 1) = {1} /\ At(d, 2) = {1} BY DEF LegacyLayout
  <2> QED BY ONLY <2>1, SlotStartIs
<1>2. IsAt(d, 3 + 1, U32) BY DEF LegacyLayout, LegacyAt, IsAt
<1>3. ParseSlot(d) \subseteq LegacySlot(d, 3)
  <2> DEFINE Z(q) == IF IsAt(d, q + 1, U32) THEN LegacySlot(d, q) ELSE TailedSlot(d, q)
  <2>1. ParseSlot(d) = UNION {Z(q) : q \in {x \in SlotStart(d) : x < Len(d)}} BY DEF ParseSlot
  <2>2. Z(3) = LegacySlot(d, 3) BY ONLY <1>2
  <2> HIDE DEF Z
  <2> QED BY ONLY <1>1, <2>1, <2>2
<1>4. ASSUME NEW s \in LegacySlot(d, 3) PROVE s.legacy = TRUE
  <2> DEFINE Out(c, h, r) == [legacy |-> TRUE, round |-> r, hashes |-> h, activation |-> 0,
                              end |-> c.next + Len(h)]
  <2>1. LegacySlot(d, 3) = UNION {UNION {{Out(c, h, r) : h \in ReadHashes(d, c.next, c.value), r \in At(d, 3 + 2)}}
                                  : c \in ReadVarint(d, 3 + 3)}
    BY DEF LegacySlot
  <2>2. \A c, h, r : Out(c, h, r).legacy = TRUE OBVIOUS
  <2> HIDE DEF Out
  <2>3. \E c, h, r : s = Out(c, h, r) BY ONLY <1>4, <2>1
  <2> QED BY ONLY <2>2, <2>3
<1> QED BY ONLY <1>3, <1>4

\* The part of a record in what the scan finds.
Part(r, lo, hi) == NonEmpty(r.round, IF r.round \in lo .. hi THEN r.hashes ELSE <<>>)

\* A record whose count the scan believes, and whose round looks like no marker.
Believed(r) == r.round # U32 /\ Len(r.hashes) <= ScanMax

LEMMA LegacyScan ==
    ASSUME NEW p, IsProposal(p), p.legacy, NEW d,
           NEW n \in Nat, n = Extent(p.slot.hashes), NEW a \in Nat, a = Extent(p.own.hashes),
           NEW w \in Nat, w = Len(p.between), NEW u \in Nat, u = 7 + n + w,
           LegacyLayout(d, p, n, u, a), NEW lo, NEW hi, NEW f, IsScan(d, lo, hi, f, 0),
           ~Contains(p.between, U32), Believed(p.slot), Believed(p.own),
           p.slot.round \in lo .. hi \/ ~Contains(p.slot.hashes, U32),
           p.own.round \in lo .. hi \/ ~Contains(p.own.hashes, U32)
    PROVE  f[1] = Part(p.slot, lo, hi) \o Part(p.own, lo, hi)
<1> PICK s, o, B : s = p.slot /\ o = p.own /\ B = p.between OBVIOUS
<1> PICK N \in Nat : N = u + 7 + a BY ONLY u \in Nat, a \in Nat
<1>1. /\ IsBytes(d) /\ N = Len(d)
      /\ At(d, 0) = {0} /\ At(d, 1) = {1} /\ At(d, 2) = {1}
      /\ LegacyAt(d, 3, s, n) /\ Holds(d, 7 + n, B)
      /\ At(d, u) = {U64} /\ At(d, u + 1) = {1} /\ At(d, u + 2) = {1}
      /\ LegacyAt(d, u + 3, o, a)
  BY ONLY LegacyLayout(d, p, n, u, a), s = p.slot, o = p.own, B = p.between, N = u + 7 + a DEF LegacyLayout
<1>2. /\ IsRecord(s) /\ IsRecord(o) /\ n = Len(s.hashes) /\ a = Len(o.hashes)
      /\ n < SmallBytes /\ a < SmallBytes
      /\ s.round # U32 /\ o.round # U32 /\ n <= ScanMax /\ a <= ScanMax /\ IsBytes(B) /\ w = Len(B)
  <2>1. IsRecord(s) /\ IsRecord(o) /\ IsBytes(B) /\ w = Len(B) BY ProposalIs
  <2>2. /\ Len(s.hashes) < SmallBytes /\ Len(s.hashes) <= ScanMax /\ s.round # U32
        /\ Len(o.hashes) < SmallBytes /\ Len(o.hashes) <= ScanMax /\ o.round # U32
    <3>1. ScanMax \in Nat /\ SmallBytes \in Nat /\ ScanMax < SmallBytes BY OrderingConstants
    <3>2. Len(s.hashes) \in Nat /\ Len(o.hashes) \in Nat BY ONLY <2>1, RecordIs
    <3>3. /\ s.round # U32 /\ Len(s.hashes) <= ScanMax /\ o.round # U32 /\ Len(o.hashes) <= ScanMax
      BY DEF Believed
    <3> QED BY ONLY <3>1, <3>2, <3>3
  <2>3. n = Len(s.hashes) /\ a = Len(o.hashes) BY <2>1, <2>2, ExtentIs
  <2> QED BY ONLY <2>1, <2>2, <2>3
<1>3. /\ \A i \in 1 .. w : B[i] # U32
      /\ s.round \in lo .. hi \/ \A i \in 1 .. n : s.hashes[i] # U32
      /\ o.round \in lo .. hi \/ \A i \in 1 .. a : o.hashes[i] # U32
  BY <1>2 DEF Contains
<1>4. U64 # U32 /\ 1 # U32 BY OrderingConstants
<1> PICK three, x, y \in Nat : three = 3 /\ x = 7 + n /\ y = u + 3 BY ONLY n \in Nat, u \in Nat
<1>5. f[1] = f[three]
  <2> PICK one \in Nat : one = 1 OBVIOUS
  <2>1. \A q \in Nat : one <= q /\ q < three => ~IsAt(d, q, U32)
    <3> SUFFICES ASSUME NEW q \in Nat, one <= q, q < three PROVE ~IsAt(d, q, U32) OBVIOUS
    <3>1. q = 1 \/ q = 2 BY ONLY one <= q, q < three, three = 3, one = 1, q \in Nat
    <3> QED BY ONLY <1>1, <1>4, <3>1 DEF IsAt
  <2>2. one <= three /\ three <= N
    BY ONLY one = 1, three = 3, N = u + 7 + a, u \in Nat, a \in Nat
  <2>3. f[one] = f[three]
    BY ONLY <1>1, <2>1, <2>2, one \in Nat, three \in Nat, N \in Nat, IsScan(d, lo, hi, f, 0), ScanQuiet
  <2> QED BY ONLY <2>3, one = 1
<1>6. LegacyReads(f, three, x, s, lo, hi)
  <2>1. LegacyAt(d, three, s, n) BY ONLY <1>1, three = 3
  <2>2. x = three + 4 + n /\ x <= N
    BY ONLY x = 7 + n, three = 3, N = u + 7 + a, u = 7 + n + w, n \in Nat, w \in Nat, u \in Nat, a \in Nat
  <2> QED
    BY ONLY <1>1, <1>2, <1>3, <2>1, <2>2, N \in Nat, IsScan(d, lo, hi, f, 0), three \in Nat, n \in Nat,
            x \in Nat, LegacyStep
<1>7. f[x] = f[u]
  <2>1. \A q \in Nat : x <= q /\ q < u => ~IsAt(d, q, U32)
    <3> SUFFICES ASSUME NEW q \in Nat, x <= q, q < u PROVE ~IsAt(d, q, U32) OBVIOUS
    <3>1. q < x + Len(B) BY ONLY <1>2, q < u, x = 7 + n, u = 7 + n + w, n \in Nat, w \in Nat, q \in Nat
    <3>2. Holds(d, x, B) /\ IsBytes(B) /\ \A i \in 1 .. Len(B) : B[i] # U32
      BY ONLY <1>1, <1>2, <1>3, x = 7 + n
    <3> QED BY ONLY <1>1, <3>1, <3>2, x <= q, x \in Nat, q \in Nat, NoMarkerIn
  <2>2. x <= u /\ u <= N
    BY ONLY x = 7 + n, u = 7 + n + w, N = u + 7 + a, n \in Nat, w \in Nat, u \in Nat, a \in Nat
  <2> QED
    BY ONLY <1>1, <2>1, <2>2, x \in Nat, u \in Nat, N \in Nat, IsScan(d, lo, hi, f, 0), ScanQuiet
<1>8. f[u] = f[y]
  <2>1. \A q \in Nat : u <= q /\ q < y => ~IsAt(d, q, U32)
    <3> SUFFICES ASSUME NEW q \in Nat, u <= q, q < y PROVE ~IsAt(d, q, U32) OBVIOUS
    <3>1. q = u \/ q = u + 1 \/ q = u + 2 BY ONLY u <= q, q < y, y = u + 3, u \in Nat, q \in Nat
    <3> QED BY ONLY <1>1, <1>4, <3>1 DEF IsAt
  <2>2. u <= y /\ y <= N BY ONLY y = u + 3, N = u + 7 + a, u \in Nat, a \in Nat
  <2> QED
    BY ONLY <1>1, <2>1, <2>2, y \in Nat, u \in Nat, N \in Nat, IsScan(d, lo, hi, f, 0), ScanQuiet
<1>9. LegacyReads(f, y, N, o, lo, hi)
  <2>1. LegacyAt(d, y, o, a) BY ONLY <1>1, y = u + 3
  <2>2. N = y + 4 + a /\ N <= N BY ONLY y = u + 3, N = u + 7 + a, u \in Nat, a \in Nat
  <2> QED
    BY ONLY <1>1, <1>2, <1>3, <2>1, <2>2, N \in Nat, IsScan(d, lo, hi, f, 0), y \in Nat, a \in Nat,
            LegacyStep
<1>10. f[N] = <<>> BY ONLY <1>1, N \in Nat, IsScan(d, lo, hi, f, 0), ScanEnds
<1> PICK S, T : /\ S = <<[round |-> s.round, hashes |-> s.hashes]>>
                /\ T = <<[round |-> o.round, hashes |-> o.hashes]>>
  OBVIOUS
<1>11. /\ Part(s, lo, hi) = IF s.round \in lo .. hi /\ s.hashes # <<>> THEN S ELSE <<>>
       /\ Part(o, lo, hi) = IF o.round \in lo .. hi /\ o.hashes # <<>> THEN T ELSE <<>>
  BY ONLY S = <<[round |-> s.round, hashes |-> s.hashes]>>, T = <<[round |-> o.round, hashes |-> o.hashes]>>
  DEF Part, NonEmpty
<1>12. <<>> \o <<>> = <<>> /\ T \o <<>> = T /\ <<>> \o T = T
  <2>1. \A z : <<z>> \o <<>> = <<z>> /\ <<>> \o <<z>> = <<z>> OBVIOUS
  <2> QED BY ONLY <2>1, T = <<[round |-> o.round, hashes |-> o.hashes]>>
<1>13. f[y] = Part(o, lo, hi)
  BY ONLY <1>9, <1>10, <1>11, <1>12, T = <<[round |-> o.round, hashes |-> o.hashes]>> DEF LegacyReads
<1>14. <<>> \o Part(o, lo, hi) = Part(o, lo, hi) BY ONLY <1>11, <1>12
<1>15. f[x] = Part(o, lo, hi) BY ONLY <1>7, <1>8, <1>13
<1>16. f[three] = Part(s, lo, hi) \o Part(o, lo, hi)
  BY ONLY <1>6, <1>11, <1>14, <1>15, S = <<[round |-> s.round, hashes |-> s.hashes]>> DEF LegacyReads
<1> QED BY ONLY <1>5, <1>16, s = p.slot, o = p.own

\* What is found of a proposal in the old layout, if no marker stands outside the records.
LEMMA LegacyRounds ==
    ASSUME NEW p, IsProposal(p), p.legacy, NEW anchor \in Nat,
           ~Contains(p.between, U32), Believed(p.slot), Believed(p.own),
           Near(anchor, p.slot.round) \/ ~Contains(p.slot.hashes, U32),
           Near(anchor, p.own.round) \/ ~Contains(p.own.hashes, U32)
    PROVE  OrderingRounds(ProposalBytes(p), anchor)
             = (IF Near(anchor, p.slot.round) THEN Found(p.slot.round, p.slot.hashes) ELSE <<>>)
               \o (IF Near(anchor, p.own.round) THEN Found(p.own.round, p.own.hashes) ELSE <<>>)
<1> PICK d : d = ProposalBytes(p) OBVIOUS
<1>1. CASE anchor = 0
  <2>1. ~Near(anchor, p.slot.round) /\ ~Near(anchor, p.own.round) BY <1>1 DEF Near
  <2>2. OrderingRounds(d, anchor) = <<>> BY <1>1 DEF OrderingRounds
  <2>3. <<>> \o <<>> = <<>> OBVIOUS
  <2> QED BY ONLY <2>1, <2>2, <2>3, d = ProposalBytes(p)
<1>2. CASE anchor # 0
  <2> PICK n, a, w : n = Extent(p.slot.hashes) /\ a = Extent(p.own.hashes) /\ w = Len(p.between) OBVIOUS
  <2>1. n \in Nat /\ a \in Nat /\ w \in Nat BY ProposalIs, RecordIs, ExtentIs
  <2> PICK u \in Nat : u = 7 + n + w BY ONLY <2>1
  <2>2. LegacyLayout(d, p, n, u, a)
    <3>1. LegacyLayout(ProposalBytes(p), p, n, u, a)
      BY ONLY <2>1, IsProposal(p), p.legacy, n = Extent(p.slot.hashes), a = Extent(p.own.hashes),
              w = Len(p.between), u \in Nat, u = 7 + n + w, LegacyLaidOut
    <3> QED BY ONLY <3>1, d = ProposalBytes(p)
  <2> PICK lo, hi : /\ lo = Max({0, anchor - ScanWindow})
                    /\ hi = Min({ByteValues - 1, anchor + ScanWindow})
    OBVIOUS
  <2>3. p.slot.round \in lo .. hi <=> Near(anchor, p.slot.round)
    <3>1. p.slot.round \in Bytes BY ProposalIs, RecordIs
    <3> QED BY ONLY <1>2, <3>1, anchor \in Nat, lo = Max({0, anchor - ScanWindow}),
                    hi = Min({ByteValues - 1, anchor + ScanWindow}), WindowIs
  <2>4. p.own.round \in lo .. hi <=> Near(anchor, p.own.round)
    <3>1. p.own.round \in Bytes BY ProposalIs, RecordIs
    <3> QED BY ONLY <1>2, <3>1, anchor \in Nat, lo = Max({0, anchor - ScanWindow}),
                    hi = Min({ByteValues - 1, anchor + ScanWindow}), WindowIs
  <2>5. OrderingRounds(d, anchor) = RoundsOf(FindBlockRecords(d, lo, hi))
    BY ONLY <1>2, lo = Max({0, anchor - ScanWindow}), hi = Min({ByteValues - 1, anchor + ScanWindow})
    DEF OrderingRounds, RoundsOf
  <2>6. FindBlockRecords(d, lo, hi) = Scanned(d, lo, hi)[1]
    <3>1. {s \in ParseSlot(d) : ~s.legacy} = {} BY ONLY <2>2, LegacyParse
    <3>2. FindBlockRecords(d, lo, hi) = ScanBlockRecords(d, lo, hi) BY ONLY <3>1 DEF FindBlockRecords
    <3>3. Len(d) # 0 BY ONLY <2>1, <2>2, u \in Nat DEF LegacyLayout
    <3> QED BY ONLY <3>2, <3>3, ScanIs
  <2>7. Scanned(d, lo, hi)[1] = Part(p.slot, lo, hi) \o Part(p.own, lo, hi)
    <3> PICK N \in Nat : N = Len(d) BY ONLY <2>2 DEF LegacyLayout, IsBytes
    <3> PICK f : f = Scanned(d, lo, hi) OBVIOUS
    <3>1. IsScan(d, lo, hi, f, 0) BY ONLY N \in Nat, N = Len(d), f = Scanned(d, lo, hi), ScanIsScan
    <3>2. /\ p.slot.round \in lo .. hi \/ ~Contains(p.slot.hashes, U32)
          /\ p.own.round \in lo .. hi \/ ~Contains(p.own.hashes, U32)
      BY <2>3, <2>4
    <3>3. f[1] = Part(p.slot, lo, hi) \o Part(p.own, lo, hi)
      BY ONLY <2>1, <2>2, <3>1, <3>2, IsProposal(p), p.legacy, n = Extent(p.slot.hashes), a = Extent(p.own.hashes),
              w = Len(p.between), u \in Nat, u = 7 + n + w, ~Contains(p.between, U32),
              Believed(p.slot), Believed(p.own), LegacyScan
    <3> QED BY ONLY <3>3, f = Scanned(d, lo, hi)
  <2> PICK h, g : /\ h = IF Near(anchor, p.slot.round) THEN p.slot.hashes ELSE <<>>
                  /\ g = IF Near(anchor, p.own.round) THEN p.own.hashes ELSE <<>>
    OBVIOUS
  <2> PICK r, q : r = p.slot.round /\ q = p.own.round OBVIOUS
  <2>8. Part(p.slot, lo, hi) = NonEmpty(r, h) /\ Part(p.own, lo, hi) = NonEmpty(q, g)
    BY ONLY <2>3, <2>4, r = p.slot.round, q = p.own.round,
            h = IF Near(anchor, p.slot.round) THEN p.slot.hashes ELSE <<>>,
            g = IF Near(anchor, p.own.round) THEN p.own.hashes ELSE <<>> DEF Part
  <2>9. /\ Found(r, h) = IF Near(anchor, p.slot.round) THEN Found(p.slot.round, p.slot.hashes) ELSE <<>>
        /\ Found(q, g) = IF Near(anchor, p.own.round) THEN Found(p.own.round, p.own.hashes) ELSE <<>>
    BY ONLY r = p.slot.round, q = p.own.round,
            h = IF Near(anchor, p.slot.round) THEN p.slot.hashes ELSE <<>>,
            g = IF Near(anchor, p.own.round) THEN p.own.hashes ELSE <<>> DEF Found
  <2>10. RoundsOf(NonEmpty(r, h) \o NonEmpty(q, g)) = Found(r, h) \o Found(q, g)
    <3>1. BothFound(r, h, q, g) BY ONLY RoundsFound
    <3> QED BY ONLY <3>1 DEF BothFound
  <2>11. OrderingRounds(d, anchor) = Found(r, h) \o Found(q, g) BY ONLY <2>5, <2>6, <2>7, <2>8, <2>10
  <2> QED BY ONLY <2>9, <2>11, d = ProposalBytes(p)
<1> QED BY ONLY <1>1, <1>2

\* The records a scan may find, and the rounds made of them.
FoundRecords == [round : Nat, hashes : Seq(Bytes) \ {<<>>}]
FoundRounds == Nat \X (Nat \ {0})

LEMMA FoundTyped ==
    ASSUME NEW d, IsBytes(d), NEW N \in Nat, N = Len(d), NEW lo, NEW hi,
           NEW p \in Nat, p + 2 <= N, NEW c \in Hit(d, lo, hi, p)
    PROVE  [round |-> d[p + 2], hashes |-> SubSeq(d, c.next + 1, c.next + c.value)] \in FoundRecords
<1>1. /\ c.next \in Nat /\ c.value \in Nat /\ 0 < c.value /\ c.next + c.value <= N
  BY ONLY N = Len(d), p \in Nat, c \in Hit(d, lo, hi, p), HitFacts
<1> PICK i, v \in Nat : i = c.next /\ v = c.value BY ONLY <1>1
<1>2. d[p + 2] \in Nat
  <2>1. p + 2 \in 1 .. Len(d) BY ONLY p + 2 <= N, N = Len(d), p \in Nat, N \in Nat
  <2>2. d[p + 2] \in Bytes BY ONLY <2>1, IsBytes(d) DEF IsBytes
  <2> QED BY <2>2, OrderingConstants
<1> PICK s : s = SubSeq(d, i + 1, i + v) OBVIOUS
<1>3. s \in Seq(Bytes) /\ s # <<>>
  <2>1. s = [k \in 1 .. ((i + v) - (i + 1)) + 1 |-> d[(i + 1) + k - 1]]
    BY ONLY s = SubSeq(d, i + 1, i + v)
  <2>2. ((i + v) - (i + 1)) + 1 = v /\ \A k \in 1 .. v : (i + 1) + k - 1 = i + k /\ i + k \in 1 .. Len(d)
    <3>1. i + v <= N BY ONLY <1>1, i = c.next, v = c.value
    <3> QED BY ONLY <3>1, i \in Nat, v \in Nat, N = Len(d), N \in Nat
  <2>3. s = [k \in 1 .. v |-> d[i + k]] BY ONLY <2>1, <2>2
  <2>4. \A k \in 1 .. v : d[i + k] \in Bytes BY ONLY <2>2, IsBytes(d) DEF IsBytes
  <2>5. s \in Seq(Bytes) /\ Len(s) = v BY ONLY <2>3, <2>4, v \in Nat
  <2>6. Len(s) # 0 BY ONLY <1>1, <2>5, v = c.value, v \in Nat
  <2>7. s # <<>> BY ONLY <2>6
  <2> QED BY ONLY <2>5, <2>7
<1> QED BY ONLY <1>2, <1>3, i = c.next, v = c.value, s = SubSeq(d, i + 1, i + v) DEF FoundRecords

LEMMA ScanTyped ==
    ASSUME NEW d, IsBytes(d), NEW N \in Nat, N = Len(d), NEW lo, NEW hi,
           NEW f, IsScan(d, lo, hi, f, 0), NEW at \in Nat, at <= N
    PROVE  f[at] \in Seq(FoundRecords)
<1> DEFINE Bad == {k \in Nat : k <= N /\ f[N - k] \notin Seq(FoundRecords)}
<1> SUFFICES ASSUME Bad # {} PROVE FALSE
  <2> PICK k \in Nat : k = N - at BY ONLY at \in Nat, N \in Nat, at <= N
  <2>1. k \notin Bad BY ONLY Bad = {}
  <2>2. k <= N /\ N - k = at BY ONLY k = N - at, at \in Nat, N \in Nat
  <2> QED BY ONLY <2>1, <2>2, k \in Nat
<1>1. Bad \subseteq Nat OBVIOUS
<1>2. PICK k \in Bad : \A u \in Bad : k <= u
  <2> HIDE DEF Bad
  <2> QED BY ONLY <1>1, Bad # {}, LeastNumber
<1>3. k \in Nat /\ k <= N /\ f[N - k] \notin Seq(FoundRecords) BY ONLY <1>2
<1> PICK p \in Nat : p = N - k BY ONLY <1>3, N \in Nat
<1>4. ASSUME NEW q \in Nat, p < q, q <= N PROVE f[q] \in Seq(FoundRecords)
  <2> PICK j \in Nat : j = N - q BY ONLY <1>4, N \in Nat
  <2>1. ~(k <= j) /\ j <= N /\ N - j = q
    BY ONLY <1>3, <1>4, p = N - k, j = N - q, N \in Nat, p \in Nat
  <2>2. j \notin Bad
    <3> HIDE DEF Bad
    <3> QED BY ONLY <1>2, <2>1
  <2> QED BY ONLY <2>1, <2>2, j \in Nat
<1> HIDE DEF Bad
<1>5. f[p] = FoundFrom(d, lo, hi, f, p)
  <2>1. 0 <= p /\ p <= Len(d) BY ONLY <1>3, p = N - k, p \in Nat, N \in Nat, N = Len(d)
  <2> QED BY ONLY <2>1, p \in Nat, IsScan(d, lo, hi, f, 0) DEF IsScan
<1>6. CASE p + 2 > Len(d)
  <2>1. f[p] = <<>> BY ONLY <1>5, <1>6 DEF FoundFrom
  <2>2. <<>> \in Seq(FoundRecords) OBVIOUS
  <2> QED BY ONLY <1>3, <2>1, <2>2, p = N - k
<1>7. CASE ~(p + 2 > Len(d)) /\ Hit(d, lo, hi, p) = {}
  <2>1. f[p] = f[p + 1] BY ONLY <1>5, <1>7 DEF FoundFrom
  <2>2. p + 1 \in Nat /\ p < p + 1 /\ p + 1 <= N BY ONLY <1>7, N = Len(d), N \in Nat, p \in Nat
  <2>3. f[p + 1] \in Seq(FoundRecords) BY ONLY <1>4, <2>2
  <2> QED BY ONLY <1>3, <2>1, <2>3, p = N - k
<1>8. CASE ~(p + 2 > Len(d)) /\ Hit(d, lo, hi, p) # {}
  <2> PICK c : c = CHOOSE x \in Hit(d, lo, hi, p) : TRUE OBVIOUS
  <2>1. c \in Hit(d, lo, hi, p) BY ONLY <1>8, c = CHOOSE x \in Hit(d, lo, hi, p) : TRUE
  <2>2. /\ c.next \in Nat /\ p + 3 <= c.next /\ c.value \in Nat /\ c.next + c.value <= Len(d)
    BY ONLY <2>1, p \in Nat, HitFacts
  <2>3. c.next + c.value \in Nat /\ p < c.next + c.value /\ c.next + c.value <= N /\ p + 2 <= N
    BY ONLY <2>2, p \in Nat, N \in Nat, N = Len(d)
  <2> PICK x : x = f[c.next + c.value] OBVIOUS
  <2>4. x \in Seq(FoundRecords) BY ONLY <1>4, <2>3, x = f[c.next + c.value]
  <2> PICK e : e = [round |-> d[p + 2], hashes |-> SubSeq(d, c.next + 1, c.next + c.value)] OBVIOUS
  <2>5. e \in FoundRecords
    <3>1. [round |-> d[p + 2], hashes |-> SubSeq(d, c.next + 1, c.next + c.value)] \in FoundRecords
      BY ONLY <2>1, <2>3, IsBytes(d), N \in Nat, N = Len(d), p \in Nat, FoundTyped
    <3> QED BY ONLY <3>1, e = [round |-> d[p + 2], hashes |-> SubSeq(d, c.next + 1, c.next + c.value)]
  <2>6. f[p] = <<e>> \o x
    BY ONLY <1>5, <1>8, c = CHOOSE z \in Hit(d, lo, hi, p) : TRUE, x = f[c.next + c.value],
            e = [round |-> d[p + 2], hashes |-> SubSeq(d, c.next + 1, c.next + c.value)] DEF FoundFrom
  <2>7. <<e>> \in Seq(FoundRecords) BY ONLY <2>5
  <2>8. <<e>> \o x \in Seq(FoundRecords) BY ONLY <2>4, <2>7
  <2> QED BY ONLY <1>3, <2>6, <2>8, p = N - k
<1> QED BY ONLY <1>6, <1>7, <1>8

LEMMA RoundsTyped ==
    ASSUME NEW s \in Seq(FoundRecords)
    PROVE  \A i \in DOMAIN RoundsOf(s) : RoundsOf(s)[i] \in FoundRounds
<1> SUFFICES ASSUME NEW i \in DOMAIN RoundsOf(s) PROVE RoundsOf(s)[i] \in FoundRounds OBVIOUS
<1>1. i \in DOMAIN s /\ RoundsOf(s)[i] = <<s[i].round, Len(s[i].hashes)>> BY DEF RoundsOf
<1>2. s[i] \in FoundRecords BY ONLY <1>1, s \in Seq(FoundRecords)
<1> PICK h, r : h = s[i].hashes /\ r = s[i].round OBVIOUS
<1>3. h \in Seq(Bytes) /\ h # <<>> /\ r \in Nat BY ONLY <1>2, h = s[i].hashes, r = s[i].round DEF FoundRecords
<1>4. Len(h) \in Nat \ {0} BY ONLY <1>3
<1> QED BY ONLY <1>1, <1>3, <1>4, h = s[i].hashes, r = s[i].round DEF FoundRounds

LEMMA FoundIsTyped ==
    ASSUME NEW r \in Nat, NEW h, IsBytes(h)
    PROVE  Found(r, h) \in Seq(FoundRounds)
<1>1. CASE h = <<>> BY <1>1 DEF Found
<1>2. CASE h # <<>>
  <2>1. Len(h) \in Nat \ {0} BY ONLY <1>2, IsBytes(h) DEF IsBytes
  <2>2. <<r, Len(h)>> \in FoundRounds BY ONLY <2>1, r \in Nat DEF FoundRounds
  <2> PICK x : x = <<r, Len(h)>> OBVIOUS
  <2>3. <<x>> \in Seq(FoundRounds) BY ONLY <2>2, x = <<r, Len(h)>>
  <2> QED BY ONLY <1>2, <2>3, x = <<r, Len(h)>> DEF Found
<1> QED BY ONLY <1>1, <1>2

LEMMA OrderingRoundsTyped ==
    ASSUME NEW p, IsProposal(p), NEW anchor \in Nat
    PROVE  \A i \in DOMAIN OrderingRounds(ProposalBytes(p), anchor) :
             OrderingRounds(ProposalBytes(p), anchor)[i] \in FoundRounds
<1> PICK d, O : d = ProposalBytes(p) /\ O = OrderingRounds(d, anchor) OBVIOUS
<1> SUFFICES \A i \in DOMAIN O : O[i] \in FoundRounds OBVIOUS
<1>0. \A s \in Seq(FoundRounds) : \A i \in DOMAIN s : s[i] \in FoundRounds OBVIOUS
<1>1. CASE anchor = 0
  <2>1. O = <<>> BY ONLY <1>1, O = OrderingRounds(d, anchor) DEF OrderingRounds
  <2>2. <<>> \in Seq(FoundRounds) OBVIOUS
  <2> QED BY ONLY <1>0, <2>1, <2>2
<1>2. CASE anchor # 0 /\ ~p.legacy
  <2> PICK f : f = Found(p.slot.round, p.slot.hashes) OBVIOUS
  <2> PICK r : r = p.own.round OBVIOUS
  <2>1. p.slot.round \in Nat /\ IsBytes(p.slot.hashes) /\ r \in Nat
    BY ProposalIs, RecordIs, OrderingConstants
  <2>2. f \in Seq(FoundRounds) BY ONLY <2>1, f = Found(p.slot.round, p.slot.hashes), FoundIsTyped
  <2>3. ASSUME NEW h, IsBytes(h), O = f \o Found(r, h) PROVE O \in Seq(FoundRounds)
    <3> PICK g : g = Found(r, h) OBVIOUS
    <3>1. g \in Seq(FoundRounds) BY ONLY <2>1, <2>3, g = Found(r, h), FoundIsTyped
    <3>2. f \o g \in Seq(FoundRounds) BY ONLY <2>2, <3>1
    <3> QED BY ONLY <2>3, <3>2, g = Found(r, h)
  <2>4. <<>> \in Seq(FoundRounds) OBVIOUS
  <2>5. O = <<>> \/ O = f \/ \E h : IsBytes(h) /\ O = f \o Found(r, h)
    <3>1. O = <<>> \/ TailedFinds(p, O)
      BY ONLY <1>2, IsProposal(p), anchor \in Nat, d = ProposalBytes(p), O = OrderingRounds(d, anchor),
              TailedRounds
    <3> QED BY ONLY <3>1, f = Found(p.slot.round, p.slot.hashes), r = p.own.round DEF TailedFinds
  <2> QED BY ONLY <1>0, <2>2, <2>3, <2>4, <2>5
<1>3. CASE anchor # 0 /\ p.legacy
  <2> PICK n, a, w : n = Extent(p.slot.hashes) /\ a = Extent(p.own.hashes) /\ w = Len(p.between) OBVIOUS
  <2>1. n \in Nat /\ a \in Nat /\ w \in Nat BY ProposalIs, RecordIs, ExtentIs
  <2> PICK u \in Nat : u = 7 + n + w BY ONLY <2>1
  <2>2. LegacyLayout(d, p, n, u, a)
    <3>1. LegacyLayout(ProposalBytes(p), p, n, u, a)
      BY ONLY <1>3, <2>1, IsProposal(p), n = Extent(p.slot.hashes), a = Extent(p.own.hashes),
              w = Len(p.between), u \in Nat, u = 7 + n + w, LegacyLaidOut
    <3> QED BY ONLY <3>1, d = ProposalBytes(p)
  <2> PICK lo, hi : /\ lo = Max({0, anchor - ScanWindow})
                    /\ hi = Min({ByteValues - 1, anchor + ScanWindow})
    OBVIOUS
  <2>3. O = RoundsOf(FindBlockRecords(d, lo, hi))
    BY ONLY <1>3, O = OrderingRounds(d, anchor), lo = Max({0, anchor - ScanWindow}),
            hi = Min({ByteValues - 1, anchor + ScanWindow})
    DEF OrderingRounds, RoundsOf
  <2>4. FindBlockRecords(d, lo, hi) = Scanned(d, lo, hi)[1]
    <3>1. {s \in ParseSlot(d) : ~s.legacy} = {} BY ONLY <2>2, LegacyParse
    <3>2. FindBlockRecords(d, lo, hi) = ScanBlockRecords(d, lo, hi) BY ONLY <3>1 DEF FindBlockRecords
    <3>3. Len(d) # 0 BY ONLY <2>1, <2>2, u \in Nat DEF LegacyLayout
    <3> QED BY ONLY <3>2, <3>3, ScanIs
  <2>5. Scanned(d, lo, hi)[1] \in Seq(FoundRecords)
    <3> PICK N \in Nat : N = Len(d) BY ONLY <2>2 DEF LegacyLayout, IsBytes
    <3> PICK f : f = Scanned(d, lo, hi) OBVIOUS
    <3> PICK one \in Nat : one = 1 OBVIOUS
    <3>1. IsScan(d, lo, hi, f, 0) BY ONLY N \in Nat, N = Len(d), f = Scanned(d, lo, hi), ScanIsScan
    <3>2. IsBytes(d) /\ one <= N
      BY ONLY <2>1, <2>2, u \in Nat, one = 1, N = Len(d), N \in Nat DEF LegacyLayout
    <3>3. f[one] \in Seq(FoundRecords) BY ONLY <3>1, <3>2, N \in Nat, N = Len(d), one \in Nat, ScanTyped
    <3> QED BY ONLY <3>3, one = 1, f = Scanned(d, lo, hi)
  <2> QED BY ONLY <2>3, <2>4, <2>5, RoundsTyped
<1> QED BY ONLY <1>1, <1>2, <1>3
-----------------------------------------------------------------------------
\* What was found is what ordering_rounds makes of the proposal received, a proposal of the node.
OrderingInv ==
    \/ proposal = <<>> /\ recordsFound = <<>>
    \/ \E p \in Proposals, a \in Anchors :
        proposal = <<p, a>> /\ recordsFound = OrderingRounds(ProposalBytes(p), a)

LEMMA OrderingInvariant == OrderingSpec => []OrderingInv
<1>1. OrderingInit => OrderingInv BY DEF OrderingInit, OrderingInv
<1>2. OrderingInv /\ [OrderingNext]_orderingVars => OrderingInv'
  <2> SUFFICES ASSUME OrderingInv, [OrderingNext]_orderingVars PROVE OrderingInv' OBVIOUS
  <2>1. CASE Receive BY <2>1 DEF Receive, OrderingInv
  <2>2. CASE NextProposal BY <2>2 DEF NextProposal, OrderingInv
  <2>3. CASE UNCHANGED orderingVars BY <2>3 DEF OrderingInv, orderingVars
  <2> QED BY <2>1, <2>2, <2>3 DEF OrderingNext
<1> QED BY <1>1, <1>2, PTL DEF OrderingSpec

\* The rounds handed to the ordering join are rounds with bundles: a record without any is none
\* (NonEmpty, tailed_records), and the marker scan takes none with a count of zero.
THEOREM OrderingTypes == OrderingSpec => []OrderingTypeOK
<1>1. OrderingInv => OrderingTypeOK
  <2> SUFFICES ASSUME OrderingInv PROVE OrderingTypeOK OBVIOUS
  <2>1. CASE proposal = <<>> /\ recordsFound = <<>> BY <2>1 DEF OrderingTypeOK
  <2>2. ASSUME NEW p \in Proposals, NEW a \in Anchors, recordsFound = OrderingRounds(ProposalBytes(p), a)
        PROVE  OrderingTypeOK
    <3>1. IsProposal(p) BY ProposalsAssumption
    <3>2. a \in Nat BY OrderingConstants
    <3> QED BY ONLY <2>2, <3>1, <3>2, OrderingRoundsTyped DEF OrderingTypeOK, FoundRounds
  <2> QED BY <2>1, <2>2 DEF OrderingInv
<1> QED BY <1>1, OrderingInvariant, PTL

LEMMA ExactOf ==
    ASSUME NEW p, IsProposal(p), NEW a \in Nat, proposal = <<p, a>>,
           recordsFound = OrderingRounds(ProposalBytes(p), a)
    PROVE  OrderingExact
<1> PICK f, g : f = Found(p.slot.round, p.slot.hashes) /\ g = Found(p.own.round, p.own.hashes) OBVIOUS
<1> DEFINE near(r) == proposal[2] # 0 /\ r \in proposal[2] - ScanWindow .. proposal[2] + ScanWindow
           found(r) == IF r.hashes = <<>> THEN <<>> ELSE <<<<r.round, Len(r.hashes)>>>>
           parentOf(q) == IF near(q.slot.round) THEN found(q.slot) ELSE <<>>
           ownOf(q) == IF near(IF q.legacy THEN q.own.round ELSE q.slot.round)
                          /\ (q.legacy \/ Locatable(q.own))
                       THEN found(q.own) ELSE <<>>
           quietOf(q) == /\ ~Contains(q.between, U32)
                         /\ \A r \in {q.slot, q.own} :
                              /\ r.round # U32 /\ Len(r.hashes) <= ScanMax
                              /\ near(r.round) \/ ~Contains(r.hashes, U32)
           Exact(q) ==
              /\ ~q.legacy /\ Locatable(q.own) => recordsFound \in {parentOf(q), parentOf(q) \o ownOf(q)}
              /\ ~q.legacy =>
                   \/ recordsFound = parentOf(q)
                   \/ near(q.slot.round)
                      /\ \E c \in Bytes : recordsFound = parentOf(q) \o <<<<q.own.round, c>>>>
              /\ (~q.decoy /\ (q.legacy => quietOf(q))) => recordsFound = parentOf(q) \o ownOf(q)
           parent == parentOf(p)
           own == ownOf(p)
           quiet == quietOf(p)
<1>1. proposal[1] = p /\ proposal[2] = a /\ proposal # <<>> OBVIOUS
<1>2. \A r : near(r) <=> Near(a, r) BY ONLY <1>1 DEF Near
<1>3. found(p.slot) = f /\ found(p.own) = g
  BY ONLY f = Found(p.slot.round, p.slot.hashes), g = Found(p.own.round, p.own.hashes) DEF Found
<1>4. Exact(p) => OrderingExact
  <2>1. Exact(proposal[1]) => OrderingExact BY ONLY Zenon DEF OrderingExact
  <2> HIDE DEF Exact
  <2> QED BY ONLY <1>1, <2>1
<1> SUFFICES /\ ~p.legacy /\ Locatable(p.own) => recordsFound \in {parent, parent \o own}
             /\ ~p.legacy =>
                  \/ recordsFound = parent
                  \/ near(p.slot.round)
                     /\ \E c \in Bytes : recordsFound = parent \o <<<<p.own.round, c>>>>
             /\ (~p.decoy /\ (p.legacy => quiet)) => recordsFound = parent \o own
  BY <1>4
<1> HIDE DEF near, found
<1> PICK O : O = recordsFound OBVIOUS
<1>5. CASE ~p.legacy
  <2>1. /\ parent = IF Near(a, p.slot.round) THEN f ELSE <<>>
        /\ own = IF Near(a, p.slot.round) /\ Locatable(p.own) THEN g ELSE <<>>
    BY ONLY <1>2, <1>3, <1>5
  <2>2. <<>> \o <<>> = <<>> /\ f \o <<>> = f
    <3>1. \A x : <<x>> \o <<>> = <<x>> OBVIOUS
    <3>2. <<>> \o <<>> = <<>> OBVIOUS
    <3> QED BY ONLY <3>1, <3>2, f = Found(p.slot.round, p.slot.hashes) DEF Found
  <2>3. /\ Near(a, p.slot.round) => TailedFinds(p, O)
        /\ ~Near(a, p.slot.round) => O = <<>>
    BY ONLY <1>5, IsProposal(p), a \in Nat, recordsFound = OrderingRounds(ProposalBytes(p), a),
            O = recordsFound, TailedRounds
  <2> HIDE DEF parent, own
  <2>4. CASE ~Near(a, p.slot.round)
    <3>1. O = parent /\ parent \o own = parent BY ONLY <2>1, <2>2, <2>3, <2>4
    <3> QED BY ONLY <1>5, <3>1, O = recordsFound
  <2>5. CASE Near(a, p.slot.round)
    <3>1. TailedFinds(p, O) /\ parent = f BY ONLY <2>1, <2>3, <2>5
    <3>2. /\ Locatable(p.own) => O = f \/ O = f \o g
          /\ ~p.decoy => O = IF Locatable(p.own) THEN f \o g ELSE f
      BY ONLY <3>1, f = Found(p.slot.round, p.slot.hashes), g = Found(p.own.round, p.own.hashes)
      DEF TailedFinds
    <3>3. O = f \/ \E h : IsBytes(h) /\ Len(h) \in Bytes /\ O = f \o Found(p.own.round, h)
      BY ONLY <3>1, f = Found(p.slot.round, p.slot.hashes) DEF TailedFinds
    <3>4. O = f \/ \E c \in Bytes : O = f \o <<<<p.own.round, c>>>>
      <4>1. ASSUME NEW h, Len(h) \in Bytes, O = f \o Found(p.own.round, h)
            PROVE  O = f \/ \E c \in Bytes : O = f \o <<<<p.own.round, c>>>>
        <5>1. CASE h = <<>> BY ONLY <2>2, <4>1, <5>1 DEF Found
        <5>2. CASE h # <<>> BY ONLY <4>1, <5>2 DEF Found
        <5> QED BY ONLY <5>1, <5>2
      <4> QED BY ONLY <3>3, <4>1
    <3>5. Locatable(p.own) => O \in {parent, parent \o own} BY ONLY <2>1, <2>5, <3>2
    <3>6. \/ O = parent
          \/ near(p.slot.round) /\ \E c \in Bytes : O = parent \o <<<<p.own.round, c>>>>
      <4>1. near(p.slot.round) BY ONLY <1>2, <2>5
      <4> QED BY ONLY <3>1, <3>4, <4>1
    <3>7. ~p.decoy => O = parent \o own BY ONLY <2>1, <2>2, <2>5, <3>2
    <3> QED BY ONLY <1>5, <3>5, <3>6, <3>7, O = recordsFound
  <2> QED BY ONLY <2>4, <2>5
<1>6. CASE p.legacy
  <2>1. /\ parent = IF Near(a, p.slot.round) THEN f ELSE <<>>
        /\ own = IF Near(a, p.own.round) THEN g ELSE <<>>
    BY ONLY <1>2, <1>3, <1>6
  <2>2. ASSUME quiet PROVE recordsFound = parent \o own
    <3>1. /\ ~Contains(p.between, U32)
          /\ Near(a, p.slot.round) \/ ~Contains(p.slot.hashes, U32)
          /\ Near(a, p.own.round) \/ ~Contains(p.own.hashes, U32)
      BY ONLY <1>2, <2>2
    <3>2. Believed(p.slot) /\ Believed(p.own) BY ONLY <2>2 DEF Believed
    <3>3. OrderingRounds(ProposalBytes(p), a)
             = (IF Near(a, p.slot.round) THEN Found(p.slot.round, p.slot.hashes) ELSE <<>>)
               \o (IF Near(a, p.own.round) THEN Found(p.own.round, p.own.hashes) ELSE <<>>)
      BY ONLY <1>6, <3>1, <3>2, IsProposal(p), a \in Nat, LegacyRounds
    <3> HIDE DEF parent, own, quiet
    <3> QED BY ONLY <2>1, <3>3, recordsFound = OrderingRounds(ProposalBytes(p), a),
            f = Found(p.slot.round, p.slot.hashes), g = Found(p.own.round, p.own.hashes)
  <2> HIDE DEF parent, own, quiet
  <2> QED BY ONLY <1>6, <2>2
<1> HIDE DEF parent, own, quiet
<1> QED BY ONLY <1>5, <1>6

\* What is found of a proposal is what the node wrote: the record of its slot and, unless
\* something in it is just like a record, its own; in the old layout both, if no marker stands
\* outside the records the scan believes (tailed_records, parse_tail, scan_block_records).  An
\* own record whose count takes more than a byte has no place to be found at: then what is found
\* behind the slot's record is nothing, or one other place that reads like an own record.
THEOREM OrderingIsExact == OrderingSpec => []OrderingExact
<1>1. OrderingInv => OrderingExact
  <2> SUFFICES ASSUME OrderingInv PROVE OrderingExact OBVIOUS
  <2>1. CASE proposal = <<>> /\ recordsFound = <<>> BY <2>1 DEF OrderingExact
  <2>2. ASSUME NEW p \in Proposals, NEW a \in Anchors, proposal = <<p, a>>,
               recordsFound = OrderingRounds(ProposalBytes(p), a)
        PROVE  OrderingExact
    <3>1. IsProposal(p) BY ProposalsAssumption
    <3>2. a \in Nat BY OrderingConstants
    <3> QED BY ONLY <2>2, <3>1, <3>2, ExactOf
  <2> QED BY <2>1, <2>2 DEF OrderingInv
<1> QED BY <1>1, OrderingInvariant, PTL
=============================================================================
