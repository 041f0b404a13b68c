------------------------------- MODULE Totals -------------------------------
(***************************************************************************)
(* What the sum over a finite set is, for the proofs: MapThenSumSet of the *)
(* community modules is a recursive function that takes the elements in an *)
(* order CHOOSE fixes.  The lemmas say what the models mean by it: the     *)
(* order does not matter, an element adds its own weight, a larger set     *)
(* weighs no less.  The library's induction on finite sets takes an        *)
(* operator as a parameter, so each lemma is proved by a smallest          *)
(* counterexample instead.                                                 *)
(***************************************************************************)
EXTENDS Integers, FiniteSetsExt, FiniteSetTheorems, WellFoundedInduction, TLAPS

\* The element the fold takes first.
Pick(S) == CHOOSE x \in S : TRUE

\* g sums the weights f over every subset of D, taking the first element first.
IsTally(f, D, g) ==
    g = [s \in SUBSET D |-> IF s = {} THEN 0 ELSE f[Pick(s)] + g[s \ {Pick(s)}]]

\* MapThenSumSet(LAMBDA x : f[x], S), as its definition unfolds.
Total(f, S) == (CHOOSE g : IsTally(f, S, g))[S]

(* A set of natural numbers that is not empty has a least element. *)
LEMMA LeastNumber ==
    ASSUME NEW P, P \subseteq Nat, P # {}
    PROVE  \E m \in P : \A u \in P : m <= u
<1> DEFINE Less == OpToRel(<, Nat)
<1>1. IsWellFoundedOn(Less, Nat) BY NatLessThanWellFounded, Zenon
<1> HIDE DEF Less
<1>2. PICK m \in P : \A u \in P : <<u, m>> \notin Less BY <1>1, WFMin, Zenon
<1>3. \A u \in P : ~(u < m)
  <2> TAKE u \in P
  <2>1. u \in Nat /\ m \in Nat OBVIOUS
  <2>2. u < m => <<u, m>> \in Less BY <2>1, Zenon DEF Less, OpToRel
  <2> QED BY <2>2, <1>2
<1> QED BY <1>3

(* A set of natural numbers within a bound that is not empty has a maximum. *)
LEMMA MaxOfBounded ==
    ASSUME NEW n \in Nat, NEW S \in SUBSET (0 .. n), S # {}
    PROVE  Max(S) \in S /\ \A x \in S : x <= Max(S)
<1> DEFINE U == {u \in Nat : \A x \in S : x <= u}
<1>1. U \subseteq Nat /\ n \in U OBVIOUS
<1>2. PICK m \in U : \A u \in U : m <= u
  <2> HIDE DEF U
  <2> QED BY <1>1, LeastNumber
<1>3. m \in Nat /\ \A x \in S : x \in Nat /\ x <= m OBVIOUS
<1>4. m \in S
  <2> SUFFICES ASSUME m \notin S PROVE FALSE OBVIOUS
  <2>1. PICK x \in S : TRUE OBVIOUS
  <2>2. m - 1 \in Nat BY <1>3, <2>1
  <2>3. \A y \in S : y <= m - 1 BY <1>3
  <2> QED BY <2>2, <2>3, <1>2, <1>3
<1>5. \E x \in S : \A y \in S : x >= y BY <1>3, <1>4
<1>6. Max(S) \in S /\ \A y \in S : Max(S) >= y BY <1>5 DEF Max
<1> QED BY <1>3, <1>6

(* Among finite sets there is one of least size. *)
LEMMA LeastSize ==
    ASSUME NEW P, P # {}, \A T \in P : IsFiniteSet(T)
    PROVE  \E T \in P : \A U \in P : ~(Cardinality(U) < Cardinality(T))
<1> DEFINE Sizes == {Cardinality(T) : T \in P}
<1>1. \A T \in P : Cardinality(T) \in Nat BY FS_CardinalityType
<1>2. Sizes \subseteq Nat /\ Sizes # {} BY <1>1
<1>3. PICK m \in Sizes : \A u \in Sizes : m <= u
  <2> HIDE DEF Sizes
  <2> QED BY <1>2, LeastNumber
<1>4. PICK T \in P : m = Cardinality(T) OBVIOUS
<1> QED BY <1>1, <1>3, <1>4

(* Taking an element out of a finite set leaves a smaller finite one. *)
LEMMA TakeOut ==
    ASSUME NEW S, IsFiniteSet(S), NEW x \in S
    PROVE  IsFiniteSet(S \ {x}) /\ Cardinality(S \ {x}) < Cardinality(S)
<1>1. IsFiniteSet(S \ {x}) /\ Cardinality(S \ {x}) = Cardinality(S) - 1
  BY FS_RemoveElement
<1>2. Cardinality(S) \in Nat BY FS_CardinalityType
<1> QED BY <1>1, <1>2

(* What is picked from a set that is not empty is in it. *)
LEMMA PickIn == \A S : S # {} => Pick(S) \in S
<1> QED BY DEF Pick

(* Two tallies agree on the sets they both cover. *)
LEMMA TalliesAgree ==
    ASSUME NEW f, NEW A, NEW B, NEW g, NEW h, IsTally(f, A, g), IsTally(f, B, h),
           NEW T, IsFiniteSet(T), T \subseteq A, T \subseteq B
    PROVE  g[T] = h[T]
<1> DEFINE Bad == {U \in SUBSET T : g[U] # h[U]}
<1> SUFFICES ASSUME Bad # {} PROVE FALSE OBVIOUS
<1>1. \A U \in Bad : IsFiniteSet(U) BY FS_Subset
<1>2. PICK U \in Bad : \A V \in Bad : ~(Cardinality(V) < Cardinality(U))
  <2> HIDE DEF Bad
  <2> QED BY <1>1, LeastSize
<1>3. U \in SUBSET A /\ U \in SUBSET B OBVIOUS
<1>4. /\ g[U] = IF U = {} THEN 0 ELSE f[Pick(U)] + g[U \ {Pick(U)}]
      /\ h[U] = IF U = {} THEN 0 ELSE f[Pick(U)] + h[U \ {Pick(U)}]
  <2> HIDE DEF Bad
  <2> QED BY <1>3 DEF IsTally
<1>5. U # {} BY <1>4
<1>6. Pick(U) \in U BY <1>5, PickIn
<1>7. Cardinality(U \ {Pick(U)}) < Cardinality(U) BY <1>1, <1>6, TakeOut
<1>8. U \ {Pick(U)} \notin Bad BY <1>2, <1>7
<1>9. g[U \ {Pick(U)}] = h[U \ {Pick(U)}] BY <1>8
<1> QED BY <1>4, <1>9

(* A tally of a set is one of its subsets. *)
LEMMA TallyOfSubset ==
    ASSUME NEW f, NEW A, NEW g, IsTally(f, A, g), NEW B, B \subseteq A
    PROVE  IsTally(f, B, [s \in SUBSET B |-> g[s]])
<1> DEFINE h == [s \in SUBSET B |-> g[s]]
<1>1. ASSUME NEW s \in SUBSET B
      PROVE  h[s] = IF s = {} THEN 0 ELSE f[Pick(s)] + h[s \ {Pick(s)}]
  <2>1. s \in SUBSET A /\ s \ {Pick(s)} \in SUBSET B OBVIOUS
  <2>2. g[s] = IF s = {} THEN 0 ELSE f[Pick(s)] + g[s \ {Pick(s)}]
    BY <2>1 DEF IsTally
  <2> QED BY <2>1, <2>2
<1>2. h = [s \in SUBSET B |-> h[s]] OBVIOUS
<1> HIDE DEF h
<1>3. h = [s \in SUBSET B |-> IF s = {} THEN 0 ELSE f[Pick(s)] + h[s \ {Pick(s)}]]
  BY <1>1, <1>2
<1> QED BY <1>3 DEF IsTally, h

(* If a set has a tally, its total is what any tally that covers it says. *)
LEMMA TotalIsTally ==
    ASSUME NEW f, NEW A, NEW g, IsTally(f, A, g), NEW T, IsFiniteSet(T), T \subseteq A
    PROVE  Total(f, T) = g[T]
<1>1. \E h : IsTally(f, T, h) BY TallyOfSubset
<1> DEFINE h == CHOOSE h : IsTally(f, T, h)
<1>2. IsTally(f, T, h) BY <1>1, Zenon
<1>3. Total(f, T) = h[T] BY DEF Total
<1> HIDE DEF h
<1> QED BY <1>2, <1>3, TalliesAgree

(* Every finite set has a tally. *)
LEMMA TallyExists ==
    ASSUME NEW f, NEW S, IsFiniteSet(S)
    PROVE  \E g : IsTally(f, S, g)
<1> DEFINE Bad == {U \in SUBSET S : ~\E g : IsTally(f, U, g)}
<1> SUFFICES ASSUME Bad # {} PROVE FALSE OBVIOUS
<1>1. \A U \in SUBSET S : IsFiniteSet(U) BY FS_Subset
<1>2. PICK T \in Bad : \A V \in Bad : ~(Cardinality(V) < Cardinality(T))
  <2>1. \A U \in Bad : IsFiniteSet(U) BY <1>1
  <2> HIDE DEF Bad
  <2> QED BY <2>1, LeastSize
<1> DEFINE g == [s \in SUBSET T |->
                   IF s = {} THEN 0 ELSE f[Pick(s)] + Total(f, s \ {Pick(s)})]
\* A subset with an element less has a tally, and so its total unfolds.
<1>3. ASSUME NEW s \in SUBSET T, s # {}
      PROVE  Total(f, s \ {Pick(s)}) = g[s \ {Pick(s)}]
  <2> DEFINE U == s \ {Pick(s)}
  <2>1. Pick(s) \in s BY <1>3, PickIn
  <2>2. IsFiniteSet(s) /\ IsFiniteSet(T) /\ IsFiniteSet(U) BY <1>1
  <2>3. Cardinality(U) < Cardinality(s) BY <2>1, <2>2, TakeOut
  <2>4. Cardinality(s) <= Cardinality(T) BY <2>2, FS_Subset
  <2>5. Cardinality(U) < Cardinality(T)
    <3>1. Cardinality(U) \in Nat /\ Cardinality(s) \in Nat /\ Cardinality(T) \in Nat
      BY <2>2, FS_CardinalityType
    <3> QED BY <2>3, <2>4, <3>1
  <2>6. U \notin Bad /\ U \in SUBSET S /\ U \in SUBSET T BY <2>5, <1>2
  <2>7. PICK k : IsTally(f, U, k) BY <2>6
  <2>8. U \in SUBSET U /\ k[U] = IF U = {} THEN 0 ELSE f[Pick(U)] + k[U \ {Pick(U)}]
    <3> HIDE DEF U
    <3> QED BY <2>7 DEF IsTally
  <2>9. Total(f, U) = k[U]
    <3> HIDE DEF U
    <3> QED BY <2>2, <2>7, TotalIsTally
  <2>10. U # {} => Total(f, U \ {Pick(U)}) = k[U \ {Pick(U)}]
    <3>1. IsFiniteSet(U \ {Pick(U)}) BY <2>2, FS_Subset
    <3> HIDE DEF U
    <3> QED BY <2>7, <3>1, TotalIsTally
  <2>11. g[U] = IF U = {} THEN 0 ELSE f[Pick(U)] + Total(f, U \ {Pick(U)})
    <3> HIDE DEF U
    <3> QED BY <2>6
  <2> HIDE DEF U, g
  <2>12. Total(f, U) = g[U] BY <2>8, <2>9, <2>10, <2>11
  <2> QED BY <2>12 DEF U
<1>4. ASSUME NEW s \in SUBSET T
      PROVE  g[s] = IF s = {} THEN 0 ELSE f[Pick(s)] + g[s \ {Pick(s)}]
  <2>1. g[s] = IF s = {} THEN 0 ELSE f[Pick(s)] + Total(f, s \ {Pick(s)}) OBVIOUS
  <2> HIDE DEF g
  <2> QED BY <2>1, <1>3
<1>5. g = [s \in SUBSET T |-> g[s]] OBVIOUS
<1> HIDE DEF g
<1>6. g = [s \in SUBSET T |-> IF s = {} THEN 0 ELSE f[Pick(s)] + g[s \ {Pick(s)}]]
  BY <1>4, <1>5
<1> QED BY <1>2, <1>6 DEF IsTally

(* The total of a set unfolds at the element that is picked. *)
LEMMA TotalUnfolds ==
    ASSUME NEW f, NEW S, IsFiniteSet(S)
    PROVE  Total(f, S) = IF S = {} THEN 0 ELSE f[Pick(S)] + Total(f, S \ {Pick(S)})
<1>1. PICK g : IsTally(f, S, g) BY TallyExists
<1>2. Total(f, S) = g[S] BY <1>1, TotalIsTally
<1>3. IsFiniteSet(S \ {Pick(S)}) BY FS_Subset
<1>4. Total(f, S \ {Pick(S)}) = g[S \ {Pick(S)}] BY <1>1, <1>3, TotalIsTally
<1>5. S \in SUBSET S OBVIOUS
<1>6. g[S] = IF S = {} THEN 0 ELSE f[Pick(S)] + g[S \ {Pick(S)}]
  BY <1>1, <1>5 DEF IsTally
<1> QED BY <1>2, <1>4, <1>6

(* Nothing weighs nothing. *)
LEMMA TotalOfNothing == ASSUME NEW f PROVE Total(f, {}) = 0
<1>1. IsFiniteSet({}) BY FS_EmptySet
<1> QED BY <1>1, TotalUnfolds

(* A total of natural numbers is one. *)
LEMMA TotalIsNatural ==
    ASSUME NEW f, NEW S, IsFiniteSet(S), \A x \in S : f[x] \in Nat
    PROVE  Total(f, S) \in Nat
<1> DEFINE Bad == {U \in SUBSET S : Total(f, U) \notin Nat}
<1> SUFFICES ASSUME Bad # {} PROVE FALSE OBVIOUS
<1>1. \A U \in Bad : IsFiniteSet(U) BY FS_Subset
<1>2. PICK T \in Bad : \A V \in Bad : ~(Cardinality(V) < Cardinality(T))
  <2> HIDE DEF Bad
  <2> QED BY <1>1, LeastSize
<1>3. IsFiniteSet(T) BY <1>1
<1>4. Total(f, T) = IF T = {} THEN 0 ELSE f[Pick(T)] + Total(f, T \ {Pick(T)})
  BY <1>3, TotalUnfolds
<1>5. T # {} BY <1>4
<1>6. Pick(T) \in T BY <1>5, PickIn
<1>7. Cardinality(T \ {Pick(T)}) < Cardinality(T) BY <1>3, <1>6, TakeOut
<1>8. T \ {Pick(T)} \notin Bad BY <1>2, <1>7
<1>9. Total(f, T \ {Pick(T)}) \in Nat /\ f[Pick(T)] \in Nat BY <1>6, <1>8
<1> QED BY <1>4, <1>5, <1>9

(* Whichever element is taken out, it takes its own weight with it. *)
LEMMA TotalTakesOut ==
    ASSUME NEW f, NEW S, IsFiniteSet(S), \A x \in S : f[x] \in Nat
    PROVE  \A x \in S : Total(f, S) = f[x] + Total(f, S \ {x})
<1> DEFINE Bad == {U \in SUBSET S : \E x \in U : Total(f, U) # f[x] + Total(f, U \ {x})}
<1> SUFFICES ASSUME Bad # {} PROVE FALSE OBVIOUS
<1>1. \A U \in SUBSET S : IsFiniteSet(U) BY FS_Subset
<1>2. PICK T \in Bad : \A V \in Bad : ~(Cardinality(V) < Cardinality(T))
  <2>1. \A U \in Bad : IsFiniteSet(U) BY <1>1
  <2> HIDE DEF Bad
  <2> QED BY <2>1, LeastSize
<1>3. PICK x \in T : Total(f, T) # f[x] + Total(f, T \ {x}) OBVIOUS
<1>4. T \in SUBSET S /\ IsFiniteSet(T) /\ T # {} BY <1>1, <1>3
<1> DEFINE p == Pick(T)
<1>5. p \in T BY <1>4, PickIn
<1>6. Total(f, T) = f[p] + Total(f, T \ {p}) BY <1>4, TotalUnfolds
<1> HIDE DEF p
<1>7. p # x BY <1>3, <1>6
<1>8. Cardinality(T \ {p}) < Cardinality(T) /\ Cardinality(T \ {x}) < Cardinality(T)
  BY <1>3, <1>4, <1>5, TakeOut
<1>9. T \ {p} \in SUBSET S /\ T \ {x} \in SUBSET S BY <1>4
<1>10. T \ {p} \notin Bad /\ T \ {x} \notin Bad
  <2> HIDE DEF Bad
  <2> QED BY <1>2, <1>8
<1>11. Total(f, T \ {p}) = f[x] + Total(f, (T \ {p}) \ {x})
  BY <1>3, <1>7, <1>9, <1>10
<1>12. Total(f, T \ {x}) = f[p] + Total(f, (T \ {x}) \ {p})
  BY <1>5, <1>7, <1>9, <1>10
<1>13. (T \ {p}) \ {x} = (T \ {x}) \ {p} OBVIOUS
<1>14. Total(f, (T \ {x}) \ {p}) \in Nat
  <2>1. (T \ {x}) \ {p} \in SUBSET S /\ \A y \in (T \ {x}) \ {p} : f[y] \in Nat BY <1>4
  <2> QED BY <2>1, <1>1, TotalIsNatural
<1>15. f[x] \in Nat /\ f[p] \in Nat BY <1>3, <1>4, <1>5
<1>16. Total(f, T \ {p}) = f[x] + Total(f, (T \ {x}) \ {p}) BY <1>11, <1>13, Zenon
<1> QED BY <1>3, <1>6, <1>12, <1>14, <1>15, <1>16

(* A new element adds its own weight. *)
LEMMA TotalPutsIn ==
    ASSUME NEW f, NEW S, IsFiniteSet(S), \A y \in S : f[y] \in Nat,
           NEW x, x \notin S, f[x] \in Nat
    PROVE  Total(f, S \cup {x}) = Total(f, S) + f[x]
<1>1. IsFiniteSet(S \cup {x}) BY FS_AddElement
<1>2. \A y \in S \cup {x} : f[y] \in Nat OBVIOUS
<1>3. Total(f, S \cup {x}) = f[x] + Total(f, (S \cup {x}) \ {x})
  BY <1>1, <1>2, TotalTakesOut
<1>4. (S \cup {x}) \ {x} = S OBVIOUS
<1>5. Total(f, S \cup {x}) = f[x] + Total(f, S) BY <1>3, <1>4, Zenon
<1>6. Total(f, S) \in Nat BY TotalIsNatural
<1> QED BY <1>5, <1>6

(* A larger set weighs no less. *)
LEMMA TotalGrows ==
    ASSUME NEW f, NEW S, IsFiniteSet(S), \A x \in S : f[x] \in Nat, NEW A \in SUBSET S
    PROVE  Total(f, A) <= Total(f, S)
<1> DEFINE Bad == {U \in SUBSET S : A \subseteq U /\ ~(Total(f, A) <= Total(f, U))}
<1> SUFFICES ASSUME Bad # {} PROVE FALSE OBVIOUS
<1>1. \A U \in SUBSET S : IsFiniteSet(U) BY FS_Subset
<1>2. PICK T \in Bad : \A V \in Bad : ~(Cardinality(V) < Cardinality(T))
  <2>1. \A U \in Bad : IsFiniteSet(U) BY <1>1
  <2> HIDE DEF Bad
  <2> QED BY <2>1, LeastSize
<1>3. \A U \in SUBSET S : Total(f, U) \in Nat
  <2> TAKE U \in SUBSET S
  <2>1. \A x \in U : f[x] \in Nat OBVIOUS
  <2> QED BY <2>1, <1>1, TotalIsNatural
<1>4. T # A BY <1>3
<1>5. PICK x \in T : x \notin A BY <1>4
<1>6. IsFiniteSet(T) /\ \A y \in T : f[y] \in Nat BY <1>1
<1>7. Cardinality(T \ {x}) < Cardinality(T) BY <1>6, TakeOut
<1>8. T \ {x} \notin Bad
  <2> HIDE DEF Bad
  <2> QED BY <1>2, <1>7
<1>9. T \ {x} \in SUBSET S /\ A \subseteq T \ {x} BY <1>5
<1>10. Total(f, A) <= Total(f, T \ {x}) BY <1>8, <1>9
<1>11. Total(f, T) = f[x] + Total(f, T \ {x}) BY <1>6, TotalTakesOut
<1>12. /\ f[x] \in Nat /\ Total(f, A) \in Nat /\ Total(f, T) \in Nat
       /\ Total(f, T \ {x}) \in Nat /\ ~(Total(f, A) <= Total(f, T))
  BY <1>3, <1>6, <1>9
<1> QED BY <1>10, <1>11, <1>12

(* The total depends on the weights of its own elements alone. *)
LEMMA TotalsAgree ==
    ASSUME NEW f, NEW g, NEW S, IsFiniteSet(S), \A x \in S : f[x] = g[x]
    PROVE  Total(f, S) = Total(g, S)
<1>1. PICK h : IsTally(g, S, h) BY TallyExists
<1>2. \A s \in SUBSET S : s # {} => f[Pick(s)] = g[Pick(s)] BY PickIn
<1>3. ASSUME NEW s \in SUBSET S
      PROVE  h[s] = IF s = {} THEN 0 ELSE f[Pick(s)] + h[s \ {Pick(s)}]
  <2>1. h[s] = IF s = {} THEN 0 ELSE g[Pick(s)] + h[s \ {Pick(s)}] BY <1>1 DEF IsTally
  <2> QED BY <1>2, <2>1
<1>4. h = [s \in SUBSET S |-> h[s]] BY <1>1 DEF IsTally
<1>5. h = [s \in SUBSET S |-> IF s = {} THEN 0 ELSE f[Pick(s)] + h[s \ {Pick(s)}]]
  BY <1>3, <1>4
<1>6. IsTally(f, S, h) BY <1>5 DEF IsTally
<1>7. Total(g, S) = h[S] BY <1>1, TotalIsTally
<1>8. Total(f, S) = h[S] BY <1>6, TotalIsTally
<1> QED BY <1>7, <1>8

(* One more in one place is one more in all. *)
LEMMA TotalBumps ==
    ASSUME NEW f, NEW g, NEW S, IsFiniteSet(S), \A y \in S : f[y] \in Nat,
           NEW x \in S, g[x] = f[x] + 1, \A y \in S : y # x => g[y] = f[y]
    PROVE  Total(g, S) = Total(f, S) + 1
<1>1. IsFiniteSet(S \ {x}) BY FS_RemoveElement
<1>2. \A y \in S : g[y] \in Nat OBVIOUS
<1>3. Total(f, S) = f[x] + Total(f, S \ {x}) BY TotalTakesOut
<1>4. Total(g, S) = g[x] + Total(g, S \ {x}) BY <1>2, TotalTakesOut
<1>5. \A y \in S \ {x} : g[y] = f[y] OBVIOUS
<1>6. Total(g, S \ {x}) = Total(f, S \ {x}) BY <1>1, <1>5, TotalsAgree
<1>7. Total(f, S \ {x}) \in Nat BY <1>1, TotalIsNatural
<1> QED BY <1>3, <1>4, <1>6, <1>7

(* Nothing weighed is nothing. *)
LEMMA TotalOfZeros ==
    ASSUME NEW f, NEW S, IsFiniteSet(S), \A x \in S : f[x] = 0
    PROVE  Total(f, S) = 0
<1> DEFINE g == [s \in SUBSET S |-> 0]
<1>1. \A s \in SUBSET S : s # {} => Pick(s) \in S /\ s \ {Pick(s)} \in SUBSET S BY PickIn
<1>2. ASSUME NEW s \in SUBSET S
      PROVE  g[s] = IF s = {} THEN 0 ELSE f[Pick(s)] + g[s \ {Pick(s)}]
  BY <1>1
<1>3. g = [s \in SUBSET S |-> g[s]] OBVIOUS
<1>4. g[S] = 0 OBVIOUS
<1> HIDE DEF g
<1>5. g = [s \in SUBSET S |-> IF s = {} THEN 0 ELSE f[Pick(s)] + g[s \ {Pick(s)}]]
  BY <1>2, <1>3
<1>6. IsTally(f, S, g) BY <1>5 DEF IsTally
<1> QED BY <1>4, <1>6, TotalIsTally
=============================================================================
