---------------------------- MODULE TotalsProofs ----------------------------
(* Facts about sums over finite sets, unit by unit, and the two inductions   *)
(* they and other proofs rest on: over a finite set and over the naturals.   *)
EXTENDS Totals, FiniteSetTheorems, WellFoundedInduction, TLAPS

LEMMA FiniteInduction ==
  ASSUME NEW S, IsFiniteSet(S), NEW Q, {} \in Q,
         \A T \in SUBSET S, x \in S : T \in Q => T \cup {x} \in Q
  PROVE  S \in Q
<1> DEFINE Bad == {T \in FiniteSubsetsOf(S) : T \notin Q}
<1> SUFFICES ASSUME S \notin Q PROVE FALSE
  OBVIOUS
<1>1. S \in Bad /\ Bad \subseteq FiniteSubsetsOf(S)
  BY DEF FiniteSubsetsOf
<1>2. PICK T \in Bad : \A U \in Bad : <<U, T>> \notin StrictSubsetOrdering(S)
  BY <1>1, FS_StrictSubsetOrderingWellFounded, WFMin
<1>3. PICK x \in T : x \in S
  BY <1>2 DEF FiniteSubsetsOf
<1>4. T \ {x} \in FiniteSubsetsOf(S) /\ T \ {x} # T
  BY <1>2, <1>3, FS_RemoveElement DEF FiniteSubsetsOf
<1>5. <<T \ {x}, T>> \in StrictSubsetOrdering(S)
  BY <1>2, <1>4 DEF StrictSubsetOrdering, FiniteSubsetsOf
<1>6. T \ {x} \in Q
  BY <1>2, <1>4, <1>5
<1>7. (T \ {x}) \cup {x} \in Q
  BY <1>3, <1>4, <1>6 DEF FiniteSubsetsOf
<1> QED BY <1>2, <1>3, <1>7

LEMMA Column ==
  ASSUME NEW x, NEW n \in Nat
  PROVE  IsFiniteSet({x} \X (1..n)) /\ Cardinality({x} \X (1..n)) = n
<1>1. IsFiniteSet({x}) /\ Cardinality({x}) = 1
  BY FS_Singleton, Zenon
<1>2. IsFiniteSet(1..n) /\ Cardinality(1..n) = n
  BY FS_Interval
<1>3. /\ IsFiniteSet({x} \X (1..n))
      /\ Cardinality({x} \X (1..n)) = Cardinality({x}) * Cardinality(1..n)
  BY <1>1, <1>2, FS_Product, Zenon
<1> QED BY <1>1, <1>2, <1>3

LEMMA TalliesOfMore ==
  ASSUME NEW f, NEW S, NEW x
  PROVE  Tallies(f, S \cup {x}) = Tallies(f, S) \cup ({x} \X (1..f[x]))
BY DEF Tallies

LEMMA TalliesFinite ==
  ASSUME NEW f, NEW S, IsFiniteSet(S), \A x \in S : f[x] \in Nat
  PROVE  IsFiniteSet(Tallies(f, S))
<1> DEFINE Q == {T \in SUBSET S : IsFiniteSet(Tallies(f, T))}
<1>1. {} \in Q
  BY FS_EmptySet DEF Tallies
<1>2. ASSUME NEW T \in SUBSET S, NEW x \in S, T \in Q PROVE T \cup {x} \in Q
  <2>1. f[x] \in Nat /\ T \cup {x} \in SUBSET S
    BY <1>2
  <2>2. IsFiniteSet({x} \X (1..f[x]))
    BY <2>1, Column
  <2>3. IsFiniteSet(Tallies(f, T) \cup ({x} \X (1..f[x])))
    BY <1>2, <2>2, FS_Union
  <2>4. Tallies(f, T \cup {x}) = Tallies(f, T) \cup ({x} \X (1..f[x]))
    BY TalliesOfMore
  <2> QED BY <2>1, <2>3, <2>4
<1>3. S \in Q
  <2> HIDE DEF Q
  <2> QED BY <1>1, <1>2, FiniteInduction
<1> QED BY <1>3

LEMMA TotalIsNat ==
  ASSUME NEW f, NEW S, IsFiniteSet(S), \A x \in S : f[x] \in Nat
  PROVE  Total(f, S) \in Nat
BY TalliesFinite, FS_CardinalityType DEF Total

LEMMA TotalOfMore ==
  ASSUME NEW f, NEW S, IsFiniteSet(S), \A y \in S : f[y] \in Nat, NEW x, x \notin S,
         f[x] \in Nat
  PROVE  Total(f, S \cup {x}) = Total(f, S) + f[x]
<1> DEFINE new == {x} \X (1..f[x])
<1>2. IsFiniteSet(new) /\ Cardinality(new) = f[x]
  BY Column
<1>3. Tallies(f, S) \cap new = {}
  BY DEF Tallies
<1>4. Cardinality(Tallies(f, S) \cup new) = Total(f, S) + f[x] - Cardinality({})
  BY <1>2, <1>3, TalliesFinite, FS_Union DEF Total
<1>5. Cardinality(Tallies(f, S) \cup new) = Total(f, S) + f[x]
  BY <1>4, FS_EmptySet, TotalIsNat
<1> QED BY <1>5, TalliesOfMore DEF Total

LEMMA TotalSame ==
  ASSUME NEW f, NEW g, NEW S, \A x \in S : f[x] = g[x]
  PROVE  Total(f, S) = Total(g, S)
BY DEF Total, Tallies

LEMMA TotalOfNothing ==
  ASSUME NEW f, NEW S, \A x \in S : f[x] = 0
  PROVE  Total(f, S) = 0
<1>1. Tallies(f, S) = {}
  BY DEF Tallies
<1> QED BY <1>1, FS_EmptySet DEF Total

(* One function adds c to another one's value at one place.                  *)
Adds(f, g, S, x, c) ==
  /\ IsFiniteSet(S) /\ c \in Nat
  /\ \A y \in S : f[y] \in Nat /\ g[y] = IF y = x THEN f[y] + c ELSE f[y]

(* It adds as much to every sum over that place.                             *)
LEMMA TotalAdds ==
  ASSUME NEW f, NEW g, NEW S, NEW x, NEW c, Adds(f, g, S, x, c)
  PROVE  Total(g, S) = Total(f, S) + IF x \in S THEN c ELSE 0
<1>0. /\ IsFiniteSet(S) /\ c \in Nat
      /\ \A y \in S : f[y] \in Nat /\ g[y] = IF y = x THEN f[y] + c ELSE f[y]
  BY DEF Adds
<1>1. CASE x \notin S
  BY <1>0, <1>1, TotalSame, TotalIsNat
<1>2. CASE x \in S
  <2> DEFINE R == S \ {x}
  <2>1. IsFiniteSet(R) /\ S = R \cup {x} /\ \A y \in R : f[y] \in Nat /\ g[y] = f[y]
    BY <1>0, <1>2, FS_RemoveElement
  <2>2. g[x] = f[x] + c /\ f[x] \in Nat /\ g[x] \in Nat
    BY <1>0, <1>2
  <2>3. Total(f, R \cup {x}) = Total(f, R) + f[x]
    BY <2>1, <2>2, TotalOfMore
  <2>4. Total(g, R \cup {x}) = Total(g, R) + g[x]
    BY <2>1, <2>2, TotalOfMore
  <2>5. Total(g, R) = Total(f, R) /\ Total(f, R) \in Nat
    BY <2>1, TotalSame, TotalIsNat
  <2> QED BY <1>0, <1>2, <2>1, <2>2, <2>3, <2>4, <2>5
<1> QED BY <1>1, <1>2

LEMMA TotalIsMonotone ==
  ASSUME NEW f, NEW S, IsFiniteSet(S), \A y \in S : f[y] \in Nat, NEW R \in SUBSET S
  PROVE  Total(f, R) <= Total(f, S)
<1>1. Tallies(f, R) \subseteq Tallies(f, S)
  BY DEF Tallies
<1> QED BY <1>1, TalliesFinite, FS_Subset DEF Total

(* Every set of naturals has a least element. *)
LEMMA LeastNatural ==
  ASSUME NEW T, T \subseteq Nat, T # {}
  PROVE  \E m \in T : \A k \in T : m <= k
<1>1. PICK n \in T : TRUE
  OBVIOUS
<1> DEFINE Below == {m \in T : m <= n}
           Bad == {0 .. m : m \in Below}
<1>2. IsFiniteSet(0 .. n)
  BY <1>1, FS_Interval
<1>3. \A m \in Below : 0 .. m \subseteq 0 .. n /\ IsFiniteSet(0 .. m)
  BY <1>1, FS_Interval
<1>4. Bad \subseteq FiniteSubsetsOf(0 .. n) /\ 0 .. n \in Bad
  BY <1>1, <1>3 DEF FiniteSubsetsOf
<1>5. PICK I \in Bad : \A J \in Bad : <<J, I>> \notin StrictSubsetOrdering(0 .. n)
  BY <1>2, <1>4, FS_StrictSubsetOrderingWellFounded, WFMin
<1>6. PICK m \in Below : I = 0 .. m
  BY <1>5
<1>7. ASSUME NEW k \in T, k < m PROVE FALSE
  <2>1. k \in Below /\ 0 .. k \in Bad
    BY <1>1, <1>6, <1>7
  <2>2. 0 .. k \subseteq 0 .. m /\ 0 .. k # 0 .. m
    <3>1. m \in 0 .. m /\ m \notin 0 .. k
      BY <1>6, <1>7
    <3> QED BY <1>6, <1>7, <3>1
  <2>3. 0 .. k \in FiniteSubsetsOf(0 .. n) /\ 0 .. m \in FiniteSubsetsOf(0 .. n)
    BY <1>4, <1>5, <1>6, <2>1
  <2>4. <<0 .. k, 0 .. m>> \in StrictSubsetOrdering(0 .. n)
    BY <2>2, <2>3 DEF StrictSubsetOrdering, FiniteSubsetsOf
  <2> QED BY <1>5, <1>6, <2>1, <2>4
<1> QED BY <1>6, <1>7
=============================================================================
