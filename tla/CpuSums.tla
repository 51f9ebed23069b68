------------------------------ MODULE CpuSums ------------------------------
(***************************************************************************)
(* What SumFunctionOnSet computes.  The fold picks the elements in an      *)
(* order of its own; its value is the number of units that the elements    *)
(* have together, so that it does not depend on the order, grows with the  *)
(* set, and adds up over disjoint sets.                                    *)
(***************************************************************************)
EXTENDS Naturals, FiniteSets, Functions, FiniteSetTheorems, WellFoundedInduction, TLAPS

(* The units of the elements of S when an element x has w[x] of them. *)
Units(w, S) == UNION {{x} \X (1..w[x]) : x \in S}

(* The equation of the recursive function inside the fold. *)
Sums(f, w, S) ==
  f = [s \in SUBSET S |->
         IF s = {} THEN 0
         ELSE w[CHOOSE x \in s : TRUE] + f[s \ {CHOOSE x \in s : TRUE}]]

(* Induction on finite sets: a nonempty family of subsets of a finite set  *)
(* has a member with no proper subset in the family.                       *)
LEMMA MinimalSubset ==
  ASSUME NEW S, IsFiniteSet(S), NEW F, F \subseteq SUBSET S, F # {}
  PROVE  \E T \in F : \A U \in F : U \subseteq T => U = T
<1>1. IsWellFoundedOn(StrictSubsetOrdering(S), SUBSET S)
  BY FS_StrictSubsetOrderingWellFounded, FS_FiniteSubsetsOfFinite
<1>2. PICK T \in F : \A U \in F : ~(<<U, T>> \in StrictSubsetOrdering(S))
  BY <1>1, WFMin, Zenon
<1>3. ASSUME NEW U \in F, U \subseteq T, U # T
      PROVE  FALSE
  <2>1. <<U, T>> \in (SUBSET S) \X (SUBSET S)
    OBVIOUS
  <2>2. QED
    BY <1>2, <1>3, <2>1 DEF StrictSubsetOrdering
<1>4. QED
  BY <1>3

LEMMA UnitsFinite ==
  ASSUME NEW S, IsFiniteSet(S), NEW w, \A x \in S : w[x] \in Nat
  PROVE  IsFiniteSet(Units(w, S)) /\ Cardinality(Units(w, S)) \in Nat
<1> DEFINE pile(x) == {x} \X (1..w[x])
           piles == {pile(x) : x \in S}
<1>1. ASSUME NEW x \in S PROVE IsFiniteSet(pile(x))
  <2>1. IsFiniteSet({x}) /\ IsFiniteSet(1..w[x])
    <3>1. IsFiniteSet({x})
      BY FS_Singleton
    <3>2. w[x] \in Int /\ 1 \in Int
      OBVIOUS
    <3>3. QED
      BY <3>1, <3>2, FS_Interval
  <2>2. \A T : IsFiniteSet(T) => IsFiniteSet({x} \X T)
    BY <2>1, FS_Product
  <2>3. QED
    BY <2>1, <2>2
<1>2. IsFiniteSet(piles)
  <2> DEFINE f == [x \in S |-> pile(x)]
  <2>1. f \in Surjection(S, piles)
    BY DEF Surjection
  <2>2. QED
    BY <2>1, FS_Surjection, Zenon
<1>3. IsFiniteSet(UNION piles)
  BY <1>1, <1>2, FS_UNION
<1>4. QED
  BY <1>3, FS_CardinalityType DEF Units

LEMMA UnitsRemove ==
  ASSUME NEW S, IsFiniteSet(S), NEW w, \A x \in S : w[x] \in Nat, NEW y \in S
  PROVE  Cardinality(Units(w, S)) = w[y] + Cardinality(Units(w, S \ {y}))
<1> DEFINE rest == Units(w, S \ {y})
           mine == {y} \X (1..w[y])
<1>1. IsFiniteSet(S \ {y})
  BY FS_Subset
<1>2. IsFiniteSet(rest) /\ Cardinality(rest) \in Nat
  BY <1>1, UnitsFinite
<1>3. IsFiniteSet(mine) /\ Cardinality(mine) = w[y]
  <2>1. IsFiniteSet({y}) /\ Cardinality({y}) = 1
    BY FS_Singleton
  <2>2. IsFiniteSet(1..w[y]) /\ Cardinality(1..w[y]) = w[y]
    BY FS_Interval
  <2>3. IsFiniteSet(mine) /\ Cardinality(mine) = 1 * w[y]
    BY <2>1, <2>2, FS_Product
  <2>4. QED
    BY <2>3
<1>4. mine \cap rest = {}
  BY DEF Units
<1>5. Units(w, S) = mine \cup rest
  BY DEF Units
<1>6. Cardinality(mine \cup rest) = Cardinality(mine) + Cardinality(rest) - Cardinality({})
  <2>1. Cardinality(mine \cup rest)
          = Cardinality(mine) + Cardinality(rest) - Cardinality(mine \cap rest)
    <3> HIDE DEF mine, rest
    <3> QED BY <1>2, <1>3, FS_Union
  <2>2. QED
    BY <1>4, <2>1
<1>7. QED
  BY <1>2, <1>3, <1>5, <1>6, FS_EmptySet

(* The fold's recursive function is the number of units, because that      *)
(* number satisfies its equation and a finite set has no other solution.   *)
LEMMA SumsAreUnits ==
  ASSUME NEW S, IsFiniteSet(S), NEW w, \A x \in S : w[x] \in Nat
  PROVE  /\ Sums([s \in SUBSET S |-> Cardinality(Units(w, s))], w, S)
         /\ \A f : Sums(f, w, S) => f[S] = Cardinality(Units(w, S))
<1> DEFINE g == [s \in SUBSET S |-> Cardinality(Units(w, s))]
           pick(s) == CHOOSE x \in s : TRUE
<1>1. Cardinality(Units(w, {})) = 0
  <2>1. Units(w, {}) = {}
    BY DEF Units
  <2>2. QED
    BY <2>1, FS_EmptySet
<1>2. ASSUME NEW s \in SUBSET S, s # {}
      PROVE  /\ pick(s) \in s /\ s \ {pick(s)} \in SUBSET S
             /\ Cardinality(Units(w, s)) = w[pick(s)] + Cardinality(Units(w, s \ {pick(s)}))
  <2>1. pick(s) \in s
    BY <1>2
  <2>2. IsFiniteSet(s)
    BY FS_Subset
  <2> HIDE DEF pick
  <2>3. QED
    BY <2>1, <2>2, UnitsRemove
<1>3. Sums(g, w, S)
  <2>1. \A s \in SUBSET S :
          g[s] = IF s = {} THEN 0
                 ELSE w[CHOOSE x \in s : TRUE] + g[s \ {CHOOSE x \in s : TRUE}]
    BY <1>1, <1>2
  <2> HIDE DEF g
  <2>2. g = [s \in SUBSET S |-> g[s]]
    BY DEF g
  <2>3. QED
    BY <2>1, <2>2 DEF Sums
<1>4. ASSUME NEW f, Sums(f, w, S)
      PROVE  f[S] = g[S]
  <2>1. \A s \in SUBSET S :
          f[s] = IF s = {} THEN 0 ELSE w[pick(s)] + f[s \ {pick(s)}]
    BY <1>4 DEF Sums
  <2>2. \A s \in SUBSET S :
          g[s] = IF s = {} THEN 0 ELSE w[pick(s)] + g[s \ {pick(s)}]
    BY <1>3 DEF Sums
  <2> DEFINE wrong == {s \in SUBSET S : f[s] # g[s]}
  <2>3. SUFFICES ASSUME wrong # {} PROVE FALSE
    OBVIOUS
  <2>4. PICK T \in wrong : \A U \in wrong : U \subseteq T => U = T
    <3>1. wrong \subseteq SUBSET S
      OBVIOUS
    <3> HIDE DEF wrong
    <3>2. QED
      BY <2>3, <3>1, MinimalSubset
  <2>5. T # {}
    BY <2>1, <2>2
  <2>6. pick(T) \in T /\ T \ {pick(T)} \in SUBSET S
    BY <1>2, <2>5
  <2>7. T \ {pick(T)} \notin wrong
    BY <2>4, <2>6
  <2>8. f[T \ {pick(T)}] = g[T \ {pick(T)}]
    BY <2>6, <2>7
  <2>9. QED
    BY <2>1, <2>2, <2>5, <2>8
<1>5. QED
  BY <1>3, <1>4

(* The sum of committed_cpu_millis over a finite set is the number of      *)
(* units its elements have, whatever order the fold takes them in.         *)
THEOREM SumIsUnits ==
  ASSUME NEW S, IsFiniteSet(S), NEW w, \A x \in S : w[x] \in Nat
  PROVE  SumFunctionOnSet(w, S) = Cardinality(Units(w, S))
<1> DEFINE iter == CHOOSE f : Sums(f, w, S)
<1>1. SumFunctionOnSet(w, S) = iter[S]
  BY Zenon DEF SumFunctionOnSet, FoldFunctionOnSet, MapThenFoldSet, Sums
<1>2. Sums(iter, w, S)
  BY SumsAreUnits
<1> HIDE DEF iter
<1>3. QED
  BY <1>1, <1>2, SumsAreUnits

(* Sums are natural, a subset has no larger sum, an element adds what it   *)
(* has, and a union has at most both sums.                                 *)
THEOREM SumProperties ==
  ASSUME NEW S, IsFiniteSet(S), NEW w, \A x \in S : w[x] \in Nat
  PROVE  /\ SumFunctionOnSet(w, S) \in Nat
         /\ \A T \in SUBSET S : /\ SumFunctionOnSet(w, T) \in Nat
                               /\ SumFunctionOnSet(w, T) <= SumFunctionOnSet(w, S)
         /\ \A T, U \in SUBSET S :
              SumFunctionOnSet(w, T \cup U) <= SumFunctionOnSet(w, T) + SumFunctionOnSet(w, U)
         /\ \A x \in S : SumFunctionOnSet(w, S) = w[x] + SumFunctionOnSet(w, S \ {x})
<1>1. \A T \in SUBSET S :
        /\ IsFiniteSet(T) /\ SumFunctionOnSet(w, T) = Cardinality(Units(w, T))
        /\ IsFiniteSet(Units(w, T)) /\ Cardinality(Units(w, T)) \in Nat
  <2>1. TAKE T \in SUBSET S
  <2>2. IsFiniteSet(T)
    BY FS_Subset
  <2>3. QED
    BY <2>2, SumIsUnits, UnitsFinite
<1>2. \A T \in SUBSET S : Cardinality(Units(w, T)) <= Cardinality(Units(w, S))
  <2>1. TAKE T \in SUBSET S
  <2>2. Units(w, T) \subseteq Units(w, S)
    BY DEF Units
  <2>3. QED
    BY <1>1, <2>2, FS_Subset
<1>3. \A T, U \in SUBSET S :
        Cardinality(Units(w, T \cup U)) <= Cardinality(Units(w, T)) + Cardinality(Units(w, U))
  <2>1. TAKE T, U \in SUBSET S
  <2>2. Units(w, T \cup U) = Units(w, T) \cup Units(w, U)
    BY DEF Units
  <2> DEFINE both == Units(w, T) \cap Units(w, U)
  <2>3. Cardinality(Units(w, T) \cup Units(w, U))
          = Cardinality(Units(w, T)) + Cardinality(Units(w, U)) - Cardinality(both)
    BY <1>1, FS_Union
  <2>4. Cardinality(both) \in Nat
    BY <1>1, FS_Subset, FS_CardinalityType
  <2>5. Cardinality(Units(w, T)) \in Nat /\ Cardinality(Units(w, U)) \in Nat
    BY <1>1
  <2>6. \A a, b, c \in Nat : a + b - c <= a + b
    OBVIOUS
  <2> HIDE DEF both
  <2>7. Cardinality(Units(w, T)) + Cardinality(Units(w, U)) - Cardinality(both)
          <= Cardinality(Units(w, T)) + Cardinality(Units(w, U))
    BY <2>4, <2>5, <2>6
  <2>8. QED
    BY <2>2, <2>3, <2>7
<1>4. \A x \in S : Cardinality(Units(w, S)) = w[x] + Cardinality(Units(w, S \ {x}))
  BY UnitsRemove
<1>5. \A T, U \in SUBSET S : T \cup U \in SUBSET S
  OBVIOUS
<1>6. \A x \in S : S \ {x} \in SUBSET S
  OBVIOUS
<1>7. S \in SUBSET S
  OBVIOUS
<1>8. QED
  BY <1>1, <1>2, <1>3, <1>4, <1>5, <1>6, <1>7

(* An element costs what its image costs. *)
SameCost(w, h, v, S) == \A x \in S : w[x] \in Nat /\ v[h[x]] = w[x]

(* The sum does not change when the elements are named differently. *)
THEOREM SumReindexed ==
  ASSUME NEW S, NEW T, IsFiniteSet(S), NEW h \in Bijection(S, T),
         NEW w, NEW v, SameCost(w, h, v, S)
  PROVE  SumFunctionOnSet(w, S) = SumFunctionOnSet(v, T)
<1>0. \A x \in S : w[x] \in Nat /\ v[h[x]] = w[x]
  BY DEF SameCost
<1>1. h \in [S -> T] /\ (\A t \in T : \E x \in S : h[x] = t)
      /\ (\A x, y \in S : h[x] = h[y] => x = y)
  BY DEF Bijection, Injection, Surjection, IsInjective
<1>2. IsFiniteSet(T)
  BY FS_Bijection DEF ExistsBijection
<1>3. \A t \in T : v[t] \in Nat
  BY <1>0, <1>1
<1> DEFINE m == [u \in Units(w, S) |-> <<h[u[1]], u[2]>>]
<1>4. \A u \in Units(w, S) : /\ u[1] \in S /\ u[2] \in 1..w[u[1]] /\ u = <<u[1], u[2]>>
                            /\ <<h[u[1]], u[2]>> \in Units(v, T)
  BY <1>0, <1>1 DEF Units
<1>5. m \in [Units(w, S) -> Units(v, T)]
  BY <1>4
<1>6. \A a, b \in Units(w, S) : m[a] = m[b] => a = b
  BY <1>1, <1>4
<1>7. ASSUME NEW b \in Units(v, T) PROVE \E a \in Units(w, S) : m[a] = b
  <2>1. b[1] \in T /\ b[2] \in 1..v[b[1]] /\ b = <<b[1], b[2]>>
    BY DEF Units
  <2>2. PICK x \in S : h[x] = b[1]
    BY <1>1, <2>1
  <2>3. <<x, b[2]>> \in Units(w, S)
    BY <1>0, <2>1, <2>2 DEF Units
  <2>4. m[<<x, b[2]>>] = b
    BY <2>1, <2>2, <2>3
  <2>5. QED
    BY <2>3, <2>4
<1>8. m \in Bijection(Units(w, S), Units(v, T))
  BY <1>5, <1>6, <1>7 DEF Bijection, Injection, Surjection, IsInjective
<1>9. IsFiniteSet(Units(w, S))
  BY <1>0, UnitsFinite
<1> HIDE DEF m
<1>10. Cardinality(Units(w, S)) = Cardinality(Units(v, T))
  BY <1>8, <1>9, FS_Bijection DEF ExistsBijection
<1>11. QED
  BY <1>0, <1>2, <1>3, <1>10, SumIsUnits

(* The sum over a set depends on the costs of its elements alone. *)
THEOREM SumSame ==
  ASSUME NEW S, IsFiniteSet(S), NEW w, NEW v, \A x \in S : w[x] \in Nat /\ v[x] = w[x]
  PROVE  SumFunctionOnSet(w, S) = SumFunctionOnSet(v, S)
<1>1. Units(w, S) = Units(v, S)
  BY DEF Units
<1>2. QED
  BY <1>1, SumIsUnits
=============================================================================
