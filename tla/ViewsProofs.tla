---------------------------- MODULE ViewsProofs ----------------------------
(***************************************************************************)
(* What is proved about the read models and the timeline (module Views):   *)
(*                                                                         *)
(*   ViewsAgreeHolds  the timeline's buckets, the dashboard's charts, the  *)
(*                    heatmap and the days of a library agree with each    *)
(*                    other, for every library and every calendar day;     *)
(*   TimelineTiles    the pages of a timeline are the beginning of its     *)
(*                    list, whatever was edited, asked for and answered.   *)
(*                                                                         *)
(* The first is about sums over sets.  A sum is a fold that takes one      *)
(* element after the other, in an order nobody knows; it is shown to be    *)
(* the number of units that the elements bring in less those they take     *)
(* away, and then everything that a total has to satisfy (that the parts   *)
(* of a set come to the whole, above all) is a fact about cardinalities.   *)
(* Facts about finite sets are proved by taking a least counterexample     *)
(* among the subsets (SetInduction).                                       *)
(***************************************************************************)
EXTENDS Views, FiniteSetTheorems, SequenceTheorems, WellFoundedInduction, TLAPS

\* What holds of no elements, and with each that is added, holds of a finite set.
LEMMA SetInduction ==
    ASSUME NEW S, IsFiniteSet(S), NEW C, {} \in C,
           \A T \in SUBSET S : T \in C => \A x \in S \ T : T \cup {x} \in C
    PROVE  S \in C
<1> DEFINE Bad == {T \in SUBSET S : T \notin C}
<1> SUFFICES ASSUME S \notin C PROVE FALSE
  OBVIOUS
<1>1. Bad # {} /\ Bad \subseteq FiniteSubsetsOf(S)
  BY FS_FiniteSubsetsOfFinite
<1>2. PICK T \in Bad : \A U \in Bad : <<U, T>> \notin StrictSubsetOrdering(S)
  BY <1>1, FS_StrictSubsetOrderingWellFounded, WFMin
<1>3. PICK x \in T : TRUE
  OBVIOUS
<1>4. T \ {x} \in SUBSET S /\ T \ {x} # T
  BY <1>3
<1>5. <<T \ {x}, T>> \in StrictSubsetOrdering(S)
  BY <1>4 DEF StrictSubsetOrdering
<1>6. T \ {x} \in C
  BY <1>2, <1>4, <1>5
<1>7. (T \ {x}) \cup {x} = T
  OBVIOUS
<1> QED BY <1>3, <1>4, <1>6, <1>7

-----------------------------------------------------------------------------
(***************************************************************************)
(* Sums.  What the fold computes is one set counted less another: so many  *)
(* units are brought in by each element.                                   *)
(***************************************************************************)
\* What some elements bring in and take away, told apart by the element.
Units(f, S) == UNION {{<<x, i>> : i \in 1 .. f[x]} : x \in S}
Debts(f, S) == UNION {{<<x, i>> : i \in 1 .. -f[x]} : x \in S}
Balance(f, S) == Cardinality(Units(f, S)) - Cardinality(Debts(f, S))

\* The units of one element.
LEMMA OneRow ==
    ASSUME NEW x, NEW n \in Int
    PROVE  LET R == {<<x, i>> : i \in 1 .. n}
           IN  IsFiniteSet(R) /\ Cardinality(R) = IF n > 0 THEN n ELSE 0
<1> DEFINE R == {<<x, i>> : i \in 1 .. n}
           r == [i \in 1 .. n |-> <<x, i>>]
<1>1. r \in Bijection(1 .. n, R)
  <2>1. r \in [1 .. n -> R] /\ \A i, j \in 1 .. n : r[i] = r[j] => i = j
    OBVIOUS
  <2>2. \A y \in R : \E i \in 1 .. n : r[i] = y
    OBVIOUS
  <2> QED BY <2>1, <2>2 DEF Bijection, Injection, Surjection, IsInjective
<1>2. IsFiniteSet(1 .. n) /\ Cardinality(1 .. n) = IF n > 0 THEN n ELSE 0
  BY FS_Interval
<1>3. ExistsBijection(1 .. n, R)
  BY <1>1 DEF ExistsBijection
<1> QED BY <1>2, <1>3, FS_Bijection

\* One more element brings in its own units.
LEMMA UnitsAdd ==
    ASSUME NEW f, NEW S, NEW x, x \notin S, IsFiniteSet(Units(f, S)), f[x] \in Int
    PROVE  /\ IsFiniteSet(Units(f, S \cup {x}))
           /\ Cardinality(Units(f, S \cup {x})) =
                Cardinality(Units(f, S)) + IF f[x] > 0 THEN f[x] ELSE 0
<1> DEFINE R == {<<x, i>> : i \in 1 .. f[x]}
<1>1. Units(f, S \cup {x}) = Units(f, S) \cup R
  BY DEF Units
<1>2. Units(f, S) \cap R = {}
  BY DEF Units
<1>3. IsFiniteSet(R) /\ Cardinality(R) = IF f[x] > 0 THEN f[x] ELSE 0
  BY OneRow
<1>4. Cardinality(Units(f, S)) \in Nat /\ Cardinality({}) = 0
  BY FS_CardinalityType, FS_EmptySet
<1> HIDE DEF R
<1>5. /\ IsFiniteSet(Units(f, S) \cup R)
      /\ Cardinality(Units(f, S) \cup R) =
            Cardinality(Units(f, S)) + Cardinality(R) - Cardinality(Units(f, S) \cap R)
  BY <1>3, FS_Union
<1>6. Cardinality(Units(f, S) \cap R) = 0
  BY <1>2, <1>4
<1>7. Cardinality(R) \in Int /\ Cardinality(R) = IF f[x] > 0 THEN f[x] ELSE 0
  BY <1>3
<1>8. Cardinality(Units(f, S) \cup R) = Cardinality(Units(f, S)) + Cardinality(R)
  BY <1>4, <1>5, <1>6, <1>7
<1> QED BY <1>1, <1>5, <1>7, <1>8

\* And its own debts.
LEMMA DebtsAdd ==
    ASSUME NEW f, NEW S, NEW x, x \notin S, IsFiniteSet(Debts(f, S)), f[x] \in Int
    PROVE  /\ IsFiniteSet(Debts(f, S \cup {x}))
           /\ Cardinality(Debts(f, S \cup {x})) =
                Cardinality(Debts(f, S)) + IF f[x] < 0 THEN -f[x] ELSE 0
<1> DEFINE R == {<<x, i>> : i \in 1 .. -f[x]}
<1>1. Debts(f, S \cup {x}) = Debts(f, S) \cup R
  BY DEF Debts
<1>2. Debts(f, S) \cap R = {}
  BY DEF Debts
<1>3. IsFiniteSet(R) /\ Cardinality(R) = IF -f[x] > 0 THEN -f[x] ELSE 0
  <2>1. -f[x] \in Int
    OBVIOUS
  <2> QED BY <2>1, OneRow
<1>4. Cardinality(Debts(f, S)) \in Nat /\ Cardinality({}) = 0
  BY FS_CardinalityType, FS_EmptySet
<1> HIDE DEF R
<1>5. /\ IsFiniteSet(Debts(f, S) \cup R)
      /\ Cardinality(Debts(f, S) \cup R) =
            Cardinality(Debts(f, S)) + Cardinality(R) - Cardinality(Debts(f, S) \cap R)
  BY <1>3, FS_Union
<1>6. Cardinality(Debts(f, S) \cap R) = 0
  BY <1>2, <1>4
<1>7. Cardinality(R) \in Int /\ Cardinality(R) = IF f[x] < 0 THEN -f[x] ELSE 0
  BY <1>3
<1>8. Cardinality(Debts(f, S) \cup R) = Cardinality(Debts(f, S)) + Cardinality(R)
  BY <1>4, <1>5, <1>6, <1>7
<1> QED BY <1>1, <1>5, <1>7, <1>8

\* No elements come to nothing.
LEMMA NoBalance == ASSUME NEW f PROVE Balance(f, {}) = 0
<1>1. Units(f, {}) = {} /\ Debts(f, {}) = {}
  BY DEF Units, Debts
<1>2. Cardinality({}) = 0
  BY FS_EmptySet
<1> QED BY <1>1, <1>2 DEF Balance

\* One more element changes the balance by what it is worth.
LEMMA BalanceFacts ==
    ASSUME NEW S, IsFiniteSet(S), NEW f, \A x \in S : f[x] \in Int
    PROVE  \A T \in SUBSET S :
              /\ IsFiniteSet(Units(f, T)) /\ IsFiniteSet(Debts(f, T)) /\ Balance(f, T) \in Int
              /\ \A x \in S \ T : Balance(f, T \cup {x}) = Balance(f, T) + f[x]
<1> SUFFICES ASSUME NEW T \in SUBSET S
             PROVE  /\ IsFiniteSet(Units(f, T)) /\ IsFiniteSet(Debts(f, T)) /\ Balance(f, T) \in Int
                    /\ \A x \in S \ T : Balance(f, T \cup {x}) = Balance(f, T) + f[x]
  OBVIOUS
<1> DEFINE C == {U \in SUBSET T : IsFiniteSet(Units(f, U)) /\ IsFiniteSet(Debts(f, U))}
<1>1. {} \in C
  <2>1. Units(f, {}) = {} /\ Debts(f, {}) = {}
    BY DEF Units, Debts
  <2> QED BY <2>1, FS_EmptySet
<1>2. \A U \in SUBSET T : U \in C => \A x \in T \ U : U \cup {x} \in C
  BY UnitsAdd, DebtsAdd
<1>3. T \in C
  <2>1. IsFiniteSet(T)
    BY FS_Subset
  <2> HIDE DEF C
  <2> QED BY <1>1, <1>2, <2>1, SetInduction
<1>4. Cardinality(Units(f, T)) \in Nat /\ Cardinality(Debts(f, T)) \in Nat
  BY <1>3, FS_CardinalityType
<1>5. ASSUME NEW x \in S \ T PROVE Balance(f, T \cup {x}) = Balance(f, T) + f[x]
  <2>1. f[x] \in Int /\ x \notin T
    BY <1>5
  <2>2. Cardinality(Units(f, T \cup {x})) = Cardinality(Units(f, T)) + IF f[x] > 0 THEN f[x] ELSE 0
    BY <1>3, <2>1, UnitsAdd
  <2>3. Cardinality(Debts(f, T \cup {x})) = Cardinality(Debts(f, T)) + IF f[x] < 0 THEN -f[x] ELSE 0
    BY <1>3, <2>1, DebtsAdd
  <2> QED BY <1>4, <2>1, <2>2, <2>3 DEF Balance
<1> QED BY <1>3, <1>4, <1>5 DEF Balance

\* The fold, which takes one element after the other, comes to the balance.
Taken(f, S, g) == [s \in SUBSET S |-> IF s = {} THEN 0
                      ELSE LET x == CHOOSE x \in s : TRUE IN f[x] + g[s \ {x}]]

LEMMA FoldIs ==
    ASSUME NEW f, NEW S, NEW h, h = Taken(f, S, h)
    PROVE  \E g : g = Taken(f, S, g) /\ SumFunctionOnSet(f, S) = g[S]
<1> DEFINE iter[s \in SUBSET S] == IF s = {} THEN 0
                     ELSE LET x == CHOOSE x \in s : TRUE IN f[x] + iter[s \ {x}]
<1>1. SumFunctionOnSet(f, S) = iter[S]
  BY DEF SumFunctionOnSet, FoldFunctionOnSet, MapThenFoldSet
<1>2. iter = CHOOSE g : g = Taken(f, S, g)
  BY DEF iter, Taken
<1>3. iter = Taken(f, S, iter)
  <2> HIDE DEF iter
  <2> QED BY <1>2
<1> QED BY <1>1, <1>3

\* By induction on the elements that the fold took already.
LEMMA SumIs ==
    ASSUME NEW S, IsFiniteSet(S), NEW f, \A x \in S : f[x] \in Int
    PROVE  SumFunctionOnSet(f, S) = Balance(f, S)
<1> DEFINE h == [s \in SUBSET S |-> Balance(f, s)]
<1>0. Balance(f, {}) = 0
  BY NoBalance
<1>1. ASSUME NEW s \in SUBSET S, s # {}, NEW x \in s
      PROVE  Balance(f, s) = f[x] + Balance(f, s \ {x})
  <2>1. (s \ {x}) \cup {x} = s /\ s \ {x} \in SUBSET S /\ x \in S \ (s \ {x})
    BY <1>1
  <2>2. Balance(f, s) = Balance(f, s \ {x}) + f[x] /\ Balance(f, s \ {x}) \in Int
    <3> DEFINE T == s \ {x}
    <3>1. Balance(f, T) \in Int /\ Balance(f, T \cup {x}) = Balance(f, T) + f[x]
      <4> HIDE DEF T, h
      <4>1. T \in SUBSET S /\ x \in S \ T
        BY <2>1 DEF T
      <4> QED BY <4>1, BalanceFacts
    <3> QED BY <2>1, <3>1
  <2>3. f[x] \in Int
    BY <1>1
  <2> HIDE <1>1
  <2> QED BY <2>2, <2>3
<1>2. h = Taken(f, S, h)
  <2>1. ASSUME NEW s \in SUBSET S
        PROVE  h[s] = IF s = {} THEN 0 ELSE LET x == CHOOSE x \in s : TRUE IN f[x] + h[s \ {x}]
    <3>1. CASE s = {}
      BY <1>0, <3>1
    <3>2. CASE s # {}
      <4> DEFINE x == CHOOSE x \in s : TRUE
      <4>1. x \in s
        BY <3>2
      <4>2. Balance(f, s) = f[x] + Balance(f, s \ {x})
        BY <1>1, <3>2, <4>1
      <4>3. s \ {x} \in SUBSET S
        OBVIOUS
      <4> QED BY <3>2, <4>2, <4>3
    <3> QED BY <3>1, <3>2
  <2> QED BY <2>1 DEF Taken
<1>3. PICK g : g = Taken(f, S, g) /\ SumFunctionOnSet(f, S) = g[S]
  <2> HIDE DEF h
  <2> QED BY <1>2, FoldIs
<1> DEFINE C == {s \in SUBSET S : g[s] = Balance(f, s)}
           Bad == {s \in SUBSET S : s \notin C}
<1>4. Bad = {}
  <2> SUFFICES ASSUME Bad # {} PROVE FALSE
    OBVIOUS
  <2>1. Bad \subseteq FiniteSubsetsOf(S)
    BY FS_FiniteSubsetsOfFinite
  <2>2. PICK s \in Bad : \A u \in Bad : <<u, s>> \notin StrictSubsetOrdering(S)
    BY <2>1, FS_StrictSubsetOrderingWellFounded, WFMin
  <2>3. s # {}
    BY <1>0, <1>3 DEF Taken
  <2> DEFINE x == CHOOSE x \in s : TRUE
  <2>4. x \in s
    BY <2>3
  <2>5. s \ {x} \in SUBSET S /\ s \ {x} # s
    BY <2>4
  <2>6. <<s \ {x}, s>> \in StrictSubsetOrdering(S)
    BY <2>5 DEF StrictSubsetOrdering
  <2>7. g[s \ {x}] = Balance(f, s \ {x})
    BY <2>2, <2>5, <2>6
  <2>8. g[s] = f[x] + g[s \ {x}]
    BY <1>3, <2>3 DEF Taken
  <2>9. g[s] = Balance(f, s)
    BY <1>1, <2>3, <2>4, <2>7, <2>8
  <2> QED BY <2>9
<1> QED BY <1>3, <1>4

\* No elements come to nothing, and each that is added to its worth.
LEMMA SumFacts ==
    ASSUME NEW S, IsFiniteSet(S), NEW f, \A x \in S : f[x] \in Int
    PROVE  /\ SumFunctionOnSet(f, {}) = 0
           /\ \A T \in SUBSET S :
                /\ SumFunctionOnSet(f, T) \in Int
                /\ \A x \in S \ T :
                    SumFunctionOnSet(f, T \cup {x}) = SumFunctionOnSet(f, T) + f[x]
<1>1. \A T \in SUBSET S : SumFunctionOnSet(f, T) = Balance(f, T)
  BY FS_Subset, SumIs
<1>2. \A T \in SUBSET S : \A x \in S \ T : T \cup {x} \in SUBSET S
  OBVIOUS
<1>3. Balance(f, {}) = 0
  BY NoBalance
<1>4. \A T \in SUBSET S : /\ Balance(f, T) \in Int
                           /\ \A x \in S \ T : Balance(f, T \cup {x}) = Balance(f, T) + f[x]
  BY BalanceFacts
<1>5. {} \in SUBSET S
  OBVIOUS
<1> QED BY <1>1, <1>2, <1>3, <1>4, <1>5

\* A sum depends on what its elements are worth.
LEMMA SumSame ==
    ASSUME NEW S, IsFiniteSet(S), NEW f, NEW g, \A x \in S : f[x] \in Int /\ g[x] = f[x]
    PROVE  SumFunctionOnSet(g, S) = SumFunctionOnSet(f, S)
<1>1. Units(g, S) = Units(f, S) /\ Debts(g, S) = Debts(f, S)
  BY DEF Units, Debts
<1>2. SumFunctionOnSet(g, S) = Balance(g, S) /\ SumFunctionOnSet(f, S) = Balance(f, S)
  BY SumIs
<1> QED BY <1>1, <1>2 DEF Balance

\* Two sets that have nothing in common are worth as much together as each by itself.
LEMMA SumJoin ==
    ASSUME NEW S, IsFiniteSet(S), NEW f, \A x \in S : f[x] \in Int,
           NEW A \in SUBSET S, NEW B \in SUBSET S, A \cap B = {}
    PROVE  SumFunctionOnSet(f, A \cup B) = SumFunctionOnSet(f, A) + SumFunctionOnSet(f, B)
<1> DEFINE s(T) == SumFunctionOnSet(f, T)
           C == {T \in SUBSET B : s(A \cup T) = s(A) + s(T)}
<1>1. s({}) = 0 /\ \A T \in SUBSET S : s(T) \in Int /\ \A x \in S \ T : s(T \cup {x}) = s(T) + f[x]
  BY SumFacts
<1> HIDE DEF s
<1>2. {} \in C
  BY <1>1
<1>3. ASSUME NEW T \in SUBSET B, T \in C, NEW x \in B \ T
      PROVE  T \cup {x} \in C
  <2>1. (A \cup T) \cup {x} = A \cup (T \cup {x}) /\ x \in S \ (A \cup T) /\ x \in S \ T
    OBVIOUS
  <2>2. s(A \cup (T \cup {x})) = s(A \cup T) + f[x]
    <3> DEFINE U == A \cup T
    <3>1. U \in SUBSET S /\ x \in S \ U
      BY <2>1
    <3>2. s(U \cup {x}) = s(U) + f[x]
      <4> HIDE DEF U
      <4> QED BY <1>1, <3>1
    <3> QED BY <2>1, <3>2
  <2>3. s(T \cup {x}) = s(T) + f[x]
    BY <1>1, <2>1
  <2>4. s(A \cup T) = s(A) + s(T) /\ s(A) \in Int /\ s(T) \in Int /\ f[x] \in Int
    BY <1>1, <1>3
  <2>5. s(A \cup (T \cup {x})) = s(A) + s(T \cup {x})
    BY <2>2, <2>3, <2>4
  <2> QED BY <2>5
<1>4. B \in C
  <2>1. IsFiniteSet(B)
    BY FS_Subset
  <2> HIDE DEF C
  <2> QED BY <1>2, <1>3, <2>1, SetInduction
<1> QED BY <1>4 DEF s

\* The elements that a function takes to one value.
Part(S, p, k) == {x \in S : p[x] = k}

\* The parts of a set come to the whole.
LEMMA SumParts ==
    ASSUME NEW S, IsFiniteSet(S), NEW f, \A x \in S : f[x] \in Int,
           NEW K, IsFiniteSet(K), NEW p, \A x \in S : p[x] \in K,
           NEW h, \A k \in K : h[k] = SumFunctionOnSet(f, Part(S, p, k))
    PROVE  SumFunctionOnSet(h, K) = SumFunctionOnSet(f, S)
<1> DEFINE s(T) == SumFunctionOnSet(f, T)
           part(k) == {x \in S : p[x] = k}
           among(L) == {x \in S : p[x] \in L}
           C == {L \in SUBSET K : SumFunctionOnSet(h, L) = s(among(L))}
<1>1. s({}) = 0 /\ \A T \in SUBSET S : s(T) \in Int
  BY SumFacts
<1>2. \A k \in K : h[k] = s(part(k)) /\ h[k] \in Int
  BY <1>1 DEF Part
<1>3. /\ SumFunctionOnSet(h, {}) = 0
      /\ \A L \in SUBSET K : \A k \in K \ L :
            SumFunctionOnSet(h, L \cup {k}) = SumFunctionOnSet(h, L) + h[k]
  <2> HIDE DEF s, part
  <2> QED BY <1>2, SumFacts
<1>4. \A A, B \in SUBSET S : A \cap B = {} => s(A \cup B) = s(A) + s(B)
  BY SumJoin
<1> HIDE DEF s
<1>5. {} \in C
  <2>1. among({}) = {}
    OBVIOUS
  <2> QED BY <1>1, <1>3, <2>1
<1>6. ASSUME NEW L \in SUBSET K, L \in C, NEW k \in K \ L
      PROVE  L \cup {k} \in C
  <2>1. among(L \cup {k}) = among(L) \cup part(k) /\ among(L) \cap part(k) = {}
    OBVIOUS
  <2>2. among(L) \in SUBSET S /\ part(k) \in SUBSET S
    OBVIOUS
  <2>3. s(among(L \cup {k})) = s(among(L)) + s(part(k))
    <3> HIDE DEF among, part
    <3> QED BY <1>4, <2>1, <2>2
  <2>4. SumFunctionOnSet(h, L \cup {k}) = SumFunctionOnSet(h, L) + h[k]
    BY <1>3
  <2>5. SumFunctionOnSet(h, L \cup {k}) = s(among(L \cup {k}))
    <3>1. SumFunctionOnSet(h, L) = s(among(L)) /\ h[k] = s(part(k))
      BY <1>2, <1>6
    <3> HIDE DEF among, part
    <3> QED BY <2>3, <2>4, <3>1
  <2> QED BY <2>5
<1>7. K \in C
  <2> HIDE DEF C
  <2> QED BY <1>5, <1>6, SetInduction
<1>8. among(K) = S
  OBVIOUS
<1> QED BY <1>7, <1>8 DEF s

\* What stands for each of some keys is worth what they are.
LEMMA SumImage ==
    ASSUME NEW K, IsFiniteSet(K), NEW R, \A j, k \in K : R[j] = R[k] => j = k,
           NEW f, NEW h, \A k \in K : h[k] = f[R[k]] /\ h[k] \in Int
    PROVE  /\ IsFiniteSet({R[k] : k \in K})
           /\ SumFunctionOnSet(f, {R[k] : k \in K}) = SumFunctionOnSet(h, K)
<1> DEFINE im(L) == {R[k] : k \in L}
           S == im(K)
           g == [k \in K |-> R[k]]
           C == {L \in SUBSET K : SumFunctionOnSet(f, im(L)) = SumFunctionOnSet(h, L)}
<1>1. IsFiniteSet(S)
  <2>1. g \in Surjection(K, S)
    BY DEF Surjection
  <2> QED BY <2>1, FS_Surjection
<1>2. \A x \in S : f[x] \in Int
  OBVIOUS
<1>3. /\ SumFunctionOnSet(f, {}) = 0
      /\ \A T \in SUBSET S : \A x \in S \ T :
            SumFunctionOnSet(f, T \cup {x}) = SumFunctionOnSet(f, T) + f[x]
  <2> HIDE DEF S
  <2> QED BY <1>1, <1>2, SumFacts
<1>4. /\ SumFunctionOnSet(h, {}) = 0
      /\ \A L \in SUBSET K : \A k \in K \ L :
            SumFunctionOnSet(h, L \cup {k}) = SumFunctionOnSet(h, L) + h[k]
  BY SumFacts
<1>5. {} \in C
  <2>1. im({}) = {}
    OBVIOUS
  <2> QED BY <1>3, <1>4, <2>1
<1>6. ASSUME NEW L \in SUBSET K, L \in C, NEW k \in K \ L
      PROVE  L \cup {k} \in C
  <2>1. im(L \cup {k}) = im(L) \cup {R[k]} /\ R[k] \in S \ im(L) /\ im(L) \in SUBSET S
    OBVIOUS
  <2>2. SumFunctionOnSet(f, im(L \cup {k})) = SumFunctionOnSet(f, im(L)) + f[R[k]]
    <3> HIDE DEF im, S
    <3> QED BY <1>3, <2>1
  <2>3. SumFunctionOnSet(h, L \cup {k}) = SumFunctionOnSet(h, L) + h[k]
    BY <1>4
  <2>4. SumFunctionOnSet(f, im(L)) = SumFunctionOnSet(h, L) /\ h[k] = f[R[k]]
    BY <1>6
  <2>5. SumFunctionOnSet(f, im(L \cup {k})) = SumFunctionOnSet(h, L \cup {k})
    <3> HIDE DEF im
    <3> QED BY <2>2, <2>3, <2>4
  <2> QED BY <2>5
<1>7. K \in C
  <2> HIDE DEF C
  <2> QED BY <1>5, <1>6, SetInduction
<1> QED BY <1>1, <1>7

\* Elements are counted by adding one for each.
LEMMA SumOfOnes ==
    ASSUME NEW S, IsFiniteSet(S), NEW f, \A x \in S : f[x] = 1
    PROVE  SumFunctionOnSet(f, S) = Cardinality(S)
<1> DEFINE C == {T \in SUBSET S : SumFunctionOnSet(f, T) = Cardinality(T)}
<1>1. /\ SumFunctionOnSet(f, {}) = 0
      /\ \A T \in SUBSET S : \A x \in S \ T :
            SumFunctionOnSet(f, T \cup {x}) = SumFunctionOnSet(f, T) + 1
  <2>1. \A x \in S : f[x] \in Int
    OBVIOUS
  <2> QED BY <2>1, SumFacts
<1>2. {} \in C
  BY <1>1, FS_EmptySet
<1>3. ASSUME NEW T \in SUBSET S, T \in C, NEW x \in S \ T
      PROVE  T \cup {x} \in C
  <2>1. Cardinality(T \cup {x}) = Cardinality(T) + 1
    BY FS_Subset, FS_AddElement
  <2>2. SumFunctionOnSet(f, T \cup {x}) = Cardinality(T \cup {x})
    BY <1>1, <1>3, <2>1
  <2> QED BY <2>2
<1>4. S \in C
  <2> HIDE DEF C
  <2> QED BY <1>2, <1>3, SetInduction
<1> QED BY <1>4

\* Functions need not be given as such.
LEMMA SumAll ==
    ASSUME NEW S, IsFiniteSet(S), NEW f, DOMAIN f = S, NEW g,
           \A x \in S : f[x] = g[x] /\ g[x] \in Int
    PROVE  SumFunction(f) = SumFunctionOnSet(g, S)
<1>1. SumFunction(f) = SumFunctionOnSet(f, S)
  BY DEF SumFunction
<1> QED BY <1>1, SumSame

-----------------------------------------------------------------------------
(***************************************************************************)
(* Totals of activities.                                                   *)
(***************************************************************************)
\* What is summed of activities.
Fields == {"minutes", "chars"}
Measured(logs) == \A l \in logs : l.minutes \in Int /\ l.chars \in Int

\* Any of a set of activities come to a sum over them.
LEMMA TotalIs ==
    ASSUME NEW logs, IsFiniteSet(logs), Measured(logs), NEW part \in SUBSET logs
    PROVE  /\ Total(part) = [minutes |-> Total(part).minutes, chars |-> Total(part).chars]
           /\ \A field \in Fields : Total(part)[field] \in Int
           /\ \A field \in Fields :
                Total(part)[field] = SumFunctionOnSet([l \in logs |-> l[field]], part)
<1>1. IsFiniteSet(part)
  BY FS_Subset
<1>2. Minutes(part) = SumFunctionOnSet([l \in logs |-> l.minutes], part)
  <2> DEFINE f == [l \in part |-> l.minutes]
             g == [l \in logs |-> l.minutes]
  <2>1. DOMAIN f = part /\ \A x \in part : f[x] = g[x] /\ g[x] \in Int
    BY DEF Measured
  <2>2. SumFunction(f) = SumFunctionOnSet(g, part)
    <3> HIDE DEF f, g
    <3> QED BY <1>1, <2>1, SumAll
  <2> QED BY <2>2 DEF Minutes
<1>3. Chars(part) = SumFunctionOnSet([l \in logs |-> l.chars], part)
  <2> DEFINE f == [l \in part |-> l.chars]
             g == [l \in logs |-> l.chars]
  <2>1. DOMAIN f = part /\ \A x \in part : f[x] = g[x] /\ g[x] \in Int
    BY DEF Measured
  <2>2. SumFunction(f) = SumFunctionOnSet(g, part)
    <3> HIDE DEF f, g
    <3> QED BY <1>1, <2>1, SumAll
  <2> QED BY <2>2 DEF Chars
<1>4. ASSUME NEW g, \A x \in logs : g[x] \in Int
      PROVE  SumFunctionOnSet(g, part) \in Int
  BY <1>4, SumFacts
<1>5. Minutes(part) \in Int /\ Chars(part) \in Int
  <2>1. \A x \in logs : [l \in logs |-> l.minutes][x] \in Int /\ [l \in logs |-> l.chars][x] \in Int
    BY DEF Measured
  <2> QED BY <1>2, <1>3, <1>4, <2>1
<1> QED BY <1>2, <1>3, <1>5 DEF Total, Fields

\* Totals add up.
LEMMA TotalJoin ==
    ASSUME NEW logs, IsFiniteSet(logs), Measured(logs),
           NEW A \in SUBSET logs, NEW B \in SUBSET logs, A \cap B = {}
    PROVE  Total(A \cup B) = Plus(Total(A), Total(B))
<1>1. \A T \in {A, B, A \cup B} :
        /\ Total(T) = [minutes |-> Total(T).minutes, chars |-> Total(T).chars]
        /\ Total(T).minutes = SumFunctionOnSet([l \in logs |-> l.minutes], T)
        /\ Total(T).chars = SumFunctionOnSet([l \in logs |-> l.chars], T)
  <2> SUFFICES ASSUME NEW T \in {A, B, A \cup B} PROVE
        /\ Total(T) = [minutes |-> Total(T).minutes, chars |-> Total(T).chars]
        /\ Total(T).minutes = SumFunctionOnSet([l \in logs |-> l.minutes], T)
        /\ Total(T).chars = SumFunctionOnSet([l \in logs |-> l.chars], T)
    OBVIOUS
  <2>1. T \in SUBSET logs
    OBVIOUS
  <2> QED BY <2>1, TotalIs DEF Fields
<1>2. ASSUME NEW g, \A x \in logs : g[x] \in Int
      PROVE  SumFunctionOnSet(g, A \cup B) = SumFunctionOnSet(g, A) + SumFunctionOnSet(g, B)
  BY <1>2, SumJoin
<1>3. \A x \in logs : [l \in logs |-> l.minutes][x] \in Int /\ [l \in logs |-> l.chars][x] \in Int
  BY DEF Measured
<1>4. /\ Total(A \cup B).minutes = Total(A).minutes + Total(B).minutes
      /\ Total(A \cup B).chars = Total(A).chars + Total(B).chars
  BY <1>1, <1>2, <1>3
<1> QED BY <1>1, <1>4 DEF Plus

\* The rows that stand for some values.
Rows(R, K) == {R[k] : k \in K}

\* Rows that stand for the parts of some activities, one for each, come to their total.
LEMMA RowsAddUp ==
    ASSUME NEW logs, IsFiniteSet(logs), Measured(logs),
           NEW K, IsFiniteSet(K), NEW p, \A l \in logs : p[l] \in K,
           NEW R, \A j, k \in K : R[j] = R[k] => j = k,
           \A k \in K : R[k].total = Total(Part(logs, p, k))
    PROVE  IsFiniteSet(Rows(R, K)) /\ SumOf(Rows(R, K)) = Total(logs)
<1> DEFINE rows == {R[k] : k \in K}
<1>1. ASSUME NEW field \in Fields
      PROVE  IsFiniteSet(rows) /\ Sum(field, rows) = Total(logs)[field]
  <2> DEFINE f == [l \in logs |-> l[field]]
             h == [k \in K |-> Total(Part(logs, p, k))[field]]
             w == [r \in rows |-> r.total[field]]
  <2>1. \A k \in K : h[k] \in Int /\ h[k] = SumFunctionOnSet(f, Part(logs, p, k))
    <3> SUFFICES ASSUME NEW k \in K
                 PROVE  h[k] \in Int /\ h[k] = SumFunctionOnSet(f, Part(logs, p, k))
      OBVIOUS
    <3>1. Part(logs, p, k) \in SUBSET logs
      BY DEF Part
    <3> QED BY <3>1, TotalIs
  <2>2. \A l \in logs : f[l] \in Int
    BY DEF Measured, Fields
  <2>3. SumFunctionOnSet(h, K) = SumFunctionOnSet(f, logs)
    <3> HIDE DEF f, h
    <3> QED BY <2>1, <2>2, SumParts
  <2>4. \A k \in K : h[k] = w[R[k]] /\ h[k] \in Int
    <3> HIDE DEF f
    <3> QED BY <2>1
  <2>5. IsFiniteSet(rows) /\ SumFunctionOnSet(w, rows) = SumFunctionOnSet(h, K)
    <3>1. \A v, e : (\A k \in K : e[k] = v[R[k]] /\ e[k] \in Int) =>
            IsFiniteSet(rows) /\ SumFunctionOnSet(v, rows) = SumFunctionOnSet(e, K)
      BY SumImage
    <3> HIDE DEF h, w, rows
    <3> QED BY <2>4, <3>1
  <2>6. SumFunction(w) = SumFunctionOnSet(w, rows)
    BY DEF SumFunction
  <2>7. SumFunctionOnSet(f, logs) = Total(logs)[field]
    <3>1. logs \in SUBSET logs
      OBVIOUS
    <3> QED BY <3>1, TotalIs
  <2> HIDE DEF f, h
  <2> QED BY <2>3, <2>5, <2>6, <2>7 DEF Sum
<1>2. Total(logs) = [minutes |-> Total(logs).minutes, chars |-> Total(logs).chars]
  <2>1. logs \in SUBSET logs
    OBVIOUS
  <2> QED BY <2>1, TotalIs
<1>3. "minutes" \in Fields /\ "chars" \in Fields
  BY DEF Fields
<1> QED BY <1>1, <1>2, <1>3 DEF SumOf, Rows

-----------------------------------------------------------------------------
(***************************************************************************)
(* The calendar.                                                           *)
(***************************************************************************)

\* A period begins no later than a day in it, and ends no earlier.
LEMMA Floor ==
    ASSUME NEW d \in Int, NEW n \in Nat \ {0}
    PROVE  /\ (d \div n) * n \in Int /\ d \div n \in Int
           /\ (d \div n) * n <= d /\ d < (d \div n) * n + n
<1>1. d = n * (d \div n) + (d % n) /\ d % n \in 0 .. n - 1 /\ d \div n \in Int
  OBVIOUS
<1>2. n * (d \div n) = (d \div n) * n /\ (d \div n) * n \in Int
  BY <1>1
<1> QED BY <1>1, <1>2

\* A period is known by its number.
LEMMA Number ==
    ASSUME NEW d \in Int, NEW n \in Nat \ {0}, NEW q \in Int, q * n <= d, d < q * n + n
    PROVE  d \div n = q
<1> DEFINE r == d \div n
<1>1. r \in Int /\ r * n <= d /\ d < r * n + n
  BY Floor
<1> HIDE DEF r
<1>2. ~ (r < q)
  <2> SUFFICES ASSUME r < q PROVE FALSE
    OBVIOUS
  <2>1. r + 1 <= q
    BY <1>1
  <2>2. (r + 1) * n <= q * n
    BY <1>1, <2>1
  <2>3. (r + 1) * n = r * n + n
    BY <1>1
  <2>4. r * n \in Int /\ q * n \in Int
    BY <1>1
  <2> QED BY <1>1, <2>2, <2>3, <2>4
<1>3. ~ (q < r)
  <2> SUFFICES ASSUME q < r PROVE FALSE
    OBVIOUS
  <2>1. q + 1 <= r
    BY <1>1
  <2>2. (q + 1) * n <= r * n
    BY <1>1, <2>1
  <2>3. (q + 1) * n = q * n + n
    BY <1>1
  <2>4. r * n \in Int /\ q * n \in Int
    BY <1>1
  <2> QED BY <1>1, <2>2, <2>3, <2>4
<1>4. r = q
  BY <1>1, <1>2, <1>3
<1> QED BY <1>4 DEF r

\* The lengths of the periods: each is so many of the finer ones.
LEMMA Lengths ==
    /\ \A p \in Precision : Days(p) \in Nat \ {0}
    /\ Days("day") = 1 /\ Days("month") = MonthDays /\ Days("year") = YearDays
    /\ \E c \in Nat \ {0} : YearDays = c * MonthDays
<1>1. \A p \in Precision : Days(p) \in Nat \ {0}
  BY CalendarAssumption DEF Precision, Days
<1>2. \E c \in Nat \ {0} : YearDays = c * MonthDays
  <2> DEFINE c == YearDays \div MonthDays
  <2>1. MonthDays \in Nat \ {0} /\ YearDays \in Nat \ {0} /\ YearDays % MonthDays = 0
    BY CalendarAssumption
  <2>2. YearDays = MonthDays * c + (YearDays % MonthDays) /\ c \in Int
    BY <2>1
  <2>3. YearDays = c * MonthDays
    BY <2>1, <2>2
  <2>4. c > 0
    <3> SUFFICES ASSUME c <= 0 PROVE FALSE
      BY <2>2
    <3>1. c * MonthDays <= 0
      <4> HIDE DEF c
      <4> QED BY <2>1, <2>2
    <3> QED BY <2>1, <2>3, <3>1
  <2>5. c \in Nat \ {0}
    BY <2>2, <2>4
  <2> QED BY <2>3, <2>5
<1> QED BY <1>1, <1>2 DEF Days

\* The first day of a period is in it.
LEMMA AnchorFacts ==
    ASSUME NEW d \in Int, NEW p \in Precision
    PROVE  /\ Anchor(d, p) \in Int /\ Anchor(d, p) <= d /\ d < Anchor(d, p) + Days(p)
           /\ Anchor(Anchor(d, p), p) = Anchor(d, p)
<1> DEFINE n == Days(p)
           q == d \div n
<1>1. n \in Nat \ {0}
  BY Lengths
<1>2. q \in Int /\ q * n \in Int /\ q * n <= d /\ d < q * n + n
  BY <1>1, Floor
<1>3. (q * n) \div n = q
  <2> HIDE DEF n, q
  <2>1. q * n <= q * n /\ q * n < q * n + n
    BY <1>1, <1>2
  <2> QED BY <1>1, <1>2, <2>1, Number
<1> QED BY <1>2, <1>3 DEF Anchor

\* Days that share a month share a year.
LEMMA SameYear ==
    ASSUME NEW d \in Int, NEW g \in {"month", "year"}
    PROVE  YearOf(Anchor(d, g)) = YearOf(d)
<1> DEFINE y == d \div YearDays
<1>0. YearDays \in Nat \ {0} /\ MonthDays \in Nat \ {0}
  BY CalendarAssumption
<1>1. y \in Int /\ y * YearDays \in Int /\ y * YearDays <= d /\ d < y * YearDays + YearDays
  BY <1>0, Floor
<1>2. CASE g = "year"
  <2>1. Anchor(d, g) = y * YearDays
    BY <1>2 DEF Anchor, Days
  <2>2. (y * YearDays) \div YearDays = y
    <3> HIDE DEF y
    <3>1. y * YearDays <= y * YearDays /\ y * YearDays < y * YearDays + YearDays
      BY <1>0, <1>1
    <3> QED BY <1>0, <1>1, <3>1, Number
  <2> QED BY <2>1, <2>2 DEF YearOf
<1>3. CASE g = "month"
  <2> DEFINE m == d \div MonthDays
  <2>1. m \in Int /\ m * MonthDays \in Int /\ m * MonthDays <= d /\ d < m * MonthDays + MonthDays
    BY <1>0, Floor
  <2>2. PICK c \in Nat \ {0} : YearDays = c * MonthDays
    BY Lengths
  <2>3. (y * c) * MonthDays = y * YearDays /\ y * c \in Int
    <3> HIDE DEF y
    <3> QED BY <1>0, <1>1, <2>2
  <2>4. y * c <= m
    <3> SUFFICES ASSUME m + 1 <= y * c PROVE FALSE
      <4> HIDE DEF m, y
      <4> QED BY <2>1, <2>3
    <3> HIDE DEF m, y
    <3> DEFINE k == y * c
    <3>1. k \in Int /\ m + 1 <= k
      BY <2>3
    <3>2. (m + 1) * MonthDays <= k * MonthDays
      <4> HIDE DEF k
      <4> QED BY <1>0, <2>1, <3>1
    <3>3. (m + 1) * MonthDays = m * MonthDays + MonthDays
      BY <1>0, <2>1
    <3>4. k * MonthDays = y * YearDays
      BY <2>3
    <3>5. m * MonthDays + MonthDays <= y * YearDays
      BY <3>2, <3>3, <3>4
    <3> QED BY <1>0, <1>1, <2>1, <3>5
  <2>5. y * YearDays <= m * MonthDays
    <3> HIDE DEF m, y
    <3> DEFINE k == y * c
    <3>1. k \in Int /\ k <= m
      BY <2>3, <2>4
    <3>2. k * MonthDays <= m * MonthDays
      <4> HIDE DEF k
      <4> QED BY <1>0, <2>1, <3>1
    <3> QED BY <2>3, <3>2
  <2>6. (m * MonthDays) \div YearDays = y
    <3> HIDE DEF m, y
    <3>1. m * MonthDays < y * YearDays + YearDays
      BY <1>0, <1>1, <2>1
    <3> QED BY <1>0, <1>1, <2>1, <2>5, <3>1, Number
  <2>7. Anchor(d, g) = m * MonthDays
    BY <1>3 DEF Anchor, Days
  <2> QED BY <2>6, <2>7 DEF YearOf
<1> QED BY <1>2, <1>3

\* A library as Views assumes it, whatever was edited.
Dated(l) == /\ l.precision \in Precision /\ l.id \in Int /\ l.date \in Int
            /\ l.minutes \in Int /\ l.chars \in Int /\ l.date = Anchor(l.date, l.precision)
Kept(b) ==
    /\ IsFiniteSet(b.media) /\ IsFiniteSet(b.logs) /\ IsFiniteSet(b.stones)
    /\ \A m \in b.media : m.id \in Int /\ \A n \in b.media : m.id = n.id => m = n
    /\ \A l \in b.logs : Dated(l) /\ (\E m \in b.media : l.media = m.id) /\ l # None
    /\ \A l, k \in b.logs : l.id = k.id => l = k
    /\ \A s \in b.stones : s.date \in Int \cup {None}
    /\ \A l \in b.logs : Other \notin {l.type, l.media}
    /\ \A m \in b.media : Other \notin {m.type, m.content}

-----------------------------------------------------------------------------
\* The least and the greatest of some numbers.
LEMMA MaxFacts ==
    ASSUME NEW S \in SUBSET Int, IsFiniteSet(S), S # {}
    PROVE  Max(S) \in S /\ \A x \in S : x <= Max(S)
<1> DEFINE C == {T \in SUBSET S : T = {} \/ \E m \in T : \A x \in T : x <= m}
<1>1. {} \in C
  OBVIOUS
<1>2. ASSUME NEW T \in SUBSET S, T \in C, NEW x \in S \ T
      PROVE  T \cup {x} \in C
  <2>1. CASE T = {}
    BY <2>1
  <2>2. CASE T # {}
    <3>1. PICK m \in T : \A y \in T : y <= m
      BY <1>2, <2>2
    <3>2. m \in Int /\ x \in Int /\ T \subseteq Int
      OBVIOUS
    <3>3. CASE x <= m
      BY <3>1, <3>2, <3>3
    <3>4. CASE m < x
      <4>1. \A y \in T \cup {x} : y <= x
        BY <3>1, <3>2, <3>4
      <4> QED BY <4>1
    <3> QED BY <3>2, <3>3, <3>4
  <2> QED BY <2>1, <2>2
<1>3. S \in C
  <2> HIDE DEF C
  <2> QED BY <1>1, <1>2, SetInduction
<1>4. \E m \in S : \A x \in S : m >= x
  BY <1>3
<1>5. Max(S) \in S /\ \A x \in S : Max(S) >= x
  BY <1>4 DEF Max
<1> QED BY <1>5

\* The same of the least.
LEMMA MinFacts ==
    ASSUME NEW S \in SUBSET Int, IsFiniteSet(S), S # {}
    PROVE  Min(S) \in S /\ \A x \in S : Min(S) <= x
<1> DEFINE C == {T \in SUBSET S : T = {} \/ \E m \in T : \A x \in T : m <= x}
<1>1. {} \in C
  OBVIOUS
<1>2. ASSUME NEW T \in SUBSET S, T \in C, NEW x \in S \ T
      PROVE  T \cup {x} \in C
  <2>1. CASE T = {}
    BY <2>1
  <2>2. CASE T # {}
    <3>1. PICK m \in T : \A y \in T : m <= y
      BY <1>2, <2>2
    <3>2. m \in Int /\ x \in Int /\ T \subseteq Int
      OBVIOUS
    <3>3. CASE m <= x
      BY <3>1, <3>2, <3>3
    <3>4. CASE x < m
      <4>1. \A y \in T \cup {x} : x <= y
        BY <3>1, <3>2, <3>4
      <4> QED BY <4>1
    <3> QED BY <3>2, <3>3, <3>4
  <2> QED BY <2>1, <2>2
<1>3. S \in C
  <2> HIDE DEF C
  <2> QED BY <1>1, <1>2, SetInduction
<1>4. \E m \in S : \A x \in S : m <= x
  BY <1>3
<1>5. Min(S) \in S /\ \A x \in S : Min(S) <= x
  BY <1>4 DEF Min
<1> QED BY <1>5

\* The image of a finite set is finite.
LEMMA ImageFinite ==
    ASSUME NEW S, IsFiniteSet(S), NEW f
    PROVE  IsFiniteSet({f[x] : x \in S})
<1> DEFINE g == [x \in S |-> f[x]]
<1>1. g \in Surjection(S, {f[x] : x \in S})
  BY DEF Surjection
<1> QED BY <1>1, FS_Surjection

\* The days of an entry are numbers, and finitely many.
LEMMA DaysOf ==
    ASSUME NEW b, Kept(b), NEW logs \in SUBSET b.logs
    PROVE  {l.date : l \in logs} \in SUBSET Int /\ IsFiniteSet({l.date : l \in logs})
<1> DEFINE f == [l \in logs |-> l.date]
<1>1. IsFiniteSet(logs)
  BY FS_Subset DEF Kept
<1>2. {l.date : l \in logs} = {f[l] : l \in logs}
  OBVIOUS
<1>3. IsFiniteSet({f[l] : l \in logs})
  <2> HIDE DEF f
  <2> QED BY <1>1, ImageFinite
<1>4. {l.date : l \in logs} \in SUBSET Int
  BY DEF Kept, Dated
<1> QED BY <1>2, <1>3, <1>4

\* An entry that has days has a first and a last.
LEMMA DayFacts ==
    ASSUME NEW b, Kept(b), NEW m \in b.media, HasDays(b, m)
    PROVE  FirstDay(b, m) \in Int /\ LastDay(b, m) \in Int
<1> DEFINE S == {l.date : l \in DayLogs(b, m)}
<1>1. DayLogs(b, m) \in SUBSET b.logs
  BY DEF DayLogs, LogsOf
<1>2. S \in SUBSET Int /\ IsFiniteSet(S)
  BY <1>1, DaysOf
<1>3. S # {}
  BY DEF HasDays
<1>4. Max(S) \in Int /\ Min(S) \in Int
  <2> HIDE DEF S
  <2> QED BY <1>2, <1>3, MaxFacts, MinFacts
<1> QED BY <1>4 DEF FirstDay, LastDay

\* What an event is made from.
LEMMA EventShape ==
    ASSUME NEW b, NEW e \in Events(b)
    PROVE  \E m \in b.media :
              \/ HasDays(b, m) /\ Terminal(m) /\ e = Ending(b, m)
              \/ HasDays(b, m) /\ ~SameDayTerminal(b, m) /\ e = Beginning(b, m)
              \/ \E s \in b.stones : s.date # None /\ e = Event("milestone", s.date, m, s.id)
<1>1. CASE e \in StoneEvents(b)
  <2>1. PICK p \in {q \in b.stones \X b.media : q[1].media = q[2].id /\ q[1].date # None} :
            e = Event("milestone", p[1].date, p[2], p[1].id)
    BY <1>1 DEF StoneEvents
  <2>2. p[1] \in b.stones /\ p[2] \in b.media /\ p[1].date # None
    OBVIOUS
  <2> QED BY <2>1, <2>2
<1>2. CASE \E m \in b.media : e \in LifeEvents(b, m)
  <2>1. PICK m \in b.media : e \in LifeEvents(b, m)
    BY <1>2
  <2> QED BY <2>1 DEF LifeEvents
<1> QED BY <1>1, <1>2 DEF Events

\* An event is of an entry, on a day.
LEMMA EventFacts ==
    ASSUME NEW b, Kept(b), NEW e \in Events(b)
    PROVE  e.media \in b.media /\ e.date \in Int
<1>1. PICK m \in b.media :
              \/ HasDays(b, m) /\ Terminal(m) /\ e = Ending(b, m)
              \/ HasDays(b, m) /\ ~SameDayTerminal(b, m) /\ e = Beginning(b, m)
              \/ \E s \in b.stones : s.date # None /\ e = Event("milestone", s.date, m, s.id)
  BY EventShape
<1>2. CASE HasDays(b, m) /\ (e = Ending(b, m) \/ e = Beginning(b, m))
  BY <1>2, DayFacts DEF Ending, Beginning, Event
<1>3. CASE \E s \in b.stones : s.date # None /\ e = Event("milestone", s.date, m, s.id)
  <2>1. PICK s \in b.stones : s.date # None /\ e = Event("milestone", s.date, m, s.id)
    BY <1>3
  <2>2. s.date \in Int
    BY <2>1 DEF Kept
  <2> QED BY <2>1, <2>2 DEF Event
<1> QED BY <1>1, <1>2, <1>3

\* The events of a library are finitely many.
LEMMA EventsFinite ==
    ASSUME NEW b, IsFiniteSet(b.media), IsFiniteSet(b.stones)
    PROVE  IsFiniteSet(Events(b))
<1> DEFINE e1 == [m \in b.media |-> Ending(b, m)]
           e2 == [m \in b.media |-> Beginning(b, m)]
           e3 == [p \in b.stones \X b.media |-> Event("milestone", p[1].date, p[2], p[1].id)]
           E1 == {e1[m] : m \in b.media}
           E2 == {e2[m] : m \in b.media}
           E3 == {e3[p] : p \in b.stones \X b.media}
<1>1. IsFiniteSet(b.stones \X b.media) /\ IsFiniteSet(b.media)
  BY FS_Product
<1>2. IsFiniteSet(E1) /\ IsFiniteSet(E2) /\ IsFiniteSet(E3)
  <2> HIDE DEF e1, e2, e3
  <2> QED BY <1>1, ImageFinite
<1>3. Events(b) \subseteq E1 \cup E2 \cup E3
  <2> SUFFICES ASSUME NEW e \in Events(b) PROVE e \in E1 \cup E2 \cup E3
    OBVIOUS
  <2>1. PICK m \in b.media :
              \/ HasDays(b, m) /\ Terminal(m) /\ e = Ending(b, m)
              \/ HasDays(b, m) /\ ~SameDayTerminal(b, m) /\ e = Beginning(b, m)
              \/ \E s \in b.stones : s.date # None /\ e = Event("milestone", s.date, m, s.id)
    BY EventShape
  <2>2. CASE e = Ending(b, m)
    BY <2>2
  <2>3. CASE e = Beginning(b, m)
    BY <2>3
  <2>4. CASE \E s \in b.stones : s.date # None /\ e = Event("milestone", s.date, m, s.id)
    <3>1. PICK s \in b.stones : e = Event("milestone", s.date, m, s.id)
      BY <2>4
    <3>2. <<s, m>> \in b.stones \X b.media
      OBVIOUS
    <3>3. e = e3[<<s, m>>]
      BY <3>1, <3>2
    <3> QED BY <3>2, <3>3
  <2> QED BY <2>1, <2>2, <2>3, <2>4
<1>4. IsFiniteSet(E1 \cup E2 \cup E3)
  <2> HIDE DEF E1, E2, E3
  <2>1. IsFiniteSet(E1 \cup E2)
    BY <1>2, FS_Union
  <2> QED BY <1>2, <2>1, FS_Union
<1> QED BY <1>3, <1>4, FS_Subset

-----------------------------------------------------------------------------
(***************************************************************************)
(* Months and years, when nothing is searched for.                         *)
(***************************************************************************)
\* The grains of a bucket, the choices of a year, and what is in a bucket.
Grain == {"month", "year"}
YearChoice == Int \cup {None}
In(b, g, k) == {l \in Finer(b, g) : Key(l.date, g) = k}
EventsIn(b, g, k) == {e \in Events(b) : Key(e.date, g) = k}

\* No search leaves anything out.
LEMMA NothingSought ==
    ASSUME NEW b, Kept(b), NEW g
    PROVE  /\ FoundEvents(b, None) = Events(b) /\ FoundMedia(b, None) = b.media
           /\ Logged(b, g, None) = Finer(b, g)
           /\ YearEvents(b, None, None) = Events(b)
           /\ \A y \in Int : YearEvents(b, y, None) = {e \in Events(b) : YearOf(e.date) = y}
<1>1. FoundEvents(b, None) = Events(b)
  BY DEF FoundEvents, EventMatches, MediaMatches
<1>2. FoundMedia(b, None) = b.media
  BY <1>1, EventFacts DEF FoundMedia, MediaMatches
<1>3. Logged(b, g, None) = Finer(b, g)
  <2>1. \A l \in Finer(b, g) : \E m \in b.media : l.media = m.id
    BY DEF Finer, Kept
  <2> QED BY <1>2, <2>1 DEF Logged
<1>4. None \notin Int
  BY TimelineAssumption
<1> QED BY <1>1, <1>2, <1>3, <1>4 DEF YearEvents, InYear

\* The keys are the beginnings of the periods.
LEMMA KeyFacts ==
    ASSUME NEW b, Kept(b), NEW g \in Grain
    PROVE  /\ IsFiniteSet(Keys(b, g, None, None)) /\ Keys(b, g, None, None) \subseteq Int
           /\ \A e \in Events(b) : Key(e.date, g) \in Keys(b, g, None, None)
           /\ \A l \in Finer(b, g) : Key(l.date, g) \in Keys(b, g, None, None)
           /\ \A k \in Keys(b, g, None, None) : Key(k, g) = k
           /\ \A y \in Int : Keys(b, g, y, None) = {k \in Keys(b, g, None, None) : YearOf(k) = y}
<1> DEFINE fe == [e \in Events(b) |-> Key(e.date, g)]
           fl == [l \in Finer(b, g) |-> Key(l.date, g)]
           KE == {fe[e] : e \in Events(b)}
           KL == {fl[l] : l \in Finer(b, g)}
           all == Keys(b, g, None, None)
<1>0. g \in Precision /\ g \in {"month", "year"} /\ None \notin Int
  BY TimelineAssumption DEF Grain, Precision
<1>1. all = KE \cup KL
  <2>1. all = {k \in {Key(e.date, g) : e \in Events(b)} \cup {Key(l.date, g) : l \in Finer(b, g)} :
                    InYear(k, None)}
    BY NothingSought DEF Keys
  <2>2. \A k : InYear(k, None)
    BY DEF InYear
  <2>3. {Key(e.date, g) : e \in Events(b)} = KE
    OBVIOUS
  <2>4. {Key(l.date, g) : l \in Finer(b, g)} = KL
    OBVIOUS
  <2> HIDE DEF KE, KL
  <2> QED BY <2>1, <2>2, <2>3, <2>4
<1>2. IsFiniteSet(Events(b)) /\ IsFiniteSet(Finer(b, g))
  BY EventsFinite, FS_Subset DEF Kept, Finer
<1>3. IsFiniteSet(all)
  <2>1. IsFiniteSet(KE) /\ IsFiniteSet(KL)
    <3> HIDE DEF fe, fl
    <3> QED BY <1>2, ImageFinite
  <2> HIDE DEF KE, KL
  <2> QED BY <1>1, <2>1, FS_Union
<1>4. \A e \in Events(b) : e.date \in Int
  BY EventFacts
<1>5. \A l \in Finer(b, g) : l.date \in Int
  BY DEF Finer, Kept, Dated
<1>6. \A d \in Int : Key(d, g) \in Int /\ Key(Key(d, g), g) = Key(d, g)
                     /\ YearOf(Key(d, g)) = YearOf(d)
  BY <1>0, AnchorFacts, SameYear DEF Key
<1>7. \A k \in all : k \in Int /\ Key(k, g) = k
  BY <1>1, <1>4, <1>5, <1>6
<1>8. ASSUME NEW y \in Int
      PROVE  Keys(b, g, y, None) = {k \in all : YearOf(k) = y}
  <2>1. Keys(b, g, y, None) =
            {k \in {Key(e.date, g) : e \in {x \in Events(b) : YearOf(x.date) = y}}
                   \cup {Key(l.date, g) : l \in Finer(b, g)} : YearOf(k) = y}
    <3>1. Logged(b, g, None) = Finer(b, g)
          /\ YearEvents(b, y, None) = {x \in Events(b) : YearOf(x.date) = y}
      BY NothingSought
    <3>2. \A k : InYear(k, y) <=> YearOf(k) = y
      BY <1>0 DEF InYear
    <3> QED BY <3>1, <3>2 DEF Keys
  <2> QED BY <1>1, <1>4, <1>6, <2>1
<1> QED BY <1>1, <1>3, <1>7, <1>8

\* What a bucket says of its period, whether a year was selected or not.
LEMMA BucketIs ==
    ASSUME NEW b, Kept(b), NEW g \in Grain, NEW k \in Keys(b, g, None, None)
    PROVE  /\ Bucket(b, g, None, None, k).key = k
           /\ Bucket(b, g, None, None, k).total = Total(In(b, g, k))
           /\ Bucket(b, g, YearOf(k), None, k) = Bucket(b, g, None, None, k)
<1>0. g \in Precision /\ k \in Int /\ YearOf(k) \in Int /\ g \in {"month", "year"}
  <2>1. k \in Int
    BY KeyFacts
  <2>2. YearOf(k) \in Int
    BY <2>1, CalendarAssumption, Floor DEF YearOf
  <2> QED BY <2>1, <2>2 DEF Grain, Precision
<1>1. Logged(b, g, None) = Finer(b, g) /\ YearEvents(b, None, None) = Events(b)
      /\ YearEvents(b, YearOf(k), None) = {e \in Events(b) : YearOf(e.date) = YearOf(k)}
  BY <1>0, NothingSought
<1>2. {e \in YearEvents(b, YearOf(k), None) : Key(e.date, g) = k} = EventsIn(b, g, k)
  <2>1. \A e \in Events(b) : Key(e.date, g) = k => YearOf(e.date) = YearOf(k)
    BY <1>0, EventFacts, SameYear DEF Key
  <2> QED BY <1>1, <2>1 DEF EventsIn
<1>3. {e \in YearEvents(b, None, None) : Key(e.date, g) = k} = EventsIn(b, g, k)
  BY <1>1 DEF EventsIn
<1>4. {l \in Logged(b, g, None) : Key(l.date, g) = k} = In(b, g, k)
  BY <1>1 DEF In
<1>5. Bucket(b, g, YearOf(k), None, k) = Bucket(b, g, None, None, k)
  BY <1>2, <1>3 DEF Bucket
<1>6. /\ Bucket(b, g, None, None, k).key = k
      /\ Bucket(b, g, None, None, k).total = Total(In(b, g, k))
  BY <1>4 DEF Bucket
<1> QED BY <1>5, <1>6

LEMMA BucketCounts ==
    ASSUME NEW b, Kept(b), NEW g \in Grain, NEW k \in Keys(b, g, None, None)
    PROVE  Bucket(b, g, None, None, k).count =
                [kind \in {e.kind : e \in EventsIn(b, g, k)} |->
                    Cardinality({e \in EventsIn(b, g, k) : e.kind = kind})]
<1>1. YearEvents(b, None, None) = Events(b)
  BY NothingSought
<1>2. {e \in YearEvents(b, None, None) : Key(e.date, g) = k} = EventsIn(b, g, k)
  BY <1>1 DEF EventsIn
<1> QED BY <1>2 DEF Bucket

\* The activities of a library that are finely dated, and their measures.
LEMMA FinerFacts ==
    ASSUME NEW b, Kept(b), NEW g, NEW logs \in SUBSET b.logs
    PROVE  IsFiniteSet(logs) /\ Measured(logs)
  BY FS_Subset DEF Kept, Measured, Dated

\* What is kept of some keys: none later than one of them is dropped, and if there
\* is room for more then none is.
LEMMA TruncatedFacts ==
    ASSUME NEW K \in SUBSET Int, IsFiniteSet(K)
    PROVE  /\ Truncated(K) \in SUBSET K /\ IsFiniteSet(Truncated(K))
           /\ \A k \in Truncated(K), j \in K : k <= j => j \in Truncated(K)
           /\ Cardinality(Truncated(K)) <= MaxBuckets
           /\ Cardinality(K) <= MaxBuckets => Truncated(K) = K
           /\ Cardinality(Truncated(K)) < MaxBuckets => Truncated(K) = K
<1> DEFINE after(k) == {j \in K : j > k}
           T == Truncated(K)
<1>0. MaxBuckets \in Nat \ {0}
  BY TimelineAssumption
<1>1. T = {k \in K : Cardinality(after(k)) < MaxBuckets}
  BY DEF Truncated
<1>2. \A S \in SUBSET K : IsFiniteSet(S) /\ Cardinality(S) \in Nat
  BY FS_Subset, FS_CardinalityType
<1>3. T \in SUBSET K /\ IsFiniteSet(T)
  <2>1. T \in SUBSET K
    BY <1>1
  <2> HIDE DEF T
  <2> QED BY <1>2, <2>1
<1>4. ASSUME NEW k \in T, NEW j \in K, k <= j PROVE j \in T
  <2>1. after(j) \in SUBSET after(k) /\ after(k) \in SUBSET K /\ after(j) \in SUBSET K
    <3>1. j \in Int /\ k \in Int /\ k \in K
      BY <1>3
    <3>2. \A i \in K : i > j => i > k
      BY <1>4, <3>1
    <3> QED BY <3>2
  <2>2. Cardinality(after(j)) <= Cardinality(after(k))
    <3> HIDE DEF after
    <3> QED BY <1>2, <2>1, FS_Subset
  <2>3. Cardinality(after(j)) \in Nat /\ Cardinality(after(k)) \in Nat
    <3> HIDE DEF after
    <3> QED BY <1>2, <2>1
  <2>4. Cardinality(after(k)) < MaxBuckets
    BY <1>1, <1>4
  <2>5. Cardinality(after(j)) < MaxBuckets
    BY <1>0, <2>2, <2>3, <2>4
  <2> QED BY <1>1, <2>5
<1>5. Cardinality(T) <= MaxBuckets
  <2>1. CASE T = {}
    BY <1>0, <2>1, FS_EmptySet
  <2>2. CASE T # {}
    <3>1. PICK k \in T : \A j \in T : k <= j
      <4>1. T \in SUBSET Int /\ IsFiniteSet(T)
        BY <1>3
      <4> HIDE DEF T
      <4> QED BY <2>2, <4>1, MinFacts
    <3>2. T \in SUBSET after(k) \cup {k} /\ after(k) \in SUBSET K /\ k \notin after(k)
      <4>1. k \in Int /\ \A j \in T : j \in K /\ j \in Int /\ k <= j
        BY <1>3, <3>1
      <4>2. \A j \in T : j = k \/ j \in after(k)
        <5> HIDE DEF T
        <5> QED BY <4>1
      <4>3. after(k) \in SUBSET K /\ k \notin after(k)
        BY <4>1
      <4> HIDE DEF T, after
      <4> QED BY <4>2, <4>3
    <3>3. IsFiniteSet(after(k)) /\ Cardinality(after(k)) \in Nat
      <4> HIDE DEF after
      <4> QED BY <1>2, <3>2
    <3>4. /\ IsFiniteSet(after(k) \cup {k})
          /\ Cardinality(after(k) \cup {k}) = Cardinality(after(k)) + 1
      <4> HIDE DEF after
      <4> QED BY <3>2, <3>3, FS_AddElement
    <3>5. Cardinality(T) <= Cardinality(after(k) \cup {k})
      <4> HIDE DEF after, T
      <4> QED BY <3>2, <3>4, FS_Subset
    <3>6. Cardinality(after(k)) < MaxBuckets
      BY <1>1, <3>1
    <3>7. Cardinality(T) \in Nat
      <4> HIDE DEF T
      <4> QED BY <1>2, <1>3
    <3> QED BY <1>0, <3>3, <3>4, <3>5, <3>6, <3>7
  <2> QED BY <2>1, <2>2
<1>6. ASSUME Cardinality(K) <= MaxBuckets PROVE T = K
  <2> SUFFICES ASSUME NEW k \in K PROVE Cardinality(after(k)) < MaxBuckets
    BY <1>1
  <2>1. after(k) \in SUBSET (K \ {k})
    OBVIOUS
  <2>2. IsFiniteSet(K \ {k}) /\ Cardinality(K \ {k}) = Cardinality(K) - 1
    BY FS_RemoveElement
  <2>3. Cardinality(after(k)) <= Cardinality(K) - 1
    <3> HIDE DEF after
    <3> QED BY <2>1, <2>2, FS_Subset
  <2>4. Cardinality(after(k)) \in Nat /\ Cardinality(K) \in Nat
    <3> HIDE DEF after
    <3> QED BY <1>2, <2>1
  <2> QED BY <1>0, <1>6, <2>3, <2>4
<1>7. ASSUME Cardinality(T) < MaxBuckets PROVE T = K
  <2> SUFFICES ASSUME K \ T # {} PROVE FALSE
    BY <1>3
  <2>1. PICK k \in K \ T : \A j \in K \ T : j <= k
    <3>1. K \ T \in SUBSET Int /\ IsFiniteSet(K \ T)
      BY FS_Subset
    <3> HIDE DEF T
    <3> QED BY <3>1, MaxFacts
  <2>2. after(k) \in SUBSET T
    <3>1. k \in Int /\ \A j \in K \ T : j \in Int /\ ~(j > k)
      BY <2>1
    <3> HIDE DEF T
    <3> QED BY <3>1
  <2>3. Cardinality(after(k)) <= Cardinality(T)
    <3> HIDE DEF after, T
    <3> QED BY <1>3, <2>2, FS_Subset
  <2>4. Cardinality(after(k)) \in Nat /\ Cardinality(T) \in Nat
    <3>1. after(k) \in SUBSET K
      OBVIOUS
    <3> HIDE DEF after, T
    <3> QED BY <1>2, <1>3, <3>1
  <2>5. Cardinality(after(k)) < MaxBuckets
    BY <1>0, <1>7, <2>3, <2>4
  <2> QED BY <1>1, <2>1, <2>5
<1> HIDE DEF after
<1> QED BY <1>3, <1>4, <1>5, <1>6, <1>7 DEF T

\* A period that begins no later than a day begins no later than the day's own.
LEMMA PeriodReached ==
    ASSUME NEW d \in Int, NEW k \in Int, NEW g \in Grain, Key(k, g) = k
    PROVE  k <= d <=> k <= Key(d, g)
<1> DEFINE n == Days(g)
           a == Key(d, g)
<1>0. g \in Precision /\ n \in Nat \ {0}
  BY Lengths DEF Grain, Precision
<1>1. a \in Int /\ a <= d /\ d < a + n
  BY <1>0, AnchorFacts DEF Key
<1>2. ASSUME k <= d, a < k PROVE FALSE
  <2>1. a = (d \div n) * n /\ k = (k \div n) * n /\ d \div n \in Int
    BY <1>0, Floor DEF Key, Anchor
  <2>2. k \div n = d \div n
    <3> DEFINE q == d \div n
    <3>1. q \in Int /\ q * n = a
      BY <2>1
    <3>2. q * n <= k /\ k < q * n + n
      <4>1. \A c \in Int, e \in Nat : c < k /\ k <= d /\ d < c + e => c <= k /\ k < c + e
        OBVIOUS
      <4> HIDE DEF n, q, a
      <4> QED BY <1>0, <1>1, <1>2, <3>1, <4>1
    <3> HIDE DEF n, q
    <3>3. k \div n = q
      BY <1>0, <3>1, <3>2, Number
    <3> QED BY <3>3 DEF q
  <2>3. a = k
    BY <2>1, <2>2
  <2> QED BY <1>2, <2>3
<1> HIDE DEF a
<1> QED BY <1>1, <1>2 DEF a

\* There is room for the months of a year, and for a year.
LEMMA YearFits ==
    ASSUME NEW b, Kept(b), NEW g \in Grain, NEW y \in Int
    PROVE  Truncated(Keys(b, g, y, None)) = Keys(b, g, y, None)
<1> DEFINE K == Keys(b, g, y, None)
           n == Days(g)
           f == [k \in K |-> k \div n]
<1>0. /\ n \in Nat \ {0} /\ YearDays \in Nat \ {0} /\ MaxBuckets \in Nat \ {0}
      /\ MonthDays \in Nat \ {0} /\ YearDays <= MaxBuckets * MonthDays
  BY Lengths, CalendarAssumption, TimelineAssumption DEF Grain, Precision
<1>1. PICK c \in Nat \ {0} : YearDays = c * n /\ c <= MaxBuckets
  <2>1. CASE g = "year"
    <3>1. n = YearDays /\ 1 * YearDays = YearDays /\ 1 <= MaxBuckets
      BY <1>0, <2>1, Lengths
    <3> QED BY <3>1
  <2>2. CASE g = "month"
    <3>1. PICK c \in Nat \ {0} : YearDays = c * MonthDays
      BY Lengths
    <3>2. n = MonthDays
      BY <2>2, Lengths
    <3>3. c <= MaxBuckets
      <4> SUFFICES ASSUME MaxBuckets + 1 <= c PROVE FALSE
        BY <1>0
      <4>1. (MaxBuckets + 1) * MonthDays <= c * MonthDays
        BY <1>0
      <4>2. (MaxBuckets + 1) * MonthDays = MaxBuckets * MonthDays + MonthDays
        BY <1>0
      <4>3. MaxBuckets * MonthDays \in Int /\ c * MonthDays \in Int
        BY <1>0
      <4> QED BY <1>0, <3>1, <4>1, <4>2, <4>3
    <3> QED BY <3>1, <3>2, <3>3
  <2> QED BY <2>1, <2>2 DEF Grain
<1>2. /\ K = {k \in Keys(b, g, None, None) : YearOf(k) = y}
      /\ K \in SUBSET Int /\ IsFiniteSet(K) /\ \A k \in K : Key(k, g) = k /\ YearOf(k) = y
  <2>1. K = {k \in Keys(b, g, None, None) : YearOf(k) = y}
    BY KeyFacts
  <2> HIDE DEF K
  <2> QED BY <2>1, KeyFacts, FS_Subset
<1>3. ASSUME NEW k \in K PROVE f[k] \in y * c .. y * c + c - 1 /\ k = f[k] * n
  <2> DEFINE q == k \div n
  <2>1. k \in Int /\ q \in Int /\ k = q * n
    <3>1. k \in Int /\ Key(k, g) = k
      BY <1>2
    <3>2. k = (k \div n) * n
      BY <3>1 DEF Key, Anchor
    <3> QED BY <1>0, <3>1, <3>2, Floor
  <2>2. y * YearDays <= k /\ k < y * YearDays + YearDays
    <3>1. YearOf(k) = y
      BY <1>2
    <3>2. k \div YearDays = y
      BY <3>1 DEF YearOf
    <3> QED BY <1>0, <2>1, <3>2, Floor
  <2> HIDE DEF n, q, K
  <2>3. y * YearDays = (y * c) * n /\ y * c \in Int
    BY <1>0, <1>1
  <2> DEFINE m == y * c
  <2> HIDE DEF m
  <2>4. m \in Int /\ m * n <= q * n /\ q * n < m * n + c * n
    BY <1>1, <2>1, <2>2, <2>3 DEF m
  <2>5. (m + c) * n = m * n + c * n
    BY <1>0, <2>4
  <2>6. m <= q
    <3> SUFFICES ASSUME q + 1 <= m PROVE FALSE
      BY <2>1, <2>4
    <3>1. (q + 1) * n <= m * n /\ (q + 1) * n = q * n + n
      BY <1>0, <2>1, <2>4
    <3>2. q * n \in Int /\ m * n \in Int
      BY <1>0, <2>1, <2>4
    <3> QED BY <1>0, <2>4, <3>1, <3>2
  <2>7. q < m + c
    <3> SUFFICES ASSUME m + c <= q PROVE FALSE
      BY <2>1, <2>4
    <3>1. (m + c) * n <= q * n
      BY <1>0, <2>1, <2>4
    <3>2. q * n \in Int /\ (m + c) * n \in Int
      BY <1>0, <2>1, <2>4
    <3> QED BY <2>4, <2>5, <3>1, <3>2
  <2>8. q \in m .. m + c - 1
    BY <2>1, <2>4, <2>6, <2>7
  <2> USE DEF q
  <2> QED BY <2>1, <2>8 DEF m
<1>4. Cardinality(K) <= MaxBuckets
  <2> DEFINE I == y * c .. y * c + c - 1
  <2>1. IsFiniteSet(I) /\ Cardinality(I) = c
    <3> DEFINE m == y * c
    <3>1. m \in Int
      OBVIOUS
    <3> HIDE DEF m
    <3>2. m + c - 1 \in Int /\ ~(m > m + c - 1) /\ (m + c - 1) - m + 1 = c
      BY <3>1
    <3>3. IsFiniteSet(m .. m + c - 1) /\ Cardinality(m .. m + c - 1) = c
      BY <3>1, <3>2, FS_Interval
    <3> QED BY <3>3 DEF m
  <2>2. f \in Injection(K, I)
    <3>1. f \in [K -> I]
      <4>1. \A k \in K : f[k] \in I
        BY <1>3
      <4> HIDE DEF I, K
      <4> QED BY <4>1
    <3>2. \A j, k \in K : f[j] = f[k] => j = k
      <4> HIDE DEF f, K, n
      <4> QED BY <1>3
    <3> HIDE DEF f, K, I
    <3> QED BY <3>1, <3>2 DEF Injection, IsInjective
  <2> HIDE DEF f, K, I
  <2>3. Cardinality(K) <= Cardinality(I) /\ Cardinality(K) \in Nat
    BY <2>1, <2>2, FS_Injection, FS_CardinalityType
  <2> QED BY <1>0, <1>1, <2>1, <2>3
<1> HIDE DEF K
<1> QED BY <1>2, <1>4, TruncatedFacts DEF K

\* The periods there are buckets of.
InBuckets(b, g) == Truncated(Keys(b, g, None, None))

\* The days that the buckets reach are those in one of them.
LEMMA Reached ==
    ASSUME NEW b, Kept(b), NEW g \in Grain
    PROVE  /\ InBuckets(b, g) \in SUBSET Keys(b, g, None, None) /\ IsFiniteSet(InBuckets(b, g))
           /\ \A d \in Int : Key(d, g) \in Keys(b, g, None, None) =>
                ((\E k \in Buckets(b, g, None, None) : k.key <= d) <=> Key(d, g) \in InBuckets(b, g))
<1> DEFINE all == Keys(b, g, None, None)
           T == InBuckets(b, g)
           R == [k \in T |-> Bucket(b, g, None, None, k)]
<1>1. all \in SUBSET Int /\ IsFiniteSet(all) /\ \A k \in all : Key(k, g) = k
  BY KeyFacts
<1>2. /\ T \in SUBSET all /\ IsFiniteSet(T)
      /\ \A k \in T, j \in all : k <= j => j \in T
  <2> HIDE DEF all
  <2>1. Truncated(all) = T
    BY DEF all, InBuckets
  <2> HIDE DEF T
  <2> QED BY <1>1, <2>1, TruncatedFacts
<1>3. \A k \in T : R[k].key = k
  <2>1. \A k \in T : R[k] = Bucket(b, g, None, None, k)
    OBVIOUS
  <2> HIDE DEF R, T
  <2> QED BY <1>2, <2>1, BucketIs
<1>4. Buckets(b, g, None, None) = {R[k] : k \in T}
  BY DEF Buckets, InBuckets
<1>5. ASSUME NEW d \in Int, Key(d, g) \in all
      PROVE  (\E k \in Buckets(b, g, None, None) : k.key <= d) <=> Key(d, g) \in T
  <2> HIDE DEF T, all, R
  <2>1. \A k \in T : k <= d <=> k <= Key(d, g)
    <3>1. \A k \in T : k \in Int /\ Key(k, g) = k
      BY <1>1, <1>2
    <3> QED BY <3>1, PeriodReached
  <2>2. Key(d, g) <= Key(d, g)
    <3>1. \A i \in all : i <= i
      BY <1>1
    <3> QED BY <1>5, <3>1
  <2>3. (\E k \in Buckets(b, g, None, None) : k.key <= d) <=> \E k \in T : k <= d
    BY <1>3, <1>4
  <2> QED BY <1>2, <1>5, <2>1, <2>2, <2>3
<1> QED BY <1>2, <1>5

\* The buckets of the periods of a year, and the activities that are dated in it.
YearRows(b, g, y) ==
    {Bucket(b, g, None, None, k) : k \in {j \in Keys(b, g, None, None) : YearOf(j) = y}}
YearLogs(b, g, y) == {l \in Finer(b, g) : YearOf(l.date) = y}

\* The buckets come to the activities that are finely dated: all that they reach, or
\* those of a year.
LEMMA BucketsTotal ==
    ASSUME NEW b, Kept(b), NEW g \in Grain
    PROVE  /\ IsFiniteSet(Buckets(b, g, None, None))
           /\ SumOf(Buckets(b, g, None, None)) =
                Total({l \in Finer(b, g) : Key(l.date, g) \in InBuckets(b, g)})
           /\ \A y \in Int : SumOf(YearRows(b, g, y)) = Total(YearLogs(b, g, y))
<1> DEFINE all == Keys(b, g, None, None)
           R == [k \in all |-> Bucket(b, g, None, None, k)]
           p == [l \in Finer(b, g) |-> Key(l.date, g)]
<1>1. Finer(b, g) \in SUBSET b.logs
  BY DEF Finer
<1>2. ASSUME NEW k \in all PROVE R[k].key = k /\ R[k].total = Total(In(b, g, k))
  <2>1. R[k] = Bucket(b, g, None, None, k)
    OBVIOUS
  <2> HIDE DEF R
  <2> QED BY <2>1, BucketIs
<1>3. IsFiniteSet(all)
  BY KeyFacts
<1>4. ASSUME NEW K \in SUBSET all, NEW logs \in SUBSET Finer(b, g),
             \A l \in logs : p[l] \in K,
             \A k \in K : In(b, g, k) \subseteq logs
      PROVE  IsFiniteSet(Rows(R, K)) /\ SumOf(Rows(R, K)) = Total(logs)
  <2>1. IsFiniteSet(logs) /\ Measured(logs)
    BY <1>1, FinerFacts
  <2>2. IsFiniteSet(K)
    BY <1>3, FS_Subset
  <2>3. \A j, k \in K : R[j] = R[k] => j = k
    <3> HIDE DEF R
    <3> QED BY <1>2
  <2>4. \A k \in K : R[k].total = Total(Part(logs, p, k))
    <3> SUFFICES ASSUME NEW k \in K PROVE R[k].total = Total(Part(logs, p, k))
      OBVIOUS
    <3>1. Part(logs, p, k) = In(b, g, k)
      BY <1>4 DEF In, Part
    <3> HIDE DEF R, p
    <3> QED BY <1>2, <3>1
  <2>5. \A l \in logs : p[l] \in K
    BY <1>4
  <2>6. \A q, r : /\ \A l \in logs : q[l] \in K
                  /\ \A j, k \in K : r[j] = r[k] => j = k
                  /\ \A k \in K : r[k].total = Total(Part(logs, q, k))
                  => IsFiniteSet(Rows(r, K)) /\ SumOf(Rows(r, K)) = Total(logs)
    BY <2>1, <2>2, RowsAddUp
  <2> HIDE DEF R, p, all
  <2> QED BY <2>3, <2>4, <2>5, <2>6
<1> DEFINE T == InBuckets(b, g)
           within == {l \in Finer(b, g) : Key(l.date, g) \in T}
<1>5. IsFiniteSet(Rows(R, T)) /\ SumOf(Rows(R, T)) = Total(within)
  <2>1. within \in SUBSET Finer(b, g) /\ \A l \in within : p[l] \in T
    OBVIOUS
  <2>2. \A k \in T : In(b, g, k) \subseteq within
    BY DEF In
  <2>3. T \in SUBSET all
    BY Reached
  <2> HIDE DEF R, p, T, within
  <2> QED BY <1>4, <2>1, <2>2, <2>3
<1>6. ASSUME NEW y \in Int
      PROVE  SumOf(Rows(R, {j \in all : YearOf(j) = y}))
                = Total(YearLogs(b, g, y))
  <2> DEFINE K == {j \in all : YearOf(j) = y}
             logs == {l \in Finer(b, g) : YearOf(l.date) = y}
  <2>1. \A l \in Finer(b, g) : l.date \in Int /\ YearOf(p[l]) = YearOf(l.date) /\ p[l] \in all
    <3>1. \A l \in Finer(b, g) : l.date \in Int
      BY DEF Finer, Kept, Dated
    <3> QED BY <3>1, KeyFacts, SameYear DEF Key, Grain
  <2>2. \A l \in logs : p[l] \in K
    <3> HIDE DEF p
    <3> QED BY <2>1
  <2>3. \A k \in K : In(b, g, k) \subseteq logs
    BY <2>1 DEF In
  <2>4. logs \in SUBSET Finer(b, g) /\ K \in SUBSET all /\ logs = YearLogs(b, g, y)
    BY DEF YearLogs
  <2>5. SumOf(Rows(R, K)) = Total(logs)
    <3> HIDE DEF p, R, K, logs, all
    <3> QED BY <1>4, <2>2, <2>3, <2>4
  <2> QED BY <2>4, <2>5
<1>7. Rows(R, T) = Buckets(b, g, None, None)
  <2>1. \A k \in T : R[k] = Bucket(b, g, None, None, k)
    BY Reached
  <2> HIDE DEF R
  <2> QED BY <2>1 DEF Buckets, Rows, InBuckets
<1>8. \A y \in Int : Rows(R, {j \in all : YearOf(j) = y}) = YearRows(b, g, y)
  BY DEF Rows, YearRows
<1> HIDE DEF R
<1> QED BY <1>5, <1>6, <1>7, <1>8

\* The buckets of a year are those of the whole timeline that lie in it, and before
\* what these reach the same again.
LEMMA BucketsOfYear ==
    ASSUME NEW b, Kept(b), NEW g \in Grain, NEW y \in Int
    PROVE  /\ Buckets(b, g, y, None) = YearRows(b, g, y)
           /\ {k \in Buckets(b, g, y, None) :
                    \E j \in Buckets(b, g, None, None) : j.key <= k.key}
                = {k \in Buckets(b, g, None, None) : YearOf(k.key) = y}
<1> DEFINE all == Keys(b, g, None, None)
<1>1. Keys(b, g, y, None) = {k \in all : YearOf(k) = y}
  BY KeyFacts
<1>2. ASSUME NEW k \in all
      PROVE  /\ Bucket(b, g, None, None, k).key = k
             /\ Bucket(b, g, YearOf(k), None, k) = Bucket(b, g, None, None, k)
  BY BucketIs
<1>3. Buckets(b, g, y, None) = {Bucket(b, g, None, None, k) : k \in {j \in all : YearOf(j) = y}}
  <2>1. Truncated(Keys(b, g, y, None)) = Keys(b, g, y, None)
    BY YearFits
  <2> QED BY <1>1, <1>2, <2>1 DEF Buckets
<1> DEFINE T == InBuckets(b, g)
           R == [k \in all |-> Bucket(b, g, None, None, k)]
<1>4. Buckets(b, g, None, None) = {R[k] : k \in T} /\ T \in SUBSET all
  <2>1. T \in SUBSET all
    BY Reached
  <2>2. \A k \in T : R[k] = Bucket(b, g, None, None, k)
    BY <2>1
  <2> HIDE DEF R
  <2> QED BY <2>1, <2>2 DEF Buckets, InBuckets
<1>5. Buckets(b, g, y, None) = {R[k] : k \in {j \in all : YearOf(j) = y}}
  BY <1>3
<1>6. \A k \in all : R[k].key = k
  BY <1>2
<1>7. \A k \in all : (\E j \in Buckets(b, g, None, None) : j.key <= k) <=> k \in T
  <2>1. \A k \in all : k \in Int /\ Key(k, g) = k
    BY KeyFacts
  <2> HIDE DEF T, R
  <2> QED BY <2>1, Reached DEF T
<1> HIDE DEF all, T, R
<1>8. {k \in Buckets(b, g, y, None) : \E j \in Buckets(b, g, None, None) : j.key <= k.key}
        = {k \in Buckets(b, g, None, None) : YearOf(k.key) = y}
  BY <1>4, <1>5, <1>6, <1>7
<1> QED BY <1>3, <1>8 DEF YearRows, all

\* There are no more of them than there may be, and if there are fewer they reach
\* everything.
LEMMA BucketsReach ==
    ASSUME NEW b, Kept(b), NEW g \in Grain
    PROVE  /\ Cardinality(Buckets(b, g, None, None)) <= MaxBuckets
           /\ Cardinality(Buckets(b, g, None, None)) < MaxBuckets =>
                InBuckets(b, g) = Keys(b, g, None, None)
<1> DEFINE all == Keys(b, g, None, None)
           T == InBuckets(b, g)
           B == Buckets(b, g, None, None)
           R == [k \in T |-> Bucket(b, g, None, None, k)]
<1>1. T \in SUBSET all /\ IsFiniteSet(T)
  BY Reached
<1>2. B = {R[k] : k \in T}
  BY DEF Buckets, InBuckets
<1>3. \A k \in T : R[k].key = k
  <2>1. \A k \in T : R[k] = Bucket(b, g, None, None, k)
    OBVIOUS
  <2> HIDE DEF R, T
  <2> QED BY <1>1, <2>1, BucketIs
<1>4. R \in Surjection(T, B) /\ R \in Injection(T, B)
  <2>1. R \in [T -> B]
    <3>1. \A k \in T : R[k] \in B
      <4> HIDE DEF R, T, B
      <4> QED BY <1>2
    <3> HIDE DEF T, B
    <3> QED BY <3>1
  <2> HIDE DEF R, T, B
  <2> QED BY <1>2, <1>3, <2>1 DEF Surjection, Injection, IsInjective
<1>5. Cardinality(B) = Cardinality(T)
  <2> HIDE DEF R, T, B
  <2> QED BY <1>1, <1>4, FS_Surjection
<1>6. /\ Cardinality(T) <= MaxBuckets
      /\ Cardinality(T) < MaxBuckets => T = all
  <2>1. all \in SUBSET Int /\ IsFiniteSet(all) /\ T = Truncated(all)
    BY KeyFacts DEF InBuckets
  <2> HIDE DEF all, T
  <2> QED BY <2>1, TruncatedFacts
<1> QED BY <1>5, <1>6

\* Every year that can be selected has some.
LEMMA YearsHaveBuckets ==
    ASSUME NEW b, Kept(b), NEW g \in Grain, NEW y \in BucketYears(b, g)
    PROVE  y \in Int /\ Buckets(b, g, y, None) # {}
<1>1. PICK d \in Int : y = YearOf(d) /\ Key(d, g) \in Keys(b, g, None, None)
  <2>1. CASE \E e \in Events(b) : y = YearOf(e.date)
    BY <2>1, EventFacts, KeyFacts
  <2>2. CASE \E l \in Finer(b, g) : y = YearOf(l.date)
    <3>1. \A l \in Finer(b, g) : l.date \in Int
      BY DEF Finer, Kept, Dated
    <3> QED BY <2>2, <3>1, KeyFacts
  <2> QED BY <2>1, <2>2 DEF BucketYears, EventYears
<1>2. y \in Int
  BY <1>1, CalendarAssumption, Floor DEF YearOf
<1>3. YearOf(Key(d, g)) = y
  BY <1>1, SameYear DEF Key, Grain
<1>4. YearRows(b, g, y) # {}
  BY <1>1, <1>3 DEF YearRows
<1> QED BY <1>2, <1>4, BucketsOfYear

\* The buckets count each event in their reach once.
LEMMA EventsCounted ==
    ASSUME NEW b, Kept(b), NEW g \in Grain
    PROVE  SumFunction([k \in Buckets(b, g, None, None) |-> SumFunction(k.count)])
                = Cardinality({e \in Events(b) : Key(e.date, g) \in InBuckets(b, g)})
<1> DEFINE all == InBuckets(b, g)
           within == {e \in Events(b) : Key(e.date, g) \in all}
           R == [k \in all |-> Bucket(b, g, None, None, k)]
           ones == [e \in Events(b) |-> 1]
           p == [e \in within |-> Key(e.date, g)]
           h == [k \in all |-> Cardinality(EventsIn(b, g, k))]
           counts == [k \in Buckets(b, g, None, None) |-> SumFunction(k.count)]
<1>1. IsFiniteSet(all) /\ IsFiniteSet(Events(b))
  BY Reached, EventsFinite DEF Kept
<1>2. \A T \in SUBSET Events(b) :
        IsFiniteSet(T) /\ SumFunctionOnSet(ones, T) = Cardinality(T) /\ Cardinality(T) \in Nat
  <2> SUFFICES ASSUME NEW T \in SUBSET Events(b)
               PROVE  IsFiniteSet(T) /\ SumFunctionOnSet(ones, T) = Cardinality(T) /\ Cardinality(T) \in Nat
    OBVIOUS
  <2>1. IsFiniteSet(T) /\ Cardinality(T) \in Nat
    BY <1>1, FS_Subset, FS_CardinalityType
  <2>2. \A x \in T : ones[x] = 1
    OBVIOUS
  <2> HIDE DEF ones
  <2> QED BY <2>1, <2>2, SumOfOnes
<1>3. ASSUME NEW k \in all
      PROVE  SumFunction(R[k].count) = h[k] /\ h[k] \in Int /\ R[k].key = k
  <2> DEFINE E == EventsIn(b, g, k)
             kind == [e \in E |-> e.kind]
             kinds == {kind[e] : e \in E}
             c == [x \in {e.kind : e \in E} |-> Cardinality({e \in E : e.kind = x})]
  <2>1. E \in SUBSET Events(b)
    BY DEF EventsIn
  <2>2. IsFiniteSet(E) /\ SumFunctionOnSet(ones, E) = Cardinality(E) /\ Cardinality(E) \in Nat
    BY <1>2, <2>1
  <2>3. IsFiniteSet(kinds)
    <3> HIDE DEF E, kind
    <3> QED BY <2>2, ImageFinite
  <2>4. kinds = {e.kind : e \in E}
    OBVIOUS
  <2>5. \A x \in kinds : c[x] = SumFunctionOnSet(ones, Part(E, kind, x))
    <3> SUFFICES ASSUME NEW x \in kinds
                 PROVE  c[x] = SumFunctionOnSet(ones, Part(E, kind, x))
      OBVIOUS
    <3>1. Part(E, kind, x) = {e \in E : e.kind = x}
      BY DEF Part
    <3>2. {e \in E : e.kind = x} \in SUBSET Events(b)
      BY <2>1
    <3>3. c[x] = Cardinality({e \in E : e.kind = x})
      BY <2>4
    <3>4. SumFunctionOnSet(ones, {e \in E : e.kind = x}) = Cardinality({e \in E : e.kind = x})
      <4> HIDE DEF E, ones
      <4> QED BY <1>2, <3>2
    <3> QED BY <3>1, <3>3, <3>4
  <2>6. SumFunctionOnSet(c, kinds) = SumFunctionOnSet(ones, E)
    <3>1. \A x \in E : ones[x] \in Int /\ kind[x] \in kinds
      BY <2>1
    <3>2. \A q, f, K : /\ IsFiniteSet(K) /\ \A x \in E : f[x] \in Int /\ q[x] \in K
                       => \A z : (\A x \in K : z[x] = SumFunctionOnSet(f, Part(E, q, x)))
                            => SumFunctionOnSet(z, K) = SumFunctionOnSet(f, E)
      <4> HIDE DEF E
      <4> QED BY <2>2, SumParts
    <3> HIDE DEF kind, ones, c, E, kinds
    <3> QED BY <2>3, <2>5, <3>1, <3>2
  <2>7. R[k].count = c /\ R[k].key = k
    <3>1. k \in Keys(b, g, None, None)
      BY Reached
    <3>2. R[k] = Bucket(b, g, None, None, k)
      OBVIOUS
    <3> QED BY <3>1, <3>2, BucketCounts, BucketIs
  <2>8. SumFunction(c) = SumFunctionOnSet(c, kinds)
    BY <2>4 DEF SumFunction
  <2> QED BY <2>2, <2>6, <2>7, <2>8
<1>4. SumFunctionOnSet(h, all) = SumFunctionOnSet(ones, within)
  <2>0. IsFiniteSet(within)
    BY <1>2
  <2>1. \A x \in within : ones[x] \in Int /\ p[x] \in all
    OBVIOUS
  <2>2. \A k \in all : h[k] = SumFunctionOnSet(ones, Part(within, p, k))
    <3> SUFFICES ASSUME NEW k \in all
                 PROVE  h[k] = SumFunctionOnSet(ones, Part(within, p, k))
      OBVIOUS
    <3>1. Part(within, p, k) = EventsIn(b, g, k)
      BY DEF EventsIn, Part
    <3>2. EventsIn(b, g, k) \in SUBSET Events(b)
      BY DEF EventsIn
    <3> HIDE DEF ones
    <3> QED BY <1>2, <3>1, <3>2
  <2> HIDE DEF ones, p, h, all, within
  <2> QED BY <1>1, <2>0, <2>1, <2>2, SumParts
<1>5. Rows(R, all) = Buckets(b, g, None, None)
  BY DEF Rows, Buckets, InBuckets
<1>6. \A k \in all : counts[R[k]] = h[k] /\ h[k] \in Int
  <2>1. \A k \in all : R[k] \in Buckets(b, g, None, None)
    BY DEF Buckets, InBuckets
  <2> HIDE DEF R, h
  <2> QED BY <1>3, <2>1
<1>7. SumFunctionOnSet(counts, Rows(R, all)) = SumFunctionOnSet(h, all)
  <2>1. \A j, k \in all : R[j] = R[k] => j = k
    <3> HIDE DEF R, h
    <3> QED BY <1>3
  <2> HIDE DEF R, h, counts, all
  <2>2. \A k \in all : h[k] = counts[R[k]] /\ h[k] \in Int
    BY <1>6
  <2> QED BY <1>1, <2>1, <2>2, SumImage DEF Rows
<1>8. SumFunction(counts) = SumFunctionOnSet(counts, Rows(R, all))
  BY <1>5 DEF SumFunction
<1>9. SumFunctionOnSet(ones, within) = Cardinality(within)
  BY <1>2
<1> QED BY <1>4, <1>7, <1>8, <1>9

\* Pages and buckets have the same summary: of all activities, and of the
\* entries that were completed and are known to have been.
LEMMA SummariesAgree ==
    ASSUME NEW b, Kept(b)
    PROVE  LET years == BucketSummary(b, "year", None, None)
               page == PageSummary(b, Everything).summary
           IN  /\ years.total = Total(b.logs)
               /\ years.completed = page.completed
               /\ page.completed = Cardinality({m \in b.media : m.tracking = "Complete" /\ HasDays(b, m)})
<1> DEFINE years == BucketSummary(b, "year", None, None)
           page == PageSummary(b, Everything).summary
<1>1. Finer(b, "year") = b.logs
  BY DEF Finer, AtLeast, KeyLength, Kept, Dated, Precision
<1>2. Logged(b, "year", None) = b.logs /\ YearEvents(b, None, None) = Events(b)
  BY <1>1, NothingSought
<1>3. {l \in Logged(b, "year", None) : Key(l.date, "year") \in Keys(b, "year", None, None)} = b.logs
  BY <1>1, <1>2, KeyFacts DEF Grain
<1>4. years = Summary(b, Events(b), {m \in b.media : \E l \in b.logs : l.media = m.id})
  BY <1>2, <1>3 DEF BucketSummary
<1>5. {l \in b.logs : \E m \in {e.media : e \in Events(b)}
                              \cup {m \in b.media : \E k \in b.logs : k.media = m.id} : l.media = m.id}
        = b.logs
  BY DEF Kept
<1>6. years.total = Total(b.logs)
  <2>1. \A E, others, logs :
            logs = {l \in b.logs : \E m \in {e.media : e \in E} \cup others : l.media = m.id}
            => Summary(b, E, others).total = Total(logs)
    BY DEF Summary
  <2> QED BY <1>4, <1>5, <2>1
<1>7. Filtered(b, Everything) = Events(b)
  BY DEF Filtered, Everything, Select, InYear, EventMatches, MediaMatches
<1>8. page = Summary(b, Events(b), {})
  BY <1>7 DEF PageSummary
<1>9. {e.media : e \in {x \in Events(b) : x.kind = "finished"}} =
        {m \in b.media : m.tracking = "Complete" /\ HasDays(b, m)}
  <2>1. ASSUME NEW e \in Events(b), e.kind = "finished"
        PROVE  e.media \in b.media /\ e.media.tracking = "Complete" /\ HasDays(b, e.media)
    <3>1. PICK m \in b.media :
              \/ HasDays(b, m) /\ Terminal(m) /\ e = Ending(b, m)
              \/ HasDays(b, m) /\ ~SameDayTerminal(b, m) /\ e = Beginning(b, m)
              \/ \E s \in b.stones : s.date # None /\ e = Event("milestone", s.date, m, s.id)
      BY EventShape
    <3>2. HasDays(b, m) /\ Terminal(m) /\ e = Ending(b, m)
      BY <2>1, <3>1 DEF Beginning, Event
    <3>3. e.media = m /\ TerminalKind[m.tracking] = "finished"
      BY <2>1, <3>2 DEF Ending, Event
    <3>4. m.tracking \in {"Complete", "Paused", "Dropped"}
      BY <3>2 DEF Terminal, TerminalKind
    <3>5. TerminalKind["Paused"] = "paused" /\ TerminalKind["Dropped"] = "dropped"
      BY DEF TerminalKind
    <3> QED BY <3>2, <3>3, <3>4, <3>5
  <2>2. ASSUME NEW m \in b.media, m.tracking = "Complete", HasDays(b, m)
        PROVE  \E e \in Events(b) : e.kind = "finished" /\ e.media = m
    <3>1. Terminal(m) /\ TerminalKind[m.tracking] = "finished"
      BY <2>2 DEF Terminal, TerminalKind
    <3>2. Ending(b, m) \in Events(b)
      BY <2>2, <3>1 DEF LifeEvents, Events
    <3>3. Ending(b, m).kind = "finished" /\ Ending(b, m).media = m
      BY <3>1 DEF Ending, Event
    <3> QED BY <3>2, <3>3
  <2> QED BY <2>1, <2>2
<1>10. /\ years.completed = Cardinality({e.media : e \in {x \in Events(b) : x.kind = "finished"}})
       /\ page.completed = Cardinality({e.media : e \in {x \in Events(b) : x.kind = "finished"}})
  BY <1>4, <1>8 DEF Summary
<1> QED BY <1>6, <1>9, <1>10

\* A year holds what its months hold, and what is dated by the year.
LEMMA YearsHoldMonths ==
    ASSUME NEW b, Kept(b), NEW k \in Buckets(b, "year", None, None)
    PROVE  k.total = Plus(SumOf(Buckets(b, "month", YearOf(k.key), None)),
                          Total({l \in b.logs : l.precision = "year" /\ YearOf(l.date) = YearOf(k.key)}))
<1>0. YearDays \in Nat \ {0} /\ "year" \in Grain /\ "month" \in Grain
  BY CalendarAssumption DEF Grain
<1>1. PICK j \in Keys(b, "year", None, None) : k = Bucket(b, "year", None, None, j)
  <2>1. PICK j \in InBuckets(b, "year") : k = Bucket(b, "year", None, None, j)
    BY DEF Buckets, InBuckets
  <2> QED BY <1>0, <2>1, Reached
<1>2. k.key = j /\ k.total = Total(In(b, "year", j)) /\ j \in Int /\ Key(j, "year") = j
  <2>1. k.key = j /\ k.total = Total(In(b, "year", j))
    BY <1>0, <1>1, BucketIs
  <2>2. j \in Int /\ Key(j, "year") = j
    BY <1>0, KeyFacts
  <2> QED BY <2>1, <2>2
<1> DEFINE y == YearOf(j)
           A == {l \in Finer(b, "month") : YearOf(l.date) = y}
           Y == {l \in b.logs : l.precision = "year" /\ YearOf(l.date) = y}
<1>3. y \in Int
  BY <1>0, <1>2, Floor DEF YearOf
<1>4. SumOf(Buckets(b, "month", y, None)) = Total(A)
  <2> HIDE DEF y
  <2>1. SumOf(YearRows(b, "month", y)) = Total(YearLogs(b, "month", y))
    BY <1>0, <1>3, BucketsTotal
  <2>2. Buckets(b, "month", y, None) = YearRows(b, "month", y)
    BY <1>0, <1>3, BucketsOfYear
  <2> QED BY <2>1, <2>2 DEF YearLogs
<1>5. In(b, "year", j) = A \cup Y /\ A \cap Y = {} /\ A \in SUBSET b.logs /\ Y \in SUBSET b.logs
  <2>1. \A l \in b.logs : Key(l.date, "year") = j <=> YearOf(l.date) = y
    <3>1. \A d : Key(d, "year") = YearOf(d) * YearDays
      BY DEF Key, Anchor, YearOf, Days
    <3>2. \A l \in b.logs : l.date \in Int
      BY DEF Kept, Dated
    <3>3. \A d \in Int : YearOf(Key(d, "year")) = YearOf(d)
      BY SameYear DEF Key
    <3> QED BY <1>2, <3>1, <3>2, <3>3
  <2>2. \A l \in b.logs : AtLeast(l, "year") /\ (AtLeast(l, "month") <=> l.precision # "year")
    BY DEF AtLeast, KeyLength, Kept, Dated, Precision
  <2> QED BY <2>1, <2>2 DEF In, Finer
<1>6. IsFiniteSet(b.logs) /\ Measured(b.logs)
  BY DEF Kept, Measured, Dated
<1>7. Total(A \cup Y) = Plus(Total(A), Total(Y))
  <2> HIDE DEF A, Y
  <2> QED BY <1>5, <1>6, TotalJoin
<1> QED BY <1>2, <1>4, <1>5, <1>7

\* Months and years account for the history in their reach, whatever the library is.
LEMMA BucketsHold == ASSUME Kept(lib) PROVE BucketsAddUp
<1>1. ASSUME NEW g \in Grain
      PROVE  LET all == Buckets(lib, g, None, None)
                 counts == [k \in all |-> SumFunction(k.count)]
                 reached(day) == \E k \in all : k.key <= day
             IN  /\ SumOf(all) = Total({l \in Finer(lib, g) : reached(l.date)})
                 /\ SumFunction(counts) = Cardinality({e \in Events(lib) : reached(e.date)})
                 /\ Cardinality(all) <= MaxBuckets
                 /\ Cardinality(all) < MaxBuckets =>
                        \A x \in Finer(lib, g) \cup Events(lib) : reached(x.date)
                 /\ \A y \in BucketYears(lib, g) :
                     LET selected == Buckets(lib, g, y, None)
                     IN  /\ SumOf(selected) = Total({l \in Finer(lib, g) : YearOf(l.date) = y})
                         /\ {k \in selected : reached(k.key)} = {k \in all : YearOf(k.key) = y}
                         /\ selected # {}
  <2> DEFINE all == Buckets(lib, g, None, None)
             reached(day) == \E k \in all : k.key <= day
  <2>1. \A x \in Finer(lib, g) \cup Events(lib) :
            /\ Key(x.date, g) \in Keys(lib, g, None, None)
            /\ reached(x.date) <=> Key(x.date, g) \in InBuckets(lib, g)
    <3>1. \A x \in Finer(lib, g) \cup Events(lib) :
            x.date \in Int /\ Key(x.date, g) \in Keys(lib, g, None, None)
      BY KeyFacts, EventFacts DEF Finer, Kept, Dated
    <3> QED BY <3>1, Reached
  <2> HIDE DEF reached
  <2>2. SumOf(all) = Total({l \in Finer(lib, g) : reached(l.date)})
    <3>1. {l \in Finer(lib, g) : reached(l.date)} =
            {l \in Finer(lib, g) : Key(l.date, g) \in InBuckets(lib, g)}
      BY <2>1
    <3> QED BY <3>1, BucketsTotal
  <2>3. SumFunction([k \in all |-> SumFunction(k.count)])
            = Cardinality({e \in Events(lib) : reached(e.date)})
    <3>1. {e \in Events(lib) : reached(e.date)} =
            {e \in Events(lib) : Key(e.date, g) \in InBuckets(lib, g)}
      BY <2>1
    <3> QED BY <3>1, EventsCounted
  <2>4. /\ Cardinality(all) <= MaxBuckets
        /\ Cardinality(all) < MaxBuckets =>
                \A x \in Finer(lib, g) \cup Events(lib) : reached(x.date)
    BY <2>1, BucketsReach
  <2>5. ASSUME NEW y \in BucketYears(lib, g)
        PROVE  LET selected == Buckets(lib, g, y, None)
               IN  /\ SumOf(selected) = Total({l \in Finer(lib, g) : YearOf(l.date) = y})
                   /\ {k \in selected : reached(k.key)} = {k \in all : YearOf(k.key) = y}
                   /\ selected # {}
    <3>1. y \in Int /\ Buckets(lib, g, y, None) # {}
      BY YearsHaveBuckets
    <3>2. SumOf(Buckets(lib, g, y, None)) = Total({l \in Finer(lib, g) : YearOf(l.date) = y})
      <4>1. SumOf(YearRows(lib, g, y)) = Total(YearLogs(lib, g, y))
        BY <3>1, BucketsTotal
      <4>2. Buckets(lib, g, y, None) = YearRows(lib, g, y)
        BY <3>1, BucketsOfYear
      <4> QED BY <4>1, <4>2 DEF YearLogs
    <3>3. {k \in Buckets(lib, g, y, None) : reached(k.key)} = {k \in all : YearOf(k.key) = y}
      BY <3>1, BucketsOfYear DEF reached
    <3> QED BY <3>1, <3>2, <3>3
  <2> QED BY <2>2, <2>3, <2>4, <2>5 DEF reached
<1> QED BY <1>1, SummariesAgree, YearsHoldMonths DEF BucketsAddUp, Grain

-----------------------------------------------------------------------------
(***************************************************************************)
(* Charts.                                                                 *)
(***************************************************************************)

\* A chart of some activities by a bucket and a group, and its buckets.
Points(logs, B, N) == {<<B[l], N[l]>> : l \in logs}
At(logs, B, N, p) == {l \in logs : <<B[l], N[l]>> = p}
Chart(logs, B, N) ==
    {[bucket |-> p[1], group |-> p[2], total |-> Total(At(logs, B, N, p))] : p \in Points(logs, B, N)}
Bars(logs, B) == {[bucket |-> k, total |-> Total(Part(logs, B, k))] : k \in {B[l] : l \in logs}}

\* Its points come to the activities, those of a bucket to the bucket.
LEMMA PointsAddUp ==
    ASSUME NEW logs, IsFiniteSet(logs), Measured(logs), NEW B, NEW N
    PROVE  /\ SumOf(Bars(logs, B)) = Total(logs)
           /\ SumOf(Chart(logs, B, N)) = Total(logs)
           /\ \A t \in Bars(logs, B) :
                SumOf({p \in Chart(logs, B, N) : p.bucket = t.bucket}) = t.total
<1>1. SumOf(Bars(logs, B)) = Total(logs)
  <2> DEFINE K == {B[l] : l \in logs}
             R == [k \in K |-> [bucket |-> k, total |-> Total(Part(logs, B, k))]]
  <2>1. IsFiniteSet(K) /\ \A l \in logs : B[l] \in K
    BY ImageFinite
  <2>2. \A j, k \in K : R[j] = R[k] => j = k
    <3>1. \A k \in K : R[k].bucket = k
      OBVIOUS
    <3> HIDE DEF R
    <3> QED BY <3>1
  <2>3. \A k \in K : R[k].total = Total(Part(logs, B, k))
    OBVIOUS
  <2>4. Bars(logs, B) = Rows(R, K)
    BY DEF Bars, Rows
  <2> HIDE DEF R, K
  <2> QED BY <2>1, <2>2, <2>3, <2>4, RowsAddUp
<1> DEFINE pt == [l \in logs |-> <<B[l], N[l]>>]
           R == [p \in Points(logs, B, N) |->
                    [bucket |-> p[1], group |-> p[2], total |-> Total(At(logs, B, N, p))]]
<1>2. IsFiniteSet(Points(logs, B, N)) /\ \A l \in logs : pt[l] \in Points(logs, B, N)
  <2>1. Points(logs, B, N) = {pt[l] : l \in logs}
    BY DEF Points
  <2> HIDE DEF pt
  <2> QED BY <2>1, ImageFinite
<1>3. \A p \in Points(logs, B, N) :
        /\ p = <<p[1], p[2]>> /\ R[p].bucket = p[1] /\ R[p].group = p[2]
        /\ R[p].total = Total(At(logs, B, N, p))
  BY DEF Points
<1>4. ASSUME NEW some \in SUBSET logs, NEW K \in SUBSET Points(logs, B, N),
             \A l \in logs : l \in some <=> pt[l] \in K
      PROVE  SumOf(Rows(R, K)) = Total(some)
  <2>1. IsFiniteSet(some) /\ Measured(some) /\ IsFiniteSet(K)
    BY <1>2, FS_Subset DEF Measured
  <2>2. \A l \in some : pt[l] \in K
    BY <1>4
  <2>3. \A j, k \in K : R[j] = R[k] => j = k
    <3> HIDE DEF R
    <3> QED BY <1>3
  <2>4. \A k \in K : R[k].total = Total(Part(some, pt, k))
    <3> SUFFICES ASSUME NEW k \in K PROVE R[k].total = Total(Part(some, pt, k))
      OBVIOUS
    <3>1. Part(some, pt, k) = At(logs, B, N, k)
      BY <1>4 DEF Part, At
    <3> HIDE DEF R
    <3> QED BY <1>3, <3>1
  <2> HIDE DEF R, pt
  <2> QED BY <2>1, <2>2, <2>3, <2>4, RowsAddUp
<1>5. Chart(logs, B, N) = Rows(R, Points(logs, B, N))
  BY DEF Chart, Rows
<1>6. SumOf(Chart(logs, B, N)) = Total(logs)
  <2> DEFINE K == Points(logs, B, N)
             some == logs
  <2>1. some \in SUBSET logs /\ K \in SUBSET Points(logs, B, N)
        /\ \A l \in logs : l \in some <=> pt[l] \in K
    <3> HIDE DEF pt
    <3> QED BY <1>2
  <2>2. SumOf(Rows(R, K)) = Total(some)
    <3> HIDE DEF K, some, R, pt
    <3> QED BY <1>4, <2>1
  <2> QED BY <1>5, <2>2
<1>7. ASSUME NEW t \in Bars(logs, B)
      PROVE  SumOf({p \in Chart(logs, B, N) : p.bucket = t.bucket}) = t.total
  <2>1. t.total = Total(Part(logs, B, t.bucket))
    BY DEF Bars
  <2> DEFINE K == {p \in Points(logs, B, N) : p[1] = t.bucket}
             some == Part(logs, B, t.bucket)
  <2>2. {p \in Chart(logs, B, N) : p.bucket = t.bucket} = Rows(R, K)
    <3> HIDE DEF R
    <3> QED BY <1>3, <1>5 DEF Rows
  <2>3. some \in SUBSET logs /\ K \in SUBSET Points(logs, B, N)
        /\ \A l \in logs : l \in some <=> pt[l] \in K
    <3>1. \A l \in logs : pt[l] \in Points(logs, B, N)
      BY <1>2
    <3>2. \A l \in logs : pt[l][1] = B[l]
      OBVIOUS
    <3>3. \A l \in logs : l \in some <=> B[l] = t.bucket
      BY DEF Part
    <3> HIDE DEF pt, some
    <3>4. some \in SUBSET logs
      BY DEF some, Part
    <3> QED BY <3>1, <3>2, <3>3, <3>4
  <2>4. SumOf(Rows(R, K)) = Total(some)
    <3> HIDE DEF K, some, R, pt
    <3> QED BY <1>4, <2>3
  <2> QED BY <2>1, <2>2, <2>4
<1> QED BY <1>1, <1>6, <1>7

\* What is folded into one is not lost.
LEMMA FoldedAddsUp ==
    ASSUME NEW logs, IsFiniteSet(logs), Measured(logs), NEW G, \A l \in logs : G[l] # Other,
           NEW totals, totals = [g \in {G[l] : l \in logs} |-> Total(Part(logs, G, g))]
    PROVE  SumOf(Folded(totals)) = Total(logs)
<1> DEFINE K == {G[l] : l \in logs}
           top == SelectTop(totals)
           rest == K \ top
           named == {[group |-> k, total |-> totals[k]] : k \in top}
           other == [minutes |-> SumFunction([k \in rest |-> totals[k]["minutes"]]),
                     chars |-> SumFunction([k \in rest |-> totals[k]["chars"]])]
           row == [group |-> Other, total |-> other]
           rows == named \cup (IF other = Zero THEN {} ELSE {row})
<1>1. DOMAIN totals = K /\ IsFiniteSet(K) /\ Other \notin K /\ \A l \in logs : G[l] \in K
  BY ImageFinite
<1>2. top \in SUBSET K
  BY <1>1 DEF SelectTop, Leading
<1>3. \A k \in K : totals[k] = Total(Part(logs, G, k)) /\ Part(logs, G, k) \in SUBSET logs
  BY DEF Part
<1>4. Folded(totals) = rows
  BY <1>1 DEF Folded
<1>5. ASSUME NEW field \in Fields
      PROVE  /\ other[field] \in Int
             /\ \A w : (\A k \in top : w[[group |-> k, total |-> totals[k]]] = totals[k][field])
                        => SumFunctionOnSet(w, named) + other[field] = Total(logs)[field]
             /\ IsFiniteSet(named)
             /\ \A k \in top : totals[k][field] \in Int
  <2> DEFINE f == [l \in logs |-> l[field]]
             h == [k \in K |-> totals[k][field]]
             o == [k \in rest |-> totals[k][field]]
  <2>1. \A k \in K : h[k] \in Int /\ h[k] = SumFunctionOnSet(f, Part(logs, G, k))
    BY <1>3, TotalIs
  <2>2. \A l \in logs : f[l] \in Int
    BY DEF Measured, Fields
  <2>3. SumFunctionOnSet(h, K) = SumFunctionOnSet(f, logs)
    <3> HIDE DEF f, h, K
    <3> QED BY <1>1, <2>1, <2>2, SumParts
  <2>4. SumFunctionOnSet(f, logs) = Total(logs)[field]
    <3>1. logs \in SUBSET logs
      OBVIOUS
    <3> QED BY <3>1, TotalIs
  <2>5. rest \in SUBSET K /\ top \cap rest = {} /\ top \cup rest = K
    BY <1>2
  <2>6. SumFunctionOnSet(h, top \cup rest) = SumFunctionOnSet(h, top) + SumFunctionOnSet(h, rest)
    <3> HIDE DEF f, h, K, top, rest
    <3> QED BY <1>1, <1>2, <2>1, <2>5, SumJoin
  <2>7. SumFunction(o) = SumFunctionOnSet(h, rest) /\ SumFunctionOnSet(h, rest) \in Int
        /\ SumFunctionOnSet(h, top) \in Int
    <3>1. IsFiniteSet(rest) /\ DOMAIN o = rest /\ \A k \in rest : o[k] = h[k] /\ h[k] \in Int
      <4>1. \A k \in rest : o[k] = h[k]
        OBVIOUS
      <4>2. IsFiniteSet(rest)
        <5> HIDE DEF rest, K
        <5> QED BY <1>1, <2>5, FS_Subset
      <4>3. \A k \in rest : h[k] \in Int
        <5> HIDE DEF h, top
        <5> QED BY <2>1
      <4> QED BY <4>1, <4>2, <4>3
    <3>2. SumFunction(o) = SumFunctionOnSet(h, rest)
      <4> HIDE DEF h, o, rest
      <4> QED BY <3>1, SumAll
    <3>3. SumFunctionOnSet(h, rest) \in Int /\ SumFunctionOnSet(h, top) \in Int
      <4> HIDE DEF h, rest, top, K, f
      <4> QED BY <1>1, <1>2, <2>1, <2>5, SumFacts
    <3> QED BY <3>2, <3>3
  <2>8. other[field] = SumFunction(o)
    <3>1. CASE field = "minutes"
      <4>1. o = [k \in rest |-> totals[k].minutes]
        BY <3>1
      <4> QED BY <3>1, <4>1
    <3>2. CASE field = "chars"
      <4>1. o = [k \in rest |-> totals[k].chars]
        BY <3>2
      <4> QED BY <3>2, <4>1
    <3> QED BY <3>1, <3>2 DEF Fields
  <2> DEFINE R == [k \in top |-> [group |-> k, total |-> totals[k]]]
  <2>9. /\ IsFiniteSet(top) /\ \A j, k \in top : R[j] = R[k] => j = k
        /\ named = {R[k] : k \in top}
    <3>1. IsFiniteSet(top)
      <4> HIDE DEF top, K
      <4> QED BY <1>1, <1>2, FS_Subset
    <3>2. \A k \in top : R[k].group = k
      OBVIOUS
    <3>3. named = {R[k] : k \in top}
      OBVIOUS
    <3> HIDE DEF R, top
    <3> QED BY <3>1, <3>2, <3>3
  <2>10. ASSUME NEW w, \A k \in top : w[[group |-> k, total |-> totals[k]]] = totals[k][field]
         PROVE  SumFunctionOnSet(w, named) = SumFunctionOnSet(h, top)
    <3>1. \A k \in top : h[k] = w[R[k]] /\ h[k] \in Int
      <4>1. \A k \in top : w[R[k]] = totals[k][field]
        BY <2>10
      <4>2. \A k \in top : h[k] = totals[k][field]
        BY <1>2
      <4> HIDE DEF h, R, top, K
      <4> QED BY <1>2, <2>1, <4>1, <4>2
    <3>2. SumFunctionOnSet(w, Rows(R, top)) = SumFunctionOnSet(h, top)
      <4> HIDE DEF h, R, top, named
      <4> QED BY <2>9, <3>1, SumImage DEF Rows
    <3>3. Rows(R, top) = named
      BY DEF Rows
    <3> QED BY <3>2, <3>3
  <2>11. IsFiniteSet(named)
    <3>1. IsFiniteSet({R[k] : k \in top})
      <4> HIDE DEF R, top
      <4> QED BY <2>9, ImageFinite
    <3> HIDE DEF R, top, named
    <3> QED BY <2>9, <3>1
  <2>12. \A k \in top : totals[k][field] \in Int
    <3>1. \A k \in top : k \in K
      BY <1>2
    <3>2. \A k \in K : totals[k][field] = h[k]
      OBVIOUS
    <3> HIDE DEF h, top, K
    <3> QED BY <2>1, <3>1, <3>2
  <2> HIDE DEF h, o, f, named, other, rest, top, K, R
  <2>13. other[field] \in Int
    BY <2>7, <2>8
  <2>14. ASSUME NEW w, \A k \in top : w[[group |-> k, total |-> totals[k]]] = totals[k][field]
         PROVE  SumFunctionOnSet(w, named) + other[field] = Total(logs)[field]
    BY <2>3, <2>4, <2>5, <2>6, <2>7, <2>8, <2>10, <2>14
  <2> QED BY <2>11, <2>12, <2>13, <2>14
<1>6. row \notin named
  <2>1. \A r \in named : r.group \in K
    BY <1>2
  <2>2. row.group = Other
    OBVIOUS
  <2> HIDE DEF named, row, K
  <2> QED BY <1>1, <2>1, <2>2
<1>7. ASSUME NEW field \in Fields
      PROVE  Sum(field, rows) = Total(logs)[field]
  <2> DEFINE w == [r \in rows |-> r.total[field]]
  <2>1. \A k \in top : w[[group |-> k, total |-> totals[k]]] = totals[k][field]
    OBVIOUS
  <2>2. SumFunctionOnSet(w, named) + other[field] = Total(logs)[field] /\ other[field] \in Int
    <3> HIDE DEF w, named, other, top
    <3> QED BY <1>5, <2>1
  <2>3. Sum(field, rows) = SumFunctionOnSet(w, rows)
    BY DEF Sum, SumFunction
  <2>4. \A r \in named : w[r] \in Int
    <3>1. \A r \in named : \E k \in top : r = [group |-> k, total |-> totals[k]]
      OBVIOUS
    <3>2. \A k \in top : totals[k][field] \in Int
      <4> HIDE DEF top, other, named
      <4> QED BY <1>5
    <3> HIDE DEF w, named, top
    <3> QED BY <2>1, <3>1, <3>2
  <2>5. IsFiniteSet(named)
    <3> HIDE DEF named, top, other
    <3> QED BY <1>5
  <2>6. SumFunctionOnSet(w, named) \in Int
    <3>1. named \in SUBSET named
      OBVIOUS
    <3> HIDE DEF w, named
    <3> QED BY <2>4, <2>5, <3>1, SumFacts
  <2>7. CASE other = Zero
    <3>1. rows = named
      BY <2>7
    <3>2. other[field] = 0
      BY <2>7 DEF Zero, Fields
    <3> HIDE DEF w, rows, named, other
    <3> QED BY <2>2, <2>3, <2>6, <3>1, <3>2
  <2>8. CASE other # Zero
    <3>1. rows = named \cup {row}
      BY <2>8
    <3>2. w[row] = other[field]
      BY <3>1
    <3>3. IsFiniteSet(rows) /\ \A r \in rows : w[r] \in Int
      <4>1. IsFiniteSet(named \cup {row})
        <5> HIDE DEF named, row
        <5> QED BY <2>5, FS_AddElement
      <4> HIDE DEF w, named, row, other, rows
      <4> QED BY <2>2, <2>4, <3>1, <3>2, <4>1
    <3>4. SumFunctionOnSet(w, named \cup {row}) = SumFunctionOnSet(w, named) + w[row]
      <4>1. named \in SUBSET rows /\ row \in rows \ named
        <5> HIDE DEF named, row, rows
        <5> QED BY <1>6, <3>1
      <4> HIDE DEF w, named, row, rows
      <4> QED BY <3>3, <4>1, SumFacts
    <3> HIDE DEF w, rows, named, other, row
    <3> QED BY <2>2, <2>3, <3>1, <3>2, <3>4
  <2> QED BY <2>7, <2>8
<1>8. Total(logs) = [minutes |-> Total(logs).minutes, chars |-> Total(logs).chars]
  <2>1. logs \in SUBSET logs
    OBVIOUS
  <2> QED BY <2>1, TotalIs
<1>9. Sum("minutes", rows) = Total(logs).minutes /\ Sum("chars", rows) = Total(logs).chars
  <2> HIDE DEF rows
  <2>1. "minutes" \in Fields /\ "chars" \in Fields
    BY DEF Fields
  <2> QED BY <1>7, <2>1
<1> HIDE DEF rows
<1> QED BY <1>4, <1>8, <1>9 DEF SumOf

\* An activity that is finely dated is over within its period.
LEMMA Within ==
    ASSUME NEW l, Dated(l), NEW g \in Precision, AtLeast(l, g)
    PROVE  End(l) \in Int /\ l.date <= End(l) /\ End(l) <= Anchor(l.date, g) + Days(g) - 1
<1>0. MonthDays \in Nat \ {0} /\ YearDays \in Nat \ {0} /\ Days("day") = 1
      /\ Days("month") = MonthDays /\ Days("year") = YearDays
  BY CalendarAssumption, Lengths
<1>1. /\ l.date \in Int /\ l.precision \in Precision /\ l.date = Anchor(l.date, l.precision)
      /\ Days(l.precision) \in Nat \ {0} /\ End(l) = l.date + Days(l.precision) - 1
  BY Lengths DEF Dated, End
<1>2. Anchor(l.date, g) \in Int /\ Anchor(l.date, g) <= l.date /\ l.date < Anchor(l.date, g) + Days(g)
  BY <1>1, AnchorFacts
<1>3. l.precision = g \/ l.precision = "day" \/ (l.precision = "month" /\ g = "year")
  BY <1>1 DEF AtLeast, KeyLength, Precision
<1>4. CASE l.precision = g
  BY <1>1, <1>2, <1>4
<1>5. CASE l.precision = "day"
  <2>1. Days(g) \in Int
    BY Lengths
  <2> QED BY <1>0, <1>1, <1>2, <1>5, <2>1
<1>6. CASE l.precision = "month" /\ g = "year"
  <2> DEFINE m == l.date \div MonthDays
             y == l.date \div YearDays
  <2>1. l.date = m * MonthDays /\ Anchor(l.date, g) = y * YearDays
    BY <1>0, <1>1, <1>6 DEF Anchor
  <2>2. m \in Int /\ y \in Int /\ m * MonthDays \in Int /\ y * YearDays \in Int
    BY <1>0, <1>1, Floor
  <2>3. PICK c \in Nat \ {0} : YearDays = c * MonthDays
    BY Lengths
  <2> HIDE DEF m, y
  <2> DEFINE k == y * c + c
  <2>4. k \in Int /\ k * MonthDays = y * YearDays + YearDays
    <3>1. k * MonthDays = (y * c) * MonthDays + c * MonthDays
      BY <1>0, <2>2
    <3>2. (y * c) * MonthDays = y * YearDays
      BY <1>0, <2>2, <2>3
    <3> QED BY <2>2, <2>3, <3>1, <3>2
  <2> HIDE DEF k
  <2>5. m * MonthDays < k * MonthDays
    BY <1>0, <1>2, <1>6, <2>1, <2>4
  <2>6. m + 1 <= k
    <3> SUFFICES ASSUME k <= m PROVE FALSE
      BY <2>2, <2>4
    <3>1. k * MonthDays <= m * MonthDays
      BY <1>0, <2>2, <2>4
    <3>2. k * MonthDays \in Int /\ m * MonthDays \in Int
      BY <1>0, <2>2, <2>4
    <3> QED BY <2>5, <3>1, <3>2
  <2>7. (m + 1) * MonthDays <= k * MonthDays
    BY <1>0, <2>2, <2>4, <2>6
  <2>8. (m + 1) * MonthDays = m * MonthDays + MonthDays
    BY <1>0, <2>2
  <2>9. m * MonthDays + MonthDays <= y * YearDays + YearDays
    BY <2>4, <2>7, <2>8
  <2> QED BY <1>0, <1>1, <1>6, <2>1, <2>2, <2>9
<1> QED BY <1>3, <1>4, <1>5, <1>6

\* The bucket to compare a range with is a bucket.
LEMMA SpanFacts ==
    ASSUME NEW s \in Int, NEW g \in Precision
    PROVE  LET first == Anchor(s, g) - Days(g)
           IN  /\ first \in Int
               /\ \A d \in Int : first <= d /\ d <= first + Days(g) - 1 <=> Anchor(d, g) = first
<1> DEFINE n == Days(g)
           q == s \div n
           first == Anchor(s, g) - Days(g)
<1>1. n \in Nat \ {0}
  BY Lengths
<1>2. q \in Int /\ q * n \in Int
  BY <1>1, Floor
<1>3. first = (q - 1) * n /\ first \in Int
  <2>1. first = q * n - n
    BY DEF Anchor
  <2> HIDE DEF n, q, first
  <2>2. (q - 1) * n = q * n - n
    BY <1>1, <1>2
  <2> QED BY <1>1, <1>2, <2>1, <2>2
<1>4. ASSUME NEW d \in Int, first <= d, d <= first + n - 1
      PROVE  Anchor(d, g) = first
  <2>1. d \div n = q - 1
    <3> HIDE DEF n, q, first
    <3>1. q - 1 \in Int /\ (q - 1) * n <= d /\ d < (q - 1) * n + n
      BY <1>1, <1>2, <1>3, <1>4
    <3> QED BY <1>1, <3>1, Number
  <2>2. Anchor(d, g) = (d \div n) * n
    BY DEF Anchor
  <2> HIDE DEF n, q, first
  <2> QED BY <1>3, <2>1, <2>2
<1>5. ASSUME NEW d \in Int, Anchor(d, g) = first
      PROVE  first <= d /\ d <= first + n - 1
  <2>1. Anchor(d, g) <= d /\ d < Anchor(d, g) + n
    BY AnchorFacts
  <2> HIDE DEF n, first
  <2> QED BY <1>1, <1>3, <1>5, <2>1
<1> QED BY <1>3, <1>4, <1>5

\* The bucket a range is compared with is worth what it is worth in a range of its own.
LEMMA PreviousIsRight ==
    ASSUME NEW b, Kept(b), NEW r, r.start \in Int, r.bucket \in Precision,
           NEW s, s.start = PreviousSpan(r).start, s.end = PreviousSpan(r).end,
           s.bucket = r.bucket
    PROVE  PreviousTotals(b, r).total =
                SumOf({t \in BucketTotals(b, s) : t.bucket = PreviousSpan(r).start})
<1> DEFINE first == Anchor(r.start, r.bucket) - Days(r.bucket)
           end == first + Days(r.bucket) - 1
           was == {l \in b.logs : first <= l.date /\ l.date <= end /\ AtLeast(l, r.bucket)}
           logs == InRange(b, s)
           B == [l \in logs |-> BucketOf(l, s)]
           bars == {t \in BucketTotals(b, s) : t.bucket = first}
<1>0. None \notin Int /\ Days(r.bucket) \in Nat \ {0}
  BY TimelineAssumption, Lengths
<1>1. first \in Int /\ \A d \in Int : first <= d /\ d <= end <=> Anchor(d, r.bucket) = first
  BY SpanFacts
<1>2. PreviousSpan(r).start = first /\ PreviousSpan(r).end = end
  BY DEF PreviousSpan
<1>3. PreviousTotals(b, r).total = Total(was)
  BY <1>2 DEF PreviousTotals
<1>4. was = Part(logs, B, first)
  <2>1. ASSUME NEW l \in was PROVE l \in logs /\ B[l] = first
    <3>1. l \in b.logs /\ l.date \in Int /\ Dated(l) /\ AtLeast(l, r.bucket)
      BY DEF Kept, Dated
    <3>2. Anchor(l.date, r.bucket) = first
      BY <1>1, <3>1
    <3>3. End(l) <= end
      BY <3>1, <3>2, Within
    <3>4. l \in logs
      BY <1>2, <2>1, <3>1, <3>3 DEF InRange
    <3> QED BY <3>1, <3>2, <3>4 DEF BucketOf
  <2>2. ASSUME NEW l \in logs, B[l] = first PROVE l \in was
    <3>1. l \in b.logs /\ l.date \in Int
      BY DEF InRange, Kept, Dated
    <3>2. BucketOf(l, s) = first
      BY <2>2
    <3>3. AtLeast(l, r.bucket) /\ Anchor(l.date, r.bucket) = first
      <4> HIDE DEF first
      <4> QED BY <1>0, <1>1, <3>2 DEF BucketOf
    <3> HIDE DEF logs, first, end
    <3> QED BY <1>1, <3>1, <3>3
  <2> HIDE DEF was, logs, B, first
  <2> QED BY <2>1, <2>2 DEF Part
<1>5. logs \in SUBSET b.logs /\ IsFiniteSet(logs) /\ Measured(logs)
  <2>1. logs \in SUBSET b.logs
    BY DEF InRange
  <2> QED BY <2>1, FinerFacts
<1>6. bars = Rows([k \in {j \in {B[l] : l \in logs} : j = first} |->
                        [bucket |-> k, total |-> Total(Part(logs, B, k))]],
                  {j \in {B[l] : l \in logs} : j = first})
  <2>1. {B[l] : l \in logs} = {BucketOf(l, s) : l \in logs}
    OBVIOUS
  <2>2. \A k : Part(logs, B, k) = {l \in logs : BucketOf(l, s) = k}
    BY DEF Part
  <2>3. BucketTotals(b, s) = {[bucket |-> k, total |-> Total({l \in logs : BucketOf(l, s) = k})] :
                                k \in {BucketOf(l, s) : l \in logs}}
    BY DEF BucketTotals
  <2>4. BucketTotals(b, s) = {[bucket |-> k, total |-> Total(Part(logs, B, k))] :
                                k \in {B[l] : l \in logs}}
    <3> HIDE DEF logs, B
    <3>1. \A k \in {BucketOf(l, s) : l \in logs} :
                Total(Part(logs, B, k)) = Total({l \in logs : BucketOf(l, s) = k})
      BY <2>2
    <3> QED BY <2>1, <2>3, <3>1
  <2> DEFINE K == {j \in {B[l] : l \in logs} : j = first}
             row(k) == [bucket |-> k, total |-> Total(Part(logs, B, k))]
             R == [k \in K |-> row(k)]
  <2>5. BucketTotals(b, s) = {row(k) : k \in {B[l] : l \in logs}}
    BY <2>4
  <2>6. \A k : row(k).bucket = k
    OBVIOUS
  <2>7. \A k \in K : R[k] = row(k)
    OBVIOUS
  <2>8. bars = {R[k] : k \in K}
    <3> HIDE DEF R, row, logs, B, first
    <3> QED BY <2>5, <2>6, <2>7
  <2> QED BY <2>8 DEF Rows
<1>7. SumOf(bars) = Total(Part(logs, B, first))
  <2> DEFINE K == {j \in {B[l] : l \in logs} : j = first}
             R == [k \in K |-> [bucket |-> k, total |-> Total(Part(logs, B, k))]]
             some == Part(logs, B, first)
  <2>1. IsFiniteSet(some) /\ Measured(some)
    <3> HIDE DEF logs, B, first
    <3> QED BY <1>5, FS_Subset DEF Part, Measured
  <2>2. IsFiniteSet(K)
    <3>1. K \in SUBSET {first}
      OBVIOUS
    <3> HIDE DEF K, first
    <3> QED BY <3>1, FS_Singleton, FS_Subset
  <2>3. \A l \in some : B[l] \in K
    <3> HIDE DEF logs, B, first
    <3> QED BY DEF Part
  <2>4. \A j, k \in K : R[j] = R[k] => j = k
    <3> HIDE DEF R, logs, B, first
    <3> QED OBVIOUS
  <2>5. \A k \in K : R[k].total = Total(Part(some, B, k))
    <3>1. \A k \in K : Part(some, B, k) = Part(logs, B, k)
      <4> HIDE DEF logs, B, first
      <4> QED BY DEF Part
    <3>2. \A k \in K : R[k].total = Total(Part(logs, B, k))
      <4> HIDE DEF K, logs, B
      <4> QED OBVIOUS
    <3> HIDE DEF K, logs, B, R
    <3> QED BY <3>1, <3>2
  <2>6. SumOf(Rows(R, K)) = Total(some)
    <3> HIDE DEF K, R, some, B
    <3> QED BY <2>1, <2>2, <2>3, <2>4, <2>5, RowsAddUp
  <2>7. bars = Rows(R, K)
    BY <1>6
  <2> HIDE DEF bars, R, K
  <2> QED BY <2>6, <2>7
<1> HIDE DEF was, bars, logs, B, first, end
<1> QED BY <1>2, <1>3, <1>4, <1>7 DEF bars

\* The charts of a range tell one story, whatever the library and the range are.
LEMMA ChartsHold ==
    ASSUME Kept(lib), NEW r, r.start \in Int, r.bucket \in Precision,
           r = [start |-> r.start, end |-> r.end, bucket |-> r.bucket, by |-> r.by]
    PROVE  LET chart == RangeOf(lib, r)
               span == PreviousSpan(r)
               before == BucketTotals(lib, [r EXCEPT !.start = span.start, !.end = span.end])
           IN  /\ SumOf(chart.totals) = Total(InRange(lib, r))
               /\ SumOf(chart.series) = SumOf(chart.totals) /\ SumOf(chart.categories) = SumOf(chart.totals)
               /\ \A t \in chart.totals :
                       SumOf({p \in chart.series : p.bucket = t.bucket}) = t.total
               /\ chart.previous.total = SumOf({t \in before : t.bucket = span.start})
<1> DEFINE logs == InRange(lib, r)
           B == [l \in logs |-> BucketOf(l, r)]
           groups == {GroupOf(l, r) : l \in logs}
           top == SelectTop(TotalsBy(logs, groups, [l \in logs |-> GroupOf(l, r)]))
           N == [l \in logs |-> IF GroupOf(l, r) \in top THEN GroupOf(l, r) ELSE Other]
           span == PreviousSpan(r)
           s == [r EXCEPT !.start = span.start, !.end = span.end]
           C == [l \in logs |-> Category(lib, l)]
<1>1. logs \in SUBSET lib.logs /\ IsFiniteSet(logs) /\ Measured(logs)
  <2>1. logs \in SUBSET lib.logs
    BY DEF InRange
  <2> QED BY <2>1, FinerFacts
<1>2. BucketTotals(lib, r) = Bars(logs, B)
  <2>1. {B[l] : l \in logs} = {BucketOf(l, r) : l \in logs}
    OBVIOUS
  <2>2. \A k : Part(logs, B, k) = {l \in logs : BucketOf(l, r) = k}
    BY DEF Part
  <2>3. BucketTotals(lib, r) = {[bucket |-> k, total |-> Total({l \in logs : BucketOf(l, r) = k})] :
                                k \in {BucketOf(l, r) : l \in logs}}
    BY DEF BucketTotals
  <2>4. \A k \in {BucketOf(l, r) : l \in logs} :
                Total(Part(logs, B, k)) = Total({l \in logs : BucketOf(l, r) = k})
    <3> HIDE DEF logs, B
    <3> QED BY <2>2
  <2> HIDE DEF logs, B
  <2> QED BY <2>1, <2>3, <2>4 DEF Bars
<1>3. Series(lib, r) = Chart(logs, B, N)
  <2> DEFINE named(l) == IF GroupOf(l, r) \in top THEN GroupOf(l, r) ELSE Other
             point(l) == <<BucketOf(l, r), named(l)>>
  <2>1. Series(lib, r) =
            {[bucket |-> p[1], group |-> p[2], total |-> Total({l \in logs : point(l) = p})] :
                p \in {point(l) : l \in logs}}
    BY DEF Series
  <2>2. \A l \in logs : point(l) = <<B[l], N[l]>>
    OBVIOUS
  <2> HIDE DEF point, B, N, logs
  <2>3. {point(l) : l \in logs} = Points(logs, B, N)
    BY <2>2 DEF Points
  <2>4. \A p : Total(At(logs, B, N, p)) = Total({l \in logs : point(l) = p})
    <3>1. \A p : At(logs, B, N, p) = {l \in logs : point(l) = p}
      BY <2>2 DEF At
    <3> QED BY <3>1
  <2> QED BY <2>1, <2>3, <2>4 DEF Chart
<1>4. /\ SumOf(Bars(logs, B)) = Total(logs)
      /\ SumOf(Chart(logs, B, N)) = Total(logs)
      /\ \A t \in Bars(logs, B) : SumOf({p \in Chart(logs, B, N) : p.bucket = t.bucket}) = t.total
  <2> HIDE DEF logs, B, N
  <2> QED BY <1>1, PointsAddUp
<1>5. SumOf(CategoryTotals(lib, r)) = Total(logs)
  <2> DEFINE totals == [g \in {C[l] : l \in logs} |-> Total(Part(logs, C, g))]
             given == TotalsBy(logs, {C[l] : l \in logs}, C)
  <2>1. given = totals
    BY DEF TotalsBy, Part
  <2>2. CategoryTotals(lib, r) = Folded(given)
    BY DEF CategoryTotals
  <2>3. \A l \in logs : C[l] # Other
    <3> SUFFICES ASSUME NEW l \in logs PROVE Category(lib, l) # Other
      OBVIOUS
    <3>1. l \in lib.logs /\ \E m \in lib.media : m.id = l.media
      BY DEF InRange, Kept
    <3>2. MediaOf(lib, l) \in lib.media
      BY <3>1 DEF MediaOf
    <3> QED BY <3>1, <3>2 DEF Category, Kept
  <2>4. SumOf(Folded(totals)) = Total(logs)
    <3> HIDE DEF logs, C, totals
    <3>1. totals = [g \in {C[l] : l \in logs} |-> Total(Part(logs, C, g))]
      BY DEF totals
    <3> QED BY <1>1, <2>3, <3>1, FoldedAddsUp
  <2> QED BY <2>1, <2>2, <2>4
<1>6. PreviousTotals(lib, r).total = SumOf({t \in BucketTotals(lib, s) : t.bucket = span.start})
  <2>1. s.start = span.start /\ s.end = span.end /\ s.bucket = r.bucket
    OBVIOUS
  <2> HIDE DEF s
  <2> QED BY <2>1, PreviousIsRight
<1> QED BY <1>2, <1>3, <1>4, <1>5, <1>6 DEF RangeOf

-----------------------------------------------------------------------------
(***************************************************************************)
(* Days.                                                                   *)
(***************************************************************************)

\* There are as many rows as keys.
LEMMA RowsCounted ==
    ASSUME NEW K, IsFiniteSet(K), NEW R, \A j, k \in K : R[j] = R[k] => j = k
    PROVE  Cardinality(Rows(R, K)) = Cardinality(K)
<1> DEFINE f == [r \in Rows(R, K) |-> 1]
           h == [k \in K |-> 1]
<1>1. \A k \in K : h[k] = f[R[k]] /\ h[k] \in Int
  BY DEF Rows
<1>2. IsFiniteSet(Rows(R, K)) /\ SumFunctionOnSet(f, Rows(R, K)) = SumFunctionOnSet(h, K)
  <2> HIDE DEF f, h
  <2> QED BY <1>1, SumImage DEF Rows
<1>3. SumFunctionOnSet(h, K) = Cardinality(K)
  <2>1. \A x \in K : h[x] = 1
    OBVIOUS
  <2> HIDE DEF h
  <2> QED BY <2>1, SumOfOnes
<1>4. SumFunctionOnSet(f, Rows(R, K)) = Cardinality(Rows(R, K))
  <2>1. \A x \in Rows(R, K) : f[x] = 1
    OBVIOUS
  <2> HIDE DEF f
  <2> QED BY <1>2, <2>1, SumOfOnes
<1> QED BY <1>2, <1>3, <1>4

\* The heatmaps of all years are a row for each day that has an activity.
On(b, d) == Total({l \in DayScoped(b.logs) : l.date = d})
Heat(b) == [d \in ActiveDays(b.logs) |-> [date |-> d, total |-> On(b, d)]]

\* They are those rows, if the years are all the years of the activities.
LEMMA HeatIs ==
    ASSUME NEW b, NEW years, \A l \in b.logs : YearOf(l.date) \in years
    PROVE  /\ UNION {HeatmapYear(b, y) : y \in years} = Rows(Heat(b), ActiveDays(b.logs))
           /\ ActiveDays(b.logs) = {l.date : l \in DayScoped(b.logs)}
<1>1. ActiveDays(b.logs) = {l.date : l \in DayScoped(b.logs)}
  BY DEF ActiveDays, DayScoped
<1>2. \A y : HeatmapYear(b, y) =
        {[date |-> d, total |-> On(b, d)] : d \in {e \in ActiveDays(b.logs) : YearOf(e) = y}}
  <2>1. \A y : {l.date : l \in {k \in DayScoped(b.logs) : YearOf(k.date) = y}}
                    = {e \in ActiveDays(b.logs) : YearOf(e) = y}
    BY <1>1
  <2> QED BY <2>1 DEF HeatmapYear, On
<1>3. \A d \in ActiveDays(b.logs) : YearOf(d) \in years
  BY <1>1 DEF DayScoped
<1>4. ASSUME NEW h \in UNION {HeatmapYear(b, y) : y \in years}
      PROVE  \E d \in ActiveDays(b.logs) : h = Heat(b)[d]
  BY <1>2 DEF Heat
<1>5. ASSUME NEW d \in ActiveDays(b.logs)
      PROVE  Heat(b)[d] \in UNION {HeatmapYear(b, y) : y \in years}
  <2>1. Heat(b)[d] \in HeatmapYear(b, YearOf(d))
    BY <1>2 DEF Heat
  <2> QED BY <1>3, <2>1
<1> QED BY <1>1, <1>4, <1>5 DEF Rows

\* What is summed in a row is numbers of finitely many days.
LEMMA HeatFacts ==
    ASSUME NEW b, Kept(b)
    PROVE  /\ DayScoped(b.logs) \in SUBSET b.logs
           /\ ActiveDays(b.logs) \in SUBSET Int /\ IsFiniteSet(ActiveDays(b.logs))
           /\ \A d \in ActiveDays(b.logs) : Heat(b)[d].date = d /\ Heat(b)[d].total = On(b, d)
           /\ \A j, k \in ActiveDays(b.logs) : Heat(b)[j] = Heat(b)[k] => j = k
           /\ \A K \in SUBSET ActiveDays(b.logs) :
                SumOf(Rows(Heat(b), K)) = Total({l \in DayScoped(b.logs) : l.date \in K})
<1>1. DayScoped(b.logs) \in SUBSET b.logs /\ ActiveDays(b.logs) = {l.date : l \in DayScoped(b.logs)}
  BY DEF DayScoped, ActiveDays
<1>2. ActiveDays(b.logs) \in SUBSET Int /\ IsFiniteSet(ActiveDays(b.logs))
  BY <1>1, DaysOf
<1>3. \A d \in ActiveDays(b.logs) : Heat(b)[d].date = d /\ Heat(b)[d].total = On(b, d)
  BY DEF Heat
<1>4. \A j, k \in ActiveDays(b.logs) : Heat(b)[j] = Heat(b)[k] => j = k
  BY <1>3
<1>5. ASSUME NEW K \in SUBSET ActiveDays(b.logs)
      PROVE  SumOf(Rows(Heat(b), K)) = Total({l \in DayScoped(b.logs) : l.date \in K})
  <2> DEFINE logs == {l \in DayScoped(b.logs) : l.date \in K}
             p == [l \in logs |-> l.date]
  <2>1. IsFiniteSet(logs) /\ Measured(logs) /\ IsFiniteSet(K)
    <3>1. logs \in SUBSET b.logs
      BY <1>1
    <3> HIDE DEF logs
    <3> QED BY <1>2, <3>1, FinerFacts, FS_Subset
  <2>2. \A l \in logs : p[l] \in K
    OBVIOUS
  <2>3. \A k \in K : Heat(b)[k].total = Total(Part(logs, p, k))
    <3> SUFFICES ASSUME NEW k \in K PROVE Heat(b)[k].total = Total(Part(logs, p, k))
      OBVIOUS
    <3>1. Part(logs, p, k) = {l \in DayScoped(b.logs) : l.date = k}
      BY DEF Part
    <3> HIDE DEF logs, p
    <3> QED BY <1>3, <3>1 DEF On
  <2>4. \A j, k \in K : Heat(b)[j] = Heat(b)[k] => j = k
    BY <1>4
  <2>5. SumOf(Rows(Heat(b), K)) = Total(logs)
    <3> HIDE DEF logs, p
    <3> QED BY <2>1, <2>2, <2>3, <2>4, RowsAddUp
  <2> QED BY <2>5
<1> QED BY <1>1, <1>2, <1>3, <1>4, <1>5

\* Two ways of counting: parts summed up by parts of their own.
LEMMA SumTwice ==
    ASSUME NEW T, IsFiniteSet(T), NEW f, \A x \in T : f[x] \in Int,
           NEW W, IsFiniteSet(W), NEW p, \A x \in T : p[x] \in W,
           NEW V, \A d \in W : V[d] = SumFunctionOnSet(f, Part(T, p, d)) /\ V[d] \in Int,
           NEW D, IsFiniteSet(D), NEW q, \A d \in W : q[d] \in D,
           NEW g, \A w \in D : g[w] = SumFunctionOnSet(V, Part(W, q, w))
    PROVE  SumFunctionOnSet(g, D) = SumFunctionOnSet(f, T)
<1>1. SumFunctionOnSet(V, W) = SumFunctionOnSet(f, T)
  <2>1. \A d \in W : V[d] = SumFunctionOnSet(f, Part(T, p, d))
    OBVIOUS
  <2> QED BY <2>1, SumParts
<1>2. SumFunctionOnSet(g, D) = SumFunctionOnSet(V, W)
  <2>1. \A d \in W : V[d] \in Int
    OBVIOUS
  <2> QED BY <2>1, SumParts
<1> QED BY <1>1, <1>2

\* The weekdays' samples are the days of the window, with or without an activity.
LEMMA WeekdaysAddUp ==
    ASSUME NEW b, Kept(b), NEW today \in Int
    PROVE  SumFunction([w \in 0 .. WeekDays - 1 |-> SampleTotal(b, today, w).minutes])
              = Sum("minutes", {h \in Rows(Heat(b), ActiveDays(b.logs)) : h.date \in Window(today)})
<1> DEFINE W == Window(today)
           logs == {l \in DayScoped(b.logs) : l.date \in W}
           f == [l \in logs |-> l.minutes]
           p == [l \in logs |-> l.date]
           V == [d \in W |-> On(b, d).minutes]
           mod == [d \in W |-> d % WeekDays]
           weekdays == 0 .. WeekDays - 1
           S == [w \in weekdays |-> SampleTotal(b, today, w).minutes]
<1>1. IsFiniteSet(W) /\ W \in SUBSET Int /\ IsFiniteSet(weekdays)
      /\ \A d \in W : mod[d] \in weekdays
  <2>1. WeekDays \in Nat \ {0} /\ Weeks \in Nat
    BY DashboardAssumption
  <2>2. today - Weeks * WeekDays + 1 \in Int
    BY <2>1
  <2>3. IsFiniteSet(W) /\ W \in SUBSET Int
    BY <2>2, FS_Interval DEF Window
  <2>4. \A d \in W : mod[d] \in weekdays
    <3> SUFFICES ASSUME NEW d \in W PROVE d % WeekDays \in weekdays
      OBVIOUS
    <3>1. d \in Int
      BY <2>3
    <3> QED BY <2>1, <3>1
  <2>5. IsFiniteSet(weekdays)
    BY <2>1, FS_Interval
  <2> QED BY <2>3, <2>4, <2>5
<1>2. logs \in SUBSET b.logs /\ IsFiniteSet(logs) /\ Measured(logs)
  <2>1. logs \in SUBSET b.logs
    BY DEF DayScoped
  <2> HIDE DEF logs
  <2> QED BY <2>1, FinerFacts
<1>3. \A d \in W : V[d] = SumFunctionOnSet(f, Part(logs, p, d)) /\ V[d] \in Int
  <2> SUFFICES ASSUME NEW d \in W
               PROVE  V[d] = SumFunctionOnSet(f, Part(logs, p, d)) /\ V[d] \in Int
    OBVIOUS
  <2>1. Part(logs, p, d) = {l \in DayScoped(b.logs) : l.date = d} /\ Part(logs, p, d) \in SUBSET logs
    BY DEF Part
  <2>2. "minutes" \in Fields
    BY DEF Fields
  <2>3. Total(Part(logs, p, d))["minutes"] \in Int
        /\ Total(Part(logs, p, d))["minutes"] = SumFunctionOnSet([l \in logs |-> l["minutes"]], Part(logs, p, d))
    <3> HIDE DEF logs, p
    <3> QED BY <1>2, <2>1, <2>2, TotalIs
  <2>4. V[d] = Total(Part(logs, p, d)).minutes
    <3>1. V[d] = On(b, d).minutes
      OBVIOUS
    <3> HIDE DEF logs, p, V
    <3> QED BY <2>1, <3>1 DEF On
  <2> QED BY <2>3, <2>4
<1>4. \A l \in logs : f[l] \in Int /\ p[l] \in W
  BY <1>2 DEF Measured
<1>5. \A w \in weekdays : S[w] = SumFunctionOnSet(V, Part(W, mod, w))
  <2> SUFFICES ASSUME NEW w \in weekdays
               PROVE  S[w] = SumFunctionOnSet(V, Part(W, mod, w))
    OBVIOUS
  <2> DEFINE s == Samples(b, today, w)
             o == [d \in DOMAIN s |-> s[d].minutes]
  <2>1. DOMAIN s = Part(W, mod, w) /\ \A d \in DOMAIN s : s[d] = On(b, d)
    BY DEF Samples, Part, On
  <2>2. S[w] = SumFunction(o)
    BY DEF SampleTotal
  <2>3. DOMAIN o = Part(W, mod, w) /\ \A d \in Part(W, mod, w) : o[d] = V[d] /\ d \in W
    <3> HIDE DEF s
    <3> QED BY <2>1 DEF Part
  <2>4. IsFiniteSet(Part(W, mod, w))
    <3>1. Part(W, mod, w) \in SUBSET W
      BY DEF Part
    <3> HIDE DEF W, mod
    <3> QED BY <1>1, <3>1, FS_Subset
  <2>5. \A d \in Part(W, mod, w) : o[d] = V[d] /\ V[d] \in Int
    BY <1>3, <2>3
  <2>6. DOMAIN o = Part(W, mod, w)
    BY <2>3
  <2> HIDE DEF o, V, W, S, mod
  <2>7. SumFunction(o) = SumFunctionOnSet(V, Part(W, mod, w))
    BY <2>4, <2>5, <2>6, SumAll
  <2> QED BY <2>2, <2>7
<1>6. SumFunctionOnSet(S, weekdays) = SumFunctionOnSet(f, logs)
  <2>1. IsFiniteSet(W) /\ IsFiniteSet(weekdays) /\ IsFiniteSet(logs)
    BY <1>1, <1>2
  <2>2. \A d \in W : mod[d] \in weekdays
    BY <1>1
  <2> HIDE DEF V, W, S, mod, weekdays, f, p, logs
  <2> QED BY <1>3, <1>4, <1>5, <2>1, <2>2, SumTwice
<1>7. SumFunction(S) = SumFunctionOnSet(S, weekdays)
  BY DEF SumFunction
<1>8. SumFunctionOnSet(f, logs) = Total(logs).minutes
  <2>1. logs \in SUBSET logs /\ "minutes" \in Fields
    BY DEF Fields
  <2>2. Total(logs)["minutes"] = SumFunctionOnSet([l \in logs |-> l["minutes"]], logs)
    <3> HIDE DEF logs
    <3> QED BY <1>2, <2>1, TotalIs
  <2> QED BY <2>2
<1> DEFINE K == {d \in ActiveDays(b.logs) : d \in W}
<1>9. {h \in Rows(Heat(b), ActiveDays(b.logs)) : h.date \in W} = Rows(Heat(b), K)
  <2>1. \A d \in ActiveDays(b.logs) : Heat(b)[d].date = d
    BY HeatFacts
  <2> HIDE DEF W
  <2> QED BY <2>1 DEF Rows
<1>10. SumOf(Rows(Heat(b), K)) = Total(logs)
  <2>1. K \in SUBSET ActiveDays(b.logs)
    OBVIOUS
  <2>2. {l \in DayScoped(b.logs) : l.date \in K} = logs
    <3> HIDE DEF W
    <3> QED BY DEF ActiveDays, DayScoped
  <2> HIDE DEF K, logs
  <2> QED BY <2>1, <2>2, HeatFacts
<1>11. Sum("minutes", Rows(Heat(b), K)) = SumOf(Rows(Heat(b), K)).minutes
  BY DEF SumOf
<1> HIDE DEF W, logs, f, p, V, mod, weekdays, S, K
<1>12. SumFunction(S) = Sum("minutes", {h \in Rows(Heat(b), ActiveDays(b.logs)) : h.date \in W})
  BY <1>6, <1>7, <1>8, <1>9, <1>10, <1>11
<1> QED BY <1>12 DEF W, S, weekdays

\* A streak is no longer than there are days, and the current one no longer than the longest.
LEMMA StreakFacts ==
    ASSUME NEW days \in SUBSET Int, IsFiniteSet(days), NEW today \in Int
    PROVE  /\ CurrentStreak(days, today) <= LongestStreak(days)
           /\ LongestStreak(days) <= Cardinality(days)
<1> DEFINE len == [p \in days \X days |-> p[2] - p[1] + 1]
           L == {len[p] : p \in Runs(days)}
           all == {0} \cup L
<1>1. Runs(days) \in SUBSET (days \X days) /\ IsFiniteSet(days \X days)
  BY FS_Product DEF Runs
<1>2. IsFiniteSet(L)
  <2>1. IsFiniteSet(Runs(days))
    BY <1>1, FS_Subset
  <2> HIDE DEF len
  <2> QED BY <2>1, ImageFinite
<1>3. L = {p[2] - p[1] + 1 : p \in Runs(days)} /\ L \in SUBSET Int
  <2>1. \A p \in Runs(days) : len[p] = p[2] - p[1] + 1
    BY <1>1
  <2>2. \A p \in Runs(days) : p[1] \in Int /\ p[2] \in Int
    BY <1>1
  <2>3. \A p \in Runs(days) : len[p] \in Int
    <3> HIDE DEF len
    <3> QED BY <2>1, <2>2
  <2> HIDE DEF len
  <2> QED BY <2>1, <2>3
<1>4. LongestStreak(days) = Max(all)
  BY <1>3 DEF LongestStreak
<1>5. Max(all) \in all /\ Max(all) \in Int /\ \A x \in all : x <= Max(all)
  <2> HIDE DEF L
  <2>1. IsFiniteSet(all) /\ all \in SUBSET Int /\ all # {}
    <3>1. IsFiniteSet({0})
      BY FS_Singleton
    <3>2. IsFiniteSet({0} \cup L)
      BY <1>2, <3>1, FS_Union
    <3> QED BY <1>3, <3>2
  <2> HIDE DEF all
  <2> QED BY <2>1, MaxFacts
<1>6. Cardinality(days) \in Nat /\ \A x \in all : x <= Cardinality(days)
  <2>1. Cardinality(days) \in Nat
    BY FS_CardinalityType
  <2>2. ASSUME NEW p \in Runs(days) PROVE p[2] - p[1] + 1 <= Cardinality(days)
    <3>1. p[1] \in Int /\ p[2] \in Int /\ p[1] <= p[2] /\ p[1] .. p[2] \in SUBSET days
      BY DEF Runs
    <3>2. Cardinality(p[1] .. p[2]) = p[2] - p[1] + 1
      BY <3>1, FS_Interval
    <3>3. Cardinality(p[1] .. p[2]) <= Cardinality(days)
      BY <3>1, FS_Subset
    <3> QED BY <3>2, <3>3
  <2>3. \A x \in L : x <= Cardinality(days)
    BY <1>3, <2>2
  <2> HIDE DEF L
  <2> QED BY <2>1, <2>3
<1>7. CurrentStreak(days, today) <= Max(all)
  <2> DEFINE newest == Max(days)
             mine == {p[2] - p[1] + 1 : p \in {q \in Runs(days) : q[2] = newest}}
  <2>1. CASE days = {} \/ today - newest \notin {0, 1}
    <3>1. CurrentStreak(days, today) = 0
      BY <2>1 DEF CurrentStreak
    <3>2. 0 \in all
      OBVIOUS
    <3> HIDE DEF all
    <3> QED BY <1>5, <3>1, <3>2
  <2>2. CASE ~ (days = {} \/ today - newest \notin {0, 1})
    <3>1. CurrentStreak(days, today) = Max(mine)
      BY <2>2 DEF CurrentStreak
    <3>2. mine \in SUBSET L
      BY <1>3
    <3>3. newest \in days
      BY <2>2, MaxFacts
    <3>4. <<newest, newest>> \in Runs(days)
      <4>1. newest .. newest = {newest}
        <5>1. newest \in Int
          BY <3>3
        <5> HIDE DEF newest
        <5> QED BY <5>1
      <4>2. newest <= newest
        <5>1. newest \in Int
          BY <3>3
        <5> HIDE DEF newest
        <5> QED BY <5>1
      <4> HIDE DEF newest
      <4> QED BY <3>3, <4>1, <4>2 DEF Runs
    <3>5. mine # {}
      <4>1. <<newest, newest>> \in {q \in Runs(days) : q[2] = newest}
        BY <3>4
      <4> QED BY <4>1
    <3>6. Max(mine) \in mine
      <4>1. IsFiniteSet(mine) /\ mine \in SUBSET Int
        <5> HIDE DEF mine, L
        <5> QED BY <1>2, <1>3, <3>2, FS_Subset
      <4> HIDE DEF mine
      <4> QED BY <3>5, <4>1, MaxFacts
    <3> HIDE DEF mine, L
    <3> QED BY <1>5, <3>1, <3>2, <3>6
  <2> QED BY <2>1, <2>2
<1> HIDE DEF all
<1> QED BY <1>4, <1>5, <1>6, <1>7

-----------------------------------------------------------------------------
(***************************************************************************)
(* Orders.                                                                 *)
(***************************************************************************)

\* An order of finitely many has a first.
LEMMA LeastExists ==
    ASSUME NEW S, IsFiniteSet(S), S # {}, NEW G,
           \A x, y \in S : x # y => <<x, y>> \in G \/ <<y, x>> \in G,
           \A x, y, z \in S : <<x, y>> \in G /\ <<y, z>> \in G => <<x, z>> \in G
    PROVE  \E l \in S : \A k \in S \ {l} : <<l, k>> \in G
<1> DEFINE C == {T \in SUBSET S : T = {} \/ \E l \in T : \A k \in T \ {l} : <<l, k>> \in G}
<1>1. {} \in C
  OBVIOUS
<1>2. ASSUME NEW T \in SUBSET S, T \in C, NEW x \in S \ T
      PROVE  T \cup {x} \in C
  <2>1. CASE T = {}
    BY <2>1
  <2>2. CASE T # {}
    <3>1. PICK l \in T : \A k \in T \ {l} : <<l, k>> \in G
      BY <1>2, <2>2
    <3>2. CASE <<l, x>> \in G
      BY <3>1, <3>2
    <3>3. CASE <<x, l>> \in G
      <4>1. \A k \in (T \cup {x}) \ {x} : <<x, k>> \in G
        BY <3>1, <3>3
      <4> QED BY <4>1
    <3> QED BY <3>1, <3>2, <3>3
  <2> QED BY <2>1, <2>2
<1>3. \A T \in SUBSET S : T \in C => \A x \in S \ T : T \cup {x} \in C
  BY <1>2
<1>4. S \in C
  <2> HIDE DEF C
  <2> QED BY <1>1, <1>3, SetInduction
<1> QED BY <1>4

\* Of activities with numbers of their own one is the latest, and one the earliest.
Numbered(logs) ==
    /\ IsFiniteSet(logs) /\ \A l \in logs : Dated(l)
    /\ \A l, k \in logs : l.id = k.id => l = k

\* The day an activity ends on is a number, and so is the length of its date.
LEMMA Ends == ASSUME NEW l, Dated(l)
              PROVE  End(l) \in Int /\ KeyLength(l.precision) \in Int
  BY Lengths DEF Dated, End, KeyLength, Precision

\* The latest is later than all others.
LEMMA LatestFacts ==
    ASSUME NEW logs, Numbered(logs), logs # {}
    PROVE  Latest(logs) \in logs /\ \A k \in logs \ {Latest(logs)} : Later(Latest(logs), k)
<1> DEFINE G == {p \in logs \X logs : Later(p[1], p[2])}
<1>1. \A l \in logs : End(l) \in Int /\ KeyLength(l.precision) \in Int /\ l.id \in Int
                      /\ l.precision \in Precision
  BY Ends DEF Numbered, Dated
<1>2. \A l, k \in logs : KeyLength(l.precision) = KeyLength(k.precision) => l.precision = k.precision
  BY <1>1 DEF KeyLength, Precision
<1>3. \A l, k \in logs : l # k => Later(l, k) \/ Later(k, l)
  BY <1>1, <1>2 DEF Later, Numbered
<1>4. \A l, k, j \in logs : Later(l, k) /\ Later(k, j) => Later(l, j)
  BY <1>1 DEF Later
<1>5. \A l, k \in logs : <<l, k>> \in G <=> Later(l, k)
  OBVIOUS
<1>6. \E l \in logs : \A k \in logs \ {l} : <<l, k>> \in G
  <2> HIDE DEF G
  <2> QED BY <1>3, <1>4, <1>5, LeastExists DEF Numbered
<1> QED BY <1>5, <1>6 DEF Latest

\* Whatever is later than all others is the latest.
LEMMA LatestOnly ==
    ASSUME NEW logs, Numbered(logs), NEW l \in logs, \A k \in logs \ {l} : Later(l, k)
    PROVE  Latest(logs) = l
<1>1. \A x \in logs : End(x) \in Int /\ KeyLength(x.precision) \in Int /\ x.id \in Int
  BY Ends DEF Numbered, Dated
<1>2. ASSUME Latest(logs) # l PROVE FALSE
  <2> DEFINE x == Latest(logs)
  <2>1. x \in logs /\ Later(x, l)
    BY <1>2, LatestFacts
  <2>2. Later(l, x)
    BY <1>2, <2>1
  <2> HIDE DEF x
  <2> QED BY <1>1, <2>1, <2>2 DEF Later
<1> QED BY <1>2

\* The earliest is earlier than all others.
LEMMA EarliestFacts ==
    ASSUME NEW logs, Numbered(logs), logs # {}
    PROVE  Earliest(logs) \in logs /\ \A k \in logs \ {Earliest(logs)} : Earlier(Earliest(logs), k)
<1> DEFINE G == {p \in logs \X logs : Earlier(p[1], p[2])}
<1>1. \A l \in logs : l.date \in Int /\ KeyLength(l.precision) \in Int /\ l.id \in Int
                      /\ l.precision \in Precision
  BY Ends DEF Numbered, Dated
<1>2. \A l, k \in logs : KeyLength(l.precision) = KeyLength(k.precision) => l.precision = k.precision
  BY <1>1 DEF KeyLength, Precision
<1>3. \A l, k \in logs : l # k => Earlier(l, k) \/ Earlier(k, l)
  BY <1>1, <1>2 DEF Earlier, Numbered
<1>4. \A l, k, j \in logs : Earlier(l, k) /\ Earlier(k, j) => Earlier(l, j)
  BY <1>1 DEF Earlier
<1>5. \A l, k \in logs : <<l, k>> \in G <=> Earlier(l, k)
  OBVIOUS
<1>6. \E l \in logs : \A k \in logs \ {l} : <<l, k>> \in G
  <2> HIDE DEF G
  <2> QED BY <1>3, <1>4, <1>5, LeastExists DEF Numbered
<1> QED BY <1>5, <1>6 DEF Earliest

\* Whatever is earlier than all others is the earliest.
LEMMA EarliestOnly ==
    ASSUME NEW logs, Numbered(logs), NEW l \in logs, \A k \in logs \ {l} : Earlier(l, k)
    PROVE  Earliest(logs) = l
<1>1. \A x \in logs : x.date \in Int /\ KeyLength(x.precision) \in Int /\ x.id \in Int
  BY Ends DEF Numbered, Dated
<1>2. ASSUME Earliest(logs) # l PROVE FALSE
  <2> DEFINE x == Earliest(logs)
  <2>1. x \in logs /\ Earlier(x, l)
    BY <1>2, EarliestFacts
  <2>2. Earlier(l, x)
    BY <1>2, <2>1
  <2> HIDE DEF x
  <2> QED BY <1>1, <2>1, <2>2 DEF Earlier
<1> QED BY <1>2

\* Keys of one length are compared at the first field that differs.
LEMMA LessAt ==
    ASSUME NEW n \in Nat, NEW s, NEW t, DOMAIN s = 1 .. n, DOMAIN t = 1 .. n, NEW i \in 1 .. n,
           \A j \in 1 .. i : s[j] \in Int /\ t[j] \in Int,
           \A j \in 1 .. i - 1 : s[j] = t[j], s[i] < t[i]
    PROVE  Less(s, t) /\ ~Less(t, s)
<1>1. Less(s, t)
  BY DEF Less
<1>2. ASSUME Less(t, s) PROVE FALSE
  <2>1. PICK h \in 1 .. n : t[h] < s[h] /\ \A j \in 1 .. h - 1 : t[j] = s[j]
    BY <1>2 DEF Less
  <2>2. CASE h < i
    <3>1. h \in 1 .. i - 1 /\ h \in 1 .. i
      BY <2>2
    <3>2. s[h] = t[h] /\ s[h] \in Int
      BY <3>1
    <3> QED BY <2>1, <3>2
  <2>3. CASE h = i
    <3>1. s[i] \in Int /\ t[i] \in Int
      OBVIOUS
    <3> QED BY <2>1, <2>3, <3>1
  <2>4. CASE h > i
    <3>1. i \in 1 .. h - 1 /\ i \in 1 .. i
      BY <2>4
    <3>2. t[i] = s[i] /\ s[i] \in Int
      BY <2>1, <3>1
    <3> QED BY <3>2
  <2> QED BY <2>2, <2>3, <2>4
<1> QED BY <1>1, <1>2

\* No key is less than itself.
LEMMA NotLessItself ==
    ASSUME NEW s, \A i \in DOMAIN s : s[i] \in Int PROVE ~Less(s, s)
  BY DEF Less

\* Of keys of three numbers.
LEMMA LessThree ==
    ASSUME NEW s \in Int \X Int \X Int, NEW t \in Int \X Int \X Int
    PROVE  Less(s, t) <=> \/ s[1] < t[1]
                          \/ s[1] = t[1] /\ s[2] < t[2]
                          \/ s[1] = t[1] /\ s[2] = t[2] /\ s[3] < t[3]
<1>1. DOMAIN s = {1, 2, 3} /\ DOMAIN t = {1, 2, 3}
  OBVIOUS
<1>2. 1 .. 1 - 1 = {} /\ 1 .. 2 - 1 = {1} /\ 1 .. 3 - 1 = {1, 2}
  OBVIOUS
<1>3. Less(s, t) <=> \E i \in {1, 2, 3} : s[i] < t[i] /\ \A j \in 1 .. i - 1 : s[j] = t[j]
  BY <1>1 DEF Less
<1> QED BY <1>2, <1>3

\* What is less than all others is the first in order.
LEMMA SortedFirst ==
    ASSUME NEW S, IsFiniteSet(S), NEW key, NEW e \in S,
           \A f \in S \ {e} : Less(key[e], key[f]) /\ ~Less(key[f], key[e]),
           ~Less(key[e], key[e])
    PROVE  Sorted(S, key)[1] = e /\ Cardinality(S) \in Nat \ {0}
<1> DEFINE below(x) == {f \in S : Less(key[f], key[x])}
<1>1. Cardinality(S) \in Nat \ {0}
  BY FS_CardinalityType, FS_EmptySet
<1>2. Sorted(S, key)[1] = CHOOSE x \in S : Cardinality(below(x)) = 0
  <2>1. 1 \in 1 .. Cardinality(S) /\ 1 - 1 = 0
    BY <1>1
  <2> QED BY <2>1 DEF Sorted
<1>3. \A x \in S : IsFiniteSet(below(x))
  BY FS_Subset
<1>4. \A x \in S : Cardinality(below(x)) = 0 <=> below(x) = {}
  <2> HIDE DEF below
  <2> QED BY <1>3, FS_EmptySet
<1>5. below(e) = {}
  OBVIOUS
<1>6. \A x \in S : below(x) = {} => x = e
  OBVIOUS
<1> HIDE DEF below
<1> QED BY <1>1, <1>2, <1>4, <1>5, <1>6

\* What is put in order is as long as it has members.
LEMMA SortedRows ==
    ASSUME NEW S, NEW key
    PROVE  Sorted(S, key) = [i \in 1 .. Cardinality(S) |-> Sorted(S, key)[i]]
<1> DEFINE at(i) == CHOOSE e \in S : Cardinality({f \in S : Less(key[f], key[e])}) = i - 1
<1>1. Sorted(S, key) = [i \in 1 .. Cardinality(S) |-> at(i)]
  BY DEF Sorted
<1> HIDE DEF at
<1> QED BY <1>1

\* The library, and the activities of an entry, have numbers.
LEMMA KeptNumbers ==
    ASSUME NEW b, Kept(b)
    PROVE  /\ Numbered(b.logs)
           /\ \A m : Numbered(LogsOf(b, m)) /\ LogsOf(b, m) \in SUBSET b.logs
           /\ \A l \in b.logs : MediaOf(b, l) \in b.media /\ MediaOf(b, l).id = l.media
                                /\ l \in LogsOf(b, MediaOf(b, l))
<1>1. Numbered(b.logs)
  BY DEF Kept, Numbered
<1>2. \A m : LogsOf(b, m) \in SUBSET b.logs
  BY DEF LogsOf
<1>3. \A T \in SUBSET b.logs : Numbered(T)
  BY <1>1, FS_Subset DEF Numbered
<1>4. ASSUME NEW l \in b.logs
      PROVE  MediaOf(b, l) \in b.media /\ MediaOf(b, l).id = l.media /\ l \in LogsOf(b, MediaOf(b, l))
  <2>1. \E m \in b.media : m.id = l.media
    BY DEF Kept
  <2>2. MediaOf(b, l) \in b.media /\ MediaOf(b, l).id = l.media
    BY <2>1 DEF MediaOf
  <2> QED BY <2>2 DEF LogsOf
<1> QED BY <1>1, <1>2, <1>3, <1>4

\* The latest activity of all, and of its entry.
LEMMA LatestOfAll ==
    ASSUME NEW b, Kept(b), b.logs # {}
    PROVE  LET l == Latest(b.logs)
               m == MediaOf(b, l)
           IN  /\ l \in b.logs /\ l # None /\ m \in b.media /\ LogsOf(b, m) # {}
               /\ Latest(LogsOf(b, m)) = l
<1> DEFINE l == Latest(b.logs)
           m == MediaOf(b, l)
<1>1. l \in b.logs /\ \A k \in b.logs \ {l} : Later(l, k)
  BY KeptNumbers, LatestFacts
<1>2. m \in b.media /\ l \in LogsOf(b, m) /\ l # None
  BY <1>1, KeptNumbers DEF Kept
<1>3. \A k \in LogsOf(b, m) \ {l} : Later(l, k)
  BY <1>1, KeptNumbers
<1>4. Latest(LogsOf(b, m)) = l
  <2> HIDE DEF l, m
  <2> QED BY <1>2, <1>3, KeptNumbers, LatestOnly
<1> QED BY <1>1, <1>2, <1>4

\* The first entry that is logged is logged first of all.
LEMMA FirstOfAll ==
    ASSUME NEW b, Kept(b), b.logs # {}
    PROVE  LET l == AnyEarliest(b.logs)
           IN  LibraryMetrics(b, MediaOf(b, l)).first = l
<1> DEFINE l == Earliest(b.logs)
           m == MediaOf(b, l)
<1>1. l \in b.logs /\ \A k \in b.logs \ {l} : Earlier(l, k)
  BY KeptNumbers, EarliestFacts
<1>2. l \in LogsOf(b, m)
  BY <1>1, KeptNumbers
<1>3. \A k \in LogsOf(b, m) \ {l} : Earlier(l, k)
  BY <1>1, KeptNumbers
<1>4. Earliest(LogsOf(b, m)) = l
  <2> HIDE DEF l, m
  <2> QED BY <1>2, <1>3, KeptNumbers, EarliestOnly
<1>5. AnyEarliest(b.logs) = l
  BY DEF AnyEarliest
<1>6. AnyEarliest(LogsOf(b, m)) = l
  <2> HIDE DEF l, m
  <2> QED BY <1>2, <1>4 DEF AnyEarliest
<1>7. \A n : LibraryMetrics(b, n).first = AnyEarliest(LogsOf(b, n))
  BY DEF LibraryMetrics
<1> QED BY <1>5, <1>6, <1>7

\* The list of the latest activities begins with the latest one.
LEMMA NewestFirst ==
    ASSUME NEW b, Kept(b), b.logs # {}
    PROVE  Newest(b)[1] = Latest(b.logs) /\ Cardinality(b.logs) \in Nat \ {0}
<1> DEFINE key == [l \in b.logs |-> <<- End(l), KeyLength(l.precision), - l.id>>]
           e == Latest(b.logs)
<1>1. e \in b.logs /\ \A k \in b.logs \ {e} : Later(e, k)
  BY LatestOfAll, KeptNumbers, LatestFacts
<1>2. \A l \in b.logs : End(l) \in Int /\ KeyLength(l.precision) \in Int /\ l.id \in Int
  BY Ends DEF Kept, Dated
<1>3. \A l, k \in b.logs : Less(key[l], key[k]) <=>
        \/ - End(l) < - End(k)
        \/ - End(l) = - End(k) /\ KeyLength(l.precision) < KeyLength(k.precision)
        \/ /\ - End(l) = - End(k) /\ KeyLength(l.precision) = KeyLength(k.precision)
           /\ - l.id < - k.id
  <2> SUFFICES ASSUME NEW l \in b.logs, NEW k \in b.logs
               PROVE  Less(key[l], key[k]) <=>
                        \/ - End(l) < - End(k)
                        \/ - End(l) = - End(k) /\ KeyLength(l.precision) < KeyLength(k.precision)
                        \/ /\ - End(l) = - End(k) /\ KeyLength(l.precision) = KeyLength(k.precision)
                           /\ - l.id < - k.id
    OBVIOUS
  <2>1. - End(l) \in Int /\ - End(k) \in Int /\ - l.id \in Int /\ - k.id \in Int
    BY <1>2
  <2>2. key[l] = <<- End(l), KeyLength(l.precision), - l.id>>
        /\ key[k] = <<- End(k), KeyLength(k.precision), - k.id>>
    OBVIOUS
  <2>3. key[l] \in Int \X Int \X Int /\ key[k] \in Int \X Int \X Int
    BY <1>2, <2>1, <2>2
  <2>4. /\ key[l][1] = - End(l) /\ key[l][2] = KeyLength(l.precision) /\ key[l][3] = - l.id
        /\ key[k][1] = - End(k) /\ key[k][2] = KeyLength(k.precision) /\ key[k][3] = - k.id
    BY <2>2
  <2> HIDE DEF key
  <2> QED BY <2>3, <2>4, LessThree
<1>4. \A f \in b.logs \ {e} : Less(key[e], key[f]) /\ ~Less(key[f], key[e])
  <2> HIDE DEF key, e
  <2> QED BY <1>1, <1>2, <1>3 DEF Later
<1>5. ~Less(key[e], key[e])
  <2> HIDE DEF key, e
  <2> QED BY <1>1, <1>2, <1>3
<1>6. Newest(b) = Sorted(b.logs, key)
  BY DEF Newest
<1>7. IsFiniteSet(b.logs)
  BY DEF Kept
<1> HIDE DEF key, e
<1>8. Sorted(b.logs, key)[1] = e /\ Cardinality(b.logs) \in Nat \ {0}
  BY <1>1, <1>4, <1>5, <1>7, SortedFirst
<1> QED BY <1>6, <1>8 DEF e

\* The beginning of a list begins with what the list begins with.
LEMMA SliceFirst ==
    ASSUME NEW s, NEW n \in Nat \ {0}, s = [i \in 1 .. n |-> s[i]], NEW k \in Nat \ {0}
    PROVE  Slice(s, 0, k)[1] = s[1]
<1> DEFINE T == {s[i] : i \in 1 .. n}
           m == IF 0 + k < Len(s) THEN 0 + k ELSE Len(s)
<1>1. s \in [1 .. n -> T]
  OBVIOUS
<1>2. s \in Seq(T) /\ Len(s) = n
  <2> HIDE DEF T
  <2> QED BY <1>1
<1>3. m \in Nat \ {0} /\ m <= Len(s)
  BY <1>2
<1>4. Slice(s, 0, k) = SubSeq(s, 1, m)
  <2>1. 0 + 1 = 1
    OBVIOUS
  <2> QED BY <2>1, Zenon DEF Slice
<1>5. \A i \in 1 .. m : s[i] \in T
  BY <1>2, <1>3
<1> HIDE DEF T, m
<1>6. SubSeq(s, 1, m)[1] = s[1]
  BY <1>2, <1>3, <1>5, SubSeqProperties
<1> QED BY <1>4, <1>6

\* The first of the recent activities is the latest.
LEMMA RecentFirst ==
    ASSUME NEW b, Kept(b), b.logs # {}
    PROVE  RecentLogs(b, 0, 1).items[1] = Latest(b.logs)
<1>1. RecentLogs(b, 0, 1).items = Slice(Newest(b), 0, 1)
  BY DEF RecentLogs
<1>2. Newest(b) = [i \in 1 .. Cardinality(b.logs) |-> Newest(b)[i]]
  BY SortedRows DEF Newest
<1>3. Slice(Newest(b), 0, 1)[1] = Newest(b)[1]
  BY <1>2, NewestFirst, SliceFirst
<1> QED BY <1>1, <1>3, NewestFirst

\* Of some keys of three numbers, all different, one is the least.
LEMMA LeastKey ==
    ASSUME NEW S, IsFiniteSet(S), S # {},
           NEW key, \A m \in S : key[m] \in Int \X Int \X Int,
           \A m, n \in S : key[m][3] = key[n][3] => m = n
    PROVE  \E m \in S : /\ \A n \in S \ {m} : Less(key[m], key[n]) /\ ~Less(key[n], key[m])
                        /\ ~Less(key[m], key[m])
<1> DEFINE G == {p \in S \X S : Less(key[p[1]], key[p[2]])}
<1>1. \A m, n \in S : Less(key[m], key[n]) <=>
        \/ key[m][1] < key[n][1]
        \/ key[m][1] = key[n][1] /\ key[m][2] < key[n][2]
        \/ key[m][1] = key[n][1] /\ key[m][2] = key[n][2] /\ key[m][3] < key[n][3]
  BY LessThree
<1>2. \A m, n \in S : <<m, n>> \in G <=> Less(key[m], key[n])
  OBVIOUS
<1>3. \A m \in S : key[m][1] \in Int /\ key[m][2] \in Int /\ key[m][3] \in Int
  OBVIOUS
<1>4. \A m, n \in S : m # n => <<m, n>> \in G \/ <<n, m>> \in G
  <2> HIDE DEF G
  <2> QED BY <1>1, <1>2, <1>3
<1>5. \A m, n, k \in S : <<m, n>> \in G /\ <<n, k>> \in G => <<m, k>> \in G
  <2> HIDE DEF G
  <2> QED BY <1>1, <1>2, <1>3
<1>6. \E m \in S : \A n \in S \ {m} : <<m, n>> \in G
  <2>1. IsFiniteSet(S) /\ S # {}
    OBVIOUS
  <2> HIDE DEF G
  <2> QED BY ONLY <1>4, <1>5, <2>1, LeastExists
<1>7. PICK m \in S : \A n \in S \ {m} : <<m, n>> \in G
  BY <1>6
<1>8. \A n \in S \ {m} : Less(key[m], key[n])
  <2> HIDE DEF G
  <2> QED BY <1>2, <1>7
<1>9. \A n \in S \ {m} : ~Less(key[n], key[m])
  <2> TAKE n \in S \ {m}
  <2>1. Less(key[m], key[n])
    BY <1>8
  <2> QED BY <1>1, <1>3, <2>1
<1>10. ~Less(key[m], key[m])
  BY <1>1, <1>3
<1> QED BY <1>8, <1>9, <1>10

\* Keys put together.
LEMMA ThreeOf == ASSUME NEW T, NEW s \in Seq(T), Len(s) = 3 PROVE s = <<s[1], s[2], s[3]>>
  OBVIOUS

\* Seven of them.
LEMMA SevenOf == ASSUME NEW T, NEW s \in Seq(T), Len(s) = 7
                 PROVE  s = <<s[1], s[2], s[3], s[4], s[5], s[6], s[7]>>
  OBVIOUS

\* Two and one are three.
LEMMA TwoAndOne == ASSUME NEW u, NEW v, NEW w PROVE <<u, v>> \o <<w>> = <<u, v, w>>
<1> DEFINE T == {u, v, w}
           s == <<u, v>> \o <<w>>
<1>1. <<u, v>> \in Seq(T) /\ <<w>> \in Seq(T) /\ Len(<<u, v>>) = 2 /\ Len(<<w>>) = 1
  OBVIOUS
<1>2. s \in Seq(T) /\ Len(s) = 3 /\ s[1] = u /\ s[2] = v /\ s[3] = w
  <2> HIDE DEF T
  <2> QED BY <1>1, ConcatProperties
<1> HIDE DEF s, T
<1>3. s = <<u, v, w>>
  BY <1>2, ThreeOf
<1> QED BY <1>3 DEF s

\* One, four and two are seven.
LEMMA OneFourTwo ==
    ASSUME NEW a, NEW b, NEW c, NEW d, NEW e, NEW f, NEW g
    PROVE  <<a>> \o <<b, c, d, e>> \o <<f, g>> = <<a, b, c, d, e, f, g>>
<1> DEFINE T == {a, b, c, d, e, f, g}
           r == <<a>> \o <<b, c, d, e>>
           s == r \o <<f, g>>
<1>1. /\ <<a>> \in Seq(T) /\ <<b, c, d, e>> \in Seq(T) /\ <<f, g>> \in Seq(T)
      /\ Len(<<a>>) = 1 /\ Len(<<b, c, d, e>>) = 4 /\ Len(<<f, g>>) = 2
  OBVIOUS
<1>2. r \in Seq(T) /\ Len(r) = 5 /\ r[1] = a /\ r[2] = b /\ r[3] = c /\ r[4] = d /\ r[5] = e
  <2> HIDE DEF T
  <2> QED BY <1>1, ConcatProperties
<1>3. /\ s \in Seq(T) /\ Len(s) = 7 /\ s[6] = f /\ s[7] = g
      /\ s[1] = a /\ s[2] = b /\ s[3] = c /\ s[4] = d /\ s[5] = e
  <2> DEFINE q == <<f, g>>
  <2>1. q \in Seq(T) /\ Len(q) = 2 /\ q[1] = f /\ q[2] = g
    BY <1>1
  <2> HIDE DEF T, r, q
  <2>2. /\ r \o q \in Seq(T) /\ Len(r \o q) = 7
        /\ \A i \in 1 .. 7 : (r \o q)[i] = IF i <= 5 THEN r[i] ELSE q[i - 5]
    <3>1. r \in Seq(T) /\ q \in Seq(T) /\ Len(r) = 5 /\ Len(q) = 2 /\ 5 + 2 = 7
      BY <1>2, <2>1
    <3>2. /\ r \o q \in Seq(T) /\ Len(r \o q) = Len(r) + Len(q)
          /\ \A i \in 1 .. Len(r) + Len(q) :
                (r \o q)[i] = IF i <= Len(r) THEN r[i] ELSE q[i - Len(r)]
      BY ONLY <3>1, ConcatProperties
    <3> QED BY ONLY <3>1, <3>2
  <2>3. s = r \o q
    BY DEF q
  <2> HIDE DEF s
  <2>4. s[6] = q[1] /\ s[7] = q[2]
    BY <2>2, <2>3
  <2>5. s[1] = r[1] /\ s[2] = r[2] /\ s[3] = r[3] /\ s[4] = r[4] /\ s[5] = r[5]
    BY <2>2, <2>3
  <2> QED BY <1>2, <2>1, <2>2, <2>3, <2>4, <2>5
<1> HIDE DEF s, T
<1>4. s = <<a, b, c, d, e, f, g>>
  BY <1>3, SevenOf
<1> QED BY <1>4 DEF s

\* Of keys of seven numbers, which one of the first five decides on.
LEMMA LessSeven ==
    ASSUME NEW s \in [1 .. 7 -> Int], NEW t \in [1 .. 7 -> Int],
           \/ s[1] < t[1]
           \/ s[1] = t[1] /\ s[2] < t[2]
           \/ s[1] = t[1] /\ s[2] = t[2] /\ s[3] < t[3]
           \/ s[1] = t[1] /\ s[2] = t[2] /\ s[3] = t[3] /\ s[4] < t[4]
           \/ s[1] = t[1] /\ s[2] = t[2] /\ s[3] = t[3] /\ s[4] = t[4] /\ s[5] < t[5]
    PROVE  Less(s, t) /\ ~Less(t, s)
<1> DEFINE N == {1, 2, 3, 4, 5, 6, 7}
<1>1. DOMAIN s = N /\ DOMAIN t = N /\ \A i \in N : s[i] \in Int /\ t[i] \in Int
  OBVIOUS
<1>2. /\ 1 .. 1 - 1 = {} /\ 1 .. 2 - 1 = {1} /\ 1 .. 3 - 1 = {1, 2} /\ 1 .. 4 - 1 = {1, 2, 3}
      /\ 1 .. 5 - 1 = {1, 2, 3, 4} /\ 1 .. 6 - 1 = {1, 2, 3, 4, 5} /\ 1 .. 7 - 1 = {1, 2, 3, 4, 5, 6}
  OBVIOUS
<1>3. /\ Less(s, t) <=> \E i \in N : s[i] < t[i] /\ \A j \in 1 .. i - 1 : s[j] = t[j]
      /\ Less(t, s) <=> \E i \in N : t[i] < s[i] /\ \A j \in 1 .. i - 1 : t[j] = s[j]
  <2> HIDE DEF N
  <2> QED BY <1>1 DEF Less
<1>4. Less(s, t)
  BY <1>1, <1>2, <1>3
<1>5. ~Less(t, s)
  BY <1>1, <1>2, <1>3
<1> QED BY <1>4, <1>5

\* The entry the library list begins with was logged as late as any.
LEMMA ListedFirst ==
    ASSUME NEW b, Kept(b), b.logs # {}
    PROVE  LET m == LibraryMedia(b)[1]
           IN  LogsOf(b, m) # {} /\ End(Latest(LogsOf(b, m))) = End(Latest(b.logs))
<1> DEFINE logged(m) == LogsOf(b, m) # {}
           S == b.media
           A == [m \in S |-> IF logged(m) THEN 0 ELSE 1]
           B == [m \in S |-> IF logged(m) THEN - End(Latest(LogsOf(b, m))) ELSE 0]
           C == [m \in S |-> - m.id]
           key == [m \in S |-> ListKey(b, m)]
           l == Latest(b.logs)
           n == MediaOf(b, l)
<1>1. l \in b.logs /\ n \in S /\ logged(n) /\ Latest(LogsOf(b, n)) = l
  BY LatestOfAll
<1>2. \A m \in S : logged(m) => Latest(LogsOf(b, m)) \in b.logs /\ Latest(LogsOf(b, m)) # None
  BY KeptNumbers, LatestFacts DEF Kept
<1>3. \A k \in b.logs : End(k) \in Int /\ End(k) <= End(l)
  <2>1. \A k \in b.logs : End(k) \in Int
    BY Ends DEF Kept
  <2>2. \A k \in b.logs \ {l} : Later(l, k)
    BY KeptNumbers, LatestFacts
  <2> HIDE DEF l
  <2> QED BY <1>1, <2>1, <2>2 DEF Later
<1>4. \A m \in S : A[m] \in Int /\ B[m] \in Int /\ C[m] \in Int
  <2>1. \A m \in S : logged(m) => - End(Latest(LogsOf(b, m))) \in Int
    BY <1>2, <1>3
  <2>2. \A m \in S : C[m] \in Int
    BY DEF Kept
  <2>3. \A m \in S : A[m] \in Int
    OBVIOUS
  <2>4. \A m \in S : B[m] \in Int
    BY <2>1
  <2> QED BY <2>2, <2>3, <2>4
<1>5. \A m, x \in S : C[m] = C[x] => m = x
  BY DEF Kept
<1>6. \A m \in S : key[m] = <<A[m], B[m], C[m]>>
  <2> SUFFICES ASSUME NEW m \in S PROVE ListKey(b, m) = <<A[m], B[m], C[m]>>
    OBVIOUS
  <2>1. CASE logged(m)
    <3>1. AnyLatest(LogsOf(b, m)) = Latest(LogsOf(b, m)) /\ Latest(LogsOf(b, m)) # None
      BY <1>2, <2>1 DEF AnyLatest
    <3>2. ListKey(b, m) = <<0, - End(Latest(LogsOf(b, m)))>> \o <<- m.id>>
      BY <3>1 DEF ListKey
    <3>3. \A u, v, w : <<u, v>> \o <<w>> = <<u, v, w>>
      BY TwoAndOne
    <3> QED BY <2>1, <3>2, <3>3
  <2>2. CASE ~logged(m)
    <3>1. AnyLatest(LogsOf(b, m)) = None
      BY <2>2 DEF AnyLatest
    <3>2. ListKey(b, m) = <<1, 0>> \o <<- m.id>>
      BY <3>1 DEF ListKey
    <3>3. \A u, v, w : <<u, v>> \o <<w>> = <<u, v, w>>
      BY TwoAndOne
    <3> QED BY <2>2, <3>2, <3>3
  <2> QED BY <2>1, <2>2
<1>7. IsFiniteSet(S) /\ S # {}
  BY <1>1 DEF Kept
<1>8. LibraryMedia(b) = Sorted(S, key)
  BY DEF LibraryMedia
<1>9. PICK m \in S : /\ \A x \in S \ {m} : Less(key[m], key[x]) /\ ~Less(key[x], key[m])
                     /\ ~Less(key[m], key[m])
  <2> HIDE DEF A, B, C, S, key
  <2>1. \A x \in S : key[x] \in Int \X Int \X Int /\ key[x][3] = C[x]
    BY <1>4, <1>6
  <2>2. \A x, y \in S : key[x][3] = key[y][3] => x = y
    BY <1>5, <2>1
  <2> QED BY <1>7, <2>1, <2>2, LeastKey
<1>10. LibraryMedia(b)[1] = m
  <2> HIDE DEF S, key
  <2> QED BY <1>7, <1>8, <1>9, SortedFirst
<1>11. CASE m = n
  BY <1>1, <1>10, <1>11
<1>12. CASE m # n
  <2>1. Less(key[m], key[n])
    <3> HIDE DEF A, B, C, S, key, n
    <3> QED BY <1>1, <1>9, <1>12
  <2>2. A[m] < A[n] \/ (A[m] = A[n] /\ B[m] <= B[n])
    <3> HIDE DEF A, B, C, S, key, n
    <3>1. \A x \in S : key[x] \in Int \X Int \X Int /\ key[x][1] = A[x] /\ key[x][2] = B[x]
      BY <1>4, <1>6
    <3> QED BY <1>1, <1>4, <2>1, <3>1, LessThree
  <2>3. A[n] = 0 /\ B[n] = - End(l)
    <3> HIDE DEF l, n
    <3> QED BY <1>1
  <2>4. logged(m)
    <3>1. ~logged(m) => A[m] = 1
      OBVIOUS
    <3> HIDE DEF A, B, C, S, n, l
    <3> QED BY <2>2, <2>3, <3>1
  <2>5. B[m] = - End(Latest(LogsOf(b, m))) /\ A[m] = 0
    BY <2>4
  <2>6. - End(Latest(LogsOf(b, m))) <= - End(l)
    <3> HIDE DEF A, B, C, S, n, l
    <3> QED BY <2>2, <2>3, <2>5
  <2>7. Latest(LogsOf(b, m)) \in b.logs
    BY <1>2, <2>4
  <2>8. End(Latest(LogsOf(b, m))) = End(l)
    <3> HIDE DEF A, B, C, S, n, l
    <3> QED BY <1>1, <1>3, <2>6, <2>7
  <2> QED BY <1>10, <2>4, <2>8
<1> QED BY <1>11, <1>12

\* An entry that is still open is offered first if it was logged last.
LEMMA QuickFirst ==
    ASSUME NEW b, Kept(b), b.logs # {}, \A m \in b.media : m.title \in Int,
           NEW m, m = MediaOf(b, Latest(b.logs)), m.tracking # "Complete", m.status # "Archived"
    PROVE  QuickLogMedia(b)[1] = m
<1> DEFINE S == {x \in b.media : x.status # "Archived"}
           key == [x \in S |-> QuickKey(b, x)]
           l == Latest(b.logs)
           done(x) == IF x.tracking = "Complete" THEN 1 ELSE 0
           logged(x) == LogsOf(b, x) # {}
           of(x) == Latest(LogsOf(b, x))
<1>1. l \in b.logs /\ m \in b.media /\ logged(m) /\ of(m) = l
  BY LatestOfAll
<1>2. \A x \in b.media : logged(x) => of(x) \in b.logs /\ of(x) # None /\ of(x) \in LogsOf(b, x)
  BY KeptNumbers, LatestFacts DEF Kept
<1>3. \A k \in b.logs \ {l} : Later(l, k)
  BY KeptNumbers, LatestFacts
<1>4. \A k \in b.logs : - End(k) \in Int /\ KeyLength(k.precision) \in Int /\ - k.id \in Int
                        /\ End(k) \in Int /\ k.id \in Int
  BY Ends DEF Kept, Dated
<1>5. \A x \in b.media : QuickKey(b, x) =
        IF logged(x)
        THEN <<done(x), 0, - End(of(x)), KeyLength(of(x).precision), - of(x).id, x.title, x.id>>
        ELSE <<done(x), 1, 0, 0, 0, x.title, x.id>>
  <2> TAKE x \in b.media
  <2>1. \A u, v, w, y, z, s, t :
            <<u>> \o <<v, w, y, z>> \o <<s, t>> = <<u, v, w, y, z, s, t>>
    BY OneFourTwo
  <2>2. CASE logged(x)
    <3>1. AnyLatest(LogsOf(b, x)) = of(x) /\ of(x) # None
      BY <1>2, <2>2 DEF AnyLatest
    <3>2. Recency(b, x) = <<0, - End(of(x)), KeyLength(of(x).precision), - of(x).id>>
      BY <3>1 DEF Recency
    <3> QED BY <2>1, <2>2, <3>2 DEF QuickKey
  <2>3. CASE ~logged(x)
    <3>1. AnyLatest(LogsOf(b, x)) = None
      BY <2>3 DEF AnyLatest
    <3>2. Recency(b, x) = <<1, 0, 0, 0>>
      BY <3>1 DEF Recency
    <3> QED BY <2>1, <2>3, <3>2 DEF QuickKey
  <2> QED BY <2>2, <2>3
<1>6. IsFiniteSet(S) /\ m \in S
  BY <1>1, FS_Subset DEF Kept
<1>7. \A x \in S : key[x] = QuickKey(b, x) /\ x \in b.media /\ x.title \in Int /\ x.id \in Int
  BY DEF Kept
<1>8. key[m] = <<0, 0, - End(l), KeyLength(l.precision), - l.id, m.title, m.id>>
  BY <1>1, <1>5, <1>6, <1>7
<1>9. ~Less(key[m], key[m])
  <2>1. \A i \in 1 .. 7 : key[m][i] \in Int
    <3> HIDE DEF key, l, S
    <3> QED BY <1>1, <1>4, <1>6, <1>7, <1>8
  <2>2. DOMAIN key[m] = 1 .. 7
    <3> HIDE DEF key, l, S
    <3> QED BY <1>8
  <2> HIDE DEF key
  <2> QED BY <2>1, <2>2, NotLessItself
<1>10. ASSUME NEW x \in S \ {m}
       PROVE  Less(key[m], key[x]) /\ ~Less(key[x], key[m])
  <2>1. key[x] = IF logged(x)
        THEN <<done(x), 0, - End(of(x)), KeyLength(of(x).precision), - of(x).id, x.title, x.id>>
        ELSE <<done(x), 1, 0, 0, 0, x.title, x.id>>
    BY <1>5, <1>7
  <2>2. x \in b.media /\ x.title \in Int /\ x.id \in Int /\ m.title \in Int /\ m.id \in Int
    <3> HIDE DEF S, key
    <3> QED BY <1>6, <1>7
  <2>6. done(x) \in Int
    OBVIOUS
  <2>3. /\ - End(l) \in Int /\ KeyLength(l.precision) \in Int /\ - l.id \in Int
    BY <1>1, <1>4
  <2>4. CASE ~logged(x)
    <3>1. key[x] = <<done(x), 1, 0, 0, 0, x.title, x.id>> /\ (0 < done(x) \/ 0 = done(x))
      BY <2>1, <2>4
    <3>2. 0 < done(x) \/ (0 = done(x) /\ 0 < 1)
      BY <3>1
    <3> HIDE DEF key, l, S, done, of, logged
    <3> DEFINE p == - End(l)
               q == - l.id
    <3>3. key[m] = <<0, 0, p, KeyLength(l.precision), q, m.title, m.id>> /\ p \in Int /\ q \in Int
      BY <1>8, <2>3
    <3> HIDE DEF p, q
    <3> DEFINE s == <<0, 0, p, KeyLength(l.precision), q, m.title, m.id>>
               t == <<done(x), 1, 0, 0, 0, x.title, x.id>>
    <3>4. Less(s, t) /\ ~Less(t, s)
      <4>1. s \in [1 .. 7 -> Int] /\ t \in [1 .. 7 -> Int]
        BY <2>2, <2>3, <2>6, <3>3
      <4>2. /\ s[1] = 0 /\ s[2] = 0 /\ s[3] = p /\ s[4] = KeyLength(l.precision) /\ s[5] = q
           /\ t[1] = done(x) /\ t[2] = 1
        OBVIOUS
      <4> HIDE DEF s, t
      <4> QED BY <4>1, <4>2, <3>2, LessSeven
    <3> HIDE DEF s, t
    <3>5. key[m] = s /\ key[x] = t
      BY <3>1, <3>3 DEF s, t
    <3> QED BY <3>4, <3>5
  <2>5. CASE logged(x)
    <3> DEFINE k == of(x)
    <3>1. key[x] = <<done(x), 0, - End(k), KeyLength(k.precision), - k.id, x.title, x.id>>
          /\ (0 < done(x) \/ 0 = done(x))
      BY <2>1, <2>5
    <3>2. k \in b.logs /\ k # l
      <4>1. k \in b.logs /\ k.media = x.id
        BY <1>2, <1>7, <2>5 DEF LogsOf
      <4>2. l.media = m.id
        BY <1>1, <1>2 DEF LogsOf
      <4>3. x.id # m.id
        BY <1>6, <1>7 DEF Kept
      <4> QED BY <4>1, <4>2, <4>3
    <3>3. Later(l, k)
      BY <1>3, <3>2
    <3> HIDE DEF k, l, key, S, of, logged, done
    <3> DEFINE p == - End(l)
               q == - l.id
               u == - End(k)
               v == - k.id
    <3>4. /\ p \in Int /\ q \in Int /\ u \in Int /\ v \in Int /\ KeyLength(k.precision) \in Int
      BY <1>4, <2>3, <3>2
    <3>5. \/ p < u
          \/ p = u /\ KeyLength(l.precision) < KeyLength(k.precision)
          \/ p = u /\ KeyLength(l.precision) = KeyLength(k.precision) /\ q < v
      BY <1>1, <1>4, <3>2, <3>3 DEF Later
    <3>6. key[m] = <<0, 0, p, KeyLength(l.precision), q, m.title, m.id>>
      BY <1>8
    <3>7. key[x] = <<done(x), 0, u, KeyLength(k.precision), v, x.title, x.id>>
      BY <3>1
    <3> HIDE DEF p, q, u, v
    <3> DEFINE s == <<0, 0, p, KeyLength(l.precision), q, m.title, m.id>>
               t == <<done(x), 0, u, KeyLength(k.precision), v, x.title, x.id>>
    <3>8. CASE 0 < done(x)
      <4>1. Less(s, t) /\ ~Less(t, s)
        <5>1. s \in [1 .. 7 -> Int] /\ t \in [1 .. 7 -> Int]
          BY <2>2, <2>3, <2>6, <3>4
        <5>2. /\ s[1] = 0 /\ s[2] = 0 /\ s[3] = p /\ s[4] = KeyLength(l.precision) /\ s[5] = q
             /\ t[1] = done(x)
          OBVIOUS
        <5> HIDE DEF s, t
        <5> QED BY <5>1, <5>2, <3>8, LessSeven
      <4> HIDE DEF s, t
      <4>2. key[m] = s /\ key[x] = t
        BY <3>6, <3>7 DEF s, t
      <4> QED BY <4>1, <4>2
    <3>9. CASE 0 = done(x)
      <4>1. Less(s, t) /\ ~Less(t, s)
        <5>1. s \in [1 .. 7 -> Int] /\ t \in [1 .. 7 -> Int]
          BY <2>2, <2>3, <2>6, <3>4
        <5>2. /\ s[1] = 0 /\ s[2] = 0 /\ s[3] = p /\ s[4] = KeyLength(l.precision) /\ s[5] = q
             /\ t[1] = done(x) /\ t[2] = 0 /\ t[3] = u
                /\ t[4] = KeyLength(k.precision) /\ t[5] = v
          OBVIOUS
        <5> HIDE DEF s, t
        <5> QED BY <5>1, <5>2, <3>5, <3>9, LessSeven
      <4> HIDE DEF s, t
      <4>2. key[m] = s /\ key[x] = t
        BY <3>6, <3>7 DEF s, t
      <4> QED BY <4>1, <4>2
    <3> QED BY <3>1, <3>8, <3>9
  <2> QED BY <2>4, <2>5
<1>11. Sorted(S, key)[1] = m /\ Cardinality(S) \in Nat \ {0}
  <2> HIDE DEF S, key
  <2> QED BY <1>6, <1>9, <1>10, SortedFirst
<1>12. QuickLogMedia(b) = Slice(Sorted(S, key), 0, QuickLogs)
  BY DEF QuickLogMedia
<1>13. QuickLogs \in Nat \ {0}
  BY DashboardAssumption
<1> HIDE DEF S, key
<1>14. Slice(Sorted(S, key), 0, QuickLogs)[1] = Sorted(S, key)[1]
  BY <1>11, <1>13, SortedRows, SliceFirst
<1> QED BY <1>11, <1>12, <1>14

\* What stands out as a range's day is the heaviest that the heatmap has in it.
LEMMA DayStandsOut ==
    ASSUME NEW b, Kept(b), NEW r, r.start \in Int, r.end \in Int,
           NEW h \in BuildHighlights(b, r), h.kind = "day"
    PROVE  LET within == {d \in Rows(Heat(b), ActiveDays(b.logs)) : d.date \in r.start .. r.end}
           IN  /\ \A d \in within : d.total.minutes <= h.worth
               /\ \E d \in within : d.date = h.of /\ d.total.minutes = h.worth
<1> DEFINE logs == InRange(b, r)
           days == ActiveDays(logs)
           onDay(d) == Total({l \in logs : l.precision = "day" /\ l.date = d})
           score == [d \in days |-> <<- onDay(d).minutes, - onDay(d).chars, d>>]
           day == First(score)
<1>1. h = [kind |-> "day", of |-> day, worth |-> onDay(day).minutes] /\ days # {}
  <2> DEFINE ids == {l.media : l \in logs}
             mine(i) == {l \in logs : l.media = i}
             of(i) == Total(mine(i))
             streak(i) == LongestStreak(ActiveDays(mine(i)))
             time == First([i \in ids |-> <<- of(i).minutes, - of(i).chars, i>>])
             text == First([i \in ids |-> <<- of(i).chars, - of(i).minutes, i>>])
             sessions == First([i \in ids |-> <<- Cardinality(mine(i)), - of(i).minutes, i>>])
             row == First([i \in ids |-> <<- streak(i), - of(i).minutes, i>>])
             four == {x \in {[kind |-> "time", of |-> time, worth |-> of(time).minutes],
                             [kind |-> "text", of |-> text, worth |-> of(text).chars],
                             [kind |-> "sessions", of |-> sessions, worth |-> Cardinality(mine(sessions))],
                             [kind |-> "streak", of |-> row, worth |-> streak(row)]} : x.worth > 0}
             mark == [kind |-> "day", of |-> day, worth |-> onDay(day).minutes]
  <2>1. BuildHighlights(b, r) = IF ids = {} THEN {}
            ELSE four \cup (IF days = {} \/ onDay(day).minutes = 0 THEN {} ELSE {mark})
    BY Zenon DEF BuildHighlights
  <2>2. \A x \in four : x.kind # "day"
    <3> HIDE DEF time, text, sessions, row, of, streak, mine
    <3> QED OBVIOUS
  <2> HIDE DEF four, ids, days, mark
  <2>3. h = mark /\ days # {}
    BY <2>1, <2>2
  <2> QED BY <2>3 DEF mark
<1>2. \A l \in b.logs : l.precision = "day" => End(l) = l.date /\ l.date \in Int
  BY Lengths DEF Kept, Dated, End
<1>3. \A d \in Int : r.start <= d /\ d <= r.end =>
            {l \in logs : l.precision = "day" /\ l.date = d} = {l \in DayScoped(b.logs) : l.date = d}
  BY <1>2 DEF InRange, DayScoped
<1>4. \A d \in Int : r.start <= d /\ d <= r.end => onDay(d) = On(b, d)
  <2> HIDE DEF logs
  <2> QED BY <1>3 DEF On
<1>5. \A d \in Int : d \in days <=> d \in ActiveDays(b.logs) /\ r.start <= d /\ d <= r.end
  BY <1>2 DEF InRange, ActiveDays
<1>6. ActiveDays(b.logs) \in SUBSET Int /\ IsFiniteSet(ActiveDays(b.logs))
      /\ \A d \in ActiveDays(b.logs) : Heat(b)[d].date = d /\ Heat(b)[d].total = On(b, d)
  BY HeatFacts
<1>7. days \in SUBSET ActiveDays(b.logs) /\ IsFiniteSet(days)
  <2>1. days \in SUBSET ActiveDays(b.logs)
    BY DEF InRange, ActiveDays
  <2> HIDE DEF days
  <2> QED BY <1>6, <2>1, FS_Subset
<1>8. \A d : onDay(d).minutes \in Int /\ onDay(d).chars \in Int
  <2> TAKE d
  <2> DEFINE some == {l \in logs : l.precision = "day" /\ l.date = d}
  <2>1. some \in SUBSET b.logs
    BY DEF InRange
  <2>2. IsFiniteSet(b.logs) /\ Measured(b.logs) /\ "minutes" \in Fields /\ "chars" \in Fields
    BY FinerFacts DEF Fields
  <2>3. Total(some)["minutes"] \in Int /\ Total(some)["chars"] \in Int
    <3> HIDE DEF some
    <3> QED BY <2>1, <2>2, TotalIs
  <2> QED BY <2>3
<1>9. day \in days /\ \A d \in days : onDay(d).minutes <= onDay(day).minutes
  <2> DEFINE A == [d \in days |-> - onDay(d).minutes]
             B == [d \in days |-> - onDay(d).chars]
             C == [d \in days |-> d]
  <2>1. \A d \in days : A[d] \in Int /\ B[d] \in Int /\ C[d] \in Int
    <3> HIDE DEF onDay, days
    <3> QED BY <1>6, <1>7, <1>8
  <2>2. \A d \in days : score[d] = <<A[d], B[d], C[d]>>
    OBVIOUS
  <2>3. \A d, e \in days : C[d] = C[e] => d = e
    OBVIOUS
  <2>4. DOMAIN score = days
    OBVIOUS
  <2>5. \A d \in days : A[d] = - onDay(d).minutes
    OBVIOUS
  <2>6. \E d \in days : \A e \in days \ {d} : Less(score[d], score[e])
    <3>1. IsFiniteSet(days) /\ days # {}
      BY <1>1, <1>7
    <3>2. \A d \in days : score[d] \in Int \X Int \X Int /\ score[d][3] = d
      <4> HIDE DEF onDay, days
      <4> QED BY <1>6, <1>7, <1>8
    <3> HIDE DEF days, score
    <3>3. \A d, e \in days : score[d][3] = score[e][3] => d = e
      BY <3>2
    <3>4. \A d \in days : score[d] \in Int \X Int \X Int
      BY <3>2
    <3> QED BY ONLY <3>1, <3>3, <3>4, LeastKey
  <2>7. day \in days /\ \A e \in days \ {day} : Less(score[day], score[e])
    <3> HIDE DEF score, days
    <3> QED BY <2>4, <2>6 DEF First
  <2> HIDE DEF A, B, C, score, days, onDay, day
  <2>8. ASSUME NEW d \in days PROVE onDay(d).minutes <= onDay(day).minutes
    <3>1. CASE d = day
      BY <1>8, <3>1
    <3>2. CASE d # day
      <4>1. Less(score[day], score[d])
        BY <2>7, <3>2
      <4>2. \A e \in days : score[e] \in Int \X Int \X Int /\ score[e][1] = A[e]
        BY <2>1, <2>2
      <4>3. A[day] <= A[d]
        BY <2>1, <2>7, <4>1, <4>2, LessThree
      <4> QED BY <1>8, <2>5, <2>7, <4>3
    <3> QED BY <3>1, <3>2
  <2> QED BY <2>7, <2>8
<1> HIDE DEF day, onDay, days, logs, score
<1> DEFINE within == {d \in Rows(Heat(b), ActiveDays(b.logs)) : d.date \in r.start .. r.end}
<1>10. ASSUME NEW d \in within PROVE d.total.minutes <= h.worth
  <2>1. PICK k \in ActiveDays(b.logs) : d = Heat(b)[k]
    BY DEF Rows
  <2>2. k \in Int /\ d.date = k /\ d.total = On(b, k) /\ k \in r.start .. r.end
    BY <1>6, <2>1
  <2>3. k \in days /\ onDay(k) = On(b, k)
    BY <1>4, <1>5, <2>1, <2>2
  <2> QED BY <1>1, <1>9, <2>2, <2>3
<1>11. \E d \in within : d.date = h.of /\ d.total.minutes = h.worth
  <2>1. day \in ActiveDays(b.logs) /\ day \in Int /\ r.start <= day /\ day <= r.end
    BY <1>5, <1>6, <1>7, <1>9
  <2>2. Heat(b)[day] \in within
    BY <1>6, <2>1 DEF Rows
  <2>3. Heat(b)[day].date = h.of /\ Heat(b)[day].total.minutes = h.worth
    BY <1>1, <1>4, <1>6, <2>1
  <2> QED BY <2>2, <2>3
<1> QED BY <1>10, <1>11

\* The views agree on the days of any library.
LEMMA DaysHold ==
    ASSUME ViewsAssumption, Kept(lib), lib.logs \subseteq Logs, \A m \in lib.media : m.title \in Int
    PROVE  DaysAgree
<1> DEFINE all == Totals(lib, Today)
           heat == UNION {HeatmapYear(lib, y) : y \in {YearOf(l.date) : l \in Logs}}
           recent == RecentLogs(lib, 0, 1)
           listed == LibraryMedia(lib)
           K == ActiveDays(lib.logs)
<1>1. heat = Rows(Heat(lib), K)
  BY HeatIs
<1>2. /\ K \in SUBSET Int /\ IsFiniteSet(K) /\ \A j, k \in K : Heat(lib)[j] = Heat(lib)[k] => j = k
      /\ SumOf(Rows(Heat(lib), K)) = Total({l \in DayScoped(lib.logs) : l.date \in K})
  BY HeatFacts
<1>3. /\ all.days = Cardinality(K) /\ all.dayScoped = Total(DayScoped(lib.logs))
      /\ all.longest = LongestStreak(K) /\ all.current = CurrentStreak(K, Today)
      /\ all.first = AnyEarliest(lib.logs) /\ all.last = AnyLatest(lib.logs)
  BY DEF Totals
<1>4. Today \in Int
  BY DEF ViewsAssumption, WellDated
<1>5. SumOf(heat) = all.dayScoped
  <2>1. {l \in DayScoped(lib.logs) : l.date \in K} = DayScoped(lib.logs)
    BY DEF ActiveDays, DayScoped
  <2> HIDE DEF heat, K, all
  <2> QED BY <1>1, <1>2, <1>3, <2>1
<1>6. Cardinality(heat) = all.days
  <2> HIDE DEF heat, K, all
  <2> QED BY <1>1, <1>2, <1>3, RowsCounted
<1>7. SumFunction([w \in 0 .. WeekDays - 1 |-> SampleTotal(lib, Today, w).minutes])
            = Sum("minutes", {h \in heat : h.date \in Window(Today)})
  <2> HIDE DEF heat
  <2> QED BY <1>1, <1>4, WeekdaysAddUp
<1>8. all.current <= all.longest /\ all.longest <= all.days
  <2> HIDE DEF all, K
  <2> QED BY <1>2, <1>3, <1>4, StreakFacts
<1>9. ASSUME recent.total > 0
      PROVE  /\ recent.items[1] = all.last
             /\ End(LibraryMetrics(lib, listed[1]).last) = End(all.last)
             /\ LibraryMetrics(lib, MediaOf(lib, all.first)).first = all.first
             /\ LET m == MediaOf(lib, all.last)
                IN  m.tracking # "Complete" /\ m.status # "Archived" => QuickLogMedia(lib)[1] = m
  <2>1. lib.logs # {}
    <3>1. recent.total = Cardinality(lib.logs)
      BY DEF RecentLogs
    <3>2. Cardinality({}) = 0 /\ ~(0 > 0)
      BY FS_EmptySet
    <3> HIDE DEF recent
    <3> QED BY <1>9, <3>1, <3>2
  <2>2. all.last = Latest(lib.logs)
    <3> HIDE DEF all
    <3> QED BY <1>3, <2>1 DEF AnyLatest
  <2>3. recent.items[1] = all.last
    <3> HIDE DEF all
    <3> QED BY <2>1, <2>2, RecentFirst
  <2>4. End(LibraryMetrics(lib, listed[1]).last) = End(all.last)
    <3>1. \A m : LibraryMetrics(lib, m).last = AnyLatest(LogsOf(lib, m))
      BY DEF LibraryMetrics
    <3> HIDE DEF all, listed
    <3>2. LogsOf(lib, listed[1]) # {} /\ End(Latest(LogsOf(lib, listed[1]))) = End(Latest(lib.logs))
      BY <2>1, ListedFirst DEF listed
    <3> QED BY <2>2, <3>1, <3>2 DEF AnyLatest
  <2>5. LibraryMetrics(lib, MediaOf(lib, all.first)).first = all.first
    <3> HIDE DEF all
    <3> QED BY <1>3, <2>1, FirstOfAll
  <2>6. LET m == MediaOf(lib, all.last)
        IN  m.tracking # "Complete" /\ m.status # "Archived" => QuickLogMedia(lib)[1] = m
    <3> HIDE DEF all
    <3> QED BY <2>1, <2>2, QuickFirst
  <2> HIDE DEF all, listed, recent
  <2> QED BY <2>3, <2>4, <2>5, <2>6
<1>10. ASSUME NEW r \in Ranges, NEW h \in {x \in BuildHighlights(lib, r) : x.kind = "day"}
       PROVE  LET within == {d \in heat : d.date \in r.start .. r.end}
              IN  /\ \A d \in within : d.total.minutes <= h.worth
                  /\ \E d \in within : d.date = h.of /\ d.total.minutes = h.worth
  <2>1. r.start \in Int /\ r.end \in Int
    <3>1. \A l \in Logs : l.date \in Int /\ End(l) \in Int
      BY Lengths DEF ViewsAssumption, WellDated, End
    <3>2. r.start \in {l.date : l \in Logs} /\ r.end \in {End(l) : l \in Logs}
      BY DEF Ranges
    <3> QED BY <3>1, <3>2
  <2>2. h \in BuildHighlights(lib, r) /\ h.kind = "day"
    OBVIOUS
  <2> HIDE DEF heat
  <2> QED BY <1>1, <2>1, <2>2, DayStandsOut
<1> HIDE DEF all, heat, recent, listed
<1> QED BY <1>5, <1>6, <1>7, <1>8, <1>9, <1>10 DEF DaysAgree, all, heat, recent, listed

\* Every library the history begins with is one a library may be.
LEMMA LibrariesKept ==
    ASSUME ViewsAssumption, lib \in Libraries
    PROVE  Kept(lib) /\ lib.logs \subseteq Logs /\ \A m \in lib.media : m.title \in Int
<1>1. PICK t \in [Media -> Trackings], logs \in SUBSET Logs, stones \in SUBSET Stones :
        lib = [media |-> {[m EXCEPT !.tracking = t[m]] : m \in Media}, logs |-> logs, stones |-> stones]
  <2> DEFINE made(t, l, s) ==
                [media |-> {[m EXCEPT !.tracking = t[m]] : m \in Media}, logs |-> l, stones |-> s]
  <2>1. Libraries = {made(t, l, s) : t \in [Media -> Trackings], l \in SUBSET Logs, s \in SUBSET Stones}
    BY DEF Libraries
  <2> HIDE DEF made
  <2>2. \E t \in [Media -> Trackings], l \in SUBSET Logs, s \in SUBSET Stones : lib = made(t, l, s)
    BY <2>1
  <2> QED BY <2>2 DEF made
<1> DEFINE f == [m \in Media |-> [m EXCEPT !.tracking = t[m]]]
<1>2. lib.media = {f[m] : m \in Media} /\ lib.logs = logs /\ lib.stones = stones
  BY <1>1
<1>3. /\ IsFiniteSet(Media) /\ IsFiniteSet(Logs) /\ IsFiniteSet(Stones)
      /\ \A m \in Media : m.id \in Int /\ m.title \in Int /\ Other \notin {m.type, m.content}
      /\ \A m \in Media : DOMAIN m = {"id", "title", "variant", "content", "type",
                                       "tracking", "status", "cover"}
      /\ \A m, n \in Media : m.id = n.id => m = n
      /\ \A l \in Logs : l.id \in Int /\ l # None /\ \E m \in Media : l.media = m.id
      /\ \A l, k \in Logs : l.id = k.id => l = k
      /\ \A l \in Logs : Other \notin {l.type, l.media}
      /\ \A s \in Stones : s.date \in Int \cup {None}
  BY DEF ViewsAssumption, WellNumbered, WellDated, RestIsApart
<1>4. \A l \in Logs : /\ l.precision \in Precision /\ l.date \in Int
                      /\ l.minutes \in Int /\ l.chars \in Int /\ l.date = Anchor(l.date, l.precision)
  BY DEF ViewsAssumption, WellDated
<1>5. \A m \in Media : f[m].id = m.id /\ f[m].title = m.title
                       /\ f[m].type = m.type /\ f[m].content = m.content
  <2> TAKE m \in Media
  <2>1. f[m] = [m EXCEPT !.tracking = t[m]]
    OBVIOUS
  <2> HIDE DEF f
  <2> QED BY <1>3, <2>1
<1> HIDE DEF f
<1>6. IsFiniteSet(lib.media) /\ IsFiniteSet(lib.logs) /\ IsFiniteSet(lib.stones)
  <2>1. IsFiniteSet({f[m] : m \in Media})
    BY <1>3, ImageFinite
  <2> QED BY <1>2, <1>3, <2>1, FS_Subset
<1>7. \A m \in lib.media : m.id \in Int /\ m.title \in Int /\ Other \notin {m.type, m.content}
  BY <1>2, <1>3, <1>5
<1>8. \A m, n \in lib.media : m.id = n.id => m = n
  BY <1>2, <1>3, <1>5
<1>9. \A l \in lib.logs : Dated(l) /\ l # None /\ \E m \in lib.media : l.media = m.id
  <2> TAKE l \in lib.logs
  <2>1. l \in Logs
    BY <1>2
  <2>2. PICK m \in Media : l.media = m.id
    BY <1>3, <2>1
  <2>3. f[m] \in lib.media /\ l.media = f[m].id
    BY <1>2, <1>5, <2>2
  <2>4. Dated(l) /\ l # None
    BY <1>3, <1>4, <2>1 DEF Dated
  <2> QED BY <2>3, <2>4
<1>10. \A l, k \in lib.logs : l.id = k.id => l = k
  BY <1>2, <1>3
<1>11. \A l \in lib.logs : Other \notin {l.type, l.media}
  BY <1>2, <1>3
<1>12. \A s \in lib.stones : s.date \in Int \cup {None}
  BY <1>2, <1>3
<1>13. lib.logs \subseteq Logs
  BY <1>2
<1> QED BY <1>6, <1>7, <1>8, <1>9, <1>10, <1>11, <1>12, <1>13 DEF Kept

\* Of any library all three hold.
LEMMA ViewsHold == ASSUME ViewsAssumption, lib \in Libraries PROVE ViewsAgree
<1>1. BucketsAddUp
  BY LibrariesKept, BucketsHold
<1>2. ChartsAddUp
  <2>1. ASSUME NEW r \in Ranges
        PROVE  /\ r.start \in Int /\ r.bucket \in Precision
               /\ r = [start |-> r.start, end |-> r.end, bucket |-> r.bucket, by |-> r.by]
    <3>1. \A l \in Logs : l.date \in Int
      BY DEF ViewsAssumption, WellDated
    <3> QED BY <3>1 DEF Ranges
  <2> QED BY <2>1, LibrariesKept, ChartsHold DEF ChartsAddUp
<1>3. DaysAgree
  BY LibrariesKept, DaysHold
<1> QED BY <1>1, <1>2, <1>3 DEF ViewsAgree

\* A library that was not edited is one the history may begin with.
Untouched == edits \in Nat /\ (edits = 0 => lib \in Libraries)

\* The views of one library agree, whatever its entries, activities and milestones are
\* and whatever the bounds of the views: the months and years count each activity and
\* each event once that is no older than the oldest of them, and all if they are fewer
\* than there may be, the charts of a range come to the activities in it, and the
\* heatmap, the recent activities and the days that stand out are of the same days.
THEOREM ViewsAgreeHolds == Spec => []ViewsAgree
<1>1. ViewsAssumption
  BY ViewsAssumption
<1>2. Init => Untouched
  BY DEF Init, Untouched
<1>3. Untouched /\ [Next]_vars => Untouched'
  <2> SUFFICES ASSUME Untouched, [Next]_vars PROVE Untouched'
    OBVIOUS
  <2>1. CASE Edit
    BY <2>1 DEF Edit, Untouched
  <2>2. CASE UNCHANGED <<lib, edits>>
    BY <2>2 DEF Untouched, Libraries
  <2>3. Edit \/ UNCHANGED <<lib, edits>>
    BY DEF Next, LoadData, LoadMore, SelectYear, Search, SearchTimer, Zoom, Answer, Fail, vars
  <2> QED BY <2>1, <2>2, <2>3
<1>4. Untouched => ViewsAgree
  <2>1. CASE AtFirst
    BY <1>1, <2>1, ViewsHold DEF Untouched, AtFirst
  <2>2. CASE ~AtFirst
    BY <2>2 DEF ViewsAgree, BucketsAddUp, ChartsAddUp, DaysAgree
  <2> QED BY <2>1, <2>2
<1> QED BY <1>2, <1>3, <1>4, PTL DEF Spec

-----------------------------------------------------------------------------
(***************************************************************************)
(* The timeline: requests and answers, pages, and edits in between.        *)
(***************************************************************************)
\* A sequence, over no set in particular.
IsSeq(s) == Len(s) \in Nat /\ s = [i \in 1 .. Len(s) |-> s[i]]

\* The library, whatever was edited, numbers its entries and milestones.
WellKept ==
    /\ lib = [media |-> lib.media, logs |-> lib.logs, stones |-> lib.stones]
    /\ IsFiniteSet(lib.media) /\ lib.stones \subseteq Stones
    /\ \A m \in lib.media : "id" \in DOMAIN m
    /\ \A m, n \in lib.media : m.id = n.id => m = n

\* The last request, if it is still out, is for what the screen is to show next.
AsksTrue ==
    /\ last \in Nat
    /\ \A r \in asks : r.id \in 1 .. last
    /\ \A r, q \in asks : r.id = q.id => r = q
    /\ \A r \in asks : r.id = last =>
            /\ level # "buckets" /\ r.filter = filter
            /\ r.first => r.offset = 0
            /\ ~r.first => /\ loading # "first" /\ pages # {}
                           /\ r.offset = Len(shown.events)

\* The pages on the screen are of what is selected, unless the user zoomed meanwhile
\* or a search is about to run.
ShownTrue ==
    /\ IsSeq(shown.events)
    /\ edits \in Nat /\ \A p \in pages : p.at \in 0 .. edits
    /\ pages = {} => ~shown.more
    /\ ~missed /\ ~typed /\ level # "buckets" /\ loading # "first" =>
            \A p \in pages : p.filter = filter

\* Pages of one filter with no edit in between are the beginning of its list, and the
\* screen knows whether there is more.
Tiled ==
    \A p \in pages : pages = {p} /\ p.at = edits =>
        \E s \in Orders(lib, Filtered(lib, p.filter)) :
            /\ shown.events = Slice(s, 0, Len(shown.events))
            /\ shown.more = (Len(shown.events) < Len(s))

ViewInv == WellKept /\ AsksTrue /\ ShownTrue /\ Tiled

\* No two events have one key, so that they are in one order.
LEMMA KeysDiffer ==
    ASSUME WellNumbered, WellKept,
           NEW e \in Events(lib), NEW f \in Events(lib),
           SortKey(lib, e) = SortKey(lib, f)
    PROVE  e = f
<1>1. Rank(lib, e) = Rank(lib, f) /\ e.media.id = f.media.id /\ - e.stone = - f.stone
  BY DEF SortKey
<1>2. PICK m \in lib.media :
        \/ HasDays(lib, m) /\ Terminal(m) /\ e = Ending(lib, m)
        \/ HasDays(lib, m) /\ ~SameDayTerminal(lib, m) /\ e = Beginning(lib, m)
        \/ \E s \in lib.stones : s.date # None /\ e = Event("milestone", s.date, m, s.id)
  BY EventShape
<1>3. PICK n \in lib.media :
        \/ HasDays(lib, n) /\ Terminal(n) /\ f = Ending(lib, n)
        \/ HasDays(lib, n) /\ ~SameDayTerminal(lib, n) /\ f = Beginning(lib, n)
        \/ \E s \in lib.stones : s.date # None /\ f = Event("milestone", s.date, n, s.id)
  BY EventShape
<1>4. e.media = m /\ f.media = n
  BY <1>2, <1>3 DEF Ending, Beginning, Event
<1>5. m = n
  BY <1>1, <1>4 DEF WellKept
<1>6. \A s \in lib.stones : s.id \in Nat \ {0}
  BY DEF WellKept, WellNumbered
<1>7. CASE \E s \in lib.stones : e = Event("milestone", s.date, m, s.id)
  <2>1. PICK s \in lib.stones : e = Event("milestone", s.date, m, s.id)
    BY <1>7
  <2>2. e.stone = s.id /\ s.id \in Nat \ {0}
    BY <1>6, <2>1 DEF Event
  <2>3. PICK t \in lib.stones : f = Event("milestone", t.date, n, t.id)
    BY <1>1, <1>3, <2>2 DEF Ending, Beginning, Event
  <2>4. f.stone = t.id /\ t.id \in Nat \ {0}
    BY <1>6, <2>3 DEF Event
  <2>5. s.id = t.id
    BY <1>1, <2>2, <2>4
  <2>6. s = t
    BY <2>5 DEF WellKept, WellNumbered
  <2> QED BY <1>5, <2>1, <2>3, <2>6
<1>8. CASE e.stone = 0 /\ f.stone = 0
  <2>1. \A k \in {"finished", "paused", "dropped"} : k # "milestone" /\ k # "started"
    OBVIOUS
  <2>2. Terminal(m) => TerminalKind[m.tracking] \in {"finished", "paused", "dropped"}
    BY DEF Terminal, TerminalKind
  <2>3. Terminal(m) => Rank(lib, Ending(lib, m)) \in {2, 3}
    BY <2>2 DEF Rank, Ending, Event
  <2>4. Rank(lib, Beginning(lib, m)) = 1
    BY DEF Rank, Beginning, Event
  <2>5. \/ Terminal(m) /\ e = Ending(lib, m)
        \/ e = Beginning(lib, m)
    BY <1>2, <1>6, <1>8 DEF Event
  <2>6. \/ Terminal(m) /\ f = Ending(lib, m)
        \/ f = Beginning(lib, m)
    BY <1>3, <1>5, <1>6, <1>8 DEF Event
  <2> QED BY <1>1, <2>3, <2>4, <2>5, <2>6
<1>9. CASE \E s \in lib.stones : f = Event("milestone", s.date, n, s.id)
  <2>1. PICK t \in lib.stones : f = Event("milestone", t.date, n, t.id)
    BY <1>9
  <2>2. f.stone = t.id /\ t.id \in Nat \ {0}
    BY <1>6, <2>1 DEF Event
  <2>3. \E s \in lib.stones : e = Event("milestone", s.date, m, s.id)
    BY <1>1, <1>2, <2>2 DEF Ending, Beginning, Event
  <2> QED BY <1>7, <2>3
<1>10. \/ e.stone = 0 \/ \E s \in lib.stones : e = Event("milestone", s.date, m, s.id)
  BY <1>2 DEF Ending, Beginning, Event
<1>11. \/ f.stone = 0 \/ \E s \in lib.stones : f = Event("milestone", s.date, n, s.id)
  BY <1>3 DEF Ending, Beginning, Event
<1> QED BY <1>7, <1>8, <1>9, <1>10, <1>11

\* The events that pass a filter have one order, and it is a sequence.
LEMMA OneOrder ==
    ASSUME WellNumbered, WellKept, NEW E \in SUBSET Events(lib)
    PROVE  \E s : Orders(lib, E) = {s} /\ IsSeq(s)
<1> DEFINE key == [e \in E |-> SortKey(lib, e)]
           K == {key[e] : e \in E}
<1>1. IsFiniteSet(E)
  <2>1. lib.stones \in SUBSET Stones /\ IsFiniteSet(Stones) /\ IsFiniteSet(lib.media)
    BY DEF WellNumbered, WellKept
  <2>2. IsFiniteSet(Events(lib))
    BY <2>1, EventsFinite, FS_Subset
  <2> QED BY <2>2, FS_Subset
<1>2. key \in Surjection(E, K) /\ key \in Injection(E, K)
  <2>1. \A e, f \in E : key[e] = key[f] => e = f
    BY KeysDiffer
  <2>2. key \in [E -> K] /\ \A k \in K : \E e \in E : key[e] = k
    OBVIOUS
  <2> HIDE DEF key, K
  <2> QED BY <2>1, <2>2 DEF Surjection, Injection, IsInjective
<1>4. Cardinality(K) = Cardinality(E) /\ Cardinality(E) \in Nat
  <2> HIDE DEF key, K
  <2> QED BY <1>1, <1>2, FS_Surjection, FS_CardinalityType
<1>5. Orders(lib, E) = {Sorted(E, key)}
  BY <1>4 DEF Orders
<1>6. IsSeq(Sorted(E, key))
  <2> DEFINE n == Cardinality(E)
             at(i) == CHOOSE e \in E :
                Cardinality({f \in E : Less(key[f], key[e])}) = i - 1
  <2>1. Sorted(E, key) = [i \in 1 .. n |-> at(i)]
    BY DEF Sorted
  <2>2. n \in Nat
    BY <1>4
  <2> HIDE DEF n, at
  <2> QED BY <2>1, <2>2 DEF IsSeq
<1> QED BY <1>5, <1>6

\* A sequence is one over the set of its members.
LEMMA SeqOver == ASSUME NEW s, IsSeq(s) PROVE s \in Seq({s[i] : i \in 1 .. Len(s)})
<1> DEFINE T == {s[i] : i \in 1 .. Len(s)}
<1>1. s \in [1 .. Len(s) -> T] /\ Len(s) \in Nat
  BY DEF IsSeq
<1> HIDE DEF T
<1> QED BY <1>1

\* Whatever is a sequence over a set is a sequence.
LEMMA SeqIs == ASSUME NEW T, NEW s \in Seq(T) PROVE IsSeq(s)
  BY DEF IsSeq

\* Two sequences put together are one.
LEMMA ConcatSeq == ASSUME NEW s, NEW t, IsSeq(s), IsSeq(t) PROVE IsSeq(s \o t)
<1> DEFINE S == {s[i] : i \in 1 .. Len(s)}
           T == {t[i] : i \in 1 .. Len(t)}
<1>1. s \in Seq(S) /\ t \in Seq(T)
  BY SeqOver
<1> HIDE DEF S, T
<1>2. s \in Seq(S \cup T) /\ t \in Seq(S \cup T)
  BY <1>1
<1>3. s \o t \in Seq(S \cup T)
  BY <1>2, ConcatProperties
<1> QED BY <1>3, SeqIs

\* A slice, and how long it is.
LEMMA SliceSeq ==
    ASSUME NEW s, IsSeq(s), NEW k \in Nat, NEW n \in Nat
    PROVE  /\ IsSeq(Slice(s, k, n))
           /\ Len(Slice(s, k, n)) =
                IF k > Len(s) THEN 0 ELSE (IF k + n < Len(s) THEN k + n ELSE Len(s)) - k
<1> DEFINE T == {s[i] : i \in 1 .. Len(s)}
           m == IF k + n < Len(s) THEN k + n ELSE Len(s)
<1>1. Len(s) \in Nat /\ m \in Nat /\ m <= Len(s)
  BY DEF IsSeq
<1>2. \A i \in k + 1 .. m : s[i] \in T
  BY <1>1
<1> HIDE DEF T
<1>3. /\ SubSeq(s, k + 1, m) \in Seq(T)
      /\ Len(SubSeq(s, k + 1, m)) = IF k + 1 <= m THEN m - (k + 1) + 1 ELSE 0
  <2> HIDE DEF m
  <2> QED BY <1>1, <1>2, SubSeqProperties
<1>4. IsSeq(SubSeq(s, k + 1, m))
  <2> HIDE DEF m
  <2> QED BY <1>3, SMTT(20) DEF IsSeq
<1> QED BY <1>1, <1>3, <1>4 DEF Slice

\* The first page is the beginning of the list.
LEMMA FirstSlice ==
    ASSUME NEW s, IsSeq(s), NEW n \in Nat, NEW e, e = Slice(s, 0, n)
    PROVE  /\ e = Slice(s, 0, Len(e))
           /\ (0 + n < Len(s)) = (Len(e) < Len(s))
<1>1. Len(s) \in Nat /\ Len(e) = IF n < Len(s) THEN n ELSE Len(s)
  <2>1. Len(s) \in Nat
    BY DEF IsSeq
  <2>2. Len(e) = IF 0 > Len(s) THEN 0 ELSE (IF 0 + n < Len(s) THEN 0 + n ELSE Len(s)) - 0
    BY SliceSeq
  <2> QED BY <2>1, <2>2
<1> QED BY <1>1 DEF Slice

\* A beginning is what precedes an index.
LEMMA BeginningIs ==
    ASSUME NEW s, Len(s) \in Nat, NEW c \in 0 .. Len(s)
    PROVE  Slice(s, 0, c) = SubSeq(s, 1, c)
<1>1. 0 + 1 = 1 /\ (IF 0 + c < Len(s) THEN 0 + c ELSE Len(s)) = c
  OBVIOUS
<1>2. Slice(s, 0, c) = SubSeq(s, 0 + 1, IF 0 + c < Len(s) THEN 0 + c ELSE Len(s))
  BY DEF Slice
<1> QED BY <1>1, <1>2, Zenon

\* And the page that begins where the list ends makes it a longer beginning.
LEMMA NextSlice ==
    ASSUME NEW s, IsSeq(s), NEW n \in Nat, NEW e, Len(e) \in Nat,
           e = Slice(s, 0, Len(e))
    PROVE  /\ e \o Slice(s, Len(e), n) =
                Slice(s, 0, Len(e \o Slice(s, Len(e), n)))
           /\ (Len(e) + n < Len(s)) = (Len(e \o Slice(s, Len(e), n)) < Len(s))
<1> DEFINE k == Len(e)
           f == e \o Slice(s, k, n)
<1> HIDE DEF k
<1>0. k \in Nat /\ e = Slice(s, 0, k) /\ k = Len(e)
  BY DEF k
<1> HIDE DEF f
<1>f. f = e \o Slice(s, k, n)
  BY DEF f
<1> DEFINE T == {s[i] : i \in 1 .. Len(s)}
           m == IF k + n < Len(s) THEN k + n ELSE Len(s)
<1>1. s \in Seq(T)
  BY SeqOver
<1> HIDE DEF T
<1>2. Len(s) \in Nat /\ k <= Len(s) /\ m \in k .. Len(s)
  <2>1. Len(s) \in Nat
    BY DEF IsSeq
  <2>2. k = IF 0 > Len(s) THEN 0 ELSE (IF 0 + k < Len(s) THEN 0 + k ELSE Len(s)) - 0
    BY <1>0, SliceSeq
  <2> QED BY <1>0, <2>1, <2>2
<1>3. e = SubSeq(s, 1, k) /\ Slice(s, k, n) = SubSeq(s, k + 1, m)
  BY <1>0, <1>2 DEF Slice
<1> HIDE DEF m
<1>4. f = SubSeq(s, 1, m)
  <2>1. 1 \in 1 .. Len(s) + 1 /\ k \in 1 - 1 .. Len(s)
    BY <1>0, <1>2
  <2>2. SubSeq(s, 1, k) \o SubSeq(s, k + 1, m) = SubSeq(s, 1, m)
    BY <1>1, <1>2, <2>1, ConcatAdjacentSubSeq
  <2> QED BY <1>3, <1>f, <2>2
<1>5. Len(f) = m
  <2>1. f = Slice(s, 0, m)
    <3>1. m \in 0 .. Len(s)
      BY <1>0, <1>2
    <3> QED BY <1>2, <1>4, <3>1, BeginningIs
  <2>2. m \in Nat /\ Len(s) \in Nat
    BY <1>0, <1>2
  <2>3. Len(f) = IF 0 > Len(s) THEN 0 ELSE (IF 0 + m < Len(s) THEN 0 + m ELSE Len(s)) - 0
    BY <2>1, <2>2, SliceSeq
  <2> QED BY <1>2, <2>2, <2>3
<1> USE DEF m
<1>6. f = Slice(s, 0, Len(f))
  <2>1. m \in 0 .. Len(s)
    BY <1>0, <1>2
  <2> HIDE DEF m
  <2> QED BY <1>2, <1>4, <1>5, <2>1, BeginningIs
<1>7. (k + n < Len(s)) = (Len(f) < Len(s))
  BY <1>0, <1>2, <1>5
<1> QED BY <1>6, <1>7 DEF f, k

-----------------------------------------------------------------------------
\* A timeline that was not opened yet.
LEMMA ViewInit == ASSUME WellNumbered, Init PROVE ViewInv
<1>1. PICK t \in [Media -> Trackings], l \in SUBSET Logs, s \in SUBSET Stones :
        lib = [media |-> {[m EXCEPT !.tracking = t[m]] : m \in Media}, logs |-> l, stones |-> s]
  <2> DEFINE L(t, l, s) ==
        [media |-> {[m EXCEPT !.tracking = t[m]] : m \in Media}, logs |-> l, stones |-> s]
  <2>1. lib \in {L(t, l, s) : t \in [Media -> Trackings], l \in SUBSET Logs, s \in SUBSET Stones}
    <3>1. lib \in Libraries
      BY Zenon DEF Init
    <3>2. Libraries =
            {L(t, l, s) : t \in [Media -> Trackings], l \in SUBSET Logs, s \in SUBSET Stones}
      BY DEF Libraries
    <3> HIDE DEF L
    <3> QED BY ONLY <3>1, <3>2
  <2>2. \E t \in [Media -> Trackings], l \in SUBSET Logs, s \in SUBSET Stones : lib = L(t, l, s)
    <3> HIDE DEF L
    <3> QED BY <2>1
  <2> QED BY <2>2
<1> DEFINE f == [m \in Media |-> [m EXCEPT !.tracking = t[m]]]
<1>2. lib.media = {f[m] : m \in Media} /\ lib.stones = s /\ lib.logs = l
  BY <1>1
<1>3. \A m \in Media : "id" \in DOMAIN f[m] /\ f[m].id = m.id
  BY DEF WellNumbered
<1>4. IsFiniteSet(Media)
  BY DEF WellNumbered
<1> HIDE DEF f
<1>5. DOMAIN f = Media /\ f = [m \in Media |-> f[m]]
  BY DEF f
<1>6. WellKept
  <2>1. IsFiniteSet(lib.media)
    BY <1>2, <1>4, <1>5, ImageFinite
  <2>2. \A m, n \in lib.media : m.id = n.id => m = n
    BY <1>2, <1>3 DEF WellNumbered
  <2> QED BY <1>1, <1>2, <1>3, <2>1, <2>2 DEF WellKept
<1>7. AsksTrue
  BY DEF Init, AsksTrue
<1>8. ShownTrue
  <2>1. shown.events = <<>> /\ ~shown.more
    BY DEF Init, NoPage
  <2>2. IsSeq(<<>>)
    BY DEF IsSeq
  <2> QED BY <2>1, <2>2 DEF Init, ShownTrue
<1>9. Tiled
  BY DEF Init, Tiled
<1> QED BY <1>6, <1>7, <1>8, <1>9 DEF ViewInv

\* An edit of the library outdates the pages, and keeps the rows numbered.
LEMMA EditStep == ASSUME WellNumbered, ViewInv, Edit PROVE ViewInv'
<1>1. /\ WellKept /\ AsksTrue /\ ShownTrue /\ edits' = edits + 1
      /\ UNCHANGED <<filter, typed, level, asks, last, loading, shown, pages, missed>>
  BY DEF ViewInv, Edit, client
<1>2. WellKept'
  <2>1. CASE \E l \in Logs : lib' = [lib EXCEPT !.logs = SymDiff(lib.logs, {l})]
    <3>1. PICK x : lib' = [lib EXCEPT !.logs = x]
      BY <2>1
    <3> QED BY <1>1, <3>1 DEF WellKept
  <2>2. CASE \E s \in Stones : lib' = [lib EXCEPT !.stones = SymDiff(lib.stones, {s})]
    <3>1. PICK s \in Stones : lib' = [lib EXCEPT !.stones = SymDiff(lib.stones, {s})]
      BY <2>2
    <3>2. SymDiff(lib.stones, {s}) \subseteq Stones
      BY <1>1 DEF SymDiff, WellKept
    <3>3. PICK x : lib' = [lib EXCEPT !.stones = x] /\ x \subseteq Stones
      BY <3>1, <3>2
    <3> QED BY <1>1, <3>3 DEF WellKept
  <2>3. CASE \E m \in lib.media, t \in Trackings :
                lib' = [lib EXCEPT !.media = (lib.media \ {m}) \cup {[m EXCEPT !.tracking = t]}]
    <3>1. PICK m \in lib.media, t \in Trackings :
                lib' = [lib EXCEPT !.media = (lib.media \ {m}) \cup {[m EXCEPT !.tracking = t]}]
      BY <2>3
    <3>2. PICK n : n = [m EXCEPT !.tracking = t]
      OBVIOUS
    <3>3. "id" \in DOMAIN n /\ n.id = m.id
      BY <1>1, <3>2 DEF WellKept
    <3>4. lib' = [media |-> (lib.media \ {m}) \cup {n}, logs |-> lib.logs, stones |-> lib.stones]
      BY <1>1, <3>1, <3>2 DEF WellKept
    <3>5. IsFiniteSet((lib.media \ {m}) \cup {n})
      BY <1>1, FS_RemoveElement, FS_AddElement DEF WellKept
    <3> QED BY <1>1, <3>3, <3>4, <3>5 DEF WellKept
  <2> QED BY <2>1, <2>2, <2>3 DEF Edit
<1>3. AsksTrue' /\ ShownTrue'
  BY <1>1 DEF AsksTrue, ShownTrue, IsSeq
<1>4. Tiled'
  BY <1>1 DEF Tiled, ShownTrue
<1> QED BY <1>2, <1>3, <1>4 DEF ViewInv

\* A request for the events that are selected.
LEMMA AskStep ==
    ASSUME ViewInv, NEW first \in BOOLEAN, Ask(first), level' # "buckets",
           UNCHANGED <<lib, edits, shown, pages>>,
           ~first => /\ loading = "no" /\ shown.more /\ level # "buckets"
                     /\ filter' = filter /\ typed' = typed
    PROVE  ViewInv'
<1>1. PICK r : /\ asks' = asks \cup {r} /\ r.id = last + 1 /\ r.first = first /\ r.filter = filter'
               /\ r.offset = IF first THEN 0 ELSE Len(shown.events)
  <2> DEFINE a == [id |-> last + 1, first |-> first, filter |-> filter',
                   offset |-> IF first THEN 0 ELSE Len(shown.events)]
  <2>1. asks' = asks \cup {a}
    BY DEF Ask
  <2>2. /\ a.id = last + 1 /\ a.first = first /\ a.filter = filter'
        /\ a.offset = IF first THEN 0 ELSE Len(shown.events)
    OBVIOUS
  <2> HIDE DEF a
  <2> QED BY <2>1, <2>2
<1>2. /\ last' = last + 1 /\ loading' = (IF first THEN "first" ELSE "more")
      /\ missed' = (missed /\ ~first)
  BY DEF Ask
<1>3. WellKept /\ AsksTrue /\ ShownTrue /\ Tiled
  BY DEF ViewInv
<1>4. AsksTrue'
  <2>1. last' \in Nat /\ \A q \in asks : q.id \in 1 .. last' /\ q.id # last'
    BY <1>2, <1>3 DEF AsksTrue
  <2>2. r.id = last' /\ r.id \in 1 .. last'
    <3>1. last + 1 \in 1 .. last + 1
      BY <1>3 DEF AsksTrue
    <3> QED BY <1>1, <1>2, <3>1
  <2>3. ~first => loading' # "first" /\ pages # {}
    BY <1>2, <1>3 DEF ShownTrue
  <2> QED BY <1>1, <1>2, <1>3, <2>1, <2>2, <2>3 DEF AsksTrue
<1>5. ShownTrue'
  BY <1>2, <1>3 DEF ShownTrue, IsSeq
<1>6. WellKept' /\ Tiled'
  BY <1>3 DEF WellKept, Tiled
<1> QED BY <1>4, <1>5, <1>6 DEF ViewInv

\* Each way to ask, to fail and to answer keeps the invariant.
LEMMA LoadStep == ASSUME ViewInv, LoadData \/ LoadMore PROVE ViewInv'
  BY AskStep DEF LoadData, LoadMore

\* So does choosing a year, which asks for its events.
LEMMA SelectStep == ASSUME ViewInv, NEW y, SelectYear(y) PROVE ViewInv'
<1>1. CASE level # "buckets"
  BY <1>1, AskStep DEF SelectYear
<1>2. CASE level = "buckets"
  BY <1>2 DEF SelectYear, ViewInv, WellKept, AsksTrue, ShownTrue, Tiled, IsSeq
<1> QED BY <1>1, <1>2

\* A word that is typed drops what is on its way.
LEMMA SearchStep == ASSUME ViewInv, NEW w, Search(w) PROVE ViewInv'
<1>1. AsksTrue'
  BY DEF ViewInv, Search, AsksTrue
<1>2. ShownTrue'
  BY DEF ViewInv, Search, ShownTrue, IsSeq
<1> QED BY <1>1, <1>2 DEF ViewInv, Search, WellKept, Tiled

\* And the events with it are asked for when its timer ends.
LEMMA TimerStep == ASSUME ViewInv, SearchTimer PROVE ViewInv'
<1>1. CASE level # "buckets"
  BY <1>1, AskStep DEF SearchTimer
<1>2. CASE level = "buckets"
  BY <1>2 DEF SearchTimer, ViewInv, WellKept, AsksTrue, ShownTrue, Tiled, IsSeq
<1> QED BY <1>1, <1>2

\* Zooming drops what is on its way, or asks anew.
LEMMA ZoomStep == ASSUME ViewInv, NEW to, Zoom(to) PROVE ViewInv'
<1>1. CASE level = "buckets"
  BY <1>1, AskStep DEF Zoom
<1>2. CASE level # "buckets"
  <2>1. /\ last' = last + 1 /\ missed' = (missed \/ loading # "no")
        /\ UNCHANGED <<asks, loading, lib, edits, filter, typed, shown, pages>>
    BY <1>2 DEF Zoom
  <2>2. AsksTrue'
    BY <2>1 DEF ViewInv, AsksTrue
  <2>3. ShownTrue'
    BY <1>2, <2>1 DEF ViewInv, ShownTrue, IsSeq
  <2> QED BY <2>1, <2>2, <2>3 DEF ViewInv, WellKept, Tiled
<1> QED BY <1>1, <1>2

\* An answer that failed leaves the pages alone.
LEMMA FailStep == ASSUME ViewInv, NEW r \in asks, Fail(r) PROVE ViewInv'
<1>1. AsksTrue'
  BY DEF ViewInv, Fail, Wanted, AsksTrue
<1>2. ShownTrue'
  BY DEF ViewInv, Fail, Wanted, AsksTrue, ShownTrue, IsSeq
<1> QED BY <1>1, <1>2 DEF ViewInv, Fail, WellKept, Tiled

\* The answer that is still wanted continues the list where it ends, or begins it.
LEMMA AnswerStep ==
    ASSUME WellNumbered, PageSize \in Nat, ViewInv, NEW r \in asks, Answer(r)
    PROVE  ViewInv'
<1>1. /\ WellKept /\ AsksTrue /\ ShownTrue /\ Tiled /\ asks' = asks \ {r}
      /\ UNCHANGED <<lib, edits, filter, typed, level, last, missed>>
  BY DEF ViewInv, Answer
<1>2. WellKept'
  BY <1>1 DEF WellKept
<1>3. CASE r.id # last
  <2>1. UNCHANGED <<shown, loading, pages>>
    BY <1>3 DEF Answer, Wanted
  <2> QED BY <1>1, <1>2, <2>1 DEF ViewInv, AsksTrue, ShownTrue, Tiled, IsSeq
<1>4. CASE r.id = last
  <2>1. /\ level # "buckets" /\ r.filter = filter
        /\ r.first => r.offset = 0
        /\ ~r.first => loading # "first" /\ pages # {} /\ r.offset = Len(shown.events)
    BY <1>1, <1>4 DEF AsksTrue
  <2>2. Take(r) /\ loading' = "no"
    BY <1>4 DEF Answer, Wanted
  <2>3. PICK s : /\ Orders(lib, Filtered(lib, filter)) = {s}
                 /\ IsSeq(s)
    <3>1. Filtered(lib, filter) \in SUBSET Events(lib)
      BY DEF Filtered
    <3> QED BY <1>1, <3>1, OneOrder
  <2>4. /\ shown' = [events |-> IF r.first THEN Slice(s, r.offset, PageSize)
                                ELSE shown.events \o Slice(s, r.offset, PageSize),
                     more |-> r.offset + PageSize < Len(s)]
        /\ pages' = {[filter |-> filter, at |-> edits]} \cup (IF r.first THEN {} ELSE pages)
    <3> DEFINE page(x) == [events |-> Slice(x, r.offset, PageSize), total |-> Len(x),
                           more |-> r.offset + PageSize < Len(x)]
    <3>1. PICK p \in Pages(lib, filter, r.offset, PageSize) :
            /\ shown' = [events |-> IF r.first THEN p.events ELSE shown.events \o p.events,
                         more |-> p.more]
            /\ pages' = {[filter |-> filter, at |-> edits]} \cup (IF r.first THEN {} ELSE pages)
      BY <2>1, <2>2 DEF Take
    <3>2. p \in {page(x) : x \in {s}}
      BY <2>3 DEF Pages
    <3>3. p = page(s)
      <4> HIDE DEF page
      <4> QED BY <3>2
    <3> QED BY <3>1, <3>3
  <2>5. r.offset \in Nat /\ Len(shown.events) \in Nat /\ IsSeq(shown.events)
    BY <1>1, <2>1 DEF ShownTrue, IsSeq
  <2>6. IsSeq(Slice(s, r.offset, PageSize))
    BY <2>3, <2>5, SliceSeq
  <2>7. IsSeq(shown'.events)
    BY <2>4, <2>5, <2>6, ConcatSeq
  <2>8. AsksTrue'
    BY <1>1, <1>4 DEF AsksTrue
  <2>9. ShownTrue'
    <3>1. edits' \in Nat /\ \A p \in pages' : p.at \in 0 .. edits'
      BY <1>1, <2>4 DEF ShownTrue
    <3>2. pages' # {}
      BY <2>4
    <3>3. ~missed /\ ~typed => \A p \in pages' : p.filter = filter
      BY <1>1, <2>1, <2>4 DEF ShownTrue
    <3> QED BY <1>1, <2>7, <3>1, <3>2, <3>3 DEF ShownTrue, IsSeq
  <2>10. Tiled'
    <3> SUFFICES ASSUME NEW p \in pages', pages' = {p}, p.at = edits
                 PROVE  /\ p.filter = filter
                        /\ shown'.events = Slice(s, 0, Len(shown'.events))
                        /\ shown'.more = (Len(shown'.events) < Len(s))
      BY <1>1, <2>3 DEF Tiled
    <3>1. p = [filter |-> filter, at |-> edits] /\ p.filter = filter
      <4>1. [filter |-> filter, at |-> edits] \in pages'
        BY <2>4
      <4>2. [filter |-> filter, at |-> edits] = p
        BY <4>1
      <4> QED BY <4>2
    <3>2. CASE r.first
      <4>1. shown'.events = Slice(s, 0, PageSize) /\ shown'.more = (0 + PageSize < Len(s))
        BY <2>1, <2>4, <3>2
      <4> QED BY <2>3, <3>1, <4>1, FirstSlice
    <3>3. CASE ~r.first
      <4>1. pages = {p}
        BY <2>1, <2>4, <3>3
      <4>2. shown.events = Slice(s, 0, Len(shown.events))
        BY <1>1, <2>3, <3>1, <4>1 DEF Tiled
      <4>3. /\ shown'.events = shown.events \o Slice(s, Len(shown.events), PageSize)
            /\ shown'.more = (Len(shown.events) + PageSize < Len(s))
        BY <2>1, <2>4, <3>3
      <4>4. IsSeq(s) /\ Len(shown.events) \in Nat
        BY <2>3, <2>5
      <4>5. /\ shown'.events = Slice(s, 0, Len(shown'.events))
            /\ (Len(shown.events) + PageSize < Len(s)) = (Len(shown'.events) < Len(s))
        BY <4>2, <4>3, <4>4, NextSlice
      <4> QED BY <3>1, <4>3, <4>5
    <3> QED BY <3>2, <3>3
  <2> QED BY <1>2, <2>8, <2>9, <2>10 DEF ViewInv
<1> QED BY <1>3, <1>4

\* Every step keeps the invariant.
LEMMA ViewNext ==
    ASSUME WellNumbered, PageSize \in Nat, ViewInv, [Next]_vars
    PROVE  ViewInv'
<1>1. CASE UNCHANGED vars
  BY <1>1 DEF vars, client, ViewInv, WellKept, AsksTrue, ShownTrue, Tiled, IsSeq
<1> QED BY <1>1, EditStep, LoadStep, SelectStep, SearchStep, TimerStep, ZoomStep, FailStep, AnswerStep DEF Next

\* What a timeline shows is the beginning of the list of what is selected and searched
\* for, page after page, whatever was edited, asked for and zoomed while it was read.
THEOREM TimelineTiles == Spec => []PagesTile
<1>0. WellNumbered /\ PageSize \in Nat
  BY ViewsAssumption DEF ViewsAssumption
<1>1. Init => ViewInv
  BY <1>0, ViewInit
<1>2. ViewInv /\ [Next]_vars => ViewInv'
  BY <1>0, ViewNext
<1>3. ViewInv => PagesTile
  BY DEF ViewInv, ShownTrue, Tiled, PagesTile
<1> QED BY <1>1, <1>2, <1>3, PTL DEF Spec
=============================================================================
