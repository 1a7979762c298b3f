------------------------------- MODULE SetSums --------------------------------
(***************************************************************************)
(* What the proofs need of natural numbers and of sums over finite sets:   *)
(* induction and least elements from the well-foundedness of finite sets,  *)
(* SumFunctionOnSet as the number of units of its terms, and by induction  *)
(* how sums are split, scaled, regrouped and exchanged.                    *)
(***************************************************************************)
EXTENDS Integers, FiniteSets, Functions, FiniteSetTheorems, TLAPS

LEMMA SetInduction ==
  ASSUME NEW S, 0 \in S, \A n \in Nat : n \in S => n + 1 \in S
  PROVE  Nat \subseteq S
  <1> SUFFICES ASSUME Nat \ S # {} PROVE FALSE
    OBVIOUS
  <1>1. PICK R : R = StrictSubsetOrdering(Nat)
    OBVIOUS
  <1>2. PICK D : D = FiniteSubsetsOf(Nat)
    OBVIOUS
  <1>3. IsWellFoundedOn(R, D)
    BY <1>1, <1>2, FS_StrictSubsetOrderingWellFounded
  <1>4. PICK T : T = {1 .. n : n \in Nat \ S}
    OBVIOUS
  <1>5. T \subseteq D /\ T # {}
    <2>1. \A n \in Nat : 1 .. n \in D
      BY <1>2, FS_Interval DEF FiniteSubsetsOf
    <2> QED
      BY <1>4, <2>1
  <1>6. PICK x \in T : \A y \in T : ~(<<y, x>> \in R)
    BY <1>3, <1>5, WFMin
  <1>7. PICK m \in Nat \ S : x = 1 .. m
    BY <1>4
  <1>8. m # 0 /\ m - 1 \in Nat
    BY <1>7
  <1>9. m - 1 \in S
    <2>1. SUFFICES ASSUME m - 1 \notin S PROVE FALSE
      OBVIOUS
    <2>2. 1 .. m - 1 \in T
      BY <1>4, <1>8, <2>1
    <2>3. 1 .. m - 1 \subseteq 1 .. m /\ 1 .. m - 1 # 1 .. m
      <3>1. m \in 1 .. m /\ m \notin 1 .. m - 1
        BY <1>7, <1>8
      <3> QED
        BY <3>1, <1>8
    <2>4. 1 .. m - 1 \in SUBSET Nat /\ 1 .. m \in SUBSET Nat
      OBVIOUS
    <2>5. <<1 .. m - 1, 1 .. m>> \in R
      BY <1>1, <2>3, <2>4 DEF StrictSubsetOrdering
    <2> QED
      BY <1>6, <1>7, <2>2, <2>5
  <1>10. (m - 1) + 1 \in S
    BY <1>8, <1>9
  <1> QED
    BY <1>7, <1>10


LEMMA LeastNatural ==
  ASSUME NEW T \in SUBSET Nat, T # {}
  PROVE  \E m \in T : \A y \in T : m <= y
  <1> SUFFICES ASSUME \A m \in T : \E y \in T : ~(m <= y) PROVE FALSE
    OBVIOUS
  <1>1. PICK S : S = {n \in Nat : \A y \in T : n <= y}
    OBVIOUS
  <1>2. 0 \in S
    BY <1>1
  <1>3. ASSUME NEW n \in Nat, n \in S PROVE n + 1 \in S
    <2>1. n \notin T
      BY <1>1, <1>3
    <2>2. \A y \in T : n <= y /\ y # n /\ y \in Nat
      BY <1>1, <1>3, <2>1
    <2>3. \A y \in T : n + 1 <= y
      BY <2>2
    <2> QED
      BY <1>1, <2>3
  <1>4. Nat \subseteq S
    BY <1>2, <1>3, SetInduction
  <1>5. PICK t \in T : t \in Nat
    OBVIOUS
  <1>6. t + 1 \in S
    BY <1>4, <1>5
  <1> QED
    BY <1>1, <1>5, <1>6

LEMMA GreatestNatural ==
  ASSUME NEW T \in SUBSET Nat, T # {}, NEW n \in Nat, \A y \in T : y <= n
  PROVE  \E m \in T : \A y \in T : y <= m
  <1>1. PICK D : D = {n - y : y \in T}
    OBVIOUS
  <1>2. D \in SUBSET Nat /\ D # {}
    <2>1. \A y \in T : n - y \in Nat
      OBVIOUS
    <2> QED
      BY <1>1, <2>1
  <1>3. PICK d \in D : \A e \in D : d <= e
    BY <1>2, LeastNatural
  <1>4. PICK m \in T : d = n - m
    BY <1>1
  <1>5. ASSUME NEW y \in T PROVE y <= m
    <2>1. n - m <= n - y
      BY <1>1, <1>3, <1>4
    <2> QED
      BY <2>1
  <1> QED
    BY <1>5

\* The units of a sum, one by one.
UnitsOf(f, S) == UNION {{x} \X (1..f[x]) : x \in S}

LEMMA UnitsSplit ==
    ASSUME NEW S, NEW f, IsFiniteSet(S), \A x \in S : f[x] \in Nat
    PROVE  /\ UnitsOf(f, {}) = {}
           /\ \A T \in SUBSET S : /\ IsFiniteSet(UnitsOf(f, T)) /\ Cardinality(UnitsOf(f, T)) \in Nat
           /\ \A T \in SUBSET S : \A x \in T :
                 Cardinality(UnitsOf(f, T)) = f[x] + Cardinality(UnitsOf(f, T \ {x}))
<1>1. ASSUME NEW x \in S PROVE IsFiniteSet({x} \X (1..f[x])) /\ Cardinality({x} \X (1..f[x])) = f[x]
  <2>1. IsFiniteSet(1..f[x]) /\ Cardinality(1..f[x]) = f[x]
    BY FS_Interval
  <2>2. IsFiniteSet({x}) /\ Cardinality({x}) = 1
    BY FS_Singleton
  <2> DEFINE one == {x}
             units == 1..f[x]
  <2> HIDE DEF one, units
  <2>3. IsFiniteSet(one) /\ IsFiniteSet(units) /\ Cardinality(one) = 1 /\ Cardinality(units) = f[x]
    BY <2>1, <2>2 DEF one, units
  <2>4. IsFiniteSet(one \X units) /\ Cardinality(one \X units) = Cardinality(one) * Cardinality(units)
    BY <2>3, FS_Product
  <2>5. f[x] \in Nat /\ 1 * f[x] = f[x]
    OBVIOUS
  <2> QED BY <2>3, <2>4, <2>5 DEF one, units
<1>2. ASSUME NEW T \in SUBSET S PROVE IsFiniteSet(UnitsOf(f, T)) /\ Cardinality(UnitsOf(f, T)) \in Nat
  <2> DEFINE parts == {{x} \X (1..f[x]) : x \in T}
             part == [x \in T |-> {x} \X (1..f[x])]
  <2>1. IsFiniteSet(T)
    BY FS_Subset
  <2>2. part \in Surjection(T, parts)
    BY DEF Surjection
  <2>3. IsFiniteSet(parts)
    <3> HIDE DEF part, parts
    <3> QED BY <2>1, <2>2, FS_Surjection
  <2>4. \A P \in parts : IsFiniteSet(P)
    BY <1>1
  <2>5. IsFiniteSet(UnitsOf(f, T))
    <3> HIDE DEF parts
    <3>1. IsFiniteSet(UNION parts)
      BY <2>3, <2>4, FS_UNION
    <3> QED BY <3>1 DEF UnitsOf, parts
  <2> QED BY <2>5, FS_CardinalityType
<1>3. ASSUME NEW T \in SUBSET S, NEW x \in T
      PROVE  Cardinality(UnitsOf(f, T)) = f[x] + Cardinality(UnitsOf(f, T \ {x}))
  <2> DEFINE A == UnitsOf(f, T \ {x})
             B == {x} \X (1..f[x])
  <2>1. UnitsOf(f, T) = A \cup B
    BY DEF UnitsOf
  <2>2. A \cap B = {}
    BY DEF UnitsOf
  <2>3. T \ {x} \in SUBSET S /\ x \in S
    OBVIOUS
  <2>4. IsFiniteSet(A) /\ Cardinality(A) \in Nat
    BY <1>2, <2>3
  <2>5. IsFiniteSet(B) /\ Cardinality(B) = f[x] /\ f[x] \in Nat
    BY <1>1, <2>3
  <2> HIDE DEF A, B
  <2>6. Cardinality(A \cup B) = Cardinality(A) + Cardinality(B) - Cardinality(A \cap B)
    BY <2>4, <2>5, FS_Union
  <2>7. Cardinality(A \cap B) = 0
    BY <2>2, FS_EmptySet
  <2>8. Cardinality(A \cup B) = f[x] + Cardinality(A)
    BY <2>4, <2>5, <2>6, <2>7
  <2> QED BY <2>1, <2>8 DEF A
<1>4. UnitsOf(f, {}) = {}
  BY DEF UnitsOf
<1> QED BY <1>2, <1>3, <1>4

\* What the fold of the sum satisfies, and that it is a function of the set.
SumStep(f, S, g) ==
    g = [s \in SUBSET S |-> IF s = {} THEN 0
                            ELSE f[CHOOSE x \in s : TRUE] + g[s \ {CHOOSE x \in s : TRUE}]]

LEMMA SumUnfold ==
    ASSUME NEW f, NEW S
    PROVE  SumFunctionOnSet(f, S) = (CHOOSE g : SumStep(f, S, g))[S]
BY DEF SumFunctionOnSet, FoldFunctionOnSet, MapThenFoldSet, SumStep

LEMMA SumExists ==
    ASSUME NEW S, NEW f, IsFiniteSet(S), \A x \in S : f[x] \in Nat
    PROVE  SumStep(f, S, [s \in SUBSET S |-> Cardinality(UnitsOf(f, s))])
<1> DEFINE g == [s \in SUBSET S |-> Cardinality(UnitsOf(f, s))]
           h == [s \in SUBSET S |-> IF s = {} THEN 0
                            ELSE f[CHOOSE x \in s : TRUE] + g[s \ {CHOOSE x \in s : TRUE}]]
<1>1. ASSUME NEW s \in SUBSET S PROVE g[s] = h[s]
  <2>1. CASE s = {}
    BY <2>1, UnitsSplit, FS_EmptySet
  <2>2. CASE s # {}
    <3> DEFINE x == CHOOSE x \in s : TRUE
    <3>1. x \in s
      BY <2>2
    <3>2. h[s] = f[x] + g[s \ {x}]
      BY <2>2
    <3> HIDE DEF x
    <3>3. g[s \ {x}] = Cardinality(UnitsOf(f, s \ {x})) /\ g[s] = Cardinality(UnitsOf(f, s))
      OBVIOUS
    <3>4. Cardinality(UnitsOf(f, s)) = f[x] + Cardinality(UnitsOf(f, s \ {x}))
      BY <3>1, UnitsSplit
    <3> HIDE DEF g, h
    <3> QED BY <3>2, <3>3, <3>4
  <2> QED BY <2>1, <2>2
<1>2. g = [s \in SUBSET S |-> g[s]] /\ h = [s \in SUBSET S |-> h[s]]
  OBVIOUS
<1>3. g = h
  <2> HIDE DEF g, h
  <2> QED BY <1>1, <1>2
<1> HIDE DEF g
<1>4. SumStep(f, S, g)
  BY <1>3 DEF SumStep
<1> QED BY <1>4 DEF g

LEMMA SumUnique ==
    ASSUME NEW S, NEW f, IsFiniteSet(S), NEW g, NEW h, SumStep(f, S, g), SumStep(f, S, h)
    PROVE  g[S] = h[S]
<1> DEFINE N == {n \in Nat : \A s \in SUBSET S : Cardinality(s) = n => g[s] = h[s]}
<1>1. ASSUME NEW s \in SUBSET S PROVE IsFiniteSet(s) /\ Cardinality(s) \in Nat
  BY FS_Subset, FS_CardinalityType
<1>2. 0 \in N
  <2> SUFFICES ASSUME NEW s \in SUBSET S, Cardinality(s) = 0 PROVE g[s] = h[s]
    OBVIOUS
  <2>1. s = {}
    BY <1>1, FS_EmptySet
  <2> QED BY <2>1 DEF SumStep
<1>3. ASSUME NEW n \in Nat, n \in N PROVE n + 1 \in N
  <2> SUFFICES ASSUME NEW s \in SUBSET S, Cardinality(s) = n + 1 PROVE g[s] = h[s]
    OBVIOUS
  <2> DEFINE x == CHOOSE x \in s : TRUE
  <2>1. s # {}
    BY FS_EmptySet
  <2>2. x \in s
    BY <2>1
  <2>3. g[s] = f[x] + g[s \ {x}] /\ h[s] = f[x] + h[s \ {x}]
    BY <2>1 DEF SumStep
  <2> HIDE DEF x
  <2>4. Cardinality(s \ {x}) = n
    BY <1>1, <2>2, FS_RemoveElement
  <2>5. g[s \ {x}] = h[s \ {x}]
    BY <1>3, <2>4
  <2> QED BY <2>3, <2>5
<1>4. Nat \subseteq N
  <2> HIDE DEF N
  <2> QED BY <1>2, <1>3, SetInduction
<1> QED BY <1>1, <1>4

\* The sum of naturals over a finite set is the number of its units.
LEMMA SumIsCount ==
    ASSUME NEW S, NEW f, IsFiniteSet(S), \A x \in S : f[x] \in Nat
    PROVE  SumFunctionOnSet(f, S) = Cardinality(UnitsOf(f, S))
<1> DEFINE h == [s \in SUBSET S |-> Cardinality(UnitsOf(f, s))]
<1>1. SumStep(f, S, h)
  BY SumExists
<1>2. h[S] = Cardinality(UnitsOf(f, S))
  OBVIOUS
<1> HIDE DEF h
<1>3. SumStep(f, S, CHOOSE g : SumStep(f, S, g))
  BY <1>1
<1>4. (CHOOSE g : SumStep(f, S, g))[S] = h[S]
  BY <1>1, <1>3, SumUnique
<1> QED BY <1>2, <1>4, SumUnfold

LEMMA SumFacts ==
    ASSUME NEW S, NEW f, IsFiniteSet(S), \A x \in S : f[x] \in Nat
    PROVE  /\ SumFunctionOnSet(f, S) \in Nat
           /\ (\A x \in S : f[x] = 0) => SumFunctionOnSet(f, S) = 0
           /\ \A T \in SUBSET S : SumFunctionOnSet(f, T) <= SumFunctionOnSet(f, S)
           /\ \A c \in Nat : (\A x \in S : f[x] = c) => SumFunctionOnSet(f, S) = Cardinality(S) * c
           /\ \A g : (\A x \in S : g[x] = f[x]) => SumFunctionOnSet(g, S) = SumFunctionOnSet(f, S)
<1>1. SumFunctionOnSet(f, S) = Cardinality(UnitsOf(f, S)) /\ IsFiniteSet(UnitsOf(f, S))
  BY SumIsCount, UnitsSplit
<1>2. SumFunctionOnSet(f, S) \in Nat
  BY <1>1, FS_CardinalityType
<1>3. ASSUME \A x \in S : f[x] = 0 PROVE SumFunctionOnSet(f, S) = 0
  <2>1. UnitsOf(f, S) = {}
    BY <1>3 DEF UnitsOf
  <2> QED BY <1>1, <2>1, FS_EmptySet
<1>4. ASSUME NEW T \in SUBSET S PROVE SumFunctionOnSet(f, T) <= SumFunctionOnSet(f, S)
  <2>1. IsFiniteSet(T) /\ \A x \in T : f[x] \in Nat
    BY FS_Subset
  <2>2. SumFunctionOnSet(f, T) = Cardinality(UnitsOf(f, T))
    BY <2>1, SumIsCount
  <2>3. UnitsOf(f, T) \subseteq UnitsOf(f, S)
    BY DEF UnitsOf
  <2> QED BY <1>1, <2>2, <2>3, FS_Subset
<1>5. ASSUME NEW c \in Nat, \A x \in S : f[x] = c
      PROVE  SumFunctionOnSet(f, S) = Cardinality(S) * c
  <2>1. UnitsOf(f, S) = S \X (1..c)
    BY <1>5 DEF UnitsOf
  <2>2. IsFiniteSet(1..c) /\ Cardinality(1..c) = c
    BY FS_Interval
  <2>3. Cardinality(S \X (1..c)) = Cardinality(S) * Cardinality(1..c)
    BY <2>2, FS_Product
  <2> QED BY <1>1, <2>1, <2>2, <2>3
<1>6. ASSUME NEW g, \A x \in S : g[x] = f[x]
      PROVE  SumFunctionOnSet(g, S) = SumFunctionOnSet(f, S)
  <2>1. SumFunctionOnSet(g, S) = Cardinality(UnitsOf(g, S))
    BY <1>6, SumIsCount
  <2>2. UnitsOf(g, S) = UnitsOf(f, S)
    BY <1>6 DEF UnitsOf
  <2> QED BY <1>1, <2>1, <2>2
<1> QED BY <1>2, <1>3, <1>4, <1>5, <1>6

LEMMA FiniteBounded ==
    ASSUME NEW S \in SUBSET Nat, IsFiniteSet(S)
    PROVE  \E b \in Nat : \A y \in S : y <= b
<1>1. PICK id : id = [y \in S |-> y]
  OBVIOUS
<1>2. \A y \in S : id[y] = y /\ id[y] \in Nat
  BY <1>1
<1>3. SumFunctionOnSet(id, S) \in Nat
  BY <1>2, SumFacts
<1>4. ASSUME NEW y \in S PROVE y <= SumFunctionOnSet(id, S)
  <2>1. {y} \in SUBSET S /\ IsFiniteSet({y}) /\ Cardinality({y}) = 1
    BY FS_Singleton
  <2>2. SumFunctionOnSet(id, {y}) <= SumFunctionOnSet(id, S)
    BY <1>2, <2>1, SumFacts
  <2>3. SumFunctionOnSet(id, {y}) = 1 * y
    <3>1. \A x \in {y} : id[x] \in Nat /\ id[x] = y
      BY <1>2
    <3>2. y \in Nat
      OBVIOUS
    <3> QED BY <2>1, <3>1, <3>2, SumFacts
  <2> QED BY <2>2, <2>3
<1> QED BY <1>3, <1>4

LEMMA GreatestOf ==
    ASSUME NEW S \in SUBSET Nat, IsFiniteSet(S), S # {}
    PROVE  \E m \in S : \A y \in S : y <= m
BY FiniteBounded, GreatestNatural

LEMMA Image ==
    ASSUME NEW S, IsFiniteSet(S), NEW f
    PROVE  IsFiniteSet({f[x] : x \in S})
<1>1. PICK g : g = [x \in S |-> f[x]]
  OBVIOUS
<1>2. g \in Surjection(S, {f[x] : x \in S})
  BY <1>1 DEF Surjection
<1> QED BY <1>2, FS_Surjection

LEMMA Division ==
    ASSUME NEW x \in Nat, NEW y \in Nat \ {0}
    PROVE  x \div y \in Nat /\ y * (x \div y) <= x /\ x < y * (x \div y) + y
OBVIOUS

LEMMA SumSplit ==
    ASSUME NEW S, NEW f, IsFiniteSet(S), \A x \in S : f[x] \in Nat, NEW x \in S
    PROVE  SumFunctionOnSet(f, S) = f[x] + SumFunctionOnSet(f, S \ {x})
<1>1. IsFiniteSet(S \ {x}) /\ \A y \in S \ {x} : f[y] \in Nat
  BY FS_Subset
<1>2. /\ SumFunctionOnSet(f, S) = Cardinality(UnitsOf(f, S))
      /\ SumFunctionOnSet(f, S \ {x}) = Cardinality(UnitsOf(f, S \ {x}))
  BY <1>1, SumIsCount
<1> QED BY <1>2, UnitsSplit

LEMMA SumDisjoint ==
    ASSUME NEW S, NEW f, IsFiniteSet(S), \A x \in S : f[x] \in Nat, NEW A, NEW B,
           A \cup B = S, A \cap B = {}
    PROVE  SumFunctionOnSet(f, S) = SumFunctionOnSet(f, A) + SumFunctionOnSet(f, B)
<1>1. A \in SUBSET S /\ B \in SUBSET S /\ IsFiniteSet(A) /\ IsFiniteSet(B)
  BY FS_Subset
<1>2. /\ SumFunctionOnSet(f, S) = Cardinality(UnitsOf(f, S))
      /\ SumFunctionOnSet(f, A) = Cardinality(UnitsOf(f, A))
      /\ SumFunctionOnSet(f, B) = Cardinality(UnitsOf(f, B))
  BY <1>1, SumIsCount
<1>3. /\ IsFiniteSet(UnitsOf(f, A)) /\ Cardinality(UnitsOf(f, A)) \in Nat
      /\ IsFiniteSet(UnitsOf(f, B)) /\ Cardinality(UnitsOf(f, B)) \in Nat
  BY <1>1, UnitsSplit
<1>4. UnitsOf(f, S) = UnitsOf(f, A) \cup UnitsOf(f, B) /\ UnitsOf(f, A) \cap UnitsOf(f, B) = {}
  BY DEF UnitsOf
<1>5. Cardinality(UnitsOf(f, S)) = Cardinality(UnitsOf(f, A)) + Cardinality(UnitsOf(f, B))
  <2>1. PICK a, b : a = UnitsOf(f, A) /\ b = UnitsOf(f, B)
    OBVIOUS
  <2>2. Cardinality(a \cup b) = Cardinality(a) + Cardinality(b) - Cardinality(a \cap b)
    BY <1>3, <2>1, FS_Union
  <2>3. Cardinality(a \cap b) = 0
    BY <1>4, <2>1, FS_EmptySet
  <2>4. Cardinality(a) \in Nat /\ Cardinality(b) \in Nat
    BY <1>3, <2>1
  <2> QED BY <1>4, <2>1, <2>2, <2>3, <2>4
<1> QED BY <1>2, <1>3, <1>5

\* One term grows by one.
LEMMA SumPlusOne ==
    ASSUME NEW S, NEW f, NEW g, IsFiniteSet(S), \A x \in S : f[x] \in Nat, NEW c,
           \A x \in S : g[x] = IF x = c THEN f[x] + 1 ELSE f[x]
    PROVE  SumFunctionOnSet(g, S) = IF c \in S THEN SumFunctionOnSet(f, S) + 1 ELSE SumFunctionOnSet(f, S)
<1>1. \A x \in S : g[x] \in Nat
  OBVIOUS
<1>2. CASE c \in S
  <2>1. IsFiniteSet(S \ {c}) /\ (\A x \in S \ {c} : f[x] \in Nat /\ g[x] = f[x])
    BY FS_Subset
  <2>2. SumFunctionOnSet(g, S \ {c}) = SumFunctionOnSet(f, S \ {c}) /\ SumFunctionOnSet(f, S \ {c}) \in Nat
    BY <2>1, SumFacts
  <2>3. /\ SumFunctionOnSet(f, S) = f[c] + SumFunctionOnSet(f, S \ {c})
        /\ SumFunctionOnSet(g, S) = g[c] + SumFunctionOnSet(g, S \ {c})
    BY <1>1, <1>2, SumSplit
  <2>4. g[c] = f[c] + 1 /\ f[c] \in Nat
    BY <1>2
  <2> QED BY <1>2, <2>2, <2>3, <2>4
<1>3. CASE c \notin S
  <2>1. \A x \in S : g[x] = f[x]
    BY <1>3
  <2> QED BY <1>3, <2>1, SumFacts
<1> QED BY <1>2, <1>3

LEMMA UpTo == \A n \in Nat : IsFiniteSet(1..n) /\ Cardinality(1..n) = n
BY FS_Interval

\* Induction over the subsets of a finite set, for a collection of them.
LEMMA FiniteInduct ==
    ASSUME NEW T, IsFiniteSet(T), NEW G, {} \in G,
           \A V \in SUBSET T : \A x \in T \ V : V \in G => V \cup {x} \in G
    PROVE  T \in G
<1> DEFINE N == {n \in Nat : \A V \in SUBSET T : Cardinality(V) = n => V \in G}
<1>1. ASSUME NEW V \in SUBSET T PROVE IsFiniteSet(V) /\ Cardinality(V) \in Nat
  BY FS_Subset, FS_CardinalityType
<1>2. 0 \in N
  <2> SUFFICES ASSUME NEW V \in SUBSET T, Cardinality(V) = 0 PROVE V \in G
    OBVIOUS
  <2>1. V = {}
    BY <1>1, FS_EmptySet
  <2> QED BY <2>1
<1>3. ASSUME NEW n \in Nat, n \in N PROVE n + 1 \in N
  <2> SUFFICES ASSUME NEW V \in SUBSET T, Cardinality(V) = n + 1 PROVE V \in G
    OBVIOUS
  <2>1. V # {}
    BY FS_EmptySet
  <2>2. PICK x : x \in V
    BY <2>1
  <2>3. Cardinality(V \ {x}) = n
    <3>1. IsFiniteSet(V) /\ Cardinality(V \ {x}) = Cardinality(V) - 1
      BY <1>1, <2>2, FS_RemoveElement
    <3> QED BY <3>1
  <2>4. V \ {x} \in SUBSET T /\ x \in T \ (V \ {x}) /\ (V \ {x}) \cup {x} = V
    BY <2>2
  <2>5. V \ {x} \in G
    BY <1>3, <2>3, <2>4
  <2> QED BY <2>4, <2>5
<1>4. Nat \subseteq N
  <2> HIDE DEF N
  <2> QED BY <1>2, <1>3, SetInduction
<1> QED BY <1>1, <1>4

LEMMA SumNext ==
    ASSUME NEW S, NEW f, IsFiniteSet(S), \A x \in S : f[x] \in Nat, NEW V \in SUBSET S, NEW x \in S \ V
    PROVE  /\ SumFunctionOnSet(f, V \cup {x}) = SumFunctionOnSet(f, V) + f[x]
           /\ SumFunctionOnSet(f, V) \in Nat
<1>1. IsFiniteSet(V \cup {x}) /\ IsFiniteSet(V) /\ V \cup {x} \in SUBSET S
  BY FS_Subset
<1>2. SumFunctionOnSet(f, V \cup {x}) = f[x] + SumFunctionOnSet(f, (V \cup {x}) \ {x})
  BY <1>1, SumSplit
<1>3. (V \cup {x}) \ {x} = V
  OBVIOUS
<1>4. SumFunctionOnSet(f, V) \in Nat /\ f[x] \in Nat
  BY <1>1, SumFacts
<1> QED BY <1>2, <1>3, <1>4

LEMMA SumEmpty == \A f : SumFunctionOnSet(f, {}) = 0
BY SumFacts, FS_EmptySet

LEMMA SumAdd ==
    ASSUME NEW S, NEW f, NEW g, NEW h, IsFiniteSet(S),
           \A x \in S : f[x] \in Nat /\ g[x] \in Nat /\ h[x] = f[x] + g[x]
    PROVE  SumFunctionOnSet(h, S) = SumFunctionOnSet(f, S) + SumFunctionOnSet(g, S)
<1> DEFINE G == {V \in SUBSET S : SumFunctionOnSet(h, V) = SumFunctionOnSet(f, V) + SumFunctionOnSet(g, V)}
<1>1. {} \in G
  BY SumEmpty
<1>2. ASSUME NEW V \in SUBSET S, NEW x \in S \ V, V \in G PROVE V \cup {x} \in G
  <2>1. \A y \in S : h[y] \in Nat
    OBVIOUS
  <2>a. /\ SumFunctionOnSet(f, V \cup {x}) = SumFunctionOnSet(f, V) + f[x]
        /\ SumFunctionOnSet(f, V) \in Nat
    BY SumNext
  <2>b. /\ SumFunctionOnSet(g, V \cup {x}) = SumFunctionOnSet(g, V) + g[x]
        /\ SumFunctionOnSet(g, V) \in Nat
    BY SumNext
  <2>2. SumFunctionOnSet(h, V \cup {x}) = SumFunctionOnSet(h, V) + h[x]
    <3> HIDE DEF G
    <3> QED BY <2>1, SumNext
  <2>3. h[x] = f[x] + g[x] /\ f[x] \in Nat /\ g[x] \in Nat
    OBVIOUS
  <2>4. SumFunctionOnSet(h, V) = SumFunctionOnSet(f, V) + SumFunctionOnSet(g, V)
    BY <1>2
  <2>5. V \cup {x} \in SUBSET S
    OBVIOUS
  <2> QED BY <2>a, <2>b, <2>2, <2>3, <2>4, <2>5
<1>3. S \in G
  <2> HIDE DEF G
  <2> QED BY <1>1, <1>2, FiniteInduct
<1> QED BY <1>3

LEMMA SumScale ==
    ASSUME NEW S, NEW f, NEW g, NEW c \in Nat, IsFiniteSet(S),
           \A x \in S : f[x] \in Nat /\ g[x] = c * f[x]
    PROVE  SumFunctionOnSet(g, S) = c * SumFunctionOnSet(f, S)
<1> DEFINE G == {V \in SUBSET S : SumFunctionOnSet(g, V) = c * SumFunctionOnSet(f, V)}
<1>1. {} \in G
  BY SumEmpty
<1>2. ASSUME NEW V \in SUBSET S, NEW x \in S \ V, V \in G PROVE V \cup {x} \in G
  <2>1. \A y \in S : g[y] \in Nat
    OBVIOUS
  <2>2. /\ SumFunctionOnSet(f, V \cup {x}) = SumFunctionOnSet(f, V) + f[x]
        /\ SumFunctionOnSet(f, V) \in Nat
    BY SumNext
  <2>a. SumFunctionOnSet(g, V \cup {x}) = SumFunctionOnSet(g, V) + g[x]
    <3> HIDE DEF G
    <3> QED BY <2>1, SumNext
  <2>3. PICK m, n \in Nat : m = SumFunctionOnSet(f, V) /\ n = f[x]
    BY <2>2
  <2>4. c * (m + n) = c * m + c * n
    OBVIOUS
  <2>5. V \cup {x} \in SUBSET S
    OBVIOUS
  <2>6. SumFunctionOnSet(g, V \cup {x}) = c * m + c * n
    BY <1>2, <2>a, <2>3
  <2> QED BY <2>2, <2>3, <2>4, <2>5, <2>6
<1>3. S \in G
  <2> HIDE DEF G
  <2> QED BY <1>1, <1>2, FiniteInduct
<1> QED BY <1>3

\* A sum taken key by key.
LEMMA SumFibres ==
    ASSUME NEW S, NEW f, IsFiniteSet(S), \A x \in S : f[x] \in Nat, NEW key, NEW T, IsFiniteSet(T),
           NEW F, \A t \in T : F[t] = SumFunctionOnSet(f, {x \in S : key[x] = t})
    PROVE  SumFunctionOnSet(F, T) = SumFunctionOnSet(f, {x \in S : key[x] \in T})
<1> DEFINE Over(V) == {x \in S : key[x] \in V}
           G == {V \in SUBSET T : SumFunctionOnSet(F, V) = SumFunctionOnSet(f, Over(V))}
<1>0. ASSUME NEW t \in T PROVE F[t] \in Nat
  <2>1. {x \in S : key[x] = t} \in SUBSET S
    OBVIOUS
  <2>2. IsFiniteSet({x \in S : key[x] = t}) /\ \A y \in {x \in S : key[x] = t} : f[y] \in Nat
    BY <2>1, FS_Subset
  <2>3. SumFunctionOnSet(f, {x \in S : key[x] = t}) \in Nat
    BY <2>2, SumFacts
  <2> QED BY <2>3
<1>1. {} \in G
  <2>1. Over({}) = {}
    OBVIOUS
  <2> QED BY <2>1, SumEmpty
<1>2. ASSUME NEW V \in SUBSET T, NEW t \in T \ V, V \in G PROVE V \cup {t} \in G
  <2> DEFINE A == Over(V)
             B == {x \in S : key[x] = t}
             C == Over(V \cup {t})
  <2>1. A \cup B = C /\ A \cap B = {} /\ C \in SUBSET S
    OBVIOUS
  <2>2. SumFunctionOnSet(F, V) = SumFunctionOnSet(f, A)
    BY <1>2
  <2>3. F[t] = SumFunctionOnSet(f, B)
    OBVIOUS
  <2>4. V \cup {t} \in SUBSET T
    OBVIOUS
  <2>5. SUFFICES SumFunctionOnSet(F, V \cup {t}) = SumFunctionOnSet(f, C)
    BY <2>4
  <2> HIDE DEF A, B, C, G, Over
  <2>6. IsFiniteSet(C) /\ \A x \in C : f[x] \in Nat
    BY <2>1, FS_Subset
  <2>7. SumFunctionOnSet(f, C) = SumFunctionOnSet(f, A) + SumFunctionOnSet(f, B)
    BY <2>1, <2>6, SumDisjoint
  <2>8. SumFunctionOnSet(F, V \cup {t}) = SumFunctionOnSet(F, V) + F[t]
    BY <1>0, SumNext
  <2> QED BY <2>2, <2>3, <2>7, <2>8
<1>3. T \in G
  <2> HIDE DEF G
  <2> QED BY <1>1, <1>2, FiniteInduct
<1> QED BY <1>3

\* Two ways to add up what rows hold in some of the columns.
Having(D, L, u) == {l \in L : u \in D[l]}
Column(row, D, L, u) == [l \in Having(D, L, u) |-> row[l][u]]
Tabled(L, U, D, row, A, B) ==
    /\ \A l \in L : D[l] \in SUBSET U /\ \A u \in D[l] : row[l][u] \in Nat
    /\ \A u \in U : A[u] = SumFunctionOnSet(Column(row, D, L, u), Having(D, L, u))
    /\ \A l \in L : B[l] = SumFunctionOnSet(row[l], D[l])
LEMMA SumExchange ==
    ASSUME NEW L, IsFiniteSet(L), NEW U, IsFiniteSet(U), NEW D, NEW row, NEW A, NEW B,
           Tabled(L, U, D, row, A, B)
    PROVE  SumFunctionOnSet(A, U) = SumFunctionOnSet(B, L)
<1> USE DEF Tabled
<1> DEFINE Rows(V) == [l \in L |-> SumFunctionOnSet(row[l], D[l] \cap V)]
           G == {V \in SUBSET U : SumFunctionOnSet(A, V) = SumFunctionOnSet(Rows(V), L)}
<1>a. ASSUME NEW l \in L, NEW V \in SUBSET U
      PROVE  IsFiniteSet(D[l] \cap V) /\ (\A u \in D[l] \cap V : row[l][u] \in Nat)
             /\ SumFunctionOnSet(row[l], D[l] \cap V) \in Nat
  <2>1. IsFiniteSet(D[l] \cap V) /\ (\A u \in D[l] \cap V : row[l][u] \in Nat)
    BY FS_Subset
  <2> QED BY <2>1, SumFacts
<1>b. ASSUME NEW u \in U
      PROVE  /\ IsFiniteSet({k \in L : u \in D[k]})
             /\ \A l \in {k \in L : u \in D[k]} : Column(row, D, L, u)[l] \in Nat
             /\ A[u] \in Nat
  <2>1. IsFiniteSet({k \in L : u \in D[k]})
    BY FS_Subset
  <2>2. \A l \in {k \in L : u \in D[k]} : Column(row, D, L, u)[l] \in Nat
    BY DEF Column, Having
  <2>3. Having(D, L, u) = {k \in L : u \in D[k]}
    BY DEF Having
  <2>4. A[u] = SumFunctionOnSet(Column(row, D, L, u), Having(D, L, u))
    OBVIOUS
  <2>5. SumFunctionOnSet(Column(row, D, L, u), Having(D, L, u)) \in Nat
    BY <2>1, <2>2, <2>3, SumFacts
  <2> QED BY <2>1, <2>2, <2>4, <2>5
<1>1. {} \in G
  <2>1. \A l \in L : Rows({})[l] = 0
    <3>1. \A l \in L : D[l] \cap {} = {}
      OBVIOUS
    <3> QED BY <3>1, SumEmpty
  <2>2. SumFunctionOnSet(Rows({}), L) = 0
    <3> HIDE DEF Rows
    <3> QED BY <2>1, SumFacts
  <2> QED BY <2>2, SumEmpty
<1>2. ASSUME NEW V \in SUBSET U, NEW u \in U \ V, V \in G PROVE V \cup {u} \in G
  <2> DEFINE K == {k \in L : u \in D[k]}
             c == Column(row, D, L, u)
             d == [l \in L |-> IF l \in K THEN c[l] ELSE 0]
  <2>1. V \cup {u} \in SUBSET U /\ V \cup {u} = V \cup {u}
    OBVIOUS
  <2>2. SumFunctionOnSet(A, V) = SumFunctionOnSet(Rows(V), L)
    BY <1>2
  <2>3. SumFunctionOnSet(A, V \cup {u}) = SumFunctionOnSet(A, V) + A[u]
    <3>1. \A y \in U : A[y] \in Nat
      BY <1>b
    <3> HIDE DEF G, Rows
    <3> QED BY <3>1, SumNext
  <2>4. A[u] = SumFunctionOnSet(c, K)
    BY DEF Having
  <2>5. SumFunctionOnSet(d, L) = SumFunctionOnSet(c, K)
    <3>1. \A l \in L : d[l] \in Nat
      BY <1>b
    <3>2. K \cup (L \ K) = L /\ K \cap (L \ K) = {} /\ K \in SUBSET L
      OBVIOUS
    <3>3. \A l \in K : c[l] \in Nat /\ d[l] = c[l]
      BY <1>b
    <3>4. \A l \in L \ K : d[l] = 0
      OBVIOUS
    <3> HIDE DEF K, c, d
    <3>5. IsFiniteSet(K) /\ IsFiniteSet(L \ K)
      BY <3>2, FS_Subset
    <3>6. SumFunctionOnSet(d, L) = SumFunctionOnSet(d, K) + SumFunctionOnSet(d, L \ K)
      BY <3>1, <3>2, SumDisjoint
    <3>7. SumFunctionOnSet(d, K) = SumFunctionOnSet(c, K) /\ SumFunctionOnSet(c, K) \in Nat
      BY <3>3, <3>5, SumFacts
    <3>8. SumFunctionOnSet(d, L \ K) = 0
      BY <3>4, <3>5, SumFacts
    <3> QED BY <3>6, <3>7, <3>8
  <2>6. ASSUME NEW l \in L
        PROVE  Rows(V)[l] \in Nat /\ d[l] \in Nat /\ Rows(V \cup {u})[l] = Rows(V)[l] + d[l]
    <3>1. Rows(V)[l] = SumFunctionOnSet(row[l], D[l] \cap V)
          /\ Rows(V \cup {u})[l] = SumFunctionOnSet(row[l], D[l] \cap (V \cup {u}))
      OBVIOUS
    <3>2. CASE l \in K
      <4>1. d[l] = row[l][u] /\ u \in D[l]
        BY <3>2 DEF Column, Having
      <4>2. D[l] \cap (V \cup {u}) = (D[l] \cap V) \cup {u} /\ D[l] \cap V \in SUBSET D[l] /\ u \in D[l] \ (D[l] \cap V)
        BY <4>1
      <4>3. IsFiniteSet(D[l]) /\ \A y \in D[l] : row[l][y] \in Nat
        BY FS_Subset
      <4>4. SumFunctionOnSet(row[l], (D[l] \cap V) \cup {u}) = SumFunctionOnSet(row[l], D[l] \cap V) + row[l][u]
        <5> DEFINE w == row[l]
                   X == D[l] \cap V
                   Y == D[l]
        <5>1. IsFiniteSet(Y) /\ (\A y \in Y : w[y] \in Nat) /\ X \in SUBSET Y /\ u \in Y \ X
          BY <4>2, <4>3
        <5> HIDE DEF w, X, Y
        <5>2. SumFunctionOnSet(w, X \cup {u}) = SumFunctionOnSet(w, X) + w[u]
          BY <5>1, SumNext
        <5> QED BY <5>2 DEF w, X, Y
      <4> QED BY <1>a, <3>1, <4>1, <4>2, <4>3, <4>4
    <3>3. CASE l \notin K
      <4>1. d[l] = 0 /\ D[l] \cap (V \cup {u}) = D[l] \cap V
        BY <3>3
      <4>2. Rows(V)[l] \in Nat
        BY <1>a
      <4>3. Rows(V \cup {u})[l] = Rows(V)[l]
        BY <3>1, <4>1
      <4> QED
        <5> HIDE DEF Rows, d
        <5> QED BY <4>1, <4>2, <4>3
    <3> QED BY <3>2, <3>3
  <2>7. SumFunctionOnSet(Rows(V \cup {u}), L) = SumFunctionOnSet(Rows(V), L) + SumFunctionOnSet(d, L)
    <3> DEFINE f == Rows(V)
               h == Rows(V \cup {u})
    <3>1. \A l \in L : f[l] \in Nat /\ d[l] \in Nat /\ h[l] = f[l] + d[l]
      BY <2>6
    <3> HIDE DEF f, h, d
    <3>2. SumFunctionOnSet(h, L) = SumFunctionOnSet(f, L) + SumFunctionOnSet(d, L)
      BY <3>1, SumAdd
    <3> QED BY <3>2 DEF f, h
  <2> QED BY <2>1, <2>2, <2>3, <2>4, <2>5, <2>7
<1>3. U \in G
  <2> HIDE DEF G
  <2> QED BY <1>1, <1>2, FiniteInduct
<1>4. \A l \in L : Rows(U)[l] = B[l]
  <2>1. \A l \in L : D[l] \cap U = D[l]
    OBVIOUS
  <2> QED BY <2>1
<1>5. SumFunctionOnSet(B, L) = SumFunctionOnSet(Rows(U), L)
  <2>1. \A l \in L : Rows(U)[l] \in Nat
    BY <1>a
  <2> HIDE DEF Rows
  <2> QED BY <1>4, <2>1, SumFacts
<1> QED BY <1>3, <1>5
=============================================================================
