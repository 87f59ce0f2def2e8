------------------------------- MODULE SumFacts -------------------------------
(* Lemmas about the sums and products of a function over a finite set,     *)
(* as SumFunctionOnSet and FoldFunctionOnSet of Functions define them.     *)
(* Induction is over a set: of numbers, or of the subsets of a finite set. *)
EXTENDS DataFacts, Functions

-----------------------------------------------------------------------------
(* Induction *)

LEMMA NaturalInduction ==
  ASSUME NEW G, 0 \in G, \A n \in Nat : n \in G => n + 1 \in G
  PROVE  Nat \subseteq G
<1> SUFFICES ASSUME Nat \ G # {} PROVE FALSE
  OBVIOUS
<1>1. PICK n \in Nat \ G : \A m \in Nat \ G : n <= m
  BY LeastNatural
<1>2. n # 0
  OBVIOUS
<1>3. n - 1 \in Nat /\ (n - 1) + 1 = n
  BY <1>2
<1>4. n - 1 \notin G
  BY <1>3
<1> QED
  BY <1>1, <1>3, <1>4

LEMMA SubsetInduction ==
  ASSUME NEW S, IsFiniteSet(S), NEW G, {} \in G,
         \A T \in SUBSET S : T # {} /\ (\A x \in T : T \ {x} \in G) => T \in G
  PROVE  SUBSET S \subseteq G
<1> DEFINE N == {n \in Nat : \A T \in SUBSET S : Cardinality(T) = n => T \in G}
<1>0. \A T \in SUBSET S : IsFiniteSet(T) /\ Cardinality(T) \in Nat
  BY FS_Subset, FS_CardinalityType
<1>1. 0 \in N
  BY <1>0, FS_EmptySet
<1>2. ASSUME NEW n \in Nat, n \in N PROVE n + 1 \in N
  <2> SUFFICES ASSUME NEW T \in SUBSET S, Cardinality(T) = n + 1 PROVE T \in G
    OBVIOUS
  <2>1. T # {}
    <3>1. Cardinality({}) = 0 /\ n + 1 # 0
      BY FS_EmptySet
    <3> QED
      BY <3>1
  <2>2. ASSUME NEW x \in T PROVE T \ {x} \in G
    <3>1. Cardinality(T \ {x}) = n
      BY <1>0, FS_RemoveElement
    <3> QED
      BY <1>2, <3>1
  <2> QED
    BY <2>1, <2>2
<1> HIDE DEF N
<1>3. Nat \subseteq N
  BY <1>1, <1>2, NaturalInduction
<1> QED
  BY <1>0, <1>3 DEF N

-----------------------------------------------------------------------------
(* A fold takes an element of the set, combines it with the fold of the rest. *)

Pick(s) == CHOOSE x \in s : TRUE

\* it is the fold, with first value base, whose step is a function of the set that
\* is left and of the value for the rest of it.
Folds(it, S, base, step) ==
  \A s \in SUBSET S : it[s] = IF s = {} THEN base ELSE step[<<s, it[s \ {Pick(s)}]>>]

LEMMA PickIn ==
  ASSUME NEW s, s # {}
  PROVE  Pick(s) \in s
BY DEF Pick

LEMMA FoldExists ==
  ASSUME NEW S, IsFiniteSet(S), NEW V, NEW base \in V, NEW step \in [(SUBSET S) \X V -> V]
  PROVE  \E it \in [SUBSET S -> V] : Folds(it, S, base, step)
<1> DEFINE Upto(n) == {s \in SUBSET S : Cardinality(s) <= n}
           Good(it, n) == \A s \in Upto(n) : it[s] = IF s = {} THEN base ELSE step[<<s, it[s \ {Pick(s)}]>>]
           G == {n \in Nat : \E it \in [Upto(n) -> V] : Good(it, n)}
<1>1. \A s \in SUBSET S : IsFiniteSet(s) /\ Cardinality(s) \in Nat
  BY FS_Subset, FS_CardinalityType
<1>2. \A s \in SUBSET S : Cardinality(s) = 0 <=> s = {}
  BY <1>1, FS_EmptySet
<1>3. \A s \in SUBSET S : s # {} => s \ {Pick(s)} \in SUBSET S /\ Cardinality(s \ {Pick(s)}) = Cardinality(s) - 1
  BY <1>1, PickIn, FS_RemoveElement
<1>4. 0 \in G
  <2> DEFINE it == [s \in Upto(0) |-> base]
  <2>1. \A s \in Upto(0) : s = {}
    BY <1>1, <1>2
  <2>2. it \in [Upto(0) -> V] /\ Good(it, 0)
    BY <2>1
  <2> QED
    BY <2>2
<1>5. ASSUME NEW n \in Nat, n \in G PROVE n + 1 \in G
  <2>1. PICK it \in [Upto(n) -> V] : Good(it, n)
    BY <1>5
  <2> DEFINE next == [s \in Upto(n + 1) |->
                        IF s \in Upto(n) THEN it[s] ELSE step[<<s, it[s \ {Pick(s)}]>>]]
  <2>2. \A s \in Upto(n + 1) : s # {} => s \ {Pick(s)} \in Upto(n) /\ s \ {Pick(s)} \in Upto(n + 1)
    BY <1>1, <1>3
  <2>3. {} \in Upto(n) /\ \A s \in Upto(n) : s \in Upto(n + 1)
    BY <1>1, <1>2
  <2>4. next \in [Upto(n + 1) -> V]
    <3> SUFFICES ASSUME NEW s \in Upto(n + 1)
                 PROVE  (IF s \in Upto(n) THEN it[s] ELSE step[<<s, it[s \ {Pick(s)}]>>]) \in V
      OBVIOUS
    <3>1. CASE s \in Upto(n)
      BY <3>1
    <3>2. CASE s \notin Upto(n)
      <4>1. s # {} /\ s \in SUBSET S
        BY <2>3, <3>2
      <4>2. it[s \ {Pick(s)}] \in V
        BY <2>2, <4>1
      <4>3. <<s, it[s \ {Pick(s)}]>> \in (SUBSET S) \X V
        BY <4>1, <4>2
      <4> QED
        BY <3>2, <4>3
    <3> QED
      BY <3>1, <3>2
  <2>5. ASSUME NEW s \in Upto(n + 1)
        PROVE  next[s] = IF s = {} THEN base ELSE step[<<s, next[s \ {Pick(s)}]>>]
    <3>1. CASE s = {}
      BY <2>1, <2>3, <3>1
    <3>2. CASE s # {}
      <4>1. next[s \ {Pick(s)}] = it[s \ {Pick(s)}]
        BY <2>2, <3>2
      <4>2. next[s] = step[<<s, it[s \ {Pick(s)}]>>]
        BY <2>1, <3>2
      <4> QED
        BY <3>2, <4>1, <4>2
    <3> QED
      BY <3>1, <3>2
  <2>6. Good(next, n + 1)
    BY <2>5
  <2> HIDE DEF Good, next, Upto
  <2> QED
    BY <2>4, <2>6
<1>6. Nat \subseteq G
  <2> HIDE DEF G
  <2> QED
    BY <1>4, <1>5, NaturalInduction
<1>7. Upto(Cardinality(S)) = SUBSET S /\ Cardinality(S) \in Nat
  BY <1>1, FS_Subset
<1>8. PICK it \in [Upto(Cardinality(S)) -> V] : Good(it, Cardinality(S))
  BY <1>6, <1>7
<1> QED
  BY <1>7, <1>8 DEF Folds

-----------------------------------------------------------------------------
(* Sums *)

IntegersOn(f, S) == IsFiniteSet(S) /\ \A x \in S : f[x] \in Int

\* it holds the sum of f over every subset of S.
Sums(it, f, S) ==
  \A s \in SUBSET S : it[s] = IF s = {} THEN 0 ELSE f[Pick(s)] + it[s \ {Pick(s)}]

LEMMA SumIsFold ==
  ASSUME NEW f, NEW S, IntegersOn(f, S)
  PROVE  \E it \in [SUBSET S -> Int] : SumFunctionOnSet(f, S) = it[S] /\ Sums(it, f, S)
<1> DEFINE Rec(g) == g = [s \in SUBSET S |-> IF s = {} THEN 0 ELSE f[Pick(s)] + g[s \ {Pick(s)}]]
           iter   == CHOOSE g : Rec(g)
           step   == [p \in (SUBSET S) \X Int |-> IF p[1] = {} THEN 0 ELSE f[Pick(p[1])] + p[2]]
<1>1. SumFunctionOnSet(f, S) = iter[S]
  BY DEF SumFunctionOnSet, FoldFunctionOnSet, MapThenFoldSet, Pick
<1>2. step \in [(SUBSET S) \X Int -> Int]
  <2> SUFFICES ASSUME NEW s \in SUBSET S, NEW v \in Int PROVE (IF s = {} THEN 0 ELSE f[Pick(s)] + v) \in Int
    OBVIOUS
  <2>1. CASE s = {}
    BY <2>1
  <2>2. CASE s # {}
    BY <2>2, PickIn DEF IntegersOn
  <2> QED
    BY <2>1, <2>2
<1>3. ASSUME NEW s \in SUBSET S, s # {}, NEW v \in Int PROVE step[<<s, v>>] = f[Pick(s)] + v
  BY <1>3
<1> HIDE DEF step
<1>4. PICK it \in [SUBSET S -> Int] : Folds(it, S, 0, step)
  <2>1. IsFiniteSet(S) /\ 0 \in Int
    BY DEF IntegersOn
  <2> QED
    BY <1>2, <2>1, FoldExists
<1>5. ASSUME NEW s \in SUBSET S
      PROVE  it[s] = IF s = {} THEN 0 ELSE f[Pick(s)] + it[s \ {Pick(s)}]
  <2>1. s # {} => it[s \ {Pick(s)}] \in Int
    OBVIOUS
  <2> QED
    BY <1>3, <1>4, <2>1 DEF Folds
<1>6. Rec(it)
  BY <1>5
<1>7. Rec(iter)
  BY <1>6
<1> HIDE DEF iter
<1>8. Sums(iter, f, S) /\ DOMAIN iter = SUBSET S
  BY <1>7 DEF Sums
<1>9. \A s \in SUBSET S : iter[s] \in Int
  <2> DEFINE G == {s \in SUBSET S : iter[s] \in Int}
  <2>1. {} \in G
    <3>1. {} \in SUBSET S
      OBVIOUS
    <3>2. iter[{}] = 0
      BY <1>8, <3>1 DEF Sums
    <3> QED
      BY <3>1, <3>2
  <2>2. ASSUME NEW T \in SUBSET S, T # {}, \A x \in T : T \ {x} \in G PROVE T \in G
    <3>1. Pick(T) \in T /\ f[Pick(T)] \in Int
      BY <2>2, PickIn DEF IntegersOn
    <3>2. iter[T \ {Pick(T)}] \in Int
      BY <2>2, <3>1
    <3> QED
      BY <1>8, <2>2, <3>1, <3>2 DEF Sums
  <2>3. SUBSET S \subseteq G
    <3> HIDE DEF G
    <3> QED
      BY <2>1, <2>2, SubsetInduction DEF IntegersOn
  <2> QED
    BY <2>3
<1>10. iter \in [SUBSET S -> Int]
  BY <1>7, <1>8, <1>9
<1> QED
  BY <1>1, <1>8, <1>10

\* The sums over a set and over a subset of it are the same.
LEMMA SumOfSubset ==
  ASSUME NEW f, NEW S, IntegersOn(f, S), NEW it, Sums(it, f, S), NEW T \in SUBSET S
  PROVE  SumFunctionOnSet(f, T) = it[T]
<1>1. IntegersOn(f, T)
  BY FS_Subset DEF IntegersOn
<1>2. PICK small \in [SUBSET T -> Int] : SumFunctionOnSet(f, T) = small[T] /\ Sums(small, f, T)
  BY <1>1, SumIsFold
<1> DEFINE G == {s \in SUBSET T : small[s] = it[s]}
<1>3. {} \in G
  BY <1>2 DEF Sums
<1>4. ASSUME NEW s \in SUBSET T, s # {}, \A x \in s : s \ {x} \in G PROVE s \in G
  <2>1. small[s \ {Pick(s)}] = it[s \ {Pick(s)}]
    BY <1>4, PickIn
  <2>2. s \in SUBSET S
    OBVIOUS
  <2> QED
    BY <1>2, <1>4, <2>1, <2>2 DEF Sums
<1>5. SUBSET T \subseteq G
  <2> HIDE DEF G
  <2> QED
    BY <1>1, <1>3, <1>4, SubsetInduction DEF IntegersOn
<1> QED
  BY <1>2, <1>5

LEMMA SumOfNone ==
  ASSUME NEW f
  PROVE  SumFunctionOnSet(f, {}) = 0
<1>1. IntegersOn(f, {})
  BY FS_EmptySet DEF IntegersOn
<1> QED
  BY <1>1, SumIsFold DEF Sums

LEMMA SumIsInteger ==
  ASSUME NEW f, NEW S, IntegersOn(f, S)
  PROVE  SumFunctionOnSet(f, S) \in Int
<1>1. PICK it \in [SUBSET S -> Int] : SumFunctionOnSet(f, S) = it[S]
  BY SumIsFold
<1>2. it[S] \in Int
  OBVIOUS
<1> QED
  BY <1>1, <1>2

\* Whichever element is taken out first.
LEMMA SumRemove ==
  ASSUME NEW f, NEW S, IntegersOn(f, S), NEW x \in S
  PROVE  SumFunctionOnSet(f, S) = f[x] + SumFunctionOnSet(f, S \ {x})
<1>1. PICK it \in [SUBSET S -> Int] : Sums(it, f, S)
  BY SumIsFold
<1>2. \A T \in SUBSET S : SumFunctionOnSet(f, T) = it[T]
  BY <1>1, SumOfSubset
<1> DEFINE G == {T \in SUBSET S : \A y \in T : it[T] = f[y] + it[T \ {y}]}
<1>3. {} \in G
  OBVIOUS
<1>4. ASSUME NEW T \in SUBSET S, T # {}, \A y \in T : T \ {y} \in G PROVE T \in G
  <2> SUFFICES ASSUME NEW y \in T PROVE it[T] = f[y] + it[T \ {y}]
    OBVIOUS
  <2> DEFINE p == Pick(T)
  <2>1. p \in T /\ it[T] = f[p] + it[T \ {p}]
    BY <1>1, <1>4, PickIn DEF Sums
  <2> HIDE DEF p
  <2>2. CASE y = p
    BY <2>1, <2>2
  <2>3. CASE y # p
    <3>1. it[T \ {p}] = f[y] + it[(T \ {p}) \ {y}]
      BY <1>4, <2>1, <2>3
    <3>2. it[T \ {y}] = f[p] + it[(T \ {y}) \ {p}]
      BY <1>4, <2>1, <2>3
    <3>3. (T \ {p}) \ {y} = (T \ {y}) \ {p}
      OBVIOUS
    <3>4. f[p] \in Int /\ f[y] \in Int
      BY <2>1 DEF IntegersOn
    <3> DEFINE rest == it[(T \ {p}) \ {y}]
    <3>5. rest \in Int
      OBVIOUS
    <3>6. it[T] = f[p] + (f[y] + rest) /\ it[T \ {y}] = f[p] + rest
      BY <2>1, <3>1, <3>2, <3>3
    <3> HIDE DEF rest
    <3> QED
      BY <3>4, <3>5, <3>6
  <2> QED
    BY <2>2, <2>3
<1>5. SUBSET S \subseteq G
  <2> HIDE DEF G
  <2> QED
    BY <1>3, <1>4, SubsetInduction DEF IntegersOn
<1> QED
  BY <1>2, <1>5

\* A sum grows with its terms.
LEMMA SumGrows ==
  ASSUME NEW f, NEW g, NEW S, IntegersOn(f, S), IntegersOn(g, S), \A x \in S : f[x] <= g[x]
  PROVE  /\ SumFunctionOnSet(f, S) <= SumFunctionOnSet(g, S)
         /\ (\E x \in S : f[x] < g[x]) => SumFunctionOnSet(f, S) < SumFunctionOnSet(g, S)
<1> DEFINE sf(T) == SumFunctionOnSet(f, T)
           sg(T) == SumFunctionOnSet(g, T)
           G == {T \in SUBSET S : sf(T) <= sg(T)}
<1>0. ASSUME NEW T \in SUBSET S
      PROVE  /\ sf(T) \in Int /\ sg(T) \in Int
             /\ \A x \in T : /\ f[x] \in Int /\ g[x] \in Int /\ f[x] <= g[x]
                             /\ sf(T \ {x}) \in Int /\ sg(T \ {x}) \in Int
                             /\ sf(T) = f[x] + sf(T \ {x}) /\ sg(T) = g[x] + sg(T \ {x})
  <2>1. IntegersOn(f, T) /\ IntegersOn(g, T)
    BY FS_Subset DEF IntegersOn
  <2>2. ASSUME NEW x \in T
        PROVE  /\ sf(T \ {x}) \in Int /\ sg(T \ {x}) \in Int
               /\ sf(T) = f[x] + sf(T \ {x}) /\ sg(T) = g[x] + sg(T \ {x})
    <3>1. IntegersOn(f, T \ {x}) /\ IntegersOn(g, T \ {x})
      BY <2>1, FS_Subset DEF IntegersOn
    <3> QED
      BY <2>1, <3>1, SumIsInteger, SumRemove
  <2> QED
    BY <2>1, <2>2, SumIsInteger DEF IntegersOn
<1>1. {} \in G
  <2>1. sf({}) = 0 /\ sg({}) = 0
    BY SumOfNone
  <2> QED
    BY <2>1
<1> HIDE DEF sf, sg
<1>2. ASSUME NEW T \in SUBSET S, T # {}, \A x \in T : T \ {x} \in G PROVE T \in G
  <2>1. PICK x \in T : sf(T \ {x}) <= sg(T \ {x})
    BY <1>2
  <2>2. sf(T) <= sg(T)
    BY <1>0, <2>1
  <2> QED
    BY <2>2
<1>3. SUBSET S \subseteq G
  <2> HIDE DEF G
  <2> QED
    BY <1>1, <1>2, SubsetInduction DEF IntegersOn
<1>4. ASSUME NEW x \in S, f[x] < g[x] PROVE sf(S) < sg(S)
  <2>1. sf(S \ {x}) <= sg(S \ {x})
    BY <1>3
  <2> QED
    BY <1>0, <1>4, <2>1
<1> QED
  BY <1>3, <1>4 DEF sf, sg

LEMMA SumIsTheSame ==
  ASSUME NEW f, NEW g, NEW S, IntegersOn(f, S), \A x \in S : f[x] = g[x]
  PROVE  SumFunctionOnSet(f, S) = SumFunctionOnSet(g, S)
<1>1. IntegersOn(g, S)
  BY DEF IntegersOn
<1>2. /\ SumFunctionOnSet(f, S) <= SumFunctionOnSet(g, S)
      /\ SumFunctionOnSet(g, S) <= SumFunctionOnSet(f, S)
  <2>1. \A x \in S : f[x] <= g[x] /\ g[x] <= f[x]
    BY DEF IntegersOn
  <2> QED
    BY <1>1, <2>1, SumGrows
<1> QED
  BY <1>1, <1>2, SumIsInteger

\* A common factor of the terms is a factor of the sum.
LEMMA SumScales ==
  ASSUME NEW f, NEW g, NEW S, IntegersOn(g, S), NEW n \in Int, \A x \in S : f[x] = n * g[x]
  PROVE  SumFunctionOnSet(f, S) = n * SumFunctionOnSet(g, S)
<1> DEFINE sf(T) == SumFunctionOnSet(f, T)
           sg(T) == SumFunctionOnSet(g, T)
           G == {T \in SUBSET S : sf(T) = n * sg(T)}
<1>0. IntegersOn(f, S)
  BY DEF IntegersOn
<1>1. {} \in G
  <2>1. sf({}) = n * sg({})
    BY SumOfNone
  <2> QED
    BY <2>1
<1>2. ASSUME NEW T \in SUBSET S, T # {}, \A x \in T : T \ {x} \in G PROVE T \in G
  <2>1. PICK x \in T : sf(T \ {x}) = n * sg(T \ {x})
    BY <1>2
  <2>2. IntegersOn(f, T) /\ IntegersOn(g, T) /\ IntegersOn(g, T \ {x})
    BY <1>0, FS_Subset DEF IntegersOn
  <2>3. sf(T) = f[x] + sf(T \ {x}) /\ sg(T) = g[x] + sg(T \ {x}) /\ sg(T \ {x}) \in Int
    BY <2>2, SumRemove, SumIsInteger
  <2>4. f[x] = n * g[x] /\ g[x] \in Int
    BY DEF IntegersOn
  <2> HIDE DEF sf, sg
  <2>5. sf(T) = n * sg(T)
    BY <2>1, <2>3, <2>4
  <2> QED
    BY <2>5
<1>3. SUBSET S \subseteq G
  <2> HIDE DEF G
  <2> QED
    BY <1>1, <1>2, SubsetInduction DEF IntegersOn
<1> QED
  BY <1>3

LEMMA SumOfMultiples ==
  ASSUME NEW f, NEW S, IsFiniteSet(S), NEW n \in Int, \A x \in S : \E q \in Int : f[x] = n * q
  PROVE  \E q \in Int : SumFunctionOnSet(f, S) = n * q
<1> DEFINE g == [x \in S |-> CHOOSE q \in Int : f[x] = n * q]
<1>1. \A x \in S : g[x] \in Int /\ f[x] = n * g[x]
  OBVIOUS
<1> HIDE DEF g
<1>2. IntegersOn(g, S)
  BY <1>1 DEF IntegersOn
<1>3. SumFunctionOnSet(f, S) = n * SumFunctionOnSet(g, S)
  BY <1>1, <1>2, SumScales
<1>4. SumFunctionOnSet(g, S) \in Int
  BY <1>2, SumIsInteger
<1> QED
  BY <1>3, <1>4

-----------------------------------------------------------------------------
(* Products *)

ProductOnSet(f, S) == FoldFunctionOnSet(LAMBDA x, y : x * y, 1, f, S)

Positive == Nat \ {0}

PositiveOn(f, S) == IsFiniteSet(S) /\ \A x \in S : f[x] \in Positive

Products(it, f, S) ==
  \A s \in SUBSET S : it[s] = IF s = {} THEN 1 ELSE f[Pick(s)] * it[s \ {Pick(s)}]

LEMMA PositiveTimes ==
  ASSUME NEW a \in Positive, NEW b \in Positive
  PROVE  a * b \in Positive
<1>1. a * b \in Int /\ a * b > 0
  BY DEF Positive
<1> QED
  BY <1>1 DEF Positive

LEMMA ProductIsFold ==
  ASSUME NEW f, NEW S, PositiveOn(f, S)
  PROVE  \E it \in [SUBSET S -> Positive] : ProductOnSet(f, S) = it[S] /\ Products(it, f, S)
<1> DEFINE Rec(g) == g = [s \in SUBSET S |-> IF s = {} THEN 1 ELSE f[Pick(s)] * g[s \ {Pick(s)}]]
           iter   == CHOOSE g : Rec(g)
           step   == [p \in (SUBSET S) \X Positive |-> IF p[1] = {} THEN 1 ELSE f[Pick(p[1])] * p[2]]
<1>1. ProductOnSet(f, S) = iter[S]
  BY DEF ProductOnSet, FoldFunctionOnSet, MapThenFoldSet, Pick
<1>2. step \in [(SUBSET S) \X Positive -> Positive]
  <2> SUFFICES ASSUME NEW s \in SUBSET S, NEW v \in Positive
               PROVE  (IF s = {} THEN 1 ELSE f[Pick(s)] * v) \in Positive
    OBVIOUS
  <2>1. CASE s = {}
    BY <2>1 DEF Positive
  <2>2. CASE s # {}
    <3>1. f[Pick(s)] \in Positive
      BY <2>2, PickIn DEF PositiveOn
    <3> QED
      BY <2>2, <3>1, PositiveTimes
  <2> QED
    BY <2>1, <2>2
<1>3. ASSUME NEW s \in SUBSET S, s # {}, NEW v \in Positive PROVE step[<<s, v>>] = f[Pick(s)] * v
  BY <1>3
<1> HIDE DEF step
<1>4. PICK it \in [SUBSET S -> Positive] : Folds(it, S, 1, step)
  <2>1. IsFiniteSet(S) /\ 1 \in Positive
    BY DEF PositiveOn, Positive
  <2> QED
    BY <1>2, <2>1, FoldExists
<1>5. ASSUME NEW s \in SUBSET S
      PROVE  it[s] = IF s = {} THEN 1 ELSE f[Pick(s)] * it[s \ {Pick(s)}]
  <2>1. s # {} => it[s \ {Pick(s)}] \in Positive
    OBVIOUS
  <2> QED
    BY <1>3, <1>4, <2>1 DEF Folds
<1>6. Rec(it)
  BY <1>5
<1>7. Rec(iter)
  BY <1>6
<1> HIDE DEF iter
<1>8. Products(iter, f, S) /\ DOMAIN iter = SUBSET S
  BY <1>7 DEF Products
<1>9. \A s \in SUBSET S : iter[s] \in Positive
  <2> DEFINE G == {s \in SUBSET S : iter[s] \in Positive}
  <2>1. {} \in G
    <3>1. {} \in SUBSET S
      OBVIOUS
    <3>2. iter[{}] = 1
      BY <1>8, <3>1 DEF Products
    <3> QED
      BY <3>1, <3>2 DEF Positive
  <2>2. ASSUME NEW T \in SUBSET S, T # {}, \A x \in T : T \ {x} \in G PROVE T \in G
    <3>1. Pick(T) \in T /\ f[Pick(T)] \in Positive
      BY <2>2, PickIn DEF PositiveOn
    <3>2. iter[T \ {Pick(T)}] \in Positive
      BY <2>2, <3>1
    <3>3. f[Pick(T)] * iter[T \ {Pick(T)}] \in Positive
      BY <3>1, <3>2, PositiveTimes
    <3> QED
      BY <1>8, <2>2, <3>3 DEF Products
  <2>3. SUBSET S \subseteq G
    <3> HIDE DEF G
    <3> QED
      BY <2>1, <2>2, SubsetInduction DEF PositiveOn
  <2> QED
    BY <2>3
<1>10. iter \in [SUBSET S -> Positive]
  BY <1>7, <1>8, <1>9
<1> QED
  BY <1>1, <1>8, <1>10

LEMMA ProductOfSubset ==
  ASSUME NEW f, NEW S, PositiveOn(f, S), NEW it, Products(it, f, S), NEW T \in SUBSET S
  PROVE  ProductOnSet(f, T) = it[T]
<1>1. PositiveOn(f, T)
  BY FS_Subset DEF PositiveOn
<1>2. PICK small \in [SUBSET T -> Positive] : ProductOnSet(f, T) = small[T] /\ Products(small, f, T)
  BY <1>1, ProductIsFold
<1> DEFINE G == {s \in SUBSET T : small[s] = it[s]}
<1>3. {} \in G
  BY <1>2 DEF Products
<1>4. ASSUME NEW s \in SUBSET T, s # {}, \A x \in s : s \ {x} \in G PROVE s \in G
  <2>1. small[s \ {Pick(s)}] = it[s \ {Pick(s)}]
    BY <1>4, PickIn
  <2>2. s \in SUBSET S
    OBVIOUS
  <2> QED
    BY <1>2, <1>4, <2>1, <2>2 DEF Products
<1>5. SUBSET T \subseteq G
  <2> HIDE DEF G
  <2> QED
    BY <1>1, <1>3, <1>4, SubsetInduction DEF PositiveOn
<1> QED
  BY <1>2, <1>5

LEMMA ProductIsPositive ==
  ASSUME NEW f, NEW S, PositiveOn(f, S)
  PROVE  ProductOnSet(f, S) \in Positive
<1>1. PICK it \in [SUBSET S -> Positive] : ProductOnSet(f, S) = it[S]
  BY ProductIsFold
<1>2. it[S] \in Positive
  OBVIOUS
<1> QED
  BY <1>1, <1>2

LEMMA ProductRemove ==
  ASSUME NEW f, NEW S, PositiveOn(f, S), NEW x \in S
  PROVE  ProductOnSet(f, S) = f[x] * ProductOnSet(f, S \ {x})
<1>1. PICK it \in [SUBSET S -> Positive] : Products(it, f, S)
  BY ProductIsFold
<1>2. \A T \in SUBSET S : ProductOnSet(f, T) = it[T]
  BY <1>1, ProductOfSubset
<1> DEFINE G == {T \in SUBSET S : \A y \in T : it[T] = f[y] * it[T \ {y}]}
<1>3. {} \in G
  OBVIOUS
<1>4. ASSUME NEW T \in SUBSET S, T # {}, \A y \in T : T \ {y} \in G PROVE T \in G
  <2> SUFFICES ASSUME NEW y \in T PROVE it[T] = f[y] * it[T \ {y}]
    OBVIOUS
  <2> DEFINE p == Pick(T)
  <2>1. p \in T /\ it[T] = f[p] * it[T \ {p}]
    BY <1>1, <1>4, PickIn DEF Products
  <2> HIDE DEF p
  <2>2. CASE y = p
    BY <2>1, <2>2
  <2>3. CASE y # p
    <3>1. it[T \ {p}] = f[y] * it[(T \ {p}) \ {y}]
      BY <1>4, <2>1, <2>3
    <3>2. it[T \ {y}] = f[p] * it[(T \ {y}) \ {p}]
      BY <1>4, <2>1, <2>3
    <3>3. (T \ {p}) \ {y} = (T \ {y}) \ {p}
      OBVIOUS
    <3>4. f[p] \in Int /\ f[y] \in Int
      BY <2>1 DEF PositiveOn, Positive
    <3> DEFINE rest == it[(T \ {p}) \ {y}]
    <3>5. rest \in Int
      BY DEF Positive
    <3>6. it[T] = f[p] * (f[y] * rest) /\ it[T \ {y}] = f[p] * rest
      BY <2>1, <3>1, <3>2, <3>3
    <3> HIDE DEF rest
    <3> QED
      BY <3>4, <3>5, <3>6
  <2> QED
    BY <2>2, <2>3
<1>5. SUBSET S \subseteq G
  <2> HIDE DEF G
  <2> QED
    BY <1>3, <1>4, SubsetInduction DEF PositiveOn
<1> QED
  BY <1>2, <1>5

LEMMA ProductIsTheSame ==
  ASSUME NEW f, NEW g, NEW S, PositiveOn(f, S), \A x \in S : f[x] = g[x]
  PROVE  ProductOnSet(f, S) = ProductOnSet(g, S)
<1> DEFINE pf(T) == ProductOnSet(f, T)
           pg(T) == ProductOnSet(g, T)
           G == {T \in SUBSET S : pf(T) = pg(T)}
<1>1. {} \in G
  <2>1. PositiveOn(f, {}) /\ PositiveOn(g, {})
    BY FS_EmptySet DEF PositiveOn
  <2>2. ASSUME NEW h, PositiveOn(h, {}) PROVE ProductOnSet(h, {}) = 1
    <3>1. PICK it \in [SUBSET {} -> Positive] : ProductOnSet(h, {}) = it[{}] /\ Products(it, h, {})
      BY <2>2, ProductIsFold
    <3> QED
      BY <3>1 DEF Products
  <2>3. pf({}) = 1 /\ pg({}) = 1
    BY <2>1, <2>2
  <2> QED
    BY <2>3
<1>2. ASSUME NEW T \in SUBSET S, T # {}, \A x \in T : T \ {x} \in G PROVE T \in G
  <2>1. PICK x \in T : pf(T \ {x}) = pg(T \ {x})
    BY <1>2
  <2>2. PositiveOn(f, T) /\ PositiveOn(g, T)
    BY FS_Subset DEF PositiveOn
  <2>3. pf(T) = f[x] * pf(T \ {x}) /\ pg(T) = g[x] * pg(T \ {x})
    BY <2>2, ProductRemove
  <2> QED
    BY <2>1, <2>3
<1>3. SUBSET S \subseteq G
  <2> HIDE DEF G
  <2> QED
    BY <1>1, <1>2, SubsetInduction DEF PositiveOn
<1> QED
  BY <1>3

LEMMA Quotient ==
  ASSUME NEW a \in Positive, NEW b \in Positive
  PROVE  (a * b) \div a = b
BY DEF Positive

-----------------------------------------------------------------------------
(* Least and greatest elements *)

LEMMA Extremes ==
  ASSUME NEW S, IsFiniteSet(S), S # {}, S \subseteq Int
  PROVE  /\ Min(S) \in S /\ \A x \in S : Min(S) <= x
         /\ Max(S) \in S /\ \A x \in S : Max(S) >= x
<1> DEFINE Bounded(T) == /\ \E x \in T : \A y \in T : x <= y
                         /\ \E x \in T : \A y \in T : x >= y
           G == {T \in SUBSET S : T # {} => Bounded(T)}
<1>1. {} \in G
  OBVIOUS
<1>2. ASSUME NEW T \in SUBSET S, T # {}, \A x \in T : T \ {x} \in G PROVE T \in G
  <2>1. PICK x \in T : TRUE
    BY <1>2
  <2>2. CASE T \ {x} = {}
    <3>1. T = {x} /\ x \in Int
      BY <2>1, <2>2
    <3> QED
      BY <3>1
  <2>3. CASE T \ {x} # {}
    <3>1. Bounded(T \ {x})
      BY <1>2, <2>3
    <3>2. PICK low \in T \ {x} : \A y \in T \ {x} : low <= y
      BY <3>1
    <3>3. PICK high \in T \ {x} : \A y \in T \ {x} : high >= y
      BY <3>1
    <3>4. low \in Int /\ high \in Int /\ x \in Int /\ T \subseteq Int
      OBVIOUS
    <3>5. \E a \in T : \A y \in T : a <= y
      <4>1. CASE low <= x
        BY <3>2, <4>1
      <4>2. CASE x <= low
        BY <3>2, <3>4, <4>2
      <4> QED
        BY <3>4, <4>1, <4>2
    <3>6. \E a \in T : \A y \in T : a >= y
      <4>1. CASE high >= x
        BY <3>3, <4>1
      <4>2. CASE x >= high
        BY <3>3, <3>4, <4>2
      <4> QED
        BY <3>4, <4>1, <4>2
    <3> QED
      BY <3>5, <3>6
  <2> QED
    BY <2>2, <2>3
<1>3. SUBSET S \subseteq G
  <2> HIDE DEF G
  <2> QED
    BY <1>1, <1>2, SubsetInduction
<1>4. Bounded(S)
  BY <1>3
<1> QED
  BY <1>4 DEF Min, Max
=============================================================================
