---------------------------- MODULE ScoringFacts ----------------------------
(* Lemmas about the ranking, for any number of candidates, any metrics and *)
(* any strategy: they know nothing of who asks for it.                     *)
EXTENDS Scoring, SumFacts

-----------------------------------------------------------------------------
(* Precedes, the order in which sort.SliceStable leaves the candidates. *)

LEMMA PrecedesIsStrictOrder ==
  ASSUME NEW t, NEW n \in Nat, NEW s \in [1..n -> Int],
         NEW i \in 1..n, NEW j \in 1..n, NEW k \in 1..n
  PROVE  /\ ~Precedes(t, s, i, i)
         /\ i # j => Precedes(t, s, i, j) \/ Precedes(t, s, j, i)
         /\ Precedes(t, s, i, j) => ~Precedes(t, s, j, i)
         /\ Precedes(t, s, i, j) /\ Precedes(t, s, j, k) => Precedes(t, s, i, k)
<1>1. s[i] \in Int /\ s[j] \in Int /\ s[k] \in Int
  OBVIOUS
<1>2. CASE t.kind = "single" /\ t.dir # "desc"
  BY <1>1, <1>2 DEF Precedes, Better
<1>3. CASE ~(t.kind = "single" /\ t.dir # "desc")
  BY <1>1, <1>3 DEF Precedes, Better
<1> QED
  BY <1>2, <1>3

Ahead(t, s, i) == {j \in DOMAIN s : Precedes(t, s, j, i)}

LEMMA AheadIsFinite ==
  ASSUME NEW t, NEW n \in Nat, NEW s \in [1..n -> Int], NEW i \in 1..n
  PROVE  /\ IsFiniteSet(Ahead(t, s, i)) /\ Cardinality(Ahead(t, s, i)) \in Nat
         /\ RankOf(t, s, i) = 1 + Cardinality(Ahead(t, s, i))
         /\ i \notin Ahead(t, s, i)
         /\ Ahead(t, s, i) \in SUBSET (1..n)
<1>1. Ahead(t, s, i) \in SUBSET (1..n)
  BY DEF Ahead
<1>2. IsFiniteSet(1..n)
  BY FS_Interval
<1>3. IsFiniteSet(Ahead(t, s, i))
  BY <1>1, <1>2, FS_Subset
<1>4. Cardinality(Ahead(t, s, i)) \in Nat
  BY <1>3, FS_CardinalityType
<1>5. i \notin Ahead(t, s, i)
  BY PrecedesIsStrictOrder DEF Ahead
<1> QED
  BY <1>1, <1>3, <1>4, <1>5 DEF RankOf, Ahead

LEMMA RankBounds ==
  ASSUME NEW t, NEW n \in Nat, NEW s \in [1..n -> Int], NEW i \in 1..n
  PROVE  RankOf(t, s, i) \in 1..n
<1>1. IsFiniteSet(1..n) /\ Cardinality(1..n) = n
  BY FS_Interval
<1>2. IsFiniteSet((1..n) \ {i}) /\ Cardinality((1..n) \ {i}) = n - 1
  BY <1>1, FS_RemoveElement
<1>3. Ahead(t, s, i) \in SUBSET ((1..n) \ {i})
  BY AheadIsFinite
<1>4. Cardinality(Ahead(t, s, i)) <= n - 1
  BY <1>2, <1>3, FS_Subset
<1>5. RankOf(t, s, i) = 1 + Cardinality(Ahead(t, s, i)) /\ Cardinality(Ahead(t, s, i)) \in Nat
  BY AheadIsFinite
<1> QED
  BY <1>4, <1>5

LEMMA RankFollowsOrder ==
  ASSUME NEW t, NEW n \in Nat, NEW s \in [1..n -> Int],
         NEW i \in 1..n, NEW j \in 1..n, Precedes(t, s, i, j)
  PROVE  RankOf(t, s, i) < RankOf(t, s, j)
<1>1. Ahead(t, s, i) \cup {i} \in SUBSET Ahead(t, s, j)
  <2>1. i \in Ahead(t, s, j)
    BY DEF Ahead
  <2>2. ASSUME NEW k \in Ahead(t, s, i) PROVE k \in Ahead(t, s, j)
    <3>1. k \in 1..n /\ Precedes(t, s, k, i)
      BY DEF Ahead
    <3>2. Precedes(t, s, k, j)
      BY <3>1, PrecedesIsStrictOrder
    <3> QED
      BY <3>1, <3>2 DEF Ahead
  <2> QED
    BY <2>1, <2>2
<1>2. Cardinality(Ahead(t, s, i) \cup {i}) = Cardinality(Ahead(t, s, i)) + 1
  BY AheadIsFinite, FS_AddElement
<1>3. Cardinality(Ahead(t, s, i) \cup {i}) <= Cardinality(Ahead(t, s, j))
  BY <1>1, AheadIsFinite, FS_Subset
<1>4. /\ RankOf(t, s, i) = 1 + Cardinality(Ahead(t, s, i)) /\ Cardinality(Ahead(t, s, i)) \in Nat
      /\ RankOf(t, s, j) = 1 + Cardinality(Ahead(t, s, j)) /\ Cardinality(Ahead(t, s, j)) \in Nat
  BY AheadIsFinite
<1> QED
  BY <1>2, <1>3, <1>4

\* Different candidates have different ranks, and every rank from 1 to n is taken.
LEMMA RanksAreContiguous ==
  ASSUME NEW t, NEW n \in Nat, NEW s \in [1..n -> Int]
  PROVE  /\ \A i, j \in 1..n : RankOf(t, s, i) = RankOf(t, s, j) => i = j
         /\ \A k \in 1..n : \E i \in 1..n : RankOf(t, s, i) = k
<1> DEFINE rank == [i \in 1..n |-> RankOf(t, s, i)]
<1>1. rank \in [1..n -> 1..n]
  BY RankBounds
<1>2. \A i, j \in 1..n : RankOf(t, s, i) = RankOf(t, s, j) => i = j
  <2> SUFFICES ASSUME NEW i \in 1..n, NEW j \in 1..n, i # j
               PROVE  RankOf(t, s, i) # RankOf(t, s, j)
    OBVIOUS
  <2>1. RankOf(t, s, i) \in 1..n /\ RankOf(t, s, j) \in 1..n
    BY RankBounds
  <2>2. Precedes(t, s, i, j) \/ Precedes(t, s, j, i)
    BY PrecedesIsStrictOrder
  <2>3. RankOf(t, s, i) < RankOf(t, s, j) \/ RankOf(t, s, j) < RankOf(t, s, i)
    BY <2>2, RankFollowsOrder
  <2> QED
    BY <2>1, <2>3
<1>3. rank \in Injection(1..n, 1..n)
  BY <1>1, <1>2 DEF Injection, IsInjective
<1>4. IsFiniteSet(1..n)
  BY FS_Interval
<1>5. rank \in Surjection(1..n, 1..n)
  BY <1>3, <1>4, FS_Injection
<1>6. \A k \in 1..n : \E i \in 1..n : rank[i] = k
  BY <1>5 DEF Surjection
<1> QED
  BY <1>2, <1>6

-----------------------------------------------------------------------------
(* Score. *)

\* What the Scorer interface promises of a ranked result.
HonoursContract(t, n, result) ==
  /\ DOMAIN result = 1..n
  /\ {result[k].cand : k \in DOMAIN result} = 1..n
  /\ \A k \in DOMAIN result : result[k].rank = k
  /\ \A k, l \in DOMAIN result : k < l =>
       /\ ~Better(t, result[l].score, result[k].score)
       /\ result[k].score = result[l].score => result[k].cand < result[l].cand

\* Place k of the result is held by the candidate of rank k.
LEMMA ScoreSorts ==
  ASSUME NEW t, NEW cs, NEW n \in Nat, DOMAIN cs = 1..n, t.kind # "raw",
         ScoreOf(cs, t) \in [1..n -> Int]
  PROVE  /\ Score(cs, t) = [k \in 1..n |-> Score(cs, t)[k]]
         /\ \A k \in 1..n :
              LET place == Score(cs, t)[k]
              IN  /\ place.cand \in 1..n /\ RankOf(t, ScoreOf(cs, t), place.cand) = k
                  /\ place.score = ScoreOf(cs, t)[place.cand] /\ place.rank = k
<1> DEFINE s == ScoreOf(cs, t)
           at(k) == CHOOSE i \in 1..n : RankOf(t, s, i) = k
           result == Score(cs, t)
<1>1. result = [k \in 1..n |-> [cand |-> at(k), score |-> s[at(k)], rank |-> k]]
  BY DEF Score, PlaceRank
<1> HIDE DEF s, result
<1>2. s \in [1..n -> Int]
  BY DEF s
<1>3. /\ \A i, j \in 1..n : RankOf(t, s, i) = RankOf(t, s, j) => i = j
      /\ \A k \in 1..n : \E i \in 1..n : RankOf(t, s, i) = k
  BY <1>2, RanksAreContiguous
<1>4. ASSUME NEW k \in 1..n PROVE at(k) \in 1..n /\ RankOf(t, s, at(k)) = k
  <2>1. \E i \in 1..n : RankOf(t, s, i) = k
    BY <1>3
  <2> QED
    BY <2>1
<1> HIDE DEF at
<1>5. \A k \in 1..n : result[k].cand = at(k) /\ result[k].score = s[at(k)] /\ result[k].rank = k
  BY <1>1
<1>6. result = [k \in 1..n |-> result[k]]
  BY <1>1
<1> QED
  BY <1>4, <1>5, <1>6 DEF result, s

\* Whatever integers the strategy gives the candidates as scores, and however many
\* candidates there are, the result is a ranking: each candidate once, ranks 1, 2,
\* 3, ... without gaps, the better one first, ties in the order of the input.
THEOREM ScoreHonoursContract ==
  ASSUME NEW t, NEW cs, NEW n \in Nat, DOMAIN cs = 1..n, t.kind # "raw",
         ScoreOf(cs, t) \in [1..n -> Int]
  PROVE  HonoursContract(t, n, Score(cs, t))
<1> DEFINE s == ScoreOf(cs, t)
           result == Score(cs, t)
           at(k) == result[k].cand
<1>1. /\ DOMAIN result = 1..n
      /\ \A k \in 1..n : /\ at(k) \in 1..n /\ RankOf(t, s, at(k)) = k
                         /\ result[k].score = s[at(k)] /\ result[k].rank = k
  BY ScoreSorts
<1> HIDE DEF s, result
<1>2. s \in [1..n -> Int]
  BY DEF s
<1>3. ASSUME NEW i \in 1..n PROVE RankOf(t, s, i) \in 1..n /\ at(RankOf(t, s, i)) = i
  <2>1. RankOf(t, s, i) \in 1..n
    BY <1>2, RankBounds
  <2>2. at(RankOf(t, s, i)) \in 1..n /\ RankOf(t, s, at(RankOf(t, s, i))) = RankOf(t, s, i)
    BY <1>1, <2>1
  <2>3. \A x, y \in 1..n : RankOf(t, s, x) = RankOf(t, s, y) => x = y
    BY <1>2, RanksAreContiguous
  <2> QED
    BY <2>1, <2>2, <2>3
<1>4. {result[k].cand : k \in 1..n} = 1..n
  <2>1. \A k \in 1..n : result[k].cand \in 1..n
    BY <1>1
  <2>2. ASSUME NEW i \in 1..n PROVE \E k \in 1..n : result[k].cand = i
    BY <1>3
  <2> QED
    BY <2>1, <2>2
<1>5. ASSUME NEW k \in 1..n, NEW l \in 1..n, k < l
      PROVE  /\ ~Better(t, result[l].score, result[k].score)
             /\ result[k].score = result[l].score => result[k].cand < result[l].cand
  <2> DEFINE i == at(k)
             j == at(l)
  <2>1. i \in 1..n /\ j \in 1..n /\ RankOf(t, s, i) = k /\ RankOf(t, s, j) = l
    BY <1>1
  <2>2. result[k].cand = i /\ result[l].cand = j /\ result[k].score = s[i] /\ result[l].score = s[j]
    BY <1>1
  <2> HIDE DEF i, j
  <2>3. i # j
    BY <2>1, <1>5
  <2>4. ~Precedes(t, s, j, i)
    BY <2>1, <1>2, <1>5, RankFollowsOrder
  <2>5. Precedes(t, s, i, j)
    BY <2>1, <2>3, <2>4, <1>2, PrecedesIsStrictOrder
  <2>6. ~Better(t, s[j], s[i]) /\ (s[i] = s[j] => i < j)
    <3>1. s[i] \in Int /\ s[j] \in Int
      BY <1>2, <2>1
    <3> QED
      BY <2>4, <2>5, <3>1, <2>1 DEF Precedes, Better
  <2> QED
    BY <2>2, <2>6
<1> QED
  BY <1>1, <1>4, <1>5 DEF HonoursContract, result

-----------------------------------------------------------------------------
(* Scores are integers *)

\* Candidates as the lemmas need them: their metrics are integers.
Candidates(cs, n) ==
  /\ n \in Nat /\ DOMAIN cs = 1..n
  /\ \A i \in 1..n : \A m : MetricOf(cs[i], m) \in Int

\* The bounds of a column and its norm.
LEMMA Norms ==
  ASSUME NEW cs, NEW n, Candidates(cs, n), NEW m, n > 0
  PROVE  /\ Min(Column(cs, m)) \in Column(cs, m) /\ Max(Column(cs, m)) \in Column(cs, m)
         /\ Column(cs, m) \subseteq Int
         /\ \A i \in 1..n : /\ Min(Column(cs, m)) <= MetricOf(cs[i], m)
                            /\ MetricOf(cs[i], m) <= Max(Column(cs, m))
                            /\ NormTop(cs, m, i) \in Int
         /\ Span(cs, m) \in Nat /\ NormBottom(cs, m) \in Positive
<1> DEFINE C == Column(cs, m)
<1>1. IsFiniteSet(C)
  <2>1. IsFiniteSet(1..n)
    BY FS_Interval DEF Candidates
  <2>2. IsFiniteSet({MetricOf(cs[i], m) : i \in 1..n})
    <3> DEFINE f == [i \in 1..n |-> MetricOf(cs[i], m)]
    <3>1. f \in Surjection(1..n, {MetricOf(cs[i], m) : i \in 1..n})
      BY DEF Surjection
    <3> QED
      BY <2>1, <3>1, FS_Surjection
  <2> QED
    BY <2>2 DEF Column, Candidates
<1>2. C # {} /\ C \subseteq Int
  <2>1. 1 \in 1..n
    BY DEF Candidates
  <2> QED
    BY <2>1 DEF Column, Candidates
<1>3. /\ Min(C) \in C /\ \A x \in C : Min(C) <= x
      /\ Max(C) \in C /\ \A x \in C : Max(C) >= x
  BY <1>1, <1>2, Extremes
<1>4. \A i \in 1..n : MetricOf(cs[i], m) \in C
  BY DEF Column, Candidates
<1>5. \A i \in 1..n : MetricOf(cs[i], m) \in Int
  BY DEF Candidates
<1> HIDE DEF C
<1>6. Min(C) \in Int /\ Max(C) \in Int /\ Max(C) >= Min(C)
  BY <1>2, <1>3
<1>7. Max(C) - Min(C) \in Nat
  BY <1>6
<1>8. Span(cs, m) \in Nat /\ NormBottom(cs, m) \in Positive
  BY <1>7 DEF Span, C, NormBottom, Positive
<1>9. \A i \in 1..n : NormTop(cs, m, i) \in Int
  BY <1>5, <1>6 DEF NormTop, C
<1>10. \A i \in 1..n : Min(C) <= MetricOf(cs[i], m) /\ MetricOf(cs[i], m) <= Max(C)
  <2> SUFFICES ASSUME NEW i \in 1..n PROVE Min(C) <= MetricOf(cs[i], m) /\ MetricOf(cs[i], m) <= Max(C)
    OBVIOUS
  <2>1. Min(C) <= MetricOf(cs[i], m) /\ Max(C) >= MetricOf(cs[i], m)
    BY <1>3, <1>4
  <2> QED
    BY <1>5, <1>6, <2>1
<1> QED
  BY <1>2, <1>3, <1>8, <1>9, <1>10 DEF C

\* The denominators of a weighted score, what is left of their product for one
\* metric, and the terms of the score.
Bottoms(cs, w)   == [m \in DOMAIN w |-> NormBottom(cs, m)]
Factor(cs, w, m) == ProductOnSet(Bottoms(cs, w), DOMAIN w \ {m})
Terms(cs, w, i)  == [m \in DOMAIN w |-> w[m] * NormTop(cs, m, i) * Factor(cs, w, m)]

Weights(w) == IntegersOn(w, DOMAIN w)

LEMMA FactorIsPositive ==
  ASSUME NEW cs, NEW n, Candidates(cs, n), n > 0, NEW w, Weights(w)
  PROVE  /\ PositiveOn(Bottoms(cs, w), DOMAIN w)
         /\ \A m \in DOMAIN w : /\ Factor(cs, w, m) \in Positive
                                /\ ProductOnSet(Bottoms(cs, w), DOMAIN w) = NormBottom(cs, m) * Factor(cs, w, m)
<1>1. PositiveOn(Bottoms(cs, w), DOMAIN w)
  BY Norms DEF PositiveOn, Bottoms, Weights, IntegersOn
<1>2. ASSUME NEW m \in DOMAIN w
      PROVE  /\ Factor(cs, w, m) \in Positive
             /\ ProductOnSet(Bottoms(cs, w), DOMAIN w) = NormBottom(cs, m) * Factor(cs, w, m)
  <2>1. PositiveOn(Bottoms(cs, w), DOMAIN w \ {m})
    BY <1>1, FS_Subset DEF PositiveOn
  <2>2. Factor(cs, w, m) \in Positive
    BY <2>1, ProductIsPositive DEF Factor
  <2>3. Bottoms(cs, w)[m] = NormBottom(cs, m)
    BY DEF Bottoms
  <2> QED
    BY <1>1, <2>2, <2>3, ProductRemove DEF Factor
<1> QED
  BY <1>1, <1>2

LEMMA WeightedScoreIsSum ==
  ASSUME NEW cs, NEW n, Candidates(cs, n), n > 0, NEW w, Weights(w), NEW i \in 1..n
  PROVE  /\ WeightedScore(cs, w, i)
              = Sign(SumFunctionOnSet(w, DOMAIN w)) * SumFunctionOnSet(Terms(cs, w, i), DOMAIN w)
         /\ IntegersOn(Terms(cs, w, i), DOMAIN w)
         /\ WeightedScore(cs, w, i) \in Int
<1> DEFINE common == ProductOnSet(Bottoms(cs, w), DOMAIN w)
           terms  == [m \in DOMAIN w |-> w[m] * NormTop(cs, m, i) * (common \div NormBottom(cs, m))]
<1>1. FoldFunction(LAMBDA x, y : x * y, 1, [m \in DOMAIN w |-> NormBottom(cs, m)]) = common
  BY DEF FoldFunction, ProductOnSet, Bottoms
<1>2. WeightedScore(cs, w, i) = Sign(SumFunction(w)) * SumFunction(terms)
  BY <1>1 DEF WeightedScore
<1>3. SumFunction(w) = SumFunctionOnSet(w, DOMAIN w) /\ SumFunction(terms) = SumFunctionOnSet(terms, DOMAIN w)
  BY DEF SumFunction
<1>4. ASSUME NEW m \in DOMAIN w
      PROVE  common \div NormBottom(cs, m) = Factor(cs, w, m) /\ Factor(cs, w, m) \in Int
  <2>1. NormBottom(cs, m) \in Positive
    BY Norms
  <2>2. Factor(cs, w, m) \in Positive /\ common = NormBottom(cs, m) * Factor(cs, w, m)
    BY FactorIsPositive
  <2> HIDE DEF common
  <2> QED
    BY <2>1, <2>2, Quotient DEF Positive
<1>5. terms = Terms(cs, w, i)
  BY <1>4 DEF Terms
<1>6. IntegersOn(Terms(cs, w, i), DOMAIN w)
  <2>1. IsFiniteSet(DOMAIN w)
    BY DEF Weights, IntegersOn
  <2>2. ASSUME NEW m \in DOMAIN w PROVE Terms(cs, w, i)[m] \in Int
    <3>1. w[m] \in Int
      BY DEF Weights, IntegersOn
    <3>2. NormTop(cs, m, i) \in Int
      BY Norms
    <3>3. w[m] * NormTop(cs, m, i) \in Int
      BY <3>1, <3>2
    <3>4. w[m] * NormTop(cs, m, i) * Factor(cs, w, m) \in Int
      BY <1>4, <3>3
    <3> QED
      BY <3>4 DEF Terms
  <2> QED
    BY <2>1, <2>2 DEF IntegersOn
<1>7. SumFunctionOnSet(w, DOMAIN w) \in Int /\ SumFunctionOnSet(Terms(cs, w, i), DOMAIN w) \in Int
  BY <1>6, SumIsInteger DEF Weights
<1>8. Sign(SumFunctionOnSet(w, DOMAIN w)) \in Int
  BY <1>7 DEF Sign
<1> HIDE DEF terms
<1>9. WeightedScore(cs, w, i) = Sign(SumFunctionOnSet(w, DOMAIN w)) * SumFunctionOnSet(Terms(cs, w, i), DOMAIN w)
  BY <1>2, <1>3, <1>5
<1>10. WeightedScore(cs, w, i) \in Int
  BY <1>7, <1>8, <1>9
<1> QED
  BY <1>6, <1>9, <1>10

LEMMA ScoresAreIntegers ==
  ASSUME NEW cs, NEW n, Candidates(cs, n), NEW t, t.kind \in {"single", "weighted"},
         t.kind = "weighted" => Weights(t.weights)
  PROVE  ScoreOf(cs, t) \in [1..n -> Int]
<1>1. CASE t.kind = "single"
  <2>1. ScoreOf(cs, t) = [i \in 1..n |-> MetricOf(cs[i], t.metric)]
    BY <1>1 DEF ScoreOf, Candidates
  <2> QED
    BY <2>1 DEF Candidates
<1>2. CASE t.kind = "weighted"
  <2>1. ScoreOf(cs, t) = [i \in 1..n |-> WeightedScore(cs, t.weights, i)]
    BY <1>2 DEF ScoreOf, Candidates
  <2>2. ASSUME NEW i \in 1..n PROVE WeightedScore(cs, t.weights, i) \in Int
    <3>1. n > 0
      BY DEF Candidates
    <3> QED
      BY <1>2, <3>1, WeightedScoreIsSum
  <2> QED
    BY <2>1, <2>2
<1> QED
  BY <1>1, <1>2

\* The norm keeps the order of a column, and its differences.
LEMMA NormsKeepOrder ==
  ASSUME NEW cs, NEW n, Candidates(cs, n), NEW m, NEW i \in 1..n, NEW j \in 1..n
  PROVE  /\ MetricOf(cs[i], m) >= MetricOf(cs[j], m) => NormTop(cs, m, i) >= NormTop(cs, m, j)
         /\ MetricOf(cs[i], m) > MetricOf(cs[j], m) => NormTop(cs, m, i) > NormTop(cs, m, j)
<1> DEFINE low  == Min(Column(cs, m))
           high == Max(Column(cs, m))
           x == MetricOf(cs[i], m)
           y == MetricOf(cs[j], m)
<1>1. n > 0
  BY DEF Candidates
<1>2. low \in Int /\ high \in Int /\ x \in Int /\ y \in Int /\ low <= y /\ x <= high
  BY <1>1, Norms DEF Candidates
<1>3. Span(cs, m) = high - low
  BY DEF Span
<1>4. /\ NormTop(cs, m, i) = IF Span(cs, m) = 0 THEN 1 ELSE x - low
      /\ NormTop(cs, m, j) = IF Span(cs, m) = 0 THEN 1 ELSE y - low
  BY DEF NormTop
<1> HIDE DEF low, high, x, y
<1>5. (x >= y => NormTop(cs, m, i) >= NormTop(cs, m, j)) /\ (x > y => NormTop(cs, m, i) > NormTop(cs, m, j))
  BY <1>2, <1>3, <1>4
<1> QED
  BY <1>5 DEF x, y

\* A sum of non-negative terms, one of them positive.
LEMMA SumIsPositive ==
  ASSUME NEW f, NEW S, IntegersOn(f, S), \A x \in S : f[x] >= 0, \E x \in S : f[x] > 0
  PROVE  SumFunctionOnSet(f, S) > 0
<1> DEFINE zero == [x \in S |-> 0]
<1>1. \A x \in S : \E q \in Int : zero[x] = 0 * q
  OBVIOUS
<1>2. \A x \in S : zero[x] = 0 /\ zero[x] <= f[x]
  BY DEF IntegersOn
<1>3. \E x \in S : zero[x] < f[x]
  BY <1>2 DEF IntegersOn
<1>4. IntegersOn(zero, S)
  BY DEF IntegersOn
<1> HIDE DEF zero
<1>5. PICK q \in Int : SumFunctionOnSet(zero, S) = 0 * q
  BY <1>1, SumOfMultiples DEF IntegersOn
<1>6. SumFunctionOnSet(zero, S) < SumFunctionOnSet(f, S)
  BY <1>2, <1>3, <1>4, SumGrows
<1> QED
  BY <1>5, <1>6, SumIsInteger

-----------------------------------------------------------------------------
(* Improving on a metric *)

\* x becomes v in a column whose extremes were low and high and become low2 and high2;
\* y stays.  An extreme that is not the changed value itself was or stays one.
MovesIn(x, v, y, low, high, low2, high2) ==
  /\ low <= x /\ x <= high /\ low <= y /\ y <= high
  /\ low2 <= v /\ v <= high2 /\ low2 <= y /\ y <= high2
  /\ low = x \/ low2 <= low
  /\ high = x \/ high <= high2
  /\ low2 = v \/ low <= low2
  /\ high2 = v \/ high2 <= high

LEMMA TimesKeepsOrder ==
  ASSUME NEW a \in Int, NEW b \in Int, NEW c \in Int, a <= b, c >= 0
  PROVE  a * c <= b * c
OBVIOUS

\* Then y loses ground on the scale of the column, whatever happens to the scale.
LEMMA GroundIsLost ==
  ASSUME NEW x \in Int, NEW v \in Int, NEW y \in Int, NEW low \in Int, NEW high \in Int,
         NEW low2 \in Int, NEW high2 \in Int, MovesIn(x, v, y, low, high, low2, high2), x < v
  PROVE  (y - v) * (high - low) <= (y - x) * (high2 - low2)
<1> USE DEF MovesIn
<1>1. CASE v <= y
  <2>1. high <= high2
    BY <1>1
  <2>2. CASE low2 <= low
    <3>1. (y - v) * (high - low) <= (y - x) * (high - low)
      BY TimesKeepsOrder
    <3>2. (high - low) * (y - x) <= (high2 - low2) * (y - x)
      BY <1>1, <2>1, <2>2, TimesKeepsOrder
    <3> QED
      BY <3>1, <3>2
  <2>3. CASE low = x
    <3>1. (high - v) * (y - x) <= (high2 - low2) * (y - x)
      BY <1>1, <2>1, TimesKeepsOrder
    <3>2. 0 * (high - y) <= (v - x) * (high - y)
      BY TimesKeepsOrder
    <3>3. (y - x) * (high - v) - (y - v) * (high - x) = (v - x) * (high - y)
      OBVIOUS
    <3> QED
      BY <2>3, <3>1, <3>2, <3>3
  <2> QED
    BY <2>2, <2>3
<1>2. CASE y <= x
  <2>1. low <= low2
    BY <1>2
  <2>2. CASE high2 <= high
    <3>1. (x - y) * (high2 - low2) <= (v - y) * (high2 - low2)
      BY TimesKeepsOrder
    <3>2. (high2 - low2) * (v - y) <= (high - low) * (v - y)
      BY <1>2, <2>1, <2>2, TimesKeepsOrder
    <3>3. (x - y) * (high2 - low2) <= (v - y) * (high - low)
      BY <3>1, <3>2
    <3>4. (y - v) * (high - low) = -((v - y) * (high - low)) /\ (y - x) * (high2 - low2) = -((x - y) * (high2 - low2))
      OBVIOUS
    <3> QED
      BY <3>3, <3>4
  <2>3. CASE high2 = v
    <3>1. (high2 - low2) * (x - y) <= (v - low) * (x - y)
      BY <1>2, <2>1, <2>3, TimesKeepsOrder
    <3>2. 0 * (y - low) <= (v - x) * (y - low)
      BY TimesKeepsOrder
    <3>3. (v - y) * (x - low) - (x - y) * (v - low) = (v - x) * (y - low)
      OBVIOUS
    <3>4. (x - low) * (v - y) <= (high - low) * (v - y)
      BY <1>2, TimesKeepsOrder
    <3>5. (x - y) * (high2 - low2) <= (v - y) * (high - low)
      BY <3>1, <3>2, <3>3, <3>4
    <3>6. (y - v) * (high - low) = -((v - y) * (high - low)) /\ (y - x) * (high2 - low2) = -((x - y) * (high2 - low2))
      OBVIOUS
    <3> QED
      BY <3>5, <3>6
  <2> QED
    BY <2>2, <2>3
<1>3. CASE x < y /\ y < v
  <2>1. (y - v) * (high - low) <= 0 * (high - low)
    BY <1>3, TimesKeepsOrder
  <2>2. 0 * (high2 - low2) <= (y - x) * (high2 - low2)
    BY <1>3, TimesKeepsOrder
  <2> QED
    BY <2>1, <2>2
<1> QED
  BY <1>1, <1>2, <1>3

\* The columns of two runs that differ in candidate i only.
LEMMA ColumnMoves ==
  ASSUME NEW cs, NEW cs2, NEW n, Candidates(cs, n), Candidates(cs2, n), NEW m,
         NEW i \in 1..n, NEW j \in 1..n,
         \A k \in 1..n : k # i => MetricOf(cs2[k], m) = MetricOf(cs[k], m), j # i
  PROVE  MovesIn(MetricOf(cs[i], m), MetricOf(cs2[i], m), MetricOf(cs[j], m),
                 Min(Column(cs, m)), Max(Column(cs, m)), Min(Column(cs2, m)), Max(Column(cs2, m)))
<1>1. n > 0
  BY DEF Candidates
<1>2. ASSUME NEW c, Candidates(c, n)
      PROVE  /\ \A k \in 1..n : Min(Column(c, m)) <= MetricOf(c[k], m) /\ MetricOf(c[k], m) <= Max(Column(c, m))
             /\ \E k \in 1..n : Min(Column(c, m)) = MetricOf(c[k], m)
             /\ \E k \in 1..n : Max(Column(c, m)) = MetricOf(c[k], m)
  <2>1. /\ Min(Column(c, m)) \in Column(c, m) /\ Max(Column(c, m)) \in Column(c, m)
        /\ \A k \in 1..n : Min(Column(c, m)) <= MetricOf(c[k], m) /\ MetricOf(c[k], m) <= Max(Column(c, m))
    BY <1>1, <1>2, Norms
  <2>2. DOMAIN c = 1..n
    BY <1>2 DEF Candidates
  <2> QED
    BY <2>1, <2>2 DEF Column
<1> DEFINE low   == Min(Column(cs, m))
           high  == Max(Column(cs, m))
           low2  == Min(Column(cs2, m))
           high2 == Max(Column(cs2, m))
<1>3. PICK a \in 1..n : low = MetricOf(cs[a], m)
  BY <1>2
<1>4. PICK b \in 1..n : high = MetricOf(cs[b], m)
  BY <1>2
<1>5. PICK c \in 1..n : low2 = MetricOf(cs2[c], m)
  BY <1>2
<1>6. PICK d \in 1..n : high2 = MetricOf(cs2[d], m)
  BY <1>2
<1>7. \A k \in 1..n : low <= MetricOf(cs[k], m) /\ MetricOf(cs[k], m) <= high
  BY <1>2
<1>8. \A k \in 1..n : low2 <= MetricOf(cs2[k], m) /\ MetricOf(cs2[k], m) <= high2
  BY <1>2
<1> HIDE DEF low, high, low2, high2
<1>9. /\ a = i \/ low2 <= low
      /\ b = i \/ high <= high2
      /\ c = i \/ low <= low2
      /\ d = i \/ high2 <= high
  BY <1>3, <1>4, <1>5, <1>6, <1>7, <1>8
<1>10. MovesIn(MetricOf(cs[i], m), MetricOf(cs2[i], m), MetricOf(cs[j], m), low, high, low2, high2)
  BY <1>3, <1>4, <1>5, <1>6, <1>7, <1>8, <1>9 DEF MovesIn
<1> QED
  BY <1>10 DEF low, high, low2, high2

\* A candidate that improves on m gains on every other one on the scale of m.
LEMMA NormMoves ==
  ASSUME NEW cs, NEW cs2, NEW n, Candidates(cs, n), Candidates(cs2, n), NEW m,
         NEW i \in 1..n, NEW j \in 1..n,
         \A k \in 1..n : k # i => MetricOf(cs2[k], m) = MetricOf(cs[k], m), j # i
  PROVE  LET lead  == NormTop(cs, m, j) - NormTop(cs, m, i)
             lead2 == NormTop(cs2, m, j) - NormTop(cs2, m, i)
         IN  /\ MetricOf(cs[i], m) < MetricOf(cs2[i], m) =>
                  lead2 * NormBottom(cs, m) <= lead * NormBottom(cs2, m)
             /\ MetricOf(cs[i], m) > MetricOf(cs2[i], m) =>
                  lead * NormBottom(cs2, m) <= lead2 * NormBottom(cs, m)
<1> DEFINE low   == Min(Column(cs, m))
           high  == Max(Column(cs, m))
           low2  == Min(Column(cs2, m))
           high2 == Max(Column(cs2, m))
           x == MetricOf(cs[i], m)
           v == MetricOf(cs2[i], m)
           y == MetricOf(cs[j], m)
           lead  == NormTop(cs, m, j) - NormTop(cs, m, i)
           lead2 == NormTop(cs2, m, j) - NormTop(cs2, m, i)
           bottom  == NormBottom(cs, m)
           bottom2 == NormBottom(cs2, m)
<1>1. MovesIn(x, v, y, low, high, low2, high2)
  BY ColumnMoves
<1>2. /\ low \in Int /\ high \in Int /\ low2 \in Int /\ high2 \in Int
      /\ x \in Int /\ v \in Int /\ y \in Int
  <2>1. n > 0
    BY DEF Candidates
  <2>2. /\ low \in Column(cs, m) /\ high \in Column(cs, m) /\ Column(cs, m) \subseteq Int
        /\ low2 \in Column(cs2, m) /\ high2 \in Column(cs2, m) /\ Column(cs2, m) \subseteq Int
    BY <2>1, Norms
  <2>3. x \in Int /\ v \in Int /\ y \in Int
    BY DEF Candidates
  <2> HIDE DEF low, high, low2, high2
  <2> QED
    BY <2>2, <2>3
<1>3. MetricOf(cs2[j], m) = y
  OBVIOUS
<1>4. /\ NormTop(cs, m, j) = (IF high - low = 0 THEN 1 ELSE y - low)
      /\ NormTop(cs, m, i) = (IF high - low = 0 THEN 1 ELSE x - low)
      /\ NormTop(cs2, m, j) = (IF high2 - low2 = 0 THEN 1 ELSE y - low2)
      /\ NormTop(cs2, m, i) = (IF high2 - low2 = 0 THEN 1 ELSE v - low2)
  BY <1>3 DEF NormTop, Span
<1>5. /\ bottom = (IF high - low = 0 THEN 2 ELSE high - low)
      /\ bottom2 = (IF high2 - low2 = 0 THEN 2 ELSE high2 - low2)
  BY DEF NormBottom, Span
<1> HIDE DEF low, high, low2, high2, x, v, y, bottom, bottom2
<1>6. lead = y - x /\ lead2 = y - v
  BY <1>1, <1>2, <1>4 DEF MovesIn
<1> HIDE DEF lead, lead2
<1>7. ASSUME x < v PROVE lead2 * bottom <= lead * bottom2
  <2>1. CASE high - low = 0
    <3>1. x = y /\ bottom = 2 /\ bottom2 \in Int
      BY <1>1, <1>2, <1>5, <2>1 DEF MovesIn
    <3>2. lead = 0 /\ lead2 < 0 /\ lead2 \in Int
      BY <1>2, <1>6, <1>7, <3>1
    <3> QED
      BY <3>1, <3>2
  <2>2. CASE high2 - low2 = 0
    <3>1. v = y /\ bottom2 = 2 /\ bottom \in Int
      BY <1>1, <1>2, <1>5, <2>2 DEF MovesIn
    <3>2. lead2 = 0 /\ lead > 0 /\ lead \in Int
      BY <1>2, <1>6, <1>7, <3>1
    <3> QED
      BY <3>1, <3>2
  <2>3. CASE high - low # 0 /\ high2 - low2 # 0
    <3>1. (y - v) * (high - low) <= (y - x) * (high2 - low2)
      BY <1>1, <1>2, <1>7, GroundIsLost
    <3> QED
      BY <1>5, <1>6, <2>3, <3>1
  <2> QED
    BY <2>1, <2>2, <2>3
<1>8. ASSUME x > v PROVE lead * bottom2 <= lead2 * bottom
  <2>1. CASE high - low = 0
    <3>1. x = y /\ bottom = 2 /\ bottom2 \in Int
      BY <1>1, <1>2, <1>5, <2>1 DEF MovesIn
    <3>2. lead = 0 /\ lead2 > 0 /\ lead2 \in Int
      BY <1>2, <1>6, <1>8, <3>1
    <3> QED
      BY <3>1, <3>2
  <2>2. CASE high2 - low2 = 0
    <3>1. v = y /\ bottom2 = 2 /\ bottom \in Int
      BY <1>1, <1>2, <1>5, <2>2 DEF MovesIn
    <3>2. lead2 = 0 /\ lead < 0 /\ lead \in Int
      BY <1>2, <1>6, <1>8, <3>1
    <3> QED
      BY <3>1, <3>2
  <2>3. CASE high - low # 0 /\ high2 - low2 # 0
    \* the column upside down
    <3> DEFINE nx == -x
               nv == -v
               ny == -y
               nlow   == -low
               nhigh  == -high
               nlow2  == -low2
               nhigh2 == -high2
    <3>1. MovesIn(nx, nv, ny, nhigh, nlow, nhigh2, nlow2)
      BY <1>1, <1>2 DEF MovesIn
    <3>2. /\ nx < nv
          /\ nx \in Int /\ nv \in Int /\ ny \in Int /\ nlow \in Int /\ nhigh \in Int
          /\ nlow2 \in Int /\ nhigh2 \in Int
      BY <1>2, <1>8
    <3>3. (ny - nv) * (nlow - nhigh) <= (ny - nx) * (nlow2 - nhigh2)
      <4> HIDE DEF nx, nv, ny, nlow, nhigh, nlow2, nhigh2
      <4> QED
        BY <3>1, <3>2, GroundIsLost
    <3>4. /\ nlow - nhigh = high - low /\ nlow2 - nhigh2 = high2 - low2
          /\ ny - nv = -(y - v) /\ ny - nx = -(y - x)
      BY <1>2
    <3>5. (y - x) * (high2 - low2) <= (y - v) * (high - low)
      <4> DEFINE p == high - low
                 q == high2 - low2
                 e == y - v
                 f == y - x
      <4>1. (-e) * p <= (-f) * q
        BY <3>3, <3>4
      <4>2. p \in Int /\ q \in Int /\ e \in Int /\ f \in Int
        BY <1>2
      <4> HIDE DEF p, q, e, f
      <4>3. f * q <= e * p
        BY <4>1, <4>2
      <4> QED
        BY <4>3 DEF p, q, e, f
    <3> QED
      BY <1>5, <1>6, <2>3, <3>5
  <2> QED
    BY <2>1, <2>2, <2>3
<1> QED
  BY <1>7, <1>8 DEF lead, lead2, bottom, bottom2, x, v

\* Nobody is newly ahead of i: its rank is no worse.
LEMMA RankNotWorse ==
  ASSUME NEW t, NEW n \in Nat, NEW s \in [1..n -> Int], NEW s2 \in [1..n -> Int], NEW i \in 1..n,
         \A j \in 1..n : j # i /\ Precedes(t, s2, j, i) => Precedes(t, s, j, i)
  PROVE  RankOf(t, s2, i) <= RankOf(t, s, i)
<1>1. /\ IsFiniteSet(Ahead(t, s, i)) /\ Cardinality(Ahead(t, s, i)) \in Nat
      /\ RankOf(t, s, i) = 1 + Cardinality(Ahead(t, s, i))
  BY AheadIsFinite
<1>2. /\ Cardinality(Ahead(t, s2, i)) \in Nat /\ i \notin Ahead(t, s2, i)
      /\ RankOf(t, s2, i) = 1 + Cardinality(Ahead(t, s2, i))
  BY AheadIsFinite
<1>3. Ahead(t, s2, i) \subseteq Ahead(t, s, i)
  BY <1>2 DEF Ahead
<1>4. Cardinality(Ahead(t, s2, i)) <= Cardinality(Ahead(t, s, i))
  BY <1>1, <1>3, FS_Subset
<1> QED
  BY <1>1, <1>2, <1>4

\* What the other metrics add to the score of k, but for the denominator of m.
FactorBut(cs, w, m, o) == ProductOnSet(Bottoms(cs, w), (DOMAIN w \ {o}) \ {m})
Others(cs, w, m, k)    == [o \in DOMAIN w |-> w[o] * NormTop(cs, o, k) * FactorBut(cs, w, m, o)]

LEMMA OthersAreIntegers ==
  ASSUME NEW cs, NEW n, Candidates(cs, n), NEW w, Weights(w), NEW m \in DOMAIN w, NEW k \in 1..n
  PROVE  IntegersOn(Others(cs, w, m, k), DOMAIN w \ {m})
<1>1. n > 0 /\ IsFiniteSet(DOMAIN w) /\ IsFiniteSet(DOMAIN w \ {m})
  BY FS_Subset DEF Candidates, Weights, IntegersOn
<1>2. PositiveOn(Bottoms(cs, w), DOMAIN w)
  BY <1>1, FactorIsPositive
<1>3. ASSUME NEW o \in DOMAIN w PROVE Others(cs, w, m, k)[o] \in Int
  <2>1. PositiveOn(Bottoms(cs, w), (DOMAIN w \ {o}) \ {m})
    BY <1>2, FS_Subset DEF PositiveOn
  <2>2. FactorBut(cs, w, m, o) \in Int
    BY <2>1, ProductIsPositive DEF FactorBut, Positive
  <2>3. w[o] \in Int /\ NormTop(cs, o, k) \in Int
    BY <1>1, Norms DEF Weights, IntegersOn
  <2>4. w[o] * NormTop(cs, o, k) \in Int
    BY <2>3
  <2>5. w[o] * NormTop(cs, o, k) * FactorBut(cs, w, m, o) \in Int
    BY <2>2, <2>4
  <2> QED
    BY <2>5 DEF Others
<1> QED
  BY <1>1, <1>3 DEF IntegersOn

\* A sum of scores has the term of m, and the denominator of m in every other term.
LEMMA SumSplits ==
  ASSUME NEW cs, NEW n, Candidates(cs, n), NEW w, Weights(w), NEW m \in DOMAIN w, NEW k \in 1..n
  PROVE  SumFunctionOnSet(Terms(cs, w, k), DOMAIN w)
           = w[m] * NormTop(cs, m, k) * Factor(cs, w, m)
             + NormBottom(cs, m) * SumFunctionOnSet(Others(cs, w, m, k), DOMAIN w \ {m})
<1>1. n > 0
  BY DEF Candidates
<1>2. PositiveOn(Bottoms(cs, w), DOMAIN w) /\ IntegersOn(Terms(cs, w, k), DOMAIN w)
  BY <1>1, FactorIsPositive, WeightedScoreIsSum
<1>3. NormBottom(cs, m) \in Int
  BY <1>1, Norms DEF Positive
<1>4. IntegersOn(Others(cs, w, m, k), DOMAIN w \ {m})
  BY OthersAreIntegers
<1>5. ASSUME NEW o \in DOMAIN w \ {m}
      PROVE  Terms(cs, w, k)[o] = NormBottom(cs, m) * Others(cs, w, m, k)[o]
  <2>1. PositiveOn(Bottoms(cs, w), DOMAIN w \ {o}) /\ PositiveOn(Bottoms(cs, w), (DOMAIN w \ {o}) \ {m})
    BY <1>2, FS_Subset DEF PositiveOn
  <2>2. m \in DOMAIN w \ {o} /\ Bottoms(cs, w)[m] = NormBottom(cs, m)
    BY DEF Bottoms
  <2>3. Factor(cs, w, o) = NormBottom(cs, m) * FactorBut(cs, w, m, o)
    BY <2>1, <2>2, ProductRemove DEF Factor, FactorBut
  <2>4. FactorBut(cs, w, m, o) \in Int
    BY <2>1, ProductIsPositive DEF FactorBut, Positive
  <2>5. w[o] \in Int /\ NormTop(cs, o, k) \in Int
    BY <1>1, Norms DEF Weights, IntegersOn
  <2> DEFINE a == w[o]
             b == NormTop(cs, o, k)
             c == FactorBut(cs, w, m, o)
             d == NormBottom(cs, m)
  <2>6. a * b * (d * c) = d * (a * b * c)
    <3>1. a \in Int /\ b \in Int /\ c \in Int /\ d \in Int
      BY <1>3, <2>4, <2>5
    <3> HIDE DEF a, b, c, d
    <3> QED
      BY <3>1
  <2>7. Terms(cs, w, k)[o] = a * b * (d * c)
    BY <2>3 DEF Terms
  <2>8. Others(cs, w, m, k)[o] = a * b * c
    BY DEF Others
  <2> QED
    BY <2>6, <2>7, <2>8
<1>6. SumFunctionOnSet(Terms(cs, w, k), DOMAIN w)
        = Terms(cs, w, k)[m] + SumFunctionOnSet(Terms(cs, w, k), DOMAIN w \ {m})
  BY <1>2, SumRemove
<1>7. SumFunctionOnSet(Terms(cs, w, k), DOMAIN w \ {m})
        = NormBottom(cs, m) * SumFunctionOnSet(Others(cs, w, m, k), DOMAIN w \ {m})
  BY <1>3, <1>4, <1>5, SumScales
<1>8. Terms(cs, w, k)[m] = w[m] * NormTop(cs, m, k) * Factor(cs, w, m)
  BY DEF Terms
<1> QED
  BY <1>6, <1>7, <1>8

\* Two runs alike in a metric have the same norms in it, and runs alike in all metrics
\* but m the same factor of m and the same other terms.
LEMMA NormsAreTheSame ==
  ASSUME NEW cs, NEW cs2, NEW n, Candidates(cs, n), Candidates(cs2, n), NEW m,
         \A k \in 1..n : MetricOf(cs2[k], m) = MetricOf(cs[k], m)
  PROVE  /\ NormBottom(cs2, m) = NormBottom(cs, m)
         /\ \A k \in 1..n : NormTop(cs2, m, k) = NormTop(cs, m, k)
<1>1. Column(cs2, m) = Column(cs, m)
  BY DEF Column, Candidates
<1> QED
  BY <1>1 DEF NormBottom, NormTop, Span

LEMMA OthersAreTheSame ==
  ASSUME NEW cs, NEW cs2, NEW n, Candidates(cs, n), Candidates(cs2, n), n > 0, NEW w, Weights(w),
         NEW m \in DOMAIN w,
         \A k \in 1..n : \A o \in DOMAIN w \ {m} : MetricOf(cs2[k], o) = MetricOf(cs[k], o)
  PROVE  /\ Factor(cs2, w, m) = Factor(cs, w, m)
         /\ \A k \in 1..n : SumFunctionOnSet(Others(cs2, w, m, k), DOMAIN w \ {m})
                              = SumFunctionOnSet(Others(cs, w, m, k), DOMAIN w \ {m})
<1>1. \A o \in DOMAIN w \ {m} : /\ NormBottom(cs2, o) = NormBottom(cs, o)
                                /\ \A k \in 1..n : NormTop(cs2, o, k) = NormTop(cs, o, k)
  BY NormsAreTheSame
<1>2. PositiveOn(Bottoms(cs, w), DOMAIN w)
  BY FactorIsPositive
<1>3. ASSUME NEW T \in SUBSET (DOMAIN w \ {m})
      PROVE  ProductOnSet(Bottoms(cs2, w), T) = ProductOnSet(Bottoms(cs, w), T)
  <2>1. PositiveOn(Bottoms(cs, w), T)
    BY <1>2, FS_Subset DEF PositiveOn
  <2>2. \A o \in T : Bottoms(cs, w)[o] = Bottoms(cs2, w)[o]
    BY <1>1 DEF Bottoms
  <2> QED
    BY <2>1, <2>2, ProductIsTheSame
<1>4. Factor(cs2, w, m) = Factor(cs, w, m)
  BY <1>3 DEF Factor
<1>5. ASSUME NEW k \in 1..n
      PROVE  SumFunctionOnSet(Others(cs2, w, m, k), DOMAIN w \ {m})
               = SumFunctionOnSet(Others(cs, w, m, k), DOMAIN w \ {m})
  <2>1. IntegersOn(Others(cs, w, m, k), DOMAIN w \ {m})
    BY OthersAreIntegers
  <2>2. ASSUME NEW o \in DOMAIN w \ {m} PROVE Others(cs, w, m, k)[o] = Others(cs2, w, m, k)[o]
    <3>1. FactorBut(cs2, w, m, o) = FactorBut(cs, w, m, o)
      BY <1>3 DEF FactorBut
    <3> QED
      BY <1>1, <3>1 DEF Others
  <2> QED
    BY <2>1, <2>2, SumIsTheSame
<1> QED
  BY <1>4, <1>5

LEMMA LeadOfScores ==
  ASSUME NEW s \in Int, NEW w \in Int, NEW p \in Int, NEW b \in Int,
         NEW t \in Int, NEW t2 \in Int, NEW a \in Int, NEW a2 \in Int
  PROVE  s * (w * t2 * p + b * a2) - s * (w * t * p + b * a)
           = (s * (w * p)) * (t2 - t) + b * (s * (a2 - a))
OBVIOUS

\* A lead in m that shrinks on the scale of m, all else equal, shrinks the lead in
\* score, on the scale of the scores.
LEMMA LeadShrinks ==
  ASSUME NEW g \in Int, NEW d \in Int, NEW d2 \in Int, NEW c \in Int,
         NEW b \in Positive, NEW b2 \in Positive,
         g * (d2 * b) <= g * (d * b2)
  PROVE  /\ g * d2 + b2 * c > 0 => g * d + b * c > 0
         /\ g * d2 + b2 * c >= 0 => g * d + b * c >= 0
<1> DEFINE l  == g * d + b * c
           l2 == g * d2 + b2 * c
<1>1. l \in Int /\ l2 \in Int /\ b \in Int /\ b2 \in Int /\ b > 0 /\ b2 > 0
  BY DEF Positive
<1>2. l2 * b <= l * b2
  <2>1. l2 * b = g * (d2 * b) + (b2 * c) * b /\ l * b2 = g * (d * b2) + (b * c) * b2
    BY <1>1
  <2>2. (b2 * c) * b = (b * c) * b2
    BY <1>1
  <2>3. g * (d2 * b) \in Int /\ g * (d * b2) \in Int /\ (b * c) * b2 \in Int
    BY <1>1
  <2> QED
    BY <2>1, <2>2, <2>3
<1> HIDE DEF l, l2
<1>3. l2 > 0 => l > 0
  <2> SUFFICES ASSUME l2 > 0, l <= 0 PROVE FALSE
    BY <1>1
  <2>1. l2 * b > 0
    BY <1>1
  <2>2. l * b2 <= 0
    BY <1>1
  <2> QED
    BY <1>1, <1>2, <2>1, <2>2
<1>4. l2 >= 0 => l >= 0
  <2> SUFFICES ASSUME l2 >= 0, l < 0 PROVE FALSE
    BY <1>1
  <2>1. l2 * b >= 0
    BY <1>1
  <2>2. l * b2 < 0
    BY <1>1
  <2> QED
    BY <1>1, <1>2, <2>1, <2>2
<1> QED
  BY <1>3, <1>4 DEF l, l2

LEMMA SignOfProduct ==
  ASSUME NEW w \in Int, NEW s \in {-1, 0, 1}, NEW p \in Positive
  PROVE  /\ Sign(w) * s = 1 => s * (w * p) > 0
         /\ Sign(w) * s = -1 => s * (w * p) < 0
<1>1. p \in Int /\ p > 0
  BY DEF Positive
<1>2. CASE w > 0
  <2>1. w * p > 0 /\ w * p \in Int
    BY <1>1, <1>2
  <2> QED
    BY <1>2, <2>1 DEF Sign
<1>3. CASE w < 0
  <2>1. (-w) * p > 0 /\ (-w) * p \in Int /\ w * p = -((-w) * p)
    BY <1>1, <1>3
  <2>2. w * p < 0 /\ w * p \in Int
    BY <1>1, <2>1
  <2> QED
    BY <1>3, <2>2 DEF Sign
<1>4. CASE w = 0
  BY <1>4 DEF Sign
<1> QED
  BY <1>2, <1>3, <1>4

LEMMA TimesFollowsSign ==
  ASSUME NEW g \in Int, NEW x \in Int, NEW y \in Int, (g > 0 /\ x <= y) \/ (g < 0 /\ y <= x)
  PROVE  g * x <= g * y
<1>1. CASE g > 0 /\ x <= y
  BY <1>1
<1>2. CASE g < 0 /\ y <= x
  <2>1. (-g) * y <= (-g) * x
    BY <1>2
  <2>2. g * x = -((-g) * x) /\ g * y = -((-g) * y) /\ (-g) * y \in Int /\ (-g) * x \in Int
    OBVIOUS
  <2> QED
    BY <2>1, <2>2
<1> QED
  BY <1>1, <1>2

\* When i improves on m under a weighted strategy, nobody else's score moves past its own.
LEMMA WeightedImproves ==
  ASSUME NEW cs, NEW cs2, NEW n, Candidates(cs, n), Candidates(cs2, n), NEW w, Weights(w),
         NEW m \in DOMAIN w, NEW i \in 1..n, NEW j \in 1..n, j # i,
         \A k \in 1..n : \A o \in DOMAIN w \ {m} : MetricOf(cs2[k], o) = MetricOf(cs[k], o),
         \A k \in 1..n : k # i => MetricOf(cs2[k], m) = MetricOf(cs[k], m),
         NEW gain, gain = Sign(w[m]) * Sign(SumFunctionOnSet(w, DOMAIN w)),
         \/ gain = 1 /\ MetricOf(cs[i], m) < MetricOf(cs2[i], m)
         \/ gain = -1 /\ MetricOf(cs[i], m) > MetricOf(cs2[i], m)
  PROVE  /\ WeightedScore(cs2, w, j) > WeightedScore(cs2, w, i)
              => WeightedScore(cs, w, j) > WeightedScore(cs, w, i)
         /\ WeightedScore(cs2, w, j) >= WeightedScore(cs2, w, i)
              => WeightedScore(cs, w, j) >= WeightedScore(cs, w, i)
<1> DEFINE D  == DOMAIN w \ {m}
           s  == Sign(SumFunctionOnSet(w, DOMAIN w))
           p  == Factor(cs, w, m)
           b  == NormBottom(cs, m)
           b2 == NormBottom(cs2, m)
           top(k)  == NormTop(cs, m, k)
           top2(k) == NormTop(cs2, m, k)
           a(k)    == SumFunctionOnSet(Others(cs, w, m, k), D)
           score(k)  == WeightedScore(cs, w, k)
           score2(k) == WeightedScore(cs2, w, k)
           g == s * (w[m] * p)
           c == s * (a(j) - a(i))
           d  == top(j) - top(i)
           d2 == top2(j) - top2(i)
<1>1. n > 0
  BY DEF Candidates
<1>2. s \in {-1, 0, 1} /\ w[m] \in Int
  BY DEF Weights, IntegersOn, Sign
<1>3. p \in Positive /\ b \in Positive /\ b2 \in Positive
  BY <1>1, FactorIsPositive, Norms
<1>4. \A k \in 1..n : top(k) \in Int /\ top2(k) \in Int /\ a(k) \in Int
  <2> SUFFICES ASSUME NEW k \in 1..n PROVE top(k) \in Int /\ top2(k) \in Int /\ a(k) \in Int
    OBVIOUS
  <2>1. IntegersOn(Others(cs, w, m, k), D)
    BY OthersAreIntegers
  <2>2. a(k) \in Int
    BY <2>1, SumIsInteger
  <2> QED
    BY <1>1, <2>2, Norms
<1>5. ASSUME NEW k \in 1..n
      PROVE  /\ score(k) = s * (w[m] * top(k) * p + b * a(k))
             /\ score2(k) = s * (w[m] * top2(k) * p + b2 * a(k))
  <2>1. /\ Factor(cs2, w, m) = p
        /\ SumFunctionOnSet(Others(cs2, w, m, k), D) = a(k)
    BY <1>1, OthersAreTheSame
  <2>2. SumFunctionOnSet(Terms(cs, w, k), DOMAIN w) = w[m] * top(k) * p + b * a(k)
    BY SumSplits
  <2>3. SumFunctionOnSet(Terms(cs2, w, k), DOMAIN w)
          = w[m] * top2(k) * Factor(cs2, w, m) + b2 * SumFunctionOnSet(Others(cs2, w, m, k), D)
    BY SumSplits
  <2>4. /\ score(k) = s * SumFunctionOnSet(Terms(cs, w, k), DOMAIN w)
        /\ score2(k) = s * SumFunctionOnSet(Terms(cs2, w, k), DOMAIN w)
    BY <1>1, WeightedScoreIsSum
  <2> HIDE DEF p, b, b2, s, a, top, top2, score, score2
  <2> QED
    BY <2>1, <2>2, <2>3, <2>4
<1>6. /\ MetricOf(cs[i], m) < MetricOf(cs2[i], m) => d2 * b <= d * b2
      /\ MetricOf(cs[i], m) > MetricOf(cs2[i], m) => d * b2 <= d2 * b
  BY NormMoves
<1>7. score(j) \in Int /\ score(i) \in Int /\ score2(j) \in Int /\ score2(i) \in Int
  BY <1>1, WeightedScoreIsSum
<1>8. gain = Sign(w[m]) * s
  OBVIOUS
<1>9. d \in Int /\ d2 \in Int /\ p \in Int /\ b \in Int /\ b2 \in Int /\ s \in Int
  BY <1>2, <1>3, <1>4 DEF Positive
<1>10. (gain = 1 => g > 0) /\ (gain = -1 => g < 0)
  <2> HIDE DEF s, p
  <2> QED
    BY <1>2, <1>3, <1>8, SignOfProduct
<1>11. g \in Int /\ c \in Int
  <2>1. w[m] * p \in Int
    <3> HIDE DEF p
    <3> QED
      BY <1>2, <1>9
  <2>2. a(j) - a(i) \in Int
    <3> HIDE DEF a
    <3> QED
      BY <1>4
  <2> HIDE DEF s, p, a
  <2> QED
    BY <1>9, <2>1, <2>2
<1>12. score(j) - score(i) = g * d + b * c /\ score2(j) - score2(i) = g * d2 + b2 * c
  <2>1. /\ top(i) \in Int /\ top(j) \in Int /\ top2(i) \in Int /\ top2(j) \in Int
        /\ a(i) \in Int /\ a(j) \in Int
    BY <1>4
  <2>2. /\ score(j) - score(i) = s * (w[m] * top(j) * p + b * a(j)) - s * (w[m] * top(i) * p + b * a(i))
        /\ score2(j) - score2(i) = s * (w[m] * top2(j) * p + b2 * a(j)) - s * (w[m] * top2(i) * p + b2 * a(i))
    <3> HIDE DEF score, score2, s, p, b, b2, top, top2, a
    <3> QED
      BY <1>5
  <2> HIDE DEF score, score2, s, p, b, b2, top, top2, a
  <2> QED
    BY <1>2, <1>9, <2>1, <2>2, LeadOfScores
<1> HIDE DEF score, score2, g, d, d2, c, b, b2, s, p
<1>13. g * (d2 * b) <= g * (d * b2)
  <2>1. d2 * b \in Int /\ d * b2 \in Int
    BY <1>9
  <2> QED
    BY <1>6, <1>10, <1>11, <2>1, TimesFollowsSign
<1>14. /\ score2(j) - score2(i) > 0 => score(j) - score(i) > 0
       /\ score2(j) - score2(i) >= 0 => score(j) - score(i) >= 0
  BY <1>3, <1>9, <1>11, <1>12, <1>13, LeadShrinks
<1>15. /\ score2(j) > score2(i) => score(j) > score(i)
       /\ score2(j) >= score2(i) => score(j) >= score(i)
  BY <1>7, <1>14
<1> QED
  BY <1>15 DEF score, score2
=============================================================================
