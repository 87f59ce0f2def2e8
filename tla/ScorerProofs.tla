---------------------------- MODULE ScorerProofs ----------------------------
(* Theorems about one call of the scorer, for any candidates, any metrics  *)
(* and any strategy.                                                       *)
EXTENDS Scorer, ScoringFacts

-----------------------------------------------------------------------------
(* The specification *)

\* The candidates and the strategy are what a suite and its runs can give, and a result
\* is that of Score.
Scored ==
  /\ \E n \in Nat : cands \in [1..n -> PartialMaps(MetricNames, Values)]
  /\ text \in Texts
  /\ status \in {"new", "scored", "error"}
  /\ IF status = "scored" THEN ParseSucceeds(text) /\ scored = Score(cands, text) ELSE scored = <<>>

LEMMA ScoredHolds == Spec => []Scored
<1>1. Init => Scored
  BY ScorerAssumption DEF Init, Scored
<1>2. Scored /\ [Next]_vars => Scored'
  BY DEF Scored, Next, CallScore, RejectStrategy, vars
<1> QED
  BY <1>1, <1>2, PTL DEF Spec

LEMMA MetricIsInteger ==
  ASSUME NEW c \in PartialMaps(MetricNames, Values), NEW m
  PROVE  MetricOf(c, m) \in Int
<1>1. PICK S \in SUBSET MetricNames : c \in [S -> Values]
  BY DEF PartialMaps
<1>2. Values \subseteq Int
  BY ScorerAssumption
<1>3. CASE m \in DOMAIN c
  BY <1>1, <1>2, <1>3 DEF MetricOf
<1>4. CASE m \notin DOMAIN c
  BY <1>4 DEF MetricOf
<1> QED
  BY <1>3, <1>4

LEMMA WeightsOfText ==
  ASSUME text \in Texts, text.kind = "weighted"
  PROVE  Weights(text.weights)
<1>1. text.weights \in PartialMaps(MetricNames, WeightValues)
  BY DEF Texts
<1>2. PICK S \in SUBSET MetricNames : text.weights \in [S -> WeightValues]
  BY <1>1 DEF PartialMaps
<1>3. IsFiniteSet(S)
  BY MetricAssumption, FS_Subset
<1> QED
  BY <1>2, <1>3, ScorerAssumption DEF Weights, IntegersOn

LEMMA CandidatesOfRun ==
  ASSUME NEW n \in Nat, cands \in [1..n -> PartialMaps(MetricNames, Values)]
  PROVE  Candidates(cands, n)
BY MetricIsInteger DEF Candidates

\* What the invariant says of a ranked result.
LEMMA Ranked ==
  ASSUME Scored, IsRanked, NEW n \in Nat, cands \in [1..n -> PartialMaps(MetricNames, Values)]
  PROVE  /\ Candidates(cands, n) /\ ScoreOf(cands, text) \in [1..n -> Int]
         /\ scored = Score(cands, text) /\ text.kind \in {"single", "weighted"} /\ text \in Texts
         /\ \A i \in 1..n : RankNow(i) = RankOf(text, ScoreOf(cands, text), i)
<1> DEFINE s == ScoreOf(cands, text)
<1>1. /\ Candidates(cands, n) /\ text \in Texts /\ ParseSucceeds(text) /\ text.kind \in {"single", "weighted"}
      /\ scored = Score(cands, text) /\ DOMAIN cands = 1..n
  BY CandidatesOfRun DEF Scored, IsRanked, ParseSucceeds
<1>2. s \in [1..n -> Int]
  BY <1>1, WeightsOfText, ScoresAreIntegers
<1>3. /\ DOMAIN scored = 1..n
      /\ \A k \in 1..n : /\ scored[k].cand \in 1..n /\ RankOf(text, s, scored[k].cand) = k
                         /\ scored[k].rank = k
  BY <1>1, <1>2, ScoreSorts
<1> HIDE DEF s
<1>4. ASSUME NEW i \in 1..n PROVE RankNow(i) = RankOf(text, s, i)
  <2> DEFINE r == RankOf(text, s, i)
  <2>1. r \in 1..n
    BY <1>2, RankBounds
  <2>2. \A x, y \in 1..n : RankOf(text, s, x) = RankOf(text, s, y) => x = y
    BY <1>2, RanksAreContiguous
  <2>3. scored[r].cand = i
    BY <1>3, <2>1, <2>2
  <2>4. \A k \in 1..n : scored[k].cand = i => k = r
    BY <1>3
  <2> HIDE DEF r
  <2>5. (CHOOSE k \in DOMAIN scored : scored[k].cand = i) = r
    BY <1>3, <2>1, <2>3, <2>4
  <2> QED
    BY <1>3, <2>1, <2>5 DEF RankNow, r
<1> QED
  BY <1>1, <1>2, <1>4 DEF s

-----------------------------------------------------------------------------
(* Theorems *)

\* One result for each candidate, without a rank in raw mode, and with one between 1
\* and the number of candidates in the others.
THEOREM TypeCorrect == Spec => []TypeOK
<1>1. ASSUME Scored PROVE TypeOK
  <2>1. PICK n \in Nat : cands \in [1..n -> PartialMaps(MetricNames, Values)]
    BY <1>1 DEF Scored
  <2>2. IsSequence(cands) /\ Len(cands) = n
    BY <2>1, SequenceOver
  <2>3. CASE status # "scored"
    BY <1>1, <2>3, EmptyIsSequence DEF TypeOK, Scored
  <2>4. CASE status = "scored" /\ text.kind = "raw"
    <3>1. scored = [k \in 1..n |-> [cand |-> k, score |-> 0, rank |-> 0]]
      BY <1>1, <2>1, <2>4 DEF Scored, Score
    <3>2. Len(scored) = n
      BY <3>1, SequenceOver
    <3> QED
      BY <2>1, <2>2, <2>4, <3>1, <3>2 DEF TypeOK
  <2>5. CASE IsRanked
    <3>1. ScoreOf(cands, text) \in [1..n -> Int] /\ scored = Score(cands, text) /\ text.kind # "raw"
      BY <1>1, <2>1, <2>5, Ranked
    <3>2. /\ scored = [k \in 1..n |-> scored[k]]
          /\ \A k \in 1..n : scored[k].cand \in 1..n /\ scored[k].rank = k
      BY <2>1, <3>1, ScoreSorts
    <3>3. Len(scored) = n /\ DOMAIN scored = 1..n
      BY <3>2, SequenceOver
    <3> QED
      BY <2>1, <2>2, <2>5, <3>1, <3>2, <3>3 DEF TypeOK, IsRanked
  <2> QED
    BY <2>3, <2>4, <2>5 DEF IsRanked
<1> QED
  BY <1>1, ScoredHolds, PTL

\* Whatever the metrics and the weights, a run that ranks honours the contract of the
\* Scorer interface.
THEOREM ContractHolds == Spec => []Contract
<1>1. ASSUME Scored PROVE Contract
  <2> SUFFICES ASSUME IsRanked PROVE Contract
    BY DEF Contract
  <2>1. PICK n \in Nat : cands \in [1..n -> PartialMaps(MetricNames, Values)]
    BY <1>1 DEF Scored
  <2>2. ScoreOf(cands, text) \in [1..n -> Int] /\ scored = Score(cands, text) /\ text.kind # "raw"
    BY <1>1, <2>1, Ranked
  <2>3. HonoursContract(text, n, scored)
    BY <2>1, <2>2, ScoreHonoursContract
  <2>4. \A k \in DOMAIN scored : scored[k].score \in Int
    <3>1. \A k \in 1..n : scored[k].cand \in 1..n
                           /\ scored[k].score = ScoreOf(cands, text)[scored[k].cand]
      BY <2>1, <2>2, ScoreSorts
    <3>2. DOMAIN scored = 1..n
      BY <2>3 DEF HonoursContract
    <3>3. \A i \in 1..n : ScoreOf(cands, text)[i] \in Int
      BY <2>2
    <3> QED
      BY <3>1, <3>2, <3>3
  <2>5. ASSUME NEW k \in DOMAIN scored, NEW l \in DOMAIN scored, k < l
        PROVE  IF HighestFirst THEN scored[k].score >= scored[l].score
                               ELSE scored[k].score <= scored[l].score
    <3>1. ~Better(text, scored[l].score, scored[k].score)
      BY <2>3, <2>5 DEF HonoursContract
    <3>2. text.kind \in {"single", "weighted"}
      BY <1>1 DEF Scored, ParseSucceeds, IsRanked
    <3>3. HighestFirst = ~(text.kind = "single" /\ text.dir # "desc")
      BY <1>1, <3>2 DEF HighestFirst, Scored, Texts
    <3>4. scored[k].score \in Int /\ scored[l].score \in Int
      BY <2>4, <2>5
    <3>5. CASE HighestFirst
      <4>1. ~(scored[l].score > scored[k].score)
        BY <3>1, <3>3, <3>5 DEF Better
      <4> QED
        BY <3>4, <3>5, <4>1
    <3>6. CASE ~HighestFirst
      <4>1. ~(scored[l].score < scored[k].score)
        BY <3>1, <3>3, <3>6 DEF Better
      <4> QED
        BY <3>4, <3>6, <4>1
    <3> QED
      BY <3>5, <3>6
  <2> QED
    BY <2>1, <2>3, <2>5 DEF HonoursContract, Contract
<1> QED
  BY <1>1, ScoredHolds, PTL

\* Under non-negative weights a candidate that no weighted metric puts below another,
\* and one with a positive weight puts above it, is ranked before it.
THEOREM DominantIsFirst == Spec => []DominantWins
<1>1. ASSUME Scored PROVE DominantWins
  <2> DEFINE w == text.weights
             D == DOMAIN w
  <2> SUFFICES ASSUME IsRanked, text.kind = "weighted", \A m \in D : w[m] >= 0,
                      NEW i \in DOMAIN cands, NEW j \in DOMAIN cands,
                      \A m \in D : MetricOf(cands[i], m) >= MetricOf(cands[j], m),
                      \E m \in D : w[m] > 0 /\ MetricOf(cands[i], m) > MetricOf(cands[j], m)
               PROVE  RankNow(i) < RankNow(j)
    BY DEF DominantWins
  <2>1. PICK n \in Nat : cands \in [1..n -> PartialMaps(MetricNames, Values)]
    BY <1>1 DEF Scored
  <2>2. /\ Candidates(cands, n) /\ ScoreOf(cands, text) \in [1..n -> Int] /\ text \in Texts
        /\ i \in 1..n /\ j \in 1..n /\ n > 0
        /\ RankNow(i) = RankOf(text, ScoreOf(cands, text), i)
        /\ RankNow(j) = RankOf(text, ScoreOf(cands, text), j)
    BY <1>1, <2>1, Ranked
  <2>3. Weights(w)
    BY <2>2, WeightsOfText
  <2> DEFINE f == Terms(cands, w, j)
             g == Terms(cands, w, i)
  <2>4. IntegersOn(f, D) /\ IntegersOn(g, D)
    BY <2>2, <2>3, WeightedScoreIsSum
  <2>5. ASSUME NEW m \in D
        PROVE  /\ f[m] <= g[m]
               /\ (w[m] > 0 /\ MetricOf(cands[i], m) > MetricOf(cands[j], m)) => f[m] < g[m]
    <3> DEFINE a == NormTop(cands, m, i)
               b == NormTop(cands, m, j)
               p == Factor(cands, w, m)
               v == w[m]
    <3>1. a \in Int /\ b \in Int /\ p \in Int /\ p > 0 /\ v \in Int /\ v >= 0
      <4>1. a \in Int /\ b \in Int
        BY <2>2, Norms
      <4>2. p \in Positive
        BY <2>2, <2>3, FactorIsPositive
      <4>3. v \in Int /\ v >= 0
        BY <2>3 DEF Weights, IntegersOn
      <4> QED
        BY <4>1, <4>2, <4>3 DEF Positive
    <3>2. a >= b /\ (MetricOf(cands[i], m) > MetricOf(cands[j], m) => a > b)
      BY <2>2, NormsKeepOrder
    <3>3. g[m] = v * a * p /\ f[m] = v * b * p
      BY DEF Terms
    <3> HIDE DEF a, b, p, v
    <3>4. v * b <= v * a /\ (v > 0 /\ a > b => v * b < v * a) /\ v * a \in Int /\ v * b \in Int
      BY <3>1, <3>2
    <3>5. (v * b) * p <= (v * a) * p /\ (v * b < v * a => (v * b) * p < (v * a) * p)
      BY <3>1, <3>4
    <3> QED
      BY <3>2, <3>3, <3>4, <3>5 DEF v
  <2>6. SumFunctionOnSet(f, D) < SumFunctionOnSet(g, D)
    BY <2>4, <2>5, SumGrows
  <2>7. SumFunctionOnSet(w, D) > 0
    BY <2>3, SumIsPositive DEF Weights
  <2>8. WeightedScore(cands, w, j) < WeightedScore(cands, w, i)
    <3>1. Sign(SumFunctionOnSet(w, D)) = 1
      BY <2>7 DEF Sign
    <3>2. /\ WeightedScore(cands, w, j) = 1 * SumFunctionOnSet(f, D)
          /\ WeightedScore(cands, w, i) = 1 * SumFunctionOnSet(g, D)
      BY <2>2, <2>3, <3>1, WeightedScoreIsSum
    <3>3. SumFunctionOnSet(f, D) \in Int /\ SumFunctionOnSet(g, D) \in Int
      BY <2>4, SumIsInteger
    <3> HIDE DEF f, g
    <3> QED
      BY <2>6, <3>2, <3>3
  <2> DEFINE s == ScoreOf(cands, text)
  <2>9. s[i] = WeightedScore(cands, w, i) /\ s[j] = WeightedScore(cands, w, j)
    BY <2>1, <2>2 DEF ScoreOf
  <2>10. Precedes(text, s, i, j)
    <3>1. s[i] > s[j]
      BY <2>2, <2>8, <2>9
    <3> QED
      BY <3>1 DEF Precedes, Better
  <2> HIDE DEF s
  <2>11. RankOf(text, s, i) < RankOf(text, s, j)
    BY <2>2, <2>10, RankFollowsOrder DEF s
  <2> QED
    BY <2>2, <2>11 DEF s
<1> QED
  BY <1>1, ScoredHolds, PTL

\* A candidate that improves on one scored metric, all else equal, does not lose a
\* place, whatever that does to the normalised values of every other candidate.
THEOREM ImprovementIsSafe == Spec => []ImprovingNeverHurts
<1>1. ASSUME Scored PROVE ImprovingNeverHurts
  <2> SUFFICES ASSUME IsRanked, NEW i \in DOMAIN cands, NEW m \in ScoredMetrics, NEW v \in Values,
                      Gain(m) * v > Gain(m) * MetricOf(cands[i], m)
               PROVE  LET better == [cands EXCEPT ![i] = [x \in DOMAIN @ \cup {m} |-> IF x = m THEN v ELSE @[x]]]
                          s      == ScoreOf(better, text)
                      IN  RankOf(text, s, i) <= RankNow(i)
    BY DEF ImprovingNeverHurts
  <2> DEFINE improved == [x \in DOMAIN cands[i] \cup {m} |-> IF x = m THEN v ELSE cands[i][x]]
             better   == [cands EXCEPT ![i] = improved]
             s  == ScoreOf(cands, text)
             s2 == ScoreOf(better, text)
  <2>1. PICK n \in Nat : cands \in [1..n -> PartialMaps(MetricNames, Values)]
    BY <1>1 DEF Scored
  <2>2. /\ Candidates(cands, n) /\ s \in [1..n -> Int] /\ text \in Texts
        /\ i \in 1..n /\ n > 0 /\ text.kind \in {"single", "weighted"}
        /\ RankNow(i) = RankOf(text, s, i)
    BY <1>1, <2>1, Ranked
  <2>3. v \in Int
    BY ScorerAssumption
  <2>4. /\ DOMAIN better = 1..n /\ better[i] = improved
        /\ \A k \in 1..n : k # i => better[k] = cands[k]
    BY <2>1, <2>2
  <2>5. \A x : MetricOf(improved, x) = IF x = m THEN v ELSE MetricOf(cands[i], x)
    BY DEF MetricOf
  <2> HIDE DEF improved, better
  <2>6. \A k \in 1..n : \A x : MetricOf(better[k], x) = IF k = i /\ x = m THEN v ELSE MetricOf(cands[k], x)
    BY <2>4, <2>5
  <2>7. Candidates(better, n)
    BY <2>2, <2>3, <2>4, <2>6 DEF Candidates
  <2>8. s2 \in [1..n -> Int]
    BY <2>2, <2>7, WeightsOfText, ScoresAreIntegers
  <2>9. MetricOf(cands[i], m) \in Int
    BY <2>2 DEF Candidates
  <2>10. ASSUME NEW j \in 1..n, j # i, Precedes(text, s2, j, i)
         PROVE  Precedes(text, s, j, i)
    <3>1. CASE text.kind = "single"
      <4>1. m = text.metric
        BY <3>1 DEF ScoredMetrics
      <4>2. s = [k \in 1..n |-> MetricOf(cands[k], m)] /\ s2 = [k \in 1..n |-> MetricOf(better[k], m)]
        BY <2>2, <2>4, <3>1, <4>1 DEF ScoreOf, Candidates
      <4>3. s2[j] = s[j] /\ s2[i] = v /\ s[i] = MetricOf(cands[i], m) /\ s[j] \in Int
        BY <2>2, <2>6, <2>10, <4>2
      <4>4. Better(text, v, MetricOf(cands[i], m))
        BY <2>3, <2>9, <3>1 DEF Gain, Better
      <4> HIDE DEF s, s2
      <4> QED
        BY <2>3, <2>9, <2>10, <3>1, <4>3, <4>4 DEF Precedes, Better
    <3>2. CASE text.kind = "weighted"
      <4> DEFINE w == text.weights
                 gain == Sign(w[m]) * Sign(SumFunctionOnSet(w, DOMAIN w))
      <4>1. m \in DOMAIN w /\ Weights(w)
        BY <2>2, <3>2, WeightsOfText DEF ScoredMetrics
      <4>2. gain = Gain(m)
        BY <3>2 DEF Gain, SumFunction
      <4>3. gain \in {-1, 0, 1}
        BY DEF Sign
      <4>4. \/ gain = 1 /\ MetricOf(cands[i], m) < MetricOf(better[i], m)
            \/ gain = -1 /\ MetricOf(cands[i], m) > MetricOf(better[i], m)
        <5>1. MetricOf(better[i], m) = v
          BY <2>2, <2>6
        <5> HIDE DEF gain
        <5> QED
          BY <2>3, <2>9, <4>2, <4>3, <5>1
      <4>5. /\ \A k \in 1..n : \A o \in DOMAIN w \ {m} : MetricOf(better[k], o) = MetricOf(cands[k], o)
            /\ \A k \in 1..n : k # i => MetricOf(better[k], m) = MetricOf(cands[k], m)
        BY <2>6
      <4>6. /\ WeightedScore(better, w, j) > WeightedScore(better, w, i)
                  => WeightedScore(cands, w, j) > WeightedScore(cands, w, i)
            /\ WeightedScore(better, w, j) >= WeightedScore(better, w, i)
                  => WeightedScore(cands, w, j) >= WeightedScore(cands, w, i)
        <5> HIDE DEF gain, w
        <5> QED
          BY <2>2, <2>7, <2>10, <4>1, <4>4, <4>5, WeightedImproves DEF gain
      <4>7. /\ s[j] = WeightedScore(cands, w, j) /\ s[i] = WeightedScore(cands, w, i)
            /\ s2[j] = WeightedScore(better, w, j) /\ s2[i] = WeightedScore(better, w, i)
        BY <2>2, <2>4, <3>2 DEF ScoreOf, Candidates
      <4>8. s[j] \in Int /\ s[i] \in Int /\ s2[j] \in Int /\ s2[i] \in Int
        BY <2>2, <2>8
      <4> HIDE DEF s, s2, w
      <4>9. \A x, y : Better(text, x, y) <=> x > y
        BY <3>2 DEF Better
      <4> QED
        BY <2>10, <4>6, <4>7, <4>8, <4>9 DEF Precedes
    <3> QED
      BY <2>2, <3>1, <3>2
  <2>11. RankOf(text, s2, i) <= RankOf(text, s, i)
    <3> HIDE DEF s, s2
    <3> QED
      BY <2>2, <2>8, <2>10, RankNotWorse
  <2> QED
    BY <2>2, <2>11 DEF better, improved
<1> QED
  BY <1>1, ScoredHolds, PTL
=============================================================================
