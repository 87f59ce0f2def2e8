------------------------------ MODULE Scoring ------------------------------
(***************************************************************************)
(* internal/scorer, its three strategies as operators: candidates are      *)
(* ranked by one metric, by a weighted sum of min-max normalised metrics,  *)
(* or not at all.                                                          *)
(*                                                                         *)
(* A candidate is its map of metric values.  Only the order of scores      *)
(* matters, so a weighted score is an integer: the sum of the code is      *)
(* multiplied by every denominator in it, all positive but the total       *)
(* weight, whose sign is kept.  If the total weight is 0 every score of    *)
(* the code is NaN, no comparison of two holds, and the candidates stay in *)
(* the order they came in; here every score is then 0.                     *)
(***************************************************************************)
EXTENDS Integers, Sequences, FiniteSets, FiniteSetsExt, Functions

CONSTANT MetricNames    \* metrics of a run, as keys of its maps

NoMetric == "no metric"
ASSUME MetricAssumption == NoMetric \notin MetricNames /\ IsFiniteSet(MetricNames)

PartialMaps(D, R) == UNION {[S -> R] : S \in SUBSET D}

-----------------------------------------------------------------------------
ParseSucceeds(t) ==
  \/ t.kind = "raw"
  \/ t.kind = "single" /\ t.dir # "other" /\ t.metric # NoMetric
  \/ t.kind = "weighted" /\ DOMAIN t.weights # {}

\* A missing key of a Go map reads 0.
MetricOf(c, m) == IF m \in DOMAIN c THEN c[m] ELSE 0

Sign(n) == IF n > 0 THEN 1 ELSE IF n < 0 THEN -1 ELSE 0

Column(cs, m) == {MetricOf(cs[i], m) : i \in DOMAIN cs}
Span(cs, m)   == Max(Column(cs, m)) - Min(Column(cs, m))

\* norm = NormTop / NormBottom: a metric that all candidates tie on counts 1/2.
NormBottom(cs, m) == IF Span(cs, m) = 0 THEN 2 ELSE Span(cs, m)

NormTopWrongTie(cs, m, i) ==  \* mutated: the neutral value for whoever has the minimum
  IF MetricOf(cs[i], m) = Min(Column(cs, m)) THEN NormBottom(cs, m)
  ELSE MetricOf(cs[i], m) - Min(Column(cs, m))

NormTop(cs, m, i) ==
  IF Span(cs, m) = 0 THEN 1 ELSE MetricOf(cs[i], m) - Min(Column(cs, m))

WeightedScore(cs, w, i) ==
  LET common == FoldFunction(LAMBDA x, y : x * y, 1, [m \in DOMAIN w |-> NormBottom(cs, m)])
  IN  Sign(SumFunction(w)) *
        SumFunction([m \in DOMAIN w |->
                       w[m] * NormTop(cs, m, i) * (common \div NormBottom(cs, m))])

ScoreOf(cs, t) ==
  [i \in DOMAIN cs |->
     CASE t.kind = "single"   -> MetricOf(cs[i], t.metric)
       [] t.kind = "weighted" -> WeightedScore(cs, t.weights, i)]

BetterFlipped(t, x, y) == IF t.kind = "single" /\ t.dir # "desc" THEN x > y ELSE x < y  \* mutated

BetterUpwards(t, x, y) == IF t.kind = "single" THEN x < y ELSE x > y  \* mutated: no ":desc"

\* Descending order, but ascending for a single metric without ":desc".
Better(t, x, y) == IF t.kind = "single" /\ t.dir # "desc" THEN x < y ELSE x > y

\* sort.SliceStable puts i before j.
Precedes(t, s, i, j) ==
  \/ Better(t, s[i], s[j])
  \/ ~Better(t, s[j], s[i]) /\ i < j

RankOf(t, s, i) == 1 + Cardinality({j \in DOMAIN s : Precedes(t, s, j, i)})

PlaceRankLate(k) == k + 1  \* mutated: off by one
PlaceRank(k)     == k

Score(cs, t) ==
  IF t.kind = "raw"
  THEN [k \in DOMAIN cs |-> [cand |-> k, score |-> 0, rank |-> 0]]
  ELSE LET s == ScoreOf(cs, t)
       IN  [k \in DOMAIN cs |->
              LET i == CHOOSE i \in DOMAIN cs : RankOf(t, s, i) = k
              IN  [cand |-> i, score |-> s[i], rank |-> PlaceRank(k)]]
=============================================================================
