------------------------------- MODULE Scorer -------------------------------
(***************************************************************************)
(* One call of scorer.Parse and, if it succeeds, of Scorer.Score, for any  *)
(* candidates and any strategy.                                            *)
(***************************************************************************)
EXTENDS Scoring

CONSTANTS
  Values,         \* values of the metrics
  WeightValues,   \* weights of the weighted strategy
  MaxCandidates   \* bound on the candidates of a run

ASSUME ScorerAssumption ==
  /\ Values \subseteq Int /\ WeightValues \subseteq Int
  /\ MaxCandidates \in Nat

\* The strategy of a suite as written: "raw", "single:<metric>[:<dir>]",
\* "weighted" with its map of weights, or something else.
Texts ==
  [kind : {"raw", "unknown"}]
  \cup [kind : {"single"}, metric : MetricNames \cup {NoMetric},
        dir : {"none", "asc", "desc", "other"}]
  \cup [kind : {"weighted"}, weights : PartialMaps(MetricNames, WeightValues)]

VARIABLES
  cands,   \* the candidates, a sequence of metric maps
  text,    \* the strategy
  status,  \* "new", "scored" or "error"
  scored   \* what Score returned, in its order

vars == <<cands, text, status, scored>>

-----------------------------------------------------------------------------

Init ==
  /\ cands \in UNION {[1..n -> PartialMaps(MetricNames, Values)] : n \in 0..MaxCandidates}
  /\ text \in Texts
  /\ status = "new"
  /\ scored = <<>>

CallScore ==
  /\ status = "new" /\ ParseSucceeds(text)
  /\ status' = "scored"
  /\ scored' = Score(cands, text)
  /\ UNCHANGED <<cands, text>>

RejectStrategy ==
  /\ status = "new" /\ ~ParseSucceeds(text)
  /\ status' = "error"
  /\ UNCHANGED <<cands, text, scored>>

Next == CallScore \/ RejectStrategy

Spec == Init /\ [][Next]_vars

-----------------------------------------------------------------------------
\* Type invariant: one result per candidate, its rank 0 in raw mode only and
\* never beyond the number of candidates.
TypeOK ==
  /\ status \in {"new", "scored", "error"}
  /\ scored # <<>> => status = "scored" /\ Len(scored) = Len(cands)
  /\ \A k \in DOMAIN scored :
       /\ scored[k].cand \in DOMAIN cands
       /\ scored[k].rank \in IF text.kind = "raw" THEN {0} ELSE 1..Len(cands)

RankNow(i) == scored[CHOOSE k \in DOMAIN scored : scored[k].cand = i].rank

IsRanked == status = "scored" /\ text.kind # "raw"

\* a weighted score counts upwards; a single metric as the strategy says
HighestFirst == text.kind = "weighted" \/ text.dir = "desc"

\* a score that is a weighted sum, or a value the candidate really has
HasScore(i) == text.kind = "weighted" \/ text.metric \in DOMAIN cands[i]

\* The contract of Scorer.Score (scorer.go:26-35): each candidate once, ranks
\* 1, 2, 3, ... without gaps also where candidates tie, and in the direction of the
\* strategy nobody behind someone it is better than.  Who of a tie comes first, and
\* where one without the metric belongs, is left open: there the texts disagree
\* (US-BEN-0110:17-18 and :62, US-BEN-0209:21).
Contract ==
  IsRanked =>
    /\ {scored[k].cand : k \in DOMAIN scored} = DOMAIN cands
    /\ \A k \in DOMAIN scored : scored[k].rank = k
    /\ \A k, l \in DOMAIN scored :
         (k < l /\ HasScore(scored[k].cand) /\ HasScore(scored[l].cand)) =>
           IF HighestFirst THEN scored[k].score >= scored[l].score
                           ELSE scored[k].score <= scored[l].score

\* Under non-negative weights a candidate that no weighted metric puts below
\* another, and one with a positive weight puts above it, is ranked before it:
\* normalisation, whatever the other candidates are, does not invert an order.
DominantWins ==
  (IsRanked /\ text.kind = "weighted" /\ \A m \in DOMAIN text.weights : text.weights[m] >= 0) =>
    \A i, j \in DOMAIN cands :
      /\ \A m \in DOMAIN text.weights : MetricOf(cands[i], m) >= MetricOf(cands[j], m)
      /\ \E m \in DOMAIN text.weights :
           text.weights[m] > 0 /\ MetricOf(cands[i], m) > MetricOf(cands[j], m)
      => RankNow(i) < RankNow(j)

\* does more of metric m count for a candidate, or less
Gain(m) == IF text.kind = "weighted" THEN Sign(text.weights[m]) * Sign(SumFunction(text.weights))
           ELSE IF text.dir = "desc" THEN 1 ELSE -1

ScoredMetrics == IF text.kind = "weighted" THEN DOMAIN text.weights ELSE {text.metric}

\* A candidate that improves on one scored metric, all else equal, does not lose
\* a place: although its new value moves the minimum, the maximum and with them
\* the normalised values of every other candidate.
ImprovingNeverHurts ==
  IsRanked =>
    \A i \in DOMAIN cands, m \in ScoredMetrics, v \in Values :
      Gain(m) * v > Gain(m) * MetricOf(cands[i], m) =>
        LET better == [cands EXCEPT ![i] = [x \in DOMAIN @ \cup {m} |-> IF x = m THEN v ELSE @[x]]]
            s      == ScoreOf(better, text)
        IN  RankOf(text, s, i) <= RankNow(i)
=============================================================================
