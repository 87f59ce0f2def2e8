SPECIFICATION Spec
CONSTANTS
  MetricNames <- MCMetricNames
  Values <- MCValues
  WeightValues <- MCWeightValues
  MaxCandidates = 3
INVARIANTS TypeOK Contract DominantWins ImprovingNeverHurts
CHECK_DEADLOCK FALSE
