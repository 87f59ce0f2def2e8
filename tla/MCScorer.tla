------------------------------ MODULE MCScorer ------------------------------
(* Up to three candidates with two metrics, any of them missing. *)
EXTENDS Scorer

MCMetricNames   == {"latency_ms", "accuracy"}
MCValues        == 0..2
MCWeightValues  == {-1, 0, 1, 2}
=============================================================================
