----------------------------- MODULE MCCompare -----------------------------
(* Runs of one or two candidates, in either order, any metric missing, one *)
(* run with two candidates of the same name.                               *)
EXTENDS Compare

Metrics == {"latency_ms", "accuracy"}
Maps    == UNION {[S -> 0..1] : S \in SUBSET Metrics}

Cand(n, m) == [name |-> n, metrics |-> m]
Lat(v)     == [m \in {"latency_ms"} |-> v]

MCRuns ==
  {[candidates |-> cs] :
     cs \in {<<Cand(n, m)>> : n \in {"a", "b"}, m \in Maps}
       \cup {<<Cand("a", m), Cand("b", Lat(v))>> : m \in Maps, v \in 0..2}
       \cup {<<Cand("b", Lat(v)), Cand("a", m)>> : m \in [Metrics -> 0..1], v \in 0..1}
       \cup {<<Cand("a", Lat(1)), Cand("a", Lat(0))>>}}

Flags(fail, t, d) == [failOnRegression |-> fail, thresholds |-> t, directions |-> d]
On(m, v) == [x \in {m} |-> v]

MCGateFlags ==
  {Flags(TRUE, On(m, v), d) :
     m \in Metrics, v \in {0, 1}, d \in {<<>>, On("accuracy", "min"), On("latency_ms", "max")}}
  \cup {Flags(TRUE, [m \in Metrics |-> 0], <<>>),
        Flags(TRUE, On("accuracy", NaN), <<>>),
        Flags(TRUE, On("accuracy", NoNumber), <<>>),
        Flags(TRUE, On("accuracy", -1), <<>>),
        Flags(TRUE, On("accuracy", 0), On("accuracy", "up")),
        Flags(TRUE, <<>>, <<>>),
        Flags(FALSE, <<>>, <<>>),
        Flags(FALSE, On("accuracy", 0), <<>>),
        Flags(FALSE, <<>>, On("accuracy", "max"))}
=============================================================================
