--------------------------- MODULE CompareProofs ---------------------------
(* Theorems about `ben compare`, for all runs and flags. *)
EXTENDS Compare, DataFacts, TLAPS

-----------------------------------------------------------------------------
(* The chain of gates, for three runs and one GateSpec. *)

IsRun(r) ==
  /\ Len(r.candidates) \in Nat /\ DOMAIN r.candidates = 1..Len(r.candidates)
  /\ \A i \in DOMAIN r.candidates : \A m \in DOMAIN r.candidates[i].metrics :
       r.candidates[i].metrics[m] \in Int

LEMMA LastOfName ==
  ASSUME NEW r, IsRun(r), NEW n, Named(r, n) # {}
  PROVE  /\ Max(Named(r, n)) \in DOMAIN r.candidates
         /\ r.candidates[Max(Named(r, n))].name = n
<1>1. Named(r, n) \in SUBSET (1..Len(r.candidates)) /\ Len(r.candidates) \in Nat
  BY DEF IsRun, Named
<1>2. Max(Named(r, n)) \in Named(r, n)
  BY <1>1, MaxIsMember
<1> QED
  BY <1>2 DEF Named

\* What a passed check says.
LEMMA OkMeans ==
  ASSUME NEW c, NEW b, NEW g, NEW m
  PROVE  Verdict(c, b, g, m) = "ok"
           <=> /\ Seen(c.metrics, b, c.name, m)
               /\ ~WorseBy(DirectionOf(g, m), g.thresholds[m], c.metrics[m], MetricsOf(b, c.name)[m])
BY DEF Verdict, VerdictUnseen

LEMMA PassMeans ==
  ASSUME NEW a, NEW b, NEW g
  PROVE  Pass(Gate(a, b, g))
           <=> \A i \in DOMAIN a.candidates, m \in DOMAIN g.thresholds :
                 Verdict(a.candidates[i], b, g, m) = "ok"
<1> DEFINE D == (DOMAIN a.candidates) \X (DOMAIN g.thresholds)
<1>1. Gate(a, b, g) = [c \in D |-> Verdict(a.candidates[c[1]], b, g, c[2])]
  BY DEF Gate
<1>2. Pass(Gate(a, b, g)) <=> \A c \in D : Verdict(a.candidates[c[1]], b, g, c[2]) = "ok"
  BY <1>1 DEF Pass
<1>3. ASSUME \A c \in D : Verdict(a.candidates[c[1]], b, g, c[2]) = "ok",
             NEW i \in DOMAIN a.candidates, NEW m \in DOMAIN g.thresholds
      PROVE  Verdict(a.candidates[i], b, g, m) = "ok"
  <2>1. <<i, m>> \in D
    OBVIOUS
  <2>2. Verdict(a.candidates[<<i, m>>[1]], b, g, <<i, m>>[2]) = "ok"
    BY <1>3, <2>1
  <2> QED
    BY <2>2
<1>4. ASSUME \A i \in DOMAIN a.candidates, m \in DOMAIN g.thresholds :
               Verdict(a.candidates[i], b, g, m) = "ok",
             NEW c \in D
      PROVE  Verdict(a.candidates[c[1]], b, g, c[2]) = "ok"
  <2>1. c[1] \in DOMAIN a.candidates /\ c[2] \in DOMAIN g.thresholds
    OBVIOUS
  <2> QED
    BY <1>4, <2>1
<1> HIDE DEF D
<1> QED
  BY <1>2, <1>3, <1>4

LEMMA LossesAdd ==
  ASSUME NEW dir, NEW t \in Int, NEW x \in Int, NEW y \in Int, NEW z \in Int,
         ~WorseBy(dir, t, x, y), ~WorseBy(dir, t, y, z)
  PROVE  ~WorseBy(dir, 2 * t, x, z)
<1>1. NaN \notin Int
  BY CompareAssumption
<1>2. t # NaN
  BY <1>1
<1>3. CASE dir = "min"
  <2>1. ~(y - x > t) /\ ~(z - y > t)
    BY <1>2, <1>3 DEF WorseBy
  <2>2. ~(z - x > 2 * t)
    BY <2>1
  <2> QED
    BY <2>2, <1>3 DEF WorseBy
<1>4. CASE dir # "min"
  <2>1. ~(y - x < -t) /\ ~(z - y < -t)
    BY <1>2, <1>4 DEF WorseBy
  <2>2. ~(z - x < -(2 * t))
    BY <2>1
  <2> QED
    BY <2>2, <1>4 DEF WorseBy
<1> QED
  BY <1>3, <1>4

LEMMA ChainOfGates ==
  ASSUME NEW a, NEW b, NEW c, IsRun(a), IsRun(b), IsRun(c), NEW t, NEW d,
         \A m \in DOMAIN t : t[m] \in Nat \cup {NaN},
         Pass(Gate(a, b, [thresholds |-> t, directions |-> d])),
         Pass(Gate(b, c, [thresholds |-> t, directions |-> d]))
  PROVE  Pass(Gate(a, c, Doubled([thresholds |-> t, directions |-> d])))
<1> DEFINE g  == [thresholds |-> t, directions |-> d]
           t2 == [m \in DOMAIN t |-> IF t[m] = NaN THEN NaN ELSE 2 * t[m]]
           g2 == [thresholds |-> t2, directions |-> d]
<1>1. Doubled(g) = g2
  BY DEF Doubled
<1>2. ASSUME NEW i \in DOMAIN a.candidates, NEW m \in DOMAIN t
      PROVE  Verdict(a.candidates[i], c, g2, m) = "ok"
  <2> DEFINE ca == a.candidates[i]
             mb == MetricsOf(b, ca.name)
             mc == MetricsOf(c, ca.name)
  <2>1. /\ Seen(ca.metrics, b, ca.name, m)
        /\ ~WorseBy(DirectionOf(g, m), t[m], ca.metrics[m], mb[m])
    BY PassMeans, OkMeans
  <2> DEFINE j == Max(Named(b, ca.name))
  <2>2. j \in DOMAIN b.candidates /\ b.candidates[j].name = ca.name
    BY <2>1, LastOfName DEF Seen
  <2>3. b.candidates[j].metrics = mb
    BY DEF MetricsOf
  <2>4. /\ Seen(mb, c, ca.name, m)
        /\ ~WorseBy(DirectionOf(g, m), t[m], mb[m], mc[m])
    <3>1. Verdict(b.candidates[j], c, g, m) = "ok"
      BY <2>2, PassMeans
    <3> HIDE DEF j, mb, mc
    <3> QED
      BY <3>1, <2>2, <2>3, OkMeans DEF mc
  <2>5. Seen(ca.metrics, c, ca.name, m)
    BY <2>1, <2>4 DEF Seen
  <2>6. ca.metrics[m] \in Int /\ mb[m] \in Int /\ mc[m] \in Int
    <3>1. ca.metrics[m] \in Int
      BY <2>1 DEF Seen, IsRun
    <3>2. mb[m] \in Int
      BY <2>1, <2>2, <2>3 DEF Seen, IsRun
    <3>3. mc[m] \in Int
      BY <2>5, LastOfName DEF Seen, IsRun, MetricsOf
    <3> QED
      BY <3>1, <3>2, <3>3
  <2>7. ~WorseBy(DirectionOf(g, m), t2[m], ca.metrics[m], mc[m])
    <3>1. CASE t[m] = NaN
      BY <3>1 DEF WorseBy
    <3>2. CASE t[m] # NaN
      <4>1. t[m] \in Int /\ t2[m] = 2 * t[m]
        BY <3>2
      <4> HIDE DEF ca, mb, mc, g
      <4> QED
        BY <4>1, <2>1, <2>4, <2>6, LossesAdd
    <3> QED
      BY <3>1, <3>2
  <2>8. DirectionOf(g, m) = DirectionOf(g2, m)
    BY DEF DirectionOf
  <2> QED
    BY <2>5, <2>7, <2>8, OkMeans
<1>3. Pass(Gate(a, c, g2))
  BY <1>2, PassMeans
<1> QED
  BY <1>1, <1>3

-----------------------------------------------------------------------------
(* The command. *)

GateOf(f) == [thresholds |-> f.thresholds, directions |-> f.directions]

\* What each stage leaves behind.
Stages ==
  /\ flags \in GateFlags
  /\ pc \in {"flags", "load", "evaluate", "render", "exit"}
  /\ exit \in {None, "ok", "usage", "failed", "no run", "regression"}
  /\ pc # "exit" => exit = None
  /\ runA \in Runs \cup {None} /\ runB \in Runs \cup {None}
  /\ checks # None => gate # None
  /\ pc \in {"flags", "load", "evaluate"} => checks = None
  /\ gate # None => GateSpecOk(flags) /\ gate = GateOf(flags)
  /\ pc = "flags" => gate = None
  /\ pc \in {"flags", "load", "evaluate"} => diff = None
  /\ diff # None => runA \in Runs /\ runB \in Runs /\ diff = buildDiff(runA, runB)
  /\ pc = "evaluate" \/ Evaluated =>
       runA \in Runs /\ runB \in Runs
  /\ Evaluated =>
       /\ diff = buildDiff(runA, runB)
       /\ gate # None => checks = Gate(runA, runB, gate)
  /\ exit = "ok" => (gate = None \/ Pass(checks))
  /\ exit = "regression" => (gate # None /\ ~Pass(checks))

LEMMA InitStages == Init => Stages
BY CompareAssumption DEF Init, Stages, Evaluated

LEMMA NextStages == Stages /\ [Next]_vars => Stages'
<1> SUFFICES ASSUME Stages, [Next]_vars PROVE Stages'
  OBVIOUS
<1>0. None \notin {"ok", "regression"}
  BY CompareAssumption
<1>1. CASE ParseFlags
  <2>1. CASE FlagsOk(flags)
    BY <1>0, <1>1, <2>1 DEF Stages, Evaluated, ParseFlags, GoTo, FlagsOk, GateOf
  <2>2. CASE ~FlagsOk(flags)
    BY <1>0, <1>1, <2>2 DEF Stages, Evaluated, ParseFlags, Exit
  <2> QED
    BY <2>1, <2>2
<1>2. CASE LoadRuns
  BY <1>0, <1>2 DEF Stages, Evaluated, LoadRuns, GoTo, Exit
<1>3. CASE Evaluate
  BY <1>0, <1>3 DEF Stages, Evaluated, Evaluate, GoTo
<1>4. CASE Render
  <2>1. PICK code \in {ExitCode, "failed"} : pc' = "exit" /\ exit' = code
    BY <1>4 DEF Render, Exit
  <2>2. UNCHANGED <<flags, gate, runA, runB, diff, checks>> /\ pc = "render"
    BY <1>4 DEF Render
  <2>3. ExitCode = IF gate # None /\ ~Pass(checks) THEN "regression" ELSE "ok"
    BY DEF ExitCode
  <2> QED
    BY <2>1, <2>2, <2>3 DEF Stages, Evaluated, Pass
<1>5. CASE UNCHANGED vars
  BY <1>5 DEF Stages, Evaluated, vars, Pass
<1> QED
  BY <1>1, <1>2, <1>3, <1>4, <1>5 DEF Next

THEOREM StagesHold == Spec => []Stages
BY InitStages, NextStages, PTL DEF Spec

\* What the command knows of its gate and its runs.
LEMMA GateHasSlack ==
  ASSUME Stages, gate # None
  PROVE  /\ gate = [thresholds |-> gate.thresholds, directions |-> gate.directions]
         /\ gate.directions = flags.directions
         /\ \A m \in DOMAIN gate.thresholds : gate.thresholds[m] \in Nat \cup {NaN}
         /\ \A m \in DOMAIN gate.directions : gate.directions[m] \in {"min", "max"}
<1>1. gate = GateOf(flags) /\ GateSpecOk(flags) /\ flags \in GateFlags
  BY DEF Stages
<1>2. ASSUME NEW m \in DOMAIN gate.thresholds
      PROVE  gate.thresholds[m] \in Nat \cup {NaN}
  <2>1. gate.thresholds = flags.thresholds
    BY <1>1 DEF GateOf
  <2>2. flags.thresholds[m] \in Int \cup {NaN, NoNumber}
    BY <1>1, <2>1, CompareAssumption
  <2>3. ThresholdOk(flags.thresholds[m])
    BY <1>1, <2>1 DEF GateSpecOk
  <2> QED
    BY <2>1, <2>2, <2>3 DEF ThresholdOk
<1> QED
  BY <1>1, <1>2 DEF GateOf, GateSpecOk

\* A diff has a row for each candidate of run-a.
LEMMA RowPerCandidate ==
  ASSUME NEW a, NEW b, IsRun(a)
  PROVE  Len(buildDiff(a, b)) = Len(a.candidates)
<1> DEFINE n == Len(a.candidates)
           d == buildDiff(a, b)
<1>1. n \in Nat /\ d = [i \in 1..n |-> Row(a, b, i)]
  BY DEF IsRun, buildDiff
<1> HIDE DEF n, d
<1>2. Len([i \in 1..n |-> Row(a, b, i)]) = n
  BY <1>1
<1> QED
  BY <1>1, <1>2 DEF n, d

LEMMA RunsAreRuns == \A r \in Runs : IsRun(r)
BY CompareAssumption DEF IsRun

\* The type invariant.
THEOREM TypeCorrect == Spec => []TypeOK
<1>1. ASSUME Stages PROVE TypeOK
  <2>1. ASSUME gate # None PROVE gate.thresholds # <<>>
    <3>1. gate = GateOf(flags) /\ DOMAIN flags.thresholds # {}
      BY <1>1, <2>1 DEF Stages, GateSpecOk
    <3>2. gate.thresholds = flags.thresholds
      BY <3>1 DEF GateOf
    <3>3. DOMAIN <<>> = {}
      OBVIOUS
    <3> QED
      BY <3>1, <3>2, <3>3
  <2>2. ASSUME diff # None PROVE Len(diff) = Len(runA.candidates)
    BY <1>1, <2>2, RunsAreRuns, RowPerCandidate DEF Stages
  <2> QED
    BY <1>1, <2>1, <2>2, GateHasSlack DEF Stages, TypeOK
<1> QED
  BY <1>1, StagesHold, PTL

\* A chain of gated releases cannot hide a regression: the gates of two runs in a
\* row imply the gate with twice the slack on the first and the last.
THEOREM GatesCompose == Spec => []GateComposes
<1>1. ASSUME Stages PROVE GateComposes
  <2> SUFFICES ASSUME gate # None, Evaluated, Pass(checks),
                      NEW runC \in Runs, Pass(Gate(runB, runC, gate))
               PROVE  Pass(Gate(runA, runC, Doubled(gate)))
    BY DEF GateComposes
  <2>1. runA \in Runs /\ runB \in Runs /\ Pass(Gate(runA, runB, gate))
    BY <1>1 DEF Stages
  <2>2. IsRun(runA) /\ IsRun(runB) /\ IsRun(runC)
    BY <2>1, RunsAreRuns
  <2> DEFINE t == gate.thresholds
             d == gate.directions
  <2>3. gate = [thresholds |-> t, directions |-> d] /\ \A m \in DOMAIN t : t[m] \in Nat \cup {NaN}
    BY <1>1, GateHasSlack
  <2> HIDE DEF t, d
  <2> QED
    BY <2>1, <2>2, <2>3, ChainOfGates
<1> QED
  BY <1>1, StagesHold, PTL

\* Metric m of the baseline's candidate k was seen in the other run, and is fine.
WithinSlack(k, m) ==
  LET c == runA.candidates[k]
  IN  /\ m \in DOMAIN c.metrics
      /\ \E i \in DOMAIN runB.candidates :
           LET e == runB.candidates[i]
           IN  /\ e.name = c.name /\ m \in DOMAIN e.metrics
               /\ \/ gate.thresholds[m] = NaN
                  \/ IF DirectionOf(gate, m) = "min"
                     THEN e.metrics[m] - c.metrics[m] <= gate.thresholds[m]
                     ELSE c.metrics[m] - e.metrics[m] <= gate.thresholds[m]

\* "A gate that cannot see a metric must not pass it": exit 0 under a gate means
\* that every gated metric of the baseline was seen on both sides, within its slack.
THEOREM GateFailsClosed == Spec => []FailsClosed
<1>1. ASSUME Stages PROVE FailsClosed
  <2>1. SUFFICES ASSUME exit = "ok", gate # None PROVE FailsClosed
    BY DEF FailsClosed
  <2>2. ASSUME NEW k \in DOMAIN runA.candidates, NEW m \in DOMAIN gate.thresholds
        PROVE  WithinSlack(k, m)
    <3> DEFINE c == runA.candidates[k]
               j == Max(Named(runB, c.name))
               e == runB.candidates[j]
    <3>1. runA \in Runs /\ runB \in Runs /\ Pass(Gate(runA, runB, gate))
      BY <1>1, <2>1 DEF Stages, Evaluated
    <3>2. IsRun(runA) /\ IsRun(runB)
      BY <3>1, RunsAreRuns
    <3>3. /\ Seen(c.metrics, runB, c.name, m)
          /\ ~WorseBy(DirectionOf(gate, m), gate.thresholds[m], c.metrics[m], MetricsOf(runB, c.name)[m])
      BY <3>1, PassMeans, OkMeans
    <3>4. j \in DOMAIN runB.candidates /\ e.name = c.name
      BY <3>2, <3>3, LastOfName DEF Seen
    <3>5. e.metrics = MetricsOf(runB, c.name)
      BY DEF MetricsOf
    <3>6. m \in DOMAIN c.metrics /\ m \in DOMAIN e.metrics
      BY <3>3, <3>5 DEF Seen
    <3>7. c.metrics[m] \in Int /\ e.metrics[m] \in Int
      BY <3>2, <3>4, <3>6 DEF IsRun
    <3>8. gate.thresholds[m] = NaN \/ gate.thresholds[m] \in Nat
      BY <1>1, <2>1, GateHasSlack
    <3>9. \/ gate.thresholds[m] = NaN
          \/ IF DirectionOf(gate, m) = "min"
             THEN e.metrics[m] - c.metrics[m] <= gate.thresholds[m]
             ELSE c.metrics[m] - e.metrics[m] <= gate.thresholds[m]
      <4> SUFFICES ASSUME gate.thresholds[m] # NaN
                   PROVE  IF DirectionOf(gate, m) = "min"
                          THEN e.metrics[m] - c.metrics[m] <= gate.thresholds[m]
                          ELSE c.metrics[m] - e.metrics[m] <= gate.thresholds[m]
        OBVIOUS
      <4> HIDE DEF c, e
      <4> QED
        BY <3>3, <3>5, <3>7, <3>8 DEF WorseBy
    <3> HIDE DEF j
    <3> QED
      BY <3>4, <3>6, <3>9 DEF WithinSlack
  <2>3. gate.directions = flags.directions
    BY <1>1, <2>1, GateHasSlack
  <2> QED
    BY <2>2, <2>3 DEF FailsClosed, Baseline, WithinSlack, DirectionOf, DefaultDirection
<1> QED
  BY <1>1, StagesHold, PTL

-----------------------------------------------------------------------------
(* The diff and the gate, which compare.go computes apart from each other. *)

\* A row of the diff holds the movement of every metric both sides have.
LEMMA RowShows ==
  ASSUME NEW a, NEW b, IsRun(a), IsRun(b), NEW i \in DOMAIN a.candidates, NEW m,
         Seen(a.candidates[i].metrics, b, a.candidates[i].name, m)
  PROVE  LET c == a.candidates[i]
             to == MetricsOf(b, c.name)[m]
         IN  /\ c.metrics[m] \in Int /\ to \in Int
             /\ buildDiff(a, b)[i].delta[m] = to - c.metrics[m]
<1> DEFINE c  == a.candidates[i]
           mb == MetricsOf(b, c.name)
<1>1. Named(b, c.name) # {} /\ m \in DOMAIN c.metrics /\ m \in DOMAIN mb
  BY DEF Seen
<1>2. c.metrics[m] \in Int
  BY <1>1 DEF IsRun
<1>3. mb[m] \in Int
  BY <1>1, LastOfName DEF IsRun, MetricsOf
<1>4. buildDiff(a, b)[i] = Row(a, b, i)
  BY DEF buildDiff
<1>5. Row(a, b, i).delta
        = [x \in DOMAIN c.metrics \cup DOMAIN mb |-> ValueIn(mb, x) - ValueIn(c.metrics, x)]
  BY <1>1 DEF Row
<1> HIDE DEF c, mb
<1>6. Row(a, b, i).delta[m] = mb[m] - c.metrics[m]
  BY <1>1, <1>5 DEF ValueIn
<1> QED
  BY <1>2, <1>3, <1>4, <1>6 DEF c, mb

\* No false alarm: BEN_REGRESSION is returned only with a diff that shows a gated
\* metric missing on a side or moving the wrong way by more than its slack.
THEOREM RegressionsAreShown == Spec => []RegressionIsShown
<1>1. ASSUME Stages PROVE RegressionIsShown
  <2> SUFFICES ASSUME exit = "regression" PROVE RegressionIsShown
    BY DEF RegressionIsShown
  <2>1. /\ gate # None /\ runA \in Runs /\ runB \in Runs
        /\ diff = buildDiff(runA, runB) /\ ~Pass(Gate(runA, runB, gate))
    BY <1>1 DEF Stages, Evaluated
  <2>2. IsRun(runA) /\ IsRun(runB)
    BY <2>1, RunsAreRuns
  <2>3. PICK i \in DOMAIN runA.candidates, m \in DOMAIN gate.thresholds :
          Verdict(runA.candidates[i], runB, gate, m) # "ok"
    BY <2>1, PassMeans
  <2> DEFINE c == runA.candidates[i]
             t == gate.thresholds[m]
             to == MetricsOf(runB, c.name)[m]
  <2>4. i \in DOMAIN diff
    BY <2>1 DEF buildDiff
  <2>5. ASSUME Seen(c.metrics, runB, c.name, m)
        PROVE  t # NaN /\ Loss(m, 0, diff[i].delta[m]) > t
    <3>1. WorseBy(DirectionOf(gate, m), t, c.metrics[m], to)
      BY <2>3, <2>5, OkMeans
    <3>2. c.metrics[m] \in Int /\ to \in Int /\ diff[i].delta[m] = to - c.metrics[m]
      BY <2>1, <2>2, <2>5, RowShows
    <3>3. t = NaN \/ t \in Nat
      BY <1>1, <2>1, GateHasSlack
    <3> HIDE DEF c, t, to
    <3>4. t # NaN
      BY <3>1 DEF WorseBy
    <3> QED
      BY <3>1, <3>2, <3>3, <3>4 DEF WorseBy, Loss
  <2> QED
    BY <2>3, <2>4, <2>5 DEF RegressionIsShown
<1> QED
  BY <1>1, StagesHold, PTL

\* In a run without twins a candidate's name leads back to the candidate.
LEMMA NameLeadsBack ==
  ASSUME NEW r, IsRun(r), UniqueNames(r), NEW i \in DOMAIN r.candidates
  PROVE  /\ Named(r, r.candidates[i].name) # {}
         /\ MetricsOf(r, r.candidates[i].name) = r.candidates[i].metrics
<1> DEFINE n == r.candidates[i].name
<1>1. i \in Named(r, n)
  BY DEF Named
<1>2. Max(Named(r, n)) = i
  <2>1. /\ Max(Named(r, n)) \in DOMAIN r.candidates
        /\ r.candidates[Max(Named(r, n))].name = n
    BY <1>1, LastOfName
  <2> QED
    BY <2>1 DEF UniqueNames
<1> QED
  BY <1>1, <1>2 DEF MetricsOf

\* The diff of a run with itself is all zeros.
LEMMA SelfDiffIsZero ==
  ASSUME NEW r, IsRun(r), UniqueNames(r), NEW i \in DOMAIN r.candidates,
         NEW m \in DOMAIN buildDiff(r, r)[i].delta
  PROVE  buildDiff(r, r)[i].delta[m] = 0
<1> DEFINE c == r.candidates[i]
<1>1. Named(r, c.name) # {} /\ MetricsOf(r, c.name) = c.metrics
  BY NameLeadsBack
<1>2. buildDiff(r, r)[i] = Row(r, r, i)
  BY DEF buildDiff
<1>3. Row(r, r, i).delta = [x \in DOMAIN c.metrics |-> ValueIn(c.metrics, x) - ValueIn(c.metrics, x)]
  BY <1>1 DEF Row
<1>4. m \in DOMAIN c.metrics
  BY <1>2, <1>3
<1>5. ValueIn(c.metrics, m) \in Int
  BY <1>4 DEF IsRun, ValueIn
<1> HIDE DEF c
<1> QED
  BY <1>2, <1>3, <1>4, <1>5

\* A run compared with itself is no regression of itself, whatever the slack, and
\* its diff is all zeros.
THEOREM SelfCompareClean == Spec => []SelfCompareIsClean
<1>1. ASSUME Stages PROVE SelfCompareIsClean
  <2> SUFFICES ASSUME runA # None, runA = runB, UniqueNames(runA) PROVE SelfCompareIsClean
    BY DEF SelfCompareIsClean
  <2>1. ASSUME diff # None, NEW i \in DOMAIN diff, NEW m \in DOMAIN diff[i].delta
        PROVE  diff[i].delta[m] = 0
    <3>1. runA \in Runs /\ diff = buildDiff(runA, runA)
      BY <1>1, <2>1 DEF Stages
    <3>2. i \in DOMAIN runA.candidates
      BY <2>1, <3>1 DEF buildDiff
    <3> QED
      BY <2>1, <3>1, <3>2, RunsAreRuns, SelfDiffIsZero
  <2>2. ASSUME gate # None, HasAll(runA, DOMAIN gate.thresholds), exit = "regression"
        PROVE  FALSE
    <3>1. runA \in Runs /\ ~Pass(Gate(runA, runA, gate))
      BY <1>1, <2>2 DEF Stages, Evaluated
    <3>2. PICK i \in DOMAIN runA.candidates, m \in DOMAIN gate.thresholds :
            Verdict(runA.candidates[i], runA, gate, m) # "ok"
      BY <3>1, PassMeans
    <3> DEFINE c == runA.candidates[i]
               t == gate.thresholds[m]
    <3>3. m \in DOMAIN c.metrics
      BY <2>2 DEF HasAll
    <3>4. Named(runA, c.name) # {} /\ MetricsOf(runA, c.name) = c.metrics
      BY <3>1, RunsAreRuns, NameLeadsBack
    <3>5. c.metrics[m] \in Int
      BY <3>1, <3>3, RunsAreRuns DEF IsRun
    <3>6. t = NaN \/ t \in Nat
      BY <1>1, <2>2, GateHasSlack
    <3>7. WorseBy(DirectionOf(gate, m), t, c.metrics[m], c.metrics[m])
      <4>1. Seen(c.metrics, runA, c.name, m)
        BY <3>3, <3>4 DEF Seen
      <4> QED
        BY <3>2, <3>4, <4>1, OkMeans
    <3> HIDE DEF c, t
    <3> QED
      BY <3>5, <3>6, <3>7 DEF WorseBy
  <2> QED
    BY <2>1, <2>2 DEF SelfCompareIsClean
<1> QED
  BY <1>1, StagesHold, PTL
=============================================================================
