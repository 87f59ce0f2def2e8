------------------------------ MODULE Compare ------------------------------
(***************************************************************************)
(* `ben compare <run-a> <run-b>`, cmd/ben/compare.go and its gate,         *)
(* internal/run/gate.go: load both runs, diff them candidate by candidate  *)
(* and, with --fail-on-regression, fail if run-b is worse than run-a by    *)
(* more than the allowed slack in any --threshold metric.                  *)
(*                                                                         *)
(* An outcome is named for the error that is returned: "no run" is         *)
(* BEN_NO_RUN, "regression" is BEN_REGRESSION.  The family codes 3 and 4   *)
(* travel in the error envelope; main turns every error into status 1.     *)
(***************************************************************************)
EXTENDS Integers, Sequences, FiniteSets, FiniteSetsExt

CONSTANTS
  Runs,       \* what `ben run` or the registry may have stored
  GateFlags,  \* values of the three flags
  NaN,        \* the threshold "NaN": Sscanf takes it for a number
  NoNumber,   \* a threshold that does not parse
  None

ASSUME CompareAssumption ==
  /\ NaN \notin Int /\ NoNumber \notin Int /\ None \notin {"ok", "regression"}
  /\ \A r \in Runs :
       /\ Len(r.candidates) \in Nat /\ DOMAIN r.candidates = 1..Len(r.candidates)
       /\ \A i \in DOMAIN r.candidates : \A m \in DOMAIN r.candidates[i].metrics :
            r.candidates[i].metrics[m] \in Int
  /\ \A f \in GateFlags : \A m \in DOMAIN f.thresholds :
       f.thresholds[m] \in Int \cup {NaN, NoNumber}

VARIABLES
  flags,  \* never changes
  pc,     \* "flags", "load", "evaluate", "render" or "exit"
  gate,   \* the GateSpec, or None
  runA, runB,
  diff,   \* rows of buildDiff
  checks, \* verdict of every GateCheck
  exit    \* None, "ok" or the error returned

vars == <<flags, pc, gate, runA, runB, diff, checks, exit>>

-----------------------------------------------------------------------------
(* internal/run/gate.go *)

DefaultDirection(m) == IF m \in {"latency_ms", "cost_usd"} THEN "min" ELSE "max"

DirectionOfDefault(spec, m) == DefaultDirection(m)  \* mutated: overrides are ignored
DirectionOf(spec, m) ==
  IF m \in DOMAIN spec.directions THEN spec.directions[m] ELSE DefaultDirection(m)

\* both maps by name keep the last candidate of that name
Named(run, n)  == {i \in DOMAIN run.candidates : run.candidates[i].name = n}
MetricsOf(run, n) == run.candidates[Max(Named(run, n))].metrics

\* A comparison with NaN is false.
WorseByAny(dir, slack, from, to) ==  \* mutated: movement in either direction
  slack # NaN /\ (to - from > slack \/ to - from < -slack)
WorseByTouching(dir, slack, from, to) ==  \* mutated: the slack itself is too much
  slack # NaN /\ (IF dir = "min" THEN to - from >= slack ELSE to - from <= -slack)
WorseBy(dir, slack, from, to) ==
  slack # NaN /\ (IF dir = "min" THEN to - from > slack ELSE to - from < -slack)

Seen(metrics, b, n, m) ==
  Named(b, n) # {} /\ m \in DOMAIN metrics /\ m \in DOMAIN MetricsOf(b, n)

VerdictUnseenOpen == "ok"  \* mutated: what is not there is not looked at
VerdictUnseen     == "unseen"

\* of candidate c of the baseline in metric m
Verdict(c, b, spec, m) ==
  IF ~Seen(c.metrics, b, c.name, m) THEN VerdictUnseen
  ELSE IF WorseBy(DirectionOf(spec, m), spec.thresholds[m], c.metrics[m], MetricsOf(b, c.name)[m])
  THEN "regressed" ELSE "ok"

Gate(a, b, spec) ==
  [c \in (DOMAIN a.candidates) \X (DOMAIN spec.thresholds) |->
     Verdict(a.candidates[c[1]], b, spec, c[2])]

Pass(result) == \A c \in DOMAIN result : result[c] = "ok"

-----------------------------------------------------------------------------
(* cmd/ben/compare.go *)

ThresholdOkAny(raw) == raw # NoNumber  \* mutated: a negative slack is taken
ThresholdOk(raw) == raw # NoNumber /\ (raw = NaN \/ raw >= 0)

GateSpecOk(f) ==
  /\ DOMAIN f.thresholds # {}
  /\ \A m \in DOMAIN f.thresholds : ThresholdOk(f.thresholds[m])
  /\ \A m \in DOMAIN f.directions : f.directions[m] \in {"min", "max"}

FlagsOk(f) ==
  IF f.failOnRegression THEN GateSpecOk(f)
  ELSE DOMAIN f.thresholds = {} /\ DOMAIN f.directions = {}

\* a metric that one side lacks reads 0
ValueIn(metrics, m) == IF m \in DOMAIN metrics THEN metrics[m] ELSE 0

Row(a, b, i) ==
  LET ca == a.candidates[i]
      mb == IF Named(b, ca.name) = {} THEN <<>> ELSE MetricsOf(b, ca.name)
  IN  [candidate |-> ca.name,
       delta |-> [m \in DOMAIN ca.metrics \cup DOMAIN mb |-> ValueIn(mb, m) - ValueIn(ca.metrics, m)]]

buildDiff(a, b) == [i \in DOMAIN a.candidates |-> Row(a, b, i)]

Init ==
  /\ flags \in GateFlags
  /\ pc = "flags"
  /\ gate = None /\ runA = None /\ runB = None /\ diff = None /\ checks = None
  /\ exit = None

Exit(code) == pc' = "exit" /\ exit' = code
GoTo(stage) == pc' = stage /\ UNCHANGED exit

ParseFlags ==
  /\ pc = "flags"
  /\ IF FlagsOk(flags) THEN GoTo("load") ELSE Exit("usage")
  /\ gate' = IF FlagsOk(flags) /\ flags.failOnRegression
             THEN [thresholds |-> flags.thresholds, directions |-> flags.directions]
             ELSE None
  /\ UNCHANGED <<flags, runA, runB, diff, checks>>

\* Open and both Gets, one of which may not find its run; or the store fails.
LoadRuns ==
  /\ pc = "load"
  /\ \/ GoTo("evaluate") /\ runA' \in Runs /\ runB' \in Runs
     \/ \E code \in {"failed", "no run"} : Exit(code) /\ UNCHANGED <<runA, runB>>
  /\ UNCHANGED <<flags, gate, diff, checks>>

Evaluate ==
  /\ pc = "evaluate"
  /\ diff' = buildDiff(runA, runB)
  /\ checks' = IF gate = None THEN None ELSE Gate(runA, runB, gate)
  /\ GoTo("render")
  /\ UNCHANGED <<flags, gate, runA, runB>>

ExitCode == IF gate # None /\ ~Pass(checks) THEN "regression" ELSE "ok"

\* The verdict becomes the outcome only once the diff was written.
Render ==
  /\ pc = "render"
  /\ \E code \in {ExitCode, "failed"} : Exit(code)
  /\ UNCHANGED <<flags, gate, runA, runB, diff, checks>>

Next == ParseFlags \/ LoadRuns \/ Evaluate \/ Render

Spec == Init /\ [][Next]_vars

-----------------------------------------------------------------------------
\* Type invariant: a gate has a threshold, and no negative one.
TypeOK ==
  /\ pc \in {"flags", "load", "evaluate", "render", "exit"}
  /\ exit \in {None, "ok", "usage", "failed", "no run", "regression"}
  /\ gate # None =>
       /\ gate.thresholds # <<>>
       /\ \A m \in DOMAIN gate.thresholds : gate.thresholds[m] \in Nat \cup {NaN}
  /\ runA \in Runs \cup {None} /\ runB \in Runs \cup {None}
  /\ diff # None => Len(diff) = Len(runA.candidates)
  /\ checks # None => gate # None

Baseline == {runA.candidates[i] : i \in DOMAIN runA.candidates}

\* how far a gated metric went the wrong way
Loss(m, from, to) == IF DirectionOf(gate, m) = "min" THEN to - from ELSE from - to

\* "a gate that cannot see a metric must not pass it" (compare.go:64, gate.go:54):
\* with a gate, exit 0 means that every gated metric of every baseline candidate
\* is there on both sides and lost no more than its slack, each metric in the
\* direction the flags or the default give it.
FailsClosed ==
  (exit = "ok" /\ gate # None) =>
    \A c \in Baseline, m \in DOMAIN gate.thresholds :
      /\ m \in DOMAIN c.metrics
      /\ \E i \in DOMAIN runB.candidates :
           LET d == runB.candidates[i]
           IN  /\ d.name = c.name /\ m \in DOMAIN d.metrics
               /\ gate.thresholds[m] = NaN \/
                  (IF m \in DOMAIN flags.directions
                   THEN IF flags.directions[m] = "min"
                        THEN d.metrics[m] - c.metrics[m] <= gate.thresholds[m]
                        ELSE c.metrics[m] - d.metrics[m] <= gate.thresholds[m]
                   ELSE IF m \in {"latency_ms", "cost_usd"}
                        THEN d.metrics[m] - c.metrics[m] <= gate.thresholds[m]
                        ELSE c.metrics[m] - d.metrics[m] <= gate.thresholds[m])

\* No false alarm: a command that ends with BEN_REGRESSION printed a diff that
\* shows why.  Either a gated metric or a candidate is missing on a side, or a
\* delta in the diff, which is computed apart from the gate, goes the wrong way by
\* more than the slack.
RegressionIsShown ==
  exit = "regression" =>
    \E i \in DOMAIN diff, m \in DOMAIN gate.thresholds :
      LET c == runA.candidates[i]
      IN  \/ ~Seen(c.metrics, runB, c.name, m)
          \/ /\ gate.thresholds[m] # NaN
             /\ Loss(m, 0, diff[i].delta[m]) > gate.thresholds[m]

UniqueNames(run) == \A i, j \in DOMAIN run.candidates :
                      run.candidates[i].name = run.candidates[j].name => i = j

\* does every candidate of the run have every gated metric
HasAll(run, metrics) == \A i \in DOMAIN run.candidates : metrics \subseteq DOMAIN run.candidates[i].metrics

\* A run compared with itself is no regression of itself, whatever the slack, and
\* its diff is all zeros (docs/stories/US-BEN-0105:65).
SelfCompareIsClean ==
  (runA # None /\ runA = runB /\ UniqueNames(runA)) =>
    /\ diff # None => \A i \in DOMAIN diff : \A m \in DOMAIN diff[i].delta : diff[i].delta[m] = 0
    /\ (gate # None /\ HasAll(runA, DOMAIN gate.thresholds)) => exit # "regression"

Evaluated == pc = "render" \/ exit \in {"ok", "regression"}

\* the gate with every slack doubled
Doubled(g) == [g EXCEPT !.thresholds = [m \in DOMAIN @ |-> IF @[m] = NaN THEN NaN ELSE 2 * @[m]]]

\* A chain of gated releases cannot hide a regression: if B passed against A and C
\* against B, each within the slack, then C is within twice the slack of A.
GateComposes ==
  (gate # None /\ Evaluated /\ Pass(checks)) =>
    \A runC \in Runs :
      Pass(Gate(runB, runC, gate)) => Pass(Gate(runA, runC, Doubled(gate)))

\* compare.go:63-65 says that a candidate missing on either side fails the gate.
MissingOnEitherSideFails ==
  (exit = "ok" /\ gate # None) =>
    {runA.candidates[i].name : i \in DOMAIN runA.candidates}
      = {runB.candidates[i].name : i \in DOMAIN runB.candidates}
=============================================================================
