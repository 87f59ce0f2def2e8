--------------------------- MODULE PipelineProofs ---------------------------
(* Theorems about `ben run`, for any suites, repeats, plugins and worlds. *)
EXTENDS Pipeline, ScoringFacts

-----------------------------------------------------------------------------
(* The inductive invariant. *)

Shape ==
  /\ inv \in Invocations /\ plugins \in PluginConfigs
  /\ cancelled \in BOOLEAN
  /\ spec \in {None, Loaded(inv)}
  /\ IsSequence(results) /\ IsSequence(trials) /\ IsSequence(log)
  /\ \A i \in DOMAIN log : IsSequence(log[i])

Proceeding == Loaded(inv) # None /\ spec = Loaded(inv) /\ ~Contradictory(inv)

Built == pc \in {"score", "persist", "report"} \/ record # NoRecord

\* What has been done at each stage.
Stages ==
  /\ pc \in {"preview", "load"} => spec = None
  /\ pc \in {"preview", "load", "plugins", "parse"} => results = <<>> /\ log = <<>>
  /\ pc \notin {"preview", "load", "exit"} => Proceeding
  /\ pc \in {"candidate", "score", "persist", "report"} => Len(log) = Len(results)
  /\ pc = "trial" => /\ Len(log) = Len(results) + 1
                     /\ Len(results) < Len(spec.candidates)
                     /\ Len(log[Len(results) + 1]) = Len(trials)
  /\ Built => /\ Proceeding
              /\ Len(results) = Len(spec.candidates) /\ Len(log) = Len(results)
  /\ record # NoRecord => pc \in {"persist", "report", "exit"}
  /\ stored # NoRecord => pc \in {"report", "exit"} /\ stored = record
  /\ Len(results) <= Len(log)

\* What log and results say of the candidates.
Executed ==
  /\ \A i \in DOMAIN results : results[i].name = spec.candidates[i].name /\ Len(log[i]) = inv.repeat
  /\ \A i \in DOMAIN log : \A t \in DOMAIN log[i] :
       /\ log[i][t].kind = Kind(spec.candidates[i].adapter)
       /\ log[i][t].end = Interrupted => cancelled

PlanIsMade ==
  (inv.preview /\ pc # "preview") =>
    plan = IF Loaded(inv) = None \/ Contradictory(inv) THEN None ELSE Effects(Loaded(inv))

IInv == Shape /\ TypeOK /\ Stages /\ Executed /\ PlanIsMade /\ NothingCancelledIsStored

\* What a suite that loads has.
LEMMA SuiteShape ==
  ASSUME NEW i \in Invocations, Loaded(i) # None
  PROVE  /\ IsSequence(Loaded(i).candidates)
         /\ Len(Loaded(i).candidates) \in Nat
         /\ DOMAIN Loaded(i).candidates = 1..Len(Loaded(i).candidates)
         /\ Len(Loaded(i).candidates) > 0
         /\ Effects(Loaded(i)) # None
<1> DEFINE cs == Loaded(i).candidates
<1>1. cs \in Seq({cs[k] : k \in DOMAIN cs}) /\ Effects(Loaded(i)) # None
  BY SuiteAssumption
<1>2. IsSequence(cs)
  BY <1>1 DEF IsSequence
<1>3. cs # <<>>
  BY DEF Loaded, Valid, ToSpec
<1>4. Len(cs) # 0
  BY <1>1, <1>3, EmptySeq
<1> QED
  BY <1>1, <1>2, <1>4, SequenceShape

-----------------------------------------------------------------------------
LEMMA Initially == Init => IInv
<1> SUFFICES ASSUME Init PROVE IInv
  OBVIOUS
<1> USE DEF Init
<1>1. Shape
  BY EmptyIsSequence DEF Shape
<1>2. TypeOK
  <2>1. inv.repeat \in Nat
    BY PipelineAssumption, MeansAreExact
  <2> QED
    BY <2>1, EmptyIsSequence, PipelineAssumption DEF TypeOK
<1>3. Stages /\ Executed /\ PlanIsMade /\ NothingCancelledIsStored
  BY EmptyIsSequence DEF Stages, Executed, PlanIsMade, NothingCancelledIsStored, Built
<1> QED
  BY <1>1, <1>2, <1>3 DEF IInv

\* Steps that execute nothing leave what was executed as it is.
LEMMA Preparing ==
  ASSUME IInv, DryRun \/ LoadSpec \/ LoadMetricPlugins \/ ParseScorer
  PROVE  IInv'
<1> USE DEF IInv, Measured, Output, GoTo, Exit
<1>1. pc \in {"preview", "load", "plugins", "parse"} /\ results = <<>> /\ log = <<>> /\ record = NoRecord /\ stored = NoRecord
  BY DEF DryRun, LoadSpec, LoadMetricPlugins, ParseScorer, Stages
<1>2. UNCHANGED <<inv, plugins, results, trials, err, log, cancelled, record, stored>>
  BY DEF DryRun, LoadSpec, LoadMetricPlugins, ParseScorer
<1>3. spec' \in {None, Loaded(inv)}
  BY DEF DryRun, LoadSpec, LoadMetricPlugins, ParseScorer, Shape
<1>4. Shape'
  BY <1>2, <1>3 DEF Shape
<1>5. registered' \subseteq MetricNames /\ Builtins \subseteq registered'
  <2>1. CASE LoadMetricPlugins
    <3>1. PICK i : registered' = Builtins \cup JudgesBefore(plugins, i)
      BY <2>1 DEF LoadMetricPlugins
    <3> QED
      BY <3>1, PipelineAssumption DEF JudgesBefore, Shape
  <2> QED
    BY <2>1 DEF DryRun, LoadSpec, ParseScorer, TypeOK
<1>6. /\ pc' \in {"load", "plugins", "parse", "candidate", "exit"}
      /\ exit' \in {None, "ok", "error", "panic"} /\ (pc' = "exit") = (exit' # None)
  BY PipelineAssumption DEF DryRun, LoadSpec, LoadMetricPlugins, ParseScorer, TypeOK
<1>7. spec' # None => Len(results') <= Len(spec'.candidates)
  BY <1>1, <1>2, <1>3, EmptyIsSequence, SuiteShape DEF Shape
<1>8. TypeOK'
  BY <1>1, <1>2, <1>5, <1>6, <1>7 DEF TypeOK
<1>9. Stages'
  <2>1. pc' \notin {"load", "exit"} => Proceeding'
    BY <1>1, <1>2 DEF DryRun, LoadSpec, LoadMetricPlugins, ParseScorer, Stages, Proceeding
  <2>2. pc' = "load" => spec' = None
    BY DEF DryRun, LoadSpec, LoadMetricPlugins, ParseScorer, Stages
  <2> QED
    BY <1>1, <1>2, <1>6, <2>1, <2>2 DEF Stages, Built
<1>10. Executed'
  BY <1>1, <1>2, EmptyIsSequence DEF Executed
<1>11. PlanIsMade'
  BY <1>2 DEF DryRun, LoadSpec, LoadMetricPlugins, ParseScorer, PlanIsMade, Stages
<1>12. NothingCancelledIsStored'
  BY <1>1, <1>2 DEF NothingCancelledIsStored
<1> QED
  BY <1>4, <1>8, <1>9, <1>10, <1>11, <1>12

LEMMA Cancelling ==
  ASSUME IInv, Cancel
  PROVE  IInv'
<1> USE DEF IInv, Cancel, Output
<1>1. Shape' /\ TypeOK' /\ PlanIsMade'
  BY DEF Shape, TypeOK, PlanIsMade
<1>2. Stages'
  BY DEF Stages, Built, Proceeding
<1>3. Executed' /\ NothingCancelledIsStored'
  BY DEF Executed, NothingCancelledIsStored
<1> QED
  BY <1>1, <1>2, <1>3

LEMMA Concluding ==
  ASSUME IInv, CheckMetrics \/ ScoreAndBuild \/ Persist \/ Report
  PROVE  IInv'
<1> USE DEF IInv, Measured, Output, GoTo, Exit
<1>1. UNCHANGED <<inv, plugins, plan, registered, spec, results, trials, err, log, cancelled>>
  BY DEF CheckMetrics, ScoreAndBuild, Persist, Report
<1>2. Shape' /\ Executed'
  BY <1>1 DEF Shape, Executed
<1>3. PlanIsMade'
  BY <1>1 DEF CheckMetrics, ScoreAndBuild, Persist, Report, PlanIsMade
<1>4. Stages'
  <2>1. CASE CheckMetrics
    BY <1>1, <2>1 DEF CheckMetrics, Stages, Built, Proceeding
  <2>2. CASE ScoreAndBuild
    BY <1>1, <2>2 DEF ScoreAndBuild, Stages, Built, Proceeding
  <2>3. CASE Persist
    BY <1>1, <2>3 DEF Persist, Stages, Built, Proceeding
  <2>4. CASE Report
    BY <1>1, <2>4 DEF Report, Stages, Built, Proceeding
  <2> QED
    BY <2>1, <2>2, <2>3, <2>4
<1>5. TypeOK'
  <2>1. /\ pc' \in {"score", "persist", "report", "exit"}
        /\ exit' \in {None, "ok", "error", "panic"} /\ (pc' = "exit") = (exit' # None)
    BY PipelineAssumption DEF CheckMetrics, ScoreAndBuild, Persist, Report, TypeOK
  <2>2. stored' \in {NoRecord, record'}
    BY DEF CheckMetrics, ScoreAndBuild, Persist, Report, TypeOK, Stages
  <2> QED
    BY <1>1, <2>1, <2>2 DEF TypeOK
<1>6. NothingCancelledIsStored'
  <2>1. CASE Persist
    <3>1. stored' # NoRecord => ~cancelled
      BY <2>1 DEF Persist, SaveRefused, Stages
    <3> QED
      BY <1>1, <3>1 DEF NothingCancelledIsStored, Executed
  <2>2. CASE CheckMetrics \/ ScoreAndBuild \/ Report
    <3>1. UNCHANGED stored
      BY <2>2 DEF CheckMetrics, ScoreAndBuild, Report
    <3> QED
      BY <1>1, <3>1 DEF NothingCancelledIsStored
  <2> QED
    BY <2>1, <2>2
<1> QED
  BY <1>2, <1>3, <1>4, <1>5, <1>6

LEMMA Beginning ==
  ASSUME IInv, NextCandidate
  PROVE  IInv'
<1> USE DEF IInv, NextCandidate, Output, GoTo, Exit, UnknownAdapter
<1>1. /\ IsSequence(log') /\ Len(log') = Len(log) + 1 /\ DOMAIN log' = 1..(Len(log) + 1)
      /\ \A i \in DOMAIN log : log'[i] = log[i]
      /\ log'[Len(log) + 1] = <<>>
  BY Appended DEF Shape
<1>2. Len(log) = Len(results) /\ Len(log) \in Nat /\ DOMAIN log = 1..Len(log) /\ DOMAIN results = 1..Len(results)
  BY SequenceShape DEF Shape, Stages
<1>3. Shape'
  <2>1. \A i \in DOMAIN log' : IsSequence(log'[i])
    BY <1>1, <1>2, EmptyIsSequence DEF Shape
  <2> QED
    BY <1>1, <2>1, EmptyIsSequence DEF Shape
<1>4. inv.repeat \in Nat
  BY PipelineAssumption, MeansAreExact DEF Shape
<1>5. /\ pc' \in {"trial", "exit"}
      /\ exit' \in {None, "ok", "error", "panic"} /\ (pc' = "exit") = (exit' # None)
  BY PipelineAssumption DEF TypeOK
<1>6. TypeOK'
  BY <1>4, <1>5, EmptyIsSequence DEF TypeOK
<1>7. Stages'
  <2>1. pc' = "trial" => /\ Len(log') = Len(results) + 1 /\ Len(results) < Len(spec.candidates)
                         /\ log'[Len(results) + 1] = <<>> /\ Len(trials') = 0
    BY <1>1, <1>2, EmptyIsSequence
  <2>2. record = NoRecord /\ stored = NoRecord /\ Proceeding
    BY DEF Stages
  <2>3. Len(results) <= Len(log')
    BY <1>1, <1>2
  <2> QED
    BY <1>5, <2>1, <2>2, <2>3, EmptyIsSequence DEF Stages, Built, Proceeding
<1>8. Executed'
  <2>1. \A i \in DOMAIN results : results[i].name = spec.candidates[i].name /\ Len(log'[i]) = inv.repeat
    BY <1>1, <1>2 DEF Executed
  <2>2. ASSUME NEW i \in DOMAIN log', NEW t \in DOMAIN log'[i]
        PROVE  /\ log'[i][t].kind = Kind(spec.candidates[i].adapter)
               /\ log'[i][t].end = Interrupted => cancelled
    <3>1. i \in DOMAIN log /\ log'[i] = log[i]
      BY <1>1, <1>2, <2>2, EmptyIsSequence
    <3> QED
      BY <3>1, <2>2 DEF Executed
  <2> QED
    BY <2>1, <2>2 DEF Executed
<1>9. PlanIsMade' /\ NothingCancelledIsStored'
  BY <1>5 DEF PlanIsMade, NothingCancelledIsStored, Stages
<1> QED
  BY <1>3, <1>6, <1>7, <1>8, <1>9

\* A call is interrupted only by the end of the context.
LEMMA InterruptedIsCancelled ==
  ASSUME NEW kind, NEW before \in BOOLEAN, NEW after \in BOOLEAN,
         NEW end \in EndsOf(kind, before, after), end = Interrupted
  PROVE  before \/ after
<1>1. ASSUME NEW e \in Ends(before, after), e = Interrupted PROVE before \/ after
  BY <1>1 DEF Ends, Interrupted, Completed, Unstarted
<1>2. CASE kind = "llm"
  BY <1>1, <1>2 DEF EndsOf, Answers, Interrupted, Unstarted
<1>3. CASE kind = "eva"
  BY <1>1, <1>3 DEF EndsOf, EvaEnds, LastAttempt, Interrupted, Rejected
<1>4. CASE kind \notin {"llm", "eva"}
  BY <1>1, <1>4 DEF EndsOf
<1> QED
  BY <1>2, <1>3, <1>4

\* One execution: an entry in the log for a trial.
Entry(end, output, trial) ==
  [kind |-> Kind(Current.adapter), end |-> end, output |-> output, cut |-> cancelled', trial |-> trial]

Extended(end, output, trial, failed) ==
  /\ trials' = Append(trials, trial)
  /\ err' = FirstError(failed)
  /\ log' = [log EXCEPT ![Len(results) + 1] = Append(@, Entry(end, output, trial))]

LEMMA OneExecution ==
  ASSUME ExecuteTrial
  PROVE  \E end \in EndsOf(Kind(Current.adapter), cancelled, cancelled') :
           \E output \in Outputs(Kind(Current.adapter), end) :
             LET result == Run(Current, end, output, cancelled')
             IN  \E measured \in Samples(result) :
                   Extended(end, output, TrialOf(result, measured), result.err # None)
<1> DEFINE result(end, output) == Run(Current, end, output, cancelled')
           Done(end, output) ==
             /\ err' = FirstError(result(end, output).err # None)
             /\ \E measured \in Samples(result(end, output)) :
                  LET trial == TrialOf(result(end, output), measured)
                  IN  /\ trials' = Append(trials, trial)
                      /\ log' = [log EXCEPT ![Len(results) + 1] = Append(@, Entry(end, output, trial))]
<1>1. PICK end \in EndsOf(Kind(Current.adapter), cancelled, cancelled') :
        \E output \in Outputs(Kind(Current.adapter), end) : Done(end, output)
  BY DEF ExecuteTrial, Entry
<1>2. PICK output \in Outputs(Kind(Current.adapter), end) : Done(end, output)
  BY <1>1
<1>3. PICK measured \in Samples(result(end, output)) :
        /\ trials' = Append(trials, TrialOf(result(end, output), measured))
        /\ log' = [log EXCEPT ![Len(results) + 1] =
                      Append(@, Entry(end, output, TrialOf(result(end, output), measured)))]
  BY <1>2
<1>4. Extended(end, output, TrialOf(result(end, output), measured), result(end, output).err # None)
  BY <1>2, <1>3 DEF Extended
<1> QED
  BY <1>4

LEMMA Executing ==
  ASSUME IInv, ExecuteTrial
  PROVE  IInv'
<1> DEFINE now == Len(results) + 1
<1>0. PICK end \in EndsOf(Kind(Current.adapter), cancelled, cancelled') :
        \E output, trial, failed : Extended(end, output, trial, failed)
  BY OneExecution
<1>1. PICK output, trial, failed : Extended(end, output, trial, failed)
  BY <1>0
<1>2. /\ pc = "trial" /\ MoreTrials /\ cancelled' \in {cancelled, TRUE}
      /\ UNCHANGED <<inv, plugins, plan, pc, exit, registered, spec, results, trialsByName, record, stored>>
  BY DEF ExecuteTrial, Output
<1> DEFINE entry == Entry(end, output, trial)
<1>3. /\ Len(log) = now /\ now \in Nat /\ DOMAIN log = 1..now /\ DOMAIN results = 1..Len(results)
      /\ now \in DOMAIN log /\ IsSequence(log[now]) /\ Len(log[now]) = Len(trials)
  BY <1>2, SequenceShape DEF IInv, Shape, Stages
<1>4. DOMAIN log' = DOMAIN log /\ log'[now] = Append(log[now], entry) /\ \A i \in DOMAIN log : i # now => log'[i] = log[i]
  BY <1>1, <1>3 DEF Extended
<1> HIDE DEF entry
<1>5. IsSequence(log') /\ Len(log') = Len(log)
  <2> DEFINE S == {log'[i] : i \in DOMAIN log'}
  <2>1. log' \in [1..now -> S]
    BY <1>3, <1>4, <1>1 DEF Extended
  <2>2. log' \in Seq(S)
    BY <2>1, <1>3, SeqDef
  <2> QED
    BY <2>2, <1>3, <1>4, SequencesOf, SequenceShape
<1>6. /\ IsSequence(log'[now]) /\ Len(log'[now]) = Len(log[now]) + 1
      /\ DOMAIN log'[now] = 1..(Len(log[now]) + 1)
      /\ \A t \in DOMAIN log[now] : log'[now][t] = log[now][t]
      /\ log'[now][Len(log[now]) + 1] = entry
  BY <1>3, <1>4, Appended
<1>7. IsSequence(trials') /\ Len(trials') = Len(trials) + 1 /\ Len(trials) \in Nat
  BY <1>1, Appended, SequenceShape DEF IInv, Shape, Extended
<1>8. Shape'
  <2>1. \A i \in DOMAIN log' : IsSequence(log'[i])
    BY <1>4, <1>6 DEF IInv, Shape
  <2> QED
    BY <1>2, <1>5, <1>7, <2>1 DEF IInv, Shape
<1>9. TypeOK'
  <2>1. inv.repeat \in Nat
    BY PipelineAssumption, MeansAreExact DEF IInv, Shape
  <2>2. Len(trials') <= inv.repeat
    BY <2>1, <1>2, <1>7 DEF MoreTrials
  <2>3. err' \in 0..Len(trials')
    BY <1>1, <1>7 DEF FirstError, IInv, TypeOK, Extended
  <2> QED
    BY <1>2, <2>2, <2>3 DEF IInv, TypeOK
<1>10. Stages'
  BY <1>2, <1>3, <1>5, <1>6, <1>7 DEF IInv, Stages, Built, Proceeding
<1>11. Executed'
  <2>1. \A i \in DOMAIN results : results[i].name = spec.candidates[i].name /\ Len(log'[i]) = inv.repeat
    BY <1>3, <1>4 DEF IInv, Executed
  <2>2. end = Interrupted => cancelled'
    <3>1. CASE cancelled'
      BY <3>1
    <3>2. CASE ~cancelled'
      <4>1. cancelled \in BOOLEAN /\ cancelled' = cancelled
        BY <1>2, <3>2 DEF IInv, Shape
      <4> QED
        BY <1>0, <3>2, <4>1, InterruptedIsCancelled
    <3> QED
      BY <3>1, <3>2
  <2>3. entry.kind = Kind(spec.candidates[now].adapter) /\ entry.end = end
    BY DEF entry, Entry, Current
  <2>4. ASSUME NEW i \in DOMAIN log', NEW t \in DOMAIN log'[i]
        PROVE  /\ log'[i][t].kind = Kind(spec.candidates[i].adapter)
               /\ log'[i][t].end = Interrupted => cancelled'
    <3>0. cancelled => cancelled'
      BY <1>2 DEF IInv, Shape
    <3>1. CASE i # now
      <4>1. i \in DOMAIN log /\ log'[i] = log[i]
        BY <3>1, <2>4, <1>4
      <4> QED
        BY <4>1, <2>4, <3>0 DEF IInv, Executed
    <3>2. CASE i = now /\ t \in DOMAIN log[now]
      <4>1. log'[i][t] = log[i][t] /\ i \in DOMAIN log
        BY <3>2, <1>3, <1>6
      <4> QED
        BY <4>1, <3>0, <3>2 DEF IInv, Executed
    <3>3. CASE i = now /\ t \notin DOMAIN log[now]
      <4>1. t = Len(log[now]) + 1
        BY <3>3, <2>4, <1>3, <1>6, SequenceShape
      <4> QED
        BY <3>3, <4>1, <1>6, <2>2, <2>3
    <3> QED
      BY <3>1, <3>2, <3>3
  <2> QED
    BY <1>2, <2>1, <2>4 DEF Executed
<1>12. PlanIsMade' /\ NothingCancelledIsStored'
  BY <1>2 DEF IInv, PlanIsMade, NothingCancelledIsStored, Stages
<1> QED
  BY <1>8, <1>9, <1>10, <1>11, <1>12 DEF IInv

LEMMA Finishing ==
  ASSUME IInv, FinishCandidate
  PROVE  IInv'
<1> USE DEF IInv, FinishCandidate, Output, GoTo
<1> DEFINE now == Len(results) + 1
<1>1. /\ IsSequence(results') /\ Len(results') = now /\ DOMAIN results' = 1..now
      /\ \A i \in DOMAIN results : results'[i] = results[i]
      /\ results'[now].name = spec.candidates[now].name
  BY Appended DEF Shape, Current
<1>2. /\ Len(log) = now /\ Len(results) \in Nat /\ DOMAIN results = 1..Len(results)
      /\ now <= Len(spec.candidates) /\ Len(log[now]) = Len(trials)
  <2>1. Len(spec.candidates) \in Nat
    BY SuiteShape DEF Shape, Stages, Proceeding
  <2> QED
    BY <2>1, SequenceShape DEF Shape, Stages
<1>3. Len(log[now]) = inv.repeat
  <2>1. inv.repeat \in Nat
    BY PipelineAssumption, MeansAreExact DEF Shape
  <2>2. Len(trials) \in Nat
    BY SequenceShape DEF Shape
  <2> QED
    BY <1>2, <2>1, <2>2 DEF MoreTrials, TypeOK
<1>4. Shape' /\ TypeOK'
  BY <1>1, <1>2, PipelineAssumption DEF Shape, TypeOK
<1>5. Stages'
  <2>1. record = NoRecord /\ stored = NoRecord /\ Proceeding
    BY DEF Stages
  <2> QED
    BY <1>1, <1>2, <2>1 DEF Stages, Built, Proceeding
<1>6. Executed'
  <2>1. \A i \in DOMAIN results' : results'[i].name = spec.candidates[i].name /\ Len(log[i]) = inv.repeat
    BY <1>1, <1>2, <1>3 DEF Executed
  <2> QED
    BY <2>1 DEF Executed
<1>7. PlanIsMade' /\ NothingCancelledIsStored'
  BY DEF PlanIsMade, NothingCancelledIsStored, Stages
<1> QED
  BY <1>4, <1>5, <1>6, <1>7

LEMMA Stepping == IInv /\ [Next]_vars => IInv'
<1> SUFFICES ASSUME IInv, [Next]_vars PROVE IInv'
  OBVIOUS
<1>1. CASE DryRun \/ LoadSpec \/ LoadMetricPlugins \/ ParseScorer
  BY <1>1, Preparing
<1>2. CASE NextCandidate
  BY <1>2, Beginning
<1>3. CASE ExecuteTrial
  BY <1>3, Executing
<1>4. CASE FinishCandidate
  BY <1>4, Finishing
<1>5. CASE CheckMetrics \/ ScoreAndBuild \/ Persist \/ Report
  BY <1>5, Concluding
<1>6. CASE Cancel
  BY <1>6, Cancelling
<1>7. CASE UNCHANGED vars
  BY <1>7 DEF vars, IInv, Shape, TypeOK, Stages, Built, Proceeding, Executed, PlanIsMade,
              NothingCancelledIsStored
<1> QED
  BY <1>1, <1>2, <1>3, <1>4, <1>5, <1>6, <1>7 DEF Next

LEMMA InvariantHolds == Spec => []IInv
BY Initially, Stepping, PTL DEF Spec

-----------------------------------------------------------------------------
(* What the data of a run are, beyond the control above. *)

TrialsOf(i) == [t \in DOMAIN log[i] |-> log[i][t].trial]

FirstFailure(i) == IF Failures(i) = {} THEN 0 ELSE Min(Failures(i))

\* e is an execution of c that the world and the adapter allow.
Explained(c, e) ==
  /\ e.kind = Kind(c.adapter) /\ e.cut \in BOOLEAN
  /\ \E before \in BOOLEAN : e.end \in EndsOf(e.kind, before, e.cut)
  /\ e.output \in Outputs(e.kind, e.end)
  /\ \E measured \in Samples(Run(c, e.end, e.output, e.cut)) :
       e.trial = TrialOf(Run(c, e.end, e.output, e.cut), measured)

Observed == \A i \in DOMAIN log : \A t \in DOMAIN log[i] : Explained(spec.candidates[i], log[i][t])

\* Means and first errors are those of the log.
Summarised ==
  /\ \A i \in DOMAIN results : results[i].metrics = MeanMetrics(TrialsOf(i)) /\ results[i].err = FirstFailure(i)
  /\ pc = "trial" => trials = TrialsOf(Len(log)) /\ err = FirstFailure(Len(log))

\* The map of trials has those of the last candidate of a name.
Named ==
  /\ DOMAIN trialsByName = {results[i].name : i \in DOMAIN results}
  /\ \A i \in DOMAIN results :
       (\A j \in DOMAIN results : results[j].name = results[i].name => j <= i)
         => trialsByName[results[i].name] = TrialsOf(i)

\* What each check has established when the run is past it.
Checked ==
  /\ Proceeding /\ pc # "exit" => inv.repeat >= 1
  /\ pc \notin {"preview", "load", "plugins", "parse", "exit"} => ParseSucceeds(spec.scorer)
  /\ Built => /\ inv.repeat >= 1 /\ ParseSucceeds(spec.scorer)
              /\ Unavailable = {} /\ ~ScoredMetricMissing
  /\ pc \in {"persist", "report"} \/ exit = "ok" => record # NoRecord
  /\ record # NoRecord => record = BuiltRun

Evidence == Observed /\ Summarised /\ Named /\ Checked

LEMMA EvidenceInitially == Init => Evidence
<1> SUFFICES ASSUME Init PROVE Evidence
  OBVIOUS
<1>1. /\ results = <<>> /\ log = <<>> /\ trialsByName = <<>> /\ record = NoRecord
      /\ pc \in {"preview", "load"} /\ exit = None /\ spec = None
  BY DEF Init
<1>2. Observed /\ Summarised /\ Named
  BY <1>1, EmptyIsSequence DEF Observed, Summarised, Named
<1>3. Checked
  <2>1. ~Proceeding
    BY <1>1 DEF Proceeding
  <2> QED
    BY <1>1, <2>1, PipelineAssumption DEF Checked, Built
<1> QED
  BY <1>2, <1>3 DEF Evidence

\* What a log that keeps its entries says of a candidate stays the same.
LEMMA SameEntries ==
  ASSUME UNCHANGED spec, NEW i, i \in DOMAIN log, i \in DOMAIN log', log'[i] = log[i]
  PROVE  TrialsOf(i)' = TrialsOf(i) /\ FirstFailure(i)' = FirstFailure(i)
<1>1. Executions(i)' = Executions(i)
  BY DEF Executions
<1>2. Failures(i)' = Failures(i)
  BY <1>1 DEF Failures
<1> QED
  BY <1>2 DEF TrialsOf, FirstFailure

\* and of the entry.
LEMMA SameExplanation ==
  ASSUME UNCHANGED <<spec, registered>>, NEW i, NEW t, log'[i][t] = log[i][t],
         Explained(spec.candidates[i], log[i][t])
  PROVE  Explained(spec.candidates[i], log[i][t])'
<1>1. ToCollect' = ToCollect
  BY DEF ToCollect
<1> DEFINE e == log[i][t]
           result == Run(spec.candidates[i], e.end, e.output, e.cut)
<1>2. PICK measured \in Samples(result) : e.trial = TrialOf(result, measured)
  BY DEF Explained
<1>3. result' = result /\ e' = e
  OBVIOUS
<1> HIDE DEF result
<1>4. measured \in Samples(result)'
  BY <1>1, <1>2, <1>3 DEF Samples
<1>5. TrialOf(result, measured)' = TrialOf(result, measured)
  BY <1>1, <1>3 DEF TrialOf
<1>6. \E any \in Samples(result)' : (e.trial = TrialOf(result, any))'
  BY <1>2, <1>3, <1>4, <1>5
<1> QED
  BY <1>6 DEF Explained, result

\* What was observed and named stays so in a step that measures and finishes nothing.
LEMMA ObservedStays ==
  ASSUME Evidence, UNCHANGED <<spec, registered, log>>
  PROVE  Observed'
BY SameExplanation DEF Evidence, Observed

LEMMA EvidenceStays ==
  ASSUME Evidence, UNCHANGED <<spec, registered, results, trialsByName, log>>
  PROVE  Observed' /\ Named'
BY ObservedStays DEF Evidence, Named, TrialsOf

LEMMA EvidencePreparing ==
  ASSUME IInv, Evidence, DryRun \/ LoadSpec \/ LoadMetricPlugins \/ ParseScorer
  PROVE  Evidence'
<1>1. /\ pc \in {"preview", "load", "plugins", "parse"} /\ exit = None
      /\ results = <<>> /\ log = <<>> /\ record = NoRecord
  BY DEF DryRun, LoadSpec, LoadMetricPlugins, ParseScorer, IInv, Stages, TypeOK
<1>2. UNCHANGED <<inv, results, trialsByName, log, record>>
  BY DEF DryRun, LoadSpec, LoadMetricPlugins, ParseScorer, Measured, Output
<1>3. /\ pc' \in {"load", "plugins", "parse", "candidate", "exit"} /\ exit' # "ok"
  BY <1>1, PipelineAssumption DEF DryRun, LoadSpec, LoadMetricPlugins, ParseScorer, GoTo, Exit
<1>4. Observed' /\ Summarised'
  BY <1>1, <1>2, <1>3, EmptyIsSequence DEF Observed, Summarised
<1>5. Named'
  BY <1>1, <1>2, EmptyIsSequence DEF Evidence, Named
<1>6. Proceeding' /\ pc' # "exit" => inv.repeat >= 1
  <2>1. inv.repeat \in Nat
    BY PipelineAssumption, MeansAreExact DEF IInv, Shape
  <2>2. CASE LoadSpec
    BY <2>1, <2>2 DEF LoadSpec, GoTo, Exit
  <2>3. CASE DryRun
    <3>1. spec' = None
      BY <1>1, <2>3 DEF DryRun, IInv, Stages
    <3> QED
      BY <1>2, <3>1 DEF Proceeding
  <2>4. CASE LoadMetricPlugins \/ ParseScorer
    <3>1. UNCHANGED spec /\ pc # "exit"
      BY <1>1, <2>4 DEF LoadMetricPlugins, ParseScorer
    <3> QED
      BY <1>2, <3>1 DEF Evidence, Checked, Proceeding
  <2> QED
    BY <2>2, <2>3, <2>4
<1>7. pc' = "candidate" => ParseSucceeds(spec'.scorer)
  BY <1>1 DEF DryRun, LoadSpec, LoadMetricPlugins, ParseScorer, GoTo, Exit
<1>8. Checked'
  BY <1>1, <1>2, <1>3, <1>6, <1>7 DEF Checked, Built
<1> QED
  BY <1>4, <1>5, <1>8 DEF Evidence

LEMMA EvidenceCancelling ==
  ASSUME Evidence, Cancel
  PROVE  Evidence'
<1>1. UNCHANGED <<inv, pc, exit, registered, spec, results, trials, err, trialsByName, log, record, stored>>
  BY DEF Cancel, Output
<1>2. Observed' /\ Named'
  BY <1>1, EvidenceStays
<1>3. Summarised'
  BY <1>1 DEF Evidence, Summarised, TrialsOf, FirstFailure, Failures, Executions
<1>4. Checked'
  BY <1>1 DEF Evidence, Checked, Built, Proceeding, Unavailable, ToCollect, ScoredMetricMissing, BuiltRun
<1> QED
  BY <1>2, <1>3, <1>4 DEF Evidence

\* What is built has candidates, so it is not the zero value.
LEMMA BuiltIsRecord ==
  ASSUME IInv, Built
  PROVE  /\ BuiltRun # NoRecord
         /\ DOMAIN BuiltRun.candidates = DOMAIN results
<1>1. DOMAIN results = 1..Len(spec.candidates) /\ Len(spec.candidates) > 0
  BY SuiteShape, SequenceShape DEF IInv, Shape, Stages, Proceeding
<1>2. DOMAIN BuiltRun.candidates = DOMAIN results
  BY DEF BuiltRun, Score
<1>3. BuiltRun.candidates # <<>>
  BY <1>1, <1>2, EmptyIsSequence
<1> QED
  BY <1>2, <1>3 DEF NoRecord

LEMMA EvidenceConcluding ==
  ASSUME IInv, Evidence, CheckMetrics \/ ScoreAndBuild \/ Persist \/ Report
  PROVE  Evidence'
<1>1. UNCHANGED <<inv, registered, spec, results, trials, err, trialsByName, log>>
  BY DEF CheckMetrics, ScoreAndBuild, Persist, Report, Measured, Output
<1>2. /\ pc \in {"candidate", "score", "persist", "report"} /\ exit = None /\ Proceeding
      /\ pc' \in {"score", "persist", "report", "exit"}
  BY DEF CheckMetrics, ScoreAndBuild, Persist, Report, GoTo, Exit, IInv, TypeOK, Stages
<1>3. Observed' /\ Named'
  BY <1>1, EvidenceStays
<1>4. Summarised'
  BY <1>1, <1>2 DEF Evidence, Summarised, TrialsOf, FirstFailure, Failures, Executions
<1>5. Checked'
  <2>1. inv.repeat >= 1 /\ ParseSucceeds(spec.scorer)
    BY <1>2 DEF Evidence, Checked
  <2>2. Built' => Unavailable = {} /\ ~ScoredMetricMissing
    BY <1>2 DEF CheckMetrics, ScoreAndBuild, Persist, Report, GoTo, Exit, Built, Evidence, Checked,
                Measured, Output, IInv, Stages
  <2>3. pc' \in {"persist", "report"} \/ exit' = "ok" => record' # NoRecord
    <3>1. CASE ScoreAndBuild
      <4>1. Built
        BY <3>1 DEF ScoreAndBuild, Built
      <4> QED
        BY <3>1, <4>1, BuiltIsRecord DEF ScoreAndBuild
    <3>2. CASE CheckMetrics
      BY <1>2, <3>2, PipelineAssumption DEF CheckMetrics, GoTo, Exit
    <3>3. CASE Persist
      BY <1>2, <3>3, PipelineAssumption DEF Persist, GoTo, Exit, Evidence, Checked
    <3>4. CASE Report
      BY <1>2, <3>4, PipelineAssumption DEF Report, Exit, Output, Evidence, Checked
    <3> QED
      BY <3>1, <3>2, <3>3, <3>4
  <2>4. record' # NoRecord => record' = BuiltRun
    BY DEF CheckMetrics, ScoreAndBuild, Persist, Report, Output, Evidence, Checked
  <2>5. /\ BuiltRun' = BuiltRun /\ Unavailable' = Unavailable
        /\ ScoredMetricMissing' = ScoredMetricMissing
    BY <1>1 DEF BuiltRun, Unavailable, ToCollect, ScoredMetricMissing
  <2> QED
    BY <1>1, <1>2, <2>1, <2>2, <2>3, <2>4, <2>5 DEF Checked
<1> QED
  BY <1>3, <1>4, <1>5 DEF Evidence

LEMMA EvidenceBeginning ==
  ASSUME IInv, Evidence, NextCandidate
  PROVE  Evidence'
<1>1. /\ UNCHANGED <<inv, registered, spec, results, trialsByName, record>>
      /\ trials' = <<>> /\ err' = 0 /\ log' = Append(log, <<>>)
      /\ pc' \in {"trial", "exit"} /\ (pc' = "exit" => exit' = "error") /\ (pc' = "trial" => UNCHANGED exit)
      /\ pc = "candidate"
  BY DEF NextCandidate, GoTo, Exit, UnknownAdapter, Output
<1>2. /\ DOMAIN log' = 1..(Len(log) + 1) /\ Len(log') = Len(log) + 1
      /\ \A i \in DOMAIN log : log'[i] = log[i]
      /\ log'[Len(log) + 1] = <<>>
  BY <1>1, Appended DEF IInv, Shape
<1>3. Len(log) \in Nat /\ DOMAIN log = 1..Len(log) /\ DOMAIN results = 1..Len(log)
  BY <1>1, SequenceShape DEF IInv, Shape, Stages
<1>4. DOMAIN log \subseteq DOMAIN log'
  BY <1>2, <1>3
<1>5. \A i \in DOMAIN log : TrialsOf(i)' = TrialsOf(i) /\ FirstFailure(i)' = FirstFailure(i)
  BY <1>1, <1>2, <1>4, SameEntries
<1>6. Observed'
  <2> SUFFICES ASSUME NEW i \in DOMAIN log', NEW t \in DOMAIN log'[i]
               PROVE  Explained(spec.candidates[i], log[i][t])'
    BY DEF Observed
  <2>1. i \in DOMAIN log /\ log'[i] = log[i]
    BY <1>2, <1>3, EmptyIsSequence
  <2>2. Explained(spec.candidates[i], log[i][t])
    BY <2>1 DEF Evidence, Observed
  <2> QED
    BY <1>1, <2>1, <2>2, SameExplanation
<1>7. Summarised'
  <2>1. log'[Len(log')] = <<>> /\ Len(log') \in DOMAIN log'
    BY <1>2, <1>3
  <2>2. TrialsOf(Len(log))' = [t \in {} |-> log'[Len(log')][t].trial]
    BY <2>1, EmptyIsSequence DEF TrialsOf
  <2>3. <<>> = [t \in {} |-> log'[Len(log')][t].trial]
    BY EmptyIsSequence
  <2>4. Failures(Len(log))' = {}
    BY <2>1, EmptyIsSequence DEF Failures, Executions
  <2>5. FirstFailure(Len(log))' = 0
    BY <2>4 DEF FirstFailure
  <2>6. \A i \in DOMAIN results : /\ results[i].metrics = MeanMetrics(TrialsOf(i)')
                                  /\ results[i].err = FirstFailure(i)'
    BY <1>3, <1>5 DEF Evidence, Summarised
  <2>7. ASSUME NEW i \in DOMAIN results
        PROVE  (results[i].metrics = MeanMetrics(TrialsOf(i)) /\ results[i].err = FirstFailure(i))'
    BY <1>1, <2>6
  <2>8. trials' = TrialsOf(Len(log))' /\ err' = FirstFailure(Len(log))'
    BY <1>1, <2>2, <2>3, <2>5
  <2> QED
    BY <1>1, <2>7, <2>8 DEF Summarised
<1>8. Named'
  BY <1>1, <1>3, <1>5 DEF Evidence, Named
<1>9. Checked'
  <2>1. record' = NoRecord
    BY <1>1 DEF IInv, Stages
  <2> QED
    BY <1>1, <2>1, PipelineAssumption DEF Evidence, Checked, Built, Proceeding, IInv, TypeOK
<1> QED
  BY <1>6, <1>7, <1>8, <1>9 DEF Evidence

LEMMA EvidenceFinishing ==
  ASSUME IInv, Evidence, FinishCandidate
  PROVE  Evidence'
<1> DEFINE now == Len(results) + 1
           cr  == [name |-> Current.name, metrics |-> MeanMetrics(trials), err |-> err]
<1>1. /\ UNCHANGED <<inv, registered, spec, log, record, exit>>
      /\ results' = Append(results, cr)
      /\ trialsByName' = [n \in DOMAIN trialsByName \cup {cr.name} |->
                            IF n = cr.name THEN trials ELSE trialsByName[n]]
      /\ pc = "trial" /\ pc' = "candidate"
  BY DEF FinishCandidate, GoTo, Output
<1>2. /\ DOMAIN results' = 1..now /\ \A i \in DOMAIN results : results'[i] = results[i]
      /\ results'[now] = cr
  BY <1>1, Appended DEF IInv, Shape
<1>3. Len(log) = now /\ Len(results) \in Nat /\ DOMAIN results = 1..Len(results) /\ now \in DOMAIN log
  BY <1>1, SequenceShape DEF IInv, Shape, Stages
<1>4. trials = TrialsOf(now) /\ cr.metrics = MeanMetrics(TrialsOf(now)) /\ cr.err = FirstFailure(now)
  BY <1>1, <1>3 DEF Evidence, Summarised
<1> HIDE DEF cr
<1>5. \A i : TrialsOf(i)' = TrialsOf(i) /\ FirstFailure(i)' = FirstFailure(i)
  BY <1>1 DEF TrialsOf, FirstFailure, Failures, Executions
<1>6. Observed'
  BY <1>1, ObservedStays
<1>7. Summarised'
  <2>1. ASSUME NEW i \in 1..now
        PROVE  results'[i].metrics = MeanMetrics(TrialsOf(i)) /\ results'[i].err = FirstFailure(i)
    <3>1. CASE i = now
      BY <1>2, <1>4, <3>1
    <3>2. CASE i \in DOMAIN results
      BY <1>2, <3>2 DEF Evidence, Summarised
    <3> QED
      BY <1>3, <3>1, <3>2
  <2> QED
    BY <1>1, <1>2, <1>5, <2>1 DEF Summarised
<1>8. Named'
  <2>1. DOMAIN trialsByName' = {results'[i].name : i \in 1..now}
    <3>1. DOMAIN trialsByName' = {results[i].name : i \in DOMAIN results} \cup {cr.name}
      BY <1>1 DEF Evidence, Named
    <3> QED
      BY <1>2, <1>3, <3>1
  <2>2. ASSUME NEW i \in 1..now, \A j \in 1..now : results'[j].name = results'[i].name => j <= i
        PROVE  trialsByName'[results'[i].name] = TrialsOf(i)
    <3>1. CASE i = now
      BY <1>1, <1>2, <1>4, <3>1
    <3>2. CASE i \in DOMAIN results
      <4>1. results'[i].name # cr.name
        BY <1>2, <1>3, <2>2, <3>2
      <4>2. results'[i] = results[i] /\ results[i].name \in DOMAIN trialsByName
        BY <1>2, <3>2 DEF Evidence, Named
      <4>3. trialsByName'[results'[i].name] = trialsByName[results[i].name]
        BY <1>1, <4>1, <4>2
      <4>4. \A j \in DOMAIN results : results[j].name = results[i].name => j <= i
        BY <1>2, <1>3, <2>2, <4>2
      <4> QED
        BY <3>2, <4>3, <4>4 DEF Evidence, Named
    <3> QED
      BY <1>3, <3>1, <3>2
  <2> QED
    BY <1>2, <1>5, <2>1, <2>2 DEF Named
<1>9. Checked'
  <2>1. record' = NoRecord /\ exit' = None
    BY <1>1 DEF IInv, Stages, TypeOK
  <2> QED
    BY <1>1, <2>1, PipelineAssumption DEF Evidence, Checked, Built, Proceeding
<1> QED
  BY <1>6, <1>7, <1>8, <1>9 DEF Evidence

\* The error of the adapter is a failure of the world, and the other way round.
LEMMA RunFails ==
  ASSUME NEW c, NEW e, e.kind = Kind(c.adapter), e.cut \in BOOLEAN,
         NEW before \in BOOLEAN, e.end \in EndsOf(e.kind, before, e.cut)
  PROVE  (Run(c, e.end, e.output, e.cut).err # None) <=> Failure(c, e)
<1> DEFINE end == e.end
<1>1. Succeeded(end) => Ran(end)
  BY DEF Succeeded, Ran, Completed
<1>2. (ProcessError(end, e.cut) # None) <=> (~Ran(end) \/ (e.cut /\ ~Succeeded(end)))
  BY <1>1, AdaptersAssumption DEF ProcessError
<1>3. e.kind \in {"cli", "llm", "eva", "plugin"}
  BY DEF Kind, BuiltinAdapters
<1>4. CASE e.kind = "cli"
  <2>1. Run(c, end, e.output, e.cut) = CLIRun(end, e.cut)
    BY <1>4 DEF Run
  <2> QED
    BY <1>2, <1>4, <2>1 DEF CLIRun, Failure
<1>5. CASE e.kind = "eva"
  <2>1. Run(c, end, e.output, e.cut) = EvaRun(end, e.output, e.cut)
    BY <1>5 DEF Run
  <2>2. Run(c, end, e.output, e.cut).err = ProcessError(end, e.cut)
    BY <2>1 DEF EvaRun, CLIRun
  <2> QED
    BY <1>2, <1>5, <2>2 DEF Failure
<1>6. CASE e.kind = "plugin"
  <2>1. Run(c, end, e.output, e.cut) = BinaryRun(end, e.output, e.cut)
    BY <1>6 DEF Run
  <2>2. Run(c, end, e.output, e.cut).err
          = IF Succeeded(end) /\ e.output = None THEN "failed" ELSE ProcessError(end, e.cut)
    BY <2>1 DEF BinaryRun, CLIRun
  <2> QED
    BY <1>1, <1>2, <1>6, <2>2, AdaptersAssumption DEF Failure
<1>7. CASE e.kind = "llm"
  <2>1. Run(c, end, e.output, e.cut) = LLMRun(c.provider, end, e.output)
    BY <1>7 DEF Run
  <2>2. Run(c, end, e.output, e.cut).err
          = IF c.provider \in {"claude", "gpt"} /\ Succeeded(end) THEN None ELSE "failed"
    BY <2>1 DEF LLMRun
  <2>3. Ran(end) => Succeeded(end)
    BY <1>7 DEF EndsOf, Answers, Ends, Ran, Succeeded, Completed, Unstarted, Interrupted
  <2> QED
    BY <1>1, <1>7, <2>2, <2>3, AdaptersAssumption DEF Failure
<1> QED
  BY <1>3, <1>4, <1>5, <1>6, <1>7

\* The first of the failures does not change when a later one joins them.
LEMMA FirstStays ==
  ASSUME NEW n \in Nat, NEW S \in SUBSET (1..n)
  PROVE  /\ S # {} => Min(S) \in 1..n /\ Min(S \cup {n + 1}) = Min(S)
         /\ Min({n + 1}) = n + 1
<1>1. IsFiniteSet(1..n) /\ IsFiniteSet(S) /\ IsFiniteSet(S \cup {n + 1}) /\ IsFiniteSet({n + 1})
  <2>1. IsFiniteSet(1..n)
    BY FS_Interval
  <2>2. IsFiniteSet(S)
    BY <2>1, FS_Subset
  <2> QED
    BY <2>1, <2>2, FS_AddElement, FS_Singleton
<1>2. S \subseteq Int /\ S \cup {n + 1} \subseteq Int
  OBVIOUS
<1>3. ASSUME S # {}
      PROVE  Min(S) \in 1..n /\ Min(S \cup {n + 1}) = Min(S)
  <2> DEFINE a == Min(S)
             b == Min(S \cup {n + 1})
  <2>1. a \in S /\ \A x \in S : a <= x
    BY <1>1, <1>2, <1>3, Extremes
  <2>2. b \in S \cup {n + 1} /\ \A x \in S \cup {n + 1} : b <= x
    BY <1>1, <1>2, <1>3, Extremes
  <2> HIDE DEF a, b
  <2>3. a \in 1..n /\ b <= a /\ b \in Int
    BY <2>1, <2>2
  <2>4. b # n + 1
    BY <2>3
  <2>5. a = b
    BY <2>1, <2>2, <2>3, <2>4
  <2> QED
    BY <2>3, <2>5 DEF a, b
<1>4. Min({n + 1}) = n + 1
  <2>1. Min({n + 1}) \in {n + 1}
    BY <1>1, Extremes
  <2> QED
    BY <2>1
<1> QED
  BY <1>3, <1>4

LEMMA EvidenceExecuting ==
  ASSUME IInv, Evidence, ExecuteTrial
  PROVE  Evidence'
<1>1. PICK end \in EndsOf(Kind(Current.adapter), cancelled, cancelled') :
        \E output \in Outputs(Kind(Current.adapter), end) :
             LET result == Run(Current, end, output, cancelled')
             IN  \E measured \in Samples(result) :
                   Extended(end, output, TrialOf(result, measured), result.err # None)
  BY OneExecution
<1>2. PICK output \in Outputs(Kind(Current.adapter), end) :
             LET result == Run(Current, end, output, cancelled')
             IN  \E measured \in Samples(result) :
                   Extended(end, output, TrialOf(result, measured), result.err # None)
  BY <1>1
<1> DEFINE result == Run(Current, end, output, cancelled')
<1>3. PICK measured \in Samples(result) :
        Extended(end, output, TrialOf(result, measured), result.err # None)
  BY <1>2
<1>4. /\ UNCHANGED <<inv, pc, exit, registered, spec, results, trialsByName, record>>
      /\ pc = "trial" /\ cancelled \in BOOLEAN /\ cancelled' \in BOOLEAN
  BY DEF ExecuteTrial, Output, IInv, Shape
<1>5. PICK k : k = Len(results) + 1
  OBVIOUS
<1>6. PICK n : n = Len(trials)
  OBVIOUS
<1>7. PICK e : e = Entry(end, output, TrialOf(result, measured))
  OBVIOUS
<1>8. /\ Len(log) = k /\ k \in Nat /\ DOMAIN log = 1..k /\ k \in DOMAIN log
      /\ DOMAIN results \subseteq DOMAIN log /\ k \notin DOMAIN results
      /\ IsSequence(log[k]) /\ Len(log[k]) = n /\ n \in Nat /\ DOMAIN log[k] = 1..n
  BY <1>4, <1>5, <1>6, SequenceShape DEF IInv, Shape, Stages
<1>9. /\ DOMAIN log' = DOMAIN log /\ log'[k] = Append(log[k], e)
      /\ \A i \in DOMAIN log : i # k => log'[i] = log[i]
  BY <1>3, <1>5, <1>7, <1>8 DEF Extended
<1>10. /\ DOMAIN log'[k] = 1..(n + 1) /\ log'[k][n + 1] = e
       /\ \A t \in 1..n : log'[k][t] = log[k][t]
  BY <1>8, <1>9, Appended
<1>11. /\ e.kind = Kind(Current.adapter) /\ e.end = end /\ e.output = output /\ e.cut = cancelled'
       /\ e.trial = TrialOf(result, measured)
  BY <1>7 DEF Entry
<1>12. spec.candidates[k] = Current
  BY <1>5 DEF Current
<1>13. result = Run(spec.candidates[k], e.end, e.output, e.cut)
  BY <1>11, <1>12
<1>14. Explained(spec.candidates[k], e)
  BY <1>3, <1>4, <1>11, <1>12, <1>13 DEF Explained
<1>15. (result.err # None) <=> Failure(spec.candidates[k], e)
  BY <1>1, <1>4, <1>11, <1>12, <1>13, RunFails
<1> HIDE DEF result
<1>16. \A i \in DOMAIN results : TrialsOf(i)' = TrialsOf(i) /\ FirstFailure(i)' = FirstFailure(i)
  BY <1>4, <1>8, <1>9, SameEntries
<1>17. Observed'
  <2> SUFFICES ASSUME NEW i \in DOMAIN log', NEW t \in DOMAIN log'[i]
               PROVE  Explained(spec.candidates[i], log[i][t])'
    BY DEF Observed
  <2>1. CASE i = k /\ t = n + 1
    <3>1. log'[i][t] = e
      BY <1>10, <2>1
    <3>2. ToCollect' = ToCollect
      BY <1>4 DEF ToCollect
    <3>3. PICK sampled \in Samples(Run(spec.candidates[k], e.end, e.output, e.cut)) :
            e.trial = TrialOf(Run(spec.candidates[k], e.end, e.output, e.cut), sampled)
      BY <1>14 DEF Explained
    <3> DEFINE done == Run(spec.candidates[i], log[i][t].end, log[i][t].output, log[i][t].cut)
    <3>4. done' = Run(spec.candidates[k], e.end, e.output, e.cut)
      BY <1>4, <2>1, <3>1
    <3> HIDE DEF done
    <3>5. sampled \in Samples(done)'
      BY <1>4, <3>2, <3>3, <3>4 DEF Samples
    <3>6. TrialOf(done, sampled)' = e.trial
      BY <1>4, <3>2, <3>3, <3>4 DEF TrialOf
    <3>7. \E any \in Samples(done)' : (log[i][t].trial = TrialOf(done, any))'
      BY <3>1, <3>5, <3>6
    <3>8. spec'.candidates[i] = spec.candidates[k]
      BY <1>4, <2>1
    <3> QED
      BY <1>14, <3>1, <3>7, <3>8 DEF Explained, done
  <2>2. CASE ~(i = k /\ t = n + 1)
    <3>1. i \in DOMAIN log /\ t \in DOMAIN log[i] /\ log'[i][t] = log[i][t]
      BY <1>8, <1>9, <1>10, <2>2
    <3>2. Explained(spec.candidates[i], log[i][t])
      BY <3>1 DEF Evidence, Observed
    <3> QED
      BY <1>4, <3>1, <3>2, SameExplanation
  <2> QED
    BY <2>1, <2>2
<1>18. Len(log') = k
  BY <1>3, <1>8, <1>9, SequenceShape, Executing DEF IInv, Shape
<1>19. trials' = TrialsOf(Len(log))'
  <2>1. /\ trials' = Append(trials, e.trial) /\ IsSequence(trials)
    BY <1>3, <1>11 DEF Extended, IInv, Shape
  <2>2. /\ IsSequence(trials') /\ DOMAIN trials' = 1..(n + 1)
        /\ \A t \in DOMAIN trials : trials'[t] = trials[t]
        /\ trials'[n + 1] = e.trial
    BY <1>6, <2>1, Appended
  <2>3. DOMAIN trials = 1..n /\ \A t \in 1..n : trials[t] = log[k][t].trial
    BY <1>4, <1>8 DEF Evidence, Summarised, TrialsOf
  <2>4. ASSUME NEW t \in 1..(n + 1) PROVE trials'[t] = log'[k][t].trial
    <3>1. CASE t \in 1..n
      BY <1>10, <2>2, <2>3, <3>1
    <3>2. CASE t = n + 1
      BY <1>10, <2>2, <3>2
    <3> QED
      BY <1>8, <3>1, <3>2
  <2>5. trials' = [t \in 1..(n + 1) |-> trials'[t]]
    <3>1. trials' \in [1..Len(trials') -> {trials'[t] : t \in DOMAIN trials'}]
      BY <2>2, LenProperties DEF IsSequence
    <3> QED
      BY <2>2, <3>1
  <2>6. trials' = [t \in DOMAIN log'[k] |-> log'[k][t].trial]
    BY <1>10, <2>4, <2>5
  <2> QED
    BY <1>18, <2>6 DEF TrialsOf
<1>20. err' = FirstFailure(Len(log))'
  <2> DEFINE F == Failures(Len(log))
             failed == Failure(spec.candidates[k], e)
  <2>1. F = {t \in 1..n : Failure(spec.candidates[k], log[k][t])} /\ err = IF F = {} THEN 0 ELSE Min(F)
    BY <1>4, <1>8 DEF Failures, Executions, Evidence, Summarised, FirstFailure
  <2>2. F' = {t \in 1..(n + 1) : Failure(spec.candidates[k], log'[k][t])}
    BY <1>4, <1>8, <1>9, <1>10, <1>18 DEF Failures, Executions
  <2>3. F' = F \cup (IF failed THEN {n + 1} ELSE {})
    BY <1>8, <1>10, <2>1, <2>2
  <2>4. err' = IF failed /\ err = 0 THEN n + 1 ELSE err
    BY <1>3, <1>6, <1>15 DEF Extended, FirstError, result
  <2>5. FirstFailure(Len(log))' = IF F' = {} THEN 0 ELSE Min(F')
    BY DEF FirstFailure
  <2>6. F \subseteq 1..n
    BY <2>1
  <2> HIDE DEF F, failed
  <2>7. F # {} => Min(F) \in 1..n /\ Min(F \cup {n + 1}) = Min(F)
    BY <1>8, <2>6, FirstStays
  <2>8. Min({n + 1}) = n + 1
    BY <1>8, <2>6, FirstStays
  <2>9. CASE failed /\ F = {}
    BY <2>1, <2>3, <2>4, <2>5, <2>8, <2>9
  <2>10. CASE failed /\ F # {}
    BY <1>8, <2>1, <2>3, <2>4, <2>5, <2>7, <2>10
  <2>11. CASE ~failed
    BY <2>1, <2>3, <2>4, <2>5, <2>11
  <2> QED
    BY <2>9, <2>10, <2>11
<1>21. Summarised'
  <2>1. ASSUME NEW i \in DOMAIN results
        PROVE  (results[i].metrics = MeanMetrics(TrialsOf(i)) /\ results[i].err = FirstFailure(i))'
    BY <1>4, <1>16 DEF Evidence, Summarised
  <2> QED
    BY <1>4, <1>19, <1>20, <2>1 DEF Summarised
<1>22. Named'
  BY <1>4, <1>16 DEF Evidence, Named
<1>23. Checked'
  <2>1. record' = NoRecord /\ exit' = None
    BY <1>4 DEF IInv, Stages, TypeOK
  <2> QED
    BY <1>4, <2>1, PipelineAssumption DEF Evidence, Checked, Built, Proceeding
<1> QED
  BY <1>17, <1>21, <1>22, <1>23 DEF Evidence

LEMMA EvidenceHolds == Spec => []Evidence
<1>1. IInv /\ Evidence /\ [Next]_vars => Evidence'
  <2> SUFFICES ASSUME IInv, Evidence, [Next]_vars PROVE Evidence'
    OBVIOUS
  <2>1. CASE UNCHANGED vars
    <3>1. Observed' /\ Named'
      BY <2>1, EvidenceStays DEF vars
    <3>2. Summarised'
      BY <2>1 DEF vars, Evidence, Summarised, TrialsOf, FirstFailure, Failures, Executions
    <3>3. Checked'
      BY <2>1 DEF vars, Evidence, Checked, Built, Proceeding, Unavailable, ToCollect,
                  ScoredMetricMissing, BuiltRun
    <3> QED
      BY <3>1, <3>2, <3>3 DEF Evidence
  <2> QED
    BY <2>1, EvidencePreparing, EvidenceBeginning, EvidenceExecuting, EvidenceFinishing,
       EvidenceConcluding, EvidenceCancelling DEF Next
<1> QED
  BY <1>1, EvidenceInitially, InvariantHolds, PTL DEF Spec

-----------------------------------------------------------------------------
(* Trials and their statistics *)

\* The values that a metric of a trial can have.
Exact == Values \cup ExitCodes \cup {0, Unit, 2 * Unit}

\* Their means are integers.
LEMMA ExactDivides ==
  ASSUME NEW v \in Exact, NEW n \in 1..MaxRepeat
  PROVE  v \in Int /\ \E q \in Int : v = n * q
<1>1. n \in Nat /\ n > 0
  BY MeansAreExact
<1>2. ASSUME NEW x \in Values \cup ExitCodes \cup {Unit}
      PROVE  x \in Int /\ \E q \in Int : x = n * q
  <2>1. x \in Int
    BY AdaptersAssumption
  <2>2. x % n = 0
    BY MeansAreExact
  <2>3. x = n * (x \div n) /\ x \div n \in Int
    BY <1>1, <2>1, <2>2
  <2> QED
    BY <2>1, <2>3
<1>3. CASE v \in Values \cup ExitCodes \cup {Unit}
  BY <1>2, <1>3
<1>4. CASE v = 0
  <2>1. v = n * 0
    BY <1>1, <1>4
  <2> QED
    BY <1>4, <2>1
<1>5. CASE v = 2 * Unit
  <2>1. PICK q \in Int : Unit = n * q
    BY <1>2
  <2>2. v = n * (2 * q) /\ 2 * q \in Int
    BY <1>1, <1>5, <2>1
  <2>3. v \in Int
    BY <1>1, <2>2
  <2> QED
    BY <2>2, <2>3
<1> QED
  BY <1>3, <1>4, <1>5 DEF Exact

LEMMA CodeIsExact ==
  ASSUME NEW kind, NEW before \in BOOLEAN, NEW after \in BOOLEAN, NEW end \in EndsOf(kind, before, after)
  PROVE  end.code \in Exact
<1>1. \A e \in Ends(before, after) \cup {Rejected, Unstarted, Interrupted} : e.code \in Exact
  BY DEF Ends, Rejected, Unstarted, Interrupted, Completed, Exact
<1>2. CASE kind = "llm"
  <2>1. Answers(before, after) \subseteq Ends(before, after) \cup {Unstarted, Interrupted}
    BY DEF Answers
  <2> QED
    BY <1>1, <1>2, <2>1 DEF EndsOf
<1>3. CASE kind = "eva"
  <2>1. EvaEnds(before, after) \subseteq Ends(before, after) \cup {Rejected}
    BY DEF EvaEnds, LastAttempt
  <2> QED
    BY <1>1, <1>3, <2>1 DEF EndsOf
<1>4. CASE kind \notin {"llm", "eva"}
  BY <1>1, <1>4 DEF EndsOf
<1> QED
  BY <1>2, <1>3, <1>4

\* The results of the four adapters, field by field.
LEMMA CLIResult ==
  ASSUME NEW c, NEW e, e.kind = Kind(c.adapter), e.kind = "cli",
         NEW r, r = Run(c, e.end, e.output, e.cut)
  PROVE  /\ r.exit = ProcessExit(e.end, e.cut) /\ r.tokens = 0
         /\ r.reported = <<>>
<1>1. r = CLIRun(e.end, e.cut)
  BY DEF Run
<1> QED
  BY <1>1 DEF CLIRun

LEMMA BinaryResult ==
  ASSUME NEW c, NEW e, e.kind = Kind(c.adapter), e.kind = "plugin",
         NEW r, r = Run(c, e.end, e.output, e.cut)
  PROVE  /\ r.exit = ProcessExit(e.end, e.cut) /\ r.tokens = 0
         /\ r.reported = IF ProcessError(e.end, e.cut) = None /\ e.output # None THEN e.output ELSE <<>>
<1>1. r = BinaryRun(e.end, e.output, e.cut)
  BY DEF Run
<1> QED
  BY <1>1 DEF BinaryRun, CLIRun

LEMMA EvaResult ==
  ASSUME NEW c, NEW e, e.kind = Kind(c.adapter), e.kind = "eva",
         NEW r, r = Run(c, e.end, e.output, e.cut)
  PROVE  /\ r.exit = ProcessExit(e.end, e.cut) /\ r.tokens = 0
         /\ e.output # None => r.reported = e.output
         /\ e.output = None => DOMAIN r.reported = {"accuracy"} /\ r.reported["accuracy"] = 0
<1>1. r = EvaRun(e.end, e.output, e.cut)
  BY DEF Run
<1> QED
  BY <1>1 DEF EvaRun, CLIRun

LEMMA LLMResult ==
  ASSUME NEW c, NEW e, e.kind = Kind(c.adapter), e.kind = "llm",
         NEW r, r = Run(c, e.end, e.output, e.cut)
  PROVE  /\ r.exit = IF c.provider \in {"claude", "gpt"} /\ Succeeded(e.end) THEN 0 ELSE Unit
         /\ r.tokens = IF c.provider \in {"claude", "gpt"} /\ Succeeded(e.end) THEN e.output["tokens"] ELSE 0
         /\ r.reported = <<>>
<1>1. r = LLMRun(c.provider, e.end, e.output)
  BY DEF Run
<1> QED
  BY <1>1 DEF LLMRun

LEMMA KindsOfAdapters ==
  ASSUME NEW adapter
  PROVE  Kind(adapter) \in {"cli", "llm", "eva", "plugin"}
BY DEF Kind, BuiltinAdapters

\* What can be read of an output.
LEMMA Read ==
  ASSUME NEW kind, NEW end, NEW output \in Outputs(kind, end)
  PROVE  /\ kind = "plugin" => output = None \/ output \in PartialMaps(PluginMetrics, Values)
         /\ kind = "eva" => output = None \/ output \in [{"accuracy"} -> Values]
         /\ kind = "llm" /\ Succeeded(end) => output \in [{"tokens"} -> Values]
         /\ kind = "cli" => output = None
BY DEF Outputs

LEMMA TrialIsExact ==
  ASSUME NEW c, NEW e, Explained(c, e), NEW m \in DOMAIN e.trial
  PROVE  e.trial[m] \in Exact
<1>1. PICK result : result = Run(c, e.end, e.output, e.cut)
  OBVIOUS
<1>2. e.kind = Kind(c.adapter)
  BY DEF Explained
<1>3. PICK before \in BOOLEAN : e.end \in EndsOf(e.kind, before, e.cut)
  BY DEF Explained
<1>4. e.kind = Kind(c.adapter) /\ e.cut \in BOOLEAN /\ e.output \in Outputs(e.kind, e.end)
  BY DEF Explained
<1>5. PICK measured \in Samples(result) : e.trial = TrialOf(result, measured)
  BY <1>1 DEF Explained
<1>6. e.end.code \in Exact
  BY <1>3, <1>4, CodeIsExact
<1>7. \A x \in DOMAIN result.reported : result.reported[x] \in Exact
  <2>1. CASE e.kind \in {"cli", "llm"}
    <3>1. result.reported = <<>>
      BY <1>1, <1>2, <2>1, CLIResult, LLMResult
    <3> QED
      BY <3>1, EmptyIsSequence
  <2>2. CASE e.kind = "eva"
    <3>1. /\ e.output # None => result.reported = e.output
          /\ e.output = None => DOMAIN result.reported = {"accuracy"} /\ result.reported["accuracy"] = 0
      BY <1>1, <1>2, <2>2, EvaResult
    <3>2. e.output = None \/ e.output \in [{"accuracy"} -> Values]
      BY <1>4, <2>2, Read
    <3> QED
      BY <3>1, <3>2 DEF Exact
  <2>3. CASE e.kind = "plugin"
    <3>1. (result.reported = e.output /\ e.output # None) \/ result.reported = <<>>
      BY <1>1, <1>2, <2>3, BinaryResult
    <3>2. e.output = None \/ e.output \in PartialMaps(PluginMetrics, Values)
      BY <1>4, <2>3, Read
    <3> QED
      BY <3>1, <3>2, EmptyIsSequence DEF Exact, PartialMaps
  <2> QED
    BY <1>4, <2>1, <2>2, <2>3, KindsOfAdapters
<1>8. result.exit \in Exact /\ result.tokens \in Exact
  <2>1. CASE e.kind = "llm"
    <3>1. Succeeded(e.end) => e.output["tokens"] \in Values
      BY <1>4, <2>1, Read
    <3>2. /\ result.exit \in {0, Unit}
          /\ result.tokens = 0 \/ (Succeeded(e.end) /\ result.tokens = e.output["tokens"])
      BY <1>1, <1>2, <2>1, LLMResult
    <3> QED
      BY <3>1, <3>2 DEF Exact
  <2>2. CASE e.kind # "llm"
    <3>1. result.exit = ProcessExit(e.end, e.cut) /\ result.tokens = 0
      BY <1>1, <1>2, <2>2, CLIResult, BinaryResult, EvaResult, KindsOfAdapters
    <3> QED
      BY <1>6, <3>1 DEF Exact, ProcessExit
  <2> QED
    BY <2>1, <2>2
<1>9. CASE m \in DOMAIN result.reported
  BY <1>5, <1>7, <1>9 DEF TrialOf
<1>10. CASE m \notin DOMAIN result.reported
  <2>1. m \in ToCollect \cap registered /\ e.trial[m] = Collect(m, result, measured)
    BY <1>5, <1>10 DEF TrialOf
  <2>2. m \notin Determined => measured[m] \in Values \cup JudgeScores
    BY <1>10, <2>1 DEF Samples
  <2>3. Values \cup JudgeScores \subseteq Exact
    BY DEF JudgeScores, Clamp, Exact
  <2> QED
    BY <1>8, <2>1, <2>2, <2>3 DEF Collect, Determined
<1> QED
  BY <1>9, <1>10

LEMMA ExactIsInteger ==
  ASSUME NEW v \in Exact
  PROVE  v \in Int
BY AdaptersAssumption DEF Exact

LEMMA Divided ==
  ASSUME NEW k \in Int, k > 0, NEW q \in Int
  PROVE  (k * q) \div k = q /\ q * k = k * q
OBVIOUS

\* The trials in which a metric was read.
Readings(ts, m) == {t \in DOMAIN ts : m \in DOMAIN ts[t]}

\* The summary of exact values: the mean is an integer, and nothing is rounded.
LEMMA SummaryIsExact ==
  ASSUME NEW n \in 0..MaxRepeat, NEW ts, DOMAIN ts = 1..n,
         \A t \in 1..n : \A x \in DOMAIN ts[t] : ts[t][x] \in Exact, NEW m
  PROVE  /\ m \in DOMAIN MeanMetrics(ts) <=> Readings(ts, m) # {}
         /\ m \in DOMAIN MeanMetrics(ts) =>
              /\ MeanMetrics(ts)[m] \in Int
              /\ MeanMetrics(ts)[m] * Cardinality(Readings(ts, m))
                   = SumFunction([t \in Readings(ts, m) |-> ts[t][m]])
              /\ \A t \in Readings(ts, m) : ts[t][m] \in ComputeStats(ts)[m].min..ComputeStats(ts)[m].max
<1> DEFINE C == Readings(ts, m)
           f == [t \in C |-> ts[t][m]]
           V == {ts[t][m] : t \in C}
           k == Cardinality(C)
<1>0. n \in Nat /\ n <= MaxRepeat /\ MaxRepeat \in Nat
  BY MeansAreExact
<1>1. C = {t \in DOMAIN ts : m \in DOMAIN ts[t]} /\ C \subseteq 1..n
  BY DEF Readings
<1>2. IsFiniteSet(C) /\ k \in Nat /\ k <= n
  <2>1. IsFiniteSet(1..n) /\ Cardinality(1..n) = n
    BY <1>0, FS_Interval
  <2> QED
    BY <1>1, <2>1, FS_Subset, FS_CardinalityType
<1>3. DOMAIN MeanMetrics(ts) = DOMAIN ComputeStats(ts) /\ DOMAIN ComputeStats(ts) = UNION {DOMAIN ts[t] : t \in DOMAIN ts}
  BY DEF MeanMetrics, ComputeStats
<1>4. m \in DOMAIN ComputeStats(ts) <=> C # {}
  BY <1>1, <1>3
<1>5. ASSUME m \in DOMAIN ComputeStats(ts)
      PROVE  /\ MeanMetrics(ts)[m] = SumFunction(f) \div k
             /\ ComputeStats(ts)[m].min = Min(V) /\ ComputeStats(ts)[m].max = Max(V)
  BY <1>1, <1>3, <1>5 DEF MeanMetrics, ComputeStats
<1>6. \A t \in C : ts[t][m] \in Exact
  BY <1>1
<1>7. \A t \in C : ts[t][m] \in Int
  BY <1>0, <1>1, <1>6, ExactIsInteger
<1> SUFFICES ASSUME m \in DOMAIN ComputeStats(ts)
             PROVE  /\ MeanMetrics(ts)[m] \in Int /\ MeanMetrics(ts)[m] * k = SumFunction(f)
                    /\ \A t \in C : ts[t][m] \in ComputeStats(ts)[m].min..ComputeStats(ts)[m].max
  BY <1>3, <1>4
<1>8. k \in 1..MaxRepeat
  <2>1. k # 0
    BY <1>2, <1>4, FS_EmptySet
  <2> QED
    BY <1>0, <1>2, <2>1
<1>9. SumFunction(f) = SumFunctionOnSet(f, C)
  BY DEF SumFunction
<1>10. \A t \in C : f[t] = ts[t][m]
  OBVIOUS
<1>11. IsFiniteSet(V) /\ V # {} /\ V \subseteq Int
  <2>1. f \in Surjection(C, V)
    BY DEF Surjection
  <2> QED
    BY <1>2, <1>4, <1>7, <2>1, FS_Surjection
<1> HIDE DEF k, f, C, V
<1>12. \A t \in C : \E q \in Int : f[t] = k * q
  BY <1>6, <1>8, <1>10, ExactDivides
<1>13. k \in Int /\ k > 0
  BY <1>0, <1>8
<1>14. PICK q \in Int : SumFunctionOnSet(f, C) = k * q
  BY <1>2, <1>12, <1>13, SumOfMultiples
<1>15. MeanMetrics(ts)[m] = (k * q) \div k
  BY <1>5, <1>9, <1>14
<1>16. (k * q) \div k = q /\ q * k = k * q
  BY <1>13, Divided
<1>17. ASSUME NEW t \in C PROVE ts[t][m] \in ComputeStats(ts)[m].min..ComputeStats(ts)[m].max
  <2>1. ts[t][m] \in V
    BY DEF V
  <2>2. Min(V) \in V /\ Min(V) <= ts[t][m] /\ Max(V) \in V /\ Max(V) >= ts[t][m]
    BY <1>11, <2>1, Extremes
  <2>3. Min(V) \in Int /\ Max(V) \in Int /\ ts[t][m] \in Int
    BY <1>7, <1>11, <2>2
  <2> QED
    BY <1>5, <2>2, <2>3
<1> QED
  BY <1>9, <1>14, <1>15, <1>16, <1>17

\* The trials of a finished candidate.
LEMMA TrialsShape ==
  ASSUME IInv, Evidence, NEW i \in DOMAIN results
  PROVE  /\ inv.repeat \in 0..MaxRepeat /\ i \in DOMAIN log
         /\ DOMAIN TrialsOf(i) = 1..inv.repeat /\ DOMAIN log[i] = 1..inv.repeat
         /\ \A t \in 1..inv.repeat : /\ TrialsOf(i)[t] = log[i][t].trial
                                     /\ Explained(spec.candidates[i], log[i][t])
         /\ \A t \in 1..inv.repeat : \A x \in DOMAIN TrialsOf(i)[t] : TrialsOf(i)[t][x] \in Exact
<1>1. inv.repeat \in 0..MaxRepeat
  BY PipelineAssumption DEF IInv, Shape
<1>2. i \in DOMAIN log
  <2>1. Len(results) <= Len(log) /\ Len(results) \in Nat /\ Len(log) \in Nat
    BY SequenceShape DEF IInv, Shape, Stages
  <2>2. DOMAIN results = 1..Len(results) /\ DOMAIN log = 1..Len(log)
    BY SequenceShape DEF IInv, Shape
  <2> QED
    BY <2>1, <2>2
<1>3. DOMAIN log[i] = 1..inv.repeat
  BY <1>2, SequenceShape DEF IInv, Shape, Executed
<1>4. DOMAIN TrialsOf(i) = 1..inv.repeat /\ \A t \in 1..inv.repeat : TrialsOf(i)[t] = log[i][t].trial
  BY <1>3 DEF TrialsOf
<1>5. \A t \in 1..inv.repeat : Explained(spec.candidates[i], log[i][t])
  BY <1>2, <1>3 DEF Evidence, Observed
<1>6. \A t \in 1..inv.repeat : \A x \in DOMAIN TrialsOf(i)[t] : TrialsOf(i)[t][x] \in Exact
  BY <1>4, <1>5, TrialIsExact
<1> QED
  BY <1>1, <1>2, <1>3, <1>4, <1>5, <1>6

MetricsOf == [i \in DOMAIN results |-> results[i].metrics]

LEMMA ResultsAreCandidates ==
  ASSUME IInv, Evidence
  PROVE  Candidates(MetricsOf, Len(results))
<1>1. Len(results) \in Nat /\ DOMAIN results = 1..Len(results)
  BY SequenceShape DEF IInv, Shape
<1>2. ASSUME NEW i \in 1..Len(results), NEW m
      PROVE  MetricOf(MetricsOf[i], m) \in Int
  <2>1. MetricsOf[i] = MeanMetrics(TrialsOf(i))
    BY <1>1 DEF Evidence, Summarised, MetricsOf
  <2>2. m \in DOMAIN MeanMetrics(TrialsOf(i)) => MeanMetrics(TrialsOf(i))[m] \in Int
    BY <1>1, TrialsShape, SummaryIsExact
  <2> QED
    BY <2>1, <2>2 DEF MetricOf
<1> QED
  BY <1>1, <1>2 DEF Candidates, MetricsOf

\* The scores of a run past the checks.
LEMMA ScoresOfRun ==
  ASSUME IInv, Evidence, Built, spec.scorer.kind # "raw"
  PROVE  ScoreOf(MetricsOf, spec.scorer) \in [1..Len(results) -> Int]
<1>1. spec.scorer.kind \in {"single", "weighted"}
  BY DEF Evidence, Checked, ParseSucceeds
<1>2. spec = Loaded(inv) /\ spec # None /\ inv \in Invocations
  BY DEF IInv, Shape, Stages, Proceeding
<1>3. spec.scorer.kind = "weighted" => Weights(spec.scorer.weights)
  <2> SUFFICES ASSUME spec.scorer.kind = "weighted" PROVE Weights(spec.scorer.weights)
    OBVIOUS
  <2> DEFINE w == spec.scorer.weights
  <2>1. DOMAIN w \subseteq MetricNames /\ \A m \in DOMAIN w : w[m] \in Int
    BY <1>2, SuiteAssumption
  <2>2. IsFiniteSet(DOMAIN w)
    BY <2>1, MetricAssumption, FS_Subset
  <2> QED
    BY <2>1, <2>2 DEF Weights, IntegersOn
<1> QED
  BY <1>1, <1>3, ResultsAreCandidates, ScoresAreIntegers

\* The record has at place k what is result at[k], by rank if there is one.
Arranges(at, n) ==
  /\ at \in [1..n -> 1..n]
  /\ \A i \in 1..n : \E k \in 1..n : at[k] = i
  /\ \A k \in 1..n :
       LET c == record.candidates[k]
       IN  /\ c.name = results[at[k]].name /\ c.metrics = results[at[k]].metrics
           /\ c.error = results[at[k]].err
           /\ c.trials = trialsByName[c.name] /\ c.stats = ComputeStats(c.trials)
           /\ spec.scorer.kind # "raw" =>
                c.rank = k /\ RankOf(spec.scorer, ScoreOf(MetricsOf, spec.scorer), at[k]) = k

\* A record is a permutation of the results.
LEMMA Recorded ==
  ASSUME IInv, Evidence, record # NoRecord, NEW n, n = Len(spec.candidates)
  PROVE  /\ n \in Nat /\ n > 0
         /\ DOMAIN results = 1..n /\ DOMAIN log = 1..n /\ DOMAIN spec.candidates = 1..n
         /\ DOMAIN record.candidates = 1..n /\ IsSequence(record.candidates) /\ Len(record.candidates) = n
         /\ record.winner = IF spec.scorer.kind = "raw" THEN None ELSE WinnerOf(record.candidates)
         /\ \E at : Arranges(at, n)
<1> DEFINE t == spec.scorer
           scored == Score(MetricsOf, t)
           s == ScoreOf(MetricsOf, t)
<1>1. Built /\ record = BuiltRun
  BY DEF Built, Evidence, Checked
<1>2. /\ n \in Nat /\ n > 0
      /\ DOMAIN results = 1..n /\ DOMAIN log = 1..n /\ DOMAIN spec.candidates = 1..n
      /\ Len(results) = n
  BY <1>1, SuiteShape, SequenceShape DEF IInv, Shape, Stages, Proceeding
<1>3. DOMAIN MetricsOf = 1..n
  BY <1>2 DEF MetricsOf
<1>4. DOMAIN scored = 1..n
  BY <1>3 DEF Score
<1>5. /\ record.candidates = [k \in DOMAIN scored |->
                                [name    |-> results[scored[k].cand].name,
                                 metrics |-> results[scored[k].cand].metrics,
                                 error   |-> results[scored[k].cand].err,
                                 trials  |-> trialsByName[results[scored[k].cand].name],
                                 stats   |-> ComputeStats(trialsByName[results[scored[k].cand].name]),
                                 score   |-> scored[k].score,
                                 rank    |-> scored[k].rank]]
      /\ record.winner = IF t.kind = "raw" THEN None ELSE WinnerOf(record.candidates)
  BY <1>1 DEF BuiltRun, MetricsOf
<1>6. DOMAIN record.candidates = 1..n /\ IsSequence(record.candidates) /\ Len(record.candidates) = n
  <2>1. record.candidates = [k \in 1..n |-> record.candidates[k]]
    BY <1>4, <1>5
  <2> QED
    BY <1>2, <2>1, SequenceOver
<1>7. /\ \A k \in 1..n : scored[k].cand \in 1..n
      /\ \A i \in 1..n : \E k \in 1..n : scored[k].cand = i
      /\ t.kind # "raw" => \A k \in 1..n : scored[k].rank = k /\ RankOf(t, s, scored[k].cand) = k
  <2>1. CASE t.kind = "raw"
    <3>1. scored = [k \in 1..n |-> [cand |-> k, score |-> 0, rank |-> 0]]
      BY <1>3, <2>1 DEF Score
    <3> QED
      BY <2>1, <3>1
  <2>2. CASE t.kind # "raw"
    <3>1. s \in [1..n -> Int]
      BY <1>1, <1>2, <2>2, ScoresOfRun
    <3>2. \A k \in 1..n : /\ scored[k].cand \in 1..n /\ RankOf(t, s, scored[k].cand) = k
                          /\ scored[k].rank = k
      BY <1>2, <1>3, <2>2, <3>1, ScoreSorts
    <3> HIDE DEF s, t, scored
    <3>3. ASSUME NEW i \in 1..n PROVE \E k \in 1..n : scored[k].cand = i
      <4>1. PICK k \in 1..n : RankOf(t, s, i) = k
        BY <1>2, <3>1, RankBounds
      <4>2. PICK j \in 1..n : j = scored[k].cand /\ RankOf(t, s, j) = RankOf(t, s, i)
        BY <3>2, <4>1
      <4>3. \A a, b \in 1..n : RankOf(t, s, a) = RankOf(t, s, b) => a = b
        BY <1>2, <3>1, RanksAreContiguous
      <4> QED
        BY <4>2, <4>3
    <3> QED
      BY <3>2, <3>3
  <2> QED
    BY <2>1, <2>2
<1> DEFINE at == [k \in 1..n |-> scored[k].cand]
<1> HIDE DEF scored
<1>8. at \in [1..n -> 1..n] /\ \A i \in 1..n : \E k \in 1..n : at[k] = i
  <2>1. \A k \in 1..n : at[k] = scored[k].cand
    OBVIOUS
  <2> QED
    BY <1>7, <2>1
<1>9. ASSUME NEW k \in 1..n
      PROVE  LET c == record.candidates[k]
             IN  /\ c.name = results[at[k]].name /\ c.metrics = results[at[k]].metrics
                 /\ c.error = results[at[k]].err
                 /\ c.trials = trialsByName[c.name] /\ c.stats = ComputeStats(c.trials)
                 /\ t.kind # "raw" => c.rank = k /\ RankOf(t, s, at[k]) = k
  <2>1. PICK i : i = at[k] /\ i = scored[k].cand
    OBVIOUS
  <2> HIDE DEF at, s
  <2>2. /\ record.candidates[k].name = results[i].name /\ record.candidates[k].metrics = results[i].metrics
        /\ record.candidates[k].error = results[i].err
        /\ record.candidates[k].trials = trialsByName[results[i].name]
        /\ record.candidates[k].stats = ComputeStats(trialsByName[results[i].name])
        /\ record.candidates[k].rank = scored[k].rank
    <3>1. record.candidates[k] =
            [name |-> results[i].name, metrics |-> results[i].metrics, error |-> results[i].err,
             trials |-> trialsByName[results[i].name], stats |-> ComputeStats(trialsByName[results[i].name]),
             score |-> scored[k].score, rank |-> scored[k].rank]
      <4>1. k \in DOMAIN scored
        BY <1>4
      <4> QED
        BY <1>5, <2>1, <4>1, Zenon
    <3> QED
      BY <3>1
  <2>3. t.kind # "raw" => scored[k].rank = k /\ RankOf(t, s, i) = k
    BY <1>7, <2>1
  <2> HIDE DEF t
  <2> QED
    BY <2>1, <2>2, <2>3
<1>10. Arranges(at, n)
  BY <1>8, <1>9 DEF Arranges
<1> QED
  BY <1>2, <1>5, <1>6, <1>10

\* What a trial says of an execution that is no infrastructure failure.
LEMMA TrialIsTrue ==
  ASSUME NEW c, NEW e, Explained(c, e), ~Failure(c, e),
         NEW reported, reported = IF e.output = None THEN <<>> ELSE e.output
  PROVE  /\ e.kind \in {"plugin", "eva"} =>
              \A m \in DOMAIN reported : m \in DOMAIN e.trial /\ e.trial[m] = reported[m]
         /\ "exit_code" \in DOMAIN e.trial \ DOMAIN reported =>
              Ran(e.end) /\ e.trial["exit_code"] = e.end.code
<1>1. PICK result : result = Run(c, e.end, e.output, e.cut)
  OBVIOUS
<1>2. /\ e.kind = Kind(c.adapter) /\ e.cut \in BOOLEAN /\ e.output \in Outputs(e.kind, e.end)
      /\ e.kind \in {"cli", "llm", "eva", "plugin"}
  BY KindsOfAdapters DEF Explained
<1>3. PICK before \in BOOLEAN : e.end \in EndsOf(e.kind, before, e.cut)
  BY DEF Explained
<1>4. PICK measured \in Samples(result) : e.trial = TrialOf(result, measured)
  BY <1>1 DEF Explained
<1>5. Ran(e.end) /\ (e.cut => Succeeded(e.end))
  BY DEF Failure
<1>6. ProcessError(e.end, e.cut) = None /\ ProcessExit(e.end, e.cut) = e.end.code
  <2>1. CASE e.cut
    BY <1>5, <2>1 DEF ProcessError, ProcessExit, Succeeded, Completed
  <2>2. CASE ~e.cut
    BY <1>5, <2>2 DEF ProcessError, ProcessExit
  <2> QED
    BY <1>2, <2>1, <2>2
<1>7. e.kind = "eva" => /\ e.output # None => result.reported = reported
                        /\ e.output = None => DOMAIN result.reported = {"accuracy"} /\ DOMAIN reported = {}
                        /\ result.exit = e.end.code
  BY <1>1, <1>2, <1>6, EvaResult, EmptyIsSequence
<1>8. e.kind = "plugin" => result.reported = reported /\ result.exit = e.end.code
  BY <1>1, <1>2, <1>6, BinaryResult
<1>9. e.kind = "cli" => DOMAIN result.reported = {} /\ result.exit = e.end.code
  BY <1>1, <1>2, <1>6, CLIResult, EmptyIsSequence
<1>10. e.kind = "llm" => DOMAIN result.reported = {} /\ result.exit = e.end.code
  <2> SUFFICES ASSUME e.kind = "llm" PROVE DOMAIN result.reported = {} /\ result.exit = e.end.code
    OBVIOUS
  <2>1. e.end \in Answers(before, e.cut)
    BY <1>3 DEF EndsOf
  <2>2. e.end \in {Completed(0), Unstarted, Interrupted}
    BY <2>1 DEF Answers
  <2>3. e.end = Completed(0)
    BY <1>5, <2>2 DEF Ran, Unstarted, Interrupted
  <2>4. Succeeded(e.end) /\ e.end.code = 0
    BY <2>3 DEF Succeeded, Completed
  <2>5. c.provider \in {"claude", "gpt"}
    BY DEF Failure
  <2> QED
    BY <1>1, <1>2, <2>4, <2>5, LLMResult, EmptyIsSequence
<1>11. ASSUME e.kind \in {"plugin", "eva"}, NEW m \in DOMAIN reported
       PROVE  m \in DOMAIN e.trial /\ e.trial[m] = reported[m]
  <2>1. result.reported = reported
    BY <1>7, <1>8, <1>11
  <2> QED
    BY <1>4, <1>11, <2>1 DEF TrialOf
<1>12. ASSUME "exit_code" \in DOMAIN e.trial \ DOMAIN reported
       PROVE  e.trial["exit_code"] = e.end.code
  <2>1. "exit_code" \notin DOMAIN result.reported
    BY <1>2, <1>7, <1>8, <1>9, <1>10, <1>12
  <2>2. e.trial["exit_code"] = Collect("exit_code", result, measured)
    BY <1>4, <1>12, <2>1 DEF TrialOf
  <2>3. result.exit = e.end.code
    BY <1>2, <1>7, <1>8, <1>9, <1>10
  <2> QED
    BY <2>2, <2>3 DEF Collect
<1> QED
  BY <1>5, <1>11, <1>12

\* Where names are unique, the name leads from a record back to the log.
LEMMA Identified ==
  ASSUME IInv, Evidence, record # NoRecord, UniqueNames, NEW k \in DOMAIN record.candidates,
         NEW c, c = record.candidates[k], NEW i, i = IndexOf(c.name)
  PROVE  /\ i \in DOMAIN results /\ i \in DOMAIN log /\ Executions(i) = log[i]
         /\ c.name = spec.candidates[i].name
         /\ c.metrics = MeanMetrics(TrialsOf(i)) /\ c.error = FirstFailure(i)
         /\ c.trials = TrialsOf(i) /\ c.stats = ComputeStats(c.trials)
<1>0. PICK n : n = Len(spec.candidates)
  OBVIOUS
<1>1. /\ n \in Nat /\ DOMAIN results = 1..n /\ DOMAIN log = 1..n /\ DOMAIN spec.candidates = 1..n
      /\ DOMAIN record.candidates = 1..n
  BY <1>0, Recorded
<1>2. PICK at : Arranges(at, n)
  BY <1>0, Recorded
<1>3. PICK j \in 1..n : /\ j = at[k] /\ c.name = results[j].name /\ c.metrics = results[j].metrics
                        /\ c.error = results[j].err
                        /\ c.trials = trialsByName[c.name] /\ c.stats = ComputeStats(c.trials)
  <2>1. at[k] \in 1..n
    BY <1>1, <1>2 DEF Arranges
  <2>2. /\ c.name = results[at[k]].name /\ c.metrics = results[at[k]].metrics
        /\ c.error = results[at[k]].err
        /\ c.trials = trialsByName[c.name] /\ c.stats = ComputeStats(c.trials)
    BY <1>1, <1>2 DEF Arranges
  <2> QED
    BY <2>1, <2>2
<1>4. \A a \in 1..n : results[a].name = spec.candidates[a].name
  BY <1>1 DEF IInv, Executed
<1>5. c.name = spec.candidates[j].name
  BY <1>3, <1>4
<1>6. \A a \in 1..n : spec.candidates[a].name = c.name => a = j
  BY <1>1, <1>5 DEF UniqueNames
<1>7. i = j
  BY <1>1, <1>5, <1>6 DEF IndexOf
<1>8. ASSUME NEW a \in DOMAIN results, results[a].name = results[j].name PROVE a <= j
  <2>1. a \in 1..n /\ j \in Nat
    BY <1>1
  <2>2. a = j
    BY <1>4, <1>5, <1>6, <1>8, <2>1
  <2> QED
    BY <2>1, <2>2
<1>9. trialsByName[c.name] = TrialsOf(j)
  BY <1>1, <1>4, <1>5, <1>8 DEF Evidence, Named
<1>10. results[j].metrics = MeanMetrics(TrialsOf(j)) /\ results[j].err = FirstFailure(j)
  BY <1>1 DEF Evidence, Summarised
<1> QED
  BY <1>1, <1>3, <1>5, <1>7, <1>9, <1>10 DEF Executions

\* The first failure is the number of an execution.
LEMMA FailureIsNumbered ==
  ASSUME IInv, Evidence, NEW i \in DOMAIN results, FirstFailure(i) = 0
  PROVE  \A t \in 1..inv.repeat : ~Failure(spec.candidates[i], log[i][t])
<1>1. inv.repeat \in 0..MaxRepeat /\ i \in DOMAIN log /\ DOMAIN log[i] = 1..inv.repeat
  BY TrialsShape
<1>2. Failures(i) = {t \in 1..inv.repeat : Failure(spec.candidates[i], log[i][t])}
  BY <1>1 DEF Failures, Executions
<1>3. Failures(i) \subseteq 1..inv.repeat /\ inv.repeat \in Nat
  BY <1>1, <1>2, MeansAreExact
<1>4. Failures(i) # {} => Min(Failures(i)) \in 1..inv.repeat
  BY <1>3, FirstStays
<1>5. Failures(i) = {}
  BY <1>3, <1>4 DEF FirstFailure
<1> QED
  BY <1>2, <1>5


-----------------------------------------------------------------------------
(* What follows from it. *)

\* The type invariant, with the bounds of the loops, for any suites and worlds.
THEOREM TypeCorrect == Spec => []TypeOK
<1>1. IInv => TypeOK
  BY DEF IInv
<1> QED
  BY <1>1, InvariantHolds, PTL

\* A run in which the end of the context cut an execution short is never stored, at
\* whatever moment it ended and whatever the adapters made of it.
THEOREM CancelledIsNotStored == Spec => []NothingCancelledIsStored
<1>1. IInv => NothingCancelledIsStored
  BY DEF IInv
<1> QED
  BY <1>1, InvariantHolds, PTL

\* What a dry run announces is what the run with the same flags and files executes,
\* for any suite: the same candidates, in order, each with its adapter.
THEOREM PlanIsAlwaysKept == Spec => []PlanIsKept
<1>1. IInv => PlanIsKept
  <2> SUFFICES ASSUME IInv, inv.preview, record # NoRecord
               PROVE  /\ plan # None /\ Len(plan) = Len(log)
                      /\ \A i \in DOMAIN plan :
                           /\ plan[i].name = results[i].name
                           /\ \A t \in DOMAIN log[i] :
                                log[i][t].kind = IF plan[i].adapter \in BuiltinAdapters
                                                 THEN plan[i].adapter ELSE "plugin"
    BY DEF PlanIsKept
  <2> DEFINE n == Len(spec.candidates)
  <2>1. /\ Proceeding /\ Len(results) = n /\ Len(log) = n
        /\ n \in Nat /\ DOMAIN spec.candidates = 1..n /\ Effects(spec) # None
        /\ DOMAIN results = 1..n /\ DOMAIN log = 1..n
    BY SequenceShape, SuiteShape DEF IInv, Shape, Stages, Built, Proceeding
  <2>2. plan = Effects(spec)
    BY <2>1 DEF IInv, PlanIsMade, Stages, Proceeding
  <2>3. Len(plan) = n
    <3>1. plan \in [1..n -> {plan[i] : i \in 1..n}]
      BY <2>1, <2>2 DEF Effects
    <3>2. plan \in Seq({plan[i] : i \in 1..n})
      BY <3>1, <2>1, SeqDef
    <3> QED
      BY <3>1, <3>2, <2>1, LenProperties
  <2>4. ASSUME NEW i \in DOMAIN plan
        PROVE  /\ plan[i].name = results[i].name
               /\ \A t \in DOMAIN log[i] :
                    log[i][t].kind = IF plan[i].adapter \in BuiltinAdapters
                                     THEN plan[i].adapter ELSE "plugin"
    <3>1. i \in 1..n
      BY <2>1, <2>2, <2>4 DEF Effects
    <3>2. plan[i].name = spec.candidates[i].name /\ plan[i].adapter = EffectName(spec.candidates[i].adapter)
      BY <2>1, <2>2, <3>1 DEF Effects
    <3>3. results[i].name = spec.candidates[i].name
      BY <2>1, <3>1 DEF IInv, Executed
    <3>4. \A t \in DOMAIN log[i] : log[i][t].kind = Kind(spec.candidates[i].adapter)
      BY <2>1, <3>1 DEF IInv, Executed
    <3> QED
      BY <3>2, <3>3, <3>4 DEF Kind, EffectName, BuiltinAdapters
  <2> QED
    BY <2>1, <2>2, <2>3, <2>4
<1> QED
  BY <1>1, InvariantHolds, PTL

\* A record is built only of a run of the whole suite, and exit code 0 is never the
\* outcome of anything less.
THEOREM RecordsAreComplete == Spec => []RecordIsComplete
<1>1. IInv /\ Evidence => RecordIsComplete
  <2> SUFFICES ASSUME IInv, Evidence, record # NoRecord \/ exit = "ok"
               PROVE  /\ record # NoRecord
                      /\ EveryoneRan
                      /\ Len(record.candidates) = Len(spec.candidates)
                      /\ {record.candidates[k].name : k \in DOMAIN record.candidates}
                           = {spec.candidates[i].name : i \in DOMAIN spec.candidates}
    BY DEF RecordIsComplete
  <2>1. record # NoRecord
    BY DEF Evidence, Checked
  <2>2. PICK n : n = Len(spec.candidates)
    OBVIOUS
  <2>3. /\ n \in Nat /\ DOMAIN results = 1..n /\ DOMAIN log = 1..n /\ DOMAIN spec.candidates = 1..n
        /\ DOMAIN record.candidates = 1..n /\ Len(record.candidates) = n
    BY <2>1, <2>2, Recorded
  <2>4. PICK at : Arranges(at, n)
    BY <2>1, <2>2, Recorded
  <2>5. \A i \in 1..n : results[i].name = spec.candidates[i].name /\ Len(log[i]) = inv.repeat
    BY <2>3 DEF IInv, Executed
  <2>6. EveryoneRan
    BY <2>3, <2>5 DEF EveryoneRan, Executions
  <2>7. \A k \in 1..n : at[k] \in 1..n /\ record.candidates[k].name = spec.candidates[at[k]].name
    BY <2>4, <2>5 DEF Arranges
  <2>8. ASSUME NEW i \in 1..n PROVE \E k \in 1..n : record.candidates[k].name = spec.candidates[i].name
    <3>1. PICK k \in 1..n : at[k] = i
      BY <2>4 DEF Arranges
    <3> QED
      BY <2>7, <3>1
  <2>9. {record.candidates[k].name : k \in 1..n} \subseteq {spec.candidates[i].name : i \in 1..n}
    BY <2>7
  <2>10. {spec.candidates[i].name : i \in 1..n} \subseteq {record.candidates[k].name : k \in 1..n}
    BY <2>8
  <2> QED
    BY <2>1, <2>2, <2>3, <2>6, <2>9, <2>10
<1> QED
  BY <1>1, InvariantHolds, EvidenceHolds, PTL

\* Each candidate of a record carries its own executions, their exact means and an
\* error that no later execution hides, however the scorer reorders the candidates.
THEOREM EvidenceIsAlwaysKept == Spec => []EvidenceIsKept
<1>1. IInv /\ Evidence => EvidenceIsKept
  <2> SUFFICES ASSUME IInv, Evidence, record # NoRecord, UniqueNames, NEW k \in DOMAIN record.candidates,
                      NEW c, c = record.candidates[k], NEW i, i = IndexOf(c.name)
               PROVE  /\ c.trials = [t \in 1..inv.repeat |-> Executions(i)[t].trial]
                      /\ c.error = 0 => Failures(i) = {}
                      /\ c.error # 0 => /\ c.error \in Failures(i) \cup Statuses(i)
                                        /\ \A t \in Failures(i) : c.error <= t
                      /\ \A m \in DOMAIN c.metrics :
                           LET carrying == {t \in 1..inv.repeat : m \in DOMAIN c.trials[t]}
                           IN  /\ c.metrics[m] * Cardinality(carrying)
                                    = SumFunction([t \in carrying |-> c.trials[t][m]])
                               /\ \A t \in carrying : c.trials[t][m] \in c.stats[m].min..c.stats[m].max
    BY DEF EvidenceIsKept
  <2>1. /\ i \in DOMAIN results /\ Executions(i) = log[i]
        /\ c.metrics = MeanMetrics(TrialsOf(i)) /\ c.error = FirstFailure(i)
        /\ c.trials = TrialsOf(i) /\ c.stats = ComputeStats(c.trials)
    BY Identified
  <2>2. /\ inv.repeat \in 0..MaxRepeat /\ DOMAIN c.trials = 1..inv.repeat
        /\ DOMAIN log[i] = 1..inv.repeat
        /\ \A t \in 1..inv.repeat : \A x \in DOMAIN c.trials[t] : c.trials[t][x] \in Exact
    BY <2>1, TrialsShape
  <2>3. c.trials = [t \in 1..inv.repeat |-> Executions(i)[t].trial]
    BY <2>1, <2>2 DEF TrialsOf
  <2>4. ASSUME NEW m \in DOMAIN c.metrics, NEW carrying, carrying = {t \in 1..inv.repeat : m \in DOMAIN c.trials[t]}
        PROVE  /\ c.metrics[m] * Cardinality(carrying) = SumFunction([t \in carrying |-> c.trials[t][m]])
               /\ \A t \in carrying : c.trials[t][m] \in c.stats[m].min..c.stats[m].max
    <3>1. carrying = Readings(c.trials, m)
      BY <2>2, <2>4 DEF Readings
    <3>2. c.metrics = MeanMetrics(c.trials) /\ c.stats = ComputeStats(c.trials)
      BY <2>1
    <3> QED
      BY <2>2, <3>1, <3>2, SummaryIsExact
  <2>5. /\ c.error = 0 => Failures(i) = {}
        /\ c.error # 0 => /\ c.error \in Failures(i) \cup Statuses(i)
                          /\ \A t \in Failures(i) : c.error <= t
    <3>1. c.error = IF Failures(i) = {} THEN 0 ELSE Min(Failures(i))
      BY <2>1 DEF FirstFailure
    <3>2. Failures(i) \subseteq 1..inv.repeat /\ inv.repeat \in Nat
      BY <2>1, <2>2, MeansAreExact DEF Failures
    <3>3. IsFiniteSet(Failures(i))
      <4>1. IsFiniteSet(1..inv.repeat)
        BY <3>2, FS_Interval
      <4> QED
        BY <3>2, <4>1, FS_Subset
    <3>4. ASSUME Failures(i) # {}
          PROVE  Min(Failures(i)) \in Failures(i) /\ \A t \in Failures(i) : Min(Failures(i)) <= t
      BY <3>2, <3>3, <3>4, Extremes
    <3> QED
      BY <3>1, <3>2, <3>4
  <2> QED
    BY <2>3, <2>4, <2>5
<1> QED
  BY <1>1, InvariantHolds, EvidenceHolds, PTL

\* What a trial says is what happened in it: the metrics that a plugin or eva
\* reported, and the exit code of a program that really ran.
THEOREM TrialsAreAlwaysTrue == Spec => []TrialsAreTrue
<1>1. IInv /\ Evidence => TrialsAreTrue
  <2> SUFFICES ASSUME IInv, Evidence, record # NoRecord, UniqueNames,
                      NEW k \in DOMAIN record.candidates, NEW t \in 1..inv.repeat
               PROVE  LET c        == record.candidates[k]
                          e        == Executions(IndexOf(c.name))[t]
                          trial    == c.trials[t]
                          reported == IF c.error # 0 \/ e.output = None THEN <<>> ELSE e.output
                      IN  /\ e.kind \in {"plugin", "eva"} =>
                               \A m \in DOMAIN reported : m \in DOMAIN trial /\ trial[m] = reported[m]
                          /\ (c.error = 0 /\ "exit_code" \in DOMAIN trial \ DOMAIN reported) =>
                               Ran(e.end) /\ trial["exit_code"] = e.end.code
    BY DEF TrialsAreTrue
  <2> SUFFICES ASSUME NEW c, c = record.candidates[k],
                      NEW e, e = Executions(IndexOf(c.name))[t],
                      NEW trial, trial = c.trials[t],
                      NEW reported, reported = IF c.error # 0 \/ e.output = None THEN <<>> ELSE e.output
               PROVE  /\ e.kind \in {"plugin", "eva"} =>
                           \A m \in DOMAIN reported : m \in DOMAIN trial /\ trial[m] = reported[m]
                      /\ (c.error = 0 /\ "exit_code" \in DOMAIN trial \ DOMAIN reported) =>
                           Ran(e.end) /\ trial["exit_code"] = e.end.code
    OBVIOUS
  <2>1. PICK i : i = IndexOf(c.name)
    OBVIOUS
  <2>2. /\ i \in DOMAIN results /\ Executions(i) = log[i]
        /\ c.error = FirstFailure(i) /\ c.trials = TrialsOf(i)
    BY <2>1, Identified
  <2>3. e = log[i][t] /\ trial = e.trial /\ Explained(spec.candidates[i], e)
    BY <2>1, <2>2, TrialsShape
  <2>4. CASE c.error = 0
    <3>1. ~Failure(spec.candidates[i], e)
      BY <2>2, <2>3, <2>4, FailureIsNumbered
    <3>2. reported = IF e.output = None THEN <<>> ELSE e.output
      BY <2>4
    <3> QED
      BY <2>3, <3>1, <3>2, TrialIsTrue
  <2>5. CASE c.error # 0
    BY <2>5, EmptyIsSequence
  <2> QED
    BY <2>4, <2>5
<1> QED
  BY <1>1, InvariantHolds, EvidenceHolds, PTL

\* A ranked run in which all went well has a winner, and no sound mean is better than
\* that of a sound winner.
THEOREM WinnerIsAlwaysBest == Spec => []WinnerIsBest
<1>1. IInv /\ Evidence => WinnerIsBest
  <2> SUFFICES ASSUME IInv, Evidence, record # NoRecord
               PROVE  /\ spec.scorer.kind = "raw" => record.winner = None
                      /\ (spec.scorer.kind # "raw" /\ \A i \in DOMAIN results : Sound(i)) => record.winner # None
                      /\ (spec.scorer.kind = "single" /\ record.winner # None) =>
                           \E i \in DOMAIN results :
                             /\ results[i].name = record.winner
                             /\ Comparable(i) =>
                                  \A j \in DOMAIN results : Comparable(j) =>
                                    ~Better(spec.scorer, results[j].metrics[spec.scorer.metric],
                                                         results[i].metrics[spec.scorer.metric])
    BY DEF WinnerIsBest
  <2>1. PICK n : n = Len(spec.candidates)
    OBVIOUS
  <2>2. /\ n \in Nat /\ n > 0 /\ DOMAIN results = 1..n /\ DOMAIN spec.candidates = 1..n
        /\ DOMAIN record.candidates = 1..n /\ Len(results) = n /\ Built
        /\ record.winner = IF spec.scorer.kind = "raw" THEN None ELSE WinnerOf(record.candidates)
    BY <2>1, Recorded DEF IInv, Stages, Built
  <2>3. PICK at : Arranges(at, n)
    BY <2>1, Recorded
  <2>4. CASE spec.scorer.kind = "raw"
    BY <2>2, <2>4
  <2>5. CASE spec.scorer.kind # "raw"
    <3>0. 1 \in 1..n /\ at[1] \in 1..n
      BY <2>2, <2>3 DEF Arranges
    <3>1. PICK i \in 1..n : /\ i = at[1] /\ RankOf(spec.scorer, ScoreOf(MetricsOf, spec.scorer), i) = 1
                            /\ record.candidates[1].name = results[i].name
      BY <2>3, <2>5, <3>0 DEF Arranges
    <3>2. (CHOOSE k \in DOMAIN record.candidates : record.candidates[k].rank = 1) = 1
      <4>1. \A k \in 1..n : record.candidates[k].rank = k
        BY <2>3, <2>5 DEF Arranges
      <4> QED
        BY <2>2, <3>0, <4>1
    <3>3. record.winner = results[i].name
      BY <2>2, <2>5, <3>1, <3>2 DEF WinnerOf
    <3>4. results[i].name # None
      <4>1. results[i].name = spec.candidates[i].name
        BY <2>2 DEF IInv, Executed
      <4>2. spec = Loaded(inv) /\ Loaded(inv) # None /\ inv \in Invocations
        BY <2>2 DEF IInv, Shape, Stages, Proceeding
      <4> QED
        BY <2>2, <4>1, <4>2, SuiteAssumption
    <3>5. ASSUME spec.scorer.kind = "single", NEW j \in 1..n
          PROVE  ~Better(spec.scorer, MetricOf(results[j].metrics, spec.scorer.metric),
                                      MetricOf(results[i].metrics, spec.scorer.metric))
      <4>1. PICK s \in [1..n -> Int] : s = ScoreOf(MetricsOf, spec.scorer)
        BY <2>2, <2>5, ScoresOfRun
      <4>2. \A a \in 1..n : s[a] = MetricOf(results[a].metrics, spec.scorer.metric)
        BY <2>2, <3>5, <4>1 DEF ScoreOf, MetricsOf
      <4>3. ~Precedes(spec.scorer, s, j, i)
        <5>1. RankOf(spec.scorer, s, j) \in 1..n
          BY <2>2, RankBounds
        <5>2. Precedes(spec.scorer, s, j, i) => RankOf(spec.scorer, s, j) < RankOf(spec.scorer, s, i)
          BY <2>2, RankFollowsOrder
        <5> QED
          BY <2>2, <3>1, <4>1, <5>1, <5>2
      <4> QED
        BY <4>2, <4>3 DEF Precedes
    <3>6. ASSUME spec.scorer.kind = "single", Comparable(i), NEW j \in 1..n, Comparable(j)
          PROVE  ~Better(spec.scorer, results[j].metrics[spec.scorer.metric],
                                      results[i].metrics[spec.scorer.metric])
      <4>1. \A a \in {i, j} :
              MetricOf(results[a].metrics, spec.scorer.metric) = results[a].metrics[spec.scorer.metric]
        BY <3>6 DEF Comparable, MetricOf
      <4> QED
        BY <3>5, <3>6, <4>1
    <3> QED
      BY <2>2, <2>5, <3>3, <3>4, <3>6
  <2> QED
    BY <2>4, <2>5
<1> QED
  BY <1>1, InvariantHolds, EvidenceHolds, PTL

\* What a run is ranked by, and what its suite asks for, was measured.
THEOREM RankingsHaveEvidence == Spec => []RankingHasEvidence
<1>1. IInv /\ Evidence => RankingHasEvidence
  <2> SUFFICES ASSUME IInv, Evidence, record # NoRecord
               PROVE  /\ spec.scorer.kind = "single" =>
                           \E i \in DOMAIN log : \E t \in DOMAIN log[i] : spec.scorer.metric \in DOMAIN log[i][t].trial
                      /\ \A m \in spec.metrics, i \in DOMAIN spec.candidates :
                           \E t \in DOMAIN Executions(i) : m \in DOMAIN Executions(i)[t].trial
    BY DEF RankingHasEvidence
  <2>1. PICK n : n = Len(spec.candidates)
    OBVIOUS
  <2>2. DOMAIN results = 1..n /\ DOMAIN log = 1..n /\ DOMAIN spec.candidates = 1..n
    BY <2>1, Recorded
  <2>3. Unavailable = {} /\ ~ScoredMetricMissing /\ inv.repeat >= 1
    BY DEF Evidence, Checked, Built
  <2>4. ASSUME NEW i \in 1..n, NEW m \in DOMAIN results[i].metrics
        PROVE  \E t \in DOMAIN log[i] : m \in DOMAIN log[i][t].trial
    <3>1. results[i].metrics = MeanMetrics(TrialsOf(i))
      BY <2>2 DEF Evidence, Summarised
    <3>2. Readings(TrialsOf(i), m) # {}
      BY <2>2, <2>4, <3>1, TrialsShape, SummaryIsExact
    <3> QED
      BY <2>2, <3>2, TrialsShape DEF Readings
  <2>5. ASSUME spec.scorer.kind = "single"
        PROVE  \E i \in DOMAIN log : \E t \in DOMAIN log[i] : spec.scorer.metric \in DOMAIN log[i][t].trial
    <3>1. PICK i \in 1..n : spec.scorer.metric \in DOMAIN results[i].metrics
      BY <2>2, <2>3, <2>5 DEF ScoredMetricMissing
    <3> QED
      BY <2>2, <2>4, <3>1
  <2>6. ASSUME NEW m \in spec.metrics, NEW i \in 1..n
        PROVE  \E t \in DOMAIN log[i] : m \in DOMAIN log[i][t].trial
    <3>1. m \in ToCollect
      BY DEF ToCollect
    <3>2. CASE m \in registered
      <4>1. 1 \in DOMAIN log[i] /\ Explained(spec.candidates[i], log[i][1])
        BY <2>2, <2>3, TrialsShape, MeansAreExact
      <4>2. PICK e : e = log[i][1]
        OBVIOUS
      <4>3. PICK result : result = Run(spec.candidates[i], e.end, e.output, e.cut)
        OBVIOUS
      <4>4. PICK measured : e.trial = TrialOf(result, measured)
        BY <4>1, <4>2, <4>3 DEF Explained
      <4>5. m \in DOMAIN e.trial
        BY <3>1, <3>2, <4>4 DEF TrialOf
      <4> QED
        BY <4>1, <4>2, <4>5
    <3>3. CASE m \notin registered
      <4>1. m \in DOMAIN results[i].metrics
        BY <2>2, <2>3, <3>1, <3>3 DEF Unavailable
      <4> QED
        BY <2>4, <4>1
    <3> QED
      BY <3>2, <3>3
  <2>7. \A i \in 1..n : Executions(i) = log[i]
    BY <2>2 DEF Executions
  <2> QED
    BY <2>2, <2>5, <2>6, <2>7
<1> QED
  BY <1>1, InvariantHolds, EvidenceHolds, PTL
=============================================================================
