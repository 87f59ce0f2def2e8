------------------------------ MODULE Pipeline ------------------------------
(***************************************************************************)
(* `ben run` (cmd/ben/run.go, runBenchmark), one invocation from the flags *)
(* to the exit code: load the suite, register the metric plugins of the    *)
(* configuration, execute every candidate --repeat times, check what was   *)
(* measured, rank, build the run record, persist and report it.            *)
(*                                                                         *)
(* What the programs and services behind the adapters do is chosen by the  *)
(* environment and remembered in log, and the context of the command may   *)
(* end at any time.  The steps of persisting are BenStore's; here they     *)
(* succeed or not.                                                         *)
(***************************************************************************)
EXTENDS Adapters

CONSTANTS
  Invocations,    \* flags, and what the file behind --suite holds
  PluginConfigs,  \* values of plugins.metrics in the configuration
  Builtins,       \* metrics registered by init functions
  MaxRepeat,      \* bound on --repeat
  MaxTroubles     \* bound on the executions that do not succeed

\* A mean is then an integer.
ASSUME MeansAreExact ==
  /\ MaxRepeat \in Nat
  /\ \A v \in Values \cup ExitCodes \cup {Unit}, n \in 1..MaxRepeat : v % n = 0

ASSUME PipelineAssumption ==
  /\ Builtins \subseteq MetricNames /\ Builtins # {}
  /\ MaxTroubles \in Nat
  /\ "accuracy" \in MetricNames  \* reported by the eva adapter
  /\ None \notin {"ok", "error", "panic"}
  /\ \A i \in Invocations : i.repeat \in 0..MaxRepeat
  /\ \A cfg \in PluginConfigs : \A j \in DOMAIN cfg : cfg[j].name \in MetricNames

VARIABLES
  inv,           \* the invocation; never changes
  plugins,       \* its metric plugins; never changes
  pc,            \* next stage, or "exit"
  exit,          \* None, "ok", "error" or "panic"
  registered,    \* metrics.registry
  plan,          \* what a dry run with the same flags printed before
  spec,          \* the loaded suite
  results,       \* scorerInputs
  trials,        \* trials of the current candidate
  err,           \* its cr.Err: number of the failing trial, or 0
  trialsByName,
  record,        \* the run.Run that was built, or NoRecord
  stored,        \* what Save wrote, or NoRecord
  log,           \* for each candidate started, its executions
  cancelled      \* the context of the command has ended

vars == <<inv, plugins, plan, pc, exit, registered, spec, results, trials, err,
          trialsByName, record, stored, log, cancelled>>

-----------------------------------------------------------------------------
(* internal/spec and internal/plugin *)

Valid(s) ==
  /\ s.named
  /\ s.candidates # <<>>
  /\ \A i \in DOMAIN s.candidates :
       s.candidates[i].name # "" /\ s.candidates[i].adapter # ""

\* FromFlags.ToSpec: a weight that does not parse is dropped silently.
ToSpec(f) ==
  [named      |-> TRUE,
   candidates |-> f.candidates,
   metrics    |-> f.metrics,
   scorer     |-> IF f.scorer.kind = "weighted"
                  THEN [f.scorer EXCEPT !.weights = Restrict(@, DOMAIN @ \ f.malformed)]
                  ELSE f.scorer]

\* the spec that --suite or the inline flags give, or None
Loaded(i) ==
  IF i.suite # None
  THEN IF i.suite.readable /\ Valid(i.suite.spec) THEN i.suite.spec ELSE None
  ELSE IF i.flags.candidates = <<>> THEN None ELSE ToSpec(i.flags)

\* --suite and --task exclude each other
Contradictory(i) == i.suite # None /\ i.task

EffectNameRaw(adapter) == adapter  \* mutated: no default
EffectName(adapter)    == IF adapter = "" THEN "cli" ELSE adapter

\* the plan of a dry run
Effects(s) ==
  [i \in DOMAIN s.candidates |->
     [name |-> s.candidates[i].name, adapter |-> EffectName(s.candidates[i].adapter)]]

ASSUME SuiteAssumption ==
  \A i \in Invocations : LET s == Loaded(i) IN s # None =>
    /\ s.candidates \in Seq({s.candidates[k] : k \in DOMAIN s.candidates})
    /\ \A k \in DOMAIN s.candidates : s.candidates[k].name # None
    /\ s.scorer.kind = "weighted" =>
         /\ DOMAIN s.scorer.weights \subseteq MetricNames
         /\ \A m \in DOMAIN s.scorer.weights : s.scorer.weights[m] \in Int
    /\ Effects(s) # None

RunnableAdapters(path) == BuiltinAdapters \cup DiscoverAll(path)

\* LoadMetricPlugins stops at a bad entry with an error, and Register panics at
\* a name that is taken; what was registered before stays.
JudgesBefore(cfg, i) == {cfg[j].name : j \in {j \in DOMAIN cfg : j < i /\ cfg[j].type = "llm_judge"}}
BadPlugin(cfg, i)    == cfg[i].type = "unknown" \/ (cfg[i].type = "llm_judge" /\ ~cfg[i].complete)
TakenPlugin(cfg, i)  == cfg[i].type = "llm_judge" /\ cfg[i].name \in Builtins \cup JudgesBefore(cfg, i)
StopsAt(cfg)         == {i \in DOMAIN cfg : BadPlugin(cfg, i) \/ TakenPlugin(cfg, i)}

-----------------------------------------------------------------------------
(* internal/run/stats.go *)

\* metrics of at least one trial; each summarised over the trials that carry it
ComputeStats(ts) ==
  [m \in UNION {DOMAIN ts[i] : i \in DOMAIN ts} |->
     LET carrying == {i \in DOMAIN ts : m \in DOMAIN ts[i]}
     IN  [mean |-> SumFunction([i \in carrying |-> ts[i][m]]) \div Cardinality(carrying),
          min  |-> Min({ts[i][m] : i \in carrying}),
          max  |-> Max({ts[i][m] : i \in carrying}),
          n    |-> Cardinality(carrying)]]

MeanMetrics(ts) == LET stats == ComputeStats(ts) IN [m \in DOMAIN stats |-> stats[m].mean]

-----------------------------------------------------------------------------
(* One execution *)

ToCollect == IF spec.metrics = {} THEN registered ELSE spec.metrics

\* what the clock and the metric plugins read, for the metrics the result leaves open
Samples(result) ==
  LET open == (ToCollect \cap registered) \ (Determined \cup DOMAIN result.reported)
  IN  {s \in [open -> Values \cup JudgeScores] :
         \A m \in open : s[m] \in IF m \in Builtins THEN Values ELSE JudgeScores}

TrialOfCollected(result, measured) ==  \* mutated: what was reported is overwritten
  [m \in DOMAIN result.reported \cup (ToCollect \cap registered) |->
     IF m \in DOMAIN result.reported \ (ToCollect \cap Determined)
     THEN result.reported[m] ELSE Collect(m, result, measured)]

\* metrics the adapter reported, then the requested ones that ben knows
TrialOf(result, measured) ==
  [m \in DOMAIN result.reported \cup (ToCollect \cap registered) |->
     IF m \in DOMAIN result.reported THEN result.reported[m] ELSE Collect(m, result, measured)]

FirstErrorLast(failed) ==  \* mutated: a later error replaces the first
  IF failed THEN Len(trials) + 1 ELSE err
FirstError(failed) == IF failed /\ err = 0 THEN Len(trials) + 1 ELSE err

-----------------------------------------------------------------------------
NoRecord == [candidates |-> <<>>, winner |-> None]  \* the zero value of run.Run

Init ==
  /\ inv \in Invocations /\ plugins \in PluginConfigs
  /\ pc = IF inv.preview THEN "preview" ELSE "load"
  /\ exit = None /\ plan = None
  /\ registered = Builtins
  /\ spec = None /\ results = <<>> /\ trials = <<>> /\ err = 0
  /\ trialsByName = <<>> /\ record = NoRecord /\ stored = NoRecord
  /\ log = <<>> /\ cancelled = FALSE

Exit(code) == pc' = "exit" /\ exit' = code

GoTo(stage) == pc' = stage /\ UNCHANGED exit

Measured == <<results, trials, err, trialsByName, log, cancelled>>
Output   == <<record, stored>>

\* The user, or whoever runs the command, gives up.
Cancel ==
  /\ pc # "exit" /\ ~cancelled
  /\ cancelled' = TRUE
  /\ UNCHANGED <<inv, plugins, plan, pc, exit, registered, spec, results, trials, err,
                 trialsByName, log, Output>>

\* runDryRun loads the suite as the run does and checks nothing else.
DryRun ==
  /\ pc = "preview"
  /\ plan' = IF Loaded(inv) = None \/ Contradictory(inv) THEN None ELSE Effects(Loaded(inv))
  /\ GoTo("load")
  /\ UNCHANGED <<inv, plugins, registered, spec, Measured, Output>>

LoadSpec ==
  /\ pc = "load"
  /\ spec' = Loaded(inv)
  /\ IF inv.repeat < 1 \/ Contradictory(inv) \/ spec' = None
     THEN Exit("error")
     ELSE GoTo("plugins")
  /\ UNCHANGED <<inv, plugins, plan, registered, Measured, Output>>

LoadMetricPlugins ==
  /\ pc = "plugins"
  /\ LET stop == StopsAt(plugins)
     IN  IF stop = {}
         THEN /\ registered' = Builtins \cup JudgesBefore(plugins, Len(plugins) + 1)
              /\ GoTo("parse")
         ELSE /\ registered' = Builtins \cup JudgesBefore(plugins, Min(stop))
              /\ Exit(IF BadPlugin(plugins, Min(stop)) THEN "error" ELSE "panic")
  /\ UNCHANGED <<inv, plugins, plan, spec, Measured, Output>>

ParseScorer ==
  /\ pc = "parse"
  /\ IF ParseSucceeds(spec.scorer) THEN GoTo("candidate") ELSE Exit("error")
  /\ UNCHANGED <<inv, plugins, plan, registered, spec, Measured, Output>>

Current == spec.candidates[Len(results) + 1]

UnknownAdapterSkipped ==  \* mutated: what ran so far is scored
  GoTo("score")
UnknownAdapter == Exit("error")

NextCandidate ==
  /\ pc = "candidate" /\ Len(results) < Len(spec.candidates)
  /\ IF Current.adapter \in RunnableAdapters(inv.path) THEN GoTo("trial") ELSE UnknownAdapter
  /\ trials' = <<>> /\ err' = 0
  /\ log' = Append(log, <<>>)
  /\ UNCHANGED <<inv, plugins, plan, registered, spec, results, trialsByName, cancelled, Output>>

MoreTrialsLate == Len(trials) <= inv.repeat  \* mutated: one too many
MoreTrials     == Len(trials) < inv.repeat

\* executions that neither succeeded nor were cut short, for the bound
Troubles ==
  {at \in (DOMAIN log) \X (1..MaxRepeat) :
     at[2] \in DOMAIN log[at[1]]
       /\ LET end == log[at[1]][at[2]].end IN ~Succeeded(end) /\ end # Interrupted}

\* The loop goes on after an error, and after the context has ended.
ExecuteTrial ==
  /\ pc = "trial" /\ MoreTrials
  /\ cancelled' \in {cancelled, TRUE}
  /\ \E end \in EndsOf(Kind(Current.adapter), cancelled, cancelled') :
       /\ ~Succeeded(end) /\ end # Interrupted => Cardinality(Troubles) < MaxTroubles
       /\ \E output \in Outputs(Kind(Current.adapter), end) :
            LET result == Run(Current, end, output, cancelled')
            IN  /\ err' = FirstError(result.err # None)
                /\ \E measured \in Samples(result) :
                     LET trial == TrialOf(result, measured)
                     IN  /\ trials' = Append(trials, trial)
                         /\ log' = [log EXCEPT ![Len(results) + 1] =
                                      Append(@, [kind |-> Kind(Current.adapter), end |-> end, output |-> output,
                                                 cut |-> cancelled', trial |-> trial])]
  /\ UNCHANGED <<inv, plugins, plan, pc, exit, registered, spec, results, trialsByName, Output>>

FinishCandidate ==
  /\ pc = "trial" /\ ~MoreTrials
  /\ results' = Append(results, [name |-> Current.name, metrics |-> MeanMetrics(trials), err |-> err])
  /\ trialsByName' = [n \in DOMAIN trialsByName \cup {Current.name} |->
                        IF n = Current.name THEN trials ELSE trialsByName[n]]
  /\ GoTo("candidate")
  /\ UNCHANGED <<inv, plugins, plan, registered, spec, trials, err, log, cancelled, Output>>

\* a requested metric that ben does not know and some candidate did not report
Unavailable == {m \in ToCollect \ registered : \E i \in DOMAIN results : m \notin DOMAIN results[i].metrics}

ScoredMetricMissingNever == FALSE  \* mutated: a metric nobody has is a ranking of zeros
ScoredMetricMissing ==
  /\ spec.scorer.kind = "single"
  /\ \A i \in DOMAIN results : spec.scorer.metric \notin DOMAIN results[i].metrics

CheckMetrics ==
  /\ pc = "candidate" /\ Len(results) = Len(spec.candidates)
  /\ IF Unavailable # {} \/ ScoredMetricMissing THEN Exit("error") ELSE GoTo("score")
  /\ UNCHANGED <<inv, plugins, plan, registered, spec, Measured, Output>>

WinnerLast(cs) == cs[Len(cs)].name  \* mutated: the wrong end of the ranking
WinnerOf(cs)   == cs[CHOOSE k \in DOMAIN cs : cs[k].rank = 1].name

\* The run as the scorer orders it, each candidate with its trials.
BuiltRun ==
  LET metricsOf == [i \in DOMAIN results |-> results[i].metrics]
      scored    == Score(metricsOf, spec.scorer)
      built     == [k \in DOMAIN scored |->
                      LET cr == results[scored[k].cand]
                      IN  [name    |-> cr.name,
                           metrics |-> cr.metrics,
                           error   |-> cr.err,
                           trials  |-> trialsByName[cr.name],
                           stats   |-> ComputeStats(trialsByName[cr.name]),
                           score   |-> scored[k].score,
                           rank    |-> scored[k].rank]]
  IN  [candidates |-> built,
       winner     |-> IF spec.scorer.kind = "raw" THEN None ELSE WinnerOf(built)]

ScoreAndBuild ==
  /\ pc = "score"
  /\ record' = BuiltRun
  /\ GoTo("persist")
  /\ UNCHANGED <<inv, plugins, plan, registered, spec, Measured, stored>>

SaveRefusedNever == FALSE  \* mutated: Save runs under a context of its own
SaveRefused == cancelled

\* A data directory that does not open ends the command; a failed Save or
\* IndexRun is a warning.  Statements under a context that has ended fail.
Persist ==
  /\ pc = "persist"
  /\ \/ Exit("error") /\ UNCHANGED stored
     \/ GoTo("report") /\ stored' \in IF SaveRefused THEN {NoRecord} ELSE {record, NoRecord}
  /\ UNCHANGED <<inv, plugins, plan, registered, spec, Measured, record>>

\* An unknown format, or a reporter plugin or a writer that fails.
Report ==
  /\ pc = "report"
  /\ Exit("ok") \/ Exit("error")
  /\ UNCHANGED <<inv, plugins, plan, registered, spec, Measured, Output>>

Next ==
  \/ DryRun \/ LoadSpec \/ LoadMetricPlugins \/ ParseScorer
  \/ NextCandidate \/ ExecuteTrial \/ FinishCandidate
  \/ CheckMetrics \/ ScoreAndBuild \/ Persist \/ Report
  \/ Cancel

Spec == Init /\ [][Next]_vars

-----------------------------------------------------------------------------
Executions(i) == IF i \in DOMAIN log THEN log[i] ELSE <<>>

UniqueNames == \A i, j \in DOMAIN spec.candidates :
                 spec.candidates[i].name = spec.candidates[j].name => i = j

\* What adapter.go:28-35 counts as an infrastructure failure, of the world and not
\* of the adapter's code: a call that did not run to its end, and an answer that
\* cannot be used after a success.  A status other than 0 is none.
Failure(c, e) ==
  \/ ~Ran(e.end)
  \/ e.cut /\ ~Succeeded(e.end)
  \/ e.kind = "plugin" /\ Succeeded(e.end) /\ e.output = None
  \/ e.kind = "llm" /\ c.provider \notin {"claude", "gpt"}

Failures(i) == {t \in DOMAIN Executions(i) : Failure(spec.candidates[i], Executions(i)[t])}

\* executions that exited with a status other than 0
Statuses(i) == {t \in DOMAIN Executions(i) : Ran(Executions(i)[t].end) /\ Executions(i)[t].end.code # 0}

\* every execution of candidate i went well
Sound(i) == Failures(i) = {} /\ Statuses(i) = {}

\* Type invariant, with the bounds the loops keep.
TypeOK ==
  /\ pc \in {"preview", "load", "plugins", "parse", "candidate", "trial", "score", "persist", "report", "exit"}
  /\ exit \in {None, "ok", "error", "panic"} /\ (pc = "exit") = (exit # None)
  /\ Builtins \subseteq registered /\ registered \subseteq MetricNames
  /\ Len(trials) <= inv.repeat /\ err \in 0..Len(trials)
  /\ spec # None => Len(results) <= Len(spec.candidates)
  /\ stored \in {NoRecord, record}

\* Every candidate of the suite was executed --repeat times.
EveryoneRan == \A i \in DOMAIN spec.candidates : Len(Executions(i)) = inv.repeat

\* A record is built, and so stored, only when every candidate of the suite was
\* executed --repeat times and appears in it once: an abort in the middle of the
\* candidates (run.go:150-157) leaves no partial run behind, ranking what ran, and
\* exit code 0 is never the outcome of one.
RecordIsComplete ==
  (record # NoRecord \/ exit = "ok") =>
    /\ record # NoRecord
    /\ EveryoneRan
    /\ Len(record.candidates) = Len(spec.candidates)
    /\ {record.candidates[k].name : k \in DOMAIN record.candidates}
         = {spec.candidates[i].name : i \in DOMAIN spec.candidates}

IndexOf(name) == CHOOSE i \in DOMAIN spec.candidates : spec.candidates[i].name = name

\* However the scorer reorders them, each candidate of the record carries its own
\* executions, their means, and an error that is the first of its own: no failure is
\* lost to a later execution that went well, or to a later failure, and there is none
\* where every execution went well (run.go:165-216).  Whether a status other than 0 is
\* an error is left open: adapter.go:28-30 denies it, US-BEN-0208:22 asks for it.
\* Names must be unique, see MetricsMatchTrials.
EvidenceIsKept ==
  (record # NoRecord /\ UniqueNames) =>
    \A k \in DOMAIN record.candidates :
      LET c == record.candidates[k]
          i == IndexOf(c.name)
      IN  /\ c.trials = [t \in 1..inv.repeat |-> Executions(i)[t].trial]
          /\ c.error = 0 => Failures(i) = {}
          /\ c.error # 0 => /\ c.error \in Failures(i) \cup Statuses(i)
                            /\ \A t \in Failures(i) : c.error <= t
          /\ \A m \in DOMAIN c.metrics :
               LET carrying == {t \in 1..inv.repeat : m \in DOMAIN c.trials[t]}
               IN  /\ c.metrics[m] * Cardinality(carrying)
                        = SumFunction([t \in carrying |-> c.trials[t][m]])
                   /\ \A t \in carrying : c.trials[t][m] \in c.stats[m].min..c.stats[m].max

\* What a trial says is what happened in it.  A metric that a plugin or eva reported
\* is recorded as reported, also if ben has a metric of that name (run.go:202-205);
\* and a candidate without an error has the exit codes of its own programs, so that
\* 0 means success although Run leaves 0 behind when nothing could be started.
TrialsAreTrue ==
  (record # NoRecord /\ UniqueNames) =>
    \A k \in DOMAIN record.candidates, t \in 1..inv.repeat :
      LET c        == record.candidates[k]
          e        == Executions(IndexOf(c.name))[t]
          trial    == c.trials[t]
          reported == IF c.error # 0 \/ e.output = None THEN <<>> ELSE e.output
      IN  /\ e.kind \in {"plugin", "eva"} =>
               \A m \in DOMAIN reported : m \in DOMAIN trial /\ trial[m] = reported[m]
          /\ (c.error = 0 /\ "exit_code" \in DOMAIN trial \ DOMAIN reported) =>
               Ran(e.end) /\ trial["exit_code"] = e.end.code

\* A run whose executions were cut short by the end of the context is ranked and
\* reported with success, but not kept: it cannot become a baseline (run.go:189,
\* 321, storage.go:74).
NothingCancelledIsStored ==
  stored # NoRecord =>
    \A i \in DOMAIN log : \A t \in DOMAIN log[i] : log[i][t].end # Interrupted

\* whether the rank of candidate i under a single metric is beyond dispute
Comparable(i) == Sound(i) /\ spec.scorer.metric \in DOMAIN results[i].metrics

\* A run that is not ranked has no winner, and a ranked one in which everything went
\* well has one; and no sound measured mean is better than the winner's, if that is
\* one too (run.go:279-288).  Candidates that failed or lack the metric are left open:
\* see ErroredRanksLast, and US-BEN-0101:66, where nobody wins if all fail.
WinnerIsBest ==
  record # NoRecord =>
    /\ spec.scorer.kind = "raw" => record.winner = None
    /\ (spec.scorer.kind # "raw" /\ \A i \in DOMAIN results : Sound(i)) => record.winner # None
    /\ (spec.scorer.kind = "single" /\ record.winner # None) =>
         \E i \in DOMAIN results :
           /\ results[i].name = record.winner
           /\ Comparable(i) =>
                \A j \in DOMAIN results : Comparable(j) =>
                  ~Better(spec.scorer, results[j].metrics[spec.scorer.metric],
                                       results[i].metrics[spec.scorer.metric])

\* "a bogus single:<metric> must be an error, not a silent all-zero ranking"
\* (run.go:235-237): what a stored run is ranked by was measured in an execution,
\* and so was every metric the suite asks for, for each candidate.
RankingHasEvidence ==
  record # NoRecord =>
    /\ spec.scorer.kind = "single" =>
         \E i \in DOMAIN log : \E t \in DOMAIN log[i] : spec.scorer.metric \in DOMAIN log[i][t].trial
    /\ \A m \in spec.metrics, i \in DOMAIN spec.candidates :
         \E t \in DOMAIN Executions(i) : m \in DOMAIN Executions(i)[t].trial

\* What a dry run announces is what the run with the same flags and files does: it
\* runs if anything does, and executes the announced candidates in that order, each
\* with the announced adapter (run.go:347-418).
PlanIsKept ==
  (inv.preview /\ record # NoRecord) =>
    /\ plan # None /\ Len(plan) = Len(log)
    /\ \A i \in DOMAIN plan :
         /\ plan[i].name = results[i].name
         /\ \A t \in DOMAIN log[i] :
              log[i][t].kind = IF plan[i].adapter \in BuiltinAdapters THEN plan[i].adapter ELSE "plugin"

-----------------------------------------------------------------------------
(* What the documents say and the code does not do. *)

\* docs/stories/US-BEN-0109:65 says of a candidate that fails mid-run: error set,
\* rank last; 0101:64 of one that is not on the PATH: the other is ranked 1.
ErroredRanksLast ==
  (record # NoRecord /\ spec.scorer.kind # "raw") =>
    \A k, l \in DOMAIN record.candidates :
      (record.candidates[k].error # 0 /\ record.candidates[l].error = 0)
        => record.candidates[l].rank < record.candidates[k].rank

\* run/run.go:14-17 says that Metrics holds the per-metric mean across Trials.
MetricsMatchTrials ==
  record # NoRecord =>
    \A k \in DOMAIN record.candidates :
      record.candidates[k].metrics = MeanMetrics(record.candidates[k].trials)
=============================================================================
