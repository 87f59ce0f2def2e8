# A formal model of ben

`ben` (Go, `cmd/ben` and `internal/`) benchmarks candidates: it executes each of
them, collects metrics, ranks them, stores the run in SQLite, compares stored
runs, and exchanges them with a remote registry. This directory models that
program in TLA+, checks the models with TLC on small instances and proves the
theorems listed below with TLAPS for every instance. Every definition is
translated from the source; `PROJECT.json` maps it to its lines.

## 1. Inventory

`ben` is a command-line program: **each command is a process of its own**, with one
goroutine of interest. Nothing is shared inside a process; processes share a file and
a server, and read files that a user edits. Four kinds of hard behaviour follow: two
commands that interleave in the store, a command that fails, is cancelled or is killed
half-way, a command that reads a tree of files while it changes, and sequential logic
whose result people act upon (who won, did it regress) but whose corner cases no test
enumerates.

| Part (source) | State | Operations | Interacts with | What makes it correct |
|---|---|---|---|---|
| **Run store** (`storage.go`) | SQLite file `<data dir>/ben.db`: tables `runs`, `kv`, `registry` | Open, Save (two statements), Get, List, IndexRun, MarkPushed | every command that persists or reads; several processes at once | what can be shown is listed; marks are true and never lost; a command that reports success has done its work |
| **Registry client, push, pull** (`remote.go`, `registry.go`) | none but the reply in hand | POST a run then mark it; GET runs then save and index each | store, HTTP server | lost answers are repaired by a retry; pull is all or an error; only a silent registry keeps a command from ending |
| **Scorer** (`scorer.go`) | none | Parse, Score (raw, single, weighted) | pipeline | the `Scorer` contract: ranks 1..n that follow the scores; dominance; monotonicity |
| **Run pipeline** (`run.go`) | locals of `runBenchmark`: spec, results, trials, record | dry run, load, register plugins, parse strategy, execute, check metrics, score, persist, report | everything above and below | a record is complete, its evidence is true and belongs to it, no sound measurement beats its winner's; what is cut short is not kept; a dry run announces what runs |
| **Specs** (`spec.go`) | none | Load, validate, ToSpec, Template | pipeline, suites | invalid suites are rejected before anything is executed |
| **Statistics** (`stats.go`) | none | ComputeStats, MeanMetrics | pipeline | a mean ranges over the trials that carry the metric |
| **Metric registry, plugins** (`metric.go`, `plugin/config.go`) | a map of metrics, per process | Register (panics on a duplicate), Get, All, LoadMetricPlugins | pipeline | only known metrics rank a run |
| **Compare and gate** (`compare.go`, `gate.go`) | locals of `compareRuns` | parse flags, load, diff, gate, exit | store | the gate fails closed, raises no false alarm, composes |
| **list, show** (`list.go`, `show.go`) | none | List, Get | store | see the store |
| **Adapters** (`adapter/`) | none | Run of cli, llm, eva and plugins | pipeline, shell, HTTP | always a result, and an error with it exactly for an infrastructure failure |
| **Collectors, LLM judge** (`metrics/`) | none | Collect | pipeline, HTTP | a metric says what the execution did |
| **Plugin discovery** (`plugin/`) | none | DiscoverAll | pipeline, PATH | a name means one program |
| **Suite discovery** (`suite.go`) | none | scan two directories, dedupe, find | specs, files under edit | list and show agree on which suite a name means; nothing is hidden by a broken neighbour |
| **Configuration chain** (`main.go`) | viper | merge layers; report layers | all commands, files under edit | settings are layered; the reported file is the one that wins; only a broken or vanished file is an error |
| Reporters, structured errors, wiring | none | | | formatting and output |

The hazards of this code, each at the line where it bites and with the properties
that would catch it, are the list `hazards` of `PROJECT.json`.

## 2. The models

```
RunLedger  <--implements--  BenStore      run store, push, pull, list, show, run's persist phase
                               ^ BenStoreProofs
Scoring (operators)  <-- Scorer          one call of the scorer, any input
   ^         ^                 ^ ScorerProofs
   |         +-- ScoringFacts            lemmas on ranks and scores
   +-- Adapters <-- Pipeline             ben run, from flags to outcome
                      ^ PipelineProofs
Compare  <-- CompareProofs               ben compare and its regression gate
Workspace  <-- WorkspaceProofs           config path, suite list, suite show
DataFacts <-- SumFacts                   lemmas on sequences, sums, extremes
```

`MCBenStore`, `MCScorer`, `MCPipeline`, `MCCompare` and `MCWorkspace` give the
instances.
Operators whose comment says *mutated* are plausible bugs of the operator that
follows them; the specification never uses them.

**BenStore.** `rows`, `kv` and `index` are the three tables in each data
directory, `remote` the registries, `benDirs` the working directories that hold a
`.ben/`. A process has a step `pc[p]` and a `job[p]` (its command, directory, run
and what it fetched). One action is one SQL statement or one HTTP leg, because
each statement commits by itself and `Save` opens no transaction: `InsertRow` and
`PutKv` are `Store.Save`, `IndexRun` and `MarkPushed` the methods of that name,
`ServerStores` and `ReplyArrives` the two halves of `RemoteClient.Push`, `Fetch`
and `NextPulled` `registryPull` and its loop. `SaveFails` and `IndexFails`
distinguish run, which warns and goes on, from pull, which stops; `StepFails` is
every error that ends a command; `Crash` kills a process anywhere. A record never
changes under its ULID, so a table is a set of ids. A registry answers a repeated
POST of a run with the same id (`registry.go:38-41`); it is external.

**RunLedger** is what the store promises, without processes or failures: a run
becomes listed, then shown; enters a directory because it is new, or, in the
global one, because a registry published it; and is marked with a registry only
when that registry holds it. `BenStore` implements it with
`listed <- rows, shown <- kv, mark <- index, published <- remote`.

**Scoring, Scorer.** The three strategies as pure operators, and one call of them
over every input of the instance. Only the order of scores matters, so the
weighted score is the code's sum multiplied by its denominators; the sign of the
total weight is kept. Total weight 0 makes every score NaN in the code, nothing
compares, and the stable sort leaves the input order: here all scores are 0.

**Adapters.** Operators, without state, for the code between the pipeline and the
world. `Ends` are the ways a call can end: the program exits with a status, cannot
be started, or is ended by the context; eva may also reject `--format`, and is
then started a second time (`EvaEnds`). `CLIRun`, `BinaryRun`, `EvaRun` and
`LLMRun` are the `Run` methods: what they make of that end and of what was
printed, given whether the context has ended by then. A program may finish with
success in a context that ends at the same moment, and is then a success, as in
the code. `Collect` and `JudgeScores` are the metrics, `DiscoverAll` the lookup
of plugins, with the refusal of a hit in a relative directory. A status that is
not 0 is a result, not an error (`adapter.go:28-35`).

**Pipeline.** `runBenchmark` stage by stage; `pc` is the next stage, the other
variables are the function's locals. How each call ends and what is printed is
chosen by the environment and kept in `log`, so that properties can relate the
record to what was really executed. `Cancel` ends the context at any moment; the
loops do not look at it, so that later executions are interrupted at once, and
`Save` fails (`SaveRefused`). `DryRun` is `runDryRun`, taken before the run with
the same flags and files, to compare its `plan` with what is executed.
Persisting is one step here, since its statements are BenStore's. A record is what
`BuiltRun` makes of the results; before that, and where Save wrote nothing, it is
`NoRecord`, the zero value of `run.Run`.

**Workspace.** One invocation of `config path`, `suite list` or `suite show`.
Every look at the disk is a step: `StatConfig` and `ReadConfig` are the two halves
of one turn of the loader's loop, `ReadDir` lists a directory as it is at that
moment, `LoadSuite` reads one of the listed files later. Between any two steps the
user writes, breaks, deletes (`WriteConfig`, `WriteSuite`) or moves (`MoveSuite`)
a file. `pastConfig` and `pastSuites` collect what every file held while the
command ran; the properties speak of those versions, since a command that reads
several files one after another cannot see a snapshot. `list` and `show` share
`LoadSuite`, which has the two bodies of `loadAllSuites` and `findSuite`.

**Compare.** Flags, the two loaded runs, the diff, the verdicts, the outcome. An
outcome is named for the error returned. The process ends with status 1 for every
error (`main.go:115-117`); the family codes 3 and 4 are in the error envelope,
although the help of the command says "exits 4" (`compare.go:61`).

## 3. What is checked

| Run | Instance | Properties | Result |
|---|---|---|---|
| `store` | 2 processes, 2 runs, a project and the global directory, 1 registry, all five commands, 2 faults; symmetric in processes and runs | `TypeOK`, `ShownIsListed`, `MarkIsTruthful`, `PushOkIsMarked`, `PullOkIsComplete`, `CleanRunIsStored`, `MarkNeverLost`, `LedgerSpec` | hold, 0.9 million states |
| `store_live` | 2 processes, 1 run, run, push and pull, 2 registries, 1 fault, no symmetry | `EndsOrAwaitsRegistry`, `RetriedPushIsMarked` | hold, 0.1 million states |
| `scorer` | up to 3 candidates, 2 metrics with 3 values or missing, weights -1..2, every strategy | `TypeOK`, `Contract`, `DominantWins`, `ImprovingNeverHurts` | hold, 0.3 million states |
| `pipeline` | suites of 1 or 2 candidates with every adapter and strategy, repeat up to 2, up to 2 executions that fail or exit with a status, the end of the context at any moment, dry runs, invocations rejected at each check | `TypeOK`, `RecordIsComplete`, `EvidenceIsKept`, `TrialsAreTrue`, `WinnerIsBest`, `RankingHasEvidence`, `NothingCancelledIsStored`, `PlanIsKept` | hold, 0.9 million states |
| `workspace` | 1091 arrangements of 7 configuration files, 4 suite files, environments and commands; 1 edit, in some 2 | `TypeOK`, `SettingsAreLayered`, `ConfigErrorsHaveACause`, `ConfigPathNamesTheWinner`, `FirstFoundWins`, `NothingIsHidden` | hold, 0.4 million states |
| `compare` | all pairs of 54 runs under 21 settings of the flags | `TypeOK`, `FailsClosed`, `RegressionIsShown`, `SelfCompareIsClean`, `GateComposes` | hold, 0.2 million states |
| `store_exit_code` | as `store` | `RunOkIsStored` | violated: a run whose Save failed ends with success (US-BEN-0108:62 says exit 1) |
| `store_pull_listed` | as `store` | `PulledIsListed` | violated: in a project, list does not see what pull stored |
| `pipeline_errored` | eva, which may not be installed, against a command, ranked by `exit_code` | `ErroredRanksLast` | violated: what never ran has exit code 0 and wins |
| `pipeline_twins` | as `pipeline` | `MetricsMatchTrials` | violated: two candidates of one name share the second's trials |
| `workspace_precedence` | as `workspace` | `ProjectSuiteWins` | violated: `suite show` shows the global suite of a name (US-BEN-0206:69 says the project's) |
| `compare_missing` | as `compare` | `MissingOnEitherSideFails` | violated: a candidate new in run-b is not gated |

Every property that holds has a mutant in `PROJECT.json`: the change of one
mapped definition under which TLC finds it violated.

**Bounds, and why they are enough.** *Store:* properties relate at most two
processes to one run and one directory; two processes make every interleaving of
two commands, the second run is what another machine or command brings, two
faults allow a failure after a failure (a lost answer, then a killed retry). Ids
are never reused, so a behaviour mints at most two; processes are reused without
bound, so sequences of commands are not bounded. *Scorer:* three candidates are
the fewest in which a third moves the range that normalises two others; three
values give a middle one. *Pipeline:* two executions of two candidates show a
failure that is followed by a success and one candidate's trials taken for the
other's. `MaxTroubles` = 2 allows a second failure after a first, of either
candidate, and does not bound the executions a cancellation cuts short. Values 0
and 2 keep means integral and make 0, what a missing metric reads, a real value;
`Unit`, the number 1 of the code, is 2 for that reason. The path holds a plugin, a
relative directory before it, and a plugin that only the relative directory hides.
*Workspace:* an edit can come between any two looks at the disk; one is enough to
split a test from a reading or to move a suite across the scan, two to move it
there and back. Three layers that overlap in one key of two tell every order of
merging apart; two files of a directory put a suite before and behind a broken
one. *Compare:* slacks 0 and 1 against deltas from -2 to 2 lie
below, on and beyond each threshold; every metric can be missing on either side;
runs can be given in either order, and the two kinds of direction are both there.
`CHECK_DEADLOCK FALSE` is said where one invocation is modelled, which ends.

**Fairness.** Only liveness uses it. `FairSpec` has `WF(OwnWork(p))`: a live process
executes its next statement; the operating system schedules it, and SQLite answers.
Steps that wait for a registry, in `Waiting`, are not among them, because the client
has no timeout (`remote.go:25`) and a registry owes nobody an answer:
`EndsOrAwaitsRegistry` says that a command ends or is left in such a wait, so that
neither a pull's loop nor a failure on the way blocks it anywhere else.
`RetriedPushIsMarked` is conditional, and states its condition itself:
`AnsweredAndRetried` has `WF(Answered(p))`, an environment in which registries answer,
and `SF(StartPush)`, the user who follows the advice of `registry.go:38-41` and repeats
the push: strong, since a push can be started again and again but not all the time.
Faults are bounded, so they end. The property excuses a user who moves to another store
by creating `.ben/`, which happens at most once for each directory. `list` and `show`
are left out of this instance: neither has a loop or waits.

## 4. What is proved

`BenStoreProofs`, from `StoreAssumption` alone, for any sets of processes, runs,
directories and registries and any bound on faults:

* `TypeCorrect`, `ShownIsAlwaysListed`, `MarksAreTruthful`, `PushKeepsItsWord`,
  `PullKeepsItsWord`, `RunKeepsItsWord`, `MarksAreKept`: the safety properties
  of `store`.
* `StoreImplementsLedger`: `Spec => LedgerSpec`, each step being one ledger step
  or a stutter.

None of these invariants is inductive: that a mark is truthful needs to be known
of the process *before* it marks. The inductive invariant is `Safe`: the shape of
the state (`Shape`, which says what each `pc` implies about its `job`),
`ShownIsListed`, `MarkIsTruthful`, and `Knows`, which says what every process has
made sure of at each step (a push past its Get has its run in `kv` of its
directory; past the POST, in the registry; a run past its INSERT has its row; a
pull has stored everything it no longer has to do). Knowledge survives the other
processes because tables and registries only grow and marks are never taken back
(`Growing`, `KnowledgeIsStable`); so a step must be checked only against the
process that moves (`KnowledgeOfMover`). Refinement also needs `IdsAreFresh`: no
id is known anywhere that has not been minted, and a pulled id has been published.

Two modules have the lemmas that several components need. `DataFacts`: the least
number of a set, and what a sequence is. `SumFacts`: induction over the subsets of
a finite set, stated for a *set* of good subsets since an operator cannot be a
parameter of a theorem one uses; from it, that the fold behind `SumFunction`
exists, that a sum can be taken apart one element at a time in any order
(`SumRemove`), grows with its terms, scales, and is a multiple of what divides its
terms; the same for products of positive numbers; and that a finite set of
integers has a least and a greatest element.

`ScoringFacts` and `ScorerProofs`, from `ScorerAssumption` and `MetricAssumption`
(a run has finitely many metrics, with integer values), for any number of
candidates, metrics and weights. `Scored` is the invariant: what was returned is
`Score` of the candidates. The rest is about `Score`:

* `Precedes` is a strict total order (`PrecedesIsStrictOrder`), so that counting who
  precedes a candidate numbers them 1..n without gaps (`RanksAreContiguous`: ranks
  differ, and an injection of a finite set into itself is onto), hence
  `ScoreHonoursContract`, which includes the order of ties (`scorer.go:31`);
  `Contract`, the property of the runs, leaves that order open. A weighted score is an
  integer (`ScoresAreIntegers`: the product of the denominators is divisible by each,
  `FactorIsPositive`), hence `TypeCorrect` and `ContractHolds` for every strategy.
* `DominantIsFirst`: normalisation keeps the order of each column (`NormsKeepOrder`),
  so term by term the sum of the dominant candidate is not smaller, and one term is
  larger (`SumGrows`).
* `ImprovementIsSafe`: when i improves on m, the range of m may change for everybody.
  A score splits into the term of m and, times the denominator of m, a sum that does
  not depend on m (`SumSplits`, `OthersAreTheSame`). Each other candidate j loses
  ground to i on the scale of m whether its range grows or shrinks (`GroundIsLost`,
  `NormMoves`), so the lead of j in score shrinks, measured on either scale
  (`LeadShrinks`, `WeightedImproves`); nobody new gets ahead of i, and its rank is
  not worse (`RankNotWorse`).

`CompareProofs`, for any runs with integer metrics and any flags: `StagesHold`,
the invariant that the gate, the diff and the verdicts are those of the flags and
the loaded runs, which is inductive as it stands and implies the rest:
`TypeCorrect`; `GateFailsClosed`; `GatesCompose`, by `LossesAdd` (a loss against the
one before last is the sum of two) and `ChainOfGates` (nothing seen through two
gates can be missing between the ends); `RegressionsAreShown`, by `RowShows` (a row
of the diff holds the movement the gate judged); and `SelfCompareClean`, by
`NameLeadsBack` (without twins, the last candidate of a name is the only one). These
are all the properties of Compare that hold.

`PipelineProofs`, for any suites, metric plugins, `--repeat` and worlds, proves all
the invariants of `pipeline`. It rests on `AdaptersAssumption`, `PipelineAssumption`,
`SuiteAssumption` (candidates are a sequence, weights are integers, and no name or
plan is the value that stands for nil) and `MeansAreExact` (`--repeat` is bounded,
and values are multiples of every number up to the bound). The last one chooses the
unit of values and says nothing about programs: finitely many measurements of at
most `MaxRepeat` executions are such multiples in a unit that is small enough.

None of the properties is inductive. There are two invariants, about control and
about data, and the second is proved under the first:

* `IInv`: `Stages` (at each stage, how many results there are, that `log` is one
  longer exactly inside a candidate, whose trials it then holds, and that the suite
  is the one the dry run would load), `Executed` (every finished candidate was
  executed `--repeat` times; an entry of the log has the kind of its candidate's
  adapter, and is interrupted only if the context has ended) and `PlanIsMade`. Hence
  `TypeCorrect`, `PlanIsAlwaysKept` and `CancelledIsNotStored`: a stored run is one
  whose context had not ended at `Persist`, so that none of its executions was
  interrupted (`InterruptedIsCancelled`).
* `Evidence`: `Observed` (every entry of the log is an end and an output its adapter
  can have, and its trial is what `TrialOf` makes of the result), `Summarised` (the
  means and the error of a finished candidate are those of the log), `Named` (the map
  of trials has those of the last candidate of each name) and `Checked` (what each
  check of the command has established once it is passed, and that a record is
  `BuiltRun`).

`Recorded` says that the candidates of a record are a permutation of the results, by
rank if there is one; it needs the scores to be integers, so the means to be exact
(`SummaryIsExact`). From it follow `RecordsAreComplete`, `WinnerIsAlwaysBest` (whom
nobody precedes nobody beats; candidates that failed or lack the metric are left open,
where the documents contradict the code), `RankingsHaveEvidence`, and, where names
lead back to one candidate (`Identified`), `EvidenceIsAlwaysKept` (whether a status
other than 0 is an error is left open) and `TrialsAreAlwaysTrue`; the last by what
each adapter makes of each way a call may end (`TrialIsTrue`).

`WorkspaceProofs`, from `WorkspaceAssumption`, for any files, environments, commands
and number of edits, proves all the invariants of `workspace`. The inductive
invariant adds to them: `MergedSoFar` (there is a version of each source read so
far, one that file had while the command ran, of which the settings are the layered
merge; between a test and a reading nothing is merged), `Resolver` (the same for the
layers that `config path` looks at), `Stages`, and `NothingIsPassedOver`: a file that
the scan is past was rendered, or is not the one looked for, or did not keep its name.
`FirstFoundIsRendered` needs to be strengthened by what the order of the directories
is (`GlobalFirst`, `Earlier`); the property itself does not say which comes first.
`PathNamesTheWinner` compares the merge with the layers: on files
that kept still, both chose by the same order.

**Only model-checked:** `EndsOrAwaitsRegistry` and `RetriedPushIsMarked`, the liveness
properties, since fairness and ENABLED are out of the prover's reach. Every invariant
and every action property of a passing run is proved, and so is the refinement of
`RunLedger`. The runs that find a violation refute what a document says on an
instance, and need no proof.

## 5. What is not modelled, and why

* Contents of records, timestamps, LIMIT and ordering of lists, suite filters:
  a table is a set of ids. Floating point: values are integers, arithmetic exact.
* YAML, JSON, table output, progress events, the dry runs of push and pull, hints,
  cobra wiring: no state. `Store.ListRegistry` has no caller.
* Reporters: they format, and a plugin among them is found as adapters are.
* The text of prompts, commands and output. `spec.Template` (`spec.go:83-89`)
  replaces keys in the order of a Go map, so an input whose value contains
  `{{input.KEY}}` is expanded or not by chance; no property tells the texts apart.
* `latency_ms` is any value; so would be `cost_usd`, `output_size` and
  `output_lines`, which read the clock, a price list and the text.
* NaN in a metric: a judge may answer it (`llm_judge.go:116`), and the record then
  cannot be marshalled. The standard deviation, which is not an integer and decides
  nothing.
* Nested keys in configuration files, and viper's merging of them: external.
* SQLite itself: a statement is atomic and durable.

Met while modelling, and not among the runs because they are plain to see or need
none: the process ends with status 1 for every error (`main.go:116`) although texts
promise 3 and 4; a malformed suite is skipped, not listed as "[parse error]" (US-BEN-0205); suites are listed in the order they were found, though
the help text says sorted (`suite.go:40-41`); a broken configuration file also
stops `config path`, the command one would look for it with; a suite that is moved to
a directory already scanned is missed, which no order of scanning avoids; the llm
adapter returns the end of the context wrapped, not as itself.

**Where the documents disagree with the code or with each other.** The properties that
hold leave these cases open unless it is said otherwise.

* *A candidate that exits with a status other than 0* has no error in the record
  (`cli.go:56-59`, `adapter.go:28-35`). US-BEN-0208:22 and :58, US-BEN-0201:63-64 and
  US-BEN-0104:56 want `error` set; US-BEN-0104:56 names the winner from the remaining
  candidates, US-BEN-0209:63-64 scores such a candidate like any other.
  `EvidenceIsKept` allows both, `WinnerIsBest` compares sound candidates only.
* *A missing metric* reads 0 in a single ranking (`scorer.go:98`), the best value of a
  metric ranked upwards; US-BEN-0110:62 wants a null metric of a failed candidate
  treated as the worst. `pipeline_errored` shows how a failed candidate wins.
* *If all candidates fail*, the first of the ranking is the winner (`run.go:279-288`);
  US-BEN-0101:66 wants `winner: null`.
* *A tie* is broken by the order of the suite in the code, in `scorer.go:31` and in
  US-BEN-0209:21; by name, with a warning, in US-BEN-0110:17-18 and :61. `Contract`
  leaves it open; the theorem `ScoreHonoursContract` has the code's order.
* *A suite's name in both directories*: the global one is found (`suite.go:109-111`),
  US-BEN-0206:69 wants the project's; `workspace_precedence`. `FirstFoundWins` holds of
  either order.
* *A weighted sum* is ranked highest first whatever the direction of its metrics, as
  README:104, cheatsheet:174, `scorer.go:116-117` and `scorer_test.go:64-99` say,
  although a gate takes latency_ms and cost_usd as lower-is-better (`gate.go:18-20`): a
  metric where less is better needs a negative weight.
* *With `-c`*, the discovered files do not count at all (README:215-217,
  `main.go:264-267`), and `SettingsAreLayered` says so; US-BEN-0107:16, :54 and :67
  expect the defaults under the file.
* *A run compared with itself* is compared like any other (`SelfCompareIsClean`);
  US-BEN-0204:65-66 wants exit 1.
* *A candidate that hangs* is waited for; US-BEN-0208:69 promises a default timeout.
* *A judge that fails* scores 0; US-BEN-0101:65 wants the run to abort.

## 6. Plan

Done: BenStore with RunLedger, liveness and proofs; Scoring and Scorer, Compare,
Pipeline over Adapters, and Workspace, all with proofs of every invariant that a run
checks. No module declares a recursive operator. Next:

1. **Pipeline and BenStore composed**: `Persist` as BenStore's statements, so that
   a stored record is one that Pipeline built, with the refinement of both.
2. An abstract specification of `ben run`, of what its outcome promises, and
   Pipeline shown to implement it.
3. The order of listings at the resolution of timestamps (`storage.go:113`), a
   judge's 0 told from a measured one, and NaN: the hazards without a property that
   a finer model of the data would reach.
