------------------------------ MODULE Adapters ------------------------------
(***************************************************************************)
(* internal/adapter and internal/metrics: what Run of each adapter returns *)
(* for what the program or the service did, and what the metrics read from *)
(* the Result.                                                             *)
(*                                                                         *)
(* A call ends in one of four ways: the program exits with a status (the   *)
(* service gives a usable answer, status 0); eva rejects its arguments     *)
(* with a usage error; the program cannot be started (the service gives no *)
(* usable answer); the context ends it.  An output is the metrics in it.   *)
(***************************************************************************)
EXTENDS Scoring

CONSTANTS
  Values,         \* values of metrics
  ExitCodes,      \* what a program exits with
  PluginMetrics,  \* metrics that a plugin on the PATH may report
  Unit,           \* the number 1: the unit is chosen so that means are integers
  None

ASSUME AdaptersAssumption ==
  /\ Values \subseteq Int /\ 0 \in Values
  /\ ExitCodes \subseteq Int /\ 0 \in ExitCodes
  /\ PluginMetrics \subseteq MetricNames
  /\ Unit \in Nat \ {0}
  /\ None \notin {"cancelled", "failed"}

-----------------------------------------------------------------------------
(* internal/plugin: adapters on the PATH *)

Carrying(path, name) == {i \in DOMAIN path : name \in path[i].executables}

\* The name is resolved as a shell would; a hit in a relative directory is refused.
DiscoverAll(path) ==
  {name \in UNION {path[i].executables : i \in DOMAIN path} :
     path[Min(Carrying(path, name))].absolute}

BuiltinAdapters == {"cli", "", "llm", "eva"}

\* The names ben knows come first; any other is a plugin.
Kind(adapter) == IF adapter = "" THEN "cli" ELSE IF adapter \in BuiltinAdapters THEN adapter ELSE "plugin"

-----------------------------------------------------------------------------
(* What the world does in one call *)

Completed(code) == [ended |-> "completed", code |-> code]
Rejected        == [ended |-> "rejected", code |-> 2 * Unit]
Unstarted       == [ended |-> "unstarted", code |-> 0]
Interrupted     == [ended |-> "interrupted", code |-> 0]

Ran(end)       == end.ended \in {"completed", "rejected"}
Succeeded(end) == end = Completed(0)

\* The context ended before the call, or after its start, or neither.
Ends(before, after) ==
  IF before THEN {Interrupted}
  ELSE {Completed(code) : code \in ExitCodes} \cup {Unstarted}
         \cup (IF after THEN {Interrupted} ELSE {})

\* Whether the service is asked at all depends on the key, not on the context.
Answers(before, after) ==
  {Unstarted} \cup (IF before THEN {Interrupted} ELSE Ends(before, after) \cap {Completed(0), Interrupted})

\* An eva that does not know --format is started again without it, unless the
\* context has ended by then.
LastAttempt(first, second, endedBetween) ==
  IF first = Rejected /\ ~endedBetween THEN second ELSE first

EvaEnds(before, after) ==
  LET ends == Ends(before, after) \cup (IF before THEN {} ELSE {Rejected})
  IN  {LastAttempt(first, second, between) :
         first \in ends, second \in ends, between \in {before, after}}

\* What the program printed: the metrics of a plugin's response, the accuracy of
\* eva, the tokens of an answer; None if it cannot be read.
Outputs(kind, end) ==
  CASE kind = "plugin" /\ Ran(end)      -> {None} \cup PartialMaps(PluginMetrics, Values)
    [] kind = "eva" /\ end # Unstarted  -> {None} \cup [{"accuracy"} -> Values]
    [] kind = "llm" /\ Succeeded(end)   -> [{"tokens"} -> Values]
    [] OTHER                            -> {None}

EndsOf(kind, before, after) ==
  CASE kind = "llm" -> Answers(before, after)
    [] kind = "eva" -> EvaEnds(before, after)
    [] OTHER        -> Ends(before, after)

-----------------------------------------------------------------------------
(* What the adapter makes of it *)

ProcessError(end, cancelled) ==
  IF Succeeded(end) THEN None
  ELSE IF cancelled THEN "cancelled"
  ELSE IF Ran(end) THEN None
  ELSE "failed"

ProcessExit(end, cancelled) == IF Ran(end) /\ ~cancelled THEN end.code ELSE 0

CLIRun(end, cancelled) ==
  [exit |-> ProcessExit(end, cancelled), err |-> ProcessError(end, cancelled),
   reported |-> <<>>, tokens |-> 0]

\* A response that cannot be decoded is an error only after exit status 0.
BinaryRun(end, output, cancelled) ==
  LET process == CLIRun(end, cancelled)
  IN  [process EXCEPT
         !.err      = IF Succeeded(end) /\ output = None THEN "failed" ELSE @,
         !.reported = IF process.err = None /\ output # None THEN output ELSE @]

\* Always an accuracy, 0 if none was printed.
EvaRun(end, output, cancelled) ==
  [CLIRun(end, cancelled) EXCEPT
     !.reported = IF output = None THEN [m \in {"accuracy"} |-> 0] ELSE output]

\* The model, or without one the name of the candidate, selects the provider.
LLMRun(provider, end, output) ==
  IF provider \in {"claude", "gpt"} /\ Succeeded(end)
  THEN [exit |-> 0, err |-> None, reported |-> <<>>, tokens |-> output["tokens"]]
  ELSE [exit |-> Unit, err |-> "failed", reported |-> <<>>, tokens |-> 0]

Run(c, end, output, cancelled) ==
  CASE Kind(c.adapter) = "llm"    -> LLMRun(c.provider, end, output)
    [] Kind(c.adapter) = "eva"    -> EvaRun(end, output, cancelled)
    [] Kind(c.adapter) = "plugin" -> BinaryRun(end, output, cancelled)
    [] Kind(c.adapter) = "cli"    -> CLIRun(end, cancelled)

-----------------------------------------------------------------------------
(* Metrics *)

Clamp(score) == IF score < 0 THEN 0 ELSE IF score > Unit THEN Unit ELSE score

\* LLMJudgeMetric: no number in the answer, or no answer within a minute, is 0.
JudgeScores == {0} \cup {Clamp(score) : score \in Values}

\* Metrics that a Result determines; any other is measured.
Determined == {"exit_code", "tokens"}

Collect(m, result, measured) ==
  CASE m = "exit_code" -> result.exit
    [] m = "tokens"    -> result.tokens
    [] OTHER           -> measured[m]
=============================================================================
