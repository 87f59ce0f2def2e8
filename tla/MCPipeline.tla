----------------------------- MODULE MCPipeline -----------------------------
(* Suites of one or two candidates, every adapter and strategy among them; *)
(* invocations that fail at each of the checks.                            *)
EXTENDS Pipeline

MCMetricNames   == {"latency_ms", "exit_code", "tokens", "accuracy"}
MCBuiltins      == {"latency_ms", "exit_code", "tokens"}
MCPluginMetrics == {"exit_code", "accuracy"}
MCWeighed       == {"latency_ms", "accuracy"}
MCValues        == {0, 2}
MCExitCodes     == {0, 2}

Cand(name, adapter) == [name |-> name, adapter |-> adapter, provider |-> "claude"]
Raw          == [kind |-> "raw"]
Unknown      == [kind |-> "unknown"]
Single(m, d) == [kind |-> "single", metric |-> m, dir |-> d]
Weighted     == [kind |-> "weighted", weights |-> [m \in MCWeighed |-> 1]]

Suite(cs, ms, sc) ==
  [readable |-> TRUE,
   spec |-> [named |-> TRUE, candidates |-> cs, metrics |-> ms, scorer |-> sc]]

\* "plugin" is the first hit in an absolute directory, "dot" in a relative one
Path == <<[absolute |-> FALSE, executables |-> {"dot"}], [absolute |-> TRUE, executables |-> {"plugin", "dot"}]>>

WithSuite(s, repeat) ==
  [suite |-> s, task |-> FALSE, repeat |-> repeat, preview |-> FALSE, path |-> Path]
Preview(i) == [i EXCEPT !.preview = TRUE]

Inline(cs, ms, sc, malformed, repeat) ==
  [suite |-> None, task |-> TRUE, repeat |-> repeat, preview |-> TRUE, path |-> Path,
   flags |-> [candidates |-> cs, metrics |-> ms, scorer |-> sc, malformed |-> malformed]]

Pair       == <<Cand("a", "eva"), Cand("b", "eva")>>
Mixed      == <<Cand("a", "plugin"), Cand("b", "cli")>>
Uneven     == <<Cand("a", "cli"), Cand("b", "eva")>>
Twins      == <<Cand("a", "cli"), Cand("a", "cli")>>
HalfKnown  == <<Cand("a", "cli"), Cand("b", "dot")>>

MCInvocations ==
  {Preview(WithSuite(Suite(Mixed, {}, sc), 1)) : sc \in {Single("latency_ms", "none"), Weighted, Raw}}
  \cup {WithSuite(Suite(Twins, {"latency_ms"}, sc), 2) : sc \in {Single("latency_ms", "none"), Weighted, Raw}}
  \cup {WithSuite(Suite(Pair, {"exit_code"}, sc), 1) : sc \in {Single("accuracy", "desc"), Weighted, Raw}}
  \cup {WithSuite(Suite(<<Cand("a", "plugin")>>, {}, Single("latency_ms", "none")), 2),
        WithSuite(Suite(Uneven, {"latency_ms", "exit_code"}, Single("latency_ms", "none")), 2),
        WithSuite(Suite(Mixed, {}, Single("accuracy", "desc")), 1),
        WithSuite(Suite(Mixed, {"accuracy"}, Raw), 1),
        WithSuite(Suite(Mixed, {"latency_ms"}, Unknown), 1),
        WithSuite(Suite(Twins, {"latency_ms"}, Single("accuracy", "asc")), 1),
        WithSuite(Suite(HalfKnown, {}, Single("latency_ms", "none")), 1),
        WithSuite(Suite(<<>>, {}, Raw), 1),
        WithSuite(Suite(<<Cand("a", "")>>, {}, Raw), 1),
        WithSuite([readable |-> FALSE], 1),
        [Preview(WithSuite(Suite(Pair, {}, Raw), 1)) EXCEPT !.task = TRUE],
        Preview(WithSuite(Suite(Pair, {}, Raw), 0))}
  \cup {Inline(cs, {}, Weighted, bad, 1) :
          cs \in {<<>>, <<Cand("a", "")>>, <<Cand("a", "llm"), Cand("b", "llm")>>},
          bad \in SUBSET MCWeighed}

\* a dataset that an eva which may be missing evaluates, against a command
MCUnstartable == {WithSuite(Suite(<<Cand("a", "eva"), Cand("b", "cli")>>, {"exit_code"},
                                  Single("exit_code", "none")), 1)}

Judge(name) == [name |-> name, type |-> "llm_judge", complete |-> TRUE]

\* none, a judge, an incomplete judge, an unknown type, a name that is taken
MCPluginConfigs ==
  {<<>>, <<Judge("accuracy")>>,
   <<Judge("accuracy"), [Judge("accuracy") EXCEPT !.complete = FALSE]>>,
   <<[Judge("accuracy") EXCEPT !.type = "import"], [Judge("accuracy") EXCEPT !.type = "unknown"]>>,
   <<Judge("accuracy"), Judge("accuracy")>>, <<Judge("latency_ms")>>}
=============================================================================
