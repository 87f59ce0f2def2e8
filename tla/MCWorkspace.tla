---------------------------- MODULE MCWorkspace ----------------------------
(* Configuration: up to three layers that overlap in the key "url", each    *)
(* caller, with and without -c and overrides.  Suites: three names in two   *)
(* directories of two files, with a broken one among them.                  *)
EXTENDS Workspace

MCKeys == {"url", "plugins"}

Url(v)     == [k \in {"url"} |-> v]
Plugins(v) == [k \in {"plugins"} |-> v]
Both(v)    == [k \in MCKeys |-> v]
Unset      == [k \in {} |-> 0]

Named(n, v) == [name |-> n, version |-> v]

MCConfigTexts == {Url(1), Both(2)}
MCSuiteTexts  == {Named("x", 1), Named("y", 2)}

\* what stands in some files, the others are absent
Files(S, contents) == [f \in S |-> IF f \in DOMAIN contents THEN contents[f] ELSE None]
Configs(contents)  == Files(ConfigFiles, contents)

Env(invokedAs, configDir, cwd, dataDir, unreadable) ==
  [invokedAs |-> invokedAs, configDir |-> configDir, cwd |-> cwd, dataDir |-> dataDir,
   unreadable |-> unreadable]
Usual == Env("", TRUE, TRUE, TRUE, {})

Cmd(verb) == [verb |-> verb, name |-> "x", paths |-> <<>>, overrides |-> Unset, malformed |-> FALSE]

Layered == {[system |-> s, user |-> u] : s \in {Url(3), Both(3)}, u \in {None, Plugins(4), Broken}}

ConfigDisks ==
  {Configs([f \in {"system", "user", p} |-> IF f = p THEN Url(5) ELSE l[f]]) :
     l \in Layered, p \in ConfigFiles \ {"system", "user"}}
  \cup {Configs(Unset), Configs([f \in {"system", "c1", "c2"} |-> IF f = "c1" THEN Both(6) ELSE Url(7)])}

ConfigScenarios ==
  [config : ConfigDisks, suites : {Files(SuiteFiles, Unset)},
   env  : {Env(i, c, TRUE, TRUE, {}) : i \in {"", "hop", "tlc"}, c \in BOOLEAN}
            \cup {Env("hop", TRUE, FALSE, TRUE, {})},
   cmd  : {Cmd("config path"), [Cmd("config path") EXCEPT !.overrides = Url(8)],
           [Cmd("config path") EXCEPT !.paths = <<"c1", "c2">>],
           [Cmd("config path") EXCEPT !.malformed = TRUE]},
   edits : {1}]

SuiteDisks ==
  {[f \in SuiteFiles |->
      IF f = <<"global", 1>> THEN a ELSE IF f = <<"global", 2>> THEN b
      ELSE IF f = <<"project", 1>> THEN c ELSE Named("x", 4)] :
     a \in {None, Broken, Named("x", 1), Named("y", 1)},
     b \in {None, Named("x", 2)}, c \in {None, Broken, Named("y", 3)}}

SuiteScenarios ==
  [config : {Configs([f \in {"user"} |-> Url(1)])}, suites : SuiteDisks,
   env  : {Usual, Env("", TRUE, TRUE, FALSE, {}), Env("", TRUE, TRUE, TRUE, {"global"}),
           Env("", TRUE, TRUE, TRUE, {"project"})},
   cmd  : {Cmd("list"), Cmd("show")}, edits : {1}]

\* two edits: a file moved away and back, saved twice, or two layers changed
BusyScenarios ==
  [config : {Configs([f \in {"system", "user"} |-> IF f = "user" THEN Url(1) ELSE Both(3)])},
   suites : {Files(SuiteFiles, Unset)}, env : {Usual}, cmd : {Cmd("config path")}, edits : {2}]
  \cup [config : {Configs(Unset)},
        suites : {Files(SuiteFiles, [f \in {<<"global", 1>>, <<"project", 1>>} |-> Named("x", f[2])])},
        env : {Usual}, cmd : {Cmd("list"), Cmd("show")}, edits : {2}]

MCScenarios == ConfigScenarios \cup SuiteScenarios \cup BusyScenarios
=============================================================================
