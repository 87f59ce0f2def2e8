----------------------------- MODULE Workspace -----------------------------
(***************************************************************************)
(* One invocation of `ben suite list`, `ben suite show` or `ben config     *)
(* path` on the files a user keeps and may be editing meanwhile: the       *)
(* configuration chain of cmd/ben/main.go, which every command reads       *)
(* first, and the suite discovery of cmd/ben/suite.go.                     *)
(*                                                                         *)
(* Every look at the disk is a step: the test that a file exists, its      *)
(* reading, the listing of a directory.  A file is absent (None), Broken   *)
(* (cannot be read, parsed or validated), or has a value: a map of keys    *)
(* for a configuration, a name and a version for a suite.                  *)
(***************************************************************************)
EXTENDS Integers, Sequences, FiniteSets

CONSTANTS
  Scenarios,    \* files, an environment, a command and a bound on the edits meanwhile
  Keys,         \* configuration keys; a list is replaced as a whole
  ConfigTexts,  \* what the user may write into a configuration file
  SuiteTexts,   \* what the user may write into a suite file
  MaxFiles,     \* bound on the *.yaml files of a suite directory
  Broken, None

ConfigFiles == {"system", "user", ".ben/config.yaml", ".hop/ben.yaml", ".tlc/ben.yaml", "c1", "c2"}
SuiteDirs   == {"global", "project"}
SuiteFiles  == SuiteDirs \X (1..MaxFiles)  \* ReadDir sorts by name

ASSUME WorkspaceAssumption ==
  /\ MaxFiles \in Nat /\ Broken # None
  /\ None \notin {"ok", "no suite", "config error", "scan error"}
  /\ {Broken, None} \cap (ConfigTexts \cup SuiteTexts) = {}
  /\ \A text \in ConfigTexts : DOMAIN text \subseteq Keys
  /\ \A s \in Scenarios :
       /\ DOMAIN s.config = ConfigFiles /\ DOMAIN s.suites = SuiteFiles /\ s.edits \in Nat
       /\ \A f \in ConfigFiles : s.config[f] \notin {Broken, None} => DOMAIN s.config[f] \subseteq Keys
       /\ s.cmd.verb \in {"list", "show", "config path"}
       /\ s.cmd.paths \in Seq(ConfigFiles) /\ DOMAIN s.cmd.overrides \subseteq Keys

VARIABLES
  config, suites,  \* content of every file
  env, cmd,  \* environment and command; never change
  pc,
  pending,   \* configuration files still to look at, the first one next
  settings,  \* what viper holds of them
  layers,    \* what the resolver of `config path` found
  dirs,      \* suite directories still to scan
  entries,   \* listed files of the current one still to load, the first one by name next
  found,     \* suites to render, with the file each is from
  outcome,   \* None while the command runs
  pastConfig, pastSuites,  \* what every file held while it did
  edits      \* edits that may still come

vars == <<config, suites, env, cmd, pc, pending, settings, layers, dirs, entries, found,
          outcome, pastConfig, pastSuites, edits>>

-----------------------------------------------------------------------------
(* cmd/ben/main.go *)

ProjectConfigOther(invokedAs) ==  \* mutated: every caller has a directory of its own
  CASE invokedAs = "hop" -> ".hop/ben.yaml"
    [] invokedAs = "tlc" -> ".tlc/ben.yaml"
    [] OTHER             -> ".ben/ben.yaml"
ProjectConfig(invokedAs) ==
  CASE invokedAs = "hop" -> ".hop/ben.yaml"
    [] invokedAs = "tlc" -> ".tlc/ben.yaml"
    [] OTHER             -> ".ben/config.yaml"

UserConfig(e) == IF e.configDir THEN <<"user">> ELSE <<>>

\* lowest first; a higher file is merged over the lower ones
Discovered(e) ==
  <<"system">> \o UserConfig(e) \o (IF e.cwd THEN <<ProjectConfig(e.invokedAs)>> ELSE <<>>)

ConfigLayersByName(e) ==  \* mutated: the resolver does not know who called
  <<".ben/config.yaml">> \o UserConfig(e) \o <<"system">>

\* highest first
ConfigLayers(e) == <<ProjectConfig(e.invokedAs)>> \o UserConfig(e) \o <<"system">>

MergeUnder(over, under) ==  \* mutated: what was read first stays
  [k \in DOMAIN over \cup DOMAIN under |-> IF k \in DOMAIN under THEN under[k] ELSE over[k]]
Merge(over, under) ==
  [k \in DOMAIN over \cup DOMAIN under |-> IF k \in DOMAIN over THEN over[k] ELSE under[k]]

(* cmd/ben/suite.go *)

SuiteScanDirs(e) == (IF e.dataDir THEN <<"global">> ELSE <<>>) \o <<"project">>

Listed(dir) == {f \in {dir} \X (1..MaxFiles) : suites[f] # None}

NextEntry == CHOOSE f \in entries : \A g \in entries : f[2] <= g[2]

Loads(text) == text \notin {None, Broken}

-----------------------------------------------------------------------------
Init ==
  /\ \E s \in Scenarios :
       config = s.config /\ suites = s.suites /\ env = s.env /\ cmd = s.cmd /\ edits = s.edits
  /\ pc = "args" /\ pending = <<>> /\ settings = <<>> /\ layers = <<>>
  /\ dirs = <<>> /\ entries = {} /\ found = <<>> /\ outcome = None
  /\ pastConfig = [f \in ConfigFiles |-> {config[f]}]
  /\ pastSuites = [f \in SuiteFiles |-> {suites[f]}]

End(result) == pc' = "end" /\ outcome' = result
GoTo(step)  == pc' = step /\ UNCHANGED outcome

World   == <<config, suites, env, cmd, pastConfig, pastSuites, edits>>
Loading == <<pending, settings, layers>>
Scan    == <<dirs, entries, found>>

\* Tokens of -c: paths that replace the discovery, and key=value overrides.
ConfigArgs ==
  /\ pc = "args"
  /\ IF cmd.malformed THEN End("config error") ELSE GoTo(IF cmd.paths = <<>> THEN "stat" ELSE "read")
  /\ pending' = IF cmd.paths = <<>> THEN Discovered(env) ELSE cmd.paths
  /\ UNCHANGED <<World, Scan, settings, layers>>

FileExistsAlways(f) == TRUE  \* mutated: a missing file is opened
FileExists(f)       == config[f] # None

\* A discovered file that does not exist is passed over.
StatConfig ==
  /\ pc = "stat" /\ pending # <<>>
  /\ IF FileExists(Head(pending))
     THEN GoTo("read") /\ UNCHANGED pending
     ELSE GoTo("stat") /\ pending' = Tail(pending)
  /\ UNCHANGED <<World, Scan, settings, layers>>

\* ReadInConfig for the first file, MergeInConfig for the others.
ReadConfig ==
  /\ pc = "read" /\ pending # <<>>
  /\ IF Loads(config[Head(pending)])
     THEN /\ settings' = Merge(config[Head(pending)], settings)
          /\ pending' = Tail(pending)
          /\ GoTo(IF cmd.paths = <<>> THEN "stat" ELSE "read")
     ELSE End("config error") /\ UNCHANGED <<settings, pending>>
  /\ UNCHANGED <<World, Scan, layers>>

\* The loader ends; the command proper begins.
ApplyOverrides ==
  /\ pc \in {"stat", "read"} /\ pending = <<>>
  /\ settings' = Merge(cmd.overrides, settings)
  /\ IF cmd.verb = "config path"
     THEN GoTo("resolve") /\ pending' = ConfigLayers(env) /\ UNCHANGED dirs
     ELSE GoTo("dir") /\ dirs' = SuiteScanDirs(env) /\ UNCHANGED pending
  /\ UNCHANGED <<World, layers, entries, found>>

ResolveLayer ==
  /\ pc = "resolve" /\ pending # <<>>
  /\ layers' = Append(layers, [path |-> Head(pending), exists |-> FileExists(Head(pending))])
  /\ pending' = Tail(pending)
  /\ GoTo("resolve")
  /\ UNCHANGED <<World, Scan, settings>>

\* `config path` prints the highest layer that exists.
PrintPath ==
  /\ pc = "resolve" /\ pending = <<>>
  /\ End("ok")
  /\ UNCHANGED <<World, Loading, Scan>>

\* A directory that does not exist is one without files.
ReadDir ==
  /\ pc = "dir" /\ dirs # <<>>
  /\ IF Head(dirs) \in env.unreadable
     THEN End("scan error") /\ UNCHANGED entries
     ELSE GoTo("file") /\ entries' = Listed(Head(dirs))
  /\ dirs' = Tail(dirs)
  /\ UNCHANGED <<World, Loading, found>>

SeenAfresh(name) ==  \* mutated: a new map of seen names for each directory
  \E i \in DOMAIN found :
    found[i].spec.name = name /\ \A f \in entries : f[1] = found[i].file[1]
Seen(name) == \E i \in DOMAIN found : found[i].spec.name = name

AfterBrokenStop == entries' = {}  \* mutated: the rest of the directory is lost
AfterBroken     == entries' = entries \ {NextEntry}

\* A file that does not load is skipped.  list keeps the first suite of a name,
\* show stops at the first of the name it looks for.
LoadSuite ==
  /\ pc = "file" /\ entries # {}
  /\ LET file == NextEntry
         text == suites[file]
         takes == /\ Loads(text)
                  /\ IF cmd.verb = "list" THEN ~Seen(text.name) ELSE text.name = cmd.name
     IN  /\ IF Loads(text) THEN entries' = entries \ {file} ELSE AfterBroken
         /\ found' = IF takes THEN Append(found, [file |-> file, spec |-> text]) ELSE found
         /\ IF takes /\ cmd.verb = "show" THEN End("ok") ELSE GoTo("file")
  /\ UNCHANGED <<World, Loading, dirs>>

NextDir ==
  /\ pc = "file" /\ entries = {}
  /\ GoTo("dir")
  /\ UNCHANGED <<World, Loading, Scan>>

FinishScan ==
  /\ pc = "dir" /\ dirs = <<>>
  /\ End(IF cmd.verb = "list" THEN "ok" ELSE "no suite")
  /\ UNCHANGED <<World, Loading, Scan>>

Ben ==
  \/ ConfigArgs \/ StatConfig \/ ReadConfig \/ ApplyOverrides
  \/ ResolveLayer \/ PrintPath
  \/ ReadDir \/ LoadSuite \/ NextDir \/ FinishScan

-----------------------------------------------------------------------------
(* The user at another terminal *)

Edited(nextConfig, nextSuites) ==
  /\ pc # "end" /\ edits > 0
  /\ config' = nextConfig /\ suites' = nextSuites
  /\ pastConfig' = [f \in ConfigFiles |-> pastConfig[f] \cup {nextConfig[f]}]
  /\ pastSuites' = [f \in SuiteFiles |-> pastSuites[f] \cup {nextSuites[f]}]
  /\ edits' = edits - 1
  /\ UNCHANGED <<env, cmd, pc, outcome, Loading, Scan>>

WriteConfig ==
  \E f \in ConfigFiles, text \in ConfigTexts \cup {Broken, None} :
    text # config[f] /\ Edited([config EXCEPT ![f] = text], suites)

WriteSuite ==
  \E f \in SuiteFiles, text \in SuiteTexts \cup {Broken, None} :
    text # suites[f] /\ Edited(config, [suites EXCEPT ![f] = text])

MoveSuite ==
  \E f, g \in SuiteFiles :
    /\ f # g /\ suites[f] # None
    /\ Edited(config, [suites EXCEPT ![f] = None, ![g] = suites[f]])

Next == Ben \/ WriteConfig \/ WriteSuite \/ MoveSuite

Spec == Init /\ [][Next]_vars

-----------------------------------------------------------------------------
Sources == IF cmd.paths = <<>> THEN Discovered(env) ELSE cmd.paths

ConfigLoaded ==
  pc \in {"resolve", "dir", "file"} \/ outcome \in {"ok", "no suite", "scan error"}

\* the layers that set k in what was read of every source
Setting(read, k) == {i \in DOMAIN read : read[i] # None /\ k \in DOMAIN read[i]}

\* Type invariant, with what every stage has left behind.
TypeOK ==
  /\ pc \in {"args", "stat", "read", "resolve", "dir", "file", "end"}
  /\ outcome \in {None, "ok", "no suite", "config error", "scan error"}
  /\ (pc = "end") = (outcome # None)
  /\ DOMAIN settings \subseteq Keys
  /\ \A i \in DOMAIN pending : pending[i] \in ConfigFiles
  /\ entries \subseteq SuiteFiles
  /\ \A f \in ConfigFiles : config[f] \in pastConfig[f]
  /\ \A f \in SuiteFiles : suites[f] \in pastSuites[f]
  /\ (ConfigLoaded /\ pc # "resolve") => pending = <<>>
  /\ outcome = "no suite" => found = <<>>

\* Whatever is edited meanwhile, no command works with a mixture: each source gave
\* one version that it had while the command ran, or was absent, and every key has
\* the value of the highest source that sets it, under the overrides of the command
\* line.  With -c the discovered files do not count (main.go:264-338).
SettingsAreLayered ==
  ConfigLoaded =>
    \E read \in [DOMAIN Sources -> (UNION {pastConfig[f] : f \in ConfigFiles}) \ {Broken}] :
      /\ \A i \in DOMAIN Sources :
           /\ read[i] \in pastConfig[Sources[i]]
           /\ cmd.paths # <<>> => read[i] # None
      /\ DOMAIN settings = DOMAIN cmd.overrides \cup {k \in Keys : Setting(read, k) # {}}
      /\ \A k \in DOMAIN settings :
           \/ k \in DOMAIN cmd.overrides /\ settings[k] = cmd.overrides[k]
           \/ /\ k \notin DOMAIN cmd.overrides
              /\ \E i \in Setting(read, k) :
                   settings[k] = read[i][k] /\ \A j \in Setting(read, k) : j <= i

\* "Missing files are not an error; parse errors are" (main.go:306): a command fails
\* over its configuration only if one of its sources was broken, a file named by -c
\* was not there, or a discovered one went between the test and the reading of it.
ConfigErrorsHaveACause ==
  (outcome = "config error" /\ ~cmd.malformed) =>
    \E i \in DOMAIN Sources :
      \/ Broken \in pastConfig[Sources[i]]
      \/ None \in pastConfig[Sources[i]] /\ (cmd.paths # <<>> \/ pastConfig[Sources[i]] # {None})

\* The two walks of the chain, written in opposite directions, agree: the file that
\* `config path` names is the one whose keys are in force, and every setting comes
\* from a file the resolver knows (main.go:190-228, 307-332).  Not with -c, which the
\* resolver does not see, nor when the files change meanwhile.
ConfigPathNamesTheWinner ==
  (cmd.verb = "config path" /\ outcome = "ok" /\ cmd.paths = <<>> /\ env.cwd
     /\ \A f \in ConfigFiles : pastConfig[f] = {config[f]}) =>
    LET free == Keys \ DOMAIN cmd.overrides
    IN  /\ \A i \in DOMAIN layers :
             (layers[i].exists /\ \A j \in 1..(i - 1) : ~layers[j].exists) =>
               \A k \in DOMAIN config[layers[i].path] \cap free :
                 settings[k] = config[layers[i].path][k]
        /\ \A k \in DOMAIN settings \cap free :
             \E i \in DOMAIN layers : layers[i].exists /\ k \in DOMAIN config[layers[i].path]

\* f was a suite of that name all the time, in one version or another, where it is
\* looked for
KeepsName(f, name) ==
  /\ f[1] = "global" => env.dataDir
  /\ \A text \in pastSuites[f] : Loads(text) /\ text.name = name

\* the scan comes to f before g
Before(f, g) ==
  IF f[1] = g[1] THEN f[2] < g[2]
  ELSE \E i, j \in DOMAIN SuiteScanDirs(env) :
         i < j /\ SuiteScanDirs(env)[i] = f[1] /\ SuiteScanDirs(env)[j] = g[1]

\* What list or show renders for a name was in a suite file while it ran, is rendered
\* once, and no suite of that name that was there all the time comes earlier in the
\* scan, whichever directory that begins with.  So the two loops, written apart
\* (suite.go:133-159, 197-218), mean the same suite on undisturbed files.
FirstFoundWins ==
  \A i \in DOMAIN found :
    /\ found[i].spec \in pastSuites[found[i].file]
    /\ \A j \in DOMAIN found : found[i].spec.name = found[j].spec.name => i = j
    /\ \A f \in SuiteFiles : KeepsName(f, found[i].spec.name) => ~Before(f, found[i].file)

\* A suite that was there all the time, edited in place or not, is listed and found,
\* whatever broken, moving or vanishing files stand next to it (suite.go:149-152).
NothingIsHidden ==
  \A f \in SuiteFiles, text \in SuiteTexts :
    KeepsName(f, text.name) =>
      /\ (cmd.verb = "list" /\ outcome = "ok") => Seen(text.name)
      /\ (cmd.verb = "show" /\ outcome = "no suite") => text.name # cmd.name

-----------------------------------------------------------------------------
(* What the documents say and the code does not do. *)

\* US-BEN-0206:69: of two suites of one name, a global one and the project's, show
\* shows the project's.
ProjectSuiteWins ==
  \A i \in DOMAIN found :
    (cmd.verb = "show" /\ found[i].file[1] = "global") =>
      \A f \in SuiteFiles : KeepsName(f, found[i].spec.name) => f[1] # "project"
=============================================================================
