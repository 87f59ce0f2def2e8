--------------------------- MODULE WorkspaceProofs ---------------------------
(* Theorems about the configuration chain and suite discovery, for any   *)
(* files, environments, commands and edits.                              *)
EXTENDS Workspace, DataFacts, TLAPS

-----------------------------------------------------------------------------
(* The inductive invariant. *)

Shape ==
  /\ cmd.verb \in {"list", "show", "config path"}
  /\ cmd.paths \in Seq(ConfigFiles) /\ DOMAIN cmd.overrides \subseteq Keys
  /\ DOMAIN config = ConfigFiles /\ DOMAIN suites = SuiteFiles
  /\ \A f \in ConfigFiles : \A text \in pastConfig[f] : Loads(text) => DOMAIN text \subseteq Keys
  /\ pending \in Seq(ConfigFiles)
  /\ IsSequence(found) /\ IsSequence(layers)
  /\ \A i \in DOMAIN found : found[i].file \in SuiteFiles

\* What was read of the first k sources,
IsVersion(read, k) ==
  /\ read \in [1..k -> (UNION {pastConfig[f] : f \in ConfigFiles}) \ {Broken}]
  /\ \A i \in 1..k : read[i] \in pastConfig[Sources[i]] /\ (cmd.paths # <<>> => read[i] # None)

\* and the settings that result from it.
Layered(read, s) ==
  /\ DOMAIN s = {k \in Keys : Setting(read, k) # {}}
  /\ \A k \in DOMAIN s : \E i \in Setting(read, k) :
       s[k] = read[i][k] /\ \A j \in Setting(read, k) : j <= i

\* The settings of a command, under its overrides.
Overridden(read, s) ==
  /\ DOMAIN s = DOMAIN cmd.overrides \cup {k \in Keys : Setting(read, k) # {}}
  /\ \A k \in DOMAIN s :
       \/ k \in DOMAIN cmd.overrides /\ s[k] = cmd.overrides[k]
       \/ /\ k \notin DOMAIN cmd.overrides
          /\ \E i \in Setting(read, k) : s[k] = read[i][k] /\ \A j \in Setting(read, k) : j <= i

SettingsSaved == ConfigLoaded => \E read : IsVersion(read, Len(Sources)) /\ Overridden(read, settings)

\* The sources before the pending ones are merged.
MergedSoFar ==
  \E k \in 0..Len(Sources) :
    /\ Len(pending) = Len(Sources) - k
    /\ \A i \in 1..Len(pending) : pending[i] = Sources[k + i]
    /\ \E read : IsVersion(read, k) /\ Layered(read, settings)

Chain ==
  /\ pc = "args" => DOMAIN settings = {}
  /\ pc \in {"stat", "read"} => MergedSoFar
  /\ pc = "stat" => cmd.paths = <<>>
  /\ (pc = "read" /\ cmd.paths = <<>>) =>
       pending # <<>> /\ \E text \in pastConfig[Head(pending)] : text # None

\* The resolver has looked at the layers that are not pending.
Resolved(n) ==
  /\ Len(layers) = n /\ n <= Len(ConfigLayers(env))
  /\ \A i \in 1..n :
       LET path == ConfigLayers(env)[i]
       IN  /\ layers[i].path = path
           /\ layers[i].exists => \E text \in pastConfig[path] : text # None
           /\ ~layers[i].exists => None \in pastConfig[path]

Resolver ==
  /\ pc \in {"args", "stat", "read"} => layers = <<>>
  /\ pc = "resolve" =>
       \E n \in Nat :
         /\ Resolved(n) /\ Len(pending) = Len(ConfigLayers(env)) - n
         /\ \A i \in 1..Len(pending) : pending[i] = ConfigLayers(env)[n + i]
  /\ (cmd.verb = "config path" /\ outcome = "ok") => Resolved(Len(ConfigLayers(env)))

\* Directories still to scan, and whether the scan is over them.
Ahead     == {dirs[i] : i \in DOMAIN dirs}
Searching == pc \in {"dir", "file"} \/ (cmd.verb # "config path" /\ outcome \in {"ok", "no suite"})

Passed(f) == Searching /\ f[1] \notin Ahead /\ f \notin entries

Stages ==
  /\ pc \in {"args", "stat", "read", "resolve"} => entries = {} /\ found = <<>>
  /\ pc \in {"dir", "file"} => cmd.verb # "config path"
  /\ pc = "resolve" => cmd.verb = "config path"
  /\ cmd.verb = "config path" => found = <<>> /\ outcome \notin {"no suite", "scan error"}
  /\ (cmd.verb = "show" /\ pc # "end") => found = <<>>
  /\ dirs \in {<<>>, <<"project">>, <<"global", "project">>}
  /\ \A f \in entries : dirs = (IF f[1] = "global" THEN <<"project">> ELSE <<>>)
  /\ pc = "dir" => entries = {}
  /\ ((cmd.verb = "list" /\ outcome = "ok") \/ outcome = "no suite") => dirs = <<>> /\ entries = {}

\* A suite that was there all the time and has been passed was rendered, or is not
\* the one looked for.
NothingIsPassedOver ==
  \A f \in SuiteFiles : \A name :
    (Passed(f) /\ KeepsName(f, name)) => Seen(name) \/ (cmd.verb = "show" /\ name # cmd.name)

\* The order of the scan as it is: the global directory, then .ben/suites.
Earlier(f, g) == IF f[1] = g[1] THEN f[2] < g[2] ELSE f[1] = "global"

GlobalFirst ==
  \A i \in DOMAIN found :
    /\ found[i].spec \in pastSuites[found[i].file]
    /\ \A j \in DOMAIN found : found[i].spec.name = found[j].spec.name => i = j
    /\ \A f \in SuiteFiles : KeepsName(f, found[i].spec.name) => ~Earlier(f, found[i].file)

IInv ==
  /\ Shape /\ TypeOK /\ Stages /\ Chain /\ SettingsSaved /\ ConfigErrorsHaveACause
  /\ Resolver /\ NothingIsPassedOver /\ GlobalFirst

-----------------------------------------------------------------------------
(* Sources and layers *)

LEMMA DiscoveredShape ==
  /\ Discovered(env) \in Seq(ConfigFiles) /\ ConfigLayers(env) \in Seq(ConfigFiles)
  /\ env.cwd => Len(Discovered(env)) = Len(ConfigLayers(env))
<1>1. ProjectConfig(env.invokedAs) \in ConfigFiles
  BY DEF ProjectConfig, ConfigFiles
<1>2. UserConfig(env) \in {<<"user">>, <<>>}
  BY DEF UserConfig
<1>3. /\ <<"system">> \in Seq(ConfigFiles) /\ <<ProjectConfig(env.invokedAs)>> \in Seq(ConfigFiles)
      /\ <<>> \in Seq(ConfigFiles) /\ <<"user">> \in Seq(ConfigFiles)
  BY <1>1 DEF ConfigFiles
<1> DEFINE first   == <<"system">>
           user    == UserConfig(env)
           project == <<ProjectConfig(env.invokedAs)>>
           last    == IF env.cwd THEN project ELSE <<>>
<1>4. /\ first \in Seq(ConfigFiles) /\ user \in Seq(ConfigFiles) /\ project \in Seq(ConfigFiles)
      /\ last \in Seq(ConfigFiles)
  BY <1>2, <1>3
<1>5. Len(first) = 1 /\ Len(project) = 1 /\ (env.cwd => last = project)
  OBVIOUS
<1>6. Discovered(env) = (first \o user) \o last /\ ConfigLayers(env) = (project \o user) \o first
  BY DEF Discovered, ConfigLayers
<1> HIDE DEF first, user, project, last
<1>7. /\ first \o user \in Seq(ConfigFiles) /\ Len(first \o user) = Len(first) + Len(user)
      /\ project \o user \in Seq(ConfigFiles) /\ Len(project \o user) = Len(project) + Len(user)
  BY <1>4, ConcatProperties
<1>8. /\ (first \o user) \o last \in Seq(ConfigFiles)
      /\ Len((first \o user) \o last) = Len(first \o user) + Len(last)
      /\ (project \o user) \o first \in Seq(ConfigFiles)
      /\ Len((project \o user) \o first) = Len(project \o user) + Len(first)
  BY <1>4, <1>7, ConcatProperties
<1> QED
  BY <1>4, <1>5, <1>6, <1>7, <1>8, LenProperties

LEMMA SourcesShape ==
  ASSUME Shape
  PROVE  /\ Sources \in Seq(ConfigFiles) /\ Len(Sources) \in Nat
         /\ \A i \in 1..Len(Sources) : Sources[i] \in ConfigFiles
         /\ DOMAIN Sources = 1..Len(Sources)
<1>1. Sources \in Seq(ConfigFiles)
  BY DiscoveredShape DEF Sources, Shape
<1> QED
  BY <1>1, LenProperties, ElementOfSeq

-----------------------------------------------------------------------------
LEMMA Initially == Init => IInv
<1> SUFFICES ASSUME Init PROVE IInv
  OBVIOUS
<1> USE DEF Init
<1>1. PICK s \in Scenarios : config = s.config /\ suites = s.suites /\ env = s.env /\ cmd = s.cmd
  OBVIOUS
<1>2. Shape
  <2>1. \A f \in ConfigFiles : \A text \in pastConfig[f] : Loads(text) => DOMAIN text \subseteq Keys
    BY <1>1, WorkspaceAssumption DEF Loads
  <2>2. pending \in Seq(ConfigFiles)
    OBVIOUS
  <2> QED
    BY <1>1, <2>1, <2>2, WorkspaceAssumption, EmptyIsSequence DEF Shape
<1>3. TypeOK
  BY WorkspaceAssumption, EmptyIsSequence DEF TypeOK, ConfigLoaded
<1>4. Stages /\ Chain /\ Resolver
  BY WorkspaceAssumption, EmptyIsSequence DEF Stages, Chain, Resolver
<1>5. SettingsSaved /\ ConfigErrorsHaveACause
  BY WorkspaceAssumption DEF SettingsSaved, ConfigErrorsHaveACause, ConfigLoaded
<1>6. NothingIsPassedOver /\ GlobalFirst
  BY WorkspaceAssumption, EmptyIsSequence DEF NothingIsPassedOver, Passed, Searching, GlobalFirst
<1> QED
  BY <1>2, <1>3, <1>4, <1>5, <1>6 DEF IInv

-----------------------------------------------------------------------------
(* The user's steps *)

\* What an edit changes, and that the past only grows.
Grown ==
  /\ pc # "end"
  /\ UNCHANGED <<env, cmd, pc, pending, settings, layers, dirs, entries, found, outcome>>
  /\ DOMAIN config' = ConfigFiles /\ DOMAIN suites' = SuiteFiles
  /\ \A f \in ConfigFiles : pastConfig[f] \subseteq pastConfig'[f] /\ config'[f] \in pastConfig'[f]
  /\ \A f \in SuiteFiles : pastSuites[f] \subseteq pastSuites'[f] /\ suites'[f] \in pastSuites'[f]
  /\ \A f \in ConfigFiles : \A text \in pastConfig'[f] : Loads(text) => DOMAIN text \subseteq Keys

LEMMA EditsGrow ==
  ASSUME IInv, WriteConfig \/ WriteSuite \/ MoveSuite
  PROVE  Grown
<1>1. PICK c, t :
        /\ Edited(c, t) /\ DOMAIN c = ConfigFiles /\ DOMAIN t = SuiteFiles
        /\ \A f \in ConfigFiles : c[f] \in {config[f], Broken, None} \cup ConfigTexts
  <2>1. CASE WriteConfig
    <3>1. PICK f \in ConfigFiles, text \in ConfigTexts \cup {Broken, None} :
            Edited([config EXCEPT ![f] = text], suites)
      BY <2>1 DEF WriteConfig
    <3> DEFINE c == [config EXCEPT ![f] = text]
    <3>2. DOMAIN c = ConfigFiles /\ \A g \in ConfigFiles : c[g] \in {config[g], Broken, None} \cup ConfigTexts
      BY DEF IInv, Shape
    <3> HIDE DEF c
    <3> QED
      BY <3>1, <3>2 DEF IInv, Shape, c
  <2>2. CASE WriteSuite
    <3>1. PICK f \in SuiteFiles, text \in SuiteTexts \cup {Broken, None} :
            Edited(config, [suites EXCEPT ![f] = text])
      BY <2>2 DEF WriteSuite
    <3> QED
      BY <3>1 DEF IInv, Shape
  <2>3. CASE MoveSuite
    <3>1. PICK f \in SuiteFiles, g \in SuiteFiles :
            Edited(config, [suites EXCEPT ![f] = None, ![g] = suites[f]])
      BY <2>3 DEF MoveSuite
    <3> QED
      BY <3>1 DEF IInv, Shape
  <2> QED
    BY <2>1, <2>2, <2>3
<1>2. /\ pc # "end"
      /\ config' = c /\ suites' = t
      /\ pastConfig' = [f \in ConfigFiles |-> pastConfig[f] \cup {c[f]}]
      /\ pastSuites' = [f \in SuiteFiles |-> pastSuites[f] \cup {t[f]}]
      /\ UNCHANGED <<env, cmd, pc, pending, settings, layers, dirs, entries, found, outcome>>
  BY <1>1 DEF Edited, Loading, Scan
<1>3. \A f \in ConfigFiles : Loads(c[f]) => DOMAIN c[f] \subseteq Keys
  BY <1>1, WorkspaceAssumption DEF IInv, Shape, TypeOK, Loads
<1> QED
  BY <1>1, <1>2, <1>3 DEF Grown, IInv, Shape

LEMMA Editing ==
  ASSUME IInv, Grown
  PROVE  IInv'
<1> USE DEF Grown
<1>1. Shape'
  BY DEF IInv, Shape
<1>2. TypeOK'
  BY DEF IInv, TypeOK, ConfigLoaded
<1>3. Stages'
  BY DEF IInv, Stages, Ahead
<1>4. ASSUME NEW read, NEW k \in 0..Len(Sources), IsVersion(read, k)
      PROVE  IsVersion(read, k)'
  <2>1. UNION {pastConfig[f] : f \in ConfigFiles} \subseteq UNION {pastConfig'[f] : f \in ConfigFiles}
    OBVIOUS
  <2>2. \A i \in 1..k : Sources[i] \in ConfigFiles
    BY SourcesShape DEF IInv
  <2>3. Sources' = Sources
    BY DEF Sources
  <2>4. read \in [1..k -> (UNION {pastConfig'[f] : f \in ConfigFiles}) \ {Broken}]
    BY <1>4, <2>1 DEF IsVersion
  <2>5. \A i \in 1..k : read[i] \in pastConfig'[Sources[i]] /\ (cmd.paths # <<>> => read[i] # None)
    BY <1>4, <2>2 DEF IsVersion
  <2> QED
    BY <2>3, <2>4, <2>5 DEF IsVersion
<1>5. Chain'
  <2>1. MergedSoFar => MergedSoFar'
    <3> SUFFICES ASSUME MergedSoFar PROVE MergedSoFar'
      OBVIOUS
    <3>1. PICK k \in 0..Len(Sources) :
            /\ Len(pending) = Len(Sources) - k
            /\ \A i \in 1..Len(pending) : pending[i] = Sources[k + i]
            /\ \E read : IsVersion(read, k) /\ Layered(read, settings)
      BY DEF MergedSoFar
    <3>2. PICK read : IsVersion(read, k) /\ Layered(read, settings)
      BY <3>1
    <3>3. IsVersion(read, k)' /\ Layered(read, settings)'
      BY <1>4, <3>2 DEF Layered, Setting
    <3>4. Sources' = Sources
      BY DEF Sources
    <3> QED
      BY <3>1, <3>3, <3>4 DEF MergedSoFar
  <2>2. (pc = "read" /\ cmd.paths = <<>>) =>
          pending # <<>> /\ \E text \in pastConfig'[Head(pending)] : text # None
    <3>1. pending # <<>> => Head(pending) \in ConfigFiles
      BY HeadTailProperties DEF IInv, Shape
    <3> QED
      BY <3>1 DEF IInv, Chain
  <2> QED
    BY <2>1, <2>2 DEF IInv, Chain
<1>6. SettingsSaved'
  <2> SUFFICES ASSUME ConfigLoaded PROVE SettingsSaved'
    BY DEF SettingsSaved, ConfigLoaded
  <2>1. PICK read : IsVersion(read, Len(Sources)) /\ Overridden(read, settings)
    BY DEF IInv, SettingsSaved
  <2>2. Len(Sources) \in Nat /\ Sources' = Sources
    BY SourcesShape DEF IInv, Sources
  <2>3. IsVersion(read, Len(Sources))' /\ Overridden(read, settings)'
    BY <1>4, <2>1, <2>2 DEF Overridden, Setting
  <2> QED
    BY <2>2, <2>3 DEF SettingsSaved
<1>7. ConfigErrorsHaveACause'
  BY WorkspaceAssumption DEF IInv, TypeOK, ConfigErrorsHaveACause
<1>8. Resolver'
  <2>0. ConfigLayers(env)' = ConfigLayers(env)
    BY DEF ConfigLayers, UserConfig, ProjectConfig
  <2>1. ASSUME NEW n \in Nat, Resolved(n) PROVE Resolved(n)'
    <3>1. \A i \in 1..n : ConfigLayers(env)[i] \in ConfigFiles
      BY <2>1, DiscoveredShape, ElementOfSeq, LenProperties DEF Resolved
    <3> QED
      BY <2>1, <3>1 DEF Resolved
  <2>2. Len(ConfigLayers(env)) \in Nat
    BY DiscoveredShape, LenProperties
  <2> QED
    BY <2>1, <2>2 DEF IInv, Resolver
<1>9. \A f \in SuiteFiles : \A name : KeepsName(f, name)' => KeepsName(f, name)
  BY DEF KeepsName
<1>10. NothingIsPassedOver'
  BY <1>9 DEF IInv, NothingIsPassedOver, Passed, Searching, Ahead, Seen
<1>11. GlobalFirst'
  <2> SUFFICES ASSUME NEW i \in DOMAIN found
               PROVE  /\ found[i].spec \in pastSuites'[found[i].file] /\ found[i].file \in SuiteFiles
                      /\ \A j \in DOMAIN found : found[i].spec.name = found[j].spec.name => i = j
                      /\ \A f \in SuiteFiles :
                           KeepsName(f, found[i].spec.name)' => ~Earlier(f, found[i].file)
    BY DEF GlobalFirst, Earlier
  <2> QED
    BY <1>9 DEF IInv, GlobalFirst, Shape
<1> QED
  BY <1>1, <1>2, <1>3, <1>5, <1>6, <1>7, <1>8, <1>10, <1>11 DEF IInv

-----------------------------------------------------------------------------
(* The loader *)

\* One more source of the chain: absent, or merged over what was read before.
LEMMA OneMoreSource ==
  ASSUME Shape, NEW k \in Nat, k < Len(Sources),
         NEW read, IsVersion(read, k), Layered(read, settings),
         NEW text \in pastConfig[Sources[k + 1]], text # Broken,
         cmd.paths # <<>> => text # None
  PROVE  \E longer : /\ IsVersion(longer, k + 1)
                     /\ Layered(longer, IF text = None THEN settings ELSE Merge(text, settings))
<1> DEFINE longer == [i \in 1..(k + 1) |-> IF i = k + 1 THEN text ELSE read[i]]
           s == IF text = None THEN settings ELSE Merge(text, settings)
<1>0. \A i \in 1..(k + 1) : Sources[i] \in ConfigFiles
  BY SourcesShape
<1>1. IsVersion(longer, k + 1)
  <2>1. text \in (UNION {pastConfig[f] : f \in ConfigFiles}) \ {Broken}
    BY <1>0
  <2>2. longer \in [1..(k + 1) -> (UNION {pastConfig[f] : f \in ConfigFiles}) \ {Broken}]
    BY <2>1 DEF IsVersion
  <2>3. \A i \in 1..(k + 1) : longer[i] \in pastConfig[Sources[i]] /\ (cmd.paths # <<>> => longer[i] # None)
    BY DEF IsVersion
  <2> QED
    BY <2>2, <2>3 DEF IsVersion
<1>2. /\ DOMAIN read = 1..k /\ DOMAIN longer = 1..(k + 1)
      /\ longer[k + 1] = text /\ \A i \in 1..k : longer[i] = read[i]
  BY DEF IsVersion
<1> HIDE DEF longer
<1>3. ASSUME NEW key
      PROVE  Setting(longer, key)
               = Setting(read, key) \cup (IF text # None /\ key \in DOMAIN text THEN {k + 1} ELSE {})
  BY <1>2 DEF Setting
<1>4. CASE text = None
  <2>1. \A key : Setting(longer, key) = Setting(read, key) /\ Setting(read, key) \subseteq 1..k
    BY <1>2, <1>3, <1>4 DEF Setting
  <2>2. \A key : \A i \in Setting(read, key) : longer[i] = read[i]
    BY <1>2, <2>1
  <2>3. Layered(longer, settings)
    BY <2>1, <2>2 DEF Layered
  <2> QED
    BY <1>1, <1>4, <2>3
<1>5. CASE text # None
  <2>0. DOMAIN text \subseteq Keys
    <3>1. Sources[k + 1] \in ConfigFiles /\ Loads(text)
      BY <1>0, <1>5 DEF Loads
    <3> QED
      BY <3>1 DEF Shape
  <2> DEFINE merged == Merge(text, settings)
  <2>1. /\ DOMAIN merged = DOMAIN text \cup DOMAIN settings
        /\ \A key \in DOMAIN merged : merged[key] = IF key \in DOMAIN text THEN text[key] ELSE settings[key]
    BY DEF Merge
  <2> HIDE DEF merged
  <2>2. DOMAIN merged = {key \in Keys : Setting(longer, key) # {}}
    BY <1>3, <1>5, <2>0, <2>1 DEF Layered
  <2>3. ASSUME NEW key \in DOMAIN merged
        PROVE  \E i \in Setting(longer, key) :
                 merged[key] = longer[i][key] /\ \A j \in Setting(longer, key) : j <= i
    <3>1. Setting(read, key) \subseteq 1..k
      BY <1>2 DEF Setting
    <3>2. CASE key \in DOMAIN text
      <4>1. k + 1 \in Setting(longer, key) /\ \A j \in Setting(longer, key) : j <= k + 1
        BY <1>3, <1>5, <3>1, <3>2
      <4> QED
        BY <4>1, <1>2, <2>1, <3>2
    <3>3. CASE key \notin DOMAIN text
      <4>1. Setting(longer, key) = Setting(read, key) /\ key \in DOMAIN settings
        BY <1>3, <2>1, <3>3
      <4>2. PICK i \in Setting(read, key) : settings[key] = read[i][key] /\ \A j \in Setting(read, key) : j <= i
        BY <4>1 DEF Layered
      <4> QED
        BY <4>1, <4>2, <1>2, <2>1, <3>1, <3>3
    <3> QED
      BY <3>2, <3>3
  <2>4. Layered(longer, merged)
    BY <2>2, <2>3 DEF Layered
  <2> QED
    BY <1>1, <1>5, <2>4 DEF merged
<1> QED
  BY <1>4, <1>5

\* The first pending source was looked at and gave text.
LEMMA SourceRead ==
  ASSUME Shape, MergedSoFar, pending # <<>>,
         NEW text \in pastConfig[Head(pending)], text # Broken, cmd.paths # <<>> => text # None,
         UNCHANGED World, pending' = Tail(pending),
         settings' = IF text = None THEN settings ELSE Merge(text, settings)
  PROVE  MergedSoFar'
<1>1. PICK k \in 0..Len(Sources) :
        /\ Len(pending) = Len(Sources) - k
        /\ \A i \in 1..Len(pending) : pending[i] = Sources[k + i]
        /\ \E read : IsVersion(read, k) /\ Layered(read, settings)
  BY DEF MergedSoFar
<1>2. PICK read : IsVersion(read, k) /\ Layered(read, settings)
  BY <1>1
<1>3. /\ Len(pending) \in Nat \ {0} /\ Head(pending) = pending[1]
      /\ Len(pending') = Len(pending) - 1
      /\ \A i \in 1..Len(pending') : pending'[i] = pending[i + 1]
  <2>1. pending \in Seq(ConfigFiles)
    BY DEF Shape
  <2>2. /\ Len(pending) \in Nat \ {0} /\ Head(pending) = pending[1] /\ Len(Tail(pending)) = Len(pending) - 1
        /\ \A i \in 1..Len(Tail(pending)) : Tail(pending)[i] = pending[i + 1]
    BY <2>1, HeadTailProperties, EmptySeq
  <2> QED
    BY <2>2
<1>4. k \in Nat /\ k < Len(Sources) /\ Head(pending) = Sources[k + 1] /\ Len(Sources) \in Nat
  BY <1>1, <1>3, SourcesShape
<1>5. PICK longer : IsVersion(longer, k + 1) /\ Layered(longer, settings')
  BY <1>2, <1>4, OneMoreSource
<1>6. Sources' = Sources
  BY DEF World, Sources
<1>7. IsVersion(longer, k + 1)' /\ Layered(longer, settings)'
  BY <1>5, <1>6 DEF World, IsVersion, Layered, Setting
<1>8. k + 1 \in 0..Len(Sources)'
  BY <1>4, <1>6
<1>9. Len(pending') = Len(Sources)' - (k + 1) /\ \A i \in 1..Len(pending') : pending'[i] = Sources'[(k + 1) + i]
  BY <1>1, <1>3, <1>4, <1>6
<1> QED
  BY <1>7, <1>8, <1>9 DEF MergedSoFar

\* While the loader runs, no suite and no layer was looked at.
LEMMA StillLoading ==
  ASSUME IInv, UNCHANGED <<World, Scan, layers>>,
         pc \in {"args", "stat", "read"}, pc' \in {"stat", "read", "end"},
         IF pc' = "end" THEN outcome' = "config error" ELSE UNCHANGED outcome,
         pending' \in Seq(ConfigFiles), DOMAIN settings' \subseteq Keys
  PROVE  /\ Shape' /\ TypeOK' /\ Stages' /\ SettingsSaved' /\ Resolver'
         /\ NothingIsPassedOver' /\ GlobalFirst'
<1> USE DEF World, Scan
<1>0. outcome = None /\ found = <<>> /\ entries = {} /\ layers = <<>>
  BY DEF IInv, TypeOK, Stages, Resolver
<1>1. Shape'
  BY DEF IInv, Shape
<1>2. TypeOK'
  <2>1. \A i \in DOMAIN pending' : pending'[i] \in ConfigFiles
    BY LenProperties
  <2>2. ~ConfigLoaded'
    BY <1>0, WorkspaceAssumption DEF ConfigLoaded
  <2> QED
    BY <1>0, <2>1, <2>2, WorkspaceAssumption DEF IInv, TypeOK
<1>3. Stages'
  BY <1>0, WorkspaceAssumption DEF IInv, Stages, Ahead
<1>4. SettingsSaved' /\ Resolver'
  BY <1>0, WorkspaceAssumption DEF SettingsSaved, ConfigLoaded, Resolver
<1>5. NothingIsPassedOver' /\ GlobalFirst'
  BY <1>0, WorkspaceAssumption, EmptyIsSequence
  DEF NothingIsPassedOver, Passed, Searching, GlobalFirst
<1> QED
  BY <1>1, <1>2, <1>3, <1>4, <1>5

LEMMA ReadingArgs ==
  ASSUME IInv, ConfigArgs
  PROVE  IInv'
<1>1. /\ UNCHANGED <<World, Scan, layers, settings>> /\ DOMAIN settings = {} /\ pc = "args"
      /\ pending' = Sources /\ Sources \in Seq(ConfigFiles)
      /\ pc' = (IF cmd.malformed THEN "end" ELSE IF cmd.paths = <<>> THEN "stat" ELSE "read")
      /\ outcome' = IF cmd.malformed THEN "config error" ELSE outcome
  BY SourcesShape DEF IInv, Chain, Sources, ConfigArgs, GoTo, End
<1>2. /\ Shape' /\ TypeOK' /\ Stages' /\ SettingsSaved' /\ Resolver'
      /\ NothingIsPassedOver' /\ GlobalFirst'
  BY <1>1, StillLoading DEF IInv, TypeOK, World
<1>3. MergedSoFar'
  <2> DEFINE read == [i \in 1..0 |-> None]
  <2>1. Sources' = Sources /\ Len(Sources) \in Nat
    BY <1>1, LenProperties DEF World, Sources
  <2>2. \A i \in 1..0 : FALSE
    OBVIOUS
  <2>3. IsVersion(read, 0)'
    BY <2>2 DEF IsVersion
  <2>4. \A k : Setting(read, k) = {}
    BY <2>2 DEF Setting
  <2>5. Layered(read, settings)'
    BY <1>1, <2>4 DEF Layered, Setting
  <2> HIDE DEF read
  <2>6. pending' = Sources'
    BY <1>1, <2>1
  <2>7. /\ 0 \in 0..Len(Sources') /\ Len(pending') = Len(Sources') - 0
        /\ \A i \in 1..Len(pending') : pending'[i] = Sources'[0 + i]
    BY <2>1, <2>6
  <2> QED
    BY <2>3, <2>5, <2>6, <2>7 DEF MergedSoFar
<1>4. Chain'
  <2>1. (pc' = "read") => cmd'.paths # <<>>
    BY <1>1 DEF World
  <2>2. (pc' = "stat") => cmd'.paths = <<>>
    BY <1>1 DEF World
  <2> QED
    BY <1>1, <1>3, <2>1, <2>2 DEF Chain
<1>5. ConfigErrorsHaveACause'
  BY <1>1, WorkspaceAssumption DEF IInv, TypeOK, ConfigErrorsHaveACause, World
<1> QED
  BY <1>2, <1>4, <1>5 DEF IInv

LEMMA PendingShape ==
  ASSUME Shape, pending # <<>>
  PROVE  /\ Head(pending) \in ConfigFiles /\ Tail(pending) \in Seq(ConfigFiles)
         /\ Len(pending) \in Nat \ {0} /\ Head(pending) = pending[1]
<1>1. pending \in Seq(ConfigFiles)
  BY DEF Shape
<1>2. /\ Head(pending) \in ConfigFiles /\ Tail(pending) \in Seq(ConfigFiles)
      /\ Len(pending) \in Nat \ {0}
  BY <1>1, HeadTailProperties, EmptySeq
<1>3. Head(pending) = pending[1]
  BY <1>1
<1> QED
  BY <1>2, <1>3

LEMMA Statting ==
  ASSUME IInv, StatConfig
  PROVE  IInv'
<1>1. /\ UNCHANGED <<World, Scan, layers, settings, outcome>> /\ pc = "stat" /\ pending # <<>>
      /\ cmd.paths = <<>> /\ MergedSoFar /\ Shape /\ TypeOK
      /\ IF FileExists(Head(pending))
         THEN pc' = "read" /\ UNCHANGED pending
         ELSE pc' = "stat" /\ pending' = Tail(pending)
  BY DEF IInv, Chain, StatConfig, GoTo
<1>2. CASE FileExists(Head(pending))
  <2>1. pc' = "read" /\ UNCHANGED pending
    BY <1>1, <1>2
  <2>2. /\ Shape' /\ TypeOK' /\ Stages' /\ SettingsSaved' /\ Resolver'
        /\ NothingIsPassedOver' /\ GlobalFirst'
    BY <1>1, <2>1, StillLoading DEF TypeOK, Shape
  <2>3. MergedSoFar'
    <3>1. Sources' = Sources
      BY <1>1 DEF World, Sources
    <3>2. \A k, read : (IsVersion(read, k) /\ Layered(read, settings)) =>
                       IsVersion(read, k)' /\ Layered(read, settings)'
      BY <1>1, <3>1 DEF World, IsVersion, Layered, Setting
    <3> QED
      BY <1>1, <2>1, <3>1, <3>2 DEF MergedSoFar
  <2>4. pending # <<>> /\ config[Head(pending)] \in pastConfig[Head(pending)] /\ config[Head(pending)] # None
    BY <1>1, <1>2, PendingShape DEF FileExists, TypeOK
  <2>5. Chain'
    BY <1>1, <2>1, <2>3, <2>4 DEF Chain, World
  <2>6. ConfigErrorsHaveACause'
    BY <1>1, WorkspaceAssumption DEF TypeOK, ConfigErrorsHaveACause
  <2> QED
    BY <2>2, <2>5, <2>6 DEF IInv
<1>3. CASE ~FileExists(Head(pending))
  <2>1. pc' = "stat" /\ pending' = Tail(pending)
    BY <1>1, <1>3
  <2>2. /\ Shape' /\ TypeOK' /\ Stages' /\ SettingsSaved' /\ Resolver'
        /\ NothingIsPassedOver' /\ GlobalFirst'
    BY <1>1, <2>1, StillLoading, PendingShape DEF TypeOK
  <2>3. None \in pastConfig[Head(pending)]
    BY <1>1, <1>3, PendingShape DEF FileExists, TypeOK
  <2>4. MergedSoFar'
    BY <1>1, <2>1, <2>3, SourceRead, WorkspaceAssumption
  <2>5. Chain'
    BY <1>1, <2>1, <2>4 DEF Chain, World
  <2>6. ConfigErrorsHaveACause'
    BY <1>1, WorkspaceAssumption DEF TypeOK, ConfigErrorsHaveACause
  <2> QED
    BY <2>2, <2>5, <2>6 DEF IInv
<1> QED
  BY <1>2, <1>3

\* The sources still pending are sources.
LEMMA HeadIsSource ==
  ASSUME Shape, MergedSoFar, pending # <<>>
  PROVE  \E i \in DOMAIN Sources : Sources[i] = Head(pending)
<1>1. PICK k \in 0..Len(Sources) : /\ Len(pending) = Len(Sources) - k
                                   /\ \A i \in 1..Len(pending) : pending[i] = Sources[k + i]
  BY DEF MergedSoFar
<1>2. Len(pending) \in Nat \ {0} /\ Head(pending) = pending[1]
  BY PendingShape
<1>3. k + 1 \in DOMAIN Sources /\ Sources[k + 1] = Head(pending)
  BY <1>1, <1>2, SourcesShape
<1> QED
  BY <1>3

LEMMA Reading ==
  ASSUME IInv, ReadConfig
  PROVE  IInv'
<1> USE DEF IInv, ReadConfig, GoTo, End
<1> DEFINE text == config[Head(pending)]
<1>1. /\ UNCHANGED <<World, Scan, layers>> /\ pc = "read" /\ pending # <<>> /\ MergedSoFar
      /\ text \in pastConfig[Head(pending)]
  BY PendingShape DEF Chain, TypeOK
<1>2. CASE Loads(text)
  <2>1. /\ settings' = Merge(text, settings) /\ pending' = Tail(pending) /\ UNCHANGED outcome
        /\ pc' = IF cmd.paths = <<>> THEN "stat" ELSE "read"
    BY <1>2
  <2>2. DOMAIN settings' \subseteq Keys
    <3>1. DOMAIN text \subseteq Keys
      BY <1>1, <1>2, PendingShape DEF Shape
    <3>2. DOMAIN settings' = DOMAIN text \cup DOMAIN settings
      BY <2>1 DEF Merge
    <3> QED
      BY <3>1, <3>2 DEF TypeOK
  <2>3. /\ Shape' /\ TypeOK' /\ Stages' /\ SettingsSaved' /\ Resolver'
        /\ NothingIsPassedOver' /\ GlobalFirst'
    BY <1>1, <2>1, <2>2, StillLoading, PendingShape
  <2>4. text # None /\ text # Broken
    BY <1>2 DEF Loads
  <2> HIDE DEF text
  <2>5. MergedSoFar'
    BY <1>1, <2>1, <2>4, SourceRead
  <2>6. Chain'
    BY <1>1, <2>1, <2>5 DEF Chain, World
  <2>7. ConfigErrorsHaveACause'
    BY <1>1, <2>1, WorkspaceAssumption DEF TypeOK, ConfigErrorsHaveACause
  <2> QED
    BY <2>3, <2>6, <2>7
<1>3. CASE ~Loads(text)
  <2>1. pc' = "end" /\ outcome' = "config error" /\ UNCHANGED <<settings, pending>>
    BY <1>3
  <2>2. /\ Shape' /\ TypeOK' /\ Stages' /\ SettingsSaved' /\ Resolver'
        /\ NothingIsPassedOver' /\ GlobalFirst'
    BY <1>1, <2>1, StillLoading DEF TypeOK, Shape
  <2>3. Chain'
    BY <2>1 DEF Chain
  <2>4. PICK i \in DOMAIN Sources : Sources[i] = Head(pending)
    BY <1>1, HeadIsSource
  <2>5. \/ Broken \in pastConfig[Head(pending)]
        \/ None \in pastConfig[Head(pending)] /\ (cmd.paths # <<>> \/ pastConfig[Head(pending)] # {None})
    BY <1>1, <1>3 DEF Loads, Chain
  <2>6. Sources' = Sources
    BY <1>1 DEF World, Sources
  <2>7. ConfigErrorsHaveACause'
    BY <1>1, <2>4, <2>5, <2>6 DEF ConfigErrorsHaveACause, World
  <2> QED
    BY <2>2, <2>3, <2>7
<1> QED
  BY <1>2, <1>3

-----------------------------------------------------------------------------
(* The command *)

\* With the loader at its end every source is merged; the overrides come on top.
LEMMA LoaderEnds ==
  ASSUME Shape, MergedSoFar, pending = <<>>, UNCHANGED World,
         settings' = Merge(cmd.overrides, settings)
  PROVE  /\ DOMAIN settings' \subseteq Keys
         /\ \E read : IsVersion(read, Len(Sources))' /\ Overridden(read, settings)'
<1>1. PICK k \in 0..Len(Sources) : Len(pending) = Len(Sources) - k /\ \E read : IsVersion(read, k) /\ Layered(read, settings)
  BY DEF MergedSoFar
<1>2. k = Len(Sources) /\ Sources' = Sources
  BY <1>1, SourcesShape DEF World, Sources
<1>3. PICK read : IsVersion(read, Len(Sources)) /\ Layered(read, settings)
  BY <1>1, <1>2
<1>4. /\ DOMAIN settings' = DOMAIN cmd.overrides \cup DOMAIN settings
      /\ \A k2 \in DOMAIN settings' : settings'[k2] = IF k2 \in DOMAIN cmd.overrides THEN cmd.overrides[k2] ELSE settings[k2]
  BY DEF Merge
<1>5. DOMAIN settings' \subseteq Keys
  BY <1>3, <1>4 DEF Layered, Shape
<1>6. Overridden(read, settings)'
  <2>1. DOMAIN settings' = DOMAIN cmd.overrides \cup {k2 \in Keys : Setting(read, k2) # {}}
    BY <1>3, <1>4 DEF Layered
  <2>2. ASSUME NEW k2 \in DOMAIN settings'
        PROVE  \/ k2 \in DOMAIN cmd.overrides /\ settings'[k2] = cmd.overrides[k2]
               \/ /\ k2 \notin DOMAIN cmd.overrides
                  /\ \E i \in Setting(read, k2) :
                       settings'[k2] = read[i][k2] /\ \A j \in Setting(read, k2) : j <= i
    BY <1>3, <1>4, <2>2 DEF Layered
  <2>3. cmd' = cmd
    BY DEF World
  <2> QED
    BY <2>1, <2>2, <2>3 DEF Overridden, Setting
<1>7. IsVersion(read, Len(Sources))'
  BY <1>2, <1>3 DEF IsVersion, World
<1> QED
  BY <1>5, <1>6, <1>7

LEMMA ScanDirsShape ==
  /\ SuiteScanDirs(env) = IF env.dataDir THEN <<"global", "project">> ELSE <<"project">>
<1>1. /\ <<"global">> \in Seq(SuiteDirs) /\ <<"project">> \in Seq(SuiteDirs)
      /\ <<"global", "project">> \in Seq(SuiteDirs)
  BY DEF SuiteDirs
<1> DEFINE both == <<"global">> \o <<"project">>
<1>2. /\ both \in Seq(SuiteDirs) /\ Len(both) = 2
      /\ \A i \in 1..2 : both[i] = IF i <= 1 THEN <<"global">>[i] ELSE <<"project">>[i - 1]
  <2>1. Len(<<"global">>) = 1 /\ Len(<<"project">>) = 1
    OBVIOUS
  <2> QED
    BY <1>1, <2>1, ConcatProperties
<1> HIDE DEF both
<1>3. both[1] = "global" /\ both[2] = "project"
  BY <1>2
<1>4. both = <<"global", "project">>
  BY <1>1, <1>2, <1>3, SeqEqual
<1>5. <<>> \o <<"project">> = <<"project">>
  BY <1>1, ConcatEmptySeq
<1> QED
  BY <1>4, <1>5 DEF SuiteScanDirs, both

\* The directories ahead, in each of the lists there are.
LEMMA AheadOf ==
  ASSUME NEW d
  PROVE  /\ d = <<>> => {d[i] : i \in DOMAIN d} = {}
         /\ d = <<"project">> => {d[i] : i \in DOMAIN d} = {"project"}
         /\ d = <<"global", "project">> => {d[i] : i \in DOMAIN d} = {"global", "project"}
<1>1. ASSUME d = <<>> PROVE {d[i] : i \in DOMAIN d} = {}
  BY <1>1, EmptyIsSequence
<1>2. ASSUME d = <<"project">> PROVE {d[i] : i \in DOMAIN d} = {"project"}
  <2>1. DOMAIN d = {1} /\ d[1] = "project"
    BY <1>2
  <2> QED
    BY <2>1
<1>3. ASSUME d = <<"global", "project">> PROVE {d[i] : i \in DOMAIN d} = {"global", "project"}
  <2>1. DOMAIN d = {1, 2} /\ d[1] = "global" /\ d[2] = "project"
    BY <1>3
  <2> QED
    BY <2>1
<1> QED
  BY <1>1, <1>2, <1>3

LEMMA Applying ==
  ASSUME IInv, ApplyOverrides
  PROVE  IInv'
<1>1. /\ UNCHANGED <<World, layers, entries, found, outcome>> /\ pending = <<>>
      /\ Shape /\ MergedSoFar /\ settings' = Merge(cmd.overrides, settings) /\ TypeOK
      /\ outcome = None /\ layers = <<>> /\ entries = {} /\ found = <<>>
      /\ dirs \in {<<>>, <<"project">>, <<"global", "project">>}
      /\ IF cmd.verb = "config path"
         THEN pc' = "resolve" /\ pending' = ConfigLayers(env) /\ UNCHANGED dirs
         ELSE pc' = "dir" /\ dirs' = SuiteScanDirs(env) /\ UNCHANGED pending
  BY DEF IInv, ApplyOverrides, GoTo, Chain, TypeOK, Resolver, Stages
<1>2. pending' \in Seq(ConfigFiles)
  BY <1>1, DiscoveredShape DEF Shape
<1>3. /\ DOMAIN settings' \subseteq Keys
      /\ \E read : IsVersion(read, Len(Sources))' /\ Overridden(read, settings)'
  BY <1>1, LoaderEnds
<1>4. Shape'
  BY <1>1, <1>2 DEF Shape, World
<1>5. TypeOK'
  <2>1. \A i \in DOMAIN pending' : pending'[i] \in ConfigFiles
    BY <1>2, LenProperties
  <2>2. pc' # "resolve" => pending' = <<>>
    BY <1>1
  <2> QED
    BY <1>1, <1>3, <2>1, <2>2, WorkspaceAssumption DEF TypeOK, World
<1>6. Stages'
  BY <1>1, ScanDirsShape, WorkspaceAssumption DEF Stages, World
<1>7. Chain'
  BY <1>1 DEF Chain
<1>8. SettingsSaved'
  BY <1>3 DEF SettingsSaved
<1>9. ConfigErrorsHaveACause'
  BY <1>1, WorkspaceAssumption DEF ConfigErrorsHaveACause
<1>10. Resolver'
  <2>1. ConfigLayers(env)' = ConfigLayers(env) /\ Len(ConfigLayers(env)) \in Nat
    BY <1>1, DiscoveredShape, LenProperties DEF World, ConfigLayers, UserConfig, ProjectConfig
  <2>2. ASSUME pc' = "resolve"
        PROVE  \E n \in Nat :
                 /\ Resolved(n)' /\ Len(pending') = Len(ConfigLayers(env))' - n
                 /\ \A i \in 1..Len(pending') : pending'[i] = ConfigLayers(env)'[n + i]
    <3>1. pending' = ConfigLayers(env) /\ layers' = <<>>
      BY <1>1, <2>2
    <3>2. Resolved(0)'
      BY <2>1, <3>1, EmptySeq DEF Resolved
    <3>3. \A i \in 1..Len(pending') : pending'[i] = ConfigLayers(env)'[0 + i]
      BY <2>1, <3>1
    <3> QED
      BY <2>1, <3>1, <3>2, <3>3
  <2> QED
    BY <1>1, <2>2, WorkspaceAssumption DEF Resolver
<1>11. NothingIsPassedOver'
  <2> SUFFICES ASSUME NEW f \in SuiteFiles, NEW name, Passed(f)', KeepsName(f, name)' PROVE FALSE
    BY DEF NothingIsPassedOver
  <2>1. pc' = "dir" /\ dirs' = IF env.dataDir THEN <<"global", "project">> ELSE <<"project">>
    BY <1>1, ScanDirsShape, WorkspaceAssumption DEF Passed, Searching
  <2>2. f[1] \in {"global", "project"}
    BY DEF SuiteFiles, SuiteDirs
  <2>3. f[1] = "global" => env.dataDir
    BY <1>1 DEF KeepsName, World
  <2>4. /\ dirs' = <<"project">> => Ahead' = {"project"}
        /\ dirs' = <<"global", "project">> => Ahead' = {"global", "project"}
    BY AheadOf DEF Ahead
  <2> QED
    BY <2>1, <2>2, <2>3, <2>4 DEF Passed
<1>12. GlobalFirst'
  BY <1>1, EmptyIsSequence DEF GlobalFirst
<1> QED
  BY <1>4, <1>5, <1>6, <1>7, <1>8, <1>9, <1>10, <1>11, <1>12 DEF IInv

LEMMA SameSettings ==
  ASSUME SettingsSaved, ConfigLoaded, UNCHANGED <<World, settings>>
  PROVE  SettingsSaved'
<1>1. PICK read : IsVersion(read, Len(Sources)) /\ Overridden(read, settings)
  BY DEF SettingsSaved
<1>2. Sources' = Sources
  BY DEF World, Sources
<1>3. IsVersion(read, Len(Sources))' /\ Overridden(read, settings)'
  BY <1>1, <1>2 DEF IsVersion, Overridden, Setting, World
<1> QED
  BY <1>3 DEF SettingsSaved

\* The resolver looks at the layers in their order.
LEMMA OneMoreLayer ==
  ASSUME IInv, ResolveLayer
  PROVE  Resolver' /\ IsSequence(layers')
<1> DEFINE l == ConfigLayers(env)
<1>1. PICK n \in Nat : /\ Resolved(n) /\ Len(pending) = Len(l) - n
                       /\ \A i \in 1..Len(pending) : pending[i] = l[n + i]
  BY DEF IInv, Resolver, ResolveLayer
<1>2. /\ UNCHANGED World /\ pc' = "resolve" /\ pending # <<>> /\ pending' = Tail(pending)
      /\ outcome' = outcome /\ outcome = None /\ Shape
      /\ layers' = Append(layers, [path |-> Head(pending), exists |-> FileExists(Head(pending))])
  BY DEF IInv, TypeOK, ResolveLayer, GoTo
<1>3. l \in Seq(ConfigFiles) /\ Len(l) \in Nat /\ l' = l
  BY <1>2, DiscoveredShape, LenProperties DEF World, ConfigLayers, UserConfig, ProjectConfig
<1>4. /\ Len(pending) \in Nat \ {0} /\ Head(pending) = pending[1]
      /\ Len(pending') = Len(pending) - 1
      /\ \A i \in 1..Len(pending') : pending'[i] = pending[i + 1]
  <2>1. pending \in Seq(ConfigFiles)
    BY <1>2 DEF Shape
  <2>2. /\ Len(Tail(pending)) = Len(pending) - 1
        /\ \A i \in 1..Len(Tail(pending)) : Tail(pending)[i] = pending[i + 1]
    BY <1>2, <2>1, HeadTailProperties
  <2> QED
    BY <1>2, <2>2, PendingShape
<1> DEFINE head  == Head(pending)
           layer == [path |-> head, exists |-> FileExists(head)]
<1>5. head = l[n + 1] /\ head \in ConfigFiles
  BY <1>1, <1>2, <1>4, PendingShape
<1>6. /\ layer.path = head
      /\ layer.exists => \E text \in pastConfig[head] : text # None
      /\ ~layer.exists => None \in pastConfig[head]
  BY <1>5 DEF FileExists, IInv, TypeOK
<1> HIDE DEF layer, head, l
<1>7. /\ IsSequence(layers') /\ Len(layers') = n + 1 /\ layers'[n + 1] = layer
      /\ \A i \in 1..n : layers'[i] = layers[i]
  <2>1. IsSequence(layers) /\ Len(layers) = n
    BY <1>1, <1>2 DEF Shape, Resolved
  <2> QED
    BY <1>2, <2>1, Appended DEF layer, head
<1>8. Resolved(n + 1)'
  <2>1. n + 1 <= Len(l)
    BY <1>1, <1>3, <1>4
  <2>2. ASSUME NEW i \in 1..(n + 1)
        PROVE  /\ layers'[i].path = l[i]
               /\ layers'[i].exists => \E text \in pastConfig[l[i]] : text # None
               /\ ~layers'[i].exists => None \in pastConfig[l[i]]
    <3>1. CASE i = n + 1
      <4>1. layers'[i] = layer /\ l[i] = head
        BY <1>5, <1>7, <3>1
      <4> QED
        BY <4>1, <1>6
    <3>2. CASE i \in 1..n
      BY <1>1, <1>7, <3>2 DEF Resolved, l
    <3> QED
      BY <3>1, <3>2
  <2> QED
    BY <1>2, <1>3, <1>7, <2>1, <2>2 DEF Resolved, l, World
<1>9. Len(pending') = Len(l') - (n + 1) /\ \A i \in 1..Len(pending') : pending'[i] = l'[(n + 1) + i]
  BY <1>1, <1>3, <1>4
<1>10. (cmd'.verb = "config path" /\ outcome' = "ok") => FALSE
  BY <1>2, WorkspaceAssumption
<1>11. \E m \in Nat : /\ Resolved(m)' /\ Len(pending') = Len(l') - m
                      /\ \A i \in 1..Len(pending') : pending'[i] = l'[m + i]
  BY <1>8, <1>9
<1> QED
  BY <1>2, <1>7, <1>10, <1>11 DEF Resolver, l

LEMMA Resolving ==
  ASSUME IInv, ResolveLayer
  PROVE  IInv'
<1>1. /\ UNCHANGED <<World, Scan, settings, outcome>> /\ pc = "resolve" /\ pc' = "resolve"
      /\ pending # <<>> /\ pending' = Tail(pending)
      /\ Shape /\ TypeOK /\ outcome = None /\ found = <<>> /\ Stages
  BY DEF IInv, TypeOK, ResolveLayer, GoTo, Stages
<1>2. Resolver' /\ IsSequence(layers')
  BY OneMoreLayer
<1>3. pending' \in Seq(ConfigFiles)
  BY <1>1, PendingShape
<1>4. Shape'
  BY <1>1, <1>2, <1>3 DEF Shape, World, Scan
<1>5. TypeOK'
  <2>1. \A i \in DOMAIN pending' : pending'[i] \in ConfigFiles
    BY <1>3, LenProperties
  <2> QED
    BY <1>1, <2>1, WorkspaceAssumption DEF TypeOK, World, Scan
<1>6. Stages'
  BY <1>1 DEF Stages, World, Scan
<1>7. Chain' /\ ConfigErrorsHaveACause'
  BY <1>1, WorkspaceAssumption DEF Chain, ConfigErrorsHaveACause
<1>8. SettingsSaved'
  BY <1>1, SameSettings DEF IInv, ConfigLoaded
<1>9. NothingIsPassedOver' /\ GlobalFirst'
  BY <1>1, EmptyIsSequence, WorkspaceAssumption
  DEF NothingIsPassedOver, Passed, Searching, GlobalFirst, Scan
<1> QED
  BY <1>2, <1>4, <1>5, <1>6, <1>7, <1>8, <1>9 DEF IInv

LEMMA Printing ==
  ASSUME IInv, PrintPath
  PROVE  IInv'
<1>1. /\ UNCHANGED <<World, Loading, Scan>> /\ pc = "resolve" /\ pc' = "end" /\ outcome' = "ok"
      /\ pending = <<>> /\ cmd.verb = "config path" /\ found = <<>> /\ entries = {}
      /\ Shape /\ TypeOK /\ Stages /\ Resolver
  BY DEF IInv, PrintPath, End, Stages
<1>2. Shape'
  BY <1>1 DEF Shape, World, Loading, Scan
<1>3. TypeOK'
  BY <1>1, WorkspaceAssumption DEF TypeOK, World, Loading, Scan
<1>4. Stages'
  BY <1>1 DEF Stages, World, Scan
<1>5. Chain' /\ ConfigErrorsHaveACause'
  BY <1>1 DEF Chain, ConfigErrorsHaveACause
<1>6. SettingsSaved'
  BY <1>1, SameSettings DEF IInv, ConfigLoaded, Loading
<1>7. Resolver'
  <2>1. PICK n \in Nat : Resolved(n) /\ Len(pending) = Len(ConfigLayers(env)) - n
    BY <1>1 DEF Resolver
  <2>2. Len(pending) = 0 /\ Len(ConfigLayers(env)) \in Nat
    BY <1>1, DiscoveredShape, LenProperties DEF Shape
  <2>3. Resolved(Len(ConfigLayers(env)))
    BY <2>1, <2>2
  <2>4. Resolved(Len(ConfigLayers(env)))'
    BY <1>1, <2>3 DEF Resolved, World, Loading, ConfigLayers, UserConfig, ProjectConfig
  <2> QED
    BY <1>1, <2>4 DEF Resolver
<1>8. NothingIsPassedOver' /\ GlobalFirst'
  BY <1>1, EmptyIsSequence DEF NothingIsPassedOver, Passed, Searching, GlobalFirst, World, Scan
<1> QED
  BY <1>2, <1>3, <1>4, <1>5, <1>6, <1>7, <1>8 DEF IInv

-----------------------------------------------------------------------------
(* The scan *)

\* What no step of the scan touches.
LEMMA WhileScanning ==
  ASSUME IInv, UNCHANGED <<World, Loading>>, pc \in {"dir", "file"},
         pc' \in {"dir", "file", "end"}, (pc' = "end") = (outcome' # None),
         outcome' \in {None, "ok", "no suite", "scan error"},
         IsSequence(found'), \A i \in DOMAIN found' : found'[i].file \in SuiteFiles,
         entries' \subseteq SuiteFiles, outcome' = "no suite" => found' = <<>>
  PROVE  Shape' /\ TypeOK' /\ Chain' /\ SettingsSaved' /\ ConfigErrorsHaveACause' /\ Resolver'
<1>1. Shape /\ TypeOK /\ ConfigLoaded /\ pending = <<>> /\ cmd.verb # "config path"
  BY DEF IInv, TypeOK, ConfigLoaded, Stages
<1>2. Shape'
  BY <1>1 DEF Shape, World, Loading
<1>3. TypeOK'
  BY <1>1, WorkspaceAssumption DEF TypeOK, World, Loading
<1>4. Chain' /\ Resolver' /\ ConfigErrorsHaveACause'
  BY <1>1, WorkspaceAssumption DEF Chain, Resolver, ConfigErrorsHaveACause, World
<1>5. SettingsSaved'
  BY <1>1, SameSettings DEF IInv, Loading
<1> QED
  BY <1>2, <1>3, <1>4, <1>5

LEMMA FirstDir ==
  ASSUME NEW d, d \in {<<"project">>, <<"global", "project">>}
  PROVE  \/ d = <<"project">> /\ Head(d) = "project" /\ Tail(d) = <<>>
         \/ d = <<"global", "project">> /\ Head(d) = "global" /\ Tail(d) = <<"project">>
<1>1. CASE d = <<"project">>
  <2>1. d \in Seq(SuiteDirs) /\ Len(d) = 1 /\ d[1] = "project"
    BY <1>1 DEF SuiteDirs
  <2>2. Tail(d) \in Seq(SuiteDirs) /\ Len(Tail(d)) = 0
    <3>1. d # <<>>
      BY <2>1, EmptySeq
    <3>2. Tail(d) \in Seq(SuiteDirs) /\ Len(Tail(d)) = Len(d) - 1
      BY <2>1, <3>1, HeadTailProperties
    <3> QED
      BY <2>1, <3>2
  <2>3. Tail(d) = <<>>
    BY <2>2, EmptySeq
  <2> QED
    BY <1>1, <2>1, <2>3
<1>2. CASE d = <<"global", "project">>
  <2>1. d \in Seq(SuiteDirs) /\ Len(d) = 2 /\ d[1] = "global" /\ d[2] = "project"
    BY <1>2 DEF SuiteDirs
  <2> DEFINE t == Tail(d)
  <2>2. t \in Seq(SuiteDirs) /\ Len(t) = 1 /\ t[1] = d[2]
    <3>1. d # <<>>
      BY <2>1, EmptySeq
    <3>2. t \in Seq(SuiteDirs) /\ Len(t) = Len(d) - 1 /\ \A i \in 1..Len(t) : t[i] = d[i + 1]
      BY <2>1, <3>1, HeadTailProperties
    <3> HIDE DEF t
    <3> QED
      BY <2>1, <3>2
  <2> DEFINE rest == <<"project">>
  <2>3. rest \in Seq(SuiteDirs) /\ Len(rest) = 1 /\ rest[1] = "project"
    BY DEF SuiteDirs
  <2> HIDE DEF rest
  <2>4. t = rest
    <3> HIDE DEF t
    <3>1. \A i \in 1..Len(t) : t[i] = rest[i]
      BY <2>1, <2>2, <2>3
    <3> QED
      BY <2>2, <2>3, <3>1, SeqEqual
  <2> QED
    BY <1>2, <2>1, <2>4 DEF rest
<1> QED
  BY <1>1, <1>2

LEMMA Listing ==
  ASSUME IInv, ReadDir
  PROVE  IInv'
<1>1. /\ UNCHANGED <<World, Loading, found>> /\ pc = "dir" /\ dirs # <<>> /\ dirs' = Tail(dirs)
      /\ Shape /\ TypeOK /\ Stages /\ NothingIsPassedOver /\ GlobalFirst /\ entries = {} /\ outcome = None
      /\ cmd.verb # "config path"
      /\ IF Head(dirs) \in env.unreadable
         THEN pc' = "end" /\ outcome' = "scan error" /\ UNCHANGED entries
         ELSE pc' = "file" /\ outcome' = outcome /\ entries' = Listed(Head(dirs))
  BY DEF IInv, TypeOK, Stages, ReadDir, End, GoTo
<1>2. \/ dirs = <<"project">> /\ Head(dirs) = "project" /\ dirs' = <<>>
      \/ dirs = <<"global", "project">> /\ Head(dirs) = "global" /\ dirs' = <<"project">>
  BY <1>1, FirstDir DEF Stages
<1>3. Listed(Head(dirs)) \subseteq SuiteFiles /\ \A f \in Listed(Head(dirs)) : f[1] = Head(dirs)
  BY <1>2 DEF Listed, SuiteFiles, SuiteDirs
<1>4. Shape' /\ TypeOK' /\ Chain' /\ SettingsSaved' /\ ConfigErrorsHaveACause' /\ Resolver'
  BY <1>1, <1>3, WhileScanning, WorkspaceAssumption DEF Shape
<1>5. Stages'
  <2>1. outcome' \notin {"ok", "no suite"}
    BY <1>1, WorkspaceAssumption
  <2>2. \A f \in entries' : dirs' = (IF f[1] = "global" THEN <<"project">> ELSE <<>>)
    BY <1>1, <1>2, <1>3
  <2>3. (cmd.verb = "show") => found = <<>>
    BY <1>1 DEF Stages
  <2> QED
    BY <1>1, <1>2, <2>1, <2>2, <2>3 DEF Stages, World
<1>6. NothingIsPassedOver'
  <2> SUFFICES ASSUME NEW f \in SuiteFiles, NEW name, Passed(f)', KeepsName(f, name)'
               PROVE  (Seen(name) \/ (cmd.verb = "show" /\ name # cmd.name))'
    BY DEF NothingIsPassedOver
  <2>1. pc' = "file" /\ entries' = Listed(Head(dirs)) /\ f \notin entries' /\ f[1] \notin Ahead'
    BY <1>1, WorkspaceAssumption DEF Passed, Searching
  <2>2. KeepsName(f, name)
    BY <1>1 DEF KeepsName, World
  <2>3. f[1] # Head(dirs)
    <3> SUFFICES ASSUME f[1] = Head(dirs) PROVE FALSE
      OBVIOUS
    <3>1. f \in {Head(dirs)} \X (1..MaxFiles)
      BY DEF SuiteFiles
    <3>2. suites[f] = None
      BY <2>1, <3>1 DEF Listed
    <3> QED
      BY <1>1, <2>2, <3>2 DEF TypeOK, KeepsName, Loads
  <2>4. f[1] \notin Ahead
    BY <1>2, <2>1, <2>3, AheadOf DEF Ahead
  <2>5. Passed(f)
    BY <1>1, <2>4 DEF Passed, Searching
  <2> QED
    BY <1>1, <2>2, <2>5 DEF NothingIsPassedOver, Seen, World
<1>7. GlobalFirst'
  BY <1>1 DEF GlobalFirst, KeepsName, Earlier, World
<1> QED
  BY <1>4, <1>5, <1>6, <1>7 DEF IInv

\* Of the listed files the first one by name is loaded.
LEMMA NextEntryIsFirst ==
  ASSUME entries \subseteq SuiteFiles, entries # {}
  PROVE  NextEntry \in entries /\ \A g \in entries : NextEntry[2] <= g[2]
<1> DEFINE numbers == {f[2] : f \in entries}
<1>1. numbers \subseteq Nat /\ numbers # {}
  <2>1. \A f \in SuiteFiles : f[2] \in 1..MaxFiles
    BY DEF SuiteFiles
  <2>2. MaxFiles \in Nat
    BY WorkspaceAssumption
  <2>3. 1..MaxFiles \subseteq Nat
    BY <2>2
  <2> QED
    BY <2>1, <2>3
<1> HIDE DEF numbers
<1>2. PICK n \in numbers : \A m \in numbers : n <= m
  BY <1>1, LeastNatural
<1>3. \E f \in entries : \A g \in entries : f[2] <= g[2]
  BY <1>2 DEF numbers
<1> QED
  BY <1>3 DEF NextEntry

\* Every version that a suite file held meanwhile is in its past, and one that was
\* always there loads.
LEMMA KeptNow ==
  ASSUME TypeOK, NEW f \in SuiteFiles, NEW name, KeepsName(f, name)
  PROVE  Loads(suites[f]) /\ suites[f].name = name
BY DEF TypeOK, KeepsName

LEMMA LoadingSuite ==
  ASSUME IInv, LoadSuite
  PROVE  IInv'
<1> DEFINE file  == NextEntry
           text  == suites[file]
           takes == /\ Loads(text)
                    /\ IF cmd.verb = "list" THEN ~Seen(text.name) ELSE text.name = cmd.name
           suite == [file |-> file, spec |-> text]
<1>1. /\ UNCHANGED <<World, Loading, dirs>> /\ pc = "file" /\ entries # {} /\ entries' = entries \ {file}
      /\ found' = (IF takes THEN Append(found, suite) ELSE found)
      /\ IF takes /\ cmd.verb = "show" THEN pc' = "end" /\ outcome' = "ok" ELSE pc' = "file" /\ UNCHANGED outcome
      /\ Shape /\ TypeOK /\ Stages /\ NothingIsPassedOver /\ GlobalFirst /\ outcome = None
      /\ cmd.verb \in {"list", "show"}
  BY DEF IInv, TypeOK, Stages, Shape, LoadSuite, AfterBroken, End, GoTo
<1>2. file \in entries /\ file \in SuiteFiles /\ \A g \in entries : file[2] <= g[2]
  BY <1>1, NextEntryIsFirst DEF TypeOK
<1>3. text \in pastSuites[file]
  BY <1>1, <1>2 DEF TypeOK
<1>4. takes \in BOOLEAN
  BY DEF Seen, Loads
<1>5. suite.file = file /\ suite.spec = text
  OBVIOUS
<1>6. cmd.verb = "show" => found = <<>>
  BY <1>1 DEF Stages
<1>7. ASSUME takes
      PROVE  /\ Loads(text) /\ ~Seen(text.name) /\ (cmd.verb = "show" => text.name = cmd.name)
  <2>1. CASE cmd.verb = "list"
    BY <1>7, <2>1
  <2>2. CASE cmd.verb = "show"
    BY <1>1, <1>6, <1>7, <2>2, EmptyIsSequence DEF Seen
  <2> QED
    BY <1>1, <2>1, <2>2
<1>8. ASSUME ~takes, Loads(text)
      PROVE  IF cmd.verb = "list" THEN Seen(text.name) ELSE text.name # cmd.name
  BY <1>8
<1> HIDE DEF file, text, takes, suite
\* What is found.
<1>9. /\ IsSequence(found) /\ IsSequence(found')
      /\ DOMAIN found \subseteq DOMAIN found' /\ \A i \in DOMAIN found : found'[i] = found[i]
      /\ \A i \in DOMAIN found' : i \notin DOMAIN found => takes /\ found'[i] = suite
      /\ takes => \E i \in DOMAIN found' : found'[i] = suite
      /\ \A i, j \in DOMAIN found' : i \notin DOMAIN found /\ j \notin DOMAIN found => i = j
  <2>1. IsSequence(found) /\ DOMAIN found = 1..Len(found) /\ Len(found) \in Nat
    BY <1>1, SequenceShape DEF Shape
  <2>2. CASE ~takes
    BY <1>1, <2>1, <2>2
  <2>3. CASE takes
    <3>1. /\ IsSequence(found') /\ DOMAIN found' = 1..(Len(found) + 1)
          /\ \A i \in DOMAIN found : found'[i] = found[i]
          /\ found'[Len(found) + 1] = suite
      BY <1>1, <2>1, <2>3, Appended
    <3>2. \A i \in DOMAIN found' : i \notin DOMAIN found => i = Len(found) + 1
      BY <2>1, <3>1
    <3>3. Len(found) + 1 \in DOMAIN found' /\ DOMAIN found \subseteq DOMAIN found'
      BY <2>1, <3>1
    <3> QED
      BY <2>1, <2>3, <3>1, <3>2, <3>3
  <2> QED
    BY <1>4, <2>2, <2>3
<1>10. Shape' /\ TypeOK' /\ Chain' /\ SettingsSaved' /\ ConfigErrorsHaveACause' /\ Resolver'
  <2>1. \A i \in DOMAIN found' : found'[i].file \in SuiteFiles
    BY <1>1, <1>2, <1>5, <1>9 DEF Shape
  <2>2. entries' \subseteq SuiteFiles
    BY <1>1 DEF TypeOK
  <2>3. /\ outcome' \in {None, "ok"} /\ outcome' # "no suite" /\ pc' \in {"file", "end"}
        /\ (pc' = "end") = (outcome' # None)
    BY <1>1, WorkspaceAssumption
  <2> QED
    BY <1>1, <1>9, <2>1, <2>2, <2>3, WhileScanning
<1>11. Stages'
  <2>1. cmd'.verb = cmd.verb
    BY <1>1 DEF World
  <2>2. (cmd.verb = "show" /\ pc' # "end") => found' = <<>>
    BY <1>1, <1>6
  <2>3. \A f \in entries' : dirs' = (IF f[1] = "global" THEN <<"project">> ELSE <<>>)
    BY <1>1 DEF Stages
  <2>4. dirs' \in {<<>>, <<"project">>, <<"global", "project">>}
    BY <1>1 DEF Stages
  <2>5. /\ pc' \in {"file", "end"} /\ outcome' # "no suite" /\ cmd.verb # "config path"
        /\ ~(cmd.verb = "list" /\ outcome' = "ok")
    BY <1>1, WorkspaceAssumption
  <2> QED
    BY <2>1, <2>2, <2>3, <2>4, <2>5 DEF Stages
<1>12. \A name : Seen(name)' <=> (Seen(name) \/ (takes /\ text.name = name))
  BY <1>5, <1>9 DEF Seen
<1>13. \A f \in SuiteFiles : \A name : KeepsName(f, name)' <=> KeepsName(f, name)
  BY <1>1 DEF KeepsName, World
<1>14. NothingIsPassedOver'
  <2> SUFFICES ASSUME NEW f \in SuiteFiles, NEW name, Passed(f)', KeepsName(f, name)
               PROVE  Seen(name)' \/ (cmd.verb = "show" /\ name # cmd.name)
    BY <1>1, <1>13 DEF NothingIsPassedOver, World
  <2>1. CASE f = file
    <3>1. Loads(text) /\ text.name = name
      BY <1>1, <2>1, KeptNow DEF text
    <3> QED
      BY <1>1, <1>4, <1>7, <1>8, <1>12, <3>1
  <2>2. CASE f # file
    <3>1. Passed(f)
      BY <1>1, <2>2 DEF Passed, Searching, Ahead
    <3> QED
      BY <1>1, <1>12, <3>1 DEF NothingIsPassedOver
  <2> QED
    BY <2>1, <2>2
\* The new suite is the first of its name.
<1>15. ASSUME takes, NEW f \in SuiteFiles, KeepsName(f, text.name)
       PROVE  ~Earlier(f, file)
  <2> SUFFICES ASSUME Earlier(f, file) PROVE FALSE
    OBVIOUS
  <2>1. ~Passed(f)
    BY <1>1, <1>7, <1>15 DEF NothingIsPassedOver
  <2>2. f[1] \in Ahead \/ f \in entries
    BY <1>1, <2>1 DEF Passed, Searching
  <2>3. dirs = IF file[1] = "global" THEN <<"project">> ELSE <<>>
    BY <1>1, <1>2 DEF Stages
  <2>4. f[1] \in SuiteDirs /\ file[1] \in SuiteDirs /\ f[2] \in 1..MaxFiles /\ file[2] \in 1..MaxFiles
    BY <1>2 DEF SuiteFiles
  <2>5. CASE f[1] \in Ahead
    <3>1. file[1] = "global" /\ f[1] = "project"
      BY <2>3, <2>5, AheadOf DEF Ahead
    <3> QED
      BY <3>1 DEF Earlier
  <2>6. CASE f \in entries
    <3>1. f[1] = file[1]
      <4> DEFINE last == <<"project">>
      <4>1. last # <<>>
        <5>1. Len(last) = 1
          OBVIOUS
        <5> QED
          BY <5>1, EmptySeq
      <4>2. dirs = IF f[1] = "global" THEN last ELSE <<>>
        BY <1>1, <2>6 DEF Stages
      <4>3. dirs = IF file[1] = "global" THEN last ELSE <<>>
        BY <2>3
      <4> HIDE DEF last
      <4> QED
        BY <2>4, <4>1, <4>2, <4>3 DEF SuiteDirs
    <3>2. file[2] <= f[2] /\ f[2] < file[2]
      BY <1>2, <2>6, <3>1 DEF Earlier
    <3>3. MaxFiles \in Nat
      BY WorkspaceAssumption
    <3> QED
      BY <2>4, <3>2, <3>3
  <2> QED
    BY <2>2, <2>5, <2>6
<1>16. GlobalFirst'
  <2>1. ASSUME NEW i \in DOMAIN found'
        PROVE  /\ found'[i].spec \in pastSuites[found'[i].file]
               /\ \A f \in SuiteFiles : KeepsName(f, found'[i].spec.name) => ~Earlier(f, found'[i].file)
    <3>1. CASE i \in DOMAIN found
      BY <1>1, <1>9, <3>1 DEF GlobalFirst
    <3>2. CASE i \notin DOMAIN found
      BY <1>3, <1>5, <1>9, <1>15, <3>2
    <3> QED
      BY <3>1, <3>2
  <2>2. ASSUME NEW i \in DOMAIN found', NEW j \in DOMAIN found', found'[i].spec.name = found'[j].spec.name
        PROVE  i = j
    <3>1. ASSUME NEW a \in DOMAIN found, NEW b \in DOMAIN found', b \notin DOMAIN found
          PROVE  found'[a].spec.name # found'[b].spec.name
      <4>1. takes /\ found'[b].spec = text /\ found'[a] = found[a]
        BY <1>5, <1>9, <3>1
      <4> QED
        BY <1>7, <4>1 DEF Seen
    <3>2. CASE i \in DOMAIN found /\ j \in DOMAIN found
      BY <1>1, <1>9, <2>2, <3>2 DEF GlobalFirst
    <3> QED
      BY <1>9, <2>2, <3>1, <3>2
  <2>3. pastSuites' = pastSuites
    BY <1>1 DEF World
  <2> QED
    BY <1>13, <2>1, <2>2, <2>3 DEF GlobalFirst, KeepsName, Earlier
<1> QED
  BY <1>10, <1>11, <1>14, <1>16 DEF IInv

LEMMA EnteringNextDir ==
  ASSUME IInv, NextDir
  PROVE  IInv'
<1>1. /\ UNCHANGED <<World, Loading, Scan, outcome>> /\ pc = "file" /\ entries = {} /\ pc' = "dir"
      /\ Shape /\ TypeOK /\ Stages /\ NothingIsPassedOver /\ GlobalFirst /\ outcome = None
  BY DEF IInv, TypeOK, NextDir, GoTo
<1>2. Shape' /\ TypeOK' /\ Chain' /\ SettingsSaved' /\ ConfigErrorsHaveACause' /\ Resolver'
  BY <1>1, WhileScanning, WorkspaceAssumption DEF Shape, TypeOK, Scan
<1>3. Stages'
  BY <1>1, WorkspaceAssumption DEF Stages, World, Scan
<1>4. NothingIsPassedOver'
  BY <1>1 DEF NothingIsPassedOver, Passed, Searching, Ahead, KeepsName, Seen, World, Scan
<1>5. GlobalFirst'
  BY <1>1 DEF GlobalFirst, KeepsName, Earlier, World, Scan
<1> QED
  BY <1>2, <1>3, <1>4, <1>5 DEF IInv

LEMMA Finishing ==
  ASSUME IInv, FinishScan
  PROVE  IInv'
<1>1. /\ UNCHANGED <<World, Loading, Scan>> /\ pc = "dir" /\ dirs = <<>> /\ entries = {} /\ pc' = "end"
      /\ outcome' = (IF cmd.verb = "list" THEN "ok" ELSE "no suite")
      /\ Shape /\ TypeOK /\ Stages /\ NothingIsPassedOver /\ GlobalFirst
      /\ cmd.verb \in {"list", "show"}
  BY DEF IInv, Stages, Shape, FinishScan, End
<1>2. outcome' = "no suite" => found = <<>>
  BY <1>1 DEF Stages
<1>3. Shape' /\ TypeOK' /\ Chain' /\ SettingsSaved' /\ ConfigErrorsHaveACause' /\ Resolver'
  BY <1>1, <1>2, WhileScanning, WorkspaceAssumption DEF Shape, TypeOK, Scan
<1>4. Stages'
  BY <1>1, <1>2 DEF Stages, World, Scan
<1>5. NothingIsPassedOver'
  BY <1>1 DEF NothingIsPassedOver, Passed, Searching, Ahead, KeepsName, Seen, World, Scan
<1>6. GlobalFirst'
  BY <1>1 DEF GlobalFirst, KeepsName, Earlier, World, Scan
<1> QED
  BY <1>3, <1>4, <1>5, <1>6 DEF IInv

-----------------------------------------------------------------------------
LEMMA Staying ==
  ASSUME IInv, UNCHANGED vars
  PROVE  IInv'
<1>1. /\ UNCHANGED <<config, suites, env, cmd, pc, pending, settings, layers>>
      /\ UNCHANGED <<dirs, entries, found, outcome, pastConfig, pastSuites, edits>>
  BY DEF vars
<1>2. Sources' = Sources /\ ConfigLayers(env)' = ConfigLayers(env)
  BY <1>1 DEF Sources, ConfigLayers, UserConfig, ProjectConfig
<1>3. Shape'
  BY <1>1 DEF IInv, Shape
<1>4. TypeOK'
  BY <1>1 DEF IInv, TypeOK, ConfigLoaded
<1>5. Stages'
  BY <1>1 DEF IInv, Stages
<1>6. ConfigErrorsHaveACause'
  BY <1>1, <1>2 DEF IInv, ConfigErrorsHaveACause
<1>7. \A read, k : IsVersion(read, k) => IsVersion(read, k)'
  BY <1>1, <1>2 DEF IsVersion
<1>8. MergedSoFar => MergedSoFar'
  BY <1>1, <1>2, <1>7 DEF MergedSoFar, Layered, Setting
<1>9. Chain'
  BY <1>1, <1>8 DEF IInv, Chain
<1>10. SettingsSaved'
  BY <1>1, <1>2, <1>7 DEF IInv, SettingsSaved, ConfigLoaded, Overridden, Setting
<1>11. Resolver'
  BY <1>1, <1>2 DEF IInv, Resolver, Resolved
<1>12. NothingIsPassedOver'
  BY <1>1 DEF IInv, NothingIsPassedOver, Passed, Searching, Ahead, KeepsName, Seen
<1>13. GlobalFirst'
  BY <1>1 DEF IInv, GlobalFirst, KeepsName, Earlier
<1> QED
  BY <1>3, <1>4, <1>5, <1>6, <1>9, <1>10, <1>11, <1>12, <1>13 DEF IInv

LEMMA Stepping == IInv /\ [Next]_vars => IInv'
<1> SUFFICES ASSUME IInv, [Next]_vars PROVE IInv'
  OBVIOUS
<1>1. CASE Ben
  BY <1>1, ReadingArgs, Statting, Reading, Applying, Resolving, Printing, Listing, LoadingSuite,
     EnteringNextDir, Finishing DEF Ben
<1>2. CASE WriteConfig \/ WriteSuite \/ MoveSuite
  BY <1>2, EditsGrow, Editing
<1>3. CASE UNCHANGED vars
  BY <1>3, Staying
<1> QED
  BY <1>1, <1>2, <1>3 DEF Next

LEMMA InvariantHolds == Spec => []IInv
<1> QED
  BY Initially, Stepping, PTL DEF Spec

-----------------------------------------------------------------------------
(* Theorems *)

\* Every variable of an invocation keeps its type, and every stage of it leaves behind
\* what the next one expects, for any files, environment, command and edits.
THEOREM TypeCorrect == Spec => []TypeOK
<1>1. IInv => TypeOK
  BY DEF IInv
<1> QED
  BY <1>1, InvariantHolds, PTL

\* Every key has the value of the highest source that sets it, under the overrides of
\* the command line, and each source gave one version it had while the command ran.
THEOREM LayersHold == Spec => []SettingsAreLayered
<1>1. IInv => SettingsAreLayered
  <2> SUFFICES ASSUME IInv, ConfigLoaded PROVE SettingsAreLayered
    BY DEF SettingsAreLayered
  <2>1. PICK read : IsVersion(read, Len(Sources)) /\ Overridden(read, settings)
    BY DEF IInv, SettingsSaved
  <2>2. DOMAIN Sources = 1..Len(Sources)
    BY SourcesShape DEF IInv
  <2>3. read \in [DOMAIN Sources -> (UNION {pastConfig[f] : f \in ConfigFiles}) \ {Broken}]
    BY <2>1, <2>2 DEF IsVersion
  <2>4. \A i \in DOMAIN Sources : read[i] \in pastConfig[Sources[i]] /\ (cmd.paths # <<>> => read[i] # None)
    BY <2>1, <2>2 DEF IsVersion
  <2> QED
    BY <2>1, <2>3, <2>4 DEF SettingsAreLayered, Overridden
<1> QED
  BY <1>1, InvariantHolds, PTL

\* A command fails over its configuration only if a source of it was broken, one named
\* by -c was not there, or a discovered one went between the test and the reading.
THEOREM ConfigErrorsAreCaused == Spec => []ConfigErrorsHaveACause
<1>1. IInv => ConfigErrorsHaveACause
  BY DEF IInv
<1> QED
  BY <1>1, InvariantHolds, PTL

\* What is rendered for a name is from the first file of the scan that kept that
\* name, once.
THEOREM FirstFoundIsRendered == Spec => []FirstFoundWins
<1>1. ASSUME NEW f \in SuiteFiles, NEW g \in SuiteFiles, Before(f, g) PROVE Earlier(f, g)
  <2>1. CASE env.dataDir
    <3>1. SuiteScanDirs(env) = <<"global", "project">>
      BY <2>1, ScanDirsShape
    <3> QED
      BY <1>1, <3>1 DEF Before, Earlier
  <2>2. CASE ~env.dataDir
    <3>1. SuiteScanDirs(env) = <<"project">>
      BY <2>2, ScanDirsShape
    <3> QED
      BY <1>1, <3>1 DEF Before, Earlier
  <2> QED
    BY <2>1, <2>2
<1>2. IInv => FirstFoundWins
  <2>1. IInv => \A i \in DOMAIN found : found[i].file \in SuiteFiles
    BY DEF IInv, Shape
  <2> QED
    BY <1>1, <2>1 DEF IInv, GlobalFirst, FirstFoundWins
<1> QED
  BY <1>2, InvariantHolds, PTL

\* A suite that was there all the time is listed by `suite list` and found by
\* `suite show`, whatever stands, moves or breaks next to it.
THEOREM SuitesAreFound == Spec => []NothingIsHidden
<1>1. IInv => NothingIsHidden
  <2> SUFFICES ASSUME IInv, NEW f \in SuiteFiles, NEW text \in SuiteTexts, KeepsName(f, text.name)
               PROVE  /\ (cmd.verb = "list" /\ outcome = "ok") => Seen(text.name)
                      /\ (cmd.verb = "show" /\ outcome = "no suite") => text.name # cmd.name
    BY DEF NothingIsHidden
  <2>1. ASSUME (cmd.verb = "list" /\ outcome = "ok") \/ outcome = "no suite"
        PROVE  Seen(text.name) \/ (cmd.verb = "show" /\ text.name # cmd.name)
    <3>1. dirs = <<>> /\ entries = {} /\ cmd.verb # "config path" /\ outcome \in {"ok", "no suite"}
      BY <2>1 DEF IInv, Stages
    <3>2. Ahead = {}
      BY <3>1, EmptyIsSequence DEF Ahead
    <3>3. Passed(f)
      BY <3>1, <3>2 DEF Passed, Searching
    <3> QED
      BY <3>3 DEF IInv, NothingIsPassedOver
  <2>2. outcome = "no suite" => ~Seen(text.name)
    BY EmptyIsSequence DEF IInv, TypeOK, Seen
  <2> QED
    BY <2>1, <2>2
<1> QED
  BY <1>1, InvariantHolds, PTL

\* The loader and the resolver know the same files, in opposite orders.
LEMMA Mirrored ==
  ASSUME env.cwd
  PROVE  /\ Discovered(env) \in Seq(ConfigFiles) /\ ConfigLayers(env) \in Seq(ConfigFiles)
         /\ Len(Discovered(env)) = Len(ConfigLayers(env))
         /\ \A i \in 1..Len(Discovered(env)) :
              Discovered(env)[i] = ConfigLayers(env)[Len(Discovered(env)) + 1 - i]
<1> DEFINE first   == <<"system">>
           user    == UserConfig(env)
           project == <<ProjectConfig(env.invokedAs)>>
<1>1. /\ first \in Seq(ConfigFiles) /\ Len(first) = 1
      /\ project \in Seq(ConfigFiles) /\ Len(project) = 1
      /\ user \in Seq(ConfigFiles) /\ Len(user) \in {0, 1}
  <2>1. ProjectConfig(env.invokedAs) \in ConfigFiles
    BY DEF ProjectConfig, ConfigFiles
  <2>2. UserConfig(env) \in {<<"user">>, <<>>}
    BY DEF UserConfig
  <2>3. Len(<<>>) = 0 /\ Len(<<"user">>) = 1
    BY EmptySeq
  <2>4. /\ <<"system">> \in Seq(ConfigFiles) /\ <<>> \in Seq(ConfigFiles) /\ <<"user">> \in Seq(ConfigFiles)
        /\ <<ProjectConfig(env.invokedAs)>> \in Seq(ConfigFiles)
    BY <2>1 DEF ConfigFiles
  <2>5. Len(<<"system">>) = 1 /\ Len(<<ProjectConfig(env.invokedAs)>>) = 1
    OBVIOUS
  <2> QED
    BY <2>2, <2>3, <2>4, <2>5
<1>2. Discovered(env) = (first \o user) \o project /\ ConfigLayers(env) = (project \o user) \o first
  BY DEF Discovered, ConfigLayers
<1> HIDE DEF first, user, project
<1> DEFINE up == first \o user
           down == project \o user
           n == Len(user)
<1>3. /\ up \in Seq(ConfigFiles) /\ Len(up) = 1 + n
      /\ \A i \in 1..(1 + n) : up[i] = IF i <= 1 THEN first[i] ELSE user[i - 1]
      /\ down \in Seq(ConfigFiles) /\ Len(down) = 1 + n
      /\ \A i \in 1..(1 + n) : down[i] = IF i <= 1 THEN project[i] ELSE user[i - 1]
  BY <1>1, ConcatProperties
<1> HIDE DEF up, down
<1> DEFINE disc == up \o project
           lay  == down \o first
<1>4. /\ disc \in Seq(ConfigFiles) /\ Len(disc) = Len(up) + Len(project)
      /\ \A i \in 1..(Len(up) + Len(project)) : disc[i] = IF i <= Len(up) THEN up[i] ELSE project[i - Len(up)]
      /\ lay \in Seq(ConfigFiles) /\ Len(lay) = Len(down) + Len(first)
      /\ \A i \in 1..(Len(down) + Len(first)) : lay[i] = IF i <= Len(down) THEN down[i] ELSE first[i - Len(down)]
  BY <1>1, <1>3, ConcatProperties, LenProperties
<1>5. disc = Discovered(env) /\ lay = ConfigLayers(env)
  BY <1>2 DEF up, down
<1> HIDE DEF disc, lay
<1>6. /\ Len(disc) = n + 2 /\ Len(lay) = n + 2 /\ n \in {0, 1}
      /\ \A i \in 1..(n + 2) : disc[i] = IF i <= n + 1 THEN up[i] ELSE project[i - (n + 1)]
      /\ \A i \in 1..(n + 2) : lay[i] = IF i <= n + 1 THEN down[i] ELSE first[i - (n + 1)]
  BY <1>1, <1>3, <1>4
<1> HIDE DEF n
<1>7. \A i \in 1..(n + 2) : disc[i] = lay[n + 3 - i]
  <2>1. CASE n = 0
    <3>1. up[1] = first[1] /\ down[1] = project[1]
      BY <1>3, <2>1
    <3>2. disc[1] = up[1] /\ disc[2] = project[1] /\ lay[1] = down[1] /\ lay[2] = first[1]
      BY <1>6, <2>1
    <3> QED
      BY <2>1, <3>1, <3>2
  <2>2. CASE n = 1
    <3>1. up[1] = first[1] /\ down[1] = project[1] /\ up[2] = user[1] /\ down[2] = user[1]
      BY <1>3, <2>2
    <3>2. /\ disc[1] = up[1] /\ disc[2] = up[2] /\ disc[3] = project[1]
          /\ lay[1] = down[1] /\ lay[2] = down[2] /\ lay[3] = first[1]
      BY <1>6, <2>2
    <3> QED
      BY <2>2, <3>1, <3>2
  <2> QED
    BY <1>6, <2>1, <2>2
<1>8. Len(disc) + 1 = n + 3
  BY <1>6
<1> QED
  BY <1>4, <1>5, <1>6, <1>7, <1>8

LEMMA MirrorIndex ==
  ASSUME NEW n \in Nat, NEW i \in 1..n
  PROVE  /\ n + 1 - i \in 1..n /\ n + 1 - (n + 1 - i) = i
         /\ \A j \in 1..n : n + 1 - j \notin 1..(i - 1) => j <= n + 1 - i
         /\ \A j \in 1..n : i <= j /\ j <= i => i = j
OBVIOUS

\* On undisturbed files the file that `config path` names is the one whose keys are in
\* force, and every setting comes from a file the resolver knows.
THEOREM PathNamesTheWinner == Spec => []ConfigPathNamesTheWinner
<1>1. IInv => ConfigPathNamesTheWinner
  <2> DEFINE free == Keys \ DOMAIN cmd.overrides
  <2> SUFFICES ASSUME IInv, cmd.verb = "config path", outcome = "ok", cmd.paths = <<>>, env.cwd,
                      \A f \in ConfigFiles : pastConfig[f] = {config[f]}
               PROVE  /\ \A i \in DOMAIN layers :
                           (layers[i].exists /\ \A j \in 1..(i - 1) : ~layers[j].exists) =>
                             \A k \in DOMAIN config[layers[i].path] \cap free :
                               settings[k] = config[layers[i].path][k]
                      /\ \A k \in DOMAIN settings \cap free :
                           \E i \in DOMAIN layers : layers[i].exists /\ k \in DOMAIN config[layers[i].path]
    BY DEF ConfigPathNamesTheWinner
  <2>1. PICK read : IsVersion(read, Len(Sources)) /\ Overridden(read, settings)
    BY DEF IInv, SettingsSaved, ConfigLoaded
  <2> DEFINE N == Len(Sources)
             l == ConfigLayers(env)
  <2>2. N \in Nat /\ N = Len(l)
    BY SourcesShape, Mirrored DEF IInv, Sources
  <2>3. \A i \in 1..N : Sources[i] \in ConfigFiles /\ Sources[i] = l[N + 1 - i]
    BY SourcesShape, Mirrored DEF IInv, Sources
  <2>4. Resolved(N) /\ DOMAIN layers = 1..N
    <3>1. Resolved(N)
      BY <2>2 DEF IInv, Resolver
    <3> QED
      BY <3>1, SequenceShape DEF IInv, Shape, Resolved
  <2>5. /\ DOMAIN read = 1..N
        /\ \A i \in 1..N : read[i] = config[Sources[i]]
    BY <2>1, <2>3 DEF IsVersion
  <2>6. \A i \in 1..N : /\ layers[i].path = l[i]
                        /\ layers[i].exists => \E text \in pastConfig[l[i]] : text # None
                        /\ ~layers[i].exists => None \in pastConfig[l[i]]
    BY <2>4 DEF Resolved
  <2>7. N \in Nat
    BY <2>2
  <2> HIDE DEF N, l
  <2>8. \A a, b \in 1..N : a <= b /\ b <= a => a = b
    BY <2>7, MirrorIndex
  <2>9. ASSUME NEW i \in 1..N
        PROVE  /\ layers[i].path = Sources[N + 1 - i]
               /\ layers[i].exists <=> config[Sources[N + 1 - i]] # None
    <3>1. N + 1 - i \in 1..N /\ N + 1 - (N + 1 - i) = i
      BY <2>7, MirrorIndex
    <3>2. Sources[N + 1 - i] = l[i] /\ Sources[N + 1 - i] \in ConfigFiles
      BY <2>3, <3>1
    <3>3. pastConfig[l[i]] = {config[l[i]]}
      BY <3>2
    <3>4. /\ layers[i].path = l[i]
          /\ layers[i].exists => \E text \in pastConfig[l[i]] : text # None
          /\ ~layers[i].exists => None \in pastConfig[l[i]]
      BY <2>6
    <3> QED
      BY <3>2, <3>3, <3>4
  <2>10. ASSUME NEW k
        PROVE  Setting(read, k) = {i \in 1..N : config[Sources[i]] # None /\ k \in DOMAIN config[Sources[i]]}
    BY <2>5 DEF Setting
  <2>11. ASSUME NEW j \in 1..N, config[Sources[j]] # None
        PROVE  N + 1 - j \in 1..N /\ layers[N + 1 - j].exists /\ layers[N + 1 - j].path = Sources[j]
    <3>1. N + 1 - j \in 1..N /\ N + 1 - (N + 1 - j) = j
      BY <2>7, MirrorIndex
    <3> DEFINE o == N + 1 - j
    <3>2. layers[o].path = Sources[N + 1 - o] /\ (layers[o].exists <=> config[Sources[N + 1 - o]] # None)
      BY <2>9, <3>1
    <3> QED
      BY <2>11, <3>1, <3>2
  <2>12. ASSUME NEW i \in DOMAIN layers, layers[i].exists, \A j \in 1..(i - 1) : ~layers[j].exists,
               NEW k \in DOMAIN config[layers[i].path] \cap free
        PROVE  settings[k] = config[layers[i].path][k]
    <3> DEFINE m == N + 1 - i
    <3>0. i \in 1..N
      BY <2>4
    <3>1. m \in 1..N /\ layers[i].path = Sources[m] /\ config[Sources[m]] # None
      BY <2>7, <2>9, <2>12, <3>0, MirrorIndex
    <3>2. m \in Setting(read, k)
      BY <2>10, <3>1
    <3>3. ASSUME NEW j \in Setting(read, k) PROVE j <= m
      <4>1. j \in 1..N /\ config[Sources[j]] # None
        <5>1. j \in {x \in 1..N : config[Sources[x]] # None /\ k \in DOMAIN config[Sources[x]]}
          BY <2>10
        <5> QED
          BY <5>1
      <4>2. N + 1 - j \in 1..N /\ layers[N + 1 - j].exists
        BY <2>11, <4>1
      <4>3. N + 1 - j \notin 1..(i - 1)
        BY <2>12, <4>2
      <4> QED
        BY <2>7, <3>0, <4>1, <4>3, MirrorIndex
    <3>4. k \in DOMAIN settings
      BY <2>1, <3>2 DEF Overridden
    <3>5. PICK i2 \in Setting(read, k) : settings[k] = read[i2][k] /\ \A j \in Setting(read, k) : j <= i2
      BY <2>1, <3>4 DEF Overridden
    <3>6. i2 = m
      <4> HIDE DEF m
      <4>1. i2 <= m /\ m <= i2
        BY <3>2, <3>3, <3>5
      <4>2. i2 \in 1..N
        <5>1. i2 \in {x \in 1..N : config[Sources[x]] # None /\ k \in DOMAIN config[Sources[x]]}
          BY <2>10
        <5> QED
          BY <5>1
      <4> QED
        BY <2>8, <3>1, <4>1, <4>2
    <3> QED
      BY <2>5, <3>1, <3>5, <3>6
  <2>13. ASSUME NEW k \in DOMAIN settings \cap free
        PROVE  \E i \in DOMAIN layers : layers[i].exists /\ k \in DOMAIN config[layers[i].path]
    <3>1. Setting(read, k) # {}
      BY <2>1 DEF Overridden
    <3>2. PICK m \in 1..N : config[Sources[m]] # None /\ k \in DOMAIN config[Sources[m]]
      BY <2>10, <3>1
    <3>3. N + 1 - m \in 1..N /\ layers[N + 1 - m].exists /\ layers[N + 1 - m].path = Sources[m]
      BY <2>11, <3>2
    <3> QED
      BY <2>4, <3>2, <3>3
  <2> QED
    BY <2>12, <2>13
<1> QED
  BY <1>1, InvariantHolds, PTL
=============================================================================
