--------------------------- MODULE BenStoreProofs ---------------------------
(***************************************************************************)
(* What holds of the run store for any number of processes, runs,          *)
(* directories, registries and faults.                                     *)
(***************************************************************************)
EXTENDS BenStore, TLAPS

(***************************************************************************)
(* The step a process is at determines which command it executes and which *)
(* fields of its job have a value.                                         *)
(***************************************************************************)
Fits(step, j) ==
  /\ step \notin Ended => j.cmd \in Commands /\ j.cwd \in Cwds
  /\ step \notin Ended \cup {"open"} => j.dir \in Dirs
  /\ step \in {"insert", "put", "index"} => j.cmd \in {"run", "pull"} /\ j.run \in RunIds
  /\ step = "report" => j.cmd = "run"
  /\ step = "get" => j.cmd \in {"push", "show"}
  /\ step \in {"post", "reply", "mark"} => j.cmd = "push"
  /\ step \in {"fetch", "next"} => j.cmd = "pull"
  /\ step = "list" => j.cmd = "list"
  /\ step = "ok" => j.dir \in Dirs
  /\ step \notin {"idle", "open"} /\ j.cmd = "pull" => j.dir = Global
  /\ j.cmd \in {"run", "push", "show"} => j.run \in RunIds
  /\ j.cmd \in {"push", "pull"} => j.url \in Registries

TablesTyped ==
  /\ benDirs \subseteq Cwds
  /\ rows   \in [Dirs -> SUBSET RunIds]
  /\ kv     \in [Dirs -> SUBSET RunIds]
  /\ index  \in [Dirs -> [RunIds -> {"absent", "local"} \cup Registries]]
  /\ remote \in [Registries -> SUBSET RunIds]
  /\ used \subseteq RunIds
  /\ faults \in 0..MaxFaults

Shape ==
  /\ TablesTyped
  /\ pc  \in [Procs -> Ended \cup Steps]
  /\ job \in [Procs -> Job]
  /\ \A p \in Procs : Fits(pc[p], job[p])

LEMMA InitShape == Init => Shape
BY StoreAssumption
DEF Init, Shape, TablesTyped, Fits, Job, NoJob, Ended, Steps, Dirs

\* A step of p, seen as p's arrival at step s with job j.
LEMMA MoveShape ==
  ASSUME Shape, NEW p \in Procs, NEW s \in Ended \cup Steps, NEW j \in Job,
         pc' = [pc EXCEPT ![p] = s], job' = [job EXCEPT ![p] = j],
         Fits(s, j), TablesTyped'
  PROVE  Shape'
<1>1. /\ pc'  \in [Procs -> Ended \cup Steps]
      /\ job' \in [Procs -> Job]
  BY DEF Shape
<1>2. \A q \in Procs : Fits(pc'[q], job'[q])
  BY DEF Shape
<1> QED BY <1>1, <1>2 DEF Shape

\* A process that ends forgets its job, or keeps it when it ended with exit 0.
LEMMA EndShape ==
  ASSUME Shape, NEW p \in Procs, NEW s \in Ended, EndWith(p, s),
         s = "ok" => job[p].dir \in Dirs,
         pc[p] \notin {"idle", "open"} \/ s # "ok",
         TablesTyped'
  PROVE  Shape'
<1> USE StoreAssumption
<1>1. (NoJob \in Job /\ Fits(s, NoJob)) \/ s = "ok"
  BY DEF NoJob, Job, Fits, Ended
<1>2. job[p] \in Job /\ (s = "ok" => Fits(s, job[p]))
  BY DEF Shape, Fits, Ended
<1>3. CASE s = "ok"
  BY <1>2, <1>3, MoveShape DEF EndWith, GoTo, Shape
<1>4. CASE s # "ok"
  <2>1. NoJob \in Job
    BY DEF NoJob, Job
  <2> QED BY <1>1, <1>4, <2>1, MoveShape DEF EndWith, GoTo
<1> QED BY <1>3, <1>4

LEMMA StartShape ==
  ASSUME Shape, NEW p \in Procs, NEW cmd, NEW c \in Cwds,
         NEW r \in RunIds \cup {None}, NEW u \in Registries \cup {None},
         Start(p, cmd, c, r, u),
         cmd \in {"run", "push", "show"} => r \in RunIds,
         cmd \in {"push", "pull"} => u \in Registries,
         TablesTyped'
  PROVE  Shape'
<1> DEFINE j == [NoJob EXCEPT !.cmd = cmd, !.cwd = c, !.run = r, !.url = u]
<1>1. j \in Job /\ Fits("open", j)
  BY StoreAssumption DEF NoJob, Job, Fits, Ended, Start
<1> QED BY <1>1, MoveShape DEF Start, GoTo, Steps

(***************************************************************************)
(* One step per action: p arrives at a step that its job fits.             *)
(***************************************************************************)
LEMMA WorkShape ==
  ASSUME Shape, NEW p \in Procs, Work(p)
  PROVE  Shape'
<1> USE StoreAssumption
<1>1. /\ TablesTyped /\ Fits(pc[p], job[p])
      /\ pc[p] \in Ended \cup Steps /\ job[p] \in Job
      /\ pc  \in [Procs -> Ended \cup Steps] /\ job \in [Procs -> Job]
  BY DEF Shape
<1>2. CASE Open(p)
  <2> DEFINE s == FirstStep(job[p].cmd)
             j == [job[p] EXCEPT !.dir = CommandDir(p)]
  <2>1. s \in Ended \cup Steps /\ j \in Job /\ Fits(s, j)
    BY <1>1, <1>2 DEF Open, Fits, Job, Ended, Steps, Dirs, CommandDir, ResolveDataDir, FirstStep
  <2>2. pc' = [pc EXCEPT ![p] = s] /\ job' = [job EXCEPT ![p] = j]
    BY <1>1, <1>2 DEF Open, GoTo
  <2>3. TablesTyped'
    BY <1>1, <1>2 DEF Open, TablesTyped, db
  <2> HIDE DEF s, j
  <2> QED BY <2>1, <2>2, <2>3, MoveShape
<1>3. CASE InsertRow(p)
  <2> DEFINE s == "put"
             j == job[p]
  <2>1. s \in Ended \cup Steps /\ j \in Job /\ Fits(s, j)
    BY <1>1, <1>3 DEF InsertRow, Fits, Job, Ended, Steps, Dirs
  <2>2. pc' = [pc EXCEPT ![p] = s] /\ job' = [job EXCEPT ![p] = j]
    BY <1>1, <1>3 DEF InsertRow, GoTo
  <2>3. TablesTyped'
    BY <1>1, <1>3 DEF InsertRow, TablesTyped, Fits, Ended, db
  <2> HIDE DEF s, j
  <2> QED BY <2>1, <2>2, <2>3, MoveShape
<1>4. CASE PutKv(p)
  <2> DEFINE s == "index"
             j == job[p]
  <2>1. s \in Ended \cup Steps /\ j \in Job /\ Fits(s, j)
    BY <1>1, <1>4 DEF PutKv, Fits, Job, Ended, Steps, Dirs
  <2>2. pc' = [pc EXCEPT ![p] = s] /\ job' = [job EXCEPT ![p] = j]
    BY <1>1, <1>4 DEF PutKv, GoTo
  <2>3. TablesTyped'
    BY <1>1, <1>4 DEF PutKv, TablesTyped, Fits, Ended, db
  <2> HIDE DEF s, j
  <2> QED BY <2>1, <2>2, <2>3, MoveShape
<1>5. CASE IndexRun(p)
  <2> DEFINE s == AfterIndex(job[p].cmd)
             j == [job[p] EXCEPT !.todo = Remaining(p)]
  <2>1. s \in Ended \cup Steps /\ j \in Job /\ Fits(s, j)
    BY <1>1, <1>5 DEF IndexRun, Fits, Job, Ended, Steps, AfterIndex, Remaining
  <2>2. pc' = [pc EXCEPT ![p] = s] /\ job' = [job EXCEPT ![p] = j]
    BY <1>1, <1>5 DEF IndexRun, GoTo
  <2>3. TablesTyped'
    BY <1>1, <1>5 DEF IndexRun, TablesTyped, Fits, Ended, db, OnConflict
  <2> HIDE DEF s, j
  <2> QED BY <2>1, <2>2, <2>3, MoveShape
<1>6. CASE List(p)
  <2> DEFINE s == "ok"
             j == [job[p] EXCEPT !.got = rows[job[p].dir]]
  <2> rows[job[p].dir] \subseteq RunIds
    BY <1>1, <1>6 DEF List, TablesTyped, Fits, Ended
  <2>1. s \in Ended \cup Steps /\ j \in Job /\ Fits(s, j)
    BY <1>1, <1>6 DEF List, Fits, Job, Ended, Steps
  <2>2. pc' = [pc EXCEPT ![p] = s] /\ job' = [job EXCEPT ![p] = j]
    BY <1>1, <1>6 DEF List, GoTo
  <2>3. TablesTyped'
    BY <1>1, <1>6 DEF List, TablesTyped, Fits, Ended, db
  <2> HIDE DEF s, j
  <2> QED BY <2>1, <2>2, <2>3, MoveShape
<1>7. CASE ServerStores(p)
  <2> DEFINE s == "reply"
             j == job[p]
  <2>1. s \in Ended \cup Steps /\ j \in Job /\ Fits(s, j)
    BY <1>1, <1>7 DEF ServerStores, Fits, Job, Ended, Steps, Dirs
  <2>2. pc' = [pc EXCEPT ![p] = s] /\ job' = [job EXCEPT ![p] = j]
    BY <1>1, <1>7 DEF ServerStores, GoTo
  <2>3. TablesTyped'
    BY <1>1, <1>7 DEF ServerStores, TablesTyped, Fits, Ended, db
  <2> HIDE DEF s, j
  <2> QED BY <2>1, <2>2, <2>3, MoveShape
<1>8. CASE ReplyArrives(p)
  <2> DEFINE s == "mark"
             j == job[p]
  <2>1. s \in Ended \cup Steps /\ j \in Job /\ Fits(s, j)
    BY <1>1, <1>8 DEF ReplyArrives, Fits, Job, Ended, Steps, Dirs
  <2>2. pc' = [pc EXCEPT ![p] = s] /\ job' = [job EXCEPT ![p] = j]
    BY <1>1, <1>8 DEF ReplyArrives, GoTo
  <2>3. TablesTyped'
    BY <1>1, <1>8 DEF ReplyArrives, TablesTyped, Fits, Ended, db
  <2> HIDE DEF s, j
  <2> QED BY <2>1, <2>2, <2>3, MoveShape
<1>9. CASE Report(p)
  <2>1. TablesTyped'
    BY <1>1, <1>9 DEF Report, TablesTyped, Fits, Ended, db
  <2> QED BY <1>1, <1>9, <2>1, EndShape DEF Report, Fits, Ended
<1>10. CASE MarkPushed(p)
  <2>1. TablesTyped'
    BY <1>1, <1>10 DEF MarkPushed, TablesTyped, Fits, Ended, db, UpdateStatus, RemoteId
  <2> QED BY <1>1, <1>10, <2>1, EndShape DEF MarkPushed, Fits, Ended, UpdateStatus, RemoteId
<1>11. CASE Get(p)
  <2>1. TablesTyped'
    BY <1>1, <1>11 DEF Get, TablesTyped, db
  <2>2. CASE EndWith(p, "norun")
    BY <2>1, <2>2, EndShape DEF Ended
  <2>3. CASE GoTo(p, AfterGet(job[p].cmd)) /\ UNCHANGED job
    <3>1. AfterGet(job[p].cmd) \in Ended \cup Steps /\ Fits(AfterGet(job[p].cmd), job[p])
      BY <1>1, <1>11 DEF Get, AfterGet, Fits, Ended, Steps
    <3>2. job' = [job EXCEPT ![p] = job[p]]
      BY <1>1, <2>3
    <3> QED BY <1>1, <2>1, <2>3, <3>1, <3>2, MoveShape DEF GoTo
  <2> QED BY <1>11, <2>2, <2>3 DEF Get
<1>12. CASE Fetch(p)
  <2>1. TablesTyped'
    BY <1>1, <1>12 DEF Fetch, TablesTyped, db
  <2> PICK S \in SUBSET remote[job[p].url] :
        job' = [job EXCEPT ![p].got = S, ![p].todo = S]
    BY <1>12 DEF Fetch
  <2> DEFINE j == [job[p] EXCEPT !.got = S, !.todo = S]
  <2>2. S \subseteq RunIds
    BY <1>1, <1>12 DEF Fetch, TablesTyped, Fits
  <2>3. j \in Job /\ Fits("next", j)
    BY <1>1, <1>12, <2>2 DEF Fetch, Fits, Job, Ended
  <2>4. pc' = [pc EXCEPT ![p] = "next"] /\ job' = [job EXCEPT ![p] = j]
    BY <1>1, <1>12 DEF Fetch, GoTo
  <2> HIDE DEF j
  <2> QED BY <2>1, <2>3, <2>4, MoveShape DEF Steps
<1>13. CASE NextPulled(p)
  <2>1. TablesTyped'
    BY <1>1, <1>13 DEF NextPulled, TablesTyped, db
  <2>2. CASE EndWith(p, "ok")
    BY <1>1, <1>13, <2>1, <2>2, EndShape DEF NextPulled, Fits, Ended
  <2>3. ASSUME NEW r \in job[p].todo, job' = [job EXCEPT ![p].run = r], GoTo(p, "insert")
        PROVE  Shape'
    <3> DEFINE j == [job[p] EXCEPT !.run = r]
    <3>1. j \in Job /\ Fits("insert", j)
      BY <1>1, <1>13 DEF NextPulled, Fits, Job, Ended
    <3>2. pc' = [pc EXCEPT ![p] = "insert"] /\ job' = [job EXCEPT ![p] = j]
      BY <1>1, <2>3 DEF GoTo
    <3> HIDE DEF j
    <3> QED BY <2>1, <3>1, <3>2, MoveShape DEF Steps
  <2> QED BY <1>13, <2>2, <2>3 DEF NextPulled
<1> QED BY <1>2, <1>3, <1>4, <1>5, <1>6, <1>7, <1>8, <1>9, <1>10, <1>11, <1>12, <1>13 DEF Work

LEMMA GoesWrongShape ==
  ASSUME Shape, NEW p \in Procs, GoesWrong(p)
  PROVE  Shape'
<1> USE StoreAssumption
<1>1. /\ TablesTyped /\ Fits(pc[p], job[p]) /\ job[p] \in Job
      /\ pc \in [Procs -> Ended \cup Steps] /\ job \in [Procs -> Job]
  BY DEF Shape
<1>2. TablesTyped'
  BY <1>1 DEF GoesWrong, SaveFails, IndexFails, StepFails, Crash, Fault, TablesTyped, db
<1>3. CASE EndWith(p, "error") \/ EndWith(p, "idle")
  BY <1>2, <1>3, EndShape DEF Ended
<1>4. ASSUME NEW s \in {"index", "report"}, pc[p] \in {"insert", "put", "index"},
             job[p].cmd = "run", GoTo(p, s), Warn(p)
      PROVE  Shape'
  <2> DEFINE j == [job[p] EXCEPT !.clean = FALSE]
  <2>1. j \in Job /\ Fits(s, j)
    BY <1>1, <1>4 DEF Fits, Job, Ended
  <2>2. pc' = [pc EXCEPT ![p] = s] /\ job' = [job EXCEPT ![p] = j]
    BY <1>1, <1>4 DEF GoTo, Warn
  <2> HIDE DEF j
  <2> QED BY <1>2, <2>1, <2>2, MoveShape DEF Steps
<1> QED BY <1>3, <1>4
    DEF GoesWrong, SaveFails, IndexFails, StepFails, Crash, StopPull, GiveUpSave

LEMMA InvokeShape ==
  ASSUME Shape, NEW p \in Procs, Invoke(p)
  PROVE  Shape'
<1> USE StoreAssumption DEF Shape, TablesTyped
<1> PICK c \in Cwds :
      \/ StartList(p, c)
      \/ \E r \in RunIds : StartRun(p, c, r) \/ StartShow(p, c, r)
      \/ \E u \in Registries : StartPull(p, c, u)
      \/ \E r \in RunIds, u \in Registries : StartPush(p, c, r, u)
  BY DEF Invoke
<1>1. CASE StartList(p, c)
  BY <1>1, StartShape DEF StartList, db
<1>2. ASSUME NEW r \in RunIds, StartRun(p, c, r) PROVE Shape'
  BY <1>2, StartShape DEF StartRun, FreshId, db
<1>3. ASSUME NEW r \in RunIds, StartShow(p, c, r) PROVE Shape'
  BY <1>3, StartShape DEF StartShow, db
<1>4. ASSUME NEW u \in Registries, StartPull(p, c, u) PROVE Shape'
  BY <1>4, StartShape DEF StartPull, db
<1>5. ASSUME NEW r \in RunIds, NEW u \in Registries, StartPush(p, c, r, u) PROVE Shape'
  BY <1>5, StartShape DEF StartPush, db
<1> QED BY <1>1, <1>2, <1>3, <1>4, <1>5

LEMMA NextShape == Shape /\ [Next]_vars => Shape'
<1> SUFFICES ASSUME Shape, [Next]_vars PROVE Shape'
  OBVIOUS
<1>1. CASE UNCHANGED vars
  BY <1>1 DEF vars, Shape, TablesTyped
<1>2. CASE Environment
  BY <1>2 DEF Environment, MakeBenDir, OtherPublishes, FreshId, db,
              Shape, TablesTyped
<1>3. ASSUME NEW p \in Procs, Invoke(p) \/ Work(p) \/ GoesWrong(p) PROVE Shape'
  BY <1>3, InvokeShape, WorkShape, GoesWrongShape
<1> QED BY <1>1, <1>2, <1>3 DEF Next

\* Every variable keeps its type and every process is at a step of the command
\* it was started as.
THEOREM TypeCorrect == Spec => []TypeOK
<1>1. Shape => TypeOK
  BY DEF Shape, TablesTyped, TypeOK
<1> QED BY <1>1, InitShape, NextShape, PTL DEF Spec

-----------------------------------------------------------------------------
(***************************************************************************)
(* What a process at a step may rely on, whoever else writes the tables.   *)
(* It is stable because the tables only grow.                              *)
(***************************************************************************)
Knows(step, j) ==
  /\ step = "put" => j.run \in rows[j.dir]
  /\ step = "index" /\ (j.cmd = "pull" \/ j.clean) => j.run \in rows[j.dir] \cap kv[j.dir]
  /\ step \in {"report", "ok"} /\ j.cmd = "run" /\ j.clean => Stored(j.dir, j.run)
  /\ step \in {"post", "reply", "mark"} => j.run \in kv[j.dir]
  /\ step \in {"reply", "mark"} => j.run \in remote[j.url]
  /\ step = "ok" /\ j.cmd = "push" =>
       j.run \in remote[j.url] /\ index[j.dir][j.run] \in Registries
  /\ step \in {"next", "insert", "put", "index", "ok"} /\ j.cmd = "pull" =>
       \A r \in j.got \ j.todo : Stored(Global, r)
  /\ step = "ok" /\ j.cmd = "pull" => j.todo = {}
  /\ step \in {"next", "insert", "put", "index"} /\ j.cmd = "pull" =>
       j.todo \subseteq remote[j.url]
  /\ step = "insert" /\ j.cmd = "pull" => j.run \in remote[j.url]

Safe ==
  /\ Shape
  /\ ShownIsListed
  /\ MarkIsTruthful
  /\ \A p \in Procs : Knows(pc[p], job[p])

TablesGrow ==
  /\ \A d \in Dirs : rows[d] \subseteq rows'[d] /\ kv[d] \subseteq kv'[d]
  /\ \A u \in Registries : remote[u] \subseteq remote'[u]
  /\ \A d \in Dirs, r \in RunIds :
       /\ index[d][r] # "absent" => index'[d][r] # "absent"
       /\ index[d][r] \in Registries => index'[d][r] \in Registries

\* No step takes a run out of a table or a registry, or a mark off a run.
LEMMA Growing ==
  ASSUME Shape, [Next]_vars
  PROVE  TablesGrow
<1> USE StoreAssumption DEF Shape, TablesTyped
<1>1. CASE UNCHANGED vars
  BY <1>1 DEF vars, TablesGrow
<1>2. CASE Environment
  BY <1>2 DEF Environment, MakeBenDir, OtherPublishes, db, TablesGrow
<1>3. ASSUME NEW p \in Procs, Invoke(p) \/ GoesWrong(p) PROVE TablesGrow
  BY <1>3 DEF Invoke, StartList, StartRun, StartShow, StartPull, StartPush,
              GoesWrong, SaveFails, IndexFails, StepFails, Crash, db, TablesGrow
<1>4. ASSUME NEW p \in Procs, Work(p) PROVE TablesGrow
  <2>1. Fits(pc[p], job[p])
    OBVIOUS
  <2>2. CASE InsertRow(p)
    BY <2>1, <2>2 DEF InsertRow, TablesGrow
  <2>3. CASE PutKv(p)
    BY <2>1, <2>3 DEF PutKv, TablesGrow
  <2>4. CASE IndexRun(p)
    BY <2>1, <2>4 DEF IndexRun, OnConflict, TablesGrow, Fits, Ended
  <2>5. CASE MarkPushed(p)
    BY <2>1, <2>5 DEF MarkPushed, RemoteId, TablesGrow, Fits, Ended
  <2>6. CASE ServerStores(p)
    BY <2>1, <2>6 DEF ServerStores, db, TablesGrow
  <2>7. CASE Open(p) \/ Report(p) \/ Get(p) \/ List(p) \/ ReplyArrives(p)
               \/ Fetch(p) \/ NextPulled(p)
    BY <2>7 DEF Open, Report, Get, List, ReplyArrives, Fetch, NextPulled, db, TablesGrow
  <2> QED BY <1>4, <2>2, <2>3, <2>4, <2>5, <2>6, <2>7 DEF Work
<1> QED BY <1>1, <1>2, <1>3, <1>4 DEF Next

LEMMA KnowledgeIsStable ==
  ASSUME Shape, TablesGrow, NEW s, NEW j \in Job, Fits(s, j), Knows(s, j)
  PROVE  Knows(s, j)'
<1>1. \A d \in Dirs, r \in RunIds : Stored(d, r) => Stored(d, r)'
  BY DEF Stored, TablesGrow
<1>2. Global \in Dirs /\ j.got \subseteq RunIds
  BY DEF Dirs, Job
<1> QED BY <1>1, <1>2 DEF Knows, Fits, TablesGrow, Ended

\* What p knows at the step it arrives at.
LEMMA KnowledgeOfMover ==
  ASSUME Safe, NEW p \in Procs, Invoke(p) \/ Work(p) \/ GoesWrong(p), Shape'
  PROVE  Knows(pc[p], job[p])'
<1> USE StoreAssumption
<1>1. /\ TablesTyped /\ TablesTyped'
      /\ pc  \in [Procs -> Ended \cup Steps] /\ job \in [Procs -> Job]
      /\ job[p] \in Job /\ Fits(pc[p], job[p]) /\ Knows(pc[p], job[p])
      /\ Fits(pc'[p], job'[p]) /\ job'[p] \in Job
  BY DEF Safe, Shape
<1>2. CASE Invoke(p)
  <2>1. pc'[p] = "open"
    BY <1>1, <1>2 DEF Invoke, StartList, StartRun, StartShow, StartPull, StartPush, Start, GoTo
  <2> QED BY <2>1 DEF Knows
<1>3. CASE Open(p)
  BY <1>1, <1>3 DEF Open, GoTo, FirstStep, CommandDir, Knows, Fits, Ended, Stored
<1>4. CASE InsertRow(p)
  BY <1>1, <1>4 DEF InsertRow, GoTo, TablesTyped, Knows, Fits, Ended, Stored, Job
<1>5. CASE PutKv(p)
  BY <1>1, <1>5 DEF PutKv, GoTo, TablesTyped, Knows, Fits, Ended, Stored, Job
<1>6. CASE IndexRun(p)
  <2>1. \A d \in Dirs, r \in RunIds : Stored(d, r) => Stored(d, r)'
    BY <1>1, <1>6 DEF IndexRun, OnConflict, Stored, TablesTyped, Fits, Ended
  <2>2. job[p].cmd = "pull" \/ job[p].clean => Stored(job[p].dir, job[p].run)'
    BY <1>1, <1>6 DEF IndexRun, OnConflict, Stored, TablesTyped, Fits, Ended, Knows
  <2>3. pc'[p] = AfterIndex(job[p].cmd) /\ job'[p] = [job[p] EXCEPT !.todo = Remaining(p)]
    BY <1>1, <1>6 DEF IndexRun, GoTo
  <2>4. job[p].got \subseteq RunIds /\ Global \in Dirs
    BY <1>1 DEF Job, Dirs
  <2>5. CASE job[p].cmd = "run"
    BY <1>1, <1>6, <2>2, <2>3, <2>5 DEF AfterIndex, Remaining, Knows, Stored, Job
  <2>6. CASE job[p].cmd = "pull"
    <3>1. \A r \in job[p].got \ Remaining(p) : Stored(Global, r)'
      BY <1>1, <1>6, <2>1, <2>2, <2>4, <2>6 DEF IndexRun, Remaining, Knows, Fits, Ended
    <3>2. Remaining(p) \subseteq remote'[job[p].url]
      BY <1>1, <1>6, <2>6 DEF IndexRun, Remaining, Knows
    <3>3. /\ pc'[p] = "next" /\ job'[p].cmd = "pull" /\ job'[p].got = job[p].got
          /\ job'[p].url = job[p].url /\ job'[p].todo = Remaining(p)
      BY <1>1, <2>3, <2>6 DEF AfterIndex, Job
    <3> QED BY <3>1, <3>2, <3>3 DEF Knows
  <2> QED BY <1>1, <1>6, <2>5, <2>6 DEF IndexRun, Fits
<1>7. CASE Report(p)
  BY <1>1, <1>7 DEF Report, EndWith, GoTo, Knows, Fits, Ended, Stored, db
<1>8. CASE Get(p)
  <2>1. CASE job[p].run \in kv[job[p].dir]
    BY <1>1, <1>8, <2>1 DEF Get, AfterGet, EndWith, GoTo, Knows, Fits, Ended, db
  <2>2. CASE job[p].run \notin kv[job[p].dir]
    BY <1>1, <1>8, <2>2 DEF Get, EndWith, GoTo, Knows
  <2> QED BY <2>1, <2>2
<1>9. CASE List(p)
  BY <1>1, <1>9 DEF List, GoTo, Knows, Fits, Ended, db, Job
<1>10. CASE ServerStores(p) \/ ReplyArrives(p)
  <2>1. job[p].cmd = "push" /\ job[p].url \in Registries /\ job'[p] = job[p]
    BY <1>1, <1>10 DEF ServerStores, ReplyArrives, Fits
  <2>2. job[p].run \in kv'[job[p].dir] /\ job[p].run \in remote'[job[p].url]
    BY <1>1, <1>10, <2>1 DEF ServerStores, ReplyArrives, TablesTyped, Knows, db
  <2>3. pc'[p] \in {"reply", "mark"}
    BY <1>1, <1>10 DEF ServerStores, ReplyArrives, GoTo
  <2> QED BY <2>1, <2>2, <2>3 DEF Knows
<1>11. CASE MarkPushed(p)
  <2>1. CASE index[job[p].dir][job[p].run] = "absent"
    <3>1. pc'[p] = "error"
      BY <1>1, <1>11, <2>1 DEF MarkPushed, UpdateStatus, EndWith, GoTo
    <3> QED BY <3>1 DEF Knows
  <2>2. CASE index[job[p].dir][job[p].run] # "absent"
    <3>1. pc'[p] = "ok" /\ job'[p] = job[p] /\ job[p].cmd = "push"
      BY <1>1, <1>11, <2>2 DEF MarkPushed, UpdateStatus, EndWith, GoTo, Fits
    <3>2. index'[job[p].dir][job[p].run] \in Registries
      BY <1>1, <1>11, <2>2 DEF MarkPushed, RemoteId, TablesTyped, Fits, Ended
    <3>3. job[p].run \in remote'[job[p].url]
      BY <1>1, <1>11 DEF MarkPushed, Knows
    <3> QED BY <3>1, <3>2, <3>3 DEF Knows
  <2> QED BY <2>1, <2>2
<1>12. CASE Fetch(p)
  BY <1>1, <1>12 DEF Fetch, GoTo, Knows, Fits, Ended
<1>13. CASE NextPulled(p)
  BY <1>1, <1>13 DEF NextPulled, EndWith, GoTo, Knows, Fits, Ended, Stored, db, Job
<1>14. CASE GoesWrong(p)
  <2>1. CASE EndWith(p, "error") \/ EndWith(p, "idle")
    <3>1. pc'[p] \in {"error", "idle"}
      BY <1>1, <2>1 DEF EndWith, GoTo
    <3> QED BY <3>1 DEF Knows
  <2>2. ASSUME NEW s \in {"index", "report"}, job[p].cmd = "run", GoTo(p, s), Warn(p)
        PROVE  Knows(pc[p], job[p])'
    <3>1. pc'[p] = s /\ job'[p].cmd = "run" /\ job'[p].clean = FALSE
      BY <1>1, <2>2 DEF GoTo, Warn, Job
    <3> QED BY <3>1 DEF Knows
  <2> QED BY <1>14, <2>1, <2>2
          DEF GoesWrong, SaveFails, IndexFails, StepFails, Crash, StopPull, GiveUpSave
<1> QED BY <1>2, <1>3, <1>4, <1>5, <1>6, <1>7, <1>8, <1>9, <1>10, <1>11, <1>12, <1>13, <1>14
    DEF Work

LEMMA NextSafe == Safe /\ [Next]_vars => Safe'
<1> SUFFICES ASSUME Safe, [Next]_vars PROVE Safe'
  OBVIOUS
<1> USE StoreAssumption
<1>1. Shape /\ Shape' /\ TablesGrow
  BY NextShape, Growing DEF Safe
<1>2. \A q \in Procs : pc'[q] = pc[q] /\ job'[q] = job[q] => Knows(pc[q], job[q])'
  <2> SUFFICES ASSUME NEW q \in Procs, pc'[q] = pc[q], job'[q] = job[q]
               PROVE  Knows(pc[q], job[q])'
    OBVIOUS
  <2>1. \A s : \A j \in Job : Fits(s, j) /\ Knows(s, j) => Knows(s, j)'
    BY <1>1, KnowledgeIsStable
  <2>2. Knows(pc[q], job[q]) /\ Fits(pc[q], job[q]) /\ job[q] \in Job
    BY <1>1 DEF Safe, Shape
  <2>3. \A s : \A j \in Job : s = pc[q] /\ j = job[q] => Knows(s, j)'
    BY <2>1, <2>2
  <2> QED BY <2>2, <2>3 DEF Knows, Stored
<1>3. \A q \in Procs : Knows(pc[q], job[q])'
  <2>1. ASSUME NEW p \in Procs, Invoke(p) \/ Work(p) \/ GoesWrong(p)
        PROVE  \A q \in Procs : q # p => pc'[q] = pc[q] /\ job'[q] = job[q]
    <3>1. pc \in [Procs -> Ended \cup Steps] /\ job \in [Procs -> Job]
      BY <1>1 DEF Shape
    <3>2. CASE Invoke(p)
      BY <3>1, <3>2 DEF Invoke, StartList, StartRun, StartShow, StartPull, StartPush, Start, GoTo
    <3>3. CASE Work(p)
      BY <3>1, <3>3 DEF Work, Open, InsertRow, PutKv, IndexRun, Report, Get, List, ServerStores,
         ReplyArrives, MarkPushed, Fetch, NextPulled, EndWith, GoTo
    <3>4. CASE GoesWrong(p)
      BY <3>1, <3>4 DEF GoesWrong, SaveFails, IndexFails, StepFails, Crash, Warn, StopPull,
         EndWith, GoTo
    <3> QED BY <2>1, <3>2, <3>3, <3>4
  <2>2. CASE UNCHANGED vars \/ Environment
    BY <1>2, <2>2 DEF vars, Environment, MakeBenDir, OtherPublishes
  <2>3. CASE \E p \in Procs : Invoke(p) \/ Work(p) \/ GoesWrong(p)
    BY <1>1, <1>2, <2>1, <2>3, KnowledgeOfMover
  <2> QED BY <2>2, <2>3 DEF Next
<1>4. ShownIsListed'
  <2>1. ASSUME NEW p \in Procs, PutKv(p) PROVE ShownIsListed'
    BY <1>1, <2>1 DEF PutKv, Safe, Shape, TablesTyped, Knows, Fits, Ended, ShownIsListed
  <2>2. CASE UNCHANGED kv
    BY <1>1, <2>2 DEF Safe, ShownIsListed, TablesGrow
  <2>3. ASSUME NEW p \in Procs, Invoke(p) \/ Work(p) \/ GoesWrong(p), ~PutKv(p)
        PROVE  UNCHANGED kv
    BY <2>3 DEF Invoke, StartList, StartRun, StartShow, StartPull, StartPush, Work, Open,
       InsertRow, IndexRun, Report, Get, List, ServerStores, ReplyArrives, MarkPushed, Fetch,
       NextPulled, GoesWrong, SaveFails, IndexFails, StepFails, Crash, db
  <2> QED BY <2>1, <2>2, <2>3 DEF Next, vars, Environment, MakeBenDir, OtherPublishes, db
<1>5. MarkIsTruthful'
  <2>1. ASSUME NEW p \in Procs, MarkPushed(p) PROVE MarkIsTruthful'
    <3>1. /\ job[p].run \in RunIds /\ job[p].dir \in Dirs /\ job[p].url \in Registries
          /\ job[p].run \in kv[job[p].dir] /\ job[p].run \in remote[job[p].url]
      BY <1>1, <2>1 DEF MarkPushed, Safe, Shape, Knows, Fits, Ended
    <3> QED BY <1>1, <2>1, <3>1
            DEF MarkPushed, RemoteId, Safe, Shape, TablesTyped, MarkIsTruthful
  <2>2. ASSUME NEW p \in Procs, IndexRun(p) PROVE MarkIsTruthful'
    BY <1>1, <2>2 DEF IndexRun, OnConflict, Safe, Shape, TablesTyped, Fits, Ended, MarkIsTruthful
  <2>3. CASE UNCHANGED index
    BY <1>1, <2>3 DEF Safe, Shape, TablesTyped, MarkIsTruthful, TablesGrow
  <2>4. ASSUME NEW p \in Procs, Invoke(p) \/ Work(p) \/ GoesWrong(p),
               ~MarkPushed(p), ~IndexRun(p)
        PROVE  UNCHANGED index
    BY <2>4 DEF Invoke, StartList, StartRun, StartShow, StartPull, StartPush, Work, Open,
       InsertRow, PutKv, Report, Get, List, ServerStores, ReplyArrives, Fetch, NextPulled,
       GoesWrong, SaveFails, IndexFails, StepFails, Crash, db
  <2> QED BY <2>1, <2>2, <2>3, <2>4 DEF Next, vars, Environment, MakeBenDir, OtherPublishes, db
<1> QED BY <1>1, <1>3, <1>4, <1>5 DEF Safe

LEMMA InitSafe == Init => Safe
<1> SUFFICES ASSUME Init PROVE Safe
  OBVIOUS
<1>1. ShownIsListed /\ MarkIsTruthful
  BY StoreAssumption DEF Init, ShownIsListed, MarkIsTruthful
<1>2. \A p \in Procs : Knows(pc[p], job[p])
  BY DEF Init, Knows
<1> QED BY <1>1, <1>2, InitShape DEF Safe

LEMMA AlwaysSafe == Spec => []Safe
BY InitSafe, NextSafe, PTL DEF Spec

\* What `ben show` finds, `ben list` lists, in every store at every moment.
THEOREM ShownIsAlwaysListed == Spec => []ShownIsListed
<1>1. Safe => ShownIsListed
  BY DEF Safe
<1> QED BY <1>1, AlwaysSafe, PTL

\* A mark names a registry that holds the run, in a store that can show it.
THEOREM MarksAreTruthful == Spec => []MarkIsTruthful
<1>1. Safe => MarkIsTruthful
  BY DEF Safe
<1> QED BY <1>1, AlwaysSafe, PTL

\* A push that exits 0 has uploaded its run and marked it.
THEOREM PushKeepsItsWord == Spec => []PushOkIsMarked
<1>1. Safe => PushOkIsMarked
  BY DEF Safe, Knows, PushOkIsMarked
<1> QED BY <1>1, AlwaysSafe, PTL

\* A pull that exits 0 has stored and indexed every run the registry sent.
THEOREM PullKeepsItsWord == Spec => []PullOkIsComplete
<1>1. Safe => PullOkIsComplete
  BY DEF Safe, Knows, PullOkIsComplete
<1> QED BY <1>1, AlwaysSafe, PTL

\* A run that exits 0 and warns of nothing is stored and indexed.
THEOREM RunKeepsItsWord == Spec => []CleanRunIsStored
<1>1. Safe => CleanRunIsStored
  BY DEF Safe, Knows, CleanRunIsStored
<1> QED BY <1>1, AlwaysSafe, PTL

\* No step of any process takes the mark off a pushed run.
THEOREM MarksAreKept == Spec => MarkNeverLost
<1>1. Shape /\ [Next]_vars =>
        [\A d \in Dirs, r \in RunIds :
           index[d][r] \in Registries => index'[d][r] \in Registries]_vars
  BY Growing DEF TablesGrow
<1> QED BY <1>1, InitShape, NextShape, PTL DEF Spec, MarkNeverLost

-----------------------------------------------------------------------------
(***************************************************************************)
(* The store implements the ledger.  What is still missing is where the    *)
(* ids come from: an id that `ben run` is about to insert is in no store   *)
(* and no registry, and no other process is about to insert it as new.     *)
(***************************************************************************)
Unwritten(p) == job[p].cmd = "run" /\ pc[p] \in {"open", "insert"}

NotSeen(r) == /\ \A d \in Dirs : r \notin rows[d]
              /\ \A u \in Registries : r \notin remote[u]

IdsAreFresh ==
  /\ \A d \in Dirs : rows[d] \subseteq used
  /\ \A u \in Registries : remote[u] \subseteq used
  /\ \A p \in Procs : Unwritten(p) => job[p].run \in used /\ NotSeen(job[p].run)
  /\ \A p, q \in Procs :
       p # q /\ Unwritten(p) /\ Unwritten(q) => job[p].run # job[q].run

\* A step that mints no id and adds to no table of runs keeps the ids apart,
\* whatever it does to a process that is not about to insert a new run.
LEMMA IdsKeep ==
  ASSUME IdsAreFresh, UNCHANGED <<rows, remote, used>>,
         \A q \in Procs : Unwritten(q)' => Unwritten(q) /\ job'[q].run = job[q].run
  PROVE  IdsAreFresh'
BY DEF IdsAreFresh, NotSeen

LEMMA NextIds == Safe /\ IdsAreFresh /\ [Next]_vars => IdsAreFresh'
<1> SUFFICES ASSUME Safe, IdsAreFresh, [Next]_vars PROVE IdsAreFresh'
  OBVIOUS
<1> USE StoreAssumption
<1>1. /\ TablesTyped /\ TablesTyped'
      /\ pc \in [Procs -> Ended \cup Steps] /\ job \in [Procs -> Job]
      /\ \A q \in Procs : job[q] \in Job /\ Fits(pc[q], job[q]) /\ Knows(pc[q], job[q])
  BY NextShape DEF Safe, Shape
<1>2. CASE UNCHANGED vars
  BY <1>2, IdsKeep DEF vars, Unwritten
<1>3. ASSUME NEW c \in Cwds, MakeBenDir(c) PROVE IdsAreFresh'
  BY <1>3, IdsKeep DEF MakeBenDir, db, Unwritten
<1>4. ASSUME NEW u \in Registries, NEW r \in RunIds, OtherPublishes(u, r) PROVE IdsAreFresh'
  BY <1>1, <1>4 DEF OtherPublishes, FreshId, TablesTyped, db, IdsAreFresh, NotSeen, Unwritten
<1>5. ASSUME NEW p \in Procs, NEW c \in Cwds, NEW r \in RunIds, StartRun(p, c, r)
      PROVE  IdsAreFresh'
  <2>1. \A q \in Procs : q # p => pc'[q] = pc[q] /\ job'[q] = job[q]
    BY <1>1, <1>5 DEF StartRun, Start, GoTo
  <2>2. job'[p].run = r /\ NotSeen(r) /\ r \notin used
    BY <1>1, <1>5 DEF StartRun, Start, FreshId, IdsAreFresh, NotSeen, NoJob
  <2>3. \A q \in Procs : q # p /\ Unwritten(q)' => Unwritten(q) /\ job'[q].run = job[q].run
    BY <2>1 DEF Unwritten
  <2>4. UNCHANGED <<rows, remote>> /\ used' = used \cup {r}
    BY <1>5 DEF StartRun, db
  <2> QED BY <2>2, <2>3, <2>4 DEF IdsAreFresh, NotSeen
<1>6. ASSUME NEW p \in Procs, Invoke(p) \/ Work(p) \/ GoesWrong(p),
             UNCHANGED <<rows, remote, used>>
      PROVE  IdsAreFresh'
  <2>1. CASE Invoke(p)
    <3>1. \A c \in Cwds, r \in RunIds : ~StartRun(p, c, r)
      BY <1>6 DEF StartRun, FreshId
    <3>2. job'[p].cmd # "run"
      <4>1. ASSUME NEW cmd \in {"push", "pull", "show", "list"}, NEW c, NEW r, NEW u,
                   Start(p, cmd, c, r, u)
            PROVE  job'[p].cmd # "run"
        BY <1>1, <4>1 DEF Start, NoJob
      <4> QED BY <2>1, <3>1, <4>1 DEF Invoke, StartList, StartShow, StartPull, StartPush
    <3>3. \A q \in Procs : q # p => pc'[q] = pc[q] /\ job'[q] = job[q]
      BY <1>1, <2>1, <3>1 DEF Invoke, StartList, StartShow, StartPull, StartPush, Start, GoTo
    <3> QED BY <1>6, <3>2, <3>3, IdsKeep DEF Unwritten
  <2>2. CASE Open(p)
    BY <1>1, <1>6, <2>2, IdsKeep DEF Open, GoTo, Unwritten, Job
  <2>3. CASE Work(p) /\ ~Open(p)
    <3>1. pc'[p] \in {"open", "insert"} => job'[p].cmd = "pull"
      <4>1. CASE NextPulled(p)
        BY <1>1, <4>1 DEF NextPulled, EndWith, GoTo, Fits, Job
      <4>2. CASE InsertRow(p) \/ PutKv(p) \/ IndexRun(p) \/ Report(p) \/ List(p)
        BY <1>1, <4>2 DEF InsertRow, PutKv, IndexRun, AfterIndex, Report, List, EndWith, GoTo
      <4>3. CASE Get(p)
        BY <1>1, <4>3 DEF Get, AfterGet, EndWith, GoTo
      <4>4. CASE ServerStores(p) \/ ReplyArrives(p) \/ MarkPushed(p) \/ Fetch(p)
        BY <1>1, <4>4 DEF ServerStores, ReplyArrives, MarkPushed, UpdateStatus, Fetch, EndWith, GoTo
      <4> QED BY <2>3, <4>1, <4>2, <4>3, <4>4 DEF Work
    <3>2. \A q \in Procs : q # p => pc'[q] = pc[q] /\ job'[q] = job[q]
      BY <1>1, <2>3 DEF Work, InsertRow, PutKv, IndexRun, Report, Get, List, ServerStores,
         ReplyArrives, MarkPushed, Fetch, NextPulled, EndWith, GoTo
    <3> QED BY <1>6, <3>1, <3>2, IdsKeep DEF Unwritten
  <2>4. CASE GoesWrong(p)
    <3>1. pc'[p] \notin {"open", "insert"}
      BY <1>1, <2>4 DEF GoesWrong, SaveFails, IndexFails, StepFails, Crash, StopPull, GiveUpSave,
         EndWith, GoTo
    <3>2. \A q \in Procs : q # p => pc'[q] = pc[q] /\ job'[q] = job[q]
      BY <1>1, <2>4 DEF GoesWrong, SaveFails, IndexFails, StepFails, Crash, Warn, StopPull,
         EndWith, GoTo
    <3> QED BY <1>6, <3>1, <3>2, IdsKeep DEF Unwritten
  <2> QED BY <1>6, <2>1, <2>2, <2>3, <2>4
<1>7. ASSUME NEW p \in Procs, InsertRow(p) PROVE IdsAreFresh'
  <2>1. /\ job[p].run \in used
        /\ \A q \in Procs : q # p /\ Unwritten(q) => job[q].run # job[p].run
    BY <1>1, <1>7 DEF InsertRow, IdsAreFresh, NotSeen, Unwritten, Knows, Fits, TablesTyped
  <2>2. ~Unwritten(p)' /\ UNCHANGED <<remote, used, job>>
    BY <1>1, <1>7 DEF InsertRow, GoTo, Unwritten
  <2>3. \A q \in Procs : q # p => pc'[q] = pc[q]
    BY <1>1, <1>7 DEF InsertRow, GoTo
  <2>4. \A d \in Dirs : rows'[d] \subseteq rows[d] \cup {job[p].run}
    BY <1>1, <1>7 DEF InsertRow, TablesTyped
  <2> QED BY <2>1, <2>2, <2>3, <2>4 DEF IdsAreFresh, NotSeen, Unwritten
<1>8. ASSUME NEW p \in Procs, ServerStores(p) PROVE IdsAreFresh'
  <2>1. job[p].run \in kv[job[p].dir] /\ job[p].dir \in Dirs
    BY <1>1, <1>8 DEF ServerStores, Knows, Fits, Ended
  <2>2. job[p].run \in rows[job[p].dir] /\ job[p].run \in used
    BY <2>1 DEF Safe, ShownIsListed, IdsAreFresh
  <2>3. \A q \in Procs : Unwritten(q) => job[q].run # job[p].run
    BY <2>1, <2>2 DEF IdsAreFresh, NotSeen
  <2>4. UNCHANGED <<rows, used, job>> /\ \A q \in Procs : Unwritten(q)' => Unwritten(q)
    BY <1>1, <1>8 DEF ServerStores, GoTo, Unwritten, db
  <2>5. \A u \in Registries : remote'[u] \subseteq remote[u] \cup {job[p].run}
    BY <1>1, <1>8 DEF ServerStores, TablesTyped
  <2> QED BY <2>2, <2>3, <2>4, <2>5 DEF IdsAreFresh, NotSeen
<1>9. ASSUME NEW p \in Procs, Invoke(p) \/ Work(p) \/ GoesWrong(p),
             ~InsertRow(p), ~ServerStores(p),
             \A c \in Cwds, r \in RunIds : ~StartRun(p, c, r)
      PROVE  UNCHANGED <<rows, remote, used>>
  BY <1>9 DEF Invoke, StartList, StartShow, StartPull, StartPush, Work, Open, PutKv,
     IndexRun, Report, Get, List, ReplyArrives, MarkPushed, Fetch, NextPulled,
     GoesWrong, SaveFails, IndexFails, StepFails, Crash, db
<1> QED BY <1>2, <1>3, <1>4, <1>5, <1>6, <1>7, <1>8, <1>9 DEF Next, Environment

LEMMA InitIds == Init => IdsAreFresh
BY DEF Init, IdsAreFresh, Unwritten

LEMMA LedgerStep ==
  ASSUME Safe, IdsAreFresh, [Next]_vars
  PROVE  [Ledger!Next]_(Ledger!vars)
<1> USE StoreAssumption
<1>1. /\ TablesTyped
      /\ \A q \in Procs : Fits(pc[q], job[q]) /\ Knows(pc[q], job[q])
  BY DEF Safe, Shape
<1>2. Global \in Dirs
  BY DEF Dirs
<1>3. ASSUME NEW p \in Procs, InsertRow(p) PROVE Ledger!Next
  <2>1. job[p].dir \in Dirs /\ job[p].run \in RunIds
    BY <1>1, <1>3 DEF InsertRow, Fits, Ended
  <2>2. CASE job[p].cmd = "run"
    <3>1. Ledger!IsNew(job[p].run)
      BY <1>3, <2>2 DEF InsertRow, IdsAreFresh, Unwritten, NotSeen, Ledger!IsNew
    <3> QED BY <1>3, <2>1, <3>1 DEF InsertRow, Ledger!Next, Ledger!Enter
  <2>3. CASE job[p].cmd = "pull"
    <3>1. job[p].dir = Global /\ \E u \in Registries : job[p].run \in remote[u]
      BY <1>1, <1>3, <2>3 DEF InsertRow, Fits, Knows
    <3> QED BY <1>3, <2>1, <3>1 DEF InsertRow, Ledger!Next, Ledger!Enter
  <2> QED BY <1>1, <1>3, <2>2, <2>3 DEF InsertRow, Fits
<1>4. ASSUME NEW p \in Procs, PutKv(p) PROVE Ledger!Next
  BY <1>1, <1>4 DEF PutKv, Fits, Knows, Ended, Ledger!Next, Ledger!Complete
<1>5. ASSUME NEW p \in Procs, IndexRun(p) PROVE [Ledger!Next]_(Ledger!vars)
  <2>1. job[p].dir \in Dirs /\ job[p].run \in RunIds
    BY <1>1, <1>5 DEF IndexRun, Fits, Ended
  <2>2. CASE index[job[p].dir][job[p].run] = "absent"
    BY <1>5, <2>1, <2>2 DEF IndexRun, OnConflict, Ledger!Next, Ledger!Register
  <2>3. CASE index[job[p].dir][job[p].run] # "absent"
    BY <1>1, <1>5, <2>1, <2>3 DEF IndexRun, OnConflict, TablesTyped, Ledger!vars
  <2> QED BY <2>2, <2>3
<1>6. ASSUME NEW p \in Procs, ServerStores(p) PROVE Ledger!Next
  BY <1>1, <1>6 DEF ServerStores, Fits, Knows, Ended, db, Ledger!Next, Ledger!Publish
<1>7. ASSUME NEW p \in Procs, MarkPushed(p) PROVE [Ledger!Next]_(Ledger!vars)
  <2>1. /\ job[p].dir \in Dirs /\ job[p].run \in RunIds /\ job[p].url \in Registries
        /\ job[p].run \in kv[job[p].dir] /\ job[p].run \in remote[job[p].url]
    BY <1>1, <1>7 DEF MarkPushed, Fits, Knows, Ended
  <2>2. CASE index[job[p].dir][job[p].run] # "absent"
    BY <1>7, <2>1, <2>2 DEF MarkPushed, RemoteId, Ledger!Next, Ledger!MarkPublished
  <2>3. CASE index[job[p].dir][job[p].run] = "absent"
    BY <1>1, <1>7, <2>1, <2>3 DEF MarkPushed, TablesTyped, Ledger!vars
  <2> QED BY <2>2, <2>3
<1>8. ASSUME NEW u \in Registries, NEW r \in RunIds, OtherPublishes(u, r) PROVE Ledger!Next
  <2>1. Ledger!IsNew(r)
    BY <1>8 DEF OtherPublishes, FreshId, IdsAreFresh, Ledger!IsNew
  <2> QED BY <1>8, <2>1 DEF OtherPublishes, db, Ledger!Next, Ledger!Publish
<1>9. ASSUME NEW p \in Procs, Invoke(p) \/ Work(p) \/ GoesWrong(p),
             ~InsertRow(p), ~PutKv(p), ~IndexRun(p), ~ServerStores(p), ~MarkPushed(p)
      PROVE  UNCHANGED Ledger!vars
  BY <1>9 DEF Invoke, StartList, StartRun, StartShow, StartPull, StartPush, Work, Open, Report,
     Get, List, ReplyArrives, Fetch, NextPulled, GoesWrong, SaveFails, IndexFails, StepFails,
     Crash, db, Ledger!vars
<1>10. CASE UNCHANGED vars \/ \E c \in Cwds : MakeBenDir(c)
  BY <1>10 DEF vars, MakeBenDir, db, Ledger!vars
<1> QED BY <1>3, <1>4, <1>5, <1>6, <1>7, <1>8, <1>9, <1>10 DEF Next, Environment

\* The store implements the ledger: processes, failures, kills and retries add
\* nothing that RunLedger does not allow.
THEOREM StoreImplementsLedger == Spec => LedgerSpec
<1>1. Init => Ledger!Init
  BY DEF Init, Ledger!Init
<1>2. Safe /\ IdsAreFresh /\ [Next]_vars => IdsAreFresh'
  BY NextIds
<1>3. Safe /\ IdsAreFresh /\ [Next]_vars => [Ledger!Next]_(Ledger!vars)
  BY LedgerStep
<1> QED BY <1>1, <1>2, <1>3, InitIds, InitSafe, NextSafe, PTL DEF Spec, LedgerSpec, Ledger!Spec
=============================================================================
