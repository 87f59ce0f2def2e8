------------------------------ MODULE BenStore ------------------------------
(***************************************************************************)
(* The run store of ben and the commands that share it.                    *)
(*                                                                         *)
(* Every command is an operating-system process of its own.  Processes     *)
(* meet in a SQLite file, <data dir>/ben.db, of three tables:              *)
(*   runs      read by `ben list`                        (variable rows)   *)
(*   kv        read by `ben show`, `compare` and `push`  (variable kv)     *)
(*   registry  the index of what was pushed              (variable index)  *)
(* and in the remote registry.  Each SQL statement commits by itself; no   *)
(* transaction spans two of them, so the atomic steps below are the        *)
(* statements, and a process may fail, or be killed, between any two.      *)
(*                                                                         *)
(* A run id is a fresh ULID and the record it names never changes, so a    *)
(* table is the set of ids it holds.  A registry is external: it answers a *)
(* repeated POST of a run with the id it gave before (registry.go:36-41),  *)
(* so a remote id is named by the registry that issued it.                 *)
(***************************************************************************)
EXTENDS Naturals

CONSTANTS
  Procs,       \* slots for ben processes that may be alive together
  RunIds,      \* run ids
  Cwds,        \* working directories; a .ben/ inside one is named by it
  Global,      \* the XDG data directory, xdg.DataDir("ben")
  Registries,  \* registry URLs
  Commands,    \* the commands the users of this instance issue
  MaxFaults,   \* bound on failing steps and kills in a behaviour
  None         \* no value

ASSUME StoreAssumption ==
  /\ Global \notin Cwds
  /\ Commands \subseteq {"run", "push", "pull", "show", "list"}
  /\ MaxFaults \in Nat
  /\ None \notin RunIds \cup Cwds \cup {Global} \cup Registries
  /\ None \notin {"run", "push", "pull", "show", "list"}
  /\ Registries \cap {"absent", "local"} = {}

Dirs == Cwds \cup {Global}

VARIABLES
  benDirs,  \* the working directories that contain .ben/
  rows,     \* rows[d]: ids in table runs of data directory d
  kv,       \* kv[d]: ids in table kv of d
  index,    \* index[d][r]: "absent", "local" (remote_id NULL), or a registry
  remote,   \* remote[u]: ids that registry u holds
  used,     \* ids minted so far, here or by other users of a registry
  faults,   \* how many steps failed so far
  pc,       \* pc[p]: the step process p is at, or how it ended
  job       \* job[p]: what process p was asked and what it remembers

db   == <<rows, kv, index>>
vars == <<benDirs, rows, kv, index, remote, used, faults, pc, job>>

\* A process that is not running: never started or killed, exit 0, a
\* failure, or the error BEN_NO_RUN.
Ended == {"idle", "ok", "error", "norun"}

Steps == {"open", "insert", "put", "index", "report", "get", "post", "reply",
          "mark", "fetch", "next", "list"}

Job == [cmd   : Commands \cup {None},
        cwd   : Cwds \cup {None},
        dir   : Dirs \cup {None},
        url   : Registries \cup {None},
        run   : RunIds \cup {None},
        got   : SUBSET RunIds,   \* what the registry or the table returned
        todo  : SUBSET RunIds,   \* pulled runs not stored yet
        clean : BOOLEAN]         \* no step was logged as a warning and skipped

NoJob == [cmd |-> None, cwd |-> None, dir |-> None, url |-> None, run |-> None,
          got |-> {}, todo |-> {}, clean |-> TRUE]

Init ==
  /\ benDirs \in SUBSET Cwds
  /\ rows    = [d \in Dirs |-> {}]
  /\ kv      = [d \in Dirs |-> {}]
  /\ index   = [d \in Dirs |-> [r \in RunIds |-> "absent"]]
  /\ remote  = [u \in Registries |-> {}]
  /\ used    = {}
  /\ faults  = 0
  /\ pc      = [p \in Procs |-> "idle"]
  /\ job     = [p \in Procs |-> NoJob]

\* The data directory of every command but pull: .ben if it exists here.
ResolveDataDir(c) == IF c \in benDirs THEN c ELSE Global

-----------------------------------------------------------------------------
(* Process control. *)

GoTo(p, step) == pc' = [pc EXCEPT ![p] = step]

\* A process that ends other than with exit 0 leaves nothing behind to speak of.
EndWith(p, status) ==
  /\ GoTo(p, status)
  /\ IF status = "ok" THEN UNCHANGED job ELSE job' = [job EXCEPT ![p] = NoJob]

Fault == faults < MaxFaults /\ faults' = faults + 1

Start(p, cmd, c, r, u) ==
  /\ cmd \in Commands
  /\ pc[p] \in Ended
  /\ GoTo(p, "open")
  /\ job' = [job EXCEPT ![p] = [NoJob EXCEPT !.cmd = cmd, !.cwd = c,
                                             !.run = r, !.url = u]]

-----------------------------------------------------------------------------
(* Commands.  What `ben run` does before it stores is module Pipeline's.   *)

ReusedId(r) == r \in RunIds  \* mutated: an id can come again
FreshId(r)  == r \in RunIds \ used

\* A run has finished its candidates, has its id and comes to its persist phase.
StartRun(p, c, r) ==
  /\ FreshId(r)
  /\ used' = used \cup {r}
  /\ Start(p, "run", c, r, None)
  /\ UNCHANGED <<benDirs, db, remote, faults>>

StartPush(p, c, r, u) ==
  /\ Start(p, "push", c, r, u)
  /\ UNCHANGED <<benDirs, db, remote, used, faults>>

StartPull(p, c, u) ==
  /\ Start(p, "pull", c, None, u)
  /\ UNCHANGED <<benDirs, db, remote, used, faults>>

StartShow(p, c, r) ==
  /\ Start(p, "show", c, r, None)
  /\ UNCHANGED <<benDirs, db, remote, used, faults>>

StartList(p, c) ==
  /\ Start(p, "list", c, None, None)
  /\ UNCHANGED <<benDirs, db, remote, used, faults>>

FirstStep(cmd) == CASE cmd = "run"  -> "insert"
                    [] cmd = "push" -> "get"
                    [] cmd = "show" -> "get"
                    [] cmd = "pull" -> "fetch"
                    [] cmd = "list" -> "list"

CommandDirPush(p) ==  \* mutated: push asks xdg too
  IF job[p].cmd \in {"push", "pull"} THEN Global ELSE ResolveDataDir(job[p].cwd)

\* Pull asks xdg for the directory; the others prefer .ben as it is now.
CommandDir(p) == IF job[p].cmd = "pull" THEN Global ELSE ResolveDataDir(job[p].cwd)

Open(p) ==
  /\ pc[p] = "open"
  /\ GoTo(p, FirstStep(job[p].cmd))
  /\ job' = [job EXCEPT ![p].dir = CommandDir(p)]
  /\ UNCHANGED <<benDirs, db, remote, used, faults>>

-----------------------------------------------------------------------------
(* Store.Save and Store.IndexRun, called by run and by pull.               *)

InsertRow(p) ==
  /\ pc[p] = "insert"
  /\ rows' = [rows EXCEPT ![job[p].dir] = @ \cup {job[p].run}]
  /\ GoTo(p, "put")
  /\ UNCHANGED <<benDirs, kv, index, remote, used, faults, job>>

PutKv(p) ==
  /\ pc[p] = "put"
  /\ kv' = [kv EXCEPT ![job[p].dir] = @ \cup {job[p].run}]
  /\ GoTo(p, "index")
  /\ UNCHANGED <<benDirs, rows, index, remote, used, faults, job>>

AfterIndex(cmd) == IF cmd = "run" THEN "report" ELSE "next"

ConflictResets(entry) == "local"  \* mutated: ON CONFLICT DO UPDATE

\* The index entry after the insert: nothing is done on a conflict.
OnConflict(entry) == IF entry = "absent" THEN "local" ELSE entry

RemainingAll(p) == job[p].todo  \* mutated: the loop does not advance
Remaining(p)    == job[p].todo \ {job[p].run}

IndexRun(p) ==
  /\ pc[p] = "index"
  /\ index' = [index EXCEPT ![job[p].dir][job[p].run] = OnConflict(@)]
  /\ GoTo(p, AfterIndex(job[p].cmd))
  /\ job' = [job EXCEPT ![p].todo = Remaining(p)]
  /\ UNCHANGED <<benDirs, rows, kv, remote, used, faults>>

ContinueSave(step) == IF step = "insert" THEN "put" ELSE "index"  \* mutated
GiveUpSave(step)   == "index"

SilentWarning(p) == UNCHANGED job  \* mutated: the error is dropped
Warn(p)          == job' = [job EXCEPT ![p].clean = FALSE]

SkipPulled(p) == GoTo(p, "next") /\ job' = [job EXCEPT ![p].todo = Remaining(p)]  \* mutated
StopPull(p)   == EndWith(p, "error")

\* Save fails at its marshalling, its INSERT or its Put.  Run warns and goes on
\* to index what it did not save; pull stops.
SaveFails(p) ==
  /\ pc[p] \in {"insert", "put"}
  /\ Fault
  /\ \/ job[p].cmd = "run" /\ GoTo(p, GiveUpSave(pc[p])) /\ Warn(p)
     \/ job[p].cmd = "pull" /\ StopPull(p)
  /\ UNCHANGED <<benDirs, db, remote, used>>

IndexFails(p) ==
  /\ pc[p] = "index"
  /\ Fault
  /\ \/ job[p].cmd = "run" /\ GoTo(p, "report") /\ Warn(p)
     \/ job[p].cmd = "pull" /\ StopPull(p)
  /\ UNCHANGED <<benDirs, db, remote, used>>

Report(p) ==
  /\ pc[p] = "report"
  /\ EndWith(p, "ok")
  /\ UNCHANGED <<benDirs, db, remote, used, faults>>

-----------------------------------------------------------------------------
(* Reading back: Store.Get for show and push, Store.List for list.         *)

MarkBeforePost(cmd) == IF cmd = "push" THEN "mark" ELSE "ok"  \* mutated
AfterGet(cmd)       == IF cmd = "push" THEN "post" ELSE "ok"

Get(p) ==
  /\ pc[p] = "get"
  /\ \/ /\ job[p].run \in kv[job[p].dir]
        /\ GoTo(p, AfterGet(job[p].cmd))
        /\ UNCHANGED job
     \/ /\ job[p].run \notin kv[job[p].dir]
        /\ EndWith(p, "norun")
  /\ UNCHANGED <<benDirs, db, remote, used, faults>>

List(p) ==
  /\ pc[p] = "list"
  /\ GoTo(p, "ok")
  /\ job' = [job EXCEPT ![p].got = rows[job[p].dir]]
  /\ UNCHANGED <<benDirs, db, remote, used, faults>>

-----------------------------------------------------------------------------
(* Push: RemoteClient.Push, then Store.MarkPushed.                         *)

\* The registry takes the POST.
ServerStores(p) ==
  /\ pc[p] = "post"
  /\ remote' = [remote EXCEPT ![job[p].url] = @ \cup {job[p].run}]
  /\ GoTo(p, "reply")
  /\ UNCHANGED <<benDirs, db, used, faults, job>>

\* Its answer, a 2xx with a non-empty id, reaches the client.
ReplyArrives(p) ==
  /\ pc[p] = "reply"
  /\ GoTo(p, "mark")
  /\ UNCHANGED <<benDirs, db, remote, used, faults, job>>

EmptyId(u)  == None  \* mutated: an answer without an id is accepted
RemoteId(u) == u

UncheckedUpdate(entry) == "ok"  \* mutated: RowsAffected is not looked at

\* An UPDATE that touches no row is an error.
UpdateStatus(entry) == IF entry = "absent" THEN "error" ELSE "ok"

MarkPushed(p) ==
  /\ pc[p] = "mark"
  /\ index' = [index EXCEPT ![job[p].dir][job[p].run] =
                 IF @ = "absent" THEN @ ELSE RemoteId(job[p].url)]
  /\ EndWith(p, UpdateStatus(index[job[p].dir][job[p].run]))
  /\ UNCHANGED <<benDirs, rows, kv, remote, used, faults>>

-----------------------------------------------------------------------------
(* Pull: RemoteClient.Pull, then Save and IndexRun of each run in turn.    *)

\* The suite filter and the limit of 100 let the registry return any part of
\* what it holds.
Fetch(p) ==
  /\ pc[p] = "fetch"
  /\ \E S \in SUBSET remote[job[p].url] :
       job' = [job EXCEPT ![p].got = S, ![p].todo = S]
  /\ GoTo(p, "next")
  /\ UNCHANGED <<benDirs, db, remote, used, faults>>

NextPulled(p) ==
  /\ pc[p] = "next"
  /\ \/ /\ job[p].todo = {}
        /\ EndWith(p, "ok")
     \/ \E r \in job[p].todo :
          /\ job' = [job EXCEPT ![p].run = r]
          /\ GoTo(p, "insert")
  /\ UNCHANGED <<benDirs, db, remote, used, faults>>

-----------------------------------------------------------------------------
(* Failures, and what happens around ben.                                  *)

\* A step whose error ends the process with exit 1.  A POST that fails here was
\* refused by the registry ("post") or its answer was lost, not decodable or
\* without an id ("reply"): the registry holds the run all the same.
StepFails(p) ==
  /\ pc[p] \in {"open", "get", "list", "fetch", "post", "reply", "mark", "report"}
  /\ Fault
  /\ EndWith(p, "error")
  /\ UNCHANGED <<benDirs, db, remote, used>>

\* The process is killed.  Statements already executed are durable.
Crash(p) ==
  /\ pc[p] \notin Ended
  /\ Fault
  /\ EndWith(p, "idle")
  /\ UNCHANGED <<benDirs, db, remote, used>>

\* A user starts a project-local store.
MakeBenDir(c) ==
  /\ c \notin benDirs
  /\ benDirs' = benDirs \cup {c}
  /\ UNCHANGED <<db, remote, used, faults, pc, job>>

\* Another machine publishes a run of its own.
OtherPublishes(u, r) ==
  /\ FreshId(r)
  /\ used' = used \cup {r}
  /\ remote' = [remote EXCEPT ![u] = @ \cup {r}]
  /\ UNCHANGED <<benDirs, db, faults, pc, job>>

-----------------------------------------------------------------------------
Invoke(p) ==
  \E c \in Cwds :
    \/ StartList(p, c)
    \/ \E r \in RunIds : StartRun(p, c, r) \/ StartShow(p, c, r)
    \/ \E u \in Registries : StartPull(p, c, u)
    \/ \E r \in RunIds, u \in Registries : StartPush(p, c, r, u)

\* The steps a live process takes when nothing goes wrong.
Work(p) ==
  \/ Open(p)
  \/ InsertRow(p) \/ PutKv(p) \/ IndexRun(p) \/ Report(p)
  \/ Get(p) \/ List(p)
  \/ ServerStores(p) \/ ReplyArrives(p) \/ MarkPushed(p)
  \/ Fetch(p) \/ NextPulled(p)

GoesWrong(p) == SaveFails(p) \/ IndexFails(p) \/ StepFails(p) \/ Crash(p)

Environment ==
  \/ \E c \in Cwds : MakeBenDir(c)
  \/ \E u \in Registries, r \in RunIds : OtherPublishes(u, r)

Next == (\E p \in Procs : Invoke(p) \/ Work(p) \/ GoesWrong(p)) \/ Environment

Spec == Init /\ [][Next]_vars
-----------------------------------------------------------------------------
(* Safety. *)

\* Type invariant: the tables hold run ids, an index entry is "absent", "local"
\* or a registry that gave an id, and every process is at a step of its command.
TypeOK ==
  /\ benDirs \subseteq Cwds
  /\ rows   \in [Dirs -> SUBSET RunIds]
  /\ kv     \in [Dirs -> SUBSET RunIds]
  /\ index  \in [Dirs -> [RunIds -> {"absent", "local"} \cup Registries]]
  /\ remote \in [Registries -> SUBSET RunIds]
  /\ used \subseteq RunIds
  /\ faults \in 0..MaxFaults
  /\ pc  \in [Procs -> Ended \cup Steps]
  /\ job \in [Procs -> Job]

\* What `ben show` finds, `ben list` lists: Save writes the row before the kv
\* entry and gives up after the first statement that fails (storage.go:72-88),
\* whoever is killed in between and whoever else writes the same file.
ShownIsListed == \A d \in Dirs : kv[d] \subseteq rows[d]

\* A run marked as pushed to a registry is held by that registry, and the store
\* that says so still has the run: MarkPushed comes after the registry's answer,
\* which comes after a successful Get of the same directory (registry.go:96-111).
MarkIsTruthful ==
  \A d \in Dirs, r \in RunIds :
    index[d][r] \in Registries => r \in kv[d] /\ r \in remote[index[d][r]]

\* Pulling, re-saving or re-indexing a pushed run never forgets that it was
\* pushed: IndexRun does nothing on a conflict (storage.go:151).
MarkNeverLost ==
  [][\A d \in Dirs, r \in RunIds :
       index[d][r] \in Registries => index'[d][r] \in Registries]_vars

\* `ben registry push` that exits 0 has uploaded its run and recorded it in the
\* store it read it from, whatever other processes did in the meantime.
PushOkIsMarked ==
  \A p \in Procs :
    pc[p] = "ok" /\ job[p].cmd = "push" =>
      /\ job[p].run \in remote[job[p].url]
      /\ index[job[p].dir][job[p].run] \in Registries

\* run r is in all three tables of directory d
Stored(d, r) == r \in rows[d] /\ r \in kv[d] /\ index[d][r] # "absent"

\* `ben registry pull` that exits 0 has stored and indexed everything the
\* registry sent: the loop stops at the first error (registry.go:144-151).
PullOkIsComplete ==
  \A p \in Procs :
    pc[p] = "ok" /\ job[p].cmd = "pull" => \A r \in job[p].got : Stored(Global, r)

\* `ben run` that exits 0 without a storage warning has stored and indexed its
\* run in the directory it chose (run.go:307-327).
CleanRunIsStored ==
  \A p \in Procs :
    pc[p] = "ok" /\ job[p].cmd = "run" /\ job[p].clean =>
      Stored(job[p].dir, job[p].run)

Ledger == INSTANCE RunLedger
            WITH listed <- rows, shown <- kv, mark <- index, published <- remote

\* The store implements the ledger.  In particular a run id enters a project's
\* store only by being new, and any other store but the global one never; and a
\* registry holds nothing that no store can show and no other machine published.
LedgerSpec == Ledger!Spec

-----------------------------------------------------------------------------
(* What the documents say and the code does not do. *)

\* US-BEN-0108 line 62: a failed local write ends the run with exit 1, so exit 0
\* means the run can be listed and shown.
RunOkIsStored ==
  \A p \in Procs :
    pc[p] = "ok" /\ job[p].cmd = "run" =>
      job[p].run \in rows[job[p].dir] \cap kv[job[p].dir]

\* main.go:249 tells the user of a pull "Use `ben list` to see what was pulled."
PulledIsListed ==
  \A p \in Procs :
    pc[p] = "ok" /\ job[p].cmd = "pull" =>
      job[p].got \subseteq rows[ResolveDataDir(job[p].cwd)]

-----------------------------------------------------------------------------
(* Liveness.  The scheduler keeps a live process going and SQLite answers;  *)
(* nothing makes a registry answer, for the HTTP client has no timeout of   *)
(* its own (remote.go:25).  Faults are finitely many.                       *)

\* the steps at which a command waits for a registry
Waiting == {"post", "reply", "fetch"}

OwnWork(p)  == pc[p] \notin Waiting /\ Work(p)
Answered(p) == pc[p] \in Waiting /\ Work(p)

Fairness == \A p \in Procs : WF_vars(OwnWork(p))

FairSpec == Spec /\ Fairness

\* Under fairness of the commands' own steps alone, a command that starts ends, with
\* success, with an error or by being killed, or it waits for a registry: the lack of
\* a timeout (remote.go:25) can hang a push or a pull there and nowhere else, whatever
\* failed on the way, and never a command that does not talk to a registry.
EndsOrAwaitsRegistry == \A p \in Procs : pc[p] \notin Ended ~> pc[p] \in Ended \cup Waiting

\* The registries answer, and the users keep retrying the push of each run from each
\* working directory.
AnsweredAndRetried ==
  /\ \A p \in Procs : WF_vars(Answered(p))
  /\ \A c \in Cwds, r \in RunIds :
       SF_vars(\E p \in Procs, u \in Registries : StartPush(p, c, r, u))

\* registry.go:36-41, "retries are safe": where registries answer and users retry, a
\* run that is stored and indexed where its user works ends up marked as pushed
\* there, whatever failed, was killed or got lost on the way, unless the user moves
\* to another store.
RetriedPushIsMarked ==
  AnsweredAndRetried =>
    \A c \in Cwds, d \in Dirs, r \in RunIds :
      (ResolveDataDir(c) = d /\ r \in kv[d] /\ index[d][r] = "local")
        ~> (index[d][r] \in Registries \/ ResolveDataDir(c) # d)
=============================================================================
