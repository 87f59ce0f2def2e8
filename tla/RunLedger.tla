----------------------------- MODULE RunLedger -----------------------------
(***************************************************************************)
(* What the run store promises, with no processes, failures or commands in *)
(* it: how far each run has come in each data directory and registry.  In  *)
(* a directory a run goes from unknown to listed to shown; a run id enters *)
(* a directory because it is new or, in the global directory, because a    *)
(* registry published it.  BenStore implements this specification.         *)
(***************************************************************************)
CONSTANTS RunIds, Dirs, Global, Registries

VARIABLES
  listed,    \* listed[d]: runs that `ben list` reads in directory d
  shown,     \* shown[d]: runs that `ben show` finds in d
  mark,      \* mark[d][r]: "absent", "local" or the registry r was pushed to
  published  \* published[u]: runs that registry u holds

vars == <<listed, shown, mark, published>>

Init ==
  /\ listed    = [d \in Dirs |-> {}]
  /\ shown     = [d \in Dirs |-> {}]
  /\ mark      = [d \in Dirs |-> [r \in RunIds |-> "absent"]]
  /\ published = [u \in Registries |-> {}]

\* No store and no registry has heard of run r.
IsNew(r) ==
  /\ \A d \in Dirs : r \notin listed[d]
  /\ \A u \in Registries : r \notin published[u]

Enter(d, r) ==
  /\ IsNew(r) \/ (d = Global /\ \E u \in Registries : r \in published[u])
  /\ listed' = [listed EXCEPT ![d] = @ \cup {r}]
  /\ UNCHANGED <<shown, mark, published>>

Complete(d, r) ==
  /\ r \in listed[d]
  /\ shown' = [shown EXCEPT ![d] = @ \cup {r}]
  /\ UNCHANGED <<listed, mark, published>>

Register(d, r) ==
  /\ mark[d][r] = "absent"
  /\ mark' = [mark EXCEPT ![d][r] = "local"]
  /\ UNCHANGED <<listed, shown, published>>

\* A registry receives a run from a store that can show it, or a new one from a
\* machine that is not described here.
Publish(u, r) ==
  /\ IsNew(r) \/ \E d \in Dirs : r \in shown[d]
  /\ published' = [published EXCEPT ![u] = @ \cup {r}]
  /\ UNCHANGED <<listed, shown, mark>>

MarkPublished(d, r, u) ==
  /\ r \in shown[d] /\ r \in published[u]
  /\ mark[d][r] # "absent"
  /\ mark' = [mark EXCEPT ![d][r] = u]
  /\ UNCHANGED <<listed, shown, published>>

Next ==
  \E r \in RunIds :
    \/ \E d \in Dirs : Enter(d, r) \/ Complete(d, r) \/ Register(d, r)
    \/ \E u \in Registries : Publish(u, r)
    \/ \E d \in Dirs, u \in Registries : MarkPublished(d, r, u)

Spec == Init /\ [][Next]_vars
=============================================================================
