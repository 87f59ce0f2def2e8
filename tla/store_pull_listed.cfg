SPECIFICATION Spec
CONSTANTS
  Procs = {p1, p2}
  RunIds = {r1, r2}
  Cwds = {c1}
  Global = global
  Registries = {u1}
  Commands = {"run", "push", "pull", "show", "list"}
  MaxFaults = 2
  None = none
SYMMETRY Symmetry
INVARIANT PulledIsListed
