SPECIFICATION FairSpec
CONSTANTS
  Procs = {p1, p2}
  RunIds = {r1}
  Cwds = {c1}
  Global = global
  Registries = {u1, u2}
  Commands = {"run", "push", "pull"}
  MaxFaults = 1
  None = none
PROPERTY EndsOrAwaitsRegistry
PROPERTY RetriedPushIsMarked
