SPECIFICATION Spec
CONSTANTS
  Runs <- MCRuns
  GateFlags <- MCGateFlags
  NaN = NaN
  NoNumber = NoNumber
  None = None
CHECK_DEADLOCK FALSE
INVARIANTS TypeOK FailsClosed RegressionIsShown SelfCompareIsClean GateComposes
