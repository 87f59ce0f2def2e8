SPECIFICATION Spec
CONSTANTS
  Scenarios <- MCScenarios
  Keys <- MCKeys
  ConfigTexts <- MCConfigTexts
  SuiteTexts <- MCSuiteTexts
  MaxFiles = 2
  Broken = Broken
  None = None
CHECK_DEADLOCK FALSE
INVARIANT ProjectSuiteWins
