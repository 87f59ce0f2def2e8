SPECIFICATION Spec
CONSTANTS
  MetricNames <- MCMetricNames
  Builtins <- MCBuiltins
  Values <- MCValues
  ExitCodes <- MCExitCodes
  PluginMetrics <- MCPluginMetrics
  Unit = 2
  Invocations <- MCInvocations
  PluginConfigs <- MCPluginConfigs
  MaxRepeat = 2
  MaxTroubles = 2
  None = None
CHECK_DEADLOCK FALSE
INVARIANT MetricsMatchTrials
