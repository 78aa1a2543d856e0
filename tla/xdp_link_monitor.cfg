\* The monitor alone on an interface whose driver has native mode.
CONSTANTS
  Procs = {p1}
  Configs <- MonitorConfigs
  Native = TRUE
SPECIFICATION Spec
INVARIANT MonitorCleansUp
CHECK_DEADLOCK FALSE
