CONSTANTS
  maxRestarts = 3
  restartWindow = 5
  restartDelay = 1
SPECIFICATION BgSpec
INVARIANTS RestartFindsStopped
CHECK_DEADLOCK FALSE
