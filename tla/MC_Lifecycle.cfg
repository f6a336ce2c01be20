CONSTANTS
  maxRestarts = 3
  restartWindow = 5
  restartDelay = 1
  Backends = {b1}
  NoBackend = NoBackend
  FailureThreshold = 2
  MaxRetries = 2
  InitialBackoff = 1
  MaxBackoff = 3
  Multiplier = 2
  MaxClock = 3
  MaxChanges = 2
  Servers = {s1, s2}
  SettingKeys = {k1, k2}
  NoKey = NoKey
  NoRow = NoRow
  Plain = Plain
  Default = Default
  MaxKeys = 3
  MaxCrashes = 2
  MaxEdits = 2
  MaxFailures = 1
  MaxEvents = 2
SPECIFICATION LifeSpec
CHECK_DEADLOCK FALSE
INVARIANTS RestartsAccounted  
PROPERTIES StopReachesWorker StopIsQuiet HealthSettles StartsEventually TasksSettle
