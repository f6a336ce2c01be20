SPECIFICATION TrafficSpec
CONSTANTS
  u1 = u1
  u2 = u2
  r1 = r1
  r2 = r2
  p1 = p1
  Users = {u1, u2}
  Conns = {r1, r2, p1}
  Portal = {p1}
  Remote = {r1, r2}
  Owner <- MCOwner
  Limit <- MCLimit
  Expiry <- MCExpiry
  DaysPerWeek = 2
  DaysPerMonth = 1
  MaxDay = 1
  MaxBytes = 1
  Scenarios <- MCScenarios
  None = None
INVARIANTS  ResetKeepsThisCycle StopLosesNothing
PROPERTIES BoardsKept LimitsAreEnforced
