CONSTANTS
  k1 = k1
  k2 = k2
  k3 = k3
  u1 = u1
  u2 = u2
  t1 = t1
  t2 = t2
  Peers = {k1, k2, k3}
  NoPeer = NoPeer
  startIP = 2
  endIP = 3
  Users = {u1, u2}
  Owner <- MCOwner
  Tunnels = {t1, t2}
  NoTunnel = NoTunnel
  MaxSessionID = 3
  MaxDbErrors = 1
  Capacities <- MCCapacities
  MaxEvents = 2
SPECIFICATION BudgetSpec
SYMMETRY Symmetry
INVARIANTS ServiceConsistent RouteDelivers
PROPERTIES CapacityRespected DisconnectCompletes
