CONSTANTS
  k1 = k1
  k2 = k2
  k3 = k3
  u1 = u1
  u2 = u2
  t1 = t1
  t2 = t2
  Peers = {k1, k2}
  NoPeer = NoPeer
  startIP = 2
  endIP = 3
  Users = {u1}
  Owner <- MCOneOwner
  Tunnels = {t1, t2}
  NoTunnel = NoTunnel
  MaxSessionID = 2
  MaxDbErrors = 1
  Capacities <- MCUnlimited
  MaxEvents = 3
SPECIFICATION LiveSpec
PROPERTIES HandlersReturn UnauthorisedSessionsEnd
CHECK_DEADLOCK FALSE
