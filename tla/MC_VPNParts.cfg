CONSTANTS
  k1 = k1
  k2 = k2
  u1 = u1
  u2 = u2
  t1 = t1
  t2 = t2
  f1 = f1
  f2 = f2
  Peers = {k1, k2}
  NoPeer = NoPeer
  startIP = 2
  endIP = 3
  Users = {u1, u2}
  Owner <- MCOwner
  Tunnels = {t1, t2}
  NoTunnel = NoTunnel
  MaxSessionID = 3
  MaxDbErrors = 1
  FwdPeers = {f1, f2}
  FwdIPs = {i1}
  FwdBackends = {b1}
  Devices = {d1}
  BufSize = 1
  Rates = {0, 1}
  MaxRoutes = 2
  MaxPackets = 2
  MaxSeconds = 1
  MaxCalls = 5
  TunnelIDs = {1, 2, 3}
  SessionPeers = {1, 2, 3, 4}
  MaxPasses = 2
  MaxWrites = 1
  Managers = {http}
  Clients = {c1, c2, c3}
  NoClient = NoClient
  MaxIP = 2
  MaxErrors = 1
SPECIFICATION PartsSpec
SYMMETRY PartsSymmetry
CHECK_DEADLOCK FALSE
INVARIANTS SessionsConsistent PacketsKeepRoutes PassesComplete RemoveIsFinal FilesConsistent
