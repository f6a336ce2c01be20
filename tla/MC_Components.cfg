CONSTANTS
  Peers = {p1, p2, p3}
  NoPeer = NoPeer
  startIP = 2
  endIP = 3
  Width = 5
  h1 = h1
  Targets = {s1}
  Callers = {g1, g2}
  HostKeys = {h1, h2}
  Offered0 = {h1}
  MaxDials = 2
  NoKey = NoKey
  NoDial = NoDial
  Known0 <- MCKnown0
  Browsers = {b1, b2}
  UserIDs = {u1, u2}
  Passwords = {w1}
  MaxRequests = 3
  NoUser = NoUser
  NoHolder = NoHolder
  Machines = {m1, m2}
  Accounts = {a1, a2}
  Names = {n1}
  Conns = {x1}
  Linked = {a2}
  Secrets = {z1}
  NoSecret = NoSecret
  Mask = Mask
  MaxID = 3
  MaxOps = 5
  MaxFaults = 1
  Cost = 3
  Refills = 2
  BurstSize = 2
  EntryTTL = 3
  NoBucket = NoBucket
  MaxTicks = 9
  MaxHits = 4
  t1 = t1
  t2 = t2
  t3 = t3
  Tunnels = {t1, t2, t3}
  WeightMaps <- MCWeightMaps
  DefaultWeight = 100
  MaxPeersPerBackend = 3
  MaxTotalPeers = 5
  MaxTurns = 6
  MaxFlaps = 2
SPECIFICATION PartSpec
SYMMETRY CallerSymmetry
CHECK_DEADLOCK FALSE
INVARIANTS LeasesExact RangeInsideSubnet ClientsAccountedFor PasswordChangedFirst   RateLimitKept BalancersFair
PROPERTIES ImplementsLeaseTable  OneSetup
