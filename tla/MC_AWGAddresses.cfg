CONSTANTS
  Managers = {http}
  Clients = {c1, c2}
  NoClient = NoClient
  MaxIP = 2
  MaxErrors = 0
SPECIFICATION AWGSpec
INVARIANT AddressesDistinct
