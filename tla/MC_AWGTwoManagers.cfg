CONSTANTS
  Managers = {http, background}
  Clients = {c1}
  NoClient = NoClient
  MaxIP = 2
  MaxErrors = 0
SPECIFICATION AWGSpec
INVARIANT RemoveIsFinal
