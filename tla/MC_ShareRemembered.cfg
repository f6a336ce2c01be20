CONSTANTS
  Browsers = {b1, b2}
  UserIDs = {u1, u2}
  Passwords = {p1}
  MaxRequests = 4
  NoUser = NoUser
  NoHolder = NoHolder
SPECIFICATION AccessSpec
INVARIANT ShareRemembered
CHECK_DEADLOCK FALSE
