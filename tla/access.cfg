SPECIFICATION AccessSpec
CONSTANTS
  Clients = {c1, c2}
  Mailboxes = {m1}
  Passwords = {p1, p2}
  Keys = {ka, kb}
  NoKey = NoKey
  NoUser = NoUser
  NoToken = NoToken
  NoCall = NoCall
  Ttl = 4
  Production = FALSE
  MaxTime = 4
  MaxExits = 2
  CacheMaxAge = 2
  Cooldown = 1
  FetchTimeout = 1
SYMMETRY Symmetry
INVARIANTS
  AccessTypeOK
PROPERTIES
  OwnersSignIn
  TrustRunsOut
  RotationHeals
CHECK_DEADLOCK FALSE
