SPECIFICATION ReadsSpec
CONSTANTS
  Accounts = {1, 2}
  Keys = {k1, k2}
  Amounts = {1}
  Deposits = {1}
  Workers = {w1}
  Requests = {r1, r2}
  LockIds = {l1}
  NoOne = NoOne
  NoKey = NoKey
  NoPayload = NoPayload
  NoAccount = NoAccount
  MaxAttempts = 1
  MaxStalls = 0
  LiveStalls = FALSE
  Opening = Opening
  PageSize = 1
SYMMETRY Symmetry
INVARIANTS
  ReadsTypeOK
  WalksAreComplete
PROPERTIES
  LockedDetailStands
CHECK_DEADLOCK FALSE
