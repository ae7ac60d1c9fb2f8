SPECIFICATION Spec
CONSTANTS
  Accounts = {1, 2}
  Keys = {k1, k2}
  Amounts = {1}
  Deposits = {1}
  Workers = {w1, w2}
  Requests = {r1, r2}
  LockIds = {l1}
  NoOne = NoOne
  NoKey = NoKey
  NoPayload = NoPayload
  NoAccount = NoAccount
  MaxAttempts = 2
  MaxStalls = 1
  LiveStalls = FALSE
SYMMETRY Symmetry
INVARIANTS
  TypeOK
  NoOverdraft
  ExactlyOnce
  BooksBalance
  OneRunPerTransfer
  AcceptedIsNeverForgotten
  OneCallCreates
  ExecutorsNeverDeadlock
PROPERTIES
  LockedBalanceStands
  SettledForGood
  ImplementsLedger
CHECK_DEADLOCK FALSE
