SPECIFICATION FairSpec
CONSTANTS
  Accounts = {1, 2}
  Keys = {k1, k2}
  Amounts = {1}
  Deposits = {1}
  Workers = {w1}
  Requests = {r1, r2}
  LockIds = {}
  NoOne = NoOne
  NoKey = NoKey
  NoPayload = NoPayload
  NoAccount = NoAccount
  MaxAttempts = 2
  MaxStalls = 1
  LiveStalls = TRUE
INVARIANTS
  MoneyConserved
PROPERTIES
  QueuedTransfersSettle
  CallsEnd
CHECK_DEADLOCK FALSE
