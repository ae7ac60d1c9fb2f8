SPECIFICATION FairSpec
CONSTANTS
  Accounts = {1, 2}
  Keys = {k1}
  Amounts = {1}
  Deposits = {2}
  Workers = {w1}
  Requests = {r1}
  LockIds = {}
  NoOne = NoOne
  NoKey = NoKey
  NoPayload = NoPayload
  NoAccount = NoAccount
  MaxAttempts = 5
  MaxStalls = 1
  LiveStalls = FALSE
PROPERTIES
  AcceptedTransfersSettle
CHECK_DEADLOCK FALSE
