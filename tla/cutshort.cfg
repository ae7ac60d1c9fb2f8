SPECIFICATION TelemetrySpec
CONSTANTS
  Members = {m1, m2}
  NoMember = NoMember
  Spots = {"depot", "street"}
  Logs <- CutLogs
  MaxFaults <- OneFault
  LowFuelPct = 20
  SpeedLimit = 90
  Cooldown = 3
  Cutoffs = {0, 2}
  Geofences = {{"depot"}}
  MaxTime = 5
INVARIANT
  NothingQuietlyLost
CHECK_DEADLOCK FALSE
