SPECIFICATION FairTelemetrySpec
CONSTANTS
  Members = {m1, m2}
  NoMember = NoMember
  Spots = {"depot", "street"}
  Logs <- WedgeLogs
  MaxFaults <- NoFault
  LowFuelPct = 20
  SpeedLimit = 90
  Cooldown = 3
  Cutoffs = {0, 2}
  Geofences = {{"depot"}}
  MaxTime = 5
PROPERTY
  NoPartitionIsWedged
CHECK_DEADLOCK FALSE
