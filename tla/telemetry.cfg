SPECIFICATION FairTelemetrySpec
CONSTANTS
  Members = {m1, m2}
  NoMember = NoMember
  Spots = {"depot", "street"}
  Logs <- AllLogs
  MaxFaults <- SomeFaults
  LowFuelPct = 20
  SpeedLimit = 90
  Cooldown = 3
  Cutoffs = {0, 2}
  Geofences = {{"depot"}}
  MaxTime = 5
INVARIANTS
  TelemetryTypeOK
  CommittedIsStored
  VehiclesAgree
  NothingInvented
  AlertsMarkEpisodes
  LostAlertsAreFailures
  AlertCopiesAreRetries
PROPERTIES
  EveryMessageIsCommitted
CHECK_DEADLOCK FALSE
