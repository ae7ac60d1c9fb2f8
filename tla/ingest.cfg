SPECIFICATION FairIngestSpec
CONSTANTS
  Conns = {c1, c2}
  NoConn = NoConn
  MaxRecords = 2
  MaxPacket = 2
  MaxFaults = 2
  MaxFrame = 12
  Garbage = {1, 7}
INVARIANTS
  IngestTypeOK
  AckedIsDurable
  CopiesAreRetries
  TopicsStayInOrder
  HealthyStreamsAreRead
PROPERTIES
  ImplementsInbox
  EveryRecordArrives
CHECK_DEADLOCK FALSE
