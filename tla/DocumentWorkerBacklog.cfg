SPECIFICATION Spec
CONSTANTS
  d1 = d1
  d2 = d2
  d3 = d3
  Docs <- MCDocs
  Size <- MCUnitSize
  Digital <- NoDocs
  Limit <- MCLimit
  PoolThreads = 2
  MaxDocumentBytes = 1
  MaxResident = 3
  QueueMaxSize = 1
  DbFaults = {}
INVARIANTS
  BacklogWithinQueueMaxSize
