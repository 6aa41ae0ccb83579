SPECIFICATION FairSpec
CONSTANTS
  d1 = d1
  d2 = d2
  d3 = d3
  Docs <- MCDocs
  Size <- MCSize
  Digital <- MCDigital
  Limit <- MCLimit
  PoolThreads = 1
  MaxDocumentBytes = 2
  MaxResident = 3
  QueueMaxSize = 1
  DbFaults = {}
INVARIANTS
  FinishedIsRecorded
PROPERTIES
  VerdictFinal
  EveryUploadConcludes
