SPECIFICATION Spec
CONSTANTS
  d1 = d1
  d2 = d2
  d3 = d3
  Docs <- MCDocs
  Size <- MCSize
  Digital <- MCDigital
  Limit <- MCLimit
  PoolThreads = 2
  MaxDocumentBytes = 2
  MaxResident = 3
  QueueMaxSize = 1
  DbFaults = {"skipped", "raised"}
INVARIANTS
  TypeOK
  Accounting
  BudgetHonoured
  NothingStranded
PROPERTIES
  ImplementsLifecycle
