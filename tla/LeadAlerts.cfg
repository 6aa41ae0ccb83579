SPECIFICATION Spec
CONSTANTS
  road = road
  clinic = clinic
  ana = ana
  dan = dan
  Leads <- MCLeads
  Users <- MCUsers
  Wanted <- MCWanted
  Batches <- MCBatches
  MaxCopies = 2
  Faults = {"skipped", "raised", "send", "stop"}
  MaxMishaps = 2
INVARIANTS
  TypeOK
  RepeatsNeedFaults
  LogIsTruthful
  NobodyForgotten
