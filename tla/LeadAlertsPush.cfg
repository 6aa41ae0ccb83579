SPECIFICATION FairSpec
CONSTANTS
  road = road
  clinic = clinic
  ana = ana
  dan = dan
  Leads <- MCLeads
  Users <- MCUsers
  Wanted <- MCWanted
  Batches <- MCPlainBatches
  MaxCopies = 1
  Faults = {"send"}
  MaxMishaps = 1
PROPERTIES
  OutageOnlyDelaysPush
