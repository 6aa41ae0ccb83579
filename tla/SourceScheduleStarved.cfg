SPECIFICATION FairSpec
CONSTANTS
  county = county
  elicitatie = elicitatie
  seap = seap
  Declared <- MCDeclared
  Interval <- MCInterval
  Weight <- MCWeight
  MaxTickWeight = 6
  OpenAfter = 3
  Cooldown = 2
  StaleTicks = 2
  StaleTime = 6
  Flaky = {}
  Silent = {}
  Losers <- JustCounty
  DbFaults = {}
  MaxMishaps = 0
  AgeCap = 10
PROPERTIES
  EverySourceRuns
