SPECIFICATION FairSpec
CONSTANTS
  county = county
  elicitatie = elicitatie
  seap = seap
  Declared <- MCDeclared
  Interval <- MCInterval
  Weight <- MCWeight
  MaxTickWeight = 6
  OpenAfter = 3
  Cooldown = 2
  StaleTicks = 2
  StaleTime = 6
  Flaky <- JustCounty
  Silent <- JustSeap
  Losers <- JustSeap
  DbFaults = {"skipped", "raised"}
  MaxMishaps = 2
  AgeCap = 14
INVARIANTS
  TypeOK
  LoadBounded
  NoShutOutBySingleFault
  OneStaleAlertPerStreak
  LatenessBounded
PROPERTIES
  EverySourceRuns
