SPECIFICATION Spec
CONSTANT None = None
INVARIANTS
  TypeOK
  MirrorsStripe
  CopiesNeedAReason
  HistoryAccountsForStage
  RemovalHolds
  PushesWereConsented
  FeedIsCurrent
  BuildsAreNeeded
  RetryIsEnough
  CompletedTicksAreHonest
  StaleDataAlertedOnce
  NothingSkippedSilently
  HealthyCountiesSurvive
  AnswersAreEarned
  AlertedLeadsAreFound
  StatisticsRestOnOutcomes
PROPERTY RowsLeaveForAReason
CHECK_DEADLOCK FALSE
