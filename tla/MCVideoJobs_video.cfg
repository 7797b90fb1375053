SPECIFICATION FairSpec
CONSTANTS
  RetryLimit = 2
  Prices = {1, 2}
  Budget = 4
  MaxFaults = 2
INVARIANTS OneProviderJob TaskTellsTheTruth SourceSurvives RecoveryIsComplete
PROPERTIES NoPaidWorkAfterCancel 
CHECK_DEADLOCK FALSE
