SPECIFICATION FairSpec
CONSTANTS
  Jobs = {job}
  Workers = {w1, w2}
  Dispatchers = {d1, d2}
  BatchLimit = 2
  MaxAttempts = 2
  MaxRetries = 1
  MaxWaits = 1
  MaxReplays = 1
  MaxCrashes = 1
  MaxFaults = 1
INVARIANTS OneHolder Carried RunsAreEarned
PROPERTIES TerminalIsFinal EveryJobSettles
CHECK_DEADLOCK FALSE
