SPECIFICATION FairSpec
CONSTANTS
  p1 = p1
  p2 = p2
  c1 = c1
  Events = {1, 2}
  Malformed = {2}
  Consumers = {c1}
  Processes = {p1, p2}
  ConsumerOf <- TwoProcesses
  Dispatchers = {d1, d2}
  Operators = {o1}
  BatchLimit = 2
  MaxReplays = 1
  MaxFaults = 1
  MaxCrashes = 1
INVARIANTS PublishedOnce HandledOnce NothingIsLost
PROPERTIES EventsArrive
CHECK_DEADLOCK FALSE
