\* One query suffices: the answer comes before the thread waits for it.
CONSTANTS
  MaxQueries = 1
  Workers = {w1}
  Pollers = {p1}
  MaxFiles = 1
  BatchSize = 1
  MaxLost = 1
  MaxFailed = 1
  None = None
SPECIFICATION FairSpec
CHECK_DEADLOCK FALSE
PROPERTIES
  WaitsEnd
