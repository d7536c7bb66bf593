\* Two queries after each other, so that batches of the first may come during the
\* second; up to two batches of two records, and two pollers for them.
CONSTANTS
  MaxQueries = 2
  Workers = {w1}
  Pollers = {p1, p2}
  MaxFiles = 3
  BatchSize = 2
  MaxLost = 1
  MaxFailed = 1
  None = None
SPECIFICATION FairSpec
CHECK_DEADLOCK FALSE
INVARIANTS
  TypeOK
  FinishedIsWhole
  UnfinishedIsUnderway
PROPERTIES
  ImplementsService
  NoWakeupLost
  WaitersReturn
