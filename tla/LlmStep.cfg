CONSTANTS
  Steps = {s1}
  MaximumAttempts = 3
  PoolSize = 2
  Firsts <- AnyFirst
  Seconds <- FixedOrNot
SPECIFICATION FairSpec
CHECK_DEADLOCK FALSE
INVARIANTS TypeOK LedgerHonest ResultRecorded OnlyConforming
PROPERTIES EveryAttemptEnds
