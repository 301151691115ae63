CONSTANTS
  r1 = r1
  r2 = r2
  r3 = r3
  s1 = s1
  s2 = s2
  Rows <- OneRow
  RowType <- OneCrm
  Senders <- Pair
  BATCH_SIZE = 1
  BACKOFF_SCHEDULE <- Schedule
  PROCESSING_TIMEOUT = 1
  MaxAttempts = 3
  PayloadDecoded = TRUE
  AckCanBeLost = TRUE
  PromptSenders = TRUE
  MaxOverdue = 1
  MaxFaults = 1
  MaxStops = 0
SPECIFICATION FairSpec
INVARIANTS GivenUpWasTried
PROPERTIES DeliveryContract EventuallySettled
