CONSTANTS
  r1 = r1
  r2 = r2
  r3 = r3
  s1 = s1
  s2 = s2
  Rows <- ThreeRows
  RowType <- EmailAndUnknown
  Senders <- Single
  BATCH_SIZE = 2
  BACKOFF_SCHEDULE <- Schedule
  PROCESSING_TIMEOUT = 0
  MaxAttempts = 2
  PayloadDecoded = TRUE
  AckCanBeLost = FALSE
  PromptSenders = FALSE
  MaxOverdue = 0
  MaxFaults = 2
  MaxStops = 1
SPECIFICATION FairSpec
INVARIANTS TypeOK AttemptBudget StopIsClean
PROPERTIES AttemptsNeverRegress NeverBeforeDue DeliveryContractLive
