CONSTANTS
  r1 = r1
  r2 = r2
  r3 = r3
  s1 = s1
  s2 = s2
  Rows <- OneRow
  RowType <- OneEmail
  Senders <- Single
  BATCH_SIZE = 1
  BACKOFF_SCHEDULE <- Schedule
  PROCESSING_TIMEOUT = 1
  MaxAttempts = 2
  PayloadDecoded = FALSE
  AckCanBeLost = FALSE
  PromptSenders = FALSE
  MaxOverdue = 1
  MaxFaults = 0
  MaxStops = 0
SPECIFICATION FairSpec
PROPERTIES EventuallyDispatched
