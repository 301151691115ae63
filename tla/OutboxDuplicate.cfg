CONSTANTS
  r1 = r1
  r2 = r2
  r3 = r3
  s1 = s1
  s2 = s2
  Rows <- OneRow
  RowType <- OneEmail
  Senders <- Single
  BATCH_SIZE = 1
  BACKOFF_SCHEDULE <- Schedule
  PROCESSING_TIMEOUT = 1
  MaxAttempts = 2
  PayloadDecoded = TRUE
  AckCanBeLost = FALSE
  PromptSenders = FALSE
  MaxOverdue = 1
  MaxFaults = 1
  MaxStops = 0
SPECIFICATION Spec
INVARIANTS NoDuplicateSend
