CONSTANTS
  s1 = s1
  MaximumAttempts = 1
  Configs <- One
  MaxTouchpoint = 1
  MaxLate = 0
  Policies <- Allow
  MaxZombies = 0
  MaxApplied = 0
  Revisable = FALSE
  Senders <- Single
  BATCH_SIZE = 1
  BACKOFF_SCHEDULE <- AtOnce
  PROCESSING_TIMEOUT = 0
  MaxAttempts = 1
  PayloadDecoded = TRUE
  AckCanBeLost = FALSE
  PromptSenders = TRUE
  MaxOverdue = 0
  MaxFaults = 0
  MaxStops = 0
SPECIFICATION DeploymentSpec
INVARIANTS AskedOnlyIfApproved CancelledLeavesNoRow
PROPERTIES DeliversAsPromised
