CONSTANTS
  MaximumAttempts = 1
  Configs <- One
  MaxTouchpoint = 1
  MaxLate = 0
  Policies <- Allow
  MaxZombies = 0
  MaxApplied = 1
  Revisable = FALSE
SPECIFICATION SystemFairSpec
CHECK_DEADLOCK FALSE
PROPERTIES EventuallyAtRest
