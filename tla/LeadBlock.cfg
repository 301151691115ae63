CONSTANTS
  MaximumAttempts = 2
  Policies <- AllowOrBlock
  MaxZombies = 0
SPECIFICATION Spec
CHECK_DEADLOCK FALSE
INVARIANTS BlockIsEnforced
