CONSTANTS
  MaximumAttempts = 3
  Configs <- NoneOrTwo
  MaxTouchpoint = 3
  MaxLate = 2
SPECIFICATION ChainFairSpec
CHECK_DEADLOCK FALSE
INVARIANTS ChainTypeOK EmailsInOrder WithinConfigured CancelStopsChain CompletedPassedOn
PROPERTIES ChainEnds
