CONSTANTS
  MaximumAttempts = 2
  Policies <- Allow
  MaxZombies = 1
SPECIFICATION FairSpec
CHECK_DEADLOCK FALSE
INVARIANTS TypeOK RowMatchesResult EmailNeedsApproval CancelledLeavesNothing CompletedDidAll CancelBeatsReview EffectsInOrder
PROPERTIES LateEffectsAreItsOwn EventuallyClosed
