CONSTANTS
  Fallbacks = 2
  Threshold = 2
  Retries = 1
  SameErrors = 2
  MaxIterations = 2
  MaxEmpties = 2
  MaxLengths = 1
  MaxCycles = 1
  MaxFollowUps = 1
SPECIFICATION Spec
INVARIANTS RunInv OneAttemptPerSegment StreamShowsAnswer FollowUpsRead
CHECK_DEADLOCK FALSE
