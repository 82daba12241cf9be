CONSTANTS
  NoCheckpoint = NoCheckpoint
  MaxIterations = 2
  MaxCycles = 1
  FileCap = 5
  MaxRounds = 1
  MaxTurns = 3
  MaxFollowUps = 1
  MaxFaults = 2
SPECIFICATION Spec
INVARIANTS TypeOK HistoryLegal SeenIsDurable
PROPERTIES FileKeepsAll
CHECK_DEADLOCK FALSE
