CONSTANTS
  Window = 2
  Suffix = 1
  FileCap = 3
  MaxRounds = 2
  MaxTurns = 2
  MaxSessionEvents = 4
SPECIFICATION CompactionSpec
INVARIANTS CompactionInv NothingLost FreshAfterNew
CHECK_DEADLOCK FALSE
