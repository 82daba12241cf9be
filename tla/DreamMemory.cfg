CONSTANTS
  cronDream = cronDream  userDream = userDream
  Note = Note
  Dreamer = {cronDream, userDream}
  LongEntry = {2}
  BatchSize = 2
  MaxHistory = 2
  MaxEntries = 4
  MaxRuns = 3
  MaxRestores = 2
  MaxFaults = 3
  MaxEvents = 5
SPECIFICATION Spec
INVARIANTS JournalInv Considered EditsRecoverable
SYMMETRY Dreamers
CHECK_DEADLOCK FALSE
