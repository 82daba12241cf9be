CONSTANTS
  Budget = 14
  Target = 12
  Fixed = 2
  ResultLimit = 3
  LongResult = 2
  MaxBlocks = 2
  MaxIterations = 2
  Windows = {4, 20}
  Policies = {"unique", "restart", "same"}
SPECIFICATION Spec
INVARIANTS RequestInv WireLegal PromptSeen
PROPERTY CompactionStable
CHECK_DEADLOCK FALSE
