CONSTANTS
  often = often  once = once  late = late  sys = sys
  NoJob = NoJob
  Job = {once, late, sys}
  System = {sys}
  OneShot = {once, late}
  DeleteAfterRun = {late}
  Time <- MCTime
  MaxSleep = 2
  MaxTime = 3
  MaxRuns = 1
  Operations = {"list", "add", "remove", "edit", "external_add", "external_remove", "crash", "merge_crash"}
SPECIFICATION Spec
INVARIANTS ServiceInv
PROPERTY OccurrenceCompletesOnce
CHECK_DEADLOCK FALSE
