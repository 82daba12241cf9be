CONSTANTS
  often = often  once = once  late = late  sys = sys
  NoJob = NoJob
  Job = {often, once}
  System = {}
  OneShot = {once}
  DeleteAfterRun = {}
  Time <- MCTime
  MaxSleep = 2
  MaxTime = 2
  MaxRuns = 0
  Operations = {"add", "stop", "external_add", "external_edit", "merge_crash"}
SPECIFICATION FairSpec
PROPERTIES DueJobRuns ExternalSeen
CHECK_DEADLOCK FALSE
