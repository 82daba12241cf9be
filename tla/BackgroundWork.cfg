CONSTANTS
  turn = turn  subA = subA
  s1 = s1
  NoSid = NoSid
  Caller = {turn, subA}
  Sid = {s1}
  MaxSessions = 1
  MaxChunks = 1
  Turn = turn
  MaxSubagents = 1
  MaxTurns = 2
  MaxStops = 1
SPECIFICATION Spec
INVARIANTS ExecInv AnswersKept
PROPERTY Settles
CHECK_DEADLOCK FALSE
