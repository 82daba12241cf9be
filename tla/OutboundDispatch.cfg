CONSTANTS
  s1 = s1
  c1 = c1
  hello = hello
  bye = bye
  Session = {s1}
  Chat = {c1}
  Home <- OneHome
  Style = {"telegram", "matrix", "mattermost", "weixin"}
  Texts = {hello, bye}
  NoText = NoText
  Blank = {2}
  MaxAttempts = 2
  MaxTurns = 1
  MaxSegments = 2
  MaxChunks = 3
  MaxExtras = 1
  MaxPublished = 5
  MaxFaults = 2
SPECIFICATION Spec
INVARIANTS ScreenInv
PROPERTIES ImplementsFifo NothingTakenBack AllHandled
CHECK_DEADLOCK FALSE
