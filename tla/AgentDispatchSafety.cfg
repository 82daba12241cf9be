CONSTANTS
  s1 = s1  s2 = s2
  u1 = u1  u2 = u2  u3 = u3  v1 = v1  a1 = a1  a2 = a2
  st = st  rs = rs  d1 = d1  c1 = c1  ac1 = ac1
  NoMsg = NoMsg
  Kind <- MCKind
  Key <- MCKey
  Session = {s1, s2}
  Msg = {u1, u2, u3, c1, st, rs, v1}
  MaxConcurrent = 1
  QueueCap = 1
  InjectLimit = 1
  InjectCycles = 1
SPECIFICATION Spec
INVARIANTS OneTurnPerSession GateRespected RoutedToLockHolder NoMessageLost
CHECK_DEADLOCK FALSE
