SPECIFICATION Spec
CONSTANTS
  s1 = s1  s2 = s2  e1 = e1  g1 = g1
  u1 = u1  u2 = u2  u3 = u3  c1 = c1  c2 = c2
  Requests = {s1}
  Convs = {c1}
  Kinds <- KindsTurns
  ScanCap = 1
  TokenSizes = {1}
  MaxReply = 2
  MaxRows = 3
  MessageLimit = 4
  AckMayFail = {}
INVARIANT StoredReplyIsWhole
CHECK_DEADLOCK FALSE
