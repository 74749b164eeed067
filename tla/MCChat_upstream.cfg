SPECIFICATION FairSpec
CONSTANTS
  s1 = s1  s2 = s2  e1 = e1  g1 = g1
  u1 = u1  u2 = u2  u3 = u3  c1 = c1  c2 = c2
  Requests = {s1, s2, g1, e1}
  Convs = {c1}
  Kinds <- KindsFork
  ScanCap = 1
  TokenSizes = {1}
  MaxReply = 1
  MaxRows = 6
  MessageLimit = 4
  AckMayFail = {}
PROPERTY EditKeepsUpstream
CHECK_DEADLOCK FALSE
