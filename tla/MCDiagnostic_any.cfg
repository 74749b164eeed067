SPECIFICATION FairSpec
CONSTANTS
  s1 = s1  s2 = s2  s3 = s3  f1 = f1  f2 = f2  a1 = a1  k1 = k1  k2 = k2
  NoCall = NoCall
  Calls = {s1, s2, f1, a1, k1}
  Kind <- KindHere
  Costs = {0, 2, 4}
  CostCap = 3
  MaxTurns = 2

INVARIANTS IInv AgentTurnsConsecutive CapEndsConversation CompletedHasItsVerdict CappedSessionGetsNoVerdict
PROPERTY CallsSettle
CHECK_DEADLOCK FALSE
