SPECIFICATION FairSpec
CONSTANTS
  g1 = g1  g2 = g2  v1 = v1  ann = ann
  NoRequest = NoRequest
  Requests = {g1, g2}
  Owner <- OwnerHere
  Kind <- KindHere
  DailyLimit = 1
  MonthlyLimit = 1
  Threshold = 2
  MonthLength = 2
  MaxDay = 3
INVARIANTS IInv UsedUpQuotaBlocks GateFreeWhileGenerating
PROPERTY RequestsSettle
CHECK_DEADLOCK FALSE
