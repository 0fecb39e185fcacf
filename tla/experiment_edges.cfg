SPECIFICATION FairSpec
CONSTANTS
  Nil = Nil
  Failed = Failed
  Missing = Missing
  NotJSON = NotJSON
  Statuses = {201, 409}
  Pointers = {}
  IDNamed = {}
  Place <- Walk
  MaxIDs = 1
  Values = {1}
  Scalars = {1}
  NumObs = 2
  Delta <- UpAndDown
  MinInt <- Lowest
  MaxInt = 3
  NumWorkers = 2
  Configs <- EdgeConfigs
  Effects <- UpDownEffects
INVARIANTS
  EvidenceInOrder
  WritesInOrder
  BaselineBeforeWrites
  RetryFollowsAck
PROPERTY RunReturns
