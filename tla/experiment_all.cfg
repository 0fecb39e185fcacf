SPECIFICATION Spec
CONSTANTS
  Nil = Nil
  Failed = Failed
  Missing = Missing
  NotJSON = NotJSON
  Statuses = {201, 409, 500}
  Pointers = {"/id", "/item/id"}
  IDNamed = {"/id", "/item/id"}
  Place <- Walk
  MaxIDs = 1
  Values = {1, 2}
  Scalars = {1}
  NumObs = 1
  Delta <- OneDelta
  MinInt <- Lowest
  MaxInt = 3
  NumWorkers = 2
  Configs <- AllConfigs
  Effects <- UpToTwice
INVARIANTS
  TypeOK
  VerdictSound
  PassMatchesService
  FaultNeedsAck
  PassMeansSameReply
  ViolationIsExplained
  LossIsTheCrash
  RepeatWasAnswered
PROPERTIES
  Promise
  LosesOneReply
