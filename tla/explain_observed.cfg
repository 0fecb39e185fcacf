SPECIFICATION Spec
CONSTANTS
  Nil = Nil
  Failed = Failed
  Missing = Missing
  NotJSON = NotJSON
  Statuses = {201, 409, 500}
  Pointers = {"/id"}
  IDNamed = {"/id"}
  Place <- Walk
  MaxIDs = 1
  Values = {1, 2}
  Scalars = {1, 2}
  NumObs = 1
  Delta <- OneDelta
  MinInt <- Lowest
  MaxInt = 3
  NumWorkers = 2
  Configs <- LostConfigs
  Effects <- UpToTwice
INVARIANT SentencesAreObserved
