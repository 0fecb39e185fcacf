SPECIFICATION Spec
CONSTANTS
  Nil = Nil
  Failed = Failed
  Torn = Torn
  Names <- NameOrder
  CountNames = {"count", "total"}
  SkipNames = {"page"}
  Values <- AllValues
  Params = {"id"}
  Schemas <- AllSchemas
  Foreign = Foreign
  Options <- CommandLines
  Documents <- AllDocs
  Replies <- AllReplies
  Disks <- Folders
  CommonPaths = 2
INVARIANTS
  CounterIsReal
  BodyFits
  NothingLost
