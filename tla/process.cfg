SPECIFICATION FairSpec
CONSTANTS
  None = None
  Crashes = TRUE
  Leftovers = {"absent", "slow", "ready"}
  Unkillable = {TRUE, FALSE}
INVARIANTS
  TypeOK
  OneChildAtATime
  NoChildLeft
  KilledOnCompletion
  HandleIsChild
PROPERTY RunEnds
