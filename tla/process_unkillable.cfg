SPECIFICATION Spec
CONSTANTS
  None = None
  Crashes = TRUE
  Leftovers = {"absent"}
  Unkillable = {TRUE}
INVARIANT StoppedOnCompletion
