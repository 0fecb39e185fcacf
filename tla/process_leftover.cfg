SPECIFICATION Spec
CONSTANTS
  None = None
  Crashes = FALSE
  Leftovers = {"absent", "slow", "ready"}
  Unkillable = {FALSE}
INVARIANT EndIsOfChild
