SPECIFICATION Spec
CONSTANTS
  Nil = Nil
  Fixed = {empty, null}
  Huge = 9
  Missing = Missing
  NotJSON = NotJSON
  Statuses = {201, 409}
  Pointers = {"/id", "/item/id"}
  IDNamed = {"/id", "/item/id"}
  Place <- Lengths
  MaxIDs = 1
  Values = {1, 2}
  Scalars = {1}
  Calls <- AuditCalls
INVARIANTS
  ExitIsVerdict
  SuccessIsEarned
  ReportsAgree
  DiagnosisFits
  OwnScenarioRuns
PROPERTY RetriesAreStrict
