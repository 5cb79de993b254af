SPECIFICATION Spec
CONSTANTS
  N = 4
  Faults = {"prepare", "update", "stack", "stuck", "crash"}
  MaxSaveFailures = 2
  MaxSessions = 3
CHECK_DEADLOCK FALSE
INVARIANTS
  OutcomeMatchesStack RecordIsAProfile NothingFilteredOut RecordInv StackInv
PROPERTIES
  UpdatesStayClose
