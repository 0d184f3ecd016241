CONSTANTS
  Workers = {w1, w2}
  Names = {n1}
  MaxAttempts = 4
  None = None
  HostAttempts = 2
  Running = Running
SPECIFICATION MCSpec
INVARIANTS
  JudgedOwnState
  ValidMeansFinished
  ChangedOnlyByDetached
PROPERTIES
  KeepsItsContainer
  AttemptsEnd
CHECK_DEADLOCK FALSE
