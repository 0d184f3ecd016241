CONSTANTS
  Monitors = {daily}
  Scheduled = {daily}
  MaxVersion = 3
  MaxLocks = 2
  CheckVerdicts = {"BLOCK", "INCOMPLETE"}
  Torn = Torn
  Corrupt = Corrupt
  None = None
SPECIFICATION Spec
INVARIANTS
  NoDowngradeQualification
