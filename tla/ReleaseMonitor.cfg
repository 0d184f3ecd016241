CONSTANTS
  Monitors = {daily, manual}
  Scheduled = {daily}
  MaxVersion = 3
  MaxLocks = 2
  CheckVerdicts = {"BLOCK", "INCOMPLETE"}
  Torn = Torn
  Corrupt = Corrupt
  None = None
SPECIFICATION FairSpec
PROPERTIES
  ReuseIsEarned
  RecordRegressesOnlyByOverlap
  EventuallyQualified
