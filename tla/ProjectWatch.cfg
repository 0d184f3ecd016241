SPECIFICATION MCSpec
CONSTANTS
  s1 = s1
  Sessions = {s1, s2, s3}
  MaxCommands = 3
  WatchCommands = 2
  Files = {f1, f2}
  MaxEdits = 2
  Checks = 2
  SettlePolls = 2
  MaxUnstableCycles = 2
  Tracked = {f1}
  Absent = Absent
  Unlisted = Unlisted
  Incomplete = Incomplete
  Torn = Torn
  None = None
INVARIANTS
  LockVerifies
  ShownIsTrue
PROPERTIES
  StartReplacesOnlyNewer
  EventuallyCurrent
CHECK_DEADLOCK FALSE
