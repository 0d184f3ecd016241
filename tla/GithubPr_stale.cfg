SPECIFICATION PrSpec
CONSTANTS
  Contents <- MCContents
  Verdicts = {"pass", "block"}
  MaxPushes = 2
  MaxRuns = 2
  None = None
PROPERTY CommentIsOfHead
CHECK_DEADLOCK FALSE
