SPECIFICATION FairPrSpec
CONSTANTS
  Contents <- MCContents
  Verdicts = {"pass", "incomplete"}
  MaxPushes = 2
  MaxRuns = 3
  None = None
INVARIANTS SuccessIsEarned OneStickyComment
CHECK_DEADLOCK FALSE
PROPERTIES CommentNeverGoesBack ContextGetsStatus
