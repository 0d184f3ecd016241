SPECIFICATION FirstBadSpec
CONSTANTS
  None = None
  e1 = e1
  e2 = e2
  f1 = f1
  Exporter = {e1, e2}
  Foreign = {f1}
  Keys = {"os", "shell"}
  Values = {"a", "x"}
  Configs = {1, 2}
  Signals <- MCSignals
  Suites <- MCSuites
  Edits <- MCEdits
  MaxLocks = 2
  MaxReleases = 3
  Builds = {1, 2}
  Together <- MCTogether
INVARIANTS PublishedIsTheRun DestinationIsOneExport OthersAreKept ReceiptVouches TargetedRunSuffices SelfVerifyAccepts PublishedIsJustified
PROPERTIES ScanKeepsPromise
CHECK_DEADLOCK FALSE
