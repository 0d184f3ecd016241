SPECIFICATION EvidenceSpec
CONSTANTS
  None = None
  NCanaries = 2
  Critical <- MCCritical
  Repetitions = 1
  AttemptBudgets <- MCAttemptBudgets
  TokenBudgets <- MCTokenBudgets
  TokenCosts <- MCTokenCosts
  Results <- MCResults
  Id <- MCId
  MayBeLate <- MCNoneLate
  Controls <- MCControls
INVARIANTS CompletedRunExports
CHECK_DEADLOCK FALSE
