SPECIFICATION EvidenceSpec
CONSTANTS
  None = None
  NCanaries = 2
  Critical <- MCCritical
  Repetitions = 2
  AttemptBudgets <- MCAttemptBudgets
  TokenBudgets <- MCTokenBudgets
  TokenCosts <- MCTokenCosts
  Results <- MCResults
  Id <- MCId
  MayBeLate <- MCMayBeLate
  Controls <- MCControls
INVARIANTS AttemptBudgetRespected CriticalFirst TokenBudgetCloses
  VerdictEarned
  BundleVerifies CompanionAccepted ClaimsMatchVerdicts
PROPERTIES KeepsPromise
CHECK_DEADLOCK FALSE
