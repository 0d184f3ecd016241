CONSTANTS
  MaxVersion = 5
  None = None
  Nothing = Nothing
  Damaged = Damaged
  Catalogs <- MCCatalogs
  Configs <- MCConfigs
  Results <- MCResults
  Suites <- MCSuites
  MaxDay = 2
  MaxRuns = 2
SPECIFICATION MCSpec
INVARIANTS
  ClaimsAreTrue
  EstimateIsHonest
PROPERTIES
  EndsWithClaim
  KeepsPromise
CHECK_DEADLOCK FALSE
