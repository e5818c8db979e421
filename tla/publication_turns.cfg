CONSTANTS
  r1 = r1
  r2 = r2
  Nobody = Nobody
  Caller = Caller
  Runs <- MCRuns
  CaseOf <- DistinctCases
  OtherNames <- MCOtherNames
  CallerNames <- SomeNames
  MaxRunning = 1
SPECIFICATION FairSpec
INVARIANTS
  TypeOK
  ManifestSeals
PROPERTIES
  RemainsAreRefused
  ImplementsVault
  RunsEnd
