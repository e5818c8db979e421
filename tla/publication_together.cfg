CONSTANTS
  r1 = r1
  r2 = r2
  Nobody = Nobody
  Caller = Caller
  Runs <- MCRuns
  CaseOf <- OneCase
  OtherNames <- MCOtherNames
  CallerNames <- SomeNames
  MaxRunning = 2
SPECIFICATION Spec
INVARIANT
  SuccessIsBound
