CONSTANTS
  FixtureDirs <- MCFixtureDirs
  OtherCases <- MCOtherCases
  MaxRuns = 2
  MaxChanges = 1
SPECIFICATION FairSpec
INVARIANTS
  TypeOK
  LateChecksFollow
  SummaryIsTrue
PROPERTIES
  SuccessIsOfThisRun
  UsesVaults
  CleanRunSucceeds
