CONSTANTS
  Inputs <- MCInputs
  MaxPieces = 6
SPECIFICATION Spec
INVARIANTS
  TypeOK
  ReadsWhatIsWritten
  RefusesOnlyTrailingBackslash
