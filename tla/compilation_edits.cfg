CONSTANTS
  Share = 2
  Names <- MCNames
  Texts <- MCTexts
  Inputs <- MCInputs
  RunContracts <- MCRunContracts
  Edits = 2
SPECIFICATION Spec
INVARIANTS
  TypeOK
  AcceptsExactly
  AcceptsWhatWasCompiled
