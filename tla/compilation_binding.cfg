CONSTANTS
  Share = 1
  Names <- MCNames
  Texts <- MCTexts
  Inputs <- MCInputs
  RunContracts <- MCRunContracts
  Edits = 1
SPECIFICATION Spec
INVARIANT BoundOneToOne
