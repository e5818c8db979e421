CONSTANTS
  s1 = s1
  s2 = s2
  s3 = s3
  c1 = c1
  c2 = c2
  c3 = c3
  cLong = cLong
  cUnsound = cUnsound
  e1 = e1
  e2 = e2
  b1 = b1
  b2 = b2
  Bindings <- MCBindings
  ActivitiesOf <- MCActivitiesOf
  CellsOf <- MCCellsOf
  Sound <- MCSound
  CellCount = 2
  Sources <- MCSources
  Contracts <- MCContracts
  Evaluators <- OneEvaluator
  InTurn = FALSE
  MaxEdits = 2
  MaxStops = 1
SPECIFICATION Spec
INVARIANTS
  TypeOK
  AdmittedIsOneChain
  IndexIsInRange
