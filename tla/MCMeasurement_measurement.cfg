SPECIFICATION Spec
CONSTANTS
  v1 = v1
  n1 = n1
  v2 = v2
  v3 = v3
  c1 = c1
  d1 = d1
  u1 = u1
  x = x
  y = y
  a = a
  b = b
  fake = fake
  Event <- MCEvent
  Recorded <- MCRecorded
  Massless <- MCMassless
  Covered <- MCCovered
  Id <- MCId
  Uniform <- MCUniform
  Thin <- MCThin
  Injected <- MCInjected
  Key <- MCKey
  HitFrom <- MCHitFrom
  AreaOf <- MCAreaOf
  Finding <- MCFinding
  Level <- MCLevel
  Curves <- MCCurves
  Job <- MCJob
  Option <- MCOption
  Budgets <- MCBudgets
  Request <- MCRequest
  SubscriberOf <- MCSubscriberOf
  CellOf <- MCCellOf
  Cells <- MCCells
  SplitRatio = 20
  ValidationEvents = 2
  CalibrationEvents = 1
  LambdaMin = 1
  LambdaMax = 9
  TargetCoverage = 9
  Tolerance = 1
  MaxIterations = 2
  MinFindings = 2
  EngineLambda = {1, 2}
  BufferEvents = 2
  Launches = 2
  MaxGeometries = 3
  KAnonymity = 2
CHECK_DEADLOCK FALSE
INVARIANTS
  TypeOK
  
  OneRowPerKey
  BisectionSound
  AnswersAccounted
  AnswersAreRight
