CONSTANTS
  MaxMsgs = 1
  MaxDeliveries = 2
  MaxExecs = 2
  MaxManual = 1
  Editable = FALSE
  MaxCrashes = 1
  MaxErrors = 1
  t1 = t1
  t2 = t2
  r1 = r1
  r2 = r2
  Tasks <- TwoTasks
  Runs <- TwoRuns
SYMMETRY Symmetry
CONSTRAINT OneFault
SPECIFICATION Spec
INVARIANTS SingleFlight
PROPERTIES SucceededIsFinal HonoursContract
CHECK_DEADLOCK FALSE
