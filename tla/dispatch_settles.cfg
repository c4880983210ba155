CONSTANTS
  MaxMsgs = 1
  MaxDeliveries = 1
  MaxExecs = 2
  MaxManual = 1
  Editable = TRUE
  MaxCrashes = 1
  MaxErrors = 0
  t1 = t1
  t2 = t2
  r1 = r1
  r2 = r2
  Tasks <- TwoTasks
  Runs <- OneRun
SPECIFICATION FairSpec
PROPERTY EveryMessageSettles
CHECK_DEADLOCK FALSE
