CONSTANTS
  MaxMsgs = 2
  MaxDeliveries = 1
  CmdCap = 2
  MAX_CRASHES = 2
  MaxDeaths = 1
  MaxStops = 1
  MaxRestarts = 1
  MaxErrors = 1
  CanWedge = TRUE
  t1 = t1
  t2 = t2
  Tasks <- TwoTasks
SYMMETRY Symmetry
CONSTRAINT OneFault
SPECIFICATION Spec
INVARIANT RunningJobIsLeased
CHECK_DEADLOCK FALSE
