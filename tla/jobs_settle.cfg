CONSTANTS
  MaxMsgs = 1
  MaxDeliveries = 2
  CmdCap = 2
  MAX_CRASHES = 2
  MaxDeaths = 2
  MaxStops = 1
  MaxRestarts = 1
  MaxErrors = 0
  CanWedge = FALSE
  t1 = t1
  t2 = t2
  Tasks <- TwoTasks
SPECIFICATION FairSpec
PROPERTY HonoursContract
PROPERTY EveryMessageSettles
CHECK_DEADLOCK FALSE
