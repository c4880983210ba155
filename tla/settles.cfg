SPECIFICATION SettleSpec
CONSTANTS
  Parts = {"tx", "turns", "builder"}
  TxCalls = {"c1"}
  Txs = {"t1", "t2"}
  Ops = {"o1"}
  QueueCap = 1
  OutCap = 1
  DoneCap = 1
  MaxOpen = 2
  Permits = 2
  MaxKills = 1
  Workers <- ClosingWorkers
  NoTxCall = "none"
  Casts <- EndingCasts
  MaxTick = 3
  MaxAdmin = 1
  BuildScenes <- SettlingScenes
  MaxRetries = 1

CHECK_DEADLOCK FALSE

PROPERTIES
  WorkSettles
