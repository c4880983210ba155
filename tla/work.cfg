SPECIFICATION WorkSpec
CONSTANTS
  Parts = {"tx", "turns", "builder"}
  TxCalls = {"c1"}
  Txs = {"t1", "t2"}
  Ops = {"o1"}
  QueueCap = 1
  OutCap = 1
  DoneCap = 1
  MaxOpen = 2
  Permits = 2
  MaxKills = 1
  Workers <- MCWorkers
  NoTxCall = "none"
  Casts <- MCCasts
  MaxTick = 3
  MaxAdmin = 1
  BuildScenes <- MCBuildScenes
  MaxRetries = 1

CHECK_DEADLOCK FALSE

INVARIANTS
  NoPartialCommit
  CallsAreSupervised
  BuildsAreSound

PROPERTIES
  OutcomesAreFinal
  CallsStayWithinAuthority
  PublicationsAreOrderly
