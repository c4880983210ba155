SPECIFICATION ContentSpec
CONSTANTS
  Parts = {"reads", "language", "rules", "objects", "tree"}
  MaxGrowth = 2
  MaxAsked = 1
  MAX_DEPTH = 6
  MAX_NODES = 12
  MAX_IN_ITEMS = 3
  MaxWraps = 2
  MaxTokens = 4
  MaxPattern = 4
  Columns = {"a", "b"}
  Rules = {"r", "s"}
  Values = {"x", ""}
  RowIds = {1, 2}
  Stories <- MCStories
  MaxInstalls = 3
  MaxWrites = 2
  MaxFaults = 1
  q1 = q1
  q2 = q2
  q3 = q3
  q4 = q4
  StReqs = {q1, q2, q3, q4}
  FileUnits = 2
  ChunkUnits = 2
  StoreUnits = 2
  Slots = 2
  MaxTick = 2
  StDuties <- MCStDuties
  g1 = g1
  g2 = g2
  g3 = g3
  t1 = t1
  t2 = t2
  t3 = t3
  top = top
  Folders = {g1, g2, g3}
  StartTree <- MCStartTree
  BtReqs = {t1, t2, t3}
  Buckets = {"default", "extra"}
  TopLevel = top
  NewNames = {"x"}
  WalkLimit = 3
  BtDuties <- MCBtDuties

CHECK_DEADLOCK FALSE

INVARIANTS
  ReadsAreExact
  EnforcedAsWritten
  InstalledRulesHold
  ObjectsAreWhole
  TreeIsSound

PROPERTIES
  NoWindow
