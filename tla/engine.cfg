SPECIFICATION EngineSpec
CONSTANTS
  Parts = {"pool", "drive", "graph"}
  c1 = c1
  c2 = c2
  c3 = c3
  Callers <- MCCallers
  Keys = {k1, k2}
  Workers = {1, 2, 3, 4, 5}
  Shapes <- MCShapes
  NoKey = NoKey
  NoWorker = NoWorker
  Nodes <- FlowNodes
  Edges <- FlowEdges
  Kind <- FlowKind
  Attempts <- FlowAttempts
  Continues <- FlowContinues
  MaxCrashes = 2
  MaxErrors = 1
  Sizes = {1, 4}
  MaxEdges = 5
SYMMETRY PoolSymmetry

CHECK_DEADLOCK FALSE

INVARIANTS
  WorkersAreAccountedFor
  ResumeIsTransparent
  SortsEveryGraph
