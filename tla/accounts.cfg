SPECIFICATION AccountSpec
CONSTANTS
  Parts = {"signin", "links", "chat", "triggers"}
  Humans = {"hal", "ida"}
  Services = {"svc"}
  Requests = {"c1", "c2", "c3"}
  MaxRow = 3
  SignInDuties <- MCSignInDuties
  CnReqs = {"k1", "k2", "k3"}
  CnDuties <- MCCnDuties
  MaxToken = 4
  MaxFault = 1
  Visits = {"v1", "v2", "v3", "v4"}
  Scenes <- MCScenes
  ChUsers = {"ann", "bob"}
  Chats = {"c1", "c2"}
  Agents = {"aide", "assistant"}
  DefaultAgent = "assistant"
  MaxTools = 1
  MaxCrashes = 1
  MaxDbErrs = 1
  Plots <- MCPlots
  MaxMsgs = 2
  MaxJobs = 4
  MaxLive = 2

CHECK_DEADLOCK FALSE

INVARIANTS
  SessionsAreEarned
  TokensAreUnspent
  DeliveriesAreSerial
  SchedulesAreSound

PROPERTIES
  AdminRemains
  NothingOutlivesItsLink
  TriggersActForTheirOwner
