SPECIFICATION GovSpec
CONSTANTS
  Parts = {"roles", "rows", "grants", "release"}
  Keys <- MCKeys
  Roles = {"r1", "r2", "r3"}
  Persons = {"agent", "human"}
  Editors = {e1, e2}
  MAX_ROLE_DEPTH = 5
  Beginnings <- GovBeginnings
  Revisions <- MCRevisions
  MaxEdits = 3
  Entities = {"memo", "note", "folder", "desk"}
  Tables = {"note", "folder", "desk"}
  RowIds = {"k1", "k2"}
  People = {"ann", "bob"}
  Declarations <- MCDeclarations
  Owners <- MCOwners
  Filled <- MCFilled
  RoleMixes <- MCRoleMixes
  MaxOwnerChain = 3
  MaxSteps = 2
  Procs = {"p1", "p2"}
  NGrants = 2
  NPubs = 2
  MaxGen = 2
  MaxVer = 2
  Mixes <- MCMixes
  Admins = {"a1", "a2"}
  Runs = {"e1"}
  Codes = {1, 2}
  Manifests <- MCManifests
  MaxRev = 2
  MaxInst = 2
  MaxOk = 2
  Duties <- MCDuties

CHECK_DEADLOCK FALSE

INVARIANTS
  NarrowingIsExact
  ActingNeverEscalates
  RolesAreResolved
  RowsFollowTheContract
  GrantsAreAccountable
  OnlyCreationDeadlocks
  ReleaseIsSound

PROPERTIES
  ConfinedWritesStayHome
  CommitsUnderAuthority
  CommitsWhileApproved
