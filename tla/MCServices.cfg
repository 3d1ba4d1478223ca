SPECIFICATION ServicesSpec
CONSTANTS
  Request = {"r1", "r2"}
  Policy <- TwoTries
  HasToken = {"r1"}
  MaxFaults = 1
  Agent = {"a1"}
  User = {"ann", "bob"}
  RoleOf <- Roles
  NoRequest = "r0"
  InitialRows <- OneAgent
  Tab = {"t1", "t2"}
  UserOf <- Who
  OpsRoleOf <- TabRoles
  NoText = ""
  InitialOperations <- Known
  MaxSent = 4
  MaxThrows = 1
  Emission <- Emissions
  Stored = {{}, {"s1"}}
  Instance = {"i1"}
  Desk = {"d1", "d2"}
  DeskRole <- DeskRoles
  Home = "w"
  Queries <- Filters
  Facets <- Params
  MaxTime = 1
  MaxRequests = 1
  MaxLosses = 1
  Process = {"p1"}
  Editor = {"e1"}
  Occurrence = {"o1"}
  Start = {"b1", "b2"}
  IdempotencyKey = {"k1"}
  MaxVersion = 2
  MaxDeaths = 1
  Visit = {"v1", "v2"}
  Account = {"ann", "bob"}
  Team = {"team"}
  TeamMembers <- Teams
  MaxAborts = 1
  Operator = {"ann", "bob"}
  HomeOf <- Homes
  Shared = {"team"}
  SharedBy <- Teams
  MaxFetches = 1
  MaxPicks = 1
INVARIANT ServicesTypeOK
INVARIANT OutcomeIsCoherent
INVARIANT OneActiveExecution
INVARIANT OutcomeIsLogged
INVARIANT SignalsAreTrue
INVARIANT TrailExplainsStatus
INVARIANT ViewsAgree
INVARIANT OccurrenceStartsOnce
INVARIANT ActsWhereMember
INVARIANT PaletteKeepsScope
PROPERTY OneCallAfterAbort
PROPERTY ExecutionSettles
PROPERTY LifecycleAdvances
CHECK_DEADLOCK FALSE
