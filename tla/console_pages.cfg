CONSTANTS
  None = None
  r1 = r1
  r2 = r2
  Cards = {d1}
  DefaultCard = d1
  Fallback = fb
  Gateways = {"hermes"}
  Runtimes = {r1, r2}
  Detected <- DetectedOf
  AcpDefault = "claude"
  Local = {"l1"}
  Tools = {"bash"}
  Skills = {k1}
  Servers = {"gh"}
  Callable = {a1}
  Pasted <- PastedOf
  MaxFiles = 2
  Agents = {a1, a2}
  LocalAgents = {a2}
  Vaults = {v1}
  MaxRows = 2
  MaxPubs = 2
  MaxTicks = 2
  MaxCreds = 2
  BuiltIn = {b1}
  Custom = {u1, u2}
  MaxVersions = 2
  Emails = {e1, e2}
  Paths = {p1, p2}
  Contents = {c1, c2}
  MaxMemories = 2
  MaxRequests = 2
  Managers = {m1, m2}
  Specs = {s1}
  Hidden = {h1, h2}
  Kinds = {"environments", "vaults", "memory_stores", "agents", "files"}
  Ids = {1, 2, 3}
  PageSize = 1
  MaxTime = 3
  MaxSlots = 2
  MaxEvents = 3
  Plain = {"message", "idle", "span.model_request_end"}
  Pubs = {1, 2}
  Caps = {x1}
  MaxRules = 1
  Tenants = {"t1", "t2"}
  MaxKeys = 3
  Runs = {1, 2}
  Teams = {1, 2}
  MaxMessages = 2
  Pages <- AllPages
  Steps <- PageSteps
SPECIFICATION Spec
SYMMETRY Symmetry
CHECK_DEADLOCK FALSE
INVARIANT FormRoundTrips
INVARIANT UrlsMatchItems
INVARIANT FormFollowsUser
INVARIANT FlowsAreFollowed
INVARIANT FilesOfVersion
INVARIANT PinnedIsShown
INVARIANT PollsPinned
INVARIANT TokensOnce
INVARIANT GuardHolds
INVARIANT HiddenSurvives
INVARIANT NoRowSkipped
INVARIANT DebugShowsEvent
INVARIANT UnpublishedStays
INVARIANT TokensAllOrNone
INVARIANT ShownIsFinal
INVARIANT MessagesOnce
