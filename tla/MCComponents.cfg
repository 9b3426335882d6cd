SPECIFICATION Spec
CONSTANTS
  JTIs = {j1}
  Gateways = {g1, g2}
  MaxSpan = 3
  Tolerance = 1
  MaxSkew = 1
  MaxClock = 6
  MaxTokens = 2
  p1 = p1
  p2 = p2
  x1 = x1
  Requests = {q1}
  Products = {p1, p2}
  Proxies = {x1}
  l1 = l1
  l2 = l2
  Limiters = {l1, l2}
  Attempts = {a1, a2}
  Limit = 1
  Window = 2
  Ahead <- AheadMap
  MaxAhead = 1
  MaxDelay = 1
  LastTick = 3
  MaxCount = 2
  HTTPRequests = {r1}
  Hosts = {"gateway", "elsewhere"}
  Methods = {"GET", "POST"}
  Paths <- PathsAsked
  Parameters = {"{id}"}
  Width <- Widths
  Configurations <- Snapshots
  Browsers = {b1, b2}
  Handlers = {h1, h2}
  Nobody = Nobody
  MAX_PAIRINGS = 1
  MAX_CODE_ATTEMPTS = 2
  MaxIds = 3
  MaxEvents = 1
  Operations = {op1, op2}
  Identities = {i1, i2}
  Names = {n1}
  NoIdentity = NoIdentity
  MaxClients = 1
  MaxInstances = 2
  MaxTurns = 1
  TargetHosts = {t1, t2}
  LocalTargets = {t2}
  Updates = {u1}
  Fetches = {f1}
  MAX_REDIRECTS = 1
  RATE_LIMIT = 1
  MaxWindows = 1
  Declares <- DeclaresMap
  Unrooted = {""}
  Documents <- DocumentsGiven
  Imports <- ConfigurationsImported
  Bases <- BasesTyped
  Pipelines <- PipelinesBuilt
  Targets <- TargetsTyped
  MaxEdits = 3
  MaxCreated = 1
  TrialApis = {"x1", "x2", "oauth"}
  Managed = {"oauth"}
  Stages = {0, 1, 2}
  Contents <- ContentsOffered
  FirstRows <- RowsAtFirst
  NothingShown = NothingShown
  MaxCatalogChanges = 1
  MaxTrials = 1
  t1 = t1
  t2 = t2
  LabTabs = {t1, t2}
  LocalKeys = {i1, i2}
  NoKey = NoKey
  MaxIssued = 3
  MaxOperations = 4
  u1 = u1
  o1 = o1
  o2 = o2
  Persons = {u1}
  Impostor = Impostor
  Standards = {o1, o2}
  Labs = {l1, l2}
  Nowhere = Nowhere
  Owner <- OwnerMap
  Appointments <- AppointmentsMade
  Calls = {q1}
  MaxChanges = 1
INVARIANTS ComponentsTypeOK TokensAreAccounted AdmittedWithinLimit UpstreamIsGuarded AcceptedIsServed AccessIsEarned FilesAreKept PlaygroundsAreSafe CallsRunOnce EgressIsContained CreationIsSound
PROPERTIES SingleUseUntilExpiry
CHECK_DEADLOCK FALSE
