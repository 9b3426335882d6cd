SPECIFICATION Spec
CONSTANTS
  o1 = o1
  a1 = a1
  c1 = c1
  p1 = p1
  r1 = r1
  e1 = e1
  e2 = e2
  x1 = x1
  k1 = k1
  s1 = s1
  g1 = g1
  w1 = w1
  std = std
  NoApp = NoApp
  Standard = std
  Organizations = {o1}
  Sessions = {s1}
  Calls = {g1}
  Manages <- Managed
  OrgOf <- Org
  PlaygroundLife = 1
  Purposes = {"standard"}
  Apps = {a1}
  Credentials = {c1}
  Products = {p1}
  Proxies = {r1}
  Environments = {e1, e2}
  Scopes = {x1}
  Kids = {k1}
  CustomKeys = {}
  Expiries <- NeverOnly
  HostOf <- LabHost
  Needs <- OneNeed
  MaxTime = 1
  MaxSecrets = 0
  TTL = 1
  MaxLatency = 0
  MaxTokens = 1
  AdminOps = {"app", "credential", "grants", "key", "product"}
  AdminFields = {{"status"}}
  ProductUpdates = {{"active"}, {"scopes"}, {"proxies"}, {"environments"}, {"proxies", "environments"}}
INVARIANTS TokensAreEarned RevocationBitesWithinTtl
PROPERTIES AdmissionIsFresh
CHECK_DEADLOCK FALSE
