SPECIFICATION Spec
CONSTANTS
  o1 = o1
  o2 = o2
  a1 = a1
  c1 = c1
  c2 = c2
  p1 = p1
  r1 = r1
  x1 = x1
  k1 = k1
  s1 = s1
  s2 = s2
  NoApp = NoApp
  Organizations = {o1, o2}
  Sessions = {s1, s2}
  Apps = {a1}
  Credentials = {c1, c2}
  Products = {p1}
  Scopes = {x1}
  Kids = {k1}
  OrgOf <- Org
  Manages <- Managed
  Purposes = {"standard", "playground"}
  Expiries <- SomeExpiries
  CustomKeys = {}
  PlaygroundLife = 1
  MaxTime = 1
  MaxSecrets = 1
  Proxies = {r1}
  Environments = {}
  ProductUpdates <- AnyFields
INVARIANTS OrganizationsStaySeparate GrantScopesDeclared
PROPERTIES RevocationSettles RevokedIsInert ReplacementIsExact
CHECK_DEADLOCK FALSE
