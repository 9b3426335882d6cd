SPECIFICATION Spec
CONSTANTS
    oauth = oauth
    p1 = p1
    p2 = p2
    l1 = l1
    w1 = w1
    w2 = w2
    es = es
    pp = pp
    pr = pr
    us = us
    g1 = g1
    a = a
    b = b
    x1 = x1
    x2 = x2
    Standard = Standard
    OAuthProxy = oauth
    Proxies = {oauth, l1}
    BasePaths = {a, b}
    Environments = {es}
    Stage <- StageMap
    Region <- RegionMap
    Workspaces = {w1}
    Scope <- LabScope
    MaxRevisions = 1
    Editors = {x1}
    Gateways = {g1}
    Allowlist <- Everywhere
INVARIANT SnapshotsAreAccepted
