SPECIFICATION MCSpec
CONSTANTS
  s1 = s1
  s2 = s2
  x1 = x1
  l1 = l1
  l2 = l2
  w1 = w1
  w2 = w2
  std = std
  First = j1
  Sweeper = sw
  Nobody = Nobody
  Jobs = {j1, sw}
  Authorities = {l1}
  External = {}
  Workspaces = {w1}
  CaOf <- LabAuthorities
  HomeOf <- Homes
  Certificates = {}
  MaxFailures = 1
  Focuses = {"stopped"}
PROPERTY DueWorkspacesExpire
CHECK_DEADLOCK FALSE
