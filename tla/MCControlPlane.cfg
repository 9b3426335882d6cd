SPECIFICATION MCSpec
CONSTANTS
  s1 = s1
  s2 = s2
  x1 = x1
  l1 = l1
  l2 = l2
  w1 = w1
  w2 = w2
  std = std
  First = j1
  Sweeper = sw
  Nobody = Nobody
  Jobs = {j1, j2, sw}
  Authorities = {s1, s2, x1, l1, l2}
  External = {x1}
  Workspaces = {w1, w2}
  CaOf <- LabAuthorities
  HomeOf <- Homes
  Certificates = {c1}
  MaxFailures = 1
  Focuses = {"authorities", "clients", "activations", "lists", "sample", "samples"}
INVARIANTS IssuersHaveKeys
PROPERTIES OperationsTakeEffect SampleIsRunnable DueWorkspacesExpire
CHECK_DEADLOCK FALSE
