\* Liveness and the abstract cache, with crashes and a defective archive.
SPECIFICATION FairSpec
CONSTANTS
  p1 = p1
  p2 = p2
  p3 = p3
  s1 = s1
  s2 = s2
  s3 = s3
  x1 = x1
  x2 = x2
  n1 = n1
  n2 = n2
  n3 = n3
  d1 = d1
  d2 = d2
  d3 = d3
  d4 = d4
  d5 = d5
  good = good
  copy = copy
  upgrade = upgrade
  altered = altered
  truncated = truncated
  wrong = wrong
  newer = newer
  foreign = foreign
  nostart = nostart
  None = None
  Proc = {p1, p2}
  Exe = {good, altered}
  Sha = {s1, s2}
  Path = {x1, x2}
  Image <- MCImage
  Entries <- MCEntries
  NFiles = 1
  StartFile = 1
  Name = {n1, n2}
  Dir = {d1, d2, d3}
  ParentExists = TRUE
  Faults = {"crash"}
  MaxLaunches = 1
PROPERTY LaunchEnds
PROPERTY HealthyStarts
PROPERTY RefinesAppCache
\* Launchers end, and applications exit: the system stops.
CHECK_DEADLOCK FALSE
