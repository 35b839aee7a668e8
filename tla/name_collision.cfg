\* Launchers that may draw the same temporary name.
SPECIFICATION Spec
CONSTANTS
  p1 = p1
  p2 = p2
  p3 = p3
  s1 = s1
  s2 = s2
  s3 = s3
  x1 = x1
  x2 = x2
  n1 = n1
  n2 = n2
  n3 = n3
  d1 = d1
  d2 = d2
  d3 = d3
  d4 = d4
  d5 = d5
  good = good
  copy = copy
  upgrade = upgrade
  altered = altered
  truncated = truncated
  wrong = wrong
  newer = newer
  foreign = foreign
  nostart = nostart
  None = None
  Proc = {p1, p2}
  Exe = {good}
  Sha = {s1}
  Path = {x1, x2}
  Image <- MCImage
  Entries <- MCEntries
  NFiles = 2
  StartFile = 2
  Name = {n1, n2}
  Dir = {d1, d2, d3, d4}
  ParentExists = TRUE
  Faults = {"collision"}
  MaxLaunches = 1
SYMMETRY Links
INVARIANT HealthyLaunchNeverFails
\* Launchers end, and applications exit: the system stops.
CHECK_DEADLOCK FALSE
