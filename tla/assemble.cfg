\* Two assemblies of one release into one executable, and a launch of it meanwhile.
SPECIFICATION Spec
CONSTANTS
  b1 = b1
  b2 = b2
  l1 = l1
  Root = Root
  None = None
  Baker = {b1, b2}
  Launch = {l1}
  Names <- MCNames
  Parent <- MCParent
  NameSize <- MCNameSize
  Word = 8
  MaxName = 3
  Order <- MCOrder
  Hidden = {".hidden"}
  Releases <- MCReleases
  Scripts <- MCScripts
  Options <- MCOptions
  MaxCommand = 12
  Chunk = 8
  Faults = {"stop", "silent"}
  MaxTouches = 1
SYMMETRY Bakers
INVARIANT TypeOK
INVARIANT AcceptedIsOneAssembly
INVARIANT GoodExecutableStarts
INVARIANT TrailerFitsArchive
\* Bakers and launches end.
CHECK_DEADLOCK FALSE
