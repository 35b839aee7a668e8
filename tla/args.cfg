\* Every command line of up to three arguments, twice: a launch inside a launch.
SPECIFICATION Spec
CONSTANTS
  Words = {"a", "b"}
  Executables = {"outer", "inner"}
  Caches = {"dir"}
  Home = "home"
  MaxArgs = 3
  MaxDepth = 2
  TrailerCommand = "start"
  Unset = Unset
INVARIANT TypeOK
INVARIANT ScriptSeesOwnArgs
INVARIANT FirstOptionDecides
\* A launch may be the last one, and may crash.
CHECK_DEADLOCK FALSE
