\* One launch with every command line of up to three arguments.
SPECIFICATION Spec
CONSTANTS
  Words = {"a", "b"}
  Executables = {"outer", "inner"}
  Caches = {"dir"}
  Home = "home"
  MaxArgs = 3
  MaxDepth = 1
  TrailerCommand = "start"
  Unset = Unset
INVARIANT ArgumentsPassThrough
\* A launch may be the last one, and may crash.
CHECK_DEADLOCK FALSE
