SPECIFICATION Spec
CHECK_DEADLOCK FALSE
CONSTANTS
  Options = {"disk", "registry", "https", "backup"}
  MaxRestore = 2
INVARIANT StopsClean
PROPERTY ShutdownEnds
