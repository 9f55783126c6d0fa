\* A program is called after a load that failed.
CONSTANTS
  Files <- AllFiles
  Disks <- AllDisks
  Boot = "c"
  Guests = {"p", "q"}
  AgainToo = FALSE
  ModTabMax = 7
  MaxNest = 2
  MaxCalls = 2
SPECIFICATION Spec
INVARIANT DependenciesLoaded
CHECK_DEADLOCK FALSE
