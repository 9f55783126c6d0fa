\* Programs inside programs, with their stacks, blocks and files.
CONSTANTS
  Files <- AllFiles
  Disks <- TwoDisks
  Boot = "c"
  Guests = {"p", "q", "w", "missing"}
  AgainToo = FALSE
  ModTabMax = 7
  MaxNest = 3
  MaxCalls = 2
  MemSize = 24
  Sizes = {2}
  Locals = {3}
  MaxBlocks = 4
  MaxFiles = 1
SPECIFICATION MachineSpec
INVARIANTS MachineTypeOK MemoryMap DependenciesLoaded Defined  OwnersAlive
PROPERTIES  CallerRestored CallsAnswered
CHECK_DEADLOCK FALSE
