\* Files of both compilers, in two directories; and what may be wrong with a file.
CONSTANTS
  Setups <- AllSetups
  Written <- MCWritten
  Boot = "p"
  ModTabMax = 6
SPECIFICATION Spec
INVARIANTS TypeOK LoadedAsCompiled
PROPERTIES LoaderSpec
CHECK_DEADLOCK FALSE
