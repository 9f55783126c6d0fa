\* Two programs, one inside the other, with two File variables.
CONSTANTS
  Descriptors = {1, 2}
  Names = {"x"}
  TempNames = {t1, t2}
  Programs = 2
  Pointers = {p1, p2}
  MaxLen = 1
SPECIFICATION Spec
SYMMETRY Interchangeable
VIEW Live
INVARIANTS TypeOK CacheSound  NoOrphanFiles
PROPERTIES VariablesApart
CHECK_DEADLOCK FALSE
