\* A module that refers to a procedure of its own.
CONSTANTS
  Setups <- OwnReference
  Written <- MCWritten
  Boot = "p"
  ModTabMax = 6
SPECIFICATION Spec
INVARIANT OwnReferences
CHECK_DEADLOCK FALSE
