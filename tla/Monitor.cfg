\* Single steps and breakpoints in every kind of code.
CONSTANTS
  Programs <- MCGuests
  MaxCalls = 3
SPECIFICATION Spec
INVARIANT TypeOK
PROPERTIES StepsStop BreakpointMet
CHECK_DEADLOCK FALSE
