\* Three programs, each started by the one before it, that allocate, dispose of
\* single blocks, reset to a mark and end.
CONSTANTS
  MemSize = 7
  Mods = {1, 2, 3}
  Sizes = {0, 2}
  Disposals = {1, 2, 3, 4, 5}
  Limits = {}
  StackTops = {0, 2}
SPECIFICATION MarkSpec
INVARIANTS AgesFollowAddresses CoalescedByDispose
PROPERTIES ResetReleasesYounger ResetKeepsOlder
CHECK_DEADLOCK FALSE
