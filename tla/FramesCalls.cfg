\* Calls up to three deep, below the main module, in a program of two modules.
CONSTANTS
  MemSize = 22
  LocalMark = 4
  DataTop = 1
  StackLimit = 17
  Main = 1
  Modules = {1, 2}
  Values = {8}
  CodeAddrs = {1, 2}
  Entry = 1
  Sizes = {1, 16}
SPECIFICATION Spec
VIEW LiveWords
INVARIANTS TypeOK MarksIntact EndsWithMain StaticLinks
PROPERTY ReturnRestoresCaller
CHECK_DEADLOCK FALSE
