SPECIFICATION Spec
CONSTANTS
  Bits = 8
  ExsSize = 15
  LocalMark = 16
  Memory <- MCMemory
  Module = 3
  GlobalBase = 2
  DataTop = 40
  Programs <- MCNames
  Image <- MCImage
  Started <- MCStarted
INVARIANT
  IdentifiersCounted
