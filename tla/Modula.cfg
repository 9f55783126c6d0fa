SPECIFICATION FairSpec
CONSTANTS
  Bits = 8
  ExsSize = 15
  LocalMark = 16
  Memory <- MCMemory
  Module = 3
  GlobalBase = 2
  DataTop = 40
  Programs <- MCPrograms
  Image <- MCImage
  Started <- MCStarted
INVARIANTS
  TypeOK
  ComputesMeaning
  StatementsNeutral
PROPERTY
  Stops
