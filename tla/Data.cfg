\* Tables of every small capacity, in and out of memory; lists of up to seven items of two
\* texts; texts of four tokens; values with up to four members.
CONSTANTS
  k1 = k1
  k2 = k2
  k3 = k3
  Keys = {k1, k2, k3}
  Values = {v1, v2}
  None = None
  InitCaps = {1, 2, 3, 4}
  MaxCap = 8
  W = 4
  HashIndex <- Masked
  Addresses = {1, 2, 3, 4, 5, 6, 7}
  Blocks = {1, 2, 3, 4, 5, 6}
  Names = {1, 2}
  TreeValues = {1, 3}
  MaxCalls = 3
  NestingLimit = 3
  BufferSize = 30
SPECIFICATION DataSpec
INVARIANTS
  TypeOK
  Reachable
  RoomToStop
  CountsAgree
  TreesWhole
  TreesMean
PROPERTIES
  PrintsRight
  ParsesRight
  UtilsReach
  ImplementsDictionary
  SetReturns
CHECK_DEADLOCK FALSE
