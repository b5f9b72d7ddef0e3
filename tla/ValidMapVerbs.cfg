\* The table of verbs.
CONSTANTS
  GET = GET
  POST = POST
  PUT = PUT
  PATCH = PATCH
  DELETE = DELETE
  V10 = V10
  V11 = V11
  V12 = V12
  Other = Other
  NoWord = NoWord
  HashIndex <- Slot
  Threads = {t1, t2}
  Words = {GET, POST, PUT, PATCH, DELETE}
  Valid <- Verbs
  InitCap = 16
  MaxRequests = 2
SPECIFICATION MapSpec
INVARIANT
  ValidAccepted
SYMMETRY Symmetry
CHECK_DEADLOCK FALSE
