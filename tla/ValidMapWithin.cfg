\* The table of versions, and three requests with the version 1.2.
CONSTANTS
  GET = GET
  POST = POST
  PUT = PUT
  PATCH = PATCH
  DELETE = DELETE
  V10 = V10
  V11 = V11
  V12 = V12
  Other = Other
  NoWord = NoWord
  HashIndex <- Slot
  Threads = {t1, t2, t3}
  Words = {V12}
  Valid <- Versions
  InitCap = 4
  MaxRequests = 3
SPECIFICATION TogetherSpec
INVARIANT
  WithinEntries
SYMMETRY Symmetry
CHECK_DEADLOCK FALSE
