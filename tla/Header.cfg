\* Messages with every fault of each part and with some in two parts; the table of versions,
\* and requests that race for it.
CONSTANTS
  Blank = Blank
  FirstLine = FirstLine
  t1 = t1
  t2 = t2
  v1 = v1
  v2 = v2
  v3 = v3
  e1 = e1
  e2 = e2
  NoTag = NoTag
  NoEndpoint = NoEndpoint
  Garbled = Garbled
  NoValue = NoValue
  BadParam = BadParam
  Tags = {t1, t2}
  Values = {v1, v2, v3}
  Unended = {v2}
  Endpoints = {e1, e2}
  MAX_HEADER_HEADERS = 2
  MAX_HEADER_URL_PARAMETERS = 2
  Messages <- AllMessages
  GET = GET
  POST = POST
  PUT = PUT
  PATCH = PATCH
  DELETE = DELETE
  V10 = V10
  V11 = V11
  V12 = V12
  Other = Other
  NoWord = NoWord
  HashIndex <- Slot
  Threads = {h1, h2}
  Words = {V11, Other}
  Valid <- Versions
  InitCap = 4
  MaxRequests = 3
SPECIFICATION HeaderSpec
INVARIANTS
  TypeOK
  TokensRight
  RightCode
  RefusedRunsBare
  CalledAsAsked
  AnnouncesEnough
  RightWhenAlone
  ArraysRight
PROPERTY
  CheckReturns
CHECK_DEADLOCK FALSE
