\* What is taken for a header line may be a line of the body.
CONSTANTS
  Blank = Blank
  FirstLine = FirstLine
  t1 = t1
  t2 = t2
  v1 = v1
  v2 = v2
  v3 = v3
  e1 = e1
  e2 = e2
  NoTag = NoTag
  NoEndpoint = NoEndpoint
  Garbled = Garbled
  NoValue = NoValue
  BadParam = BadParam
  Tags = {t1, t2}
  Values = {v1, v2, v3}
  Unended = {v2}
  Endpoints = {e1, e2}
  MAX_HEADER_HEADERS = 2
  MAX_HEADER_URL_PARAMETERS = 2
  Messages <- AllMessages
SPECIFICATION Spec
INVARIANT
  HeaderOnly
CHECK_DEADLOCK FALSE
