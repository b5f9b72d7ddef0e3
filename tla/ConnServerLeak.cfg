\* A client that leaves silently takes a descriptor with it.
CONSTANTS
  Conns = {c1, c2}
  Threads = {t1, t2}
  Fds = {f1}
  NoConn = NoConn
  NoFd = NoFd
  CLIENT_SIZE = 1
  MaxReqs = 1
  MayLeave = TRUE
  MaxParts = 1
  MayGarble = FALSE
SPECIFICATION BusySpec
PROPERTY
  ClientServed
CHECK_DEADLOCK FALSE
