\* Clients of one request, as in driver/; one more free slot than it takes.
CONSTANTS
  Conns = {c1, c2}
  Threads = {t1, t2}
  Fds = {f1, f2}
  NoConn = NoConn
  NoFd = NoFd
  CLIENT_SIZE = 2
  MaxReqs = 1
  MayLeave = TRUE
  MaxParts = 1
  MayGarble = FALSE
SPECIFICATION FairSpec
INVARIANTS
  TypeOK
  ResponseIntegrity
  RequestInOnePlace
  OnlyLeaversLeak
PROPERTIES
  ClosedAfterReply
  ClientServed
CHECK_DEADLOCK FALSE
