\* A second request on a connection: a reply goes to another client.
CONSTANTS
  Conns = {c1, c2, c3}
  Threads = {t1, t2, t3}
  Fds = {f1, f2}
  NoConn = NoConn
  NoFd = NoFd
  CLIENT_SIZE = 1
  MaxReqs = 2
  MayLeave = FALSE
  MaxParts = 1
  MayGarble = FALSE
SPECIFICATION Spec
INVARIANT
  ResponseIntegrity
SYMMETRY Symmetry
CHECK_DEADLOCK FALSE
