\* Several requests, each in one or two pieces, messages that crash the process; fewer threads and descriptors than clients.
CONSTANTS
  Conns = {c1, c2, c3}
  Threads = {t1, t2}
  Fds = {f1, f2}
  NoConn = NoConn
  NoFd = NoFd
  CLIENT_SIZE = 1
  MaxReqs = 2
  MayLeave = FALSE
  MaxParts = 2
  MayGarble = TRUE
SPECIFICATION Spec
INVARIANT
  AnsweredAtMostOnce
SYMMETRY Symmetry
CHECK_DEADLOCK FALSE
