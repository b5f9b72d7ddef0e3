\* Two requests whose scripts run at the same time; an array of three bytes; three
\* clients for two slots, one of which may leave.
CONSTANTS
  Threads = {h1, h2}
  NoThread = NoThread
  Calls <- SomeCalls
  MaxRows = 2
  FitRows = 1
  NUL = NUL
  BufferCells = 4
  Length <- ResponseLength
  MAX_WRITE_SIZE = 3
  MaxMessages = 4
  Clients <- SelectNumbers
  NoClient = 0
  SelectThreads <- SelectNumbers
  CLIENT_SIZE = 2
  MaxFd = 3
  Leavers = {2}
SPECIFICATION ThreadsSpec
INVARIANTS
  ChangesAsAsked
  RepliesRight
  DiesOnlyInTrouble
  MessageSeen
  SlotsRight
PROPERTIES
  CalmServed
CHECK_DEADLOCK FALSE
