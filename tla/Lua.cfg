\* Heaps of two or three objects beside the main thread; tables whose keys collide; programs of
\* a few statements; one coroutine and four calls a thread; patterns of up to four items; lists
\* of up to five values, and some of seven, with a random pivot from five values on.
CONSTANTS
  R = R
  t1 = t1
  ud1 = ud1
  str1 = str1
  co = co
  cl = cl
  main = main
  nil = nil
  plain = plain
  co1 = co1
  Main = main
  Coroutines = {co1}
  MaxCCalls = 4
  ErrCCalls = 5
  MaxFrames = 4
  Elements = {1, 2, 3}
  MaxLength = 7
  Lists <- SomeLists
  RANLIMIT = 4
  Imbalance = 1
  MAXINTEGER = 3
SPECIFICATION LuaSpec
INVARIANTS
  CollectorSafe
  CallsReturn
  ListsKept
PROPERTIES
  CodeMeansProgram
  PatternsMatch
  CollectsGarbage
  TablesKeep
CHECK_DEADLOCK FALSE
