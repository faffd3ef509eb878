SPECIFICATION FairSpec
CONSTANTS
  w1 = w1
  w2 = w2
  w3 = w3
  empty = empty
  a = a
  aNul = aNul
  b = b
  Main = Main
  None = None
  Workers <- TwoWorkers
  Strings <- MCStrings
  EmptyString = empty
  CStr <- MCCStr
  MinId = 0
  MaxId = 2
  KeyRank <- MCKeyRank
  Requests <- FewRequests
  InitDisks <- FreshDisk
  DisableAtStart = {FALSE, TRUE}
  Serial = FALSE
  Faults = {"kill", "write", "read", "alloc", "tail"}
PROPERTY LockReleased
PROPERTY PoolFrees
PROPERTY AdminReturns
