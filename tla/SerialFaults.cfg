SPECIFICATION Spec
CONSTANTS
  w1 = w1
  w2 = w2
  w3 = w3
  empty = empty
  a = a
  aNul = aNul
  b = b
  Main = Main
  None = None
  Workers <- TwoWorkers
  Strings <- MCStrings
  EmptyString = empty
  CStr <- MCCStr
  MinId = 0
  MaxId = 4
  KeyRank <- MCKeyRank
  Requests <- FaultRequests
  InitDisks <- MCDisks
  DisableAtStart = {FALSE}
  Serial = TRUE
  Faults = {"kill", "power", "write", "read", "alloc"}
SYMMETRY Symmetry2
INVARIANT OneIdPerString
INVARIANT MemoryComplete
INVARIANT AnswersRecorded
INVARIANT TakesTurns
PROPERTY SyncedNeverReassigned
