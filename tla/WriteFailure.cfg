SPECIFICATION Spec
CONSTANTS
  w1 = w1
  w2 = w2
  w3 = w3
  empty = empty
  a = a
  aNul = aNul
  b = b
  Main = Main
  None = None
  Workers <- TwoWorkers
  Strings <- MCStrings
  EmptyString = empty
  CStr <- MCCStr
  MinId = 0
  MaxId = 3
  KeyRank <- MCKeyRank
  Requests <- SmallRequests
  InitDisks <- FreshDisk
  DisableAtStart = {FALSE}
  Serial = TRUE
  Faults = {"write"}
SYMMETRY Symmetry2
INVARIANT ToldOnDisk
