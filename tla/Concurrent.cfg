SPECIFICATION Spec
CONSTANTS
  w1 = w1
  w2 = w2
  w3 = w3
  empty = empty
  a = a
  aNul = aNul
  b = b
  Main = Main
  None = None
  Workers <- ThreeWorkers
  Strings <- MCStrings
  EmptyString = empty
  CStr <- MCCStr
  MinId = 0
  MaxId = 3
  KeyRank <- MCKeyRank
  Requests <- RaceRequests
  InitDisks <- MCDisks
  DisableAtStart = {FALSE}
  Serial = FALSE
  Faults = {"kill", "read"}
SYMMETRY Symmetry3
INVARIANT TypeOK
INVARIANT ToldOnDisk
INVARIANT IndInv
PROPERTY IdNeverReassigned
PROPERTY ImplementsLedger
