SPECIFICATION Spec
CONSTANTS
  t1 = t1
  t2 = t2
  t3 = t3
  a = a
  aNul = aNul
  b = b
  NULL = NULL
  Dangling = Dangling
  Absent = Absent
  NoCall = NoCall
  Threads = {t1, t2, t3}
  Strings = {a, aNul, b}
  CStr <- MCCStr
  LoadIds = {4}
  FirstId = 1
  MaxFinds = 2
SYMMETRY MCSymmetry
INVARIANT IndInv
INVARIANT FreshIds
PROPERTY ImplementsIndex
