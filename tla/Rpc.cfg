SPECIFICATION FairSpec
CONSTANTS
  t1 = t1
  t2 = t2
  t3 = t3
  t4 = t4
  str = str
  junk = junk
  None = None
  Threads = {t1, t2, t3, t4}
  Strings <- MCStrings
  NumID <- MCNumID
  FailureIdx <- MCFailureIdx
  Requests <- MCRequests
  Answer <- MCAnswer
  MinSeq <- MCMinSeq
  MaxSeq = 2
  FirstSeq = 1
  MaxCalls = 4
  Programs <- MCPrograms
INVARIANT TypeOK
INVARIANT OwnAnswer
INVARIANT AskedAsMeant
INVARIANT SomeoneReads
INVARIANT DeadForCause
PROPERTY ImplementsCalls
PROPERTY EveryCallEnds
