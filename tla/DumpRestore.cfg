SPECIFICATION FairSpec
CONSTANTS
  empty = empty
  word = word
  None = None
  NumID <- MCNumID
  Words <- MCWords
  Strings <- MCStrings
  EmptyString <- MCEmptyString
  KeyRank <- MCKeyRank
  BatchSize = 2
  Sources <- MCSources
  Targets <- MCTargets
  Faults = {"cut", "write", "read", "kill"}
INVARIANT TypeOK
INVARIANT RoundTrip
INVARIANT CopyInv
INVARIANT PrefixRestored
INVARIANT WrongFormatWritesNothing
PROPERTY ToolsEnd
