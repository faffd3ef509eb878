SPECIFICATION Spec
CONSTANTS
  empty = empty
  word = word
  None = None
  NumID <- MCNumID
  Words <- MCWords
  Strings <- MCStrings
  EmptyString <- MCEmptyString
  KeyRank <- MCKeyRank
  BatchSize = 2
  Sources <- NoSource
  Targets <- MCTargets
  Faults = {}
INVARIANT RestoreOfAny
