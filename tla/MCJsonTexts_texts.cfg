SPECIFICATION Spec
CONSTANTS
  Families <- MCFamilies
  Pieces <- MCPieces
  FlagSets <- MCFlagSets
  Quotas <- MCQuotas
  Options <- MCOptions
  MaxPieces <- MCMaxPieces
  HashedPieces = 2
  Slack <- MCSlack
  Groups <- MCGroups
  Decimals <- MCDecimals
  Vectors <- MCVectors
  Trees <- MCTrees
  OtherPointers <- MCOtherPointers
  MaxUint = 31
  MaxUint64 = 6331
  MaxExact = 35
  MaxDigits = 2
  MaxExp10 = 9
  MaxDouble = 1797000000
  IntMax = 255
  InitialCapacity = 8
  IndentCount = 2
  DoubleBuffer = 25
INVARIANTS ReaderMeetsGrammar ParsersAgree WrittenReadsBack HashesAgree
CHECK_DEADLOCK FALSE
