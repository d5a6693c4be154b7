SPECIFICATION Spec
CONSTANTS
  Texts <- MCTexts
  Added <- MCAdded
  NameSet <- MCNames
  Strings <- MCStrings
  Reserved = {3}
  MaxSize = 3
  Scalars <- MCScalars
  Meaning <- MCMeaning
  NoTree <- MCNoTree
  MaxOps = 4
  ChunkCapacity = 6
  DefaultCapacity = 2
  ShortSize = 1
  CellUnits = 2
  MaxUint = 31
  MaxUint64 = 6331
  MaxExact = 35
  MaxDigits = 2
  MaxExp10 = 9
  MaxDouble = 1797000000
  IntMax = 255
  InitialCapacity = 8
PROPERTY ImplementsTree
CHECK_DEADLOCK FALSE
