SPECIFICATION PartsSpec
CONSTANTS
  MaxElement = 3
  LongElements = {3}
  MaxEntries = 1
  MaxLevel = 2
  Scores <- SmallScores
  MaxScore = 2
  OtherSet = {1, 2}
  Adds <- SmallAdds
  Ranges <- SmallRanges
  Weights <- SmallWeights
  DictKeys = {0, 1, 5}
  InitialSize = 1
  MaxSize = 4
  MinFill = 40
  EmptyVisits = 2
  sa = sa
  sb = sb
  SetKeys = {sa, sb}
  Ints <- SmallInts
  Words = {1}
  Int16Max = 1
  Int32Max = 3
  Mangled <- SmallMangled
  MaxIntsetEntries = 3
  Unsigned = 8
  SaddArgs <- SmallSaddArgs
  KeyLists <- SmallKeyLists
  Counts <- SmallCounts
  BigLen = 8
  Str06Max = 4
  Str14Max = 9
  LenMax = 3
  Elems <- SmallElems
  MaxLen = 5
  ShortInserts = FALSE
  Fields <- SmallFields
  Values <- SmallValues
  HashMaxEntries = 2
  HashMaxValue = 8
  HmsetArgs <- SmallHmsetArgs
  MaxLL = 1
  Increments <- SmallIncrements
  HllKeys = {"a", "b"}
  P = 4
  HashBits = 12
  ValMaxValue = 2
  ValMaxLen = 2
  ZeroMaxLen = 4
  XzeroMaxLen = 16
  SparseMaxBytes = 7
  PfaddArgs <- MCPfaddArgs
  PfmergeArgs <- MCPfmergeArgs
INVARIANTS SortedSetsSound DictSound SetsSound ZiplistSound HashesSound HyperLogLogSound
CHECK_DEADLOCK FALSE
