SPECIFICATION ZiplistSpec
CONSTANTS
  BigLen = 8
  Str06Max = 4
  Str14Max = 9
  LenMax = 3
  Elems <- SmallElems
  MaxLen = 5
  ShortInserts = TRUE
INVARIANTS ListExact
CHECK_DEADLOCK FALSE
