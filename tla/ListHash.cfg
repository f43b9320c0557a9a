SPECIFICATION MCSpec
CONSTANTS
  SmallMin = 8
  SmallMax = 512
  SmallIncrement = 16
  MediumMax = 16384
  GrowthNum = 3
  GrowthDen = 2
  Sizes <- CellSizes
  pageSize = 3
  Offs = {0, 2, 3, 6, 8}
  Lens = {1, 2, 4, 7}
  MaxRanges = 3
  Readers <- TwoReaders
  RawNames <- FourNames
  Odd = {3}
  ShardFor <- TwoShards
  numShards = 2
  Capacities = {0, 1}
  Capacity = 4
  MaxReads = 3
  Kind = {"nk"}
  Parent = {1, 2}
  Name <- IndexNames
  Text <- IndexTexts
  Offset = {1, 2}
  None = 0
  MaxTouched = 3
  ToLower <- Lower
  LowerASCII <- LowerAZ
  FileBytes <- InFile
  Hash <- Hashes
  Names = {1, 11, 2}
  Datas <- FiveData
  Refs = {1, 2, 3, 4, 5, 6, 7, 8, 9, 10, 11, 12}
  Budgets = {1, 2, 4, 5, 9}
  MaxCalls = 3
  Parts = {"list"}
  g1 = g1
  g2 = g2
INVARIANT HashesRight
CHECK_DEADLOCK FALSE
