\* One pod whose two containers may both be killed.
CONSTANTS
  N = 2
  Templates <- MemoryTemplates
  SizedPods = {"p"}
  MaxMem = 8
  MaxCpu = 6
  MaxUse = 2
  MostCopies = 3
  Hour = 1
  MaxKills = 2
  MaxMishaps = 0
  BumpNum = 5
  BumpDen = 2
  MemFloor = 2
  LeastCpu = 1
  ReplicasLimit = 2
  MaxInt = 3
SPECIFICATION SizingSpec
PROPERTY BumpRaises
