\* The parts side by side, each with instances of its own.
CONSTANTS
  \* A pod of two containers that is killed once, and one change by its owner
  \* or one refused request.
  N = 2
  Templates <- MixedTemplates
  SizedPods = {"p"}
  MaxMem = 8
  MaxCpu = 6
  MaxUse = 2
  MostCopies = 3
  Hour = 1
  MaxKills = 1
  MaxMishaps = 1
  BumpNum = 5
  BumpDen = 2
  MemFloor = 2
  LeastCpu = 1
  ReplicasLimit = 2
  MaxInt = 3
  CpuTop = 9
  MemTop = 8
  UseTop = 2
  CpuFloor = 3
  MemLeast = 2
  MemDelta = 2
  TargetPct = 90
  ENodes = {"n1", "n2", "n3"}
  EGroups = {"g"}
  GroupOf <- NodeGroups
  ECap = 10
  ECosts = {3, 9}
  EUses = {0, 1, 4}
  EWorkloads = {"w"}
  Asked <- AskedKinds
  CpuPrice = 1
  MemPrice = 1
  Namings <- NamingKinds
  Least = 5
  PNodes = {"n1", "n2", "n3"}
  PPods = {"p", "q", "r"}
  Zone <- Zones3
  NoZone = "none"
  Room <- Rooms
  Pool <- NodePools
  Kinds <- PodKinds
  MaxSkew = 1
  BNodes = {"n1", "n2"}
  BPods = {"p", "q", "r"}
  NodeOf <- Homes
  Spaces = {"s", "t"}
  Owners = {"o"}
  Teams = {"x"}
  Weights = {0, 1}
  MostReplicas = 6
  ReplicaRequest = 4
  Loads = {0, 7}
  \* One group and the nodes that belong to none; the minimum is halved up to
  \* twice, with the gate for big steps and for the last one.
  Groups = {"a"}
  MaxSize = 3
  CacheTime = 1
  MaxOutside = 1
  ObservationPeriod = 2
  GateEnabled = TRUE
  MaxEvictNodes = 1
  \* Two replicas, on the GPU node or not; two faults, one scaling by the
  \* owner and one outdated count.
  Replicas = 2
  MaxReplicas = 4
  MaxFaults = 2
  MaxScaled = 1
  MaxOutdated = 1
SPECIFICATION DecisionsSpec
INVARIANTS
  DecisionsTypeOK  PlacementsSound CostsAddUp OnlyHalves
  DowntimeOnlyIfMisled SurgesAccounted
PROPERTIES
  BumpsOnce ScalersAgree  DownsizesSound AdviceSound
  MinimumsEarned
\* A bound is reached, or nothing is recommended.
CHECK_DEADLOCK FALSE
