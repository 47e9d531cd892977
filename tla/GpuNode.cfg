\* A node with up to two NoExecute taints, every level of GPU demand, one
\* declined action, one restart and one taint its operator adds.
SPECIFICATION FairSpec
CONSTANTS
  NoExecTaints = {t1, t2}
  Demands = {"none", "light", "busy", "starved"}
  CPUFallbackEnabled = TRUE
  CPUScavengingEnabled = TRUE
  ReclaimEnabled = TRUE
  IdleDuration = 2
  GracePeriod = 1
  MaxDeclined = 1
  MaxRestarts = 1
  MaxAdded = 1
  t1 = t1
  t2 = t2
INVARIANTS NeverUnmarked NoTaintLost
PROPERTY FallbackEnds
