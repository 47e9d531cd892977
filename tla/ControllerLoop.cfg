\* One loop of each kind that reports differently; every analysis of the two
\* that execute yields one item.
CONSTANTS
  Controllers = {"hibernation", "node-group-manager", "pod-purger"}
  Window = 1
  Cooldown = 1
  MinSamples = 1
  ThresholdNum = 1
  ThresholdDen = 2
  MinItems = 1
  MaxItems = 1
SPECIFICATION FairSpec
PROPERTIES KeepsContract ReportersComeBack
