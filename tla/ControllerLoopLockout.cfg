\* One loop whose analysis may yield nothing, as it does in a quiet cluster.
CONSTANTS
  Controllers = {"gpu-optimizer"}
  Window = 2
  Cooldown = 2
  MinSamples = 2
  ThresholdNum = 1
  ThresholdDen = 2
  MinItems = 0
  MaxItems = 1
SPECIFICATION FairSpec
PROPERTY ComesBack
