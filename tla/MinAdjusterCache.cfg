\* The metrics server answers once and never again.
CONSTANTS
  Groups = {"a"}
  MaxSize = 1
  CacheTime = 2
  MaxOutside = 0
  ObservationPeriod = 1
  GateEnabled = TRUE
  MaxEvictNodes = 3
SPECIFICATION MinSpec
PROPERTY CacheExpires
