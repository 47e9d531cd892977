\* One call fails.
CONSTANTS
  Groups = {"a"}
  Excluded = {}
  ReadsAtSetup = TRUE
  MaxSize = 2
  MaxFaults = 1
  MaxDisturbances = 0
SPECIFICATION Spec
PROPERTY WakeRestores
