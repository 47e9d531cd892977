\* One restart; the client reads from the manager's cache.
CONSTANTS
  Groups = {"a"}
  Excluded = {}
  ReadsAtSetup = FALSE
  MaxSize = 2
  MaxFaults = 0
  MaxDisturbances = 1
SPECIFICATION Spec
INVARIANT PersistedIsKnown
