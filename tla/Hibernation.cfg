\* Two groups; one call may fail anywhere, and once the process may be restarted
\* or somebody else may scale a group, before, in or after any job.
CONSTANTS
  Groups = {"a", "b"}
  Excluded = {}
  ReadsAtSetup = TRUE
  MaxSize = 2
  MaxFaults = 1
  MaxDisturbances = 1
SPECIFICATION FairSpec
INVARIANT Remembers
PROPERTIES CleanWakeRestores JobsEnd WakesUp
