\* Two writes and the shutdown task alone.
CONSTANTS
  w1 = w1  w2 = w2
  Writes = {w1, w2}
  BufSize = 2
  Drainers = {"shutdown"}
  Shutdown = "shutdown"
SPECIFICATION Spec
INVARIANT DrainRunsEverything
CHECK_DEADLOCK FALSE
