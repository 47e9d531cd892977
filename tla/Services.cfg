\* The parts side by side, each with instances of its own.
CONSTANTS
  \* Three events and one foreign write, a ring of two and a channel of two, so
  \* that both fill; the shutdown task and one other caller race in Drain.
  e1 = e1  e2 = e2  e3 = e3  m1 = m1
  Writes = {e1, e2, e3, m1}
  Events = {e1, e2, e3}
  MaxEvents = 2
  BufSize = 2
  Drainers = {"shutdown", "flush"}
  Shutdown = "shutdown"
  \* One controller: entries of the breaker's map never interact.
  Controllers = {"gpu-optimizer"}
  Window = 2
  Cooldown = 2
  MinSamples = 5
  ThresholdNum = 1
  ThresholdDen = 2
  MaxRecords = 5
  \* Two series in a store for one.
  Keys = {1, 2}
  Cap = 1
  Retention = 1
  MaxTime = 2
  MaxPoints = 2
  Types = {"small", "large"}
  Odd = {"small"}
  CacheTTL = 2
  TableTTL = 4
  MaxRequests = 3
  MaxInFlight = 2
  Costs = {1, 4, 16}
  WindowSize = 4
  Least = 3
  Deviations = 1
  AlertCooldown = 1
  MaxFailed = 1
  MaxUnwritten = 1
  MaxAdded = 3
  MaxEdits = 1
  Repeat = 2
  DrainPods = {"p", "q"}
  Expiry = 1
  MaxAge = 2
  MostNodes = 2
  Uncapped = 5
  MaxZones = 2
  MaxOthers = 1
  MaxSends = 2
  Names = {"a"}
  MaxLives = 2
  MostPods = 4
SPECIFICATION ServicesSpec
INVARIANTS
  ServicesTypeOK NoSendOnClosed SurvivesShutdown LogInOrder OneAtATime
  
PROPERTIES
  KeepsPromise ShutdownCompletes TripsOnEvidence SeriesKept PricesFresh
  LastSetSurvives SpikesReported ChannelsServed DoomedNodeEmpties
  PoolsRespected GhostsVanish StuckPodsGo
\* Once the process has shut down, or a bound is reached, nothing is left to do.
CHECK_DEADLOCK FALSE
