--------------------------- MODULE ClusterRefresh ---------------------------
(***************************************************************************)
(* ClusterState.Refresh of internal/state/cluster.go as the node group     *)
(* manager sees it: the minimum of every node group, as the cloud has it,  *)
(* and its utilization, from the metrics server or a cache of what the     *)
(* metrics server said last.                                               *)
(*                                                                         *)
(* A refresh fetches without the lock and publishes under it; other things *)
(* happen in between.  One node stands for the nodes of a group, which are *)
(* used alike; some nodes belong to no group.  CPU and memory are one:     *)
(* "low" is both below the threshold.  The level of a node without metrics *)
(* is zero, which is low.  A refresh whose listing of nodes, pods or node  *)
(* groups fails changes nothing and is not a step.                         *)
(***************************************************************************)
EXTENDS Integers

CONSTANTS
  Groups,       \* node group IDs
  MaxSize,      \* bound on the minimum of a group
  CacheTime,    \* how long cached metrics may be used
  MaxOutside    \* bound on the minimums others set

ASSUME SizeAssumption == MaxSize \in Nat \ {0}
ASSUME CacheAssumption == CacheTime \in Nat \ {0}
ASSUME OutsideAssumption == MaxOutside \in Nat

VARIABLES
  minCount,     \* the cloud's minimum of every group
  load,         \* how much the group's nodes are used
  fetched,      \* what the refresh under way has fetched: a set of at most one
  view,         \* the published minimum and level of every group
  lastMetrics,  \* lastNodeMetrics
  sinceUpdate,  \* the age of lastMetricsUpdate
  dataAge,      \* history: the age of the answer that lastMetrics came from
  outside       \* counter of what is bounded

clusterVars ==
  <<minCount, load, fetched, view, lastMetrics, sinceUpdate, dataAge, outside>>

Sizes == 0 .. MaxSize
Unlisted == -1   \* a group the state does not have yet
Ungrouped == "no group"
Nodes == Groups \union {Ungrouped}

\* What is known of every node; of those without a group it makes no difference.
Metrics == [Nodes -> {"missing", "low", "high"}]
NoMetrics == [n \in Nodes |-> "missing"]

Fetched == [min : [Groups -> Sizes], metrics : Metrics, cached : BOOLEAN]
GroupView == [min : Sizes \union {Unlisted}, low : BOOLEAN]

ClusterTypeOK ==
  /\ minCount \in [Groups -> Sizes]
  /\ load \in [Groups -> {"low", "high"}]
  /\ fetched \subseteq Fetched
  /\ view \in [Groups -> GroupView]
  /\ lastMetrics \in Metrics
  /\ sinceUpdate \in 0 .. CacheTime
  /\ dataAge \in 0 .. CacheTime
  /\ outside \in 0 .. MaxOutside

\* A new process knows nothing until its first refresh.
ClusterInit ==
  /\ minCount \in [Groups -> Sizes]
  /\ load \in [Groups -> {"low", "high"}]
  /\ fetched = {}
  /\ view = [g \in Groups |-> [min |-> Unlisted, low |-> FALSE]]
  /\ lastMetrics = NoMetrics
  /\ sinceUpdate = 0 /\ dataAge = 0
  /\ outside = 0

-----------------------------------------------------------------------------
Level(n) == IF n = Ungrouped THEN "low" ELSE load[n]

\* The metrics server has an answer for some nodes; none at all is a failure.
Answer(answered) == [n \in Nodes |-> IF n \in answered THEN Level(n) ELSE "missing"]

CacheUsable == lastMetrics # NoMetrics /\ sinceUpdate < CacheTime

\* The first part of Refresh: everything is fetched, before the lock is taken.
Fetch ==
  /\ fetched = {}
  /\ \E answered \in SUBSET Nodes :
       LET useCache == answered = {} /\ CacheUsable
       IN  fetched' = {[min |-> minCount,
                        metrics |-> IF useCache THEN lastMetrics ELSE Answer(answered),
                        cached |-> useCache]}
  /\ UNCHANGED <<minCount, load, view, lastMetrics, sinceUpdate, dataAge, outside>>

\* The rest of Refresh, under the lock: cached metrics are cached anew.
Publish ==
  \E f \in fetched :
    /\ view' = [g \in Groups |-> [min |-> f.min[g], low |-> f.metrics[g] # "high"]]
    /\ fetched' = {}
    /\ IF f.metrics # NoMetrics
       THEN /\ lastMetrics' = f.metrics
            /\ sinceUpdate' = 0
            /\ dataAge' = IF f.cached THEN dataAge ELSE 0
       ELSE UNCHANGED <<lastMetrics, sinceUpdate, dataAge>>
    /\ UNCHANGED <<minCount, load, outside>>

Older(age, limit) == IF age < limit THEN age + 1 ELSE limit

\* A unit of time passes for the cache.
CacheAges ==
  /\ sinceUpdate' = Older(sinceUpdate, CacheTime)
  /\ dataAge' = Older(dataAge, CacheTime)
  /\ UNCHANGED <<minCount, load, fetched, view, lastMetrics, outside>>

LoadChanges ==
  /\ \E g \in Groups, l \in {"low", "high"} :
       l # load[g] /\ load' = [load EXCEPT ![g] = l]
  /\ UNCHANGED <<minCount, fetched, view, lastMetrics, sinceUpdate, dataAge, outside>>

\* Hibernation, an operator or another tool sets a minimum.
OutsideSets ==
  /\ outside < MaxOutside
  /\ outside' = outside + 1
  /\ \E g \in Groups, n \in Sizes :
       n # minCount[g] /\ minCount' = [minCount EXCEPT ![g] = n]
  /\ UNCHANGED <<load, fetched, view, lastMetrics, sinceUpdate, dataAge>>

-----------------------------------------------------------------------------
\* "Metrics cache: persist last successful metrics data for 5 min"
\* (cluster.go:60): what a refresh takes from the cache was an answer of the
\* metrics server less than that time ago.
CacheExpires ==
  [][\A f \in fetched' \ fetched : f.cached => dataAge < CacheTime]_clusterVars

=============================================================================
