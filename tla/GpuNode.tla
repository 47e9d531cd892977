------------------------------- MODULE GpuNode -------------------------------
(***************************************************************************)
(* One GPU node under the GPU optimizer of internal/controller/gpu: the    *)
(* detector of idle GPUs, the fallback manager, the scavenger, the         *)
(* redistributor's evacuation and the reclaimer, all run by one goroutine. *)
(* Each cycle they analyze the same snapshot of the cluster state, which   *)
(* another goroutine refreshes, and their actions are then executed one by *)
(* one, in the order of the analyses, on the node as the API server has it.*)
(*                                                                         *)
(* Other nodes matter only to whether displaced pods find room.  An action *)
(* that finds none, that the AI gate or the mode stops, or whose update    *)
(* fails, is declined: it changes nothing.  Annotations nobody reads, and  *)
(* the headroom figure that update-cpu-scavenging rewrites, are left out.  *)
(***************************************************************************)
EXTENDS Integers

CONSTANTS
  NoExecTaints,   \* the node's NoExecute taints that do not stem from its health
  Demands,        \* what GPU pods may ask of the node
  CPUFallbackEnabled, CPUScavengingEnabled, ReclaimEnabled,   \* configuration
  IdleDuration,   \* cycles before an idle GPU is given to CPU pods
  GracePeriod,    \* cycles before pods are reclaimed from an idle GPU node
  MaxDeclined, MaxRestarts, MaxAdded   \* bounds

AllDemands == {"none", "light", "busy", "starved"}

ASSUME DemandsAssumption == Demands \subseteq AllDemands /\ "none" \in Demands
ASSUME SwitchesAssumption ==
  {CPUFallbackEnabled, CPUScavengingEnabled, ReclaimEnabled} \subseteq BOOLEAN
ASSUME PeriodsAssumption == IdleDuration \in Nat \ {0} /\ GracePeriod \in Nat \ {0}
ASSUME BoundsAssumption ==
  MaxDeclined \in Nat /\ MaxRestarts \in Nat /\ MaxAdded \in Nat

VARIABLES
  node,       \* taints and marks of the node
  demand,     \* its GPU pods: none, few of its GPUs, most, or most of its CPU as well
  strays,     \* there are non-GPU pods on it that may be evicted
  view,       \* node, demand and strays as the snapshot has them
  idleSince,  \* cycles since the detector found the GPU idle
  straySince, \* cycles since the reclaimer found the pods stranded
  agenda,     \* actions of this cycle not yet executed
  owed,       \* history: the NoExecute taints put on the node by its operator
  declined, restarts, added   \* counters of what is bounded

bounds == <<declined, restarts, added>>
vars == <<node, demand, strays, view, idleSince, straySince, agenda, owed, bounds>>

Node ==
  [tainted : BOOLEAN,                \* nvidia.com/gpu:NoSchedule
   noExec : SUBSET NoExecTaints,
   fallback : BOOLEAN,               \* annotation koptimizer.io/gpu-fallback
   scavenging : BOOLEAN,             \* label koptimizer.io/cpu-scavengeable
   saved : SUBSET NoExecTaints]      \* annotation scavenger-saved-taints

Actions == {"enable-fallback", "disable-fallback", "scavenge", "stop-scavenging",
            "evacuate", "reclaim"}

\* The order in which the analyses append their recommendations.
Rank == [a \in Actions |->
           CASE a = "enable-fallback" -> 1
             [] a = "disable-fallback" -> 2
             [] a \in {"scavenge", "stop-scavenging"} -> 3
             [] a = "evacuate" -> 4
             [] a = "reclaim" -> 5]

Untracked == -1

TypeOK ==
  /\ node \in Node
  /\ demand \in Demands
  /\ strays \in BOOLEAN
  /\ view \in [node : Node, demand : Demands, strays : BOOLEAN]
  /\ idleSince \in Untracked .. IdleDuration
  /\ straySince \in Untracked .. GracePeriod
  /\ agenda \subseteq Actions
  /\ owed \subseteq NoExecTaints
  /\ declined \in 0 .. MaxDeclined /\ restarts \in 0 .. MaxRestarts /\ added \in 0 .. MaxAdded

Seen == [node |-> node, demand |-> demand, strays |-> strays]

\* The node as its provisioner tainted it.
Init ==
  /\ node \in [tainted : {TRUE}, noExec : SUBSET NoExecTaints, fallback : {FALSE},
               scavenging : {FALSE}, saved : {{}}]
  /\ demand \in Demands
  /\ strays = FALSE
  /\ view = Seen
  /\ idleSince = Untracked /\ straySince = Untracked
  /\ agenda = {}
  /\ owed = node.noExec
  /\ declined = 0 /\ restarts = 0 /\ added = 0

-----------------------------------------------------------------------------
(* The analyses of a cycle, all of the snapshot.                           *)

\* A timer: started when the condition is first seen, dropped when it is not.
Tracked(since, limit, condition) ==
  IF ~condition THEN Untracked
  ELSE IF since < limit THEN since + 1 ELSE limit

\* Few enough of the GPUs are used for the detector.
GpuIdle == view.demand \in {"none", "light"}

\* The detector runs whether or not fallback is switched on.
IdleForLong == GpuIdle /\ Tracked(idleSince, IdleDuration, GpuIdle) = IdleDuration

DemandReturned == CPUFallbackEnabled /\ view.node.fallback /\ view.demand # "none"

\* The CPU left beside the GPU pods and the reserve reaches the threshold.
Headroom == view.demand # "starved"

Scavengeable ==
  /\ CPUScavengingEnabled /\ ~view.node.fallback
  /\ Headroom /\ ~view.node.scavenging

Exhausted ==
  /\ CPUScavengingEnabled /\ ~view.node.fallback
  /\ ~Headroom /\ view.node.scavenging

\* Pods are stranded on a node without GPU pods.
Stranded == view.demand = "none" /\ view.strays

StrandedForLong ==
  /\ ReclaimEnabled /\ Stranded
  /\ Tracked(straySince, GracePeriod, Stranded) = GracePeriod

Recommended ==
  {a \in Actions :
     CASE a = "enable-fallback" -> IdleForLong
       [] a = "disable-fallback" -> DemandReturned
       [] a = "scavenge" -> Scavengeable
       [] a = "stop-scavenging" -> Exhausted
       [] a = "evacuate" -> CPUScavengingEnabled /\ Stranded
       [] a = "reclaim" -> StrandedForLong}

Analyze ==
  /\ agenda = {}
  /\ agenda' = Recommended
  /\ idleSince' = Tracked(idleSince, IdleDuration, GpuIdle)
  /\ straySince' = Tracked(straySince, GracePeriod, ReclaimEnabled /\ Stranded)
  /\ UNCHANGED <<node, demand, strays, view, owed, bounds>>

-----------------------------------------------------------------------------
(* The executions, each on the node as it is now.                          *)

Turn(a) ==
  /\ a \in agenda
  /\ \A b \in agenda : Rank[a] <= Rank[b]
  /\ agenda' = agenda \ {a}

Tainted(n) == [n EXCEPT !.tainted = TRUE]

\* The NoExecute taints that scavenging took away are put back.
Restored(n) == [n EXCEPT !.noExec = @ \union n.saved, !.saved = {}]

\* Mutant of EnableFallback: the mark is not made.
EnableFallbackUnmarked ==
  /\ Turn("enable-fallback")
  /\ node' = [node EXCEPT !.tainted = FALSE]
  /\ UNCHANGED <<strays, straySince>>

EnableFallback ==
  /\ Turn("enable-fallback")
  /\ node' = [node EXCEPT !.tainted = FALSE, !.fallback = TRUE]
  /\ UNCHANGED <<strays, straySince>>

\* Mutant of DisableFallback: the annotation is left behind.
DisableFallbackKeepsMark ==
  /\ Turn("disable-fallback")
  /\ node' = Tainted(node)
  /\ UNCHANGED <<strays, straySince>>

DisableFallback ==
  /\ Turn("disable-fallback")
  /\ node' = [Tainted(node) EXCEPT !.fallback = FALSE]
  /\ UNCHANGED <<strays, straySince>>

\* Mutant of Scavenge: the list is written even when it is empty.
ScavengeSavesNothing ==
  /\ Turn("scavenge")
  /\ node' = [node EXCEPT !.scavenging = TRUE, !.tainted = FALSE, !.noExec = {},
                          !.saved = node.noExec]
  /\ UNCHANGED <<strays, straySince>>

\* The saved taints are overwritten only if there is something to save.
Scavenge ==
  /\ Turn("scavenge")
  /\ node' = [node EXCEPT !.scavenging = TRUE, !.tainted = FALSE, !.noExec = {},
                          !.saved = IF node.noExec # {} THEN node.noExec ELSE @]
  /\ UNCHANGED <<strays, straySince>>

StopScavenging ==
  /\ Turn("stop-scavenging")
  /\ node' = [Restored(Tainted(node)) EXCEPT !.scavenging = FALSE]
  /\ UNCHANGED <<strays, straySince>>

\* Some of the evacuated pods may be protected, or come to no other node.
Evacuate ==
  /\ Turn("evacuate")
  /\ strays' \in {strays, FALSE}
  /\ UNCHANGED <<node, straySince>>

\* The pods are evicted first, then the node is updated, which may fail.
Reclaim ==
  /\ Turn("reclaim")
  /\ strays' \in {strays, FALSE}
  /\ node' = [Restored(Tainted(node)) EXCEPT !.fallback = FALSE, !.scavenging = FALSE]
  /\ straySince' = Untracked

Execute ==
  /\ EnableFallback \/ DisableFallback \/ Scavenge \/ StopScavenging
       \/ Evacuate \/ Reclaim
  /\ UNCHANGED <<demand, view, idleSince, owed, bounds>>

Decline ==
  /\ declined < MaxDeclined
  /\ declined' = declined + 1
  /\ \E a \in Actions :
       /\ Turn(a)
       /\ IF a = "reclaim" THEN strays' \in {strays, FALSE} ELSE UNCHANGED strays
  /\ UNCHANGED <<node, demand, view, idleSince, straySince, owed, restarts, added>>

-----------------------------------------------------------------------------
(* The surroundings.                                                       *)

\* ClusterState.Refresh, at its own pace.
Refresh ==
  /\ view' = Seen
  /\ UNCHANGED <<node, demand, strays, idleSince, straySince, agenda, owed, bounds>>

\* GPU pods, which tolerate the taints, come and go.
DemandChanges ==
  /\ demand' \in Demands \ {demand}
  /\ UNCHANGED <<node, strays, view, idleSince, straySince, agenda, owed, bounds>>

\* Other pods land on the node only while no taint keeps them off.
StraysCome ==
  /\ ~strays
  /\ ~node.tainted /\ node.noExec = {}
  /\ strays' = TRUE
  /\ UNCHANGED <<node, demand, view, idleSince, straySince, agenda, owed, bounds>>

StraysLeave ==
  /\ strays
  /\ strays' = FALSE
  /\ UNCHANGED <<node, demand, view, idleSince, straySince, agenda, owed, bounds>>

\* The operator puts a NoExecute taint on the node.
OperatorTaints ==
  /\ added < MaxAdded
  /\ added' = added + 1
  /\ \E t \in NoExecTaints \ owed :
       node' = [node EXCEPT !.noExec = @ \union {t}] /\ owed' = owed \union {t}
  /\ UNCHANGED <<demand, strays, view, idleSince, straySince, agenda, declined, restarts>>

\* The timers are in memory; the snapshot is refreshed before it is used.
Restart ==
  /\ restarts < MaxRestarts
  /\ restarts' = restarts + 1
  /\ agenda' = {}
  /\ idleSince' = Untracked /\ straySince' = Untracked
  /\ view' = Seen
  /\ UNCHANGED <<node, demand, strays, owed, declined, added>>

Next ==
  \/ Analyze \/ Execute \/ Decline
  \/ Refresh \/ DemandChanges \/ StraysCome \/ StraysLeave \/ OperatorTaints \/ Restart

\* The two tickers fire and the controller's goroutine is scheduled.
Fairness == WF_vars(Analyze) /\ WF_vars(Execute) /\ WF_vars(Refresh)

Spec == Init /\ [][Next]_vars
FairSpec == Spec /\ Fairness

-----------------------------------------------------------------------------
\* A GPU node never loses its taint without bearing the mark by which the
\* fallback manager or the scavenger will find it and give the taint back.
NeverUnmarked == node.tainted \/ node.fallback \/ node.scavenging

\* Saved NoExecute taints are found again: a node that has some is labelled,
\* and only labelled nodes are stopped.
SavedIsFound == node.saved # {} => node.scavenging

\* "saving them so they can be restored when scavenging is disabled"
\* (scavenger.go:233): the NoExecute taints the node was provisioned with are on
\* it or saved for it, however stale the snapshots and however often the node is
\* scavenged, given up and reclaimed - so long as its operator has put no other on it.
NoTaintLost == added = 0 => owed \subseteq node.noExec \union node.saved

\* "When GPU demand returns, it re-taints" (fallback.go:52): when GPU pods that
\* use most of the node come to stay, it stops being a fallback node for good,
\* whatever was declined, restarted or decided on an old snapshot before.
FallbackEnds == <>[](demand \in {"busy", "starved"}) => <>[](~node.fallback)

=============================================================================
