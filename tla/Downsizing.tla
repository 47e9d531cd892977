----------------------------- MODULE Downsizing -----------------------------
(***************************************************************************)
(* Downsizing a pod (analyzer.go and recommender.go of                     *)
(* internal/controller/rightsizer): the 95th percentiles the metrics store *)
(* has of its containers are added up, and CPU and memory requests that    *)
(* are far above are recommended to be lowered together.  Nothing applies  *)
(* such a recommendation by itself: here somebody does, again and again.   *)
(***************************************************************************)
EXTENDS Integers, FiniteSets, FiniteSetsExt

CONSTANTS
  CpuTop, MemTop,   \* bounds on requests
  UseTop,           \* bound on the use of a container
  CpuFloor,         \* MinCPUFloorMilli
  MemLeast,         \* MinMemFloorBytes
  MemDelta,         \* MinMemDeltaBytes
  TargetPct         \* CPUTargetUtilPct

ASSUME DownsizingAssumption ==
  /\ CpuTop \in Nat \ {0} /\ MemTop \in Nat \ {0} /\ UseTop \in Nat
  /\ CpuFloor \in Nat \ {0} /\ MemLeast \in Nat /\ MemDelta \in Nat \ {0}
  /\ TargetPct \in 1 .. 100

VARIABLES
  pod,    \* what the pod asks for, and the ratio of its node (0 is unknown)
  use     \* the containers' percentiles, and which of them the store has

downsizingVars == <<pod, use>>

PodContainers == {"main", "sidecar"}

DownsizingInit ==
  /\ pod = [cpu |-> 0, mem |-> 0, ratio |-> 0]
  /\ use = [cpu |-> [c \in PodContainers |-> 0], mem |-> [c \in PodContainers |-> 0],
            seen |-> {}]

\* The sum over the containers the store has a window of.
P95(what) == SumFunctionOnSet(use[what], use.seen)

Uses(what) == SumFunctionOnSet(use[what], PodContainers)

OverProvisioned == 200 * P95("cpu") < TargetPct * pod.cpu

\* 20 % above the use, 70 % of the request, and the floor.
CpuTarget == Max({(12 * P95("cpu")) \div 10, (7 * pod.cpu) \div 10, CpuFloor})

\* Mutant of MemTarget: the node and the floor decide, not the use.
MemTargetByRatio ==
  LET wanted == IF pod.ratio > 0 THEN CpuTarget * pod.ratio
                                 ELSE (pod.mem * CpuTarget) \div pod.cpu
  IN  Min({Max({wanted, MemLeast}), pod.mem})

\* As much as the node has for the CPU, or else in proportion to the CPU; not
\* less than 20 % above the use, nor more than now.
MemTarget ==
  LET wanted == IF pod.ratio > 0 THEN CpuTarget * pod.ratio
                                 ELSE (pod.mem * CpuTarget) \div pod.cpu
  IN  Min({Max({wanted, (12 * P95("mem")) \div 10, MemLeast}), pod.mem})

Validated ==
  /\ CpuTarget < pod.cpu /\ CpuTarget >= CpuFloor
  /\ MemTarget <= pod.mem /\ pod.mem - MemTarget >= MemDelta

\* A pod without requests is not analyzed; one without a window has no data
\* points, and the fallback to its present use leads nowhere.
Downsizable ==
  /\ pod.cpu > 0 /\ pod.mem > 0 /\ use.seen # {}
  /\ OverProvisioned /\ P95("cpu") > 0
  /\ Validated

\* A pod comes up for analysis.
Examine ==
  /\ pod = [cpu |-> 0, mem |-> 0, ratio |-> 0]
  /\ pod' \in [cpu : 1 .. CpuTop, mem : 1 .. MemTop, ratio : 0 .. 2]
  /\ use' \in [cpu : [PodContainers -> 0 .. UseTop], mem : [PodContainers -> 0 .. UseTop],
               seen : (SUBSET PodContainers) \ {{}}]

ApplyDownsize ==
  /\ Downsizable
  /\ pod' = [pod EXCEPT !.cpu = CpuTarget, !.mem = MemTarget]
  /\ UNCHANGED use

DownsizingNext == Examine \/ ApplyDownsize

-----------------------------------------------------------------------------
\* A downsized pod still asks for what its containers use, CPU and memory,
\* although the memory follows the CPU and the node, if the store has seen all
\* of them (recommender.go:54: "validated against safety invariants").  A
\* container the store has no window of counts as unused, but the floors hold.
DownsizeCovers ==
  [][ApplyDownsize /\ use.seen = PodContainers =>
       /\ pod'.cpu >= Uses("cpu") /\ pod'.mem >= Uses("mem")
       /\ pod'.cpu >= CpuFloor /\ pod'.mem >= MemLeast]_downsizingVars

\* Applied again and again, recommendations come to an end.
DownsizeEnds == <>[](~Downsizable)

\* Applying what is recommended again and again never takes a pod below what it
\* uses, and comes to an end.
DownsizesSound == DownsizeCovers /\ DownsizeEnds

=============================================================================
