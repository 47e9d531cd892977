--------------------------- MODULE WorkloadSizing ---------------------------
(***************************************************************************)
(* The workload scaler (internal/controller/workloadscaler) beside the     *)
(* rightsizer, on one workload: vertical recommendations from the pods'    *)
(* use of CPU and memory, a horizontal one when the autoscaler stands at   *)
(* its maximum, one for a surge (see SurgeDetector), the coordinator that  *)
(* keeps vertical and horizontal changes apart, and their execution.       *)
(***************************************************************************)
EXTENDS Rightsizer

CONSTANTS
  MemFloor,        \* the least memory a vertical change asks for (64Mi)
  LeastCpu,        \* the least CPU one asks for (50m)
  ReplicasLimit,   \* MaxReplicasLimit; 0 is none
  MaxInt           \* the greatest int32

ASSUME ScalerAssumption ==
  MemFloor \in Nat \ {0} /\ LeastCpu \in Nat \ {0} /\ ReplicasLimit \in Nat /\ MaxInt \in Nat

\* The bounds are bounds: no vertical change asks for more memory or CPU, and no
\* horizontal one for more copies.
ASSUME SizingBounds ==
  /\ MemFloor <= MaxMem /\ (13 * MaxUse) \div 10 <= MaxMem
  /\ LeastCpu <= MaxCpu /\ (13 * MaxUse) \div 10 <= MaxCpu
  /\ MostCopies <= MaxInt
  /\ IF ReplicasLimit > 0 THEN ReplicasLimit <= MostCopies ELSE MostCopies = MaxInt

VARIABLES
  sizings,   \* the workload scaler's recommendations not yet executed
  did       \* history: what was changed since the last analysis

sizingVars == <<workloadVars, rightsizerVars, sizings, did>>

Scaling ==
  [scaling : {"vertical", "horizontal"}, target : {"ReplicaSet", "Deployment", "StatefulSet"},
   of : {"mem", "cpu", "copies"}, hpa : BOOLEAN, auto : BOOLEAN, value : Nat]

SizingTypeOK ==
  /\ WorkloadTypeOK /\ RightsizerTypeOK
  /\ sizings \subseteq Scaling
  /\ did \subseteq {"vertical", "horizontal", "owner"}

SizingInit == WorkloadInit /\ RightsizerInit /\ sizings = {} /\ did = {}

-----------------------------------------------------------------------------
(* Analyze.                                                                *)

PodRequest == Requests(podSpec, Containers)
PodCpu == Requests(podCpu, Containers)

\* Used, by less than 30 %, and more than the floor is asked for.
OversizedMem(used) == used > 0 /\ 100 * used < 30 * PodRequest /\ PodRequest > MemFloor

\* Used or not, by less than 30 %, and more than twice the floor (100m).
OversizedCpu(used) == 100 * used < 30 * PodCpu /\ PodCpu > 2 * LeastCpu

\* 30 % more than is used, and no less than the floor.
VerticalTo(what, used, floor) ==
  LET wanted == (13 * used) \div 10
  IN  [scaling |-> "vertical", target |-> OwnerKind, of |-> what, hpa |-> FALSE, auto |-> TRUE,
       value |-> IF wanted < floor THEN floor ELSE wanted]

\* Of one pod; a pod that asks for no CPU is passed over.
Verticals(mem, cpu) ==
  (IF PodCpu > 0 /\ OversizedMem(mem) THEN {VerticalTo("mem", mem, MemFloor)} ELSE {})
    \union (IF PodCpu > 0 /\ OversizedCpu(cpu) THEN {VerticalTo("cpu", cpu, LeastCpu)} ELSE {})

\* An int32 of the machine.
Wrapped(n) == IF n > MaxInt THEN n - 2 * (MaxInt + 1) ELSE n

\* Half as much again, at least one more, within an int32 and the limit.
NewMax ==
  LET sum  == Wrapped(hpaMax + (IF hpaMax < 2 THEN 1 ELSE hpaMax \div 2))
      more == IF sum < hpaMax THEN MaxInt ELSE sum
  IN  IF ReplicasLimit > 0 /\ more > ReplicasLimit THEN ReplicasLimit ELSE more

Horizontal ==
  [scaling |-> "horizontal", target |-> kind, of |-> "copies", hpa |-> TRUE, auto |-> TRUE,
   value |-> NewMax]

\* Mutant of Maxed: the present maximum is not compared.
MaxedAnyway == IF pressure THEN {Horizontal} ELSE {}

\* An autoscaler at its maximum, which the limit lets rise.
Maxed == IF pressure /\ NewMax > hpaMax THEN {Horizontal} ELSE {}

\* The surge detector knows the owner of the pods and no autoscaler.
SizingSurge ==
  [scaling |-> "horizontal", target |-> OwnerKind, of |-> "copies", hpa |-> FALSE, auto |-> TRUE,
   value |-> 0]

\* Mutant of Resolve: whatever is to be changed vertically.
ResolveByAny(recs) ==
  {IF r.scaling = "horizontal" /\ \E v \in recs : v.scaling = "vertical"
   THEN [r EXCEPT !.auto = FALSE] ELSE r : r \in recs}

\* Of one target's recommendations the vertical ones go first: the horizontal
\* ones stay, but are not executed.
Resolve(recs) ==
  {IF r.scaling = "horizontal" /\ \E v \in recs : v.scaling = "vertical" /\ v.target = r.target
   THEN [r EXCEPT !.auto = FALSE] ELSE r : r \in recs}

ScalerAnalyze ==
  /\ sizings = {}
  /\ \E surges \in BOOLEAN, mem, cpu \in [SizedPods -> 0 .. MaxUse] :
       sizings' = Resolve((IF surges THEN {SizingSurge} ELSE {})
                           \union (UNION {Verticals(mem[p], cpu[p]) : p \in SizedPods})
                           \union Maxed)
  /\ did' = {}
  /\ UNCHANGED <<workloadVars, rightsizerVars>>

-----------------------------------------------------------------------------
(* Execute.                                                                *)

\* The suggestion, meant for the pod, is given to every container.
VerticalPatch(r) == [c \in Containers |-> r.value]

\* The API server refuses memory above the limit.
Refused(r) == r.of = "mem" /\ ~Accepted(VerticalPatch(r))

\* Only the owner kinds that can be patched are; a ReplicaSet is passed over.
ExecuteVertical(r) ==
  /\ r.scaling = "vertical" /\ r.target \in {"Deployment", "StatefulSet"} /\ ~Refused(r)
  /\ template' = IF r.of = "mem" THEN VerticalPatch(r) ELSE template
  /\ cpuTemplate' = IF r.of = "cpu" THEN VerticalPatch(r) ELSE cpuTemplate
  /\ did' = did \union {"vertical"}
  /\ UNCHANGED <<kind, limit, podSpec, podCpu, oomKilled, hpaMax, pressure, bounds>>

\* The maximum is set to what was computed, whatever it is by now.
ExecuteHorizontal(r) ==
  /\ r.scaling = "horizontal" /\ r.auto /\ r.hpa
  /\ hpaMax' = r.value
  /\ did' = did \union {"horizontal"}
  /\ UNCHANGED <<kind, limit, template, podSpec, cpuTemplate, podCpu>>
  /\ UNCHANGED <<oomKilled, pressure, bounds>>

\* Not to be executed, of an owner that is not patched, without an
\* autoscaler's name - an error each time -, or refused by the API server.
PassOver(r) ==
  /\ \/ ~r.auto
     \/ r.scaling = "horizontal" /\ ~r.hpa
     \/ r.scaling = "vertical" /\ (r.target = "ReplicaSet" \/ Refused(r))
  /\ UNCHANGED <<workloadVars, did>>

CallFails ==
  /\ bounds.mishaps < MaxMishaps /\ Spend("mishaps")
  /\ UNCHANGED <<kind, limit, template, podSpec, cpuTemplate, podCpu>>
  /\ UNCHANGED <<oomKilled, hpaMax, pressure, did>>

ScalerExecute ==
  /\ \E r \in sizings :
       /\ sizings' = sizings \ {r}
       /\ ExecuteVertical(r) \/ ExecuteHorizontal(r) \/ PassOver(r) \/ CallFails
  /\ UNCHANGED rightsizerVars

-----------------------------------------------------------------------------
SizingSurroundings ==
  /\ \/ OomKill /\ UNCHANGED did
     \/ OwnerChange /\ did' = did \union {"owner"}
  /\ UNCHANGED <<rightsizerVars, sizings>>

Rightsizing ==
  \/ OomAnalyze \/ OomCleanup \/ OomTick \/ Annotate \/ ReplacePods
  \/ \E b \in bumps : ApplyBump(b) \/ DropBump(b)

SizingNext ==
  \/ SizingSurroundings
  \/ Rightsizing /\ UNCHANGED <<sizings, did>>
  \/ ScalerAnalyze
  \/ ScalerExecute

SizingSpec == SizingInit /\ [][SizingNext]_sizingVars

-----------------------------------------------------------------------------
\* A container whose kill is left in its status is not recommended again within
\* the hour, although the tracker forgets, the pods change and some keep their
\* names (oomtracker.go:48: "without this guard, a new OOM rec would be emitted
\* every 60s cycle").
OncePerHour ==
  [][\A b \in bumps' \ bumps : sinceBump[b.target] = Hour]_sizingVars

\* The annotation is the request before the rightsizer's first patch, however
\* many patches follow and whatever others do to the workload in between
\* (actuator.go:459), if there were annotations then.
OriginalIsFirst ==
  first.annotated => originals = first.value

\* The rightsizer does nothing twice: a kill raises the memory once, and what a
\* workload had at first is noted once.
BumpsOnce == []OriginalIsFirst /\ OncePerHour

\* Between two analyses of the scaler a workload is not changed both ways
\* (coordinator.go: "to prevent HPA/VPA conflicts").
NotBothWays == ~({"vertical", "horizontal"} \subseteq did)

\* The scaler raises the maximum of an autoscaler and never lowers it, the limit
\* below the present maximum or not, unless its owner sets it between analysis
\* and execution (horizontal.go:61: "already at or above the safety limit").
MaxOnlyRaised == [][hpaMax' < hpaMax => "owner" \in did']_sizingVars

\* Those who scale one workload do not undo one another: neither the vertical and
\* the horizontal scaler, nor the scaler and the owner of its autoscaler.
ScalersAgree == []NotBothWays /\ MaxOnlyRaised

\* A vertical change that gives every container what it has already.
ChangesNothing(r) ==
  r.scaling = "vertical" /\ (IF r.of = "mem" THEN template ELSE cpuTemplate) = VerticalPatch(r)

\* A horizontal change that gives way to vertical ones has its turn: under
\* lasting pressure the maximum reaches its limit, unless the vertical changes it
\* gives way to come to change nothing and go on being recommended
\* (coordinator.go:38, vertical.go:75).
DeferredHasItsTurn ==
  pressure => <>(hpaMax >= ReplicasLimit) \/ []<>(\E r \in sizings : ChangesNothing(r))

\* An applied bump leaves the container that was killed with more than it had:
\* "Safety actions (OOM memory bumps)" (controller.go:145), "increase memory"
\* (oomtracker.go:107).
BumpRaises ==
  [][\A b \in bumps \ bumps' :
       template' # template => template'[b.target[2]] > b.current]_sizingVars

=============================================================================
