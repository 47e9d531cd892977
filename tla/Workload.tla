------------------------------ MODULE Workload ------------------------------
(***************************************************************************)
(* One workload - a Deployment or a StatefulSet with an autoscaler - as    *)
(* the rightsizer and the workload scaler find it: the requests of its     *)
(* template, the pods that run with the template of their day, what the    *)
(* snapshot says of the pods, and the API server's check of a patch.  All  *)
(* of this is Kubernetes' part.  Figures are whole units, of 32Mi and of   *)
(* 50m; CPU has no limit.                                                  *)
(***************************************************************************)
EXTENDS Integers, FiniteSets, FiniteSetsExt

CONSTANTS
  N,            \* containers of a pod; the first is the primary one
  Templates,    \* what an owner may ask for, of memory and of CPU
  SizedPods,    \* the pods, replaced together when the template changes
  MaxMem,       \* bound on memory figures
  MaxCpu,       \* bound on CPU figures
  MaxUse,       \* bound on what a pod uses, of either
  MostCopies,   \* bound on the autoscaler's maximum
  Hour,         \* how long a container's OOM kill counts as processed
  MaxKills,     \* bound on OOM kills
  MaxMishaps    \* bound on changes by the owner and failing calls together

ASSUME ContainersAssumption == N \in Nat \ {0}
ASSUME MemoryAssumption == MaxMem \in Nat /\ MaxMem >= 3 /\ MaxUse \in Nat
ASSUME CpuAssumption == MaxCpu \in Nat
ASSUME CopiesAssumption == MostCopies \in Nat \ {0}
ASSUME HourAssumption == Hour \in Nat \ {0}
ASSUME BoundAssumption == MaxKills \in Nat /\ MaxMishaps \in Nat
ASSUME TemplatesAssumption ==
  Templates \subseteq [mem : [1 .. N -> 0 .. MaxMem], cpu : [1 .. N -> 0 .. MaxCpu]]

VARIABLES
  kind,        \* what the workload is
  limit,       \* memory limit of every container, or NoLimit
  template,    \* memory requests in the workload's template
  podSpec,     \* memory requests the running pods were made with
  cpuTemplate, \* the same of CPU
  podCpu,
  oomKilled,   \* containers whose last termination was an OOM kill
  hpaMax,      \* maxReplicas of the autoscaler
  pressure,    \* the load keeps the autoscaler at its maximum, whatever that is
  bounds       \* counters of what is bounded

workloadVars ==
  <<kind, limit, template, podSpec, cpuTemplate, podCpu, oomKilled, hpaMax, pressure, bounds>>

Containers == 1 .. N
Primary == 1
Memory == 0 .. MaxMem
Cpu == 0 .. MaxCpu
NoLimit == 0

WorkloadTypeOK ==
  /\ kind \in {"Deployment", "StatefulSet"}
  /\ limit \in Memory
  /\ template \in [Containers -> Memory] /\ podSpec \in [Containers -> Memory]
  /\ cpuTemplate \in [Containers -> Cpu] /\ podCpu \in [Containers -> Cpu]
  /\ oomKilled \subseteq SizedPods \X Containers
  /\ hpaMax \in 1 .. MostCopies
  /\ pressure \in BOOLEAN
  /\ bounds \in [kills : 0 .. MaxKills, mishaps : 0 .. MaxMishaps]

\* Sum of the requests of some containers.
Requests(spec, cs) == SumFunctionOnSet(spec, cs)

Accepted(t) == limit # NoLimit => \A c \in Containers : t[c] <= limit

WorkloadInit ==
  /\ kind \in {"Deployment", "StatefulSet"}
  /\ limit \in {NoLimit, 3}
  /\ \E t \in Templates :
       /\ template = t.mem /\ cpuTemplate = t.cpu
       /\ limit # NoLimit => \A c \in Containers : t.mem[c] > 0
  /\ podSpec = template /\ podCpu = cpuTemplate
  /\ oomKilled = {}
  /\ hpaMax = 1 /\ pressure \in BOOLEAN
  /\ bounds = [kills |-> 0, mishaps |-> 0]

\* Of a pod the snapshot knows the first owner reference: a Deployment's pods
\* belong to its ReplicaSet.
OwnerKind == IF kind = "Deployment" THEN "ReplicaSet" ELSE kind

-----------------------------------------------------------------------------
Spend(what) == bounds' = [bounds EXCEPT ![what] = @ + 1]

\* A container is killed and restarted in its pod.
OomKill ==
  /\ bounds.kills < MaxKills /\ Spend("kills")
  /\ \E p \in SizedPods, c \in Containers :
       <<p, c>> \notin oomKilled /\ oomKilled' = oomKilled \union {<<p, c>>}
  /\ UNCHANGED <<kind, limit, template, podSpec, cpuTemplate, podCpu, hpaMax, pressure>>

\* The owner deploys another template, or sets the autoscaler.
OwnerChange ==
  /\ bounds.mishaps < MaxMishaps /\ Spend("mishaps")
  /\ \/ \E t \in Templates :
          /\ <<t.mem, t.cpu>> # <<template, cpuTemplate>>
          /\ Accepted(t.mem) /\ template' = t.mem /\ cpuTemplate' = t.cpu
          /\ limit # NoLimit => \A c \in Containers : t.mem[c] > 0
          /\ UNCHANGED hpaMax
     \/ \E m \in 1 .. MostCopies :
          m # hpaMax /\ hpaMax' = m /\ UNCHANGED <<template, cpuTemplate>>
  /\ UNCHANGED <<kind, limit, podSpec, podCpu, oomKilled, pressure>>

\* The pods are replaced by pods of the present template.
Rollout ==
  /\ podSpec # template \/ podCpu # cpuTemplate
  /\ podSpec' = template /\ podCpu' = cpuTemplate /\ oomKilled' = {}
  /\ UNCHANGED <<kind, limit, template, cpuTemplate, hpaMax, pressure, bounds>>

-----------------------------------------------------------------------------
(* The instances.                                                          *)

\* The primary container asks for one unit, which a bump may not leave to it.
Uneven(rest) == [c \in Containers |-> IF c = Primary THEN 1 ELSE rest]

\* A container may ask for no memory; with a limit it asks for the limit then.
MemoryTemplates == {[mem |-> Uneven(m), cpu |-> Uneven(1)] : m \in 0 .. 2}

\* A pod may ask for no CPU, or for more than the least.
MixedTemplates ==
  {[mem |-> Uneven(0), cpu |-> Uneven(3)], [mem |-> Uneven(2), cpu |-> [c \in Containers |-> 0]]}

=============================================================================
