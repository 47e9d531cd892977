--------------------------- MODULE SurgeMigration ---------------------------
(***************************************************************************)
(* The redistributor of internal/controller/gpu moves the pods of one      *)
(* Deployment off a GPU node, one pod after the other: it scales the       *)
(* Deployment up by one, waits until it reports that many ready replicas,  *)
(* evicts the pod and scales back (redistributor.go, executeSurgeThenEvict *)
(* and what it calls).                                                     *)
(*                                                                         *)
(* It reads the Deployment from the manager's cache and writes it to the   *)
(* API server, where the Deployment's own controllers, its owner and an    *)
(* autoscaler act on it as well.  Pods do not fail of themselves.  A call  *)
(* that fails may have been carried out all the same.                      *)
(***************************************************************************)
EXTENDS Integers

CONSTANTS
  Replicas,     \* what the owner asks for
  MaxReplicas,  \* bound on what is asked for
  MaxFaults, MaxScaled, MaxOutdated   \* bounds

ASSUME ReplicasAssumption ==
  Replicas \in Nat /\ MaxReplicas \in Nat /\ Replicas <= MaxReplicas
ASSUME BoundsAssumption == MaxFaults \in Nat /\ MaxScaled \in Nat /\ MaxOutdated \in Nat

VARIABLES
  want,      \* spec.replicas of the Deployment
  starting,  \* its pods that are not ready
  ready,     \* its ready pods elsewhere
  onGpu,     \* its ready pods on the GPU node
  cached,    \* spec.replicas and status.readyReplicas in the manager's cache
  step,      \* what the redistributor does next
  original,  \* spec.replicas as it found it
  misled,    \* history: a poll was satisfied by a count that was not true
  faults,    \* calls that failed, and crashes
  scaled,    \* how often the owner set the count
  outdated   \* migrations that found the count higher than it was

deployment == <<want, starting, ready, onGpu>>
migration == <<step, original, misled>>
vars == <<deployment, cached, migration, faults, scaled, outdated>>

ReadyReplicas == ready + onGpu
Pods == starting + ReadyReplicas

TypeOK ==
  /\ want \in 0 .. MaxReplicas
  /\ starting \in Nat /\ ready \in Nat /\ onGpu \in Nat
  /\ cached \in [want : 0 .. MaxReplicas, ready : Nat]
  /\ step \in {"idle", "surge", "wait", "evict", "restore"}
  /\ original \in 0 .. MaxReplicas
  /\ step # "idle" => original < MaxReplicas
  /\ misled \in BOOLEAN
  /\ faults \in 0 .. MaxFaults /\ scaled \in 0 .. MaxScaled
  /\ outdated \in 0 .. MaxOutdated

Init ==
  /\ want = Replicas
  /\ starting = 0
  /\ onGpu \in 0 .. Replicas /\ ready = Replicas - onGpu
  /\ cached = [want |-> want, ready |-> ReadyReplicas]
  /\ step = "idle" /\ original = 0
  /\ misled = FALSE
  /\ faults = 0 /\ scaled = 0 /\ outdated = 0

-----------------------------------------------------------------------------
(* The redistributor.                                                      *)

\* Execute finds the pod on the node and its Deployment, all in the cache.
Begin ==
  /\ step = "idle"
  /\ onGpu > 0
  /\ cached.want < MaxReplicas
  /\ original' = cached.want
  /\ step' = "surge"
  /\ IF cached.want > want
     THEN outdated < MaxOutdated /\ outdated' = outdated + 1
     ELSE UNCHANGED outdated
  /\ UNCHANGED <<deployment, cached, misled, faults, scaled>>

\* scaleDeployment writes the count it was given over whatever is there.
Surge ==
  /\ step = "surge"
  /\ want' = original + 1
  /\ step' = "wait"
  /\ UNCHANGED <<starting, ready, onGpu, cached, original, misled, faults, scaled, outdated>>

\* The migration is given up.
SurgeFails ==
  /\ step = "surge"
  /\ faults < MaxFaults /\ faults' = faults + 1
  /\ want' \in {want, original + 1}
  /\ step' = "idle"
  /\ UNCHANGED <<starting, ready, onGpu, cached, original, misled, scaled, outdated>>

\* Mutant of Poll: the surge itself is not waited for.
PollOriginal ==
  /\ step = "wait"
  /\ cached.ready >= original
  /\ misled' = (misled \/ ReadyReplicas < original)
  /\ step' = "evict"
  /\ UNCHANGED <<deployment, cached, original, faults, scaled, outdated>>

\* waitForReady looks every three seconds, at whatever status the cache has;
\* that may be one from before the surge.
Poll ==
  /\ step = "wait"
  /\ cached.ready >= original + 1
  /\ misled' = (misled \/ ReadyReplicas < original + 1)
  /\ step' = "evict"
  /\ UNCHANGED <<deployment, cached, original, faults, scaled, outdated>>

\* After five minutes, or at shutdown.
TimeOut ==
  /\ step = "wait"
  /\ step' = "restore"
  /\ UNCHANGED <<deployment, cached, original, misled, faults, scaled, outdated>>

\* The eviction may be refused, or the pod be gone; then, too, it is scaled back.
Evict ==
  /\ step = "evict"
  /\ onGpu' \in {onGpu, onGpu - 1} \intersect Nat
  /\ step' = "restore"
  /\ UNCHANGED <<want, starting, ready, cached, original, misled, faults, scaled, outdated>>

\* Mutant of ScaleBack: one is taken off what the cache has.
ScaleBackByOne ==
  /\ step = "restore"
  /\ want' = IF cached.want = 0 THEN 0 ELSE cached.want - 1
  /\ step' = "idle"
  /\ UNCHANGED <<starting, ready, onGpu, cached, original, misled, faults, scaled, outdated>>

\* The count is set to what was found, whatever it is by now.
ScaleBack ==
  /\ step = "restore"
  /\ want' = original
  /\ step' = "idle"
  /\ UNCHANGED <<starting, ready, onGpu, cached, original, misled, faults, scaled, outdated>>

\* "Failed to scale back after eviction": the error is logged, no more.
ScaleBackFails ==
  /\ step = "restore"
  /\ faults < MaxFaults /\ faults' = faults + 1
  /\ want' \in {want, original}
  /\ step' = "idle"
  /\ UNCHANGED <<starting, ready, onGpu, cached, original, misled, scaled, outdated>>

\* Nothing of a migration outlives the process.
Crash ==
  /\ step # "idle"
  /\ faults < MaxFaults /\ faults' = faults + 1
  /\ step' = "idle"
  /\ cached' = [want |-> want, ready |-> ReadyReplicas]
  /\ UNCHANGED <<deployment, original, misled, scaled, outdated>>

Redistributor ==
  \/ Surge \/ SurgeFails \/ Poll \/ TimeOut \/ Evict \/ ScaleBack \/ ScaleBackFails

-----------------------------------------------------------------------------
(* The Deployment's controllers, its owner and the cache.                  *)

CreatePod ==
  /\ Pods < want
  /\ starting' = starting + 1
  /\ UNCHANGED <<want, ready, onGpu, cached, migration, faults, scaled, outdated>>

\* Pods that are not ready go first.
DeletePod ==
  /\ Pods > want
  /\ \/ starting > 0 /\ starting' = starting - 1 /\ UNCHANGED <<ready, onGpu>>
     \/ starting = 0 /\ ready > 0 /\ ready' = ready - 1 /\ UNCHANGED <<starting, onGpu>>
     \/ starting = 0 /\ onGpu > 0 /\ onGpu' = onGpu - 1 /\ UNCHANGED <<starting, ready>>
  /\ UNCHANGED <<want, cached, migration, faults, scaled, outdated>>

\* A new pod may come to the GPU node again, if that is open.
PodGetsReady ==
  /\ starting > 0
  /\ starting' = starting - 1
  /\ \/ ready' = ready + 1 /\ UNCHANGED onGpu
     \/ onGpu' = onGpu + 1 /\ UNCHANGED ready
  /\ UNCHANGED <<want, cached, migration, faults, scaled, outdated>>

OwnerScales ==
  /\ scaled < MaxScaled /\ scaled' = scaled + 1
  /\ want' \in Replicas .. MaxReplicas
  /\ UNCHANGED <<starting, ready, onGpu, cached, migration, faults, outdated>>

\* The spec arrives in the cache, or the status with it.
Sync ==
  /\ \/ cached' = [cached EXCEPT !.want = want]
     \/ cached' = [want |-> want, ready |-> ReadyReplicas]
  /\ UNCHANGED <<deployment, migration, faults, scaled, outdated>>

Surroundings == CreatePod \/ DeletePod \/ PodGetsReady \/ OwnerScales \/ Sync

Next == Begin \/ Redistributor \/ Crash \/ Surroundings

Spec == Init /\ [][Next]_vars

-----------------------------------------------------------------------------
\* "surge-then-evict for zero-downtime migration" (redistributor.go:349): the
\* Deployment never has fewer ready pods than its owner asks for, unless
\* somebody else scales it.
ZeroDowntime == scaled = 0 => ReadyReplicas >= Replicas

\* Only a poll that believes an outdated status can cause downtime: no failed
\* call, crash, refused eviction or stale spec does, however they combine.
DowntimeOnlyIfMisled == ~misled => ZeroDowntime

\* What the owner asks for is never lost, and every replica beyond it has a cause
\* of its own: a call that failed, a crash, or a count that was read before the
\* last scale-back was seen (redistributor.go:368, 423).  Each leaves one at most,
\* in whatever order they come and whatever a later migration finds.
SurgesAccounted ==
  scaled = 0 =>
    /\ want >= Replicas
    /\ step = "idle" => want <= Replicas + faults + outdated

=============================================================================
