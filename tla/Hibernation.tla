----------------------------- MODULE Hibernation -----------------------------
(***************************************************************************)
(* The hibernation controller of internal/controller/hibernation: cron     *)
(* jobs Hibernate and Wake, which hold the controller's mutex throughout,  *)
(* scale the node groups of the cloud down to one node and back, and keep  *)
(* what they need for the way back in memory and in a ConfigMap.           *)
(*                                                                         *)
(* Every call to the cloud or to the Kubernetes API is a step and may fail *)
(* (a fault); the process may be restarted, or replaced by a standby that  *)
(* read the ConfigMap when it was set up; others scale groups, too; and    *)
(* the operator may switch the mode.  Faults, and disturbances by restarts *)
(* and outside changes, are bounded.  A Hibernate that the AI gate, the    *)
(* mode or the guard stops changes nothing and is not a step; the          *)
(* malformed reply of the AI gate that makes Hibernate dereference nil is  *)
(* a restart.                                                              *)
(***************************************************************************)
EXTENDS CloudGroups, FiniteSets

CONSTANTS
  Excluded,      \* groups the configuration excludes
  ReadsAtSetup,  \* the client reads before the manager has started
  MaxFaults,        \* bound on the calls that fail
  MaxDisturbances   \* bound on the restarts and the outside changes together

ASSUME ExcludedAssumption == Excluded \subseteq Groups
ASSUME SetupAssumption == ReadsAtSetup \in BOOLEAN
ASSUME BoundsAssumption == MaxFaults \in Nat /\ MaxDisturbances \in Nat

VARIABLES
  memory,     \* hibernated, savedDesired and savedMin of the running process
  configMap,  \* what is persisted of them
  standby,    \* what a process waiting to be leader has loaded
  active,     \* the mode is "active"
  job,        \* what the holder of the mutex is doing
  listed,     \* the groups as DiscoverNodeGroups returned them
  todo,       \* groups the job's loop has not come to
  current,    \* the group between its two calls: a set of at most one
  succeeded,  \* hibernatedCount > 0
  before,     \* history: the groups as the last Hibernate found them
  lowered,    \* history: groups it scaled down and no Wake has come to
  lossy,      \* history: a restart broke off a job or did not load its state
  faults, disturbances   \* counters of what is bounded

jobVars == <<job, listed, todo, current, succeeded>>
history == <<before, lowered, lossy>>
bounds == <<faults, disturbances>>
vars == <<cloud, memory, configMap, standby, active, jobVars, history, bounds>>

Missing == -1   \* no entry in a map
Counts == Sizes \union {Missing}
SavedState == [hibernated : BOOLEAN, desired : [Groups -> Counts], min : [Groups -> Counts]]

NothingSaved == [g \in Groups |-> Missing]
Fresh == [hibernated |-> FALSE, desired |-> NothingSaved, min |-> NothingSaved]

TypeOK ==
  /\ CloudTypeOK
  /\ memory \in SavedState /\ configMap \in SavedState /\ standby \in SavedState
  /\ active \in BOOLEAN
  /\ job \in {"idle", "hibernating", "waking", "saving"}
  /\ listed \in [Groups -> GroupRecord]
  /\ todo \subseteq Groups
  /\ current \subseteq Groups
  /\ succeeded \in BOOLEAN
  /\ before \in [Groups -> GroupRecord]
  /\ lowered \subseteq Groups
  /\ lossy \in BOOLEAN
  /\ faults \in 0 .. MaxFaults
  /\ disturbances \in 0 .. MaxDisturbances

\* A missing ConfigMap and one that says nothing load alike.
Init ==
  /\ CloudInit
  /\ memory = Fresh /\ configMap = Fresh /\ standby = Fresh
  /\ active = TRUE
  /\ job = "idle"
  /\ listed = cloud /\ todo = {} /\ current = {} /\ succeeded = FALSE
  /\ before = cloud /\ lowered = {} /\ lossy = FALSE
  /\ faults = 0 /\ disturbances = 0

-----------------------------------------------------------------------------
(* The maps.                                                               *)

Saved(m, g, record) ==
  [m EXCEPT !.desired[g] = record.desired, !.min[g] = record.min]

RolledBack(m, g) == [m EXCEPT !.desired[g] = Missing, !.min[g] = Missing]

\* loadState: a saved desired count of zero is taken for corrupt.
Loaded(m) ==
  [hibernated |-> m.hibernated,
   desired |-> [g \in Groups |-> IF m.desired[g] = 0 THEN Missing ELSE m.desired[g]],
   min |-> m.min]

\* A restart, or an outside change.
Disturbance == disturbances < MaxDisturbances /\ disturbances' = disturbances + 1

\* A call fails.
Fault == faults < MaxFaults /\ faults' = faults + 1
NoFault == UNCHANGED faults

-----------------------------------------------------------------------------
(* Hibernate.                                                              *)

HibernateStart ==
  /\ job = "idle"
  /\ ~memory.hibernated
  /\ active
  /\ job' = "hibernating"
  /\ listed' = cloud
  /\ todo' = Groups \ Excluded
  /\ succeeded' = FALSE
  /\ before' = cloud /\ lowered' = {} /\ lossy' = FALSE
  /\ UNCHANGED <<cloud, memory, configMap, standby, active, current, bounds>>

\* Mutant of HibernateMin: the group is saved after its minimum is lowered.
HibernateMinSavesLate(g) ==
  /\ job = "hibernating" /\ current = {}
  /\ g \in todo
  /\ todo' = todo \ {g}
  /\ IF listed[g].min > 1 THEN SetNodeGroupMinCount(g, 1) ELSE UNCHANGED cloud
  /\ memory' = Saved(memory, g, cloud'[g])
  /\ current' = {g}
  /\ UNCHANGED <<configMap, standby, active, job, listed, succeeded, history, bounds>>

\* The next group is saved, and its minimum lowered if it is above the target.
HibernateMin(g) ==
  /\ job = "hibernating" /\ current = {}
  /\ g \in todo
  /\ todo' = todo \ {g}
  /\ \/ /\ listed[g].min > 1
        /\ SetNodeGroupMinCount(g, 1)
        /\ memory' = Saved(memory, g, listed[g])
        /\ current' = {g}
        /\ NoFault
     \/ /\ listed[g].min > 1
        /\ Fault
        /\ memory' = RolledBack(memory, g)
        /\ UNCHANGED <<cloud, current>>
     \/ /\ listed[g].min <= 1
        /\ memory' = Saved(memory, g, listed[g])
        /\ current' = {g}
        /\ UNCHANGED cloud
        /\ NoFault
  /\ UNCHANGED <<configMap, standby, active, job, listed, succeeded, history, disturbances>>

HibernateScale(g) ==
  /\ job = "hibernating"
  /\ g \in current
  /\ current' = {}
  /\ \/ /\ ScaleNodeGroup(g, 1)
        /\ succeeded' = TRUE
        /\ lowered' = lowered \union {g}
        /\ UNCHANGED memory
        /\ NoFault
     \/ /\ Fault \/ (~WithinBounds(g, 1) /\ NoFault)
        /\ memory' = RolledBack(memory, g)
        /\ UNCHANGED <<cloud, succeeded, lowered>>
  /\ UNCHANGED <<configMap, standby, active, job, listed, todo, before, lossy,
                 disturbances>>

\* Mutant of HibernateNone: the mutex is not released on the error path.
HibernateNoneKeepsMutex ==
  /\ job = "hibernating" /\ todo = {} /\ current = {}
  /\ ~succeeded
  /\ UNCHANGED vars

\* No group was brought down: an error, and the cluster counts as awake.
HibernateNone ==
  /\ job = "hibernating" /\ todo = {} /\ current = {}
  /\ ~succeeded
  /\ job' = "idle"
  /\ UNCHANGED <<cloud, memory, configMap, standby, active, listed, todo, current,
                 succeeded, history, bounds>>

HibernateEnd ==
  /\ job = "hibernating" /\ todo = {} /\ current = {}
  /\ succeeded
  /\ memory' = [memory EXCEPT !.hibernated = TRUE]
  /\ job' = "saving"
  /\ UNCHANGED <<cloud, configMap, standby, active, listed, todo, current, succeeded,
                 history, bounds>>

-----------------------------------------------------------------------------
(* Wake.                                                                   *)

WakeStart ==
  /\ job = "idle"
  /\ memory.hibernated
  /\ active
  /\ job' = "waking"
  /\ listed' = cloud
  /\ todo' = {g \in Groups : memory.desired[g] # Missing}
  /\ UNCHANGED <<cloud, memory, configMap, standby, active, current, succeeded, history, bounds>>

\* Mutant of WakeMin: the lowered minimum is taken for the saved one.
WakeMinKeepsLowered(g) ==
  /\ job = "waking" /\ current = {}
  /\ g \in todo
  /\ todo' = todo \ {g}
  /\ current' = {g}
  /\ UNCHANGED <<cloud, memory, configMap, standby, active, job, listed, succeeded, history,
                 bounds>>

\* The minimum is restored only if it is found lower; a failure is logged.
WakeMin(g) ==
  /\ job = "waking" /\ current = {}
  /\ g \in todo
  /\ todo' = todo \ {g}
  /\ current' = {g}
  /\ \/ /\ memory.min[g] > listed[g].min
        /\ SetNodeGroupMinCount(g, memory.min[g])
        /\ NoFault
     \/ /\ memory.min[g] > listed[g].min
        /\ Fault
        /\ UNCHANGED cloud
     \/ /\ memory.min[g] <= listed[g].min
        /\ UNCHANGED cloud
        /\ NoFault
  /\ UNCHANGED <<memory, configMap, standby, active, job, listed, succeeded, history,
                 disturbances>>

WakeScale(g) ==
  /\ job = "waking"
  /\ g \in current
  /\ current' = {}
  /\ lowered' = lowered \ {g}
  /\ \/ ScaleNodeGroup(g, memory.desired[g]) /\ NoFault
     \/ (Fault \/ (~WithinBounds(g, memory.desired[g]) /\ NoFault)) /\ UNCHANGED cloud
  /\ UNCHANGED <<memory, configMap, standby, active, job, listed, todo, succeeded, before,
                 lossy, disturbances>>

\* Mutant of WakeEnd: the flag stays set.
WakeEndKeepsFlag ==
  /\ job = "waking" /\ todo = {} /\ current = {}
  /\ memory' = [Fresh EXCEPT !.hibernated = TRUE]
  /\ job' = "saving"
  /\ UNCHANGED <<cloud, configMap, standby, active, listed, todo, current, succeeded,
                 history, bounds>>

\* Whatever became of the groups, everything saved is forgotten.
WakeEnd ==
  /\ job = "waking" /\ todo = {} /\ current = {}
  /\ memory' = Fresh
  /\ job' = "saving"
  /\ UNCHANGED <<cloud, configMap, standby, active, listed, todo, current, succeeded,
                 history, bounds>>

\* The end of either job; a failure to persist is logged.
SaveState ==
  /\ job = "saving"
  /\ job' = "idle"
  /\ \/ configMap' = memory /\ NoFault
     \/ Fault /\ UNCHANGED configMap
  /\ UNCHANGED <<cloud, memory, standby, active, listed, todo, current, succeeded, history,
                 disturbances>>

-----------------------------------------------------------------------------
(* The process and its surroundings.                                       *)

\* A new process reads the ConfigMap when it sets the controller up, and
\* starts fresh when the read fails.  The client that main hands over reads
\* from the manager's cache, which refuses every read until the manager has
\* started (ReadsAtSetup is FALSE); one that goes to the API server, like
\* main's directClient, would succeed.
LoadInto(m) ==
  \/ ReadsAtSetup /\ m' = Loaded(configMap) /\ NoFault
  \/ m' = Fresh /\ Fault
  \/ ~ReadsAtSetup /\ m' = Fresh /\ NoFault

\* A second replica, or the new pod of a rolling update, waits to be leader.
StandbySetsUp ==
  /\ disturbances < MaxDisturbances
  /\ LoadInto(standby)
  /\ UNCHANGED <<cloud, memory, configMap, active, jobVars, history, disturbances>>

\* The process dies, in whatever step; it starts again or the standby leads.
Restart ==
  /\ Disturbance
  /\ LoadInto(memory) \/ (memory' = standby /\ NoFault)
  /\ lossy' = (lossy \/ job # "idle" \/ configMap # memory \/ memory' # Loaded(configMap))
  /\ job' = "idle" /\ todo' = {} /\ current' = {}
  /\ UNCHANGED <<cloud, configMap, standby, active, listed, succeeded, before,
                 lowered>>

SetMode ==
  /\ active' = ~active
  /\ UNCHANGED <<cloud, memory, configMap, standby, jobVars, history, bounds>>

CloudEnforces ==
  /\ \E g \in Groups : EnforceMin(g)
  /\ UNCHANGED <<memory, configMap, standby, active, jobVars, history, bounds>>

Outside ==
  /\ Disturbance
  /\ \E g \in Groups : OutsideChange(g)
  /\ UNCHANGED <<memory, configMap, standby, active, jobVars, history, faults>>

HibernateStep ==
  \/ HibernateStart \/ HibernateNone \/ HibernateEnd
  \/ \E g \in Groups : HibernateMin(g) \/ HibernateScale(g)

WakeStep ==
  \/ WakeStart \/ WakeEnd
  \/ \E g \in Groups : WakeMin(g) \/ WakeScale(g)

Next ==
  \/ HibernateStep \/ WakeStep \/ SaveState
  \/ StandbySetsUp \/ Restart \/ SetMode \/ CloudEnforces \/ Outside

Spec == Init /\ [][Next]_vars

\* A job that runs is scheduled, and the wake schedule fires again and again.
Fairness ==
  /\ WF_vars(WakeStep \/ SaveState)
  /\ WF_vars(HibernateStep /\ job = "hibernating")
  /\ WF_vars(CloudEnforces)

FairSpec == Spec /\ Fairness

-----------------------------------------------------------------------------
\* The controller remembers what every group it scaled down looked like before,
\* and that it scaled groups down, whatever fails and whoever else scales
\* groups, also over restarts between jobs that load what the last job had:
\* except for groups that had no node, whose saved zero a restart drops.
Remembers ==
  ~lossy =>
    \A g \in lowered :
      before[g].desired > 0 =>
        /\ memory.desired[g] = before[g].desired
        /\ memory.min[g] = before[g].min
        /\ job = "idle" => memory.hibernated

\* "Wake restores node groups to their pre-hibernation desired counts"
\* (controller.go:291), and their minimum counts.
WakeRestores ==
  [][job = "waking" /\ job' = "saving" => cloud = before]_vars

\* So it does as long as no call fails, the process lives and nobody else
\* scales groups: over both loops, the provider's check of the bounds, the
\* enforcement of minimum counts and switches of the mode in between.
CleanWakeRestores ==
  [][job = "waking" /\ job' = "saving" /\ faults + disturbances = 0 =>
       cloud = before]_vars

\* "Restore persisted hibernation state (survives pod restarts)"
\* (controller.go:72): what the ConfigMap keeps of a group that is down, the
\* running process knows.
PersistedIsKnown ==
  \A g \in lowered :
    job = "idle" /\ configMap.desired[g] = before[g].desired =>
      memory.desired[g] = before[g].desired

\* Every job gives the mutex back, whatever fails in it.
JobsEnd == job # "idle" ~> job = "idle"

\* A hibernated cluster is woken, unless the operator takes the controller out
\* of active mode: no failure of Wake keeps the cluster hibernated.
WakesUp == memory.hibernated ~> (~memory.hibernated \/ ~active)

=============================================================================
