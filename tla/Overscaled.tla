---------------------------- MODULE Overscaled ----------------------------
(***************************************************************************)
(* Workloads that run more replicas than their load needs, and why their   *)
(* autoscaler does not take them down (overscaled.go of                    *)
(* internal/apiserver/handler).  The replicas of a workload request alike; *)
(* what they use together stays when some of them go.                      *)
(* The page of inefficiencies (inefficiency.go) looks at autoscalers too.  *)
(***************************************************************************)
EXTENDS Integers, FiniteSets, FiniteSetsExt

CONSTANTS
  MostReplicas,     \* bound on the replicas
  ReplicaRequest,   \* what one replica requests, of CPU and of memory
  Loads             \* what all of them may use

ASSUME OverscaledAssumption ==
  /\ MostReplicas \in Nat \ {0} /\ ReplicaRequest \in Nat \ {0}
  /\ Loads \subseteq Nat /\ 0 \in Loads

VARIABLES
  scaledTo,    \* the workload, its load and the limits of its autoscaler
  health     \* what its autoscaler reports

overscaledVars == <<scaledTo, health>>

Scaled == [replicas : 0 .. MostReplicas, cpu : Loads, mem : Loads,
           min : 1 .. 4, max : 1 .. MostReplicas, kind : {"HPA", "KEDA", "none"}, pdb : BOOLEAN]

\* Which of the two lists can be read; what its HPA reports ("none": no current
\* metrics, "stale": not scaled for a day) and how many replicas it wants (zero
\* is no wish at all); whether its ScaledObject has a status, the state of the
\* trigger therein, and the annotation ("held": paused at a number of replicas).
Health ==
  [hpaRead : BOOLEAN, kedaRead : BOOLEAN,
   failing : SUBSET {"metrics", "scaling", "limited", "none", "stale"}, wants : {0, 1},
   status : BOOLEAN, trigger : {"fine", "failing"}, paused : {"no", "yes", "held"}]

Idle == [replicas |-> 0, cpu |-> 0, mem |-> 0, min |-> 1, max |-> 1, kind |-> "none", pdb |-> FALSE]
Healthy ==
  [hpaRead |-> TRUE, kedaRead |-> TRUE, failing |-> {}, wants |-> 0,
   status |-> TRUE, trigger |-> "fine", paused |-> "no"]

\* Without a ScaledObject there is nothing to be said about one.
Reports(k) ==
  {h \in Health : /\ ~ h.status => h.trigger = "fine"
                  /\ k # "KEDA" => h.status /\ h.trigger = "fine" /\ h.paused = "no"}

\* The replicas are within the limits of their autoscaler.
OverscaledTypeOK ==
  /\ scaledTo \in Scaled /\ health \in Health
  /\ scaledTo = Idle \/ scaledTo.replicas \in scaledTo.min .. scaledTo.max

OverscaledInit == scaledTo = Idle /\ health = Healthy

-----------------------------------------------------------------------------
CeilOf(a, b) == (a + b - 1) \div b

\* At 70 % of what a replica requests; one if nothing is used.
NeededFor(used) == IF used = 0 THEN 1 ELSE CeilOf(10 * used, 7 * ReplicaRequest)

Optimal(w) == Max({NeededFor(w.cpu), NeededFor(w.mem), w.min})

Excess(w) == w.replicas - Optimal(w)

\* At least two replicas, at least 30 % of them too many, something used.
Listed(w) ==
  /\ w.kind # "none" /\ w.cpu + w.mem > 0 /\ w.replicas >= 2
  /\ Excess(w) > 0 /\ 10 * Excess(w) >= 3 * w.replicas

\* In percent of what is requested.
Efficiency(w) == (100 * w.cpu) \div (w.replicas * ReplicaRequest)

-----------------------------------------------------------------------------
(* Root causes.                                                            *)

\* What the HPA reports, and that it wants fewer replicas than there are.
HPACauses(w, h) ==
  h.failing \union (IF h.wants > 0 /\ h.wants < w.replicas THEN {"blocked"} ELSE {})

\* The annotation is only looked at where there is a status.
ScaledObjectCauses(h) ==
  IF ~ h.status THEN {}
  ELSE ({h.trigger} \intersect {"failing"}) \union (IF h.paused # "no" THEN {"paused"} ELSE {})

\* Mutant of AutoscalerCauses: the HPA that KEDA creates is not looked at.
AutoscalerCausesDirect(w, h) ==
  (IF w.kind = "KEDA" /\ h.kedaRead THEN ScaledObjectCauses(h) ELSE {})
    \union (IF w.kind # "KEDA" /\ h.hpaRead THEN HPACauses(w, h) ELSE {})

\* A ScaledObject speaks for itself and through the HPA that KEDA generates.
AutoscalerCauses(w, h) ==
  (IF w.kind = "KEDA" /\ h.kedaRead THEN ScaledObjectCauses(h) ELSE {})
    \union (IF h.hpaRead THEN HPACauses(w, h) ELSE {})

WorkloadCauses(w) ==
  (IF w.pdb THEN {"PDB"} ELSE {})
    \union (IF w.replicas = w.max /\ Efficiency(w) < 10 THEN {"at max"} ELSE {})
    \union (IF w.min > 3 /\ Efficiency(w) < 20 THEN {"min too high"} ELSE {})

\* What the page of inefficiencies holds against a ScaledObject; the ratio of
\* CPU request and limit, which it holds against the workload, is left out.
ScaledObjectIssues(h) ==
  (IF h.status THEN ({h.trigger} \intersect {"failing"}) ELSE {})
    \union (IF h.paused = "yes" THEN {"paused"} ELSE {})
    \union (IF h.hpaRead THEN h.failing \intersect {"metrics"} ELSE {})

\* And against an HPA.
HPAIssues(w, h) ==
  h.failing \intersect ({"metrics", "scaling"} \union (IF w.replicas > 1 THEN {"none"} ELSE {}))

\* HPAs are looked at where ScaledObjects cannot be read.
AutoscalerIssues(w, h) ==
  IF h.kedaRead THEN (IF w.kind = "KEDA" THEN ScaledObjectIssues(h) ELSE {})
                ELSE (IF h.hpaRead THEN HPAIssues(w, h) ELSE {})

LoadDropped == "load has dropped"

RootCauses(w, h) ==
  LET found == AutoscalerCauses(w, h) \union WorkloadCauses(w)
  IN  IF found = {} THEN {LoadDropped} ELSE found

-----------------------------------------------------------------------------
\* The cluster, as a refresh leaves it.
LookAtWorkload ==
  /\ scaledTo = Idle
  /\ scaledTo' \in {w \in Scaled : w.min <= w.max /\ w.min <= w.replicas /\ w.replicas <= w.max}
  /\ health' \in IF ~ Listed(scaledTo') THEN {Healthy}
                ELSE Reports(scaledTo'.kind)

\* Someone follows the advice.
FollowAdvice ==
  /\ Listed(scaledTo)
  /\ scaledTo' = [scaledTo EXCEPT !.replicas = Optimal(scaledTo)]
  /\ UNCHANGED health

OverscaledNext == LookAtWorkload \/ FollowAdvice

OverscaledSpec == OverscaledInit /\ [][OverscaledNext]_overscaledVars

-----------------------------------------------------------------------------
\* Whatever the page of inefficiencies holds against the autoscaler of a
\* workload that is listed here is among its root causes, in whichever state the
\* two lists are (inefficiency.go:610, overscaled.go:291): with the one exception
\* of a ScaledObject that is paused before it has a status.
IssuesAreCauses ==
  LET unseen == IF health.status THEN {} ELSE {"paused"}
  IN  Listed(scaledTo) =>
        AutoscalerIssues(scaledTo, health) \ unseen \subseteq RootCauses(scaledTo, health)

\* Following the advice leaves the replicas at 70 % of their requests, of CPU
\* and of memory; nothing more is advised then.
AdviceSettles ==
  FollowAdvice =>
    /\ 10 * scaledTo'.cpu <= 7 * ReplicaRequest * scaledTo'.replicas
    /\ 10 * scaledTo'.mem <= 7 * ReplicaRequest * scaledTo'.replicas
    /\ ~ Listed(scaledTo')

\* The two pages agree about the autoscaler of whatever workload is looked at,
\* and following the advice leads to one the page has nothing more to say of.
\* (To begin with no workload has been looked at, and none is listed.)
AdviceSound == [][IssuesAreCauses' /\ AdviceSettles]_overscaledVars

=============================================================================
