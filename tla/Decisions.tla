----------------------------- MODULE Decisions ------------------------------
(***************************************************************************)
(* What the optimizer decides and calculates about workloads and nodes:    *)
(* the sizing of workloads, the downsizing of pods, the savings it adds    *)
(* up, the placements it simulates, the costs it shares out, the replicas  *)
(* it advises, the minimums of node groups and the migration of pods.  As  *)
(* in Services, a behaviour is one of the part in focus.                   *)
(***************************************************************************)
EXTENDS WorkloadSizing, SavingsEngine, Placement, CostShares, Overscaled,
        MinAdjuster, SurgeMigration

VARIABLE focus

decisions ==
  <<focus, sizingVars, downsizingVars, engineVars, placementVars, sharesVars,
    overscaledVars, minVars, vars>>

Parts == {"sizing", "pods", "savings", "placement", "costs", "replicas", "minimums",
          "migration"}

\* Where a part may begin in several ways it begins in one when not in focus.
DecisionsInit ==
  /\ focus \in Parts
  /\ SizingInit /\ DownsizingInit /\ EngineInit /\ PlacementInit /\ SharesInit
  /\ OverscaledInit /\ MinInit /\ Init
  /\ focus # "sizing" =>
       /\ kind = "Deployment" /\ limit = NoLimit /\ annotated /\ ~ pressure
       /\ template = Uneven(0)
  /\ focus # "minimums" => /\ minCount = [g \in Groups |-> 0]
                           /\ load = [g \in Groups |-> "low"]
  /\ focus # "migration" => onGpu = 0

DecisionsNext ==
  /\ \/ focus = "sizing" /\ SizingNext
     \/ focus = "pods" /\ DownsizingNext
     \/ focus = "savings" /\ EngineNext
     \/ focus = "placement" /\ PlacementNext
     \/ focus = "costs" /\ SharesNext
     \/ focus = "replicas" /\ OverscaledNext
     \/ focus = "minimums" /\ MinNext
     \/ focus = "migration" /\ Next
  /\ IF focus = "sizing" THEN TRUE ELSE UNCHANGED sizingVars
  /\ IF focus = "pods" THEN TRUE ELSE UNCHANGED downsizingVars
  /\ IF focus = "savings" THEN TRUE ELSE UNCHANGED engineVars
  /\ IF focus = "placement" THEN TRUE ELSE UNCHANGED placementVars
  /\ IF focus = "costs" THEN TRUE ELSE UNCHANGED sharesVars
  /\ IF focus = "replicas" THEN TRUE ELSE UNCHANGED overscaledVars
  /\ IF focus = "minimums" THEN TRUE ELSE UNCHANGED minVars
  /\ IF focus = "migration" THEN TRUE ELSE UNCHANGED vars
  /\ UNCHANGED focus

\* The fairness of the parts, while they are in focus: the loops go on, Kubernetes
\* replaces the pods of an old template, and an operator who applies the
\* recommended requests goes on doing so.
DecisionsFairness ==
  /\ WF_sizingVars(focus = "sizing" /\ ScalerAnalyze)
  /\ WF_sizingVars(focus = "sizing" /\ ScalerExecute)
  /\ WF_sizingVars(focus = "sizing" /\ ReplacePods /\ UNCHANGED <<sizings, did>>)
  /\ WF_downsizingVars(focus = "pods" /\ ApplyDownsize)

DecisionsSpec == DecisionsInit /\ [][DecisionsNext]_decisions /\ DecisionsFairness

\* All parts keep their types; a minimum never leaves the range it started in,
\* and no migration asks for more replicas than MaxReplicas.
DecisionsTypeOK ==
  /\ SizingTypeOK /\ PlacementTypeOK /\ OverscaledTypeOK /\ MinTypeOK /\ TypeOK

-----------------------------------------------------------------------------
(* The instance: three nodes, of which two are in one zone and one has a   *)
(* GPU.                                                                    *)

NodeGroups == [n1 |-> "g", n2 |-> "g", n3 |-> "g"]
Zones3 == [n1 |-> "x", n2 |-> "y", n3 |-> "y"]
Rooms == [n1 |-> 3, n2 |-> 3, n3 |-> 2]
NodePools == [n1 |-> "std", n2 |-> "std", n3 |-> "gpu"]

PodKind(m, i, rule, app, p) == [main |-> m, init |-> i, rule |-> rule, app |-> app, pool |-> p]
PodKinds ==
  {PodKind(1, 0, "spread", "a", "any"), PodKind(1, 2, "none", "b", "any"),
   PodKind(2, 0, "none", "a", "gpu"), PodKind(1, 0, "apart", "a", "any"),
   PodKind(1, 0, "together", "b", "any"), PodKind(2, 3, "apart", "b", "any")}

\* The pods of a workload that use little, by the day or only now, or too much.
AskedOf(day, low, now) ==
  [cpu |-> 8, mem |-> 8, ratio |-> 0, copies |-> 2, day |-> day,
   p95 |-> [cpu |-> low, mem |-> low], now |-> [cpu |-> now, mem |-> now]]
AskedKinds == {AskedOf(TRUE, 1, 5), AskedOf(FALSE, 5, 1), AskedOf(TRUE, 5, 1)}

\* Nodes named after their group; not at all; after a group that has a vendor's
\* prefix; the group's name is in that of a workload, and a node's in another's.
AfterGroup == {"g"} \X {"n1", "n2", "n3"}
NameOf(within, vendor) == [within |-> within, vendor |-> vendor]
NamingKinds ==
  {NameOf(AfterGroup, {}), NameOf({}, {}), NameOf(AfterGroup, {"g"}),
   NameOf(AfterGroup \union {<<"g", "w">>, <<"n1", "n2">>}, {"n3"})}

Homes == [p |-> "n1", q |-> "n1", r |-> "n2"]
=============================================================================
