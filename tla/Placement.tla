----------------------------- MODULE Placement ------------------------------
(***************************************************************************)
(* The scheduling simulator (internal/scheduler/simulator.go): whether a   *)
(* pod fits a node that has pods already.  Pods are placed one at a time,  *)
(* wherever the simulator allows it, on nodes that are cordoned in         *)
(* between; taints, selectors and node affinity, which concern the pod and *)
(* the node alone, are one label here.  In its second form the simulator   *)
(* knows the pods of one node only.                                        *)
(***************************************************************************)
EXTENDS Integers, FiniteSets, FiniteSetsExt

CONSTANTS
  PNodes,      \* the nodes
  PPods,       \* the pods to place
  Zone,        \* the zone of a node, or NoZone where the label is missing
  NoZone,
  Room,        \* what a node has to allocate
  Pool,        \* the nodes' label that pods select
  Kinds,       \* the pods that come: their requests, rules and labels
  MaxSkew      \* of the pods that spread over zones

PendingPods == "pending"

ASSUME PlacementAssumption ==
  /\ IsFiniteSet(PNodes) /\ IsFiniteSet(PPods)
  /\ PendingPods \notin PNodes /\ PNodes \subseteq DOMAIN Zone
  /\ \A n \in PNodes : Room[n] \in Nat
  /\ MaxSkew \in Nat \ {0}
  /\ \A t \in Kinds : t.main \in Nat /\ t.init \in Nat /\ t.rule \in {"none", "together", "apart", "spread"}

VARIABLES
  podTraits,    \* the pods that have come, each a member of Kinds
  cordoned,     \* the cordoned nodes
  placed        \* the node of each pod, or PendingPods

placementVars == <<podTraits, cordoned, placed>>

\* Only pods that have come are placed, on nodes of the pool they select.
PlacementTypeOK ==
  /\ podTraits \in [DOMAIN podTraits -> Kinds] /\ DOMAIN podTraits \subseteq PPods
  /\ cordoned \subseteq PNodes
  /\ placed \in [PPods -> PNodes \union {PendingPods}]
  /\ \A p \in PPods :
       placed[p] \in PNodes =>
         p \in DOMAIN podTraits /\ podTraits[p].pool \in {"any", Pool[placed[p]]}

PlacementInit ==
  /\ podTraits = << >>
  /\ cordoned = {}
  /\ placed = [p \in PPods |-> PendingPods]

-----------------------------------------------------------------------------
PodsOn(n) == {p \in PPods : placed[p] = n}

\* The init containers run before the others: the greater counts.
Effective(t) == Max({t.main, t.init})

Taken(n) == SumFunction([p \in PodsOn(n) |-> Effective(podTraits[p])])
HasRoom(t, n) == Taken(n) + Effective(t) <= Room[n]

Selected(t, n) == t.pool = "any" \/ t.pool = Pool[n]

\* The nodes of a zone; a node without the label is in none.
Domain(z) == {n \in PNodes : Zone[n] = z}
Zones == {Zone[n] : n \in PNodes} \ {NoZone}

\* The pods a rule counts carry the same label, in whatever namespace.
AlikeOn(t, ns) == {p \in UNION {PodsOn(n) : n \in ns} : podTraits[p].app = t.app}

Together(t, n) == Zone[n] # NoZone /\ AlikeOn(t, Domain(Zone[n])) # {}

Apart(t, n) == Zone[n] = NoZone \/ AlikeOn(t, Domain(Zone[n])) = {}

\* The skew over the zones with the pod on the node.
SkewWith(t, n) ==
  LET count(z) == Cardinality(AlikeOn(t, Domain(z))) + (IF z = Zone[n] THEN 1 ELSE 0)
  IN  Max({count(z) : z \in Zones}) - Min({count(z) : z \in Zones})

\* Mutant of Spread: the pod itself is not counted.
SpreadWithout(t, n) == Zone[n] = NoZone \/ SkewWith(t, n) <= MaxSkew + 1

Spread(t, n) == Zone[n] = NoZone \/ SkewWith(t, n) <= MaxSkew

CanScheduleWithTopology(t, n) ==
  /\ n \notin cordoned
  /\ HasRoom(t, n)
  /\ Selected(t, n)
  /\ t.rule = "together" => Together(t, n)
  /\ t.rule = "apart" => Apart(t, n)
  /\ t.rule = "spread" => Spread(t, n)

\* The second form: the node stands for its zone.
CanSchedule(t, n) ==
  /\ n \notin cordoned
  /\ HasRoom(t, n)
  /\ Selected(t, n)
  /\ t.rule = "together" => Zone[n] # NoZone /\ AlikeOn(t, {n}) # {}
  /\ t.rule = "apart" => Zone[n] = NoZone \/ AlikeOn(t, {n}) = {}
  /\ t.rule = "spread" => Zone[n] = NoZone \/ Cardinality(AlikeOn(t, {n})) <= MaxSkew

FindFittingNodes(t) == {n \in PNodes : CanScheduleWithTopology(t, n)}

CountUnschedulable ==
  Cardinality({p \in DOMAIN podTraits : placed[p] = PendingPods
                               /\ FindFittingNodes(podTraits[p]) = {}})

-----------------------------------------------------------------------------
Arrive ==
  /\ \E p \in PPods \ DOMAIN podTraits, t \in Kinds :
       podTraits' = [q \in DOMAIN podTraits \union {p} |->
                       IF q = p THEN t ELSE podTraits[q]]
  /\ UNCHANGED <<cordoned, placed>>

Place ==
  /\ \E p \in DOMAIN podTraits :
       /\ placed[p] = PendingPods
       /\ \E n \in FindFittingNodes(podTraits[p]) : placed' = [placed EXCEPT ![p] = n]
  /\ UNCHANGED <<podTraits, cordoned>>

Cordon ==
  /\ \E ns \in SUBSET PNodes : ns # cordoned /\ cordoned' = ns
  /\ UNCHANGED <<podTraits, placed>>

PlacementNext == Arrive \/ Place \/ Cordon

PlacementSpec == PlacementInit /\ [][PlacementNext]_placementVars

-----------------------------------------------------------------------------
Placed == {p \in PPods : placed[p] # PendingPods}

\* Two pods of one label in one zone.
Neighbours(p, q) ==
  /\ p # q /\ podTraits[p].app = podTraits[q].app
  /\ Zone[placed[p]] = Zone[placed[q]] /\ Zone[placed[p]] # NoZone

\* Whichever pods of a node run their init containers at a time and whichever
\* run the others, no node is overcommitted (simulator.go:147 counts the greater
\* of the two for each).
RoomInEveryPhase ==
  \A n \in PNodes : \A starting \in SUBSET PodsOn(n) :
    SumFunction([p \in starting |-> podTraits[p].init])
      + SumFunction([p \in PodsOn(n) \ starting |-> podTraits[p].main]) <= Room[n]

\* Pods that are to keep apart from their like are apart from each other in the
\* end, in whatever order they came, although the rules of those already placed
\* are not looked at when another one comes (simulator.go:410).
StillApart ==
  \A p, q \in Placed :
    Neighbours(p, q) => ~ (podTraits[p].rule = "apart" /\ podTraits[q].rule = "apart")

\* A pod that is to be together with its like has company (simulator.go:358).
HasCompany ==
  \A p \in Placed : podTraits[p].rule = "together" => \E q \in Placed : Neighbours(p, q)

\* Pods that were all placed under the same spread rule are spread evenly, in
\* whatever order and past whatever cordons they came (simulator.go:518).
EvenlySpread ==
  \A a \in {"a", "b"} :
    LET alike == {p \in PPods : placed[p] # PendingPods /\ podTraits[p].app = a}
        in(z) == Cardinality({p \in alike : Zone[placed[p]] = z})
    IN  (\A p \in alike : podTraits[p].rule = "spread" /\ Zone[placed[p]] # NoZone)
          => \A y, z \in Zones : in(y) - in(z) <= MaxSkew

\* The form that knows one node only allows more to a pod that is to keep apart,
\* less to one that is to be together, and as much to one that has no rule: what
\* it says of a placement by itself is safe for togetherness alone.
FormsOrdered ==
  \A n \in PNodes, p \in DOMAIN podTraits :
    LET near == CanSchedule(podTraits[p], n)
        far == CanScheduleWithTopology(podTraits[p], n)
    IN  placed[p] = PendingPods =>
          /\ podTraits[p].rule = "apart" => (far => near)
          /\ podTraits[p].rule = "together" => (near => far)
          /\ podTraits[p].rule = "none" => (near <=> far)

\* The rules by which pods were placed one by one hold of all of them together:
\* the room, and the rules about other pods as far as those have the same rule.
\* (A pod without a rule may join one that is to be apart, as only the rules of
\* the incoming pod are looked at.)
PlacementsSound ==
  RoomInEveryPhase /\ StillApart /\ HasCompany /\ EvenlySpread /\ FormsOrdered

=============================================================================
