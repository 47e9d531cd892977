---------------------------- MODULE CostShares ----------------------------
(***************************************************************************)
(* What the cost pages show (cost.go of internal/apiserver/handler): the   *)
(* cost of every node, shared out to its pods in proportion to what they   *)
(* request, and summed by namespace, by workload and by label.             *)
(* Costs are counted in units that every total weight divides.             *)
(***************************************************************************)
EXTENDS Integers, Sequences, FiniteSets, FiniteSetsExt

CONSTANTS
  BNodes, BPods,     \* the nodes and the pods
  NodeOf,            \* where a pod runs
  Spaces, Owners,    \* namespaces, and the workloads a pod may belong to
  Teams,             \* the values of a label
  Weights            \* what a pod may weigh: its requests over the capacity

ASSUME SharesAssumption ==
  /\ BPods \subseteq DOMAIN NodeOf /\ \A p \in BPods : NodeOf[p] \in BNodes
  /\ Weights \subseteq Nat /\ Weights # {} /\ Spaces # {}
  /\ IsFiniteSet(BNodes) /\ IsFiniteSet(BPods) /\ IsFiniteSet(Spaces)

VARIABLES
  billed,    \* the pods as the cluster state has them
  prices     \* what each node costs; zero when the price is not known

sharesVars == <<billed, prices>>

NoOwner == "no owner"
NoTeam == "no team"
Billed == [space : Spaces, owner : Owners \union {NoOwner},
           team : Teams \union {NoTeam}, weight : Weights]

\* Twelve units can be shared by total weights of up to four.
Prices == {0, 12}

ASSUME UnitsAssumption ==
  \A n \in BNodes, w \in [BPods -> Weights] :
    LET total == SumFunctionOnSet(w, {p \in BPods : NodeOf[p] = n})
    IN  total > 0 => \A c \in Prices : \E q \in 0 .. c : c = q * total

SharesInit ==
  /\ billed = [p \in BPods |-> [space |-> CHOOSE s \in Spaces : TRUE, owner |-> NoOwner,
                                team |-> NoTeam, weight |-> Min(Weights)]]
  /\ prices = [n \in BNodes |-> 0]

-----------------------------------------------------------------------------
PodsSharing(n) == {p \in BPods : NodeOf[p] = n}
Weight(ps) == SumFunction([p \in ps |-> billed[p].weight])

\* A node without a price, or whose pods request nothing, is shared by none.
Sharing(n) == prices[n] > 0 /\ Weight(PodsSharing(n)) > 0

\* Mutant of Share: of the cluster, not of its own node.
ShareOfAll(p) ==
  IF ~ Sharing(NodeOf[p]) THEN 0
  ELSE (prices[NodeOf[p]] * billed[p].weight) \div Weight(BPods)

Share(p) ==
  IF ~ Sharing(NodeOf[p]) THEN 0
  ELSE (prices[NodeOf[p]] * billed[p].weight) \div Weight(PodsSharing(NodeOf[p]))

Shares(ps) == SumFunction([p \in ps |-> Share(p)])

ByNamespace(s) == Shares({p \in BPods : billed[p].space = s})

\* A pod without an owner is a workload of its own.
WorkloadKey(p) ==
  IF billed[p].owner = NoOwner THEN <<billed[p].space, "Pod", p>>
  ELSE <<billed[p].space, "owned", billed[p].owner>>
WorkloadKeys == {WorkloadKey(p) : p \in BPods}

BelongsTo(p, key) == WorkloadKey(p) = key

ByWorkload(key) == Shares({p \in BPods : BelongsTo(p, key)})

ByLabel(t) == Shares({p \in BPods : billed[p].team = t})

-----------------------------------------------------------------------------
\* The state of the cluster, as a refresh leaves it.
PriceNodes ==
  /\ billed = [p \in BPods |-> [space |-> CHOOSE s \in Spaces : TRUE, owner |-> NoOwner,
                                team |-> NoTeam, weight |-> Min(Weights)]]
  /\ billed' \in [BPods -> Billed]
  /\ prices' \in [BNodes -> Prices]

SharesNext == PriceNodes

-----------------------------------------------------------------------------
Bill(ns) == SumFunctionOnSet(prices, ns)

\* The namespaces together pay for every node of which something is requested,
\* and for no more; what nobody requests appears in no namespace.
NamespacesPay ==
  SumFunction([s \in Spaces |-> ByNamespace(s)]) = Bill({n \in BNodes : Sharing(n)})

\* The three pages agree: a namespace costs what its workloads cost, and a
\* label never more than the namespaces its pods are in.
PagesAgree ==
  /\ \A s \in Spaces :
       ByNamespace(s) = SumFunction([key \in {k \in WorkloadKeys : Head(k) = s} |-> ByWorkload(key)])
  /\ \A t \in Teams :
       ByLabel(t) <= SumFunction([s \in {billed[p].space : p \in {q \in BPods : billed[q].team = t}}
                                    |-> ByNamespace(s)])

\* The pages that share out the costs add up to the same costs.
CostsAddUp == NamespacesPay /\ PagesAgree
=============================================================================
