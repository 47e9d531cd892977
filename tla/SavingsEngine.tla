--------------------------- MODULE SavingsEngine ----------------------------
(***************************************************************************)
(* The recommendations that the API computes from the cluster state        *)
(* (recommendations_engine.go of internal/apiserver/handler): nodes and    *)
(* node groups that could go, workloads that ask for too much, and what    *)
(* all of it would save.                                                   *)
(* Its algorithm for pods repeats the rightsizer's: Downsizing has that.   *)
(***************************************************************************)
EXTENDS Downsizing

CONSTANTS
  ENodes, EGroups,    \* the nodes and their groups
  GroupOf,            \* the group of a node
  ECap,               \* capacity of each node, CPU and memory alike
  ECosts,             \* what a node may cost a month
  EUses,              \* what of it may be used
  EWorkloads,         \* the workloads
  Asked,              \* what the pods of a workload may ask for and use
  CpuPrice, MemPrice, \* what a unit of a request costs a month
  Namings,            \* how the targets may be named
  Least               \* minSavingsThreshold

UseFigures == [cpu : Nat, mem : Nat]

\* Of a workload: the requests of a pod, the ratio of its node, how many pods
\* there are, whether the store has a day of them, and their use.
Asking ==
  [cpu : Nat, mem : Nat, ratio : Nat, copies : Nat, day : BOOLEAN,
   p95 : UseFigures, now : UseFigures]

Targets == ENodes \union EGroups \union EWorkloads

\* Which names contain which others, and which have the prefix of a vendor.
Naming == [within : SUBSET (Targets \X Targets), vendor : SUBSET Targets]

ASSUME EngineAssumption ==
  /\ IsFiniteSet(ENodes) /\ IsFiniteSet(EGroups) /\ IsFiniteSet(EWorkloads)
  /\ ENodes \intersect EGroups = {} /\ EWorkloads \intersect (ENodes \union EGroups) = {}
  /\ ENodes \subseteq DOMAIN GroupOf /\ ECap \in Nat \ {0} /\ ECosts \subseteq Nat
  /\ EUses \subseteq 0 .. ECap
  /\ Asked \subseteq Asking /\ CpuPrice \in Nat /\ MemPrice \in Nat
  /\ Namings \subseteq Naming
  /\ Least \in Nat \ {0}

VARIABLES
  fleet,     \* the nodes as the cluster state has them
  asks,      \* the workloads
  naming     \* the names of all of them

engineVars == <<fleet, asks, naming>>

NodeFacts == [cost : ECosts \union {0}, used : EUses, work : {"none", "pods"}, open : BOOLEAN]

Unsurveyed == [n \in ENodes |-> [cost |-> 0, used |-> 0, work |-> "none", open |-> FALSE]]

\* A workload without pods that are looked at.
Unasked ==
  [cpu |-> 0, mem |-> 0, ratio |-> 0, copies |-> 0, day |-> FALSE,
   p95 |-> [cpu |-> 0, mem |-> 0], now |-> [cpu |-> 0, mem |-> 0]]

EngineInit ==
  /\ fleet = Unsurveyed
  /\ asks = [w \in EWorkloads |-> Unasked]
  /\ naming = [within |-> {}, vendor |-> {}]

-----------------------------------------------------------------------------
(* Nodes.                                                                  *)

Members(g) == {n \in ENodes : GroupOf[n] = g}
CostOf(ns, fl) == SumFunction([n \in ns |-> fl[n].cost])
UsedOf(ns, fl) == SumFunction([n \in ns |-> fl[n].used])

\* Nothing but daemons on it, and schedulable.
EmptyNodes(fl) ==
  {n \in ENodes : fl[n].work = "none" /\ fl[n].open /\ fl[n].cost >= Least}

\* Less than 15 % used; nothing used is taken for missing metrics.
Underutilized(fl) ==
  {n \in ENodes : fl[n].work = "pods" /\ fl[n].open /\ fl[n].used > 0
                    /\ 100 * fl[n].used < 15 * ECap /\ fl[n].cost >= Least}

\* In percent of the group; CPU and memory alike.
GroupUse(g, fl) ==
  (100 * UsedOf(Members(g), fl)) \div (Cardinality(Members(g)) * ECap)

CeilDiv(a, b) == (a + b - 1) \div b

\* The nodes that would be half used.
KeptNodes(g, fl) ==
  Max({1, CeilDiv(UsedOf(Members(g), fl) * 2, ECap)})

Removable(g, fl) == Cardinality(Members(g)) - KeptNodes(g, fl)

GroupSaving(g, fl) ==
  (Removable(g, fl) * CostOf(Members(g), fl)) \div Cardinality(Members(g))

\* At least two nodes, less than a quarter used, some use known.
Shrinkable(fl) ==
  {g \in EGroups :
     /\ Cardinality(Members(g)) >= 2
     /\ \E n \in Members(g) : fl[n].used > 0
     /\ GroupUse(g, fl) < 25
     /\ Removable(g, fl) > 0 /\ GroupSaving(g, fl) >= Least}

-----------------------------------------------------------------------------
(* Workloads.  The pods of one are all alike; there are metrics of them.   *)

\* The percentile of the last day, where the store has a day of all of the
\* containers, or else the present use.
EngineUse(a) == IF a.day THEN a.p95 ELSE a.now

\* Mutant of EngineTarget: what the node has is not considered.
EngineTargetInProportion(p, u) ==
  LET cpu == Max({(12 * u.cpu) \div 10, (7 * p.cpu) \div 10, CpuFloor})
      mem == Max({(p.mem * cpu) \div p.cpu, (12 * u.mem) \div 10, MemLeast})
  IN  [cpu |-> cpu, mem |-> Min({mem, p.mem})]

EngineTarget(p, u) ==
  LET cpu == Max({(12 * u.cpu) \div 10, (7 * p.cpu) \div 10, CpuFloor})
      mem == Max({IF p.ratio > 0 THEN cpu * p.ratio ELSE (p.mem * cpu) \div p.cpu,
                  (12 * u.mem) \div 10, MemLeast})
  IN  [cpu |-> cpu, mem |-> Min({mem, p.mem})]

\* Less than half used, whatever the target utilization of the rightsizer is.
EngineDownsizes(p, u) ==
  /\ p.cpu > 0 /\ p.mem > 0 /\ 2 * u.cpu < p.cpu
  /\ EngineTarget(p, u).cpu < p.cpu /\ p.mem - EngineTarget(p, u).mem >= MemDelta

Price(cpu, mem) == cpu * CpuPrice + mem * MemPrice

WorkloadSaving(a) ==
  LET target == EngineTarget(a, EngineUse(a))
  IN  a.copies * Price(a.cpu - target.cpu, a.mem - target.mem)

Resizable(ws) ==
  {w \in EWorkloads : EngineDownsizes(ws[w], EngineUse(ws[w])) /\ WorkloadSaving(ws[w]) >= Least}

-----------------------------------------------------------------------------
(* The total.                                                              *)

\* What a node or a group is to be consolidated for.
Consolidated(fl) == EmptyNodes(fl) \union Underutilized(fl) \union Shrinkable(fl)

\* A target whose name contains another's that is taken for a group's: any that
\* is to be consolidated and has no vendor's prefix.
CoveredBy(t, consolidated) ==
  \E g \in consolidated \ naming.vendor : <<g, t>> \in naming.within

\* No target has two recommendations here.
Counted(fl, ws) ==
  {t \in Consolidated(fl) \union Resizable(ws) : ~CoveredBy(t, Consolidated(fl))}

\* ComputeTotalPotentialSavings over computeFromData.
Total(fl, ws) ==
  LET counted == Counted(fl, ws)
  IN  CostOf(counted \intersect ENodes, fl)
      + SumFunction([g \in counted \intersect EGroups |-> GroupSaving(g, fl)])
      + SumFunction([w \in counted \intersect EWorkloads |-> WorkloadSaving(ws[w])])

-----------------------------------------------------------------------------
\* A cluster is looked at.  (The answer is kept for five minutes; that is left
\* out.)
EngineNext ==
  /\ fleet = Unsurveyed
  /\ fleet' \in [ENodes -> {f \in NodeFacts : (f.work = "none" => f.used = 0) /\ f.cost \in ECosts}]
  /\ asks' \in [EWorkloads -> Asked]
  /\ naming' \in Namings

EngineSpec == EngineInit /\ [][EngineNext]_engineVars

-----------------------------------------------------------------------------
\* The nodes of every group that is to shrink are named after it, and nothing
\* hides that it is a group.
NamedAfter(fl) ==
  \A g \in Shrinkable(fl) :
    g \notin naming.vendor /\ \A n \in Members(g) : <<g, n>> \in naming.within

\* What all pods ask for, at the prices of the engine.
AskedCost(ws) ==
  SumFunction([w \in EWorkloads |-> ws[w].copies * Price(ws[w].cpu, ws[w].mem)])

\* All that is said to be saved together is not more than the nodes cost and
\* what the workloads ask for, counted once (recommendations_engine.go:592: "to
\* avoid double-counting"), where nodes are named after their groups.
TotalWithinCost ==
  NamedAfter(fleet) => Total(fleet, asks) <= CostOf(ENodes, fleet) + AskedCost(asks)

\* A group that is shrunk as recommended is at most half used afterwards, all
\* nodes being of one size, and is left with a node.
GroupStaysFit ==
  \A g \in Shrinkable(fleet) :
    /\ KeptNodes(g, fleet) >= 1
    /\ 2 * UsedOf(Members(g), fleet) <= KeptNodes(g, fleet) * ECap

\* The engine's algorithm and the rightsizer's are two texts of one algorithm
\* (recommendations_engine.go:198 "Aligned with the rightsizer controller's
\* proportional algorithm") over different windows.  What the rightsizer
\* recommends the engine recommends too, unless it knows of a higher use, for as
\* little or less, and for the same if it goes by the same use.  What the memory
\* must go down by at least is worth more than Least at the prices of the code.
EngineAgrees ==
  Downsizable =>
    /\ EngineTarget(pod, [cpu |-> P95("cpu"), mem |-> P95("mem")])
         = [cpu |-> CpuTarget, mem |-> MemTarget]
    /\ \A cpu \in 0 .. P95("cpu"), mem \in 0 .. P95("mem") :
         LET by == [cpu |-> cpu, mem |-> mem]
         IN  /\ EngineDownsizes(pod, by)
             /\ EngineTarget(pod, by).cpu <= CpuTarget
             /\ EngineTarget(pod, by).mem <= MemTarget

\* What the savings page adds up can be had: it is counted once, the pods still
\* fit what is left, and the rightsizer's recommendations are all among its own.
SavingsSound == TotalWithinCost /\ GroupStaysFit /\ EngineAgrees

=============================================================================
