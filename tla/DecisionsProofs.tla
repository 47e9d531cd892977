-------------------------- MODULE DecisionsProofs --------------------------
(***************************************************************************)
(* Theorems about the parts of Decisions, for every value of the           *)
(* constants.  A behaviour of Decisions is, seen through the variables of  *)
(* one part, a behaviour of that part (EachPart); the rest of the module   *)
(* is about one part after the other, and at the end about the whole.      *)
(* The adjuster of minimums has a module of its own, MinAdjusterProofs.    *)
(***************************************************************************)
EXTENDS Decisions, MinAdjusterProofs, SumTheorems

SizingPart == SizingInit /\ [][SizingNext]_sizingVars
PodsPart == DownsizingInit /\ [][DownsizingNext]_downsizingVars
SavingsPart == EngineInit /\ [][EngineNext]_engineVars
PlacementPart == PlacementInit /\ [][PlacementNext]_placementVars
CostsPart == SharesInit /\ [][SharesNext]_sharesVars
AdvicePart == OverscaledInit /\ [][OverscaledNext]_overscaledVars

\* In a behaviour of the whole, each part starts and goes on as it does alone,
\* or rests while another one is in focus.
LEMMA EachPart ==
  DecisionsSpec => /\ SizingPart /\ PodsPart /\ SavingsPart /\ PlacementPart
                   /\ CostsPart /\ AdvicePart /\ MinSpec /\ Spec
<1>1. DecisionsInit => /\ SizingInit /\ DownsizingInit /\ EngineInit /\ PlacementInit
                       /\ SharesInit /\ OverscaledInit /\ MinInit /\ Init
  BY Zenon DEF DecisionsInit
<1>2. [DecisionsNext]_decisions => /\ [SizingNext]_sizingVars
                                   /\ [DownsizingNext]_downsizingVars
                                   /\ [EngineNext]_engineVars
                                   /\ [PlacementNext]_placementVars
                                   /\ [SharesNext]_sharesVars
                                   /\ [OverscaledNext]_overscaledVars
                                   /\ [MinNext]_minVars
                                   /\ [Next]_vars
  <2>1. CASE UNCHANGED decisions
    BY Zenon, <2>1 DEF decisions
  <2>2. CASE DecisionsNext
    BY Zenon, <2>2 DEF DecisionsNext
  <2> QED
    BY <2>1, <2>2
<1> QED
  BY <1>1, <1>2, PTL
     DEF DecisionsSpec, SizingPart, PodsPart, SavingsPart, PlacementPart, CostsPart,
         AdvicePart, MinSpec, Spec

-----------------------------------------------------------------------------
(* Savings, and the downsizing of pods.                                      *)

\* The figures of the nodes and of the workloads.
EngineInv ==
  /\ \A n \in ENodes : fleet[n].cost \in Nat /\ fleet[n].used \in Nat
  /\ \A w \in EWorkloads : asks[w] \in Asking

\* What the nodes cost, as a function.
cost == [n \in ENodes |-> fleet[n].cost]
used == [n \in ENodes |-> fleet[n].used]

\* The engine's figures are sums.
LEMMA Sums ==
  ASSUME EngineInv, NEW ns \in SUBSET ENodes
  PROVE  /\ CostOf(ns, fleet) = SumOver(cost, ns) /\ SumOver(cost, ns) \in Nat
         /\ UsedOf(ns, fleet) \in Nat
         /\ IsFiniteSet(ns)
<1> DEFINE c == [n \in ns |-> fleet[n].cost]
           u == [n \in ns |-> fleet[n].used]
<1>1. IsFiniteSet(ns)
  BY EngineAssumption, FS_Subset
<1>2. \A n \in ns : cost[n] \in Nat /\ c[n] = cost[n] /\ u[n] \in Nat
  BY DEF EngineInv, cost
<1>3. CostOf(ns, fleet) = SumOver(c, ns) /\ UsedOf(ns, fleet) = SumOver(u, ns)
  BY DEF CostOf, UsedOf, SumFunction, SumOver
<1> HIDE DEF c, u
<1>4. SumOver(c, ns) = SumOver(cost, ns) /\ SumOver(cost, ns) \in Nat /\ SumOver(u, ns) \in Nat
  BY <1>1, <1>2, SumAgrees, SumType
<1> QED
  BY Zenon, <1>1, <1>3, <1>4

\* The nodes that are kept have room for what is used, twice over.
LEMMA KeptIs ==
  ASSUME EngineInv, NEW g
  PROVE  /\ KeptNodes(g, fleet) \in Nat /\ KeptNodes(g, fleet) >= 1
         /\ 2 * UsedOf(Members(g), fleet) <= KeptNodes(g, fleet) * ECap
<1> DEFINE U == UsedOf(Members(g), fleet)
           C == CeilDiv(U * 2, ECap)
           K == KeptNodes(g, fleet)
<1>1. Members(g) \in SUBSET ENodes
  BY DEF Members
<1>2. U \in Nat
  BY <1>1, Sums
<1>3. ECap \in Nat /\ ECap > 0
  BY EngineAssumption
<1> HIDE DEF U
<1>4. C \in Nat /\ C * ECap >= U * 2
  BY <1>2, <1>3, DivUp DEF CeilDiv
<1>5. K = Max({1, C})
  BY Zenon DEF KeptNodes, U
<1> HIDE DEF C, K
<1>6. K \in Nat /\ K >= 1 /\ K >= C
  BY <1>4, <1>5, GreaterOfTwo
<1>7. C * ECap <= K * ECap
  BY <1>3, <1>4, <1>6, Times
<1>8. C * ECap \in Nat /\ K * ECap \in Nat
  BY <1>3, <1>4, <1>6
<1>9. 2 * U <= K * ECap
  BY <1>2, <1>4, <1>7, <1>8
<1> QED
  BY Zenon, <1>6, <1>9 DEF K, U

\* A group saves no more than it costs.
LEMMA SavingIs ==
  ASSUME EngineInv, NEW g \in Shrinkable(fleet)
  PROVE  GroupSaving(g, fleet) \in Nat /\ GroupSaving(g, fleet) <= SumOver(cost, Members(g))
<1> DEFINE k == Cardinality(Members(g))
           r == Removable(g, fleet)
           c == CostOf(Members(g), fleet)
<1>1. Members(g) \in SUBSET ENodes
  BY DEF Members
<1>2. c = SumOver(cost, Members(g)) /\ c \in Nat /\ IsFiniteSet(Members(g))
  BY <1>1, Sums
<1>3. k \in Nat
  BY <1>2, FS_CardinalityType
<1>4. k >= 2 /\ r > 0
  BY Zenon DEF Shrinkable
<1>5. r = k - KeptNodes(g, fleet)
  BY Zenon DEF Removable
<1> HIDE DEF k, r, c
<1>6. r \in Nat /\ r <= k /\ k > 0
  BY <1>3, <1>4, <1>5, KeptIs
<1>7. GroupSaving(g, fleet) = (r * c) \div k
  BY Zenon DEF GroupSaving, k, r, c
<1> QED
  BY <1>2, <1>3, <1>6, <1>7, DivLess

\* A fifth more than is used.
LEMMA MoreThanUsed ==
  ASSUME NEW u \in Nat
  PROVE  (12 * u) \div 10 \in Nat /\ (12 * u) \div 10 >= u
OBVIOUS

\* What the engine would have of a pod that has requests: numbers, and not more
\* memory than before.
LEMMA EngineTargetIs ==
  ASSUME NEW p, p.cpu \in Nat, p.mem \in Nat, p.ratio \in Nat, p.cpu > 0,
         NEW u, u.cpu \in Nat, u.mem \in Nat
  PROVE  /\ EngineTarget(p, u).cpu \in Nat /\ EngineTarget(p, u).mem \in Nat
         /\ EngineTarget(p, u).mem <= p.mem
<1> DEFINE a == (12 * u.cpu) \div 10
           b == (7 * p.cpu) \div 10
           cpu == Max({a, b, CpuFloor})
           wanted == IF p.ratio > 0 THEN cpu * p.ratio ELSE (p.mem * cpu) \div p.cpu
           d == (12 * u.mem) \div 10
           mem == Max({wanted, d, MemLeast})
<1>1. CpuFloor \in Nat /\ MemLeast \in Nat
  BY DownsizingAssumption
<1>2. a \in Nat /\ d \in Nat
  BY MoreThanUsed
<1>3. b \in Nat
  <2> DEFINE c == p.cpu
  <2>1. c \in Nat
    OBVIOUS
  <2> HIDE DEF c
  <2>2. (7 * c) \div 10 \in Nat
    BY <2>1
  <2> QED
    BY <2>2 DEF c
<1> HIDE DEF a, b, d
<1>4. cpu \in Nat
  BY <1>1, <1>2, <1>3, GreatestOfThree
<1> HIDE DEF cpu
<1>5. wanted \in Nat
  <2> DEFINE r == p.ratio
             m == p.mem
             c == p.cpu
  <2>1. r \in Nat /\ m \in Nat /\ c \in Nat /\ c > 0
    OBVIOUS
  <2>2. wanted = IF r > 0 THEN cpu * r ELSE (m * cpu) \div c
    BY Zenon
  <2> HIDE DEF r, m, c, wanted
  <2>3. cpu * r \in Nat /\ m * cpu \in Nat
    BY <1>4, <2>1
  <2>4. (m * cpu) \div c \in Nat
    BY <2>1, <2>3
  <2> QED
    BY <2>2, <2>3, <2>4
<1> HIDE DEF wanted
<1>6. mem \in Nat
  BY <1>1, <1>2, <1>5, GreatestOfThree
<1> HIDE DEF mem
<1>7. EngineTarget(p, u) = [cpu |-> cpu, mem |-> Min({mem, p.mem})]
  BY Zenon DEF EngineTarget, cpu, mem, wanted, a, b, d
<1>8. Min({mem, p.mem}) \in Nat /\ Min({mem, p.mem}) <= p.mem
  BY <1>6, LessOfTwo
<1> QED
  BY <1>4, <1>7, <1>8

\* Prices are numbers that grow with what is asked for.
LEMMA PriceGrows ==
  ASSUME NEW k \in Nat, NEW c \in Nat, NEW m \in Nat, NEW x \in Nat, NEW y \in Nat,
         c <= x, m <= y
  PROVE  /\ k * Price(c, m) \in Nat /\ k * Price(x, y) \in Nat
         /\ k * Price(c, m) <= k * Price(x, y)
<1>1. CpuPrice \in Nat /\ MemPrice \in Nat
  BY EngineAssumption
<1>2. c * CpuPrice <= x * CpuPrice /\ m * MemPrice <= y * MemPrice
  BY <1>1, Times
<1>3. /\ c * CpuPrice \in Nat /\ x * CpuPrice \in Nat
      /\ m * MemPrice \in Nat /\ y * MemPrice \in Nat
  BY <1>1
<1> DEFINE P == Price(c, m)
           Q == Price(x, y)
<1>4. P \in Nat /\ Q \in Nat /\ P <= Q
  BY <1>2, <1>3 DEF Price
<1> HIDE DEF P, Q
<1>5. P * k <= Q * k
  BY <1>4, Times
<1>6. k * P \in Nat /\ k * Q \in Nat /\ k * P <= k * Q
  BY <1>4, <1>5
<1> QED
  BY Zenon, <1>6 DEF P, Q

\* A workload saves no more than it asks for.
LEMMA WorkloadSavingIs ==
  ASSUME EngineInv, NEW w \in EWorkloads
  PROVE  LET price == asks[w].copies * Price(asks[w].cpu, asks[w].mem)
         IN  /\ price \in Nat
             /\ w \in Resizable(asks) =>
                  WorkloadSaving(asks[w]) \in Nat /\ WorkloadSaving(asks[w]) <= price
<1> DEFINE a == asks[w]
           u == EngineUse(a)
           t == EngineTarget(a, u)
           c == a.cpu
           m == a.mem
           k == a.copies
           tc == t.cpu
           tm == t.mem
<1>1. a \in Asking
  BY DEF EngineInv
<1>2. c \in Nat /\ m \in Nat /\ k \in Nat /\ a.ratio \in Nat
  BY <1>1 DEF Asking
<1>3. u.cpu \in Nat /\ u.mem \in Nat
  <2>1. u \in UseFigures
    BY <1>1 DEF Asking, EngineUse
  <2> QED
    BY <2>1 DEF UseFigures
<1>4. k * Price(c, m) \in Nat
  <2> HIDE DEF k, c, m
  <2>1. c <= c /\ m <= m
    BY <1>2
  <2> QED
    BY <1>2, <2>1, PriceGrows
<1>5. ASSUME w \in Resizable(asks)
      PROVE  WorkloadSaving(a) \in Nat /\ WorkloadSaving(a) <= k * Price(c, m)
  <2>1. EngineDownsizes(a, u)
    BY Zenon, <1>5 DEF Resizable
  <2>2. c > 0 /\ tc < c
    BY Zenon, <2>1 DEF EngineDownsizes
  <2>3. tc \in Nat /\ tm \in Nat /\ tm <= m
    BY <1>2, <1>3, <2>2, EngineTargetIs
  <2>4. WorkloadSaving(a) = k * Price(c - tc, m - tm)
    BY Zenon DEF WorkloadSaving
  <2> HIDE DEF a, u, t, c, m, k, tc, tm
  <2>5. c - tc \in Nat /\ m - tm \in Nat /\ c - tc <= c /\ m - tm <= m
    BY <1>2, <2>2, <2>3
  <2>6. k * Price(c - tc, m - tm) \in Nat /\ k * Price(c - tc, m - tm) <= k * Price(c, m)
    BY <1>2, <2>5, PriceGrows
  <2> QED
    BY Zenon, <2>4, <2>6
<1> QED
  BY Zenon, <1>4, <1>5

\* What is saved on workloads is not more than all of them ask for.
LEMMA WorkloadsSave ==
  ASSUME EngineInv, NEW ws, ws \subseteq Resizable(asks)
  PROVE  LET saved == SumFunction([w \in ws |-> WorkloadSaving(asks[w])])
         IN  saved \in Nat /\ AskedCost(asks) \in Nat /\ saved <= AskedCost(asks)
<1> DEFINE saving == [w \in ws |-> WorkloadSaving(asks[w])]
           price == [w \in EWorkloads |-> asks[w].copies * Price(asks[w].cpu, asks[w].mem)]
<1>1. ws \subseteq EWorkloads /\ IsFiniteSet(EWorkloads) /\ IsFiniteSet(ws)
  <2>1. ws \subseteq EWorkloads
    BY DEF Resizable
  <2>2. IsFiniteSet(EWorkloads)
    BY EngineAssumption
  <2> QED
    BY <2>1, <2>2, FS_Subset
<1>2. \A w \in EWorkloads : price[w] \in Nat
  BY Zenon, WorkloadSavingIs
<1>3. \A w \in ws : saving[w] \in Nat /\ price[w] \in Nat /\ saving[w] <= price[w]
  <2> SUFFICES ASSUME NEW w \in ws
               PROVE  saving[w] \in Nat /\ price[w] \in Nat /\ saving[w] <= price[w]
    OBVIOUS
  <2>1. w \in EWorkloads /\ w \in Resizable(asks)
    BY <1>1
  <2>2. /\ saving[w] = WorkloadSaving(asks[w])
        /\ price[w] = asks[w].copies * Price(asks[w].cpu, asks[w].mem)
    BY Zenon, <2>1
  <2> QED
    BY Zenon, <2>1, <2>2, WorkloadSavingIs
<1>4. SumFunction(saving) = SumOver(saving, ws)
  BY DEF SumFunction, SumOver
<1>5. AskedCost(asks) = SumOver(price, EWorkloads)
  BY DEF AskedCost, SumFunction, SumOver
<1> HIDE DEF saving, price
<1>6. SumOver(saving, ws) \in Nat /\ SumOver(price, EWorkloads) \in Nat
      /\ SumOver(price, ws) \in Nat
  BY <1>1, <1>2, <1>3, SumType
<1>7. SumOver(saving, ws) <= SumOver(price, ws)
  BY <1>1, <1>3, SumGrows
<1>8. SumOver(price, ws) <= SumOver(price, EWorkloads)
  BY <1>1, <1>2, SumOfPart
<1>9. SumOver(saving, ws) <= SumOver(price, EWorkloads)
  BY <1>6, <1>7, <1>8
<1> QED
  BY Zenon, <1>4, <1>5, <1>6, <1>9 DEF saving

\* The total counts no node with its group, and every node at most once.
LEMMA CountedOnce ==
  EngineInv => TotalWithinCost
<1> SUFFICES ASSUME EngineInv, NamedAfter(fleet)
             PROVE  Total(fleet, asks) <= CostOf(ENodes, fleet) + AskedCost(asks)
  BY Zenon DEF TotalWithinCost
<1> DEFINE all == Counted(fleet, asks)
           shrunk == all \intersect EGroups
           single == all \intersect ENodes
           resized == all \intersect EWorkloads
           saving == [g \in shrunk |-> GroupSaving(g, fleet)]
           saved == SumFunction([w \in resized |-> WorkloadSaving(asks[w])])
           whole == [g \in shrunk |-> SumOver(cost, {n \in ENodes : GroupOf[n] = g})]
           covered == {n \in ENodes : GroupOf[n] \in shrunk}
<1>1. Total(fleet, asks) = CostOf(single, fleet) + SumOver(saving, shrunk) + saved
  BY DEF Total, SumFunction, SumOver
<1>2. /\ ENodes \intersect EGroups = {} /\ EWorkloads \intersect (ENodes \union EGroups) = {}
      /\ IsFiniteSet(EGroups)
  BY EngineAssumption
<1>3. shrunk \subseteq Shrinkable(fleet) /\ resized \subseteq Resizable(asks)
  BY <1>2 DEF Counted, Consolidated, EmptyNodes, Underutilized, Shrinkable, Resizable
<1>4. IsFiniteSet(shrunk)
  BY <1>2, FS_Subset
<1>5. single \subseteq ENodes /\ single \intersect covered = {}
  <2> SUFFICES ASSUME NEW n \in single, n \in covered PROVE FALSE
    OBVIOUS
  <2>1. n \in ENodes /\ GroupOf[n] \in Shrinkable(fleet)
    BY <1>3
  <2>2. n \in Members(GroupOf[n])
    BY <2>1 DEF Members
  <2>3. GroupOf[n] \notin naming.vendor /\ <<GroupOf[n], n>> \in naming.within
    BY Zenon, <2>1, <2>2 DEF NamedAfter
  <2>4. GroupOf[n] \in Consolidated(fleet)
    BY <2>1 DEF Consolidated
  <2>5. CoveredBy(n, Consolidated(fleet))
    BY <2>3, <2>4 DEF CoveredBy
  <2> QED
    BY <2>5 DEF Counted
<1>6. covered \subseteq ENodes
  OBVIOUS
<1>7. \A n \in ENodes : cost[n] \in Nat
  BY DEF EngineInv, cost
<1>8. ASSUME NEW g \in shrunk
      PROVE  saving[g] \in Nat /\ whole[g] \in Nat /\ saving[g] <= whole[g]
  <2>1. Members(g) = {n \in ENodes : GroupOf[n] = g} /\ Members(g) \in SUBSET ENodes
    BY DEF Members
  <2>2. SumOver(cost, Members(g)) \in Nat
    BY <2>1, Sums
  <2>3. whole[g] = SumOver(cost, Members(g))
    BY Zenon, <2>1
  <2>4. saving[g] = GroupSaving(g, fleet) /\ g \in Shrinkable(fleet)
    BY Zenon, <1>3
  <2> HIDE DEF saving, whole
  <2>5. GroupSaving(g, fleet) \in Nat /\ GroupSaving(g, fleet) <= SumOver(cost, Members(g))
    BY <2>4, SavingIs
  <2> QED
    BY <2>2, <2>3, <2>4, <2>5
<1>9. SumOver(whole, shrunk) = SumOver(cost, covered)
  <2>1. SumOver(ByKey(cost, GroupOf, ENodes, shrunk), shrunk)
          = SumOver(cost, WithKeys(GroupOf, ENodes, shrunk))
    <3> HIDE DEF shrunk
    <3> QED
      BY <1>4, <1>7, EngineAssumption, SumByKey
  <2> HIDE DEF shrunk
  <2> QED
    BY Zenon, <2>1 DEF ByKey, WithKeys
<1>10. saved \in Nat /\ AskedCost(asks) \in Nat /\ saved <= AskedCost(asks)
  <2> HIDE DEF resized
  <2> QED
    BY Zenon, <1>3, WorkloadsSave
<1> HIDE DEF all, shrunk, single, resized, saving, saved, whole, covered
<1>11. SumOver(saving, shrunk) <= SumOver(whole, shrunk) /\ SumOver(saving, shrunk) \in Nat
  BY <1>4, <1>8, SumGrows, SumType
<1>12. IsFiniteSet(single) /\ IsFiniteSet(covered) /\ IsFiniteSet(single \union covered)
       /\ IsFiniteSet(ENodes)
  BY <1>5, <1>6, EngineAssumption, FS_Subset, FS_Union
<1>13. SumOver(cost, single \union covered) = SumOver(cost, single) + SumOver(cost, covered)
  BY <1>5, <1>6, <1>7, <1>12, SumOfBoth
<1>14. SumOver(cost, single \union covered) <= SumOver(cost, ENodes)
  BY <1>5, <1>6, <1>7, <1>12, SumOfPart
<1>15. CostOf(single, fleet) = SumOver(cost, single) /\ SumOver(cost, single) \in Nat
       /\ CostOf(ENodes, fleet) = SumOver(cost, ENodes) /\ SumOver(cost, ENodes) \in Nat
       /\ SumOver(cost, covered) \in Nat
  BY <1>5, <1>6, Sums
<1> QED
  BY <1>1, <1>9, <1>10, <1>11, <1>13, <1>14, <1>15

\* The groups that shrink keep room for what they use.
LEMMA StillFit ==
  EngineInv => GroupStaysFit
BY Zenon, KeptIs DEF GroupStaysFit

\* The first figures.
LEMMA EngineStarts ==
  EngineInit => EngineInv
BY DEF EngineInit, EngineInv, Unsurveyed, Unasked, Asking, UseFigures

\* The figures of every state of the cluster.
LEMMA EngineKeeps ==
  EngineInv /\ [EngineNext]_engineVars => EngineInv'
<1>1. EngineInv /\ EngineNext => EngineInv'
  <2> SUFFICES ASSUME EngineNext PROVE EngineInv'
    OBVIOUS
  <2>1. ASSUME NEW n \in ENodes
        PROVE  fleet'[n].cost \in Nat /\ fleet'[n].used \in Nat
    <3>1. fleet'[n] \in NodeFacts /\ fleet'[n].cost \in ECosts
      BY DEF EngineNext
    <3>2. fleet'[n].used \in EUses
      BY <3>1 DEF NodeFacts
    <3>3. \A c \in ECosts : c \in Nat
      BY EngineAssumption
    <3>4. \A u \in EUses : u \in Nat
      BY EngineAssumption
    <3> QED
      BY Zenon, <3>1, <3>2, <3>3, <3>4
  <2>2. \A w \in EWorkloads : asks'[w] \in Asking
    BY EngineAssumption DEF EngineNext
  <2> QED
    BY Zenon, <2>1, <2>2 DEF EngineInv
<1>2. EngineInv /\ UNCHANGED engineVars => EngineInv'
  BY Zenon DEF EngineInv, engineVars
<1> QED
  BY Zenon, <1>1, <1>2

\* The figures of a pod and of what it uses.
DownsizingInv ==
  /\ pod \in [cpu : Nat, mem : Nat, ratio : Nat]
  /\ use \in [cpu : [PodContainers -> Nat], mem : [PodContainers -> Nat],
              seen : SUBSET PodContainers]

\* What the store knows of a pod's use.
LEMMA PercentileIs ==
  ASSUME DownsizingInv, NEW what \in {"cpu", "mem"}
  PROVE  P95(what) \in Nat /\ Uses(what) \in Nat
         /\ (use.seen = PodContainers => P95(what) = Uses(what))
<1>1. use[what] \in [PodContainers -> Nat] /\ use.seen \subseteq PodContainers
  BY DEF DownsizingInv
<1>2. IsFiniteSet(PodContainers) /\ IsFiniteSet(use.seen)
  <2>1. IsFiniteSet({"main"}) /\ IsFiniteSet({"sidecar"})
    BY FS_Singleton
  <2>2. PodContainers = {"main"} \union {"sidecar"}
    BY DEF PodContainers
  <2>3. IsFiniteSet(PodContainers)
    BY Zenon, <2>1, <2>2, FS_Union
  <2> QED
    BY Zenon, <1>1, <2>3, FS_Subset
<1>3. \A c \in PodContainers : use[what][c] \in Nat
  BY <1>1
<1>4. P95(what) = SumOver(use[what], use.seen) /\ Uses(what) = SumOver(use[what], PodContainers)
  BY Zenon DEF P95, Uses, SumOver
<1>5. SumOver(use[what], use.seen) \in Nat /\ SumOver(use[what], PodContainers) \in Nat
  BY <1>1, <1>2, <1>3, SumType
<1> QED
  BY Zenon, <1>4, <1>5

\* The target for the CPU is not below the floor nor below what was used.
LEMMA TargetIs ==
  ASSUME DownsizingInv
  PROVE  /\ CpuTarget \in Nat /\ CpuTarget >= CpuFloor /\ CpuTarget >= P95("cpu")
<1> DEFINE a == (12 * P95("cpu")) \div 10
           b == (7 * pod.cpu) \div 10
<1>1. a \in Nat /\ a >= P95("cpu") /\ P95("cpu") \in Nat
  BY PercentileIs, MoreThanUsed
<1>2. pod.cpu \in Nat
  BY DEF DownsizingInv
<1> DEFINE p == pod.cpu
<1> HIDE DEF p
<1>3. p \in Nat
  BY <1>2 DEF p
<1>4. (7 * p) \div 10 \in Nat
  BY <1>3
<1>5. b \in Nat
  BY <1>4 DEF p
<1>6. CpuFloor \in Nat
  BY DownsizingAssumption
<1>7. CpuTarget = Max({a, b, CpuFloor})
  BY Zenon DEF CpuTarget
<1> HIDE DEF a, b
<1> QED
  BY <1>1, <1>5, <1>6, <1>7, GreatestOfThree

\* Memory on its way down, wherever it is to be.
Wanted == IF pod.ratio > 0 THEN CpuTarget * pod.ratio ELSE (pod.mem * CpuTarget) \div pod.cpu

\* Memory that is reduced is not reduced below its floor or below what was
\* used.
LEMMA MemTargetIs ==
  ASSUME DownsizingInv, pod.cpu > 0
  PROVE  /\ MemTarget \in Nat
         /\ MemTarget < pod.mem => MemTarget >= MemLeast /\ MemTarget >= P95("mem")
<1> DEFINE a == (12 * P95("mem")) \div 10
           m == Max({Wanted, a, MemLeast})
<1>1. a \in Nat /\ a >= P95("mem") /\ P95("mem") \in Nat
  BY PercentileIs, MoreThanUsed
<1>2. Wanted \in Nat
  <2> DEFINE c == CpuTarget
             r == pod.ratio
             w == pod.mem
             p == pod.cpu
  <2>1. c \in Nat /\ r \in Nat /\ w \in Nat /\ p \in Nat /\ p > 0
    BY TargetIs DEF DownsizingInv
  <2>2. Wanted = IF r > 0 THEN c * r ELSE (w * c) \div p
    BY Zenon DEF Wanted
  <2> HIDE DEF c, r, w, p
  <2>3. c * r \in Nat /\ w * c \in Nat
    BY <2>1
  <2>4. (w * c) \div p \in Nat
    BY <2>1, <2>3
  <2> QED
    BY <2>2, <2>3, <2>4
<1>3. MemLeast \in Nat /\ pod.mem \in Nat
  BY DownsizingAssumption DEF DownsizingInv
<1>4. MemTarget = Min({m, pod.mem})
  BY Zenon DEF MemTarget, Wanted
<1> HIDE DEF a
<1>5. m \in Nat /\ m >= a /\ m >= MemLeast
  BY <1>1, <1>2, <1>3, GreatestOfThree
<1> HIDE DEF m
<1>6. MemTarget \in Nat /\ MemTarget = IF m <= pod.mem THEN m ELSE pod.mem
  BY <1>3, <1>4, <1>5, LessOfTwo
<1> DEFINE t == MemTarget
           w == pod.mem
           u == P95("mem")
<1>7. /\ t \in Nat /\ w \in Nat /\ u \in Nat /\ a >= u
      /\ t = IF m <= w THEN m ELSE w
  BY <1>1, <1>3, <1>6
<1> HIDE DEF t, w, u
<1>8. t < w => t >= MemLeast /\ t >= u
  BY <1>1, <1>3, <1>5, <1>7
<1> QED
  BY Zenon, <1>6, <1>8 DEF t, w, u

\* A higher use, a higher target.
LEMMA TargetGrows ==
  ASSUME DownsizingInv, pod.cpu > 0, NEW u, NEW v,
         u.cpu \in Nat, u.mem \in Nat, v.cpu \in Nat, v.mem \in Nat,
         u.cpu <= v.cpu, u.mem <= v.mem
  PROVE  /\ EngineTarget(pod, u).cpu <= EngineTarget(pod, v).cpu
         /\ EngineTarget(pod, u).mem <= EngineTarget(pod, v).mem
<1> DEFINE a(x) == (12 * x.cpu) \div 10
           b == (7 * pod.cpu) \div 10
           cpu(x) == Max({a(x), b, CpuFloor})
           wanted(x) == IF pod.ratio > 0 THEN cpu(x) * pod.ratio
                                         ELSE (pod.mem * cpu(x)) \div pod.cpu
           d(x) == (12 * x.mem) \div 10
           mem(x) == Max({wanted(x), d(x), MemLeast})
<1>1. CpuFloor \in Nat /\ MemLeast \in Nat
  BY DownsizingAssumption
<1>2. pod.cpu \in Nat /\ pod.mem \in Nat /\ pod.ratio \in Nat
  BY DEF DownsizingInv
<1>3. a(u) \in Nat /\ a(v) \in Nat /\ a(u) <= a(v)
  <2> DEFINE x == 12 * u.cpu
             y == 12 * v.cpu
  <2>1. x \in Nat /\ y \in Nat /\ x <= y
    OBVIOUS
  <2> HIDE DEF x, y
  <2>2. x \div 10 \in Nat /\ y \div 10 \in Nat /\ x \div 10 <= y \div 10
    BY <2>1, DivGrows
  <2> QED
    BY Zenon, <2>2 DEF x, y
<1>4. d(u) \in Nat /\ d(v) \in Nat /\ d(u) <= d(v)
  <2> DEFINE x == 12 * u.mem
             y == 12 * v.mem
  <2>1. x \in Nat /\ y \in Nat /\ x <= y
    OBVIOUS
  <2> HIDE DEF x, y
  <2>2. x \div 10 \in Nat /\ y \div 10 \in Nat /\ x \div 10 <= y \div 10
    BY <2>1, DivGrows
  <2> QED
    BY Zenon, <2>2 DEF x, y
<1>5. b \in Nat /\ b <= b
  <2> DEFINE x == 7 * pod.cpu
  <2>1. x \in Nat
    BY <1>2
  <2> HIDE DEF x
  <2>2. x \div 10 \in Nat /\ x \div 10 <= x \div 10
    BY <2>1, DivGrows
  <2> QED
    BY Zenon, <2>2 DEF x
<1> HIDE DEF a, b, d
<1>6. cpu(u) \in Nat /\ cpu(v) \in Nat /\ cpu(u) <= cpu(v)
  BY <1>1, <1>3, <1>5, ThreeGrow
<1> HIDE DEF cpu
<1>7. wanted(u) \in Nat /\ wanted(v) \in Nat /\ wanted(u) <= wanted(v)
  <2> DEFINE r == pod.ratio
             m == pod.mem
             c == pod.cpu
             x == cpu(u)
             y == cpu(v)
  <2>1. /\ wanted(u) = IF r > 0 THEN x * r ELSE (m * x) \div c
        /\ wanted(v) = IF r > 0 THEN y * r ELSE (m * y) \div c
    BY Zenon
  <2>2. /\ r \in Nat /\ m \in Nat /\ c \in Nat /\ c > 0
        /\ x \in Nat /\ y \in Nat /\ x <= y
    BY <1>2, <1>6
  <2> HIDE DEF r, m, c, x, y, wanted
  <2>3. x * r <= y * r /\ x * m <= y * m
    BY <2>2, Times
  <2>4. /\ x * r \in Nat /\ y * r \in Nat /\ m * x \in Nat /\ m * y \in Nat
        /\ m * x <= m * y
    BY <2>2, <2>3
  <2>5. (m * x) \div c \in Nat /\ (m * y) \div c \in Nat /\ (m * x) \div c <= (m * y) \div c
    BY <2>2, <2>4, DivGrows
  <2> QED
    BY <2>1, <2>3, <2>4, <2>5
<1> HIDE DEF wanted
<1>8. mem(u) \in Nat /\ mem(v) \in Nat /\ mem(u) <= mem(v)
  BY <1>1, <1>4, <1>7, ThreeGrow
<1> HIDE DEF mem
<1>9. /\ Min({mem(u), pod.mem}) = IF mem(u) <= pod.mem THEN mem(u) ELSE pod.mem
      /\ Min({mem(v), pod.mem}) = IF mem(v) <= pod.mem THEN mem(v) ELSE pod.mem
  BY <1>2, <1>8, LessOfTwo
<1>10. Min({mem(u), pod.mem}) <= Min({mem(v), pod.mem})
  <2> DEFINE w == pod.mem
  <2> HIDE DEF w
  <2>1. w \in Nat
    BY <1>2 DEF w
  <2>2. (IF mem(u) <= w THEN mem(u) ELSE w) <= (IF mem(v) <= w THEN mem(v) ELSE w)
    BY <1>8, <2>1
  <2> QED
    BY <1>9, <2>2 DEF w
<1>11. /\ EngineTarget(pod, u) = [cpu |-> cpu(u), mem |-> Min({mem(u), pod.mem})]
       /\ EngineTarget(pod, v) = [cpu |-> cpu(v), mem |-> Min({mem(v), pod.mem})]
  BY Zenon DEF EngineTarget, cpu, mem, wanted, a, b, d
<1> QED
  BY <1>6, <1>10, <1>11

\* The engine and the rightsizer judge a pod alike, and the engine by no more.
LEMMA SameRules ==
  DownsizingInv => EngineAgrees
<1> DEFINE by95 == [cpu |-> P95("cpu"), mem |-> P95("mem")]
           target == [cpu |-> CpuTarget, mem |-> MemTarget]
<1> SUFFICES ASSUME DownsizingInv, Downsizable
             PROVE  /\ EngineTarget(pod, by95) = target
                    /\ \A cpu \in 0 .. P95("cpu"), mem \in 0 .. P95("mem") :
                         LET by == [cpu |-> cpu, mem |-> mem]
                         IN  /\ EngineDownsizes(pod, by)
                             /\ EngineTarget(pod, by).cpu <= CpuTarget
                             /\ EngineTarget(pod, by).mem <= MemTarget
  BY Zenon DEF EngineAgrees
<1>1. by95.cpu = P95("cpu") /\ by95.mem = P95("mem")
  OBVIOUS
<1>2. EngineTarget(pod, by95) = target
  <2> HIDE DEF by95
  <2> QED
    BY Zenon, <1>1 DEF EngineTarget, CpuTarget, MemTarget
<1>3. pod.cpu > 0 /\ pod.mem > 0 /\ OverProvisioned /\ Validated
  BY Zenon DEF Downsizable
<1>4. CpuTarget < pod.cpu /\ pod.mem - MemTarget >= MemDelta
  BY Zenon, <1>3 DEF Validated
<1>5. P95("cpu") \in Nat /\ P95("mem") \in Nat
  BY PercentileIs
<1>6. 2 * P95("cpu") < pod.cpu
  <2> DEFINE u == P95("cpu")
             p == pod.cpu
  <2>1. u \in Nat /\ p \in Nat /\ 200 * u < TargetPct * p
    BY <1>3, PercentileIs DEF OverProvisioned, DownsizingInv
  <2>2. TargetPct \in Nat /\ TargetPct <= 100 /\ 100 \in Nat
    BY DownsizingAssumption
  <2> HIDE DEF u, p
  <2>3. TargetPct * p <= 100 * p /\ TargetPct * p \in Nat
    BY <2>1, <2>2, Times
  <2>4. 2 * u < p
    BY <2>1, <2>3
  <2> QED
    BY Zenon, <2>4 DEF u, p
<1>7. EngineTarget(pod, by95).cpu = CpuTarget /\ EngineTarget(pod, by95).mem = MemTarget
  BY <1>2
<1> HIDE DEF by95, target
<1>8. ASSUME NEW cpu \in 0 .. P95("cpu"), NEW mem \in 0 .. P95("mem"),
             NEW by, by = [cpu |-> cpu, mem |-> mem]
      PROVE  /\ EngineDownsizes(pod, by)
             /\ EngineTarget(pod, by).cpu <= CpuTarget
             /\ EngineTarget(pod, by).mem <= MemTarget
  <2>1. /\ by.cpu = cpu /\ by.mem = mem
        /\ cpu \in Nat /\ mem \in Nat /\ cpu <= P95("cpu") /\ mem <= P95("mem")
    BY <1>5, <1>8
  <2>2. pod.cpu \in Nat /\ pod.mem \in Nat /\ pod.ratio \in Nat
    BY DEF DownsizingInv
  <2> DEFINE tc == EngineTarget(pod, by).cpu
             tm == EngineTarget(pod, by).mem
  <2>3. tc <= CpuTarget /\ tm <= MemTarget
    BY Zenon, <1>1, <1>3, <1>5, <1>7, <2>1, TargetGrows
  <2>4. tc \in Nat /\ tm \in Nat
    BY <1>3, <2>1, <2>2, EngineTargetIs
  <2> HIDE DEF tc, tm
  <2>5. CpuTarget \in Nat /\ MemTarget \in Nat
    BY <1>3, TargetIs, MemTargetIs
  <2>6. tc < pod.cpu
    <3> DEFINE p == pod.cpu
               c == CpuTarget
    <3>1. c < p /\ tc <= c /\ c \in Nat /\ p \in Nat
      BY <1>4, <2>2, <2>3, <2>5
    <3> HIDE DEF p, c
    <3>2. tc < p
      BY <2>4, <3>1
    <3> QED
      BY Zenon, <3>2 DEF p
  <2>7. pod.mem - tm >= MemDelta
    <3> DEFINE p == pod.mem
               c == MemTarget
    <3>1. p - c >= MemDelta /\ tm <= c /\ c \in Nat /\ p \in Nat /\ MemDelta \in Nat
      BY <1>4, <2>2, <2>3, <2>5, DownsizingAssumption
    <3> HIDE DEF p, c
    <3>2. p - tm >= MemDelta
      BY <2>4, <3>1
    <3> QED
      BY Zenon, <3>2 DEF p
  <2>8. 2 * by.cpu < pod.cpu
    <3> DEFINE p == pod.cpu
               c == P95("cpu")
    <3>1. 2 * c < p /\ cpu <= c /\ c \in Nat /\ p \in Nat
      BY <1>5, <1>6, <2>1, <2>2
    <3> HIDE DEF p, c
    <3>2. 2 * cpu < p
      BY <2>1, <3>1
    <3> QED
      BY Zenon, <2>1, <3>2 DEF p
  <2> QED
    BY Zenon, <1>3, <2>3, <2>6, <2>7, <2>8 DEF EngineDownsizes, tc, tm
<1> QED
  BY Zenon, <1>2, <1>8

\* The first figures of a pod.
LEMMA DownsizingStarts ==
  DownsizingInit => DownsizingInv
BY DEF DownsizingInit, DownsizingInv

\* Every step leaves figures.
LEMMA DownsizingKeeps ==
  DownsizingInv /\ [DownsizingNext]_downsizingVars => DownsizingInv'
<1>1. DownsizingInv /\ Examine => DownsizingInv'
  <2> SUFFICES ASSUME Examine PROVE DownsizingInv'
    OBVIOUS
  <2>1. pod' \in [cpu : 1 .. CpuTop, mem : 1 .. MemTop, ratio : 0 .. 2]
    BY Zenon DEF Examine
  <2>2. use' \in [cpu : [PodContainers -> 0 .. UseTop], mem : [PodContainers -> 0 .. UseTop],
               seen : (SUBSET PodContainers) \ {{}}]
    BY Zenon DEF Examine
  <2>3. pod' \in [cpu : Nat, mem : Nat, ratio : Nat]
    BY <2>1, DownsizingAssumption
  <2>4. use' \in [cpu : [PodContainers -> Nat], mem : [PodContainers -> Nat],
                  seen : SUBSET PodContainers]
    BY <2>2, DownsizingAssumption
  <2> QED
    BY Zenon, <2>3, <2>4 DEF DownsizingInv
<1>2. DownsizingInv /\ ApplyDownsize => DownsizingInv'
  <2> SUFFICES ASSUME DownsizingInv, ApplyDownsize PROVE DownsizingInv'
    OBVIOUS
  <2>1. pod' = [pod EXCEPT !.cpu = CpuTarget, !.mem = MemTarget] /\ use' = use
    BY Zenon DEF ApplyDownsize
  <2>2. CpuTarget \in Nat /\ MemTarget \in Nat
    BY TargetIs, MemTargetIs DEF ApplyDownsize, Downsizable
  <2> QED
    BY <2>1, <2>2 DEF DownsizingInv
<1>3. DownsizingInv /\ UNCHANGED downsizingVars => DownsizingInv'
  BY Zenon DEF DownsizingInv, downsizingVars
<1> QED
  BY Zenon, <1>1, <1>2, <1>3 DEF DownsizingNext

\* What the savings page adds up (handler/recommendations_engine.go) can be
\* had: it is counted once and within the cost of the nodes, the pods fit what
\* is left, and the rightsizer would do the same.
THEOREM SavingsAreSound == DecisionsSpec => []SavingsSound
<1>1. EngineInv /\ DownsizingInv => SavingsSound
  BY Zenon, CountedOnce, StillFit, SameRules DEF SavingsSound
<1> QED
  BY <1>1, EngineStarts, EngineKeeps, DownsizingStarts, DownsizingKeeps,
     EachPart, PTL DEF SavingsPart, PodsPart

\* A recommended downsize (internal/controller/rightsizer) still covers what
\* the pod was seen to use.
THEOREM DownsizesCover == DecisionsSpec => DownsizeCovers
<1>1. DownsizingInv /\ [DownsizingNext]_downsizingVars =>
        [ApplyDownsize /\ use.seen = PodContainers =>
           /\ pod'.cpu >= Uses("cpu") /\ pod'.mem >= Uses("mem")
           /\ pod'.cpu >= CpuFloor /\ pod'.mem >= MemLeast]_downsizingVars
  <2> SUFFICES ASSUME DownsizingInv, ApplyDownsize, use.seen = PodContainers
               PROVE  /\ pod'.cpu >= Uses("cpu") /\ pod'.mem >= Uses("mem")
                      /\ pod'.cpu >= CpuFloor /\ pod'.mem >= MemLeast
    BY Zenon
  <2>1. pod' = [pod EXCEPT !.cpu = CpuTarget, !.mem = MemTarget]
    BY Zenon DEF ApplyDownsize
  <2>2. pod.cpu > 0 /\ pod.mem - MemTarget >= MemDelta
    BY Zenon DEF ApplyDownsize, Downsizable, Validated
  <2>3. MemTarget \in Nat
        /\ (MemTarget < pod.mem => MemTarget >= MemLeast /\ MemTarget >= P95("mem"))
    BY <2>2, MemTargetIs
  <2>4. MemTarget < pod.mem
    <3> DEFINE t == MemTarget
               w == pod.mem
    <3>1. t \in Nat /\ w \in Nat /\ w - t >= MemDelta /\ MemDelta > 0 /\ MemDelta \in Nat
      BY <2>2, <2>3, DownsizingAssumption DEF DownsizingInv
    <3> HIDE DEF t, w
    <3>2. t < w
      BY <3>1
    <3> QED
      BY Zenon, <3>2 DEF t, w
  <2>5. P95("cpu") = Uses("cpu") /\ P95("mem") = Uses("mem")
    BY PercentileIs
  <2>6. pod'.cpu = CpuTarget /\ pod'.mem = MemTarget
    BY <2>1 DEF DownsizingInv
  <2> QED
    BY Zenon, <2>3, <2>4, <2>5, <2>6, TargetIs
<1> QED
  BY <1>1, DownsizingStarts, DownsizingKeeps, EachPart, PTL
     DEF PodsPart, DownsizeCovers

-----------------------------------------------------------------------------
(* Placements.                                                               *)

\* The sum of a function on its domain.
LEMMA SumOf ==
  ASSUME NEW S, NEW g
  PROVE  SumFunction([x \in S |-> g[x]]) = SumOver([x \in S |-> g[x]], S)
BY DEF SumFunction, SumOver

\* A pod counts for as much as its containers and for as much as its init
\* containers need.
LEMMA EffectiveIs ==
  ASSUME NEW t \in Kinds
  PROVE  Effective(t) \in Nat /\ Effective(t) >= t.main /\ Effective(t) >= t.init
         /\ t.main \in Nat /\ t.init \in Nat
BY GreaterOfTwo, PlacementAssumption DEF Effective

\* The pods of one label in a zone, and whether all of that label spread, for
\* any placement.
Inside(pl, z, a, tr) == {q \in PPods : pl[q] \in PNodes /\ Zone[pl[q]] = z /\ tr[q].app = a}
AllSpread(pl, a, tr) ==
  \A q \in PPods : pl[q] \in PNodes /\ tr[q].app = a =>
     tr[q].rule = "spread" /\ Zone[pl[q]] # NoZone

\* The zones are even.
Even(pl, a, tr) == AllSpread(pl, a, tr) =>
  \A y, z \in Zones :
    Cardinality(Inside(pl, y, a, tr)) - Cardinality(Inside(pl, z, a, tr)) <= MaxSkew

\* That the zones are even is EvenlySpread, as the code counts.
LEMMA EvenIs ==
  PlacementTypeOK => (EvenlySpread <=> \A a \in {"a", "b"} : Even(placed, a, podTraits))
<1> SUFFICES ASSUME PlacementTypeOK
             PROVE  EvenlySpread <=> \A a \in {"a", "b"} : Even(placed, a, podTraits)
  OBVIOUS
<1>1. \A q \in PPods : placed[q] # PendingPods <=> placed[q] \in PNodes
  BY PlacementAssumption DEF PlacementTypeOK
<1> DEFINE alike(a) == {p \in PPods : placed[p] # PendingPods /\ podTraits[p].app = a}
           spreads(a) == \A p \in alike(a) :
                           podTraits[p].rule = "spread" /\ Zone[placed[p]] # NoZone
           in(a, z) == Cardinality({p \in alike(a) : Zone[placed[p]] = z})
           skewed(a) == \A y, z \in Zones : in(a, y) - in(a, z) <= MaxSkew
<1>2. \A a, z : {p \in alike(a) : Zone[placed[p]] = z} = Inside(placed, z, a, podTraits)
  BY <1>1 DEF Inside
<1>3. \A a : spreads(a) <=> AllSpread(placed, a, podTraits)
  BY <1>1 DEF AllSpread
<1>4. EvenlySpread <=> \A a \in {"a", "b"} : spreads(a) => skewed(a)
  BY Zenon DEF EvenlySpread
<1>5. \A a, z : in(a, z) = Cardinality(Inside(placed, z, a, podTraits))
  BY Zenon, <1>2
<1> HIDE DEF alike, spreads, in
<1>6. \A a : (spreads(a) => skewed(a)) <=> Even(placed, a, podTraits)
  BY <1>3, <1>5 DEF Even
<1> HIDE DEF skewed
<1> QED
  BY Zenon, <1>4, <1>6

\* What is taken of a node, for any placement.
Load(pl, tr, n) ==
  LET on == {q \in PPods : pl[q] = n}
  IN  SumOver([p \in on |-> Effective(tr[p])], on)

\* And for the present one.
LEMMA TakenIs ==
  ASSUME NEW n
  PROVE  Taken(n) = Load(placed, podTraits, n)
 BY DEF Taken, Load, PodsOn, SumFunction, SumOver

\* The invariant: types, no node is overfull, every label that spreads is even
\* over the zones, and the rules about neighbours hold.
PlacementInv ==
  /\ PlacementTypeOK
  /\ StillApart /\ HasCompany
  /\ \A n \in PNodes : Load(placed, podTraits, n) <= Room[n]
  /\ \A a \in {"a", "b"} : Even(placed, a, podTraits)

\* No node is overfull, whichever of its pods are initializing.
LEMMA NotOver ==
  PlacementInv => RoomInEveryPhase
<1> SUFFICES ASSUME PlacementInv, NEW n \in PNodes, NEW early \in SUBSET PodsOn(n)
             PROVE  SumFunction([p \in early |-> podTraits[p].init])
                      + SumFunction([p \in PodsOn(n) \ early |-> podTraits[p].main]) <= Room[n]
  BY Zenon DEF RoomInEveryPhase
<1> DEFINE S == PodsOn(n)
           R == S \ early
           i == [p \in early |-> podTraits[p].init]
           f == [p \in R |-> podTraits[p].main]
           g == [p \in S |-> Effective(podTraits[p])]
<1>1. IsFiniteSet(S)
  BY PlacementAssumption, FS_Subset DEF PodsOn
<1>2. ASSUME NEW p \in S
      PROVE  podTraits[p] \in Kinds
  BY DEF PodsOn, PlacementInv, PlacementTypeOK
<1>3. /\ \A p \in S : g[p] \in Nat
      /\ \A p \in early : i[p] \in Nat /\ g[p] \in Nat /\ i[p] <= g[p]
      /\ \A p \in R : f[p] \in Nat /\ g[p] \in Nat /\ f[p] <= g[p]
  BY <1>2, EffectiveIs
<1>4. SumOver(g, S) <= Room[n]
  BY Zenon, TakenIs DEF PlacementInv, Taken, SumFunction, SumOver, Load, PodsOn
<1>5. SumFunction(i) = SumOver(i, early) /\ SumFunction(f) = SumOver(f, R)
  BY DEF SumFunction, SumOver
<1>6. early \intersect R = {} /\ early \union R = S
  OBVIOUS
<1>7. IsFiniteSet(early) /\ IsFiniteSet(R)
  BY <1>1, <1>6, FS_Subset
<1>8. Room[n] \in Nat
  BY PlacementAssumption
<1> HIDE DEF S, R, i, f, g
<1>9. /\ SumOver(i, early) <= SumOver(g, early) /\ SumOver(i, early) \in Nat
      /\ SumOver(f, R) <= SumOver(g, R) /\ SumOver(f, R) \in Nat
      /\ SumOver(g, early) \in Nat /\ SumOver(g, R) \in Nat
  BY <1>3, <1>7, SumGrows, SumType
<1>10. SumOver(g, S) = SumOver(g, early) + SumOver(g, R)
  <2>1. \A p \in early \union R : g[p] \in Nat
    BY <1>3, <1>6
  <2>2. SumOver(g, early \union R) = SumOver(g, early) + SumOver(g, R)
    BY <1>6, <1>7, <2>1, SumOfBoth
  <2> QED
    BY Zenon, <1>6, <2>2
<1>11. SumOver(i, early) + SumOver(f, R) <= Room[n]
  BY <1>4, <1>8, <1>9, <1>10
<1> QED
  BY Zenon, <1>5, <1>11 DEF S, R, i, f

\* A pod is placed where the rules about its neighbours, and those of its
\* neighbours of the same rule, hold.
LEMMA NeighboursKeep ==
  ASSUME PlacementTypeOK, StillApart, HasCompany,
         NEW p \in PPods, p \in DOMAIN podTraits, placed[p] = PendingPods,
         NEW n \in PNodes, n \in FindFittingNodes(podTraits[p]),
         podTraits' = podTraits, placed' = [placed EXCEPT ![p] = n]
  PROVE  StillApart' /\ HasCompany'
<1>1. /\ PendingPods \notin PNodes
      /\ placed \in [PPods -> PNodes \union {PendingPods}]
  BY PlacementAssumption DEF PlacementTypeOK
<1>2. /\ placed'[p] = n
      /\ \A q \in PPods : q # p => placed'[q] = placed[q]
      /\ Placed' = Placed \union {p} /\ p \notin Placed
  BY <1>1 DEF Placed
<1>3. \A q, r \in Placed : Neighbours(q, r)' <=> Neighbours(q, r)
  BY <1>1, <1>2 DEF Neighbours, Placed
<1>4. \A q \in Placed : (Neighbours(p, q)' \/ Neighbours(q, p)') =>
        Zone[n] # NoZone /\ q \in AlikeOn(podTraits[p], Domain(Zone[n]))
  BY <1>1, <1>2 DEF Neighbours, AlikeOn, Domain, PodsOn, Placed
<1>5. ~ Neighbours(p, p)'
  BY DEF Neighbours
<1>6. /\ podTraits[p].rule = "apart" => Apart(podTraits[p], n)
      /\ podTraits[p].rule = "together" => Together(podTraits[p], n)
  BY Zenon DEF FindFittingNodes, CanScheduleWithTopology
<1>7. StillApart'
  <2> SUFFICES ASSUME NEW q \in Placed', NEW r \in Placed', Neighbours(q, r)',
                      podTraits[q].rule = "apart", podTraits[r].rule = "apart"
               PROVE  FALSE
    BY DEF StillApart
  <2>1. CASE q # p /\ r # p
    BY <1>2, <1>3, <2>1 DEF StillApart
  <2>2. CASE q = p \/ r = p
    BY <1>2, <1>4, <1>5, <1>6, <2>2 DEF Apart
  <2> QED
    BY Zenon, <2>1, <2>2
<1>8. HasCompany'
  <2> SUFFICES ASSUME NEW q \in Placed', podTraits[q].rule = "together"
               PROVE  \E r \in Placed' : Neighbours(q, r)'
    BY DEF HasCompany
  <2>1. CASE q # p
    <3>1. PICK r \in Placed : Neighbours(q, r)
      BY <1>2, <2>1 DEF HasCompany
    <3> QED
      BY <1>2, <1>3, <2>1, <3>1
  <2>2. CASE q = p
    <3>1. Zone[n] # NoZone /\ AlikeOn(podTraits[p], Domain(Zone[n])) # {}
      BY <1>6, <2>2 DEF Together
    <3>2. PICK r \in AlikeOn(podTraits[p], Domain(Zone[n])) : TRUE
      BY <3>1
    <3>3. r \in PPods /\ placed[r] \in PNodes /\ Zone[placed[r]] = Zone[n]
          /\ podTraits[r].app = podTraits[p].app
      BY <3>2 DEF AlikeOn, Domain, PodsOn
    <3>4. r # p /\ r \in Placed /\ placed'[r] = placed[r]
      BY <1>1, <1>2, <3>3 DEF Placed
    <3> QED
      BY <1>2, <2>2, <3>1, <3>3, <3>4 DEF Neighbours
  <2> QED
    BY Zenon, <2>1, <2>2
<1> QED
  BY Zenon, <1>7, <1>8

\* The zones stay even when a pod is placed where the simulator finds that it
\* fits.
LEMMA SpreadIs ==
  ASSUME PlacementTypeOK, NEW p \in PPods, p \in DOMAIN podTraits, placed[p] = PendingPods,
         NEW n \in PNodes, n \in FindFittingNodes(podTraits[p]),
         podTraits[p].rule = "spread", Zone[n] # NoZone,
         NEW pl, pl = [placed EXCEPT ![p] = n], NEW a, a = podTraits[p].app,
         NEW y \in Zones, NEW z \in Zones
  PROVE  Cardinality(Inside(pl, y, a, podTraits)) - Cardinality(Inside(pl, z, a, podTraits))
           <= MaxSkew
<1> DEFINE old(u) == AlikeOn(podTraits[p], Domain(u))
           new(u) == Inside(pl, u, a, podTraits)
           count(u) == Cardinality(old(u)) + (IF u = Zone[n] THEN 1 ELSE 0)
           counts == {count(u) : u \in Zones}
<1>1. placed \in [PPods -> PNodes \union {PendingPods}] /\ PendingPods \notin PNodes
  BY PlacementAssumption DEF PlacementTypeOK
<1>2. \A u : old(u) = {q \in PPods : placed[q] \in PNodes /\ Zone[placed[q]] = u
                                       /\ podTraits[q].app = podTraits[p].app}
  BY <1>1 DEF AlikeOn, Domain, PodsOn
<1>3. \A u : IsFiniteSet(old(u)) /\ p \notin old(u)
  <2> SUFFICES ASSUME NEW u PROVE IsFiniteSet(old(u)) /\ p \notin old(u)
    OBVIOUS
  <2>1. old(u) \subseteq PPods
    BY <1>2
  <2>2. p \notin old(u)
    BY <1>1, <1>2
  <2> QED
    BY Zenon, <2>1, <2>2, FS_Subset, PlacementAssumption
<1>4. \A u : new(u) = IF u = Zone[n] THEN old(u) \union {p} ELSE old(u)
  BY <1>1, <1>2 DEF Inside
<1> HIDE DEF old, new
<1>5. \A u \in Zones : Cardinality(new(u)) = count(u) /\ count(u) \in Nat
  BY <1>3, <1>4, FS_AddElement, FS_CardinalityType
<1>6. counts \subseteq Nat /\ y \in Zones /\ counts # {}
  BY <1>5
<1>7. IsFiniteSet(counts)
  <2>1. IsFiniteSet(Zones)
    <3> DEFINE zs == {Zone[m] : m \in PNodes}
    <3>1. IsFiniteSet(zs)
      BY PlacementAssumption, ImageFinite
    <3> QED
      BY <3>1, FS_Subset DEF Zones
  <2> DEFINE f == [u \in Zones |-> count(u)]
  <2>2. counts = {f[u] : u \in Zones}
    OBVIOUS
  <2> HIDE DEF f, counts
  <2> QED
    BY Zenon, <2>1, <2>2, ImageFinite
<1>8. Spread(podTraits[p], n)
  BY Zenon DEF FindFittingNodes, CanScheduleWithTopology
<1>9. SkewWith(podTraits[p], n) = Max(counts) - Min(counts)
  BY Zenon DEF SkewWith, old
<1>10. Max(counts) - Min(counts) <= MaxSkew
  BY Zenon, <1>8, <1>9 DEF Spread
<1>11. count(y) \in counts /\ count(z) \in counts
  OBVIOUS
<1> HIDE DEF counts
<1>12. Max(counts) \in Nat /\ Max(counts) >= count(y)
  <2>1. \A m \in counts : m \in Int
    BY <1>6
  <2>2. Max(counts) \in counts /\ \A m \in counts : Max(counts) >= m
    BY <1>6, <1>7, <2>1, Greatest
  <2> QED
    BY <1>6, <1>11, <2>2
<1>13. Min(counts) \in Nat /\ Min(counts) <= count(z)
  BY <1>6, <1>11, LeastOne
<1>14. count(y) \in Nat /\ count(z) \in Nat /\ MaxSkew \in Nat
  BY <1>5, PlacementAssumption
<1>15. Cardinality(new(y)) = count(y) /\ Cardinality(new(z)) = count(z)
  BY <1>5
<1> HIDE DEF count
<1>16. count(y) - count(z) <= MaxSkew
  BY <1>10, <1>12, <1>13, <1>14
<1> QED
  BY Zenon, <1>15, <1>16 DEF new

\* A new pod changes nothing of what is placed.
LEMMA ArriveKeeps ==
  PlacementInv /\ Arrive => PlacementInv'
<1> SUFFICES ASSUME PlacementInv, Arrive PROVE PlacementInv'
  OBVIOUS
<1>1. PICK p \in PPods \ DOMAIN podTraits, t \in Kinds :
        podTraits' = [q \in DOMAIN podTraits \union {p} |-> IF q = p THEN t ELSE podTraits[q]]
  BY DEF Arrive
<1>2. placed' = placed /\ cordoned' = cordoned /\ PlacementTypeOK
  BY DEF Arrive, PlacementInv
<1>3. podTraits' = [q \in DOMAIN podTraits \union {p} |->
                      IF q \in DOMAIN podTraits THEN podTraits[q] ELSE t]
  BY <1>1
<1>4. \A q \in PPods : placed[q] \in PNodes =>
        podTraits'[q] = podTraits[q] /\ q \in DOMAIN podTraits
  BY <1>2, <1>3 DEF PlacementTypeOK
<1>5. PlacementTypeOK'
  <2>1. podTraits' \in [DOMAIN podTraits' -> Kinds] /\ DOMAIN podTraits' \subseteq PPods
    BY <1>1, <1>2, <1>3 DEF PlacementTypeOK
  <2>2. \A q \in PPods : placed'[q] \in PNodes =>
         q \in DOMAIN podTraits' /\ podTraits'[q].pool \in {"any", Pool[placed'[q]]}
    BY <1>2, <1>3, <1>4 DEF PlacementTypeOK
  <2> QED
    BY <1>2, <2>1, <2>2 DEF PlacementTypeOK
<1>6. \A n \in PNodes : Load(placed', podTraits', n) <= Room[n]
  <2> SUFFICES ASSUME NEW n \in PNodes PROVE Load(placed', podTraits', n) <= Room[n]
    OBVIOUS
  <2> DEFINE S == {q \in PPods : placed[q] = n}
  <2>1. [q \in S |-> Effective(podTraits'[q])] = [q \in S |-> Effective(podTraits[q])]
    BY <1>4
  <2>2. Load(placed', podTraits', n) = Load(placed, podTraits, n)
    BY Zenon, <1>2, <2>1 DEF Load
  <2> QED
    BY Zenon, <2>2 DEF PlacementInv
<1>7. \A a \in {"a", "b"} : Even(placed', a, podTraits')
  <2> SUFFICES ASSUME NEW a \in {"a", "b"} PROVE Even(placed', a, podTraits')
    OBVIOUS
  <2>1. AllSpread(placed', a, podTraits') => AllSpread(placed, a, podTraits)
    BY <1>2, <1>4 DEF AllSpread
  <2>2. \A z : Inside(placed', z, a, podTraits') = Inside(placed, z, a, podTraits)
    BY <1>2, <1>4 DEF Inside
  <2>3. Even(placed, a, podTraits)
    BY Zenon DEF PlacementInv
  <2> QED
    BY <2>1, <2>2, <2>3 DEF Even
<1>8. StillApart' /\ HasCompany'
  <2>1. Placed' = Placed /\ \A r \in Placed : podTraits'[r] = podTraits[r]
    BY <1>2, <1>4, PlacementAssumption DEF Placed, PlacementTypeOK
  <2>2. \A r, s \in Placed : Neighbours(r, s)' <=> Neighbours(r, s)
    BY <1>2, <2>1 DEF Neighbours
  <2>3. StillApart /\ HasCompany
    BY Zenon DEF PlacementInv
  <2> QED
    BY <2>1, <2>2, <2>3 DEF StillApart, HasCompany
<1> QED
  BY Zenon, <1>5, <1>6, <1>7, <1>8 DEF PlacementInv

\* A pod is placed only where there is room, and evenly.
LEMMA PlaceKeeps ==
  PlacementInv /\ Place => PlacementInv'
<1> SUFFICES ASSUME PlacementInv, Place PROVE PlacementInv'
  OBVIOUS
<1>1. PICK p \in DOMAIN podTraits :
        /\ placed[p] = PendingPods
        /\ \E n \in FindFittingNodes(podTraits[p]) : placed' = [placed EXCEPT ![p] = n]
  BY Zenon DEF Place
<1>2. PICK n \in FindFittingNodes(podTraits[p]) : placed' = [placed EXCEPT ![p] = n]
  BY Zenon, <1>1
<1>3. /\ PlacementTypeOK /\ podTraits' = podTraits /\ cordoned' = cordoned
      /\ placed \in [PPods -> PNodes \union {PendingPods}] /\ DOMAIN podTraits \subseteq PPods
      /\ podTraits \in [DOMAIN podTraits -> Kinds]
  BY Zenon DEF Place, PlacementInv, PlacementTypeOK
<1>4. p \in PPods /\ podTraits[p] \in Kinds
  BY <1>1, <1>3
<1>5. n \in PNodes /\ HasRoom(podTraits[p], n) /\ Selected(podTraits[p], n)
      /\ (podTraits[p].rule = "spread" => Spread(podTraits[p], n))
  BY Zenon DEF FindFittingNodes, CanScheduleWithTopology
<1>6. PendingPods \notin PNodes
  BY PlacementAssumption
<1>7. PlacementTypeOK'
  <2>1. placed' \in [PPods -> PNodes \union {PendingPods}]
    BY <1>2, <1>3, <1>5
  <2>2. ASSUME NEW q \in PPods, placed'[q] \in PNodes
        PROVE  q \in DOMAIN podTraits' /\ podTraits'[q].pool \in {"any", Pool[placed'[q]]}
    <3>1. CASE q = p
      BY <1>1, <1>2, <1>3, <1>4, <1>5, <3>1 DEF Selected
    <3>2. CASE q # p
      BY <1>2, <1>3, <2>2, <3>2 DEF PlacementTypeOK
    <3> QED
      BY Zenon, <3>1, <3>2
  <2> QED
    BY <1>3, <2>1, <2>2 DEF PlacementTypeOK
<1>8. ASSUME NEW m \in PNodes PROVE Load(placed', podTraits', m) <= Room[m]
  <2> DEFINE old == {q \in PPods : placed[q] = m}
             new == {q \in PPods : placed'[q] = m}
             f == [q \in old |-> Effective(podTraits[q])]
             g == [q \in new |-> Effective(podTraits[q])]
  <2>0. Load(placed, podTraits, m) = SumOver(f, old) /\ Load(placed', podTraits', m) = SumOver(g, new)
    BY Zenon, <1>3 DEF Load
  <2>1. CASE m # n
    <3>1. new = old
      BY <1>1, <1>2, <1>3, <1>4, <1>6, <2>1
    <3> QED
      BY Zenon, <2>0, <3>1 DEF PlacementInv
  <2>2. CASE m = n
    <3>1. new = old \union {p} /\ p \notin old
      BY <1>1, <1>2, <1>3, <1>4, <1>6, <2>2
    <3>2. IsFiniteSet(old)
      BY FS_Subset, PlacementAssumption
    <3>3. \A q \in new : g[q] \in Nat /\ g[q] = Effective(podTraits[q])
      <4> SUFFICES ASSUME NEW q \in new PROVE Effective(podTraits[q]) \in Nat
        OBVIOUS
      <4>1. podTraits[q] \in Kinds
        <5>1. CASE q = p
          BY <1>4, <5>1
        <5>2. CASE q # p
          BY <1>3, <3>1, <5>2 DEF PlacementTypeOK
        <5> QED
          BY Zenon, <5>1, <5>2
      <4> QED
        BY <4>1, EffectiveIs
    <3>4. \A q \in old : g[q] \in Nat /\ f[q] = g[q]
      BY <3>1, <3>3
    <3>5. g[p] = Effective(podTraits[p]) /\ g[p] \in Nat
      BY <3>1, <3>3
    <3> HIDE DEF old, new, f, g
    <3>6. SumOver(g, old \union {p}) = SumOver(g, old) + g[p]
      BY <3>1, <3>2, <3>4, <3>5, SumAdds
    <3>7. SumOver(f, old) = SumOver(g, old)
      BY <3>2, <3>4, SumAgrees
    <3>8. Taken(n) + Effective(podTraits[p]) <= Room[n]
      BY Zenon, <1>5 DEF HasRoom
    <3>9. Taken(n) = SumOver(f, old)
      BY Zenon, <2>0, <2>2, TakenIs
    <3> QED
      BY Zenon, <2>0, <2>2, <3>1, <3>5, <3>6, <3>7, <3>8, <3>9
  <2> QED
    BY Zenon, <2>1, <2>2
<1>9. ASSUME NEW a \in {"a", "b"}, AllSpread(placed', a, podTraits),
             NEW y \in Zones, NEW z \in Zones
      PROVE  Cardinality(Inside(placed', y, a, podTraits)) - Cardinality(Inside(placed', z, a, podTraits))
               <= MaxSkew
  <2>1. CASE podTraits[p].app = a
    <3>1. podTraits[p].rule = "spread" /\ Zone[n] # NoZone
      BY <1>2, <1>3, <1>4, <1>5, <1>9, <2>1 DEF AllSpread
    <3> QED
      BY <1>1, <1>2, <1>3, <1>4, <1>5, <2>1, <3>1, SpreadIs
  <2>2. CASE podTraits[p].app # a
    <3>1. \A u : Inside(placed', u, a, podTraits) = Inside(placed, u, a, podTraits)
      BY <1>1, <1>2, <1>3, <1>4, <1>6, <2>2 DEF Inside
    <3>2. AllSpread(placed, a, podTraits)
      BY <1>1, <1>2, <1>3, <1>4, <1>6, <1>9, <2>2 DEF AllSpread
    <3>3. Even(placed, a, podTraits)
      BY Zenon DEF PlacementInv
    <3> QED
      BY <3>1, <3>2, <3>3 DEF Even
  <2> QED
    BY Zenon, <2>1, <2>2
<1>10. \A a \in {"a", "b"} : Even(placed', a, podTraits')
  BY Zenon, <1>3, <1>9 DEF Even
<1>11. StillApart' /\ HasCompany'
  <2>1. StillApart /\ HasCompany
    BY Zenon DEF PlacementInv
  <2> QED
    BY Zenon, <1>1, <1>2, <1>3, <1>4, <1>5, <2>1, NeighboursKeep
<1> QED
  BY Zenon, <1>7, <1>8, <1>10, <1>11 DEF PlacementInv

\* The invariant holds at the start.
LEMMA PlacementStarts ==
  PlacementInit => PlacementInv
<1> SUFFICES ASSUME PlacementInit PROVE PlacementInv
  OBVIOUS
<1>1. PlacementTypeOK
  BY PlacementAssumption DEF PlacementInit, PlacementTypeOK
<1>2. \A q \in PPods : placed[q] = PendingPods /\ PendingPods \notin PNodes
  BY PlacementAssumption DEF PlacementInit
<1>3. ASSUME NEW n \in PNodes PROVE Load(placed, podTraits, n) <= Room[n]
  <2>1. {q \in PPods : placed[q] = n} = {}
    BY <1>2
  <2>2. Load(placed, podTraits, n) = 0
    BY Zenon, <2>1, SumEmpty DEF Load
  <2> QED
    BY <2>2, PlacementAssumption
<1>4. ASSUME NEW a PROVE Even(placed, a, podTraits)
  <2>1. \A z : Inside(placed, z, a, podTraits) = {}
    BY <1>2 DEF Inside
  <2>2. \A z : Cardinality(Inside(placed, z, a, podTraits)) = 0
    BY Zenon, <2>1, FS_EmptySet
  <2> QED
    BY <2>2, PlacementAssumption DEF Even
<1>5. StillApart /\ HasCompany
  BY <1>2 DEF StillApart, HasCompany, Placed
<1> QED
  BY Zenon, <1>1, <1>3, <1>4, <1>5 DEF PlacementInv

\* A node is in its zone, so that what one form finds on it the other one finds
\* in the zone.
LEMMA TwoForms == FormsOrdered
<1> SUFFICES ASSUME NEW n \in PNodes, NEW p \in DOMAIN podTraits
             PROVE  LET near == CanSchedule(podTraits[p], n)
                        far == CanScheduleWithTopology(podTraits[p], n)
                    IN  /\ podTraits[p].rule = "apart" => (far => near)
                        /\ podTraits[p].rule = "together" => (near => far)
                        /\ podTraits[p].rule = "none" => (near <=> far)
  BY Zenon DEF FormsOrdered
<1> DEFINE t == podTraits[p]
<1>1. AlikeOn(t, {n}) \subseteq AlikeOn(t, Domain(Zone[n]))
  BY DEF AlikeOn, Domain
<1>2. Zone[n] # NoZone /\ AlikeOn(t, {n}) # {} => Together(t, n)
  BY <1>1 DEF Together
<1>3. Apart(t, n) => Zone[n] = NoZone \/ AlikeOn(t, {n}) = {}
  BY <1>1 DEF Apart
<1> HIDE DEF t
<1>4. /\ t.rule = "apart" => (CanScheduleWithTopology(t, n) => CanSchedule(t, n))
      /\ t.rule = "together" => (CanSchedule(t, n) => CanScheduleWithTopology(t, n))
      /\ t.rule = "none" => (CanSchedule(t, n) <=> CanScheduleWithTopology(t, n))
  BY Zenon, <1>2, <1>3 DEF CanSchedule, CanScheduleWithTopology
<1> QED
  BY Zenon, <1>4 DEF t

\* What the simulator of placements (internal/scheduler/simulator.go) allows one
\* by one leaves no node overfull, whatever its pods are doing, and the pods of
\* one rule apart, together or evenly spread; where its two forms differ about
\* one rule, the one is known to be the stricter.
THEOREM PlacementsAreSound == DecisionsSpec => [](PlacementTypeOK /\ PlacementsSound)
<1>1. PlacementInv /\ [PlacementNext]_placementVars => PlacementInv'
  <2>1. ASSUME PlacementInv, podTraits' = podTraits, placed' = placed, cordoned' \subseteq PNodes
        PROVE  PlacementInv'
    <3>1. StillApart' /\ HasCompany'
      <4>1. Placed' = Placed /\ \A p, q : Neighbours(p, q)' <=> Neighbours(p, q)
        BY <2>1 DEF Placed, Neighbours
      <4>2. StillApart /\ HasCompany
        BY Zenon, <2>1 DEF PlacementInv
      <4> QED
        BY <2>1, <4>1, <4>2 DEF StillApart, HasCompany
    <3>2. PlacementTypeOK'
      BY Zenon, <2>1 DEF PlacementInv, PlacementTypeOK
    <3> QED
      BY Zenon, <2>1, <3>1, <3>2 DEF PlacementInv
  <2>2. PlacementInv /\ Cordon => PlacementInv'
    <3>1. Cordon => podTraits' = podTraits /\ placed' = placed /\ cordoned' \subseteq PNodes
      BY DEF Cordon
    <3> QED
      BY Zenon, <2>1, <3>1
  <2>3. PlacementInv /\ UNCHANGED placementVars => PlacementInv'
    BY Zenon, <2>1 DEF placementVars, PlacementInv, PlacementTypeOK
  <2> QED
    BY Zenon, <2>2, <2>3, ArriveKeeps, PlaceKeeps DEF PlacementNext
<1>2. PlacementInv => PlacementTypeOK /\ PlacementsSound
  BY Zenon, NotOver, EvenIs, TwoForms DEF PlacementInv, PlacementsSound
<1> QED
  BY <1>1, <1>2, PlacementStarts, EachPart, PTL DEF PlacementPart

-----------------------------------------------------------------------------
(* Costs.                                                                    *)

\* The pods and prices of a cluster.
SharesInv == billed \in [BPods -> Billed] /\ prices \in [BNodes -> Prices]

\* What the pods pay, as a function.
share == [p \in BPods |-> Share(p)]

\* The units are such that a price can be shared out exactly.
Units == \A n \in BNodes, w \in [BPods -> Weights] :
    LET total == SumOver(w, {p \in BPods : NodeOf[p] = n})
    IN  total > 0 => \A c \in Prices : \E q \in 0 .. c : c = q * total

\* This is what is assumed of them.
LEMMA UnitsHold == Units
BY Zenon, UnitsAssumption DEF Units, SumOver

\* The weight of some pods is a sum.
LEMMA WeightIs ==
  ASSUME SharesInv, NEW ps \in SUBSET BPods
  PROVE  /\ Weight(ps) = SumOver([p \in BPods |-> billed[p].weight], ps)
         /\ Weight(ps) \in Nat
         /\ IsFiniteSet(ps)
<1> DEFINE f == [p \in ps |-> billed[p].weight]
           g == [p \in BPods |-> billed[p].weight]
<1>1. \A p \in BPods : billed[p].weight \in Nat
  BY SharesAssumption DEF SharesInv, Billed
<1>2. \A p \in ps : g[p] \in Nat /\ f[p] = g[p]
  BY <1>1
<1>3. Weight(ps) = SumOver(f, ps)
  BY DEF Weight, SumFunction, SumOver
<1>4. IsFiniteSet(ps)
  BY FS_Subset, SharesAssumption
<1> HIDE DEF f, g
<1>5. SumOver(f, ps) = SumOver(g, ps) /\ SumOver(g, ps) \in Nat
  BY <1>2, <1>4, SumAgrees, SumType
<1> QED
  BY Zenon, <1>3, <1>4, <1>5 DEF g

\* A share is a number.
LEMMA ShareTyped ==
  ASSUME SharesInv, NEW p \in BPods
  PROVE  share[p] \in Nat /\ share[p] = Share(p)
<1> DEFINE n == NodeOf[p]
           S == PodsSharing(n)
<1>1. n \in BNodes /\ S \in SUBSET BPods
  BY SharesAssumption DEF PodsSharing
<1>2. prices[n] \in Nat /\ billed[p].weight \in Nat
  <2>1. prices[n] \in Prices
    BY Zenon, <1>1 DEF SharesInv
  <2>2. billed[p].weight \in Weights
    BY DEF SharesInv, Billed
  <2>3. \A c \in Prices : c \in Nat
    BY DEF Prices
  <2>4. \A w \in Weights : w \in Nat
    BY SharesAssumption
  <2> QED
    BY Zenon, <2>1, <2>2, <2>3, <2>4
<1>3. Weight(S) \in Nat
  BY <1>1, WeightIs
<1>4. Share(p) = IF ~ Sharing(n) THEN 0 ELSE (prices[n] * billed[p].weight) \div Weight(S)
  BY Zenon DEF Share
<1>5. Sharing(n) => Weight(S) > 0
  BY Zenon DEF Sharing
<1>6. prices[n] * billed[p].weight \in Nat
  BY <1>2
<1> HIDE DEF n, S
<1>7. Sharing(n) => (prices[n] * billed[p].weight) \div Weight(S) \in Nat
  BY <1>3, <1>5, <1>6
<1>8. Share(p) \in Nat
  BY <1>4, <1>7
<1> QED
  BY <1>8 DEF share

\* What some pods pay is a sum.
LEMMA SharesIs ==
  ASSUME SharesInv, NEW ps \in SUBSET BPods
  PROVE  Shares(ps) = SumOver(share, ps) /\ Shares(ps) \in Nat
<1> DEFINE f == [p \in ps |-> Share(p)]
<1>1. \A p \in ps : share[p] \in Nat /\ f[p] = share[p]
  BY ShareTyped
<1>2. Shares(ps) = SumOver(f, ps)
  BY DEF Shares, SumFunction, SumOver
<1>3. IsFiniteSet(ps)
  BY FS_Subset, SharesAssumption
<1> HIDE DEF f
<1>4. SumOver(f, ps) = SumOver(share, ps) /\ SumOver(share, ps) \in Nat
  BY <1>1, <1>3, SumAgrees, SumType
<1> QED
  BY Zenon, <1>2, <1>4

\* What the pods of a node pay together.
LEMMA NodePaid ==
  ASSUME SharesInv, NEW n \in BNodes
  PROVE  SumOver(share, PodsSharing(n)) = IF Sharing(n) THEN prices[n] ELSE 0
<1> DEFINE S == PodsSharing(n)
           w == [p \in BPods |-> billed[p].weight]
           W == SumOver(w, S)
<1>1. S \in SUBSET BPods /\ \A p \in S : NodeOf[p] = n
  BY DEF PodsSharing
<1>2. Weight(S) = W /\ W \in Nat /\ IsFiniteSet(S)
  BY <1>1, WeightIs
<1>3. CASE ~ Sharing(n)
  <2>1. \A p \in S : share[p] = 0
    BY <1>1, <1>3, ShareTyped DEF Share
  <2>2. SumOver(share, S) = 0
    BY <1>2, <2>1, SumOfNothing
  <2> QED
    BY Zenon, <1>3, <2>2
<1>4. CASE Sharing(n)
  <2>1. W > 0
    BY Zenon, <1>2, <1>4 DEF Sharing
  <2>2. w \in [BPods -> Weights] /\ prices[n] \in Prices /\ prices[n] \in Nat
    BY DEF SharesInv, Billed, Prices
  <2>3. PICK q \in 0 .. prices[n] : prices[n] = q * W
    BY Zenon, <2>1, <2>2, UnitsHold DEF Units, PodsSharing
  <2>4. q \in Nat
    BY <2>2, <2>3
  <2>5. ASSUME NEW p \in S PROVE share[p] = q * w[p] /\ w[p] \in Nat
    <3>1. p \in BPods /\ NodeOf[p] = n
      BY <1>1
    <3>2. w[p] = billed[p].weight /\ w[p] \in Nat
      BY <3>1, <2>2, SharesAssumption
    <3>3. share[p] = (prices[n] * w[p]) \div W
      BY Zenon, <1>2, <1>4, <3>1, <3>2, ShareTyped DEF Share
    <3> HIDE DEF w, W, S
    <3>4. prices[n] * w[p] = (q * w[p]) * W /\ q * w[p] \in Nat
      BY <1>2, <2>3, <2>4, <3>2
    <3>5. ((q * w[p]) * W) \div W = q * w[p]
      BY <1>2, <2>1, <3>4, DivExact
    <3> QED
      BY Zenon, <3>2, <3>3, <3>4, <3>5
  <2> HIDE DEF w, S
  <2>6. SumOver(share, S) = q * SumOver(w, S)
    BY <1>2, <2>4, <2>5, SumScales
  <2>7. SumOver(share, S) = prices[n]
    BY Zenon, <2>3, <2>6
  <2> QED
    BY Zenon, <1>4, <2>7 DEF S
<1> QED
  BY Zenon, <1>3, <1>4

\* Sorted by namespaces.
LEMMA BySpace ==
  ASSUME SharesInv, NEW K \in SUBSET Spaces
  PROVE  SumFunction([s \in K |-> ByNamespace(s)])
           = SumOver(share, {p \in BPods : billed[p].space \in K})
<1> DEFINE key == [p \in BPods |-> billed[p].space]
           f == [s \in K |-> ByNamespace(s)]
           g == [s \in K |-> SumOver(share, {p \in BPods : key[p] = s})]
<1>1. IsFiniteSet(BPods) /\ IsFiniteSet(K)
  BY SharesAssumption, FS_Subset
<1>2. \A p \in BPods : share[p] \in Nat
  BY ShareTyped
<1>3. SumOver(g, K) = SumOver(share, {p \in BPods : key[p] \in K})
  <2>1. SumOver(ByKey(share, key, BPods, K), K) = SumOver(share, WithKeys(key, BPods, K))
    <3> HIDE DEF key
    <3> QED
      BY <1>1, <1>2, SumByKey
  <2> HIDE DEF key
  <2> QED
    BY Zenon, <2>1 DEF ByKey, WithKeys
<1>4. \A s \in K : {p \in BPods : key[p] = s} = {p \in BPods : billed[p].space = s}
  OBVIOUS
<1>5. {p \in BPods : key[p] \in K} = {p \in BPods : billed[p].space \in K}
  OBVIOUS
<1>6. f = g
  <2>1. ASSUME NEW s \in K PROVE ByNamespace(s) = SumOver(share, {p \in BPods : key[p] = s})
    <3>1. {p \in BPods : billed[p].space = s} \in SUBSET BPods
      OBVIOUS
    <3>2. Shares({p \in BPods : billed[p].space = s})
            = SumOver(share, {p \in BPods : billed[p].space = s})
      BY Zenon, <3>1, SharesIs
    <3> QED
      BY Zenon, <3>2, <1>4 DEF ByNamespace
  <2> QED
    BY <2>1
<1>7. SumFunction(f) = SumOver(f, K)
  BY DEF SumFunction, SumOver
<1> QED
  BY Zenon, <1>3, <1>5, <1>6, <1>7

\* Sorted by nodes.
LEMMA ByNode ==
  ASSUME SharesInv
  PROVE  SumOver([n \in BNodes |-> SumOver(share, {p \in BPods : NodeOf[p] = n})], BNodes)
           = SumOver(share, {p \in BPods : NodeOf[p] \in BNodes})
<1>1. IsFiniteSet(BPods) /\ IsFiniteSet(BNodes)
  BY SharesAssumption
<1>2. \A p \in BPods : share[p] \in Nat
  BY ShareTyped
<1>3. SumOver(ByKey(share, NodeOf, BPods, BNodes), BNodes)
        = SumOver(share, WithKeys(NodeOf, BPods, BNodes))
  BY <1>1, <1>2, SumByKey
<1> QED
  BY Zenon, <1>3 DEF ByKey, WithKeys

\* The namespaces together pay for the nodes that are shared.
LEMMA EverybodyPays ==
  SharesInv => NamespacesPay
<1> SUFFICES ASSUME SharesInv PROVE NamespacesPay
  OBVIOUS
<1> DEFINE g == [n \in BNodes |-> SumOver(share, {p \in BPods : NodeOf[p] = n})]
           In == {n \in BNodes : Sharing(n)}
           Out == {n \in BNodes : ~ Sharing(n)}
<1>1. IsFiniteSet(BPods) /\ IsFiniteSet(BNodes)
  BY SharesAssumption
<1>2. \A p \in BPods : share[p] \in Nat
  BY ShareTyped
<1>3. SumOver(g, BNodes) = SumOver(share, {p \in BPods : NodeOf[p] \in BNodes})
  BY Zenon, <1>1, <1>2, ByNode
<1>4. {p \in BPods : NodeOf[p] \in BNodes} = BPods
      /\ {p \in BPods : billed[p].space \in Spaces} = BPods
  BY SharesAssumption DEF SharesInv, Billed
<1>5. \A n \in BNodes : g[n] = IF Sharing(n) THEN prices[n] ELSE 0
  BY NodePaid DEF PodsSharing
<1>6. \A n \in BNodes : prices[n] \in Nat /\ g[n] \in Nat
  BY <1>5 DEF SharesInv, Prices
<1> HIDE DEF g
<1>7. SumOver(g, In) = SumOver(prices, In)
  <2>1. \A n \in In : prices[n] \in Nat /\ g[n] = prices[n]
    BY <1>5, <1>6
  <2>2. IsFiniteSet(In)
    BY <1>1, FS_Subset
  <2> HIDE DEF In
  <2> QED
    BY <2>1, <2>2, SumAgrees
<1>8. SumOver(g, Out) = 0
  <2>1. \A n \in Out : g[n] = 0
    BY <1>5
  <2>2. IsFiniteSet(Out)
    BY <1>1, FS_Subset
  <2> HIDE DEF Out
  <2> QED
    BY <2>1, <2>2, SumOfNothing
<1>9. SumOver(g, BNodes) = SumOver(g, In) + SumOver(g, Out) /\ SumOver(g, In) \in Nat
  <2>1. In \union Out = BNodes /\ In \intersect Out = {} /\ IsFiniteSet(In) /\ IsFiniteSet(Out)
    BY <1>1, FS_Subset
  <2>2. \A n \in In \union Out : g[n] \in Nat
    BY Zenon, <2>1, <1>6
  <2>3. \A n \in In : g[n] \in Nat
    BY <1>6
  <2> HIDE DEF In, Out
  <2>4. SumOver(g, In \union Out) = SumOver(g, In) + SumOver(g, Out)
    BY <2>1, <2>2, SumOfBoth
  <2>5. SumOver(g, In) \in Nat
    BY <2>1, <2>3, SumType
  <2> QED
    BY Zenon, <2>1, <2>4, <2>5
<1>10. SumOver(g, BNodes) = SumOver(prices, In)
  BY <1>7, <1>8, <1>9
<1>11. SumFunction([s \in Spaces |-> ByNamespace(s)])
         = SumOver(share, {p \in BPods : billed[p].space \in Spaces})
  BY BySpace
<1> QED
  BY Zenon, <1>3, <1>4, <1>10, <1>11 DEF NamespacesPay, Bill, SumOver

\* The pages agree with one another.
LEMMA AllAgree ==
  SharesInv => PagesAgree
<1> SUFFICES ASSUME SharesInv PROVE PagesAgree
  OBVIOUS
<1>1. IsFiniteSet(BPods)
  BY SharesAssumption
<1>2. \A p \in BPods : share[p] \in Nat
  BY ShareTyped
<1>3. ASSUME NEW s \in Spaces
      PROVE  ByNamespace(s) =
               SumFunction([key \in {k \in WorkloadKeys : Head(k) = s} |-> ByWorkload(key)])
  <2> DEFINE K == {k \in WorkloadKeys : Head(k) = s}
             key == [p \in BPods |-> WorkloadKey(p)]
             f == [k \in K |-> ByWorkload(k)]
             g == [k \in K |-> SumOver(share, {p \in BPods : key[p] = k})]
  <2>1. IsFiniteSet(K)
    <3>1. WorkloadKeys = {key[p] : p \in BPods}
      BY DEF WorkloadKeys
    <3>2. IsFiniteSet(WorkloadKeys)
      BY Zenon, <1>1, <3>1, ImageFinite
    <3> QED
      BY <3>2, FS_Subset
  <2>2. SumOver(g, K) = SumOver(share, {p \in BPods : key[p] \in K})
    <3>1. SumOver(ByKey(share, key, BPods, K), K) = SumOver(share, WithKeys(key, BPods, K))
      <4> HIDE DEF key, K
      <4> QED
        BY <1>1, <1>2, <2>1, SumByKey
    <3> HIDE DEF key, K
    <3> QED
      BY Zenon, <3>1 DEF ByKey, WithKeys
  <2>3. {p \in BPods : key[p] \in K} = {p \in BPods : billed[p].space = s}
    <3>1. \A p \in BPods : Head(WorkloadKey(p)) = billed[p].space
      BY DEF WorkloadKey
    <3> QED
      BY <3>1 DEF WorkloadKeys
  <2>4. f = g
    <3>1. ASSUME NEW k \in K PROVE ByWorkload(k) = SumOver(share, {p \in BPods : key[p] = k})
      <4>1. {p \in BPods : BelongsTo(p, k)} = {p \in BPods : key[p] = k}
        BY DEF BelongsTo
      <4>2. {p \in BPods : key[p] = k} \in SUBSET BPods
        OBVIOUS
      <4>3. Shares({p \in BPods : key[p] = k}) = SumOver(share, {p \in BPods : key[p] = k})
        BY Zenon, <4>2, SharesIs
      <4> QED
        BY Zenon, <4>1, <4>3 DEF ByWorkload
    <3> QED
      BY <3>1
  <2>5. SumFunction(f) = SumOver(f, K)
    BY DEF SumFunction, SumOver
  <2>6. {p \in BPods : billed[p].space = s} \in SUBSET BPods
    OBVIOUS
  <2>7. ByNamespace(s) = SumOver(share, {p \in BPods : billed[p].space = s})
    BY Zenon, <2>6, SharesIs DEF ByNamespace
  <2> QED
    BY Zenon, <2>2, <2>3, <2>4, <2>5, <2>7
<1>4. ASSUME NEW t \in Teams
      PROVE  ByLabel(t) <= SumFunction([s \in {billed[p].space : p \in {q \in BPods : billed[q].team = t}}
                                    |-> ByNamespace(s)])
  <2> DEFINE P == {q \in BPods : billed[q].team = t}
             K == {billed[p].space : p \in P}
             Q == {p \in BPods : billed[p].space \in K}
  <2>1. K \in SUBSET Spaces
    BY DEF SharesInv, Billed
  <2>2. P \subseteq Q /\ P \in SUBSET BPods /\ Q \subseteq BPods
    OBVIOUS
  <2>3. ByLabel(t) = SumOver(share, P)
    BY Zenon, <2>2, SharesIs DEF ByLabel
  <2>4. SumFunction([s \in K |-> ByNamespace(s)]) = SumOver(share, Q)
    BY Zenon, <2>1, BySpace
  <2>5. IsFiniteSet(Q) /\ \A x \in Q : share[x] \in Nat
    BY <1>1, <1>2, FS_Subset
  <2> HIDE DEF P, Q
  <2>6. SumOver(share, P) <= SumOver(share, Q)
    BY <2>2, <2>5, SumOfPart
  <2> QED
    BY Zenon, <2>3, <2>4, <2>6 DEF P
<1> QED
  BY Zenon, <1>3, <1>4 DEF PagesAgree

\* The pages that share out the costs (handler/cost.go) add up to the same
\* costs: those of the nodes of which something is requested.
THEOREM CostsAreShared == DecisionsSpec => []CostsAddUp
<1>1. SharesInit => SharesInv
  <2>1. (CHOOSE s \in Spaces : TRUE) \in Spaces
    BY SharesAssumption
  <2>2. Min(Weights) \in Weights
    BY LeastOne, SharesAssumption
  <2> QED
    BY <2>1, <2>2 DEF SharesInit, SharesInv, Billed, Prices
<1>2. SharesInv /\ [SharesNext]_sharesVars => SharesInv'
  BY DEF SharesInv, SharesNext, PriceNodes, sharesVars
<1>3. SharesInv => CostsAddUp
  BY Zenon, EverybodyPays, AllAgree DEF CostsAddUp
<1> QED
  BY <1>1, <1>2, <1>3, EachPart, PTL DEF CostsPart

-----------------------------------------------------------------------------
(* Replicas.                                                                 *)

\* The figures of a workload.
Figures(w) ==
  /\ w.replicas \in 0 .. MostReplicas /\ w.cpu \in Loads /\ w.mem \in Loads
  /\ w.min \in 1 .. 4 /\ w.max \in 1 .. MostReplicas
  /\ w.cpu \in Nat /\ w.mem \in Nat

\* Every workload has them.
LEMMA FiguresIs ==
  ASSUME NEW w \in Scaled
  PROVE  Figures(w)
<1>1. w.replicas \in 0 .. MostReplicas /\ w.cpu \in Loads /\ w.mem \in Loads
      /\ w.min \in 1 .. 4 /\ w.max \in 1 .. MostReplicas
  BY DEF Scaled
<1>2. \A l \in Loads : l \in Nat
  BY OverscaledAssumption
<1> QED
  BY Zenon, <1>1, <1>2 DEF Figures

\* Enough replicas, and no fewer than the least.
Enough(n, demand) == 10 * demand <= 7 * ReplicaRequest * n

\* So many replicas bear a load at no more than 70 %.
LEMMA NeededIs ==
  ASSUME NEW u \in Nat
  PROVE  /\ NeededFor(u) \in Nat
         /\ \A n \in Nat : n >= NeededFor(u) => Enough(n, u)
<1> DEFINE r == 7 * ReplicaRequest
           k == CeilOf(10 * u, r)
<1>1. r \in Nat /\ r > 0 /\ 10 * u \in Nat
  BY OverscaledAssumption
<1> HIDE DEF r
<1>2. k \in Nat /\ k * r >= 10 * u
  BY <1>1, DivUp DEF CeilOf
<1>3. NeededFor(u) = IF u = 0 THEN 1 ELSE k
  BY Zenon DEF NeededFor, r
<1> HIDE DEF k
<1>4. ASSUME NEW n \in Nat, n >= NeededFor(u) PROVE Enough(n, u)
  <2>1. CASE u = 0
    <3>1. r * n \in Nat
      BY <1>1
    <3>2. 10 * u <= r * n
      BY <2>1, <3>1
    <3> QED
      BY Zenon, <3>2 DEF Enough, r
  <2>2. CASE u # 0
    <3>1. k <= n
      BY <1>2, <1>3, <1>4, <2>2
    <3>2. k * r <= n * r /\ k * r \in Nat /\ n * r \in Nat
      BY <1>1, <1>2, <3>1, Times
    <3>3. n * r = r * n
      BY <1>1
    <3>4. 10 * u <= r * n
      BY <1>1, <1>2, <3>2, <3>3
    <3> QED
      BY Zenon, <3>4 DEF Enough, r
  <2> QED
    BY Zenon, <2>1, <2>2
<1> QED
  BY <1>2, <1>3, <1>4

\* The advised replicas bear both loads.
LEMMA OptimalIs ==
  ASSUME NEW w, Figures(w)
  PROVE  /\ Optimal(w) \in Nat /\ Optimal(w) >= w.min
         /\ Enough(Optimal(w), w.cpu) /\ Enough(Optimal(w), w.mem)
<1> DEFINE a == NeededFor(w.cpu)
           b == NeededFor(w.mem)
           c == w.min
<1>1. w.cpu \in Nat /\ w.mem \in Nat /\ c \in Nat
  BY DEF Figures
<1>2. a \in Nat /\ b \in Nat
  BY <1>1, NeededIs
<1>3. Optimal(w) = Max({a, b, c})
  BY Zenon DEF Optimal
<1> HIDE DEF a, b, c
<1>4. Optimal(w) \in Nat /\ Optimal(w) >= a /\ Optimal(w) >= b /\ Optimal(w) >= c
  BY <1>1, <1>2, <1>3, GreatestOfThree
<1> QED
  BY <1>1, <1>4, NeededIs DEF a, b, c

\* The figures and the advice keep their types.
LEMMA AdviceTyped ==
  OverscaledTypeOK /\ [OverscaledNext]_overscaledVars => OverscaledTypeOK'
<1>1. OverscaledTypeOK /\ LookAtWorkload => OverscaledTypeOK'
  <2> SUFFICES ASSUME LookAtWorkload PROVE OverscaledTypeOK'
    OBVIOUS
  <2>1. scaledTo' \in Scaled /\ scaledTo'.min <= scaledTo'.replicas
        /\ scaledTo'.replicas <= scaledTo'.max
    BY DEF LookAtWorkload
  <2>2. health' \in {Healthy} \union Health
    BY Zenon DEF LookAtWorkload, Reports
  <2>3. Healthy \in Health
    BY OverscaledAssumption DEF Healthy, Health
  <2>4. scaledTo'.replicas \in scaledTo'.min .. scaledTo'.max
    BY <2>1 DEF Scaled
  <2> QED
    BY <2>1, <2>2, <2>3, <2>4 DEF OverscaledTypeOK
<1>2. OverscaledTypeOK /\ FollowAdvice => OverscaledTypeOK'
  <2> SUFFICES ASSUME OverscaledTypeOK, FollowAdvice PROVE OverscaledTypeOK'
    OBVIOUS
  <2> DEFINE w == scaledTo
             k == Optimal(w)
  <2>1. scaledTo' = [w EXCEPT !.replicas = k] /\ health' = health
    BY Zenon DEF FollowAdvice
  <2>2. w \in Scaled /\ health \in Health /\ Figures(w)
    BY FiguresIs DEF OverscaledTypeOK
  <2>3. w.kind # "none" /\ Excess(w) > 0
    BY Zenon DEF FollowAdvice, Listed
  <2>4. w # Idle
    BY <2>3 DEF Idle
  <2>5. w.replicas \in w.min .. w.max
    BY Zenon, <2>4 DEF OverscaledTypeOK
  <2>6. k \in Nat /\ k >= w.min
    BY <2>2, OptimalIs
  <2>7. Excess(w) = w.replicas - k
    BY Zenon DEF Excess
  <2> HIDE DEF k
  <2>8. k < w.replicas /\ w.replicas <= MostReplicas /\ w.replicas \in Nat
        /\ MostReplicas \in Nat
    BY <2>2, <2>3, <2>6, <2>7, OverscaledAssumption DEF Figures
  <2>9. k \in 0 .. MostReplicas /\ k \in w.min .. w.max
    BY <2>2, <2>5, <2>6, <2>8 DEF Figures
  <2> HIDE DEF w
  <2>10. scaledTo' \in Scaled /\ scaledTo'.replicas = k
         /\ scaledTo'.min = w.min /\ scaledTo'.max = w.max
    BY <2>1, <2>2, <2>9 DEF Scaled
  <2> QED
    BY Zenon, <2>1, <2>2, <2>9, <2>10 DEF OverscaledTypeOK
<1>3. OverscaledTypeOK /\ UNCHANGED overscaledVars => OverscaledTypeOK'
  BY Zenon DEF OverscaledTypeOK, overscaledVars
<1> QED
  BY Zenon, <1>1, <1>2, <1>3 DEF OverscaledNext

\* They have them at the start.
LEMMA AdviceStarts == OverscaledInit => OverscaledTypeOK
<1>1. Idle \in Scaled
  BY OverscaledAssumption DEF Idle, Scaled
<1>2. Healthy \in Health
  BY OverscaledAssumption DEF Healthy, Health
<1> QED
  BY <1>1, <1>2 DEF OverscaledInit, OverscaledTypeOK

\* What a ScaledObject is blamed for on the other page, it is blamed for here if
\* it has a status.
LEMMA ScaledObjectBlamed ==
  ASSUME NEW w, NEW h, NEW unseen, unseen = (IF h.status THEN {} ELSE {"paused"}),
         w.kind = "KEDA", h.kedaRead
  PROVE  ScaledObjectIssues(h) \ unseen \subseteq AutoscalerCauses(w, h)
<1> DEFINE A == AutoscalerCauses(w, h)
<1>1. ScaledObjectCauses(h) \subseteq A
  BY Zenon DEF AutoscalerCauses
<1>2. ASSUME h.hpaRead PROVE h.failing \subseteq A
  <2>1. HPACauses(w, h) \subseteq A
    BY Zenon, <1>2 DEF AutoscalerCauses
  <2> HIDE DEF A
  <2> QED
    BY <2>1 DEF HPACauses
<1> HIDE DEF A
<1>3. ASSUME h.status
      PROVE  (IF h.status THEN {h.trigger} \intersect {"failing"} ELSE {})
               \union (IF h.paused = "yes" THEN {"paused"} ELSE {}) \subseteq A
  <2>1. ScaledObjectCauses(h) = ({h.trigger} \intersect {"failing"})
                                  \union (IF h.paused # "no" THEN {"paused"} ELSE {})
    BY Zenon, <1>3 DEF ScaledObjectCauses
  <2> QED
    BY <1>1, <1>3, <2>1
<1>4. (IF h.hpaRead THEN h.failing \intersect {"metrics"} ELSE {}) \subseteq A
  BY <1>2
<1>5. CASE h.status
  <2> QED
    BY <1>3, <1>4, <1>5 DEF ScaledObjectIssues, A
<1>6. CASE ~ h.status
  <2>1. unseen = {"paused"}
    BY <1>6
  <2> QED
    BY <1>4, <1>6, <2>1 DEF ScaledObjectIssues, A
<1> QED
  BY Zenon, <1>5, <1>6

\* An issue of the other page is a cause on this one.
LEMMA Issues == IssuesAreCauses
<1> DEFINE unseen == IF health.status THEN {} ELSE {"paused"}
<1> SUFFICES ASSUME Listed(scaledTo)
             PROVE  AutoscalerIssues(scaledTo, health) \ unseen
                      \subseteq RootCauses(scaledTo, health)
  BY Zenon DEF IssuesAreCauses
<1> DEFINE A == AutoscalerCauses(scaledTo, health)
           I == AutoscalerIssues(scaledTo, health)
<1>1. A \subseteq RootCauses(scaledTo, health)
  BY DEF RootCauses
<1>2. CASE health.kedaRead /\ scaledTo.kind = "KEDA"
  <2>1. I = ScaledObjectIssues(health)
    BY Zenon, <1>2 DEF AutoscalerIssues
  <2>2. ScaledObjectIssues(health) \ unseen \subseteq A
    BY Zenon, <1>2, ScaledObjectBlamed
  <2> HIDE DEF I, A, unseen
  <2> QED
    BY <1>1, <2>1, <2>2 DEF I
<1>3. CASE ~ health.kedaRead /\ health.hpaRead
  <2>1. I = HPAIssues(scaledTo, health)
    BY Zenon, <1>3 DEF AutoscalerIssues
  <2>2. HPACauses(scaledTo, health) \subseteq A
    BY Zenon, <1>3 DEF AutoscalerCauses
  <2> HIDE DEF I, A, unseen
  <2>3. I \subseteq A
    BY <2>1, <2>2 DEF HPAIssues, HPACauses
  <2> QED
    BY <1>1, <2>3 DEF I
<1>4. CASE ~ (health.kedaRead /\ scaledTo.kind = "KEDA") /\ ~ (~ health.kedaRead /\ health.hpaRead)
  <2>1. I = {}
    BY Zenon, <1>4 DEF AutoscalerIssues
  <2> QED
    BY <2>1
<1> QED
  BY Zenon, <1>2, <1>3, <1>4

\* What the page of inefficiencies holds against the autoscaler of an
\* overscaled workload is among the causes the other page names
\* (handler/overscaled.go), but for a ScaledObject paused before it has a
\* status; and the advice leads to a workload that bears its load, of CPU and of
\* memory, and is no longer listed.
THEOREM AdviceIsSound == DecisionsSpec => AdviceSound
<1>1. OverscaledTypeOK => AdviceSettles
  <2> SUFFICES ASSUME OverscaledTypeOK, FollowAdvice
               PROVE  /\ Enough(scaledTo'.replicas, scaledTo'.cpu)
                      /\ Enough(scaledTo'.replicas, scaledTo'.mem)
                      /\ ~ Listed(scaledTo')
    BY Zenon DEF Enough, AdviceSettles
  <2>1. scaledTo' = [scaledTo EXCEPT !.replicas = Optimal(scaledTo)]
    BY Zenon DEF FollowAdvice
  <2>2. scaledTo \in Scaled
    BY DEF OverscaledTypeOK
  <2>3. /\ scaledTo'.replicas = Optimal(scaledTo) /\ scaledTo'.cpu = scaledTo.cpu
        /\ scaledTo'.mem = scaledTo.mem /\ scaledTo'.min = scaledTo.min
    BY <2>1, <2>2 DEF Scaled
  <2>4. /\ Optimal(scaledTo) \in Nat /\ Enough(Optimal(scaledTo), scaledTo.cpu)
        /\ Enough(Optimal(scaledTo), scaledTo.mem)
    BY <2>2, FiguresIs, OptimalIs
  <2>5. Optimal(scaledTo') = Optimal(scaledTo)
    BY Zenon, <2>3 DEF Optimal
  <2>6. ~ (Excess(scaledTo') > 0)
    BY <2>3, <2>4, <2>5 DEF Excess
  <2> QED
    BY Zenon, <2>3, <2>4, <2>6 DEF Listed
<1>2. OverscaledTypeOK /\ [OverscaledNext]_overscaledVars => [AdviceSettles]_overscaledVars
  BY Zenon, <1>1
<1> QED
  BY <1>2, Issues, AdviceStarts, AdviceTyped, EachPart, PTL DEF AdvicePart, AdviceSound

-----------------------------------------------------------------------------
(* The migration of pods from a GPU node.                                    *)

USE ReplicasAssumption, BoundsAssumption

\* The redistributor's steps, the crash, and those of everybody else.
MigrationSteps ==
  \/ Begin \/ Surge \/ SurgeFails \/ Poll \/ TimeOut \/ Evict \/ ScaleBack
  \/ ScaleBackFails \/ Crash \/ CreatePod \/ DeletePod \/ PodGetsReady \/ OwnerScales
  \/ Sync \/ UNCHANGED vars

\* Every step is one of these.
LEMMA NextIsMigrationSteps == [Next]_vars => MigrationSteps
BY Zenon DEF Next, Redistributor, Surroundings, MigrationSteps

\* Every variable keeps its type.
THEOREM MigrationTyped == Spec => []TypeOK
<1>1. Init => TypeOK
  <2> SUFFICES ASSUME Init PROVE TypeOK
    OBVIOUS
  <2>1. want \in 0 .. MaxReplicas /\ onGpu \in Nat /\ ready \in Nat
    BY DEF Init
  <2>2. cached \in [want : 0 .. MaxReplicas, ready : Nat]
    BY <2>1 DEF Init, ReadyReplicas
  <2>3. /\ starting \in Nat /\ original \in 0 .. MaxReplicas
        /\ faults \in 0 .. MaxFaults /\ scaled \in 0 .. MaxScaled
    BY DEF Init
  <2>4. step = "idle" /\ misled = FALSE /\ outdated \in 0 .. MaxOutdated
    BY DEF Init
  <2> QED
    BY <2>1, <2>2, <2>3, <2>4, Zenon DEF TypeOK
<1>2. TypeOK /\ [Next]_vars => TypeOK'
  <2> SUFFICES ASSUME TypeOK, MigrationSteps PROVE TypeOK'
    BY NextIsMigrationSteps
  <2> USE DEF TypeOK, deployment, migration
  <2>1. CASE Begin
    BY <2>1 DEF Begin
  <2>2. CASE Surge
    BY <2>2 DEF Surge
  <2>3. CASE SurgeFails
    BY <2>3 DEF SurgeFails
  <2>4. CASE Poll \/ TimeOut
    BY <2>4 DEF Poll, TimeOut
  <2>5. CASE Evict
    BY <2>5 DEF Evict
  <2>6. CASE ScaleBack \/ ScaleBackFails
    <3>1. /\ want' \in {want, original} /\ step' = "idle"
          /\ UNCHANGED <<starting, ready, onGpu, cached, original, misled, scaled, outdated>>
      BY <2>6 DEF ScaleBack, ScaleBackFails
    <3>2. faults' \in 0 .. MaxFaults
      BY <2>6 DEF ScaleBack, ScaleBackFails
    <3> QED
      BY <3>1, <3>2
  <2>7. CASE Crash
    <3>1. cached' \in [want : 0 .. MaxReplicas, ready : Nat]
      BY <2>7 DEF Crash, ReadyReplicas
    <3> QED
      BY <2>7, <3>1 DEF Crash
  <2>8. CASE CreatePod
    BY <2>8 DEF CreatePod
  <2>9. CASE DeletePod
    BY <2>9 DEF DeletePod
  <2>10. CASE PodGetsReady
    BY <2>10 DEF PodGetsReady
  <2>11. CASE OwnerScales
    BY <2>11 DEF OwnerScales
  <2>12. CASE Sync
    <3>1. cached' \in [want : 0 .. MaxReplicas, ready : Nat]
      BY <2>12 DEF Sync, ReadyReplicas
    <3> QED
      BY <2>12, <3>1 DEF Sync
  <2>13. CASE UNCHANGED vars
    BY <2>13 DEF vars
  <2> QED
    BY <2>1, <2>2, <2>3, <2>4, <2>5, <2>6, <2>7, <2>8, <2>9, <2>10, <2>11, <2>12, <2>13
    DEF MigrationSteps
<1> QED
  BY <1>1, <1>2, PTL DEF Spec

(* No downtime.  The pods' controller takes a ready pod away only when there *)
(* are more than are asked for, so as many stay as the least that is ever    *)
(* asked for: AskedEnough says that this is never less than the owner asks.  *)
(* An eviction is not bounded by that, and needs a pod to spare: Spare.      *)

AskedEnough ==
  scaled = 0 =>
    /\ want >= Replicas /\ cached.want >= Replicas
    /\ step # "idle" => original >= Replicas

Spare ==
  scaled = 0 /\ ~misled =>
    /\ step \in {"wait", "evict"} => want = original + 1
    /\ step = "evict" => ReadyReplicas >= original + 1

\* What is asked for stays enough.
LEMMA AskedKept ==
  ASSUME TypeOK, AskedEnough, MigrationSteps
  PROVE  AskedEnough'
<1> USE DEF TypeOK, AskedEnough, deployment, migration
<1>1. CASE Begin
  BY <1>1 DEF Begin
<1>2. CASE Surge \/ SurgeFails \/ Poll \/ TimeOut \/ Evict
  BY <1>2 DEF Surge, SurgeFails, Poll, TimeOut, Evict
<1>3. CASE ScaleBack \/ ScaleBackFails
  BY <1>3 DEF ScaleBack, ScaleBackFails
<1>4. CASE Crash \/ Sync
  BY <1>4 DEF Crash, Sync
<1>5. CASE CreatePod \/ DeletePod \/ PodGetsReady \/ OwnerScales \/ UNCHANGED vars
  BY <1>5 DEF CreatePod, DeletePod, PodGetsReady, OwnerScales, vars
<1> QED
  BY <1>1, <1>2, <1>3, <1>4, <1>5 DEF MigrationSteps

\* What is ready stays enough.
LEMMA SpareKept ==
  ASSUME TypeOK, AskedEnough, Spare, MigrationSteps
  PROVE  Spare'
<1> USE DEF TypeOK, Spare, ReadyReplicas, deployment, migration
<1>1. CASE Begin \/ Surge \/ SurgeFails
  BY <1>1 DEF Begin, Surge, SurgeFails
<1>2. CASE Poll
  <2>1. /\ step = "wait" /\ UNCHANGED <<want, ready, onGpu, original, scaled>>
        /\ ~misled' => ~misled /\ ~(ready + onGpu < original + 1)
    BY <1>2, Zenon DEF Poll
  <2>2. ~(ready + onGpu < original + 1) => ready + onGpu >= original + 1
    OBVIOUS
  <2>3. scaled' = 0 /\ ~misled' =>
          want' = original' + 1 /\ ready' + onGpu' >= original' + 1
    BY <2>1, <2>2
  <2> QED
    BY <2>3
<1>3. CASE TimeOut \/ Evict \/ ScaleBack \/ ScaleBackFails \/ Crash
  BY <1>3 DEF TimeOut, Evict, ScaleBack, ScaleBackFails, Crash
<1>4. CASE CreatePod \/ PodGetsReady \/ Sync
  BY <1>4 DEF CreatePod, PodGetsReady, Sync
<1>5. CASE DeletePod
  BY <1>5 DEF DeletePod, Pods
<1>6. CASE OwnerScales \/ UNCHANGED vars
  BY <1>6 DEF OwnerScales, vars
<1> QED
  BY <1>1, <1>2, <1>3, <1>4, <1>5, <1>6 DEF MigrationSteps

\* Without a poll that believed an outdated status the migration is without
\* downtime (redistributor.go:376-440), however it ends and whatever fails.
THEOREM NoDowntime == Spec => []DowntimeOnlyIfMisled
<1> DEFINE IInv == AskedEnough /\ Spare /\ DowntimeOnlyIfMisled
<1>1. Init => IInv
  BY DEF Init, AskedEnough, Spare, DowntimeOnlyIfMisled, ZeroDowntime, ReadyReplicas
<1>2. TypeOK /\ IInv /\ [Next]_vars => IInv'
  <2> SUFFICES ASSUME TypeOK, IInv, MigrationSteps PROVE IInv'
    BY NextIsMigrationSteps
  <2>1. DowntimeOnlyIfMisled'
    <3> USE DEF TypeOK, DowntimeOnlyIfMisled, ZeroDowntime, ReadyReplicas, deployment, migration
    <3>1. CASE Begin \/ Surge \/ SurgeFails \/ Poll \/ TimeOut \/ ScaleBack
                 \/ ScaleBackFails \/ Crash \/ Sync \/ UNCHANGED vars
      <4>1. UNCHANGED <<ready, onGpu, scaled>> /\ (misled => misled')
        BY <3>1, Zenon DEF Begin, Surge, SurgeFails, Poll, TimeOut, ScaleBack,
           ScaleBackFails, Crash, Sync, vars
      <4> QED
        BY <4>1
    <3>2. CASE Evict
      <4>1. /\ step = "evict" /\ UNCHANGED <<ready, scaled, misled>>
            /\ onGpu' \in {onGpu, onGpu - 1}
        BY <3>2 DEF Evict
      <4>2. /\ scaled = 0 /\ ~misled => ready + onGpu >= original + 1 /\ original >= Replicas
            /\ ready \in Int /\ onGpu \in Int /\ original \in Int
        BY <4>1 DEF AskedEnough, Spare
      <4>3. scaled = 0 /\ ~misled => ready + (onGpu - 1) >= Replicas /\ ready + onGpu >= Replicas
        BY <4>2
      <4> QED
        BY <4>1, <4>3
    <3>3. CASE DeletePod
      BY <3>3 DEF DeletePod, Pods, AskedEnough
    <3>4. CASE CreatePod \/ PodGetsReady \/ OwnerScales
      BY <3>4 DEF CreatePod, PodGetsReady, OwnerScales
    <3> QED
      BY <3>1, <3>2, <3>3, <3>4 DEF MigrationSteps
  <2> QED
    BY <2>1, AskedKept, SpareKept
<1> QED
  BY <1>1, <1>2, MigrationTyped, PTL DEF Spec

\* What is asked for, what a migration found and what the cache has exceed what
\* the owner asks for by no more than was accounted for, and by one more while a
\* surge is under way, which the cache may remember after it was taken back.
Accounted == Replicas + faults + outdated

Within ==
  scaled = 0 =>
    /\ step \in {"idle", "surge"} => want <= Accounted
    /\ step # "idle" => original <= Accounted
    /\ want <= Accounted + 1 /\ cached.want <= Accounted + 1

LEMMA WithinKept ==
  ASSUME TypeOK, Within, MigrationSteps
  PROVE  Within'
<1> USE DEF TypeOK, Within, Accounted, deployment, migration
<1>1. CASE Begin
  <2>1. /\ step = "idle" /\ step' = "surge" /\ original' = cached.want
        /\ UNCHANGED <<want, cached, faults, scaled>>
        /\ \/ cached.want > want /\ outdated' = outdated + 1
           \/ cached.want <= want /\ outdated' = outdated
    BY <1>1 DEF Begin
  <2> QED
    BY <2>1
<1>2. CASE Surge
  BY <1>2 DEF Surge
<1>3. CASE SurgeFails
  BY <1>3 DEF SurgeFails
<1>4. CASE Poll \/ TimeOut \/ Evict
  BY <1>4 DEF Poll, TimeOut, Evict
<1>5. CASE ScaleBack
  BY <1>5 DEF ScaleBack
<1>6. CASE ScaleBackFails
  BY <1>6 DEF ScaleBackFails
<1>7. CASE Crash
  BY <1>7 DEF Crash
<1>8. CASE Sync
  <2>1. cached'.want = want /\ UNCHANGED <<want, step, original, faults, scaled, outdated>>
    BY <1>8 DEF Sync
  <2> QED
    BY <2>1
<1>9. CASE CreatePod \/ DeletePod \/ PodGetsReady \/ UNCHANGED vars
  BY <1>9 DEF CreatePod, DeletePod, PodGetsReady, vars
<1>10. CASE OwnerScales
  <2>1. scaled' = scaled + 1 /\ scaled \in Nat
    BY <1>10 DEF OwnerScales
  <2> QED
    BY <2>1
<1> QED
  BY <1>1, <1>2, <1>3, <1>4, <1>5, <1>6, <1>7, <1>8, <1>9, <1>10 DEF MigrationSteps

\* However migrations, failed calls, crashes and an outdated cache follow one
\* another (redistributor.go:349-440), a Deployment keeps what its owner asks for
\* and each cause leaves it one replica more at most.
THEOREM SurgesAreAccountedFor == Spec => []SurgesAccounted
<1> DEFINE IInv == AskedEnough /\ Within
<1>1. Init => IInv
  BY DEF Init, AskedEnough, Within, Accounted
<1>2. TypeOK /\ IInv /\ [Next]_vars => IInv'
  BY NextIsMigrationSteps, AskedKept, WithinKept
<1>3. IInv => SurgesAccounted
  BY DEF AskedEnough, Within, Accounted, SurgesAccounted
<1> QED
  BY <1>1, <1>2, <1>3, MigrationTyped, PTL DEF Spec

-----------------------------------------------------------------------------
(* The sizing of a workload: the rightsizer and the workload scaler.         *)

USE ContainersAssumption, MemoryAssumption, CpuAssumption, CopiesAssumption, HourAssumption,
    BoundAssumption, TemplatesAssumption

\* Changes of the maximum, and changes that can be made of either kind.
OfMax(r) == r.scaling = "horizontal" /\ r.hpa
Upright(r) == r.scaling = "vertical" /\ r.target \in {"Deployment", "StatefulSet"}
Sideways(r) == OfMax(r) /\ r.auto

\* A vertical change asks for an amount of what it changes.
Fits(r) == IF r.of = "mem" THEN r.value \in Memory ELSE r.value \in Cpu

\* What the rightsizer has noted: the first request it replaced is in the
\* annotation, if the workload had annotations, and a container is in the
\* tracker at least as long as its last recommendation is in the history.
OncePart ==
  /\ first.value = Absent => originals = Absent
  /\ first.annotated => originals = first.value /\ first.value # Absent
  /\ \A m \in Marks : sinceBump[m] = Hour \/ seen[m] <= sinceBump[m]

\* What the scaler will do: the changes that it still has to make do not get in
\* each other's way, nor in that of those it has made; a new maximum is at
\* least the present one, unless the owner set it.
ScalerPart ==
  /\ \A r \in sizings :
       /\ r.scaling = "vertical" => Fits(r) /\ r.target = OwnerKind
       /\ OfMax(r) => r.value \in 1 .. MostCopies /\ r.target = kind
  /\ \A r, s \in sizings : OfMax(r) /\ OfMax(s) => r.value = s.value
  /\ "owner" \in did \/ \A r \in sizings : OfMax(r) => hpaMax <= r.value
  /\ ~ \E r, s \in sizings : Upright(r) /\ Sideways(s)
  /\ "vertical" \in did => ~ \E s \in sizings : Sideways(s)
  /\ "horizontal" \in did => ~ \E r \in sizings : Upright(r)
  /\ NotBothWays

\* The invariant of the sizing of a workload.
SizingInv == SizingTypeOK /\ OncePart /\ ScalerPart

\* A new maximum is a positive int32 within the limit, whatever the present one
\* is.
LEMMA NewMaxIs ==
  ASSUME hpaMax \in 1 .. MostCopies
  PROVE  NewMax \in 1 .. MostCopies
<1> DEFINE d == IF hpaMax < 2 THEN 1 ELSE hpaMax \div 2
           sum == Wrapped(hpaMax + d)
           more == IF sum < hpaMax THEN MaxInt ELSE sum
<1>1. hpaMax \in Nat /\ hpaMax >= 1 /\ hpaMax <= MaxInt /\ MaxInt \in Nat
  BY ScalerAssumption, SizingBounds
<1>2. d \in Nat /\ d >= 1 /\ d <= hpaMax
  BY <1>1
<1>3. NewMax = IF ReplicasLimit > 0 /\ more > ReplicasLimit THEN ReplicasLimit ELSE more
  BY Zenon DEF NewMax
<1> HIDE DEF d
<1>4. sum \in Int /\ sum <= MaxInt
  BY <1>1, <1>2 DEF Wrapped
<1> HIDE DEF sum
<1>5. more \in Nat /\ more >= 1 /\ more <= MaxInt
  BY <1>1, <1>4
<1> HIDE DEF more
<1> QED
  BY <1>3, <1>5, ScalerAssumption, SizingBounds

\* What the scaler may recommend.
Proposed(r) ==
  /\ r \in Scaling
  /\ r.scaling = "vertical" => Fits(r) /\ r.target = OwnerKind
  /\ OfMax(r) => r = Horizontal

\* The kinds of owners.
LEMMA OwnerIs ==
  ASSUME WorkloadTypeOK
  PROVE  /\ OwnerKind \in {"ReplicaSet", "Deployment", "StatefulSet"}
         /\ kind \in {"Deployment", "StatefulSet"}
         /\ OwnerKind = "StatefulSet" => kind = "StatefulSet"
         /\ OwnerKind # "Deployment"
BY DEF WorkloadTypeOK, OwnerKind

\* The horizontal recommendation is one of the autoscaler, with the new
\* maximum.
LEMMA HorizontalIs ==
  ASSUME WorkloadTypeOK
  PROVE  /\ Proposed(Horizontal) /\ Horizontal.value = NewMax /\ Horizontal.target = kind
         /\ Horizontal.scaling = "horizontal" /\ Horizontal.hpa
         /\ NewMax \in 1 .. MostCopies
<1>1. NewMax \in 1 .. MostCopies /\ MostCopies \in Nat
  BY NewMaxIs DEF WorkloadTypeOK
<1>2. NewMax \in Nat
  BY <1>1
<1>3. TRUE \in BOOLEAN
  BY Zenon
<1>4. Horizontal \in Scaling
  BY Zenon, <1>2, <1>3, OwnerIs DEF Horizontal, Scaling
<1> QED
  BY Zenon, <1>1, <1>4 DEF Proposed, Horizontal

\* The recommendation for a surge names no autoscaler.
LEMMA SurgeIs ==
  ASSUME WorkloadTypeOK
  PROVE  Proposed(SizingSurge)
<1>1. SizingSurge \in Scaling
  BY Zenon, OwnerIs DEF SizingSurge, Scaling
<1> QED
  BY Zenon, <1>1 DEF Proposed, SizingSurge, OfMax

\* A vertical recommendation.
LEMMA RecordIs ==
  ASSUME WorkloadTypeOK, NEW r, NEW what \in {"mem", "cpu"}, NEW v \in Nat,
         IF what = "mem" THEN v \in Memory ELSE v \in Cpu,
         r = [scaling |-> "vertical", target |-> OwnerKind, of |-> what, hpa |-> FALSE,
              auto |-> TRUE, value |-> v]
  PROVE  Proposed(r)
<1>1. what \in {"mem", "cpu", "copies"}
  OBVIOUS
<1>2. r \in Scaling
  BY Zenon, <1>1, OwnerIs DEF Scaling
<1>3. r.scaling = "vertical" /\ r.value = v /\ r.of = what /\ r.target = OwnerKind
      /\ ~ OfMax(r)
  BY Zenon DEF OfMax
<1>4. Fits(r)
  BY Zenon, <1>3 DEF Fits
<1> QED
  BY Zenon, <1>2, <1>3, <1>4 DEF Proposed

\* What a vertical recommendation asks for is within bounds.
LEMMA FloorIs ==
  ASSUME NEW u \in 0 .. MaxUse, NEW floor \in Nat, NEW most \in Nat, floor <= most,
         (13 * MaxUse) \div 10 <= most
  PROVE  /\ (IF (13 * u) \div 10 < floor THEN floor ELSE (13 * u) \div 10) \in 0 .. most
         /\ (IF (13 * u) \div 10 < floor THEN floor ELSE (13 * u) \div 10) \in Nat
<1>2. u \in Nat /\ u <= MaxUse /\ MaxUse \in Nat
  OBVIOUS
<1>3. (13 * u) \div 10 \in Nat /\ (13 * u) \div 10 <= (13 * MaxUse) \div 10
      /\ (13 * MaxUse) \div 10 \in Nat
  BY <1>2
<1>4. (13 * u) \div 10 \in 0 .. most
  BY <1>3
<1> QED
  BY <1>3, <1>4

\* A vertical recommendation is one, whatever a pod uses, of memory or of CPU.
LEMMA VerticalIs ==
  ASSUME WorkloadTypeOK, NEW m \in 0 .. MaxUse, NEW c \in 0 .. MaxUse, NEW r \in Verticals(m, c)
  PROVE  Proposed(r) /\ r.scaling = "vertical"
<1>1. CASE r = VerticalTo("mem", m, MemFloor)
  <2> DEFINE v == IF (13 * m) \div 10 < MemFloor THEN MemFloor ELSE (13 * m) \div 10
  <2>1. MemFloor \in Nat /\ MaxMem \in Nat
    BY ScalerAssumption
  <2>2. v \in 0 .. MaxMem /\ v \in Nat
    BY <2>1, FloorIs, SizingBounds
  <2>3. r = [scaling |-> "vertical", target |-> OwnerKind, of |-> "mem", hpa |-> FALSE,
             auto |-> TRUE, value |-> v]
    BY Zenon, <1>1 DEF VerticalTo
  <2> HIDE DEF v
  <2>4. v \in Memory /\ "mem" \in {"mem", "cpu"}
    BY <2>2 DEF Memory
  <2> QED
    BY Zenon, <2>2, <2>3, <2>4, RecordIs
<1>2. CASE r = VerticalTo("cpu", c, LeastCpu)
  <2> DEFINE v == IF (13 * c) \div 10 < LeastCpu THEN LeastCpu ELSE (13 * c) \div 10
  <2>1. LeastCpu \in Nat /\ MaxCpu \in Nat
    BY ScalerAssumption, CpuAssumption
  <2>2. v \in 0 .. MaxCpu /\ v \in Nat
    BY <2>1, FloorIs, SizingBounds
  <2>3. r = [scaling |-> "vertical", target |-> OwnerKind, of |-> "cpu", hpa |-> FALSE,
             auto |-> TRUE, value |-> v]
    BY Zenon, <1>2 DEF VerticalTo
  <2> HIDE DEF v
  <2>4. v \in Cpu /\ "cpu" \in {"mem", "cpu"} /\ "cpu" # "mem"
    BY <2>2 DEF Cpu
  <2> QED
    BY Zenon, <2>2, <2>3, <2>4, RecordIs
<1> QED
  BY Zenon, <1>1, <1>2 DEF Verticals

\* What Resolve makes of a recommendation.
Deferred(r) == [r EXCEPT !.auto = FALSE]

\* The fields of a recommendation when one of them is set.
LEMMA MadeAuto ==
  ASSUME NEW r, NEW S, NEW T, NEW O, NEW U, NEW V, NEW W, NEW n \in V,
         r \in [scaling : S, target : T, of : O, hpa : U, auto : V, value : W]
  PROVE  /\ [r EXCEPT !.auto = n]
              \in [scaling : S, target : T, of : O, hpa : U, auto : V, value : W]
         /\ [r EXCEPT !.auto = n].of = r.of
         /\ [r EXCEPT !.auto = n].scaling = r.scaling
         /\ [r EXCEPT !.auto = n].target = r.target
         /\ [r EXCEPT !.auto = n].hpa = r.hpa
         /\ [r EXCEPT !.auto = n].value = r.value
         /\ [r EXCEPT !.auto = n].auto = n
BY SMT

\* Only one field is set.
LEMMA DeferredIs ==
  ASSUME NEW r \in Scaling
  PROVE  /\ Deferred(r) \in Scaling /\ Deferred(r).auto = FALSE
         /\ Deferred(r).scaling = r.scaling /\ Deferred(r).target = r.target
         /\ Deferred(r).hpa = r.hpa /\ Deferred(r).value = r.value
<1>1. FALSE \in BOOLEAN
  BY Zenon
<1> QED
  BY Zenon, <1>1, MadeAuto DEF Deferred, Scaling

\* The coordinator leaves a recommendation as it is or defers it.
LEMMA ResolveIs ==
  ASSUME NEW recs, NEW r \in Resolve(recs)
  PROVE  \/ /\ r \in recs
            /\ ~ (r.scaling = "horizontal"
                    /\ \E v \in recs : v.scaling = "vertical" /\ v.target = r.target)
         \/ \E q \in recs : r = Deferred(q) /\ q.scaling = "horizontal"
BY Zenon DEF Resolve, Deferred

\* What the analysis leaves.
Resolved(r) ==
  /\ r \in Scaling
  /\ r.scaling = "vertical" => Fits(r) /\ r.target = OwnerKind
  /\ OfMax(r) => r.value = NewMax /\ r.target = kind

\* What the coordinator leaves of recommendations.
LEMMA ProposedResolve ==
  ASSUME WorkloadTypeOK, NEW recs, \A r \in recs : Proposed(r), NEW s \in Resolve(recs)
  PROVE  Resolved(s)
<1>1. CASE s \in recs
  BY Zenon, <1>1, HorizontalIs DEF Resolved, Proposed
<1>2. CASE \E q \in recs : s = Deferred(q) /\ q.scaling = "horizontal"
  <2>1. PICK q \in recs : s = Deferred(q) /\ q.scaling = "horizontal"
    BY Zenon, <1>2
  <2>2. Proposed(q) /\ q \in Scaling
    BY Zenon, <2>1 DEF Proposed
  <2>3. s \in Scaling /\ s.scaling = "horizontal" /\ s.target = q.target /\ s.hpa = q.hpa
        /\ s.value = q.value
    BY Zenon, <2>1, <2>2, DeferredIs
  <2>4. OfMax(s) => OfMax(q)
    BY Zenon, <2>1, <2>3 DEF OfMax
  <2>5. OfMax(s) => s.value = NewMax /\ s.target = kind
    BY Zenon, <2>2, <2>3, <2>4, HorizontalIs DEF Proposed
  <2>6. s.scaling # "vertical"
    BY <2>3
  <2> QED
    BY Zenon, <2>3, <2>5, <2>6 DEF Resolved
<1> QED
  BY Zenon, <1>1, <1>2, ResolveIs

\* Of one workload it does not leave changes of both kinds to be made: the
\* owner of the pods that can be patched is the target of the autoscaler.
LEMMA NeverBoth ==
  ASSUME WorkloadTypeOK, NEW recs, \A r \in recs : Proposed(r)
  PROVE  ~ \E r, s \in Resolve(recs) : Upright(r) /\ Sideways(s)
<1> SUFFICES ASSUME NEW r \in Resolve(recs), NEW s \in Resolve(recs), Upright(r), Sideways(s)
             PROVE  FALSE
  BY Zenon
<1>1. Resolved(r) /\ Resolved(s)
  BY Zenon, ProposedResolve
<1>2. r.scaling = "vertical" /\ r.target = OwnerKind
  BY Zenon, <1>1 DEF Resolved, Upright
<1>3. r \in recs
  <2>1. ASSUME NEW q \in recs, r = Deferred(q), q.scaling = "horizontal"
        PROVE  FALSE
    <3>1. r.scaling = "horizontal"
      BY Zenon, <2>1, DeferredIs DEF Proposed
    <3> QED
      BY <3>1, <1>2
  <2> QED
    BY Zenon, <2>1, ResolveIs
<1>4. OwnerKind = kind
  BY <1>2, OwnerIs DEF Upright, WorkloadTypeOK, OwnerKind
<1>5. s.scaling = "horizontal" /\ s.target = kind /\ s.auto
  BY Zenon, <1>1 DEF Resolved, Sideways, OfMax
<1>6. s \notin recs
  <2>1. ASSUME s \in recs PROVE \E v \in recs : v.scaling = "vertical" /\ v.target = s.target
    BY Zenon, <1>2, <1>3, <1>4, <1>5
  <2>2. ~ \E q \in recs : s = Deferred(q) /\ q.scaling = "horizontal"
    BY Zenon, <1>5, DeferredIs DEF Proposed
  <2> QED
    BY Zenon, <1>5, <2>1, <2>2, ResolveIs
<1>7. PICK q \in recs : s = Deferred(q) /\ q.scaling = "horizontal"
  BY Zenon, <1>6, ResolveIs
<1> QED
  BY Zenon, <1>5, <1>7, DeferredIs DEF Proposed

\* Only one of the three recommendations is about the maximum.
LEMMA OfMaxOnly ==
  ASSUME NEW r
  PROVE  /\ r = SizingSurge => ~ OfMax(r)
         /\ r.scaling = "vertical" => ~ OfMax(r)
<1>1. SizingSurge.hpa = FALSE
  BY Zenon DEF SizingSurge
<1>2. "vertical" # "horizontal"
  OBVIOUS
<1> QED
  BY Zenon, <1>1, <1>2 DEF OfMax

\* A recommended maximum is above the present one.
LEMMA MaxedIs ==
  ASSUME NEW r \in Maxed
  PROVE  r = Horizontal /\ NewMax > hpaMax
BY Zenon DEF Maxed

\* An analysis leaves recommendations that go together.
LEMMA ScalerAnalyzes ==
  ASSUME SizingInv, ScalerAnalyze
  PROVE  SizingInv'
<1>0. WorkloadTypeOK /\ RightsizerTypeOK /\ OncePart
  BY DEF SizingInv, SizingTypeOK
<1>u. UNCHANGED workloadVars /\ UNCHANGED rightsizerVars /\ did' = {}
  BY DEF ScalerAnalyze
<1>t. WorkloadTypeOK' /\ RightsizerTypeOK'
  BY Zenon, <1>0, <1>u DEF WorkloadTypeOK, RightsizerTypeOK, workloadVars,
         rightsizerVars
<1>o. OncePart'
  BY Zenon, <1>0, <1>u DEF OncePart, rightsizerVars
<1>1. PICK surges \in BOOLEAN : \E mem, cpu \in [SizedPods -> 0 .. MaxUse] :
        sizings' = Resolve((IF surges THEN {SizingSurge} ELSE {})
                           \union (UNION {Verticals(mem[p], cpu[p]) : p \in SizedPods})
                           \union Maxed)
  BY Zenon DEF ScalerAnalyze
<1>2. PICK mem \in [SizedPods -> 0 .. MaxUse], cpu \in [SizedPods -> 0 .. MaxUse] :
        sizings' = Resolve((IF surges THEN {SizingSurge} ELSE {})
                           \union (UNION {Verticals(mem[p], cpu[p]) : p \in SizedPods})
                           \union Maxed)
  BY Zenon, <1>1
<1> DEFINE recs == (IF surges THEN {SizingSurge} ELSE {})
                     \union (UNION {Verticals(mem[p], cpu[p]) : p \in SizedPods})
                     \union Maxed
<1>3. sizings' = Resolve(recs)
  BY Zenon, <1>2
<1>4. ASSUME NEW r \in recs
      PROVE  Proposed(r) /\ (OfMax(r) => NewMax > hpaMax)
  <2>1. CASE r = SizingSurge
    BY Zenon, <1>0, <2>1, SurgeIs, OfMaxOnly
  <2>2. CASE \E p \in SizedPods : r \in Verticals(mem[p], cpu[p])
    <3>1. PICK p \in SizedPods : r \in Verticals(mem[p], cpu[p])
      BY Zenon, <2>2
    <3>2. mem[p] \in 0 .. MaxUse /\ cpu[p] \in 0 .. MaxUse
      OBVIOUS
    <3> QED
      BY Zenon, <1>0, <3>1, <3>2, VerticalIs, OfMaxOnly
  <2>3. CASE r \in Maxed
    BY Zenon, <1>0, <2>3, MaxedIs, HorizontalIs
  <2>4. r = SizingSurge \/ (\E p \in SizedPods : r \in Verticals(mem[p], cpu[p]))
        \/ r \in Maxed
    <3> DEFINE vert == UNION {Verticals(mem[p], cpu[p]) : p \in SizedPods}
               surge == IF surges THEN {SizingSurge} ELSE {}
    <3>1. r \in vert => \E p \in SizedPods : r \in Verticals(mem[p], cpu[p])
      BY Zenon
    <3>2. r \in surge => r = SizingSurge
      BY Zenon
    <3> HIDE DEF vert, surge
    <3>3. r \in surge \/ r \in vert \/ r \in Maxed
      <4>1. recs = surge \union vert \union Maxed
        BY Zenon DEF recs, surge, vert
      <4> HIDE DEF recs
      <4> QED
        BY <4>1
    <3> QED
      BY Zenon, <3>1, <3>2, <3>3
  <2> QED
    BY Zenon, <2>1, <2>2, <2>3, <2>4
<1> HIDE DEF recs
<1>5. \A r \in recs : Proposed(r)
  BY Zenon, <1>4
<1>6. NewMax \in 1 .. MostCopies
  BY Zenon, <1>0, HorizontalIs
<1>7. ASSUME NEW r \in Resolve(recs), OfMax(r)
      PROVE  NewMax > hpaMax
  <2>1. ASSUME NEW q \in recs, r = Deferred(q) PROVE OfMax(q)
    BY Zenon, <1>5, <1>7, <2>1, DeferredIs DEF Proposed, OfMax
  <2> QED
    BY Zenon, <1>4, <1>7, <2>1, ResolveIs
<1>8. \A r \in Resolve(recs) : Resolved(r)
  BY Zenon, <1>0, <1>5, ProposedResolve
<1>9. sizings' \subseteq Scaling
  BY Zenon, <1>3, <1>8 DEF Resolved
<1>10. did' \subseteq {"vertical", "horizontal", "owner"}
  BY Zenon, <1>u
<1>11. kind' = kind /\ hpaMax' = hpaMax /\ OwnerKind' = OwnerKind
  BY Zenon, <1>u DEF workloadVars, OwnerKind
<1>12. hpaMax \in Nat /\ NewMax \in Nat
  BY <1>0, <1>6 DEF WorkloadTypeOK
<1>13. NewMax > hpaMax => hpaMax <= NewMax
  BY <1>12
<1>14. ASSUME NEW r \in sizings'
       PROVE  /\ r.scaling = "vertical" => Fits(r) /\ r.target = OwnerKind'
              /\ OfMax(r) => r.value = NewMax /\ r.target = kind' /\ hpaMax' <= NewMax
  BY Zenon, <1>3, <1>7, <1>8, <1>11, <1>13 DEF Resolved
<1>15. ~ \E r, s \in sizings' : Upright(r) /\ Sideways(s)
  BY Zenon, <1>0, <1>3, <1>5, NeverBoth
<1>16. ScalerPart'
  <2>1. \A r \in sizings' :
           /\ r.scaling = "vertical" => Fits(r) /\ r.target = OwnerKind'
           /\ OfMax(r) => r.value \in 1 .. MostCopies /\ r.target = kind'
    BY Zenon, <1>14, <1>6
  <2>2. \A r, s \in sizings' : OfMax(r) /\ OfMax(s) => r.value = s.value
    BY Zenon, <1>14
  <2>3. \A r \in sizings' : OfMax(r) => hpaMax' <= r.value
    BY Zenon, <1>14
  <2>4. "vertical" \notin did' /\ "horizontal" \notin did'
    BY Zenon, <1>u
  <2>5. NotBothWays'
    BY Zenon, <2>4 DEF NotBothWays
  <2> QED
    BY Zenon, <2>1, <2>2, <2>3, <2>4, <2>5, <1>15 DEF ScalerPart
<1> QED
  BY Zenon, <1>t, <1>o, <1>9, <1>10, <1>16 DEF SizingInv, SizingTypeOK

\* The counters stay within their bounds.
LEMMA SpendTyped ==
  ASSUME WorkloadTypeOK, NEW what \in {"kills", "mishaps"}, Spend(what),
         what = "kills" => bounds.kills < MaxKills,
         what = "mishaps" => bounds.mishaps < MaxMishaps
  PROVE  bounds' \in [kills : 0 .. MaxKills, mishaps : 0 .. MaxMishaps]
BY BoundAssumption DEF WorkloadTypeOK, Spend

\* Fewer recommendations go together, too.
LEMMA ScalerStays ==
  ASSUME ScalerPart, kind' = kind, hpaMax' = hpaMax, did' = did, sizings' \subseteq sizings
  PROVE  ScalerPart'
<1>1. OwnerKind' = OwnerKind
  BY Zenon DEF OwnerKind
<1>2. NotBothWays'
  BY Zenon DEF ScalerPart, NotBothWays
<1> QED
  BY Zenon, <1>1, <1>2 DEF ScalerPart

\* The execution of a recommendation leaves the others right: changes of one
\* kind are made, or of the other.
LEMMA Scales ==
  ASSUME SizingInv, NEW r \in sizings, sizings' = sizings \ {r}, UNCHANGED rightsizerVars,
         ExecuteVertical(r) \/ ExecuteHorizontal(r) \/ PassOver(r) \/ CallFails
  PROVE  SizingInv'
<1>0. WorkloadTypeOK /\ RightsizerTypeOK /\ OncePart /\ ScalerPart /\ sizings \subseteq Scaling
      /\ did \subseteq {"vertical", "horizontal", "owner"}
  BY DEF SizingInv, SizingTypeOK
<1>1. RightsizerTypeOK' /\ OncePart'
  BY Zenon, <1>0 DEF RightsizerTypeOK, OncePart, rightsizerVars
<1>2. sizings' \subseteq Scaling /\ sizings' \subseteq sizings
  BY Zenon, <1>0
<1>3. CASE ExecuteVertical(r)
  <2>1. r.scaling = "vertical" /\ Upright(r)
    BY Zenon, <1>3 DEF ExecuteVertical, Upright
  <2>2. Fits(r)
    BY Zenon, <1>0, <2>1 DEF ScalerPart
  <2>3. template' \in [Containers -> Memory] /\ cpuTemplate' \in [Containers -> Cpu]
    <3>1. template \in [Containers -> Memory] /\ cpuTemplate \in [Containers -> Cpu]
      BY Zenon, <1>0 DEF WorkloadTypeOK
    <3>2. /\ template' = IF r.of = "mem" THEN VerticalPatch(r) ELSE template
          /\ cpuTemplate' = IF r.of = "cpu" THEN VerticalPatch(r) ELSE cpuTemplate
      BY Zenon, <1>3 DEF ExecuteVertical
    <3>3. "mem" # "cpu"
      OBVIOUS
    <3> QED
      BY Zenon, <2>2, <3>1, <3>2, <3>3 DEF Fits, VerticalPatch
  <2>4. UNCHANGED <<kind, limit, podSpec, podCpu, oomKilled, hpaMax, pressure, bounds>>
        /\ did' = did \union {"vertical"}
    BY Zenon, <1>3 DEF ExecuteVertical
  <2>5. WorkloadTypeOK'
    BY Zenon, <1>0, <2>3, <2>4 DEF WorkloadTypeOK
  <2>6. "horizontal" \notin did /\ ~ \E s \in sizings : Sideways(s)
    BY Zenon, <1>0, <2>1 DEF ScalerPart
  <2>7. "horizontal" \notin did' /\ ("owner" \in did => "owner" \in did')
    BY <2>4, <2>6
  <2>8. OwnerKind' = OwnerKind /\ kind' = kind /\ hpaMax' = hpaMax
    BY Zenon, <2>4 DEF OwnerKind
  <2>9. NotBothWays'
    BY <2>7 DEF NotBothWays
  <2>10. ScalerPart'
    BY Zenon, <1>0, <1>2, <2>6, <2>7, <2>8, <2>9 DEF ScalerPart
  <2>11. did' \subseteq {"vertical", "horizontal", "owner"}
    BY <1>0, <2>4
  <2> QED
    BY Zenon, <1>1, <1>2, <2>5, <2>10, <2>11 DEF SizingInv, SizingTypeOK
<1>4. CASE ExecuteHorizontal(r)
  <2>1. OfMax(r) /\ Sideways(r)
    BY Zenon, <1>4 DEF ExecuteHorizontal, OfMax, Sideways
  <2>2. r.value \in 1 .. MostCopies
    BY Zenon, <1>0, <2>1 DEF ScalerPart
  <2>4. UNCHANGED <<kind, limit, template, podSpec, cpuTemplate, podCpu, oomKilled, pressure,
                    bounds>>
        /\ did' = did \union {"horizontal"} /\ hpaMax' = r.value
    BY Zenon, <1>4 DEF ExecuteHorizontal
  <2>5. WorkloadTypeOK'
    BY Zenon, <1>0, <2>2, <2>4 DEF WorkloadTypeOK
  <2>6. "vertical" \notin did /\ ~ \E s \in sizings : Upright(s)
    BY Zenon, <1>0, <2>1 DEF ScalerPart
  <2>7. "vertical" \notin did'
    BY <2>4, <2>6
  <2>8. OwnerKind' = OwnerKind /\ kind' = kind
    BY Zenon, <2>4 DEF OwnerKind
  <2>9. NotBothWays'
    BY <2>7 DEF NotBothWays
  <2>10. ASSUME NEW s \in sizings', OfMax(s) PROVE hpaMax' <= s.value
    <3>1. s.value = hpaMax'
      BY Zenon, <1>0, <1>2, <2>1, <2>4, <2>10 DEF ScalerPart
    <3>2. hpaMax' \in Nat
      BY <2>2, <2>4
    <3>3. hpaMax' <= hpaMax'
      BY <3>2
    <3> QED
      BY Zenon, <3>1, <3>3
  <2>11. ScalerPart'
    BY Zenon, <1>0, <1>2, <2>6, <2>7, <2>8, <2>9, <2>10 DEF ScalerPart
  <2>12. did' \subseteq {"vertical", "horizontal", "owner"}
    BY <1>0, <2>4
  <2> QED
    BY Zenon, <1>1, <1>2, <2>5, <2>11, <2>12 DEF SizingInv, SizingTypeOK
<1>5. CASE PassOver(r)
  <2>1. UNCHANGED workloadVars /\ did' = did
    BY Zenon, <1>5 DEF PassOver
  <2>2. WorkloadTypeOK'
    BY Zenon, <1>0, <2>1 DEF WorkloadTypeOK, workloadVars
  <2>3. ScalerPart'
    BY Zenon, <1>0, <1>2, <2>1, ScalerStays DEF workloadVars
  <2> QED
    BY Zenon, <1>0, <1>1, <1>2, <2>1, <2>2, <2>3 DEF SizingInv, SizingTypeOK
<1>6. CASE CallFails
  <2>1. UNCHANGED <<kind, limit, template, podSpec, cpuTemplate, podCpu, oomKilled, hpaMax,
                    pressure, did>>
        /\ Spend("mishaps") /\ bounds.mishaps < MaxMishaps
    BY Zenon, <1>6 DEF CallFails
  <2>2. bounds' \in [kills : 0 .. MaxKills, mishaps : 0 .. MaxMishaps]
    BY <1>0, <2>1, SpendTyped
  <2>3. WorkloadTypeOK'
    BY Zenon, <1>0, <2>1, <2>2 DEF WorkloadTypeOK
  <2>4. ScalerPart'
    BY Zenon, <1>0, <1>2, <2>1, ScalerStays
  <2> QED
    BY Zenon, <1>0, <1>1, <1>2, <2>1, <2>3, <2>4 DEF SizingInv, SizingTypeOK
<1> QED
  BY Zenon, <1>3, <1>4, <1>5, <1>6

\* What an owner may ask for.
LEMMA TemplateIs ==
  ASSUME NEW t \in Templates
  PROVE  t.mem \in [Containers -> Memory] /\ t.cpu \in [Containers -> Cpu]
BY TemplatesAssumption DEF Containers, Memory, Cpu

\* A kill changes nothing here, and when the owner sets the maximum that is
\* noted.
LEMMA SurroundingsKeep ==
  ASSUME SizingInv, SizingSurroundings
  PROVE  SizingInv'
<1>0. WorkloadTypeOK /\ RightsizerTypeOK /\ OncePart /\ ScalerPart /\ sizings \subseteq Scaling
      /\ did \subseteq {"vertical", "horizontal", "owner"}
  BY DEF SizingInv, SizingTypeOK
<1>1. UNCHANGED <<rightsizerVars, sizings>>
  BY Zenon DEF SizingSurroundings
<1>2. RightsizerTypeOK' /\ OncePart' /\ sizings' = sizings
  BY Zenon, <1>0, <1>1 DEF RightsizerTypeOK, OncePart, rightsizerVars
<1>3. CASE OomKill /\ UNCHANGED did
  <2>1. UNCHANGED <<kind, limit, template, podSpec, cpuTemplate, podCpu, hpaMax, pressure,
                    did>>
        /\ Spend("kills") /\ bounds.kills < MaxKills
    BY Zenon, <1>3 DEF OomKill
  <2>2. bounds' \in [kills : 0 .. MaxKills, mishaps : 0 .. MaxMishaps]
    BY <1>0, <2>1, SpendTyped
  <2>3. PICK p \in SizedPods, c \in Containers : oomKilled' = oomKilled \union {<<p, c>>}
    BY Zenon, <1>3 DEF OomKill
  <2>4. oomKilled' \subseteq SizedPods \X Containers
    BY <1>0, <2>3 DEF WorkloadTypeOK
  <2>5. WorkloadTypeOK'
    BY Zenon, <1>0, <2>1, <2>2, <2>4 DEF WorkloadTypeOK
  <2>6. ScalerPart'
    BY Zenon, <1>0, <1>2, <2>1, ScalerStays
  <2> QED
    BY Zenon, <1>0, <1>2, <2>1, <2>5, <2>6 DEF SizingInv, SizingTypeOK
<1>4. CASE OwnerChange /\ did' = did \union {"owner"}
  <2>1. UNCHANGED <<kind, limit, podSpec, podCpu, oomKilled, pressure>>
        /\ Spend("mishaps") /\ bounds.mishaps < MaxMishaps
    BY Zenon, <1>4 DEF OwnerChange
  <2>2. bounds' \in [kills : 0 .. MaxKills, mishaps : 0 .. MaxMishaps]
    BY <1>0, <2>1, SpendTyped
  <2>3. template' \in [Containers -> Memory] /\ cpuTemplate' \in [Containers -> Cpu]
        /\ hpaMax' \in 1 .. MostCopies
    <3>1. CASE \E t \in Templates : template' = t.mem /\ cpuTemplate' = t.cpu /\ UNCHANGED hpaMax
      <4>1. PICK t \in Templates : template' = t.mem /\ cpuTemplate' = t.cpu /\ hpaMax' = hpaMax
        BY Zenon, <3>1
      <4> QED
        BY Zenon, <1>0, <4>1, TemplateIs DEF WorkloadTypeOK
    <3>2. CASE \E m \in 1 .. MostCopies : hpaMax' = m /\ UNCHANGED <<template, cpuTemplate>>
      BY Zenon, <1>0, <3>2 DEF WorkloadTypeOK
    <3> QED
      BY Zenon, <1>4, <3>1, <3>2 DEF OwnerChange
  <2>4. WorkloadTypeOK'
    BY Zenon, <1>0, <2>1, <2>2, <2>3 DEF WorkloadTypeOK
  <2>5. "owner" \in did' /\ ("vertical" \in did' => "vertical" \in did)
        /\ ("horizontal" \in did' => "horizontal" \in did)
        /\ did' \subseteq {"vertical", "horizontal", "owner"}
    BY <1>0, <1>4
  <2>6. NotBothWays
    BY Zenon, <1>0 DEF ScalerPart
  <2>7. NotBothWays'
    BY <2>5, <2>6 DEF NotBothWays
  <2>8. OwnerKind' = OwnerKind /\ kind' = kind
    BY Zenon, <2>1 DEF OwnerKind
  <2>9. ScalerPart'
    BY Zenon, <1>0, <1>2, <2>5, <2>7, <2>8 DEF ScalerPart
  <2> QED
    BY Zenon, <1>0, <1>2, <2>4, <2>5, <2>9 DEF SizingInv, SizingTypeOK
<1> QED
  BY Zenon, <1>3, <1>4 DEF SizingSurroundings

\* The age of an entry that is not there.
LEMMA MarksOfAge ==
  /\ Never \in Nat /\ Never = 2 * Hour + 1 /\ Hour \in Nat /\ Hour > 0
  /\ \A m \in Marks : m[2] \in Containers
BY DEF Never, Marks

\* A recommended bump is one.
LEMMA BumpedTyped ==
  ASSUME WorkloadTypeOK, NEW m \in Marks
  PROVE  Bumped(m) \in Bump
<1>1. m[2] \in Containers
  BY MarksOfAge
<1>2. limit \in Memory /\ podSpec[m[2]] \in Memory
  BY <1>1 DEF WorkloadTypeOK
<1>3. CurrentMem(m[2]) \in Memory
  BY Zenon, <1>2 DEF CurrentMem
<1>4. CurrentMem(m[2]) \in Nat
  BY <1>3, MemoryAssumption DEF Memory
<1> DEFINE n == CurrentMem(m[2])
<1> HIDE DEF n
<1>5. n \in Nat
  BY <1>4 DEF n
<1>6. (BumpNum * n) \div BumpDen \in Nat
  <2>1. BumpNum * n \in Nat
    BY <1>5, BumpAssumption
  <2> DEFINE k == BumpNum * n
  <2>2. k \in Nat
    BY <2>1
  <2> HIDE DEF k
  <2>3. k \div BumpDen \in Nat
    BY <2>2, BumpAssumption
  <2> QED
    BY <2>3 DEF k
<1>7. (BumpNum * CurrentMem(m[2])) \div BumpDen \in Nat
  BY <1>6 DEF n
<1> QED
  BY Zenon, <1>3, <1>7 DEF Bumped, Bump

\* The rightsizer's own steps leave the workload and the scaler alone.
LEMMA WorkloadStays ==
  ASSUME SizingInv, UNCHANGED workloadVars, UNCHANGED <<sizings, did>>,
         RightsizerTypeOK', OncePart'
  PROVE  SizingInv'
<1>0. WorkloadTypeOK /\ ScalerPart /\ sizings \subseteq Scaling
      /\ did \subseteq {"vertical", "horizontal", "owner"}
  BY DEF SizingInv, SizingTypeOK
<1>1. WorkloadTypeOK'
  BY Zenon, <1>0 DEF WorkloadTypeOK, workloadVars
<1>2. sizings' = sizings /\ did' = did
  BY Zenon
<1>3. ScalerPart'
  BY Zenon, <1>0, <1>2, ScalerStays DEF workloadVars
<1> QED
  BY Zenon, <1>0, <1>1, <1>2, <1>3 DEF SizingInv, SizingTypeOK

\* The ages of the tracker's entries.
LEMMA AgesFacts ==
  ASSUME SizingInv
  PROVE  /\ WorkloadTypeOK /\ RightsizerTypeOK /\ OncePart
         /\ seen \in [Marks -> 0 .. Never] /\ sinceBump \in [Marks -> 0 .. Hour]
         /\ \A m \in Marks : sinceBump[m] = Hour \/ seen[m] <= sinceBump[m]
         /\ \A m \in Marks : seen[m] \in Nat /\ sinceBump[m] \in Nat /\ seen[m] <= Never
                             /\ sinceBump[m] <= Hour
<1>1. WorkloadTypeOK /\ RightsizerTypeOK /\ OncePart
  BY DEF SizingInv, SizingTypeOK
<1>2. /\ seen \in [Marks -> 0 .. Never] /\ sinceBump \in [Marks -> 0 .. Hour]
      /\ \A m \in Marks : sinceBump[m] = Hour \/ seen[m] <= sinceBump[m]
  BY Zenon, <1>1 DEF RightsizerTypeOK, OncePart
<1>3. \A m \in Marks : seen[m] \in 0 .. Never /\ sinceBump[m] \in 0 .. Hour
  BY <1>2
<1>4. \A m \in Marks : seen[m] \in Nat /\ sinceBump[m] \in Nat /\ seen[m] <= Never
                             /\ sinceBump[m] <= Hour
  BY <1>3, MarksOfAge
<1> QED
  BY Zenon, <1>1, <1>2, <1>4

\* What the tracker's steps leave of the rightsizer.
LEMMA AgesChange ==
  ASSUME SizingInv, UNCHANGED <<annotated, originals, first>>, bumps' \subseteq Bump,
         seen' \in [Marks -> 0 .. Never], sinceBump' \in [Marks -> 0 .. Hour],
         \A m \in Marks : sinceBump'[m] = Hour \/ seen'[m] <= sinceBump'[m]
  PROVE  RightsizerTypeOK' /\ OncePart'
<1>1. RightsizerTypeOK /\ OncePart
  BY Zenon, AgesFacts
<1>2. RightsizerTypeOK'
  BY Zenon, <1>1 DEF RightsizerTypeOK
<1> QED
  BY Zenon, <1>1, <1>2 DEF OncePart

\* An analysis starts the hour of those it recommends.
LEMMA OomAnalyzes ==
  ASSUME SizingInv, OomAnalyze, UNCHANGED <<sizings, did>>
  PROVE  SizingInv'
<1> DEFINE due == {m \in Marks : Due(m)}
<1>1. /\ seen' = [m \in Marks |-> IF m \in due THEN 0 ELSE seen[m]]
      /\ bumps' = {b \in {Bumped(m) : m \in due} : b.suggested > b.current}
      /\ sinceBump' = [m \in Marks |-> IF m \in due THEN 0 ELSE sinceBump[m]]
      /\ UNCHANGED <<workloadVars, annotated, originals, first>>
  BY Zenon DEF OomAnalyze
<1>2. \A m \in due : Bumped(m) \in Bump
  BY Zenon, BumpedTyped, AgesFacts
<1> HIDE DEF due
<1>3. bumps' \subseteq Bump
  BY Zenon, <1>1, <1>2
<1>4. \A m \in Marks : /\ seen'[m] = IF m \in due THEN 0 ELSE seen[m]
                       /\ sinceBump'[m] = IF m \in due THEN 0 ELSE sinceBump[m]
  BY Zenon, <1>1
<1>5. \A m \in Marks : /\ seen'[m] \in 0 .. Never /\ sinceBump'[m] \in 0 .. Hour
                       /\ sinceBump'[m] = Hour \/ seen'[m] <= sinceBump'[m]
  BY <1>4, AgesFacts, MarksOfAge
<1>6. seen' \in [Marks -> 0 .. Never] /\ sinceBump' \in [Marks -> 0 .. Hour]
  BY Zenon, <1>1, <1>4, <1>5
<1>7. RightsizerTypeOK' /\ OncePart'
  BY Zenon, <1>1, <1>3, <1>5, <1>6, AgesChange
<1> QED
  BY Zenon, <1>1, <1>7, WorkloadStays

\* The cleanup removes only what is older than the hour, and time passes alike
\* for the tracker and the history.
LEMMA OomAges ==
  ASSUME SizingInv, OomCleanup \/ OomTick, UNCHANGED <<sizings, did>>
  PROVE  SizingInv'
<1>1. UNCHANGED <<workloadVars, annotated, originals, bumps, first>>
  BY Zenon DEF OomCleanup, OomTick
<1>2. bumps' \subseteq Bump
  BY Zenon, <1>1, AgesFacts DEF RightsizerTypeOK
<1>3. /\ seen' \in [Marks -> 0 .. Never] /\ sinceBump' \in [Marks -> 0 .. Hour]
      /\ \A m \in Marks : sinceBump'[m] = Hour \/ seen'[m] <= sinceBump'[m]
  <2>1. CASE OomCleanup
    <3>1. seen' = [m \in Marks |-> IF seen[m] >= 2 * Hour THEN Never ELSE seen[m]]
          /\ sinceBump' = sinceBump
      BY Zenon, <2>1 DEF OomCleanup
    <3>2. \A m \in Marks : seen'[m] = IF seen[m] >= 2 * Hour THEN Never ELSE seen[m]
      BY Zenon, <3>1
    <3>3. \A m \in Marks : /\ seen'[m] \in 0 .. Never
                           /\ sinceBump[m] = Hour \/ seen'[m] <= sinceBump[m]
      BY <3>2, AgesFacts, MarksOfAge
    <3> QED
      BY Zenon, <3>1, <3>2, <3>3, AgesFacts
  <2>2. CASE OomTick
    <3>1. /\ seen' = [m \in Marks |-> IF seen[m] < 2 * Hour THEN seen[m] + 1 ELSE seen[m]]
          /\ sinceBump' = [m \in Marks |-> IF sinceBump[m] < Hour THEN sinceBump[m] + 1 ELSE Hour]
      BY Zenon, <2>2 DEF OomTick
    <3>2. \A m \in Marks :
            /\ seen'[m] = IF seen[m] < 2 * Hour THEN seen[m] + 1 ELSE seen[m]
            /\ sinceBump'[m] = IF sinceBump[m] < Hour THEN sinceBump[m] + 1 ELSE Hour
      BY Zenon, <3>1
    <3>3. \A m \in Marks : /\ seen'[m] \in 0 .. Never /\ sinceBump'[m] \in 0 .. Hour
                           /\ sinceBump'[m] = Hour \/ seen'[m] <= sinceBump'[m]
      BY <3>2, AgesFacts, MarksOfAge
    <3> QED
      BY Zenon, <3>1, <3>2, <3>3
  <2> QED
    BY Zenon, <2>1, <2>2
<1>4. RightsizerTypeOK' /\ OncePart'
  BY Zenon, <1>1, <1>2, <1>3, AgesChange
<1> QED
  BY Zenon, <1>1, <1>4, WorkloadStays

\* The first annotation.
LEMMA Annotates ==
  ASSUME SizingInv, Annotate, UNCHANGED <<sizings, did>>
  PROVE  SizingInv'
<1>1. annotated' = TRUE /\ UNCHANGED <<workloadVars, originals, seen, bumps, first, sinceBump>>
  BY Zenon DEF Annotate
<1>2. RightsizerTypeOK /\ OncePart
  BY Zenon, AgesFacts
<1>3. annotated' \in BOOLEAN /\ annotated'
  BY Zenon, <1>1
<1>4. RightsizerTypeOK'
  BY Zenon, <1>1, <1>2, <1>3 DEF RightsizerTypeOK
<1>5. OncePart'
  BY Zenon, <1>1, <1>2 DEF OncePart
<1> QED
  BY Zenon, <1>1, <1>4, <1>5, WorkloadStays

\* The pods of a Deployment are new to the tracker.
LEMMA ReplacesPods ==
  ASSUME SizingInv, ReplacePods, UNCHANGED <<sizings, did>>
  PROVE  SizingInv'
<1>0. WorkloadTypeOK /\ RightsizerTypeOK /\ OncePart /\ ScalerPart /\ sizings \subseteq Scaling
      /\ did \subseteq {"vertical", "horizontal", "owner"}
  BY DEF SizingInv, SizingTypeOK
<1>1. podSpec' = template /\ podCpu' = cpuTemplate /\ oomKilled' = {}
      /\ UNCHANGED <<kind, limit, template, cpuTemplate, hpaMax, pressure, bounds>>
      /\ UNCHANGED <<annotated, originals, bumps, first>>
  BY Zenon DEF ReplacePods, Rollout
<1>2. WorkloadTypeOK'
  BY Zenon, <1>0, <1>1 DEF WorkloadTypeOK
<1>3. sizings' = sizings /\ did' = did
  BY Zenon
<1>4. ScalerPart'
  BY Zenon, <1>0, <1>1, <1>3, ScalerStays
<1>5. bumps' \subseteq Bump
  BY Zenon, <1>0, <1>1 DEF RightsizerTypeOK
<1>6. /\ seen' \in [Marks -> 0 .. Never] /\ sinceBump' \in [Marks -> 0 .. Hour]
      /\ \A m \in Marks : sinceBump'[m] = Hour \/ seen'[m] <= sinceBump'[m]
  <2>1. CASE kind = "Deployment"
    <3>1. seen' = [m \in Marks |-> Never] /\ sinceBump' = [m \in Marks |-> Hour]
      BY Zenon, <2>1 DEF ReplacePods
    <3>2. Never \in 0 .. Never /\ Hour \in 0 .. Hour
      BY MarksOfAge
    <3> QED
      BY Zenon, <3>1, <3>2
  <2>2. CASE kind # "Deployment"
    <3>1. seen' = seen /\ sinceBump' = sinceBump
      BY Zenon, <2>2 DEF ReplacePods
    <3> QED
      BY Zenon, <3>1, AgesFacts
  <2> QED
    BY Zenon, <2>1, <2>2
<1>7. RightsizerTypeOK' /\ OncePart'
  BY Zenon, <1>1, <1>5, <1>6, AgesChange
<1> QED
  BY Zenon, <1>0, <1>2, <1>3, <1>4, <1>7 DEF SizingInv, SizingTypeOK

\* The fields of a note.
LEMMA FirstIs ==
  ASSUME NEW v, NEW a
  PROVE  [value |-> v, annotated |-> a].value = v
         /\ [value |-> v, annotated |-> a].annotated = a
BY Zenon

\* The first patch is noted, and the later ones leave the annotation as it is.
LEMMA Records ==
  ASSUME RightsizerTypeOK, OncePart, NEW found \in Memory, originals' = Recorded(found),
         first' = IF first.value = Absent THEN [value |-> found, annotated |-> annotated]
                  ELSE first,
         UNCHANGED <<annotated, seen, sinceBump>>, bumps' \subseteq bumps
  PROVE  RightsizerTypeOK' /\ OncePart'
<1>1. found # Absent
  BY MemoryAssumption DEF Memory, Absent
<1>2. originals' \in Memory \union {Absent} /\ (originals' # Absent => annotated)
  BY Zenon, <1>1 DEF RightsizerTypeOK, Recorded
<1>3. first' \in [value : Memory \union {Absent}, annotated : BOOLEAN]
  BY Zenon DEF RightsizerTypeOK
<1>4. RightsizerTypeOK'
  BY Zenon, <1>2, <1>3 DEF RightsizerTypeOK
<1>5. CASE first.value = Absent
  <2>1. originals = Absent
    BY Zenon, <1>5 DEF OncePart
  <2>2. first'.value = found /\ first'.annotated = annotated
    BY Zenon, <1>5, FirstIs
  <2>3. annotated => originals' = found
    BY Zenon, <2>1 DEF Recorded
  <2> QED
    BY Zenon, <1>1, <2>2, <2>3, <1>4 DEF OncePart
<1>6. CASE first.value # Absent
  <2>1. first' = first
    BY Zenon, <1>6
  <2>2. first.annotated => originals = first.value /\ originals # Absent
    BY Zenon, <1>6 DEF OncePart
  <2>3. first.annotated => originals' = first.value
    BY Zenon, <2>2 DEF Recorded
  <2> QED
    BY Zenon, <1>6, <2>1, <2>3, <1>4 DEF OncePart
<1> QED
  BY <1>5, <1>6

\* An applied bump stays within bounds.
LEMMA AppliesBump ==
  ASSUME SizingInv, NEW b \in bumps, ApplyBump(b), UNCHANGED <<sizings, did>>
  PROVE  SizingInv'
<1>0. WorkloadTypeOK /\ RightsizerTypeOK /\ OncePart /\ ScalerPart /\ sizings \subseteq Scaling
      /\ did \subseteq {"vertical", "horizontal", "owner"}
  BY DEF SizingInv, SizingTypeOK
<1>1. /\ bumps' = bumps \ {b} /\ PrimaryTarget(b.suggested) \in 1 .. MaxMem
      /\ template' = Patched(b) /\ originals' = Recorded(template[Primary])
      /\ first' = IF first.value = Absent
                  THEN [value |-> template[Primary], annotated |-> annotated] ELSE first
      /\ UNCHANGED <<kind, limit, podSpec, cpuTemplate, podCpu, oomKilled, hpaMax, pressure>>
      /\ UNCHANGED <<bounds, annotated, seen, sinceBump>>
  BY Zenon DEF ApplyBump
<1>2. PrimaryTarget(b.suggested) \in Memory
  BY <1>1, MemoryAssumption DEF Memory
<1>3. template' \in [Containers -> Memory]
  BY <1>0, <1>1, <1>2 DEF WorkloadTypeOK, Patched
<1>4. WorkloadTypeOK'
  BY Zenon, <1>0, <1>1, <1>3 DEF WorkloadTypeOK
<1>5. Primary \in Containers
  BY ContainersAssumption DEF Primary, Containers
<1>6. template[Primary] \in Memory
  BY <1>0, <1>5 DEF WorkloadTypeOK
<1>7. bumps' \subseteq bumps
  BY Zenon, <1>1
<1>8. RightsizerTypeOK' /\ OncePart'
  BY Zenon, <1>0, <1>1, <1>6, <1>7, Records
<1>9. sizings' = sizings /\ did' = did
  BY Zenon
<1>10. ScalerPart'
  BY Zenon, <1>0, <1>1, <1>9, ScalerStays
<1> QED
  BY Zenon, <1>0, <1>4, <1>8, <1>9, <1>10 DEF SizingInv, SizingTypeOK

\* A bump that is dropped changes nothing.
LEMMA DropsBump ==
  ASSUME SizingInv, NEW b \in bumps, DropBump(b), UNCHANGED <<sizings, did>>
  PROVE  SizingInv'
<1>0. WorkloadTypeOK /\ RightsizerTypeOK /\ OncePart /\ ScalerPart /\ sizings \subseteq Scaling
      /\ did \subseteq {"vertical", "horizontal", "owner"}
  BY DEF SizingInv, SizingTypeOK
<1>1. /\ bumps' = bumps \ {b}
      /\ UNCHANGED <<kind, limit, template, podSpec, cpuTemplate, podCpu, oomKilled, hpaMax>>
      /\ UNCHANGED <<pressure, annotated, originals, seen, first, sinceBump>>
  BY Zenon DEF DropBump
<1>2. ASSUME UNCHANGED bounds
      PROVE  bounds' \in [kills : 0 .. MaxKills, mishaps : 0 .. MaxMishaps]
  BY Zenon, <1>0, <1>2 DEF WorkloadTypeOK
<1>3. ASSUME bounds.mishaps < MaxMishaps, Spend("mishaps")
      PROVE  bounds' \in [kills : 0 .. MaxKills, mishaps : 0 .. MaxMishaps]
  BY <1>0, <1>3, SpendTyped
<1>4. bounds' \in [kills : 0 .. MaxKills, mishaps : 0 .. MaxMishaps]
  BY Zenon, <1>2, <1>3 DEF DropBump
<1>5. WorkloadTypeOK'
  BY Zenon, <1>0, <1>1, <1>4 DEF WorkloadTypeOK
<1>6. bumps' \subseteq Bump
  BY Zenon, <1>0, <1>1 DEF RightsizerTypeOK
<1>7. RightsizerTypeOK'
  BY Zenon, <1>0, <1>1, <1>6 DEF RightsizerTypeOK
<1>8. OncePart'
  BY Zenon, <1>0, <1>1 DEF OncePart
<1>9. sizings' = sizings /\ did' = did
  BY Zenon
<1>10. ScalerPart'
  BY Zenon, <1>0, <1>1, <1>9, ScalerStays
<1> QED
  BY Zenon, <1>0, <1>5, <1>7, <1>8, <1>9, <1>10 DEF SizingInv, SizingTypeOK

\* The invariant holds at the start.
LEMMA SizingStarts ==
  ASSUME SizingInit
  PROVE  SizingInv
<1>0. WorkloadInit /\ RightsizerInit /\ sizings = {} /\ did = {}
  BY DEF SizingInit
<1>1. PICK t \in Templates : template = t.mem /\ cpuTemplate = t.cpu
  BY Zenon, <1>0 DEF WorkloadInit
<1>2. template \in [Containers -> Memory] /\ cpuTemplate \in [Containers -> Cpu]
      /\ podSpec = template /\ podCpu = cpuTemplate /\ limit \in Memory
  <2>1. podSpec = template /\ podCpu = cpuTemplate
    BY Zenon, <1>0 DEF WorkloadInit
  <2>2. limit \in Memory
    BY <1>0, MemoryAssumption DEF WorkloadInit, NoLimit, Memory
  <2> QED
    BY Zenon, <1>1, <2>1, <2>2, TemplateIs
<1>3. bounds \in [kills : 0 .. MaxKills, mishaps : 0 .. MaxMishaps]
  BY <1>0, BoundAssumption DEF WorkloadInit
<1>4. hpaMax \in 1 .. MostCopies
  BY <1>0, CopiesAssumption DEF WorkloadInit
<1>5. WorkloadTypeOK
  BY Zenon, <1>0, <1>2, <1>3, <1>4 DEF WorkloadInit, WorkloadTypeOK
<1>6. seen \in [Marks -> 0 .. Never] /\ sinceBump \in [Marks -> 0 .. Hour]
  <2>1. Never \in 0 .. Never /\ Hour \in 0 .. Hour
    BY MarksOfAge
  <2> QED
    BY Zenon, <2>1, <1>0 DEF RightsizerInit
<1>7. \A m \in Marks : sinceBump[m] = Hour
  BY Zenon, <1>0 DEF RightsizerInit
<1>8. /\ originals = Absent /\ bumps = {} /\ annotated \in BOOLEAN
      /\ first = [value |-> Absent, annotated |-> FALSE]
  BY Zenon, <1>0 DEF RightsizerInit
<1>9. FALSE \in BOOLEAN
  BY Zenon
<1>10. RightsizerTypeOK
  BY Zenon, <1>6, <1>8, <1>9 DEF RightsizerTypeOK
<1>11. first.annotated = FALSE
  BY Zenon, <1>8
<1>12. OncePart
  BY Zenon, <1>7, <1>8, <1>11 DEF OncePart
<1>13. ScalerPart
  BY Zenon, <1>0 DEF ScalerPart, NotBothWays
<1> QED
  BY Zenon, <1>0, <1>5, <1>10, <1>12, <1>13 DEF SizingInv, SizingTypeOK

\* Every step keeps the invariant.
LEMMA SizingKept ==
  ASSUME SizingInv, [SizingNext]_sizingVars
  PROVE  SizingInv'
<1>1. CASE SizingSurroundings
  BY Zenon, <1>1, SurroundingsKeep
<1>2. CASE Rightsizing /\ UNCHANGED <<sizings, did>>
  BY Zenon, <1>2, OomAnalyzes, OomAges, Annotates, ReplacesPods, AppliesBump, DropsBump
     DEF Rightsizing
<1>3. CASE ScalerAnalyze
  BY Zenon, <1>3, ScalerAnalyzes
<1>4. CASE ScalerExecute
  BY Zenon, <1>4, Scales DEF ScalerExecute
<1>5. CASE UNCHANGED sizingVars
  <2>1. RightsizerTypeOK' /\ OncePart'
    BY Zenon, <1>5 DEF SizingInv, SizingTypeOK, OncePart, RightsizerTypeOK, sizingVars,
       rightsizerVars
  <2>2. UNCHANGED workloadVars /\ UNCHANGED <<sizings, did>>
    BY Zenon, <1>5 DEF sizingVars
  <2> QED
    BY Zenon, <2>1, <2>2, WorkloadStays
<1> QED
  BY Zenon, <1>1, <1>2, <1>3, <1>4, <1>5 DEF SizingNext

\* The invariant of the sizing of a workload holds throughout.
THEOREM SizingHolds == SizingPart => []SizingInv
<1>1. SizingInit => SizingInv
  BY SizingStarts
<1>2. SizingInv /\ [SizingNext]_sizingVars => SizingInv'
  BY SizingKept
<1> QED
  BY <1>1, <1>2, PTL DEF SizingPart

\* The first part of BumpsOnce is part of the invariant.
LEMMA OriginalKept ==
  ASSUME SizingInv
  PROVE  OriginalIsFirst
BY Zenon DEF SizingInv, OncePart, OriginalIsFirst

\* A container is recommended again after an hour at the earliest.
LEMMA HourBetween ==
  ASSUME SizingInv, [SizingNext]_sizingVars
  PROVE  [\A b \in bumps' \ bumps : sinceBump[b.target] = Hour]_sizingVars
<1> SUFFICES ASSUME NEW b \in bumps' \ bumps
             PROVE  sinceBump[b.target] = Hour
  BY Zenon
<1>1. CASE OomAnalyze
  <2>1. PICK m \in Marks : Due(m) /\ b = Bumped(m)
    BY Zenon, <1>1 DEF OomAnalyze
  <2>2. b.target = m
    BY Zenon, <2>1 DEF Bumped
  <2>3. seen[m] >= Hour
    BY Zenon, <2>1 DEF Due
  <2>4. /\ sinceBump[m] = Hour \/ seen[m] <= sinceBump[m]
        /\ seen[m] \in Nat /\ sinceBump[m] \in Nat /\ sinceBump[m] <= Hour
    BY Zenon, AgesFacts
  <2>5. sinceBump[m] = Hour
    BY <2>3, <2>4, HourAssumption
  <2> QED
    BY Zenon, <2>2, <2>5
<1>2. CASE ~ OomAnalyze
  <2>1. bumps' \subseteq bumps
    BY Zenon, <1>2 DEF SizingNext, SizingSurroundings, Rightsizing, OomCleanup,
           OomTick, Annotate,
       ReplacePods, ApplyBump, DropBump, ScalerAnalyze, ScalerExecute, sizingVars,
       rightsizerVars
  <2> QED
    BY Zenon, <2>1
<1> QED
  BY <1>1, <1>2

\* A step that lowers the maximum is the owner's, or comes after one.
LEMMA MaxStays ==
  ASSUME SizingInv, [SizingNext]_sizingVars
  PROVE  [hpaMax' < hpaMax => "owner" \in did']_sizingVars
<1> SUFFICES ASSUME hpaMax' < hpaMax
             PROVE  "owner" \in did'
  BY Zenon
<1>1. hpaMax' # hpaMax /\ ~ (hpaMax <= hpaMax')
  <2>1. hpaMax \in 1 .. MostCopies /\ hpaMax' \in 1 .. MostCopies
    BY Zenon, SizingKept DEF SizingInv, SizingTypeOK, WorkloadTypeOK
  <2> QED
    BY <2>1, CopiesAssumption
<1>2. CASE OwnerChange /\ did' = did \union {"owner"}
  BY Zenon, <1>2
<1>3. CASE \E r \in sizings : ExecuteHorizontal(r)
  <2>1. PICK r \in sizings : ExecuteHorizontal(r)
    BY Zenon, <1>3
  <2>2. OfMax(r) /\ hpaMax' = r.value /\ did' = did \union {"horizontal"}
    BY Zenon, <2>1 DEF ExecuteHorizontal, OfMax
  <2>3. "owner" \in did
    BY Zenon, <1>1, <2>2 DEF SizingInv, ScalerPart
  <2> QED
    BY Zenon, <2>2, <2>3
<1>4. CASE ~ (OwnerChange /\ did' = did \union {"owner"})
           /\ ~ \E r \in sizings : ExecuteHorizontal(r)
  <2>1. hpaMax' = hpaMax
    BY Zenon, <1>4 DEF SizingNext, SizingSurroundings, Rightsizing, OomAnalyze,
           OomCleanup, OomTick,
       Annotate, ReplacePods, Rollout, ApplyBump, DropBump, ScalerAnalyze, ScalerExecute,
       ExecuteVertical, PassOver, CallFails, OomKill, sizingVars, workloadVars
  <2> QED
    BY Zenon, <1>1, <2>1
<1> QED
  BY <1>2, <1>3, <1>4

\* The rightsizer (internal/controller/rightsizer) does nothing twice: a kill
\* raises a container's memory once in an hour, and the request that a workload
\* had at first is noted once, whatever comes in between.
THEOREM SizingOnce == DecisionsSpec => BumpsOnce
<1>1. SizingInv => OriginalIsFirst
  BY OriginalKept
<1>2. SizingInv /\ [SizingNext]_sizingVars
        => [\A b \in bumps' \ bumps : sinceBump[b.target] = Hour]_sizingVars
  BY HourBetween
<1> QED
  BY <1>1, <1>2, SizingHolds, EachPart, PTL DEF BumpsOnce, OncePerHour, SizingPart

\* The vertical and the horizontal scaler and the owner of the autoscaler
\* (internal/controller/workloadscaler) do not undo one another: between two
\* analyses a workload is not changed both ways, and the scaler never lowers a
\* maximum but the owner's.
THEOREM SizersAgree == DecisionsSpec => ScalersAgree
<1>1. SizingInv => NotBothWays
  BY Zenon DEF SizingInv, ScalerPart
<1>2. SizingInv /\ [SizingNext]_sizingVars
        => [hpaMax' < hpaMax => "owner" \in did']_sizingVars
  BY MaxStays
<1> QED
  BY <1>1, <1>2, SizingHolds, EachPart, PTL
     DEF ScalersAgree, MaxOnlyRaised, SizingPart

-----------------------------------------------------------------------------
(* The whole.                                                                *)

\* The parts whose types the run checks keep them.
THEOREM DecisionsTyped == DecisionsSpec => []DecisionsTypeOK
<1>1. SizingInv => SizingTypeOK
  BY Zenon DEF SizingInv
<1>2. SizingPart => []SizingTypeOK
  BY <1>1, SizingHolds, PTL
<1>3. AdvicePart => []OverscaledTypeOK
  BY AdviceStarts, AdviceTyped, PTL DEF AdvicePart
<1>4. SizingTypeOK /\ PlacementTypeOK /\ OverscaledTypeOK /\ MinTypeOK /\ TypeOK
        => DecisionsTypeOK
  BY Zenon DEF DecisionsTypeOK
<1> QED
  BY <1>2, <1>3, <1>4, EachPart, PlacementsAreSound, MinTypeCorrect, MigrationTyped, PTL

\* Minimums (internal/controller/nodegroupmgr) are lowered by halves and on
\* evidence, beside all the other parts.
THEOREM MinimumsLowered == DecisionsSpec => []OnlyHalves /\ MinimumsEarned
  BY EachPart, Halving, Earned, PTL

\* A migration (internal/controller/gpu) takes a Deployment below what its
\* owner asks for only if a poll believed an outdated status, and leaves no
\* replica too many without a cause.
THEOREM MigrationKeepsUp == DecisionsSpec => [](DowntimeOnlyIfMisled /\ SurgesAccounted)
  BY EachPart, NoDowntime, SurgesAreAccountedFor, PTL

=============================================================================
