----------------------------- MODULE CloudPools -----------------------------
(***************************************************************************)
(* A node pool in the cloud and the calls that change it: ScaleNodeGroup,  *)
(* SetNodeGroupMinCount and SetNodeGroupMaxCount of the three providers    *)
(* (internal/cloud/gcp/nodepool.go, azure/vmss.go, aws/asg.go).  GKE and   *)
(* AKS take all the settings of a pool at once, so a setter reads the pool *)
(* and writes it back; an ASG takes one setting.  Others change the pool   *)
(* meanwhile, and a request to Azure may be sent again although the first  *)
(* one was carried out.                                                    *)
(* A GKE pool may lie in several zones and have bounds for each zone or    *)
(* for all of them together.  It is read in either unit, as numbers, but   *)
(* written in bounds and sizes for each zone.                              *)
(* Tokens, pages and waits between retries are left out, and so are the    *)
(* names, taints, labels and disks that a reading also returns.            *)
(***************************************************************************)
EXTENDS Integers

CONSTANTS
  MostNodes,     \* bound on the bounds and the sizes asked for
  Uncapped,      \* the maximum a GKE pool without autoscaling is given: 1000
  MaxZones,      \* the most zones of a GKE pool
  MaxOthers,     \* bound on the changes made by others
  MaxSends       \* how often doARMRequest sends a request

ASSUME CloudPoolsAssumption ==
  /\ MostNodes \in Nat \ {0} /\ MaxZones \in Nat \ {0} /\ Uncapped \in Nat /\ Uncapped > MostNodes
  /\ MaxOthers \in Nat /\ MaxSends \in Nat \ {0}

VARIABLES
  pool,       \* the pool, as the cloud has it
  call,       \* the call under way, with what it read
  touched,    \* history: the fields others have changed since it read
  outside     \* the changes of others so far

poolVars == <<pool, call, touched, outside>>

Clouds == {"gcp", "azure", "aws"}
Setters == {"min", "max"}
Idle == [kind |-> "none"]

\* The size is that of the whole pool, the bounds are in the pool's unit.
PoolRecord == [vendor : Clouds, auto : BOOLEAN, min : 0 .. MostNodes, max : 0 .. Uncapped,
               count : 0 .. MostNodes * MaxZones, zones : 1 .. MaxZones,
               unit : {"zone", "total"}]
SeenBounds == [min : 0 .. MostNodes, max : 0 .. Uncapped]
SeenPool == [min : 0 .. MostNodes, max : 0 .. Uncapped, count : 0 .. MostNodes * MaxZones]
Call(kinds, read) ==
  [kind : kinds, value : 0 .. MostNodes, seen : read, sends : 0 .. MaxSends - 1]

CloudPoolsTypeOK ==
  /\ pool \in PoolRecord /\ pool.min <= pool.max
  /\ call \in {Idle} \union Call({"scale"}, SeenBounds) \union Call(Setters, SeenPool)
  /\ touched \subseteq {"auto", "min", "max", "count", "unit"}
  /\ outside \in 0 .. MaxOthers

\* A pool without autoscaling has no bounds; an ASG always has some.  Only GKE
\* knows of zones.
Sound(p) ==
  /\ p.min <= p.max
  /\ p.auto => p.max > 0
  /\ ~ p.auto => p.vendor # "aws" /\ p.min = 0 /\ p.max = 0
  /\ p.vendor # "gcp" => p.zones = 1 /\ p.unit = "zone"

CloudPoolsInit ==
  /\ pool \in {p \in [vendor : Clouds, auto : BOOLEAN, min : 0 .. MostNodes,
                      max : 0 .. MostNodes, count : 0 .. MostNodes,
                      zones : 1 .. MaxZones, unit : {"zone", "total"}] : Sound(p)}
  /\ call = Idle /\ touched = {} /\ outside = 0

-----------------------------------------------------------------------------
(* What a call reads.                                                      *)

\* mapNodePoolToNodeGroup: the totals, or the bounds for a zone where there are no
\* totals; a GKE pool without autoscaling has room for a thousand nodes.
\* vmssToNodeGroup: without the agent pool the bounds are the tags, where AKS keeps
\* none.
Bounds(p) ==
  CASE p.vendor = "gcp" /\ ~ p.auto -> {[min |-> 0, max |-> Uncapped]}
    [] p.vendor = "azure" -> {[min |-> p.min, max |-> p.max], [min |-> 0, max |-> 0]}
    [] OTHER -> {[min |-> p.min, max |-> p.max]}

\* The check of ScaleNodeGroup.
AllowedSize(v, b, n) ==
  IF v = "gcp" THEN (b.min > 0 => n >= b.min) /\ (b.max > 0 => n <= b.max)
  ELSE b.min <= n /\ n <= b.max

Begin(k, n, seen) ==
  /\ call' = [kind |-> k, value |-> n, seen |-> seen, sends |-> 0]
  /\ touched' = {}
  /\ UNCHANGED <<pool, outside>>

\* ScaleNodeGroup reads the bounds, and goes on if they allow the size.
AskScale(n) ==
  /\ call = Idle
  /\ \E b \in Bounds(pool) : AllowedSize(pool.vendor, b, n) /\ Begin("scale", n, b)

\* SetNodeGroupMinCount and SetNodeGroupMaxCount read the pool, or the agent pool.
AskBound(k, n) ==
  /\ call = Idle
  /\ \E b \in Bounds(pool) :
       /\ pool.vendor = "azure" => b.min = pool.min /\ b.max = pool.max
       /\ Begin(k, n, [min |-> b.min, max |-> b.max, count |-> pool.count])

-----------------------------------------------------------------------------
(* What it writes.                                                         *)

\* Mutant of Bounded: the other bound is not taken from the pool.
BoundedAfresh(c) ==
  IF c.kind = "min" THEN [min |-> c.value, max |-> MostNodes] ELSE [min |-> 0, max |-> c.value]

\* Both bounds, with the one that was given in place of the one that was read.
Bounded(c) == [min |-> IF c.kind = "min" THEN c.value ELSE c.seen.min,
               max |-> IF c.kind = "max" THEN c.value ELSE c.seen.max]

\* The pool once the cloud has carried out the call: scaleNodePool, for each
\* zone, setNodePoolAutoscaling, for each zone and in place of any totals,
\* updateAgentPool (which also sets the count that was read), and setASGMinCount
\* and setASGMaxCount, where the group follows its bounds.
Written(p, c) ==
  IF c.kind = "scale" THEN [p EXCEPT !.count = c.value * p.zones]
  ELSE LET b == Bounded(c)
       IN  CASE p.vendor = "gcp" -> [p EXCEPT !.auto = TRUE, !.min = b.min, !.max = b.max,
                                              !.unit = "zone"]
             [] p.vendor = "azure" -> [p EXCEPT !.auto = TRUE, !.min = b.min, !.max = b.max,
                                                !.count = c.seen.count]
             [] p.vendor = "aws" /\ c.kind = "min" ->
                  [p EXCEPT !.min = c.value, !.count = IF @ < c.value THEN c.value ELSE @]
             [] OTHER ->
                  [p EXCEPT !.max = c.value, !.count = IF @ > c.value THEN c.value ELSE @]

\* What the clouds accept.
Accepted(p) == p.min <= p.max /\ (p.auto => p.max > 0)

Carry == Accepted(Written(pool, call)) /\ pool' = Written(pool, call)

SendCall ==
  /\ call # Idle /\ Carry
  /\ call' = Idle /\ touched' = {}
  /\ UNCHANGED outside

\* The call fails, or is refused by the cloud.
CallFails ==
  /\ call # Idle
  /\ call' = Idle /\ touched' = {}
  /\ UNCHANGED <<pool, outside>>

\* doARMRequest: the answer is lost, and the same request is sent again.
SendCallAgain ==
  /\ call # Idle /\ pool.vendor = "azure" /\ call.sends < MaxSends - 1
  /\ Carry
  /\ call' = [call EXCEPT !.sends = @ + 1]
  /\ UNCHANGED <<touched, outside>>

-----------------------------------------------------------------------------
\* The owner sets the bounds or turns autoscaling off, an autoscaler the count.
Elsewhere(p) ==
  /\ outside < MaxOthers /\ outside' = outside + 1
  /\ p.vendor = pool.vendor /\ p.zones = pool.zones /\ Sound(p) /\ p # pool
  /\ pool' = p
  /\ touched' = touched \union {f \in {"auto", "min", "max", "count", "unit"} : p[f] # pool[f]}
  /\ UNCHANGED call

CloudPoolsNext ==
  \/ \E n \in 0 .. MostNodes : AskScale(n) \/ \E k \in Setters : AskBound(k, n)
  \/ SendCall \/ CallFails \/ SendCallAgain
  \/ \E a \in BOOLEAN, lo, hi, n \in 0 .. MostNodes, u \in {"zone", "total"} :
       Elsewhere([pool EXCEPT !.auto = a, !.min = lo, !.max = hi, !.count = n, !.unit = u])

CloudPoolsSpec == CloudPoolsInit /\ [][CloudPoolsNext]_poolVars

-----------------------------------------------------------------------------
Sets(k) == call # Idle /\ call.kind = k /\ (SendCall \/ SendCallAgain)

\* The least and the most nodes of the whole pool.
InAll(n, p) == IF p.unit = "zone" THEN n * p.zones ELSE n
Lowest(p) == InAll(p.min, p)
Highest(p) == InAll(p.max, p)

\* What is read of the bounds and what is written mean the same.
OneUnit(p) == p.unit = "zone" \/ p.zones = 1

\* The bounds of the pool are of use, and nobody has set any of these since they
\* were read.
StillBounded(fields) == pool.auto /\ OneUnit(pool) /\ touched \intersect fields = {}

\* Setting one bound of a pool leaves the other one as it is, for the pool as a
\* whole, unless somebody changed it after the call had read it; and it leaves
\* the count, except that an ASG follows its bounds.
OtherSettingsKept ==
  [][ /\ Sets("min") /\ StillBounded({"auto", "unit", "max"}) => Highest(pool') = Highest(pool)
      /\ Sets("max") /\ StillBounded({"auto", "unit", "min"}) => Lowest(pool') = Lowest(pool)
      /\ Sets("min") \/ Sets("max") =>
           pool.vendor = "aws" \/ "count" \in touched \/ pool'.count = pool.count ]_poolVars

\* The pool gets a size outside its bounds only if these were changed after the
\* check: a check that could not read them lets nothing pass but zero, which
\* Azure then takes whatever the minimum is.
SizeWithinBounds ==
  [][ Sets("scale") /\ StillBounded({"auto", "unit", "min", "max"}) =>
        \/ pool'.count \in Lowest(pool) .. Highest(pool)
        \/ pool.vendor = "azure" /\ pool'.count = 0 ]_poolVars

\* What another writer decided about a pool is respected, in each of the clouds
\* and whatever answer is lost: settings one was not asked to change, and bounds.
\* Of a GKE pool of several zones that is so only if its bounds are for each zone.
PoolsRespected == OtherSettingsKept /\ SizeWithinBounds

=============================================================================
