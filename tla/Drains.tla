------------------------------- MODULE Drains -------------------------------
(***************************************************************************)
(* Who empties a node, and the lock that keeps them apart.  The GPU        *)
(* reclaimer and the GPU redistributor take the node lock                  *)
(* (internal/state/nodelock.go), which expires while its holder is still   *)
(* at work; the spot controller (spot/interruption.go) drains a node that  *)
(* the cloud takes away without asking for it, and starts again in every   *)
(* cycle until nothing is left to evict.                                   *)
(* The API server refuses an eviction that a disruption budget forbids.    *)
(* What the first two do with a node is the subject of GpuNode and         *)
(* SurgeMigration.                                                         *)
(***************************************************************************)
EXTENDS Integers, FiniteSets

CONSTANTS
  DrainPods,     \* the pods on the node that may be evicted
  Expiry,        \* of a lock: ExpireStale is called with ten minutes
  MaxAge         \* bound on the age of a lock

ASSUME DrainsAssumption == Expiry \in Nat /\ MaxAge \in Nat /\ MaxAge > Expiry

VARIABLES
  lock,         \* who has it, and since when, or Free
  working,      \* the controllers that are at work on the node
  expired,      \* history: those whose lock has expired since they began
  doomedNode,   \* the cloud has announced that it takes the node
  cordoned,
  onNode,       \* pods on the node
  toDrain,      \* the pods the drain has listed and not yet come to; NoDrain
  allowance     \* evictions the budget of the pods still allows

drainsVars == <<lock, working, expired, doomedNode, cordoned, onNode, toDrain, allowance>>

Lockers == {"gpu-reclaimer", "gpu-redistributor"}
Free == [by |-> "nobody", age |-> 0]
NoDrain == {"none"}

DrainsTypeOK ==
  /\ lock \in [by : Lockers, age : 0 .. MaxAge] \union {Free}
  /\ working \subseteq Lockers /\ expired \subseteq working
  /\ doomedNode \in BOOLEAN /\ cordoned \in BOOLEAN
  /\ onNode \subseteq DrainPods /\ (toDrain = NoDrain \/ toDrain \subseteq DrainPods)
  /\ allowance \in 0 .. 1

DrainsInit ==
  /\ lock = Free /\ working = {} /\ expired = {}
  /\ doomedNode = FALSE /\ cordoned = FALSE
  /\ onNode = DrainPods /\ toDrain = NoDrain /\ allowance = 1

-----------------------------------------------------------------------------
(* The lock.                                                               *)

\* TryLock, by a controller that is not at work: it would get its own again.
TryLock(c) ==
  /\ c \notin working /\ lock.by \in {"nobody", c}
  /\ lock' = IF lock.by = c THEN lock ELSE [by |-> c, age |-> 0]
  /\ working' = working \union {c}
  /\ UNCHANGED <<expired, doomedNode, cordoned, onNode, toDrain, allowance>>

\* Mutant of Released: whoever unlocks, the lock is free.
ReleasedByAnyone(c) == Free

\* Only by the one who has it.
Released(c) == IF lock.by = c THEN Free ELSE lock

\* Unlock, when the work is done or given up.
Unlock(c) ==
  /\ c \in working
  /\ lock' = Released(c)
  /\ working' = working \ {c} /\ expired' = expired \ {c}
  /\ UNCHANGED <<doomedNode, cordoned, onNode, toDrain, allowance>>

\* ExpireStale, every hour.
ExpireStale ==
  /\ lock # Free /\ lock.age > Expiry
  /\ lock' = Free
  /\ expired' = expired \union ({lock.by} \intersect working)
  /\ UNCHANGED <<working, doomedNode, cordoned, onNode, toDrain, allowance>>

LockAges ==
  /\ lock # Free /\ lock.age < MaxAge
  /\ lock' = [lock EXCEPT !.age = @ + 1]
  /\ UNCHANGED <<working, expired, doomedNode, cordoned, onNode, toDrain, allowance>>

-----------------------------------------------------------------------------
(* The pods.                                                               *)

Evicted(p) == onNode' = onNode \ {p} /\ allowance' = allowance - 1

\* A controller that is at work evicts a pod.
LockerEvicts(c, p) ==
  /\ c \in working /\ p \in onNode /\ allowance > 0
  /\ Evicted(p)
  /\ UNCHANGED <<lock, working, expired, doomedNode, cordoned, toDrain>>

\* The pod that was evicted is ready elsewhere, or its budget was widened.
BudgetReturns ==
  /\ allowance = 0 /\ allowance' = 1
  /\ UNCHANGED <<lock, working, expired, doomedNode, cordoned, onNode, toDrain>>

\* The scheduler puts a pod on a node that is not cordoned.
PodLands(p) ==
  /\ ~ cordoned /\ p \notin onNode
  /\ onNode' = onNode \union {p}
  /\ UNCHANGED <<lock, working, expired, doomedNode, cordoned, toDrain, allowance>>

-----------------------------------------------------------------------------
(* The drain of a spot node.                                               *)

Announced ==
  /\ ~ doomedNode /\ doomedNode' = TRUE
  /\ UNCHANGED <<lock, working, expired, cordoned, onNode, toDrain, allowance>>

\* Mutant of StartDrain: a node that is cordoned has been dealt with.
StartDrainOnce ==
  /\ doomedNode /\ toDrain = NoDrain /\ ~ cordoned
  /\ cordoned' = TRUE
  /\ toDrain' = onNode
  /\ UNCHANGED <<lock, working, expired, doomedNode, onNode, allowance>>

\* A cycle: cordon the node and list its pods.
StartDrain ==
  /\ doomedNode /\ toDrain = NoDrain
  /\ cordoned' = TRUE
  /\ toDrain' = onNode
  /\ UNCHANGED <<lock, working, expired, doomedNode, onNode, allowance>>

\* The next pod is evicted, unless it is gone, or the server refuses: its budget
\* is used up, or something else fails.  It is not tried again in this cycle.
DrainNext(p) ==
  /\ p \in toDrain /\ toDrain' = toDrain \ {p}
  /\ \/ p \in onNode /\ allowance > 0 /\ Evicted(p)
     \/ UNCHANGED <<onNode, allowance>>
  /\ UNCHANGED <<lock, working, expired, doomedNode, cordoned>>

EndDrain ==
  /\ toDrain = {} /\ toDrain' = NoDrain
  /\ UNCHANGED <<lock, working, expired, doomedNode, cordoned, onNode, allowance>>

DrainsNext ==
  \/ \E c \in Lockers : TryLock(c) \/ Unlock(c) \/ \E p \in DrainPods : LockerEvicts(c, p)
  \/ ExpireStale \/ LockAges
  \/ BudgetReturns \/ \E p \in DrainPods : PodLands(p)
  \/ Announced \/ StartDrain \/ EndDrain
  \/ \E p \in toDrain : p # "none" /\ DrainNext(p)

\* The pod is evicted, which the server does not refuse for ever.
DrainEvicts(p) == DrainNext(p) /\ onNode' # onNode

-----------------------------------------------------------------------------
\* Of the controllers that take the lock one at a time works on the node, and
\* others only because their lock expired under them: that one of these is done
\* late does not open the lock of the next.
OneAtATime == \A c \in working : lock.by = c \/ c \in expired

\* A node that is being taken away is emptied in the end, although the lock may
\* be somebody else's and every cycle gives up on what is refused.
DoomedNodeEmpties == doomedNode ~> onNode = {}
=============================================================================
