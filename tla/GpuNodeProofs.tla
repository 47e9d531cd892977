---------------------------- MODULE GpuNodeProofs ----------------------------
(* Proofs about GpuNode: what holds of a GPU node for any taints, any       *)
(* periods, any switches and any number of declined actions and restarts.   *)
EXTENDS GpuNode, TLAPS

\* What can become of the node in a step; the rest of the state matters only
\* to when it does.
NodeStep ==
  \/ node' = node
  \/ node' = [node EXCEPT !.tainted = FALSE, !.fallback = TRUE]
  \/ node' = [Tainted(node) EXCEPT !.fallback = FALSE]
  \/ node' = [node EXCEPT !.scavenging = TRUE, !.tainted = FALSE, !.noExec = {},
                          !.saved = IF node.noExec # {} THEN node.noExec ELSE @]
  \/ node' = [Restored(Tainted(node)) EXCEPT !.scavenging = FALSE]
  \/ node' = [Restored(Tainted(node)) EXCEPT !.fallback = FALSE, !.scavenging = FALSE]

\* Every step is one of those of NodeStep, with the operator's debt unchanged,
\* or the operator's own.
LEMMA Steps ==
  ASSUME [Next]_vars
  PROVE  \/ NodeStep /\ UNCHANGED <<owed, added>>
         \/ OperatorTaints
<1>1. CASE Execute
  BY <1>1, Zenon DEF Execute, EnableFallback, DisableFallback, Scavenge, StopScavenging,
     Evacuate, Reclaim, NodeStep, bounds
<1>2. CASE Analyze \/ Decline \/ Refresh \/ DemandChanges \/ StraysCome \/ StraysLeave
             \/ Restart \/ UNCHANGED vars
  BY <1>2, Zenon DEF Analyze, Decline, Refresh, DemandChanges, StraysCome, StraysLeave,
     Restart, NodeStep, vars, bounds
<1> QED
  BY <1>1, <1>2, Zenon DEF Next

\* The node stays well formed.
LEMMA NodeType ==
  ASSUME node \in Node, NodeStep
  PROVE  node' \in Node
<1> USE DEF Node, Tainted, Restored
<1>1. CASE node' = node \/ node' = [node EXCEPT !.tainted = FALSE, !.fallback = TRUE]
  BY <1>1
<1>2. CASE node' = [Tainted(node) EXCEPT !.fallback = FALSE]
  BY <1>2
<1>3. CASE node' = [node EXCEPT !.scavenging = TRUE, !.tainted = FALSE, !.noExec = {},
                                !.saved = IF node.noExec # {} THEN node.noExec ELSE @]
  BY <1>3
<1>4. CASE node' = [Restored(Tainted(node)) EXCEPT !.scavenging = FALSE]
  BY <1>4
<1>5. CASE node' = [Restored(Tainted(node)) EXCEPT !.fallback = FALSE, !.scavenging = FALSE]
  BY <1>5
<1> QED
  BY Zenon, <1>1, <1>2, <1>3, <1>4, <1>5 DEF NodeStep

-----------------------------------------------------------------------------
\* Every variable keeps its type.
THEOREM TypeCorrect == Spec => []TypeOK
<1>1. Init => TypeOK
  <2> SUFFICES ASSUME Init PROVE TypeOK
    OBVIOUS
  <2>1. node \in Node /\ owed \subseteq NoExecTaints
    BY DEF Init, Node
  <2>2. view \in [node : Node, demand : Demands, strays : BOOLEAN]
    BY <2>1 DEF Init, Seen
  <2>3. idleSince \in Untracked .. IdleDuration /\ straySince \in Untracked .. GracePeriod
    BY PeriodsAssumption DEF Init, Untracked
  <2>4. /\ declined \in 0 .. MaxDeclined
        /\ restarts \in 0 .. MaxRestarts
        /\ added \in 0 .. MaxAdded
    BY BoundsAssumption DEF Init
  <2>5. demand \in Demands /\ strays \in BOOLEAN /\ agenda \subseteq Actions
    BY DEF Init
  <2> QED
    BY <2>1, <2>2, <2>3, <2>4, <2>5, Zenon DEF TypeOK
<1>2. TypeOK /\ [Next]_vars => TypeOK'
  <2> SUFFICES ASSUME TypeOK, [Next]_vars PROVE TypeOK'
    OBVIOUS
  <2> USE PeriodsAssumption, BoundsAssumption
  <2>seen. Seen \in [node : Node, demand : Demands, strays : BOOLEAN]
    BY DEF TypeOK, Seen
  <2>1. CASE Analyze
    <3>1. \A since \in Untracked .. IdleDuration, c \in BOOLEAN :
            Tracked(since, IdleDuration, c) \in Untracked .. IdleDuration
      BY DEF Tracked, Untracked
    <3>2. \A since \in Untracked .. GracePeriod, c \in BOOLEAN :
            Tracked(since, GracePeriod, c) \in Untracked .. GracePeriod
      BY DEF Tracked, Untracked
    <3>3. /\ GpuIdle \in BOOLEAN
          /\ (ReclaimEnabled /\ Stranded) \in BOOLEAN
      BY DEF GpuIdle, Stranded
    <3>4. idleSince' \in Untracked .. IdleDuration
      BY <2>1, <3>1, <3>3, Zenon DEF Analyze, TypeOK
    <3>5. straySince' \in Untracked .. GracePeriod
      BY <2>1, <3>2, <3>3, Zenon DEF Analyze, TypeOK
    <3>6. Recommended \subseteq Actions
      BY Zenon DEF Recommended
    <3> QED
      BY <2>1, <3>4, <3>5, <3>6 DEF Analyze, TypeOK, bounds
  <2>2. CASE Execute
    <3>1. node' \in Node
      <4>1. NodeStep
        BY <2>2, Zenon DEF Execute, EnableFallback, DisableFallback, Scavenge,
           StopScavenging, Evacuate, Reclaim, NodeStep
      <4>2. node \in Node
        BY DEF TypeOK
      <4> QED
        BY <4>1, <4>2, NodeType
    <3>2. agenda' \subseteq Actions /\ strays' \in BOOLEAN
      BY <2>2 DEF Execute, EnableFallback, DisableFallback, Scavenge, StopScavenging,
         Evacuate, Reclaim, Turn, TypeOK
    <3>3. straySince' \in Untracked .. GracePeriod
      <4>1. straySince' = straySince \/ straySince' = Untracked
        BY <2>2, Zenon DEF Execute, EnableFallback, DisableFallback, Scavenge,
           StopScavenging, Evacuate, Reclaim
      <4> QED
        BY <4>1 DEF TypeOK, Untracked
    <3>4. UNCHANGED <<demand, view, idleSince, owed, declined, restarts, added>>
      BY <2>2, Zenon DEF Execute, bounds
    <3> QED
      BY <3>1, <3>2, <3>3, <3>4, Zenon DEF TypeOK
  <2>3. CASE Decline
    <3>1. agenda' \subseteq Actions /\ strays' \in BOOLEAN
      BY <2>3 DEF Decline, Turn, TypeOK
    <3>2. declined' \in 0 .. MaxDeclined
      BY <2>3 DEF Decline, TypeOK
    <3> QED
      BY <2>3, <3>1, <3>2 DEF Decline, TypeOK
  <2>4. CASE Refresh
    BY <2>4, <2>seen DEF Refresh, TypeOK, bounds
  <2>5. CASE DemandChanges \/ StraysCome \/ StraysLeave
    BY <2>5 DEF DemandChanges, StraysCome, StraysLeave, TypeOK, bounds
  <2>6. CASE OperatorTaints
    <3>1. node' \in Node /\ owed' \subseteq NoExecTaints
      BY <2>6 DEF OperatorTaints, TypeOK, Node
    <3>2. added' \in 0 .. MaxAdded
      BY <2>6 DEF OperatorTaints, TypeOK
    <3> QED
      BY <2>6, <3>1, <3>2 DEF OperatorTaints, TypeOK
  <2>7. CASE Restart
    <3>1. restarts' \in 0 .. MaxRestarts
      BY <2>7 DEF Restart, TypeOK
    <3> QED
      BY <2>7, <2>seen, <3>1 DEF Restart, TypeOK, Untracked
  <2>8. CASE UNCHANGED vars
    BY <2>8 DEF vars, bounds, TypeOK
  <2> QED
    BY <2>1, <2>2, <2>3, <2>4, <2>5, <2>6, <2>7, <2>8, Zenon DEF Next
<1> QED
  BY <1>1, <1>2, PTL DEF Spec

\* A GPU node without its taint bears one of the two marks (fallback.go,
\* scavenger.go, reclaimer.go: each takes the taint away and marks, or gives it
\* back, in one update).
THEOREM AlwaysMarked == Spec => []NeverUnmarked
<1>1. Init => NeverUnmarked
  BY DEF Init, NeverUnmarked
<1>2. TypeOK /\ NeverUnmarked /\ [Next]_vars => NeverUnmarked'
  <2> SUFFICES ASSUME TypeOK, NeverUnmarked, [Next]_vars PROVE NeverUnmarked'
    OBVIOUS
  <2>1. CASE NodeStep
    BY <2>1 DEF NodeStep, NeverUnmarked, TypeOK, Node, Tainted, Restored
  <2>2. CASE OperatorTaints
    BY <2>2 DEF OperatorTaints, NeverUnmarked, TypeOK, Node
  <2> QED
    BY <2>1, <2>2, Steps
<1> QED
  BY <1>1, <1>2, TypeCorrect, PTL DEF Spec

\* Taints saved by the scavenger are on a node that bears its label
\* (scavenger.go:249-254, reclaimer.go:270-296).
THEOREM SavedFound == Spec => []SavedIsFound
<1>1. Init => SavedIsFound
  BY DEF Init, SavedIsFound
<1>2. TypeOK /\ SavedIsFound /\ [Next]_vars => SavedIsFound'
  <2> SUFFICES ASSUME TypeOK, SavedIsFound, [Next]_vars PROVE SavedIsFound'
    OBVIOUS
  <2>1. CASE NodeStep
    BY <2>1 DEF NodeStep, SavedIsFound, TypeOK, Node, Tainted, Restored
  <2>2. CASE OperatorTaints
    BY <2>2 DEF OperatorTaints, SavedIsFound, TypeOK, Node
  <2> QED
    BY <2>1, <2>2, Steps
<1> QED
  BY <1>1, <1>2, TypeCorrect, PTL DEF Spec

\* NoTaintLost is not inductive: enabling twice would overwrite the saved
\* taints, were any others on the node.  None are.
OnOneSide == added = 0 => node.noExec = {} \/ node.saved = {}

\* The operator's NoExecute taints are on the node or saved for it.
THEOREM TaintsKept == Spec => []NoTaintLost
<1> DEFINE IInv == OnOneSide /\ NoTaintLost
<1>1. Init => IInv
  BY DEF Init, OnOneSide, NoTaintLost
<1>2. TypeOK /\ IInv /\ [Next]_vars => IInv'
  <2> SUFFICES ASSUME TypeOK, IInv, [Next]_vars PROVE IInv'
    OBVIOUS
  <2>1. CASE NodeStep /\ UNCHANGED <<owed, added>>
    <3>1. OnOneSide'
      BY <2>1 DEF NodeStep, OnOneSide, TypeOK, Node, Tainted, Restored
    <3>2. NoTaintLost'
      BY <2>1 DEF NodeStep, OnOneSide, NoTaintLost, TypeOK, Node, Tainted, Restored
    <3> QED
      BY <3>1, <3>2
  <2>2. CASE OperatorTaints
    <3>1. added' # 0
      BY <2>2 DEF OperatorTaints, TypeOK
    <3> QED
      BY <3>1 DEF OnOneSide, NoTaintLost
  <2> QED
    BY <2>1, <2>2, Steps
<1> QED
  BY <1>1, <1>2, TypeCorrect, PTL DEF Spec

=============================================================================
