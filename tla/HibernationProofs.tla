-------------------------- MODULE HibernationProofs --------------------------
(***************************************************************************)
(* Proofs about Hibernation: type correctness, that the controller         *)
(* remembers the groups it scaled down, and that a hibernation nothing     *)
(* disturbs is undone by the next wake.                                    *)
(***************************************************************************)
EXTENDS Hibernation, TLAPS

USE DEF Sizes, Counts, Missing

-----------------------------------------------------------------------------
(* What the helpers return.                                                *)

LEMMA SavedType ==
  ASSUME NEW m \in SavedState, NEW g \in Groups, NEW r \in GroupRecord
  PROVE  Saved(m, g, r) \in SavedState
  BY DEF Saved, SavedState, GroupRecord

LEMMA RolledBackType ==
  ASSUME NEW m \in SavedState, NEW g \in Groups
  PROVE  RolledBack(m, g) \in SavedState
  BY DEF RolledBack, SavedState

LEMMA LoadedType ==
  ASSUME NEW m \in SavedState
  PROVE  Loaded(m) \in SavedState
  BY DEF Loaded, SavedState

LEMMA FreshType == Fresh \in SavedState
  BY DEF Fresh, NothingSaved, SavedState

\* A load keeps every count that is not zero.
LEMMA LoadKeeps ==
  ASSUME NEW m \in SavedState, NEW g \in Groups, m.desired[g] # 0
  PROVE  /\ Loaded(m).desired[g] = m.desired[g]
         /\ Loaded(m).min[g] = m.min[g]
         /\ Loaded(m).hibernated = m.hibernated
  BY DEF Loaded

\* A group's own call leaves the cloud a map of records.
LEMMA ScaleType ==
  ASSUME CloudTypeOK, NEW g \in Groups, NEW n \in Int, ScaleNodeGroup(g, n)
  PROVE  CloudTypeOK'
  BY MaxSizeAssumption DEF CloudTypeOK, ScaleNodeGroup, WithinBounds, GroupRecord

LEMMA SetMinType ==
  ASSUME CloudTypeOK, NEW g \in Groups, NEW n \in Sizes, SetNodeGroupMinCount(g, n)
  PROVE  CloudTypeOK'
  BY DEF CloudTypeOK, SetNodeGroupMinCount, GroupRecord

LEMMA FaultType ==
  ASSUME TypeOK, Fault \/ NoFault
  PROVE  faults' \in 0 .. MaxFaults
  BY BoundsAssumption DEF TypeOK, Fault, NoFault

-----------------------------------------------------------------------------
(* Type correctness, action by action.                                     *)

LEMMA InitTypeOK == Init => TypeOK
<1> SUFFICES ASSUME Init PROVE TypeOK
  OBVIOUS
<1>1. CloudTypeOK /\ listed \in [Groups -> GroupRecord] /\ before \in [Groups -> GroupRecord]
  BY DEF Init, CloudInit, CloudTypeOK
<1>2. memory \in SavedState /\ configMap \in SavedState /\ standby \in SavedState
  BY FreshType DEF Init
<1>3. /\ faults \in 0 .. MaxFaults
      /\ disturbances \in 0 .. MaxDisturbances
  BY BoundsAssumption DEF Init
<1> QED
  BY <1>1, <1>2, <1>3 DEF Init, TypeOK

LEMMA HibernateTypeOK == TypeOK /\ HibernateStep => TypeOK'
<1> SUFFICES ASSUME TypeOK, HibernateStep PROVE TypeOK'
  OBVIOUS
<1> USE DEF TypeOK, jobVars, history, bounds
<1>1. CASE HibernateStart
  BY <1>1 DEF HibernateStart, CloudTypeOK
<1>2. CASE HibernateNone
  BY <1>2 DEF HibernateNone, CloudTypeOK
<1>3. CASE HibernateEnd
  BY <1>3 DEF HibernateEnd, CloudTypeOK, SavedState
<1>4. ASSUME NEW g \in Groups, HibernateMin(g) PROVE TypeOK'
  <2>1. listed[g] \in GroupRecord /\ 1 \in Sizes
    BY MaxSizeAssumption
  <2>2. memory' \in SavedState
    BY <1>4, <2>1, SavedType, RolledBackType DEF HibernateMin
  <2>3. CloudTypeOK'
    BY <1>4, <2>1, SetMinType DEF HibernateMin, CloudTypeOK
  <2>4. faults' \in 0 .. MaxFaults
    BY <1>4, FaultType DEF HibernateMin
  <2>5. todo' \subseteq Groups /\ current' \subseteq Groups
    BY <1>4 DEF HibernateMin
  <2>6. UNCHANGED <<configMap, standby, active, job, listed, succeeded, before, lowered, lossy,
                    disturbances>>
    BY <1>4 DEF HibernateMin
  <2> QED
    BY <2>2, <2>3, <2>4, <2>5, <2>6 DEF CloudTypeOK
<1>5. ASSUME NEW g \in Groups, HibernateScale(g) PROVE TypeOK'
  <2>1. memory' \in SavedState
    BY <1>5, RolledBackType DEF HibernateScale
  <2>2. CloudTypeOK'
    BY <1>5, ScaleType DEF HibernateScale, CloudTypeOK
  <2>3. faults' \in 0 .. MaxFaults
    BY <1>5, FaultType DEF HibernateScale
  <2>4. lowered' \subseteq Groups /\ current' \subseteq Groups /\ succeeded' \in BOOLEAN
    BY <1>5 DEF HibernateScale
  <2>5. UNCHANGED <<configMap, standby, active, job, listed, todo, before, lossy,
                    disturbances>>
    BY <1>5 DEF HibernateScale
  <2> QED
    BY <2>1, <2>2, <2>3, <2>4, <2>5 DEF CloudTypeOK
<1> QED
  BY <1>1, <1>2, <1>3, <1>4, <1>5 DEF HibernateStep

LEMMA WakeTypeOK == TypeOK /\ WakeStep => TypeOK'
<1> SUFFICES ASSUME TypeOK, WakeStep PROVE TypeOK'
  OBVIOUS
<1> USE DEF TypeOK, jobVars, history, bounds
<1>1. CASE WakeStart
  BY <1>1 DEF WakeStart, CloudTypeOK
<1>2. CASE WakeEnd
  BY <1>2, FreshType DEF WakeEnd, CloudTypeOK
<1>3. ASSUME NEW g \in Groups, WakeMin(g) PROVE TypeOK'
  <2>1. listed[g].min \in Nat /\ memory.min[g] \in Counts
    BY MaxSizeAssumption DEF SavedState, GroupRecord
  <2>2. memory.min[g] > listed[g].min => memory.min[g] \in Sizes
    BY <2>1, MaxSizeAssumption
  <2>3. CloudTypeOK'
    BY <1>3, <2>2, SetMinType DEF WakeMin, CloudTypeOK
  <2>4. faults' \in 0 .. MaxFaults
    BY <1>3, FaultType DEF WakeMin
  <2> QED
    BY <1>3, <2>3, <2>4 DEF WakeMin
<1>4. ASSUME NEW g \in Groups, WakeScale(g) PROVE TypeOK'
  <2>1. memory.desired[g] \in Int
    BY MaxSizeAssumption DEF SavedState
  <2>2. CloudTypeOK'
    BY <1>4, <2>1, ScaleType DEF WakeScale, CloudTypeOK
  <2>3. faults' \in 0 .. MaxFaults
    BY <1>4, FaultType DEF WakeScale
  <2> QED
    BY <1>4, <2>2, <2>3 DEF WakeScale
<1> QED
  BY <1>1, <1>2, <1>3, <1>4 DEF WakeStep

LEMMA OtherTypeOK ==
  TypeOK /\ (SaveState \/ StandbySetsUp \/ Restart \/ SetMode \/ CloudEnforces \/ Outside)
    => TypeOK'
<1> SUFFICES ASSUME TypeOK,
                    SaveState \/ StandbySetsUp \/ Restart \/ SetMode \/ CloudEnforces \/ Outside
             PROVE  TypeOK'
  OBVIOUS
<1> USE DEF TypeOK, jobVars, history, bounds
<1>1. CASE SaveState
  BY <1>1, FaultType DEF SaveState, CloudTypeOK
<1>2. CASE StandbySetsUp
  <2>1. standby' \in SavedState /\ faults' \in 0 .. MaxFaults
    BY <1>2, LoadedType, FreshType, FaultType DEF StandbySetsUp, LoadInto
  <2> QED
    BY <1>2, <2>1 DEF StandbySetsUp, CloudTypeOK
<1>3. CASE Restart
  <2>1. memory' \in SavedState
    BY <1>3, LoadedType, FreshType DEF Restart, LoadInto
  <2>2. faults' \in 0 .. MaxFaults
    BY <1>3, FaultType DEF Restart, LoadInto
  <2>3. disturbances' \in 0 .. MaxDisturbances
    BY <1>3, BoundsAssumption DEF Restart, Disturbance
  <2>4. lossy' \in BOOLEAN
    BY <1>3 DEF Restart
  <2> QED
    BY <1>3, <2>1, <2>2, <2>3, <2>4 DEF Restart, CloudTypeOK
<1>4. CASE SetMode
  BY <1>4 DEF SetMode, CloudTypeOK
<1>5. CASE CloudEnforces
  BY <1>5 DEF CloudEnforces, EnforceMin, CloudTypeOK, GroupRecord
<1>6. CASE Outside
  <2>1. CloudTypeOK'
    BY <1>6, ScaleType, SetMinType, MaxSizeAssumption DEF Outside, OutsideChange
  <2>2. disturbances' \in 0 .. MaxDisturbances
    BY <1>6, BoundsAssumption DEF Outside, Disturbance
  <2>3. UNCHANGED <<memory, configMap, standby, active, job, listed, todo, current, succeeded,
                    before, lowered, lossy, faults>>
    BY <1>6 DEF Outside
  <2> QED
    BY <2>1, <2>2, <2>3 DEF CloudTypeOK
<1> QED
  BY <1>1, <1>2, <1>3, <1>4, <1>5, <1>6

LEMMA NextTypeOK == TypeOK /\ [Next]_vars => TypeOK'
<1>1. TypeOK /\ UNCHANGED vars => TypeOK'
  BY DEF TypeOK, vars, jobVars, history, bounds, CloudTypeOK
<1> QED
  BY <1>1, HibernateTypeOK, WakeTypeOK, OtherTypeOK DEF Next

\* The saved counts are counts, the groups have sizes, and the loops go over
\* groups, in every state of the controller and its cloud.
THEOREM TypeCorrect == Spec => []TypeOK
  BY InitTypeOK, NextTypeOK, PTL DEF Spec

-----------------------------------------------------------------------------
(* The controller remembers what it scaled down.                           *)

\* A job is between the two calls for one group at most.
CurrentInv ==
  /\ job \in {"idle", "saving"} => current = {}
  /\ \A g, h \in current : g = h

\* While Hibernate runs, the counts of the groups it has come to are those it
\* listed, and it comes to no group again.
HibernatingInv ==
  job = "hibernating" =>
    /\ listed = before
    /\ todo \intersect (current \union lowered) = {}
    /\ current \intersect lowered = {}
    /\ \A g \in current \union lowered :
         memory.desired[g] = before[g].desired /\ memory.min[g] = before[g].min
    /\ lowered # {} => succeeded

\* Groups scaled down that had nodes.
Down == {g \in lowered : before[g].desired > 0}

\* While Wake runs, it has yet to come to every such group.
WakingInv == ~lossy /\ job = "waking" => Down \subseteq todo \union current

\* Their counts are kept in every step of either job, with the flag between jobs.
MemoryInv ==
  ~lossy =>
    \A g \in Down :
      /\ memory.desired[g] = before[g].desired
      /\ memory.min[g] = before[g].min
      /\ job \in {"idle", "saving"} => memory.hibernated

IInv == TypeOK /\ CurrentInv /\ HibernatingInv /\ WakingInv /\ MemoryInv

LEMMA InitIInv == Init => IInv
  BY InitTypeOK DEF Init, IInv, CurrentInv, HibernatingInv, WakingInv, MemoryInv, Down

\* What saving and rolling back do to the entries.
LEMMA SavedEntries ==
  ASSUME NEW m \in SavedState, NEW g \in Groups, NEW r \in GroupRecord, NEW h \in Groups
  PROVE  /\ Saved(m, g, r).hibernated = m.hibernated
         /\ Saved(m, g, r).desired[h] = IF h = g THEN r.desired ELSE m.desired[h]
         /\ Saved(m, g, r).min[h] = IF h = g THEN r.min ELSE m.min[h]
  BY DEF Saved, SavedState

LEMMA RolledBackEntries ==
  ASSUME NEW m \in SavedState, NEW g \in Groups, NEW h \in Groups, h # g
  PROVE  /\ RolledBack(m, g).hibernated = m.hibernated
         /\ RolledBack(m, g).desired[h] = m.desired[h]
         /\ RolledBack(m, g).min[h] = m.min[h]
  BY DEF RolledBack, SavedState

\* A step that changes none of what the invariant speaks of keeps it.
LEMMA Untouched ==
  ASSUME IInv, TypeOK',
         UNCHANGED <<memory, job, listed, todo, current, succeeded, before, lowered, lossy>>
  PROVE  IInv'
  BY DEF IInv, CurrentInv, HibernatingInv, WakingInv, MemoryInv, Down

LEMMA HibernateIInv == IInv /\ HibernateStep => IInv'
<1> SUFFICES ASSUME IInv, HibernateStep PROVE CurrentInv' /\ HibernatingInv' /\ WakingInv' /\ MemoryInv'
  BY HibernateTypeOK DEF IInv
<1>0. TypeOK
  BY DEF IInv
<1> USE DEF IInv, CurrentInv, HibernatingInv, WakingInv, MemoryInv, Down, history
<1>1. CASE HibernateStart
  <2>1. listed' = before' /\ lowered' = {} /\ job' = "hibernating" /\ current' = current
    BY <1>1 DEF HibernateStart
  <2> QED
    BY <1>1, <2>1 DEF HibernateStart
<1>2. CASE HibernateNone
  BY <1>2 DEF HibernateNone
<1>3. CASE HibernateEnd
  BY <1>0, <1>3 DEF HibernateEnd, TypeOK, SavedState
<1>4. ASSUME NEW g \in Groups, HibernateMin(g)
      PROVE  CurrentInv' /\ HibernatingInv' /\ WakingInv' /\ MemoryInv'
  <2> USE DEF HibernateMin
  <2>1. /\ memory \in SavedState /\ listed[g] \in GroupRecord
        /\ lowered \subseteq Groups /\ current = {} /\ g \notin lowered
    BY <1>0, <1>4 DEF TypeOK
  <2>2. \A h \in lowered : memory'.desired[h] = memory.desired[h] /\ memory'.min[h] = memory.min[h]
    BY <1>4, <2>1, SavedEntries, RolledBackEntries
  <2>3. current' = {g} => memory'.desired[g] = listed[g].desired /\ memory'.min[g] = listed[g].min
    BY <1>4, <2>1, SavedEntries
  <2>4. HibernatingInv'
    BY <1>4, <2>1, <2>2, <2>3
  <2> QED
    BY <1>4, <2>2, <2>4
<1>5. ASSUME NEW g \in Groups, HibernateScale(g)
      PROVE  CurrentInv' /\ HibernatingInv' /\ WakingInv' /\ MemoryInv'
  <2> USE DEF HibernateScale
  <2>1. memory \in SavedState /\ lowered \subseteq Groups /\ g \notin lowered
    BY <1>0, <1>5 DEF TypeOK
  <2>2. \A h \in lowered : memory'.desired[h] = memory.desired[h] /\ memory'.min[h] = memory.min[h]
    BY <1>5, <2>1, RolledBackEntries
  <2>3. lowered' # lowered => memory' = memory /\ lowered' = lowered \union {g} /\ succeeded'
    BY <1>5
  <2>4. HibernatingInv'
    BY <1>5, <2>1, <2>2, <2>3
  <2> QED
    BY <1>5, <2>2, <2>3, <2>4
<1> QED
  BY <1>1, <1>2, <1>3, <1>4, <1>5 DEF HibernateStep

LEMMA WakeIInv == IInv /\ WakeStep => IInv'
<1> SUFFICES ASSUME IInv, WakeStep PROVE CurrentInv' /\ HibernatingInv' /\ WakingInv' /\ MemoryInv'
  BY WakeTypeOK DEF IInv
<1>0. TypeOK
  BY DEF IInv
<1> USE DEF IInv, CurrentInv, HibernatingInv, WakingInv, MemoryInv, Down, history
<1>1. CASE WakeStart
  <2>1. ~lossy => Down \subseteq {g \in Groups : memory.desired[g] # Missing}
    BY <1>0 DEF TypeOK, Missing
  <2> QED
    BY <1>1, <2>1 DEF WakeStart
<1>2. CASE WakeEnd
  BY <1>2 DEF WakeEnd
<1>3. ASSUME NEW g \in Groups, WakeMin(g)
      PROVE  CurrentInv' /\ HibernatingInv' /\ WakingInv' /\ MemoryInv'
  BY <1>3 DEF WakeMin
<1>4. ASSUME NEW g \in Groups, WakeScale(g)
      PROVE  CurrentInv' /\ HibernatingInv' /\ WakingInv' /\ MemoryInv'
  BY <1>4 DEF WakeScale
<1> QED
  BY <1>1, <1>2, <1>3, <1>4 DEF WakeStep

LEMMA RestartIInv == IInv /\ Restart => IInv'
<1> SUFFICES ASSUME IInv, Restart PROVE CurrentInv' /\ HibernatingInv' /\ WakingInv' /\ MemoryInv'
  BY OtherTypeOK DEF IInv
<1>0. TypeOK
  BY DEF IInv
<1> USE DEF IInv, CurrentInv, HibernatingInv, WakingInv, MemoryInv, Down
<1>1. job' = "idle" /\ current' = {} /\ UNCHANGED <<before, lowered>>
  BY DEF Restart
<1>2. ASSUME ~lossy' PROVE ~lossy /\ job = "idle" /\ memory' = Loaded(memory)
  BY <1>2 DEF Restart
<1>3. ASSUME ~lossy', NEW g \in Down
      PROVE  /\ memory'.desired[g] = before[g].desired
             /\ memory'.min[g] = before[g].min
             /\ memory'.hibernated
  <2>1. /\ memory.desired[g] = before[g].desired
        /\ memory.min[g] = before[g].min
        /\ memory.hibernated
    BY <1>2, <1>3
  <2>2. g \in Groups /\ memory \in SavedState /\ memory.desired[g] # 0
    BY <1>0, <2>1 DEF TypeOK
  <2> QED
    BY <1>2, <1>3, <2>1, <2>2, LoadKeeps
<1> QED
  BY <1>1, <1>3

LEMMA NextIInv == IInv /\ [Next]_vars => IInv'
<1> SUFFICES ASSUME IInv, [Next]_vars PROVE IInv'
  OBVIOUS
<1>1. TypeOK'
  BY NextTypeOK DEF IInv
<1>2. CASE SaveState
  BY <1>1, <1>2 DEF SaveState, IInv, CurrentInv, HibernatingInv, WakingInv, MemoryInv, Down, history
<1>3. CASE StandbySetsUp \/ SetMode \/ CloudEnforces \/ Outside
  BY <1>1, <1>3, Untouched
     DEF StandbySetsUp, SetMode, CloudEnforces, Outside, jobVars, history
<1>4. CASE UNCHANGED vars
  BY <1>1, <1>4, Untouched DEF vars, jobVars, history
<1> QED
  BY <1>2, <1>3, <1>4, HibernateIInv, WakeIInv, RestartIInv DEF Next

\* Whatever calls fail and whoever else scales groups, the controller remembers
\* the counts of every group it scaled down, and that it has to wake it, until
\* Wake has come to it: over restarts, too, that break off no job and load what
\* the last job had.
THEOREM NothingForgotten == Spec => []Remembers
<1>1. IInv => Remembers
  BY DEF IInv, MemoryInv, Down, Remembers
<1> QED
  BY <1>1, InitIInv, NextIInv, PTL DEF Spec

-----------------------------------------------------------------------------
(* A clean hibernation is undone.                                          *)

\* No call has failed, the process has lived, and nobody else scaled a group.
Clean == faults = 0 /\ disturbances = 0

Included == Groups \ Excluded

\* The stages a group goes through, told by what it was before.
LoweredMin(n) == IF n > 1 THEN 1 ELSE n
AsBefore(g) == cloud[g] = before[g]
MinLowered(g) == cloud[g].min = LoweredMin(before[g].min) /\ cloud[g].desired = before[g].desired
AtOneNode(g) == cloud[g].min = LoweredMin(before[g].min) /\ cloud[g].desired = 1
SavedFor(g) == memory.desired[g] = before[g].desired /\ memory.min[g] = before[g].min

\* The loops go over the included groups, one group at a time, and the excluded
\* groups are left alone.
LoopsClean ==
  /\ job \in {"idle", "saving"} => current = {}
  /\ \A g, h \in current : g = h
  /\ todo \intersect current = {}
  /\ job \in {"hibernating", "waking"} => todo \union current \subseteq Included
  /\ \A g \in Groups : before[g].min <= before[g].desired
  /\ \A g \in Excluded : AsBefore(g) /\ memory.desired[g] = Missing

AwakeClean ==
  job \in {"idle", "saving"} /\ ~memory.hibernated => \A g \in Included : AsBefore(g)

HibernatingClean ==
  job = "hibernating" =>
    /\ listed = before
    /\ ~memory.hibernated
    /\ ~succeeded => Included \subseteq todo \union current
    /\ \A g \in Included :
         /\ g \in todo => AsBefore(g)
         /\ g \in current => MinLowered(g) /\ SavedFor(g)
         /\ g \notin todo \union current => AtOneNode(g) /\ SavedFor(g)

DownClean ==
  job \in {"idle", "saving"} /\ memory.hibernated =>
    \A g \in Included : AtOneNode(g) /\ SavedFor(g)

\* Between its two calls a group may have been brought up to its minimum.
WakingClean ==
  job = "waking" =>
    \A g \in Included :
      /\ SavedFor(g) /\ listed[g].min = LoweredMin(before[g].min)
      /\ g \in todo => AtOneNode(g)
      /\ g \in current => cloud[g].min = before[g].min
      /\ g \notin todo \union current => AsBefore(g)

CleanInv ==
  /\ TypeOK
  /\ Clean => LoopsClean /\ AwakeClean /\ HibernatingClean /\ DownClean /\ WakingClean

LEMMA InitClean == Init => CleanInv
<1> SUFFICES ASSUME Init PROVE CleanInv
  OBVIOUS
<1>1. TypeOK
  BY InitTypeOK
<1> QED
  BY <1>1, ExcludedAssumption
     DEF Init, CloudInit, Fresh, NothingSaved, CleanInv, LoopsClean, AwakeClean, HibernatingClean,
         DownClean, WakingClean, AsBefore

\* What the calls do to the groups, in a cloud that keeps its type.
LEMMA SetMinDoes ==
  ASSUME CloudTypeOK, NEW g \in Groups, NEW n \in Sizes, SetNodeGroupMinCount(g, n), NEW h \in Groups
  PROVE  /\ h = g => cloud'[h].min = n /\ cloud'[h].desired = cloud[h].desired
         /\ h # g => cloud'[h] = cloud[h]
  BY DEF CloudTypeOK, SetNodeGroupMinCount, GroupRecord

LEMMA ScaleDoes ==
  ASSUME CloudTypeOK, NEW g \in Groups, NEW n \in Int, ScaleNodeGroup(g, n), NEW h \in Groups
  PROVE  /\ h = g => cloud'[h].desired = n /\ cloud'[h].min = cloud[h].min
         /\ h # g => cloud'[h] = cloud[h]
  BY DEF CloudTypeOK, ScaleNodeGroup, GroupRecord

LEMMA SameGroup ==
  ASSUME NEW r \in GroupRecord, NEW s \in GroupRecord, r.min = s.min, r.desired = s.desired
  PROVE  r = s
  BY DEF GroupRecord

\* In a clean step the calls succeed.
LEMMA CleanStep ==
  ASSUME TypeOK, Clean', [Next]_vars
  PROVE  Clean /\ ~Fault /\ ~Disturbance
<1> USE DEF TypeOK, Clean, Fault, NoFault, Disturbance, jobVars, history, bounds
<1>1. faults' >= faults /\ disturbances' >= disturbances
  <2>1. CASE HibernateStep
    BY <2>1 DEF HibernateStep, HibernateStart, HibernateNone, HibernateEnd, HibernateMin, HibernateScale
  <2>2. CASE WakeStep
    BY <2>2 DEF WakeStep, WakeStart, WakeEnd, WakeMin, WakeScale
  <2>3. CASE SaveState \/ SetMode \/ CloudEnforces \/ Outside \/ UNCHANGED vars
    BY <2>3 DEF SaveState, SetMode, CloudEnforces, Outside, vars
  <2>4. CASE StandbySetsUp \/ Restart
    BY <2>4 DEF StandbySetsUp, Restart, LoadInto
  <2> QED
    BY <2>1, <2>2, <2>3, <2>4 DEF Next
<1> QED
  BY <1>1

LEMMA HibernateClean == CleanInv /\ HibernateStep /\ Clean' => CleanInv'
<1> SUFFICES ASSUME CleanInv, HibernateStep, Clean' PROVE CleanInv'
  OBVIOUS
<1>1. TypeOK /\ TypeOK' /\ Clean /\ ~Fault
  BY HibernateTypeOK, CleanStep DEF CleanInv, Next
<1>2. LoopsClean /\ AwakeClean /\ HibernatingClean /\ DownClean /\ WakingClean
  BY <1>1 DEF CleanInv
<1> SUFFICES LoopsClean' /\ AwakeClean' /\ HibernatingClean' /\ DownClean' /\ WakingClean'
  BY <1>1 DEF CleanInv
<1> USE DEF LoopsClean, AwakeClean, HibernatingClean, DownClean, WakingClean, AsBefore, MinLowered,
            AtOneNode, SavedFor, Included, history
<1>3. CASE HibernateStart
  BY <1>1, <1>2, <1>3 DEF HibernateStart
<1>4. CASE HibernateNone
  BY <1>1, <1>2, <1>4 DEF HibernateNone
<1>5. CASE HibernateEnd
  BY <1>1, <1>2, <1>5 DEF HibernateEnd, TypeOK, SavedState
<1>6. ASSUME NEW g \in Groups, HibernateMin(g)
      PROVE  LoopsClean' /\ AwakeClean' /\ HibernatingClean' /\ DownClean' /\ WakingClean'
  <2> USE DEF HibernateMin
  <2>1. /\ g \in Included /\ g \notin Excluded /\ listed[g] = before[g] /\ cloud[g] = before[g]
        /\ listed[g] \in GroupRecord /\ memory \in SavedState /\ CloudTypeOK
        /\ current = {} /\ g \in todo /\ todo' = todo \ {g}
    BY <1>1, <1>2, <1>6 DEF TypeOK
  <2>2. /\ current' = {g} /\ memory' = Saved(memory, g, listed[g])
        /\ IF listed[g].min > 1 THEN SetNodeGroupMinCount(g, 1) ELSE UNCHANGED cloud
    <3>1. listed[g].min \in Nat
      BY <2>1, MaxSizeAssumption DEF GroupRecord
    <3> QED
      BY <1>1, <1>6, <3>1
  <2>3. /\ cloud'[g].min = LoweredMin(before[g].min) /\ cloud'[g].desired = before[g].desired
        /\ \A h \in Groups \ {g} : cloud'[h] = cloud[h]
    <3>1. 1 \in Sizes /\ listed[g].min \in Nat
      BY <2>1, MaxSizeAssumption DEF GroupRecord
    <3>2. CASE listed[g].min > 1
      BY <2>1, <2>2, <3>1, <3>2, SetMinDoes DEF LoweredMin
    <3>3. CASE ~(listed[g].min > 1)
      BY <2>1, <2>2, <3>1, <3>3 DEF LoweredMin
    <3> QED
      BY <3>2, <3>3
  <2>4. /\ memory'.hibernated = memory.hibernated
        /\ memory'.desired[g] = before[g].desired /\ memory'.min[g] = before[g].min
        /\ \A h \in Groups \ {g} : memory'.desired[h] = memory.desired[h] /\ memory'.min[h] = memory.min[h]
    BY <2>1, <2>2, SavedEntries
  <2>5. job = "hibernating" /\ UNCHANGED <<job, listed, succeeded, before>>
    BY <1>6
  <2>6. Excluded \subseteq Groups
    BY ExcludedAssumption
  <2> HIDE DEF HibernateMin
  <2>7. LoopsClean'
    BY <1>2, <2>1, <2>2, <2>3, <2>4, <2>5, <2>6
  <2>8. HibernatingClean'
    <3>1. MinLowered(g)' /\ SavedFor(g)'
      BY <2>3, <2>4, <2>5
    <3>2. ASSUME NEW h \in Included \ {g}
          PROVE  /\ AsBefore(h)' <=> AsBefore(h)
                 /\ AtOneNode(h)' <=> AtOneNode(h)
                 /\ SavedFor(h)' <=> SavedFor(h)
      BY <2>3, <2>4, <2>5
    <3> HIDE DEF AsBefore, MinLowered, AtOneNode, SavedFor
    <3> QED
      BY <1>2, <2>1, <2>2, <2>4, <2>5, <3>1, <3>2
  <2> QED
    BY <2>5, <2>7, <2>8
<1>7. ASSUME NEW g \in Groups, HibernateScale(g)
      PROVE  LoopsClean' /\ AwakeClean' /\ HibernatingClean' /\ DownClean' /\ WakingClean'
  <2> USE DEF HibernateScale
  <2>1. /\ g \in Included /\ g \notin Excluded /\ MinLowered(g) /\ SavedFor(g)
        /\ cloud[g] \in GroupRecord /\ before[g] \in GroupRecord /\ CloudTypeOK
        /\ current = {g} /\ g \notin todo /\ job = "hibernating"
    BY <1>1, <1>2, <1>7 DEF TypeOK, CloudTypeOK
  <2>2. WithinBounds(g, 1)
    BY <2>1, MaxSizeAssumption DEF WithinBounds, LoweredMin, GroupRecord
  <2>3. ScaleNodeGroup(g, 1) /\ succeeded' = TRUE /\ UNCHANGED memory
    BY <1>1, <1>7, <2>2
  <2>4. /\ cloud'[g].min = LoweredMin(before[g].min) /\ cloud'[g].desired = 1
        /\ \A h \in Groups \ {g} : cloud'[h] = cloud[h]
    BY <2>1, <2>3, ScaleDoes
  <2>5. current' = {} /\ UNCHANGED <<job, listed, todo, before>>
    BY <1>7
  <2>6. Excluded \subseteq Groups
    BY ExcludedAssumption
  <2> HIDE DEF HibernateScale
  <2>7. LoopsClean'
    BY <1>2, <2>1, <2>3, <2>4, <2>5, <2>6
  <2>8. HibernatingClean'
    <3>1. AtOneNode(g)' /\ SavedFor(g)'
      BY <2>1, <2>3, <2>4, <2>5
    <3>2. ASSUME NEW h \in Included \ {g}
          PROVE  /\ AsBefore(h)' <=> AsBefore(h)
                 /\ AtOneNode(h)' <=> AtOneNode(h)
                 /\ SavedFor(h)' <=> SavedFor(h)
      BY <2>3, <2>4, <2>5
    <3> HIDE DEF AsBefore, MinLowered, AtOneNode, SavedFor
    <3> QED
      BY <1>2, <2>1, <2>3, <2>5, <3>1, <3>2
  <2> QED
    BY <2>1, <2>5, <2>7, <2>8
<1> QED
  BY <1>3, <1>4, <1>5, <1>6, <1>7 DEF HibernateStep

LEMMA WakeClean == CleanInv /\ WakeStep /\ Clean' => CleanInv'
<1> SUFFICES ASSUME CleanInv, WakeStep, Clean' PROVE CleanInv'
  OBVIOUS
<1>1. TypeOK /\ TypeOK' /\ Clean /\ ~Fault
  BY WakeTypeOK, CleanStep DEF CleanInv, Next
<1>2. LoopsClean /\ AwakeClean /\ HibernatingClean /\ DownClean /\ WakingClean
  BY <1>1 DEF CleanInv
<1> SUFFICES LoopsClean' /\ AwakeClean' /\ HibernatingClean' /\ DownClean' /\ WakingClean'
  BY <1>1 DEF CleanInv
<1> USE DEF LoopsClean, AwakeClean, HibernatingClean, DownClean, WakingClean, AsBefore, MinLowered,
            AtOneNode, SavedFor, Included, history
<1>3. CASE WakeStart
  <2>1. \A g \in Included : memory.desired[g] # Missing
    BY <1>1, <1>2, <1>3, MaxSizeAssumption DEF WakeStart, TypeOK, GroupRecord
  <2>2. todo' = Included
    BY <1>1, <1>2, <1>3, <2>1, ExcludedAssumption DEF WakeStart
  <2> QED
    BY <1>1, <1>2, <1>3, <2>2 DEF WakeStart
<1>4. CASE WakeEnd
  BY <1>1, <1>2, <1>4, ExcludedAssumption DEF WakeEnd, Fresh, NothingSaved
<1>5. ASSUME NEW g \in Groups, WakeMin(g)
      PROVE  LoopsClean' /\ AwakeClean' /\ HibernatingClean' /\ DownClean' /\ WakingClean'
  <2> USE DEF WakeMin
  <2>1. /\ g \in Included /\ g \notin Excluded /\ AtOneNode(g) /\ SavedFor(g)
        /\ listed[g].min = LoweredMin(before[g].min) /\ before[g] \in GroupRecord
        /\ CloudTypeOK /\ current = {} /\ g \in todo /\ todo' = todo \ {g} /\ current' = {g}
        /\ job = "waking"
    BY <1>1, <1>2, <1>5 DEF TypeOK
  <2>2. /\ before[g].min \in Sizes /\ before[g].min \in Nat
        /\ IF before[g].min > LoweredMin(before[g].min) THEN SetNodeGroupMinCount(g, before[g].min) ELSE UNCHANGED cloud
    <3>1. before[g].min \in Sizes /\ before[g].min \in Nat
      BY <2>1, MaxSizeAssumption DEF GroupRecord
    <3>2. LoweredMin(before[g].min) \in Nat
      BY <3>1 DEF LoweredMin
    <3> QED
      BY <1>1, <1>5, <2>1, <3>1, <3>2
  <2>3. /\ cloud'[g].min = before[g].min
        /\ \A h \in Groups \ {g} : cloud'[h] = cloud[h]
    BY <2>1, <2>2, SetMinDoes DEF LoweredMin
  <2>4. UNCHANGED <<job, listed, before, memory>>
    BY <1>5
  <2>6. Excluded \subseteq Groups
    BY ExcludedAssumption
  <2> HIDE DEF WakeMin
  <2>7. LoopsClean'
    BY <1>2, <2>1, <2>3, <2>4, <2>6
  <2>8. WakingClean'
    BY <1>2, <2>1, <2>3, <2>4
  <2> QED
    BY <2>1, <2>4, <2>7, <2>8
<1>6. ASSUME NEW g \in Groups, WakeScale(g)
      PROVE  LoopsClean' /\ AwakeClean' /\ HibernatingClean' /\ DownClean' /\ WakingClean'
  <2> USE DEF WakeScale
  <2>1. /\ g \in Included /\ g \notin Excluded /\ cloud[g].min = before[g].min /\ SavedFor(g)
        /\ before[g] \in GroupRecord /\ before[g].min <= before[g].desired /\ CloudTypeOK
        /\ current = {g} /\ g \notin todo /\ job = "waking"
    BY <1>1, <1>2, <1>6 DEF TypeOK
  <2>2. WithinBounds(g, before[g].desired) /\ before[g].desired \in Int
    BY <2>1, MaxSizeAssumption DEF WithinBounds, GroupRecord
  <2>3. ScaleNodeGroup(g, before[g].desired)
    BY <1>1, <1>6, <2>1, <2>2
  <2>4. /\ cloud'[g].min = before[g].min /\ cloud'[g].desired = before[g].desired
        /\ \A h \in Groups \ {g} : cloud'[h] = cloud[h]
    BY <2>1, <2>2, <2>3, ScaleDoes
  <2>5. current' = {} /\ UNCHANGED <<job, listed, todo, before, memory>>
    BY <1>6
  <2>6. Excluded \subseteq Groups
    BY ExcludedAssumption
  <2>9. cloud'[g] = before'[g]
    <3>1. cloud'[g] \in GroupRecord
      BY <1>1 DEF TypeOK, CloudTypeOK
    <3> QED
      BY <2>1, <2>4, <2>5, <3>1, SameGroup
  <2> HIDE DEF WakeScale
  <2>7. LoopsClean'
    BY <1>2, <2>1, <2>4, <2>5, <2>6
  <2>8. WakingClean'
    BY <1>2, <2>1, <2>4, <2>5, <2>9
  <2> QED
    BY <2>1, <2>5, <2>7, <2>8
<1> QED
  BY <1>3, <1>4, <1>5, <1>6 DEF WakeStep

LEMMA NextClean == CleanInv /\ [Next]_vars => CleanInv'
<1> SUFFICES ASSUME CleanInv, [Next]_vars, Clean' PROVE CleanInv'
  BY NextTypeOK DEF CleanInv
<1>1. TypeOK /\ TypeOK' /\ Clean /\ ~Fault /\ ~Disturbance
  BY NextTypeOK, CleanStep DEF CleanInv
<1>2. LoopsClean /\ AwakeClean /\ HibernatingClean /\ DownClean /\ WakingClean
  BY <1>1 DEF CleanInv
<1> USE DEF LoopsClean, AwakeClean, HibernatingClean, DownClean, WakingClean, AsBefore, MinLowered,
            AtOneNode, SavedFor, jobVars, history
<1>3. CASE SaveState
  BY <1>1, <1>2, <1>3 DEF SaveState, CleanInv
<1>4. CASE StandbySetsUp \/ SetMode \/ UNCHANGED vars
  BY <1>1, <1>2, <1>4 DEF StandbySetsUp, SetMode, vars, CleanInv
<1>5. CASE CloudEnforces
  <2>1. PICK g \in Groups : EnforceMin(g)
    BY <1>5 DEF CloudEnforces
  <2>2. UNCHANGED <<memory, job, listed, todo, current, succeeded, before>>
    BY <1>5 DEF CloudEnforces
  <2>3. /\ cloud[g].desired < cloud[g].min /\ cloud'[g].min = cloud[g].min
        /\ \A h \in Groups \ {g} : cloud'[h] = cloud[h]
    BY <1>1, <2>1 DEF EnforceMin, TypeOK, CloudTypeOK, GroupRecord
  <2>4. /\ cloud[g].desired \in Nat /\ cloud[g].min \in Nat
        /\ before[g].desired \in Nat /\ before[g].min \in Nat
    BY <1>1, MaxSizeAssumption DEF TypeOK, CloudTypeOK, GroupRecord
  <2>5. ~ AsBefore(g) /\ ~ MinLowered(g) /\ ~ AtOneNode(g)
    <3>1. before[g].min <= before[g].desired
      BY <1>2
    <3>2. LoweredMin(before[g].min) <= 1 /\ LoweredMin(before[g].min) <= before[g].min
      BY <2>4 DEF LoweredMin
    <3>3. LoweredMin(before[g].min) \in Nat
      BY <2>4 DEF LoweredMin
    <3> QED
      BY <2>3, <2>4, <3>1, <3>2, <3>3
  <2>6. g \in Included /\ job = "waking" /\ g \in current
    BY <1>1, <1>2, <2>5 DEF TypeOK, Included
  <2>7. LoopsClean'
    BY <1>2, <2>2, <2>3, <2>6, ExcludedAssumption DEF Included
  <2>8. WakingClean'
    BY <1>2, <2>2, <2>3, <2>6 DEF Included
  <2> QED
    BY <1>1, <2>2, <2>6, <2>7, <2>8 DEF CleanInv
<1>6. ~ Restart /\ ~ Outside
  BY <1>1 DEF Restart, Outside
<1> QED
  BY <1>3, <1>4, <1>5, <1>6, HibernateClean, WakeClean DEF Next

\* A hibernation that nothing disturbs is undone by the next wake: the groups
\* are then exactly what Hibernate found, whatever their number, sizes and
\* minimums, whichever are excluded, and although the cloud enforces minimums
\* and the mode is switched in between.
THEOREM WokenAsBefore == Spec => CleanWakeRestores
<1>1. CleanInv /\ [Next]_vars =>
        (job = "waking" /\ job' = "saving" /\ faults + disturbances = 0 => cloud = before)
  <2> SUFFICES ASSUME CleanInv, [Next]_vars, job = "waking", job' = "saving",
                      faults + disturbances = 0
               PROVE  cloud = before
    OBVIOUS
  <2>1. TypeOK
    BY DEF CleanInv
  <2>2. Clean
    BY <2>1, BoundsAssumption DEF TypeOK, Clean
  <2>3. todo = {} /\ current = {}
    BY DEF Next, HibernateStep, HibernateStart, HibernateNone, HibernateEnd, HibernateMin, HibernateScale,
           WakeStep, WakeStart, WakeEnd, WakeMin, WakeScale, SaveState, StandbySetsUp, Restart,
           SetMode, CloudEnforces, Outside, vars, jobVars
  <2>4. \A g \in Groups : cloud[g] = before[g]
    BY <2>2, <2>3 DEF CleanInv, LoopsClean, WakingClean, Included, AsBefore
  <2> QED
    BY <2>1, <2>4 DEF TypeOK, CloudTypeOK
<1> QED
  BY <1>1, InitClean, NextClean, PTL DEF Spec, CleanWakeRestores

=============================================================================
