------------------------- MODULE MinAdjusterProofs -------------------------
(***************************************************************************)
(* Theorems about the adjuster of minimum counts, for any set of groups,   *)
(* any sizes, periods and limits of the gate.                              *)
(***************************************************************************)
EXTENDS MinAdjuster, TLAPS

USE SizeAssumption, CacheAssumption, OutsideAssumption, PeriodAssumption, GateAssumption

LEMMA HalfType ==
  ASSUME NEW n \in Sizes
  PROVE  n \div 2 \in Sizes /\ n \div 2 <= n /\ n - n \div 2 \in Sizes
  BY DEF Sizes

\* Every step is one of these.
Steps ==
  \/ Analyze
  \/ \E r \in Pending : Adjust(r) \/ AskGate(r) \/ GateApproves(r) \/ Shelve(r)
  \/ Elapse
  \/ Fetch /\ UNCHANGED <<lowFor, agenda, asked, sinceHigh>>
  \/ Publish /\ UNCHANGED <<lowFor, agenda, asked, sinceHigh>>
  \/ LoadChanges /\ UNCHANGED <<lowFor, agenda, asked, sinceHigh>>
  \/ OutsideSets /\ UNCHANGED <<lowFor, agenda, asked, sinceHigh>>
  \/ UNCHANGED minVars

LEMMA NextIsSteps == [MinNext]_minVars => Steps
BY Zenon DEF MinNext, Execute, MinSurroundings, Steps, Pending

-----------------------------------------------------------------------------
(* Types.                                                                  *)

AdjusterTypeOK ==
  /\ lowFor \in [Groups -> Untracked .. ObservationPeriod]
  /\ agenda \subseteq Adjustment
  /\ asked \subseteq Adjustment
  /\ sinceHigh \in [Groups -> 0 .. ObservationPeriod]

LEMMA HalvedType ==
  ASSUME MinTypeOK, NEW g \in Groups, view[g].min > 0
  PROVE  Halved(g) \in Adjustment
<1>1. view[g].min \in Sizes
  BY DEF MinTypeOK, ClusterTypeOK, GroupView, Unlisted
<1> QED
  BY <1>1, HalfType DEF Halved, Adjustment

LEMMA AgeType ==
  ASSUME NEW limit \in Nat, NEW age \in 0 .. limit
  PROVE  Older(age, limit) \in 0 .. limit
  BY DEF Older

LEMMA FetchType ==
  ASSUME MinTypeOK, Fetch
  PROVE  ClusterTypeOK'
<1> USE DEF MinTypeOK, ClusterTypeOK
<1>1. PICK answered \in SUBSET Nodes :
        LET useCache == answered = {} /\ CacheUsable
        IN  fetched' = {[min |-> minCount,
                         metrics |-> IF useCache THEN lastMetrics ELSE Answer(answered),
                         cached |-> useCache]}
  BY Zenon DEF Fetch
<1> DEFINE useCache == answered = {} /\ CacheUsable
<1>2. Answer(answered) \in Metrics
  BY DEF Answer, Metrics, Level, Nodes
<1>3. [min |-> minCount, metrics |-> IF useCache THEN lastMetrics ELSE Answer(answered),
       cached |-> useCache] \in Fetched
  <2>1. useCache \in BOOLEAN
    BY Zenon
  <2>2. (IF useCache THEN lastMetrics ELSE Answer(answered)) \in Metrics
    BY <1>2
  <2> HIDE DEF useCache
  <2> QED
    BY <2>1, <2>2, Zenon DEF Fetched
<1>4. fetched' \subseteq Fetched
  BY <1>1, <1>3, Zenon
<1> QED
  BY <1>4 DEF Fetch

LEMMA PublishType ==
  ASSUME MinTypeOK, Publish
  PROVE  ClusterTypeOK'
<1> USE DEF MinTypeOK, ClusterTypeOK
<1>1. PICK f \in fetched :
        /\ view' = [g \in Groups |-> [min |-> f.min[g], low |-> f.metrics[g] # "high"]]
        /\ fetched' = {}
        /\ lastMetrics' \in {lastMetrics, f.metrics}
        /\ sinceUpdate' \in {0, sinceUpdate} /\ dataAge' \in {0, dataAge}
        /\ UNCHANGED <<minCount, load, outside>>
  BY DEF Publish
<1>2. f.min \in [Groups -> Sizes] /\ f.metrics \in Metrics
  BY DEF Fetched
<1>3. view' \in [Groups -> GroupView]
  BY <1>1, <1>2 DEF GroupView
<1> QED
  BY <1>1, <1>2, <1>3

\* Every variable keeps its type.
THEOREM MinTypeCorrect == MinSpec => []MinTypeOK
<1>1. MinInit => MinTypeOK
  <2> SUFFICES ASSUME MinInit PROVE MinTypeOK
    OBVIOUS
  <2>1. lastMetrics \in Metrics
    BY DEF MinInit, ClusterInit, NoMetrics, Metrics
  <2>2. view \in [Groups -> GroupView]
    BY DEF MinInit, ClusterInit, GroupView
  <2>3. AdjusterTypeOK
    BY DEF MinInit, AdjusterTypeOK, Untracked
  <2>4. /\ sinceUpdate \in 0 .. CacheTime /\ dataAge \in 0 .. CacheTime
        /\ outside \in 0 .. MaxOutside
    BY DEF MinInit, ClusterInit
  <2>5. /\ minCount \in [Groups -> Sizes] /\ load \in [Groups -> {"low", "high"}]
        /\ fetched \subseteq Fetched
    BY Zenon DEF MinInit, ClusterInit
  <2> QED
    BY <2>1, <2>2, <2>3, <2>4, <2>5, Zenon DEF MinTypeOK, ClusterTypeOK, AdjusterTypeOK
<1>2. MinTypeOK /\ [MinNext]_minVars => MinTypeOK'
  <2> SUFFICES ASSUME MinTypeOK, Steps PROVE MinTypeOK'
    BY NextIsSteps
  <2>1. CASE Analyze
    <3>1. agenda' \subseteq Adjustment
      BY <2>1, HalvedType DEF Analyze, Recommends
    <3>2. lowFor' \in [Groups -> Untracked .. ObservationPeriod]
      BY <2>1 DEF Analyze, MinTypeOK, Tracking, Untracked
    <3>3. sinceHigh' \in [Groups -> 0 .. ObservationPeriod]
      BY <2>1 DEF Analyze, MinTypeOK
    <3> QED
      BY <2>1, <3>1, <3>2, <3>3 DEF Analyze, MinTypeOK, ClusterTypeOK, clusterVars
  <2>2. ASSUME NEW r \in Pending, Adjust(r) \/ GateApproves(r)
        PROVE  MinTypeOK'
    <3>1. r \in Adjustment
      BY DEF Pending, MinTypeOK
    <3>2. minCount' \in [Groups -> Sizes]
      BY <2>2, <3>1 DEF Adjust, GateApproves, SetNodeGroupMinCount, MinTypeOK, ClusterTypeOK, Adjustment
    <3>3. agenda' \subseteq agenda /\ asked' \subseteq asked
      BY <2>2 DEF Adjust, GateApproves
    <3> QED
      BY <2>2, <3>2, <3>3 DEF Adjust, GateApproves, SetNodeGroupMinCount, MinTypeOK, ClusterTypeOK
  <2>3. ASSUME NEW r \in Pending, AskGate(r) \/ Shelve(r)
        PROVE  MinTypeOK'
    <3>1. agenda' \subseteq agenda /\ asked' \subseteq Pending
      BY <2>3 DEF AskGate, Shelve, Pending
    <3> QED
      BY <2>3, <3>1 DEF AskGate, Shelve, Pending, MinTypeOK, ClusterTypeOK, clusterVars
  <2>4. CASE Elapse
    <3>1. /\ lowFor' \in [Groups -> Untracked .. ObservationPeriod]
          /\ sinceHigh' \in [Groups -> 0 .. ObservationPeriod]
      BY <2>4 DEF Elapse, MinTypeOK, Older, Untracked
    <3>2. sinceUpdate' \in 0 .. CacheTime /\ dataAge' \in 0 .. CacheTime
      BY <2>4, AgeType DEF Elapse, CacheAges, MinTypeOK, ClusterTypeOK
    <3> QED
      BY <2>4, <3>1, <3>2 DEF Elapse, CacheAges, MinTypeOK, ClusterTypeOK
  <2>5. CASE Fetch /\ UNCHANGED <<lowFor, agenda, asked, sinceHigh>>
    BY <2>5, FetchType DEF MinTypeOK
  <2>6. CASE Publish /\ UNCHANGED <<lowFor, agenda, asked, sinceHigh>>
    BY <2>6, PublishType DEF MinTypeOK
  <2>7. CASE LoadChanges /\ UNCHANGED <<lowFor, agenda, asked, sinceHigh>>
    BY <2>7 DEF LoadChanges, MinTypeOK, ClusterTypeOK
  <2>8. CASE OutsideSets /\ UNCHANGED <<lowFor, agenda, asked, sinceHigh>>
    BY <2>8 DEF OutsideSets, MinTypeOK, ClusterTypeOK
  <2>9. CASE UNCHANGED minVars
    BY <2>9 DEF minVars, clusterVars, MinTypeOK, ClusterTypeOK
  <2> QED
    BY <2>1, <2>2, <2>3, <2>4, <2>5, <2>6, <2>7, <2>8, <2>9 DEF Steps
<1> QED
  BY <1>1, <1>2, PTL DEF MinSpec

-----------------------------------------------------------------------------
(* What is pending.  The state lags behind the cloud by one execution at     *)
(* most: a group's minimum is what the state says or already half of it      *)
(* (Lag), and a refresh under way carries the one or the other (Carried).    *)
(* Recommendations for a group agree with each other (Agree), and each is    *)
(* half of what the state says, or what the cloud has already (Rests).       *)

Lag ==
  \A g \in Groups : view[g].min # Unlisted =>
    minCount[g] \in {view[g].min, view[g].min \div 2}

Carried ==
  \A f \in fetched, g \in Groups :
    \/ f.min[g] = minCount[g]
    \/ f.min[g] = view[g].min /\ minCount[g] = view[g].min \div 2

Agree ==
  \A r, s \in Pending : r.group = s.group => r.newMin = s.newMin

Rests ==
  \A r \in Pending :
    LET v == view[r.group].min
    IN  /\ v # Unlisted
        /\ \/ r.newMin = v \div 2 /\ r.nodesAffected = v - v \div 2
           \/ r.newMin = v /\ minCount[r.group] = v

PendingInv == Agree /\ (outside = 0 => Lag /\ Carried /\ Rests)

LEMMA PendingImplies == MinTypeOK /\ PendingInv => OnlyHalves
<1> SUFFICES ASSUME MinTypeOK, PendingInv, outside = 0, NEW r \in Pending
             PROVE  r.newMin \in {minCount[r.group], minCount[r.group] \div 2}
  BY DEF OnlyHalves
<1>1. r.group \in Groups
  BY DEF Pending, MinTypeOK, Adjustment
<1> QED
  BY <1>1 DEF PendingInv, Lag, Rests

\* Setting a minimum to what is pending.
LEMMA AdjustKeeps ==
  ASSUME MinTypeOK, PendingInv, NEW r \in Pending, SetNodeGroupMinCount(r),
         Pending' \subseteq Pending
  PROVE  PendingInv'
<1>1. r.group \in Groups /\ r.newMin \in Sizes
  BY DEF Pending, MinTypeOK, Adjustment
<1>2. UNCHANGED <<view, fetched, outside>>
  BY DEF SetNodeGroupMinCount
<1>3. minCount' = [minCount EXCEPT ![r.group] = r.newMin]
  BY DEF SetNodeGroupMinCount
<1>4. minCount \in [Groups -> Sizes]
  BY DEF MinTypeOK, ClusterTypeOK
<1>5. Agree'
  BY DEF PendingInv, Agree
<1> SUFFICES ASSUME outside = 0 PROVE Lag' /\ Carried' /\ Rests'
  BY <1>2, <1>5 DEF PendingInv
<1>6. minCount'[r.group] = r.newMin /\ \A g \in Groups \ {r.group} : minCount'[g] = minCount[g]
  BY <1>1, <1>3, <1>4
<1>7. \/ minCount'[r.group] = minCount[r.group]
      \/ /\ minCount[r.group] = view[r.group].min
         /\ minCount'[r.group] = view[r.group].min \div 2
         /\ r.newMin = view[r.group].min \div 2
  BY <1>1, <1>6 DEF PendingInv, Lag, Rests
<1>8. Lag'
  BY <1>1, <1>2, <1>6, <1>7 DEF PendingInv, Lag
<1>9. Carried'
  BY <1>1, <1>2, <1>6, <1>7 DEF PendingInv, Carried
<1>10. Rests'
  <2> SUFFICES ASSUME NEW s \in Pending'
               PROVE  LET v == view'[s.group].min
                      IN  /\ v # Unlisted
                          /\ \/ s.newMin = v \div 2 /\ s.nodesAffected = v - v \div 2
                             \/ s.newMin = v /\ minCount'[s.group] = v
    BY DEF Rests
  <2>1. s \in Pending /\ s.group \in Groups
    BY DEF Pending, MinTypeOK, Adjustment
  <2>2. CASE s.group = r.group
    <3>1. s.newMin = r.newMin
      BY <2>1, <2>2 DEF PendingInv, Agree
    <3> QED
      BY <1>2, <1>6, <2>1, <2>2, <3>1 DEF PendingInv, Rests
  <2>3. CASE s.group # r.group
    BY <1>2, <1>6, <2>1, <2>3 DEF PendingInv, Rests
  <2> QED
    BY <2>2, <2>3
<1> QED
  BY <1>8, <1>9, <1>10

LEMMA PendingKept == MinTypeOK /\ PendingInv /\ [MinNext]_minVars => PendingInv'
<1> SUFFICES ASSUME MinTypeOK, PendingInv, Steps PROVE PendingInv'
  BY NextIsSteps
<1>1. CASE Analyze
  <2>1. Pending' = {Halved(g) : g \in {h \in Groups : Recommends(h)}}
    BY <1>1 DEF Analyze, Pending
  <2>2. UNCHANGED <<view, fetched, outside, minCount>>
    BY <1>1 DEF Analyze, clusterVars
  <2>3. Agree'
    BY <2>1 DEF Agree, Halved
  <2>4. outside = 0 => Lag' /\ Carried'
    BY <2>2 DEF PendingInv, Lag, Carried
  <2>5. Rests'
    <3> SUFFICES ASSUME NEW g \in Groups, Recommends(g)
                 PROVE  /\ view'[g].min # Unlisted
                        /\ Halved(g).group = g
                        /\ Halved(g).newMin = view'[g].min \div 2
                        /\ Halved(g).nodesAffected = view'[g].min - view'[g].min \div 2
      BY <2>1 DEF Rests, Halved
    <3> QED
      BY <2>2 DEF Recommends, Halved, Unlisted
  <2> QED
    BY <2>2, <2>3, <2>4, <2>5 DEF PendingInv
<1>2. ASSUME NEW r \in Pending, Adjust(r) \/ GateApproves(r)
      PROVE  PendingInv'
  <2>1. SetNodeGroupMinCount(r) /\ Pending' \subseteq Pending
    BY <1>2 DEF Adjust, GateApproves, Pending
  <2> QED
    BY <2>1, AdjustKeeps
<1>3. CASE \/ \E r \in Pending : AskGate(r) \/ Shelve(r)
           \/ Elapse
           \/ LoadChanges /\ UNCHANGED <<lowFor, agenda, asked, sinceHigh>>
           \/ UNCHANGED minVars
  <2>1. Pending' \subseteq Pending
    BY <1>3 DEF AskGate, Shelve, Elapse, minVars, Pending
  <2>2. UNCHANGED <<view, fetched, outside, minCount>>
    BY <1>3 DEF AskGate, Shelve, Elapse, CacheAges, LoadChanges, minVars, clusterVars
  <2> QED
    BY <2>1, <2>2 DEF PendingInv, Agree, Lag, Carried, Rests
<1>4. CASE Fetch /\ UNCHANGED <<lowFor, agenda, asked, sinceHigh>>
  <2>1. UNCHANGED <<view, outside, minCount, agenda, asked>> /\ \A f \in fetched' : f.min = minCount
    BY <1>4 DEF Fetch
  <2> QED
    BY <2>1 DEF PendingInv, Agree, Lag, Carried, Rests, Pending
<1>5. CASE Publish /\ UNCHANGED <<lowFor, agenda, asked, sinceHigh>>
  <2>1. PICK f \in fetched :
          /\ view' = [g \in Groups |-> [min |-> f.min[g], low |-> f.metrics[g] # "high"]]
          /\ fetched' = {} /\ UNCHANGED <<minCount, outside, agenda, asked>>
    BY <1>5 DEF Publish
  <2>2. \A g \in Groups : view'[g].min = f.min[g] /\ f.min[g] \in Sizes /\ minCount[g] \in Sizes
    BY <2>1 DEF MinTypeOK, ClusterTypeOK, Fetched
  <2>3. Agree' /\ Carried' /\ Pending' = Pending
    BY <2>1 DEF PendingInv, Agree, Carried, Pending
  <2> SUFFICES ASSUME outside = 0 PROVE Lag' /\ Rests'
    BY <2>1, <2>3 DEF PendingInv
  <2>4. Lag'
    BY <2>1, <2>2 DEF PendingInv, Carried, Lag
  <2>5. Rests'
    <3> SUFFICES ASSUME NEW r \in Pending
                 PROVE  LET v == view'[r.group].min
                        IN  /\ v # Unlisted
                            /\ \/ r.newMin = v \div 2 /\ r.nodesAffected = v - v \div 2
                               \/ r.newMin = v /\ minCount'[r.group] = v
      BY <2>3 DEF Rests
    <3>1. r.group \in Groups
      BY DEF Pending, MinTypeOK, Adjustment
    <3>2. view'[r.group].min # Unlisted
      BY <2>2, <3>1 DEF Sizes, Unlisted
    <3>3. CASE f.min[r.group] = view[r.group].min
      BY <2>1, <2>2, <3>1, <3>2, <3>3 DEF PendingInv, Rests
    <3>4. CASE f.min[r.group] = minCount[r.group] /\ minCount[r.group] = view[r.group].min \div 2
      BY <2>1, <2>2, <3>1, <3>2, <3>4 DEF PendingInv, Rests
    <3>5. \/ f.min[r.group] = view[r.group].min
          \/ f.min[r.group] = minCount[r.group] /\ minCount[r.group] = view[r.group].min \div 2
      BY <3>1 DEF PendingInv, Carried, Lag, Rests
    <3> QED
      BY <3>3, <3>4, <3>5
  <2> QED
    BY <2>4, <2>5
<1>6. CASE OutsideSets /\ UNCHANGED <<lowFor, agenda, asked, sinceHigh>>
  <2>1. outside' # 0
    BY <1>6 DEF OutsideSets, MinTypeOK, ClusterTypeOK
  <2> QED
    BY <1>6, <2>1 DEF PendingInv, Agree, Pending
<1> QED
  BY <1>1, <1>2, <1>3, <1>4, <1>5, <1>6 DEF Steps

LEMMA PendingInvariant == MinSpec => []PendingInv
<1>1. MinInit => PendingInv
  BY DEF MinInit, ClusterInit, PendingInv, Agree, Lag, Carried, Rests, Pending
<1> QED
  BY <1>1, PendingKept, MinTypeCorrect, PTL DEF MinSpec

\* However old the state is and however long the gate takes, the adjuster
\* halves a minimum or leaves it as it is, so long as nobody else sets one.
THEOREM Halving == MinSpec => []OnlyHalves
  BY PendingImplies, PendingInvariant, MinTypeCorrect, PTL

\* No minimum goes to 0, or down by more than the gate's limit, without the
\* gate's approval: the impact it was asked about bounds the real one.
THEOREM Approved == MinSpec => BigStepsAreApproved
<1> DEFINE Big == GateEnabled /\ outside' = 0 =>
             \A g \in Groups :
               (\/ minCount'[g] = 0 /\ minCount[g] > 0
                \/ minCount[g] - minCount'[g] > MaxEvictNodes)
               => \E r \in asked : r.group = g /\ asked' = {}
<1>1. MinTypeOK /\ PendingInv /\ [MinNext]_minVars => [Big]_minVars
  <2> SUFFICES ASSUME MinTypeOK, PendingInv, Steps, GateEnabled, outside' = 0, NEW g \in Groups,
                      \/ minCount'[g] = 0 /\ minCount[g] > 0
                      \/ minCount[g] - minCount'[g] > MaxEvictNodes
               PROVE  \E r \in asked : r.group = g /\ asked' = {}
    BY NextIsSteps, Zenon
  <2>1. minCount[g] \in Sizes
    BY DEF MinTypeOK, ClusterTypeOK
  <2>2. minCount'[g] # minCount[g]
    <3> SUFFICES ASSUME minCount'[g] = minCount[g] PROVE FALSE
      OBVIOUS
    <3>1. minCount[g] \in Nat /\ MaxEvictNodes \in Nat
      BY <2>1 DEF Sizes
    <3> QED
      BY <3>1
  <2>3. PICK r \in Pending : Adjust(r) \/ GateApproves(r)
    <3>1. outside \in Nat
      BY DEF MinTypeOK, ClusterTypeOK
    <3>2. ~OutsideSets
      BY <3>1 DEF OutsideSets
    <3> QED
      BY <2>2, <3>2 DEF Steps, Analyze, AskGate, Shelve, Elapse, CacheAges, Fetch, Publish,
         LoadChanges, minVars, clusterVars
  <2>4. /\ r.group \in Groups /\ SetNodeGroupMinCount(r)
    BY <2>3 DEF Pending, MinTypeOK, Adjustment, Adjust, GateApproves
  <2>5. r.group = g /\ minCount'[g] = r.newMin /\ outside = 0
    BY <2>2, <2>4 DEF SetNodeGroupMinCount, MinTypeOK, ClusterTypeOK
  <2>6. ~Adjust(r)
    <3> SUFFICES ASSUME Adjust(r) PROVE FALSE
      OBVIOUS
    <3>1. r.nodesAffected <= MaxEvictNodes /\ r.newMin # 0
      <4>1. r.nodesAffected \in Nat
        BY DEF Pending, MinTypeOK, Adjustment, Sizes
      <4> QED
        BY <4>1 DEF Adjust, RequiresValidation
    <3>2. /\ view[g].min \in Sizes
          /\ minCount[g] \in {view[g].min, view[g].min \div 2}
          /\ \/ r.newMin = view[g].min \div 2 /\ r.nodesAffected = view[g].min - view[g].min \div 2
             \/ r.newMin = minCount[g]
      BY <2>5 DEF PendingInv, Lag, Rests, MinTypeOK, ClusterTypeOK, GroupView
    <3>3. view[g].min \div 2 <= view[g].min
      BY <3>2, HalfType
    <3> QED
      BY <2>1, <2>2, <2>5, <3>1, <3>2, <3>3 DEF Sizes
  <2> QED
    BY <2>3, <2>5, <2>6 DEF GateApproves
<1> QED
  BY <1>1, PendingInvariant, MinTypeCorrect, PTL DEF MinSpec, BigStepsAreApproved

-----------------------------------------------------------------------------
(* How long a group has been low.  A group the state does not have is not    *)
(* tracked (Fresh); while it is tracked no analysis sees it above the        *)
(* threshold, unless its minimum is 0, and then it stays 0 (Trusted).        *)

Fresh == \A g \in Groups : view[g].min = Unlisted => lowFor[g] = Untracked

Trusted ==
  \A g \in Groups :
    lowFor[g] # Untracked => sinceHigh[g] >= lowFor[g] \/ view[g].min <= 0

WatchInv == outside = 0 => Fresh /\ Trusted

\* What a recommendation rests on.
LEMMA WatchImplies == MinTypeOK /\ WatchInv => ObservedLow
<1> SUFFICES ASSUME MinTypeOK, WatchInv, outside = 0, NEW g \in Groups, Recommends(g)
             PROVE  sinceHigh[g] = ObservationPeriod
  BY Zenon DEF ObservedLow
<1>1. view[g].min > 0 /\ Tracking(g) = ObservationPeriod /\ view[g].low
  BY Zenon DEF Recommends
<1>2. view[g].min \in Int /\ lowFor[g] \in Int /\ sinceHigh[g] \in 0 .. ObservationPeriod
  BY DEF MinTypeOK, ClusterTypeOK, GroupView, Sizes, Unlisted, Untracked
<1>3. lowFor[g] = ObservationPeriod
  BY <1>1, <1>2 DEF Tracking, Untracked
<1>4. sinceHigh[g] >= lowFor[g]
  BY <1>1, <1>2, <1>3 DEF WatchInv, Trusted, Untracked
<1> QED
  BY <1>2, <1>3, <1>4

\* Time passes alike for both ages, and the rest of the steps leave them alone.
LEMMA WatchKept == MinTypeOK /\ PendingInv /\ WatchInv /\ [MinNext]_minVars => WatchInv'
<1> SUFFICES ASSUME MinTypeOK, PendingInv, WatchInv, Steps, outside' = 0
             PROVE  Fresh' /\ Trusted'
  BY NextIsSteps DEF WatchInv
<1>1. outside = 0
  BY DEF Steps, Analyze, Pending, Adjust, AskGate, GateApproves, Shelve, SetNodeGroupMinCount,
     Elapse, CacheAges, Fetch, Publish, LoadChanges, OutsideSets, minVars, clusterVars,
     MinTypeOK, ClusterTypeOK
<1>2. Fresh /\ Trusted
  BY <1>1 DEF WatchInv
<1>3. \A g \in Groups : /\ lowFor[g] \in Int /\ lowFor[g] >= -1 /\ lowFor[g] <= ObservationPeriod
                        /\ sinceHigh[g] \in Nat /\ sinceHigh[g] <= ObservationPeriod
                        /\ view[g].min \in Int /\ view[g].min >= -1
  BY DEF MinTypeOK, ClusterTypeOK, GroupView, Sizes, Unlisted, Untracked
<1>4. CASE Analyze
  <2>1. UNCHANGED view
    BY <1>4 DEF Analyze, clusterVars
  <2>2. \A g \in Groups : /\ lowFor'[g] = Tracking(g)
                          /\ sinceHigh'[g] = IF view[g].low THEN sinceHigh[g] ELSE 0
    BY Zenon, <1>4 DEF Analyze
  <2>3. Fresh'
    BY <1>2, <2>1, <2>2 DEF Fresh, Tracking, Unlisted
  <2>4. Trusted'
    <3> SUFFICES ASSUME NEW g \in Groups, lowFor'[g] # Untracked, ~ (view[g].min <= 0)
                 PROVE  sinceHigh'[g] >= lowFor'[g]
      BY <2>1 DEF Trusted
    <3>1. view[g].low
      BY Zenon, <2>2 DEF Tracking
    <3>2. lowFor'[g] = IF lowFor[g] = Untracked THEN 0 ELSE lowFor[g]
      BY Zenon, <2>2, <3>1 DEF Tracking
    <3>3. sinceHigh'[g] = sinceHigh[g]
      BY Zenon, <2>2, <3>1
    <3>4. lowFor[g] # Untracked => sinceHigh[g] >= lowFor[g]
      BY Zenon, <1>2 DEF Trusted
    <3> QED
      BY <1>3, <3>2, <3>3, <3>4
  <2> QED
    BY <2>3, <2>4
<1>5. CASE Elapse
  <2>1. UNCHANGED view
    BY <1>5 DEF Elapse, CacheAges
  <2>2. \A g \in Groups :
          /\ lowFor'[g] = IF lowFor[g] = Untracked THEN Untracked
                          ELSE Older(lowFor[g], ObservationPeriod)
          /\ sinceHigh'[g] = Older(sinceHigh[g], ObservationPeriod)
    BY Zenon, <1>5 DEF Elapse
  <2>3. Fresh'
    BY <1>2, <2>1, <2>2 DEF Fresh
  <2>4. Trusted'
    BY <1>2, <1>3, <2>1, <2>2 DEF Trusted, Older, Untracked
  <2> QED
    BY <2>3, <2>4
<1>6. CASE Publish /\ UNCHANGED <<lowFor, agenda, asked, sinceHigh>>
  <2>1. PICK f \in fetched :
          view' = [g \in Groups |-> [min |-> f.min[g], low |-> f.metrics[g] # "high"]]
    BY <1>6 DEF Publish
  <2>2. \A g \in Groups : view'[g].min = f.min[g] /\ f.min[g] \in Sizes /\ minCount[g] \in Sizes
    BY <2>1 DEF MinTypeOK, ClusterTypeOK, Fetched
  <2>3. Lag /\ Carried
    BY <1>1 DEF PendingInv
  <2>4. \A g \in Groups : view[g].min # Unlisted /\ view[g].min <= 0 => f.min[g] <= 0
    BY <1>3, <2>2, <2>3 DEF Lag, Carried, Unlisted
  <2>5. Fresh'
    BY <2>2 DEF Fresh, Sizes, Unlisted
  <2>6. Trusted'
    BY <1>2, <1>6, <2>2, <2>4 DEF Trusted, Fresh
  <2> QED
    BY <2>5, <2>6
<1>7. CASE UNCHANGED <<view, lowFor, sinceHigh>>
  BY <1>2, <1>7 DEF Fresh, Trusted
<1> QED
  BY <1>4, <1>5, <1>6, <1>7 DEF Steps, Adjust, AskGate, GateApproves, Shelve, Fetch, LoadChanges,
     OutsideSets, SetNodeGroupMinCount, minVars, clusterVars

LEMMA WatchInvariant == MinSpec => []WatchInv
<1>1. MinInit => WatchInv
  BY DEF MinInit, ClusterInit, WatchInv, Fresh, Trusted
<1> QED
  BY <1>1, WatchKept, PendingInvariant, MinTypeCorrect, PTL DEF MinSpec

\* A minimum is lowered on evidence: its group was seen low for the whole
\* observation period, and the gate has been asked of every big step.
THEOREM Earned == MinSpec => MinimumsEarned
  BY WatchImplies, WatchInvariant, MinTypeCorrect, Approved, PTL DEF MinimumsEarned

=============================================================================
