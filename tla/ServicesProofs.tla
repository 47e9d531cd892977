--------------------------- MODULE ServicesProofs ---------------------------
(***************************************************************************)
(* Theorems about the parts of Services, for every value of the constants. *)
(* A behaviour of Services is, seen through the variables of one part, a   *)
(* behaviour of that part (EachPart); the rest of the module is about one  *)
(* part after the other: the inductive invariant it needs, that the first  *)
(* states have it and every step keeps it, and what follows from it.       *)
(***************************************************************************)
EXTENDS Services, AsyncWriterProofs, FiniteSetTheorems, SequenceTheorems, SumTheorems

OpsPart == OpsInit /\ [][OpsNext]_opsVars
StorePart == StoreInit /\ [][StoreNext]_storeVars
AlertsPart == AlertsInit /\ [][AlertsNext]_alertsVars
ChannelsPart == ChannelsInit /\ [][ChannelsNext]_channelsVars
DrainsPart == DrainsInit /\ [][DrainsNext]_drainsVars
DisruptionPart == DisruptionInit /\ [][DisruptionNext]_disruptionVars
PoolsPart == CloudPoolsInit /\ [][CloudPoolsNext]_poolVars
SettingsPart == SettingsInit /\ [][SettingsNext]_settingsVars
CleanupPart == CleanupInit /\ [][CleanupNext]_cleanupVars
PricingPart == PricingInit /\ [][PricingNext]_pricingVars

\* In a behaviour of the whole, each part starts and goes on as it does alone,
\* or rests while another one is in focus.
LEMMA EachPart ==
  ServicesSpec => /\ OpsPart /\ StorePart /\ AlertsPart /\ ChannelsPart
                  /\ DrainsPart /\ DisruptionPart /\ PoolsPart
                  /\ SettingsPart /\ CleanupPart /\ PricingPart
<1>1. ServicesInit => /\ OpsInit /\ StoreInit /\ AlertsInit /\ ChannelsInit
                      /\ DrainsInit /\ DisruptionInit /\ CloudPoolsInit
                      /\ SettingsInit /\ CleanupInit /\ PricingInit
  BY DEF ServicesInit
<1>2. [ServicesNext]_services => /\ [OpsNext]_opsVars
                                 /\ [StoreNext]_storeVars
                                 /\ [AlertsNext]_alertsVars
                                 /\ [ChannelsNext]_channelsVars
                                 /\ [DrainsNext]_drainsVars
                                 /\ [DisruptionNext]_disruptionVars
                                 /\ [CloudPoolsNext]_poolVars
                                 /\ [SettingsNext]_settingsVars
                                 /\ [CleanupNext]_cleanupVars
                                 /\ [PricingNext]_pricingVars
  <2>1. CASE UNCHANGED services
    BY Zenon, <2>1 DEF services
  <2>2. CASE ServicesNext
    BY Zenon, <2>2 DEF ServicesNext
  <2> QED
    BY <2>1, <2>2
<1> QED
  BY <1>1, <1>2, PTL
     DEF ServicesSpec, OpsPart, StorePart, AlertsPart, ChannelsPart, DrainsPart,
         DisruptionPart, PoolsPart, SettingsPart, CleanupPart, PricingPart

-----------------------------------------------------------------------------
(* The audit log.                                                            *)

\* In the whole the audit log starts and goes on as it does alone.
LEMMA AuditInServices == ServicesSpec => AuditSpec
<1>1. ServicesInit => AuditInit
  BY DEF ServicesInit
<1>2. [ServicesNext]_services => [AuditNext]_allVars
  BY Zenon DEF ServicesNext, services
<1> QED
  BY <1>1, <1>2, PTL DEF ServicesSpec, AuditSpec

\* The log, the ring and the channel of the writer keep their types.
LEMMA AuditTyped == AuditSpec => []AuditTypeOK
<1>1. AuditInv => AuditTypeOK
  BY DEF AuditInv
<1>2. Inv => TypeOK
  BY DEF Inv
<1> QED
  BY <1>1, <1>2, AuditIsWriter, AuditStart, AuditInductive, InvariantHolds, PTL DEF AuditSpec

\* The audit log and its writer (internal/store) keep their promise in the
\* whole: the rows follow the records, nothing is sent on the closed channel,
\* what was accepted before the shutdown is run, in order.
THEOREM AuditKeepsItsWord ==
  ServicesSpec => []LogInOrder /\ []NoSendOnClosed /\ []SurvivesShutdown /\ KeepsPromise
BY AuditInServices, LogKeptInOrder, AuditIsWriter, NeverPanics, NothingEarlyIsLost,
   PromiseKept, PTL

-----------------------------------------------------------------------------
\* The lock of a node, and those who drain it.

\* The lock, the workers, the pods on the node and the drain keep their types.
LEMMA DrainsTyped == DrainsPart => []DrainsTypeOK
<1> USE DrainsAssumption DEF DrainsTypeOK, Lockers, Free
<1>1. DrainsInit => DrainsTypeOK
  <2> SUFFICES ASSUME DrainsInit PROVE DrainsTypeOK
    OBVIOUS
  <2>1. lock \in [by : Lockers, age : 0 .. MaxAge] \union {Free}
    BY Zenon DEF DrainsInit
  <2>2. working \subseteq Lockers /\ expired \subseteq working /\ onNode \subseteq DrainPods
    BY DEF DrainsInit
  <2>3. doomedNode \in BOOLEAN /\ cordoned \in BOOLEAN /\ toDrain = NoDrain
    BY DEF DrainsInit
  <2>4. allowance \in 0 .. 1
    BY DEF DrainsInit
  <2> QED
    BY Zenon, <2>1, <2>2, <2>3, <2>4
<1>2. DrainsTypeOK /\ [DrainsNext]_drainsVars => DrainsTypeOK'
  <2> SUFFICES ASSUME DrainsTypeOK, [DrainsNext]_drainsVars PROVE DrainsTypeOK'
    OBVIOUS
  <2>1. ASSUME NEW c \in Lockers, TryLock(c) PROVE DrainsTypeOK'
    BY <2>1 DEF TryLock
  <2>2. ASSUME NEW c \in Lockers, Unlock(c) PROVE DrainsTypeOK'
    BY <2>2 DEF Unlock, Released
  <2>3. ASSUME NEW c \in Lockers, NEW p \in DrainPods, LockerEvicts(c, p) PROVE DrainsTypeOK'
    BY <2>3 DEF LockerEvicts, Evicted
  <2>4. CASE ExpireStale
    BY <2>4 DEF ExpireStale
  <2>5. CASE LockAges
    BY <2>5 DEF LockAges
  <2>6. CASE BudgetReturns
    BY <2>6 DEF BudgetReturns
  <2>7. ASSUME NEW p \in DrainPods, PodLands(p) PROVE DrainsTypeOK'
    BY <2>7 DEF PodLands
  <2>8. CASE Announced \/ StartDrain \/ EndDrain
    BY <2>8 DEF Announced, StartDrain, EndDrain, NoDrain
  <2>9. ASSUME NEW p \in toDrain, p # "none", DrainNext(p) PROVE DrainsTypeOK'
    BY <2>9 DEF DrainNext, Evicted, NoDrain
  <2>10. CASE UNCHANGED drainsVars
    BY <2>10 DEF drainsVars
  <2> QED
    BY <2>1, <2>2, <2>3, <2>4, <2>5, <2>6, <2>7, <2>8, <2>9, <2>10 DEF DrainsNext
<1> QED
  BY <1>1, <1>2, PTL DEF DrainsPart

\* The node lock (internal/controller/nodelock): of the controllers that took
\* it one at a time works on the node, and others only after their lock expired
\* under them. By itself inductive, with the types.
THEOREM NodesLockedOnce == ServicesSpec => []OneAtATime
<1> USE DEF OneAtATime, Lockers, Free
<1>1. DrainsInit => OneAtATime
  BY DEF DrainsInit
<1>2. DrainsTypeOK /\ OneAtATime /\ [DrainsNext]_drainsVars => OneAtATime'
  <2> SUFFICES ASSUME DrainsTypeOK, OneAtATime, [DrainsNext]_drainsVars PROVE OneAtATime'
    OBVIOUS
  <2> USE DEF DrainsTypeOK
  <2>1. ASSUME NEW c \in Lockers, TryLock(c) PROVE OneAtATime'
    BY <2>1 DEF TryLock
  <2>2. ASSUME NEW c \in Lockers, Unlock(c) PROVE OneAtATime'
    BY <2>2 DEF Unlock, Released
  <2>3. CASE ExpireStale
    BY <2>3 DEF ExpireStale
  <2>4. CASE LockAges
    BY <2>4 DEF LockAges
  <2>5. CASE UNCHANGED <<lock, working, expired>>
    BY <2>5
  <2> QED
    BY <2>1, <2>2, <2>3, <2>4, <2>5 DEF DrainsNext, LockerEvicts, BudgetReturns,
       PodLands, Announced, StartDrain, EndDrain, DrainNext, drainsVars
<1> QED
  BY <1>1, <1>2, DrainsTyped, EachPart, PTL DEF DrainsPart

-----------------------------------------------------------------------------
\* Disruption budgets.

\* A count is a status of the budget's rule.
LEMMA CountedIs ==
  ASSUME NEW r \in Rules, NEW g \in Guarded
  PROVE  LET s == Counted(r, g)
         IN  /\ s \in StatusRecord /\ s.granted = 0 /\ s.allowed <= MostPods
             /\ s.expected = 0 => s.allowed = 0
             /\ s.expected > 0 /\ s.allowed = 0 => s.healthy <= s.desired
<1> DEFINE s == Counted(r, g)
           d == Desired(r, g.expected)
<1> USE DisruptionAssumption DEF Guarded
<1>1. d \in 0 .. MostPods
  BY SMT DEF Desired, Rules
<1>2. Surplus(g.expected, g.healthy, d) \in 0 .. MostPods
  <2> HIDE DEF d
  <2> QED
    BY <1>1 DEF Surplus
<1>3. s = [expected |-> g.expected, healthy |-> g.healthy, desired |-> d,
           allowed |-> Surplus(g.expected, g.healthy, d), granted |-> 0]
  BY Zenon DEF Counted
<1> HIDE DEF s, d
<1> QED
  BY <1>1, <1>2, <1>3 DEF StatusRecord, Surplus, s

\* No disruption is allowed without pods; and that none is allowed, of a status
\* that was counted and from which nothing was taken since, means that no more
\* pods are healthy than are desired.
StatusSound ==
  /\ status.expected = 0 => status.allowed = 0
  /\ status.granted = 0 /\ status.expected > 0 /\ status.allowed = 0 =>
       status.healthy <= status.desired

\* The budget, its pods and its status keep their types and what they mean.
LEMMA BudgetHolds == DisruptionPart => [](DisruptionTypeOK /\ StatusSound)
<1> USE DisruptionAssumption DEF DisruptionTypeOK, StatusSound
<1>1. DisruptionInit => DisruptionTypeOK /\ StatusSound
  <2> SUFFICES ASSUME DisruptionInit PROVE DisruptionTypeOK /\ StatusSound
    OBVIOUS
  <2>1. budget \in Budget /\ guarded \in Guarded /\ status \in StatusRecord
    BY DEF DisruptionInit, Budget, Rules, Guarded, StatusRecord, Uncounted
  <2>2. /\ status.expected = 0 /\ status.allowed = 0 /\ status.granted = 0 /\ held \in BOOLEAN
    BY DEF DisruptionInit, Uncounted
  <2> QED
    BY <2>1, <2>2
<1>2. DisruptionTypeOK /\ StatusSound /\ [DisruptionNext]_disruptionVars =>
        (DisruptionTypeOK /\ StatusSound)'
  <2> SUFFICES ASSUME DisruptionTypeOK, StatusSound, [DisruptionNext]_disruptionVars
               PROVE  (DisruptionTypeOK /\ StatusSound)'
    OBVIOUS
  <2>1. CASE CreateBudget
    <3>1. Uncounted \in StatusRecord
      BY DEF Uncounted, StatusRecord
    <3> QED
      BY <2>1, <3>1 DEF CreateBudget, Uncounted
  <2>2. CASE PodsChange
    BY <2>2 DEF PodsChange
  <2>3. CASE CountPods
    <3>1. budget.rule \in Rules
      BY DEF Budget
    <3>2. status' = Counted(budget.rule, guarded) /\ UNCHANGED <<budget, guarded, held>>
      BY <2>3 DEF CountPods
    <3> QED
      BY <3>1, <3>2, CountedIs DEF StatusRecord
  <2>4. CASE GrantEviction
    <3>1. /\ UNCHANGED <<budget, guarded, held>>
          /\ status.allowed \in 1 .. MostPods /\ status.granted \in 0 .. MostPods
      BY <2>4 DEF GrantEviction, StatusRecord
    <3>2. status' = [status EXCEPT !.allowed = status.allowed - 1,
                                   !.granted = status.granted + 1]
      BY <2>4 DEF GrantEviction
    <3>3. /\ status'.allowed = status.allowed - 1 /\ status'.granted = status.granted + 1
          /\ status'.expected = status.expected
      BY <3>2 DEF StatusRecord
    <3>4. status.allowed - 1 \in 0 .. MostPods /\ status.granted + 1 \in 0 .. MostPods
      BY <3>1
    <3>5. status' \in StatusRecord
      BY <3>2, <3>4 DEF StatusRecord
    <3>6. status.expected # 0 /\ status.granted + 1 # 0
      BY <3>1
    <3> QED
      BY <3>1, <3>3, <3>5, <3>6
  <2>5. CASE BudgetAges
    BY <2>5 DEF BudgetAges, Budget
  <2>6. CASE ReadBudget \/ LeaveBudget
    BY <2>6 DEF ReadBudget, LeaveBudget
  <2>7. CASE DeleteBudget
    BY <2>7 DEF DeleteBudget, Budget
  <2>8. CASE UNCHANGED disruptionVars
    BY <2>8 DEF disruptionVars
  <2> QED
    BY <2>1, <2>2, <2>3, <2>4, <2>5, <2>6, <2>7, <2>8 DEF DisruptionNext
<1> QED
  BY <1>1, <1>2, PTL DEF DisruptionPart

\* The pages on disruption budgets and their deletion (scaledown.go and
\* inefficiency.go of internal/apiserver/handler) agree, on every status that the
\* disruption controller and the eviction API can leave.
THEOREM BudgetsAreJudgedAlike == ServicesSpec => []BudgetsJudgedAlike
<1>1. DisruptionTypeOK /\ StatusSound => BudgetsJudgedAlike
  <2> SUFFICES ASSUME DisruptionTypeOK, StatusSound PROVE BudgetsJudgedAlike
    OBVIOUS
  <2> DEFINE blocker == BlockerReason(budget.rule, status)
             bad == BadReason(budget, status)
  <2>1. /\ budget.rule \in Rules
        /\ status.allowed \in Nat /\ status.expected \in Nat /\ status.desired \in Nat
        /\ status.healthy \in Nat /\ status.granted \in Nat
    BY DisruptionAssumption DEF DisruptionTypeOK, Budget, StatusRecord
  <2>2. CASE status.allowed # 0
    <3>1. blocker = "" /\ bad = ""
      BY <2>1, <2>2 DEF BlockerReason, BadReason, StatusSound
    <3> QED
      BY <3>1 DEF BudgetsJudgedAlike
  <2>3. CASE status.allowed = 0
    <3>1. blocker # "" /\ MayDelete(status)
      BY <2>3 DEF BlockerReason, MayDelete
    <3>2. status.expected > 0 => bad # ""
      BY <2>1, <2>3 DEF BadReason
    <3>3. blocker = "unknown" => status.desired = 0 \/ status.granted > 0
      BY <2>1, <2>3 DEF BlockerReason, StatusSound
    <3>4. bad \notin {"", "single", "orphaned"} => blocker \in {bad, "unknown"}
      BY <2>1, <2>3 DEF BadReason, BlockerReason
    <3> QED
      BY <3>1, <3>2, <3>3, <3>4 DEF BudgetsJudgedAlike
  <2> QED
    BY <2>2, <2>3
<1> QED
  BY <1>1, BudgetHolds, EachPart, PTL

-----------------------------------------------------------------------------
\* Pools of the clouds.

\* What a call that sets a bound will write of the settings it was not asked
\* for is what they still are, unless somebody else changed them since.
AsRead ==
  call.kind \in Setters =>
    /\ pool.vendor = "azure" /\ "count" \notin touched => pool.count = call.seen.count
    /\ pool.vendor = "azure" \/ (pool.auto /\ "auto" \notin touched) =>
         /\ call.kind = "min" /\ "max" \notin touched => pool.max = call.seen.max
         /\ call.kind = "max" /\ "min" \notin touched => pool.min = call.seen.min

\* A size on its way is within the bounds of the pool, unless somebody else
\* changed those since it was checked.
SizeChecked ==
  call.kind = "scale" /\ pool.auto /\ touched \intersect {"auto", "min", "max"} = {} =>
    \/ pool.min <= call.value /\ call.value <= pool.max
    \/ pool.vendor = "azure" /\ call.value = 0

\* The cloud takes what it has, and what a call under way carries is of now.
PoolsInv == CloudPoolsTypeOK /\ Accepted(pool) /\ AsRead /\ SizeChecked

\* The size of a pool is bounded, whatever it has of zones.
LEMMA MostIs ==
  /\ MostNodes * MaxZones \in Nat /\ MostNodes <= MostNodes * MaxZones
  /\ \A v \in 0 .. MostNodes, z \in 1 .. MaxZones : v * z \in 0 .. MostNodes * MaxZones
<1> USE CloudPoolsAssumption
<1>1. MostNodes \in Nat /\ MaxZones \in Nat /\ 1 <= MaxZones
  OBVIOUS
<1>2. 1 * MostNodes <= MaxZones * MostNodes
  BY <1>1, Times
<1>3. ASSUME NEW v \in 0 .. MostNodes, NEW z \in 1 .. MaxZones
      PROVE  v * z \in 0 .. MostNodes * MaxZones
  <2>1. v \in Nat /\ z \in Nat /\ v <= MostNodes /\ z <= MaxZones
    OBVIOUS
  <2>2. v * z <= MostNodes * z
    BY <1>1, <2>1, Times
  <2>3. z * MostNodes <= MaxZones * MostNodes
    BY <1>1, <2>1, Times
  <2>4. v * z \in Nat /\ MostNodes * z = z * MostNodes /\ MaxZones * MostNodes = MostNodes * MaxZones
    BY <1>1, <2>1
  <2> QED
    BY <1>1, <2>1, <2>2, <2>3, <2>4
<1> QED
  BY <1>1, <1>2, <1>3

\* What a vendor makes of a call is a pool of the same vendor and as many zones.
LEMMA WrittenPool ==
  ASSUME pool \in PoolRecord,
         call \in Call({"scale"}, SeenBounds) \union Call(Setters, SeenPool)
  PROVE  /\ Written(pool, call) \in PoolRecord
         /\ Written(pool, call).vendor = pool.vendor /\ Written(pool, call).zones = pool.zones
<1> DEFINE M == MostNodes * MaxZones
<1>0. M \in Nat /\ MostNodes <= M
  BY MostIs
<1>m. call.value * pool.zones \in 0 .. M
  BY MostIs DEF PoolRecord, Call
<1> HIDE DEF M
<1>p. PoolRecord = [vendor : Clouds, auto : BOOLEAN, min : 0 .. MostNodes, max : 0 .. Uncapped,
                    count : 0 .. M, zones : 1 .. MaxZones, unit : {"zone", "total"}]
  BY Zenon DEF PoolRecord, M
<1>s. SeenPool = [min : 0 .. MostNodes, max : 0 .. Uncapped, count : 0 .. M]
  BY Zenon DEF SeenPool, M
<1> USE CloudPoolsAssumption, <1>0, <1>p
<1>1. CASE call \in Call({"scale"}, SeenBounds)
  <2>1. Written(pool, call) = [pool EXCEPT !.count = call.value * pool.zones]
    BY <1>1 DEF Written, Call
  <2> DEFINE n == call.value * pool.zones
  <2>2. n \in 0 .. M /\ Written(pool, call) = [pool EXCEPT !.count = n]
    BY <1>m, <2>1
  <2> HIDE DEF n
  <2> QED
    BY <2>2
<1>2. CASE call \in Call(Setters, SeenPool)
  <2>1. /\ call.kind \in {"min", "max"} /\ call.kind # "scale"
        /\ call.value \in 0 .. MostNodes /\ call.value \in 0 .. Uncapped
        /\ call.seen \in SeenPool
    BY <1>2 DEF Call, Setters
  <2>2. /\ Bounded(call).min \in 0 .. MostNodes /\ Bounded(call).max \in 0 .. Uncapped
        /\ call.seen.count \in 0 .. M
    BY <2>1, <1>s DEF Bounded
  <2>3. CASE pool.vendor = "gcp"
    BY <2>1, <2>2, <2>3 DEF Written
  <2>4. CASE pool.vendor = "azure"
    BY <2>1, <2>2, <2>4 DEF Written
  <2>n. pool.count \in 0 .. M /\ call.value \in 0 .. M
    BY <2>1
  <2>5. CASE pool.vendor = "aws" /\ call.kind = "min"
    <3> DEFINE n == IF pool.count < call.value THEN call.value ELSE pool.count
    <3>1. Written(pool, call) = [pool EXCEPT !.min = call.value, !.count = n]
      BY <2>1, <2>5 DEF Written
    <3>2. n \in 0 .. M
      BY <2>n
    <3> HIDE DEF n
    <3> QED
      BY <2>1, <3>1, <3>2
  <2>6. CASE pool.vendor = "aws" /\ call.kind = "max"
    <3> DEFINE n == IF pool.count > call.value THEN call.value ELSE pool.count
    <3>1. Written(pool, call) = [pool EXCEPT !.max = call.value, !.count = n]
      BY <2>1, <2>6 DEF Written
    <3>2. n \in 0 .. M
      BY <2>n
    <3> HIDE DEF n
    <3> QED
      BY <2>1, <3>1, <3>2
  <2> QED
    BY <2>1, <2>3, <2>4, <2>5, <2>6 DEF Clouds
<1> QED
  BY <1>1, <1>2

\* A call carries what its kind needs.
LEMMA CallKinds ==
  ASSUME CloudPoolsTypeOK
  PROVE  /\ call.kind \in {"none", "scale", "min", "max"}
         /\ call = Idle <=> call.kind = "none"
         /\ call.kind = "scale" => call \in Call({"scale"}, SeenBounds)
         /\ call.kind \in Setters => call \in Call(Setters, SeenPool)
  BY DEF CloudPoolsTypeOK, Call, Idle, Setters

\* Every step keeps the invariant of the pools.
LEMMA PoolsInductive == PoolsInv /\ [CloudPoolsNext]_poolVars => PoolsInv'
<1> USE CloudPoolsAssumption
<1> SUFFICES ASSUME PoolsInv, [CloudPoolsNext]_poolVars PROVE PoolsInv'
  OBVIOUS
<1> USE DEF PoolsInv
<1>1. ASSUME NEW n \in 0 .. MostNodes, AskScale(n) PROVE PoolsInv'
  <2>1. PICK b \in Bounds(pool) : AllowedSize(pool.vendor, b, n) /\ Begin("scale", n, b)
    BY <1>1 DEF AskScale
  <2>2. b \in SeenBounds
    BY DEF Bounds, SeenBounds, CloudPoolsTypeOK, PoolRecord
  <2>3. CloudPoolsTypeOK'
    BY <2>1, <2>2 DEF Begin, CloudPoolsTypeOK, Call
  <2>4. SizeChecked'
    BY <2>1 DEF Begin, SizeChecked, AllowedSize, Bounds, Accepted,
           CloudPoolsTypeOK, PoolRecord, Clouds
  <2> QED
    BY <2>1, <2>3, <2>4 DEF Begin, AsRead, Setters, Accepted
<1>2. ASSUME NEW n \in 0 .. MostNodes, NEW k \in Setters, AskBound(k, n) PROVE PoolsInv'
  <2>1. PICK b \in Bounds(pool) :
          /\ pool.vendor = "azure" => b.min = pool.min /\ b.max = pool.max
          /\ Begin(k, n, [min |-> b.min, max |-> b.max, count |-> pool.count])
    BY <1>2 DEF AskBound
  <2>2. /\ b.min \in 0 .. MostNodes /\ b.max \in 0 .. Uncapped
        /\ pool.count \in 0 .. MostNodes * MaxZones
        /\ pool.auto => pool.vendor = "azure" \/ (b.min = pool.min /\ b.max = pool.max)
    BY DEF Bounds, CloudPoolsTypeOK, PoolRecord
  <2>3. CloudPoolsTypeOK'
    BY <2>1, <2>2 DEF Begin, CloudPoolsTypeOK, Call, SeenPool
  <2>4. AsRead'
    BY <2>1, <2>2 DEF Begin, AsRead
  <2> QED
    BY <2>1, <2>3, <2>4 DEF Begin, SizeChecked, Setters, Accepted
<1>3. CASE SendCall
  <2>1. call' = Idle /\ touched' = {} /\ outside' = outside /\ Accepted(pool')
        /\ pool' = Written(pool, call) /\ call # Idle
    BY <1>3 DEF SendCall, Carry
  <2>2. pool' \in PoolRecord
    BY <2>1, WrittenPool DEF CloudPoolsTypeOK
  <2> QED
    BY <2>1, <2>2 DEF CloudPoolsTypeOK, Accepted, AsRead, SizeChecked, Idle, Setters
<1>4. CASE CallFails
  BY <1>4 DEF CallFails, CloudPoolsTypeOK, AsRead, SizeChecked, Idle, Setters, Accepted
<1>5. CASE SendCallAgain
  <2>1. /\ call' = [call EXCEPT !.sends = @ + 1] /\ touched' = touched /\ outside' = outside
        /\ Accepted(pool') /\ pool' = Written(pool, call) /\ call # Idle
        /\ pool.vendor = "azure" /\ call.sends < MaxSends - 1
    BY <1>5 DEF SendCallAgain, Carry
  <2>2. pool' \in PoolRecord /\ pool'.vendor = pool.vendor
    BY <2>1, WrittenPool DEF CloudPoolsTypeOK
  <2>3. CASE call.kind = "scale"
    <3>1. call \in Call({"scale"}, SeenBounds)
      BY <2>3, CallKinds
    <3>2. call' \in Call({"scale"}, SeenBounds) /\ call'.kind = "scale" /\ call'.value = call.value
      BY <2>1, <3>1 DEF Call
    <3>3. pool'.min = pool.min /\ pool'.max = pool.max /\ pool'.auto = pool.auto
      BY <2>1, <2>3 DEF Written, CloudPoolsTypeOK, PoolRecord
    <3>4. CloudPoolsTypeOK'
      BY <2>1, <2>2, <3>2 DEF CloudPoolsTypeOK, Accepted
    <3> QED
      BY <2>1, <2>2, <3>2, <3>3, <3>4 DEF AsRead, SizeChecked, Setters
  <2>4. CASE call.kind \in Setters
    <3>1. call \in Call(Setters, SeenPool)
      BY <2>4, CallKinds
    <3>2. /\ call' \in Call(Setters, SeenPool)
          /\ call'.kind = call.kind /\ call'.seen = call.seen
      BY <2>1, <3>1 DEF Call
    <3>3. pool'.count = call.seen.count
      BY <2>1, <2>4, <3>1 DEF Written, CloudPoolsTypeOK, PoolRecord, Setters
    <3>4. /\ call.kind = "min" => pool'.max = call.seen.max
          /\ call.kind = "max" => pool'.min = call.seen.min
      BY <2>1, <2>4 DEF Written, Bounded, CloudPoolsTypeOK, PoolRecord, Setters
    <3>5. CloudPoolsTypeOK'
      BY <2>1, <2>2, <3>2 DEF CloudPoolsTypeOK, Accepted
    <3> QED
      BY <2>1, <2>4, <3>2, <3>3, <3>4, <3>5 DEF AsRead, SizeChecked, Setters
  <2> QED
    BY <2>1, <2>3, <2>4, CallKinds DEF Setters
<1>6. ASSUME NEW a \in BOOLEAN, NEW lo \in 0 .. MostNodes, NEW hi \in 0 .. MostNodes,
             NEW n \in 0 .. MostNodes, NEW u \in {"zone", "total"},
             Elsewhere([pool EXCEPT !.auto = a, !.min = lo, !.max = hi, !.count = n, !.unit = u])
      PROVE  PoolsInv'
  <2> DEFINE fields == {"auto", "min", "max", "count", "unit"}
  <2>1. /\ pool' = [pool EXCEPT !.auto = a, !.min = lo, !.max = hi, !.count = n, !.unit = u]
        /\ Sound(pool') /\ outside < MaxOthers /\ outside' = outside + 1 /\ call' = call
        /\ touched' = touched \union {f \in fields : pool'[f] # pool[f]}
    BY <1>6 DEF Elsewhere
  <2>2. pool \in PoolRecord /\ n \in 0 .. MostNodes * MaxZones /\ hi \in 0 .. Uncapped
    BY MostIs DEF CloudPoolsTypeOK
  <2>3. pool' \in PoolRecord /\ pool'.vendor = pool.vendor
    BY <2>1, <2>2 DEF PoolRecord
  <2>4. CloudPoolsTypeOK'
    BY <2>1, <2>3 DEF CloudPoolsTypeOK, Sound
  <2>5. Accepted(pool')
    BY <2>1 DEF Sound, Accepted
  <2>6. \A f \in fields : f \notin touched' => f \notin touched /\ pool'[f] = pool[f]
    BY <2>1
  <2>7. /\ "auto" \notin touched' => "auto" \notin touched /\ pool'.auto = pool.auto
        /\ "min" \notin touched' => "min" \notin touched /\ pool'.min = pool.min
        /\ "max" \notin touched' => "max" \notin touched /\ pool'.max = pool.max
        /\ "count" \notin touched' => "count" \notin touched /\ pool'.count = pool.count
    BY <2>2, <2>3, <2>6 DEF PoolRecord
  <2>8. AsRead'
    BY <2>1, <2>3, <2>7 DEF AsRead
  <2>9. SizeChecked'
    BY <2>1, <2>3, <2>7 DEF SizeChecked
  <2> QED
    BY <2>4, <2>5, <2>8, <2>9
<1>7. CASE UNCHANGED poolVars
  BY <1>7 DEF poolVars, CloudPoolsTypeOK, AsRead, SizeChecked, Accepted
<1> QED
  BY <1>1, <1>2, <1>3, <1>4, <1>5, <1>6, <1>7 DEF CloudPoolsNext

\* It holds at the start.
LEMMA PoolsStart == CloudPoolsInit => PoolsInv
<1> SUFFICES ASSUME CloudPoolsInit PROVE PoolsInv
  OBVIOUS
<1> USE CloudPoolsAssumption
<1>1. /\ pool \in [vendor : Clouds, auto : BOOLEAN, min : 0 .. MostNodes, max : 0 .. MostNodes,
                   count : 0 .. MostNodes, zones : 1 .. MaxZones, unit : {"zone", "total"}]
      /\ Sound(pool) /\ call = Idle /\ touched = {} /\ outside = 0
  BY Zenon DEF CloudPoolsInit
<1>2. pool.count \in 0 .. MostNodes * MaxZones /\ pool.max \in 0 .. Uncapped
  BY <1>1, MostIs
<1>3. pool \in PoolRecord
  BY <1>1, <1>2 DEF PoolRecord
<1> QED
  BY <1>1, <1>3 DEF PoolsInv, CloudPoolsTypeOK, Sound, Accepted, AsRead, SizeChecked,
     Idle, Setters

\* What a call writes that sets a bound or the size.
LEMMA SetterWrites ==
  ASSUME PoolsInv, NEW k \in {"scale", "min", "max"}, Sets(k)
  PROVE  /\ pool \in PoolRecord /\ call.kind = k /\ pool' = Written(pool, call)
         /\ pool'.zones = pool.zones
         /\ k = "scale" => call.value \in 0 .. MostNodes /\ pool'.count = call.value * pool.zones
<1>1. call.kind = k /\ pool' = Written(pool, call) /\ pool \in PoolRecord
  BY DEF Sets, SendCall, SendCallAgain, Carry, PoolsInv, CloudPoolsTypeOK
<1>2. /\ call \in Call({"scale"}, SeenBounds) \union Call(Setters, SeenPool)
      /\ k = "scale" => call \in Call({"scale"}, SeenBounds)
  BY <1>1, CallKinds DEF PoolsInv, Setters
<1>3. pool'.zones = pool.zones
  BY <1>1, <1>2, WrittenPool
<1>4. k = "scale" => call.value \in 0 .. MostNodes /\ pool'.count = call.value * pool.zones
  BY <1>1, <1>2 DEF Written, Call, PoolRecord
<1> QED
  BY <1>1, <1>3, <1>4

\* A call that sets one bound keeps the other, in the unit in which it was read.
LEMMA BoundKept ==
  ASSUME PoolsInv, NEW k \in Setters, Sets(k), pool.auto, OneUnit(pool), "auto" \notin touched
  PROVE  /\ k = "min" /\ "max" \notin touched => Highest(pool') = Highest(pool)
         /\ k = "max" /\ "min" \notin touched => Lowest(pool') = Lowest(pool)
<1>1. /\ pool \in PoolRecord /\ call.kind = k /\ pool' = Written(pool, call)
      /\ pool'.zones = pool.zones /\ k \in {"min", "max"}
  BY SetterWrites DEF Setters
<1>2. /\ k = "min" /\ "max" \notin touched => pool'.max = pool.max
      /\ k = "max" /\ "min" \notin touched => pool'.min = pool.min
  BY <1>1 DEF PoolsInv, AsRead, Written, Bounded, PoolRecord, Clouds, Setters
<1>3. pool'.unit = pool.unit \/ pool'.unit = "zone"
  BY <1>1 DEF Written, PoolRecord, Clouds
<1>4. \A n \in Nat : InAll(n, pool') = InAll(n, pool)
  BY <1>1, <1>3 DEF InAll, OneUnit, PoolRecord
<1>5. pool.max \in Nat /\ pool.min \in Nat
  BY <1>1, CloudPoolsAssumption DEF PoolRecord
<1> QED
  BY <1>2, <1>4, <1>5 DEF Highest, Lowest

\* It keeps the count, except that an ASG follows its bounds.
LEMMA CountKept ==
  ASSUME PoolsInv, NEW k \in Setters, Sets(k), pool.vendor # "aws", "count" \notin touched
  PROVE  pool'.count = pool.count
<1>1. /\ pool \in PoolRecord /\ call.kind = k /\ pool' = Written(pool, call) /\ k # "scale"
  BY SetterWrites DEF Setters
<1> QED
  BY <1>1 DEF PoolsInv, AsRead, Written, PoolRecord, Clouds, Setters

\* A call that sets the size sets one that the bounds allow.
LEMMA SizeSent ==
  ASSUME PoolsInv, Sets("scale"), StillBounded({"auto", "unit", "min", "max"})
  PROVE  \/ pool'.count \in Lowest(pool) .. Highest(pool)
         \/ pool.vendor = "azure" /\ pool'.count = 0
<1>1. /\ pool \in PoolRecord /\ call.kind = "scale" /\ call.value \in 0 .. MostNodes
      /\ pool'.count = call.value * pool.zones
  BY SetterWrites
<1>2. /\ pool.min \in Nat /\ pool.max \in Nat /\ pool.zones \in Nat /\ call.value \in Nat
  BY <1>1, CloudPoolsAssumption DEF PoolRecord
<1>3. \/ pool.min <= call.value /\ call.value <= pool.max
      \/ pool.vendor = "azure" /\ call.value = 0
  BY <1>1 DEF PoolsInv, SizeChecked, StillBounded
<1>4. CASE pool.min <= call.value /\ call.value <= pool.max
  <2>1. /\ pool.min * pool.zones <= call.value * pool.zones
        /\ call.value * pool.zones <= pool.max * pool.zones
    BY <1>2, <1>4, Times
  <2>2. /\ pool.min * pool.zones \in Nat /\ pool.max * pool.zones \in Nat
        /\ call.value * pool.zones \in Nat
    BY <1>2
  <2>3. CASE pool.unit = "zone"
    BY <1>1, <2>1, <2>2, <2>3 DEF Lowest, Highest, InAll
  <2>4. CASE pool.unit # "zone"
    <3>1. pool.zones = 1
      BY <2>4 DEF StillBounded, OneUnit
    <3>2. pool'.count = call.value
      BY <1>1, <1>2, <3>1
    <3> QED
      BY <1>2, <1>4, <2>4, <3>2 DEF Lowest, Highest, InAll
  <2> QED
    BY <2>3, <2>4
<1>5. CASE pool.vendor = "azure" /\ call.value = 0
  BY <1>1, <1>2, <1>5
<1> QED
  BY <1>3, <1>4, <1>5

\* The providers of the clouds (internal/cloud) write back, with what they were
\* asked to set, only what nobody else has changed, and a size within bounds, in
\* every pool whose bounds are read in the unit in which they are written.
THEOREM PoolsAreRespected == ServicesSpec => PoolsRespected
<1>1. PoolsInv =>
        /\ Sets("min") /\ StillBounded({"auto", "unit", "max"}) => Highest(pool') = Highest(pool)
        /\ Sets("max") /\ StillBounded({"auto", "unit", "min"}) => Lowest(pool') = Lowest(pool)
        /\ Sets("min") \/ Sets("max") =>
             pool.vendor = "aws" \/ "count" \in touched \/ pool'.count = pool.count
  BY BoundKept, CountKept DEF StillBounded, Setters
<1>2. PoolsInv =>
        ( Sets("scale") /\ StillBounded({"auto", "unit", "min", "max"}) =>
        \/ pool'.count \in Lowest(pool) .. Highest(pool)
        \/ pool.vendor = "azure" /\ pool'.count = 0)
  BY SizeSent
<1> QED
  BY <1>1, <1>2, PoolsStart, PoolsInductive, EachPart, PTL
     DEF PoolsPart, PoolsRespected, OtherSettingsKept, SizeWithinBounds

-----------------------------------------------------------------------------
\* Settings, and the table that remembers them.

\* A setting with one undisturbed request under way has the value it asks for.
OneWriter ==
  \A q \in requests : Toggle(q.route) \notin muddled =>
    /\ config[Toggle(q.route)] = q.on
    /\ \A p \in requests : Toggle(p.route) = Toggle(q.route) => p = q

\* A start would restore what is settled.
Restorable == \A s \in Toggles : Settled(s) /\ ~ Forgotten(s) => config[s] = Restored[s]

\* The invariant: what is not muddled is known, in memory or in the table.
SettingsInv == SettingsTypeOK /\ OneWriter /\ Restorable

\* Which setting an endpoint sets.
LEMMA ToggleOfRoute ==
  \A r \in Routes :
    /\ Toggle(r) \in Toggles
    /\ Toggle(r) = "mode" <=> r = "mode"
    /\ Toggle(r) = "podPurger" <=> r \in {"pod-purger", "controllers/podPurger"}
    /\ Toggle(r) = "gpu" <=> r = "controllers/gpu"
    /\ Toggle(r) = "gpuReclaim" <=> r = "controllers/gpuReclaim"
    /\ Toggle(r) = "autoApprove" <=> r = "auto-approve"
  BY DEF Routes, Toggle, Toggles

\* What a key in the table says, over another value.
LEMMA OverFacts ==
  ASSUME NEW r, NEW b \in BOOLEAN
  PROVE  /\ Over(r, b) \in BOOLEAN
         /\ settingsTable[r] = Unset => Over(r, b) = b
         /\ settingsTable[r] # Unset => Over(r, b) = (settingsTable[r] = "on")
  BY Zenon DEF Over

\* What a start puts in place of the file, setting by setting.
RestoredFact ==
  /\ Restored \in [Toggles -> BOOLEAN]
  /\ Restored["mode"] = (settingsTable["mode"] = "on")
  /\ Restored["gpu"] = (settingsTable["controllers/gpu"] = "on")
  /\ Restored["autoApprove"] = (settingsTable["auto-approve"] = "on")
  /\ settingsTable["controllers/podPurger"] = Unset =>
       Restored["podPurger"] = (settingsTable["pod-purger"] = "on")
  /\ settingsTable["controllers/podPurger"] # Unset =>
       Restored["podPurger"] = (settingsTable["controllers/podPurger"] = "on")

\* What a start restores is in the table, for every state.
LEMMA RestoredToggles == RestoredFact
<1>0. \A r : /\ Over(r, FALSE) \in BOOLEAN
             /\ Over(r, FALSE) = (settingsTable[r] = "on")
  <2> TAKE r
  <2>1. Over(r, FALSE) \in BOOLEAN
    BY OverFacts
  <2>2. CASE settingsTable[r] = Unset
    <3>1. Over(r, FALSE) = FALSE
      BY <2>2, OverFacts
    <3>2. (settingsTable[r] = "on") = FALSE
      BY <2>2 DEF Unset
    <3> QED
      BY <2>1, <3>1, <3>2
  <2>3. CASE settingsTable[r] # Unset
    BY <2>1, <2>3, OverFacts
  <2> QED
    BY <2>2, <2>3
<1>2. /\ Over("controllers/podPurger", Over("pod-purger", FALSE)) \in BOOLEAN
      /\ settingsTable["controllers/podPurger"] = Unset =>
           Over("controllers/podPurger", Over("pod-purger", FALSE)) =
             (settingsTable["pod-purger"] = "on")
      /\ settingsTable["controllers/podPurger"] # Unset =>
           Over("controllers/podPurger", Over("pod-purger", FALSE)) =
             (settingsTable["controllers/podPurger"] = "on")
  BY <1>0, OverFacts
<1>3. File \in [Toggles -> BOOLEAN] /\ \A s \in Toggles : File[s] = FALSE
  BY DEF File
<1>4. /\ Restored \in [Toggles -> BOOLEAN]
      /\ Restored["mode"] = Over("mode", FALSE)
      /\ Restored["podPurger"] = Over("controllers/podPurger", Over("pod-purger", FALSE))
      /\ Restored["gpu"] = Over("controllers/gpu", FALSE)
      /\ Restored["autoApprove"] = Over("auto-approve", FALSE)
  BY <1>0, <1>2, <1>3 DEF Restored, Toggles
<1> QED
  BY <1>0, <1>2, <1>4 DEF RestoredFact

\* The same of the next state.
LEMMA RestoredNext == RestoredFact'
  BY RestoredToggles, PTL

\* Every step keeps the invariant of the settings.
LEMMA SettingsInductive == SettingsInv /\ [SettingsNext]_settingsVars => SettingsInv'
<1> SUFFICES ASSUME SettingsInv, [SettingsNext]_settingsVars PROVE SettingsInv'
  OBVIOUS
<1> USE DEF SettingsInv
<1>1. ASSUME NEW r \in Routes, NEW on \in BOOLEAN, ChangeSetting(r, on) PROVE SettingsInv'
  <2> DEFINE new == [route |-> r, on |-> on]
  <2>1. /\ config' = [config EXCEPT ![Toggle(r)] = on] /\ requests' = requests \union {new}
        /\ settingsTable' = settingsTable /\ askedFor' = askedFor + 1 /\ askedFor < MaxRequests
        /\ muddled' = IF InFlight(Toggle(r)) THEN muddled \union {Toggle(r)}
                    ELSE muddled \ {Toggle(r)}
    BY <1>1 DEF ChangeSetting
  <2>2. Toggle(r) \in Toggles /\ new \in Request /\ new.route = r /\ new.on = on
    BY ToggleOfRoute DEF Request
  <2>3. SettingsTypeOK'
    BY <2>1, <2>2, SettingsAssumption DEF SettingsTypeOK
  <2> HIDE DEF new
  <2>4. OneWriter'
    <3>1. \A q \in requests : Toggle(q.route) \in Toggles
      BY ToggleOfRoute DEF SettingsTypeOK, Request
    <3>2. \A q \in requests : Toggle(q.route) = Toggle(r) => InFlight(Toggle(r))
      BY DEF InFlight
    <3>3. CASE InFlight(Toggle(r))
      BY <2>1, <2>2, <3>1, <3>3 DEF OneWriter, SettingsTypeOK
    <3>4. CASE ~ InFlight(Toggle(r))
      BY <2>1, <2>2, <3>1, <3>2, <3>4 DEF OneWriter, SettingsTypeOK
    <3> QED
      BY <3>3, <3>4
  <2>5. Restorable'
    <3> SUFFICES ASSUME NEW s \in Toggles, Settled(s)', ~ Forgotten(s)'
                 PROVE  config'[s] = Restored'[s]
      BY DEF Restorable
    <3>1. new \in requests'
      BY <2>1
    <3>2. s # Toggle(r)
      BY <2>2, <3>1 DEF Settled, InFlight
    <3>3. Settled(s) /\ ~ Forgotten(s) /\ config'[s] = config[s]
      BY <2>1, <3>2 DEF Settled, InFlight, Forgotten, SettingsTypeOK
    <3>4. Restored' = Restored
      BY <2>1 DEF Restored, Over
    <3> QED
      BY <3>3, <3>4 DEF Restorable
  <2> QED
    BY <2>3, <2>4, <2>5
<1>2. ASSUME NEW q \in requests, Save(q) PROVE SettingsInv'
  <2>1. /\ settingsTable' = [settingsTable EXCEPT ![q.route] = IF q.on THEN "on" ELSE "off"]
        /\ requests' = requests \ {q} /\ UNCHANGED <<config, askedFor, muddled>>
    BY <1>2 DEF Save
  <2>2. q.route \in Routes /\ q.on \in BOOLEAN /\ Toggle(q.route) \in Toggles
    BY ToggleOfRoute DEF SettingsTypeOK, Request
  <2>3. SettingsTypeOK'
    BY <2>1 DEF SettingsTypeOK, Saved
  <2>4. OneWriter'
    BY <2>1 DEF OneWriter
  <2>5. Restorable'
    <3> SUFFICES ASSUME NEW s \in Toggles, Settled(s)', ~ Forgotten(s)'
                 PROVE  config[s] = Restored'[s]
      BY <2>1 DEF Restorable
    <3> USE DEF SettingsTypeOK
    <3>0. s \in {"mode", "podPurger", "gpu", "autoApprove"}
      BY DEF Forgotten, Toggles
    <3>1. CASE s = Toggle(q.route)
      <4>1. config[s] = q.on
        BY <2>1, <3>1 DEF Settled, OneWriter
      <4>2. settingsTable'[q.route] # Unset /\ (settingsTable'[q.route] = "on") = q.on
        BY <2>1, <2>2 DEF Unset
      <4>3. CASE s # "podPurger"
        <5>1. /\ s = "mode" => q.route = "mode"
              /\ s = "gpu" => q.route = "controllers/gpu"
              /\ s = "autoApprove" => q.route = "auto-approve"
          BY <2>2, <3>1, ToggleOfRoute
        <5> QED
          BY <2>2, <3>0, <4>1, <4>2, <4>3, <5>1, RestoredNext DEF RestoredFact
      <4>4. CASE s = "podPurger"
        <5>1. q.route \in {"pod-purger", "controllers/podPurger"}
          BY <2>2, <3>1, <4>4, ToggleOfRoute
        <5>2. {settingsTable'["pod-purger"], settingsTable'["controllers/podPurger"]} # Saved
          BY <4>4 DEF Forgotten
        <5> QED
          BY <2>3, <4>1, <4>2, <4>4, <5>1, <5>2, RestoredNext DEF RestoredFact,
                 Saved, Unset, Routes
      <4> QED
        BY <4>3, <4>4
    <3>2. CASE s # Toggle(q.route)
      <4>1. Settled(s)
        BY <2>1, <3>2 DEF Settled, InFlight
      <4>2. \A r \in Routes : Toggle(r) = s => settingsTable'[r] = settingsTable[r]
        BY <2>1, <2>2, <3>2
      <4>3. ~ Forgotten(s) /\ Restored'[s] = Restored[s]
        BY <3>0, <4>2, ToggleOfRoute, RestoredToggles, RestoredNext DEF Forgotten,
               RestoredFact, Routes
      <4> QED
        BY <4>1, <4>3 DEF Restorable
    <3> QED
      BY <3>1, <3>2
  <2> QED
    BY <2>3, <2>4, <2>5
<1>3. ASSUME NEW q \in requests, SaveFails(q) PROVE SettingsInv'
  <2>1. /\ requests' = requests \ {q} /\ muddled' = muddled \union {Toggle(q.route)}
        /\ UNCHANGED <<config, settingsTable, askedFor>>
    BY <1>3 DEF SaveFails
  <2>2. Toggle(q.route) \in Toggles
    BY ToggleOfRoute DEF SettingsTypeOK, Request
  <2>3. SettingsTypeOK'
    BY <2>1, <2>2 DEF SettingsTypeOK
  <2>4. OneWriter'
    BY <2>1 DEF OneWriter
  <2>5. \A s \in Toggles : Settled(s)' => Settled(s) /\ (Forgotten(s)' <=> Forgotten(s))
    BY <2>1 DEF Settled, InFlight, Forgotten
  <2>6. Restored' = Restored
    BY <2>1 DEF Restored, Over
  <2> QED
    BY <2>1, <2>3, <2>4, <2>5, <2>6 DEF Restorable
<1>4. CASE Restart
  <2>1. /\ config' = Restored /\ requests' = {} /\ muddled' = {}
        /\ UNCHANGED <<settingsTable, askedFor>>
    BY <1>4 DEF Restart
  <2>2. Restored' = Restored
    BY <2>1 DEF Restored, Over
  <2> QED
    BY <2>1, <2>2, RestoredToggles DEF RestoredFact, SettingsTypeOK, OneWriter,
           Restorable
<1>5. CASE UNCHANGED settingsVars
  <2>1. /\ UNCHANGED <<config, settingsTable, requests, askedFor, muddled>>
        /\ Restored' = Restored
        /\ \A s \in Toggles : Settled(s)' = Settled(s) /\ Forgotten(s)' = Forgotten(s)
    BY <1>5 DEF settingsVars, Settled, InFlight, Forgotten, Restored, Over
  <2> QED
    BY <2>1 DEF SettingsTypeOK, OneWriter, Restorable
<1> QED
  BY <1>1, <1>2, <1>3, <1>4, <1>5 DEF SettingsNext

\* It holds at the start, when the table is empty and all is off.
LEMMA SettingsStart == SettingsInit => SettingsInv
<1> SUFFICES ASSUME SettingsInit PROVE SettingsInv
  OBVIOUS
<1>1. File \in [Toggles -> BOOLEAN] /\ \A s \in Toggles : File[s] = FALSE
  BY DEF File
<1>2. SettingsTypeOK
  BY <1>1, SettingsAssumption DEF SettingsInit, SettingsTypeOK
<1>3. \A r \in Routes : settingsTable[r] = Unset
  BY DEF SettingsInit
<1>4. \A s \in Toggles : s # "gpuReclaim" => Restored[s] = FALSE
  BY <1>3, RestoredToggles DEF RestoredFact, Toggles, Routes, Unset
<1> QED
  BY <1>1, <1>2, <1>4 DEF SettingsInit, SettingsInv, OneWriter, Restorable, Forgotten

\* The settings (handler/config.go, cmd/controller/main.go): after a restart a
\* setting is what it was, if its last write did not fail and did not overlap
\* with another one, and unless it is one that the code forgets.
THEOREM SettingsSurvive == ServicesSpec => LastSetSurvives
<1>1. SettingsInv /\ [SettingsNext]_settingsVars =>
        [ Restart => \A s \in Toggles :
            Settled(s) /\ ~ Forgotten(s) => config'[s] = config[s] ]_settingsVars
  BY DEF SettingsInv, Restorable, Restart
<1> QED
  BY <1>1, SettingsStart, SettingsInductive, EachPart, PTL
     DEF SettingsPart, LastSetSurvives

-----------------------------------------------------------------------------
\* The pods that are deleted.

\* What a refresh has listed is at most one list, with no name twice.
ListedSound ==
  \A list \in listing :
    listing = {list} /\ \A p, q \in list : p.name = q.name => p = q

CleanupInv == CleanupTypeOK /\ ListedSound

\* The fields of a pod, and what is seen of it.
LEMMA PodFields ==
  \A p \in Pod :
    /\ p.name \in Names /\ p.life \in 1 .. MaxLives /\ p.old \in BOOLEAN
    /\ Look(p) \in PodSeen /\ Look(p).name = p.name
    /\ \A s \in {"well", "bad"} : [p EXCEPT !.state = s] \in Pod
    /\ [p EXCEPT !.old = TRUE] \in Pod /\ [p EXCEPT !.going = TRUE] \in Pod
    /\ \A s \in {"well", "bad"} : [p EXCEPT !.state = s].name = p.name
    /\ [p EXCEPT !.old = TRUE].name = p.name /\ [p EXCEPT !.going = TRUE].name = p.name
<1> SUFFICES ASSUME NEW p \in Pod
    PROVE  /\ p.name \in Names /\ p.life \in 1 .. MaxLives /\ p.old \in BOOLEAN
           /\ Look(p) \in PodSeen /\ Look(p).name = p.name
           /\ \A s \in {"well", "bad"} : [p EXCEPT !.state = s] \in Pod
           /\ [p EXCEPT !.old = TRUE] \in Pod /\ [p EXCEPT !.going = TRUE] \in Pod
           /\ \A s \in {"well", "bad"} : [p EXCEPT !.state = s].name = p.name
           /\ [p EXCEPT !.old = TRUE].name = p.name /\ [p EXCEPT !.going = TRUE].name = p.name
  OBVIOUS
<1> QED
  BY DEF Pod, PodSeen, Look

\* It holds at the start.
LEMMA CleanupStart == CleanupInit => CleanupInv
<1> SUFFICES ASSUME CleanupInit PROVE CleanupInv
  OBVIOUS
<1>1. Cardinality(listing) <= 1 /\ listing = {}
  BY FS_EmptySet DEF CleanupInit
<1> QED
  BY <1>1, CleanupAssumption DEF CleanupInit, CleanupInv, CleanupTypeOK, ListedSound

\* A pod that goes on under its name, or none in its place.
LEMMA PodsGoOn ==
  ASSUME CleanupInv, pods' \subseteq Pod, \A p, q \in pods' : p.name = q.name => p = q,
         doomed' \subseteq doomed, known' \subseteq known, asked' \subseteq Names,
         purger' \in [on : BOOLEAN, breaker : {"closed", "open", "trial"}],
         UNCHANGED <<born, listing>>
  PROVE  CleanupInv'
BY DEF CleanupInv, CleanupTypeOK, ListedSound

\* A deletion marks the pod of the name.
LEMMA Terminated ==
  ASSUME CleanupInv, NEW n \in Names, Terminate(n)
  PROVE  pods' \subseteq Pod /\ \A p, q \in pods' : p.name = q.name => p = q
<1> DEFINE Ends(p) == [p EXCEPT !.going = TRUE]
<1>1. pods \subseteq Pod /\ \A p, q \in pods : p.name = q.name => p = q
  BY DEF CleanupInv, CleanupTypeOK
<1>2. \A p \in pods : Ends(p) \in Pod /\ Ends(p).name = p.name
  BY <1>1, PodFields
<1>3. pods' = (pods \ Named(n)) \union {Ends(p) : p \in Named(n)}
  BY DEF Terminate
<1> HIDE DEF Ends
<1>4. ASSUME NEW q \in pods'
      PROVE  q \in Pod /\ \E p \in pods : q.name = p.name /\ q = IF p.name = n THEN Ends(p) ELSE p
  BY <1>1, <1>2, <1>3 DEF Named
<1> QED
  BY <1>1, <1>4

\* Every step keeps the invariant.
LEMMA CleanupInductive == CleanupInv /\ [CleanupNext]_cleanupVars => CleanupInv'
<1> SUFFICES ASSUME CleanupInv, [CleanupNext]_cleanupVars PROVE CleanupInv'
  OBVIOUS
<1>0. /\ pods \subseteq Pod /\ \A p, q \in pods : p.name = q.name => p = q
      /\ known \subseteq PodSeen /\ doomed \subseteq PodSeen /\ asked \subseteq Names
      /\ purger \in [on : BOOLEAN, breaker : {"closed", "open", "trial"}]
  BY DEF CleanupInv, CleanupTypeOK
<1>1. ASSUME NEW n \in Names, PodStarts(n) PROVE CleanupInv'
  <2> DEFINE new == [name |-> n, life |-> born[n] + 1, state |-> "well", old |-> FALSE,
                     going |-> FALSE]
  <2>1. /\ born[n] < MaxLives /\ \A p \in pods : p.name # n
        /\ pods' = pods \union {new} /\ born' = [born EXCEPT ![n] = @ + 1]
        /\ UNCHANGED <<known, listing, purger, doomed, asked>>
    BY <1>1 DEF PodStarts
  <2>2. /\ born[n] + 1 \in 1 .. MaxLives /\ born' \in [Names -> 0 .. MaxLives]
    BY <2>1, CleanupAssumption DEF CleanupInv, CleanupTypeOK
  <2>3. new \in Pod /\ new.name = n
    BY <2>2 DEF Pod
  <2> HIDE DEF new
  <2>4. pods' \subseteq Pod /\ \A p, q \in pods' : p.name = q.name => p = q
    BY <1>0, <2>1, <2>3
  <2> QED
    BY <2>1, <2>2, <2>4 DEF CleanupInv, CleanupTypeOK, ListedSound
<1>2. ASSUME NEW p \in pods, PodBreaks(p) \/ PodRecovers(p) \/ PodAges(p)
      PROVE  CleanupInv'
  <2>1. PICK q \in Pod : q.name = p.name /\ Becomes(p, q)
    BY <1>0, <1>2, PodFields DEF PodBreaks, PodRecovers, PodAges
  <2>2. pods' = (pods \ {p}) \union {q}
        /\ UNCHANGED <<born, known, listing, purger, doomed, asked>>
    BY <2>1 DEF Becomes
  <2>3. pods' \subseteq Pod /\ \A r, s \in pods' : r.name = s.name => r = s
    BY <1>0, <2>1, <2>2
  <2> QED
    BY <1>0, <2>2, <2>3, PodsGoOn
<1>3. ASSUME NEW p \in pods, PodEnds(p) \/ ReadPod(p) PROVE CleanupInv'
  <2>1. p.name \in Names
    BY <1>0, PodFields
  <2> QED
    BY <1>0, <1>3, <2>1, PodsGoOn DEF PodEnds, ReadPod
<1>4. CASE ListPods
  <2> DEFINE list == {Look(p) : p \in pods}
  <2>1. listing' = {list} /\ UNCHANGED <<pods, born, known, purger, doomed, asked>>
    BY <1>4 DEF ListPods
  <2>0. \A p \in pods : p \in Pod /\ Look(p) \in PodSeen /\ Look(p).name = p.name
    BY <1>0, PodFields
  <2>2. list \subseteq PodSeen /\ \A p, q \in list : p.name = q.name => p = q
    <3>1. \A x \in list : \E p \in pods : x = Look(p)
      OBVIOUS
    <3>2. \A a, b \in pods : Look(a).name = Look(b).name => Look(a) = Look(b)
      BY Zenon, <1>0, <2>0
    <3> HIDE DEF list
    <3> QED
      BY <2>0, <3>1, <3>2
  <2> HIDE DEF list
  <2>3. Cardinality(listing') <= 1
    <3>1. Cardinality({list}) = 1
      BY FS_Singleton
    <3> QED
      BY <2>1, <3>1
  <2> QED
    BY <2>1, <2>2, <2>3 DEF CleanupInv, CleanupTypeOK, ListedSound
<1>5. CASE PublishPods
  <2>1. PICK list \in listing : known' = list
    BY <1>5 DEF PublishPods
  <2>2. listing' = {} /\ UNCHANGED <<pods, born, purger, doomed, asked>>
    BY <1>5 DEF PublishPods
  <2>3. Cardinality(listing') <= 1
    BY <2>2, FS_EmptySet
  <2> QED
    BY <2>1, <2>2, <2>3 DEF CleanupInv, CleanupTypeOK, ListedSound
<1>6. CASE SwitchPurger \/ StartPurge
  <2>1. purger' \in [on : BOOLEAN, breaker : {"closed", "open", "trial"}]
    BY <1>0, <1>6 DEF SwitchPurger, StartPurge
  <2> QED
    BY <1>0, <1>6, <2>1 DEF SwitchPurger, StartPurge, CleanupInv, CleanupTypeOK, ListedSound
<1>7. ASSUME NEW p \in doomed, Purge(p) PROVE CleanupInv'
  <2>1. p.name \in Names /\ Terminate(p.name)
    BY <1>0, <1>7 DEF Purge, PodSeen
  <2>2. purger' \in [on : BOOLEAN, breaker : {"closed", "open", "trial"}]
    BY <1>0, <1>7 DEF Purge
  <2> QED
    BY <1>0, <1>7, <2>1, <2>2, Terminated, PodsGoOn DEF Purge
<1>8. ASSUME NEW p \in doomed, PurgeFails(p) PROVE CleanupInv'
  <2>1. purger' \in [on : BOOLEAN, breaker : {"closed", "open", "trial"}]
    BY <1>0, <1>8 DEF PurgeFails
  <2> QED
    BY <1>0, <1>8, <2>1, PodsGoOn DEF PurgeFails
<1>9. ASSUME NEW n \in asked, DeletePod(n) PROVE CleanupInv'
  <2>1. n \in Names /\ Terminate(n)
    BY <1>0, <1>9 DEF DeletePod
  <2> QED
    BY <1>0, <1>9, <2>1, Terminated, PodsGoOn DEF DeletePod, Forget
<1>10. CASE DeletePodFails \/ UNCHANGED cleanupVars
  BY <1>0, <1>10, PodsGoOn DEF DeletePodFails, cleanupVars
<1> QED
  BY <1>1, <1>2, <1>3, <1>4, <1>5, <1>6, <1>7, <1>8, <1>9, <1>10
     DEF CleanupNext, EndPod, PurgeDoomed, DeleteAsked

-----------------------------------------------------------------------------
\* Prices.

\* Before the vendor is known nothing is kept.
NotStarted ==
  vendor = "none" =>
    /\ provider = EmptyCache /\ memory = EmptyCache /\ listed = EmptyCache
    /\ table = NoPrices

\* When the cache in memory is empty, so is the table.
NothingToGet ==
  Fresh(memory) /\ ~ Holds(memory.prices) => \A t \in Types : ~ Valid(table[t])

\* One cache's time, and the bounds on the ages of what the caches hold.
Hop == CacheTTL - 1
MemoryBound == TableTTL - 1
ProviderBound == MemoryBound + (IF vendor = "aws" THEN Hop + Hop ELSE Hop)
ListedBound == MemoryBound + (IF vendor = "aws" THEN Hop ELSE Hop + Hop)
\* A quoted price is no older than this.
UpTo(p, age) == Quoted(p) => p.age <= age

\* How old the prices of each cache may be, by how long ago it was filled.
AgesBounded ==
  \A t \in Types :
    /\ Fresh(memory) => UpTo(memory.prices[t], MemoryBound + memory.filled)
    /\ Fresh(provider) => UpTo(provider.prices[t], ProviderBound + provider.filled)
    /\ Fresh(listed) => UpTo(listed.prices[t], ListedBound + listed.filled)

\* Of two quoted prices the first is no older.
NoOlder(p, q) == Quoted(p) /\ Quoted(q) => p.age <= q.age

\* What a cache may be filled with is no older than what it has.
YoungerBehind ==
  \A t \in Types :
    /\ Valid(table[t]) => NoOlder(table[t], provider.prices[t])
    /\ Valid(table[t]) /\ Fresh(memory) => NoOlder(table[t], memory.prices[t])
    /\ Fresh(memory) => NoOlder(memory.prices[t], provider.prices[t])
    /\ vendor = "aws" /\ Fresh(listed) =>
         NoOlder(listed.prices[t], provider.prices[t]) \/ provider.filled <= listed.filled

\* The invariant of the chain of caches.
PricingInv ==
  /\ PricingTypeOK /\ NotStarted /\ NothingToGet /\ AgesBounded /\ YoungerBehind
  /\ OnlyQuotesKept

\* A price, or none, of each type.
PriceList == [Types -> Price]

\* The prices that are not quotes, and the ages of those that are.
LEMMA PriceFacts ==
  /\ Ancient \in Nat
  /\ \A p \in Price : p.age \in Nat /\ p.age <= Ancient
  /\ NoPrice \in Price /\ Estimate \in Price
  /\ \A b \in {"quote", "absurd", "none"} : [basis |-> b, age |-> 0] \in Price
  /\ ~ Quoted(NoPrice) /\ ~ Quoted(Estimate)
  /\ NoPrice.basis = "none" /\ Estimate.basis = "estimate" /\ Estimate.age = 0
<1> USE PricingAssumption
<1>1. Ancient \in Nat
  BY DEF Ancient
<1>2. 0 \in PriceAges
  BY <1>1 DEF PriceAges
<1> QED
  BY <1>1, <1>2 DEF PriceAges, Price, NoPrice, Estimate, Quoted

\* An empty cache is not fresh and has no price.
LEMMA EmptyFacts ==
  /\ EmptyCache \in Cache /\ ~ Fresh(EmptyCache) /\ EmptyCache.filled = CacheTTL
  /\ NoPrices \in PriceList
  /\ \A t \in Types : NoPrices[t] = NoPrice /\ EmptyCache.prices[t] = NoPrice
<1>1. NoPrices \in PriceList /\ \A t \in Types : NoPrices[t] = NoPrice
  BY PriceFacts DEF NoPrices, PriceList
<1> QED
  BY <1>1, PricingAssumption DEF EmptyCache, Cache, Fresh, PriceList

\* A cache just filled is fresh and has what it was filled with.
LEMMA FilledFacts ==
  ASSUME NEW prices \in PriceList
  PROVE  /\ Filled(prices) \in Cache /\ Fresh(Filled(prices))
         /\ Filled(prices).filled = 0 /\ Filled(prices).prices = prices
  BY PricingAssumption DEF Filled, Cache, Fresh, PriceList

\* The fields of a cache.
LEMMA CacheFacts ==
  ASSUME NEW c \in Cache
  PROVE  /\ c.filled \in Nat /\ c.filled <= CacheTTL /\ c.prices \in PriceList
         /\ \A t \in Types : c.prices[t] \in Price /\ c.prices[t].age \in Nat
         /\ Fresh(c) => c.filled <= Hop
  BY PriceFacts, PricingAssumption DEF Cache, PriceList, Fresh, Hop

\* The estimates of GCP and AWS only fill gaps.
LEMMA EnrichedFacts ==
  ASSUME NEW prices \in PriceList
  PROVE  /\ Enriched(prices) \in PriceList
         /\ \A t \in Types : Enriched(prices)[t] = prices[t] \/ Enriched(prices)[t] = Estimate
  BY PriceFacts DEF Enriched, PriceList

\* What a vendor's service quotes is new.
LEMMA QuotesFacts ==
  ASSUME NEW q \in Quotes
  PROVE  /\ q \in PriceList
         /\ \A t \in Types : q[t].age = 0 /\ q[t].basis # "estimate"
<1>1. \A t \in Types : q[t] \in {[basis |-> b, age |-> 0] : b \in {"quote", "absurd", "none"}}
  BY DEF Quotes
<1>2. \A t \in Types : q[t].age = 0 /\ q[t].basis # "estimate" /\ q[t] \in Price
  BY <1>1, PriceFacts
<1> QED
  BY <1>2 DEF Quotes, PriceList

\* What is taken from a vendor's answer is a new quote, an estimate of GCP's,
\* or, with Azure, the number the vendor sent.
LEMMA AnswersFacts ==
  ASSUME NEW a \in Answers, vendor \in Vendors
  PROVE  /\ Sanitized(a) \in PriceList
         /\ \A t \in Types :
              /\ Quoted(Sanitized(a)[t]) => Sanitized(a)[t].age = 0
              /\ Sanitized(a)[t].basis = "estimate" => vendor = "gcp" /\ Sanitized(a)[t].age = 0
              /\ Sanitized(a)[t].basis = "absurd" => vendor = "azure"
<1>1. /\ a \in PriceList
      /\ \A t \in Types : a[t].age = 0 /\ (a[t].basis = "estimate" => vendor = "gcp")
  <2>1. CASE vendor = "gcp"
    <3>1. PICK q \in Quotes : a = Enriched(q)
      BY <2>1 DEF Answers, GCPAnswers
    <3> QED
      BY <2>1, <3>1, QuotesFacts, EnrichedFacts, PriceFacts
  <2>2. CASE vendor # "gcp"
    <3>1. a \in Quotes
      BY <2>2 DEF Answers, AWSAnswers, AzureAnswers
    <3> QED
      BY <3>1, QuotesFacts
  <2> QED
    BY <2>1, <2>2
<1>2. CASE vendor = "azure"
  BY <1>1, <1>2 DEF Sanitized
<1>3. CASE vendor # "azure"
  <2>1. /\ Sanitized(a) \in PriceList
        /\ \A t \in Types : Sanitized(a)[t] = IF a[t].basis = "absurd" THEN NoPrice ELSE a[t]
    BY <1>1, <1>3, PriceFacts DEF Sanitized, Sane, PriceList
  <2> QED
    BY <1>1, <2>1, PriceFacts
<1> QED
  BY <1>2, <1>3

\* What the cache in memory answers: its own prices, or the table's valid rows,
\* which it then keeps.
LEMMA RowsFacts ==
  ASSUME PricingTypeOK
  PROVE  /\ PriceRows \in PriceList /\ CacheAnswers \in PriceList
         /\ \A t \in Types : PriceRows[t] = IF Valid(table[t]) THEN table[t] ELSE NoPrice
         /\ Fresh(memory) => CacheAnswers = memory.prices
         /\ ~ Fresh(memory) => CacheAnswers = PriceRows
         /\ \/ MemoryAfterGet = memory
            \/ ~ Fresh(memory) /\ MemoryAfterGet = Filled(PriceRows)
         /\ MemoryAfterGet \in Cache
<1>1. /\ PriceRows \in PriceList
      /\ \A t \in Types : PriceRows[t] = IF Valid(table[t]) THEN table[t] ELSE NoPrice
  BY PriceFacts DEF PriceRows, PriceList, PricingTypeOK
<1>2. memory \in Cache /\ memory.prices \in PriceList
  BY CacheFacts DEF PricingTypeOK
<1> QED
  BY <1>1, <1>2, FilledFacts DEF CacheAnswers, MemoryAfterGet

\* When the pricing cache has nothing, no row is valid.
LEMMA NothingValid ==
  ASSUME PricingTypeOK, NothingToGet, ~ Holds(CacheAnswers)
  PROVE  \A t \in Types :
           /\ ~ Valid(table[t])
           /\ Fresh(memory) => ~ Quoted(memory.prices[t])
<1>1. CASE Fresh(memory)
  <2>1. ~ Holds(memory.prices)
    BY <1>1, RowsFacts
  <2> QED
    BY <1>1, <2>1 DEF NothingToGet, Holds, Quoted
<1>2. CASE ~ Fresh(memory)
  <2>1. \A t \in Types : PriceRows[t].basis = "none"
    BY <1>2, RowsFacts DEF Holds
  <2> QED
    BY <1>2, <2>1, RowsFacts DEF Valid
<1> QED
  BY <1>1, <1>2

\* What is put into the cache in memory is in the table too, or the table is as
\* it was.
LEMMA PutFacts ==
  ASSUME PricingTypeOK, NEW prices \in PriceList, Put(prices)
  PROVE  /\ memory' = Filled(prices) /\ table' \in PriceList
         /\ \A t \in Types : /\ table'[t] \in {table[t], prices[t]}
                             /\ prices[t].basis = "none" => table'[t] = table[t]
<1>1. \/ table' = table
      \/ table' = [t \in Types |-> IF prices[t].basis = "none" THEN table[t] ELSE prices[t]]
  BY DEF Put, Upserted
<1> QED
  BY <1>1 DEF Put, PricingTypeOK, PriceList

\* A moment makes a price older, but for the ancient ones.
LEMMA OlderFacts ==
  ASSUME NEW prices \in PriceList
  PROVE  /\ OlderPrices(prices) \in PriceList
         /\ \A t \in Types :
              /\ OlderPrices(prices)[t].basis = prices[t].basis
              /\ OlderPrices(prices)[t].age =
                   IF prices[t].basis = "none" \/ prices[t].age = Ancient THEN prices[t].age
                   ELSE prices[t].age + 1
<1>1. ASSUME NEW p \in Price
      PROVE  /\ OlderPrice(p) \in Price /\ OlderPrice(p).basis = p.basis
             /\ OlderPrice(p).age =
                  IF p.basis = "none" \/ p.age = Ancient THEN p.age ELSE p.age + 1
  BY PriceFacts DEF OlderPrice, Price, PriceAges
<1> QED
  BY <1>1 DEF OlderPrices, PriceList

\* A moment makes a cache older, and empties one that is full time.
LEMMA OlderCacheFacts ==
  ASSUME NEW c \in Cache
  PROVE  /\ OlderCache(c) \in Cache /\ Current(OlderCache(c)) \in Cache
         /\ OlderCache(c).prices = OlderPrices(c.prices)
         /\ OlderCache(c).filled = IF Fresh(c) THEN c.filled + 1 ELSE c.filled
         /\ Fresh(OlderCache(c)) => Fresh(c)
         /\ \/ Current(OlderCache(c)) = OlderCache(c)
            \/ Current(OlderCache(c)) = EmptyCache
<1>1. OlderCache(c) \in Cache
  BY CacheFacts, OlderFacts, PricingAssumption DEF OlderCache, Cache, Fresh, PriceList
<1>2. /\ OlderCache(c).prices = OlderPrices(c.prices)
      /\ OlderCache(c).filled = IF Fresh(c) THEN c.filled + 1 ELSE c.filled
  BY DEF OlderCache
<1>3. Fresh(OlderCache(c)) => Fresh(c)
  BY <1>2, CacheFacts DEF Fresh
<1> QED
  BY <1>1, <1>2, <1>3, EmptyFacts DEF Current

\* The invariant holds at the start.
LEMMA PricingStart == PricingInit => PricingInv
<1> SUFFICES ASSUME PricingInit PROVE PricingInv
  OBVIOUS
<1> USE PriceFacts, EmptyFacts DEF PricingInit
<1>1. PricingTypeOK
  BY DEF PricingTypeOK, PriceAges, PriceList
<1>2. NotStarted /\ NothingToGet /\ AgesBounded
  BY DEF NotStarted, NothingToGet, AgesBounded
<1>3. YoungerBehind
  BY DEF YoungerBehind, NoOlder, Valid
<1>4. OnlyQuotesKept
  BY DEF OnlyQuotesKept
<1> QED
  BY <1>1, <1>2, <1>3, <1>4 DEF PricingInv

\* It is kept when the provider asks the cache in memory or the table.
LEMMA Asks ==
  ASSUME PricingInv, AskCache PROVE PricingInv'
<1> USE DEF PricingInv
<1>1. /\ vendor \in Vendors /\ provider' = Filled(CacheAnswers) /\ memory' = MemoryAfterGet
      /\ vendor' = vendor /\ table' = table /\ listed' = listed /\ answered' = answered
  BY DEF AskCache, Expired, PricingTypeOK
<1>2. /\ provider' \in Cache /\ memory' \in Cache
      /\ provider'.filled = 0 /\ provider'.prices = CacheAnswers
  BY <1>1, RowsFacts, FilledFacts
<1>3. CASE Fresh(memory)
  <2>1. memory' = memory /\ CacheAnswers = memory.prices
    BY <1>1, <1>3, RowsFacts
  <2>2. PricingTypeOK' /\ NotStarted' /\ NothingToGet' /\ OnlyQuotesKept'
    BY <1>1, <1>2, <2>1 DEF PricingTypeOK, NotStarted, NothingToGet,
           OnlyQuotesKept, Vendors
  <2>3. AgesBounded'
    BY <1>1, <1>2, <1>3, <2>1, CacheFacts, PricingAssumption
       DEF AgesBounded, UpTo, MemoryBound, ProviderBound, ListedBound, Hop,
           PricingTypeOK
  <2>4. YoungerBehind'
    BY <1>1, <1>2, <1>3, <2>1, CacheFacts DEF YoungerBehind, NoOlder, PricingTypeOK
  <2> QED
    BY <2>2, <2>3, <2>4
<1>4. CASE ~ Fresh(memory)
  <2>1. /\ CacheAnswers = PriceRows
        /\ \/ memory' = memory
           \/ Fresh(memory') /\ memory'.prices = PriceRows /\ memory'.filled = 0
    BY <1>1, <1>4, RowsFacts, FilledFacts
  <2>2. \A t \in Types : /\ PriceRows[t] \in {table[t], NoPrice}
                         /\ PriceRows[t] # NoPrice => Valid(table[t])
    BY RowsFacts
  <2>3. PricingTypeOK' /\ NotStarted'
    BY <1>1, <1>2, <2>1, <2>2, PriceFacts DEF PricingTypeOK, NotStarted, Vendors
  <2>4. NothingToGet'
    <3>1. ASSUME NEW t \in Types, Valid(table[t]) PROVE PriceRows[t].basis # "none"
      BY <3>1, RowsFacts DEF Valid
    <3> QED
      BY <1>1, <1>4, <2>1, <3>1 DEF NothingToGet, Holds, Valid
  <2>5. OnlyQuotesKept'
    BY <1>1, <2>1, <2>2, PriceFacts DEF OnlyQuotesKept
  <2>6. AgesBounded'
    <3>1. \A t \in Types : UpTo(PriceRows[t], MemoryBound)
      BY <2>2, PriceFacts, PricingAssumption DEF UpTo, MemoryBound, Valid,
             PricingTypeOK, PriceList
    <3> QED
      BY <1>1, <1>2, <1>4, <2>1, <3>1, CacheFacts, PricingAssumption
         DEF AgesBounded, UpTo, MemoryBound, ProviderBound, ListedBound, Hop,
             PricingTypeOK
  <2>7. YoungerBehind'
    BY <1>1, <1>2, <1>4, <2>1, <2>2, CacheFacts, PriceFacts
       DEF YoungerBehind, NoOlder, PricingTypeOK
  <2> QED
    BY <2>3, <2>4, <2>5, <2>6, <2>7
<1> QED
  BY <1>3, <1>4

\* It is kept when the provider asks the vendor, and puts the answer in both.
LEMMA AsksVendor ==
  ASSUME PricingInv, AskVendor PROVE PricingInv'
<1> USE DEF PricingInv
<1>1. vendor \in Vendors /\ ~ Holds(CacheAnswers)
  BY DEF AskVendor, Expired, PricingTypeOK
<1>2. PICK a \in Answers : provider' = Filled(Sanitized(a)) /\ Put(Sanitized(a))
  BY DEF AskVendor
<1> DEFINE s == Sanitized(a)
<1> HIDE DEF s
<1>3. /\ s \in PriceList
      /\ \A t \in Types :
           /\ Quoted(s[t]) => s[t].age = 0
           /\ s[t].basis = "estimate" => vendor = "gcp" /\ s[t].age = 0
           /\ s[t].basis = "absurd" => vendor = "azure"
  BY <1>1, AnswersFacts DEF s
<1>4. provider' = Filled(s) /\ Put(s)
  BY <1>2 DEF s
<1>5. vendor' = vendor /\ listed' = listed /\ answered' = 0
  BY DEF AskVendor
<1>6. /\ provider' \in Cache /\ provider'.filled = 0 /\ provider'.prices = s
      /\ memory' \in Cache /\ memory'.filled = 0 /\ memory'.prices = s /\ table' \in PriceList
      /\ \A t \in Types : /\ table'[t] \in {table[t], s[t]}
                          /\ s[t].basis = "none" => table'[t] = table[t]
  BY <1>3, <1>4, PutFacts, FilledFacts
<1>7. \A t \in Types : ~ Valid(table[t])
  BY <1>1, NothingValid
<1>8. \A t \in Types : /\ Valid(table'[t]) => table'[t] = s[t]
                       /\ s[t] \in Price /\ s[t].age \in Nat /\ table[t] \in Price
  BY <1>3, <1>6, <1>7, PriceFacts DEF PriceList, PricingTypeOK
<1>9. PricingTypeOK'
  <2>1. 0 \in PriceAges
    BY PriceFacts DEF PriceAges
  <2> QED
    BY <1>3, <1>5, <1>6, <2>1 DEF PricingTypeOK, PriceList
<1>10. NotStarted' /\ NothingToGet'
  BY <1>1, <1>5, <1>6, <1>7 DEF NotStarted, NothingToGet, Vendors, Holds
<1>11. AgesBounded'
  BY <1>3, <1>5, <1>6, PricingAssumption
     DEF AgesBounded, UpTo, MemoryBound, ProviderBound, ListedBound, Hop
<1>12. YoungerBehind'
  <2>1. listed.filled \in Nat
    BY CacheFacts DEF PricingTypeOK
  <2> QED
    BY <1>5, <1>6, <1>8, <2>1 DEF YoungerBehind, NoOlder
<1>13. OnlyQuotesKept'
  BY <1>3, <1>5, <1>6, <1>8, PriceFacts DEF OnlyQuotesKept
<1> QED
  BY <1>9, <1>10, <1>11, <1>12, <1>13

\* It is kept when GCP has only its estimates.
LEMMA Estimates ==
  ASSUME PricingInv, AskGCPEstimates PROVE PricingInv'
<1> USE DEF PricingInv
<1> DEFINE s == Enriched(NoPrices)
<1>1. /\ s \in PriceList
      /\ \A t \in Types : ~ Quoted(s[t])
  BY EmptyFacts, EnrichedFacts, PriceFacts
<1> HIDE DEF s
<1>2. /\ provider' = Filled(s)
      /\ UNCHANGED <<vendor, memory, table, listed, answered>>
  BY DEF AskGCPEstimates, s
<1>3. provider' \in Cache /\ provider'.filled = 0 /\ provider'.prices = s /\ vendor # "none"
  BY <1>1, <1>2, FilledFacts DEF AskGCPEstimates
<1>4. PricingTypeOK' /\ NotStarted' /\ NothingToGet' /\ OnlyQuotesKept'
  BY <1>2, <1>3 DEF PricingTypeOK, NotStarted, NothingToGet, OnlyQuotesKept
<1>5. AgesBounded'
  BY <1>1, <1>2, <1>3
     DEF AgesBounded, UpTo, MemoryBound, ProviderBound, ListedBound
<1>6. YoungerBehind'
  BY <1>1, <1>2, <1>3 DEF YoungerBehind, NoOlder
<1> QED
  BY <1>4, <1>5, <1>6

\* A list of types that is cached, or one with new prices.
LEMMA AsksTypes ==
  ASSUME PricingInv, AskAWSTypes PROVE PricingInv'
<1> USE DEF PricingInv
<1>1. /\ vendor = "aws" /\ vendor' = vendor /\ memory' = memory /\ table' = table
      /\ answered' = answered /\ ~ Holds(CacheAnswers)
  BY DEF AskAWSTypes
<1>2. \A t \in Types : ~ Valid(table[t]) /\ (Fresh(memory) => ~ Quoted(memory.prices[t]))
  BY <1>1, NothingValid
<1>3. /\ NotStarted' /\ NothingToGet' /\ OnlyQuotesKept'
  BY <1>1 DEF NotStarted, NothingToGet, OnlyQuotesKept
<1>4. CASE Fresh(listed)
  <2>1. provider' = Filled(listed.prices) /\ listed' = listed
    BY <1>4 DEF AskAWSTypes
  <2>2. /\ listed \in Cache /\ listed.filled \in Nat /\ listed.prices \in PriceList
        /\ provider' \in Cache /\ provider'.filled = 0 /\ provider'.prices = listed.prices
    BY <2>1, CacheFacts, FilledFacts DEF PricingTypeOK
  <2>3. PricingTypeOK'
    BY <1>1, <2>1, <2>2 DEF PricingTypeOK
  <2>4. AgesBounded'
    BY <1>1, <1>4, <2>1, <2>2, CacheFacts, PricingAssumption
       DEF AgesBounded, UpTo, MemoryBound, ProviderBound, ListedBound, Hop,
           PricingTypeOK
  <2>5. YoungerBehind'
    BY <1>1, <1>2, <2>1, <2>2 DEF YoungerBehind, NoOlder
  <2> QED
    BY <1>3, <2>3, <2>4, <2>5
<1>5. CASE ~ Fresh(listed)
  <2>1. PICK q \in Quotes : provider' = Filled(Enriched(q)) /\ listed' = Filled(Enriched(q))
    BY <1>5 DEF AskAWSTypes
  <2> DEFINE s == Enriched(q)
  <2>2. s \in PriceList /\ \A t \in Types : Quoted(s[t]) => s[t].age = 0
    BY QuotesFacts, EnrichedFacts, PriceFacts
  <2> HIDE DEF s
  <2>3. /\ provider' \in Cache /\ provider'.filled = 0 /\ provider'.prices = s
        /\ listed' \in Cache /\ listed'.filled = 0 /\ listed'.prices = s
    BY <2>1, <2>2, FilledFacts DEF s
  <2>4. PricingTypeOK'
    BY <1>1, <2>3 DEF PricingTypeOK
  <2>5. AgesBounded'
    BY <1>1, <2>2, <2>3, PricingAssumption
       DEF AgesBounded, UpTo, MemoryBound, ProviderBound, ListedBound, Hop
  <2>6. YoungerBehind'
    BY <1>1, <1>2, <2>2, <2>3 DEF YoungerBehind, NoOlder
  <2> QED
    BY <1>3, <2>4, <2>5, <2>6
<1> QED
  BY <1>4, <1>5

\* It is kept when AWS lists its types for another reader.
LEMMA ListsAWS ==
  ASSUME PricingInv, ListAWSTypes PROVE PricingInv'
<1> USE DEF PricingInv
<1>1. /\ vendor = "aws" /\ ~ Fresh(listed) /\ memory' = MemoryAfterGet
      /\ vendor' = vendor /\ provider' = provider /\ table' = table /\ answered' = answered
  BY DEF ListAWSTypes
<1>2. PICK q \in PriceList :
        /\ listed' = Filled(Enriched(q))
        /\ \A t \in Types : Quoted(q[t]) => q[t].age = 0 \/ q = CacheAnswers
  <2>1. CASE Holds(CacheAnswers)
    BY <2>1, RowsFacts DEF ListAWSTypes
  <2>2. CASE ~ Holds(CacheAnswers)
    BY <2>2, QuotesFacts DEF ListAWSTypes
  <2> QED
    BY <2>1, <2>2
<1> DEFINE s == Enriched(q)
<1>3. s \in PriceList /\ \A t \in Types : Quoted(s[t]) => s[t] = q[t]
  BY EnrichedFacts, PriceFacts
<1> HIDE DEF s
<1>4. listed' \in Cache /\ listed'.filled = 0 /\ listed'.prices = s
  BY <1>2, <1>3, FilledFacts DEF s
<1>5. memory' \in Cache
  BY <1>1, RowsFacts
<1>6. \/ memory' = memory
      \/ /\ ~ Fresh(memory) /\ Fresh(memory') /\ memory'.prices = PriceRows
         /\ memory'.filled = 0
  BY <1>1, RowsFacts, FilledFacts
<1>7. \A t \in Types : /\ PriceRows[t] \in {table[t], NoPrice}
                       /\ PriceRows[t] # NoPrice => Valid(table[t])
                       /\ Valid(table[t]) => PriceRows[t].basis # "none"
  BY RowsFacts DEF Valid
<1>8. \A t \in Types : Quoted(s[t]) =>
        \/ s[t].age = 0
        \/ Fresh(memory) /\ s[t] = memory.prices[t]
        \/ Valid(table[t]) /\ s[t] = table[t]
  BY <1>2, <1>3, <1>7, RowsFacts, PriceFacts
<1>9. PricingTypeOK' /\ NotStarted'
  BY <1>1, <1>4, <1>5, <1>6, <1>7, PriceFacts DEF PricingTypeOK, NotStarted
<1>10. NothingToGet'
  BY <1>1, <1>6, <1>7 DEF NothingToGet, Holds
<1>11. OnlyQuotesKept'
  BY <1>1, <1>6, <1>7, PriceFacts DEF OnlyQuotesKept
<1>12. AgesBounded'
  <2>1. \A t \in Types : Valid(table[t]) => table[t].age <= MemoryBound
    BY PriceFacts, PricingAssumption DEF Valid, MemoryBound, PricingTypeOK, PriceList
  <2>2. \A t \in Types : Fresh(memory') => UpTo(memory'.prices[t], MemoryBound + memory'.filled)
    BY <1>6, <1>7, <2>1, PriceFacts, PricingAssumption DEF AgesBounded, UpTo,
           MemoryBound
  <2>3. ASSUME NEW t \in Types PROVE UpTo(s[t], MemoryBound + Hop)
    <3>1. CASE s[t].age = 0
      BY <3>1, PricingAssumption DEF UpTo, MemoryBound, Hop
    <3>2. CASE Fresh(memory) /\ s[t] = memory.prices[t]
      BY <3>2, CacheFacts, PricingAssumption DEF AgesBounded, UpTo, MemoryBound,
             Hop, PricingTypeOK
    <3>3. CASE Valid(table[t]) /\ s[t] = table[t]
      BY <3>3, <2>1, PriceFacts, PricingAssumption DEF UpTo, MemoryBound, Hop,
             PricingTypeOK
    <3> QED
      BY <3>1, <3>2, <3>3, <1>8 DEF UpTo
  <2>4. MemoryBound + Hop = MemoryBound + Hop + 0
    BY PricingAssumption DEF MemoryBound, Hop
  <2> QED
    BY <1>1, <1>4, <2>2, <2>3, <2>4 DEF AgesBounded, ProviderBound, ListedBound
<1>13. YoungerBehind'
  <2>1. ASSUME NEW t \in Types PROVE NoOlder(s[t], provider.prices[t])
    <3>1. provider.prices[t].age \in Nat
      BY CacheFacts DEF PricingTypeOK
    <3> QED
      BY <3>1, <1>8 DEF NoOlder, YoungerBehind
  <2>2. \A t \in Types : table[t].age \in Nat
    BY PriceFacts DEF PricingTypeOK
  <2> QED
    BY <1>1, <1>4, <1>6, <1>7, <2>1, <2>2, PriceFacts DEF YoungerBehind, NoOlder
<1> QED
  BY <1>9, <1>10, <1>11, <1>12, <1>13

\* It is kept when Azure lists its sizes.
LEMMA ListsAzure ==
  ASSUME PricingInv, ListAzureSizes PROVE PricingInv'
<1> USE DEF PricingInv
<1> DEFINE s == IF Fresh(provider) THEN provider.prices ELSE NoPrices
<1>1. /\ s \in PriceList
      /\ \A t \in Types : Quoted(s[t]) => Fresh(provider) /\ s[t] = provider.prices[t]
  BY CacheFacts, EmptyFacts, PriceFacts DEF PricingTypeOK
<1>2. /\ vendor = "azure" /\ listed' = Filled(s)
      /\ UNCHANGED <<vendor, provider, memory, table, answered>>
  BY DEF ListAzureSizes
<1> HIDE DEF s
<1>3. listed' \in Cache /\ listed'.filled = 0 /\ listed'.prices = s
  BY <1>1, <1>2, FilledFacts
<1>4. PricingTypeOK' /\ NotStarted' /\ NothingToGet' /\ OnlyQuotesKept' /\ YoungerBehind'
  BY <1>2, <1>3 DEF PricingTypeOK, NotStarted, NothingToGet, OnlyQuotesKept,
         YoungerBehind
<1>5. AgesBounded'
  BY <1>1, <1>2, <1>3, CacheFacts, PricingAssumption
     DEF AgesBounded, UpTo, MemoryBound, ProviderBound, ListedBound, Hop, PricingTypeOK
<1> QED
  BY <1>4, <1>5

\* It is kept when the process learns its vendor.
LEMMA StartsVendor ==
  ASSUME PricingInv, StartVendor PROVE PricingInv'
<1> USE DEF PricingInv
<1>1. /\ vendor = "none" /\ vendor' \in Vendors
      /\ UNCHANGED <<provider, memory, table, listed, answered>>
      /\ provider = EmptyCache /\ memory = EmptyCache /\ listed = EmptyCache /\ table = NoPrices
  BY DEF StartVendor, NotStarted
<1> USE PriceFacts, EmptyFacts
<1>2. PricingTypeOK'
  BY <1>1 DEF PricingTypeOK
<1>3. NotStarted' /\ NothingToGet' /\ AgesBounded' /\ OnlyQuotesKept'
  BY <1>1 DEF NotStarted, NothingToGet, AgesBounded, OnlyQuotesKept, Vendors
<1>4. YoungerBehind'
  BY <1>1 DEF YoungerBehind, NoOlder
<1> QED
  BY <1>2, <1>3, <1>4

\* It is kept when the process restarts: only the table remains.
LEMMA RestartsPricing ==
  ASSUME PricingInv, RestartPricing PROVE PricingInv'
<1> USE DEF PricingInv
<1>1. /\ provider' = EmptyCache /\ memory' = EmptyCache /\ listed' = EmptyCache
      /\ UNCHANGED <<vendor, table, answered>>
  BY DEF RestartPricing
<1> USE PriceFacts, EmptyFacts
<1>2. PricingTypeOK'
  BY <1>1 DEF PricingTypeOK
<1>3. NotStarted' /\ NothingToGet' /\ AgesBounded' /\ OnlyQuotesKept'
  BY <1>1 DEF NotStarted, NothingToGet, AgesBounded, OnlyQuotesKept
<1>4. YoungerBehind'
  BY <1>1 DEF YoungerBehind, NoOlder
<1> QED
  BY <1>2, <1>3, <1>4

\* Growing older does not change which price is the younger.
LEMMA OrderKept ==
  ASSUME NEW p, NEW q, NEW p2, NEW q2, NoOlder(p, q),
         p.age \in 0 .. Ancient, q.age \in 0 .. Ancient,
         p2.basis = p.basis, q2.basis = q.basis,
         p2.age = IF p.basis = "none" \/ p.age = Ancient THEN p.age ELSE p.age + 1,
         q2.age = IF q.basis = "none" \/ q.age = Ancient THEN q.age ELSE q.age + 1
  PROVE  NoOlder(p2, q2)
  BY PriceFacts DEF NoOlder, Quoted

\* It is kept as time goes on.
LEMMA GrowOlder ==
  ASSUME PricingInv, PriceClock PROVE PricingInv'
<1> USE DEF PricingInv
<1> USE DEF PricingTypeOK
<1> DEFINE older(p) == IF p.basis = "none" \/ p.age = Ancient THEN p.age ELSE p.age + 1
<1>1. /\ vendor # "none" /\ vendor' = vendor
      /\ provider' = OlderCache(provider) /\ memory' = Current(OlderCache(memory))
      /\ listed' = Current(OlderCache(listed)) /\ table' = OlderPrices(table)
      /\ answered' = OlderAge(answered)
  BY DEF PriceClock
<1>2. /\ table' \in PriceList
      /\ \A t \in Types : /\ table'[t].basis = table[t].basis /\ table'[t].age = older(table[t])
                          /\ table[t].age \in 0 .. Ancient
  BY <1>1, OlderFacts, PriceFacts DEF PriceList
<1>3. /\ provider' \in Cache /\ (Fresh(provider') => Fresh(provider))
      /\ provider'.filled = IF Fresh(provider) THEN provider.filled + 1 ELSE provider.filled
      /\ \A t \in Types : /\ provider'.prices[t].basis = provider.prices[t].basis
                          /\ provider'.prices[t].age = older(provider.prices[t])
                          /\ provider.prices[t].age \in 0 .. Ancient
  BY <1>1, OlderCacheFacts, OlderFacts, CacheFacts, PriceFacts
<1>4. /\ memory' \in Cache
      /\ ~ Fresh(memory') => memory' = EmptyCache \/ memory' = OlderCache(memory)
      /\ \/ memory' = EmptyCache
         \/ /\ Fresh(memory') => Fresh(memory)
            /\ memory'.filled = IF Fresh(memory) THEN memory.filled + 1 ELSE memory.filled
            /\ \A t \in Types : /\ memory'.prices[t].basis = memory.prices[t].basis
                                /\ memory'.prices[t].age = older(memory.prices[t])
                                /\ memory.prices[t].age \in 0 .. Ancient
  BY <1>1, OlderCacheFacts, OlderFacts, CacheFacts, PriceFacts
<1>5. /\ listed' \in Cache
      /\ \/ listed' = EmptyCache
         \/ /\ Fresh(listed') => Fresh(listed)
            /\ listed'.filled = IF Fresh(listed) THEN listed.filled + 1 ELSE listed.filled
            /\ \A t \in Types : /\ listed'.prices[t].basis = listed.prices[t].basis
                                /\ listed'.prices[t].age = older(listed.prices[t])
                                /\ listed.prices[t].age \in 0 .. Ancient
  BY <1>1, OlderCacheFacts, OlderFacts, CacheFacts, PriceFacts
<1>6. /\ answered' \in PriceAges
      /\ answered' = (IF answered = Ancient THEN Ancient ELSE answered + 1)
      /\ answered \in 0 .. Ancient
  BY <1>1, PriceFacts DEF PriceAges, OlderAge
<1>7. /\ provider.filled \in Nat /\ memory.filled \in Nat /\ listed.filled \in Nat
      /\ provider.filled <= CacheTTL /\ listed.filled <= CacheTTL
  BY CacheFacts
<1> USE PriceFacts, EmptyFacts
<1>8. PricingTypeOK'
  BY <1>1, <1>2, <1>3, <1>4, <1>5, <1>6 DEF PriceList
<1>9. NotStarted'
  BY <1>1 DEF NotStarted
<1>10. NothingToGet'
  BY <1>2, <1>4, PricingAssumption DEF NothingToGet, Holds, Valid
<1>11. OnlyQuotesKept'
  BY <1>1, <1>2, <1>4, <1>6 DEF OnlyQuotesKept
<1>12. AgesBounded'
  BY <1>1, <1>3, <1>4, <1>5, <1>7, PricingAssumption
     DEF AgesBounded, UpTo, Quoted, MemoryBound, ProviderBound, ListedBound, Hop
<1>13. YoungerBehind'
  <2> SUFFICES ASSUME NEW t \in Types
               PROVE  /\ Valid(table'[t]) => NoOlder(table'[t], provider'.prices[t])
                      /\ Valid(table'[t]) /\ Fresh(memory') => NoOlder(table'[t], memory'.prices[t])
                      /\ Fresh(memory') => NoOlder(memory'.prices[t], provider'.prices[t])
                      /\ vendor = "aws" /\ Fresh(listed') =>
                           \/ NoOlder(listed'.prices[t], provider'.prices[t])
                           \/ provider'.filled <= listed'.filled
    BY <1>1 DEF YoungerBehind
  <2>1. Valid(table'[t]) => Valid(table[t])
    BY <1>2, PricingAssumption DEF Valid
  <2>2. Valid(table'[t]) => NoOlder(table'[t], provider'.prices[t])
    BY <1>2, <1>3, <2>1, OrderKept DEF YoungerBehind
  <2>3. Valid(table'[t]) /\ Fresh(memory') => NoOlder(table'[t], memory'.prices[t])
    BY <1>2, <1>4, <2>1, OrderKept DEF YoungerBehind
  <2>4. Fresh(memory') => NoOlder(memory'.prices[t], provider'.prices[t])
    BY <1>3, <1>4, OrderKept DEF YoungerBehind
  <2>5. ASSUME vendor = "aws", Fresh(listed')
        PROVE  \/ NoOlder(listed'.prices[t], provider'.prices[t])
               \/ provider'.filled <= listed'.filled
    <3>1. CASE NoOlder(listed.prices[t], provider.prices[t])
      BY <1>3, <1>5, <2>5, <3>1, OrderKept
    <3>2. CASE provider.filled <= listed.filled
      BY <1>3, <1>5, <1>7, <2>5, <3>2
    <3> QED
      BY <1>5, <2>5, <3>1, <3>2 DEF YoungerBehind
  <2> QED
    BY <2>2, <2>3, <2>4, <2>5
<1> QED
  BY <1>8, <1>9, <1>10, <1>11, <1>12, <1>13

\* Every step keeps the invariant of the prices.
LEMMA PricingInductive == PricingInv /\ [PricingNext]_pricingVars => PricingInv'
<1>1. ASSUME PricingInv, UNCHANGED pricingVars PROVE PricingInv'
  BY <1>1 DEF pricingVars, PricingInv, PricingTypeOK, NotStarted, NothingToGet,
         AgesBounded,
     YoungerBehind, OnlyQuotesKept, MemoryBound, ProviderBound, ListedBound, Hop
<1> QED
  BY <1>1, Asks, AsksVendor, Estimates, AsksTypes, ListsAWS, ListsAzure,
     StartsVendor, RestartsPricing,
     GrowOlder DEF PricingNext

\* The bounds on the ages of prices.
LEMMA AgesOfPrices == PricingInv => PriceAgeBounded
  BY CacheFacts, PricingAssumption
     DEF PricingInv, PricingTypeOK, PriceAgeBounded, Within, AgesBounded, UpTo,
         MemoryBound, ProviderBound,
         ListedBound, Hop

\* Filling the provider's cache puts no older quote in the place of a younger.
LEMMA NoOlderStep ==
  ASSUME PricingInv, PricingNext, provider'.filled = 0, NEW t \in Types,
         Quoted(provider.prices[t]), Quoted(provider'.prices[t])
  PROVE  provider'.prices[t].age <= provider.prices[t].age
<1> USE DEF PricingInv
<1>0. provider \in Cache /\ provider.prices[t].age \in Nat
  BY CacheFacts DEF PricingTypeOK
<1>1. CASE AskCache
  <2>1. provider'.prices = CacheAnswers
    BY <1>1, RowsFacts, FilledFacts DEF AskCache
  <2> QED
    BY <2>1, RowsFacts, PriceFacts DEF YoungerBehind, NoOlder
<1>2. CASE AskVendor
  <2>1. PICK a \in Answers : provider' = Filled(Sanitized(a))
    BY <1>2 DEF AskVendor
  <2>2. vendor \in Vendors
    BY <1>2 DEF AskVendor, Expired, PricingTypeOK
  <2> QED
    BY <1>0, <2>1, <2>2, AnswersFacts, FilledFacts
<1>3. CASE AskGCPEstimates
  BY <1>3, EmptyFacts, EnrichedFacts, FilledFacts, PriceFacts DEF AskGCPEstimates
<1>4. CASE AskAWSTypes
  <2>1. CASE Fresh(listed)
    <3>1. provider'.prices = listed.prices /\ vendor = "aws" /\ ~ Fresh(provider)
      BY <1>4, <2>1, CacheFacts, FilledFacts DEF AskAWSTypes, Expired, PricingTypeOK
    <3>2. ~ (provider.filled <= listed.filled)
      BY <2>1, <3>1, <1>0, CacheFacts, PricingAssumption DEF Fresh, PricingTypeOK
    <3> QED
      BY <2>1, <3>1, <3>2 DEF YoungerBehind, NoOlder
  <2>2. CASE ~ Fresh(listed)
    <3>1. PICK q \in Quotes : provider' = Filled(Enriched(q))
      BY <1>4, <2>2 DEF AskAWSTypes
    <3> QED
      BY <1>0, <3>1, QuotesFacts, EnrichedFacts, FilledFacts, PriceFacts
  <2> QED
    BY <2>1, <2>2
<1>5. CASE ListAWSTypes \/ ListAzureSizes \/ StartVendor
  BY <1>0, <1>5 DEF ListAWSTypes, ListAzureSizes, StartVendor
<1>6. CASE RestartPricing
  BY <1>6, EmptyFacts, PricingAssumption DEF RestartPricing
<1>7. CASE PriceClock
  BY <1>7, <1>0, OlderCacheFacts, CacheFacts, PricingAssumption DEF PriceClock, Fresh
<1> QED
  BY <1>1, <1>2, <1>3, <1>4, <1>5, <1>6, <1>7 DEF PricingNext

\* The prices of the clouds (internal/cloud, internal/pricing), for every time
\* to live of the caches and of the table: what is given is of a bounded age,
\* what is kept was quoted, and no older quote ever takes the place of a
\* younger one.
THEOREM PricesStayFresh == ServicesSpec => PricesFresh
<1>1. PricingInv /\ [PricingNext]_pricingVars =>
        [ provider'.filled = 0 =>
            \A t \in Types :
              Quoted(provider.prices[t]) /\ Quoted(provider'.prices[t]) =>
                provider'.prices[t].age <= provider.prices[t].age ]_pricingVars
  BY NoOlderStep
<1>2. PricingInv => OnlyQuotesKept
  BY DEF PricingInv
<1> QED
  BY <1>1, <1>2, AgesOfPrices, PricingStart, PricingInductive, EachPart, PTL
     DEF PricingPart, PricesFresh, NoOlderQuotes

-----------------------------------------------------------------------------
\* The circuit breaker.

\* The ages of results that lie inside the window.
Young == 0 .. (Window - 1)

\* Of the ages that are told apart, all but the last lie inside the window.
LEMMA YoungAges ==
  /\ IsFiniteSet(Young) /\ Window \notin Young /\ 0 \in Young
  /\ Ages = Young \union {Window} /\ Young \subseteq Ages
<1>1. IsFiniteSet(Young)
  BY WindowAssumption, FS_Interval DEF Young
<1> QED
  BY <1>1, WindowAssumption DEF Young, Ages

\* Live is a sum, and so the facts about sums are about it.
LEMMA LiveIsSum == ASSUME NEW h PROVE Live(h) = SumOver(h, Young)
  BY Zenon DEF Live, SumOver, SumFunctionOnSet, Young

\* And so is Count.
LEMMA CountIsSum == ASSUME NEW h PROVE Count(h) = SumOver(h, Ages)
  BY Zenon DEF Count, SumOver, SumFunctionOnSet

\* A number of results is one.
LEMMA LiveType == ASSUME NEW h \in Histogram PROVE Live(h) \in Nat
<1>1. \A a \in Young : h[a] \in Nat
  BY YoungAges DEF Histogram
<1> QED
  BY Zenon, <1>1, YoungAges, LiveIsSum, SumType

\* What the breaker makes of a slice of results is a slice of results.
LEMMA SliceTypes ==
  ASSUME NEW h \in Histogram
  PROVE  NoResults \in Histogram /\ Append1(h) \in Histogram /\ Prune(h) \in Histogram
         /\ Aged(h) \in Histogram
<1>1. 0 \in Ages /\ Window \in Ages
  BY WindowAssumption DEF Ages
<1>2. NoResults \in Histogram /\ Append1(h) \in Histogram /\ Prune(h) \in Histogram
  BY <1>1 DEF NoResults, Append1, Prune, Histogram
<1>3. Aged(h) \in Histogram
  BY <1>1, WindowAssumption DEF Aged, Histogram, Ages
<1> QED
  BY <1>2, <1>3

\* After pruneUnlocked the length of a slice is what lies inside the window.
LEMMA CountPruned ==
  ASSUME NEW h \in Histogram
  PROVE  Count(Prune(h)) = Live(h)
<1>1. Prune(h) \in Histogram
  BY SliceTypes
<1>2. Prune(h)[Window] = 0 /\ \A a \in Young : Prune(h)[a] \in Nat /\ Prune(h)[a] = h[a] /\ h[a] \in Nat
  BY YoungAges DEF Prune, Histogram
<1>3. SumOver(Prune(h), Ages) = SumOver(Prune(h), Young) + 0
  <2>1. /\ IsFiniteSet(Young) /\ Window \notin Young /\ Prune(h)[Window] \in Nat
        /\ \A a \in Young : Prune(h)[a] \in Nat
    BY <1>2, YoungAges
  <2>2. SumOver(Prune(h), Young \union {Window}) = SumOver(Prune(h), Young) + Prune(h)[Window]
    BY Zenon, <2>1, SumAdds
  <2> QED
    BY Zenon, <1>2, <2>2, YoungAges
<1>4. SumOver(Prune(h), Young) = SumOver(h, Young)
  BY <1>2, YoungAges, SumAgrees
<1>5. SumOver(h, Young) \in Nat
  BY <1>2, YoungAges, SumType
<1>6. SumOver(Prune(h), Ages) = SumOver(h, Young)
  <2> HIDE DEF SumOver, Prune, Young
  <2> QED
    BY <1>3, <1>4, <1>5
<1> QED
  BY Zenon, <1>6, LiveIsSum, CountIsSum

\* pruneUnlocked takes nothing that lies inside the window.
LEMMA LivePruned ==
  ASSUME NEW h \in Histogram
  PROVE  Live(Prune(h)) = Live(h)
<1>1. \A a \in Young : h[a] \in Nat /\ Prune(h)[a] = h[a]
  BY YoungAges DEF Prune, Histogram
<1>2. SumOver(Prune(h), Young) = SumOver(h, Young)
  BY <1>1, YoungAges, SumAgrees
<1> QED
  BY Zenon, <1>2, LiveIsSum

\* A new result lies inside the window.
LEMMA LiveAppended ==
  ASSUME NEW h \in Histogram
  PROVE  Live(Append1(h)) = Live(h) + 1
<1> DEFINE rest == Young \ {0}
<1>1. Append1(h) \in Histogram
  BY SliceTypes
<1>2. /\ \A a \in Young : h[a] \in Nat /\ Append1(h)[a] \in Nat
      /\ \A a \in rest : h[a] \in Nat /\ Append1(h)[a] = h[a]
      /\ Append1(h)[0] = h[0] + 1 /\ h[0] \in Nat
  BY <1>1, YoungAges DEF Append1, Histogram
<1>3. IsFiniteSet(rest)
  BY YoungAges, FS_Subset
<1>4. SumOver(h, Young) = h[0] + SumOver(h, rest)
  BY <1>2, YoungAges, SumSplits
<1>5. SumOver(Append1(h), Young) = Append1(h)[0] + SumOver(Append1(h), rest)
  BY <1>2, YoungAges, SumSplits
<1>6. SumOver(Append1(h), rest) = SumOver(h, rest)
  BY <1>2, <1>3, SumAgrees
<1>7. SumOver(h, rest) \in Nat
  BY <1>2, <1>3, SumType
<1>8. SumOver(Append1(h), Young) = SumOver(h, Young) + 1
  <2> HIDE DEF SumOver, rest, Append1
  <2> QED
    BY <1>2, <1>4, <1>5, <1>6, <1>7
<1> QED
  BY Zenon, <1>8, LiveIsSum

\* An empty slice has no results.
LEMMA LiveOfNothing == Live(NoResults) = 0
<1>1. \A a \in Young : NoResults[a] = 0
  BY YoungAges DEF NoResults
<1> QED
  BY <1>1, YoungAges, LiveIsSum, SumOfNothing

\* Time brings no result into the window. The sum up to an age is the one of
\* before up to the age before; the least age of which that did not hold would
\* be no such age.
LEMMA LiveAged ==
  ASSUME NEW h \in Histogram
  PROVE  Live(Aged(h)) <= Live(h)
<1> DEFINE Bad == {n \in Young : SumOver(Aged(h), 0 .. n) # SumOver(h, 0 .. (n - 1))}
<1>1. /\ \A a \in Ages : h[a] \in Nat /\ Aged(h)[a] \in Nat
      /\ Aged(h)[0] = 0
      /\ \A a \in Young \ {0} : Aged(h)[a] = h[a - 1]
  <2>1. Aged(h) \in Histogram
    BY SliceTypes
  <2>2. Aged(h)[0] = 0
    BY WindowAssumption DEF Aged, Ages
  <2>3. \A a \in Young \ {0} : Aged(h)[a] = h[a - 1]
    BY WindowAssumption DEF Aged, Ages, Young
  <2> QED
    BY <2>1, <2>2, <2>3 DEF Histogram
<1>2. ASSUME NEW n \in Nat, n <= Window
      PROVE  \A a \in 0 .. n : h[a] \in Nat /\ Aged(h)[a] \in Nat
  BY <1>1, <1>2, WindowAssumption DEF Ages
<1>3. ASSUME Bad # {} PROVE FALSE
  <2>1. PICK n \in Bad : \A m \in Bad : n <= m
    <3>1. Bad \subseteq Nat
      BY DEF Young
    <3> HIDE DEF Bad
    <3> QED
      BY <1>3, <3>1, SmallestNat
  <2>2. n \in Young /\ n \in Nat /\ n <= Window /\ n \in Ages
    BY <2>1, WindowAssumption DEF Young, Ages
  <2>3. SumOver(Aged(h), 0 .. n) = SumOver(Aged(h), 0 .. (n - 1)) + Aged(h)[n]
    BY <1>2, <2>2, SumUpTo
  <2>4. CASE n = 0
    <3>1. 0 .. (n - 1) = {}
      BY <2>4
    <3>2. SumOver(Aged(h), 0 .. (n - 1)) = 0 /\ SumOver(h, 0 .. (n - 1)) = 0
      BY Zenon, <3>1, SumEmpty
    <3>3. 0 + 0 = 0
      OBVIOUS
    <3> QED
      BY Zenon, <1>1, <2>1, <2>3, <2>4, <3>2, <3>3
  <2>5. CASE n # 0
    <3>1. n - 1 \in Young /\ n - 1 \in Nat /\ n - 1 <= Window /\ ~ (n <= n - 1)
      BY <2>2, <2>5, WindowAssumption DEF Young, Ages
    <3>2. SumOver(Aged(h), 0 .. (n - 1)) = SumOver(h, 0 .. ((n - 1) - 1))
      BY Zenon, <2>1, <3>1
    <3>3. SumOver(h, 0 .. (n - 1)) = SumOver(h, 0 .. ((n - 1) - 1)) + h[n - 1]
      BY <1>2, <3>1, SumUpTo
    <3>4. Aged(h)[n] = h[n - 1]
      BY <1>1, <2>2, <2>5
    <3> QED
      BY Zenon, <2>1, <2>3, <3>2, <3>3, <3>4
  <2> QED
    BY Zenon, <2>4, <2>5
<1> DEFINE m == Window - 1
<1>4. m \in Nat /\ m <= Window /\ m \in Young /\ Young = 0 .. m /\ m \in Ages
  BY WindowAssumption DEF Young, Ages
<1> HIDE DEF m
<1>5. SumOver(Aged(h), Young) = SumOver(h, 0 .. (m - 1))
  BY Zenon, <1>3, <1>4
<1>6. SumOver(h, 0 .. (m - 1)) + h[m] = SumOver(h, Young)
  BY <1>2, <1>4, SumUpTo
<1>8. SumOver(h, 0 .. (m - 1)) \in Nat /\ h[m] \in Nat
  <2>1. IsFiniteSet(0 .. (m - 1)) /\ \A a \in 0 .. (m - 1) : h[a] \in Nat
    BY <1>2, <1>4, FS_Interval
  <2> HIDE DEF Bad
  <2> QED
    BY <1>1, <1>4, <2>1, SumType
<1>7. SumOver(Aged(h), Young) <= SumOver(h, Young)
  <2> HIDE DEF SumOver, Bad
  <2> QED
    BY <1>5, <1>6, <1>8
<1> QED
  BY Zenon, <1>7, LiveIsSum

\* What the breaker counts was recorded since it was closed last, unless enough
\* was: the two slices hold no more inside the window than the history says.
EvidenceInv ==
  /\ BreakerTypeOK
  /\ outcomes \in [Controllers -> 0 .. MinSamples]
  /\ \A c \in Controllers :
       outcomes[c] = MinSamples \/ Live(successes[c]) + Live(failures[c]) <= outcomes[c]

\* Numbers of EvidenceInv.
LEMMA EnoughOneMore ==
  ASSUME NEW a \in Nat, NEW b \in Nat, NEW n \in 0 .. MinSamples,
         n = MinSamples \/ a + b <= n
  PROVE  /\ OneMore(n) \in 0 .. MinSamples
         /\ OneMore(n) = MinSamples \/ (a + 1) + b <= OneMore(n)
         /\ OneMore(n) = MinSamples \/ a + (b + 1) <= OneMore(n)
  BY SamplesAssumption DEF OneMore

\* The slices and the history of one breaker have their types.
LEMMA ControllerTypes ==
  ASSUME EvidenceInv, NEW c \in Controllers
  PROVE  /\ successes[c] \in Histogram /\ failures[c] \in Histogram
         /\ Live(successes[c]) \in Nat /\ Live(failures[c]) \in Nat
         /\ outcomes[c] \in 0 .. MinSamples
<1>1. successes[c] \in Histogram /\ failures[c] \in Histogram /\ outcomes[c] \in 0 .. MinSamples
  BY DEF EvidenceInv, BreakerTypeOK
<1> QED
  BY <1>1, LiveType

\* It holds at the start.
LEMMA EvidenceInit == OpsInit => EvidenceInv
<1> SUFFICES ASSUME OpsInit PROVE EvidenceInv
  OBVIOUS
<1>1. NoResults \in Histogram
  BY DEF NoResults, Histogram
<1>2. BreakerTypeOK
  BY <1>1, CooldownAssumption DEF OpsInit, BreakerInit, BreakerTypeOK
<1>3. outcomes \in [Controllers -> 0 .. MinSamples]
  BY SamplesAssumption DEF OpsInit
<1>4. \A c \in Controllers : Live(successes[c]) + Live(failures[c]) <= outcomes[c]
  <2> SUFFICES ASSUME NEW c \in Controllers PROVE Live(successes[c]) + Live(failures[c]) <= outcomes[c]
    OBVIOUS
  <2>1. successes[c] = NoResults /\ failures[c] = NoResults /\ outcomes[c] = 0
    BY DEF OpsInit, BreakerInit
  <2>2. 0 + 0 <= 0
    OBVIOUS
  <2> QED
    BY Zenon, <2>1, <2>2, LiveOfNothing
<1> QED
  BY <1>2, <1>3, <1>4 DEF EvidenceInv

\* A step that changes the slices and the history of one breaker keeps it if it
\* does of that one.
LEMMA OneBreaker ==
  ASSUME EvidenceInv, BreakerTypeOK', NEW c \in Controllers,
         NEW s \in Histogram, NEW f \in Histogram, NEW n \in 0 .. MinSamples,
         successes' = [successes EXCEPT ![c] = s],
         failures' = [failures EXCEPT ![c] = f],
         outcomes' = [outcomes EXCEPT ![c] = n],
         n = MinSamples \/ Live(s) + Live(f) <= n
  PROVE  EvidenceInv'
<1>1. outcomes' \in [Controllers -> 0 .. MinSamples]
  BY DEF EvidenceInv
<1>2. ASSUME NEW d \in Controllers
      PROVE  outcomes'[d] = MinSamples \/ Live(successes'[d]) + Live(failures'[d]) <= outcomes'[d]
  <2>1. CASE d = c
    <3>1. successes'[d] = s /\ failures'[d] = f /\ outcomes'[d] = n
      BY <2>1 DEF EvidenceInv, BreakerTypeOK
    <3> QED
      BY Zenon, <3>1
  <2>2. CASE d # c
    <3>1. successes'[d] = successes[d] /\ failures'[d] = failures[d] /\ outcomes'[d] = outcomes[d]
      BY <2>2 DEF EvidenceInv, BreakerTypeOK
    <3> QED
      BY Zenon, <3>1 DEF EvidenceInv
  <2> QED
    BY <2>1, <2>2
<1> QED
  BY Zenon, <1>1, <1>2 DEF EvidenceInv

\* Every step of the breakers keeps their types.
LEMMA EvidenceTypes == EvidenceInv /\ [OpsNext]_opsVars => BreakerTypeOK'
<1> SUFFICES ASSUME EvidenceInv, [OpsNext]_opsVars PROVE BreakerTypeOK'
  OBVIOUS
<1>0. BreakerTypeOK
  BY DEF EvidenceInv
<1> USE DEF BreakerTypeOK
<1>t. 0 \in 0 .. Cooldown
  BY CooldownAssumption
<1>1. ASSUME NEW c \in Controllers, Success(c) PROVE BreakerTypeOK'
  <2>1. successes[c] \in Histogram /\ failures[c] \in Histogram
    BY <1>0
  <2>2. /\ NoResults \in Histogram /\ Prune(Append1(successes[c])) \in Histogram
        /\ Prune(failures[c]) \in Histogram
    BY <2>1, SliceTypes
  <2> QED
    BY <1>0, <1>1, <2>2 DEF Success, RecordSuccess
<1>2. ASSUME NEW c \in Controllers, Failure(c) PROVE BreakerTypeOK'
  <2>1. successes[c] \in Histogram /\ failures[c] \in Histogram
    BY <1>0
  <2>2. /\ Append1(failures[c]) \in Histogram /\ Prune(Append1(failures[c])) \in Histogram
        /\ Prune(successes[c]) \in Histogram
    BY <2>1, SliceTypes
  <2>3. CASE ProbeFails(c)
    BY <1>0, <1>t, <1>2, <2>2, <2>3 DEF Failure, RecordFailure, ProbeFails
  <2>4. CASE CountFailure(c)
    <3> DEFINE trip == MustTrip(Prune(successes[c]), Prune(Append1(failures[c]))) /\ ~tripped[c]
    <3>1. /\ successes' = [successes EXCEPT ![c] = Prune(successes[c])]
          /\ failures' = [failures EXCEPT ![c] = Prune(Append1(failures[c]))]
          /\ tripped' = [tripped EXCEPT ![c] = @ \/ trip]
          /\ sinceTrip' = [sinceTrip EXCEPT ![c] = IF trip THEN 0 ELSE @]
          /\ UNCHANGED <<halfOpen, inFlightProbe>>
      BY <1>2, <2>4 DEF Failure, RecordFailure, CountFailure, ProbeFails
    <3>2. trip \in BOOLEAN
      OBVIOUS
    <3> HIDE DEF trip
    <3> QED
      BY <1>0, <1>t, <2>2, <3>1, <3>2
  <2> QED
    BY <1>2, <2>3, <2>4 DEF Failure, RecordFailure
<1>3. ASSUME NEW c \in Controllers, Ask(c) PROVE BreakerTypeOK'
  BY <1>0, <1>3 DEF Ask, IsTripped
<1>4. ASSUME NEW c \in Controllers, CompleteProbe(c) PROVE BreakerTypeOK'
  BY <1>0, <1>4 DEF CompleteProbe, ProbeCompleted
<1>5. ASSUME NEW c \in Controllers, ManualTrip(c) PROVE BreakerTypeOK'
  BY <1>0, <1>t, <1>5 DEF ManualTrip, Trip
<1>6. ASSUME NEW c \in Controllers, ManualReset(c) PROVE BreakerTypeOK'
  <2>1. NoResults \in Histogram
    BY DEF NoResults, Histogram
  <2> QED
    BY <1>0, <1>6, <2>1 DEF ManualReset, Reset
<1>7. CASE Clock
  <2>1. \A c \in Controllers : Aged(successes[c]) \in Histogram /\ Aged(failures[c]) \in Histogram
    BY <1>0, SliceTypes
  <2> QED
    BY <1>0, <1>7, <2>1, CooldownAssumption DEF Clock, Elapse
<1>8. CASE UNCHANGED opsVars
  BY <1>0, <1>8 DEF opsVars, breakerVars
<1> QED
  BY <1>1, <1>2, <1>3, <1>4, <1>5, <1>6, <1>7, <1>8 DEF OpsNext

\* Every step keeps it.
LEMMA EvidenceNext == EvidenceInv /\ [OpsNext]_opsVars => EvidenceInv'
<1> SUFFICES ASSUME EvidenceInv, [OpsNext]_opsVars PROVE EvidenceInv'
  OBVIOUS
<1>0. BreakerTypeOK /\ BreakerTypeOK' /\ outcomes \in [Controllers -> 0 .. MinSamples]
  BY EvidenceTypes DEF EvidenceInv
<1>s. ASSUME UNCHANGED <<successes, failures, outcomes>> PROVE EvidenceInv'
  BY <1>0, <1>s DEF EvidenceInv
<1>1. ASSUME NEW c \in Controllers, Success(c) PROVE EvidenceInv'
  <2>1. /\ successes[c] \in Histogram /\ failures[c] \in Histogram
        /\ Live(successes[c]) \in Nat /\ Live(failures[c]) \in Nat
        /\ outcomes[c] \in 0 .. MinSamples
    BY <1>1, ControllerTypes
  <2>2. CASE halfOpen[c]
    <3>1. /\ successes' = [successes EXCEPT ![c] = NoResults]
          /\ failures' = [failures EXCEPT ![c] = NoResults]
          /\ outcomes' = [outcomes EXCEPT ![c] = 0]
      BY <1>1, <2>2 DEF Success, RecordSuccess
    <3>2. NoResults \in Histogram /\ 0 \in 0 .. MinSamples /\ 0 + 0 <= 0
      BY SamplesAssumption DEF NoResults, Histogram
    <3>3. Live(NoResults) + Live(NoResults) <= 0
      BY Zenon, <3>2, LiveOfNothing
    <3> QED
      BY <1>0, <1>1, <3>1, <3>2, <3>3, OneBreaker
  <2>3. CASE ~ halfOpen[c]
    <3> DEFINE s == Prune(Append1(successes[c]))
               f == Prune(failures[c])
               n == OneMore(outcomes[c])
    <3>1. /\ successes' = [successes EXCEPT ![c] = s]
          /\ failures' = [failures EXCEPT ![c] = f]
          /\ outcomes' = [outcomes EXCEPT ![c] = n]
      BY <1>1, <2>3 DEF Success, RecordSuccess
    <3>2. s \in Histogram /\ f \in Histogram /\ Append1(successes[c]) \in Histogram
      BY <2>1, SliceTypes
    <3>3. Live(s) = Live(successes[c]) + 1 /\ Live(f) = Live(failures[c])
      BY Zenon, <2>1, <3>2, LivePruned, LiveAppended
    <3>4. outcomes[c] = MinSamples \/ Live(successes[c]) + Live(failures[c]) <= outcomes[c]
      BY Zenon, <1>1 DEF EvidenceInv
    <3>5. n \in 0 .. MinSamples /\ (n = MinSamples \/ Live(s) + Live(f) <= n)
      BY Zenon, <2>1, <3>3, <3>4, EnoughOneMore
    <3> HIDE DEF s, f, n
    <3> QED
      BY <1>0, <1>1, <3>1, <3>2, <3>5, OneBreaker
  <2> QED
    BY <2>2, <2>3
<1>2. ASSUME NEW c \in Controllers, Failure(c) PROVE EvidenceInv'
  <2>1. /\ successes[c] \in Histogram /\ failures[c] \in Histogram
        /\ Live(successes[c]) \in Nat /\ Live(failures[c]) \in Nat
        /\ outcomes[c] \in 0 .. MinSamples
    BY <1>2, ControllerTypes
  <2> DEFINE n == OneMore(outcomes[c])
  <2>2. PICK s \in {successes[c], Prune(successes[c])},
             f \in {Append1(failures[c]), Prune(Append1(failures[c]))} :
               /\ successes' = [successes EXCEPT ![c] = s]
               /\ failures' = [failures EXCEPT ![c] = f]
    <3>1. CASE ProbeFails(c)
      <4>1. successes' = [successes EXCEPT ![c] = successes[c]]
        BY <1>0, <3>1 DEF ProbeFails, BreakerTypeOK
      <4> QED
        BY <3>1, <4>1 DEF ProbeFails
    <3>2. CASE CountFailure(c)
      <4>1. /\ successes' = [successes EXCEPT ![c] = Prune(successes[c])]
            /\ failures' = [failures EXCEPT ![c] = Prune(Append1(failures[c]))]
        BY <3>2 DEF CountFailure
      <4> QED
        BY <4>1
    <3> QED
      BY <1>2, <3>1, <3>2 DEF Failure, RecordFailure
  <2>3. s \in Histogram /\ f \in Histogram /\ Append1(failures[c]) \in Histogram
    BY <2>1, <2>2, SliceTypes
  <2>4. Live(s) = Live(successes[c]) /\ Live(f) = Live(failures[c]) + 1
    BY Zenon, <2>1, <2>2, <2>3, LivePruned, LiveAppended
  <2>5. outcomes[c] = MinSamples \/ Live(successes[c]) + Live(failures[c]) <= outcomes[c]
    BY Zenon, <1>2 DEF EvidenceInv
  <2>6. n \in 0 .. MinSamples /\ (n = MinSamples \/ Live(s) + Live(f) <= n)
    BY Zenon, <2>1, <2>4, <2>5, EnoughOneMore
  <2>7. outcomes' = [outcomes EXCEPT ![c] = n]
    BY <1>2 DEF Failure
  <2> HIDE DEF n
  <2> QED
    BY <1>0, <1>2, <2>2, <2>3, <2>6, <2>7, OneBreaker
<1>3. ASSUME NEW c \in Controllers, Ask(c) \/ CompleteProbe(c) \/ ManualTrip(c) PROVE EvidenceInv'
  BY <1>s, <1>3 DEF Ask, IsTripped, CompleteProbe, ProbeCompleted, ManualTrip, Trip
<1>4. ASSUME NEW c \in Controllers, ManualReset(c) PROVE EvidenceInv'
  <2>1. /\ successes' = [successes EXCEPT ![c] = NoResults]
        /\ failures' = [failures EXCEPT ![c] = NoResults]
        /\ outcomes' = [outcomes EXCEPT ![c] = 0]
    BY <1>4 DEF ManualReset, Reset
  <2>2. NoResults \in Histogram /\ 0 \in 0 .. MinSamples /\ 0 + 0 <= 0
    BY SamplesAssumption DEF NoResults, Histogram
  <2>3. Live(NoResults) + Live(NoResults) <= 0
    BY Zenon, <2>2, LiveOfNothing
  <2> QED
    BY <1>0, <1>4, <2>1, <2>2, <2>3, OneBreaker
<1>5. CASE Clock
  <2> SUFFICES ASSUME NEW c \in Controllers
               PROVE  outcomes'[c] = MinSamples \/ Live(successes'[c]) + Live(failures'[c]) <= outcomes'[c]
    BY Zenon, <1>0, <1>5 DEF Clock, EvidenceInv
  <2>1. /\ successes[c] \in Histogram /\ failures[c] \in Histogram
        /\ Live(successes[c]) \in Nat /\ Live(failures[c]) \in Nat
        /\ outcomes[c] \in 0 .. MinSamples
    BY ControllerTypes
  <2>2. /\ successes'[c] = Aged(successes[c]) /\ failures'[c] = Aged(failures[c])
        /\ outcomes'[c] = outcomes[c]
    BY <1>5 DEF Clock, Elapse
  <2>3. Aged(successes[c]) \in Histogram /\ Aged(failures[c]) \in Histogram
    BY <2>1, SliceTypes
  <2>4. /\ Live(successes'[c]) <= Live(successes[c]) /\ Live(failures'[c]) <= Live(failures[c])
        /\ Live(successes'[c]) \in Nat /\ Live(failures'[c]) \in Nat
    BY Zenon, <2>1, <2>2, <2>3, LiveAged, LiveType
  <2>5. outcomes[c] = MinSamples \/ Live(successes[c]) + Live(failures[c]) <= outcomes[c]
    BY Zenon DEF EvidenceInv
  <2> QED
    BY <2>1, <2>2, <2>4, <2>5, SamplesAssumption
<1>6. CASE UNCHANGED opsVars
  BY <1>s, <1>6 DEF opsVars, breakerVars
<1> QED
  BY <1>1, <1>2, <1>3, <1>4, <1>5, <1>6 DEF OpsNext

\* Trips by counting are those of RecordFailure, with what it counted.
LEMMA OnlyFailuresTrip ==
  ASSUME EvidenceInv, [OpsNext]_opsVars, NEW c \in Controllers, TripsByCounting(c)
  PROVE  /\ MustTrip(Prune(successes[c]), Prune(Append1(failures[c])))
         /\ outcomes'[c] = OneMore(outcomes[c])
<1>0. BreakerTypeOK /\ outcomes \in [Controllers -> 0 .. MinSamples]
  BY DEF EvidenceInv
<1>t. ~tripped[c] /\ tripped'[c] /\ failures'[c] # failures[c] /\ ~halfOpen[c]
  BY DEF TripsByCounting
<1>1. ASSUME NEW d \in Controllers, Success(d) PROVE FALSE
  BY <1>0, <1>t, <1>1 DEF Success, RecordSuccess, BreakerTypeOK
<1>2. ASSUME NEW d \in Controllers, Ask(d) \/ CompleteProbe(d) \/ ManualTrip(d) PROVE FALSE
  BY <1>t, <1>2 DEF Ask, IsTripped, CompleteProbe, ProbeCompleted, ManualTrip, Trip
<1>3. ASSUME NEW d \in Controllers, ManualReset(d) PROVE FALSE
  BY <1>0, <1>t, <1>3 DEF ManualReset, Reset, BreakerTypeOK
<1>4. ~ Clock /\ ~ UNCHANGED opsVars
  BY <1>t DEF Clock, Elapse, opsVars, breakerVars
<1>5. PICK d \in Controllers : Failure(d)
  BY <1>1, <1>2, <1>3, <1>4 DEF OpsNext
<1>6. d = c
  BY <1>0, <1>t, <1>5 DEF Failure, RecordFailure, ProbeFails, CountFailure,
         BreakerTypeOK
<1>7. CountFailure(c)
  BY <1>t, <1>5, <1>6 DEF Failure, RecordFailure, ProbeFails
<1> DEFINE must == MustTrip(Prune(successes[c]), Prune(Append1(failures[c])))
<1>8. tripped' = [tripped EXCEPT ![c] = @ \/ (must /\ ~tripped[c])]
  BY <1>7 DEF CountFailure
<1>9. tripped'[c] = (tripped[c] \/ (must /\ ~tripped[c]))
  <2> HIDE DEF must
  <2> QED
    BY Zenon, <1>0, <1>8 DEF BreakerTypeOK
<1>10. must
  BY Zenon, <1>t, <1>9
<1>11. outcomes'[c] = OneMore(outcomes[c])
  BY <1>0, <1>5, <1>6 DEF Failure
<1> QED
  BY <1>10, <1>11

\* A circuit breaker (internal/circuitbreaker) that counts trips on what is
\* inside the window only, and on no less than MinSamples results recorded
\* since it was closed last.
THEOREM TripsAreEarned == ServicesSpec => TripsOnEvidence
<1>1. EvidenceInv /\ [OpsNext]_opsVars =>
        \A c \in Controllers : TripsByCounting(c) =>
          LET fail == Live(failures[c]) + 1
              total == Live(successes[c]) + fail
          IN  /\ total >= MinSamples
              /\ fail * ThresholdDen >= ThresholdNum * total
              /\ outcomes'[c] >= MinSamples
  <2> SUFFICES ASSUME EvidenceInv, [OpsNext]_opsVars, NEW c \in Controllers, TripsByCounting(c)
               PROVE  LET fail == Live(failures[c]) + 1
                          total == Live(successes[c]) + fail
                      IN  /\ total >= MinSamples
                          /\ fail * ThresholdDen >= ThresholdNum * total
                          /\ outcomes'[c] >= MinSamples
    OBVIOUS
  <2>1. /\ successes[c] \in Histogram /\ failures[c] \in Histogram
        /\ Live(successes[c]) \in Nat /\ Live(failures[c]) \in Nat
        /\ outcomes[c] \in 0 .. MinSamples
    BY ControllerTypes
  <2>2. /\ MustTrip(Prune(successes[c]), Prune(Append1(failures[c])))
        /\ outcomes'[c] = OneMore(outcomes[c])
    BY OnlyFailuresTrip
  <2>3. Append1(failures[c]) \in Histogram
    BY <2>1, SliceTypes
  <2>4. /\ Count(Prune(successes[c])) = Live(successes[c])
        /\ Count(Prune(Append1(failures[c]))) = Live(failures[c]) + 1
    BY Zenon, <2>1, <2>3, CountPruned, LiveAppended
  <2> DEFINE fail == Live(failures[c]) + 1
             total == Live(successes[c]) + fail
  <2>5. total >= MinSamples /\ fail * ThresholdDen >= ThresholdNum * total
    BY Zenon, <2>2, <2>4 DEF MustTrip
  <2>6. outcomes[c] = MinSamples \/ Live(successes[c]) + Live(failures[c]) <= outcomes[c]
    BY Zenon DEF EvidenceInv
  <2>7. outcomes'[c] >= MinSamples
    BY <2>1, <2>2, <2>5, <2>6, SamplesAssumption DEF OneMore
  <2> QED
    BY Zenon, <2>5, <2>7
<1>2. EvidenceInv /\ [OpsNext]_opsVars =>
        /\ [\A c \in Controllers : TripsByCounting(c) =>
              LET fail == Live(failures[c]) + 1
                  total == Live(successes[c]) + fail
              IN  /\ total >= MinSamples
                  /\ fail * ThresholdDen >= ThresholdNum * total]_opsVars
        /\ [\A c \in Controllers : TripsByCounting(c) => outcomes'[c] >= MinSamples]_opsVars
  BY Zenon, <1>1
<1> QED
  BY <1>2, EvidenceInit, EvidenceNext, EachPart, PTL
     DEF OpsPart, TripsOnEvidence, WindowedEvidence, FreshEvidence

-----------------------------------------------------------------------------
\* The time series of pods.

\* A series in the order of time, up to now.
Sorted(s) == \A i, j \in 1 .. Len(s) : i < j => s[i] <= s[j]
\* A point of the series is of time t.
HasTime(s, t) == \E i \in 1 .. Len(s) : s[i] = t

\* The series are in order and hold what the windows need; the rows hold what
\* was written and has not expired, which is what a restart reads back.
StoreInv ==
  /\ clock \in 0 .. MaxTime
  /\ series \in [Keys -> Seq(0 .. clock)]
  /\ \A k \in Keys : Sorted(series[k])
  /\ rows \subseteq Keys \X (0 .. clock) /\ queued \subseteq Keys \X (0 .. clock)
  /\ written \subseteq Keys \X (0 .. clock)
  /\ evicted \subseteq Keys /\ loaded \in BOOLEAN
  /\ \A r \in written : r[2] >= Cutoff => r \in rows
  /\ \A r \in written \union queued :
       r[2] >= Cutoff /\ r[1] \notin evicted => HasTime(series[r[1]], r[2])
  /\ CapHolds

\* The least of a set of numbers is one of them.
LEMMA LeastOf ==
  ASSUME NEW T, T \subseteq Nat, T # {}
  PROVE  Min(T) \in T /\ \A x \in T : Min(T) <= x
<1>1. \E x \in T : \A y \in T : x <= y
  BY SmallestNat
<1> QED
  BY Zenon, <1>1 DEF Min

\* What evict leaves.
LEMMA EvictKeeps ==
  ASSUME NEW n \in Nat, NEW p \in Seq(0 .. n), Sorted(p), Cutoff \in Int
  PROVE  /\ Evict(p) \in Seq(0 .. n) /\ Sorted(Evict(p))
         /\ \A t \in Int : HasTime(p, t) /\ t >= Cutoff => HasTime(Evict(p), t)
         /\ p # <<>> /\ Last(p) >= Cutoff => Evict(p) # <<>> /\ Last(Evict(p)) = Last(p)
<1> DEFINE kept == {i \in 1 .. Len(p) : p[i] >= Cutoff}
           m == Min(kept)
<1>1. Len(p) \in Nat /\ \A i \in 1 .. Len(p) : p[i] \in 0 .. n /\ p[i] \in Nat
  BY LenProperties, ElementOfSeq
<1>2. CASE kept = {}
  <2>1. Evict(p) = <<>>
    BY <1>2 DEF Evict
  <2>2. <<>> \in Seq(0 .. n) /\ Len(<<>>) = 0
    BY EmptySeq
  <2>3. \A t \in Int : ~ (HasTime(p, t) /\ t >= Cutoff)
    BY <1>2 DEF HasTime
  <2>4. p # <<>> => Len(p) \in 1 .. Len(p)
    BY <1>1, EmptySeq
  <2>5. ~ (p # <<>> /\ Last(p) >= Cutoff)
    BY <1>2, <2>4 DEF Last
  <2> QED
    BY <2>1, <2>2, <2>3, <2>5 DEF Sorted
<1>3. CASE kept # {}
  <2>0. kept \subseteq Nat
    OBVIOUS
  <2> HIDE DEF kept
  <2>1. m \in kept /\ \A i \in kept : m <= i
    BY Zenon, <1>3, <2>0, LeastOf
  <2> USE DEF kept
  <2>2. m \in 1 .. Len(p) /\ p[m] >= Cutoff
    BY <2>1
  <2> HIDE DEF m
  <2> DEFINE e == SubSeq(p, m, Len(p))
  <2>3. Evict(p) = e
    BY <1>3 DEF Evict, m
  <2>4. /\ e \in Seq(0 .. n) /\ Len(e) = (IF m <= Len(p) THEN Len(p) - m + 1 ELSE 0)
        /\ \A i \in 1 .. Len(p) - m + 1 : e[i] = p[m + i - 1]
    <3>1. m \in Int /\ Len(p) \in Int /\ \A i \in m .. Len(p) : p[i] \in 0 .. n
      BY <1>1, <2>2
    <3> QED
      BY <3>1, SubSeqProperties
  <2> HIDE DEF e, kept
  <2>5. Len(e) = Len(p) - m + 1 /\ Len(e) \in Nat /\ Len(e) >= 1
    BY <1>1, <2>2, <2>4
  <2>6. \A i \in 1 .. Len(e) : e[i] = p[m + i - 1] /\ m + i - 1 \in 1 .. Len(p)
    BY <1>1, <2>2, <2>4, <2>5
  <2>7. Sorted(e)
    <3> SUFFICES ASSUME NEW i \in 1 .. Len(e), NEW j \in 1 .. Len(e), i < j PROVE e[i] <= e[j]
      BY DEF Sorted
    <3>1. m + i - 1 < m + j - 1
      BY <2>2
    <3> QED
      BY <2>6, <3>1 DEF Sorted
  <2>8. ASSUME NEW t \in Int, HasTime(p, t), t >= Cutoff PROVE HasTime(e, t)
    <3>1. PICK i \in 1 .. Len(p) : p[i] = t
      BY <2>8 DEF HasTime
    <3>2. m <= i
      BY <2>1, <2>8, <3>1 DEF kept
    <3>3. i - m + 1 \in 1 .. Len(e) /\ m + (i - m + 1) - 1 = i
      BY <1>1, <2>2, <2>5, <3>2
    <3>4. e[i - m + 1] = t
      BY <2>6, <3>1, <3>3
    <3> QED
      BY <3>3, <3>4 DEF HasTime
  <2>9. e # <<>> /\ Last(e) = Last(p)
    <3>1. Len(e) \in 1 .. Len(e) /\ m + Len(e) - 1 = Len(p)
      BY <1>1, <2>2, <2>5
    <3>2. e[Len(e)] = p[Len(p)]
      BY <2>6, <3>1
    <3>3. e # <<>>
      BY <2>5, EmptySeq
    <3> QED
      BY <3>2, <3>3 DEF Last
  <2> QED
    BY <2>3, <2>4, <2>7, <2>8, <2>9
<1> QED
  BY <1>2, <1>3

\* A point behind the others.
LEMMA AppendKeeps ==
  ASSUME NEW n \in Nat, NEW p \in Seq(0 .. n), Sorted(p), NEW t \in 0 .. n,
         p # <<>> => Last(p) <= t
  PROVE  /\ Append(p, t) \in Seq(0 .. n) /\ Sorted(Append(p, t)) /\ Append(p, t) # <<>>
         /\ Last(Append(p, t)) = t /\ HasTime(Append(p, t), t)
         /\ \A u \in Int : HasTime(p, u) => HasTime(Append(p, t), u)
<1> DEFINE q == Append(p, t)
<1>1. Len(p) \in Nat /\ \A i \in 1 .. Len(p) : p[i] \in Nat
  BY LenProperties, ElementOfSeq
<1>2. /\ q \in Seq(0 .. n) /\ q # <<>> /\ Len(q) = Len(p) + 1
      /\ \A i \in 1 .. Len(p) : q[i] = p[i]
      /\ q[Len(p) + 1] = t
  <2> DEFINE S == 0 .. n
  <2>1. p \in Seq(S) /\ t \in S
    OBVIOUS
  <2> HIDE DEF S
  <2>2. /\ q \in Seq(S) /\ q # <<>> /\ Len(q) = Len(p) + 1
        /\ \A i \in 1 .. Len(p) : q[i] = p[i]
        /\ q[Len(p) + 1] = t
    BY SMTT(20), <2>1, AppendProperties
  <2> QED
    BY Zenon, <2>2 DEF S
<1> HIDE DEF q
<1>3. \A i \in 1 .. Len(p) : p[i] <= t
  <2> SUFFICES ASSUME NEW i \in 1 .. Len(p) PROVE p[i] <= t
    OBVIOUS
  <2>1. Len(p) \in 1 .. Len(p) /\ p # <<>>
    BY <1>1, EmptySeq
  <2>2. p[Len(p)] <= t /\ p[Len(p)] \in Nat
    BY <1>1, <2>1 DEF Last
  <2>3. p[i] <= p[Len(p)]
    BY <1>1, <2>1 DEF Sorted
  <2> QED
    BY <1>1, <2>2, <2>3
<1>4. Sorted(q)
  <2> SUFFICES ASSUME NEW i \in 1 .. Len(q), NEW j \in 1 .. Len(q), i < j PROVE q[i] <= q[j]
    BY DEF Sorted
  <2>1. i \in 1 .. Len(p)
    BY <1>1, <1>2
  <2>2. CASE j \in 1 .. Len(p)
    BY <1>2, <2>1, <2>2 DEF Sorted
  <2>3. CASE j = Len(p) + 1
    BY <1>2, <1>3, <2>1, <2>3
  <2>4. j \in 1 .. Len(p) \/ j = Len(p) + 1
    <3>1. j \in 1 .. Len(p) + 1
      BY Zenon, <1>2
    <3> QED
      BY <1>1, <3>1
  <2> QED
    BY Zenon, <2>2, <2>3, <2>4
<1>5. Last(q) = t /\ HasTime(q, t)
  <2>1. Len(p) + 1 \in 1 .. Len(q)
    BY <1>1, <1>2
  <2> QED
    BY <1>2, <2>1 DEF Last, HasTime
<1>6. \A u \in Int : HasTime(p, u) => HasTime(q, u)
  <2>1. \A i \in 1 .. Len(p) : i \in 1 .. Len(q)
    BY <1>1, <1>2
  <2> QED
    BY <1>2, <2>1 DEF HasTime
<1> QED
  BY <1>2, <1>4, <1>5, <1>6 DEF q

\* The elements of a set, in increasing order.
HasOrder(u) ==
  \E s \in [1 .. Cardinality(u) -> u] :
    /\ \A x \in u : \E i \in 1 .. Cardinality(u) : s[i] = x
    /\ \A i, j \in 1 .. Cardinality(u) : i < j => s[i] < s[j]

\* A finite set of times can be put in order.
LEMMA OrderExists ==
  ASSUME NEW T, \A x \in T : x \in Nat, IsFiniteSet(T)
  PROVE  \E s \in [1 .. Cardinality(T) -> T] :
           ToSet(s) = T /\ \A i, j \in DOMAIN s : i < j => s[i] < s[j]
<1> DEFINE Bad == {u \in SUBSET T : ~ HasOrder(u)}
<1>1. ASSUME Bad # {} PROVE FALSE
  <2>1. PICK u \in Bad : \A v \in Bad : v \subseteq u => v = u
    <3>1. Bad \subseteq SUBSET T
      OBVIOUS
    <3> HIDE DEF Bad
    <3> QED
      BY <1>1, <3>1, SmallestSet
  <2>2. u \subseteq T /\ u \subseteq Nat /\ IsFiniteSet(u) /\ ~ HasOrder(u)
    BY <2>1, FS_Subset
  <2>3. u # {}
    <3> SUFFICES ASSUME u = {} PROVE HasOrder(u)
      BY <2>2
    <3>1. Cardinality(u) = 0
      BY FS_EmptySet
    <3>2. 1 .. Cardinality(u) = {}
      BY <3>1
    <3>3. [i \in 1 .. Cardinality(u) |-> 0] \in [1 .. Cardinality(u) -> u]
      BY <3>2
    <3> QED
      BY <3>2, <3>3 DEF HasOrder
  <2>4. PICK m \in u : \A x \in u : m <= x
    BY <2>2, <2>3, SmallestNat
  <2> DEFINE v == u \ {m}
             n == Cardinality(v)
  <2>5. v \in SUBSET T /\ v # u /\ v \subseteq u
    BY <2>2, <2>4
  <2>6. IsFiniteSet(v) /\ n \in Nat /\ Cardinality(u) = n + 1
    <3>1. IsFiniteSet(v) /\ Cardinality(v) = Cardinality(u) - 1 /\ Cardinality(u) \in Nat
      BY <2>2, <2>4, FS_RemoveElement, FS_CardinalityType
    <3>2. Cardinality(v) \in Nat
      BY <3>1, FS_CardinalityType
    <3> QED
      BY <3>1, <3>2
  <2>7. HasOrder(v)
    BY <2>1, <2>5
  <2>8. PICK s \in [1 .. n -> v] : /\ \A x \in v : \E i \in 1 .. n : s[i] = x
                                   /\ \A i, j \in 1 .. n : i < j => s[i] < s[j]
    BY <2>7 DEF HasOrder
  <2> DEFINE w == [i \in 1 .. n + 1 |-> IF i = 1 THEN m ELSE s[i - 1]]
  <2>9. \A x \in v : m < x /\ x \in u /\ x \in Nat
    BY <2>2, <2>4
  <2> HIDE DEF n
  <2>10. \A i \in 2 .. n + 1 : i - 1 \in 1 .. n /\ i \in 1 .. n + 1 /\ i # 1
    BY <2>6
  <2>11. \A i \in 2 .. n + 1 : w[i] = s[i - 1] /\ w[i] \in v
    BY <2>10
  <2>12. 1 \in 1 .. n + 1 /\ w[1] = m /\ \A i \in 1 .. n + 1 : i = 1 \/ i \in 2 .. n + 1
    BY <2>6
  <2>13. w \in [1 .. n + 1 -> u]
    <3>1. \A i \in 1 .. n + 1 : w[i] \in u
      BY <2>4, <2>9, <2>11, <2>12
    <3> QED
      BY <3>1
  <2> HIDE DEF w, v
  <2>14. \A x \in u : \E i \in 1 .. n + 1 : w[i] = x
    <3> SUFFICES ASSUME NEW x \in u PROVE \E i \in 1 .. n + 1 : w[i] = x
      OBVIOUS
    <3>1. CASE x = m
      BY <2>12, <3>1
    <3>2. CASE x # m
      <4>1. x \in v
        BY <3>2 DEF v
      <4>2. PICK i \in 1 .. n : s[i] = x
        BY <2>8, <4>1
      <4>3. i + 1 \in 2 .. n + 1 /\ (i + 1) - 1 = i /\ i + 1 \in 1 .. n + 1
        BY <2>6
      <4>4. w[i + 1] = x
        BY <2>11, <4>2, <4>3
      <4> QED
        BY <4>3, <4>4
    <3> QED
      BY <3>1, <3>2
  <2>15. \A i, j \in 1 .. n + 1 : i < j => w[i] < w[j]
    <3> SUFFICES ASSUME NEW i \in 1 .. n + 1, NEW j \in 1 .. n + 1, i < j PROVE w[i] < w[j]
      OBVIOUS
    <3>1. j \in 2 .. n + 1
      BY <2>6
    <3>2. CASE i = 1
      BY <2>9, <2>11, <2>12, <3>1, <3>2
    <3>3. CASE i \in 2 .. n + 1
      <4>1. i - 1 < j - 1
        OBVIOUS
      <4> QED
        BY <2>8, <2>10, <2>11, <3>1, <3>3, <4>1
    <3> QED
      BY <2>12, <3>2, <3>3
  <2>16. HasOrder(u)
    BY <2>6, <2>13, <2>14, <2>15 DEF HasOrder
  <2> QED
    BY <2>2, <2>16
<1>2. HasOrder(T)
  BY <1>1
<1>3. PICK s \in [1 .. Cardinality(T) -> T] :
         /\ \A x \in T : \E i \in 1 .. Cardinality(T) : s[i] = x
         /\ \A i, j \in 1 .. Cardinality(T) : i < j => s[i] < s[j]
  BY <1>2 DEF HasOrder
<1>4. ToSet(s) = T
  BY <1>3 DEF ToSet
<1> QED
  BY <1>3, <1>4

\* A set of times in order: each of them once, the earliest first.
LEMMA TimelineIs ==
  ASSUME NEW T, \A x \in T : x \in Nat, IsFiniteSet(T)
  PROVE  /\ Cardinality(T) \in Nat
         /\ Timeline(T) \in [1 .. Cardinality(T) -> T] /\ ToSet(Timeline(T)) = T
         /\ \A i, j \in DOMAIN Timeline(T) : i < j => Timeline(T)[i] < Timeline(T)[j]
<1>1. \E s \in [1 .. Cardinality(T) -> T] :
        ToSet(s) = T /\ \A i, j \in DOMAIN s : i < j => s[i] < s[j]
  BY OrderExists
<1>2. Cardinality(T) \in Nat
  BY FS_CardinalityType
<1> QED
  BY Zenon, <1>1, <1>2 DEF Timeline

\* The times of a key that are in the table and have not expired.
RowTimes(k) == {r[2] : r \in {q \in rows : q[1] = k /\ q[2] >= Cutoff}}

\* What is read back when the process starts.
LEMMA HydratedIs ==
  ASSUME clock \in Nat, rows \subseteq Keys \X (0 .. clock), NEW k \in Keys
  PROVE  /\ Hydrated(k) \in Seq(0 .. clock) /\ Sorted(Hydrated(k))
         /\ \A r \in rows : r[1] = k /\ r[2] >= Cutoff => HasTime(Hydrated(k), r[2])
<1> DEFINE T == RowTimes(k)
           h == Timeline(T)
<1>1. T \subseteq 0 .. clock
  BY DEF RowTimes
<1>2. IsFiniteSet(T) /\ \A x \in T : x \in Nat
  <2>1. IsFiniteSet(0 .. clock) /\ \A x \in 0 .. clock : x \in Nat
    BY FS_Interval
  <2> HIDE DEF T
  <2> QED
    BY <1>1, <2>1, FS_Subset
<1>3. Hydrated(k) = h
  BY DEF Hydrated, RowTimes
<1>4. \A r \in rows : r[1] = k /\ r[2] >= Cutoff => r[2] \in T
  BY DEF RowTimes
<1> HIDE DEF T
<1> DEFINE n == Cardinality(T)
<1>5. /\ n \in Nat /\ h \in [1 .. n -> T] /\ ToSet(h) = T
      /\ \A i, j \in DOMAIN h : i < j => h[i] < h[j]
  BY Zenon, <1>2, TimelineIs
<1> HIDE DEF n, h
<1>6. h \in Seq(0 .. clock) /\ Len(h) = n /\ DOMAIN h = 1 .. n
  <2> DEFINE S == 0 .. clock
  <2>1. h \in [1 .. n -> S]
    BY <1>1, <1>5
  <2> HIDE DEF S
  <2>2. h \in Seq(S) /\ DOMAIN h = 1 .. n
    BY <1>5, <2>1
  <2>3. Len(h) = n
    <3>1. Len(h) \in Nat /\ 1 .. Len(h) = 1 .. n
      BY Zenon, <2>2, LenProperties
    <3>2. n # 0 => n \in 1 .. Len(h)
      BY <1>5, <3>1
    <3>3. Len(h) # 0 => Len(h) \in 1 .. n
      <4>1. Len(h) # 0 => Len(h) \in 1 .. Len(h)
        BY <3>1
      <4> QED
        BY Zenon, <3>1, <4>1
    <3> QED
      BY <1>5, <3>1, <3>2, <3>3
  <2> QED
    BY <2>2, <2>3 DEF S
<1>7. Sorted(h)
  <2> SUFFICES ASSUME NEW i \in 1 .. n, NEW j \in 1 .. n, i < j PROVE h[i] <= h[j]
    BY <1>6 DEF Sorted
  <2>1. h[i] < h[j]
    BY <1>5, <1>6
  <2>2. h[i] \in 0 .. clock /\ h[j] \in 0 .. clock
    BY <1>1, <1>5
  <2> QED
    BY <2>1, <2>2
<1>8. \A x \in T : HasTime(h, x)
  BY <1>5, <1>6 DEF ToSet, HasTime
<1> QED
  BY Zenon, <1>3, <1>4, <1>6, <1>7, <1>8

\* The live series are finitely many.
LEMMA LiveFinite ==
  ASSUME NEW s
  PROVE  IsFiniteSet(LiveKeys(s)) /\ Cardinality(LiveKeys(s)) \in Nat
BY StoreAssumption, FS_Subset, FS_CardinalityType DEF LiveKeys

\* The last point is a time.
LEMMA LastNat ==
  ASSUME NEW n \in Nat, NEW p \in Seq(0 .. n), p # <<>>
  PROVE  Last(p) \in Nat
<1>1. Len(p) \in 1 .. Len(p)
  BY EmptySeq, LenProperties
<1>2. p[Len(p)] \in 0 .. n
  BY Zenon, <1>1, ElementOfSeq
<1> QED
  BY <1>2 DEF Last

\* The last point is the latest.
LEMMA LastLatest ==
  ASSUME NEW n \in Nat, NEW p \in Seq(0 .. n), Sorted(p), NEW t \in Int, HasTime(p, t)
  PROVE  p # <<>> /\ Last(p) >= t
<1>1. PICK i \in 1 .. Len(p) : p[i] = t
  BY DEF HasTime
<1>2. Len(p) \in Nat
  BY LenProperties
<1>3. Len(p) \in 1 .. Len(p)
  BY <1>1, <1>2
<1>4. p # <<>>
  BY <1>3, EmptySeq
<1>5. i = Len(p) \/ i < Len(p)
  BY <1>1, <1>2
<1>6. p[i] <= p[Len(p)]
  BY <1>1, <1>3, <1>5 DEF Sorted
<1> QED
  BY <1>1, <1>4, <1>6 DEF Last

\* What cleanupLocked leaves of the series.
LEMMA CleanedKeeps ==
  ASSUME clock \in Nat, NEW s \in [Keys -> Seq(0 .. clock)], \A k \in Keys : Sorted(s[k]),
         NEW out \in Overflow(WithoutExpired(s)),
         NEW c, c = [k \in Keys |-> IF k \in out THEN <<>> ELSE WithoutExpired(s)[k]]
  PROVE  /\ c \in [Keys -> Seq(0 .. clock)] /\ \A k \in Keys : Sorted(c[k])
         /\ out \subseteq Keys
         /\ \A k \in Keys \ out, t \in Int : HasTime(s[k], t) /\ t >= Cutoff => HasTime(c[k], t)
         /\ 10 * Cardinality(LiveKeys(c)) <= 12 * Cap
         /\ \A k \in out, l \in LiveKeys(c) : s[k] # <<>> /\ Last(s[k]) <= Last(c[l])
<1> DEFINE w == WithoutExpired(s)
<1>1. Cutoff \in Int
  BY StoreAssumption DEF Cutoff
<1>2. <<>> \in Seq(0 .. clock) /\ Sorted(<<>>)
  BY EmptySeq DEF Sorted
<1>3. \A k \in Keys : w[k] = (IF ExpiredSeries(s[k]) THEN <<>> ELSE s[k])
  BY DEF WithoutExpired
<1>4. out \subseteq LiveKeys(w) /\ out \subseteq Keys
  BY DEF Overflow, LiveKeys
<1>5. \/ out = {} /\ Cardinality(LiveKeys(w)) <= Cap
      \/ Cardinality(out) = Cardinality(LiveKeys(w)) - Cap /\ Stalest(w, out)
  <2>1. CASE Cardinality(LiveKeys(w)) <= Cap
    <3>1. Overflow(w) = {{}}
      BY Zenon, <2>1 DEF Overflow
    <3> QED
      BY Zenon, <2>1, <3>1
  <2>2. CASE ~ (Cardinality(LiveKeys(w)) <= Cap)
    <3>1. Overflow(w) = {o \in SUBSET LiveKeys(w) :
                           Cardinality(o) = Cardinality(LiveKeys(w)) - Cap /\ Stalest(w, o)}
      BY Zenon, <2>2 DEF Overflow
    <3> QED
      BY Zenon, <3>1
  <2> QED
    BY Zenon, <2>1, <2>2
<1> HIDE DEF w
<1>6. \A k \in Keys : c[k] = IF k \in out THEN <<>> ELSE w[k]
  BY DEF w
<1>7. c \in [Keys -> Seq(0 .. clock)]
  <2>1. \A k \in Keys : c[k] \in Seq(0 .. clock)
    BY <1>2, <1>3, <1>6
  <2>2. c = [k \in Keys |-> c[k]]
    OBVIOUS
  <2> HIDE DEF w
  <2> QED
    BY Zenon, <2>1, <2>2
<1>8. \A k \in Keys : Sorted(c[k])
  BY Zenon, <1>2, <1>3, <1>6
<1>9. ASSUME NEW k \in Keys \ out, NEW t \in Int, HasTime(s[k], t), t >= Cutoff PROVE HasTime(c[k], t)
  <2>1. s[k] \in Seq(0 .. clock) /\ Sorted(s[k])
    BY <1>9
  <2>2. Last(s[k]) >= t
    BY <1>9, <2>1, LastLatest
  <2>3. Last(s[k]) \in Int
    <3>1. s[k] # <<>>
      BY <1>9, <2>1, LastLatest
    <3>2. Len(s[k]) \in 1 .. Len(s[k])
      BY <2>1, <3>1, EmptySeq, LenProperties
    <3>3. s[k][Len(s[k])] \in 0 .. clock
      BY Zenon, <2>1, <3>2, ElementOfSeq
    <3> QED
      BY <3>3 DEF Last
  <2>4. ~ (Last(s[k]) < Cutoff)
    BY <1>1, <1>9, <2>2, <2>3
  <2>5. c[k] = s[k]
    BY Zenon, <1>3, <1>6, <1>9, <2>4 DEF ExpiredSeries
  <2> QED
    BY Zenon, <1>9, <2>5
<1>10. LiveKeys(c) = LiveKeys(w) \ out
  <2>1. \A k \in Keys : c[k] # <<>> <=> (k \notin out /\ w[k] # <<>>)
    BY Zenon, <1>6
  <2>2. /\ LiveKeys(c) = {k \in Keys : c[k] # <<>>}
        /\ LiveKeys(w) = {k \in Keys : w[k] # <<>>}
    BY DEF LiveKeys
  <2> QED
    BY <2>1, <2>2
<1>11. 10 * Cardinality(LiveKeys(c)) <= 12 * Cap
  <2>1. Cap \in Nat
    BY StoreAssumption
  <2>2. IsFiniteSet(LiveKeys(w)) /\ Cardinality(LiveKeys(w)) \in Nat
    BY LiveFinite
  <2>3. Cardinality(LiveKeys(c)) = Cardinality(LiveKeys(w)) - Cardinality(LiveKeys(w) \cap out)
    BY <1>10, <2>2, FS_Difference
  <2>4. LiveKeys(w) \cap out = out
    BY <1>4
  <2>5. Cardinality(LiveKeys(c)) <= Cap /\ Cardinality(LiveKeys(c)) \in Nat
    <3>1. CASE out = {} /\ Cardinality(LiveKeys(w)) <= Cap
      <4>1. LiveKeys(c) = LiveKeys(w)
        BY <1>10, <3>1
      <4> QED
        BY <2>2, <3>1, <4>1
    <3>2. CASE Cardinality(out) = Cardinality(LiveKeys(w)) - Cap
      <4> DEFINE a == Cardinality(LiveKeys(w))
                 b == Cardinality(out)
                 d == Cardinality(LiveKeys(c))
      <4>1. a \in Nat /\ b = a - Cap /\ d = a - b
        BY Zenon, <2>2, <2>3, <2>4, <3>2
      <4> HIDE DEF a, b, d
      <4>2. d = Cap
        BY <2>1, <4>1
      <4>3. d <= Cap /\ d \in Nat
        BY <2>1, <4>2
      <4> QED
        BY <4>3 DEF d
    <3> QED
      BY <1>5, <3>1, <3>2
  <2> QED
    BY <2>1, <2>5
<1>12. ASSUME NEW k \in out, NEW l \in LiveKeys(c) PROVE s[k] # <<>> /\ Last(s[k]) <= Last(c[l])
  <2>1. k \in Keys /\ w[k] # <<>>
    BY Zenon, <1>4 DEF LiveKeys
  <2>2. l \in Keys /\ l \in LiveKeys(w) \ out
    BY Zenon, <1>10 DEF LiveKeys
  <2>3. Last(w[k]) <= Last(w[l])
    BY Zenon, <1>5, <2>2 DEF Stalest
  <2>4. w[k] = s[k] /\ c[l] = w[l]
    BY Zenon, <1>3, <1>6, <2>1, <2>2
  <2> QED
    BY Zenon, <2>1, <2>3, <2>4
<1> QED
  BY <1>4, <1>7, <1>8, <1>9, <1>11, <1>12

\* A sequence of elements of a set is one of elements of a larger set.
LEMMA SeqGrows ==
  ASSUME NEW S, NEW T, \A x \in S : x \in T, NEW p \in Seq(S)
  PROVE  p \in Seq(T)
<1>1. Len(p) \in Nat /\ p \in [1 .. Len(p) -> S]
  BY LenProperties
<1>2. p \in [1 .. Len(p) -> T]
  BY <1>1
<1> QED
  BY <1>1, <1>2

\* The series and what the windows need survive a cleanup.
LEMMA CleanedStep ==
  ASSUME clock \in Nat, evicted \subseteq Keys,
         NEW s \in [Keys -> Seq(0 .. clock)], \A k \in Keys : Sorted(s[k]), Cleaned(s)
  PROVE  /\ series' \in [Keys -> Seq(0 .. clock)] /\ \A k \in Keys : Sorted(series'[k])
         /\ evicted \subseteq evicted' /\ evicted' \subseteq Keys
         /\ \A k \in Keys \ evicted', t \in Int : HasTime(s[k], t) /\ t >= Cutoff => HasTime(series'[k], t)
         /\ 10 * Cardinality(LiveKeys(series')) <= 12 * Cap
         /\ \A k \in evicted' \ evicted, l \in LiveKeys(series') :
              s[k] # <<>> /\ Last(s[k]) <= Last(series'[l])
<1>1. PICK out \in Overflow(WithoutExpired(s)) :
        /\ series' = [k \in Keys |-> IF k \in out THEN <<>> ELSE WithoutExpired(s)[k]]
        /\ evicted' = evicted \union out
  BY Zenon DEF Cleaned
<1> DEFINE c == [k \in Keys |-> IF k \in out THEN <<>> ELSE WithoutExpired(s)[k]]
<1>2. /\ c \in [Keys -> Seq(0 .. clock)] /\ \A k \in Keys : Sorted(c[k])
      /\ out \subseteq Keys
      /\ \A k \in Keys \ out, t \in Int : HasTime(s[k], t) /\ t >= Cutoff => HasTime(c[k], t)
      /\ 10 * Cardinality(LiveKeys(c)) <= 12 * Cap
      /\ \A k \in out, l \in LiveKeys(c) : s[k] # <<>> /\ Last(s[k]) <= Last(c[l])
  BY CleanedKeeps
<1> HIDE DEF c
<1>3. series' = c
  BY <1>1 DEF c
<1>4. evicted \subseteq evicted' /\ evicted' \subseteq Keys /\ evicted' \ evicted \subseteq out
      /\ Keys \ evicted' \subseteq Keys \ out
  BY <1>1, <1>2
<1> QED
  BY Zenon, <1>2, <1>3, <1>4

\* What a point that is recorded does to the series of its key.
LEMMA RecordKeeps ==
  ASSUME StoreInv, NEW k \in Keys, NEW t \in 0 .. MaxTime, MayFollow(k, t),
         NEW s, s = [series EXCEPT ![k] = Evict(Append(@, t))]
  PROVE  /\ t \in 0 .. clock /\ s \in [Keys -> Seq(0 .. clock)] /\ \A l \in Keys : Sorted(s[l])
         /\ \A l \in Keys, u \in Int : HasTime(series[l], u) /\ u >= Cutoff => HasTime(s[l], u)
         /\ HasTime(s[k], t)
         /\ \A l \in Keys : series[l] # <<>> => s[l] # <<>> /\ Last(series[l]) <= Last(s[l])
         /\ \A l \in Keys \ {k} : s[l] = series[l]
<1>1. clock \in Nat /\ Cutoff \in Int /\ series \in [Keys -> Seq(0 .. clock)]
      /\ \A l \in Keys : Sorted(series[l])
  BY StoreAssumption DEF StoreInv, Cutoff
<1>2. t \in 0 .. clock /\ t >= Cutoff
  BY <1>1, StoreAssumption DEF MayFollow, Cutoff
<1> DEFINE p == series[k]
           a == Append(p, t)
           e == Evict(a)
<1>3. p \in Seq(0 .. clock) /\ Sorted(p) /\ (p # <<>> => Last(p) <= t)
  BY <1>1 DEF MayFollow
<1>4. s[k] = e /\ \A l \in Keys \ {k} : s[l] = series[l]
  BY <1>1
<1>5. s = [l \in Keys |-> s[l]] 
  BY <1>1
<1> HIDE DEF p
<1>6. /\ a \in Seq(0 .. clock) /\ Sorted(a) /\ a # <<>> /\ Last(a) = t /\ HasTime(a, t)
      /\ \A u \in Int : HasTime(p, u) => HasTime(a, u)
  BY <1>1, <1>2, <1>3, AppendKeeps
<1> HIDE DEF a
<1>7. /\ e \in Seq(0 .. clock) /\ Sorted(e)
      /\ \A u \in Int : HasTime(a, u) /\ u >= Cutoff => HasTime(e, u)
      /\ a # <<>> /\ Last(a) >= Cutoff => e # <<>> /\ Last(e) = Last(a)
  BY <1>1, <1>6, EvictKeeps
<1> HIDE DEF e
<1>8. e # <<>> /\ Last(e) = t /\ HasTime(e, t)
  <2>1. t \in Int
    BY <1>2
  <2> QED
    BY Zenon, <1>2, <1>6, <1>7, <2>1
<1>9. s \in [Keys -> Seq(0 .. clock)]
  <2>1. \A l \in Keys : s[l] \in Seq(0 .. clock)
    BY Zenon, <1>1, <1>4, <1>7
  <2> QED
    BY Zenon, <1>5, <2>1
<1>10. \A l \in Keys : Sorted(s[l])
  BY Zenon, <1>1, <1>4, <1>7
<1>11. \A l \in Keys, u \in Int : HasTime(series[l], u) /\ u >= Cutoff => HasTime(s[l], u)
  BY Zenon, <1>4, <1>6, <1>7 DEF p
<1>12. ASSUME NEW l \in Keys, series[l] # <<>> PROVE s[l] # <<>> /\ Last(series[l]) <= Last(s[l])
  <2>1. CASE l = k
    BY Zenon, <1>3, <1>4, <1>8, <1>12, <2>1 DEF p
  <2>2. CASE l # k
    <3>1. s[l] = series[l]
      BY Zenon, <1>4, <2>2
    <3>2. Len(series[l]) \in Nat /\ Len(series[l]) \in 1 .. Len(series[l])
      BY <1>1, <1>12, EmptySeq
    <3>3. series[l][Len(series[l])] \in 0 .. clock
      BY Zenon, <1>1, <3>2, ElementOfSeq
    <3>4. Last(series[l]) <= Last(series[l])
      BY <3>3 DEF Last
    <3> QED
      BY Zenon, <1>12, <3>1, <3>4
  <2> QED
    BY <2>1, <2>2
<1> QED
  BY Zenon, <1>2, <1>4, <1>8, <1>9, <1>10, <1>11, <1>12

\* The invariant holds at the start.
LEMMA StoreStarts == StoreInit => StoreInv
<1> SUFFICES ASSUME StoreInit PROVE StoreInv
  OBVIOUS
<1>1. clock \in 0 .. MaxTime
  BY StoreAssumption DEF StoreInit
<1>2. \A k \in Keys : series[k] \in Seq(0 .. clock) /\ Sorted(series[k]) /\ series[k] = <<>>
  BY EmptySeq DEF StoreInit, Sorted
<1>3. series \in [Keys -> Seq(0 .. clock)]
  BY <1>2 DEF StoreInit
<1>4. evicted \subseteq Keys /\ loaded \in BOOLEAN /\ CapHolds
  BY DEF StoreInit, CapHolds
<1> QED
  BY <1>1, <1>2, <1>3, <1>4 DEF StoreInit, StoreInv

\* A cleanup keeps it, be it one after a recording that went over the cap or
\* the hourly one.
LEMMA StoreCleans ==
  ASSUME StoreInv, NEW s \in [Keys -> Seq(0 .. clock)], \A k \in Keys : Sorted(s[k]),
         \A l \in Keys, u \in Int : HasTime(series[l], u) /\ u >= Cutoff => HasTime(s[l], u),
         NEW q, q \subseteq Keys \X (0 .. clock), queued \subseteq q,
         \A r \in q \ queued : HasTime(s[r[1]], r[2]),
         queued' = q, Cleaned(s), loaded' = FALSE, UNCHANGED <<clock, rows, written>>
  PROVE  StoreInv'
<1>1. clock \in 0 .. MaxTime /\ clock \in Nat /\ evicted \subseteq Keys /\ Cutoff \in Int
  BY StoreAssumption DEF StoreInv, Cutoff
<1>2. /\ series' \in [Keys -> Seq(0 .. clock)] /\ \A k \in Keys : Sorted(series'[k])
      /\ evicted \subseteq evicted' /\ evicted' \subseteq Keys
      /\ \A k \in Keys \ evicted', t \in Int : HasTime(s[k], t) /\ t >= Cutoff => HasTime(series'[k], t)
      /\ 10 * Cardinality(LiveKeys(series')) <= 12 * Cap
  BY <1>1, CleanedStep
<1>3. clock' = clock /\ rows' = rows /\ written' = written /\ Cutoff' = Cutoff /\ queued' = q
  BY DEF Cutoff
<1>4. ASSUME NEW r \in written' \union queued', r[2] >= Cutoff', r[1] \notin evicted'
      PROVE  HasTime(series'[r[1]], r[2])
  <2>1. r[1] \in Keys /\ r[2] \in Int /\ r[2] >= Cutoff /\ r[1] \in Keys \ evicted'
    BY <1>3, <1>4 DEF StoreInv
  <2>2. r \in written \union queued \/ r \in q \ queued
    BY <1>3, <1>4
  <2>3. HasTime(s[r[1]], r[2])
    <3>1. CASE r \in written \union queued
      <4>1. r[1] \notin evicted
        BY Zenon, <1>2, <2>1
      <4>2. HasTime(series[r[1]], r[2])
        BY Zenon, <2>1, <3>1, <4>1 DEF StoreInv
      <4> QED
        BY Zenon, <2>1, <4>2
    <3> QED
      BY Zenon, <2>2, <3>1
  <2> QED
    BY Zenon, <1>2, <2>1, <2>3
<1>5. \A r \in written' : r[2] >= Cutoff' => r \in rows'
  BY Zenon, <1>3 DEF StoreInv
<1>6. CapHolds'
  BY <1>2 DEF CapHolds
<1>7. /\ clock' \in 0 .. MaxTime /\ series' \in [Keys -> Seq(0 .. clock')]
      /\ rows' \subseteq Keys \X (0 .. clock') /\ queued' \subseteq Keys \X (0 .. clock')
      /\ written' \subseteq Keys \X (0 .. clock') /\ loaded' \in BOOLEAN
  BY Zenon, <1>1, <1>2, <1>3 DEF StoreInv
<1> QED
  BY Zenon, <1>2, <1>4, <1>5, <1>6, <1>7 DEF StoreInv

\* Every step keeps it.
LEMMA StoreStays == StoreInv /\ [StoreNext]_storeVars => StoreInv'
<1> SUFFICES ASSUME StoreInv, [StoreNext]_storeVars PROVE StoreInv'
  OBVIOUS
<1>0. /\ clock \in 0 .. MaxTime /\ clock \in Nat /\ evicted \subseteq Keys /\ Cutoff \in Int
      /\ series \in [Keys -> Seq(0 .. clock)] /\ \A k \in Keys : Sorted(series[k])
      /\ rows \subseteq Keys \X (0 .. clock) /\ queued \subseteq Keys \X (0 .. clock)
      /\ written \subseteq Keys \X (0 .. clock) /\ loaded \in BOOLEAN
  BY StoreAssumption DEF StoreInv, Cutoff
<1>1. ASSUME NEW k \in Keys, NEW t \in 0 .. MaxTime, RecordPod(k, t) PROVE StoreInv'
  <2> DEFINE s == [series EXCEPT ![k] = Evict(Append(@, t))]
             q == queued \union {<<k, t>>}
  <2>1. /\ t \in 0 .. clock /\ s \in [Keys -> Seq(0 .. clock)] /\ \A l \in Keys : Sorted(s[l])
        /\ \A l \in Keys, u \in Int : HasTime(series[l], u) /\ u >= Cutoff => HasTime(s[l], u)
        /\ HasTime(s[k], t)
    <3>1. MayFollow(k, t)
      BY <1>1 DEF RecordPod
    <3> QED
      BY <3>1, RecordKeeps
  <2>2. /\ IF 10 * Cardinality(LiveKeys(s)) > 12 * Cap
           THEN Cleaned(s)
           ELSE series' = s /\ UNCHANGED evicted
        /\ queued' = q /\ loaded' = FALSE /\ UNCHANGED <<clock, rows, written>>
    BY <1>1 DEF RecordPod
  <2> HIDE DEF s
  <2>3. /\ q \subseteq Keys \X (0 .. clock) /\ queued \subseteq q
        /\ \A r \in q \ queued : r = <<k, t>>
    BY <1>0, <2>1
  <2>4. \A r \in q \ queued : HasTime(s[r[1]], r[2])
    BY <2>1, <2>3
  <2> HIDE DEF q
  <2>5. CASE 10 * Cardinality(LiveKeys(s)) > 12 * Cap
    <3>1. Cleaned(s)
      BY Zenon, <2>2, <2>5
    <3> QED
      BY <2>1, <2>2, <2>3, <2>4, <3>1, StoreCleans
  <2>6. CASE ~ (10 * Cardinality(LiveKeys(s)) > 12 * Cap)
    <3>1. series' = s /\ evicted' = evicted /\ clock' = clock /\ rows' = rows
          /\ written' = written /\ queued' = q /\ Cutoff' = Cutoff
      BY Zenon, <2>2, <2>6 DEF Cutoff
    <3>2. ASSUME NEW r \in written' \union queued', r[2] >= Cutoff', r[1] \notin evicted'
          PROVE  HasTime(series'[r[1]], r[2])
      <4>1. r[1] \in Keys /\ r[2] \in Int /\ r[2] >= Cutoff /\ r[1] \notin evicted
        BY <1>0, <2>3, <3>1, <3>2
      <4>2. CASE r \in written \union queued
        <5>1. HasTime(series[r[1]], r[2])
          BY Zenon, <4>1, <4>2 DEF StoreInv
        <5> QED
          BY Zenon, <2>1, <3>1, <4>1, <5>1
      <4>3. CASE r \in q \ queued
        BY Zenon, <2>4, <3>1, <4>3
      <4> QED
        BY <3>1, <3>2, <4>2, <4>3
    <3>3. CapHolds'
      <4>1. Cardinality(LiveKeys(s)) \in Nat
        BY LiveFinite
      <4>2. 10 * Cardinality(LiveKeys(s)) <= 12 * Cap
        BY StoreAssumption, <2>6, <4>1
      <4> QED
        BY Zenon, <3>1, <4>2 DEF CapHolds
    <3>4. \A r \in written' : r[2] >= Cutoff' => r \in rows'
      BY Zenon, <3>1 DEF StoreInv
    <3>5. loaded' \in BOOLEAN
      BY <2>2
    <3> QED
      BY Zenon, <1>0, <2>1, <2>3, <3>1, <3>2, <3>3, <3>4, <3>5 DEF StoreInv
  <2> QED
    BY <2>5, <2>6
<1>2. CASE CleanupStore
  <2>1. Cleaned(series) /\ loaded' = FALSE /\ UNCHANGED <<clock, rows, queued, written>>
    BY <1>2 DEF CleanupStore
  <2> QED
    BY <1>0, <2>1, StoreCleans
<1>3. CASE CleanupRows
  <2>1. /\ rows' = {r \in rows : r[2] >= Cutoff} /\ Cutoff' = Cutoff
        /\ UNCHANGED <<clock, series, queued, written, evicted, loaded>>
    BY <1>3 DEF CleanupRows, KeptRows, Cutoff
  <2>2. CapHolds'
    BY Zenon, <2>1 DEF StoreInv, CapHolds
  <2>3. \A r \in written' : r[2] >= Cutoff' => r \in rows'
    BY <2>1 DEF StoreInv
  <2>4. rows' \subseteq Keys \X (0 .. clock)
    BY <1>0, <2>1
  <2>5. \A r \in written' \union queued' :
          r[2] >= Cutoff' /\ r[1] \notin evicted' => HasTime(series'[r[1]], r[2])
    BY Zenon, <2>1 DEF StoreInv
  <2> QED
    BY Zenon, <1>0, <2>1, <2>2, <2>3, <2>4, <2>5 DEF StoreInv
<1>4. CASE Write
  <2>1. /\ rows' = rows \union queued /\ queued' = {} /\ written' = written \union queued
        /\ UNCHANGED <<clock, series, evicted, loaded>> /\ Cutoff' = Cutoff
    BY <1>4 DEF Write, Cutoff
  <2>2. CapHolds'
    BY Zenon, <2>1 DEF StoreInv, CapHolds
  <2>3. \A r \in written' : r[2] >= Cutoff' => r \in rows'
    BY <2>1 DEF StoreInv
  <2>4. rows' \subseteq Keys \X (0 .. clock) /\ written' \subseteq Keys \X (0 .. clock)
        /\ queued' \subseteq Keys \X (0 .. clock) /\ written' \union queued' = written \union queued
    BY <1>0, <2>1
  <2>5. \A r \in written' \union queued' :
          r[2] >= Cutoff' /\ r[1] \notin evicted' => HasTime(series'[r[1]], r[2])
    BY Zenon, <2>1, <2>4 DEF StoreInv
  <2> QED
    BY Zenon, <1>0, <2>1, <2>2, <2>3, <2>4, <2>5 DEF StoreInv
<1>5. CASE RestartStore
  <2>1. /\ series' = [k \in Keys |-> Hydrated(k)] /\ queued' = {} /\ evicted' = {}
        /\ loaded' = TRUE /\ UNCHANGED <<clock, rows, written>> /\ Cutoff' = Cutoff
    BY <1>5 DEF RestartStore, Cutoff
  <2>2. \A k \in Keys : /\ Hydrated(k) \in Seq(0 .. clock) /\ Sorted(Hydrated(k))
                        /\ \A r \in rows : r[1] = k /\ r[2] >= Cutoff => HasTime(Hydrated(k), r[2])
    BY <1>0, HydratedIs
  <2>3. /\ series' \in [Keys -> Seq(0 .. clock)]
        /\ \A k \in Keys : series'[k] = Hydrated(k)
    BY <2>1, <2>2
  <2>4. ASSUME NEW r \in written' \union queued', r[2] >= Cutoff' PROVE HasTime(series'[r[1]], r[2])
    <3>1. r \in written /\ r[1] \in Keys /\ r[2] >= Cutoff
      BY <1>0, <2>1, <2>4
    <3>2. r \in rows
      BY Zenon, <3>1 DEF StoreInv
    <3> QED
      BY Zenon, <2>2, <2>3, <3>1, <3>2
  <2>5. CapHolds' /\ evicted' \subseteq Keys /\ loaded' \in BOOLEAN
        /\ queued' \subseteq Keys \X (0 .. clock)
    BY <2>1 DEF CapHolds
  <2>6. \A r \in written' : r[2] >= Cutoff' => r \in rows'
    BY Zenon, <2>1 DEF StoreInv
  <2>7. \A k \in Keys : Sorted(series'[k])
    BY Zenon, <2>2, <2>3
  <2> QED
    BY Zenon, <1>0, <2>1, <2>3, <2>4, <2>5, <2>6, <2>7 DEF StoreInv
<1>6. CASE StoreTick
  <2>1. /\ clock < MaxTime /\ clock' = clock + 1 /\ Cutoff' = Cutoff + 1
        /\ written' = {r \in written : r[2] >= Cutoff + 1}
        /\ UNCHANGED <<series, rows, queued, evicted, loaded>>
    BY <1>0, <1>6, StoreAssumption DEF StoreTick, Cutoff
  <2>2. clock' \in 0 .. MaxTime /\ \A t \in 0 .. clock : t \in 0 .. clock'
    BY <1>0, <2>1, StoreAssumption
  <2>3. rows' \subseteq Keys \X (0 .. clock') /\ queued' \subseteq Keys \X (0 .. clock')
        /\ written' \subseteq Keys \X (0 .. clock') /\ written' \subseteq written
    BY <1>0, <2>1, <2>2
  <2>4. series' \in [Keys -> Seq(0 .. clock')]
    <3>1. ASSUME NEW k \in Keys PROVE series[k] \in Seq(0 .. clock')
      BY <1>0, <2>2, SeqGrows
    <3>2. series' = [k \in Keys |-> series[k]]
      BY <1>0, <2>1
    <3> QED
      BY Zenon, <3>1, <3>2
  <2>5. \A r \in written' \union queued' :
          r[2] >= Cutoff' => r \in written \union queued /\ r[2] >= Cutoff
    <3> SUFFICES ASSUME NEW r \in written' \union queued', r[2] >= Cutoff'
                 PROVE  r \in written \union queued /\ r[2] >= Cutoff
      OBVIOUS
    <3>1. r \in written \union queued /\ r[2] \in Int
      BY <1>0, <2>1, <2>3
    <3> QED
      BY <1>0, <2>1, <3>1
  <2>6. CapHolds'
    BY Zenon, <2>1 DEF StoreInv, CapHolds
  <2>7. \A r \in written' : r[2] >= Cutoff' => r \in rows'
    BY Zenon, <2>1, <2>3, <2>5 DEF StoreInv
  <2>8. \A r \in written' \union queued' :
          r[2] >= Cutoff' /\ r[1] \notin evicted' => HasTime(series'[r[1]], r[2])
    BY Zenon, <2>1, <2>5 DEF StoreInv
  <2> QED
    BY Zenon, <1>0, <2>1, <2>2, <2>3, <2>4, <2>6, <2>7, <2>8 DEF StoreInv
<1>7. CASE UNCHANGED storeVars
  BY Zenon, <1>7 DEF StoreInv, storeVars, CapHolds, Cutoff
<1> QED
  BY Zenon, <1>1, <1>2, <1>3, <1>4, <1>5, <1>6, <1>7 DEF StoreNext

\* What the cap throws out was last heard of no later than what stays.
LEMMA CapTakesStalest ==
  StoreInv /\ [StoreNext]_storeVars =>
    \A k \in evicted' \ evicted, l \in LiveKeys(series') :
      k \in LiveKeys(series) /\ l \in LiveKeys(series) => Last(series[k]) <= Last(series'[l])
<1> SUFFICES ASSUME StoreInv, [StoreNext]_storeVars,
                    NEW k \in evicted' \ evicted, NEW l \in LiveKeys(series'),
                    k \in LiveKeys(series), l \in LiveKeys(series)
             PROVE  Last(series[k]) <= Last(series'[l])
  OBVIOUS
<1>0. /\ clock \in Nat /\ evicted \subseteq Keys /\ k \in Keys /\ l \in Keys
      /\ series \in [Keys -> Seq(0 .. clock)] /\ \A j \in Keys : Sorted(series[j])
      /\ series[k] # <<>>
  BY DEF StoreInv, LiveKeys
<1>1. ASSUME NEW h \in Keys, NEW t \in 0 .. MaxTime, RecordPod(h, t)
      PROVE  Last(series[k]) <= Last(series'[l])
  <2> DEFINE s == [series EXCEPT ![h] = Evict(Append(@, t))]
  <2>1. /\ s \in [Keys -> Seq(0 .. clock)] /\ \A j \in Keys : Sorted(s[j])
        /\ \A j \in Keys : series[j] # <<>> => s[j] # <<>> /\ Last(series[j]) <= Last(s[j])
    <3>1. MayFollow(h, t)
      BY <1>1 DEF RecordPod
    <3> QED
      BY <3>1, RecordKeeps
  <2>2. IF 10 * Cardinality(LiveKeys(s)) > 12 * Cap THEN Cleaned(s)
                                                    ELSE series' = s /\ UNCHANGED evicted
    BY <1>1 DEF RecordPod
  <2> HIDE DEF s
  <2>3. Cleaned(s)
    BY Zenon, <2>2
  <2>4. Last(s[k]) <= Last(series'[l])
    BY <1>0, <2>1, <2>3, CleanedStep
  <2>5. Last(series[k]) <= Last(s[k])
    BY Zenon, <1>0, <2>1
  <2>6. series' \in [Keys -> Seq(0 .. clock)] /\ series'[l] # <<>>
    BY <1>0, <2>1, <2>3, CleanedStep DEF LiveKeys
  <2>7. s[k] # <<>> /\ s[k] \in Seq(0 .. clock) /\ series[k] \in Seq(0 .. clock)
        /\ series'[l] \in Seq(0 .. clock)
    BY <1>0, <2>1, <2>6
  <2>8. Last(series[k]) \in Nat /\ Last(s[k]) \in Nat /\ Last(series'[l]) \in Nat
    BY Zenon, <1>0, <2>6, <2>7, LastNat
  <2> QED
    BY <2>4, <2>5, <2>8
<1>2. CASE CleanupStore
  <2>1. Cleaned(series)
    BY <1>2 DEF CleanupStore
  <2> QED
    BY <1>0, <2>1, CleanedStep
<1>3. CASE RestartStore
  BY <1>3 DEF RestartStore
<1>4. CASE UNCHANGED evicted
  BY <1>4
<1> QED
  BY Zenon, <1>1, <1>2, <1>3, <1>4 DEF StoreNext, CleanupRows, Write, StoreTick,
         storeVars

\* The time series of pods (internal/metrics/store.go): a window misses no
\* point that was written or was recorded since the start unless the cap threw
\* its series out, the cap holds, and it takes the stalest first.
THEOREM SeriesAreKept == ServicesSpec => SeriesKept
<1>1. StoreInv => WindowsComplete /\ CapHolds
  <2> SUFFICES ASSUME StoreInv PROVE WindowsComplete
    BY DEF StoreInv
  <2> QED
    BY Zenon DEF StoreInv, WindowsComplete, Contains, HasTime
<1> QED
  BY <1>1, StoreStarts, StoreStays, CapTakesStalest, EachPart, PTL
     DEF StorePart, SeriesKept, StalestGoFirst

-----------------------------------------------------------------------------
\* The alerts.

\* What the window keeps of a sequence is its end.
LEMMA LatestFacts ==
  ASSUME NEW S, NEW s \in Seq(S)
  PROVE  /\ Latest(s) \in Seq(S)
         /\ Len(Latest(s)) = IF Len(s) > WindowSize THEN WindowSize ELSE Len(s)
         /\ \A i \in 1 .. Len(Latest(s)) : Latest(s)[i] = s[Len(s) - Len(Latest(s)) + i]
<1>0. Len(s) \in Nat /\ WindowSize \in Nat \ {0} /\ \A i \in 1 .. Len(s) : s[i] \in S
  BY AlertsAssumption, LenProperties, ElementOfSeq
<1>1. CASE Len(s) > WindowSize
  <2> DEFINE m == Len(s) - WindowSize + 1
  <2>1. m \in Int /\ Len(s) \in Int /\ m <= Len(s) /\ Len(s) - m + 1 = WindowSize
        /\ \A i \in m .. Len(s) : i \in 1 .. Len(s)
    BY <1>0, <1>1
  <2>2. \A i \in m .. Len(s) : s[i] \in S
    BY <1>0, <2>1
  <2>3. Latest(s) = SubSeq(s, m, Len(s))
    BY <1>1 DEF Latest
  <2> HIDE DEF m
  <2>4. /\ SubSeq(s, m, Len(s)) \in Seq(S)
        /\ Len(SubSeq(s, m, Len(s))) = IF m <= Len(s) THEN Len(s) - m + 1 ELSE 0
        /\ \A i \in 1 .. Len(s) - m + 1 : SubSeq(s, m, Len(s))[i] = s[m + i - 1]
    BY <2>1, <2>2, SubSeqProperties
  <2>5. Latest(s) \in Seq(S) /\ Len(Latest(s)) = WindowSize
    BY <2>1, <2>3, <2>4
  <2>6. \A i \in 1 .. WindowSize : Latest(s)[i] = s[m + i - 1]
    BY <2>1, <2>3, <2>4
  <2>7. \A i \in 1 .. WindowSize : m + i - 1 = Len(s) - WindowSize + i
    BY <1>0 DEF m
  <2> QED
    BY <1>1, <2>5, <2>6, <2>7
<1>2. CASE ~ (Len(s) > WindowSize)
  <2>1. Latest(s) = s
    BY <1>2 DEF Latest
  <2>2. \A i \in 1 .. Len(s) : Len(s) - Len(s) + i = i
    BY <1>0
  <2> QED
    BY <1>2, <2>1, <2>2
<1> QED
  BY <1>1, <1>2

\* The end of what comes after the end of a sequence is the end of both: a
\* window that drops the oldest sample with every new one shows the last ones
\* of all.
LEMMA LatestTwice ==
  ASSUME NEW S, NEW s \in Seq(S), NEW t \in Seq(S)
  PROVE  Latest(Latest(s) \o t) = Latest(s \o t)
<1> DEFINE a == Latest(s)
           b == Latest(a \o t)
           c == Latest(s \o t)
<1>0. /\ Len(s) \in Nat /\ Len(t) \in Nat /\ WindowSize \in Nat \ {0}
  BY AlertsAssumption, LenProperties
<1>1. /\ a \in Seq(S) /\ Len(a) = IF Len(s) > WindowSize THEN WindowSize ELSE Len(s)
      /\ \A i \in 1 .. Len(a) : a[i] = s[Len(s) - Len(a) + i]
  BY LatestFacts
<1> HIDE DEF a
<1>2. /\ a \o t \in Seq(S) /\ Len(a \o t) = Len(a) + Len(t)
      /\ \A i \in 1 .. Len(a) + Len(t) : (a \o t)[i] = IF i <= Len(a) THEN a[i] ELSE t[i - Len(a)]
  BY <1>1, ConcatProperties
<1>3. /\ s \o t \in Seq(S) /\ Len(s \o t) = Len(s) + Len(t)
      /\ \A i \in 1 .. Len(s) + Len(t) : (s \o t)[i] = IF i <= Len(s) THEN s[i] ELSE t[i - Len(s)]
  BY ConcatProperties
<1>4. /\ b \in Seq(S) /\ Len(b) = IF Len(a \o t) > WindowSize THEN WindowSize ELSE Len(a \o t)
      /\ \A i \in 1 .. Len(b) : b[i] = (a \o t)[Len(a \o t) - Len(b) + i]
  BY <1>2, LatestFacts
<1>5. /\ c \in Seq(S) /\ Len(c) = IF Len(s \o t) > WindowSize THEN WindowSize ELSE Len(s \o t)
      /\ \A i \in 1 .. Len(c) : c[i] = (s \o t)[Len(s \o t) - Len(c) + i]
  BY <1>3, LatestFacts
<1> HIDE DEF b, c
<1>6. Len(a) \in Nat /\ Len(b) = Len(c) /\ Len(b) \in Nat
      /\ Len(b) <= Len(a) + Len(t) /\ Len(b) <= Len(s) + Len(t) /\ Len(a) <= Len(s)
  BY <1>0, <1>1, <1>2, <1>3, <1>4, <1>5
<1>7. ASSUME NEW i \in 1 .. Len(b) PROVE b[i] = c[i]
  <2> DEFINE p == Len(a) + Len(t) - Len(b) + i
             q == Len(s) + Len(t) - Len(b) + i
  <2>1. p \in 1 .. Len(a) + Len(t) /\ q \in 1 .. Len(s) + Len(t) /\ q = Len(s) - Len(a) + p
    BY <1>0, <1>6
  <2>a. i \in 1 .. Len(c)
    BY <1>6
  <2>b. Len(a \o t) - Len(b) + i = p
    BY <1>2
  <2>c. Len(s \o t) - Len(c) + i = q
    BY <1>3, <1>6
  <2>d. b[i] = (a \o t)[Len(a \o t) - Len(b) + i]
    BY <1>4
  <2>e. c[i] = (s \o t)[Len(s \o t) - Len(c) + i]
    BY <1>5, <2>a
  <2> HIDE DEF p, q
  <2>2. b[i] = (a \o t)[p]
    BY <2>b, <2>d
  <2>3. c[i] = (s \o t)[q]
    BY <2>c, <2>e
  <2>4. (a \o t)[p] = IF p <= Len(a) THEN a[p] ELSE t[p - Len(a)]
    BY <1>2, <2>1
  <2>5. (s \o t)[q] = IF q <= Len(s) THEN s[q] ELSE t[q - Len(s)]
    BY <1>3, <2>1
  <2>6. CASE p <= Len(a)
    <3>1. q <= Len(s) /\ p \in 1 .. Len(a)
      BY <1>0, <1>6, <2>1, <2>6
    <3>2. a[p] = s[q]
      BY <1>1, <2>1, <3>1
    <3> QED
      BY <2>2, <2>3, <2>4, <2>5, <2>6, <3>1, <3>2
  <2>7. CASE ~ (p <= Len(a))
    <3>1. ~ (q <= Len(s)) /\ p - Len(a) = q - Len(s)
      BY <1>0, <1>6, <2>1, <2>7
    <3> QED
      BY <2>2, <2>3, <2>4, <2>5, <2>7, <3>1
  <2> QED
    BY <2>6, <2>7
<1>8. b = c
  BY <1>4, <1>5, <1>6, <1>7, SeqEqual
<1> QED
  BY <1>8 DEF a, b, c

\* And so with one sample more.
LEMMA LatestAppend ==
  ASSUME NEW S, NEW s \in Seq(S), NEW x \in S
  PROVE  /\ Latest(Append(Latest(s), x)) = Latest(Append(s, x))
         /\ Latest(Append(s, x)) \in Seq(S)
         /\ Len(Latest(Append(s, x))) <= WindowSize
         /\ Len(Latest(Append(s, x))) \in Nat \ {0}
<1>1. Latest(s) \in Seq(S) /\ <<x>> \in Seq(S)
  BY LatestFacts
<1>2. Append(s, x) = s \o <<x>> /\ Append(Latest(s), x) = Latest(s) \o <<x>>
  BY <1>1, AppendIsConcat
<1>3. Latest(Latest(s) \o <<x>>) = Latest(s \o <<x>>)
  BY <1>1, LatestTwice
<1>4. Append(s, x) \in Seq(S) /\ Len(Append(s, x)) = Len(s) + 1 /\ Len(s) \in Nat
  BY AppendProperties, LenProperties
<1>5. /\ Latest(Append(s, x)) \in Seq(S)
      /\ Len(Latest(Append(s, x))) = IF Len(s) + 1 > WindowSize THEN WindowSize ELSE Len(s) + 1
  BY <1>4, LatestFacts
<1> QED
  BY <1>2, <1>3, <1>4, <1>5, AlertsAssumption

\* The sum of samples that are all the same.
LEMMA AlertsSums ==
  ASSUME NEW n \in Nat, NEW v \in Nat, NEW f, \A i \in 1 .. n : f[i] = v
  PROVE  SumOver(f, 1 .. n) = n * v
<1> DEFINE Bad == {m \in 0 .. n : SumOver(f, 1 .. m) # m * v}
<1>1. ASSUME Bad # {} PROVE FALSE
  <2>1. Bad \subseteq Nat
    OBVIOUS
  <2> HIDE DEF Bad
  <2>2. PICK m \in Bad : \A k \in Bad : m <= k
    BY Zenon, <1>1, <2>1, SmallestNat
  <2> USE DEF Bad
  <2>3. m \in 0 .. n /\ SumOver(f, 1 .. m) # m * v
    BY <2>2
  <2>4. CASE m = 0
    <3>1. 1 .. m = {}
      BY <2>4
    <3>2. SumOver(f, 1 .. m) = 0
      BY <3>1, SumEmpty
    <3> QED
      BY <2>3, <2>4, <3>2
  <2>5. CASE m # 0
    <3> DEFINE S == 1 .. (m - 1)
               k == m - 1
    <3>1. k \in 0 .. n /\ ~ (m <= k) /\ m \in 1 .. n
      BY <2>3, <2>5
    <3>2. k \notin Bad
      BY <2>2, <3>1
    <3>3. SumOver(f, S) = k * v
      BY <3>1, <3>2
    <3>a. m \in Int /\ m >= 1 /\ \A a \in 1 .. m : f[a] \in Nat /\ f[a] = v
      BY <3>1
    <3>6. SumOver(f, 1 .. m) = SumOver(f, S) + f[m]
      BY <3>a, SumUpTo
    <3> HIDE DEF k
    <3>7. m * v = k * v + v
      BY <3>a DEF k
    <3>8. SumOver(f, 1 .. m) = m * v
      BY <3>1, <3>3, <3>6, <3>7, <3>a
    <3> QED
      BY <2>3, <3>8
  <2> QED
    BY <2>4, <2>5
<1>2. n \in 0 .. n
  OBVIOUS
<1> QED
  BY <1>1, <1>2

\* The sum of samples that are the same but for the last.
LEMMA LevelThenOne ==
  ASSUME NEW k \in Nat, NEW v \in Nat, NEW s \in Seq(Nat), Len(s) = k + 1,
         \A i \in 1 .. k : s[i] = v
  PROVE  Total(s) = k * v + s[k + 1]
<1> DEFINE S == 1 .. k
<1>1. Total(s) = SumOver(s, DOMAIN s)
  BY DEF Total, SumFunction, SumOver
<1>2. DOMAIN s = 1 .. k + 1
  BY LenProperties
<1>3. \A a \in 1 .. k + 1 : s[a] \in Nat
  OBVIOUS
<1>4. SumOver(s, S) = k * v
  BY AlertsSums
<1>5. SumOver(s, 1 .. k + 1) = SumOver(s, 1 .. ((k + 1) - 1)) + s[k + 1]
  BY <1>3, SumUpTo
<1>6. (k + 1) - 1 = k
  OBVIOUS
<1> QED
  BY <1>1, <1>2, <1>4, <1>5, <1>6

\* The deviations of a level window with one sample above it, and of another
\* such sample from that: by completing the square.
LEMMA StepFarOff ==
  ASSUME NEW k \in Nat, NEW v \in Nat, NEW d \in Nat \ {0}, NEW D \in Nat, k > D
  PROVE  /\ (k + 1) * (v + d) - (k * v + (v + d)) = k * d
         /\ (k + 1) * (k * (v * v) + (v + d) * (v + d)) - (k * v + (v + d)) * (k * v + (v + d)) = k * (d * d)
         /\ k * d > 0
         /\ k * (d * d) > 0
         /\ (k * d) * (k * d) > D * (k * (d * d))
<1>1. (k + 1) * (v + d) - (k * v + (v + d)) = k * d
  OBVIOUS
<1>2. (k + 1) * (k * (v * v) + (v + d) * (v + d)) - (k * v + (v + d)) * (k * v + (v + d)) = k * (d * d)
  OBVIOUS
<1> DEFINE e == d * d
           r == k * e
<1>3. k \in Nat \ {0} /\ d \in Nat \ {0} /\ k * d > 0
  OBVIOUS
<1>4. e \in Nat \ {0}
  BY <1>3
<1>5. (k * d) * (k * d) = k * r
  OBVIOUS
<1> HIDE DEF e
<1>6. r \in Nat \ {0}
  BY <1>3, <1>4
<1> HIDE DEF r
<1>7. k * r > D * r
  BY <1>6
<1> QED
  BY <1>1, <1>2, <1>3, <1>5, <1>6, <1>7 DEF e, r

\* The window is what the rows and the queue hold, and since the last alert was
\* fired no more analyses have passed than the cooldown has, one cooldown more
\* for each delivery that failed.
AlertsInv ==
  /\ AlertsTypeOK /\ Len(samples) <= WindowSize
  /\ WindowIsKept
  /\ waiting <= failed * LongAgo + since["cost-spike"] - 1

\* Numbers of AlertsInv.
LEMMA OneMoreFailed ==
  ASSUME NEW n \in Nat, NEW m \in Nat
  PROVE  /\ n * m \in Nat /\ (n + 1) * m = n * m + m
         /\ (n + 1) * m + n = n * (m + 1) + m
OBVIOUS

\* It holds at the start.
LEMMA AlertsInvInit == AlertsInit => AlertsInv
<1> SUFFICES ASSUME AlertsInit PROVE AlertsInv
  OBVIOUS
<1>1. <<>> \in Seq(Costs) /\ Len(<<>>) = 0 /\ <<>> \o <<>> = <<>>
  BY EmptySeq, ConcatEmptySeq
<1>2. Latest(<<>>) = <<>>
  BY <1>1, AlertsAssumption DEF Latest
<1>a. LongAgo \in 1 .. LongAgo /\ 0 \in 0 .. MaxFailed /\ 0 <= WindowSize
  BY AlertsAssumption DEF LongAgo
<1>3. AlertsTypeOK
  BY <1>1, <1>a DEF AlertsInit, AlertsTypeOK
<1>4. 0 * LongAgo = 0 /\ LongAgo \in Nat \ {0}
  BY AlertsAssumption DEF LongAgo
<1>5. waiting <= failed * LongAgo + since["cost-spike"] - 1
  BY <1>4 DEF AlertsInit, Alarms
<1>6. WindowIsKept
  BY <1>1, <1>2 DEF AlertsInit, WindowIsKept
<1> QED
  BY <1>1, <1>3, <1>5, <1>6, AlertsAssumption DEF AlertsInv, AlertsInit

\* It says what is asked of every state.
LEMMA AlertsInvMeans == AlertsInv => WindowIsKept /\ NotKeptQuiet
<1> SUFFICES ASSUME AlertsInv PROVE NotKeptQuiet
  BY DEF AlertsInv
<1>1. /\ failed \in Nat /\ waiting \in Nat /\ since["cost-spike"] \in 1 .. LongAgo
      /\ AlertCooldown \in Nat /\ LongAgo = AlertCooldown + 1
      /\ waiting <= failed * LongAgo + since["cost-spike"] - 1
  BY AlertsAssumption DEF AlertsInv, AlertsTypeOK, Alarms, LongAgo
<1>2. /\ failed * LongAgo \in Nat
      /\ (failed + 1) * AlertCooldown + failed = failed * LongAgo + AlertCooldown
  BY <1>1, OneMoreFailed
<1> QED
  BY <1>1, <1>2 DEF NotKeptQuiet

\* An analysis keeps it: the sample enters the window and the queue, and the
\* cooldown starts with an alert that is fired, whoever gets it.
LEMMA AnalyzeKeeps ==
  ASSUME AlertsInv, NEW x \in Costs, NEW pressed \in BOOLEAN, NEW delivered \in BOOLEAN,
         AnalyzeCosts(x, pressed, delivered)
  PROVE  AlertsInv'
<1> DEFINE h == Latest(Append(costHistory, x))
           raised == Raised(h, pressed)
           spike == "cost-spike" \in raised
           fires == spike /\ MayFire("cost-spike")
<1>1. /\ costHistory' = h /\ unwritten' = Append(unwritten, x) /\ since' = SinceFired(raised)
      /\ ~ delivered => fires /\ failed < MaxFailed
      /\ waiting' = IF ~ spike \/ (fires /\ delivered) THEN 0 ELSE waiting + 1
      /\ failed' = IF ~ spike \/ (fires /\ delivered) THEN 0
                   ELSE IF fires THEN failed + 1 ELSE failed
      /\ samples' = samples /\ gap' = gap
  BY DEF AnalyzeCosts
<1>2. /\ costHistory \in Seq(Costs) /\ samples \in Seq(Costs) /\ unwritten \in Seq(Costs)
      /\ since \in [Alarms -> 1 .. LongAgo] /\ waiting \in Nat /\ failed \in 0 .. MaxFailed
      /\ Len(samples) <= WindowSize /\ gap \in BOOLEAN
      /\ LongAgo \in Nat \ {0} /\ LongAgo = AlertCooldown + 1 /\ MaxFailed \in Nat
      /\ waiting <= failed * LongAgo + since["cost-spike"] - 1
  BY AlertsAssumption DEF AlertsInv, AlertsTypeOK, LongAgo
<1>3. WindowIsKept
  BY DEF AlertsInv
<1>4. /\ Append(costHistory, x) \in Seq(Costs) /\ h \in Seq(Costs) /\ Len(h) <= WindowSize
      /\ Append(unwritten, x) \in Seq(Costs)
  <2>1. Append(costHistory, x) \in Seq(Costs) /\ Append(unwritten, x) \in Seq(Costs)
    BY <1>2, AppendProperties
  <2>2. h \in Seq(Costs) /\ Len(h) <= WindowSize
    BY <1>2, LatestAppend
  <2> QED
    BY <2>1, <2>2
<1> HIDE DEF h, raised
<1>5. SinceFired(raised) \in [Alarms -> 1 .. LongAgo]
  <2>1. ASSUME NEW a \in Alarms
        PROVE  (IF a \in raised /\ MayFire(a) THEN 1
                ELSE IF since[a] = LongAgo THEN LongAgo ELSE since[a] + 1) \in 1 .. LongAgo
    BY <1>2
  <2> QED
    BY <2>1 DEF SinceFired
<1>6. /\ since'["cost-spike"] = IF fires THEN 1
                                 ELSE IF since["cost-spike"] = LongAgo THEN LongAgo
                                      ELSE since["cost-spike"] + 1
      /\ since["cost-spike"] \in 1 .. LongAgo
      /\ since'["cost-spike"] \in 1 .. LongAgo
  BY <1>1, <1>2, <1>5 DEF SinceFired, Alarms
<1> HIDE DEF spike, fires
<1>7. waiting' \in Nat /\ failed' \in 0 .. MaxFailed
  BY <1>1, <1>2
<1>8. waiting' <= failed' * LongAgo + since'["cost-spike"] - 1
  <2>1. failed \in Nat /\ failed' \in Nat
    BY <1>2, <1>7
  <2>2. /\ failed * LongAgo \in Nat /\ failed' * LongAgo \in Nat
        /\ (failed + 1) * LongAgo = failed * LongAgo + LongAgo
    BY <1>2, <2>1, OneMoreFailed
  <2> DEFINE c == since["cost-spike"]
             p == failed * LongAgo
             p1 == failed' * LongAgo
  <2>c. c \in 1 .. LongAgo /\ p \in Nat /\ p1 \in Nat /\ waiting <= p + c - 1
    BY <1>2, <1>6, <2>2
  <2>3. CASE ~ spike \/ (fires /\ delivered)
    BY <1>1, <1>6, <2>2, <2>3
  <2>4. CASE spike /\ fires /\ ~ delivered
    <3>1. waiting' = waiting + 1 /\ failed' = failed + 1 /\ since'["cost-spike"] = 1
      BY <1>1, <1>6, <2>4
    <3>2. p1 = p + LongAgo
      BY <2>2, <3>1
    <3> HIDE DEF c, p, p1
    <3>3. waiting + 1 <= p1 + 1 - 1
      BY <1>2, <2>c, <3>2
    <3> QED
      BY <3>1, <3>3 DEF p1
  <2>5. CASE spike /\ ~ fires
    <3>1. ~ (c > AlertCooldown)
      BY Zenon, <2>5 DEF fires, MayFire
    <3>2. c <= AlertCooldown /\ c # LongAgo
      BY <1>2, <2>c, <3>1, AlertsAssumption
    <3>3. waiting' = waiting + 1 /\ failed' = failed
      BY <1>1, <2>5
    <3>4. since'["cost-spike"] = c + 1
      BY <1>6, <2>5, <3>2
    <3>5. p1 = p
      BY <3>3
    <3> HIDE DEF c, p, p1
    <3>6. waiting + 1 <= p1 + (c + 1) - 1
      BY <1>2, <2>c, <3>5
    <3> QED
      BY <3>3, <3>4, <3>6 DEF p1
  <2> QED
    BY <2>3, <2>4, <2>5
<1>9. WindowIsKept'
  <2> SUFFICES ASSUME ~ gap' PROVE costHistory' = Latest(samples' \o unwritten')
    BY DEF WindowIsKept
  <2> DEFINE s == samples \o unwritten
  <2>1. costHistory = Latest(s)
    BY <1>1, <1>3 DEF WindowIsKept
  <2>2. s \in Seq(Costs)
    BY <1>2, ConcatProperties
  <2>3. Append(s, x) = samples \o Append(unwritten, x)
    <3>1. <<x>> \in Seq(Costs)
      OBVIOUS
    <3>2. Append(s, x) = s \o <<x>> /\ Append(unwritten, x) = unwritten \o <<x>>
      BY <1>2, <2>2, AppendIsConcat
    <3>0. samples \in Seq(Costs) /\ unwritten \in Seq(Costs)
      BY <1>2
    <3>3. \A u \in Seq(Costs) : (samples \o unwritten) \o u = samples \o (unwritten \o u)
      BY <3>0, ConcatAssociative
    <3> QED
      BY <3>1, <3>2, <3>3
  <2> HIDE DEF s
  <2>4. Latest(Append(Latest(s), x)) = Latest(Append(s, x))
    BY <2>2, LatestAppend
  <2> QED
    BY <1>1, <2>1, <2>3, <2>4 DEF h
<1>10. AlertsTypeOK'
  BY <1>1, <1>2, <1>4, <1>5, <1>7 DEF AlertsTypeOK
<1> QED
  BY <1>1, <1>2, <1>8, <1>9, <1>10 DEF AlertsInv

\* The writer's turn keeps it: a sample goes from the queue to the rows, in
\* order.
LEMMA WriteKeeps ==
  ASSUME AlertsInv, WriteSample PROVE AlertsInv'
<1> DEFINE e == Head(unwritten)
           t == Tail(unwritten)
<1>1. /\ unwritten # <<>> /\ samples' = Latest(Append(samples, e)) /\ unwritten' = t
      /\ UNCHANGED <<costHistory, gap, since, waiting, failed>>
  BY DEF WriteSample
<1>2. /\ samples \in Seq(Costs) /\ unwritten \in Seq(Costs) /\ WindowIsKept
      /\ e \in Costs /\ t \in Seq(Costs)
  BY <1>1, HeadTailProperties DEF AlertsInv, AlertsTypeOK
<1>3. unwritten = <<e>> \o t
  <2>1. Len(unwritten) \in Nat /\ Len(unwritten) >= 1
    BY <1>1, <1>2, EmptySeq, LenProperties
  <2>2. SubSeq(unwritten, 1, Len(unwritten)) = <<unwritten[1]>> \o SubSeq(unwritten, 1 + 1, Len(unwritten))
    BY <1>2, <2>1, SubSeqRecursiveFirst
  <2>3. SubSeq(unwritten, 1, Len(unwritten)) = unwritten
    BY <1>2, SubSeqFull
  <2>4. t = SubSeq(unwritten, 2, Len(unwritten))
    BY <1>1, <1>2, TailIsSubSeq
  <2> QED
    BY <1>1, <1>2, <2>2, <2>3, <2>4
<1>4. <<e>> \in Seq(Costs)
  BY <1>2
<1> HIDE DEF e, t
<1>5. Append(samples, e) = samples \o <<e>> /\ Append(samples, e) \in Seq(Costs)
  BY <1>2, AppendIsConcat, AppendProperties
<1>6. samples \o unwritten = Append(samples, e) \o t
  BY <1>2, <1>3, <1>4, <1>5, ConcatAssociative
<1>7. Latest(Latest(Append(samples, e)) \o t) = Latest(Append(samples, e) \o t)
  BY <1>2, <1>5, LatestTwice
<1>8. WindowIsKept'
  BY <1>1, <1>2, <1>6, <1>7 DEF WindowIsKept
<1>9. samples' \in Seq(Costs) /\ Len(samples') <= WindowSize
  BY <1>1, <1>2, LatestAppend
<1>10. AlertsTypeOK'
  BY <1>1, <1>2, <1>9 DEF AlertsInv, AlertsTypeOK
<1> QED
  BY <1>1, <1>8, <1>9, <1>10 DEF AlertsInv

\* Every step keeps it.
LEMMA AlertsInvNext == AlertsInv /\ [AlertsNext]_alertsVars => AlertsInv'
<1> SUFFICES ASSUME AlertsInv, [AlertsNext]_alertsVars PROVE AlertsInv'
  OBVIOUS
<1>1. ASSUME NEW x \in Costs, NEW pressed \in BOOLEAN, NEW delivered \in BOOLEAN,
             AnalyzeCosts(x, pressed, delivered)
      PROVE  AlertsInv'
  BY <1>1, AnalyzeKeeps
<1>2. CASE WriteSample
  BY <1>2, WriteKeeps
<1>3. CASE DropSample
  <2>1. unwritten # <<>> /\ unwritten \in Seq(Costs)
    BY <1>3 DEF DropSample, AlertsInv, AlertsTypeOK
  <2>2. Tail(unwritten) \in Seq(Costs)
    BY <2>1, HeadTailProperties
  <2> QED
    BY <1>3, <2>2 DEF DropSample, AlertsInv, AlertsTypeOK, WindowIsKept
<1>4. CASE RestartAlerts
  <2>1. /\ samples \in Seq(Costs) /\ Len(samples) <= WindowSize
        /\ samples \o <<>> = samples /\ <<>> \in Seq(Costs)
    BY ConcatEmptySeq, EmptySeq DEF AlertsInv, AlertsTypeOK
  <2>2. Latest(samples) = samples
    BY <2>1, AlertsAssumption, LenProperties DEF Latest
  <2>3. /\ costHistory' = samples /\ unwritten' = <<>> /\ gap' = FALSE
        /\ since' = [a \in Alarms |-> LongAgo] /\ waiting' = 0 /\ failed' = 0
        /\ samples' = samples
    BY <1>4 DEF RestartAlerts, Loaded
  <2>4. 0 * LongAgo = 0 /\ LongAgo \in Nat \ {0} /\ MaxFailed \in Nat
    BY AlertsAssumption DEF LongAgo
  <2>5. waiting' <= failed' * LongAgo + since'["cost-spike"] - 1
    BY <2>3, <2>4 DEF Alarms
  <2>6. WindowIsKept'
    BY <2>1, <2>2, <2>3 DEF WindowIsKept
  <2>a. LongAgo \in 1 .. LongAgo /\ 0 \in 0 .. MaxFailed
    BY <2>4
  <2>7. AlertsTypeOK'
    BY <2>1, <2>3, <2>a DEF AlertsTypeOK
  <2> QED
    BY <2>1, <2>3, <2>5, <2>6, <2>7 DEF AlertsInv
<1>5. CASE UNCHANGED alertsVars
  BY <1>5 DEF alertsVars, AlertsInv, AlertsTypeOK, WindowIsKept
<1> QED
  BY <1>1, <1>2, <1>3, <1>4, <1>5 DEF AlertsNext

\* A window that was level and has risen for two samples is far off.
LEMMA StepFar ==
  ASSUME NEW h \in Seq(Costs), Len(h) - 2 > Deviations,
         \A i \in 1 .. Len(h) - 2 : h[i] = h[1],
         h[Len(h)] = h[Len(h) - 1], h[Len(h)] > h[1]
  PROVE  FarOff(h) /\ Above(h) > 0
<1> DEFINE k == Len(h) - 2
           v == h[1]
           d == h[Len(h)] - h[1]
<1>5. h \in Seq(Costs) /\ Len(h) \in Nat
  BY LenProperties
<1>6. /\ Len(h) - 2 > Deviations
      /\ \A i \in 1 .. Len(h) - 2 : h[i] = h[1]
      /\ h[Len(h)] = h[Len(h) - 1] /\ h[Len(h)] > h[1]
  OBVIOUS
<1>7. k \in Nat /\ Deviations \in Nat /\ k > Deviations /\ Len(h) - 1 = k + 1
      /\ 1 \in 1 .. Len(h) /\ Len(h) \in 1 .. Len(h) /\ \A i \in 1 .. (k + 1) : i \in 1 .. Len(h)
  BY <1>5, <1>6, AlertsAssumption
<1>8. /\ v \in Nat /\ d \in Nat \ {0} /\ h[Len(h)] = v + d /\ h[k + 1] = v + d
      /\ \A i \in 1 .. Len(h) : h[i] \in Nat
  <2>1. \A i \in 1 .. Len(h) : h[i] \in Nat
    BY <1>5, ElementOfSeq, AlertsAssumption
  <2>2. h[1] \in Nat /\ h[Len(h)] \in Nat
    BY <1>7, <2>1
  <2>3. k + 1 = Len(h) - 1
    BY <1>7
  <2>4. h[k + 1] = h[Len(h)]
    BY Zenon, <1>6, <2>3
  <2>5. v \in Nat /\ d \in Nat \ {0} /\ h[Len(h)] = v + d
    BY <1>6, <2>2
  <2> QED
    BY <2>1, <2>4, <2>5
<1> HIDE DEF k, v, d
<1> DEFINE b == Baseline(h)
           q == [i \in 1 .. Len(b) |-> b[i] * b[i]]
<1>9. /\ b \in Seq(Nat) /\ Len(b) = k + 1
      /\ \A i \in 1 .. k : b[i] = v
      /\ b[k + 1] = v + d
  <2>1. b = SubSeq(h, 1, k + 1)
    BY <1>7 DEF Baseline, Front
  <2>2. \A i \in 1 .. (k + 1) : h[i] \in Nat
    BY <1>7, <1>8
  <2>3. /\ SubSeq(h, 1, k + 1) \in Seq(Nat)
        /\ Len(SubSeq(h, 1, k + 1)) = IF 1 <= k + 1 THEN k + 1 - 1 + 1 ELSE 0
        /\ \A i \in 1 .. k + 1 - 1 + 1 : SubSeq(h, 1, k + 1)[i] = h[1 + i - 1]
    BY <1>7, <2>2, SubSeqProperties
  <2>4. \A i \in 1 .. (k + 1) : 1 + i - 1 = i
    OBVIOUS
  <2>5. \A i \in 1 .. (k + 1) : b[i] = h[i]
    BY <1>7, <2>1, <2>3, <2>4
  <2>6. \A i \in 1 .. k : h[i] = v
    BY <1>6 DEF k, v
  <2>7. \A i \in 1 .. k : i \in 1 .. (k + 1)
    BY <1>7
  <2>8. k + 1 \in 1 .. (k + 1) /\ 1 <= k + 1 /\ k + 1 - 1 + 1 = k + 1
    BY <1>7
  <2>9. b \in Seq(Nat) /\ Len(b) = k + 1
    BY <2>1, <2>3, <2>8
  <2>10. (\A i \in 1 .. k : b[i] = v) /\ b[k + 1] = v + d
    BY <1>8, <2>5, <2>6, <2>7, <2>8
  <2> QED
    BY <2>9, <2>10
<1> HIDE DEF b
<1>10. /\ q \in Seq(Nat) /\ Len(q) = k + 1
       /\ \A i \in 1 .. k : q[i] = v * v
       /\ q[k + 1] = (v + d) * (v + d)
  <2>1. \A i \in 1 .. Len(b) : b[i] * b[i] \in Nat
    BY <1>9
  <2>2. q \in [1 .. Len(b) -> Nat]
    BY <2>1
  <2>3. q \in Seq(Nat) /\ Len(q) = k + 1
    <3>1. Len(b) \in Nat /\ Len(b) = k + 1
      BY <1>7, <1>9
    <3> HIDE DEF q
    <3>2. q \in Seq(Nat)
      BY <2>2, <3>1, SeqDef
    <3>3. Len(q) \in Nat /\ DOMAIN q = 1 .. Len(q) /\ DOMAIN q = 1 .. Len(b)
      BY <2>2, <3>2, LenProperties
    <3> QED
      BY <3>1, <3>2, <3>3
  <2>4. \A i \in 1 .. (k + 1) : q[i] = b[i] * b[i]
    BY <1>9
  <2>5. (\A i \in 1 .. k : i \in 1 .. (k + 1)) /\ k + 1 \in 1 .. (k + 1)
    BY <1>7
  <2> HIDE DEF q
  <2> QED
    BY <1>9, <2>3, <2>4, <2>5
<1>11. Total(b) = k * v + (v + d) /\ Total(q) = k * (v * v) + (v + d) * (v + d)
  <2>1. v \in Nat /\ v + d \in Nat /\ v * v \in Nat /\ (v + d) * (v + d) \in Nat
    <3>1. v \in Nat /\ v + d \in Nat
      BY <1>8
    <3>2. \A m \in Nat : m * m \in Nat
      OBVIOUS
    <3> QED
      BY <3>1, <3>2
  <2> HIDE DEF q
  <2> DEFINE v2 == v * v
  <2>2. k \in Nat /\ v \in Nat /\ v2 \in Nat
    BY <1>7, <2>1
  <2>3. b \in Seq(Nat) /\ Len(b) = k + 1 /\ \A i \in 1 .. k : b[i] = v
    BY <1>9
  <2>4. q \in Seq(Nat) /\ Len(q) = k + 1 /\ \A i \in 1 .. k : q[i] = v2
    BY <1>10
  <2> HIDE DEF v2
  <2>5. Total(b) = k * v + b[k + 1]
    BY Zenon, <2>2, <2>3, LevelThenOne
  <2>6. Total(q) = k * v2 + q[k + 1]
    BY Zenon, <2>2, <2>4, LevelThenOne
  <2> QED
    BY <1>9, <1>10, <2>5, <2>6 DEF v2
<1>12. Above(h) = (k + 1) * (v + d) - (k * v + (v + d))
  BY <1>8, <1>9, <1>11 DEF Above, Last, b
<1>13. Spread(h) = (k + 1) * (k * (v * v) + (v + d) * (v + d))
                   - (k * v + (v + d)) * (k * v + (v + d))
  BY <1>9, <1>11 DEF Spread, Squares, b
<1>14. Above(h) > 0 /\ Spread(h) > 0 /\ Above(h) * Above(h) > Deviations * Spread(h)
  BY <1>7, <1>8, <1>12, <1>13, StepFarOff
<1>15. FarOff(h)
  BY <1>14 DEF FarOff
<1> QED
  BY <1>14, <1>15

\* An analysis of such a window fires, unless the cooldown holds it back.
LEMMA StepSeen ==
  ASSUME AlertsInv, [AlertsNext]_alertsVars,
         LET h == costHistory'
         IN  /\ Len(h) >= Least /\ Len(h) - 2 > Deviations /\ Len(unwritten') > Len(unwritten)
             /\ \A i \in 1 .. Len(h) - 2 : h[i] = h[1]
             /\ h[Len(h)] = h[Len(h) - 1] /\ h[Len(h)] > h[1],
         MayFire("cost-spike")
  PROVE  since'["cost-spike"] = 1
<1>1. unwritten \in Seq(Costs) /\ costHistory \in Seq(Costs) /\ Len(unwritten) \in Nat
  BY LenProperties DEF AlertsInv, AlertsTypeOK
<1>2. \E x \in Costs, pressed, delivered \in BOOLEAN : AnalyzeCosts(x, pressed, delivered)
  <2>1. ASSUME unwritten # <<>> PROVE Len(Tail(unwritten)) = Len(unwritten) - 1
    BY <1>1, <2>1, HeadTailProperties
  <2>2. ~ (WriteSample \/ DropSample)
    BY <1>1, <2>1 DEF WriteSample, DropSample
  <2>3. ~ RestartAlerts
    BY <1>1 DEF RestartAlerts
  <2>4. ~ (UNCHANGED alertsVars)
    BY <1>1 DEF alertsVars
  <2> QED
    BY <2>2, <2>3, <2>4 DEF AlertsNext
<1>3. PICK x \in Costs, pressed \in BOOLEAN, delivered \in BOOLEAN : AnalyzeCosts(x, pressed, delivered)
  BY <1>2
<1> DEFINE h == Latest(Append(costHistory, x))
<1>4. costHistory' = h /\ since' = SinceFired(Raised(h, pressed))
  BY <1>3 DEF AnalyzeCosts
<1>5. h \in Seq(Costs) /\ Len(h) \in Nat
  BY <1>1, LatestAppend
<1>6. /\ Len(h) >= Least /\ Len(h) - 2 > Deviations
      /\ \A i \in 1 .. Len(h) - 2 : h[i] = h[1]
      /\ h[Len(h)] = h[Len(h) - 1] /\ h[Len(h)] > h[1]
  BY <1>4
<1> HIDE DEF h
<1>15. FarOff(h) /\ Above(h) > 0
  BY <1>5, <1>6, StepFar
<1>16. "cost-spike" \in Raised(h, pressed)
  BY <1>5, <1>6, <1>15, AlertsAssumption DEF Raised, Alarms
<1> QED
  BY <1>4, <1>16 DEF SinceFired, Alarms

\* The alerts controller (internal/controller/alerts/controller.go) reports a
\* rise of the costs: its window survives restarts, a step up is seen, and only
\* the cooldown and failed deliveries keep it quiet.
THEOREM SpikesAreReported == ServicesSpec => SpikesReported
<1>1. AlertsInit => AlertsInv
  BY AlertsInvInit
<1>2. AlertsInv /\ [AlertsNext]_alertsVars => AlertsInv'
  BY AlertsInvNext
<1>3. AlertsInv => WindowIsKept /\ NotKeptQuiet
  BY AlertsInvMeans
<1>4. AlertsInv /\ [AlertsNext]_alertsVars =>
        [LET h == costHistory'
         IN  /\ Len(h) >= Least /\ Len(h) - 2 > Deviations /\ Len(unwritten') > Len(unwritten)
             /\ \A i \in 1 .. Len(h) - 2 : h[i] = h[1]
             /\ h[Len(h)] = h[Len(h) - 1] /\ h[Len(h)] > h[1]
             => since'["cost-spike"] = 1 \/ ~ MayFire("cost-spike")]_alertsVars
  BY StepSeen
<1> QED
  BY <1>1, <1>2, <1>3, <1>4, EachPart, PTL
     DEF AlertsPart, SpikesReported, StepIsReported

-----------------------------------------------------------------------------
\* The notification channels, and those who send to them.

\* A round, and the array it ranges over: the one in use, or one given up.
Round == [next : Nat, last : Nat, shared : BOOLEAN, kept : Seq(Channel),
          got : Seq(1 .. MaxAdded), disturbed : BOOLEAN, owed : SUBSET (1 .. MaxAdded)]

\* The array behind the slice that a round ranges over.
Behind(rd, cs) == IF rd.shared THEN cs ELSE rd.kept

\* The first n cells of an array are of different channels.
Distinct(cs, n) == \A i, j \in 1 .. n : cs[i].id = cs[j].id => i = j

\* Who is owed a message has got it, or is still to come.
StillComes(rd, cs) ==
  \A id \in rd.owed :
    \/ \E a \in 1 .. Len(rd.got) : rd.got[a] = id
    \/ \E j \in rd.next .. rd.last : Behind(rd, cs)[j].id = id /\ Behind(rd, cs)[j].enabled

\* Who has got a message was passed by, once.
PassedOnce(rd, cs) ==
  /\ Distinct(Behind(rd, cs), rd.last)
  /\ \A a \in 1 .. Len(rd.got) :
       /\ \E j \in 1 .. rd.next - 1 : Behind(rd, cs)[j].id = rd.got[a]
       /\ \A b \in 1 .. Len(rd.got) : rd.got[a] = rd.got[b] => a = b

\* What holds of a round over an array whose first n cells are the list, until
\* a channel is deleted under it.
RoundSound(rd, cs, n) ==
  /\ rd \in Round
  /\ rd.next \in 1 .. rd.last + 1 /\ rd.last <= Len(Behind(rd, cs))
  /\ rd.disturbed => rd.owed = {}
  /\ rd.shared /\ ~ rd.disturbed => rd.last <= n
  /\ StillComes(rd, cs)
  /\ ~ rd.disturbed => PassedOnce(rd, cs)

\* What holds of the array: an id is never given twice, and those on the list
\* are different.
ListSound(cs, n, given) ==
  /\ cs \in Seq(Channel) /\ n \in 0 .. Len(cs)
  /\ \A i \in 1 .. Len(cs) : cs[i].id <= given
  /\ Distinct(cs, n)

\* The array and the rounds are sound, and when somebody was last notified is
\* forgotten only when it is long ago.
ChannelsInv ==
  /\ ListSound(cells, size, added)
  /\ room \in Nat /\ Len(cells) <= room /\ added \in 0 .. MaxAdded /\ edits \in 0 .. MaxEdits
  /\ round \in [Readers -> {Resting} \union Round]
  /\ \A r \in Readers : round[r] # Resting => RoundSound(round[r], cells, size)
  /\ {noticed, told} \subseteq {None} \union (0 .. Repeat)
  /\ noticed # told => noticed = None /\ told = Repeat

\* The fields of a channel.
LEMMA ChannelFields ==
  ASSUME NEW c \in Channel
  PROVE  c.id \in 1 .. MaxAdded /\ c.id \in Nat /\ c.enabled \in BOOLEAN
  BY ChannelsAssumption DEF Channel

\* The fields of a round.
LEMMA RoundFields ==
  ASSUME NEW rd \in Round
  PROVE  /\ rd.next \in Nat /\ rd.last \in Nat /\ rd.shared \in BOOLEAN /\ rd.kept \in Seq(Channel)
         /\ rd.got \in Seq(1 .. MaxAdded) /\ rd.disturbed \in BOOLEAN
         /\ rd.owed \subseteq 1 .. MaxAdded /\ Len(rd.got) \in Nat
  BY LenProperties DEF Round

\* A round of an array goes on undisturbed when the cells it ranges over keep
\* their channels, and only channels that are excused are switched.
LEMMA RoundStays ==
  ASSUME NEW rd \in Round, NEW new \in Round, NEW cs, NEW ds, NEW n, NEW m,
         RoundSound(rd, cs, n),
         new.next = rd.next, new.last = rd.last, new.got = rd.got, new.disturbed = rd.disturbed,
         new.owed \subseteq rd.owed, new.last <= Len(Behind(new, ds)),
         new.shared /\ ~ new.disturbed => new.last <= m,
         ~ rd.disturbed =>
           \A j \in 1 .. rd.last :
             /\ Behind(new, ds)[j].id = Behind(rd, cs)[j].id
             /\ Behind(rd, cs)[j].id \in new.owed =>
                  Behind(new, ds)[j].enabled = Behind(rd, cs)[j].enabled
  PROVE  RoundSound(new, ds, m)
<1>1. /\ rd.next \in Nat /\ rd.last \in Nat /\ rd.next >= 1 /\ rd.next <= rd.last + 1
      /\ rd.disturbed \in BOOLEAN
  BY RoundFields DEF RoundSound
<1>2. new.disturbed => new.owed = {}
  BY DEF RoundSound
<1> DEFINE A == Behind(rd, cs)
           B == Behind(new, ds)
<1> HIDE DEF A, B
<1>3. ~ rd.disturbed =>
        \A j \in 1 .. rd.last : /\ B[j].id = A[j].id
                                /\ A[j].id \in new.owed => B[j].enabled = A[j].enabled
  BY DEF A, B
<1>4. StillComes(new, ds)
  <2> SUFFICES ASSUME NEW id \in new.owed,
                      ~ \E a \in 1 .. Len(new.got) : new.got[a] = id
               PROVE  \E j \in new.next .. new.last : B[j].id = id /\ B[j].enabled
    BY DEF StillComes, B
  <2>1. PICK j \in rd.next .. rd.last : A[j].id = id /\ A[j].enabled
    BY DEF RoundSound, StillComes, A
  <2>2. j \in 1 .. rd.last /\ ~ rd.disturbed
    BY <1>1, <1>2
  <2>3. B[j].id = id /\ B[j].enabled
    BY <1>3, <2>1, <2>2
  <2> QED
    BY <2>1, <2>3
<1>5. ASSUME ~ new.disturbed PROVE PassedOnce(new, ds)
  <2>1. /\ \A i, j \in 1 .. rd.last : A[i].id = A[j].id => i = j
        /\ \A a \in 1 .. Len(rd.got) : \E j \in 1 .. rd.next - 1 : A[j].id = rd.got[a]
        /\ \A a, b \in 1 .. Len(rd.got) : rd.got[a] = rd.got[b] => a = b
    BY <1>5 DEF RoundSound, PassedOnce, Distinct, A
  <2>2. \A j \in 1 .. rd.next - 1 : j \in 1 .. rd.last
    BY <1>1
  <2>3. \A i, j \in 1 .. new.last : B[i].id = B[j].id => i = j
    BY <1>3, <1>5, <2>1
  <2>4. \A a \in 1 .. Len(new.got) : \E j \in 1 .. new.next - 1 : B[j].id = new.got[a]
    BY <1>3, <1>5, <2>1, <2>2
  <2> QED
    BY <2>1, <2>3, <2>4 DEF PassedOnce, Distinct, B
<1> QED
  BY <1>1, <1>2, <1>4, <1>5 DEF RoundSound

\* Of a round under which a channel was deleted nothing more is promised.
LEMMA RoundDisturbed ==
  ASSUME NEW rd \in Round, NEW new \in Round, NEW cs, NEW ds, NEW n, NEW m,
         RoundSound(rd, cs, n), new.next = rd.next, new.last = rd.last,
         new.disturbed, new.owed = {}, new.last <= Len(Behind(new, ds))
  PROVE  RoundSound(new, ds, m)
  BY DEF RoundSound, StillComes

\* The fields of a round one further.
LEMMA RoundMoves ==
  ASSUME NEW rd \in Round, NEW g \in Seq(1 .. MaxAdded)
  PROVE  LET new == [rd EXCEPT !.next = rd.next + 1, !.got = g]
         IN  /\ new \in Round /\ new.next = rd.next + 1 /\ new.got = g /\ new.last = rd.last
             /\ new.shared = rd.shared /\ new.kept = rd.kept /\ new.disturbed = rd.disturbed
             /\ new.owed = rd.owed
<1>1. rd.next + 1 \in Nat
  BY RoundFields
<1> QED
  BY <1>1 DEF Round

\* Who has got a message after channel c.
GotAfter(rd, c) == IF c.enabled THEN Append(rd.got, c.id) ELSE rd.got

\* One more if c is switched on, behind those who had it.
LEMMA GotFacts ==
  ASSUME NEW rd \in Round, NEW c \in Channel
  PROVE  /\ GotAfter(rd, c) \in Seq(1 .. MaxAdded) /\ Len(GotAfter(rd, c)) \in Nat
         /\ c.enabled => /\ Len(GotAfter(rd, c)) = Len(rd.got) + 1
                         /\ GotAfter(rd, c)[Len(rd.got) + 1] = c.id
         /\ ~ c.enabled => GotAfter(rd, c) = rd.got
         /\ \A a \in 1 .. Len(rd.got) : GotAfter(rd, c)[a] = rd.got[a]
<1>1. rd.got \in Seq(1 .. MaxAdded) /\ c.id \in 1 .. MaxAdded /\ Len(rd.got) \in Nat
  BY RoundFields, ChannelFields
<1>2. CASE c.enabled
  <2>1. /\ Append(rd.got, c.id) \in Seq(1 .. MaxAdded)
        /\ Len(Append(rd.got, c.id)) = Len(rd.got) + 1
        /\ Append(rd.got, c.id)[Len(rd.got) + 1] = c.id
        /\ \A a \in 1 .. Len(rd.got) : Append(rd.got, c.id)[a] = rd.got[a]
    BY <1>1, AppendProperties
  <2> QED
    BY <1>1, <1>2, <2>1 DEF GotAfter
<1>3. CASE ~ c.enabled
  BY <1>1, <1>3 DEF GotAfter
<1> QED
  BY <1>2, <1>3

\* A round stays sound when it sends to the next channel: that one was not
\* passed by yet, and has not got one.
LEMMA RoundSends ==
  ASSUME NEW rd \in Round, NEW cs \in Seq(Channel), NEW n, RoundSound(rd, cs, n),
         rd.next <= rd.last
  PROVE  LET new == [rd EXCEPT !.next = rd.next + 1,
                               !.got = GotAfter(rd, Behind(rd, cs)[rd.next])]
         IN  RoundSound(new, cs, n) /\ new \in Round
<1> DEFINE A == Behind(rd, cs)
           c == A[rd.next]
           g == GotAfter(rd, c)
<1>1. /\ rd.next \in Nat /\ rd.last \in Nat /\ rd.next \in 1 .. rd.last /\ rd.last <= Len(A)
      /\ rd.got \in Seq(1 .. MaxAdded) /\ Len(rd.got) \in Nat /\ rd.disturbed \in BOOLEAN
  BY RoundFields DEF RoundSound
<1>2. A \in Seq(Channel) /\ Len(A) \in Nat
  BY RoundFields, LenProperties DEF Behind
<1>3. c \in Channel
  <2> HIDE DEF A
  <2>1. rd.next \in 1 .. Len(A)
    BY <1>1, <1>2
  <2> QED
    BY <1>2, <2>1, ElementOfSeq
<1> HIDE DEF c
<1>5. /\ g \in Seq(1 .. MaxAdded) /\ Len(g) \in Nat
      /\ c.enabled => Len(g) = Len(rd.got) + 1 /\ g[Len(rd.got) + 1] = c.id
      /\ ~ c.enabled => g = rd.got
      /\ \A a \in 1 .. Len(rd.got) : g[a] = rd.got[a]
  BY <1>3, GotFacts
<1> HIDE DEF g
<1> DEFINE new == [rd EXCEPT !.next = rd.next + 1, !.got = g]
<1>7. /\ new \in Round /\ new.next = rd.next + 1 /\ new.got = g /\ new.last = rd.last
      /\ new.shared = rd.shared /\ new.kept = rd.kept /\ new.disturbed = rd.disturbed
      /\ new.owed = rd.owed
  BY <1>5, RoundMoves
<1> HIDE DEF new
<1>8. Behind(new, cs) = A
  BY <1>7 DEF Behind
<1>8a. A[rd.next] = c
  BY DEF c
<1> HIDE DEF A
<1>9. StillComes(new, cs)
  <2> SUFFICES ASSUME NEW id \in rd.owed,
                      ~ \E j \in rd.next + 1 .. rd.last : A[j].id = id /\ A[j].enabled
               PROVE  \E a \in 1 .. Len(g) : g[a] = id
    BY <1>7, <1>8 DEF StillComes
  <2>1. CASE \E a \in 1 .. Len(rd.got) : rd.got[a] = id
    <3>1. PICK a \in 1 .. Len(rd.got) : rd.got[a] = id
      BY <2>1
    <3>2. a \in 1 .. Len(g)
      BY <1>1, <1>5
    <3> QED
      BY <1>5, <3>1, <3>2
  <2>2. CASE \E j \in rd.next .. rd.last : A[j].id = id /\ A[j].enabled
    <3>1. PICK j \in rd.next .. rd.last : A[j].id = id /\ A[j].enabled
      BY <2>2
    <3>2. j = rd.next
      BY <1>1, <3>1
    <3>3. c.enabled /\ c.id = id
      BY <1>8a, <3>1, <3>2
    <3>4. Len(rd.got) + 1 \in 1 .. Len(g)
      BY <1>1, <1>5, <3>3
    <3> QED
      BY <1>5, <3>3, <3>4
  <2> QED
    BY <2>1, <2>2 DEF RoundSound, StillComes, A
<1>10. ASSUME ~ rd.disturbed PROVE PassedOnce(new, cs)
  <2>1. /\ \A i, j \in 1 .. rd.last : A[i].id = A[j].id => i = j
        /\ \A a \in 1 .. Len(rd.got) : \E j \in 1 .. rd.next - 1 : A[j].id = rd.got[a]
        /\ \A a, b \in 1 .. Len(rd.got) : rd.got[a] = rd.got[b] => a = b
    BY <1>10 DEF RoundSound, PassedOnce, Distinct, A
  <2>2. \A j \in 1 .. rd.next - 1 : j \in 1 .. rd.next /\ j \in 1 .. rd.last /\ j # rd.next
    BY <1>1
  <2>3. rd.next \in 1 .. rd.next /\ (rd.next + 1) - 1 = rd.next
    BY <1>1
  <2>4. \A a \in 1 .. Len(rd.got) : rd.got[a] # c.id
    BY <1>1, <1>8a, <2>1, <2>2
  <2>5. \A a \in 1 .. Len(g) : a \in 1 .. Len(rd.got) \/ (c.enabled /\ a = Len(rd.got) + 1)
    <3>1. Len(g) = Len(rd.got) \/ (c.enabled /\ Len(g) = Len(rd.got) + 1)
      BY <1>5
    <3> QED
      BY <1>1, <3>1
  <2>6. ASSUME NEW a \in 1 .. Len(g) PROVE \E j \in 1 .. rd.next : A[j].id = g[a]
    <3>1. CASE a \in 1 .. Len(rd.got)
      BY <1>5, <2>1, <2>2, <3>1
    <3>2. CASE c.enabled /\ a = Len(rd.got) + 1
      BY <1>5, <1>8a, <2>3, <3>2
    <3> QED
      BY <2>5, <3>1, <3>2
  <2>7. ASSUME NEW a \in 1 .. Len(g), NEW b \in 1 .. Len(g), g[a] = g[b] PROVE a = b
    <3>1. CASE a \in 1 .. Len(rd.got) /\ b \in 1 .. Len(rd.got)
      BY <1>5, <2>1, <2>7, <3>1
    <3>2. CASE ~ (a \in 1 .. Len(rd.got) /\ b \in 1 .. Len(rd.got))
      BY <1>5, <2>4, <2>5, <2>7, <3>2
    <3> QED
      BY <3>1, <3>2
  <2>8. \A a \in 1 .. Len(g) : \E j \in 1 .. (rd.next + 1) - 1 : A[j].id = g[a]
    BY <2>3, <2>6
  <2> QED
    BY <1>7, <1>8, <2>1, <2>7, <2>8 DEF PassedOnce, Distinct
<1>11. new.next \in 1 .. new.last + 1
  BY <1>1, <1>7
<1> QED
  BY <1>1, <1>7, <1>8, <1>9, <1>10, <1>11 DEF RoundSound, A, c, g, new

\* What append makes of a list: in a new array, and in the one it is in.
Grown(cs, n, c) == Append(SubSeq(cs, 1, n), c)
Rewritten(cs, n, c) == Grown(cs, n, c) \o SubSeq(cs, n + 2, Len(cs))

\* The cell behind the list is new, the others stay as they are.
IsRewritten(w, cs, n, c) ==
  /\ w \in Seq(Channel)
  /\ n = Len(cs) => Len(w) = n + 1
  /\ n # Len(cs) => Len(w) = Len(cs)
  /\ w[n + 1] = c
  /\ \A j \in 1 .. n : w[j] = cs[j]
  /\ \A j \in n + 2 .. Len(cs) : w[j] = cs[j]

\* What append makes of the array: the cell behind the list is the new one, and
\* the cells in front of it stay as they are.
LEMMA ArrayAdds ==
  ASSUME NEW cs \in Seq(Channel), NEW n \in 0 .. Len(cs), NEW c \in Channel
  PROVE  /\ Grown(cs, n, c) \in Seq(Channel) /\ Len(Grown(cs, n, c)) = n + 1
         /\ Grown(cs, n, c)[n + 1] = c
         /\ \A j \in 1 .. n : Grown(cs, n, c)[j] = cs[j]
         /\ IsRewritten(Rewritten(cs, n, c), cs, n, c)
<1> DEFINE h == SubSeq(cs, 1, n)
           s == Append(h, c)
           r == SubSeq(cs, n + 2, Len(cs))
           w == s \o r
<1>1. Len(cs) \in Nat /\ n \in Nat /\ n <= Len(cs)
  BY LenProperties
<1>2. /\ \A j \in 1 .. n : cs[j] \in Channel
      /\ \A j \in n + 2 .. Len(cs) : cs[j] \in Channel
  BY <1>1, ElementOfSeq
<1>3. h \in Seq(Channel) /\ Len(h) = n /\ \A j \in 1 .. n : h[j] = cs[j]
  <2>1. /\ h \in Seq(Channel) /\ Len(h) = (IF 1 <= n THEN n - 1 + 1 ELSE 0)
        /\ \A j \in 1 .. n - 1 + 1 : h[j] = cs[1 + j - 1]
    BY <1>1, <1>2, SubSeqProperties
  <2> HIDE DEF h
  <2> QED
    BY <1>1, <2>1
<1>4. /\ r \in Seq(Channel)
      /\ Len(r) = (IF n + 2 <= Len(cs) THEN Len(cs) - (n + 2) + 1 ELSE 0)
      /\ \A j \in 1 .. Len(cs) - (n + 2) + 1 : r[j] = cs[n + 2 + j - 1]
  BY <1>1, <1>2, SubSeqProperties
<1> HIDE DEF h, r
<1>5. s \in Seq(Channel) /\ Len(s) = n + 1 /\ s[n + 1] = c /\ \A j \in 1 .. n : s[j] = cs[j]
  <2>1. /\ s \in Seq(Channel) /\ Len(s) = Len(h) + 1 /\ s[Len(h) + 1] = c
        /\ \A j \in 1 .. Len(h) : s[j] = h[j]
    BY <1>3, AppendProperties
  <2> HIDE DEF s
  <2> QED
    BY <1>3, <2>1
<1> HIDE DEF s
<1>6. /\ w \in Seq(Channel) /\ Len(w) = Len(s) + Len(r)
      /\ \A j \in 1 .. Len(s) + Len(r) : w[j] = IF j <= Len(s) THEN s[j] ELSE r[j - Len(s)]
  BY <1>4, <1>5, ConcatProperties
<1> HIDE DEF w
<1>7. Len(r) \in Nat /\ Len(r) = IF n = Len(cs) THEN 0 ELSE Len(cs) - (n + 1)
  <2>1. Len(r) = (IF n + 2 <= Len(cs) THEN Len(cs) - (n + 2) + 1 ELSE 0)
    BY <1>4
  <2> QED
    BY <1>1, <2>1
<1>8. Len(w) = IF n = Len(cs) THEN n + 1 ELSE Len(cs)
  <2>1. Len(w) = n + 1 + Len(r)
    BY <1>5, <1>6
  <2>2. Len(w) = (n + 1) + (IF n = Len(cs) THEN 0 ELSE Len(cs) - (n + 1))
    BY <1>7, <2>1
  <2>3. (n + 1) + 0 = n + 1 /\ (n + 1) + (Len(cs) - (n + 1)) = Len(cs)
    BY <1>1
  <2> QED
    BY Zenon, <2>2, <2>3
<1>9. \A j \in 1 .. n + 1 : w[j] = s[j]
  <2>0. Len(s) = n + 1 /\ Len(r) \in Nat
    BY <1>5, <1>7
  <2>1. \A j \in 1 .. n + 1 : j \in 1 .. Len(s) + Len(r) /\ j <= Len(s)
    BY <1>1, <2>0
  <2> QED
    BY <1>6, <2>1
<1>10. w[n + 1] = c /\ \A j \in 1 .. n : w[j] = cs[j]
  <2>1. n + 1 \in 1 .. n + 1 /\ \A j \in 1 .. n : j \in 1 .. n + 1
    BY <1>1
  <2> QED
    BY <1>5, <1>9, <2>1
<1>11. ASSUME NEW j \in n + 2 .. Len(cs) PROVE w[j] = cs[j]
  <2>1. /\ j - (n + 1) \in 1 .. Len(cs) - (n + 2) + 1 /\ n + 2 + (j - (n + 1)) - 1 = j
        /\ n # Len(cs)
    BY <1>1
  <2>0. Len(s) = n + 1 /\ Len(r) \in Nat /\ Len(r) = Len(cs) - (n + 1)
    BY <1>5, <1>7, <2>1
  <2>2. j \in 1 .. Len(s) + Len(r) /\ ~ (j <= Len(s)) /\ j - Len(s) = j - (n + 1)
    BY <1>1, <2>0
  <2>3. w[j] = r[j - (n + 1)]
    BY <1>6, <2>2
  <2>4. r[j - (n + 1)] = cs[n + 2 + (j - (n + 1)) - 1]
    BY <1>4, <2>1
  <2> QED
    BY <2>1, <2>3, <2>4
<1> QED
  BY <1>5, <1>6, <1>8, <1>10, <1>11 DEF Grown, Rewritten, IsRewritten, h, s, r, w

\* An addition disturbs no round: those that range over the array see a prefix
\* of it that has not changed, and those that range over one given up keep it.
LEMMA StepAdd ==
  ASSUME ChannelsInv, AddChannel PROVE ChannelsInv'
<1> DEFINE c == [id |-> added + 1, enabled |-> TRUE]
           s == Grown(cells, size, c)
           w == Rewritten(cells, size, c)
<1>0. added \in Nat
  BY ChannelsAssumption DEF ChannelsInv
<1>1. /\ added < MaxAdded /\ added' = added + 1 /\ size' = size + 1
      /\ UNCHANGED <<edits, noticed, told>>
      /\ \/ size < room /\ cells' = w /\ UNCHANGED <<room, round>>
         \/ /\ ~ (size < room) /\ cells' = s /\ room' = (IF room = 0 THEN 1 ELSE 2 * room)
            /\ Rounds(Detached)
  BY Zenon DEF AddChannel, Inserted, Slice, Grown, Rewritten
<1>2. /\ cells \in Seq(Channel) /\ Len(cells) \in Nat /\ size \in 0 .. Len(cells) /\ size \in Nat
      /\ \A i \in 1 .. Len(cells) : cells[i].id <= added
      /\ Distinct(cells, size) /\ room \in Nat /\ Len(cells) <= room
  BY LenProperties DEF ChannelsInv, ListSound
<1>3. c \in Channel /\ c.id = added + 1
  BY <1>0, <1>1, ChannelsAssumption DEF Channel
<1> HIDE DEF c
<1>4. /\ s \in Seq(Channel) /\ Len(s) = size + 1 /\ s[size + 1] = c
      /\ \A j \in 1 .. size : s[j] = cells[j]
      /\ w \in Seq(Channel)
      /\ size = Len(cells) => Len(w) = size + 1
      /\ size # Len(cells) => Len(w) = Len(cells)
      /\ w[size + 1] = c
      /\ \A j \in 1 .. size : w[j] = cells[j]
      /\ \A j \in size + 2 .. Len(cells) : w[j] = cells[j]
  <2>0. cells \in Seq(Channel) /\ size \in 0 .. Len(cells) /\ c \in Channel
    BY Zenon, <1>2, <1>3
  <2>1. /\ Grown(cells, size, c) \in Seq(Channel) /\ Len(Grown(cells, size, c)) = size + 1
        /\ Grown(cells, size, c)[size + 1] = c
        /\ \A j \in 1 .. size : Grown(cells, size, c)[j] = cells[j]
    BY Zenon, <2>0, ArrayAdds
  <2>2. IsRewritten(Rewritten(cells, size, c), cells, size, c)
    BY Zenon, <2>0, ArrayAdds
  <2> QED
    BY <2>1, <2>2 DEF IsRewritten
<1> HIDE DEF s, w
<1>5. Distinct(cells', size') /\ \A i \in 1 .. Len(cells') : cells'[i].id <= added'
  <2>1. /\ cells'[size + 1] = c /\ \A j \in 1 .. size : cells'[j] = cells[j]
        /\ \A j \in size + 2 .. Len(cells') : cells'[j] = cells[j] /\ j \in 1 .. Len(cells)
    BY <1>1, <1>2, <1>4
  <2>2. \A j \in 1 .. size : j \in 1 .. Len(cells)
    BY <1>2
  <2>3. \A j \in 1 .. size : cells[j].id \in Nat /\ cells[j].id <= added
    BY <1>2, <2>2, ElementOfSeq, ChannelFields
  <2>4. \A j \in 1 .. size + 1 : j \in 1 .. size \/ j = size + 1
    BY <1>2
  <2>5. Distinct(cells', size + 1)
    <3> SUFFICES ASSUME NEW i \in 1 .. size + 1, NEW j \in 1 .. size + 1,
                        cells'[i].id = cells'[j].id
                 PROVE  i = j
      BY DEF Distinct
    <3>1. CASE i \in 1 .. size /\ j \in 1 .. size
      BY <1>2, <2>1, <3>1 DEF Distinct
    <3>2. \A k \in 1 .. size : cells'[k].id # cells'[size + 1].id
      BY <1>0, <1>3, <2>1, <2>3
    <3> QED
      BY <2>4, <3>1, <3>2
  <2>6. \A j \in 1 .. Len(cells') : j \in 1 .. size \/ j = size + 1 \/ j \in size + 2 .. Len(cells')
    BY <1>2
  <2>7. \A j \in 1 .. Len(cells) : cells[j].id \in Nat /\ cells[j].id <= added
    BY <1>2, ElementOfSeq, ChannelFields
  <2>8. ASSUME NEW j \in 1 .. Len(cells') PROVE cells'[j].id <= added + 1
    <3>1. CASE j = size + 1
      BY <1>0, <1>3, <2>1, <3>1
    <3>2. CASE j # size + 1
      <4>1. cells'[j] = cells[j] /\ j \in 1 .. Len(cells)
        BY <2>1, <2>2, <2>6, <3>2
      <4>2. cells[j].id \in Nat /\ cells[j].id <= added
        BY <2>7, <4>1
      <4> QED
        BY <1>0, <4>1, <4>2
    <3> QED
      BY <3>1, <3>2
  <2> QED
    BY <1>1, <2>5, <2>8
<1>6. /\ cells' \in Seq(Channel) /\ size' \in 0 .. Len(cells') /\ room' \in Nat /\ Len(cells') <= room'
      /\ added' \in 0 .. MaxAdded
  BY <1>0, <1>1, <1>2, <1>4, ChannelsAssumption
<1>7. /\ round' \in [Readers -> {Resting} \union Round]
      /\ \A r \in Readers : round'[r] # Resting => RoundSound(round'[r], cells', size')
  <2>1. ASSUME NEW r \in Readers, round[r] # Resting
        PROVE  round[r] \in Round /\ RoundSound(round[r], cells, size)
    BY <2>1 DEF ChannelsInv
  <2>2. CASE size < room /\ cells' = w /\ UNCHANGED <<room, round>>
    <3>1. ASSUME NEW rd \in Round, RoundSound(rd, cells, size) PROVE RoundSound(rd, cells', size')
      <4>1. /\ rd.last \in Nat /\ rd.last <= Len(Behind(rd, cells)) /\ rd.disturbed \in BOOLEAN
            /\ rd.shared /\ ~ rd.disturbed => rd.last <= size
        BY <3>1, RoundFields DEF RoundSound
      <4>2. Len(cells) <= Len(cells')
        BY <1>2, <1>4, <2>2
      <4>3. rd.last <= Len(Behind(rd, cells'))
        BY <1>2, <1>6, <4>1, <4>2, LenProperties DEF Behind
      <4>4. rd.shared /\ ~ rd.disturbed => rd.last <= size'
        BY <1>1, <1>2, <4>1
      <4>5. ~ rd.disturbed => \A j \in 1 .. rd.last : Behind(rd, cells')[j] = Behind(rd, cells)[j]
        BY <1>2, <1>4, <2>2, <4>1 DEF Behind
      <4> QED
        BY <3>1, <4>3, <4>4, <4>5, RoundStays
    <3> QED
      BY <2>1, <2>2, <3>1 DEF ChannelsInv
  <2>3. CASE Rounds(Detached)
    <3>1. ASSUME NEW rd \in Round, RoundSound(rd, cells, size)
          PROVE  Detached(rd) \in Round /\ RoundSound(Detached(rd), cells', size')
      <4>1. CASE rd.shared
        <5> DEFINE new == [rd EXCEPT !.shared = FALSE, !.kept = cells]
        <5>1. /\ new \in Round /\ new.next = rd.next /\ new.last = rd.last /\ new.got = rd.got
              /\ new.disturbed = rd.disturbed /\ new.owed = rd.owed /\ ~ new.shared /\ new.kept = cells
          BY <1>2 DEF Round
        <5>2. Detached(rd) = new
          BY <4>1 DEF Detached
        <5> HIDE DEF new
        <5>3. Behind(new, cells') = cells /\ Behind(rd, cells) = cells
          BY <4>1, <5>1 DEF Behind
        <5>4. rd.last <= Len(cells)
          BY <3>1, <5>3 DEF RoundSound
        <5> QED
          BY <3>1, <5>1, <5>2, <5>3, <5>4, RoundStays
      <4>2. CASE ~ rd.shared
        <5>1. Detached(rd) = rd /\ Behind(rd, cells') = Behind(rd, cells)
          BY <4>2 DEF Detached, Behind
        <5>2. rd.last <= Len(Behind(rd, cells))
          BY <3>1 DEF RoundSound
        <5> QED
          BY <3>1, <4>2, <5>1, <5>2, RoundStays
      <4> QED
        BY <4>1, <4>2
    <3>2. round' = [r \in Readers |-> IF r \in Running THEN Detached(round[r]) ELSE Resting]
      BY <2>3 DEF Rounds
    <3> QED
      BY <2>1, <3>1, <3>2 DEF Running
  <2> QED
    BY <1>1, <2>2, <2>3
<1> QED
  BY <1>1, <1>5, <1>6, <1>7 DEF ChannelsInv, ListSound

\* A deletion moves cells forward in the array: the rounds that range over it
\* are disturbed, the others are not.
LEMMA StepDelete ==
  ASSUME ChannelsInv, NEW i \in 1 .. size, DeleteChannel(i) PROVE ChannelsInv'
<1> DEFINE src(j) == IF j \in i .. size - 1 THEN j + 1 ELSE j
           w == [j \in 1 .. Len(cells) |-> IF j \in i .. size - 1 THEN cells[j + 1] ELSE cells[j]]
<1>1. /\ edits < MaxEdits /\ edits' = edits + 1 /\ cells' = w /\ size' = size - 1
      /\ UNCHANGED <<room, added, noticed, told>>
  BY DEF DeleteChannel
<1>2. /\ cells \in Seq(Channel) /\ Len(cells) \in Nat /\ size \in 0 .. Len(cells) /\ size \in Nat
      /\ \A j \in 1 .. Len(cells) : cells[j].id <= added /\ cells[j] \in Channel
      /\ Distinct(cells, size)
  BY LenProperties, ElementOfSeq DEF ChannelsInv, ListSound
<1>3. /\ \A j \in 1 .. Len(cells) : src(j) \in 1 .. Len(cells) /\ w[j] = cells[src(j)]
      /\ \A j \in 1 .. size - 1 : src(j) \in 1 .. size /\ j \in 1 .. Len(cells)
      /\ \A j, k \in 1 .. size - 1 : src(j) = src(k) => j = k
  BY <1>2
<1>4. w \in Seq(Channel) /\ Len(w) = Len(cells)
  <2>1. w \in [1 .. Len(cells) -> Channel]
    BY <1>2
  <2> HIDE DEF w
  <2>2. w \in Seq(Channel)
    BY <1>2, <2>1, SeqDef
  <2>3. Len(w) \in Nat /\ DOMAIN w = 1 .. Len(w) /\ DOMAIN w = 1 .. Len(cells)
    BY <2>1, <2>2, LenProperties
  <2> QED
    BY <1>2, <2>2, <2>3
<1> HIDE DEF w, src
<1>5. \A j \in 1 .. Len(w) : w[j].id <= added
  BY <1>2, <1>3, <1>4
<1>6. Distinct(w, size - 1)
  <2> SUFFICES ASSUME NEW j \in 1 .. size - 1, NEW k \in 1 .. size - 1, w[j].id = w[k].id
               PROVE  j = k
    BY DEF Distinct
  <2>1. cells[src(j)].id = cells[src(k)].id
    BY <1>3
  <2>2. src(j) = src(k)
    BY <1>2, <1>3, <2>1 DEF Distinct
  <2> QED
    BY <1>3, <2>2
<1>7. /\ round' \in [Readers -> {Resting} \union Round]
      /\ \A r \in Readers : round'[r] # Resting => RoundSound(round'[r], cells', size')
  <2> DEFINE upd(rd) == [rd EXCEPT !.owed = IF rd.shared THEN {} ELSE @ \ {cells[i].id},
                                   !.disturbed = rd.shared \/ @]
  <2>1. round' = [r \in Readers |-> IF r \in Running THEN upd(round[r]) ELSE Resting]
    BY Zenon DEF DeleteChannel, Rounds
  <2>2. ASSUME NEW rd \in Round, RoundSound(rd, cells, size)
        PROVE  upd(rd) \in Round /\ RoundSound(upd(rd), cells', size')
    <3> DEFINE new == upd(rd)
    <3>0. rd.owed \subseteq 1 .. MaxAdded /\ rd.shared \in BOOLEAN /\ rd.disturbed \in BOOLEAN
      BY RoundFields
    <3>1. CASE rd.shared
      <4>1. new = [rd EXCEPT !.owed = {}, !.disturbed = TRUE]
        BY <3>1
      <4> HIDE DEF new
      <4>2. /\ new \in Round /\ new.next = rd.next /\ new.last = rd.last /\ new.shared
            /\ new.owed = {} /\ new.disturbed
        BY <3>1, <4>1 DEF Round
      <4>3. new.last <= Len(Behind(new, cells'))
        BY <1>1, <1>4, <2>2, <3>1, <4>2 DEF RoundSound, Behind
      <4>4. RoundSound(new, cells', size')
        BY <2>2, <4>2, <4>3, RoundDisturbed
      <4> QED
        BY <4>2, <4>4 DEF new
    <3>2. CASE ~ rd.shared
      <4>1. new = [rd EXCEPT !.owed = rd.owed \ {cells[i].id}, !.disturbed = rd.disturbed]
        BY <3>0, <3>2
      <4> HIDE DEF new
      <4>2. /\ new \in Round /\ new.next = rd.next /\ new.last = rd.last /\ new.shared = rd.shared
            /\ new.kept = rd.kept /\ new.got = rd.got
            /\ new.owed \subseteq rd.owed /\ new.disturbed = rd.disturbed
        BY <3>0, <4>1 DEF Round
      <4>3. Behind(new, cells') = Behind(rd, cells)
        BY <3>2, <4>2 DEF Behind
      <4>4. new.last <= Len(Behind(new, cells'))
        BY <2>2, <4>2, <4>3 DEF RoundSound
      <4>5. RoundSound(new, cells', size')
        BY <2>2, <3>2, <4>2, <4>3, <4>4, RoundStays
      <4> QED
        BY <4>2, <4>5 DEF new
    <3> QED
      BY <3>0, <3>1, <3>2
  <2> HIDE DEF upd
  <2>3. ASSUME NEW r \in Readers, round[r] # Resting
        PROVE  round[r] \in Round /\ RoundSound(round[r], cells, size)
    BY <2>3 DEF ChannelsInv
  <2> QED
    BY <2>1, <2>2, <2>3 DEF Running
<1>8. edits' \in 0 .. MaxEdits /\ size' \in 0 .. Len(cells')
  BY <1>1, <1>2, <1>4, ChannelsAssumption DEF ChannelsInv
<1> QED
  BY <1>1, <1>4, <1>5, <1>6, <1>7, <1>8 DEF ChannelsInv, ListSound

\* A switch changes no channel's place, and excuses the one it changes.
LEMMA StepToggle ==
  ASSUME ChannelsInv, NEW i \in 1 .. size, ToggleChannel(i) PROVE ChannelsInv'
<1> DEFINE w == [cells EXCEPT ![i].enabled = ~ @]
<1>1. /\ edits < MaxEdits /\ edits' = edits + 1 /\ cells' = w
      /\ UNCHANGED <<size, room, added, noticed, told>>
  BY DEF ToggleChannel
<1>2. /\ cells \in Seq(Channel) /\ Len(cells) \in Nat /\ size \in 0 .. Len(cells) /\ size \in Nat
      /\ \A j \in 1 .. Len(cells) : cells[j].id <= added /\ cells[j] \in Channel
      /\ Distinct(cells, size) /\ i \in 1 .. Len(cells)
  BY LenProperties, ElementOfSeq DEF ChannelsInv, ListSound
<1> DEFINE c == [cells[i] EXCEPT !.enabled = ~ cells[i].enabled]
<1>3. c \in Channel /\ c.id = cells[i].id
  BY <1>2 DEF Channel
<1>4. w = [cells EXCEPT ![i] = c]
  OBVIOUS
<1> HIDE DEF c, w
<1>5. /\ w \in Seq(Channel) /\ Len(w) = Len(cells)
      /\ \A j \in 1 .. Len(cells) : w[j] = IF j = i THEN c ELSE cells[j]
  BY <1>2, <1>3, <1>4, ExceptSeq
<1>6. \A j \in 1 .. Len(cells) : w[j].id = cells[j].id /\ (j # i => w[j] = cells[j])
  BY <1>3, <1>5
<1>7. Distinct(w, size) /\ \A j \in 1 .. Len(w) : w[j].id <= added
  BY <1>2, <1>5, <1>6 DEF Distinct
<1>8. /\ round' \in [Readers -> {Resting} \union Round]
      /\ \A r \in Readers : round'[r] # Resting => RoundSound(round'[r], cells', size')
  <2> DEFINE upd(rd) == [rd EXCEPT !.owed = @ \ {cells[i].id}]
  <2>1. round' = [r \in Readers |-> IF r \in Running THEN upd(round[r]) ELSE Resting]
    BY Zenon DEF ToggleChannel, Excused, Rounds
  <2>2. ASSUME NEW rd \in Round, RoundSound(rd, cells, size)
        PROVE  upd(rd) \in Round /\ RoundSound(upd(rd), cells', size')
    <3> DEFINE new == upd(rd)
    <3>0. /\ rd.owed \subseteq 1 .. MaxAdded /\ rd.shared \in BOOLEAN /\ rd.disturbed \in BOOLEAN
          /\ rd.last \in Nat /\ rd.last <= Len(Behind(rd, cells))
      BY <2>2, RoundFields DEF RoundSound
    <3>1. new = [rd EXCEPT !.owed = rd.owed \ {cells[i].id}]
      OBVIOUS
    <3> HIDE DEF new
    <3>2. /\ new \in Round /\ new.next = rd.next /\ new.last = rd.last /\ new.shared = rd.shared
          /\ new.kept = rd.kept /\ new.got = rd.got
          /\ new.owed = rd.owed \ {cells[i].id} /\ new.disturbed = rd.disturbed
      BY <3>0, <3>1 DEF Round
    <3>3. /\ Len(Behind(new, cells')) = Len(Behind(rd, cells))
          /\ \A j \in 1 .. Len(Behind(rd, cells)) :
               /\ Behind(new, cells')[j].id = Behind(rd, cells)[j].id
               /\ Behind(rd, cells)[j].id # cells[i].id =>
                    Behind(new, cells')[j] = Behind(rd, cells)[j]
      <4>1. CASE rd.shared
        <5>1. Behind(new, cells') = w /\ Behind(rd, cells) = cells
          BY <1>1, <3>2, <4>1 DEF Behind
        <5> QED
          BY <1>5, <1>6, <5>1
      <4>2. CASE ~ rd.shared
        BY <3>2, <4>2 DEF Behind
      <4> QED
        BY <3>0, <4>1, <4>2
    <3>4. \A j \in 1 .. rd.last : j \in 1 .. Len(Behind(rd, cells))
      <4> DEFINE m == Len(Behind(rd, cells))
      <4>1. m \in Nat
        BY <1>2, RoundFields, LenProperties DEF Behind
      <4> HIDE DEF m
      <4>2. rd.last <= m
        BY <3>0 DEF m
      <4>3. \A j \in 1 .. rd.last : j \in 1 .. m
        BY <3>0, <4>1, <4>2
      <4> QED
        BY <4>3 DEF m
    <3>5. \A j \in 1 .. rd.last :
            /\ Behind(new, cells')[j].id = Behind(rd, cells)[j].id
            /\ Behind(rd, cells)[j].id \in new.owed =>
                 Behind(new, cells')[j].enabled = Behind(rd, cells)[j].enabled
      BY <3>2, <3>3, <3>4
    <3>6. new.last <= Len(Behind(new, cells'))
      BY <3>0, <3>2, <3>3
    <3>7. new.shared /\ ~ new.disturbed => new.last <= size'
      BY <1>1, <2>2, <3>2 DEF RoundSound
    <3>8. new.owed \subseteq rd.owed
      BY <3>2
    <3>9. RoundSound(new, cells', size')
      BY <2>2, <3>2, <3>5, <3>6, <3>7, <3>8, RoundStays
    <3> QED
      BY <3>2, <3>9 DEF new
  <2> HIDE DEF upd
  <2>3. ASSUME NEW r \in Readers, round[r] # Resting
        PROVE  round[r] \in Round /\ RoundSound(round[r], cells, size)
    BY <2>3 DEF ChannelsInv
  <2> QED
    BY <2>1, <2>2, <2>3 DEF Running
<1>9. edits' \in 0 .. MaxEdits /\ size' \in 0 .. Len(cells')
  BY <1>1, <1>2, <1>5, ChannelsAssumption DEF ChannelsInv
<1> QED
  BY <1>1, <1>5, <1>7, <1>8, <1>9 DEF ChannelsInv, ListSound

\* A round starts sound.
LEMMA RoundStarts ==
  ASSUME ChannelsInv, NEW r \in Readers, Starts(r)
  PROVE  /\ round' \in [Readers -> {Resting} \union Round]
         /\ \A q \in Readers : round'[q] # Resting => RoundSound(round'[q], cells, size)
         /\ \A q \in Readers : q # r => round'[q] = round[q]
<1> DEFINE who == {Slice[i].id : i \in {j \in 1 .. size : Slice[j].enabled}}
           new == [next |-> 1, last |-> size, shared |-> TRUE, kept |-> <<>>, got |-> <<>>,
                   disturbed |-> FALSE, owed |-> who]
<1>1. round' = [round EXCEPT ![r] = new]
  BY Zenon DEF Starts
<1>2. /\ cells \in Seq(Channel) /\ Len(cells) \in Nat /\ size \in 0 .. Len(cells) /\ size \in Nat
      /\ \A j \in 1 .. Len(cells) : cells[j] \in Channel
      /\ Distinct(cells, size)
  BY LenProperties, ElementOfSeq DEF ChannelsInv, ListSound
<1>3. \A j \in 1 .. size : Slice[j] = cells[j] /\ cells[j] \in Channel /\ j \in 1 .. Len(cells)
  <2>1. \A j \in 1 .. size : cells[j] \in Channel /\ j \in 1 .. Len(cells)
    BY <1>2
  <2>2. \A j \in 1 .. size - 1 + 1 : SubSeq(cells, 1, size)[j] = cells[1 + j - 1]
    BY <1>2, <2>1, SubSeqProperties
  <2>3. \A j \in 1 .. size : j \in 1 .. size - 1 + 1 /\ 1 + j - 1 = j
    BY <1>2
  <2> QED
    BY <2>1, <2>2, <2>3 DEF Slice
<1>4. /\ who \subseteq 1 .. MaxAdded
      /\ \A id \in who : \E j \in 1 .. size : cells[j].id = id /\ cells[j].enabled
  BY <1>3, ChannelFields
<1> HIDE DEF who
<1>5. /\ new \in Round /\ new.next = 1 /\ new.last = size /\ new.shared /\ new.got = <<>>
      /\ ~ new.disturbed /\ new.owed = who
  <2>1. <<>> \in Seq(Channel) /\ <<>> \in Seq(1 .. MaxAdded)
    BY EmptySeq
  <2> QED
    BY <1>2, <1>4, <2>1 DEF Round
<1> HIDE DEF new
<1>6. Behind(new, cells) = cells
  BY <1>5 DEF Behind
<1>7. StillComes(new, cells)
  BY <1>4, <1>5, <1>6 DEF StillComes
<1>8. PassedOnce(new, cells)
  <2>1. Len(<<>>) = 0
    BY EmptySeq
  <2>2. 1 .. Len(new.got) = {}
    BY <1>5, <2>1
  <2> QED
    BY <1>2, <1>5, <1>6, <2>2 DEF PassedOnce
<1>9. RoundSound(new, cells, size)
  BY <1>2, <1>5, <1>6, <1>7, <1>8 DEF RoundSound
<1>10. round \in [Readers -> {Resting} \union Round]
  BY DEF ChannelsInv
<1>11. ASSUME NEW q \in Readers, round'[q] # Resting PROVE RoundSound(round'[q], cells, size)
  <2>1. CASE q = r
    BY <1>1, <1>9, <1>10, <2>1
  <2>2. CASE q # r
    BY <1>1, <1>10, <1>11, <2>2 DEF ChannelsInv
  <2> QED
    BY <2>1, <2>2
<1> QED
  BY <1>1, <1>5, <1>10, <1>11

\* A step that leaves the list alone keeps the invariant if its rounds are
\* sound.
LEMMA StepRounds ==
  ASSUME ChannelsInv, ~ (UNCHANGED round) => round' \in [Readers -> {Resting} \union Round],
         \A q \in Readers : round'[q] # Resting => RoundSound(round'[q], cells, size),
         UNCHANGED <<cells, size, room, added, edits>>,
         {noticed', told'} \subseteq {None} \union (0 .. Repeat),
         noticed' # told' => noticed' = None /\ told' = Repeat
  PROVE  ChannelsInv'
<1>1. round' \in [Readers -> {Resting} \union Round]
  BY DEF ChannelsInv
<1> QED
  BY <1>1 DEF ChannelsInv, ListSound

\* Sending keeps it.
LEMMA StepSend ==
  ASSUME ChannelsInv, NEW r \in Readers, SendNext(r) PROVE ChannelsInv'
<1> DEFINE rd == round[r]
           new == [rd EXCEPT !.next = rd.next + 1, !.got = GotAfter(rd, Behind(rd, cells)[rd.next])]
<1>1. /\ rd \in Round /\ rd # Resting /\ rd.next <= rd.last /\ RoundSound(rd, cells, size)
      /\ round \in [Readers -> {Resting} \union Round] /\ cells \in Seq(Channel)
  BY DEF ChannelsInv, ListSound, SendNext
<1>2. round' = [round EXCEPT ![r] = new]
  <2>1. round' = [round EXCEPT ![r].next = @ + 1,
                     ![r].got = IF Behind(rd, cells)[rd.next].enabled
                                THEN Append(@, Behind(rd, cells)[rd.next].id) ELSE @]
    BY Zenon DEF SendNext, Behind
  <2> DEFINE c == Behind(rd, cells)[rd.next]
  <2> HIDE DEF c
  <2>2. round' = [round EXCEPT ![r].next = @ + 1,
                     ![r].got = IF c.enabled THEN Append(@, c.id) ELSE @]
    BY <2>1 DEF c
  <2>3. round' = [round EXCEPT ![r] = [rd EXCEPT !.next = rd.next + 1, !.got = GotAfter(rd, c)]]
    BY <1>1, <2>2 DEF GotAfter, Round
  <2> QED
    BY <2>3 DEF c
<1>3. RoundSound(new, cells, size) /\ new \in Round
  BY <1>1, RoundSends
<1> HIDE DEF new
<1>4. round' \in [Readers -> {Resting} \union Round]
  BY <1>1, <1>2, <1>3
<1>5. ASSUME NEW q \in Readers, round'[q] # Resting PROVE RoundSound(round'[q], cells, size)
  <2>1. CASE q = r
    BY <1>1, <1>2, <1>3, <2>1
  <2>2. CASE q # r
    BY <1>1, <1>2, <1>5, <2>2 DEF ChannelsInv
  <2> QED
    BY <2>1, <2>2
<1> QED
  BY <1>4, <1>5, StepRounds DEF SendNext, ChannelsInv

\* The end of a round keeps it.
LEMMA StepEnd ==
  ASSUME ChannelsInv, NEW r \in Readers, EndRound(r) PROVE ChannelsInv'
<1>1. /\ round' = [round EXCEPT ![r] = Resting]
      /\ round \in [Readers -> {Resting} \union Round]
      /\ UNCHANGED <<cells, size, room, added, edits, noticed, told>>
  BY DEF ChannelsInv, EndRound
<1>2. round' \in [Readers -> {Resting} \union Round]
  BY <1>1
<1>3. \A q \in Readers : round'[q] # Resting => RoundSound(round'[q], cells, size)
  BY <1>1 DEF ChannelsInv
<1> QED
  BY <1>1, <1>2, <1>3, StepRounds DEF ChannelsInv

\* Every step keeps it.
LEMMA ChannelsInductive == ChannelsInv /\ [ChannelsNext]_channelsVars => ChannelsInv'
<1> SUFFICES ASSUME ChannelsInv, [ChannelsNext]_channelsVars PROVE ChannelsInv'
  OBVIOUS
<1>0. /\ {noticed, told} \subseteq {None} \union (0 .. Repeat)
      /\ noticed # told => noticed = None /\ told = Repeat
      /\ \A q \in Readers : round[q] # Resting => RoundSound(round[q], cells, size)
      /\ Repeat \in Nat \ {0} /\ None \notin 0 .. Repeat
  BY ChannelsAssumption DEF ChannelsInv, None
<1>1. CASE AddChannel
  BY <1>1, StepAdd
<1>2. ASSUME NEW i \in 1 .. size, DeleteChannel(i) \/ ToggleChannel(i) PROVE ChannelsInv'
  BY <1>2, StepDelete, StepToggle
<1>3. CASE FireAlert
  <2>1. "alerts" \in Readers
    BY DEF Readers
  <2>2. Starts("alerts") /\ UNCHANGED <<cells, size, room, added, edits, noticed, told>>
    BY <1>3 DEF FireAlert
  <2>3. /\ round' \in [Readers -> {Resting} \union Round]
        /\ \A q \in Readers : round'[q] # Resting => RoundSound(round'[q], cells, size)
    BY <2>1, <2>2, RoundStarts
  <2> QED
    BY <1>0, <2>2, <2>3, StepRounds
<1>4. CASE Notify
  <2>1. "rightsizer" \in Readers
    BY DEF Readers
  <2>2. /\ Starts("rightsizer") /\ noticed' = 0 /\ told' = 0
        /\ UNCHANGED <<cells, size, room, added, edits>>
    BY <1>4 DEF Notify
  <2>3. /\ round' \in [Readers -> {Resting} \union Round]
        /\ \A q \in Readers : round'[q] # Resting => RoundSound(round'[q], cells, size)
    BY <2>1, <2>2, RoundStarts
  <2> QED
    BY <1>0, <2>2, <2>3, StepRounds
<1>5. CASE CleanupNotices
  <2>1. /\ noticed' = (IF noticed = Repeat THEN None ELSE noticed) /\ told' = told
        /\ UNCHANGED <<cells, size, room, added, edits, round>>
    BY <1>5 DEF CleanupNotices, CleanedUp
  <2>2. {noticed', told'} \subseteq {None} \union (0 .. Repeat)
    BY <1>0, <2>1
  <2>3. noticed' # told' => noticed' = None /\ told' = Repeat
    BY <1>0, <2>1
  <2> QED
    BY <1>0, <2>1, <2>2, <2>3, StepRounds
<1>6. CASE TimePasses
  <2>1. /\ noticed' = Older(noticed) /\ told' = Older(told)
        /\ UNCHANGED <<cells, size, room, added, edits, round>>
    BY <1>6 DEF TimePasses
  <2>2. \A t \in {None} \union (0 .. Repeat) : Older(t) \in {None} \union (0 .. Repeat)
    BY <1>0 DEF Older
  <2>3. Older(None) = None /\ Older(Repeat) = Repeat
    BY <1>0 DEF Older, None
  <2>4. {noticed', told'} \subseteq {None} \union (0 .. Repeat)
    BY <1>0, <2>1, <2>2
  <2>5. noticed' # told' => noticed' = None /\ told' = Repeat
    BY <1>0, <2>1, <2>3
  <2> QED
    BY <1>0, <2>1, <2>4, <2>5, StepRounds
<1>7. ASSUME NEW r \in Readers, SendNext(r) \/ EndRound(r) PROVE ChannelsInv'
  BY <1>7, StepSend, StepEnd
<1>8. CASE UNCHANGED channelsVars
  <2>1. UNCHANGED <<cells, size, room, added, edits, round, noticed, told>>
    BY <1>8 DEF channelsVars
  <2> QED
    BY <1>0, <2>1, StepRounds
<1> QED
  BY <1>1, <1>2, <1>3, <1>4, <1>5, <1>6, <1>7, <1>8 DEF ChannelsNext

\* It holds at the start.
LEMMA ChannelsStart == ChannelsInit => ChannelsInv
<1> SUFFICES ASSUME ChannelsInit PROVE ChannelsInv
  OBVIOUS
<1>1. <<>> \in Seq(Channel) /\ Len(<<>>) = 0
  BY EmptySeq
<1>2. ListSound(cells, size, added)
  BY <1>1 DEF ListSound, ChannelsInit, Distinct
<1>3. round = [r \in Readers |-> Resting] /\ noticed = None /\ told = None
  BY DEF ChannelsInit
<1>4. round \in [Readers -> {Resting} \union Round]
  BY <1>3
<1>5. added \in 0 .. MaxAdded /\ edits \in 0 .. MaxEdits /\ room \in Nat /\ Len(cells) <= room
  BY <1>1, ChannelsAssumption DEF ChannelsInit
<1> QED
  BY <1>2, <1>3, <1>4, <1>5 DEF ChannelsInv

\* A sound round that is over has reached all it owed a message, and none twice
\* unless it was disturbed.
LEMMA RoundsAre == ChannelsInv => RoundsComplete
<1> SUFFICES ASSUME ChannelsInv, NEW r \in Readers, Done(r)
             PROVE  /\ round[r].owed \subseteq ToSet(round[r].got)
                    /\ ~ round[r].disturbed => IsInjective(round[r].got)
  BY DEF RoundsComplete
<1> DEFINE rd == round[r]
<1>1. rd \in Round /\ RoundSound(rd, cells, size) /\ rd.next > rd.last
  BY DEF ChannelsInv, Done
<1> HIDE DEF rd
<1>2. rd.next \in Nat /\ rd.last \in Nat /\ rd.next .. rd.last = {}
  BY <1>1, RoundFields
<1>3. DOMAIN rd.got = 1 .. Len(rd.got)
  BY <1>1, RoundFields, LenProperties
<1>4. \A id \in rd.owed : \E a \in 1 .. Len(rd.got) : rd.got[a] = id
  BY <1>1, <1>2 DEF RoundSound, StillComes
<1>5. rd.owed \subseteq ToSet(rd.got)
  BY <1>3, <1>4 DEF ToSet
<1>6. ~ rd.disturbed => \A a, b \in 1 .. Len(rd.got) : rd.got[a] = rd.got[b] => a = b
  BY <1>1 DEF RoundSound, PassedOnce
<1>7. ~ rd.disturbed => IsInjective(rd.got)
  BY <1>3, <1>6 DEF IsInjective
<1> QED
  BY <1>5, <1>7 DEF rd

\* Only Notify starts a round of the rightsizer, and when it does the last one
\* is long ago.
LEMMA NotifiedRarely ==
  ASSUME ChannelsInv, [ChannelsNext]_channelsVars,
         round["rightsizer"] = Resting, round'["rightsizer"] # Resting
  PROVE  told \in {None, Repeat}
<1> DEFINE me == "rightsizer"
<1>0. me \in Readers /\ round \in [Readers -> {Resting} \union Round] /\ me \notin Running
  BY DEF Readers, Running, ChannelsInv
<1>1. ~ AddChannel
  <2>1. SUFFICES ASSUME Rounds(Detached) PROVE round'[me] = Resting
    BY DEF AddChannel
  <2> QED
    BY <1>0, <2>1 DEF Rounds
<1>2. ASSUME NEW i \in 1 .. size PROVE ~ (DeleteChannel(i) \/ ToggleChannel(i))
  BY <1>0 DEF DeleteChannel, ToggleChannel, Excused, Rounds
<1>3. ~ FireAlert
  BY <1>0 DEF FireAlert, Starts
<1>4. ~ CleanupNotices /\ ~ TimePasses /\ ~ UNCHANGED channelsVars
  BY DEF CleanupNotices, TimePasses, channelsVars
<1>5. ASSUME NEW r \in Readers PROVE ~ (SendNext(r) \/ EndRound(r))
  BY <1>0 DEF SendNext, EndRound
<1>6. Notify
  BY <1>1, <1>2, <1>3, <1>4, <1>5 DEF ChannelsNext
<1> QED
  BY <1>6 DEF Notify, ChannelsInv

\* The notification channels (handler/notification.go, fireAlert, Notify): who
\* should be told is told, although the API changes the list under the round,
\* and a target is notified at most once in a cooldown.
THEOREM ChannelsAreServed == ServicesSpec => ChannelsServed
<1>1. ChannelsInv /\ [ChannelsNext]_channelsVars =>
        [round["rightsizer"] = Resting /\ round'["rightsizer"] # Resting =>
           told \in {None, Repeat}]_channelsVars
  BY NotifiedRarely
<1> QED
  BY <1>1, ChannelsStart, ChannelsInductive, RoundsAre, EachPart, PTL
     DEF ChannelsPart, ChannelsServed, OncePerCooldown

-----------------------------------------------------------------------------
\* All parts together.

\* The invariant of the series says of their types what is asked.
LEMMA StoreTypes == StoreInv => StoreTypeOK
<1> SUFFICES ASSUME StoreInv PROVE StoreTypeOK
  OBVIOUS
<1>1. clock \in 0 .. MaxTime /\ \A t \in 0 .. clock : t \in 0 .. MaxTime
  BY StoreAssumption DEF StoreInv
<1>2. rows \subseteq Rows /\ queued \subseteq Rows /\ written \subseteq Rows
  BY <1>1 DEF StoreInv, Rows
<1>3. \A k \in Keys : /\ series[k] \in Seq(0 .. clock)
                      /\ \A i, j \in 1 .. Len(series[k]) : i < j => series[k][i] <= series[k][j]
  BY DEF StoreInv, Sorted
<1> QED
  BY Zenon, <1>1, <1>2, <1>3 DEF StoreTypeOK, StoreInv

\* That of the channels and the rounds, too.
LEMMA ChannelsTypes == ChannelsInv => ChannelsTypeOK
<1> SUFFICES ASSUME ChannelsInv PROVE ChannelsTypeOK
  OBVIOUS
<1>1. cells \in Seq(Channel) /\ size \in 0 .. Len(cells)
  BY Zenon DEF ChannelsInv, ListSound
<1>2. ASSUME NEW r \in Readers, round[r] # Resting
      PROVE  /\ round[r].next \in 1 .. round[r].last + 1
             /\ round[r].shared => round[r].last <= Len(cells)
             /\ round[r].owed \subseteq 1 .. MaxAdded
  <2>1. RoundSound(round[r], cells, size)
    BY Zenon, <1>2 DEF ChannelsInv
  <2>2. round[r].owed \subseteq 1 .. MaxAdded
    BY <2>1 DEF RoundSound, Round
  <2> QED
    BY Zenon, <2>1, <2>2 DEF RoundSound, Behind
<1> QED
  BY Zenon, <1>1, <1>2 DEF ChannelsInv, ChannelsTypeOK

\* All parts of Services keep their types, and with them their bounds: the ring,
\* the channel of the writer, the windows and the lists never outgrow their
\* capacities, whatever these are.
THEOREM ServicesTyped == ServicesSpec => []ServicesTypeOK
<1>1. AuditTypeOK /\ StoreTypeOK /\ PricingTypeOK /\ SettingsTypeOK /\ AlertsTypeOK
      /\ ChannelsTypeOK /\ DrainsTypeOK /\ CloudPoolsTypeOK /\ CleanupTypeOK
      /\ DisruptionTypeOK => ServicesTypeOK
  BY DEF ServicesTypeOK
<1>2. /\ PricingInv => PricingTypeOK
      /\ SettingsInv => SettingsTypeOK
      /\ AlertsInv => AlertsTypeOK
      /\ PoolsInv => CloudPoolsTypeOK
      /\ CleanupInv => CleanupTypeOK
  BY Zenon DEF PricingInv, SettingsInv, AlertsInv, PoolsInv, CleanupInv
<1>3. StorePart => []StoreTypeOK
  BY StoreStarts, StoreStays, StoreTypes, PTL DEF StorePart
<1>4. PricingPart => []PricingTypeOK
  BY <1>2, PricingStart, PricingInductive, PTL DEF PricingPart
<1>5. SettingsPart => []SettingsTypeOK
  BY <1>2, SettingsStart, SettingsInductive, PTL DEF SettingsPart
<1>6. AlertsPart => []AlertsTypeOK
  BY <1>2, AlertsInvInit, AlertsInvNext, PTL DEF AlertsPart
<1>7. ChannelsPart => []ChannelsTypeOK
  BY ChannelsStart, ChannelsInductive, ChannelsTypes, PTL DEF ChannelsPart
<1>8. PoolsPart => []CloudPoolsTypeOK
  BY <1>2, PoolsStart, PoolsInductive, PTL DEF PoolsPart
<1>9. CleanupPart => []CleanupTypeOK
  BY <1>2, CleanupStart, CleanupInductive, PTL DEF CleanupPart
<1> QED
  BY <1>1, <1>3, <1>4, <1>5, <1>6, <1>7, <1>8, <1>9, AuditInServices, AuditTyped,
     DrainsTyped, BudgetHolds, EachPart, PTL

=============================================================================
