------------------------ MODULE ControllerLoopProofs ------------------------
(***************************************************************************)
(* The controller loops keep the breaker's contract, and a loop locked out *)
(* by a probe without a verdict stays locked out, for any set of           *)
(* controllers, any window, cooldown, threshold and number of items.       *)
(***************************************************************************)
EXTENDS ControllerLoop, TLAPS

-----------------------------------------------------------------------------
(* The slices: every operation on a histogram yields a histogram.          *)

\* Recording, pruning and ageing keep a slice a histogram.
LEMMA HistogramClosed ==
  /\ NoResults \in Histogram
  /\ \A h \in Histogram :
       /\ Append1(h) \in Histogram
       /\ Prune(h) \in Histogram
       /\ Aged(h) \in Histogram
<1> USE WindowAssumption
<1>1. NoResults \in Histogram
  BY DEF NoResults, Histogram, Ages
<1>2. ASSUME NEW h \in Histogram PROVE Append1(h) \in Histogram
  BY DEF Append1, Histogram, Ages
<1>3. ASSUME NEW h \in Histogram PROVE Prune(h) \in Histogram
  BY DEF Prune, Histogram, Ages
<1>4. ASSUME NEW h \in Histogram PROVE Aged(h) \in Histogram
  <2>1. ASSUME NEW a \in Ages
        PROVE  (IF a = 0 THEN 0 ELSE IF a < Window THEN h[a - 1]
                ELSE IF h[Window] + h[Window - 1] > 0 THEN 1 ELSE 0) \in Nat
    BY DEF Histogram, Ages
  <2>2. QED
    BY <2>1 DEF Aged, Histogram
<1>5. QED
  BY <1>1, <1>2, <1>3, <1>4

-----------------------------------------------------------------------------
(* What the breaker's operations do to its type and to its flags.          *)

LEMMA RecordSuccessType ==
  ASSUME BreakerTypeOK, NEW c \in Controllers, RecordSuccess(c)
  PROVE  BreakerTypeOK'
<1>1. CASE halfOpen[c]
  BY <1>1, HistogramClosed DEF BreakerTypeOK, RecordSuccess
<1>2. CASE ~halfOpen[c]
  <2>1. successes' \in [Controllers -> Histogram] /\ failures' \in [Controllers -> Histogram]
    BY <1>2, HistogramClosed DEF BreakerTypeOK, RecordSuccess
  <2>2. QED
    BY <1>2, <2>1 DEF BreakerTypeOK, RecordSuccess
<1>3. QED
  BY <1>1, <1>2

LEMMA RecordFailureType ==
  ASSUME BreakerTypeOK, NEW c \in Controllers, RecordFailure(c)
  PROVE  BreakerTypeOK'
<1>1. CASE ProbeFails(c)
  BY <1>1, HistogramClosed, CooldownAssumption
  DEF BreakerTypeOK, RecordFailure, ProbeFails
<1>2. CASE CountFailure(c)
  <2> DEFINE succ == Prune(successes[c])
             fail == Prune(Append1(failures[c]))
             trip == MustTrip(succ, fail) /\ ~tripped[c]
  <2>1. succ \in Histogram /\ fail \in Histogram
    BY HistogramClosed DEF BreakerTypeOK
  <2>2. (tripped[c] \/ trip) \in BOOLEAN
    OBVIOUS
  <2>3. (IF trip THEN 0 ELSE sinceTrip[c]) \in 0 .. Cooldown
    BY CooldownAssumption DEF BreakerTypeOK
  <2>4. /\ successes' = [successes EXCEPT ![c] = succ]
        /\ failures' = [failures EXCEPT ![c] = fail]
        /\ tripped' = [tripped EXCEPT ![c] = tripped[c] \/ trip]
        /\ sinceTrip' = [sinceTrip EXCEPT ![c] = IF trip THEN 0 ELSE sinceTrip[c]]
        /\ halfOpen' = halfOpen
        /\ inFlightProbe' = inFlightProbe
    BY <1>2 DEF CountFailure, RecordFailure
  <2>5. QED
    <3> HIDE DEF succ, fail, trip
    <3>1. QED
      BY <2>1, <2>2, <2>3, <2>4 DEF BreakerTypeOK
<1>3. QED
  BY <1>1, <1>2 DEF RecordFailure

LEMMA IsTrippedType ==
  ASSUME BreakerTypeOK, NEW c \in Controllers, IsTripped(c)
  PROVE  BreakerTypeOK'
BY DEF BreakerTypeOK, IsTripped

LEMMA ElapseType ==
  ASSUME BreakerTypeOK, Elapse
  PROVE  BreakerTypeOK'
<1>1. successes' \in [Controllers -> Histogram] /\ failures' \in [Controllers -> Histogram]
  BY HistogramClosed DEF BreakerTypeOK, Elapse
<1>2. sinceTrip' \in [Controllers -> 0 .. Cooldown]
  BY CooldownAssumption DEF BreakerTypeOK, Elapse
<1>3. QED
  BY <1>1, <1>2 DEF BreakerTypeOK, Elapse

-----------------------------------------------------------------------------
(* Type correctness of the loops.                                          *)

LEMMA LoopStepType ==
  ASSUME TypeOK, NEW c \in Controllers, LoopStep(c)
  PROVE  TypeOK'
<1> USE DEF TypeOK
<1>1. CASE Disabled(c)
  BY <1>1 DEF Disabled, TakeTick, breakerVars, BreakerTypeOK
<1>2. CASE SkipCycle(c)
  BY <1>2, IsTrippedType DEF SkipCycle, TakeTick
<1>3. CASE BeginCycle(c)
  BY <1>3, IsTrippedType DEF BeginCycle, TakeTick
<1>4. CASE AnalysisFails(c)
  BY <1>4, RecordFailureType DEF AnalysisFails
<1>5. CASE AnalysisIsTheCycle(c)
  BY <1>5, RecordSuccessType DEF AnalysisIsTheCycle
<1>6. CASE AnalysisYields(c)
  <2>1. BreakerTypeOK'
    BY <1>6 DEF AnalysisYields, breakerVars, BreakerTypeOK
  <2>2. PICK n \in MinItems .. MaxItems : left' = [left EXCEPT ![c] = n]
    BY <1>6 DEF AnalysisYields
  <2>3. n \in 0 .. MaxItems
    BY ItemsAssumption
  <2>4. QED
    BY <1>6, <2>1, <2>2, <2>3 DEF AnalysisYields
<1>7. ASSUME TakeItem(c) PROVE left' \in [Controllers -> 0 .. MaxItems]
  <2>1. left[c] \in 0 .. MaxItems /\ left[c] > 0
    BY <1>7 DEF TakeItem
  <2>2. left[c] - 1 \in 0 .. MaxItems
    BY <2>1, ItemsAssumption
  <2>3. QED
    BY <1>7, <2>2 DEF TakeItem
<1>8. CASE ItemFails(c)
  BY <1>8, <1>7, RecordFailureType DEF ItemFails, TakeItem
<1>9. CASE ItemSucceeds(c)
  BY <1>9, <1>7, RecordSuccessType DEF ItemSucceeds, TakeItem
<1>10. CASE ItemUnreported(c)
  BY <1>10, <1>7 DEF ItemUnreported, TakeItem, breakerVars, BreakerTypeOK
<1>11. CASE EndCycle(c)
  BY <1>11 DEF EndCycle, breakerVars, BreakerTypeOK
<1>12. QED
  BY <1>1, <1>2, <1>3, <1>4, <1>5, <1>6, <1>8, <1>9, <1>10, <1>11 DEF LoopStep

\* Slices, flags and loop states keep their types, for every reporting kind.
THEOREM TypeCorrect == Spec => []TypeOK
<1>1. Init => TypeOK
  BY HistogramClosed, CooldownAssumption, ItemsAssumption
  DEF Init, BreakerInit, TypeOK, BreakerTypeOK
<1>2. TypeOK /\ [Next]_vars => TypeOK'
  <2> SUFFICES ASSUME TypeOK, [Next]_vars PROVE TypeOK'
    OBVIOUS
  <2>1. ASSUME NEW c \in Controllers, LoopStep(c) PROVE TypeOK'
    BY <2>1, LoopStepType
  <2>2. CASE TickAll
    BY <2>2, ElapseType DEF TickAll, TypeOK
  <2>3. CASE UNCHANGED vars
    BY <2>3 DEF vars, breakerVars, loopVars, TypeOK, BreakerTypeOK
  <2>4. QED
    BY <2>1, <2>2, <2>3 DEF Next
<1>3. QED
  BY <1>1, <1>2, PTL DEF Spec

-----------------------------------------------------------------------------
(* The flags of the breaker.                                               *)

\* A half-open breaker is a tripped one that has let its probe through: the
\* loops never leave IsTripped's half-open branch open for a second caller.
THEOREM ProbeInvariant == Spec => []ProbeInv
<1>1. Init => ProbeInv
  BY DEF Init, BreakerInit, ProbeInv
<1>2. TypeOK /\ ProbeInv /\ [Next]_vars => ProbeInv'
  <2> SUFFICES ASSUME TypeOK, ProbeInv, [Next]_vars PROVE ProbeInv'
    OBVIOUS
  <2> USE DEF ProbeInv, TypeOK, BreakerTypeOK
  <2>1. ASSUME NEW c \in Controllers, RecordSuccess(c) PROVE ProbeInv'
    BY <2>1 DEF RecordSuccess
  <2>2. ASSUME NEW c \in Controllers, RecordFailure(c) PROVE ProbeInv'
    <3>1. CASE ProbeFails(c)
      BY <2>2, <3>1 DEF RecordFailure, ProbeFails
    <3>2. CASE CountFailure(c)
      <4>1. \A d \in Controllers : tripped[d] => tripped'[d]
        BY <3>2 DEF CountFailure
      <4>2. halfOpen' = halfOpen /\ inFlightProbe' = inFlightProbe
        BY <2>2, <3>2 DEF RecordFailure, CountFailure
      <4>3. QED
        BY <4>1, <4>2
    <3>3. QED
      BY <2>2, <3>1, <3>2 DEF RecordFailure
  <2>3. ASSUME NEW c \in Controllers, IsTripped(c) PROVE ProbeInv'
    BY <2>3 DEF IsTripped
  <2>4. CASE UNCHANGED breakerVars
    BY <2>4 DEF breakerVars
  <2>5. CASE TickAll
    BY <2>5 DEF TickAll, Elapse
  <2>6. ASSUME NEW c \in Controllers, LoopStep(c) PROVE ProbeInv'
    <3>1. RecordSuccess(c) \/ RecordFailure(c) \/ IsTripped(c) \/ UNCHANGED breakerVars
      BY <2>6 DEF LoopStep, Disabled, SkipCycle, BeginCycle, AnalysisFails,
         AnalysisIsTheCycle, AnalysisYields, ItemFails, ItemSucceeds,
         ItemUnreported, EndCycle
    <3>2. QED
      BY <3>1, <2>1, <2>2, <2>3, <2>4
  <2>7. QED
    BY <2>4, <2>5, <2>6 DEF Next, vars
<1>3. QED
  BY <1>1, <1>2, TypeCorrect, PTL DEF Spec

-----------------------------------------------------------------------------
(* The lockout.                                                            *)

\* Once a probe cycle has ended without a result, no later step of any loop
\* lets the controller run again, whatever the other controllers do.
THEOREM Lockout == Spec => LockoutIsForever
<1>1. TypeOK /\ ProbeInv /\ [Next]_vars =>
        [\A c \in Controllers : LockedOut(c) => LockedOut(c)']_vars
  <2> SUFFICES ASSUME TypeOK, ProbeInv, Next, NEW c \in Controllers, LockedOut(c)
               PROVE  LockedOut(c)'
    OBVIOUS
  <2> USE DEF TypeOK, BreakerTypeOK
  <2>1. halfOpen[c] /\ cycle[c] = "waiting" /\ Refuses(c)
    BY DEF LockedOut, ProbeInv, Refuses
  <2>2. CASE TickAll
    BY <2>1, <2>2 DEF TickAll, Elapse, LockedOut
  <2>3. ASSUME NEW d \in Controllers, LoopStep(d), d # c PROVE LockedOut(c)'
    <3>1. halfOpen'[c] = halfOpen[c]
      <4>1. RecordSuccess(d) \/ RecordFailure(d) \/ IsTripped(d) \/ UNCHANGED breakerVars
        BY <2>3 DEF LoopStep, Disabled, SkipCycle, BeginCycle, AnalysisFails,
           AnalysisIsTheCycle, AnalysisYields, ItemFails, ItemSucceeds,
           ItemUnreported, EndCycle
      <4>2. CASE RecordSuccess(d)
        BY <2>3, <4>2 DEF RecordSuccess
      <4>3. CASE RecordFailure(d)
        BY <2>3, <4>3 DEF RecordFailure, ProbeFails, CountFailure
      <4>4. CASE IsTripped(d)
        BY <2>3, <4>4 DEF IsTripped
      <4>5. QED
        BY <4>1, <4>2, <4>3, <4>4 DEF breakerVars
    <3>2. cycle'[c] = cycle[c]
      BY <2>3 DEF LoopStep, Disabled, SkipCycle, BeginCycle, AnalysisFails,
         AnalysisIsTheCycle, AnalysisYields, ItemFails, ItemSucceeds,
         ItemUnreported, EndCycle, TakeItem
    <3>3. QED
      BY <2>1, <3>1, <3>2 DEF LockedOut
  <2>4. CASE LoopStep(c)
    <3>1. Disabled(c) \/ SkipCycle(c)
      BY <2>1, <2>4 DEF LoopStep, BeginCycle, AnalysisFails, AnalysisIsTheCycle,
         AnalysisYields, ItemFails, ItemSucceeds, ItemUnreported, EndCycle, TakeItem
    <3>2. CASE Disabled(c)
      BY <2>1, <3>2 DEF Disabled, breakerVars, LockedOut
    <3>3. CASE SkipCycle(c)
      BY <2>1, <3>3 DEF SkipCycle, IsTripped, LockedOut
    <3>4. QED
      BY <3>1, <3>2, <3>3
  <2>5. QED
    BY <2>2, <2>3, <2>4 DEF Next
<1>2. QED
  BY <1>1, TypeCorrect, ProbeInvariant, PTL DEF Spec, LockoutIsForever

-----------------------------------------------------------------------------
(* The contract.                                                           *)

\* The view of the contract: the initial state is closed, idle and rested.
LEMMA ContractInit == Init => Contract!Init
BY DEF Init, BreakerInit, Contract!Init, ContractMode

\* The cycle of c is idle, runs, or ends; the breaker follows the contract.
LEMMA ContractStep ==
  ASSUME TypeOK, ProbeInv, NEW c \in Controllers, LoopStep(c)
  PROVE  [Contract!Next]_(Contract!vars)
<1> DEFINE mode == [d \in Controllers |-> ContractMode(d)]
           running == [d \in Controllers |-> cycle[d] # "waiting"]
           rest == [d \in Controllers |->
                      IF ContractMode(d) = "open" THEN sinceTrip[d] ELSE 0]
<1> USE DEF TypeOK, BreakerTypeOK
<1>0. /\ Contract!vars = <<mode, running, rest>>
      /\ Contract!vars' = <<mode', running', rest'>>
  BY DEF Contract!vars
<1>1. ASSUME UNCHANGED breakerVars
      PROVE  mode' = mode /\ rest' = rest
  BY <1>1 DEF breakerVars, ContractMode
<1>2. ASSUME UNCHANGED cycle PROVE running' = running
  BY <1>2
<1>3. CASE Disabled(c)
  BY <1>0, <1>1, <1>2, <1>3 DEF Disabled
<1>4. CASE SkipCycle(c)
  <2>1. halfOpen' = halfOpen /\ tripped' = tripped /\ sinceTrip' = sinceTrip
    BY <1>4, CooldownAssumption DEF SkipCycle, Refuses, IsTripped
  <2>2. mode' = mode /\ rest' = rest
    BY <2>1 DEF ContractMode
  <2>3. QED
    BY <1>0, <1>2, <1>4, <2>2 DEF SkipCycle
<1>5. CASE BeginCycle(c)
  <2>1. /\ ~running[c]
        /\ running' = [running EXCEPT ![c] = TRUE]
    BY <1>5 DEF BeginCycle, TakeTick
  <2>2. CASE ~tripped[c]
    <3>1. halfOpen' = halfOpen /\ tripped' = tripped /\ sinceTrip' = sinceTrip
      BY <1>5, <2>2 DEF BeginCycle, IsTripped
    <3>2. mode' = mode /\ rest' = rest /\ mode[c] = "closed"
      BY <3>1, <2>2 DEF ContractMode, ProbeInv
    <3>3. Contract!Start(c)
      BY <2>1, <3>2 DEF Contract!Start
    <3>4. QED
      BY <3>3 DEF Contract!Next
  <2>3. CASE tripped[c]
    <3>1. ~halfOpen[c] /\ sinceTrip[c] = Cooldown
      BY <1>5, <2>3, CooldownAssumption DEF BeginCycle, Refuses, ProbeInv
    <3>2. /\ halfOpen' = [halfOpen EXCEPT ![c] = TRUE]
          /\ tripped' = tripped /\ sinceTrip' = sinceTrip
      BY <1>5, <2>3, <3>1 DEF BeginCycle, IsTripped
    <3>3. /\ mode[c] = "open" /\ rest[c] = Cooldown
          /\ mode' = [mode EXCEPT ![c] = "probing"]
          /\ rest' = [rest EXCEPT ![c] = 0]
      BY <2>3, <3>1, <3>2 DEF ContractMode
    <3>4. Contract!Probe(c)
      BY <2>1, <3>3 DEF Contract!Probe
    <3>5. QED
      BY <3>4 DEF Contract!Next
  <2>4. QED
    BY <2>2, <2>3
<1>6. ASSUME RecordSuccess(c), running[c],
             running' = running \/ running' = [running EXCEPT ![c] = FALSE]
      PROVE  [Contract!Next]_(Contract!vars)
  <2>1. CASE halfOpen[c]
    <3>1. /\ halfOpen' = [halfOpen EXCEPT ![c] = FALSE]
          /\ tripped' = [tripped EXCEPT ![c] = FALSE]
          /\ sinceTrip' = sinceTrip
      BY <1>6, <2>1 DEF RecordSuccess
    <3>2. mode[c] = "probing" /\ mode' = [mode EXCEPT ![c] = "closed"] /\ rest' = rest
      BY <2>1, <3>1 DEF ContractMode
    <3>3. Contract!Close(c)
      BY <1>6, <3>2 DEF Contract!Close
    <3>4. \E b \in BOOLEAN : running' = [running EXCEPT ![c] = b]
      BY <1>6
    <3>5. QED
      BY <3>3, <3>4 DEF Contract!Verdict, Contract!Next
  <2>2. CASE ~halfOpen[c]
    <3>1. mode' = mode /\ rest' = rest
      BY <1>6, <2>2 DEF RecordSuccess, ContractMode
    <3>2. CASE running' = running
      BY <1>0, <3>1, <3>2
    <3>3. CASE running' = [running EXCEPT ![c] = FALSE]
      BY <1>6, <3>1, <3>3 DEF Contract!Stop, Contract!Next
    <3>4. QED
      BY <1>6, <3>2, <3>3
  <2>3. QED
    BY <2>1, <2>2
<1>7. ASSUME RecordFailure(c), running[c],
             running' = running \/ running' = [running EXCEPT ![c] = FALSE]
      PROVE  [Contract!Next]_(Contract!vars)
  <2>1. CASE halfOpen[c] \/ (~tripped[c] /\ tripped'[c])
    <3>1. /\ halfOpen' = [halfOpen EXCEPT ![c] = FALSE]
          /\ tripped' = [tripped EXCEPT ![c] = TRUE]
          /\ sinceTrip' = [sinceTrip EXCEPT ![c] = 0]
      <4>1. CASE halfOpen[c]
        BY <1>7, <4>1 DEF RecordFailure, ProbeFails, CountFailure
      <4>2. CASE ~halfOpen[c]
        BY <1>7, <2>1, <4>2 DEF RecordFailure, ProbeFails, CountFailure
      <4>3. QED
        BY <4>1, <4>2
    <3>2. /\ mode[c] \in {"closed", "probing"}
          /\ mode' = [mode EXCEPT ![c] = "open"]
          /\ rest' = [rest EXCEPT ![c] = 0]
      BY <2>1, <3>1 DEF ContractMode
    <3>3. Contract!Open(c)
      BY <1>7, <3>2 DEF Contract!Open
    <3>4. \E b \in BOOLEAN : running' = [running EXCEPT ![c] = b]
      BY <1>7
    <3>5. QED
      BY <3>3, <3>4 DEF Contract!Verdict, Contract!Next
  <2>2. CASE ~halfOpen[c] /\ (tripped[c] \/ ~tripped'[c])
    <3>1. CountFailure(c)
      BY <1>7, <2>2 DEF RecordFailure, ProbeFails
    <3>2. tripped' = tripped /\ sinceTrip' = sinceTrip /\ halfOpen' = halfOpen
      BY <2>2, <3>1 DEF CountFailure
    <3>3. mode' = mode /\ rest' = rest
      BY <3>2 DEF ContractMode
    <3>4. CASE running' = running
      BY <1>0, <3>3, <3>4
    <3>5. CASE running' = [running EXCEPT ![c] = FALSE]
      BY <1>7, <3>3, <3>5 DEF Contract!Stop, Contract!Next
    <3>6. QED
      BY <1>7, <3>4, <3>5
  <2>3. QED
    BY <2>1, <2>2
<1>8. CASE AnalysisFails(c)
  BY <1>7, <1>8 DEF AnalysisFails
<1>9. CASE AnalysisIsTheCycle(c)
  BY <1>6, <1>9 DEF AnalysisIsTheCycle
<1>10. CASE AnalysisYields(c)
  <2>1. running' = running
    BY <1>10 DEF AnalysisYields
  <2>2. QED
    BY <1>0, <1>1, <1>10, <2>1 DEF AnalysisYields
<1>11. CASE ItemFails(c)
  BY <1>2, <1>7, <1>11 DEF ItemFails, TakeItem
<1>12. CASE ItemSucceeds(c)
  BY <1>2, <1>6, <1>12 DEF ItemSucceeds, TakeItem
<1>13. CASE ItemUnreported(c)
  BY <1>0, <1>1, <1>2, <1>13 DEF ItemUnreported, TakeItem
<1>14. CASE EndCycle(c)
  <2>1. running[c] /\ running' = [running EXCEPT ![c] = FALSE]
    BY <1>14 DEF EndCycle
  <2>2. Contract!Stop(c)
    BY <1>1, <1>14, <2>1 DEF EndCycle, Contract!Stop
  <2>3. QED
    BY <2>2 DEF Contract!Next
<1>15. QED
  BY <1>3, <1>4, <1>5, <1>8, <1>9, <1>10, <1>11, <1>12, <1>13, <1>14 DEF LoopStep

\* The clock of the breaker is the contract's rest.
LEMMA ContractClock ==
  ASSUME TypeOK, TickAll
  PROVE  Contract!Rest
<1> DEFINE mode == [d \in Controllers |-> ContractMode(d)]
           rest == [d \in Controllers |->
                      IF ContractMode(d) = "open" THEN sinceTrip[d] ELSE 0]
<1> USE DEF TypeOK, BreakerTypeOK
<1>1. halfOpen' = halfOpen /\ tripped' = tripped /\ cycle' = cycle
  BY DEF TickAll, Elapse
<1>2. \A d \in Controllers : ContractMode(d)' = ContractMode(d)
  BY <1>1 DEF ContractMode
<1>3. \A d \in Controllers :
        rest'[d] = IF mode[d] = "open" /\ rest[d] < Cooldown THEN rest[d] + 1 ELSE rest[d]
  <2> SUFFICES ASSUME NEW d \in Controllers
               PROVE  rest'[d] = IF mode[d] = "open" /\ rest[d] < Cooldown
                                 THEN rest[d] + 1 ELSE rest[d]
    OBVIOUS
  <2>1. CASE ContractMode(d) = "open"
    BY <1>2, <2>1 DEF TickAll, Elapse, ContractMode
  <2>2. CASE ContractMode(d) # "open"
    BY <1>2, <2>2
  <2>3. QED
    BY <2>1, <2>2
<1>4. QED
  BY <1>1, <1>2, <1>3 DEF Contract!Rest

\* Every behaviour of the loops is one the contract allows: no cycle while
\* the breaker rests, one probe after the cooldown, verdicts from running
\* cycles only.
THEOREM ContractKept == Spec => KeepsContract
<1>1. Init => Contract!Init
  BY ContractInit
<1>2. TypeOK /\ ProbeInv /\ [Next]_vars => [Contract!Next]_(Contract!vars)
  <2> SUFFICES ASSUME TypeOK, ProbeInv, [Next]_vars
               PROVE  [Contract!Next]_(Contract!vars)
    OBVIOUS
  <2>1. ASSUME NEW c \in Controllers, LoopStep(c) PROVE [Contract!Next]_(Contract!vars)
    BY <2>1, ContractStep
  <2>2. CASE TickAll
    BY <2>2, ContractClock DEF Contract!Next
  <2>3. CASE UNCHANGED vars
    BY <2>3 DEF vars, breakerVars, loopVars, Contract!vars, ContractMode
  <2>4. QED
    BY <2>1, <2>2, <2>3 DEF Next
<1>3. QED
  BY <1>1, <1>2, TypeCorrect, ProbeInvariant, PTL DEF Spec, KeepsContract, Contract!Spec

=============================================================================
