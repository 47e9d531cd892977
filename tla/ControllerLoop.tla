--------------------------- MODULE ControllerLoop ---------------------------
(***************************************************************************)
(* The run loops of the controllers, each a goroutine that asks the shared *)
(* circuit breaker before every cycle and reports to it what the cycle's   *)
(* steps came to.  What differs between the loops is what they report:     *)
(*                                                                         *)
(*   hibernation            one result a cycle, for the analysis;          *)
(*   gpu, spot, rightsizer, one result for every recommendation, success   *)
(*   workloadscaler           also for one that was not executed;          *)
(*   pod-purger             one result for every pod it tries to delete;   *)
(*   nodegroupmgr           a result only for what was executed or failed. *)
(*                                                                         *)
(* A tick of the loop's ticker and the breaker's clock share one unit.     *)
(* The breaker lives in memory: a restart of the process is Init.          *)
(***************************************************************************)
EXTENDS CircuitBreaker

CONSTANTS
  MinItems, MaxItems   \* bounds on the recommendations, or bad pods, of a cycle

ASSUME ItemsAssumption == MinItems \in Nat /\ MaxItems \in Nat /\ MinItems <= MaxItems

VARIABLES
  due,     \* the ticker's channel, of capacity one, holds a tick
  cycle,   \* what the loop is doing
  left     \* recommendations of this cycle not yet handled

loopVars == <<due, cycle, left>>
vars == <<breakerVars, loopVars>>

OneResultPerCycle == {"hibernation"}
ReportsExecutedOnly == {"node-group-manager"}
SkipsWhenDisabled == {"pod-purger"}
AnalysisCannotFail == {"pod-purger"}

TypeOK ==
  /\ BreakerTypeOK
  /\ due \in [Controllers -> BOOLEAN]
  /\ cycle \in [Controllers -> {"waiting", "analyzing", "executing"}]
  /\ left \in [Controllers -> 0 .. MaxItems]

Init ==
  /\ BreakerInit
  /\ due = [c \in Controllers |-> FALSE]
  /\ cycle = [c \in Controllers |-> "waiting"]
  /\ left = [c \in Controllers |-> 0]

-----------------------------------------------------------------------------
TakeTick(c) ==
  /\ cycle[c] = "waiting"
  /\ due[c]
  /\ due' = [due EXCEPT ![c] = FALSE]

\* podPurger switched off in the configuration: the breaker is not asked.
Disabled(c) ==
  /\ c \in SkipsWhenDisabled
  /\ TakeTick(c)
  /\ UNCHANGED <<breakerVars, cycle, left>>

SkipCycle(c) ==
  /\ TakeTick(c)
  /\ Refuses(c)
  /\ IsTripped(c)
  /\ UNCHANGED <<cycle, left>>

BeginCycle(c) ==
  /\ TakeTick(c)
  /\ ~Refuses(c)
  /\ IsTripped(c)
  /\ cycle' = [cycle EXCEPT ![c] = "analyzing"]
  /\ UNCHANGED left

AnalysisFails(c) ==
  /\ cycle[c] = "analyzing"
  /\ c \notin AnalysisCannotFail
  /\ RecordFailure(c)
  /\ cycle' = [cycle EXCEPT ![c] = "waiting"]
  /\ UNCHANGED <<due, left>>

\* Hibernation only analyzes; its cron jobs do the rest.
AnalysisIsTheCycle(c) ==
  /\ cycle[c] = "analyzing"
  /\ c \in OneResultPerCycle
  /\ RecordSuccess(c)
  /\ cycle' = [cycle EXCEPT ![c] = "waiting"]
  /\ UNCHANGED <<due, left>>

AnalysisYields(c) ==
  /\ cycle[c] = "analyzing"
  /\ c \notin OneResultPerCycle
  /\ cycle' = [cycle EXCEPT ![c] = "executing"]
  /\ \E n \in MinItems .. MaxItems : left' = [left EXCEPT ![c] = n]
  /\ UNCHANGED <<breakerVars, due>>

TakeItem(c) ==
  /\ cycle[c] = "executing"
  /\ left[c] > 0
  /\ left' = [left EXCEPT ![c] = @ - 1]
  /\ UNCHANGED <<due, cycle>>

ItemFails(c) == TakeItem(c) /\ RecordFailure(c)

\* Executed, or for most loops merely not failed.
ItemSucceeds(c) == TakeItem(c) /\ RecordSuccess(c)

\* Not executed: wrong mode, not auto-executable, or refused by the AI gate.
ItemUnreported(c) ==
  /\ c \in ReportsExecutedOnly
  /\ TakeItem(c)
  /\ UNCHANGED breakerVars

EndCycle(c) ==
  /\ cycle[c] = "executing"
  /\ left[c] = 0
  /\ cycle' = [cycle EXCEPT ![c] = "waiting"]
  /\ UNCHANGED <<breakerVars, due, left>>

\* A tick that finds the previous one still unread is dropped.
TickAll ==
  /\ Elapse
  /\ due' = [c \in Controllers |-> TRUE]
  /\ UNCHANGED <<cycle, left>>

LoopStep(c) ==
  \/ Disabled(c) \/ SkipCycle(c) \/ BeginCycle(c)
  \/ AnalysisFails(c) \/ AnalysisIsTheCycle(c) \/ AnalysisYields(c)
  \/ ItemFails(c) \/ ItemSucceeds(c) \/ ItemUnreported(c) \/ EndCycle(c)

Next == (\E c \in Controllers : LoopStep(c)) \/ TickAll

\* The clock runs, and every loop is a goroutine that the runtime schedules.
Fairness == WF_vars(TickAll) /\ \A c \in Controllers : WF_vars(LoopStep(c))

Spec == Init /\ [][Next]_vars
FairSpec == Spec /\ Fairness

-----------------------------------------------------------------------------
\* The loops and their breaker keep the contract: nothing runs while the
\* breaker is open, one cycle runs after the cooldown, and only a verdict of
\* that cycle changes the breaker.
ContractMode(c) ==
  IF halfOpen[c] THEN "probing" ELSE IF tripped[c] THEN "open" ELSE "closed"

Contract == INSTANCE BreakerContract WITH
  mode <- [c \in Controllers |-> ContractMode(c)],
  running <- [c \in Controllers |-> cycle[c] # "waiting"],
  rest <- [c \in Controllers |-> IF ContractMode(c) = "open" THEN sinceTrip[c] ELSE 0]

KeepsContract == Contract!Spec

\* The probe cycle has ended and the breaker is still waiting for its verdict.
LockedOut(c) == halfOpen[c] /\ cycle[c] = "waiting"

\* A half-open breaker is a tripped one whose probe has been let through.
ProbeInv ==
  \A c \in Controllers : halfOpen[c] => tripped[c] /\ inFlightProbe[c]

\* Nothing in the loops ever ends a lockout: ProbeCompleted, Reset and Trip
\* have no caller, and IsTripped refuses every later cycle, so only a restart
\* of the process brings the controller back.
LockoutIsForever ==
  [][\A c \in Controllers : LockedOut(c) => LockedOut(c)']_vars

\* "one probe request is allowed through. If it succeeds, the breaker resets;
\* if it fails, it re-trips" (circuitbreaker.go:11-12): a tripped breaker
\* always lets its controller work again sooner or later.
ComesBack ==
  \A c \in Controllers : tripped[c] ~> cycle[c] # "waiting"

\* Loops that report a result in every cycle they begin.
AlwaysReports(c) ==
  \/ c \in OneResultPerCycle
  \/ MinItems > 0 /\ c \notin ReportsExecutedOnly \union SkipsWhenDisabled

\* That is so for the controllers that report something in every cycle: the
\* verdict of every probe arrives, and after a failed one comes another.
ReportersComeBack ==
  \A c \in Controllers : AlwaysReports(c) => (tripped[c] ~> cycle[c] # "waiting")

=============================================================================
