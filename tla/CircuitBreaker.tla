--------------------------- MODULE CircuitBreaker ---------------------------
(***************************************************************************)
(* The per-controller circuit breaker of internal/state/circuitbreaker.go. *)
(*                                                                         *)
(* Time stamps are kept as ages.  The slices successes and failures become *)
(* histograms: failures[c][a] is how many recorded failures are a time     *)
(* units old, and failures[c][Window] is 1 when some have left the sliding *)
(* window without having been pruned (how many makes no difference: they   *)
(* are pruned together).  sinceTrip[c] is the age of trippedAt, which the  *)
(* code only reads while tripped and only compares with the cooldown, so   *)
(* it stops at Cooldown.  A missing map entry and a zero controllerState   *)
(* behave alike, so every controller has an entry.                         *)
(***************************************************************************)
EXTENDS Naturals, Functions

CONSTANTS
  Controllers,      \* names under which results are recorded
  Window,           \* length of the sliding window
  Cooldown,         \* time a tripped breaker rests before its probe
  MinSamples,       \* results needed before the breaker may trip
  ThresholdNum,     \* error rate that trips the breaker, as a fraction
  ThresholdDen

ASSUME WindowAssumption == Window \in Nat \ {0}
ASSUME CooldownAssumption == Cooldown \in Nat \ {0}
ASSUME SamplesAssumption == MinSamples \in Nat \ {0}
ASSUME ThresholdAssumption ==
  /\ ThresholdNum \in Nat \ {0}
  /\ ThresholdDen \in Nat \ {0}
  /\ ThresholdNum <= ThresholdDen

VARIABLES
  successes, failures,  \* [Controllers -> Histogram]
  tripped,
  sinceTrip,
  halfOpen,             \* one probe is allowed through
  inFlightProbe         \* a probe has been let through

breakerVars ==
  <<successes, failures, tripped, sinceTrip, halfOpen, inFlightProbe>>

Ages == 0 .. Window
Histogram == [Ages -> Nat]
NoResults == [a \in Ages |-> 0]

BreakerTypeOK ==
  /\ successes \in [Controllers -> Histogram]
  /\ failures \in [Controllers -> Histogram]
  /\ tripped \in [Controllers -> BOOLEAN]
  /\ sinceTrip \in [Controllers -> 0 .. Cooldown]
  /\ halfOpen \in [Controllers -> BOOLEAN]
  /\ inFlightProbe \in [Controllers -> BOOLEAN]

BreakerInit ==
  /\ successes = [c \in Controllers |-> NoResults]
  /\ failures = [c \in Controllers |-> NoResults]
  /\ tripped = [c \in Controllers |-> FALSE]
  /\ sinceTrip = [c \in Controllers |-> 0]
  /\ halfOpen = [c \in Controllers |-> FALSE]
  /\ inFlightProbe = [c \in Controllers |-> FALSE]

-----------------------------------------------------------------------------
(* The slices.                                                             *)

\* append(s.failures, time.Now())
Append1(h) == [h EXCEPT ![0] = @ + 1]

\* pruneOlderThan: keep what is strictly younger than the window.
Prune(h) == [h EXCEPT ![Window] = 0]

\* len(s.failures)
Count(h) == FoldFunctionOnSet(+, 0, h, Ages)

\* One unit of time passes for a slice.
Aged(h) ==
  [a \in Ages |->
     IF a = 0 THEN 0
     ELSE IF a < Window THEN h[a - 1]
     ELSE IF h[Window] + h[Window - 1] > 0 THEN 1 ELSE 0]

\* The error rate reaches the threshold on enough data points.
MustTrip(succ, fail) ==
  LET total == Count(succ) + Count(fail)
  IN  /\ total >= MinSamples
      /\ Count(fail) * ThresholdDen >= ThresholdNum * total

-----------------------------------------------------------------------------
(* The operations.  Each runs under the breaker's mutex, in one step.      *)

\* Mutant of RecordSuccess: a successful probe does not empty the slices.
RecordSuccessKeepsSlices(c) ==
  /\ successes' = [successes EXCEPT ![c] = Prune(Append1(@))]
  /\ failures' = [failures EXCEPT ![c] = Prune(@)]
  /\ tripped' = [tripped EXCEPT ![c] = @ /\ ~halfOpen[c]]
  /\ halfOpen' = [halfOpen EXCEPT ![c] = FALSE]
  /\ UNCHANGED <<sinceTrip, inFlightProbe>>

\* Mutant of RecordSuccess: a successful probe leaves the breaker half-open.
RecordSuccessStaysHalfOpen(c) ==
  /\ successes' = [successes EXCEPT ![c] = Prune(Append1(@))]
  /\ failures' = [failures EXCEPT ![c] = Prune(@)]
  /\ UNCHANGED <<tripped, sinceTrip, halfOpen, inFlightProbe>>

RecordSuccess(c) ==
  /\ IF halfOpen[c]
     THEN /\ successes' = [successes EXCEPT ![c] = NoResults]
          /\ failures' = [failures EXCEPT ![c] = NoResults]
          /\ tripped' = [tripped EXCEPT ![c] = FALSE]
          /\ halfOpen' = [halfOpen EXCEPT ![c] = FALSE]
     ELSE /\ successes' = [successes EXCEPT ![c] = Prune(Append1(@))]
          /\ failures' = [failures EXCEPT ![c] = Prune(@)]
          /\ UNCHANGED <<tripped, halfOpen>>
  /\ UNCHANGED <<sinceTrip, inFlightProbe>>

\* Mutant of ProbeFails: trippedAt keeps the time of the first trip.
ProbeFailsKeepsTrippedAt(c) ==
  /\ halfOpen[c]
  /\ failures' = [failures EXCEPT ![c] = Append1(@)]
  /\ halfOpen' = [halfOpen EXCEPT ![c] = FALSE]
  /\ tripped' = [tripped EXCEPT ![c] = TRUE]
  /\ UNCHANGED <<successes, sinceTrip>>

\* A failed probe re-trips at once and returns before the slices are pruned.
ProbeFails(c) ==
  /\ halfOpen[c]
  /\ failures' = [failures EXCEPT ![c] = Append1(@)]
  /\ halfOpen' = [halfOpen EXCEPT ![c] = FALSE]
  /\ tripped' = [tripped EXCEPT ![c] = TRUE]
  /\ sinceTrip' = [sinceTrip EXCEPT ![c] = 0]
  /\ UNCHANGED successes

CountFailure(c) ==
  LET succ == Prune(successes[c])
      fail == Prune(Append1(failures[c]))
      trip == MustTrip(succ, fail) /\ ~tripped[c]
  IN  /\ ~halfOpen[c]
      /\ successes' = [successes EXCEPT ![c] = succ]
      /\ failures' = [failures EXCEPT ![c] = fail]
      /\ tripped' = [tripped EXCEPT ![c] = @ \/ trip]
      /\ sinceTrip' = [sinceTrip EXCEPT ![c] = IF trip THEN 0 ELSE @]
      /\ UNCHANGED halfOpen

RecordFailure(c) ==
  /\ ProbeFails(c) \/ CountFailure(c)
  /\ UNCHANGED inFlightProbe

\* What IsTripped returns to its caller.
Refuses(c) ==
  /\ tripped[c]
  /\ IF halfOpen[c] THEN inFlightProbe[c] ELSE sinceTrip[c] < Cooldown

\* What IsTripped does to the breaker: the cooled-down one becomes half-open.
IsTripped(c) ==
  LET cooled == tripped[c] /\ ~halfOpen[c] /\ sinceTrip[c] = Cooldown
  IN  /\ halfOpen' = [halfOpen EXCEPT ![c] = @ \/ cooled]
      /\ inFlightProbe' = [inFlightProbe EXCEPT ![c] = @ \/ cooled]
      /\ UNCHANGED <<successes, failures, tripped, sinceTrip>>

ProbeCompleted(c) ==
  /\ inFlightProbe' = [inFlightProbe EXCEPT ![c] = FALSE]
  /\ UNCHANGED <<successes, failures, tripped, sinceTrip, halfOpen>>

Trip(c) ==
  /\ tripped' = [tripped EXCEPT ![c] = TRUE]
  /\ sinceTrip' = [sinceTrip EXCEPT ![c] = 0]
  /\ UNCHANGED <<successes, failures, halfOpen, inFlightProbe>>

Reset(c) ==
  /\ tripped' = [tripped EXCEPT ![c] = FALSE]
  /\ successes' = [successes EXCEPT ![c] = NoResults]
  /\ failures' = [failures EXCEPT ![c] = NoResults]
  /\ UNCHANGED <<sinceTrip, halfOpen, inFlightProbe>>

\* Everything a call can do; Status only reads.
Status(c) ==
  IF halfOpen[c] THEN "half-open" ELSE IF tripped[c] THEN "tripped" ELSE "closed"

\* The clock: every recorded result and every trip grows older.
Elapse ==
  /\ successes' = [c \in Controllers |-> Aged(successes[c])]
  /\ failures' = [c \in Controllers |-> Aged(failures[c])]
  /\ sinceTrip' = [c \in Controllers |->
                     IF tripped[c] /\ sinceTrip[c] < Cooldown
                     THEN sinceTrip[c] + 1 ELSE sinceTrip[c]]
  /\ UNCHANGED <<tripped, halfOpen, inFlightProbe>>

=============================================================================
