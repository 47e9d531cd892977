----------------------------- MODULE BreakerOps -----------------------------
(***************************************************************************)
(* The exported operations of the circuit breaker, called in any order by  *)
(* any caller: the recording and asking of the controller loops, and the   *)
(* manual operations Trip, Reset and ProbeCompleted, which the package     *)
(* exports and its tests exercise.                                         *)
(***************************************************************************)
EXTENDS CircuitBreaker

CONSTANT MaxRecords   \* bound on the results held in one slice

VARIABLE outcomes     \* history: results recorded since the slices were last
                      \* emptied, counted up to MinSamples

opsVars == <<breakerVars, outcomes>>

OneMore(n) == IF n < MinSamples THEN n + 1 ELSE n

OpsInit == BreakerInit /\ outcomes = [c \in Controllers |-> 0]

Success(c) ==
  /\ Count(successes[c]) < MaxRecords
  /\ RecordSuccess(c)
  /\ outcomes' = [outcomes EXCEPT ![c] = IF halfOpen[c] THEN 0 ELSE OneMore(@)]

Failure(c) ==
  /\ Count(failures[c]) < MaxRecords
  /\ RecordFailure(c)
  /\ outcomes' = [outcomes EXCEPT ![c] = OneMore(@)]

Ask(c) == IsTripped(c) /\ UNCHANGED outcomes

CompleteProbe(c) == ProbeCompleted(c) /\ UNCHANGED outcomes

ManualTrip(c) == Trip(c) /\ UNCHANGED outcomes

ManualReset(c) == Reset(c) /\ outcomes' = [outcomes EXCEPT ![c] = 0]

Clock == Elapse /\ UNCHANGED outcomes

OpsNext ==
  \/ \E c \in Controllers :
       Success(c) \/ Failure(c) \/ Ask(c) \/ CompleteProbe(c)
         \/ ManualTrip(c) \/ ManualReset(c)
  \/ Clock

OpsSpec == OpsInit /\ [][OpsNext]_opsVars

-----------------------------------------------------------------------------
\* How many results of a slice lie inside the sliding window right now.
Live(h) == FoldFunctionOnSet(+, 0, h, 0 .. (Window - 1))

\* A recorded failure takes the breaker of c from closed to tripped.
TripsByCounting(c) ==
  /\ ~tripped[c] /\ tripped'[c]
  /\ failures'[c] # failures[c]
  /\ ~halfOpen[c]

\* A closed breaker trips by counting only when the results inside the
\* sliding window, the new failure included, are enough and reach the
\* threshold; results that have left the window never count, however long
\* ago the slices were last pruned (RecordFailure, pruneUnlocked).
WindowedEvidence ==
  [][\A c \in Controllers : TripsByCounting(c) =>
       LET fail == Live(failures[c]) + 1
           total == Live(successes[c]) + fail
       IN  /\ total >= MinSamples
           /\ fail * ThresholdDen >= ThresholdNum * total]_opsVars

\* A breaker closed by its probe or by Reset starts afresh: it trips by
\* counting only after MinSamples results recorded since then.
FreshEvidence ==
  [][\A c \in Controllers : TripsByCounting(c) => outcomes'[c] >= MinSamples]_opsVars

\* A breaker that counts trips on what happened lately only: neither on what has
\* left the window nor on what came before its last recovery.
TripsOnEvidence == WindowedEvidence /\ FreshEvidence

=============================================================================
