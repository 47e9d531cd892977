------------------------------- MODULE Alerts -------------------------------
(***************************************************************************)
(* The alerts controller (internal/controller/alerts/controller.go): every *)
(* five minutes it adds the cost of the cluster to a window of samples,    *)
(* compares it with the mean of the others in standard deviations, and     *)
(* fires an alert at most once in a cooldown.  The samples go through the  *)
(* asynchronous writer to a table, from which the window is read back when *)
(* the process starts; the times of the last alerts are not kept.          *)
(* Which channel gets an alert is the subject of Channels.                 *)
(***************************************************************************)
EXTENDS Integers, Sequences, SequencesExt

CONSTANTS
  Costs,          \* of the cluster
  WindowSize,     \* 90 samples
  Least,          \* 7 samples before anything is compared
  Deviations,     \* costAnomalyStdDev, squared
  AlertCooldown,  \* in analyses; an alert may follow once more than this is over
  MaxFailed,      \* bound on the deliveries that fail in a row
  MaxUnwritten    \* bound on the samples in the writer's queue

ASSUME AlertsAssumption ==
  /\ Costs \subseteq Nat \ {0} /\ WindowSize \in Nat \ {0} /\ Least \in 2 .. WindowSize
  /\ Deviations \in Nat \ {0} /\ AlertCooldown \in Nat
  /\ MaxFailed \in Nat /\ MaxUnwritten \in Nat \ {0}

VARIABLES
  costHistory,  \* the window
  samples,      \* the rows of cost_history, of which only the last ones are kept here
  unwritten,    \* the samples still in the writer's queue
  gap,          \* history: a sample was dropped since the process started
  since,        \* the analyses since each alert was last fired, at most one more than the cooldown
  waiting,      \* history: the analyses since which costs have been too high and nobody was told
  failed        \* history: the deliveries that have failed in that time

alertsVars == <<costHistory, samples, unwritten, gap, since, waiting, failed>>

Alarms == {"cost-spike", "cost-drop", "capacity-pressure"}
LongAgo == AlertCooldown + 1

AlertsTypeOK ==
  /\ costHistory \in Seq(Costs) /\ Len(costHistory) <= WindowSize
  /\ samples \in Seq(Costs) /\ unwritten \in Seq(Costs)
  /\ gap \in BOOLEAN
  /\ since \in [Alarms -> 1 .. LongAgo]
  /\ waiting \in Nat /\ failed \in 0 .. MaxFailed

AlertsInit ==
  /\ costHistory = <<>> /\ samples = <<>> /\ unwritten = <<>> /\ gap = FALSE
  /\ since = [a \in Alarms |-> LongAgo] /\ waiting = 0 /\ failed = 0

-----------------------------------------------------------------------------

Latest(s) == IF Len(s) > WindowSize THEN SubSeq(s, Len(s) - WindowSize + 1, Len(s)) ELSE s
Total(s) == SumFunction(s)
Squares(s) == Total([i \in 1 .. Len(s) |-> s[i] * s[i]])

Baseline(h) == Front(h)

\* meanStdDev, times the number of samples and squared: how far the last sample
\* is above the mean, and how far the samples are spread.
Above(h) == Len(Baseline(h)) * Last(h) - Total(Baseline(h))
Spread(h) == Len(Baseline(h)) * Squares(Baseline(h)) - Total(Baseline(h)) * Total(Baseline(h))

\* Samples that are all the same have no deviation, and nothing is compared.
FarOff(h) == Spread(h) > 0 /\ Above(h) * Above(h) > Deviations * Spread(h)

Raised(h, pressed) ==
  LET far == IF FarOff(h) THEN Above(h) ELSE 0
  IN  IF Len(h) < Least THEN {}
      ELSE {a \in Alarms : CASE a = "cost-spike" -> far > 0
                             [] a = "cost-drop" -> far < 0
                             [] OTHER -> pressed}

\* canFireAlert.
MayFire(a) == since[a] > AlertCooldown

\* Mutant of SinceFired: an alert that was held back starts the cooldown again.
SinceFiredOrHeld(raised) ==
  [a \in Alarms |-> IF a \in raised THEN 1 ELSE IF since[a] = LongAgo THEN LongAgo ELSE since[a] + 1]

\* The cooldown starts whether or not a channel took the alert.
SinceFired(raised) ==
  [a \in Alarms |-> IF a \in raised /\ MayFire(a) THEN 1
                    ELSE IF since[a] = LongAgo THEN LongAgo ELSE since[a] + 1]

\* Analyze, with what the cluster costs and whether it is short of CPU.
AnalyzeCosts(x, pressed, delivered) ==
  LET h == Latest(Append(costHistory, x))
      raised == Raised(h, pressed)
      spike == "cost-spike" \in raised
      fires == spike /\ MayFire("cost-spike")
  IN  /\ Len(unwritten) < MaxUnwritten
      /\ costHistory' = h
      /\ unwritten' = Append(unwritten, x)
      /\ since' = SinceFired(raised)
      /\ ~ delivered => fires /\ failed < MaxFailed
      /\ waiting' = IF ~ spike \/ (fires /\ delivered) THEN 0 ELSE waiting + 1
      /\ failed' = IF ~ spike \/ (fires /\ delivered) THEN 0
                   ELSE IF fires THEN failed + 1 ELSE failed
      /\ UNCHANGED <<samples, gap>>

\* The writer's turn.
WriteSample ==
  /\ unwritten # <<>>
  /\ samples' = Latest(Append(samples, Head(unwritten))) /\ unwritten' = Tail(unwritten)
  /\ UNCHANGED <<costHistory, gap, since, waiting, failed>>

\* The queue was full, or the insertion fails.
DropSample ==
  /\ unwritten # <<>>
  /\ unwritten' = Tail(unwritten) /\ gap' = TRUE
  /\ UNCHANGED <<costHistory, samples, since, waiting, failed>>

Loaded(rs) == rs

\* The process dies with what is queued, and starts again.
RestartAlerts ==
  /\ costHistory' = Loaded(samples)
  /\ unwritten' = <<>> /\ gap' = FALSE
  /\ since' = [a \in Alarms |-> LongAgo] /\ waiting' = 0 /\ failed' = 0
  /\ UNCHANGED samples

AlertsNext ==
  \/ \E x \in Costs, pressed, delivered \in BOOLEAN : AnalyzeCosts(x, pressed, delivered)
  \/ WriteSample \/ DropSample \/ RestartAlerts

-----------------------------------------------------------------------------
\* What is written, followed by what is queued, is the window: a restart loses
\* no more than what was queued, and nothing is out of order after it.
WindowIsKept == ~ gap => costHistory = Latest(samples \o unwritten)

\* Somebody is told of costs that stay too high within one cooldown, plus one
\* for every delivery that failed: none is repeated before.
NotKeptQuiet == waiting <= (failed + 1) * AlertCooldown + failed

\* Costs that were level and have risen for two samples are reported, if no
\* spike was a moment ago: the first sample after a level window has nothing to
\* be compared with, the second has, if the window is long enough for the
\* deviations that are asked for.
StepIsReported ==
  [][ LET h == costHistory'
      IN  /\ Len(h) >= Least /\ Len(h) - 2 > Deviations /\ Len(unwritten') > Len(unwritten)
          /\ \A i \in 1 .. Len(h) - 2 : h[i] = h[1]
          /\ h[Len(h)] = h[Len(h) - 1] /\ h[Len(h)] > h[1]
          => since'["cost-spike"] = 1 \/ ~ MayFire("cost-spike") ]_alertsVars

\* A rise of the costs is reported: the window it is measured against survives
\* restarts, a step up is seen, and nothing but the cooldown and deliveries that
\* failed keep it quiet.
SpikesReported == [](WindowIsKept /\ NotKeptQuiet) /\ StepIsReported
=============================================================================
