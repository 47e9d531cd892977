---------------------------- MODULE MinAdjuster ----------------------------
(***************************************************************************)
(* The node group manager's adjuster of minimum counts (minadjuster.go and *)
(* controller.go of internal/controller/nodegroupmgr) with the AI gate in  *)
(* front of it (pkg/aigate), on the cluster state as it is refreshed.      *)
(*                                                                         *)
(* One goroutine analyzes and then executes what it recommended, one by    *)
(* one; a validation is a call to an outside service that takes its time.  *)
(* A recommendation that the mode, the gate or a failing call stops is     *)
(* shelved: it becomes an object for people to look at.  A new process is  *)
(* MinInit: nothing of this is kept.                                       *)
(***************************************************************************)
EXTENDS ClusterRefresh

CONSTANTS
  ObservationPeriod,  \* how long a group must be low
  GateEnabled,        \* the AI gate is configured
  MaxEvictNodes       \* impact from which the gate is always asked

ASSUME PeriodAssumption == ObservationPeriod \in Nat \ {0}
ASSUME GateAssumption == GateEnabled \in BOOLEAN /\ MaxEvictNodes \in Nat

VARIABLES
  lowFor,     \* the age of lowSince
  agenda,     \* the recommendations not yet executed
  asked,      \* the one the gate is validating: a set of at most one
  sinceHigh   \* history: how long ago an analysis last saw the group not low

minVars == <<clusterVars, lowFor, agenda, asked, sinceHigh>>

Untracked == -1
Adjustment == [group : Groups, newMin : Sizes, nodesAffected : Sizes]

MinTypeOK ==
  /\ ClusterTypeOK
  /\ lowFor \in [Groups -> Untracked .. ObservationPeriod]
  /\ agenda \subseteq Adjustment
  /\ asked \subseteq Adjustment
  /\ sinceHigh \in [Groups -> 0 .. ObservationPeriod]

MinInit ==
  /\ ClusterInit
  /\ lowFor = [g \in Groups |-> Untracked]
  /\ agenda = {} /\ asked = {}
  /\ sinceHigh = [g \in Groups |-> 0]

-----------------------------------------------------------------------------
(* Analyze.                                                                *)

\* lowSince after the analysis; a group whose minimum is 0 is passed over.
Tracking(g) ==
  IF view[g].min <= 0 THEN lowFor[g]
  ELSE IF ~view[g].low THEN Untracked
  ELSE IF lowFor[g] = Untracked THEN 0 ELSE lowFor[g]

Recommends(g) ==
  view[g].min > 0 /\ view[g].low /\ Tracking(g) = ObservationPeriod

\* Mutant of Halved: the last node is taken away, too.
HalvedLessOne(g) ==
  LET newMin == view[g].min \div 2 - 1
  IN  [group |-> g, newMin |-> newMin, nodesAffected |-> view[g].min - newMin]

\* Half of what the state says, whatever the cloud says by now.  (A half is
\* never above the maximum, which minadjuster.go:72 guards against.)
Halved(g) ==
  LET newMin == view[g].min \div 2
  IN  [group |-> g, newMin |-> newMin, nodesAffected |-> view[g].min - newMin]

\* Mutant of Analyze: an analysis does not wait for the executions.
AnalyzeAnyTime ==
  /\ lowFor' = [g \in Groups |-> Tracking(g)]
  /\ agenda' = agenda \union {Halved(g) : g \in {h \in Groups : Recommends(h)}}
  /\ sinceHigh' = [g \in Groups |-> IF view[g].low THEN sinceHigh[g] ELSE 0]
  /\ UNCHANGED <<clusterVars, asked>>

Analyze ==
  /\ agenda = {} /\ asked = {}
  /\ lowFor' = [g \in Groups |-> Tracking(g)]
  /\ agenda' = {Halved(g) : g \in {h \in Groups : Recommends(h)}}
  /\ sinceHigh' = [g \in Groups |-> IF view[g].low THEN sinceHigh[g] ELSE 0]
  /\ UNCHANGED <<clusterVars, asked>>

-----------------------------------------------------------------------------
(* Execute.                                                                *)

\* Mutant of RequiresValidation: only the impact counts.
RequiresValidationByImpact(r) == GateEnabled /\ r.nodesAffected > MaxEvictNodes
RequiresValidation(r) ==
  GateEnabled /\ (r.nodesAffected > MaxEvictNodes \/ r.newMin = 0)

SetNodeGroupMinCount(r) ==
  /\ minCount' = [minCount EXCEPT ![r.group] = r.newMin]
  /\ UNCHANGED <<load, fetched, view, lastMetrics, sinceUpdate, dataAge, outside>>

Adjust(r) ==
  /\ asked = {} /\ r \in agenda
  /\ ~RequiresValidation(r)
  /\ SetNodeGroupMinCount(r)
  /\ agenda' = agenda \ {r}
  /\ UNCHANGED <<lowFor, asked, sinceHigh>>

AskGate(r) ==
  /\ asked = {} /\ r \in agenda
  /\ RequiresValidation(r)
  /\ asked' = {r} /\ agenda' = agenda \ {r}
  /\ UNCHANGED <<clusterVars, lowFor, sinceHigh>>

GateApproves(r) ==
  /\ r \in asked
  /\ SetNodeGroupMinCount(r)
  /\ asked' = {}
  /\ UNCHANGED <<lowFor, agenda, sinceHigh>>

\* The mode is not active, the gate rejects or cannot be reached, or the
\* cloud refuses.
Shelve(r) ==
  /\ r \in asked \/ (asked = {} /\ r \in agenda)
  /\ asked' = asked \ {r} /\ agenda' = agenda \ {r}
  /\ UNCHANGED <<clusterVars, lowFor, sinceHigh>>

Execute == \E r \in agenda \union asked : Adjust(r) \/ AskGate(r) \/ GateApproves(r) \/ Shelve(r)

-----------------------------------------------------------------------------
Elapse ==
  /\ CacheAges
  /\ lowFor' = [g \in Groups |->
                  IF lowFor[g] = Untracked THEN Untracked
                  ELSE Older(lowFor[g], ObservationPeriod)]
  /\ sinceHigh' = [g \in Groups |-> Older(sinceHigh[g], ObservationPeriod)]
  /\ UNCHANGED <<agenda, asked>>

MinSurroundings ==
  /\ Fetch \/ Publish \/ LoadChanges \/ OutsideSets
  /\ UNCHANGED <<lowFor, agenda, asked, sinceHigh>>

MinNext == Analyze \/ Execute \/ Elapse \/ MinSurroundings

MinSpec == MinInit /\ [][MinNext]_minVars

-----------------------------------------------------------------------------
Pending == agenda \union asked

\* The adjuster never raises a minimum and never takes more than half of it
\* away, however old the state is that it decided on and however long the gate
\* takes, unless somebody else sets minimums, too: what is pending is half of
\* what the cloud has, or has been done already.
OnlyHalves ==
  outside = 0 =>
    \A r \in Pending :
      r.newMin \in {minCount[r.group], minCount[r.group] \div 2}

\* "Only generate a recommendation after the node group has been continuously
\* below threshold for the configured ObservationPeriod" (minadjuster.go:63):
\* no analysis in that time saw a group that is recommended above it, unless
\* its minimum had been 0, where the analyses do not look, and was raised.
ObservedLow ==
  outside = 0 =>
    \A g \in Groups : Recommends(g) => sinceHigh[g] = ObservationPeriod

\* Without the gate's word no minimum is set to 0 and none is lowered by more
\* nodes than the gate is to be asked for: not on an old state either.
BigStepsAreApproved ==
  [][GateEnabled /\ outside' = 0 =>
       \A g \in Groups :
         (\/ minCount'[g] = 0 /\ minCount[g] > 0
          \/ minCount[g] - minCount'[g] > MaxEvictNodes)
         => \E r \in asked : r.group = g /\ asked' = {}]_minVars

\* A minimum is lowered on evidence: its group was seen low for the whole
\* period, and the gate has been asked of every big step.
MinimumsEarned == []ObservedLow /\ BigStepsAreApproved

=============================================================================
