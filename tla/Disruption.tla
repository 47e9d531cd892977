---------------------------- MODULE Disruption ----------------------------
(***************************************************************************)
(* A pod disruption budget as three places judge it: the page of           *)
(* scale-down blockers and its deletion (scaledown.go), and the page of    *)
(* inefficiencies (inefficiency.go of internal/apiserver/handler).  All    *)
(* read the status that the disruption controller has last written, which  *)
(* is all zeros in a new budget, is behind the pods, and from which the    *)
(* API server takes one disruption for each eviction it grants.            *)
(***************************************************************************)
EXTENDS Integers

CONSTANTS MostPods    \* bound on the pods a budget selects

ASSUME DisruptionAssumption == MostPods \in Nat \ {0}

VARIABLES
  budget,     \* the budget: what it asks for, and whether it is a week old
  guarded,    \* its pods
  status,     \* its status
  held        \* DeletePDBs has read the budget, found it blocking and goes on

disruptionVars == <<budget, guarded, status, held>>

\* A budget has a minAvailable or a maxUnavailable.
Rules == {"max0", "max1", "max2", "max25%", "min1", "min100%"}
Budget == [there : BOOLEAN, rule : Rules, aged : BOOLEAN]
Guarded == [expected : 0 .. MostPods, healthy : 0 .. MostPods]
StatusRecord == [expected : 0 .. MostPods, healthy : 0 .. MostPods, desired : 0 .. MostPods,
                 allowed : 0 .. MostPods, granted : 0 .. MostPods]

Uncounted == [expected |-> 0, healthy |-> 0, desired |-> 0, allowed |-> 0, granted |-> 0]

DisruptionInit ==
  /\ budget = [there |-> FALSE, rule |-> "max0", aged |-> FALSE]
  /\ guarded = [expected |-> 0, healthy |-> 0]
  /\ status = Uncounted
  /\ held = FALSE

-----------------------------------------------------------------------------
(* The disruption controller and the eviction API.                         *)

\* How many of so many pods are to stay healthy; a percentage is rounded up.
Desired(rule, e) ==
  CASE rule = "max1" -> IF e > 1 THEN e - 1 ELSE 0
    [] rule = "max2" -> IF e > 2 THEN e - 2 ELSE 0
    [] rule = "max25%" -> e - ((e + 3) \div 4)
    [] rule = "min1" -> 1
    [] rule \in {"max0", "min100%"} -> e

Surplus(e, h, d) == IF e = 0 \/ h <= d THEN 0 ELSE h - d

Counted(rule, g) ==
  LET d == Desired(rule, g.expected)
  IN  [expected |-> g.expected, healthy |-> g.healthy, desired |-> d,
       allowed |-> Surplus(g.expected, g.healthy, d), granted |-> 0]

\* An eviction that has been granted is in the status until the next count.
DisruptionTypeOK ==
  /\ budget \in Budget /\ guarded \in Guarded /\ status \in StatusRecord
  /\ held \in BOOLEAN
  /\ status.allowed + status.granted <= MostPods

-----------------------------------------------------------------------------
(* The pages.                                                              *)

\* IntValue() of a percentage is zero.
MaxReadsZero(rule) == rule \in {"max0", "max25%"}
HasMin(rule) == rule \in {"min1", "min100%"}

\* Mutant of BlockerReason: it counts for itself.
BlockerReasonByCount(rule, s) ==
  IF s.expected > 0 /\ s.healthy > s.desired THEN ""
  ELSE IF MaxReadsZero(rule) THEN "never"
  ELSE IF HasMin(rule) THEN "minAvailable"
  ELSE IF s.expected = 0 THEN "noPods"
  ELSE IF s.desired > 0 THEN "atMinimum" ELSE "unknown"

\* Why a budget is on the page of blockers, the last reason that the code finds;
\* "" when it is not.
BlockerReason(rule, s) ==
  IF s.allowed # 0 THEN ""
  ELSE IF MaxReadsZero(rule) THEN "never"
  ELSE IF HasMin(rule) THEN "minAvailable"
  ELSE IF s.expected = 0 THEN "noPods"
  ELSE IF s.healthy <= s.desired /\ s.desired > 0 THEN "atMinimum" ELSE "unknown"

\* Why it is on the page of inefficiencies.  Budgets without pods get a week.
BadReason(b, s) ==
  IF s.expected = 0 THEN IF b.aged THEN "orphaned" ELSE ""
  ELSE IF s.allowed # 0 THEN ""
  ELSE IF s.expected = 1 THEN "single"
  ELSE IF MaxReadsZero(b.rule) THEN "never"
  ELSE IF HasMin(b.rule) THEN "minAvailable" ELSE "atMinimum"

\* "Safety check: only delete PDBs with 0 disruptions allowed"
MayDelete(s) == s.allowed = 0

-----------------------------------------------------------------------------
(* The cluster.                                                            *)

\* Of a new budget nothing has been counted.
CreateBudget ==
  /\ ~ budget.there
  /\ budget' \in {b \in Budget : b.there /\ ~ b.aged}
  /\ status' = Uncounted
  /\ UNCHANGED <<guarded, held>>

PodsChange ==
  /\ guarded' \in {g \in Guarded : g.healthy <= g.expected /\ g # guarded}
  /\ UNCHANGED <<budget, status, held>>

CountPods ==
  /\ budget.there
  /\ status' = Counted(budget.rule, guarded)
  /\ UNCHANGED <<budget, guarded, held>>

GrantEviction ==
  /\ budget.there /\ status.allowed > 0
  /\ status' = [status EXCEPT !.allowed = @ - 1, !.granted = @ + 1]
  /\ UNCHANGED <<budget, guarded, held>>

BudgetAges ==
  /\ budget.there /\ ~ budget.aged
  /\ budget' = [budget EXCEPT !.aged = TRUE]
  /\ UNCHANGED <<guarded, status, held>>

(* DeletePDBs.                                                             *)

ReadBudget ==
  /\ budget.there /\ ~ held /\ MayDelete(status)
  /\ held' = TRUE
  /\ UNCHANGED <<budget, guarded, status>>

\* By its name: whatever its status is by now, and whichever budget has it.
DeleteBudget ==
  /\ held /\ budget.there
  /\ budget' = [budget EXCEPT !.there = FALSE]
  /\ held' = FALSE
  /\ UNCHANGED <<guarded, status>>

\* It is gone, or the server refuses.
LeaveBudget == held /\ held' = FALSE /\ UNCHANGED <<budget, guarded, status>>

DisruptionNext ==
  \/ CreateBudget \/ PodsChange \/ CountPods \/ GrantEviction \/ BudgetAges
  \/ ReadBudget \/ DeleteBudget \/ LeaveBudget

DisruptionSpec == DisruptionInit /\ [][DisruptionNext]_disruptionVars

-----------------------------------------------------------------------------
\* The three places judge one status alike, also between a granted eviction and
\* the next count.  What the page of inefficiencies shows can be deleted on the
\* page of blockers, to which it sends its readers, and a budget with pods is on
\* both or on neither.  The reasons agree unless the budget has a single pod, or
\* the blockers' page does not know one; and that happens only where no healthy
\* pod is desired or an eviction is not yet counted.
BudgetsJudgedAlike ==
  LET blocker == BlockerReason(budget.rule, status)
      bad == BadReason(budget, status)
  IN  /\ bad # "" => blocker # "" /\ MayDelete(status)
      /\ blocker # "" /\ status.expected > 0 => bad # ""
      /\ blocker = "unknown" => status.desired = 0 \/ status.granted > 0
      /\ blocker # "" /\ bad \notin {"", "single", "orphaned"} => blocker \in {bad, "unknown"}

=============================================================================
