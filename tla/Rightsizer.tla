----------------------------- MODULE Rightsizer -----------------------------
(***************************************************************************)
(* The rightsizer's own actions on a workload (oomtracker.go, actuator.go  *)
(* and controller.go of internal/controller/rightsizer): after an OOM kill *)
(* it raises a memory request.  (Its downsizes are only recommended, see   *)
(* Downsizing.)  One goroutine analyzes and then executes, in active mode. *)
(* A kill counts as processed as soon as it is analyzed.                   *)
(***************************************************************************)
EXTENDS Workload

CONSTANT BumpNum, BumpDen   \* the bump multiplier, BumpNum / BumpDen

ASSUME BumpAssumption == BumpNum \in Nat /\ BumpDen \in Nat \ {0}

VARIABLES
  annotated,   \* the workload has annotations at all
  originals,    \* the annotation with the request before the first patch
  seen,        \* age of the tracker's entry of a container
  bumps,       \* the recommendations not yet executed
  first,       \* history: what the first accepted patch found
  sinceBump    \* history: time since a container's kill was last analyzed

rightsizerVars == <<annotated, originals, seen, bumps, first, sinceBump>>

Never == 2 * Hour + 1     \* no entry; entries older than two hours are removed
Absent == -1
Marks == SizedPods \X Containers
Bump == [target : Marks, current : Memory, suggested : Nat]

RightsizerTypeOK ==
  /\ annotated \in BOOLEAN
  /\ originals \in Memory \union {Absent}
  /\ originals # Absent => annotated
  /\ seen \in [Marks -> 0 .. Never]
  /\ bumps \subseteq Bump
  /\ first \in [value : Memory \union {Absent}, annotated : BOOLEAN]
  /\ sinceBump \in [Marks -> 0 .. Hour]

RightsizerInit ==
  /\ annotated \in BOOLEAN /\ (kind = "Deployment" => annotated)
  /\ originals = Absent
  /\ seen = [m \in Marks |-> Never]
  /\ bumps = {}
  /\ first = [value |-> Absent, annotated |-> FALSE]
  /\ sinceBump = [m \in Marks |-> Hour]

-----------------------------------------------------------------------------
(* The OOM tracker.                                                        *)

\* A kill that was not processed in the last hour.
Due(m) == m \in oomKilled /\ seen[m] >= Hour

\* The request, or else the limit.
CurrentMem(c) == IF podSpec[c] > 0 THEN podSpec[c] ELSE limit

Bumped(m) ==
  [target |-> m, current |-> CurrentMem(m[2]),
   suggested |-> (BumpNum * CurrentMem(m[2])) \div BumpDen]

OomAnalyze ==
  /\ bumps = {}
  /\ LET due == {m \in Marks : Due(m)}
     IN  /\ seen' = [m \in Marks |-> IF m \in due THEN 0 ELSE seen[m]]
         /\ bumps' = {b \in {Bumped(m) : m \in due} : b.suggested > b.current}
         /\ sinceBump' = [m \in Marks |-> IF m \in due THEN 0 ELSE sinceBump[m]]
  /\ UNCHANGED <<workloadVars, annotated, originals, first>>

\* Mutant of OomCleanup: entries are removed whatever their age.
OomCleanupAll ==
  /\ seen' = [m \in Marks |-> Never]
  /\ UNCHANGED <<workloadVars, annotated, originals, bumps, first, sinceBump>>

\* The hourly cleanup.
OomCleanup ==
  /\ \E m \in Marks : seen[m] = 2 * Hour
  /\ seen' = [m \in Marks |-> IF seen[m] >= 2 * Hour THEN Never ELSE seen[m]]
  /\ UNCHANGED <<workloadVars, annotated, originals, bumps, first, sinceBump>>

-----------------------------------------------------------------------------
(* The actuator.                                                           *)

\* What is left for the primary container when the others keep theirs.
PrimaryTarget(s) == s - Requests(template, Containers \ {Primary})

\* The annotation is written once, and only into a map that exists.
Recorded(found) == IF annotated /\ originals = Absent THEN found ELSE originals

Patched(b) == [template EXCEPT ![Primary] = PrimaryTarget(b.suggested)]

\* The workload's template is patched; pods are not resized in place, since
\* nobody asks whether the cluster could (DetectInPlaceResizeSupport).
ApplyBump(b) ==
  /\ b \in bumps /\ bumps' = bumps \ {b}
  /\ PrimaryTarget(b.suggested) \in 1 .. MaxMem
  /\ Accepted(Patched(b))
  /\ template' = Patched(b)
  /\ originals' = Recorded(template[Primary])
  /\ first' = IF first.value = Absent
              THEN [value |-> template[Primary], annotated |-> annotated] ELSE first
  /\ UNCHANGED <<kind, limit, podSpec, cpuTemplate, podCpu, oomKilled, hpaMax, pressure>>
  /\ UNCHANGED <<bounds, annotated, seen, sinceBump>>

\* Nothing is left for the primary container - which is no error -, the API
\* server refuses a request above the limit, or the call fails.
DropBump(b) ==
  /\ b \in bumps /\ bumps' = bumps \ {b}
  /\ \/ PrimaryTarget(b.suggested) \notin 1 .. MaxMem /\ UNCHANGED bounds
     \/ ~Accepted(Patched(b)) /\ UNCHANGED bounds
     \/ bounds.mishaps < MaxMishaps /\ Spend("mishaps")
  /\ UNCHANGED <<kind, limit, template, podSpec, cpuTemplate, podCpu, oomKilled, hpaMax>>
  /\ UNCHANGED <<pressure, annotated, originals, seen, first, sinceBump>>

\* Somebody gives the workload its first annotation.
Annotate ==
  /\ ~annotated /\ annotated' = TRUE
  /\ UNCHANGED <<workloadVars, originals, seen, bumps, first, sinceBump>>

\* The pods are replaced: a Deployment's get new names, a StatefulSet's don't.
ReplacePods ==
  /\ Rollout
  /\ IF kind = "Deployment"
     THEN /\ seen' = [m \in Marks |-> Never]
          /\ sinceBump' = [m \in Marks |-> Hour]
     ELSE UNCHANGED <<seen, sinceBump>>
  /\ UNCHANGED <<annotated, originals, bumps, first>>

OomTick ==
  /\ seen' = [m \in Marks |-> IF seen[m] < 2 * Hour THEN seen[m] + 1 ELSE seen[m]]
  /\ sinceBump' = [m \in Marks |-> IF sinceBump[m] < Hour THEN sinceBump[m] + 1 ELSE Hour]
  /\ UNCHANGED <<workloadVars, annotated, originals, bumps, first>>

=============================================================================
