------------------------------ MODULE Cleanup ------------------------------
(***************************************************************************)
(* Pods in a bad state, and who deletes them: the pod purger               *)
(* (internal/controller/podpurger), from the cluster state it last saw,    *)
(* and DeletePods of the API (actions.go), which reads each pod first.     *)
(* Both delete by name, and a StatefulSet gives the name of a pod that is  *)
(* gone to the next one.  A deleted pod goes on terminating for a while,   *)
(* in the state it was in, and a refresh lists it like any other.          *)
(* System namespaces and koptimizer's own pods are left out: nobody        *)
(* deletes those.  Of the purger's breaker only the modes are kept (see    *)
(* BreakerContract and CircuitBreaker).                                    *)
(***************************************************************************)
EXTENDS Integers, FiniteSets

CONSTANTS
  Names,      \* the names of pods
  MaxLives    \* bound on the pods that have one name, one after the other

ASSUME CleanupAssumption == MaxLives \in Nat

VARIABLES
  pods,      \* what runs under each name: a set of at most one
  born,      \* how many pods have had the name
  known,     \* the pods of the cluster state, as they were: at most one of a name
  listing,   \* what a refresh has listed and not yet published: a set of at most one
  purger,    \* whether it is switched on, and the mode of its breaker
  doomed,    \* the pods the purger still deletes in this cycle, as it saw them
  asked      \* the names of pods that DeletePods has read as bad

cleanupVars == <<pods, born, known, listing, purger, doomed, asked>>

Pod == [name : Names, life : 1 .. MaxLives, state : {"well", "bad"},
        old : BOOLEAN, going : BOOLEAN]

\* What the optimizer looks at.
PodSeen == [name : Names, life : 1 .. MaxLives, bad : BOOLEAN, old : BOOLEAN]
Look(p) == [name |-> p.name, life |-> p.life, bad |-> p.state # "well", old |-> p.old]

CleanupTypeOK ==
  /\ pods \subseteq Pod /\ \A p, q \in pods : p.name = q.name => p = q
  /\ born \in [Names -> 0 .. MaxLives]
  /\ known \subseteq PodSeen /\ \A p, q \in known : p.name = q.name => p = q
  /\ listing \subseteq SUBSET PodSeen /\ Cardinality(listing) <= 1
  /\ purger \in [on : BOOLEAN, breaker : {"closed", "open", "trial"}]
  /\ doomed \subseteq PodSeen /\ asked \subseteq Names

CleanupInit ==
  /\ pods = {} /\ born = [n \in Names |-> 0]
  /\ known = {} /\ listing = {} /\ doomed = {} /\ asked = {}
  /\ purger \in [on : BOOLEAN, breaker : {"closed"}]

-----------------------------------------------------------------------------
(* The pods.                                                               *)

PodStarts(n) ==
  /\ born[n] < MaxLives /\ \A p \in pods : p.name # n
  /\ pods' = pods \union {[name |-> n, life |-> born[n] + 1, state |-> "well",
                           old |-> FALSE, going |-> FALSE]}
  /\ born' = [born EXCEPT ![n] = @ + 1]
  /\ UNCHANGED <<known, listing, purger, doomed, asked>>

Becomes(p, q) ==
  /\ pods' = (pods \ {p}) \union {q}
  /\ UNCHANGED <<born, known, listing, purger, doomed, asked>>

PodBreaks(p) == p.state = "well" /\ Becomes(p, [p EXCEPT !.state = "bad"])
PodRecovers(p) == p.state # "well" /\ Becomes(p, [p EXCEPT !.state = "well"])

\* The age counts from the creation of the pod, whatever its state since.
PodAges(p) == ~ p.old /\ Becomes(p, [p EXCEPT !.old = TRUE])

\* The grace period of a deleted pod is over.
PodEnds(p) ==
  /\ p.going
  /\ pods' = pods \ {p}
  /\ UNCHANGED <<born, known, listing, purger, doomed, asked>>

\* Delete: the pod of that name, whichever it is, is to go.
Named(n) == {p \in pods : p.name = n}
Terminate(n) ==
  /\ Named(n) # {}
  /\ pods' = (pods \ Named(n)) \union {[p EXCEPT !.going = TRUE] : p \in Named(n)}

-----------------------------------------------------------------------------
(* The cluster state.                                                      *)

\* All pods, the terminating ones too.
ListPods ==
  /\ listing = {} /\ listing' = {{Look(p) : p \in pods}}
  /\ UNCHANGED <<pods, born, known, purger, doomed, asked>>

\* Mutant of PublishPods: what was not listed is kept.
PublishPodsMerged ==
  /\ \E list \in listing :
       known' = list \union {p \in known : \A q \in list : q.name # p.name}
  /\ listing' = {}
  /\ UNCHANGED <<pods, born, purger, doomed, asked>>

PublishPods ==
  /\ \E list \in listing : known' = list
  /\ listing' = {}
  /\ UNCHANGED <<pods, born, purger, doomed, asked>>

-----------------------------------------------------------------------------
(* The purger.                                                             *)

SwitchPurger ==
  /\ purger' = [purger EXCEPT !.on = ~ @]
  /\ UNCHANGED <<pods, born, known, listing, doomed, asked>>

\* Mutant of Purgeable: what has become old was bad and is not looked at again.
PurgeableYoung(p) == p.bad /\ ~ p.old

Purgeable(p) == p.bad /\ p.old

\* An open breaker lets a cycle through once it has rested, as a trial, and none
\* after that until the trial has had a result.
StartPurge ==
  /\ purger.on /\ purger.breaker # "trial" /\ doomed = {}
  /\ doomed' = {p \in known : Purgeable(p)}
  /\ purger' = [purger EXCEPT !.breaker = IF @ = "open" THEN "trial" ELSE @]
  /\ UNCHANGED <<pods, born, known, listing, asked>>

\* By its name, and the cluster state keeps it until a refresh.
Purge(p) ==
  /\ Terminate(p.name)
  /\ doomed' = doomed \ {p}
  /\ purger' = [purger EXCEPT !.breaker = IF @ = "trial" THEN "closed" ELSE @]
  /\ UNCHANGED <<born, known, listing, asked>>

\* The deletion is refused, or there is no such pod any more: enough of these
\* open the breaker, and the first one of a trial does.
PurgeFails(p) ==
  /\ doomed' = doomed \ {p}
  /\ \E m \in {purger.breaker, "open"} \ {"trial"} : purger' = [purger EXCEPT !.breaker = m]
  /\ UNCHANGED <<pods, born, known, listing, asked>>

-----------------------------------------------------------------------------
(* DeletePods.                                                             *)

ReadPod(p) ==
  /\ p.state # "well" /\ asked = {}
  /\ asked' = {p.name}
  /\ UNCHANGED <<pods, born, known, listing, purger, doomed>>

\* RemovePod.
Forget(n) == {p \in known : p.name # n}

DeletePod(n) ==
  /\ Terminate(n)
  /\ asked' = {}
  /\ known' = Forget(n)
  /\ UNCHANGED <<born, listing, purger, doomed>>

\* The pod is gone already, or the server refuses.
DeletePodFails ==
  /\ asked # {} /\ asked' = {}
  /\ UNCHANGED <<pods, born, known, listing, purger, doomed>>

-----------------------------------------------------------------------------
DeleteAsked == DeletePodFails \/ \E n \in asked : DeletePod(n)
PurgeDoomed == \E p \in doomed : Purge(p) \/ PurgeFails(p)
EndPod == \E p \in pods : PodEnds(p)
PurgeNamed(n) == \E p \in doomed : p.name = n /\ Purge(p)

CleanupNext ==
  \/ \E n \in Names : PodStarts(n)
  \/ \E p \in pods : PodBreaks(p) \/ PodRecovers(p) \/ PodAges(p) \/ ReadPod(p)
  \/ EndPod
  \/ ListPods \/ PublishPods
  \/ SwitchPurger \/ StartPurge \/ PurgeDoomed
  \/ DeleteAsked

CleanupSpec == CleanupInit /\ [][CleanupNext]_cleanupVars

-----------------------------------------------------------------------------
Has(n, life, set) == \E p \in set : p.name = n /\ p.life = life

\* Of a pod that has ended nothing is left in the end: the cluster state, into
\* which refreshes under way may bring it back, no longer has it, and the purger
\* no longer aims at its name, which may be another pod's by then.
GhostsVanish ==
  \A n \in Names, l \in 1 .. MaxLives :
    l <= born[n] /\ ~ Has(n, l, pods) ~> [](~ Has(n, l, known \union doomed))

\* A trial without anything to delete has no result, and no cycle follows it.
LockedOut == purger.breaker = "trial" /\ doomed = {}

Troubled(n, l) == \E p \in pods : p.name = n /\ p.life = l /\ p.state # "well"

\* A pod that stays bad is deleted in the end, whatever the stale entries beside
\* it do to the breaker, if the purger is left switched on and not locked out.
StuckPodsGo ==
  \/ []<>(~ purger.on)
  \/ <>LockedOut
  \/ \A n \in Names, l \in 1 .. MaxLives : Troubled(n, l) ~> ~ Troubled(n, l)

=============================================================================
