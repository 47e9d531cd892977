------------------------------ MODULE Settings ------------------------------
(***************************************************************************)
(* Settings changed at run time through the API (handler/config.go), kept  *)
(* in a table of the database (internal/store/settings.go) and put over    *)
(* the configuration file when the process starts (main.go).               *)
(* A handler first changes the configuration and then the table: requests  *)
(* overlap, a write may fail, which is only printed, and the process may   *)
(* die between the two.  Every setting is on or off here, the mode also.   *)
(***************************************************************************)
EXTENDS Integers, FiniteSets

CONSTANTS
  MaxRequests,   \* bound on the requests
  MaxInFlight    \* how many of them may be under way together

ASSUME SettingsAssumption == MaxRequests \in Nat /\ MaxInFlight \in Nat \ {0}

VARIABLES
  config,      \* the configuration in memory
  settingsTable,       \* the settings table
  requests,    \* the requests that have changed config and not yet the table
  askedFor,    \* the requests so far
  muddled      \* history: settings whose last write failed, or had company

settingsVars == <<config, settingsTable, requests, askedFor, muddled>>

Toggles == {"mode", "podPurger", "gpu", "gpuReclaim", "autoApprove"}

\* The routes, each with its key: the pod purger has two.
Routes == {"mode", "pod-purger", "controllers/podPurger", "controllers/gpu",
           "controllers/gpuReclaim", "auto-approve"}

Toggle(route) ==
  CASE route \in {"pod-purger", "controllers/podPurger"} -> "podPurger"
    [] route = "controllers/gpu" -> "gpu"
    [] route = "controllers/gpuReclaim" -> "gpuReclaim"
    [] route = "auto-approve" -> "autoApprove"
    [] OTHER -> "mode"

Request == [route : Routes, on : BOOLEAN]
Saved == {"on", "off"}
Unset == "unset"

SettingsTypeOK ==
  /\ config \in [Toggles -> BOOLEAN]
  /\ settingsTable \in [Routes -> Saved \union {Unset}]
  /\ requests \subseteq Request
  /\ askedFor \in 0 .. MaxRequests
  /\ muddled \subseteq Toggles

\* What the file says: everything is off.
File == [s \in Toggles |-> FALSE]

SettingsInit ==
  /\ config = File /\ settingsTable = [r \in Routes |-> Unset]
  /\ requests = {} /\ askedFor = 0 /\ muddled = {}

-----------------------------------------------------------------------------
InFlight(s) == \E q \in requests : Toggle(q.route) = s

\* SetMode, SetPodPurger, SetController and SetAutoApprove, up to the change of
\* the configuration.
ChangeSetting(r, on) ==
  /\ askedFor < MaxRequests /\ askedFor' = askedFor + 1
  /\ Cardinality(requests) < MaxInFlight /\ [route |-> r, on |-> on] \notin requests
  /\ config' = [config EXCEPT ![Toggle(r)] = on]
  /\ requests' = requests \union {[route |-> r, on |-> on]}
  /\ muddled' = IF InFlight(Toggle(r)) THEN muddled \union {Toggle(r)} ELSE muddled \ {Toggle(r)}
  /\ UNCHANGED settingsTable

Save(q) ==
  /\ settingsTable' = [settingsTable EXCEPT ![q.route] = IF q.on THEN "on" ELSE "off"]
  /\ requests' = requests \ {q}
  /\ UNCHANGED <<config, askedFor, muddled>>

SaveFails(q) ==
  /\ requests' = requests \ {q}
  /\ muddled' = muddled \union {Toggle(q.route)}
  /\ UNCHANGED <<config, settingsTable, askedFor>>

-----------------------------------------------------------------------------
Over(r, otherwise) == IF settingsTable[r] = Unset THEN otherwise ELSE settingsTable[r] = "on"

\* Mutant of Restored: the states of the controllers are not read.
RestoredWithoutControllers ==
  [File EXCEPT !["mode"] = Over("mode", @),
               !["podPurger"] = Over("pod-purger", @),
               !["autoApprove"] = Over("auto-approve", @)]

\* The start: the states of the controllers come after the purger's own key, and
\* none of them is the GPU reclaim.
Restored ==
  [File EXCEPT !["mode"] = Over("mode", @),
               !["podPurger"] = Over("controllers/podPurger", Over("pod-purger", @)),
               !["gpu"] = Over("controllers/gpu", @),
               !["autoApprove"] = Over("auto-approve", @)]

Restart ==
  /\ config' = Restored
  /\ requests' = {} /\ muddled' = {}
  /\ UNCHANGED <<settingsTable, askedFor>>

SettingsNext ==
  \/ \E r \in Routes, on \in BOOLEAN : ChangeSetting(r, on)
  \/ \E q \in requests : Save(q) \/ SaveFails(q)
  \/ Restart

SettingsSpec == SettingsInit /\ [][SettingsNext]_settingsVars

-----------------------------------------------------------------------------
Settled(s) == ~ InFlight(s) /\ s \notin muddled

\* Two keys that contradict each other, or a key that is never read.
Forgotten(s) ==
  \/ s = "gpuReclaim"
  \/ /\ s = "podPurger"
     /\ {settingsTable["pod-purger"], settingsTable["controllers/podPurger"]} = Saved

\* A setting is after a restart what it was before, if its last write did not
\* fail and did not overlap with another one, and unless it is the GPU reclaim,
\* or the pod purger with two keys that disagree.
LastSetSurvives ==
  [][ Restart => \A s \in Toggles :
        Settled(s) /\ ~ Forgotten(s) => config'[s] = config[s] ]_settingsVars

\* main.go:106 promises that what was set at run time takes precedence "so that
\* UI toggles survive restarts".
TogglesSurvive ==
  [][ Restart => \A s \in Toggles : Settled(s) => config'[s] = config[s] ]_settingsVars
=============================================================================
