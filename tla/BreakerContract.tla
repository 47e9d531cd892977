--------------------------- MODULE BreakerContract ---------------------------
(***************************************************************************)
(* What a controller loop may expect of its circuit breaker: a closed      *)
(* breaker lets every cycle run, an open one lets none run until it has    *)
(* rested for Cooldown, and then lets one cycle run, whose first verdict   *)
(* closes the breaker or opens it again.                                   *)
(***************************************************************************)
EXTENDS Naturals

CONSTANTS Controllers, Cooldown

VARIABLES
  mode,      \* "closed", "open" or "probing"
  running,   \* a cycle of the controller is under way
  rest       \* how long the open breaker has rested

vars == <<mode, running, rest>>

Init ==
  /\ mode = [c \in Controllers |-> "closed"]
  /\ running = [c \in Controllers |-> FALSE]
  /\ rest = [c \in Controllers |-> 0]

\* A closed breaker lets a cycle start.
Start(c) ==
  /\ ~running[c]
  /\ mode[c] = "closed"
  /\ running' = [running EXCEPT ![c] = TRUE]
  /\ UNCHANGED <<mode, rest>>

\* A rested breaker lets one cycle start and waits for its verdict.
Probe(c) ==
  /\ ~running[c]
  /\ mode[c] = "open"
  /\ rest[c] = Cooldown
  /\ mode' = [mode EXCEPT ![c] = "probing"]
  /\ running' = [running EXCEPT ![c] = TRUE]
  /\ rest' = [rest EXCEPT ![c] = 0]

\* The breaker closes only on the verdict of a running probe.
Close(c) ==
  /\ running[c]
  /\ mode[c] = "probing"
  /\ mode' = [mode EXCEPT ![c] = "closed"]
  /\ UNCHANGED rest

\* It opens, and starts to rest, on a verdict of a running cycle.
Open(c) ==
  /\ running[c]
  /\ mode[c] \in {"closed", "probing"}
  /\ mode' = [mode EXCEPT ![c] = "open"]
  /\ rest' = [rest EXCEPT ![c] = 0]

\* A verdict may be the end of its cycle.
Verdict(c) ==
  /\ Close(c) \/ Open(c)
  /\ \E b \in BOOLEAN : running' = [running EXCEPT ![c] = b]

\* A cycle may end without a verdict.
Stop(c) ==
  /\ running[c]
  /\ running' = [running EXCEPT ![c] = FALSE]
  /\ UNCHANGED <<mode, rest>>

\* Time passes for the breakers that rest.
Rest ==
  /\ rest' = [c \in Controllers |->
                IF mode[c] = "open" /\ rest[c] < Cooldown THEN rest[c] + 1 ELSE rest[c]]
  /\ UNCHANGED <<mode, running>>

Next ==
  \/ \E c \in Controllers : Start(c) \/ Probe(c) \/ Verdict(c) \/ Stop(c)
  \/ Rest

Spec == Init /\ [][Next]_vars

=============================================================================
