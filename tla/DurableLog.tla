----------------------------- MODULE DurableLog -----------------------------
(***************************************************************************)
(* What the asynchronous writer promises its callers: the writes it takes  *)
(* on are carried out one at a time in the order they were taken on, and   *)
(* none is taken on or carried out once the database has been closed.      *)
(***************************************************************************)
EXTENDS Naturals, Sequences

CONSTANT Writes

VARIABLES
  log,       \* the writes taken on
  durable,   \* the writes carried out
  open       \* the database is open

vars == <<log, durable, open>>

Init == log = <<>> /\ durable = <<>> /\ open = TRUE

TakeOn ==
  /\ open
  /\ \E w \in Writes : log' = Append(log, w)
  /\ UNCHANGED <<durable, open>>

CarryOut ==
  /\ open
  /\ Len(durable) < Len(log)
  /\ durable' = Append(durable, log[Len(durable) + 1])
  /\ UNCHANGED <<log, open>>

CloseDatabase ==
  /\ open' = FALSE
  /\ UNCHANGED <<log, durable>>

Next == TakeOn \/ CarryOut \/ CloseDatabase

Spec == Init /\ [][Next]_vars

=============================================================================
