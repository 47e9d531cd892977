----------------------------- MODULE AsyncWriter -----------------------------
(***************************************************************************)
(* The asynchronous SQLite writer of internal/store/writer.go and the      *)
(* shutdown task of cmd/optimizer/main.go that drains it.                  *)
(*                                                                         *)
(* Producers call Enqueue, which checks and sends under the writer's mutex *)
(* and so is one step.  One goroutine started by Run consumes the channel. *)
(* Drain sets closed under the mutex, closes the channel after releasing   *)
(* it, and waits for the goroutine; it may be called by several callers,   *)
(* of whom one does the closing (sync.Once).  A write is a model value and *)
(* is submitted at most once; what it does to its row, or whether SQLite   *)
(* reports an error for it, makes no difference to the writer.             *)
(***************************************************************************)
EXTENDS Naturals, Sequences

CONSTANTS
  Writes,        \* the functions handed to Enqueue
  BufSize,       \* capacity of the channel
  Drainers,      \* callers of Drain
  Shutdown       \* the one of them that is the shutdown task

ASSUME BufSizeAssumption == BufSize \in Nat \ {0}
ASSUME ShutdownAssumption == Shutdown \in Drainers

VARIABLES
  submitted,       \* history: writes handed to Enqueue
  accepted,        \* history: writes sent to the channel, in order
  executed,        \* history: writes run, in order
  acceptedBefore,  \* history: how many were accepted before the cancellation
  queue,           \* the channel's buffer
  current,         \* the write being run, if any: a sequence of length 0 or 1
  dropped,         \* the counter of writes dropped on a full channel
  closed,          \* the writer's flag
  channelClosed,   \* close(ch) has happened
  ctxDone,         \* the context given to Run is cancelled
  consumer,        \* the goroutine: selecting, draining after ctxDone, or gone
  drain,           \* where each caller of Drain is
  once,            \* state of closeOnce: "free", "running" or "done"
  dbOpen

writerVars == <<queue, current, dropped, closed, channelClosed, consumer, once>>
history == <<submitted, accepted, executed, acceptedBefore>>
vars == <<writerVars, history, ctxDone, drain, dbOpen>>

TypeOK ==
  /\ submitted \subseteq Writes
  /\ accepted \in Seq(Writes)
  /\ executed \in Seq(Writes)
  /\ acceptedBefore \in Nat
  /\ queue \in Seq(Writes) /\ Len(queue) <= BufSize
  /\ current \in Seq(Writes) /\ Len(current) <= 1
  /\ dropped \in Nat
  /\ closed \in BOOLEAN
  /\ channelClosed \in BOOLEAN
  /\ ctxDone \in BOOLEAN
  /\ consumer \in {"selecting", "draining", "gone"}
  /\ drain \in [Drainers -> {"idle", "cancelled", "closing", "waiting", "returned"}]
  /\ once \in {"free", "running", "done"}
  /\ dbOpen \in BOOLEAN

Init ==
  /\ submitted = {}
  /\ accepted = <<>> /\ executed = <<>> /\ acceptedBefore = 0
  /\ queue = <<>> /\ current = <<>> /\ dropped = 0
  /\ closed = FALSE /\ channelClosed = FALSE
  /\ ctxDone = FALSE
  /\ consumer = "selecting"
  /\ drain = [d \in Drainers |-> "idle"]
  /\ once = "free"
  /\ dbOpen = TRUE

-----------------------------------------------------------------------------
(* Enqueue.                                                                *)

Send(w) ==
  /\ Len(queue) < BufSize
  /\ queue' = Append(queue, w)
  /\ accepted' = Append(accepted, w)
  /\ UNCHANGED dropped

CountDrop ==
  /\ Len(queue) >= BufSize
  /\ dropped' = dropped + 1
  /\ UNCHANGED <<queue, accepted>>

\* After Drain has marked the writer closed, a write vanishes uncounted.
IgnoreClosed ==
  /\ closed
  /\ UNCHANGED <<queue, accepted, dropped>>

Enqueue(w) ==
  /\ w \notin submitted
  /\ submitted' = submitted \union {w}
  /\ IgnoreClosed \/ (~closed /\ (Send(w) \/ CountDrop))
  /\ UNCHANGED <<executed, acceptedBefore, current, closed, channelClosed,
                 consumer, once, ctxDone, drain, dbOpen>>

-----------------------------------------------------------------------------
(* The goroutine of Run.                                                   *)

consumerRest ==
  <<submitted, accepted, acceptedBefore, dropped, closed, channelClosed,
    once, ctxDone, drain, dbOpen>>

\* Both selects receive alike: between writes, the head of the buffer.
Receive ==
  /\ consumer # "gone" /\ current = <<>>
  /\ queue # <<>>
  /\ current' = <<Head(queue)>>
  /\ queue' = Tail(queue)
  /\ UNCHANGED <<executed, consumer, consumerRest>>

\* Mutant of FinishWrite: a write may be run again.
FinishWriteRetries ==
  /\ current # <<>>
  /\ executed' = executed \o current
  /\ current' \in {<<>>, current}
  /\ UNCHANGED <<queue, consumer, consumerRest>>

\* fn(w.db) returns.
FinishWrite ==
  /\ current # <<>>
  /\ executed' = executed \o current
  /\ current' = <<>>
  /\ UNCHANGED <<queue, consumer, consumerRest>>

\* The outer select may choose ctx.Done() although writes are waiting.
NoticeCancel ==
  /\ consumer = "selecting" /\ current = <<>>
  /\ ctxDone
  /\ consumer' = "draining"
  /\ UNCHANGED <<queue, current, executed, consumerRest>>

\* Mutant of Leave: cancellation ends the goroutine at once.
LeaveAtOnce ==
  /\ consumer # "gone" /\ current = <<>>
  /\ (channelClosed /\ queue = <<>>) \/ consumer = "draining"
  /\ consumer' = "gone"
  /\ UNCHANGED <<queue, current, executed, consumerRest>>

\* Mutant of Leave: the draining loop does not look at ok.
LeaveIgnoresClose ==
  /\ consumer # "gone" /\ current = <<>>
  /\ queue = <<>>
  /\ channelClosed <=> consumer = "selecting"
  /\ consumer' = "gone"
  /\ UNCHANGED <<queue, current, executed, consumerRest>>

\* The receive on the closed and empty channel returns !ok, or the inner
\* select finds nothing to receive.
Leave ==
  /\ consumer # "gone" /\ current = <<>>
  /\ queue = <<>>
  /\ channelClosed \/ consumer = "draining"
  /\ consumer' = "gone"
  /\ UNCHANGED <<queue, current, executed, consumerRest>>

ConsumerStep == Receive \/ FinishWrite \/ NoticeCancel \/ Leave

-----------------------------------------------------------------------------
(* Drain, and the shutdown task around it.                                 *)

drainRest ==
  <<submitted, accepted, executed, queue, current, dropped, consumer>>

\* The manager's context is cancelled; the task cancels the local context,
\* then waits up to ten seconds for the API server to shut down.
Cancel ==
  /\ drain[Shutdown] = "idle"
  /\ drain' = [drain EXCEPT ![Shutdown] = "cancelled"]
  /\ ctxDone' = TRUE
  /\ acceptedBefore' = Len(accepted)
  /\ UNCHANGED <<drainRest, closed, channelClosed, once, dbOpen>>

\* Where a caller stands that is about to call Drain.
CallsDrain(d) == drain[d] = (IF d = Shutdown THEN "cancelled" ELSE "idle")

\* Mutant of MarkClosed: the flag is not set.
MarkClosedForgetsFlag(d) ==
  /\ CallsDrain(d)
  /\ once = "free"
  /\ once' = "running"
  /\ drain' = [drain EXCEPT ![d] = "closing"]
  /\ UNCHANGED <<drainRest, acceptedBefore, closed, channelClosed, ctxDone, dbOpen>>

MarkClosed(d) ==
  /\ CallsDrain(d)
  /\ once = "free"
  /\ once' = "running"
  /\ closed' = TRUE
  /\ drain' = [drain EXCEPT ![d] = "closing"]
  /\ UNCHANGED <<drainRest, acceptedBefore, channelClosed, ctxDone, dbOpen>>

CloseChannel(d) ==
  /\ drain[d] = "closing"
  /\ channelClosed' = TRUE
  /\ once' = "done"
  /\ drain' = [drain EXCEPT ![d] = "waiting"]
  /\ UNCHANGED <<drainRest, acceptedBefore, closed, ctxDone, dbOpen>>

\* closeOnce.Do blocks while another caller is closing.
FindClosed(d) ==
  /\ CallsDrain(d)
  /\ once = "done"
  /\ drain' = [drain EXCEPT ![d] = "waiting"]
  /\ UNCHANGED <<drainRest, acceptedBefore, closed, channelClosed, once, ctxDone, dbOpen>>

\* wg.Wait() returns.
Return(d) ==
  /\ drain[d] = "waiting"
  /\ consumer = "gone"
  /\ drain' = [drain EXCEPT ![d] = "returned"]
  /\ UNCHANGED <<drainRest, acceptedBefore, closed, channelClosed, once, ctxDone, dbOpen>>

CloseDB ==
  /\ drain[Shutdown] = "returned"
  /\ dbOpen
  /\ dbOpen' = FALSE
  /\ UNCHANGED <<drainRest, acceptedBefore, closed, channelClosed, once, ctxDone, drain>>

DrainStep(d) == MarkClosed(d) \/ CloseChannel(d) \/ FindClosed(d) \/ Return(d)

Next ==
  \/ \E w \in Writes : Enqueue(w)
  \/ ConsumerStep
  \/ \E d \in Drainers : DrainStep(d)
  \/ Cancel
  \/ CloseDB

\* The consumer and the shutdown task are goroutines the runtime schedules;
\* a write returns, the process need not be told to stop, and nobody else
\* need ever call Drain.
Fairness ==
  /\ WF_vars(ConsumerStep)
  /\ \A d \in Drainers : WF_vars(CloseChannel(d)) /\ WF_vars(Return(d))
  /\ WF_vars(DrainStep(Shutdown))
  /\ WF_vars(CloseDB)

Spec == Init /\ [][Next]_vars
FairSpec == Spec /\ Fairness

-----------------------------------------------------------------------------
\* Nothing accepted is ever reordered, repeated or lost on its way through
\* the channel and the goroutine: what was accepted is what was run, what is
\* running and what is waiting, in this order.
FirstInFirstOut == accepted = executed \o current \o queue

\* Enqueue never sends on a closed channel, which would panic: the channel is
\* closed only after the flag that Enqueue tests under the mutex.
NoSendOnClosed == channelClosed => closed

\* The database is closed only when the goroutine has left, so no write is
\* ever run against a closed database.
ClosedLast == ~dbOpen => consumer = "gone" /\ current = <<>>

\* Whatever was accepted before the shutdown began is in the database when it
\* is closed, however the cancellation, late producers and Drain interleave.
SurvivesShutdown == ~dbOpen => Len(executed) >= acceptedBefore

\* The writer implements the ordered log it promises.
Promise == INSTANCE DurableLog WITH
  log <- accepted, durable <- executed, open <- dbOpen

KeepsPromise == Promise!Spec

\* Once the process is told to stop, the shutdown task gets through Drain and
\* closes the database, however many producers and other drainers there are.
ShutdownCompletes == ctxDone ~> ~dbOpen

\* "Drain waits for all queued writes to be processed" (writer.go:98): when
\* Drain returns, every accepted write has been run.
DrainRunsEverything ==
  \A d \in Drainers : drain[d] = "returned" => executed = accepted

=============================================================================
