-------------------------- MODULE AsyncWriterProofs --------------------------
(***************************************************************************)
(* Theorems about the asynchronous writer and the audit log that uses it,  *)
(* for any set of writes and of events, any capacity of the channel and of *)
(* the ring, and any callers of Drain.                                     *)
(***************************************************************************)
EXTENDS AuditLog, SequenceTheorems, TLAPS

\* Who has got how far in Drain, and what that says of the flag, the
\* goroutine and the database.
DrainInv ==
  /\ once # "free" => closed
  /\ channelClosed => closed
  /\ \A d \in Drainers : drain[d] \in {"closing", "waiting", "returned"} => closed
  /\ \A d \in Drainers : drain[d] = "returned" => consumer = "gone"
  /\ consumer = "gone" => current = <<>>
  /\ ~dbOpen => drain[Shutdown] = "returned"

\* Before the cancellation only a closed channel makes the goroutine leave,
\* and then nothing more can be accepted; after it, what had been accepted
\* before has been run when the goroutine leaves.
CancelInv ==
  /\ ctxDone <=> drain[Shutdown] # "idle"
  /\ consumer = "draining" => ctxDone
  /\ acceptedBefore <= Len(accepted)
  /\ consumer = "gone" /\ ~ctxDone => closed /\ executed = accepted
  /\ consumer = "gone" => Len(executed) >= acceptedBefore

Inv == TypeOK /\ FirstInFirstOut /\ DrainInv /\ CancelInv

-----------------------------------------------------------------------------
(* Lemmas about the sequences.                                             *)

\* A sequence of length at most one is empty or a single element.
LEMMA AtMostOne ==
  ASSUME NEW S, NEW s \in Seq(S), Len(s) <= 1, s # <<>>
  PROVE  s = <<s[1]>> /\ s[1] \in S /\ Len(s) = 1
  <1>0. Len(s) \in Nat \ {0}
    BY EmptySeq, Zenon
  <1>1. Len(s) = 1
    BY <1>0
  <1>2. s[1] \in S
    BY <1>1, ElementOfSeq
  <1>3. /\ <<s[1]>> \in Seq(S)
        /\ Len(<<s[1]>>) = 1
        /\ <<s[1]>>[1] = s[1]
    BY <1>2
  <1>4. s = <<s[1]>>
    BY <1>1, <1>3, SeqEqual
  <1> QED
    BY <1>1, <1>2, <1>4

\* A nonempty sequence is its head followed by its tail.
LEMMA HeadAndTail ==
  ASSUME NEW S, NEW s \in Seq(S), s # <<>>
  PROVE  /\ Head(s) \in S /\ Tail(s) \in Seq(S)
         /\ <<Head(s)>> \in Seq(S)
         /\ s = <<Head(s)>> \o Tail(s)
  <1>1. /\ Head(s) \in S /\ Tail(s) \in Seq(S) /\ Len(Tail(s)) = Len(s) - 1
        /\ \A i \in 1 .. Len(Tail(s)) : Tail(s)[i] = s[i + 1]
    BY HeadTailProperties
  <1>2. <<Head(s)>> \in Seq(S) /\ Len(<<Head(s)>>) = 1 /\ <<Head(s)>>[1] = s[1]
    BY <1>1
  <1> DEFINE t == <<Head(s)>> \o Tail(s)
  <1>3. /\ t \in Seq(S) /\ Len(t) = 1 + Len(Tail(s))
        /\ \A i \in 1 .. 1 + Len(Tail(s)) :
             t[i] = IF i <= 1 THEN <<Head(s)>>[i] ELSE Tail(s)[i - 1]
    BY <1>1, <1>2, ConcatProperties
  <1>4. Len(s) \in Nat \ {0}
    BY EmptySeq
  <1>5. Len(t) = Len(s)
    BY <1>1, <1>3, <1>4
  <1>6. \A i \in 1 .. Len(s) : s[i] = t[i]
    BY <1>1, <1>2, <1>3, <1>4
  <1>7. s = t
    BY <1>3, <1>5, <1>6, SeqEqual
  <1> QED
    BY <1>1, <1>2, <1>7

-----------------------------------------------------------------------------
(* The types.                                                              *)

LEMMA TypeInit == Init => TypeOK
  <1> SUFFICES ASSUME Init PROVE TypeOK
    OBVIOUS
  <1>1. /\ accepted \in Seq(Writes) /\ executed \in Seq(Writes)
        /\ queue \in Seq(Writes) /\ Len(queue) = 0
        /\ current \in Seq(Writes) /\ Len(current) = 0
    BY EmptySeq, Zenon DEF Init
  <1>2. /\ submitted \subseteq Writes /\ acceptedBefore \in Nat /\ dropped \in Nat
        /\ closed \in BOOLEAN /\ channelClosed \in BOOLEAN /\ ctxDone \in BOOLEAN
        /\ consumer \in {"selecting", "draining", "gone"}
        /\ once \in {"free", "running", "done"} /\ dbOpen \in BOOLEAN
    BY DEF Init
  <1>3. drain \in [Drainers -> {"idle", "cancelled", "closing", "waiting", "returned"}]
    BY DEF Init
  <1> QED
    BY <1>1, <1>2, <1>3, BufSizeAssumption DEF TypeOK

LEMMA TypeStep == TypeOK /\ [Next]_vars => TypeOK'
  <1> SUFFICES ASSUME TypeOK, [Next]_vars PROVE TypeOK'
    OBVIOUS
  <1> USE DEF TypeOK
  <1>1. ASSUME NEW w \in Writes, Enqueue(w) PROVE TypeOK'
    <2>1. CASE Send(w)
      <3>1. /\ Append(queue, w) \in Seq(Writes)
            /\ Len(Append(queue, w)) = Len(queue) + 1
            /\ Append(accepted, w) \in Seq(Writes)
        BY AppendProperties
      <3>2. Len(queue) \in Nat
        BY LenProperties
      <3> QED
        BY <1>1, <2>1, <3>1, <3>2, BufSizeAssumption DEF Enqueue, Send
    <2>2. CASE CountDrop
      BY <1>1, <2>2 DEF Enqueue, CountDrop
    <2>3. CASE IgnoreClosed
      BY <1>1, <2>3 DEF Enqueue, IgnoreClosed
    <2> QED
      BY <1>1, <2>1, <2>2, <2>3 DEF Enqueue
  <1>2. CASE Receive
    <2>1. /\ Head(queue) \in Writes /\ Tail(queue) \in Seq(Writes)
          /\ Len(Tail(queue)) = Len(queue) - 1
      BY <1>2, HeadTailProperties DEF Receive
    <2>2. <<Head(queue)>> \in Seq(Writes) /\ Len(<<Head(queue)>>) = 1
      BY <2>1
    <2>3. Len(queue) \in Nat
      BY LenProperties
    <2> QED
      BY <1>2, <2>1, <2>2, <2>3, BufSizeAssumption DEF Receive, consumerRest
  <1>3. CASE FinishWrite
    <2>1. executed \o current \in Seq(Writes)
      BY ConcatProperties
    <2>2. <<>> \in Seq(Writes) /\ Len(<<>>) = 0
      BY EmptySeq
    <2> QED
      BY <1>3, <2>1, <2>2 DEF FinishWrite, consumerRest
  <1>4. CASE NoticeCancel
    BY <1>4 DEF NoticeCancel, consumerRest
  <1>5. CASE Leave
    BY <1>5 DEF Leave, consumerRest
  <1>6. ASSUME NEW d \in Drainers, DrainStep(d) PROVE TypeOK'
    BY <1>6 DEF DrainStep, MarkClosed, CloseChannel, FindClosed, Return, drainRest
  <1>7. CASE Cancel
    <2>1. Len(accepted) \in Nat
      BY LenProperties
    <2> QED
      BY <1>7, <2>1 DEF Cancel, drainRest
  <1>8. CASE CloseDB
    BY <1>8 DEF CloseDB, drainRest
  <1>9. CASE UNCHANGED vars
    BY <1>9 DEF vars, writerVars, history
  <1> QED
    BY <1>1, <1>2, <1>3, <1>4, <1>5, <1>6, <1>7, <1>8, <1>9 DEF Next, ConsumerStep

-----------------------------------------------------------------------------
(* First in, first out.                                                    *)

LEMMA FifoInit == Init => FirstInFirstOut
  <1> SUFFICES ASSUME Init PROVE FirstInFirstOut
    OBVIOUS
  <1>1. <<>> \in Seq(Writes)
    BY EmptySeq
  <1>2. <<>> \o <<>> = <<>>
    BY <1>1, ConcatEmptySeq
  <1>3. accepted = <<>> /\ executed = <<>> /\ current = <<>> /\ queue = <<>>
    BY DEF Init
  <1> QED
    BY <1>2, <1>3, Zenon DEF FirstInFirstOut

LEMMA FifoStep ==
  TypeOK /\ FirstInFirstOut /\ [Next]_vars => FirstInFirstOut'
  <1> SUFFICES ASSUME TypeOK, FirstInFirstOut, [Next]_vars
               PROVE  FirstInFirstOut'
    OBVIOUS
  <1>0. /\ accepted \in Seq(Writes) /\ executed \in Seq(Writes)
        /\ queue \in Seq(Writes) /\ current \in Seq(Writes)
        /\ accepted = executed \o current \o queue
        /\ executed \o current \in Seq(Writes)
        /\ <<>> \in Seq(Writes)
    BY ConcatProperties, EmptySeq DEF TypeOK, FirstInFirstOut
  <1>1. ASSUME NEW w \in Writes, Enqueue(w) PROVE FirstInFirstOut'
    <2>1. CASE Send(w)
      <3>1. <<w>> \in Seq(Writes)
        OBVIOUS
      <3>2. Append(queue, w) = queue \o <<w>> /\ Append(accepted, w) = accepted \o <<w>>
        BY <1>0, AppendIsConcat
      <3>3. (executed \o current) \o (queue \o <<w>>)
              = ((executed \o current) \o queue) \o <<w>>
        BY <1>0, <3>1, ConcatAssociative
      <3>4. /\ accepted' = Append(accepted, w) /\ queue' = Append(queue, w)
            /\ executed' = executed /\ current' = current
        BY <1>1, <2>1 DEF Enqueue, Send
      <3> QED
        BY <1>0, <3>2, <3>3, <3>4, Zenon DEF FirstInFirstOut
    <2>2. CASE ~Send(w)
      BY <1>0, <1>1, <2>2 DEF Enqueue, CountDrop, IgnoreClosed, FirstInFirstOut
    <2> QED
      BY <2>1, <2>2
  <1>2. CASE Receive
    <2>1. /\ current = <<>> /\ queue # <<>>
          /\ current' = <<Head(queue)>> /\ queue' = Tail(queue)
          /\ accepted' = accepted /\ executed' = executed
      BY <1>2 DEF Receive, consumerRest
    <2>2. /\ <<Head(queue)>> \in Seq(Writes) /\ Tail(queue) \in Seq(Writes)
          /\ queue = <<Head(queue)>> \o Tail(queue)
      BY <1>0, <2>1, HeadAndTail
    <2>3. executed \o current = executed
      BY <1>0, <2>1, ConcatEmptySeq
    <2>4. (executed \o <<Head(queue)>>) \o Tail(queue)
            = executed \o (<<Head(queue)>> \o Tail(queue))
      BY <1>0, <2>2, ConcatAssociative
    <2> QED
      BY <1>0, <2>1, <2>2, <2>3, <2>4, Zenon DEF FirstInFirstOut
  <1>3. CASE FinishWrite
    <2>1. /\ executed' = executed \o current /\ current' = <<>>
          /\ queue' = queue /\ accepted' = accepted
      BY <1>3 DEF FinishWrite, consumerRest
    <2>2. (executed \o current) \o <<>> = executed \o current
      BY <1>0, ConcatEmptySeq
    <2> QED
      BY <1>0, <2>1, <2>2, Zenon DEF FirstInFirstOut
  <1>4. CASE ~(\E w \in Writes : Enqueue(w)) /\ ~Receive /\ ~FinishWrite
    <2>1. UNCHANGED <<accepted, executed, current, queue>>
      BY <1>4 DEF Next, ConsumerStep, NoticeCancel, Leave, consumerRest, DrainStep,
         MarkClosed, CloseChannel, FindClosed, Return, Cancel, CloseDB, drainRest,
         vars, writerVars, history
    <2> QED
      BY <1>0, <2>1, Zenon DEF FirstInFirstOut
  <1> QED
    BY <1>1, <1>2, <1>3, <1>4

-----------------------------------------------------------------------------
(* Drain and the cancellation.                                             *)

LEMMA DrainInit == Init => DrainInv
  BY ShutdownAssumption DEF Init, DrainInv

LEMMA DrainInvStep == TypeOK /\ DrainInv /\ [Next]_vars => DrainInv'
  <1> SUFFICES ASSUME TypeOK, DrainInv, [Next]_vars PROVE DrainInv'
    OBVIOUS
  <1>0. drain \in [Drainers -> {"idle", "cancelled", "closing", "waiting", "returned"}]
    BY DEF TypeOK
  <1> USE DEF DrainInv
  <1>1. ASSUME NEW w \in Writes, Enqueue(w) PROVE DrainInv'
    BY <1>1 DEF Enqueue
  <1>2. CASE Receive
    BY <1>2 DEF Receive, consumerRest
  <1>3. CASE FinishWrite
    BY <1>3 DEF FinishWrite, consumerRest
  <1>4. CASE NoticeCancel
    BY <1>4 DEF NoticeCancel, consumerRest
  <1>5. CASE Leave
    BY <1>5 DEF Leave, consumerRest
  <1>6. ASSUME NEW d \in Drainers, DrainStep(d) PROVE DrainInv'
    BY <1>0, <1>6, ShutdownAssumption DEF DrainStep, MarkClosed, CloseChannel,
       FindClosed, Return, CallsDrain, drainRest
  <1>7. CASE Cancel
    BY <1>0, <1>7, ShutdownAssumption DEF Cancel, drainRest
  <1>8. CASE CloseDB
    BY <1>8 DEF CloseDB, drainRest
  <1>9. CASE UNCHANGED vars
    BY <1>9 DEF vars, writerVars, history
  <1> QED
    BY <1>1, <1>2, <1>3, <1>4, <1>5, <1>6, <1>7, <1>8, <1>9 DEF Next, ConsumerStep

LEMMA CancelInit == Init => CancelInv
  <1> SUFFICES ASSUME Init PROVE CancelInv
    OBVIOUS
  <1>1. Len(accepted) = 0
    BY EmptySeq, Zenon DEF Init
  <1>2. /\ ~ctxDone /\ drain[Shutdown] = "idle" /\ consumer = "selecting"
        /\ acceptedBefore = 0
    BY ShutdownAssumption DEF Init
  <1> QED
    BY <1>1, <1>2 DEF CancelInv

LEMMA CancelInvStep == Inv /\ [Next]_vars => CancelInv'
  <1> SUFFICES ASSUME Inv, [Next]_vars PROVE CancelInv'
    OBVIOUS
  <1>0. /\ drain \in [Drainers -> {"idle", "cancelled", "closing", "waiting", "returned"}]
        /\ accepted \in Seq(Writes) /\ executed \in Seq(Writes)
        /\ queue \in Seq(Writes) /\ current \in Seq(Writes)
        /\ Len(accepted) \in Nat /\ Len(executed) \in Nat
        /\ acceptedBefore \in Nat
    BY LenProperties DEF Inv, TypeOK
  <1> USE DEF CancelInv
  <1>1. ASSUME NEW w \in Writes, Enqueue(w) PROVE CancelInv'
    <2>1. CASE Send(w) /\ ~closed
      <3>1. Len(accepted') = Len(accepted) + 1
        BY <1>0, <2>1, AppendProperties DEF Send
      <3>2. UNCHANGED <<executed, acceptedBefore, closed, consumer, ctxDone, drain>>
        BY <1>1 DEF Enqueue
      <3> QED
        BY <1>0, <2>1, <3>1, <3>2 DEF Inv
    <2>2. CASE ~(Send(w) /\ ~closed)
      BY <1>1, <2>2 DEF Enqueue, CountDrop, IgnoreClosed, Inv
    <2> QED
      BY <2>1, <2>2
  <1>2. CASE Receive
    BY <1>2 DEF Receive, consumerRest, Inv
  <1>3. CASE FinishWrite
    <2>1. consumer # "gone"
      BY <1>3 DEF FinishWrite, Inv, DrainInv
    <2> QED
      BY <1>3, <2>1 DEF FinishWrite, consumerRest, Inv
  <1>4. CASE NoticeCancel
    BY <1>4 DEF NoticeCancel, consumerRest, Inv
  <1>5. CASE Leave
    <2>1. executed = accepted
      <3>1. current = <<>> /\ queue = <<>>
        BY <1>5 DEF Leave
      <3>2. executed \o <<>> = executed /\ (executed \o <<>>) \o <<>> = executed \o <<>>
        BY <1>0, ConcatEmptySeq
      <3> QED
        BY <3>1, <3>2, Zenon DEF Inv, FirstInFirstOut
    <2>2. ~ctxDone => closed
      BY <1>5 DEF Leave, Inv, DrainInv
    <2>3. UNCHANGED <<accepted, executed, acceptedBefore, closed, ctxDone, drain>>
      BY <1>5 DEF Leave, consumerRest
    <2>4. consumer' = "gone"
      BY <1>5 DEF Leave
    <2> QED
      BY <1>0, <2>1, <2>2, <2>3, <2>4 DEF Inv
  <1>6. ASSUME NEW d \in Drainers, DrainStep(d) PROVE CancelInv'
    <2>1. UNCHANGED <<accepted, executed, acceptedBefore, ctxDone, consumer>>
      BY <1>6 DEF DrainStep, MarkClosed, CloseChannel, FindClosed, Return, drainRest
    <2>2. closed => closed'
      BY <1>6 DEF DrainStep, MarkClosed, CloseChannel, FindClosed, Return, drainRest
    <2>3. drain'[Shutdown] = "idle" <=> drain[Shutdown] = "idle"
      BY <1>0, <1>6, ShutdownAssumption DEF DrainStep, MarkClosed, CloseChannel,
         FindClosed, Return, CallsDrain
    <2> QED
      BY <2>1, <2>2, <2>3 DEF Inv
  <1>7. CASE Cancel
    <2>1. ctxDone' = TRUE /\ drain'[Shutdown] # "idle"
      BY <1>0, <1>7, ShutdownAssumption DEF Cancel
    <2>2. ~ctxDone
      BY <1>7 DEF Cancel, Inv
    <2>3. acceptedBefore' = Len(accepted) /\ UNCHANGED <<accepted, executed, consumer>>
      BY <1>7 DEF Cancel, drainRest
    <2> QED
      BY <1>0, <2>1, <2>2, <2>3 DEF Inv
  <1>8. CASE CloseDB
    BY <1>8 DEF CloseDB, drainRest, Inv
  <1>9. CASE UNCHANGED vars
    BY <1>9 DEF vars, writerVars, history, Inv
  <1> QED
    BY <1>1, <1>2, <1>3, <1>4, <1>5, <1>6, <1>7, <1>8, <1>9 DEF Next, ConsumerStep

-----------------------------------------------------------------------------
(* The theorems.                                                           *)

LEMMA InvariantHolds == Spec => []Inv
  <1>1. Init => Inv
    BY TypeInit, FifoInit, DrainInit, CancelInit DEF Inv
  <1>2. Inv /\ [Next]_vars => Inv'
    BY TypeStep, FifoStep, DrainInvStep, CancelInvStep DEF Inv
  <1> QED
    BY <1>1, <1>2, PTL DEF Spec

\* The writer's state has its types.
THEOREM TypeCorrect == Spec => []TypeOK
  BY InvariantHolds, PTL DEF Inv

\* Accepted writes are run in the order they were accepted, each once
\* (Enqueue and Run).
THEOREM InOrder == Spec => []FirstInFirstOut
  BY InvariantHolds, PTL DEF Inv

\* Enqueue never panics on a closed channel (Enqueue and Drain).
THEOREM NeverPanics == Spec => []NoSendOnClosed
  <1>1. Inv => NoSendOnClosed
    BY DEF Inv, DrainInv, NoSendOnClosed
  <1> QED
    BY <1>1, InvariantHolds, PTL

\* No write is run against the closed database (Drain waits for the goroutine
\* of Run, and the shutdown task closes the database after Drain).
THEOREM DatabaseClosedLast == Spec => []ClosedLast
  <1>1. Inv => ClosedLast
    BY ShutdownAssumption DEF Inv, DrainInv, ClosedLast
  <1> QED
    BY <1>1, InvariantHolds, PTL

\* Every write accepted before the shutdown began is in the database when it
\* is closed (Run's draining loop, Drain and the shutdown task).
THEOREM NothingEarlyIsLost == Spec => []SurvivesShutdown
  <1>1. Inv => SurvivesShutdown
    BY ShutdownAssumption DEF Inv, DrainInv, CancelInv, SurvivesShutdown
  <1> QED
    BY <1>1, InvariantHolds, PTL

-----------------------------------------------------------------------------
(* The refinement of the ordered log.                                      *)

LEMMA PromiseInit == Init => Promise!Init
  BY DEF Init, Promise!Init

\* Each step of the writer is a step of the log or changes nothing of it.
LEMMA PromiseStep == Inv /\ [Next]_vars => [Promise!Next]_(Promise!vars)
  <1> SUFFICES ASSUME Inv, [Next]_vars PROVE [Promise!Next]_(Promise!vars)
    OBVIOUS
  <1>0. /\ accepted \in Seq(Writes) /\ executed \in Seq(Writes)
        /\ queue \in Seq(Writes) /\ current \in Seq(Writes) /\ Len(current) <= 1
        /\ accepted = executed \o current \o queue
    BY DEF Inv, TypeOK, FirstInFirstOut
  <1> USE DEF Promise!vars
  <1>1. ASSUME NEW w \in Writes, Enqueue(w), Send(w), ~closed
        PROVE  Promise!TakeOn
    <2>1. dbOpen
      BY <1>1, ShutdownAssumption DEF Inv, DrainInv
    <2>2. accepted' = Append(accepted, w)
      BY <1>1 DEF Send
    <2>3. UNCHANGED <<executed, dbOpen>>
      BY <1>1 DEF Enqueue
    <2> QED
      BY <2>1, <2>2, <2>3, Zenon DEF Promise!TakeOn
  <1>2. ASSUME FinishWrite PROVE Promise!CarryOut
    <2>1. /\ current = <<current[1]>> /\ current[1] \in Writes /\ Len(current) = 1
      BY <1>0, <1>2, AtMostOne DEF FinishWrite
    <2>2. dbOpen
      BY <1>2, ShutdownAssumption, Zenon DEF FinishWrite, Inv, DrainInv
    <2>3. executed' = Append(executed, current[1])
      <3>1. executed' = executed \o current
        BY <1>2 DEF FinishWrite
      <3>2. Append(executed, current[1]) = executed \o <<current[1]>>
        BY <1>0, <2>1, AppendIsConcat
      <3> QED
        BY <2>1, <3>1, <3>2, Zenon
    <2>4. /\ Len(executed) \in Nat /\ Len(queue) \in Nat
          /\ executed \o current \in Seq(Writes)
          /\ Len(executed \o current) = Len(executed) + 1
          /\ (executed \o current)[Len(executed) + 1] = current[1]
      <3>1. Len(executed) \in Nat /\ Len(queue) \in Nat /\ Len(current) = 1
        BY <1>0, <2>1, LenProperties
      <3>2. /\ executed \o current \in Seq(Writes)
            /\ Len(executed \o current) = Len(executed) + Len(current)
            /\ \A i \in 1 .. Len(executed) + Len(current) :
                 (executed \o current)[i] =
                   IF i <= Len(executed) THEN executed[i] ELSE current[i - Len(executed)]
        BY <1>0, ConcatProperties, Zenon
      <3> QED
        BY <3>1, <3>2
    <2>5. /\ Len(accepted) = Len(executed) + 1 + Len(queue)
          /\ accepted[Len(executed) + 1] = current[1]
      BY <1>0, <2>4, ConcatProperties
    <2>6. UNCHANGED <<accepted, dbOpen>>
      BY <1>2 DEF FinishWrite, consumerRest
    <2> QED
      BY <2>2, <2>3, <2>4, <2>5, <2>6 DEF Promise!CarryOut
  <1>3. ASSUME CloseDB PROVE Promise!CloseDatabase
    BY <1>3 DEF CloseDB, drainRest, Promise!CloseDatabase
  <1>4. CASE /\ ~(\E w \in Writes : Enqueue(w) /\ Send(w) /\ ~closed)
             /\ ~FinishWrite /\ ~CloseDB
    BY <1>4 DEF Next, Enqueue, IgnoreClosed, CountDrop, ConsumerStep, Receive,
       NoticeCancel, Leave, consumerRest, DrainStep, MarkClosed, CloseChannel,
       FindClosed, Return, Cancel, drainRest, vars, writerVars, history
  <1> QED
    BY <1>1, <1>2, <1>3, <1>4 DEF Promise!Next

\* The writer, its callers and the shutdown task implement the ordered log:
\* writes are carried out in the order they were taken on, and none is taken
\* on or carried out after the database is closed.
THEOREM PromiseKept == Spec => KeepsPromise
  BY PromiseInit, PromiseStep, InvariantHolds, PTL DEF Spec, KeepsPromise, Promise!Spec

-----------------------------------------------------------------------------
\* The audit log adds nothing to the writer but an order of its calls: every
\* behaviour of the log is one of the writer, so that what is proved of the
\* writer holds of the rows of the log.
THEOREM AuditIsWriter == AuditSpec => Spec
<1>1. AuditInit => Init
  BY Zenon DEF AuditInit
<1>2. [AuditNext]_allVars => [Next]_vars
  <2> SUFFICES ASSUME [AuditNext]_allVars PROVE [Next]_vars
    OBVIOUS
  <2>1. CASE \E e \in Events : Record(e)
    BY <2>1, Zenon DEF Record
  <2>2. CASE HandOver
    BY <2>2, EventsAssumption, Zenon DEF HandOver, Next
  <2>3. CASE OtherWrite \/ ConsumerStep \/ (\E d \in Drainers : DrainStep(d))
             \/ Cancel \/ CloseDB
    BY <2>3, Zenon DEF OtherWrite, Next
  <2>4. CASE UNCHANGED allVars
    BY <2>4, Zenon DEF allVars
  <2> QED
    BY <2>1, <2>2, <2>3, <2>4, Zenon DEF AuditNext
<1> QED
  BY <1>1, <1>2, PTL DEF AuditSpec, Spec

\* The rows of the audit log are written in the order of their acceptance.
COROLLARY AuditInOrder == AuditSpec => []FirstInFirstOut
  BY AuditIsWriter, InOrder, PTL

-----------------------------------------------------------------------------
(* The order of the log.                                                   *)

\* Of a sequence s of events: one came before another, and a ring has the last.
Before(d, e, s) == \E k, l \in 1 .. Len(s) : k < l /\ s[k] = d /\ s[l] = e

IsTail(ring, s) ==
  /\ Len(ring) = IF Len(s) <= MaxEvents THEN Len(s) ELSE MaxEvents
  /\ \A i \in 1 .. Len(ring) : ring[i] = s[Len(s) - Len(ring) + i]

\* The holder of the log's lock has recorded the last event.
HolderIsLast == holder = <<>> \/ (recorded # <<>> /\ holder = <<recorded[Len(recorded)]>>)

\* What was accepted of the events was recorded, and in this order.
AcceptedKnown ==
  \A i \in 1 .. Len(accepted) :
    /\ accepted[i] \in submitted
    /\ accepted[i] \in Events => Contains(recorded, accepted[i])

AcceptedInOrder ==
  \A i, j \in 1 .. Len(accepted) :
    i < j /\ accepted[i] \in Events /\ accepted[j] \in Events =>
      Before(accepted[i], accepted[j], recorded)

\* The invariant of the log.
AuditInv ==
  /\ AuditTypeOK /\ IsTail(events, recorded) /\ HolderIsLast
  /\ AcceptedKnown /\ AcceptedInOrder

\* One more element, and what stays.
LEMMA OneMoreElement ==
  ASSUME NEW S, NEW s \in Seq(S), NEW x \in S
  PROVE  /\ Append(s, x) \in Seq(S) /\ Len(s) \in Nat /\ Len(Append(s, x)) = Len(s) + 1
         /\ Append(s, x)[Len(s) + 1] = x
         /\ \A i \in 1 .. Len(s) : Append(s, x)[i] = s[i]
  BY AppendProperties, LenProperties

\* What a sequence contains, and in which order, it has with one more too.
LEMMA StillBefore ==
  ASSUME NEW s \in Seq(Events), NEW e \in Events
  PROVE  /\ \A x : Contains(s, x) => Contains(Append(s, e), x)
         /\ \A x, y : Before(x, y, s) => Before(x, y, Append(s, e))
<1>1. /\ Len(s) \in Nat /\ Len(Append(s, e)) = Len(s) + 1
      /\ \A i \in 1 .. Len(s) : Append(s, e)[i] = s[i]
  BY OneMoreElement
<1>2. \A i \in 1 .. Len(s) : i \in 1 .. Len(Append(s, e))
  BY <1>1
<1> QED
  BY <1>1, <1>2 DEF Contains, Before

\* The ring after one more event has the last ones.
LEMMA ShiftedRing ==
  ASSUME NEW ring \in Seq(Events), NEW s \in Seq(Events), IsTail(ring, s), NEW e \in Events
  PROVE  /\ Shifted(ring, e) \in Seq(Events) /\ Len(Shifted(ring, e)) <= MaxEvents
         /\ IsTail(Shifted(ring, e), Append(s, e))
<1>1. /\ MaxEvents \in Nat /\ MaxEvents > 0 /\ Len(ring) \in Nat /\ Len(s) \in Nat
      /\ Len(ring) <= MaxEvents /\ Len(ring) <= Len(s)
      /\ Len(ring) = MaxEvents \/ Len(ring) = Len(s)
  BY MaxEventsAssumption, LenProperties DEF IsTail
<1> DEFINE after == Append(s, e)
<1>2. /\ Len(after) = Len(s) + 1 /\ after[Len(s) + 1] = e
      /\ \A i \in 1 .. Len(s) : after[i] = s[i]
  BY OneMoreElement
<1> HIDE DEF after
<1>3. CASE Len(ring) >= MaxEvents
  <2>1. ring # <<>>
    BY <1>1, <1>3, EmptySeq
  <2> DEFINE rest == Tail(ring)
             t == Append(rest, e)
  <2>2. /\ rest \in Seq(Events) /\ Len(rest) = Len(ring) - 1
        /\ \A i \in 1 .. Len(rest) : rest[i] = ring[i + 1]
    BY <2>1, HeadTailProperties
  <2>4. Shifted(ring, e) = t
    BY <1>3 DEF Shifted
  <2> HIDE DEF rest
  <2>3. /\ t \in Seq(Events) /\ Len(t) = Len(rest) + 1 /\ t[Len(rest) + 1] = e
        /\ \A i \in 1 .. Len(rest) : t[i] = rest[i]
    BY <2>2, OneMoreElement
  <2> HIDE DEF t
  <2>5. Len(t) = Len(ring) /\ Len(t) = MaxEvents /\ Len(after) > MaxEvents
    BY <1>1, <1>2, <1>3, <2>2, <2>3
  <2>6. t[Len(ring)] = e /\ \A i \in 1 .. Len(ring) - 1 : t[i] = ring[i + 1]
    BY <1>1, <2>2, <2>3
  <2>7. ASSUME NEW i \in 1 .. Len(ring) PROVE t[i] = after[Len(s) + 1 - Len(ring) + i]
    <3>1. CASE i = Len(ring)
      <4>1. Len(s) + 1 - Len(ring) + i = Len(s) + 1
        BY <1>1, <3>1
      <4> QED
        BY <1>2, <2>6, <3>1, <4>1
    <3>2. CASE i < Len(ring)
      <4>1. /\ i \in 1 .. Len(ring) - 1 /\ i + 1 \in 1 .. Len(ring)
            /\ Len(s) - Len(ring) + (i + 1) = Len(s) + 1 - Len(ring) + i
            /\ Len(s) - Len(ring) + (i + 1) \in 1 .. Len(s)
        BY <1>1, <3>2
      <4>2. ring[i + 1] = s[Len(s) - Len(ring) + (i + 1)]
        BY <4>1 DEF IsTail
      <4> QED
        BY <1>2, <2>6, <4>1, <4>2
    <3> QED
      BY <1>1, <3>1, <3>2
  <2>8. Len(after) - Len(t) = Len(s) + 1 - Len(ring)
    BY <1>2, <2>5
  <2>9. \A i \in 1 .. Len(t) : t[i] = after[Len(after) - Len(t) + i]
    BY <2>5, <2>7, <2>8
  <2>10. IsTail(t, after)
    <3>1. Len(t) = IF Len(after) <= MaxEvents THEN Len(after) ELSE MaxEvents
      BY <1>1, <1>2, <2>5
    <3> QED
      BY Zenon, <2>9, <3>1 DEF IsTail
  <2> QED
    BY <1>1, <2>3, <2>4, <2>5, <2>10 DEF after
<1>4. CASE Len(ring) < MaxEvents
  <2> DEFINE t == Append(ring, e)
  <2>1. /\ t \in Seq(Events) /\ Len(t) = Len(ring) + 1 /\ t[Len(ring) + 1] = e
        /\ \A i \in 1 .. Len(ring) : t[i] = ring[i]
    BY OneMoreElement
  <2>2. Shifted(ring, e) = t
    BY <1>1, <1>4 DEF Shifted
  <2> HIDE DEF t
  <2>3. Len(s) = Len(ring) /\ Len(t) = Len(after) /\ Len(t) <= MaxEvents
    BY <1>1, <1>2, <1>4, <2>1
  <2>4. ASSUME NEW i \in 1 .. Len(ring) + 1 PROVE t[i] = after[i]
    <3>1. CASE i \in 1 .. Len(ring)
      <4>1. ring[i] = s[Len(s) - Len(ring) + i]
        BY <3>1 DEF IsTail
      <4>2. Len(s) - Len(ring) + i = i
        BY <1>1, <2>3, <3>1
      <4> QED
        BY <1>2, <2>1, <2>3, <3>1, <4>1, <4>2
    <3>2. CASE i = Len(ring) + 1
      BY <1>2, <2>1, <2>3, <3>2
    <3> QED
      BY <1>1, <3>1, <3>2
  <2>5. \A i \in 1 .. Len(t) : Len(after) - Len(t) + i = i
    BY <1>1, <2>1, <2>3
  <2>6. IsTail(t, after)
    BY <2>1, <2>3, <2>4, <2>5 DEF IsTail
  <2> QED
    BY <2>1, <2>2, <2>3, <2>6 DEF after
<1> QED
  BY <1>1, <1>3, <1>4

\* A new event is recorded by the holder of the lock.
LEMMA RecordStep ==
  ASSUME AuditInv, TypeOK', NEW e \in Events, Record(e) PROVE AuditInv'
<1> USE DEF AuditInv, AuditTypeOK
<1>1. /\ recorded' = Append(recorded, e) /\ events' = Shifted(events, e) /\ holder' = <<e>>
      /\ accepted' = accepted /\ submitted' = submitted
  BY DEF Record, vars, history
<1>2. /\ Append(recorded, e) \in Seq(Events) /\ Len(recorded) \in Nat
      /\ Len(Append(recorded, e)) = Len(recorded) + 1
      /\ Append(recorded, e)[Len(recorded) + 1] = e
  BY OneMoreElement
<1>3. AuditTypeOK' /\ IsTail(events', recorded')
  <2>1. <<e>> \in Seq(Events) /\ Len(<<e>>) = 1
    OBVIOUS
  <2> QED
    BY <1>1, <1>2, <2>1, ShiftedRing
<1>4. HolderIsLast'
  <2>1. Append(recorded, e) # <<>>
    BY <1>2, EmptySeq
  <2> QED
    BY <1>1, <1>2, <2>1 DEF HolderIsLast
<1>5. AcceptedKnown' /\ AcceptedInOrder'
  BY <1>1, StillBefore DEF AcceptedKnown, AcceptedInOrder
<1> QED
  BY <1>3, <1>4, <1>5

\* A write that is accepted, and no event but the one of the holder.
LEMMA EnqueueStep ==
  ASSUME AuditInv, TypeOK', NEW w \in Writes, Enqueue(w), UNCHANGED <<recorded, events>>,
         w \in Events => recorded # <<>> /\ w = recorded[Len(recorded)],
         holder' = <<>> \/ holder' = holder
  PROVE  AuditInv'
<1>0. /\ TypeOK /\ recorded \in Seq(Events) /\ events \in Seq(Events) /\ Len(events) <= MaxEvents
      /\ holder \in Seq(Events) /\ Len(holder) <= 1 /\ IsTail(events, recorded)
      /\ HolderIsLast /\ AcceptedKnown /\ AcceptedInOrder
  BY DEF AuditInv, AuditTypeOK
<1>1. submitted' = submitted \union {w} /\ w \notin submitted
  BY DEF Enqueue
<1>2. accepted' = accepted \/ accepted' = Append(accepted, w)
  BY DEF Enqueue, IgnoreClosed, Send, CountDrop
<1>3. accepted \in Seq(Writes) /\ Len(recorded) \in Nat
  BY <1>0, LenProperties DEF TypeOK
<1>4. AuditTypeOK' /\ IsTail(events', recorded') /\ HolderIsLast'
  <2>1. <<>> \in Seq(Events) /\ Len(<<>>) = 0
    BY EmptySeq
  <2>2. recorded' = recorded /\ events' = events
    OBVIOUS
  <2>3. holder' \in Seq(Events) /\ Len(holder') <= 1
    <3>1. CASE holder' = <<>>
      BY <2>1, <3>1
    <3>2. CASE holder' = holder
      BY <1>0, <3>2
    <3> QED
      BY <3>1, <3>2
  <2>4. AuditTypeOK'
    BY <1>0, <2>2, <2>3 DEF AuditTypeOK
  <2> QED
    BY <1>0, <2>2, <2>4 DEF HolderIsLast
<1>5. CASE accepted' = accepted
  <2>1. AcceptedKnown' /\ AcceptedInOrder'
    BY <1>0, <1>1, <1>5 DEF AcceptedKnown, AcceptedInOrder
  <2> QED
    BY <1>4, <2>1 DEF AuditInv
<1>6. CASE accepted' = Append(accepted, w)
  <2>1. /\ Len(accepted) \in Nat /\ Len(accepted') = Len(accepted) + 1
        /\ accepted'[Len(accepted) + 1] = w
        /\ \A i \in 1 .. Len(accepted) : accepted'[i] = accepted[i]
    BY <1>3, <1>6, OneMoreElement
  <2>2. w \in Events => Len(recorded) \in 1 .. Len(recorded)
    BY <1>3, EmptySeq
  <2>3. w \in Events => Contains(recorded, w)
    BY <2>2 DEF Contains
  <2>4. AcceptedKnown'
    BY <1>0, <1>1, <2>1, <2>3 DEF AcceptedKnown
  <2>5. AcceptedInOrder'
    <3> SUFFICES ASSUME NEW i \in 1 .. Len(accepted'), NEW j \in 1 .. Len(accepted'),
                        i < j, accepted'[i] \in Events, accepted'[j] \in Events
                 PROVE  Before(accepted'[i], accepted'[j], recorded)
      BY DEF AcceptedInOrder
    <3>1. i \in 1 .. Len(accepted) /\ accepted'[i] = accepted[i]
      BY <2>1
    <3>2. CASE j \in 1 .. Len(accepted)
      BY <1>0, <2>1, <3>1, <3>2 DEF AcceptedInOrder
    <3>3. CASE j = Len(accepted) + 1
      <4>1. accepted'[j] = w /\ w \in Events
        BY <2>1, <3>3
      <4>2. PICK k \in 1 .. Len(recorded) : recorded[k] = accepted[i]
        BY <1>0, <3>1, <4>1 DEF AcceptedKnown, Contains
      <4>3. accepted[i] # w
        BY <1>0, <1>1, <3>1 DEF AcceptedKnown
      <4>4. k < Len(recorded)
        BY <1>3, <4>1, <4>2, <4>3
      <4> QED
        BY <2>2, <3>1, <4>1, <4>2, <4>4 DEF Before
    <3>4. j \in 1 .. Len(accepted) \/ j = Len(accepted) + 1
      BY <2>1
    <3> QED
      BY <3>2, <3>3, <3>4
  <2> QED
    BY <1>4, <2>4, <2>5 DEF AuditInv
<1> QED
  BY <1>2, <1>5, <1>6

\* Every step of the log, of other writers, of the goroutine and of Drain
\* keeps the invariant.
LEMMA AuditInductive == AuditInv /\ TypeOK' /\ [AuditNext]_allVars => AuditInv'
<1> SUFFICES ASSUME AuditInv, TypeOK', [AuditNext]_allVars PROVE AuditInv'
  OBVIOUS
<1>1. ASSUME NEW e \in Events, Record(e) PROVE AuditInv'
  BY <1>1, RecordStep
<1>2. CASE HandOver
  <2>1. PICK e \in Events : \E i \in DOMAIN holder :
          holder[i] = e /\ Enqueue(e) /\ holder' = RemoveAt(holder, i)
    BY <1>2 DEF HandOver
  <2>2. PICK i \in DOMAIN holder : holder[i] = e /\ Enqueue(e) /\ holder' = RemoveAt(holder, i)
    BY <2>1
  <2>3. holder \in Seq(Events) /\ Len(holder) <= 1 /\ Len(holder) \in Nat
        /\ DOMAIN holder = 1 .. Len(holder)
    BY LenProperties DEF AuditInv, AuditTypeOK
  <2>4. i = 1 /\ Len(holder) = 1
    BY <2>3
  <2>5. holder # <<>>
    BY <2>4, EmptySeq
  <2>6. recorded # <<>> /\ e = recorded[Len(recorded)]
    BY <2>2, <2>4, <2>5 DEF AuditInv, HolderIsLast
  <2>7. holder' = <<>>
    BY <2>2, <2>3, <2>4 DEF RemoveAt
  <2>8. e \in Writes /\ Enqueue(e) /\ UNCHANGED <<recorded, events>>
    BY <1>2, <2>2, EventsAssumption DEF HandOver
  <2> QED
    BY Zenon, <2>6, <2>7, <2>8, EnqueueStep
<1>3. CASE OtherWrite /\ UNCHANGED auditVars
  <2>1. PICK w \in Writes \ Events : Enqueue(w)
    BY <1>3 DEF OtherWrite
  <2> QED
    BY <1>3, <2>1, EnqueueStep DEF auditVars
<1>4. CASE UNCHANGED <<auditVars, accepted, submitted>>
  <2>1. AuditTypeOK' /\ IsTail(events, recorded)' /\ HolderIsLast'
    BY Zenon, <1>4 DEF auditVars, AuditInv, AuditTypeOK, IsTail, HolderIsLast
  <2>2. AcceptedKnown' /\ AcceptedInOrder'
    BY <1>4 DEF auditVars, AuditInv, AcceptedKnown, AcceptedInOrder, Before
  <2> QED
    BY <2>1, <2>2 DEF AuditInv
<1>5. CASE ConsumerStep /\ UNCHANGED auditVars
  BY <1>4, <1>5 DEF ConsumerStep, Receive, FinishWrite, NoticeCancel, Leave, consumerRest
<1>6. ASSUME NEW d \in Drainers, DrainStep(d), UNCHANGED auditVars PROVE AuditInv'
  BY <1>4, <1>6 DEF DrainStep, MarkClosed, CloseChannel, FindClosed, Return, drainRest
<1>7. CASE (Cancel \/ CloseDB) /\ UNCHANGED auditVars
  BY <1>4, <1>7 DEF Cancel, CloseDB, drainRest
<1>8. CASE UNCHANGED allVars
  BY <1>4, <1>8 DEF allVars, vars, history
<1> QED
  BY <1>1, <1>2, <1>3, <1>5, <1>6, <1>7, <1>8 DEF AuditNext

\* It holds at the start.
LEMMA AuditStart == AuditInit /\ TypeOK => AuditInv
<1> SUFFICES ASSUME AuditInit, TypeOK PROVE AuditInv
  OBVIOUS
<1>1. <<>> \in Seq(Events) /\ Len(<<>>) = 0
  BY EmptySeq
<1> QED
  BY <1>1, MaxEventsAssumption
     DEF AuditInit, Init, AuditInv, AuditTypeOK, IsTail, HolderIsLast, AcceptedKnown,
         AcceptedInOrder

\* The smallest of three numbers.
LEMMA MinOfThree ==
  ASSUME NEW a \in Nat, NEW b \in Nat, NEW c \in Nat, NEW m \in {a, b, c},
         m <= a, m <= b, m <= c
  PROVE  Min({a, b, c}) = m
<1>1. /\ Min({a, b, c}) \in {a, b, c}
      /\ \A y \in {a, b, c} : Min({a, b, c}) <= y
  BY DEF Min
<1> QED
  BY <1>1

\* The ring's last ones are what GetRecent returns.
LEMMA Recent == AuditInv => RecentIsLatest
<1> SUFFICES ASSUME AuditInv, NEW n \in 0 .. MaxEvents + 1
             PROVE  /\ Len(GetRecent(n)) = Min({n, MaxEvents, Len(recorded)})
                    /\ \A i \in 1 .. Len(GetRecent(n)) :
                         GetRecent(n)[i] = recorded[Len(recorded) + 1 - i]
  BY DEF RecentIsLatest
<1> DEFINE m == IF n > Len(events) THEN Len(events) ELSE n
<1>1. /\ MaxEvents \in Nat /\ Len(events) \in Nat /\ Len(recorded) \in Nat /\ n \in Nat
      /\ Len(events) <= MaxEvents /\ Len(events) <= Len(recorded) /\ m \in Nat
      /\ Len(events) = MaxEvents \/ Len(events) = Len(recorded)
  BY MaxEventsAssumption, LenProperties DEF AuditInv, AuditTypeOK, IsTail
<1>2. Min({n, MaxEvents, Len(recorded)}) = m
  BY <1>1, MinOfThree
<1>3. GetRecent(n) = [i \in 1 .. m |-> events[Len(events) + 1 - i]]
  BY DEF GetRecent
<1>4. m <= Len(events)
  BY <1>1
<1> HIDE DEF m
<1>5. Len(GetRecent(n)) = m
  BY <1>1, <1>3
<1>6. ASSUME NEW i \in 1 .. m
      PROVE  GetRecent(n)[i] = recorded[Len(recorded) + 1 - i]
  <2>1. GetRecent(n)[i] = events[Len(events) + 1 - i]
    BY <1>3
  <2>2. Len(events) + 1 - i \in 1 .. Len(events)
    BY <1>1, <1>4
  <2>3. events[Len(events) + 1 - i]
          = recorded[Len(recorded) - Len(events) + (Len(events) + 1 - i)]
    BY <2>2 DEF AuditInv, IsTail
  <2>4. Len(recorded) - Len(events) + (Len(events) + 1 - i) = Len(recorded) + 1 - i
    BY <1>1
  <2> QED
    BY <2>1, <2>3, <2>4
<1> QED
  BY <1>2, <1>5, <1>6

\* What has been run was accepted first, in the same order.
LEMMA RowsFollow == AuditInv /\ FirstInFirstOut => RowsFollowRecords
<1> SUFFICES ASSUME AuditInv, FirstInFirstOut PROVE RowsFollowRecords
  OBVIOUS
<1>1. /\ executed \in Seq(Writes) /\ current \in Seq(Writes) /\ queue \in Seq(Writes)
      /\ current \o queue \in Seq(Writes)
  BY ConcatProperties DEF AuditInv, AuditTypeOK, TypeOK
<1>2. accepted = executed \o (current \o queue)
  BY <1>1, ConcatAssociative DEF FirstInFirstOut
<1>3. /\ Len(executed) \in Nat /\ Len(current \o queue) \in Nat
      /\ Len(accepted) = Len(executed) + Len(current \o queue)
      /\ \A i \in 1 .. Len(executed) : accepted[i] = executed[i]
  BY <1>1, <1>2, ConcatProperties, LenProperties
<1>4. \A i \in 1 .. Len(executed) : i \in 1 .. Len(accepted)
  BY <1>3
<1> QED
  BY <1>3, <1>4 DEF AuditInv, AcceptedInOrder, Before, RowsFollowRecords

\* The audit log (internal/state/audit.go): GetRecent returns the events last
\* recorded, and the rows reach the database in the order in which the events
\* were recorded, whoever records, flushes or shuts down at the same time,
\* for every capacity of the ring and of the channel.
THEOREM LogKeptInOrder == AuditSpec => []LogInOrder
<1>1. AuditInv /\ FirstInFirstOut => LogInOrder
  BY Recent, RowsFollow DEF LogInOrder
<1>2. Inv => TypeOK /\ FirstInFirstOut
  BY DEF Inv
<1> QED
  BY <1>1, <1>2, AuditIsWriter, AuditStart, AuditInductive, InvariantHolds, PTL DEF AuditSpec

=============================================================================
