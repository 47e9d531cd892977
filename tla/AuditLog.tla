------------------------------ MODULE AuditLog ------------------------------
(***************************************************************************)
(* The audit log of internal/state/audit.go on top of the asynchronous     *)
(* writer: Record puts the event into the in-memory ring and hands its row *)
(* to the writer, both under the log's own lock.  Other parts of the       *)
(* program (the metrics store, the alerts) submit writes of their own.     *)
(***************************************************************************)
EXTENDS AsyncWriter, SequencesExt

CONSTANTS
  Events,     \* the writes that are rows of audit events
  MaxEvents   \* capacity of the ring

ASSUME EventsAssumption == Events \subseteq Writes
ASSUME MaxEventsAssumption == MaxEvents \in Nat \ {0}

VARIABLES
  recorded,   \* history: the events recorded, in order
  events,     \* the ring, oldest first
  holder      \* the event whose Record holds the lock: a sequence of length 0 or 1

auditVars == <<recorded, events, holder>>
allVars == <<vars, auditVars>>

AuditTypeOK ==
  /\ TypeOK
  /\ recorded \in Seq(Events)
  /\ events \in Seq(Events) /\ Len(events) <= MaxEvents
  /\ holder \in Seq(Events) /\ Len(holder) <= 1

AuditInit == Init /\ recorded = <<>> /\ events = <<>> /\ holder = <<>>

\* Mutant of Shifted: the bound is off by one.
ShiftedPastBound(ring, e) ==
  IF Len(ring) > MaxEvents THEN Append(Tail(ring), e) ELSE Append(ring, e)

\* The ring shifts left when it is full.
Shifted(ring, e) ==
  IF Len(ring) >= MaxEvents THEN Append(Tail(ring), e) ELSE Append(ring, e)

\* Events differ in nothing but their order, so any order of naming them will do.
IsNext(e) ==
  /\ e \notin submitted /\ ~Contains(recorded, e)
  /\ e = CHOOSE x \in Events : x \notin submitted /\ ~Contains(recorded, x)

\* Mutant of Record: the lock does not cover the call.
RecordUnlocked(e) ==
  /\ IsNext(e)
  /\ Len(holder) < 2
  /\ recorded' = Append(recorded, e)
  /\ events' = Shifted(events, e)
  /\ holder' = Append(holder, e)
  /\ UNCHANGED vars

\* Record, up to its call of Enqueue.
Record(e) ==
  /\ IsNext(e)
  /\ holder = <<>>
  /\ recorded' = Append(recorded, e)
  /\ events' = Shifted(events, e)
  /\ holder' = <<e>>
  /\ UNCHANGED vars

\* The rest of Record: the row is handed over, then the lock is released.
HandOver ==
  /\ \E e \in Events, i \in DOMAIN holder :
       /\ holder[i] = e
       /\ Enqueue(e)
       /\ holder' = RemoveAt(holder, i)
  /\ UNCHANGED <<recorded, events>>

OtherWrite == \E w \in Writes \ Events : Enqueue(w)

AuditNext ==
  \/ \E e \in Events : Record(e)
  \/ HandOver
  \/ /\ \/ OtherWrite
        \/ ConsumerStep
        \/ \E d \in Drainers : DrainStep(d)
        \/ Cancel
        \/ CloseDB
     /\ UNCHANGED auditVars

AuditSpec == AuditInit /\ [][AuditNext]_allVars
AuditFairSpec == AuditSpec /\ Fairness

\* GetRecent: the newest n events, newest first.
GetRecent(n) ==
  [i \in 1 .. (IF n > Len(events) THEN Len(events) ELSE n) |-> events[Len(events) + 1 - i]]

-----------------------------------------------------------------------------
\* GetRecent returns the events last recorded, newest first, whatever became
\* of their rows (Record's shifting and GetRecent's indexing together).
RecentIsLatest ==
  \A n \in 0 .. MaxEvents + 1 :
    LET got == GetRecent(n)
    IN  /\ Len(got) = Min({n, MaxEvents, Len(recorded)})
        /\ \A i \in 1 .. Len(got) : got[i] = recorded[Len(recorded) + 1 - i]

\* The rows reach the database in the order in which the events were
\* recorded, although some of them may have been dropped: the lock of the log
\* is held across the call of Enqueue.
RowsFollowRecords ==
  \A i, j \in 1 .. Len(executed) :
    i < j /\ {executed[i], executed[j]} \subseteq Events =>
      \E k, l \in 1 .. Len(recorded) :
        k < l /\ recorded[k] = executed[i] /\ recorded[l] = executed[j]

\* The log tells one story in one order: what the dashboard shows of the last
\* events and what the database keeps agree with what was recorded, whoever
\* records, flushes or shuts down at the same time.
LogInOrder == RecentIsLatest /\ RowsFollowRecords

=============================================================================
