------------------------------ MODULE Channels ------------------------------
(***************************************************************************)
(* The notification channels (cfg.Alerts.Channels): a slice that the API   *)
(* appends to, deletes from and edits in place (handler/notification.go),  *)
(* under a mutex its readers do not take.  Readers are fireAlert of the    *)
(* alerts controller and Notify of the rightsizer, which range over the    *)
(* slice and send to one enabled channel after the other, and Notify does  *)
(* so for one target at most once in a cooldown.                           *)
(* An element is read or written as a whole here; a reader that overlaps   *)
(* with a writer may in fact see half of each.                             *)
(***************************************************************************)
EXTENDS Integers, Sequences, FiniteSets, SequencesExt

CONSTANTS
  MaxAdded,      \* bound on the channels ever added
  MaxEdits,      \* bound on the deletions and switches
  Repeat         \* the cooldown of Notify

ASSUME ChannelsAssumption == MaxAdded \in Nat /\ MaxEdits \in Nat /\ Repeat \in Nat \ {0}

VARIABLES
  cells,      \* the array behind the slice, as far as it was ever filled
  size,       \* the length of the slice
  room,       \* its capacity
  added, edits,
  round,      \* for each reader: what it ranges over, and how far it is
  noticed,    \* lastNotified of a target: the time since, or Repeat, or None
  told        \* history: the same, for when it was really notified

channelsVars == <<cells, size, room, added, edits, round, noticed, told>>

Readers == {"alerts", "rightsizer"}
None == -1
Resting == [next |-> 0]

Channel == [id : 1 .. MaxAdded, enabled : BOOLEAN]
Slice == SubSeq(cells, 1, size)

ChannelsTypeOK ==
  /\ cells \in Seq(Channel) /\ size \in 0 .. Len(cells) /\ Len(cells) <= room
  /\ added \in 0 .. MaxAdded /\ edits \in 0 .. MaxEdits
  /\ \A r \in Readers : round[r] # Resting =>
       /\ round[r].next \in 1 .. round[r].last + 1
       /\ round[r].shared => round[r].last <= Len(cells)
       /\ round[r].owed \subseteq 1 .. MaxAdded
  /\ {noticed, told} \subseteq {None} \union (0 .. Repeat)

ChannelsInit ==
  /\ cells = <<>> /\ size = 0 /\ room = 0
  /\ added = 0 /\ edits = 0
  /\ round = [r \in Readers |-> Resting] /\ noticed = None /\ told = None

-----------------------------------------------------------------------------
(* The API.                                                                *)

Running == {r \in Readers : round[r] # Resting}

\* History: what happens to the rounds under way.  A round that ranges over an
\* array that is given up keeps it.
Rounds(upd(_)) == round' = [r \in Readers |-> IF r \in Running THEN upd(round[r]) ELSE Resting]

Detached(rd) == IF rd.shared THEN [rd EXCEPT !.shared = FALSE, !.kept = cells] ELSE rd

Inserted(s, c) == Append(s, c)

\* AddChannel: append writes behind the end of the slice as long as there is
\* room, over what a deletion has left there, and else copies the slice.
AddChannel ==
  /\ added < MaxAdded /\ added' = added + 1
  /\ LET s == Inserted(Slice, [id |-> added + 1, enabled |-> TRUE])
     IN  IF size < room
         THEN /\ cells' = s \o SubSeq(cells, size + 2, Len(cells))
              /\ UNCHANGED <<room, round>>
         ELSE /\ cells' = s /\ room' = IF room = 0 THEN 1 ELSE 2 * room
              /\ Rounds(Detached)
  /\ size' = size + 1
  /\ UNCHANGED <<edits, noticed, told>>

Excused(id) == Rounds(LAMBDA rd : [rd EXCEPT !.owed = @ \ {id}])

\* DeleteChannel moves those behind it forward, in the same array.
DeleteChannel(i) ==
  /\ edits < MaxEdits /\ edits' = edits + 1
  /\ cells' = [j \in 1 .. Len(cells) |-> IF j \in i .. size - 1 THEN cells[j + 1] ELSE cells[j]]
  /\ size' = size - 1
  /\ Rounds(LAMBDA rd : [rd EXCEPT !.owed = IF rd.shared THEN {} ELSE @ \ {cells[i].id},
                                   !.disturbed = rd.shared \/ @])
  /\ UNCHANGED <<room, added, noticed, told>>

ToggleChannel(i) ==
  /\ edits < MaxEdits /\ edits' = edits + 1
  /\ cells' = [cells EXCEPT ![i].enabled = ~ @]
  /\ Excused(cells[i].id)
  /\ UNCHANGED <<size, room, added, noticed, told>>

-----------------------------------------------------------------------------
(* The readers.                                                            *)

\* The range statement takes the slice as it is: later additions are not seen.
Starts(r) ==
  /\ round[r] = Resting
  /\ round' = [round EXCEPT ![r] =
       [next |-> 1, last |-> size, shared |-> TRUE, kept |-> <<>>, got |-> <<>>,
        disturbed |-> FALSE,
        owed |-> {Slice[i].id : i \in {j \in 1 .. size : Slice[j].enabled}}]]

FireAlert == Starts("alerts") /\ UNCHANGED <<cells, size, room, added, edits, noticed, told>>

\* Notify, if the last one for the target is long enough ago.
Notify ==
  /\ size > 0 /\ noticed \in {None, Repeat}
  /\ Starts("rightsizer")
  /\ noticed' = 0 /\ told' = 0
  /\ UNCHANGED <<cells, size, room, added, edits>>

SendNext(r) ==
  /\ round[r] # Resting /\ round[r].next <= round[r].last
  /\ LET rd == round[r]
         c == (IF rd.shared THEN cells ELSE rd.kept)[rd.next]
     IN  round' = [round EXCEPT ![r].next = @ + 1,
                                ![r].got = IF c.enabled THEN Append(@, c.id) ELSE @]
  /\ UNCHANGED <<cells, size, room, added, edits, noticed, told>>

EndRound(r) ==
  /\ round[r] # Resting /\ round[r].next > round[r].last
  /\ round' = [round EXCEPT ![r] = Resting]
  /\ UNCHANGED <<cells, size, room, added, edits, noticed, told>>

\* Mutant of CleanedUp: everything is forgotten.
CleanedUpAll(t) == None

\* Cleanup of the notifier, in every cycle: what no longer holds anything back.
CleanedUp(t) == IF t = Repeat THEN None ELSE t

CleanupNotices ==
  /\ noticed' = CleanedUp(noticed)
  /\ UNCHANGED <<cells, size, room, added, edits, round, told>>

Older(t) == IF t \in 0 .. Repeat - 1 THEN t + 1 ELSE t

TimePasses ==
  /\ noticed' = Older(noticed) /\ told' = Older(told)
  /\ UNCHANGED <<cells, size, room, added, edits, round>>

ChannelsNext ==
  \/ AddChannel
  \/ \E i \in 1 .. size : DeleteChannel(i) \/ ToggleChannel(i)
  \/ FireAlert \/ Notify \/ CleanupNotices \/ TimePasses
  \/ \E r \in Readers : SendNext(r) \/ EndRound(r)

-----------------------------------------------------------------------------
Done(r) == round[r] # Resting /\ round[r].next > round[r].last

\* A round reaches every channel that was on the list and switched on all the
\* time, and reaches none twice, unless a channel was deleted from under it:
\* additions, and switching others, neither skip nor repeat one.
RoundsComplete ==
  \A r \in Readers : Done(r) =>
    /\ round[r].owed \subseteq ToSet(round[r].got)
    /\ ~ round[r].disturbed => IsInjective(round[r].got)

\* A target is notified at most once in a cooldown, however often what is no
\* longer needed is cleaned up.
OncePerCooldown ==
  [][ round["rightsizer"] = Resting /\ round'["rightsizer"] # Resting =>
        told \in {None, Repeat} ]_channelsVars

\* Who should be told is told, although the list of channels changes under the
\* round, and not more often than wanted.
ChannelsServed == []RoundsComplete /\ OncePerCooldown
=============================================================================
