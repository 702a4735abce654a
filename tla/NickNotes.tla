-------------------------------- MODULE NickNotes -------------------------------
(***************************************************************************)
(* The notes staff keep about an account: ADDNOTE, DELNOTE, NOTES, and     *)
(* their way through the database.  Expired notes are dropped while the    *)
(* list is walked (WALK_NOTES), which passes over the note behind a first  *)
(* one that has expired.  Who may use the commands is in NickServSessions  *)
(* (MayTarget).  Source: src/nickserv.c.                                   *)
(***************************************************************************)
EXTENDS Integers, Sequences, SequencesExt

CONSTANTS
  Durations,   \* 0: the note stays
  Base,        \* in which numbers are written: 10 in the code
  MaxId, MaxTime

VARIABLES
  notes,      \* hi->notes: id and expires
  disk,       \* what the last save wrote, in that order
  wanted,     \* the notes that were added and not deleted
  lost,       \* those of them that the save read back had not written, or not for good
  saved,      \* wanted and lost at the last save, and what it left out besides
  restarted,  \* whether the list was read back
  now

vars == <<notes, disk, wanted, lost, saved, restarted, now>>

Init == /\ notes = <<>> /\ disk = <<>> /\ wanted = {} /\ lost = {}
        /\ saved = [wanted |-> {}, lost |-> {}] /\ restarted = FALSE /\ now = 1

Live(n) == n.expires = 0 \/ n.expires >= now
Lives(s) == SelectSeq(s, Live)

\* The first note has expired: the one behind it becomes the first and the walk
\* goes on with the next.
Skips(s) == s # <<>> /\ ~Live(s[1])

\* WALK_NOTES: the note the walk passes over, and what the loop's body sees.
Passed(s) == IF Skips(s) /\ Len(s) > 1 THEN <<s[2]>> ELSE <<>>
Seen(s)   == Lives(IF Skips(s) THEN SubSeq(s, 3, Len(s)) ELSE s)

\* Mutant: a walk that drops a first note drops the one behind it with it.
Left_Both(s) == Seen(s)

\* What is left of the list.
Left(s) == Passed(s) \o Seen(s)

\* cmd_addnote.
AddNote(d) ==
  LET left == Left(notes)
      id   == IF left = <<>> THEN 1 ELSE Last(left).id + 1
      note == [id |-> id, expires |-> IF d = 0 THEN 0 ELSE now + d]
  IN /\ id <= MaxId
     /\ notes' = Append(left, note) /\ wanted' = wanted \cup {note} /\ lost' = lost \ {note}
     /\ UNCHANGED <<disk, saved, restarted, now>>

\* cmd_delnote: the walk ends at the note.
DelNote(id) ==
  LET at == {k \in DOMAIN notes : notes[k].id = id /\ Live(notes[k]) /\ ~(k = 2 /\ Skips(notes))}
      k  == CHOOSE j \in at : \A i \in at : j <= i
  IN /\ IF at = {} THEN notes' = Left(notes) /\ UNCHANGED wanted
        ELSE /\ notes' = Left(SubSeq(notes, 1, k - 1)) \o SubSeq(notes, k + 1, Len(notes))
             /\ wanted' = wanted \ ({notes[k]} \ ToSet(RemoveAt(notes, k)))
     /\ UNCHANGED <<disk, lost, saved, restarted, now>>

\* cmd_notes, and the notes of cmd_handleinfo.
ShowNotes == notes' = Left(notes) /\ UNCHANGED <<disk, wanted, lost, saved, restarted, now>>

\* Of the records with one name the last is read.
Final(s) == {s[k] : k \in {k \in DOMAIN s : \A j \in k+1..Len(s) : s[j].id # s[k].id}}

\* What a save loses: the note behind a first one that has expired, and those
\* written with the number of a later one.
LeftOut(s) == ToSet(Passed(s) \o Seen(s)) \ Final(Seen(s))

\* nickserv_saxdb_write: the body writes.
Save == /\ disk' = Seen(notes) /\ notes' = Left(notes)
        /\ saved' = [wanted |-> wanted, lost |-> lost \cup LeftOut(notes)]
        /\ UNCHANGED <<wanted, lost, restarted, now>>

Digits(n) == IF n < Base THEN <<n>> ELSE <<n \div Base, n % Base>>
Before(a, b) == \/ Digits(a)[1] < Digits(b)[1]
                \/ Digits(a)[1] = Digits(b)[1] /\ a < b

\* nickserv_db_read_handle: the records come in the order of their names, and
\* of two with one name the later was kept.
Restart ==
  /\ notes' = SetToSortSeq(Final(disk), LAMBDA m, n : Before(m.id, n.id))
  /\ wanted' = saved.wanted /\ lost' = saved.lost /\ restarted' = TRUE
  /\ UNCHANGED <<disk, saved, now>>

Tick == now < MaxTime /\ now' = now + 1 /\ UNCHANGED <<notes, disk, wanted, lost, saved, restarted>>

Next ==
  \/ \E d \in Durations : AddNote(d)
  \/ \E id \in 1..MaxId : DelNote(id)
  \/ ShowNotes \/ Save \/ Restart \/ Tick

Spec == Init /\ [][Next]_vars

-----------------------------------------------------------------------------

\* A note stays until it is deleted or expires, whatever walks drop expired
\* ones, and a restart brings back those there were at the last save but for
\* the ones it passed over (WALK_NOTES) or wrote under a number written again.
\* Until services restart every note has a number of its own: the numbers
\* rise.  (After a restart they are in the order of their texts, and the last
\* one's successor may be taken.)
NotesListed ==
  /\ {n \in ToSet(notes) : Live(n)} = {n \in wanted \ lost : Live(n)}
  /\ ~restarted => \A j, k \in DOMAIN notes : j < k => notes[j].id < notes[k].id
=============================================================================
