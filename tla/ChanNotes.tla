-------------------------------- MODULE ChanNotes ------------------------------
(***************************************************************************)
(* ChanServ's notes: staff define types of notes, who may set them and how *)
(* long they are (and who sees them, which is left out here); each channel *)
(* has at most one of each type.  A type counts its references: the        *)
(* dictionary's and one for each note.  Source: src/chanserv.c.            *)
(***************************************************************************)
EXTENDS Integers, FiniteSets

CONSTANTS
  Channels, Types,
  Setting,  \* what set access may be: how ("privileged", "channel", "setter") and min
  Lengths,  \* max_length
  Texts,    \* lengths of notes
  People,   \* access in the channel (0: none), setter, helping and level
  NULL

VARIABLES
  types,    \* note_types
  freed,    \* types that were freed
  notes,    \* of each registered channel: for a type, the note's length; or NULL
  broken    \* an assertion failed, or a note's type was freed under it

vars == <<types, freed, notes, broken>>

Without(f, k) == [x \in DOMAIN f \ {k} |-> f[x]]
With(f, k, v) == [x \in DOMAIN f \cup {k} |-> IF x = k THEN v ELSE f[x]]
Empty == [t \in {} |-> 0]

Init == types = Empty /\ freed = {} /\ notes = [c \in Channels |-> NULL] /\ broken = FALSE

Has(c, t)  == notes[c] # NULL /\ t \in DOMAIN notes[c]
Holders(t) == {c \in Channels : Has(c, t)}

\* chanserv_create_note_type.
New == [refs |-> 1, how |-> "privileged", min |-> 0, max |-> 0]

\* chanserv_deref_note_type for several references; the last one frees.
Dereffed(t, n) == [types EXCEPT ![t].refs = @ - n]

-----------------------------------------------------------------------------
(* Staff.                                                                  *)

\* CREATENOTE; what is wrong with the parameters: the access, or the
\* visibility or length.  A type that existed keeps what was changed before.
CreateNote(t, s, max, wrong) ==
  LET old  == IF t \in DOMAIN types THEN types[t] ELSE New
      set  == [old EXCEPT !.how = s.how, !.min = s.min]
      made == CASE wrong = "access" -> old [] wrong = "length" -> set
                [] wrong = "nothing" -> [set EXCEPT !.max = max]
      kept == wrong = "nothing" \/ t \in DOMAIN types
  IN /\ types' = IF kept THEN With(types, t, made) ELSE types
     /\ freed' = IF kept THEN freed \ {t} ELSE freed
     /\ notes' = [c \in Channels |->   \* chanserv_truncate_notes
          IF Has(c, t) /\ wrong = "nothing" /\ notes[c][t] > max THEN [notes[c] EXCEPT ![t] = max] ELSE notes[c]]
     /\ UNCHANGED broken

\* REMOVENOTE: with FORCE the notes go first.
RemoveNote(t, force) ==
  /\ t \in DOMAIN types /\ (types[t].refs > 1 => force)
  /\ LET left == types[t].refs - Cardinality(Holders(t))
     IN /\ broken' = (broken \/ left # 1) /\ freed' = IF left = 1 THEN freed \cup {t} ELSE freed
        /\ types' = Without(types, t)
        /\ notes' = [c \in Channels |-> IF Has(c, t) THEN Without(notes[c], t) ELSE notes[c]]

-----------------------------------------------------------------------------
(* Channels.                                                               *)

\* note_type_settable_by_user.
Settable(p, t) ==
  CASE types[t].how = "channel"    -> p.access > 0 /\ p.access >= types[t].min
    [] types[t].how = "setter"     -> p.setter
    [] types[t].how = "privileged" -> p.helping /\ p.level >= types[t].min

\* dict_insert frees the note that was there.
Replaced(c, t) == IF Has(c, t) THEN 1 ELSE 0

\* chanserv_add_channel_note.
Note(p, c, t, len) ==
  /\ notes[c] # NULL /\ t \in DOMAIN types /\ Settable(p, t)
  /\ types' = Dereffed(t, Replaced(c, t) - 1)
  /\ notes' = [notes EXCEPT ![c] = With(@, t, IF len > types[t].max THEN types[t].max ELSE len)]
  /\ UNCHANGED <<freed, broken>>

\* chanserv_free_note asserts that the dictionary still has the type.
DelNote(p, c, t) ==
  /\ Has(c, t) /\ t \in DOMAIN types /\ Settable(p, t)
  /\ types' = Dereffed(t, 1) /\ notes' = [notes EXCEPT ![c] = Without(@, t)]
  /\ broken' = (broken \/ types[t].refs = 1) /\ UNCHANGED freed

Register(c) == notes[c] = NULL /\ notes' = [notes EXCEPT ![c] = Empty] /\ UNCHANGED <<types, freed, broken>>

\* Also for the source of a merger.
Unregister(c) ==
  /\ notes[c] # NULL /\ notes' = [notes EXCEPT ![c] = NULL]
  /\ types' = [t \in DOMAIN types |-> IF Has(c, t) THEN [types[t] EXCEPT !.refs = @ - 1] ELSE types[t]]
  /\ UNCHANGED <<freed, broken>>

\* Types are read before channels; notes of types that are gone are not read.
Restart ==
  /\ notes' = [c \in Channels |->
       IF notes[c] = NULL THEN NULL
       ELSE [t \in DOMAIN notes[c] \cap DOMAIN types |-> IF notes[c][t] > types[t].max THEN types[t].max ELSE notes[c][t]]]
  /\ types' = [t \in DOMAIN types |-> [types[t] EXCEPT !.refs = 1 + Cardinality(Holders(t))]]
  /\ freed' = {} /\ UNCHANGED broken

Next ==
  \/ \E t \in Types, s \in Setting, max \in Lengths, w \in {"access", "length", "nothing"} :
       CreateNote(t, s, max, w)
  \/ \E t \in Types, force \in BOOLEAN : RemoveNote(t, force)
  \/ \E p \in People, c \in Channels, t \in Types : DelNote(p, c, t) \/ \E len \in Texts : Note(p, c, t, len)
  \/ \E c \in Channels : Register(c) \/ Unregister(c)
  \/ Restart

Spec == Init /\ [][Next]_vars

-----------------------------------------------------------------------------
\* A type's references are the dictionary's and one for each channel that has
\* such a note; no note is longer than its type allows, or outlives it; no
\* assertion about the references fails.
NotesExact ==
  /\ ~broken
  /\ \A t \in DOMAIN types :
       types[t].refs = 1 + Cardinality({c \in Channels : notes[c] # NULL /\ t \in DOMAIN notes[c]})
  /\ \A c \in {c \in Channels : notes[c] # NULL} :
       /\ DOMAIN notes[c] \cap freed = {} /\ \A t \in DOMAIN notes[c] : notes[c][t] <= types[t].max
=============================================================================
