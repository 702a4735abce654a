------------------------------ MODULE DictSplay -------------------------------
(***************************************************************************)
(* The dictionary every part of the program uses: a splay tree that each   *)
(* lookup reshapes, threaded by a list in the order of the keys.           *)
(* Source: src/dict-splay.c.  A tree is NULL or a record [key, data, l, r];*)
(* keys are what irccasecmp tells apart.                                   *)
(***************************************************************************)
EXTENDS Integers, FiniteSets, SequencesExt

CONSTANTS
  Keys,
  MaxItems, \* bound on the insertions
  NULL

VARIABLES
  root,   \* dict->root
  list,   \* the keys along the next pointers from dict->first
  count,  \* dict->count
  freed,  \* items given to free_data
  made,   \* how many items were inserted; they are numbered
  it      \* the key of the node a loop over the dictionary stands at

vars == <<root, list, count, freed, made, it>>

Node(k, d, l, r) == [key |-> k, data |-> d, l |-> l, r |-> r]

Init == root = NULL /\ list = <<>> /\ count = 0 /\ freed = {} /\ made = 0 /\ it = NULL

-----------------------------------------------------------------------------
\* The trees cut off on the way down, hung into each other again.
RECURSIVE HangRight(_, _), HangLeft(_, _)
HangRight(cut, last) ==
  IF cut = <<>> THEN last ELSE [Head(cut) EXCEPT !.r = HangRight(Tail(cut), last)]
HangLeft(cut, last) ==
  IF cut = <<>> THEN last ELSE [Head(cut) EXCEPT !.l = HangLeft(Tail(cut), last)]

\* The loop of dict_splay at node t; `less' and `more' are the nodes linked
\* to the left and to the right so far.
RECURSIVE SplayFrom(_, _, _, _)
SplayFrom(t, k, less, more) ==
  LET rotated == IF k < t.key /\ t.l # NULL /\ k < t.l.key
                   THEN [t.l EXCEPT !.r = [t EXCEPT !.l = t.l.r]]
                 ELSE IF k > t.key /\ t.r # NULL /\ k > t.r.key
                   THEN [t.r EXCEPT !.l = [t EXCEPT !.r = t.r.l]]
                 ELSE t IN
  IF k < t.key /\ rotated.l # NULL
    THEN SplayFrom(rotated.l, k, less, Append(more, rotated))
  ELSE IF k > t.key /\ rotated.r # NULL
    THEN SplayFrom(rotated.r, k, Append(less, rotated), more)
  ELSE [rotated EXCEPT !.l = HangRight(less, rotated.l), !.r = HangLeft(more, rotated.r)]

\* dict_splay: the node with key k, or one next to where it would be, is
\* made the root.
Splay(t, k) == IF t = NULL THEN NULL ELSE SplayFrom(t, k, <<>>, <<>>)

\* The new node goes before the root in the list, not after it.
Before(t, k) == k < t.key

\* Mutant: a neighbour is taken for the key that is not there.
Matches_Any(t, k) == TRUE

\* What a splay made the root is the key that was asked for.
Matches(t, k) == t.key = k

\* dict_insert; an equal key replaces key and data and frees the old ones
DictInsert(k) ==
  LET t == Splay(root, k)
      d == made + 1
      place == SelectInSeq(list, LAMBDA x : x = t.key) IN
  /\ made < MaxItems /\ made' = d /\ UNCHANGED it
  /\ \/ /\ root = NULL
        /\ root' = Node(k, d, NULL, NULL) /\ list' = <<k>> /\ count' = count + 1
        /\ UNCHANGED freed
     \/ /\ root # NULL /\ Matches(t, k)
        /\ root' = [t EXCEPT !.data = d] /\ freed' = freed \cup {t.data}
        /\ UNCHANGED <<list, count>>
     \/ /\ root # NULL /\ ~Matches(t, k)
        /\ root' = IF k < t.key THEN Node(k, d, t.l, [t EXCEPT !.l = NULL])
                   ELSE Node(k, d, [t EXCEPT !.r = NULL], t.r)
        /\ list' = InsertAt(list, IF Before(t, k) THEN place ELSE place + 1, k)
        /\ count' = count + 1 /\ UNCHANGED freed

\* The tree without its root t, whose key is k.
Joined(t, k) == IF t.l = NULL THEN t.r ELSE [Splay(t.l, k) EXCEPT !.r = t.r]

\* dict_remove2, dict_remove.  A loop never removes the node it stands at
\* (iter_next reads it).
DictRemove(k, dispose) ==
  LET t == Splay(root, k) IN
  /\ root # NULL /\ k # it /\ UNCHANGED <<made, it>>
  /\ IF ~Matches(t, k) THEN root' = t /\ UNCHANGED <<list, count, freed>>
     ELSE /\ root' = Joined(t, k)
          /\ list' = RemoveFirst(list, t.key) /\ count' = count - 1
          /\ freed' = IF dispose THEN freed \cup {t.data} ELSE freed

\* dict_find reshapes the tree whether or not it finds the key.
DictFind(k) == root' = Splay(root, k) /\ UNCHANGED <<list, count, freed, made, it>>

\* dict_first, iter_next; the body of the loop may insert, find and remove
Iterate ==
  LET place == SelectInSeq(list, LAMBDA x : x = it) IN
  /\ it' = IF it = NULL THEN (IF list = <<>> THEN NULL ELSE Head(list))
           ELSE IF place = Len(list) THEN NULL ELSE list[place + 1]
  /\ UNCHANGED <<root, list, count, freed, made>>

RECURSIVE Subtree(_)
Subtree(t) == IF t = NULL THEN {} ELSE Subtree(t.l) \cup {t} \cup Subtree(t.r)

\* dict_delete frees along the list, then the dictionary is made anew.
DictDelete ==
  /\ it = NULL
  /\ freed' = freed \cup {t.data : t \in {u \in Subtree(root) : u.key \in ToSet(list)}}
  /\ root' = NULL /\ list' = <<>> /\ count' = 0 /\ UNCHANGED <<made, it>>

Next ==
  \/ \E k \in Keys : DictInsert(k)
  \/ \E k \in Keys, dispose \in BOOLEAN : DictRemove(k, dispose)
  \/ \E k \in Keys : DictFind(k)
  \/ Iterate \/ DictDelete

Spec == Init /\ [][Next]_vars

-----------------------------------------------------------------------------
(* Properties.                                                             *)

RECURSIVE InOrder(_)
InOrder(t) == IF t = NULL THEN <<>> ELSE InOrder(t.l) \o <<t.key>> \o InOrder(t.r)

\* What dict_sanity_check looks for, and more: the tree, read from left to
\* right, and the list along the next pointers are the same ascending keys,
\* and there are dict->count of them, after any splays, insertions, removals.
Sane ==
  /\ InOrder(root) = list /\ Len(list) = count
  /\ \A i \in 2..Len(list) : list[i - 1] < list[i]

\* Users of the dictionary see a map: no lookup, insertion or removal of one
\* key loses or frees another, and a loop that inserts and removes as it goes
\* meets the keys in order.
Contents == LET nodes == Subtree(root) IN
            [k \in {t.key : t \in nodes} |-> (CHOOSE t \in nodes : t.key = k).data]
Map == INSTANCE DictMap WITH map <- Contents
RefinesMap == Map!Spec
=============================================================================
