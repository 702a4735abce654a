--------------------------------- MODULE Heap ---------------------------------
(***************************************************************************)
(* The binary heap behind the timer queue and the list of G-lines.         *)
(* Source: src/heap.c.  A heap is the sequence of its elements; indexes    *)
(* begin with 1 here and with 0 in the code.                               *)
(***************************************************************************)
EXTENDS Integers, SequencesExt

CONSTANT Comparator(_, _)  \* below, at or above 0

\* Moving a hole towards its place and swapping with what is in the way come
\* to the same.
Exchange(s, i, j) == [s EXCEPT ![i] = s[j], ![j] = s[i]]

\* heap_heapify_up
RECURSIVE HeapifyUp(_, _)
HeapifyUp(s, i) ==
  IF i > 1 /\ Comparator(s[i], s[i \div 2]) <= 0
  THEN HeapifyUp(Exchange(s, i, i \div 2), i \div 2) ELSE s

\* Where the element at i sinks to: its earlier child.
EarlierChild(s, i) ==
  IF 2 * i < Len(s) /\ Comparator(s[2 * i + 1], s[2 * i]) < 0 THEN 2 * i + 1 ELSE 2 * i

\* heap_heapify_down
RECURSIVE HeapifyDown(_, _)
HeapifyDown(s, i) ==
  IF 2 * i <= Len(s) /\ Comparator(s[i], s[EarlierChild(s, i)]) > 0
  THEN HeapifyDown(Exchange(s, i, EarlierChild(s, i)), EarlierChild(s, i)) ELSE s

HeapInsert(s, e) == HeapifyUp(Append(s, e), Len(s) + 1)

\* heap_remove: the last element takes the place of the removed one
HeapRemove(s, i) ==
  LET n == Len(s) - 1 IN
  IF i > n THEN SubSeq(s, 1, n)
  ELSE HeapifyUp(HeapifyDown([SubSeq(s, 1, n) EXCEPT ![i] = s[n + 1]], i), i)

\* Mutant: the scan goes on after a removal, behind the element that has
\* taken the place.
RECURSIVE ScanOn(_, _, _)
ScanOn(s, matching, i) ==
  IF i > Len(s) THEN s
  ELSE ScanOn(IF s[i] \in matching THEN HeapRemove(s, i) ELSE s, matching, i + 1)
HeapRemovePred_GoesOn(s, matching) == ScanOn(s, matching, 1)

\* heap_remove_pred: the scan starts over after each removal, so that it is
\* always the first match that goes
RECURSIVE HeapRemovePred(_, _)
HeapRemovePred(s, matching) ==
  LET match == {i \in DOMAIN s : s[i] \in matching}
      first == CHOOSE i \in match : \A j \in match : i <= j IN
  IF match = {} THEN s ELSE HeapRemovePred(HeapRemove(s, first), matching)
=============================================================================
