-------------------------------- MODULE Timers --------------------------------
(***************************************************************************)
(* The timer queue: a heap, from whose middle entries are removed while it *)
(* is scanned, and the loop that runs what is due.  Source: src/timeq.c,   *)
(* driven by ioset_run (src/ioset.c).  An entry is a record [when, func,   *)
(* data].                                                                  *)
(***************************************************************************)
EXTENDS Integers, SequencesExt

CONSTANTS
  Funcs,     \* callback functions
  Data,      \* what they are called with
  MaxTime,   \* bound on the clock
  MaxTimers, \* bound on the timers that are armed
  NULL

VARIABLES
  data,     \* heap->data
  fired,    \* the entry whose callback timeq_run has called last
  now,
  running   \* timeq_run has been called and has not returned

vars == <<data, fired, now, running>>

Entries == [when : 1..MaxTime, func : Funcs, data : Data]

\* The arguments of timeq_del; NULL stands for what its mask ignores.
Selections == [when : {NULL} \cup 1..MaxTime, func : Funcs \cup {NULL}, data : Data \cup {NULL}]

\* timeq_del_matching
Selected(sel, e) ==
  /\ sel.when \in {NULL, e.when} /\ sel.func \in {NULL, e.func} /\ sel.data \in {NULL, e.data}

\* The program starts at any time.
Init == data = <<>> /\ fired = NULL /\ now \in 0..MaxTime /\ running = FALSE

\* ulong_comparator
UlongComparator(a, b) == IF a.when < b.when THEN -1 ELSE IF a.when > b.when THEN 1 ELSE 0
Heap == INSTANCE Heap WITH Comparator <- UlongComparator

-----------------------------------------------------------------------------
(* The queue.  Whatever runs may arm and cancel timers: handlers while the *)
(* main loop polls, and callbacks, whose calls are steps between firings.  *)

\* Timers are armed for a later time: periods are not 0.
TimeqAdd(e) ==
  /\ Len(data) < MaxTimers /\ e.when > now
  /\ data' = Heap!HeapInsert(data, e)
  /\ UNCHANGED <<fired, now, running>>

TimeqDel(sel) ==
  /\ data' = Heap!HeapRemovePred(data, {e \in ToSet(data) : Selected(sel, e)})
  /\ UNCHANGED <<fired, now, running>>

\* timeq_next, 0 when there is no timer
TimeqNext == IF data = <<>> THEN 0 ELSE data[1].when

\* ioset_run: poll until the next timer or until something is readable, read
\* the clock, call timeq_run
Wake ==
  /\ ~running /\ now < MaxTime
  /\ \E t \in now..MaxTime : now' = t
  /\ running' = TRUE /\ UNCHANGED <<data, fired>>

\* One round of timeq_run's loop: peek, pop, call.
TimeqRun ==
  /\ running /\ data # <<>> /\ data[1].when <= now
  /\ data' = Heap!HeapRemove(data, 1)
  /\ fired' = data[1]
  /\ UNCHANGED <<now, running>>

\* The loop ends when there is no timer or the first is not due.
TimeqRunEnds ==
  /\ running /\ (data # <<>> => data[1].when > now)
  /\ running' = FALSE /\ fired' = NULL /\ UNCHANGED <<data, now>>

Next ==
  \/ \E e \in Entries : TimeqAdd(e)
  \/ \E sel \in Selections : TimeqDel(sel)
  \/ Wake \/ TimeqRun \/ TimeqRunEnds

\* ioset_run loops for as long as the program runs, timeq_run until nothing
\* is due.
Spec == Init /\ [][Next]_vars /\ WF_vars(Wake) /\ WF_vars(TimeqRun) /\ WF_vars(TimeqRunEnds)

-----------------------------------------------------------------------------
(* Properties.                                                             *)

\* Wherever elements are inserted and removed (heap.c): the root, which alone
\* timeq_next and timeq_run look at, is an earliest timer.
EarliestNext == \A i \in DOMAIN data : TimeqNext <= data[i].when

\* The heap is a bag of timers to its users: each is fired once, an earliest
\* one first, none before its time, and timeq_del removes exactly what
\* matches, whatever it moves in the array meanwhile.
EntryTime(e) == e.when
Bag == INSTANCE TimerBag WITH armed <- ToBag(data), When <- EntryTime
RefinesTimerBag == Bag!Spec
=============================================================================
