------------------------------- MODULE TimerBag -------------------------------
(***************************************************************************)
(* What the timer queue promises its users, without a heap: entries are    *)
(* armed and cancelled at will, and while entries are due an earliest one  *)
(* of them is fired, once, and its callback may arm and cancel others.     *)
(***************************************************************************)
EXTENDS Integers, Bags

CONSTANTS Entries, When(_), Selected(_, _), Selections, MaxTime, NULL

VARIABLES
  armed,   \* bag of entries
  fired,   \* the entry whose callback was called last in this run
  now,
  running  \* the queue is being run, nobody else is

vars == <<armed, fired, now, running>>

Init == armed = EmptyBag /\ fired = NULL /\ now \in 0..MaxTime /\ running = FALSE

Unselected(bag, sel) ==
  [e \in {x \in BagToSet(bag) : ~Selected(sel, x)} |-> bag[e]]

\* timeq_add
Arm(e) == When(e) > now /\ armed' = armed (+) SetToBag({e}) /\ UNCHANGED <<fired, now, running>>

\* timeq_del
Cancel(sel) == armed' = Unselected(armed, sel) /\ UNCHANGED <<fired, now, running>>

\* The main loop wakes up and runs the queue.
Wake == /\ ~running /\ now < MaxTime
        /\ \E t \in now..MaxTime : now' = t
        /\ running' = TRUE /\ UNCHANGED <<armed, fired>>

Earliest(e) == \A x \in BagToSet(armed) : When(e) <= When(x)

Fire == \E e \in BagToSet(armed) :
          /\ running /\ When(e) <= now /\ Earliest(e)
          /\ armed' = armed (-) SetToBag({e})
          /\ fired' = e
          /\ UNCHANGED <<now, running>>

Finish == /\ running /\ \A e \in BagToSet(armed) : When(e) > now
          /\ running' = FALSE /\ fired' = NULL /\ UNCHANGED <<armed, now>>

Next == \/ \E e \in Entries : Arm(e)
        \/ \E sel \in Selections : Cancel(sel)
        \/ Wake \/ Fire \/ Finish

\* The main loop neither stops nor leaves the queue before it is done.
Spec == Init /\ [][Next]_vars /\ WF_vars(Wake) /\ WF_vars(Fire) /\ WF_vars(Finish)
=============================================================================
