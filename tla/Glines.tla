-------------------------------- MODULE Glines --------------------------------
(***************************************************************************)
(* Network bans.  Each lies in a dictionary by its target and in a heap by *)
(* its lifetime; one timer drops what has outlived it.  Servers and staff  *)
(* set, change and end G-lines, the database brings them back.             *)
(* Source: src/gline.c, called by src/opserv.c, src/proto-p10.c and the    *)
(* modules that ban hosts.                                                 *)
(***************************************************************************)
EXTENDS Integers, FiniteSets, SequencesExt

CONSTANTS
  Targets,
  Durations,  \* for how long staff and modules ban
  MaxTime,    \* bound on the clock
  MaxLife,    \* bound on the times a server sends
  IntRange    \* how many values an int has

VARIABLES
  glines,  \* gline_dict: target -> [expires, lifetime, lastmod]
  heap,    \* gline_heap, of [target, lifetime]
  timers,  \* when gline_expire is armed for
  now

vars == <<glines, heap, timers, now>>

Times == 0..MaxTime + MaxLife
Entries == [expires : Times, lifetime : Times, lastmod : 0..MaxTime]

Init == glines = <<>> /\ heap = <<>> /\ timers = {} /\ now = 0

\* gline_comparator: the difference of two times, returned as an int
GlineComparator(a, b) ==
  ((a.lifetime - b.lifetime + IntRange \div 2) % IntRange) - IntRange \div 2
Heap == INSTANCE Heap WITH Comparator <- GlineComparator

Later(a, b) == IF a < b THEN b ELSE a

\* What gline_add asks before it arms the timer, of the heap as it was.
Rearms(before, lifetime) == before = <<>> \/ lifetime < before[1].lifetime

\* An older notice of the same G-line only lengthens what is remembered.
Updated(old, new) ==
  [(IF old.lastmod < new.lastmod THEN new ELSE old)
     EXCEPT !.lifetime = Later(old.lifetime, new.lifetime)]

\* heap_remove_pred with gline_equal_p, then heap_insert
Requeued(queue, t, ent) ==
  Heap!HeapInsert(Heap!HeapRemovePred(queue, {e \in ToSet(queue) : e.target = t}),
                  [target |-> t, lifetime |-> ent.lifetime])

\* gline_add, from one state [glines, heap, timers] to the next
GlineAdd(s, t, expires, lastmod, lifetime) ==
  LET new == [expires |-> expires, lifetime |-> Later(lifetime, expires), lastmod |-> lastmod]
      ent == IF t \in DOMAIN s.glines THEN Updated(s.glines[t], new) ELSE new IN
  [glines |-> [x \in DOMAIN s.glines \cup {t} |-> IF x = t THEN ent ELSE s.glines[x]],
   heap |-> Requeued(s.heap, t, ent),
   timers |-> IF Rearms(s.heap, ent.lifetime) THEN {ent.lifetime} ELSE s.timers]

Becomes(s) == glines' = s.glines /\ heap' = s.heap /\ timers' = s.timers
Current == [glines |-> glines, heap |-> heap, timers |-> timers]

-----------------------------------------------------------------------------
\* cmd_gline, opserv_block and the modules
Ban(t, duration) ==
  /\ Becomes(GlineAdd(Current, t, now + duration, now, 0))
  /\ UNCHANGED now

\* cmd_gline and cmd_num_gline of proto-p10.c; expires - now may wrap below
\* zero, and wraps back when now is added again
BanHeard(t, expires, lastmod, lifetime) ==
  /\ Becomes(GlineAdd(Current, t, expires, lastmod, lifetime))
  /\ UNCHANGED now

\* gline_remove, of staff or heard from a server: the G-line is remembered
GlineRemove(t) ==
  /\ t \in DOMAIN glines
  /\ glines' = [glines EXCEPT ![t].expires = now]
  /\ UNCHANGED <<heap, timers, now>>

\* gline_discrim_create.  A mask of whatever kind is the set of targets it
\* picks; "lastmod" and "lifetime" are times ago, "after" is a time to come.
Ago      == {now, now - 1} \cap Nat
Anything == MaxTime + MaxLife
Discrims == [ target_mask : SUBSET Targets, min_expire : {0, now, now + 1},
              min_lastmod : {0} \cup Ago, max_lastmod : {Anything} \cup Ago,
              min_lifetime : {0} \cup Ago, max_lifetime : {Anything} \cup Ago ]

GlineDiscrimMatch(t, d) ==
  /\ t \in d.target_mask /\ d.min_expire <= glines[t].expires
  /\ d.min_lastmod <= glines[t].lastmod /\ glines[t].lastmod <= d.max_lastmod
  /\ d.min_lifetime <= glines[t].lifetime /\ glines[t].lifetime <= d.max_lifetime

\* What a search may find within its limit.
Findable == {hits \in SUBSET DOMAIN glines : \E d \in Discrims : \A t \in hits : GlineDiscrimMatch(t, d)}

\* GTRACE UNGLINE: those found are ended when the search is over.
GtraceUngline(hits) ==
  /\ hits \in Findable
  /\ glines' = [t \in DOMAIN glines |-> IF t \in hits THEN [glines[t] EXCEPT !.expires = now] ELSE glines[t]]
  /\ UNCHANGED <<heap, timers, now>>

Over(ent) == ent.lifetime <= now

\* The loop of gline_expire: what is left of the heap, and what was popped.
RECURSIVE Outlived(_)
Outlived(queue) ==
  IF queue = <<>> \/ ~Over(queue[1]) THEN <<queue, {}>>
  ELSE LET rest == Outlived(Heap!HeapRemove(queue, 1)) IN
       <<rest[1], rest[2] \cup {queue[1].target}>>

GlineExpire ==
  /\ \E w \in timers :
       LET left == Outlived(heap) IN
       /\ w <= now
       /\ heap' = left[1]
       /\ glines' = [t \in DOMAIN glines \ left[2] |-> glines[t]]
       /\ timers' = (timers \ {w}) \cup (IF left[1] = <<>> THEN {} ELSE {left[1][1].lifetime})
  /\ UNCHANGED now

\* gline_add_record for one target after the other
RECURSIVE ReadAll(_, _)
ReadAll(s, rest) ==
  IF rest = {} THEN s
  ELSE LET t == CHOOSE x \in rest : TRUE
           ent == glines[t] IN
       ReadAll(GlineAdd(s, t, ent.expires, ent.lastmod, ent.lifetime), rest \ {t})

\* The process ends after it wrote the database (gline_saxdb_write); the
\* next one reads what has not outlived its lifetime.
Restart ==
  /\ Becomes(ReadAll([glines |-> <<>>, heap |-> <<>>, timers |-> {}],
                     {t \in DOMAIN glines : glines[t].lifetime > now}))
  /\ UNCHANGED now

Tick == now < MaxTime /\ now' = now + 1 /\ UNCHANGED <<glines, heap, timers>>

Next ==
  \/ \E t \in Targets, duration \in Durations : Ban(t, duration)
  \/ \E t \in Targets, expires \in 1..MaxLife, lastmod \in {0, now}, lifetime \in {0, MaxLife} :
       BanHeard(t, expires, lastmod, lifetime)
  \/ \E t \in Targets : GlineRemove(t)
  \/ \E hits \in SUBSET DOMAIN glines : GtraceUngline(hits)
  \/ GlineExpire \/ Restart \/ Tick

\* Timers that are due are run.
Spec == Init /\ [][Next]_vars /\ WF_vars(GlineExpire)

-----------------------------------------------------------------------------
(* Properties.                                                             *)

\* Heap and dictionary hold the same G-lines, each once (gline.c frees what
\* it pops), and while there is one the timer is armed no later than any
\* lifetime, through replacements, expiry and restarts (gline.c:96, 152).
OneTimerServesAll ==
  /\ Len(heap) = Cardinality(DOMAIN glines)
  /\ ToSet(heap) = {[target |-> t, lifetime |-> glines[t].lifetime] : t \in DOMAIN glines}
  /\ Cardinality(timers) <= 1
  /\ \A t \in DOMAIN glines : \E w \in timers : w <= glines[t].lifetime

\* A G-line that is in force is not forgotten: whatever was announced later
\* or out of order, it is remembered for at least as long as it bans, and
\* through a restart.
InForceKept ==
  [][\A t \in DOMAIN glines : glines[t].expires > now => t \in DOMAIN glines']_vars

\* A G-line that has outlived its lifetime is dropped or renewed.
OutlivedDropped ==
  \A t \in Targets :
    (t \in DOMAIN glines /\ glines[t].lifetime <= now)
      ~> (t \in DOMAIN glines => glines[t].lifetime > now)
=============================================================================
