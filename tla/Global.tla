--------------------------------- MODULE Global --------------------------------
(***************************************************************************)
(* Global's notices, sent at once, and its messages, kept and shown to     *)
(* those who come, log in or oper up; a message may expire.  A message is  *)
(* known by its number.  Source: src/global.c.                             *)
(***************************************************************************)
EXTENDS Integers, Sequences, SequencesExt

CONSTANTS
  Users, Targets,  \* sets of "users", "opers", "helpers" and "channels"
  Base,            \* in which numbers are written: 10 in the code
  MaxMessages, Durations, MaxTime,
  Quiet            \* the 30 seconds between two alerts

VARIABLES
  online, opers, helpers,  \* helpers: the users of curr_helpers
  list,    \* messageList, newest first
  next,    \* messageCount
  timers,  \* queued message_expire: message and time
  alerted, \* last_max_alert; max_clients, max_clients_time
  shown,   \* what the last step sent: the messages each user got, one by one
  now

vars == <<online, opers, helpers, list, next, timers, alerted, shown, now>>
people == <<online, opers, helpers>>

Nothing == [u \in Users |-> <<>>]
Init ==
  /\ online = {} /\ opers = {} /\ helpers = {} /\ list = <<>> /\ next = 0 /\ timers = {}
  /\ alerted = [last |-> -1 - Quiet, record |-> 0, broken |-> -1 - Quiet] /\ shown = Nothing /\ now = 0

-----------------------------------------------------------------------------
\* message_send: "$*" is everybody, and then nobody else is told.
Audience(flags) ==
  IF "users" \in flags THEN online
  ELSE (IF "opers" \in flags THEN opers ELSE {}) \cup (IF "helpers" \in flags THEN helpers ELSE {})

\* Mutant: opers who are helpers are told as helpers, too.
Copies_Twice(flags, u) ==
  IF "users" \in flags THEN IF u \in online THEN 1 ELSE 0
  ELSE (IF "opers" \in flags /\ u \in opers THEN 1 ELSE 0)
       + IF "helpers" \in flags /\ u \in helpers THEN 1 ELSE 0

\* How often a user is told.
Copies(flags, u) ==
  IF "users" \in flags THEN IF u \in online THEN 1 ELSE 0
  ELSE (IF "opers" \in flags /\ u \in opers THEN 1 ELSE 0)
       + IF "helpers" \in flags /\ u \in helpers \ opers THEN 1 ELSE 0

\* NOTICE and global_message: a message that is sent and deleted.
Notice(flags) ==
  /\ next < MaxMessages /\ next' = next + 1
  /\ shown' = [u \in Users |-> [i \in 1..Copies(flags, u) |-> [id |-> next, flags |-> flags]]]
  /\ UNCHANGED <<people, list, timers, alerted, now>>

\* MESSAGE, message_add.
Message(flags, duration) ==
  /\ next < MaxMessages /\ next' = next + 1
  /\ list' = <<[id |-> next, flags |-> flags, posted |-> now, duration |-> duration]>> \o list
  /\ timers' = IF duration = 0 THEN timers ELSE timers \cup {[id |-> next, at |-> now + duration]}
  /\ shown' = Nothing /\ UNCHANGED <<people, alerted, now>>

\* message_del, for REMOVE and when it expires.
Deleted(id) == /\ list' = SelectSeq(list, LAMBDA m : m.id # id)
               /\ timers' = {t \in timers : t.id # id}
               /\ shown' = Nothing /\ UNCHANGED <<people, next, alerted, now>>
RemoveMessage(id)    == (\E i \in DOMAIN list : list[i].id = id) /\ Deleted(id)
MessageExpire == \E t \in timers : t.at <= now /\ Deleted(t.id)

-----------------------------------------------------------------------------
\* send_messages.
Matching(mask) == SelectSeq(list, LAMBDA m : m.flags \cap mask # {})
Shown(u, ms)   == shown' = [Nothing EXCEPT ![u] = ms]

\* AddUser (src/proto-p10.c).
Counted(n) == IF n > alerted.record THEN [alerted EXCEPT !.record = n, !.broken = now] ELSE alerted

\* global_process_user: those who come with a burst are shown nothing.  A record
\* broken just now is told to the opers, unless they were told of one just now.
NewUser(u, burst) ==
  LET counted == Counted(Cardinality(online'))
      alert   == ~burst /\ now - counted.broken <= Quiet /\ now - alerted.last > Quiet
  IN /\ u \notin online /\ online' = online \cup {u} /\ UNCHANGED <<opers, helpers, list, timers, now>>
     /\ alerted' = IF alert THEN [counted EXCEPT !.last = now] ELSE counted
     /\ (alert => next < MaxMessages) /\ next' = IF alert THEN next + 1 ELSE next
     /\ shown' = [o \in Users |-> IF o = u /\ ~burst THEN Matching({"users"})
                                 ELSE IF o \in opers /\ alert THEN <<[id |-> next, flags |-> {"opers"}]>>
                                 ELSE <<>>]

\* global_process_oper, global_process_auth.
Oper(u) == /\ u \in online \ opers /\ opers' = opers \cup {u} /\ Shown(u, Matching({"opers"}))
           /\ UNCHANGED <<online, helpers, list, next, timers, alerted, now>>
Auth(u) == /\ u \in online \ helpers /\ helpers' = helpers \cup {u} /\ Shown(u, Matching({"helpers"}))
           /\ UNCHANGED <<online, opers, list, next, timers, alerted, now>>
Quit(u) == /\ u \in online /\ online' = online \ {u} /\ opers' = opers \ {u} /\ helpers' = helpers \ {u}
           /\ shown' = Nothing /\ UNCHANGED <<list, next, timers, alerted, now>>

\* MESSAGES.
Messages(u) ==
  /\ u \in online
  /\ Shown(u, Matching({"users", "channels"} \cup (IF u \in opers THEN {"opers"} ELSE {})
                                             \cup (IF u \in helpers THEN {"helpers"} ELSE {})))
  /\ UNCHANGED <<people, list, next, timers, alerted, now>>

Digits(n) == IF n < Base THEN <<n>> ELSE <<n \div Base, n % Base>>
Before(a, b) == \/ Digits(a)[1] < Digits(b)[1]
                \/ Digits(a)[1] = Digits(b)[1] /\ a < b

\* The messages are read in the order of the texts of their numbers, which is
\* that of the dictionary, numbered anew, and last their whole duration again.
Restart ==
  LET n     == Len(list)
      order == SetToSortSeq(Range(list), LAMBDA a, b : Before(a.id, b.id))
  IN /\ online' = {} /\ opers' = {} /\ helpers' = {} /\ next' = n
     /\ list' = [i \in 1..n |-> [order[n - i + 1] EXCEPT !.id = n - i]]
     /\ timers' = {[id |-> m.id, at |-> now + m.duration] : m \in {m \in Range(list') : m.duration # 0}}
     /\ alerted' = [alerted EXCEPT !.last = -1 - Quiet] /\ shown' = Nothing /\ UNCHANGED now

Tick == /\ now < MaxTime /\ (\A t \in timers : t.at > now) /\ now' = now + 1
        /\ shown' = Nothing /\ UNCHANGED <<people, list, next, timers, alerted>>

Next ==
  \/ \E f \in Targets : Notice(f) \/ \E d \in Durations : Message(f, d)
  \/ \E id \in 0..MaxMessages-1 : RemoveMessage(id)
  \/ \E u \in Users : \/ Oper(u) \/ Auth(u) \/ Quit(u) \/ Messages(u)
                      \/ \E burst \in BOOLEAN : NewUser(u, burst)
  \/ MessageExpire \/ Restart \/ Tick

Spec == Init /\ [][Next]_vars

-----------------------------------------------------------------------------
\* Nobody is shown a message twice or one that is not for them, messages come
\* newest first (after a restart: last read first), and one that expires has one timer, no other has one.
MessagesExact ==
  /\ \A u \in Users : \A i, j \in DOMAIN shown[u] : i < j => shown[u][i].id > shown[u][j].id
  /\ \A u \in Users : \A i \in DOMAIN shown[u] : u \in Audience(shown[u][i].flags) \/ "channels" \in shown[u][i].flags
  /\ \A i, j \in DOMAIN list : i < j => list[i].id > list[j].id
  /\ {t.id : t \in timers} = {m.id : m \in {m \in Range(list) : m.duration # 0}}
  /\ Cardinality(timers) = Cardinality({t.id : t \in timers})
=============================================================================
