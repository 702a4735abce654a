-------------------------------- MODULE MemoServ -------------------------------
(***************************************************************************)
(* MemoServ: a memo is on the list of whom it was sent to and on that of   *)
(* who sent it; READ and DELETE count along the first, expiry goes along   *)
(* the second, and both go with their accounts, which may be renamed.      *)
(* A memo is known by a number, for its allocation.                        *)
(* Source: src/mod-memoserv.c.                                             *)
(***************************************************************************)
EXTENDS Integers, FiniteSets, Sequences, SequencesExt

CONSTANTS
  Handles, Names,
  Friends,   \* pairs of accounts with a channel in common, once seen there
  Memos,     \* allocations
  Expiry,    \* memoserv_conf.message_expiry, not 0
  MaxTime,
  NULL

VARIABLES
  name,    \* of each account, or NULL
  dict,    \* memos: the account a name leads to, or NULL
  private, \* accounts with MEMO_DENY_NONCHANNEL
  recvd,   \* of each account, oldest first
  sent,
  memo,    \* what is at each allocation, or NULL
  count,   \* memoCount
  timer,   \* when expire_memos is due
  now,
  by       \* history: who deleted last, and whether memos expired

vars == <<name, dict, private, recvd, sent, memo, count, timer, now, by>>
lists == <<recvd, sent, memo, count>>

Init ==
  /\ name \in {f \in [Handles -> Names] : \A h, i \in Handles : f[h] = f[i] => h = i}
  /\ dict = [n \in Names |-> NULL] /\ private = {} /\ recvd = [h \in Handles |-> <<>>]
  /\ sent = [h \in Handles |-> <<>>] /\ memo = [m \in Memos |-> NULL] /\ count = 0
  /\ timer = Expiry /\ now = 0 /\ by = {}

There == {h \in Handles : name[h] # NULL}

\* memoserv_get_account.
Known(hs) == [n \in Names |-> IF \E h \in hs : name[h] = n THEN CHOOSE h \in hs : name[h] = n ELSE dict[n]]

\* delete_memo, for each of ms.
Deleted(ms) ==
  /\ recvd' = [h \in Handles |-> SelectSeq(recvd[h], LAMBDA m : m \notin ms)]
  /\ sent'  = [h \in Handles |-> SelectSeq(sent[h], LAMBDA m : m \notin ms)]
  /\ memo'  = [m \in Memos |-> IF m \in ms THEN NULL ELSE memo[m]]
  /\ count' = count - Cardinality(ms)

-----------------------------------------------------------------------------
\* SEND, add_memo; memoserv_can_send.
CanSend(h, to) == h # to /\ (to \in private => <<h, to>> \in Friends)

Send(h, to, m) ==
  /\ {h, to} \subseteq There /\ memo[m] = NULL
  /\ dict' = Known({h, to})
  /\ IF CanSend(h, to)
       THEN /\ recvd' = [recvd EXCEPT ![to] = Append(@, m)] /\ sent' = [sent EXCEPT ![h] = Append(@, m)]
            /\ memo' = [memo EXCEPT ![m] = [from |-> h, to |-> to, sent |-> now, read |-> FALSE]]
            /\ count' = count + 1
       ELSE UNCHANGED lists
  /\ by' = {} /\ UNCHANGED <<name, private, timer, now>>

\* READ, and LIST and logging in, which only look.
Read(h, id) ==
  /\ h \in There /\ dict' = Known({h})
  /\ memo' = IF id \in DOMAIN recvd[h] THEN [memo EXCEPT ![recvd[h][id]].read = TRUE] ELSE memo
  /\ by' = {} /\ UNCHANGED <<name, private, recvd, sent, count, timer, now>>

\* DELETE, of one or of all.
Delete(h, ids) ==
  /\ h \in There /\ dict' = Known({h})
  /\ Deleted({recvd[h][i] : i \in ids \cap DOMAIN recvd[h]})
  /\ by' = {h} /\ UNCHANGED <<name, private, timer, now>>

\* SET PRIVATE, SET NOTIFY, SET AUTHNOTIFY: the flags.
SetPrivate(h, on) ==
  /\ h \in There /\ dict' = Known({h}) /\ by' = {}
  /\ private' = IF on THEN private \cup {h} ELSE private \ {h}
  /\ UNCHANGED <<name, lists, timer, now>>

TooOld(m) == now - memo[m].sent > Expiry

\* do_expire walks the sent memos of everybody who is known.
DoExpire == /\ Deleted({m \in Memos : memo[m] # NULL /\ TooOld(m)}) /\ by' = {"expiry"}
            /\ UNCHANGED <<name, dict, private, now>>
Expire      == DoExpire /\ UNCHANGED timer
ExpireMemos == timer <= now /\ DoExpire /\ timer' = now + Expiry

\* memoserv_rename_account.
Rename(h, n) ==
  /\ h \in There /\ (\A i \in There : name[i] # n)
  /\ name' = [name EXCEPT ![h] = n] /\ by' = {}
  /\ dict' = IF dict[name[h]] = NULL THEN dict ELSE [dict EXCEPT ![name[h]] = NULL, ![n] = dict[name[h]]]
  /\ UNCHANGED <<private, lists, timer, now>>

\* memoserv_unreg_account, delete_memo_account: what was received and what was
\* sent.
Unregister(h) ==
  /\ h \in There /\ name' = [name EXCEPT ![h] = NULL] /\ by' = {h}
  /\ Deleted(IF dict[name[h]] = NULL THEN {} ELSE Range(recvd[h]) \cup Range(sent[h]))
  /\ dict' = [dict EXCEPT ![name[h]] = NULL] /\ private' = private \ {h} /\ UNCHANGED <<timer, now>>
Register(h, n) ==
  /\ h \notin There /\ (\A i \in There : name[i] # n) /\ name' = [name EXCEPT ![h] = n]
  /\ by' = {} /\ UNCHANGED <<dict, private, lists, timer, now>>

\* The database has the accounts' flags and the memos each received.
Restart == /\ sent' = [h \in Handles |-> SetToSeq(Range(sent[h]))] /\ timer' = now + Expiry
           /\ by' = {} /\ UNCHANGED <<name, dict, private, recvd, memo, count, now>>

Tick == /\ now < MaxTime /\ now < timer /\ now' = now + 1
        /\ by' = {} /\ UNCHANGED <<name, dict, private, lists, timer>>

Next ==
  \/ \E h \in Handles :
       \/ \E to \in Handles, m \in Memos : Send(h, to, m)
       \/ \E id \in 1..Cardinality(Memos) : Read(h, id) \/ Delete(h, {id})
       \/ Delete(h, 1..Cardinality(Memos)) \/ Unregister(h)
       \/ \E n \in Names : Rename(h, n) \/ Register(h, n)
       \/ \E on \in BOOLEAN : SetPrivate(h, on)
  \/ Expire \/ ExpireMemos \/ Restart \/ Tick

Spec == Init /\ [][Next]_vars

-----------------------------------------------------------------------------
\* A name leads to the account that bears it; every memo is on the lists of its
\* two ends and nowhere else, both are there, and memos are counted right.
MemosExact ==
  /\ \A n \in Names : dict[n] # NULL => name[dict[n]] = n
  /\ \A h \in Handles :
       /\ IsInjective(recvd[h]) /\ Range(recvd[h]) = {m \in Memos : memo[m] # NULL /\ memo[m].to = h}
       /\ IsInjective(sent[h])  /\ Range(sent[h]) = {m \in Memos : memo[m] # NULL /\ memo[m].from = h}
  /\ \A m \in Memos : memo[m] # NULL => \A h \in {memo[m].from, memo[m].to} : h \in There /\ dict[name[h]] = h
  /\ count = Cardinality({m \in Memos : memo[m] # NULL})

\* A memo stays until its recipient deletes it, an end of it goes, or it is older
\* than Expiry; it is not unread again.
MemoKept(m) ==
  memo[m] # NULL =>
    \/ memo'[m] # NULL /\ memo'[m] = [memo[m] EXCEPT !.read = @ \/ memo'[m].read]
    \/ memo'[m] = NULL /\ by' = {memo[m].to}
    \/ memo'[m] = NULL /\ by' = {memo[m].from} /\ name'[memo[m].from] = NULL
    \/ memo'[m] = NULL /\ by' = {"expiry"} /\ now - memo[m].sent > Expiry
KeepsMemos == \A m \in Memos : MemoKept(m)
=============================================================================
