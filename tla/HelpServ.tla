------------------------------- MODULE HelpServ -------------------------------
(***************************************************************************)
(* HelpServ: the requests for help of one or more bots, and who answers    *)
(* them.  A request is reachable from its bot (hs->requests), from the     *)
(* nick of its user, from the account it belongs to and, while nobody has  *)
(* taken it, from the bot's queue; joins, parts, quits, renames, logins    *)
(* and changes of accounts all move it between these lists.                *)
(* Source: src/mod-helpserv.c, called from src/hash.c, src/proto-p10.c     *)
(* and src/nickserv.c.  `net' is what HelpServ sees of the network and of  *)
(* NickServ, `hs' everything it keeps itself; a handler is a function from *)
(* one hs to the next, so that handlers compose as their calls do.         *)
(* Texts, pages, voices and statistics are left out.                       *)
(***************************************************************************)
EXTENDS Integers, FiniteSets, SequencesExt

CONSTANTS
  Bots,         \* HelpServ bots, each with a help channel of its own
  Users,        \* connections
  Nicks,        \* nicks on the network
  Handles,      \* NickServ accounts
  Names,        \* the names accounts can have
  Levels,       \* the staff levels in use
  Opts,         \* what the options of a bot can be
  IdWrap,       \* hs->id_wrap, 0 when ids are not reused
  MaxRequests,  \* bound: requests ever opened
  Bound,        \* the operations this instance enables
  NULL

\* enum helpserv_level without HlNone and HlOper.
HlTrial == 1
HlHelper == 2
HlManager == 3
HlOwner == 4

Persistence == {"part", "quit", "close"}
Options == [req : Persistence, helper : Persistence, interval : BOOLEAN, on_join : BOOLEAN]

ASSUME HelpServAssumption ==
  /\ Levels \subseteq HlTrial..HlOwner
  /\ Opts \subseteq Options
  /\ IsFiniteSet(Bots) /\ IdWrap \in Nat /\ MaxRequests \in Nat
  /\ NULL \notin Bots \cup Users \cup Nicks \cup Handles \cup Names

VARIABLES
  net,  \* nick, handle_info and channels of the users; the name of each account
  hs    \* the bots' tables, the indexes of requests, the timers

vars == <<net, hs>>

\* A struct helpserv_request; parent_nick_list and parent_hand_list are not
\* NULL exactly when user and handle are not.
Requests == [hs : Bots, id : Nat, user : Users \cup {NULL}, handle : Handles \cup {NULL},
             helper : Handles \cup {NULL}, opened : Nat]

Init ==
  /\ \E nick \in [Users -> Nicks], name \in [Handles -> Names] :
       /\ IsInjective(nick) /\ IsInjective(name)
       /\ net = [nick |-> nick, name |-> name, acct |-> [u \in Users |-> NULL],
                 on |-> [u \in Users |-> {}]]
  /\ \E opt \in [Bots -> Opts], staff \in [Bots -> [Handles -> Levels \cup {0}]] :
       hs = [rec |-> <<>>, requests |-> [b \in Bots |-> <<>>],
             unhandled |-> [b \in Bots |-> <<>>], bynick |-> <<>>, byhand |-> <<>>,
             staff |-> [b \in Bots |->
                         [n \in {net.name[h] : h \in {g \in Handles : staff[b][g] # 0}} |->
                            staff[b][CHOOSE h \in Handles : net.name[h] = n]]],
             last |-> [b \in Bots |-> 0], opt |-> opt,
             empty |-> [b \in Bots |-> FALSE],
             timer |-> [b \in Bots |-> IF opt[b].interval THEN 1 ELSE 0],
             up |-> Bots, made |-> 0, now |-> 0]

-----------------------------------------------------------------------------
(* Dictionaries and lists.                                                 *)

Put(f, k, v) == [x \in DOMAIN f \cup {k} |-> IF x = k THEN v ELSE f[x]]
Drop(f, k) == [x \in DOMAIN f \ {k} |-> f[x]]
Listed(f, k) == IF k \in DOMAIN f THEN f[k] ELSE <<>>
Push(f, k, x) == Put(f, k, Append(Listed(f, k), x))

Online(n, u) == n.nick[u] # NULL
Registered(n, h) == n.name[h] # NULL
Sessions(n, h) == {u \in Users : n.acct[u] = h}

\* GetHSUser: the level h has with bot b, 0 when it has none.
Level(n, s, b, h) ==
  IF h # NULL /\ n.name[h] \in DOMAIN s.staff[b] THEN s.staff[b][n.name[h]] ELSE 0

\* find_handle_in_channel on the help channel of b.
Present(n, b, h) == \E u \in Sessions(n, h) : b \in n.on[u]

\* What Do does to s for every member of a list, one after the other.
Each(Do(_, _), s, list) ==
  LET done[i \in 0..Len(list)] == IF i = 0 THEN s ELSE Do(done[i - 1], list[i]) IN done[Len(list)]

\* The members of a list that are in S, in their order.
Only(list, S) ==
  LET kept[i \in 0..Len(list)] ==
        IF i = 0 THEN <<>> ELSE IF list[i] \in S THEN Append(kept[i - 1], list[i]) ELSE kept[i - 1] IN
  kept[Len(list)]

\* A dict_foreach over the requests of a bot, in the order of their ids.
ById(s, b) ==
  LET ids == DOMAIN s.requests[b]
      Nth(i) == CHOOSE id \in ids : Cardinality({j \in ids : j < id}) = i - 1 IN
  [i \in 1..Cardinality(ids) |-> s.requests[b][Nth(i)]]

\* The requests of a bot, and those of a connection.
RequestsAt(s, b) == {p \in DOMAIN s.rec : s.rec[p].hs = b}
RequestsOf(s, u) == {p \in DOMAIN s.rec : s.rec[p].user = u}

HelpersPresent(n, s, b) ==
  \E h \in Handles : Level(n, s, b, h) >= HlHelper /\ Present(n, b, h)

-----------------------------------------------------------------------------
(* The queue, and the alert that the help channel is unstaffed.            *)

\* The place of p in a list that is ordered by opening time.
QueuePlace(s, queue, p) ==
  CHOOSE k \in 1..(Len(queue) + 1) :
    /\ k = Len(queue) + 1 \/ s.rec[queue[k]].opened >= s.rec[p].opened
    /\ \A j \in 1..(k - 1) : s.rec[queue[j]].opened < s.rec[p].opened

\* helpserv_page_helper_gone
HelperGone(s, p) ==
  LET b == s.rec[p].hs IN
  IF s.rec[p].helper = NULL THEN s ELSE
  [s EXCEPT !.rec[p].helper = NULL,
            !.unhandled[b] = InsertAt(s.unhandled[b], QueuePlace(s, s.unhandled[b], p), p)]

\* Every request of b that h helps with goes back to the queue.
Unassign(s, b, h) ==
  Each(LAMBDA t, p : IF t.rec[p].helper = h THEN HelperGone(t, p) ELSE t, s, ById(s, b))

\* Mutant: with REQONJOIN the alert stops although somebody waits.
RunEmpty_OnJoinStops(n, s, b) ==
  IF HelpersPresent(n, s, b) THEN [s EXCEPT !.empty[b] = FALSE]
  ELSE IF s.opt[b].on_join \/ ~s.opt[b].interval
       THEN [s EXCEPT !.empty[b] = TRUE]
       ELSE [s EXCEPT !.empty[b] = TRUE, !.timer[b] = s.timer[b] + 1]

\* run_empty_interval, called by its timer or while none is armed
RunEmpty(n, s, b) ==
  IF HelpersPresent(n, s, b) THEN [s EXCEPT !.empty[b] = FALSE]
  ELSE IF \/ s.opt[b].on_join /\ s.unhandled[b] = <<>>
          \/ ~s.opt[b].interval
       THEN [s EXCEPT !.empty[b] = TRUE]
       ELSE [s EXCEPT !.empty[b] = TRUE, !.timer[b] = s.timer[b] + 1]

-----------------------------------------------------------------------------
(* Opening and freeing a request.                                          *)

\* Mutant: the request is left in the list of its account.
FreeRequest_KeepsHandList(n, s, p) ==
  LET r == s.rec[p]
      list == s.bynick[n.nick[r.user]] IN
  [s EXCEPT !.rec = Drop(s.rec, p),
            !.unhandled[r.hs] = RemoveFirst(s.unhandled[r.hs], p),
            !.bynick = IF r.user = NULL THEN s.bynick
                       ELSE IF Len(list) = 1 THEN Drop(s.bynick, n.nick[r.user])
                       ELSE Put(s.bynick, n.nick[r.user], RemoveFirst(list, p))]

\* free_request, after the request left hs->requests
FreeRequest(n, s, p) ==
  LET r == s.rec[p]
      Without(f, k) == IF Len(f[k]) = 1 THEN Drop(f, k) ELSE Put(f, k, RemoveFirst(f[k], p)) IN
  [s EXCEPT !.rec = Drop(s.rec, p),
            !.unhandled[r.hs] = RemoveFirst(s.unhandled[r.hs], p),
            !.bynick = IF r.user = NULL THEN s.bynick ELSE Without(s.bynick, n.nick[r.user]),
            !.byhand = IF r.handle = NULL THEN s.byhand ELSE Without(s.byhand, n.name[r.handle])]

\* dict_remove(hs->requests, id)
RemoveRequest(n, s, p) ==
  LET r == s.rec[p] IN
  FreeRequest(n, [s EXCEPT !.requests[r.hs] = Drop(s.requests[r.hs], r.id)], p)

\* The id after which the next one is counted, once id has been taken.
LastId(taken, id) ==
  LET Free(from) == {i \in from..(IdWrap - 1) : i \notin taken}
      First(I) == CHOOSE i \in I : \A j \in I : i <= j
      higher == IF id < IdWrap /\ Free(id) # {} THEN First(Free(id)) - 1 ELSE id IN
  IF IdWrap = 0 THEN id
  ELSE IF higher >= IdWrap /\ Free(1) # {} THEN First(Free(1)) - 1 ELSE higher

\* create_request at time `when', outside a burst; dict_insert frees the
\* request whose id is reused
CreateRequest(n, s, u, b, when) ==
  LET p == s.made + 1
      id == s.last[b] + 1
      clash == id \in DOMAIN s.requests[b]
      old == IF clash THEN FreeRequest(n, s, s.requests[b][id]) ELSE s
      rec == [hs |-> b, id |-> id, user |-> u, handle |-> n.acct[u], helper |-> NULL, opened |-> when]
      new == [old EXCEPT
                !.rec = Put(old.rec, p, rec), !.made = p, !.now = when,
                !.requests[b] = Put(old.requests[b], id, p),
                !.last[b] = LastId(DOMAIN old.requests[b] \cup {id}, id),
                !.unhandled[b] = Append(old.unhandled[b], p),
                !.bynick = Push(old.bynick, n.nick[u], p),
                !.byhand = IF n.acct[u] = NULL THEN old.byhand
                           ELSE Push(old.byhand, n.name[n.acct[u]], p)] IN
  IF new.opt[b].on_join /\ new.unhandled[b] = <<p>> /\ new.empty[b]
  THEN RunEmpty(n, [new EXCEPT !.timer[b] = 0], b)
  ELSE new

\* Opening takes place now, or in a later second.
Opens(n, s, u, b) ==
  IF s.made < MaxRequests THEN {CreateRequest(n, s, u, b, t) : t \in {s.now, s.now + 1}} ELSE {}

\* The most recently opened of a list, the first of those of one second.
MostRecent(s, list) ==
  LET newer == {i \in DOMAIN list : \A j \in DOMAIN list :
                  \/ s.rec[list[j]].opened < s.rec[list[i]].opened
                  \/ s.rec[list[j]].opened = s.rec[list[i]].opened /\ j >= i} IN
  IF list = <<>> THEN NULL ELSE list[CHOOSE i \in newer : TRUE]

\* A request of the account becomes one of this connection.
Adopt(n, s, p, u) ==
  [s EXCEPT !.rec[p].user = u, !.bynick = Push(s.bynick, n.nick[u], p)]

\* associate_requests_bybot: the requests of the account nobody brought back
Associate(n, s, u, b) ==
  LET mine == IF n.acct[u] = NULL THEN <<>> ELSE Listed(s.byhand, n.name[n.acct[u]])
      stray == Only(mine, RequestsAt(s, b) \cap RequestsOf(s, NULL)) IN
  Each(LAMBDA t, p : Adopt(n, t, p, u), s, stray)

\* associate_requests_bychan for every channel the user is on
AssociateAll(n, s, u) ==
  Each(LAMBDA t, b : Associate(n, t, u, b), s, SetToSeq(n.on[u]))

-----------------------------------------------------------------------------
(* What a user says, and what happens to a user.                           *)

\* helpserv_usermsg: the message goes to the request of the user, one the
\* account left behind, or a new one
UserMsg(n, s, u, b) ==
  LET known == MostRecent(s, Only(Listed(s.bynick, n.nick[u]), RequestsAt(s, b)))
      kept == IF n.acct[u] = NULL THEN NULL
              ELSE MostRecent(s, Only(Listed(s.byhand, n.name[n.acct[u]]), RequestsAt(s, b) \cap RequestsOf(s, NULL))) IN
  IF known # NULL THEN {s}
  ELSE IF kept # NULL THEN {Adopt(n, s, kept, u)}
  ELSE IF s.opt[b].req = "part" /\ b \notin n.on[u] THEN {s}
  ELSE Opens(n, s, u, b)

\* handle_join, u being on the channel already
HandleJoin(n, s, u, b) ==
  LET level == Level(n, s, b, n.acct[u])
      met == Associate(n, s, u, b) IN
  IF level >= HlHelper /\ s.opt[b].interval /\ s.empty[b]
    THEN {[s EXCEPT !.empty[b] = FALSE, !.timer[b] = 0]}
  ELSE IF level > 0 THEN {s}
  ELSE IF /\ met.opt[b].on_join
          /\ \A p \in ToSet(Listed(met.bynick, n.nick[u])) : met.rec[p].hs # b
    THEN Opens(n, met, u, b)
  ELSE {met}

\* The last helper has left: the flag is set and the alert is started over.
HelperLeft(n, s, b) ==
  IF HelpersPresent(n, s, b) THEN [s EXCEPT !.empty[b] = FALSE]
  ELSE IF s.unhandled[b] # <<>> \/ ~s.opt[b].on_join
    THEN [s EXCEPT !.empty[b] = TRUE, !.timer[b] = 1]
  ELSE [s EXCEPT !.empty[b] = TRUE]

\* Mutant: nothing is done while another session of the account is present.
HandlePart_SessionStays(n, s, u, b) ==
  LET mine == Only(ById(s, b), RequestsOf(s, u))
      h == n.acct[u] IN
  IF h # NULL /\ Present(n, b, h) THEN s
  ELSE IF s.opt[b].req = "part" /\ mine # <<>> THEN RemoveRequest(n, s, Head(mine))
  ELSE s

\* handle_part, u having left the channel already: one request of each bot
\* may be dropped
HandlePart(n, s, u, b) ==
  LET mine == Only(ById(s, b), RequestsOf(s, u))
      dropped == IF s.opt[b].req = "part" /\ mine # <<>> THEN RemoveRequest(n, s, Head(mine)) ELSE s
      h == n.acct[u]
      freed == IF s.opt[b].helper = "part" THEN Unassign(dropped, b, h) ELSE dropped IN
  IF Level(n, s, b, h) = 0 \/ Present(n, b, h) THEN dropped
  ELSE IF s.opt[b].interval /\ Level(n, s, b, h) >= HlHelper THEN HelperLeft(n, freed, b)
  ELSE freed

\* Mutant: the request is dropped whatever REQPERSIST says.
UserGone_Drops(n, s, p) == RemoveRequest(n, s, p)

\* A request of a user who disconnects: dropped, or kept for the account.
UserGone(n, s, p) ==
  LET r == s.rec[p]
      nick == n.nick[r.user] IN
  IF s.opt[r.hs].req = "quit" \/ r.handle = NULL THEN RemoveRequest(n, s, p)
  ELSE [s EXCEPT !.rec[p].user = NULL, !.bynick[nick] = RemoveFirst(s.bynick[nick], p)]

\* handle_quit, while user->handle_info is still set
HandleQuit(n, s, u) ==
  LET left == Each(LAMBDA t, p : UserGone(n, t, p), s, Listed(s.bynick, n.nick[u]))
      forgotten == [left EXCEPT !.bynick = Drop(left.bynick, n.nick[u])]
      h == n.acct[u]
      Reopen(t, b) == IF t.opt[b].helper = "quit" /\ Level(n, t, b, h) > 0
                      THEN Unassign(t, b, h) ELSE t IN
  IF h = NULL \/ Sessions(n, h) # {u} THEN forgotten
  ELSE Each(Reopen, forgotten, SetToSeq(Bots))

\* handle_nickchange
HandleNickChange(s, old, new) ==
  IF old \notin DOMAIN s.bynick THEN s
  ELSE [s EXCEPT !.bynick = Put(Drop(s.bynick, old), new, s.bynick[old])]

-----------------------------------------------------------------------------
(* What happens to an account.                                             *)

\* handle_nickserv_rename: the lists follow the account to its new name
HandleRename(s, old, new) ==
  LET Moved(f) == IF old \in DOMAIN f THEN Put(Drop(f, old), new, f[old]) ELSE f IN
  [s EXCEPT !.byhand = Moved(s.byhand), !.staff = [b \in Bots |-> Moved(s.staff[b])]]

\* Requests that go with their user from account old to another.
Movable(s, old) == {p \in DOMAIN s.rec : old = NULL \/ s.opt[s.rec[p].hs].req # "close"}

\* Mutant: a request that stays with the old account keeps its user.
HandleAuth_KeepsUser(n, s, u, old) ==
  LET h == n.acct[u]
      nick == n.nick[u]
      list == Listed(s.bynick, nick)
      Leave(f, p) == IF old = NULL \/ n.name[old] \notin DOMAIN f THEN f
                     ELSE IF Len(f[n.name[old]]) = 1 THEN Drop(f, n.name[old])
                     ELSE Put(f, n.name[old], RemoveFirst(f[n.name[old]], p))
      Move(t, p) == [t EXCEPT !.rec[p].handle = h,
                              !.byhand = Leave(Push(t.byhand, n.name[h], p), p)]
      moved == Each(Move, s, Only(list, Movable(s, old))) IN
  IF h = NULL THEN s ELSE AssociateAll(n, moved, u)

\* handle_nickserv_auth: the open requests follow the user to the account,
\* except those that only a helper can close
HandleAuth(n, s, u, old) ==
  LET h == n.acct[u]
      nick == n.nick[u]
      list == Listed(s.bynick, nick)
      moving == Only(list, Movable(s, old))
      stuck == Only(list, DOMAIN s.rec \ Movable(s, old))
      Leave(f, p) == IF old = NULL \/ n.name[old] \notin DOMAIN f THEN f
                     ELSE IF Len(f[n.name[old]]) = 1 THEN Drop(f, n.name[old])
                     ELSE Put(f, n.name[old], RemoveFirst(f[n.name[old]], p))
      Move(t, p) == [t EXCEPT !.rec[p].handle = h,
                              !.byhand = Leave(Push(t.byhand, n.name[h], p), p)]
      Stick(t, p) == [t EXCEPT !.rec[p].user = NULL]
      begun == [s EXCEPT !.byhand = Put(s.byhand, n.name[h], Listed(s.byhand, n.name[h]))]
      moved == Each(Move, begun, moving)
      split == Each(Stick, moved, stuck) IN
  IF h = NULL THEN s
  ELSE IF nick \notin DOMAIN s.bynick THEN AssociateAll(n, s, u)
  ELSE AssociateAll(n, [split EXCEPT !.bynick =
         IF stuck = list THEN Drop(s.bynick, nick)
         ELSE Put(s.bynick, nick, moving)], u)

\* free_user, by helpserv_del_user or with the account
FreeUser(n, s, b, h) ==
  LET t == Unassign(s, b, h) IN [t EXCEPT !.staff[b] = Drop(t.staff[b], n.name[h])]

\* A request of an account that is unregistered by `actor' (NULL: by nobody).
Orphan(n, s, p, actor, h, session) ==
  LET t == [s EXCEPT !.rec[p].handle = NULL,
                     !.byhand[n.name[h]] = RemoveFirst(s.byhand[n.name[h]], p)] IN
  IF s.rec[p].user # NULL THEN t
  ELSE IF actor # NULL /\ n.acct[actor] = h THEN Adopt(n, t, p, actor)
  ELSE IF actor # NULL /\ session # NULL THEN Adopt(n, t, p, session)
  ELSE RemoveRequest(n, t, p)

\* handle_nickserv_unreg; `session' is handle->users
HandleUnreg(n, s, actor, h, session) ==
  LET sacked == Each(LAMBDA t, b : IF Level(n, t, b, h) > 0 THEN FreeUser(n, t, b, h) ELSE t,
                         s, SetToSeq(Bots))
      orphaned == Each(LAMBDA t, p : Orphan(n, t, p, actor, h, session), sacked,
                           Listed(sacked.byhand, n.name[h])) IN
  [orphaned EXCEPT !.byhand = Drop(orphaned.byhand, n.name[h])]

\* handle_nickserv_merge
HandleMerge(n, s, to, from) ==
  LET list == Listed(s.byhand, n.name[from])
      Give(t, p) == [t EXCEPT !.rec[p].handle = to, !.byhand = Push(t.byhand, n.name[to], p)]
      given == Each(Give, s, list) IN
  [given EXCEPT !.byhand = Drop(given.byhand, n.name[from])]

\* nickserv_unregister_handle as far as HelpServ sees it
Unregistered(n, h) ==
  [n EXCEPT !.acct = [u \in Users |-> IF n.acct[u] = h THEN NULL ELSE n.acct[u]],
            !.name[h] = NULL]

-----------------------------------------------------------------------------
(* The network and NickServ.                                               *)

FreeNicks == Nicks \ {net.nick[u] : u \in Users}
FreeNames == Names \ {net.name[h] : h \in Handles}

Connect(u) ==
  /\ ~Online(net, u)
  /\ \E nick \in FreeNicks : net' = [net EXCEPT !.nick[u] = nick]
  /\ UNCHANGED hs

Join(u, b) ==
  /\ Online(net, u) /\ b \notin net.on[u]
  /\ net' = [net EXCEPT !.on[u] = net.on[u] \cup {b}]
  /\ IF b \in hs.up THEN hs' \in HandleJoin(net', hs, u, b) ELSE UNCHANGED hs

\* DelChannelUser: the member is gone when the handlers run
Leaves(n, s, u, b) ==
  LET after == [n EXCEPT !.on[u] = n.on[u] \ {b}] IN
  [n |-> after, s |-> IF b \in s.up THEN HandlePart(after, s, u, b) ELSE s]

Part(u, b) ==
  /\ b \in net.on[u]
  /\ LET left == Leaves(net, hs, u, b) IN net' = left.n /\ hs' = left.s

\* DelUser: the channels first, then HelpServ's handler, then NickServ's
Quit(u) ==
  /\ "QUIT" \in Bound /\ Online(net, u)
  /\ LET left == Each(LAMBDA x, b : Leaves(x.n, x.s, u, b), [n |-> net, s |-> hs],
                          SetToSeq(net.on[u])) IN
     /\ hs' = HandleQuit(left.n, left.s, u)
     /\ net' = [left.n EXCEPT !.nick[u] = NULL, !.acct[u] = NULL]

NickChange(u, nick) ==
  /\ "NICK" \in Bound /\ Online(net, u) /\ nick \in FreeNicks
  /\ net' = [net EXCEPT !.nick[u] = nick]
  /\ hs' = HandleNickChange(hs, net.nick[u], nick)

Auth(u, h) ==
  /\ "AUTH" \in Bound /\ Online(net, u) /\ Registered(net, h) /\ net.acct[u] # h
  /\ net' = [net EXCEPT !.acct[u] = h]
  /\ hs' = HandleAuth(net', hs, u, net.acct[u])

Rename(h, name) ==
  /\ "RENAME" \in Bound /\ Registered(net, h) /\ name \in FreeNames
  /\ net' = [net EXCEPT !.name[h] = name]
  /\ hs' = HandleRename(hs, net.name[h], name)

\* By the user, by an operator, or (actor = NULL) by the expiry of accounts
\* nobody is logged in to.
Unregister(actor, h) ==
  /\ "UNREG" \in Bound /\ Registered(net, h)
  /\ IF actor = NULL THEN Sessions(net, h) = {} ELSE Online(net, actor)
  /\ \E session \in IF Sessions(net, h) = {} THEN {NULL} ELSE Sessions(net, h) :
       hs' = HandleUnreg(net, hs, actor, h, session)
  /\ net' = Unregistered(net, h)

\* cmd_merge: the sessions move without a call of the auth functions
Merge(to, from) ==
  /\ "MERGE" \in Bound /\ to # from /\ Registered(net, to) /\ Registered(net, from)
  /\ LET joined == [net EXCEPT !.acct = [u \in Users |->
                      IF net.acct[u] = from THEN to ELSE net.acct[u]]] IN
     /\ hs' = HandleUnreg(joined, HandleMerge(net, hs, to, from), NULL, from, NULL)
     /\ net' = Unregistered(joined, from)

\* An account nobody uses is registered again.
Register(h, name) ==
  /\ "UNREG" \in Bound /\ ~Registered(net, h) /\ name \in FreeNames
  /\ net' = [net EXCEPT !.name[h] = name]
  /\ UNCHANGED hs

-----------------------------------------------------------------------------
(* Commands.                                                               *)

StaffOf(u, b) == Online(net, u) /\ b \in hs.up /\ Level(net, hs, b, net.acct[u]) > 0

Speak(u, b) ==
  /\ Online(net, u) /\ b \in hs.up /\ Level(net, hs, b, net.acct[u]) = 0
  /\ hs' \in UserMsg(net, hs, u, b)
  /\ UNCHANGED net

\* helpserv_assign
Assign(u, b, p, actor) ==
  /\ \/ hs.opt[b].helper # "part" \/ b \in net.on[u]
     \/ Level(net, hs, b, net.acct[actor]) >= HlManager
  /\ hs' = [hs EXCEPT !.rec[p].helper = net.acct[u],
                      !.unhandled[b] = RemoveFirst(hs.unhandled[b], p)]
  /\ UNCHANGED net

NextRequest(u, b) ==
  /\ StaffOf(u, b) /\ hs.unhandled[b] # <<>>
  /\ Assign(u, b, Head(hs.unhandled[b]), u)

\* The request is named by its id, which reaches every request of the bot.
Pickup(u, b, p) == StaffOf(u, b) /\ p \in ToSet(ById(hs, b)) /\ Assign(u, b, p, u)

Reassign(u, b, p, target) ==
  /\ StaffOf(u, b) /\ Level(net, hs, b, net.acct[u]) >= HlManager
  /\ p \in ToSet(ById(hs, b)) /\ StaffOf(target, b)
  /\ Assign(target, b, p, u)

Close(u, b, p) ==
  /\ StaffOf(u, b) /\ p \in ToSet(ById(hs, b))
  /\ Level(net, hs, b, net.acct[u]) >= HlManager \/ hs.rec[p].helper = net.acct[u]
  /\ hs' = RemoveRequest(net, hs, p)
  /\ UNCHANGED net

\* The caller may give, change or take a level: an operator through OpServ
\* (NULL), or a manager of the bot who outranks it.
MayManage(u, b, level) ==
  /\ "STAFF" \in Bound /\ b \in hs.up
  /\ u # NULL => /\ StaffOf(u, b)
                 /\ Level(net, hs, b, net.acct[u]) >= HlManager
                 /\ Level(net, hs, b, net.acct[u]) > level

AddUser(u, b, h, level) ==
  /\ MayManage(u, b, level) /\ Registered(net, h) /\ Level(net, hs, b, h) = 0
  /\ hs' = [hs EXCEPT !.staff[b] = Put(hs.staff[b], net.name[h], level)]
  /\ UNCHANGED net

DelUser(u, b, h) ==
  /\ Registered(net, h) /\ Level(net, hs, b, h) > 0
  /\ MayManage(u, b, Level(net, hs, b, h))
  /\ hs' = FreeUser(net, hs, b, h)
  /\ UNCHANGED net

Clvl(u, b, h, level) ==
  /\ Registered(net, h) /\ Level(net, hs, b, h) > 0
  /\ MayManage(u, b, Level(net, hs, b, h)) /\ MayManage(u, b, level)
  /\ hs' = [hs EXCEPT !.staff[b][net.name[h]] = level]
  /\ UNCHANGED net

\* cmd_giveownership: through OpServ only while there is at most one owner
GiveOwnership(u, b, h) ==
  LET level(g) == Level(net, hs, b, g)
      owners == {g \in Handles : Registered(net, g) /\ level(g) = HlOwner}
      old == IF u = NULL THEN owners ELSE {net.acct[u]} IN
  /\ "STAFF" \in Bound /\ b \in hs.up /\ Registered(net, h) /\ level(h) > 0
  /\ IF u = NULL THEN Cardinality(owners) <= 1
     ELSE StaffOf(u, b) /\ level(net.acct[u]) >= HlOwner /\ h # net.acct[u]
  /\ hs' = [hs EXCEPT !.staff[b] = [x \in DOMAIN hs.staff[b] |->
                        IF x = net.name[h] THEN HlOwner
                        ELSE IF \E g \in old : net.name[g] = x THEN HlManager
                        ELSE hs.staff[b][x]]]
  /\ UNCHANGED net

\* cmd_set: the persistence options and REQONJOIN are assigned; EMPTYINTERVAL
\* starts and stops the alert as well
SetOption(b, o) ==
  /\ "SET" \in Bound /\ b \in hs.up /\ o # hs.opt[b]
  /\ hs' = [hs EXCEPT !.opt[b] = o,
              !.timer[b] = CASE o.interval /\ ~hs.opt[b].interval -> hs.timer[b] + 1
                             [] ~o.interval /\ hs.opt[b].interval -> 0
                             [] o.interval = hs.opt[b].interval -> hs.timer[b]]
  /\ UNCHANGED net

\* timeq_run takes the entry out of the queue and calls the function.
EmptyAlert(b) ==
  /\ hs.timer[b] > 0
  /\ hs' = RunEmpty(net, [hs EXCEPT !.timer[b] = hs.timer[b] - 1], b)
  /\ UNCHANGED net

\* helpserv_unregister: timers, requests, then users
UnregisterBot(b) ==
  /\ "BOTS" \in Bound /\ b \in hs.up
  /\ LET freed == Each(LAMBDA t, p : FreeRequest(net, t, p), hs, ById(hs, b)) IN
     hs' = [freed EXCEPT !.requests[b] = <<>>, !.staff[b] = <<>>, !.timer[b] = 0,
                         !.last[b] = 0, !.empty[b] = FALSE, !.up = hs.up \ {b}]
  /\ UNCHANGED net

\* cmd_register; the bot begins with calloc's options
RegisterBot(b, h) ==
  /\ "BOTS" \in Bound /\ b \notin hs.up /\ Registered(net, h)
  /\ hs' = [hs EXCEPT !.up = hs.up \cup {b}, !.staff[b] = Put(<<>>, net.name[h], HlOwner),
              !.opt[b] = [req |-> "part", helper |-> "part", interval |-> FALSE, on_join |-> FALSE]]
  /\ UNCHANGED net

-----------------------------------------------------------------------------
(* Leaving and coming back: what the database keeps.                       *)

\* The requests helpserv_bot_write writes for b.
Written(s, b) ==
  IF s.opt[b].req = "close"
  THEN Only(ById(s, b), {p \in DOMAIN s.rec : s.rec[p].handle # NULL}) ELSE <<>>

\* Mutant: a request that is read without a helper is not queued.
ReadRequest_NotQueued(n, s, b, p, r) ==
  LET filed == [s EXCEPT !.byhand = Push(s.byhand, n.name[r.handle], p)] IN
  IF ~Registered(n, r.handle) THEN s
  ELSE [filed EXCEPT !.rec = Put(filed.rec, p, [r EXCEPT !.user = NULL]),
                     !.requests[b] = Put(filed.requests[b], r.id, p)]

\* request_read_helper for what was written of request r; a request whose
\* helper is unknown is freed after it has been filed
ReadRequest(n, s, b, p, r) ==
  LET filed == [s EXCEPT !.byhand = Push(s.byhand, n.name[r.handle], p)]
      kept == [filed EXCEPT !.rec = Put(filed.rec, p, [r EXCEPT !.user = NULL]),
                            !.requests[b] = Put(filed.requests[b], r.id, p)]
      queue == s.unhandled[b]
      place == IF queue # <<>> /\ s.rec[Head(queue)].opened > r.opened THEN 1
               ELSE CHOOSE k \in 2..(Len(queue) + 1) :
                      /\ k = Len(queue) + 1 \/ s.rec[queue[k]].opened >= r.opened
                      /\ \A j \in 2..(k - 1) : s.rec[queue[j]].opened < r.opened IN
  IF ~Registered(n, r.handle) THEN s
  ELSE IF r.helper = NULL THEN
    [kept EXCEPT !.unhandled[b] = IF queue = <<>> THEN <<p>> ELSE InsertAt(queue, place, p)]
  ELSE IF Level(n, s, b, r.helper) = 0 THEN filed
  ELSE kept

\* HelpServ after a restart that reads what it wrote at exit, while NickServ
\* knows the accounts of n.
ReadBack(n, s) ==
  LET known == {n.name[h] : h \in Handles}
      Kept(f) == [x \in DOMAIN f \cap known |-> f[x]]
      bots == [s EXCEPT !.rec = <<>>, !.requests = [b \in Bots |-> <<>>],
                        !.unhandled = [b \in Bots |-> <<>>], !.bynick = <<>>, !.byhand = <<>>,
                        !.staff = [b \in Bots |-> Kept(s.staff[b])],
                        !.empty = [b \in Bots |-> FALSE],
                        !.timer = [b \in Bots |-> IF b \in s.up /\ s.opt[b].interval THEN 1 ELSE 0]]
      ReadBot(t, b) == Each(LAMBDA x, p : ReadRequest(n, x, b, p, s.rec[p]), t, Written(s, b)) IN
  Each(ReadBot, bots, SetToSeq(s.up))

\* The network as it is at a restart that lost some accounts.
Restarted(lost) ==
  [nick |-> [u \in Users |-> NULL], acct |-> [u \in Users |-> NULL],
   on |-> [u \in Users |-> {}],
   name |-> [h \in Handles |-> IF h \in lost THEN NULL ELSE net.name[h]]]

Restart ==
  /\ "RESTART" \in Bound
  /\ net' = Restarted({})
  /\ hs' = ReadBack(net', hs)

-----------------------------------------------------------------------------
Live == DOMAIN hs.rec

UserAct(u) ==
  \/ Connect(u) \/ Quit(u)
  \/ \E b \in Bots : Join(u, b) \/ Part(u, b) \/ Speak(u, b)
  \/ \E nick \in Nicks : NickChange(u, nick)
  \/ \E h \in Handles : Auth(u, h)

AccountAct ==
  \/ \E h \in Handles, name \in Names : Rename(h, name) \/ Register(h, name)
  \/ \E h \in Handles, actor \in Users \cup {NULL} : Unregister(actor, h)
  \/ \E to, from \in Handles : Merge(to, from)

HelperAct(u, b) ==
  \/ NextRequest(u, b)
  \/ \E p \in Live : Pickup(u, b, p) \/ Close(u, b, p)
  \/ \E p \in Live, target \in Users : Reassign(u, b, p, target)

ManagerAct(u, b) ==
  \E h \in Handles : \/ DelUser(u, b, h) \/ GiveOwnership(u, b, h)
                     \/ \E level \in Levels : AddUser(u, b, h, level) \/ Clvl(u, b, h, level)

BotAct(b) ==
  \/ \E o \in Opts : SetOption(b, o)
  \/ EmptyAlert(b) \/ UnregisterBot(b)
  \/ \E h \in Handles : RegisterBot(b, h)

Next ==
  \/ \E u \in Users : UserAct(u)
  \/ AccountAct
  \/ \E u \in Users, b \in Bots : HelperAct(u, b)
  \/ \E u \in Users \cup {NULL}, b \in Bots : ManagerAct(u, b)
  \/ \E b \in Bots : BotAct(b)
  \/ Restart

Spec == Init /\ [][Next]_vars

-----------------------------------------------------------------------------
(* Properties.                                                             *)

Optional(S) == S \cup {NULL}
Occurs(list, p) == Cardinality({i \in DOMAIN list : list[i] = p})

\* Types of what HelpServ sees and keeps.
TypeOK ==
  /\ net \in [nick : [Users -> Optional(Nicks)], name : [Handles -> Optional(Names)],
              acct : [Users -> Optional(Handles)], on : [Users -> SUBSET Bots]]
  /\ Live \subseteq 1..hs.made /\ \A p \in Live : hs.rec[p] \in Requests
  /\ hs.opt \in [Bots -> Options] /\ hs.up \subseteq Bots
  /\ \A b \in Bots :
       /\ DOMAIN hs.requests[b] \subseteq Nat /\ hs.unhandled[b] \in Seq(1..hs.made)
       /\ hs.timer[b] \in Nat /\ hs.empty[b] \in BOOLEAN /\ hs.last[b] \in Nat
       /\ DOMAIN hs.staff[b] \subseteq Names
       /\ \A n \in DOMAIN hs.staff[b] : hs.staff[b][n] \in HlTrial..HlOwner
  /\ DOMAIN hs.bynick \subseteq Nicks /\ DOMAIN hs.byhand \subseteq Names

\* Where request p must be listed in a state s of the tables, and how often.
FiledExactly(n, s) ==
  \A p \in 1..s.made :
    LET live == p \in DOMAIN s.rec
        Once(list, here) == Occurs(list, p) = IF live /\ here THEN 1 ELSE 0 IN
    /\ live => s.rec[p].user # NULL \/ s.rec[p].handle # NULL
    /\ \A b \in Bots :
         /\ Once(ById(s, b), live /\ s.rec[p].hs = b)
         /\ Once(s.unhandled[b], live /\ s.rec[p].hs = b /\ s.rec[p].helper = NULL)
    /\ \A k \in Nicks :
         Once(Listed(s.bynick, k), live /\ s.rec[p].user # NULL /\ n.nick[s.rec[p].user] = k)
    /\ \A k \in Names :
         Once(Listed(s.byhand, k), live /\ s.rec[p].handle # NULL /\ n.name[s.rec[p].handle] = k)

\* Whatever users, helpers and accounts do, a request is in its bot's table,
\* in the queue exactly while nobody has taken it, and exactly once in the
\* lists of its nick and of its account; no list holds a request that was
\* freed (free_request takes it out of the lists it believes it is in).
RequestsFiledExactly == FiledExactly(net, hs)

\* The queue, from which NEXT takes the head and WAIT counts, is in the order
\* the requests were opened, however often they went back to it
\* (create_request, helpserv_page_helper_gone, request_read_helper).
QueueInOrder ==
  \A b \in Bots : \A i, j \in DOMAIN hs.unhandled[b] :
    i < j => hs.rec[hs.unhandled[b][i]].opened <= hs.rec[hs.unhandled[b][j]].opened

\* Every request is where its state says, and the queue in order.
QueuesExact == RequestsFiledExactly /\ QueueInOrder

\* A request that is assigned is assigned to somebody who is on the staff of
\* its bot: removing a helper, or the account, gives the requests back
\* (free_user).
HelpersAreStaff ==
  \A p \in Live : hs.rec[p].helper # NULL => Level(net, hs, hs.rec[p].hs, hs.rec[p].helper) > 0

\* A request of somebody who is connected belongs to the account they are
\* logged in to, after any sequence of logins, merges, unregistrations, quits
\* and returns (handle_nickserv_auth and its siblings).
RequestsFollowLogin ==
  \A p \in Live : hs.rec[p].user # NULL =>
    /\ Online(net, hs.rec[p].user)
    /\ hs.rec[p].handle = net.acct[hs.rec[p].user]

\* Who a request belongs to, and who has it, are as users, accounts and staff
\* are now.
RequestsHaveTheirPeople == RequestsFollowLogin /\ HelpersAreStaff

\* Where requests end when their user parts, nobody who is not on the channel
\* has one, though handle_part drops only the first it finds.
PartEndsRequests ==
  (\A o \in Opts : o.req = "part") =>
    \A p \in Live : hs.rec[p].user # NULL /\ hs.rec[p].hs \in net.on[hs.rec[p].user]

\* The alert has at most one timer, and none while it is switched off, though
\* four places arm it (run_empty_interval, create_request, handle_part,
\* opt_empty_interval).
OneAlert ==
  \A b \in Bots : hs.timer[b] <= IF b \in hs.up /\ hs.opt[b].interval THEN 1 ELSE 0

\* Once the alert is on, no step loses its timer while the bot knows that its
\* channel is unstaffed and, with REQONJOIN, somebody waits: not the alert
\* itself, not a request that is opened, not another helper who leaves.
AlertGoesOn ==
  [][\A b \in hs.up \cap hs'.up :
       /\ hs.timer[b] = 1 /\ hs'.empty[b] /\ hs'.opt[b].interval
       /\ hs'.opt[b].on_join => hs'.unhandled[b] # <<>>
       => hs'.timer[b] = 1]_vars

\* A restart loses no request of an account whose bot keeps them, assigns each
\* to the helper it had, and files it exactly.
RestartKeepsRequests ==
  LET after == ReadBack(Restarted({}), hs) IN
  /\ FiledExactly(Restarted({}), after)
  /\ \A p \in Live : hs.rec[p].handle # NULL /\ hs.opt[hs.rec[p].hs].req = "close" =>
       p \in DOMAIN after.rec /\ after.rec[p].helper = hs.rec[p].helper

\* SET REQPERSIST CLOSE: a request is only closed when a helper closes it, as
\* long as it has an account and the bot exists.
CloseOnlyByHelper ==
  [][\A p \in Live :
       LET r == hs.rec[p] IN
       \/ p \in DOMAIN hs'.rec
       \/ hs.opt[r.hs].req # "close" \/ r.hs \notin hs'.up
       \/ r.handle = NULL \/ net'.name[r.handle] = NULL
       \/ \E u \in Users : Close(u, r.hs, p)]_vars
=============================================================================
