---------------------------- MODULE NickServNicks ----------------------------
(***************************************************************************)
(* NickServ's registered nicks.  A nick_info is reachable in two ways:     *)
(* through nickserv_nick_dict, and through its owner's list hi->nicks.     *)
(* Around them: the FLAGS_REGNICK user mode, the reclaim timers armed for  *)
(* users who take somebody else's nick, and nickserv_allow_auth_dict, the  *)
(* permissions ALLOWAUTH keeps by nick.                                    *)
(* Source: src/nickserv.c, with NickChange (src/hash.c) and AddUser        *)
(* (src/proto-p10.c).  Sessions are reduced to user->handle_info here      *)
(* (NickServSessions has them in full), staff to the effect of their       *)
(* commands, and only users who are in `clients' are represented.          *)
(***************************************************************************)
EXTENDS Naturals, FiniteSets, TLAPS

CONSTANTS
  Users,           \* connections
  Handles,         \* account names
  Nicks,           \* nicks on the network
  Registerable,    \* nicks is_registerable_nick admits
  NicksPerHandle,  \* nickserv_conf.nicks_per_handle
  ReclaimAction,   \* what RECLAIM does to the bearer of the nick
  AutoReclaim,     \* what the timer does to them
  Delayed,         \* auto_reclaim_delay is not 0
  Bound,           \* the commands this instance enables
  NULL

Reactions == {"none", "warn", "svsnick", "kill"}

\* An entry of nickserv_allow_auth_dict: the account, and who was meant.
Permissions == [to : Handles, for : Users]

ASSUME NicksAssumption ==
  /\ Registerable \subseteq Nicks
  /\ NicksPerHandle \in Nat
  /\ ReclaimAction \in Reactions /\ AutoReclaim \in Reactions
  /\ Delayed \in BOOLEAN
  /\ NULL \notin Handles \cup Nicks \cup Users \cup Permissions

VARIABLES
  nick,        \* user->nick, NULL for a slot without connection
  auth,        \* user->handle_info
  accounts,    \* nickserv_handle_dict
  owner,       \* nickserv_nick_dict: the ni->owner of each registered nick
  nicks,       \* hi->nicks, as a set
  regnick,     \* users with FLAGS_REGNICK
  reclaim,     \* users with a nickserv_reclaim_p timer
  asked,       \* users the network was told to rename (irc_svsnick)
  allow_auth,  \* nickserv_allow_auth_dict: the account, and who was meant
  crashed      \* delete_nick walked off the end of a list

dictVars == <<accounts, owner, nicks>>
userVars == <<nick, auth, regnick, reclaim, asked, allow_auth>>
vars == <<dictVars, userVars, crashed>>

Init ==
  /\ nick = [u \in Users |-> NULL] /\ auth = [u \in Users |-> NULL]
  /\ accounts = {} /\ owner = [n \in Nicks |-> NULL]
  /\ nicks = [h \in Handles |-> {}]
  /\ regnick = {} /\ reclaim = {} /\ asked = {}
  /\ allow_auth = [n \in Nicks |-> NULL]
  /\ crashed = FALSE

-----------------------------------------------------------------------------
Online(u) == nick[u] # NULL
InUse(n) == \E u \in Users : nick[u] = n

\* u bears a nick that is registered to an account u is not logged in to.
Squatter(u) == Online(u) /\ owner[nick[u]] \notin {NULL, auth[u]}

\* u is about to be dealt with: by a timer, or by the network.
Watched(u) == u \in reclaim \/ u \in asked

\* Mutant: the permission is kept when its bearer leaves.
DelUser_KeepsAllowAuth(u) ==
  /\ nick' = [nick EXCEPT ![u] = NULL]
  /\ auth' = [auth EXCEPT ![u] = NULL]
  /\ regnick' = regnick \ {u}
  /\ reclaim' = reclaim \ {u}
  /\ asked' = asked \ {u}
  /\ UNCHANGED allow_auth

\* DelUser and nickserv_remove_user
DelUser(u) ==
  /\ nick' = [nick EXCEPT ![u] = NULL]
  /\ auth' = [auth EXCEPT ![u] = NULL]
  /\ regnick' = regnick \ {u}
  /\ reclaim' = reclaim \ {u}
  /\ asked' = asked \ {u}
  /\ allow_auth' = [allow_auth EXCEPT ![nick[u]] = NULL]

\* register_nick
RegisterNick(n, h) ==
  /\ owner' = [owner EXCEPT ![n] = h]
  /\ nicks' = [nicks EXCEPT ![h] = @ \cup {n}]

\* delete_nick for each of ns
DeleteNicks(ns) ==
  /\ owner' = [n \in Nicks |-> IF n \in ns THEN NULL ELSE owner[n]]
  /\ nicks' = [h \in Handles |-> nicks[h] \ ns]
  /\ regnick' = {u \in regnick : nick[u] \notin ns}

-----------------------------------------------------------------------------
(* Users and their nicks.                                                  *)

\* check_user_nick, for u who now bears n and is logged in to hi, when it
\* does not kill u at once.
CheckUserNick(u, n, hi) ==
  LET squats == owner[n] \notin {NULL, hi} IN
  /\ regnick' = IF hi # NULL /\ owner[n] = hi THEN regnick \cup {u}
                ELSE regnick \ {u}
  /\ reclaim' = IF squats /\ AutoReclaim # "none" /\ Delayed
                THEN reclaim \cup {u} ELSE reclaim \ {u}
  /\ asked' = IF squats /\ AutoReclaim = "svsnick" /\ ~Delayed
              THEN asked \cup {u} ELSE asked \ {u}

\* An immediate auto_reclaim_action "kill".
KilledAtOnce(u, n) ==
  owner[n] \notin {NULL, auth[u]} /\ AutoReclaim = "kill" /\ ~Delayed

\* AddUser: u is introduced as n, logged in to hi by its account stamp; one who
\* is killed at once leaves no trace.  A collision that the earlier bearer of
\* n loses is their Quit followed by this.
Connect(u, n, hi) ==
  /\ ~Online(u) /\ ~InUse(n)
  /\ hi \in accounts \cup {NULL}
  /\ owner[n] \in {NULL, hi} \/ AutoReclaim # "kill" \/ Delayed
  /\ nick' = [nick EXCEPT ![u] = n]
  /\ auth' = [auth EXCEPT ![u] = hi]
  /\ CheckUserNick(u, n, hi)
  /\ UNCHANGED <<dictVars, allow_auth, crashed>>

MovedAllowAuth(u, n) ==
  IF allow_auth[nick[u]] = NULL THEN allow_auth
  ELSE [allow_auth EXCEPT ![nick[u]] = NULL, ![n] = allow_auth[nick[u]]]

\* NickChange and handle_nick_change, by u's own choice or because the network
\* does what irc_svsnick asked for.
NickChange(u, n) ==
  /\ Online(u) /\ ~InUse(n)
  /\ IF KilledAtOnce(u, n)
     THEN /\ nick' = [nick EXCEPT ![u] = NULL]
          /\ auth' = [auth EXCEPT ![u] = NULL]
          /\ regnick' = regnick \ {u}
          /\ reclaim' = reclaim \ {u}
          /\ asked' = asked \ {u}
          /\ allow_auth' = [MovedAllowAuth(u, n) EXCEPT ![n] = NULL]
     ELSE /\ nick' = [nick EXCEPT ![u] = n]
          /\ CheckUserNick(u, n, auth[u])
          /\ allow_auth' = MovedAllowAuth(u, n)
          /\ UNCHANGED auth
  /\ UNCHANGED <<dictVars, crashed>>

Quit(u) ==
  /\ Online(u)
  /\ DelUser(u)
  /\ UNCHANGED <<dictVars, crashed>>

\* Mutant: "svsnick" is treated like "warn".
Reclaim_NoSvsnick(u, action) ==
  IF action = "kill" THEN DelUser(u)
  ELSE UNCHANGED <<nick, auth, regnick, allow_auth, asked>>

\* nickserv_reclaim
Reclaim(u, action) ==
  IF action = "kill" THEN DelUser(u)
  ELSE /\ asked' = IF action = "svsnick" THEN asked \cup {u} ELSE asked
       /\ UNCHANGED <<nick, auth, regnick, allow_auth>>

\* nickserv_reclaim_p: the timer of u, who bears n, fires.
TimerFires(u, n) ==
  /\ u \in reclaim /\ nick[u] = n
  /\ reclaim' = reclaim \ {u}
  /\ IF owner[n] # NULL THEN Reclaim(u, AutoReclaim)
     ELSE UNCHANGED <<nick, auth, regnick, asked, allow_auth>>
  /\ UNCHANGED <<dictVars, crashed>>

-----------------------------------------------------------------------------
(* Accounts.                                                               *)

\* Mutant: the timer goes with every login.
LogIn_AnyAccount(u, h, doStamp) ==
  /\ auth' = [auth EXCEPT ![u] = h]
  /\ regnick' = IF doStamp /\ nick[u] \in nicks[h] THEN regnick \cup {u}
                ELSE regnick
  /\ reclaim' = reclaim \ {u}

\* set_user_handle_info(u, h, doStamp)
LogIn(u, h, doStamp) ==
  /\ auth' = [auth EXCEPT ![u] = h]
  /\ regnick' = IF doStamp /\ nick[u] \in nicks[h] THEN regnick \cup {u}
                ELSE regnick
  /\ reclaim' = IF owner[nick[u]] = h THEN reclaim \ {u} ELSE reclaim

\* cmd_auth.  valid_user_for lets u in by a mask of the account or by ALLOWAUTH,
\* whose permission is used up even if the password is wrong (or h suspended
\* or at its limit of logins).
Auth(u, h) ==
  /\ Online(u) /\ auth[u] = NULL /\ h \in accounts
  /\ \E byMask, mayEnter \in BOOLEAN :
       LET allowed == ~byMask /\ allow_auth[nick[u]] # NULL
                      /\ allow_auth[nick[u]].to = h
       IN  /\ byMask \/ allowed
           /\ allow_auth' = IF allowed THEN [allow_auth EXCEPT ![nick[u]] = NULL]
                            ELSE allow_auth
           /\ IF mayEnter THEN LogIn(u, h, TRUE)
              ELSE UNCHANGED <<auth, regnick, reclaim>>
  /\ UNCHANGED <<dictVars, nick, asked, crashed>>

\* cmd_cookie (doStamp) and cmd_account: other ways in to h; PASSWORD_CHANGE
\* cookies and ACCOUNT messages are good for users of other accounts, too.
Login(u, h, doStamp) ==
  /\ Online(u) /\ auth[u] # h /\ h \in accounts
  /\ auth[u] = NULL \/ "SWITCH" \in Bound
  /\ LogIn(u, h, doStamp)
  /\ UNCHANGED <<dictVars, nick, asked, allow_auth, crashed>>

\* cmd_register and nickserv_register: the account gets the user's nick if it
\* is free.  With an email address nobody is logged in yet (noAuth).
Register(u, h) ==
  /\ Online(u) /\ auth[u] = NULL /\ h \notin accounts
  /\ accounts' = accounts \cup {h}
  /\ \E noAuth \in BOOLEAN : auth' = IF noAuth THEN auth ELSE [auth EXCEPT ![u] = h]
  /\ IF owner[nick[u]] = NULL THEN RegisterNick(nick[u], h)
     ELSE UNCHANGED <<owner, nicks>>
  /\ UNCHANGED <<nick, regnick, reclaim, asked, allow_auth, crashed>>

\* cmd_oregister for v (or for nobody): no nick is registered.
Oregister(v, h) ==
  /\ "OREGISTER" \in Bound
  /\ h \notin accounts
  /\ v # NULL => Online(v) /\ auth[v] = NULL
  /\ accounts' = accounts \cup {h}
  /\ auth' = [u \in Users |-> IF u = v THEN h ELSE auth[u]]
  /\ UNCHANGED <<owner, nicks, nick, regnick, reclaim, asked, allow_auth, crashed>>

\* nickserv_unregister_handle and free_handle_info, for UNREGISTER,
\* OUNREGISTER and expiry.
Unregister(h) ==
  /\ h \in accounts
  /\ accounts' = accounts \ {h}
  /\ auth' = [u \in Users |-> IF auth[u] = h THEN NULL ELSE auth[u]]
  /\ DeleteNicks(nicks[h])
  /\ UNCHANGED <<nick, reclaim, asked, allow_auth, crashed>>

\* cmd_merge: hf's list is appended to ht's only if that is not empty.
MergedLists(hf, ht) ==
  [nicks EXCEPT ![hf] = {}, ![ht] = IF @ = {} THEN @ ELSE @ \cup nicks[hf]]

\* cmd_merge: hf's nicks and sessions go to ht, and hf is unregistered.
Merge(hf, ht) ==
  /\ "MERGE" \in Bound
  /\ hf # ht /\ {hf, ht} \subseteq accounts
  /\ nicks[ht] # {} \/ "MERGE INTO EMPTY" \in Bound
  /\ owner' = [n \in Nicks |-> IF n \in nicks[hf] THEN ht ELSE owner[n]]
  /\ nicks' = MergedLists(hf, ht)
  /\ auth' = [u \in Users |-> IF auth[u] = hf THEN ht ELSE auth[u]]
  /\ accounts' = accounts \ {hf}
  /\ UNCHANGED <<nick, regnick, reclaim, asked, allow_auth, crashed>>

-----------------------------------------------------------------------------
(* Commands about nicks.                                                   *)

\* Mutant: the nick may be registered already.
MayRegister_Taken(n) == n \in Registerable

MayRegister(n) == n \in Registerable /\ owner[n] = NULL

\* cmd_regnick
Regnick(u) ==
  /\ auth[u] # NULL
  /\ Cardinality(nicks[auth[u]]) < NicksPerHandle
  /\ MayRegister(nick[u])
  /\ RegisterNick(nick[u], auth[u])
  /\ UNCHANGED <<accounts, userVars, crashed>>

\* cmd_oregnick
Oregnick(n, h) ==
  /\ "OREGNICK" \in Bound
  /\ h \in accounts
  /\ MayRegister(n)
  /\ RegisterNick(n, h)
  /\ UNCHANGED <<accounts, userVars, crashed>>

\* cmd_unregnick by the owner; cmd_ounregnick.  delete_nick looks for the nick
\* in the owner's list, without an end to the search.
Unregnick(n) ==
  /\ owner[n] # NULL
  /\ IF n \in nicks[owner[n]]
     THEN DeleteNicks({n}) /\ UNCHANGED crashed
     ELSE crashed' = TRUE /\ UNCHANGED <<owner, nicks, regnick>>
  /\ UNCHANGED <<accounts, nick, auth, reclaim, asked, allow_auth>>

\* cmd_reclaim
ReclaimNick(u, v) ==
  /\ "RECLAIM" \in Bound
  /\ u # v /\ Online(v) /\ auth[u] # NULL
  /\ owner[nick[v]] = auth[u]
  /\ Reclaim(v, ReclaimAction)
  /\ reclaim' = IF ReclaimAction = "kill" THEN reclaim \ {v} ELSE reclaim
  /\ UNCHANGED <<dictVars, crashed>>

\* The entry dict_insert makes, or none after dict_remove.
Permission(u, hi) == IF hi = NULL THEN NULL ELSE [to |-> hi, for |-> u]

\* cmd_allowauth: u may log in to hi past its masks; hi = NULL cancels.
AllowAuth(u, hi) ==
  /\ "ALLOWAUTH" \in Bound
  /\ Online(u) /\ auth[u] = NULL
  /\ hi \in accounts \cup {NULL}
  /\ allow_auth' = [allow_auth EXCEPT ![nick[u]] = Permission(u, hi)]
  /\ UNCHANGED <<dictVars, nick, auth, regnick, reclaim, asked, crashed>>

\* saxdb_write_all on exit, and a new process: of the nicks, those on their
\* owner's list are in the database (nickserv_saxdb_write).
Restart ==
  /\ "RESTART" \in Bound
  /\ owner' = [n \in Nicks |->
                 IF \E h \in accounts : n \in nicks[h]
                 THEN CHOOSE h \in accounts : n \in nicks[h] ELSE NULL]
  /\ nick' = [u \in Users |-> NULL] /\ auth' = [u \in Users |-> NULL]
  /\ regnick' = {} /\ reclaim' = {} /\ asked' = {}
  /\ allow_auth' = [n \in Nicks |-> NULL]
  /\ UNCHANGED <<accounts, nicks, crashed>>

-----------------------------------------------------------------------------
UserStep ==
  \/ \E u \in Users, n \in Nicks, hi \in Handles \cup {NULL} :
       ~crashed /\ Connect(u, n, hi)
  \/ \E u \in Users, n \in Nicks : ~crashed /\ NickChange(u, n)
  \/ \E u \in Users : ~crashed /\ Quit(u)
  \/ \E u \in Users, n \in Nicks : ~crashed /\ TimerFires(u, n)
  \/ \E u \in Users, h \in Handles : ~crashed /\ Auth(u, h)
  \/ \E u \in Users, h \in Handles, doStamp \in BOOLEAN :
       ~crashed /\ Login(u, h, doStamp)

AccountStep ==
  \/ \E u \in Users, h \in Handles : ~crashed /\ Register(u, h)
  \/ \E v \in Users \cup {NULL}, h \in Handles : ~crashed /\ Oregister(v, h)
  \/ \E h \in Handles : ~crashed /\ Unregister(h)
  \/ \E hf, ht \in Handles : ~crashed /\ Merge(hf, ht)
  \/ ~crashed /\ Restart

NickStep ==
  \/ \E u \in Users : ~crashed /\ Regnick(u)
  \/ \E n \in Nicks, h \in Handles : ~crashed /\ Oregnick(n, h)
  \/ \E n \in Nicks : ~crashed /\ Unregnick(n)
  \/ \E u, v \in Users : ~crashed /\ ReclaimNick(u, v)
  \/ \E u \in Users, hi \in Handles \cup {NULL} : ~crashed /\ AllowAuth(u, hi)

Next == UserStep \/ AccountStep \/ NickStep

\* The main loop runs every timer that is due; u's is armed for the nick it
\* bears, and starts over with another one.
Spec == /\ Init /\ [][Next]_vars
        /\ \A u \in Users, n \in Nicks : WF_vars(TimerFires(u, n))

-----------------------------------------------------------------------------
(* Properties.                                                             *)

TypeOK ==
  /\ nick \in [Users -> Nicks \cup {NULL}]
  /\ auth \in [Users -> Handles \cup {NULL}]
  /\ accounts \in SUBSET Handles
  /\ owner \in [Nicks -> Handles \cup {NULL}]
  /\ nicks \in [Handles -> SUBSET Nicks]
  /\ regnick \in SUBSET Users /\ reclaim \in SUBSET Users
  /\ asked \in SUBSET Users
  /\ allow_auth \in [Nicks -> Permissions \cup {NULL}]
  /\ crashed \in BOOLEAN

\* The two ways to a nick_info agree: it is in the dictionary with owner h
\* exactly when it is on h's list, and h is registered.  What delete_nick,
\* free_handle_info and the database rely on.
NickListsExact ==
  /\ \A n \in Nicks, h \in Handles : n \in nicks[h] <=> owner[n] = h
  /\ \A n \in Nicks : owner[n] # NULL => owner[n] \in accounts

\* Nobody has FLAGS_REGNICK ("user owns their current nick", hash.h) on a nick
\* that is not registered to the account they are logged in to, whatever
\* became of the nick or the account since check_user_nick set it.
RegnickHonest ==
  \A u \in regnick : auth[u] # NULL /\ owner[nick[u]] = auth[u]

\* The permission of ALLOWAUTH stays with the connection it was given to: it
\* follows nick changes, goes away with the connection, and is never found by
\* the next bearer of the nick.
AllowAuthFollowsUser ==
  \A n \in Nicks : allow_auth[n] # NULL => nick[allow_auth[n].for] = n

\* What a nick entitles to never outlives what it stands for: the flag the
\* nick's registration, a permission the connection it was given to.
NickRightsHonest == RegnickHonest /\ AllowAuthFollowsUser

\* Who takes a nick of somebody else's account is watched, and stays so while
\* the nick is somebody else's: no login, registration, merge or permission
\* loses the timer (auto_reclaim_action other than "none", with a delay).
WatchNotLost ==
  [][\A u \in Users :
       /\ Squatter(u)'
       /\ nick'[u] # nick[u] \/ (Squatter(u) /\ Watched(u))
       => Watched(u)']_vars

\* A timer that is armed does its work: a squatter leaves the nick, logs in to
\* its owner, or the network is told to rename them.
SquatterReclaimed ==
  \A u \in Users, n \in Nicks :
    (u \in reclaim /\ nick[u] = n)
      ~> (u \in asked \/ nick[u] # n \/ ~Squatter(u))

-----------------------------------------------------------------------------
(* Proofs, for any number of users, accounts and nicks: type correctness,  *)
(* and that the dictionary of nicks, the accounts' lists, the users' flags *)
(* and the ALLOWAUTH permissions agree.  They hold where MERGE never names *)
(* a target without nicks and nobody goes from one account to another      *)
(* without logging out (Tame).                                             *)

\* MERGE and the logins of users who are logged in go wrong without these.
Tame == "MERGE INTO EMPTY" \notin Bound /\ "SWITCH" \notin Bound

\* Nobody is logged in to an account that is not registered; needed where an
\* account is unregistered or merged away.
SessionsRegistered == \A u \in Users : auth[u] # NULL => auth[u] \in accounts

\* RegnickHonest, of users who are there: needed where owner[nick[u]] changes.
RegnickOnline == \A u \in regnick : nick[u] # NULL

\* A nick has one bearer: a permission under a nick is that user's.
OneBearer == \A u, v \in Users : nick[u] = nick[v] /\ nick[u] # NULL => u = v

Inv == /\ TypeOK /\ NickListsExact /\ SessionsRegistered /\ OneBearer
       /\ RegnickHonest /\ RegnickOnline /\ AllowAuthFollowsUser

LEMMA Names == /\ NULL \notin Handles /\ NULL \notin Nicks /\ NULL \notin Users
               /\ NULL \notin Permissions /\ Registerable \subseteq Nicks
BY NicksAssumption DEF NicksAssumption

\* Init has no accounts, users or nicks.
LEMMA InitInv == Init => Inv
<1> SUFFICES ASSUME Init PROVE Inv
  OBVIOUS
<1>1. TypeOK
  BY Names DEF Init, TypeOK
<1>2. NickListsExact
  BY Names DEF Init, NickListsExact
<1>3. SessionsRegistered /\ OneBearer /\ RegnickHonest /\ RegnickOnline
  BY DEF Init, SessionsRegistered, OneBearer, RegnickHonest, RegnickOnline
<1>4. AllowAuthFollowsUser
  BY DEF Init, AllowAuthFollowsUser
<1> QED BY <1>1, <1>2, <1>3, <1>4 DEF Inv

-----------------------------------------------------------------------------
(* What the shared operators do.                                           *)

LEMMA DelUserInv ==
  ASSUME Inv, NEW u \in Users, nick[u] # NULL, DelUser(u),
         UNCHANGED <<accounts, owner, nicks, crashed>>
  PROVE  Inv'
<1>1. TypeOK'
  BY Names DEF Inv, TypeOK, DelUser
<1>2. NickListsExact'
  BY DEF Inv, NickListsExact
<1>3. SessionsRegistered' /\ OneBearer'
  BY DEF Inv, TypeOK, SessionsRegistered, OneBearer, DelUser
<1>4. RegnickHonest' /\ RegnickOnline'
  BY DEF Inv, TypeOK, RegnickHonest, RegnickOnline, DelUser
<1>5. AllowAuthFollowsUser'
  <2>1. SUFFICES ASSUME NEW n \in Nicks, allow_auth'[n] # NULL
                 PROVE  nick'[allow_auth'[n].for] = n
    BY DEF AllowAuthFollowsUser
  <2>2. nick[u] \in Nicks
    BY DEF Inv, TypeOK
  <2>3. n # nick[u] /\ allow_auth'[n] = allow_auth[n]
    BY <2>1, <2>2 DEF Inv, TypeOK, DelUser
  <2>4. allow_auth[n] # NULL /\ nick[allow_auth[n].for] = n
    BY <2>1, <2>3 DEF Inv, AllowAuthFollowsUser
  <2>5. allow_auth[n].for \in Users
    BY <2>4 DEF Inv, TypeOK, Permissions
  <2>6. allow_auth[n].for # u
    BY <2>3, <2>4
  <2> QED BY <2>3, <2>4, <2>5, <2>6 DEF Inv, TypeOK, DelUser
<1> QED BY <1>1, <1>2, <1>3, <1>4, <1>5 DEF Inv

LEMMA CheckUserNickEffect ==
  ASSUME TypeOK, NEW u \in Users, NEW n \in Nicks, NEW hi \in Handles \cup {NULL},
         CheckUserNick(u, n, hi)
  PROVE  /\ regnick' \in SUBSET Users /\ reclaim' \in SUBSET Users
         /\ asked' \in SUBSET Users
         /\ regnick' \subseteq regnick \cup {u}
         /\ u \in regnick' => hi # NULL /\ owner[n] = hi
BY DEF TypeOK, CheckUserNick

LEMMA LogInEffect ==
  ASSUME TypeOK, NickListsExact, NEW u \in Users, nick[u] # NULL, NEW h \in Handles,
         NEW doStamp \in BOOLEAN, LogIn(u, h, doStamp)
  PROVE  /\ auth' = [auth EXCEPT ![u] = h]
         /\ regnick' \in SUBSET Users /\ reclaim' \in SUBSET Users
         /\ regnick' \subseteq regnick \cup {u}
         /\ u \in regnick' => u \in regnick \/ owner[nick[u]] = h
<1>1. nick[u] \in Nicks
  BY DEF TypeOK
<1>2. nick[u] \in nicks[h] => owner[nick[u]] = h
  BY <1>1 DEF NickListsExact
<1> QED BY <1>2 DEF TypeOK, LogIn

\* A login (of somebody who was not logged in) keeps the invariant.
LEMMA LogInInv ==
  ASSUME Inv, NEW u \in Users, nick[u] # NULL, auth[u] = NULL,
         NEW h \in accounts, NEW doStamp \in BOOLEAN, LogIn(u, h, doStamp),
         UNCHANGED <<accounts, owner, nicks, nick, asked, crashed>>,
         AllowAuthFollowsUser', allow_auth' \in [Nicks -> Permissions \cup {NULL}]
  PROVE  Inv'
<1>0. h \in Handles /\ h # NULL
  BY Names DEF Inv, TypeOK
<1>1. /\ auth' = [auth EXCEPT ![u] = h]
      /\ regnick' \in SUBSET Users /\ reclaim' \in SUBSET Users
      /\ regnick' \subseteq regnick \cup {u}
      /\ u \in regnick' => u \in regnick \/ owner[nick[u]] = h
  BY <1>0, LogInEffect DEF Inv
<1>2. u \notin regnick
  BY DEF Inv, RegnickHonest
<1>3. TypeOK'
  BY <1>0, <1>1 DEF Inv, TypeOK
<1>4. NickListsExact'
  BY DEF Inv, NickListsExact
<1>5. SessionsRegistered' /\ OneBearer'
  BY <1>1 DEF Inv, TypeOK, SessionsRegistered, OneBearer
<1>6. RegnickHonest' /\ RegnickOnline'
  BY <1>0, <1>1, <1>2 DEF Inv, TypeOK, RegnickHonest, RegnickOnline
<1> QED BY <1>3, <1>4, <1>5, <1>6 DEF Inv

\* register_nick on a nick nobody owns.
LEMMA RegisterNickInv ==
  ASSUME Inv, NEW n \in Nicks, owner[n] = NULL, NEW h \in accounts', h \in Handles,
         RegisterNick(n, h), accounts \subseteq accounts', accounts' \subseteq Handles
  PROVE  /\ owner' \in [Nicks -> Handles \cup {NULL}]
         /\ nicks' \in [Handles -> SUBSET Nicks]
         /\ NickListsExact'
         /\ \A m \in Nicks : owner[m] # NULL => owner'[m] = owner[m]
<1>1. /\ owner' = [owner EXCEPT ![n] = h]
      /\ nicks' = [nicks EXCEPT ![h] = @ \cup {n}]
  BY DEF RegisterNick
<1>2. /\ owner' \in [Nicks -> Handles \cup {NULL}]
      /\ nicks' \in [Handles -> SUBSET Nicks]
  BY <1>1 DEF Inv, TypeOK
<1>3. \A m \in Nicks, g \in Handles : m \in nicks'[g] <=> owner'[m] = g
  BY <1>1, Names DEF Inv, TypeOK, NickListsExact
<1>4. \A m \in Nicks : owner'[m] # NULL => owner'[m] \in accounts'
  BY <1>1 DEF Inv, TypeOK, NickListsExact
<1> QED BY <1>1, <1>2, <1>3, <1>4 DEF Inv, TypeOK, NickListsExact

-----------------------------------------------------------------------------
(* Users and their nicks.                                                  *)

LEMMA ConnectInv ==
  ASSUME Inv, NEW u \in Users, NEW n \in Nicks, NEW hi \in Handles \cup {NULL},
         Connect(u, n, hi)
  PROVE  Inv'
<1>1. /\ nick[u] = NULL /\ nick' = [nick EXCEPT ![u] = n]
      /\ \A v \in Users : nick[v] # n
      /\ auth' = [auth EXCEPT ![u] = hi] /\ hi \in accounts \cup {NULL}
      /\ UNCHANGED <<accounts, owner, nicks, allow_auth, crashed>>
  BY DEF Connect, Online, InUse, dictVars
<1>2. /\ regnick' \in SUBSET Users /\ reclaim' \in SUBSET Users
      /\ asked' \in SUBSET Users
      /\ regnick' \subseteq regnick \cup {u}
      /\ u \in regnick' => hi # NULL /\ owner[n] = hi
  BY CheckUserNickEffect DEF Connect, Inv
<1>3. TypeOK'
  BY <1>1, <1>2 DEF Inv, TypeOK
<1>4. NickListsExact' /\ SessionsRegistered' /\ OneBearer'
  BY <1>1 DEF Inv, TypeOK, NickListsExact, SessionsRegistered, OneBearer
<1>5. RegnickHonest' /\ RegnickOnline'
  BY <1>1, <1>2, Names DEF Inv, TypeOK, RegnickHonest, RegnickOnline
<1>6. AllowAuthFollowsUser'
  <2>1. SUFFICES ASSUME NEW m \in Nicks, allow_auth[m] # NULL
                 PROVE  nick'[allow_auth[m].for] = m
    BY <1>1 DEF AllowAuthFollowsUser
  <2>2. nick[allow_auth[m].for] = m /\ allow_auth[m].for \in Users
    BY <2>1 DEF Inv, TypeOK, AllowAuthFollowsUser, Permissions
  <2> QED BY <1>1, <2>2, Names DEF Inv, TypeOK
<1> QED BY <1>3, <1>4, <1>5, <1>6 DEF Inv

LEMMA NickChangeInv ==
  ASSUME Inv, NEW u \in Users, NEW n \in Nicks, NickChange(u, n)
  PROVE  Inv'
<1>1. /\ nick[u] # NULL /\ nick[u] \in Nicks
      /\ \A v \in Users : nick[v] # n
      /\ UNCHANGED <<accounts, owner, nicks, crashed>>
  BY DEF NickChange, Online, InUse, dictVars, Inv, TypeOK
<1>2. NickListsExact'
  BY <1>1 DEF Inv, NickListsExact
<1>3. n # nick[u]
  BY <1>1
<1>4. allow_auth[n] = NULL
  <2>1. SUFFICES ASSUME allow_auth[n] # NULL PROVE FALSE
    OBVIOUS
  <2>2. allow_auth[n].for \in Users /\ nick[allow_auth[n].for] = n
    BY <2>1 DEF Inv, TypeOK, AllowAuthFollowsUser, Permissions
  <2> QED BY <1>1, <2>2
<1>5. /\ MovedAllowAuth(u, n) \in [Nicks -> Permissions \cup {NULL}]
      /\ MovedAllowAuth(u, n)[nick[u]] = NULL
      /\ MovedAllowAuth(u, n)[n] = allow_auth[nick[u]]
      /\ \A m \in Nicks \ {n, nick[u]} : MovedAllowAuth(u, n)[m] = allow_auth[m]
  BY <1>1, <1>3, <1>4 DEF MovedAllowAuth, Inv, TypeOK
<1>6. \A m \in Nicks : /\ m # nick[u] /\ m # n
                       /\ allow_auth[m] # NULL
                       => /\ allow_auth[m].for \in Users \ {u}
                          /\ nick[allow_auth[m].for] = m
  BY DEF Inv, TypeOK, AllowAuthFollowsUser, Permissions
<1>7. allow_auth[nick[u]] # NULL => allow_auth[nick[u]].for = u
  <2>1. SUFFICES ASSUME allow_auth[nick[u]] # NULL
                 PROVE  allow_auth[nick[u]].for = u
    OBVIOUS
  <2>2. allow_auth[nick[u]].for \in Users
    BY <1>1, <2>1 DEF Inv, TypeOK, Permissions
  <2> QED BY <1>1, <2>1, <2>2 DEF Inv, AllowAuthFollowsUser, OneBearer
<1>8. CASE KilledAtOnce(u, n)
  <2>1. /\ nick' = [nick EXCEPT ![u] = NULL]
        /\ auth' = [auth EXCEPT ![u] = NULL]
        /\ regnick' = regnick \ {u} /\ reclaim' = reclaim \ {u}
        /\ asked' = asked \ {u}
        /\ allow_auth' = [MovedAllowAuth(u, n) EXCEPT ![n] = NULL]
    BY <1>8 DEF NickChange
  <2>2. TypeOK'
    BY <1>1, <1>5, <2>1 DEF Inv, TypeOK
  <2>3. SessionsRegistered' /\ OneBearer' /\ RegnickHonest' /\ RegnickOnline'
    BY <1>1, <2>1 DEF Inv, TypeOK, SessionsRegistered, OneBearer, RegnickHonest,
                      RegnickOnline
  <2>4. ASSUME NEW m \in Nicks, allow_auth'[m] # NULL
        PROVE  nick'[allow_auth'[m].for] = m
    <3>1. m # n /\ m # nick[u] /\ allow_auth'[m] = allow_auth[m]
      BY <1>5, <2>1, <2>4
    <3> QED BY <1>6, <2>1, <2>4, <3>1 DEF Inv, TypeOK
  <2> QED BY <1>2, <2>2, <2>3, <2>4 DEF Inv, AllowAuthFollowsUser
<1>9. CASE ~KilledAtOnce(u, n)
  <2>1. /\ nick' = [nick EXCEPT ![u] = n]
        /\ CheckUserNick(u, n, auth[u])
        /\ allow_auth' = MovedAllowAuth(u, n) /\ auth' = auth
    BY <1>9 DEF NickChange
  <2>2. auth[u] \in Handles \cup {NULL}
    BY DEF Inv, TypeOK
  <2>3. /\ regnick' \in SUBSET Users /\ reclaim' \in SUBSET Users
        /\ asked' \in SUBSET Users
        /\ regnick' \subseteq regnick \cup {u}
        /\ u \in regnick' => auth[u] # NULL /\ owner[n] = auth[u]
    BY <2>1, <2>2, CheckUserNickEffect DEF Inv
  <2>4. TypeOK'
    BY <1>1, <1>5, <2>1, <2>3 DEF Inv, TypeOK
  <2>5. SessionsRegistered' /\ OneBearer'
    BY <1>1, <2>1 DEF Inv, TypeOK, SessionsRegistered, OneBearer
  <2>6. RegnickHonest' /\ RegnickOnline'
    BY <1>1, <2>1, <2>3, Names DEF Inv, TypeOK, RegnickHonest, RegnickOnline
  <2>7. ASSUME NEW m \in Nicks, allow_auth'[m] # NULL
        PROVE  nick'[allow_auth'[m].for] = m
    <3>1. CASE m = n
      BY <1>5, <1>7, <2>1, <2>7, <3>1 DEF Inv, TypeOK
    <3>2. CASE m # n
      <4>1. m # nick[u] /\ allow_auth'[m] = allow_auth[m]
        BY <1>5, <2>1, <2>7, <3>2
      <4> QED BY <1>6, <2>1, <2>7, <3>2, <4>1 DEF Inv, TypeOK
    <3> QED BY <3>1, <3>2
  <2> QED BY <1>2, <2>4, <2>5, <2>6, <2>7 DEF Inv, AllowAuthFollowsUser
<1> QED BY <1>8, <1>9

LEMMA QuitInv ==
  ASSUME Inv, NEW u \in Users, Quit(u)
  PROVE  Inv'
BY DelUserInv DEF Quit, Online, dictVars

\* Only the users to be renamed, and the timers, change: nothing the invariant
\* relates.
LEMMA TimersOnlyInv ==
  ASSUME Inv, reclaim' \in SUBSET Users, asked' \in SUBSET Users,
         UNCHANGED <<accounts, owner, nicks, nick, auth, regnick, allow_auth, crashed>>
  PROVE  Inv'
<1>1. TypeOK'
  BY DEF Inv, TypeOK
<1>2. NickListsExact' /\ SessionsRegistered' /\ OneBearer'
  BY DEF Inv, NickListsExact, SessionsRegistered, OneBearer
<1>3. RegnickHonest' /\ RegnickOnline' /\ AllowAuthFollowsUser'
  BY DEF Inv, RegnickHonest, RegnickOnline, AllowAuthFollowsUser
<1> QED BY <1>1, <1>2, <1>3 DEF Inv

LEMMA ReclaimInv ==
  ASSUME Inv, NEW u \in Users, nick[u] # NULL, NEW action, Reclaim(u, action),
         reclaim' \in SUBSET Users, action = "kill" => reclaim' = reclaim \ {u},
         UNCHANGED <<accounts, owner, nicks, crashed>>
  PROVE  Inv'
<1>1. CASE action = "kill"
  BY <1>1, DelUserInv DEF Reclaim
<1>2. CASE action # "kill"
  <2>1. asked' \in SUBSET Users
    BY <1>2 DEF Reclaim, Inv, TypeOK
  <2> QED BY <1>2, <2>1, TimersOnlyInv DEF Reclaim
<1> QED BY <1>1, <1>2

LEMMA TimerFiresInv ==
  ASSUME Inv, NEW u \in Users, NEW n \in Nicks, TimerFires(u, n)
  PROVE  Inv'
<1>1. nick[u] # NULL /\ UNCHANGED <<accounts, owner, nicks, crashed>>
  BY Names DEF TimerFires, dictVars
<1>2. reclaim' = reclaim \ {u} /\ reclaim' \in SUBSET Users
  BY DEF TimerFires, Inv, TypeOK
<1>3. CASE owner[n] # NULL
  BY <1>1, <1>2, <1>3, ReclaimInv DEF TimerFires
<1>4. CASE owner[n] = NULL
  <2>1. asked' \in SUBSET Users
    BY <1>4 DEF TimerFires, Inv, TypeOK
  <2> QED BY <1>1, <1>2, <1>4, <2>1, TimersOnlyInv DEF TimerFires
<1> QED BY <1>3, <1>4

LEMMA ReclaimNickInv ==
  ASSUME Inv, NEW u \in Users, NEW v \in Users, ReclaimNick(u, v)
  PROVE  Inv'
<1>1. nick[v] # NULL /\ UNCHANGED <<accounts, owner, nicks, crashed>>
  BY DEF ReclaimNick, Online, dictVars
<1>2. /\ reclaim' \in SUBSET Users
      /\ ReclaimAction = "kill" => reclaim' = reclaim \ {v}
  BY DEF ReclaimNick, Inv, TypeOK
<1> QED BY <1>1, <1>2, ReclaimInv DEF ReclaimNick

LEMMA AuthInv ==
  ASSUME Inv, NEW u \in Users, NEW h \in Handles, Auth(u, h)
  PROVE  Inv'
<1>1. PICK byMask \in BOOLEAN, mayEnter \in BOOLEAN :
        /\ \/ allow_auth' = [allow_auth EXCEPT ![nick[u]] = NULL]
           \/ allow_auth' = allow_auth
        /\ IF mayEnter THEN LogIn(u, h, TRUE)
           ELSE UNCHANGED <<auth, regnick, reclaim>>
  BY DEF Auth
<1>2. /\ nick[u] # NULL /\ auth[u] = NULL /\ h \in accounts
      /\ UNCHANGED <<accounts, owner, nicks, nick, asked, crashed>>
  BY DEF Auth, Online, dictVars
<1>3. allow_auth' \in [Nicks -> Permissions \cup {NULL}]
  BY <1>1 DEF Inv, TypeOK
<1>4. AllowAuthFollowsUser'
  <2>1. SUFFICES ASSUME NEW n \in Nicks, allow_auth'[n] # NULL
                 PROVE  nick[allow_auth'[n].for] = n
    BY <1>2 DEF AllowAuthFollowsUser
  <2>2. allow_auth'[n] = allow_auth[n]
    BY <1>1, <2>1 DEF Inv, TypeOK
  <2> QED BY <2>1, <2>2 DEF Inv, AllowAuthFollowsUser
<1>5. CASE mayEnter
  BY <1>1, <1>2, <1>3, <1>4, <1>5, LogInInv
<1>6. CASE ~mayEnter
  <2>1. UNCHANGED <<auth, regnick, reclaim>>
    BY <1>1, <1>6
  <2>2. TypeOK'
    BY <1>2, <1>3, <2>1 DEF Inv, TypeOK
  <2>3. NickListsExact' /\ SessionsRegistered' /\ OneBearer'
    BY <1>2, <2>1 DEF Inv, NickListsExact, SessionsRegistered, OneBearer
  <2>4. RegnickHonest' /\ RegnickOnline'
    BY <1>2, <2>1 DEF Inv, RegnickHonest, RegnickOnline
  <2> QED BY <1>4, <2>2, <2>3, <2>4 DEF Inv
<1> QED BY <1>5, <1>6

LEMMA LoginInv ==
  ASSUME Inv, Tame, NEW u \in Users, NEW h \in Handles, NEW doStamp \in BOOLEAN,
         Login(u, h, doStamp)
  PROVE  Inv'
<1>1. /\ nick[u] # NULL /\ auth[u] = NULL /\ h \in accounts
      /\ LogIn(u, h, doStamp)
      /\ UNCHANGED <<accounts, owner, nicks, nick, asked, allow_auth, crashed>>
  BY DEF Login, Online, Tame, dictVars
<1>2. AllowAuthFollowsUser' /\ allow_auth' \in [Nicks -> Permissions \cup {NULL}]
  BY <1>1 DEF Inv, TypeOK, AllowAuthFollowsUser
<1> QED BY <1>1, <1>2, LogInInv


-----------------------------------------------------------------------------
(* Accounts.                                                               *)

\* What holds whatever happens to the dictionaries, if the users stay who they
\* are: enough for the commands that leave userVars alone.
LEMMA SameUsersInv ==
  ASSUME Inv, UNCHANGED <<nick, allow_auth>>
  PROVE  OneBearer' /\ AllowAuthFollowsUser'
BY DEF Inv, OneBearer, AllowAuthFollowsUser

LEMMA RegisterInv ==
  ASSUME Inv, NEW u \in Users, NEW h \in Handles, Register(u, h)
  PROVE  Inv'
<1>1. /\ nick[u] \in Nicks /\ auth[u] = NULL /\ u \notin regnick
      /\ accounts' = accounts \cup {h} /\ h \notin accounts
      /\ auth' = auth \/ auth' = [auth EXCEPT ![u] = h]
      /\ UNCHANGED <<nick, regnick, reclaim, asked, allow_auth, crashed>>
  BY DEF Register, Online, Inv, TypeOK, RegnickHonest
<1>2. /\ owner' \in [Nicks -> Handles \cup {NULL}]
      /\ nicks' \in [Handles -> SUBSET Nicks]
      /\ NickListsExact'
      /\ \A m \in Nicks : owner[m] # NULL => owner'[m] = owner[m]
  <2>1. accounts' \subseteq Handles
    BY <1>1 DEF Inv, TypeOK
  <2>2. CASE owner[nick[u]] = NULL
    BY <1>1, <2>1, <2>2, RegisterNickInv DEF Register
  <2>3. CASE owner[nick[u]] # NULL
    BY <1>1, <2>3 DEF Register, Inv, TypeOK, NickListsExact
  <2> QED BY <2>2, <2>3
<1>3. TypeOK'
  BY <1>1, <1>2 DEF Inv, TypeOK
<1>4. SessionsRegistered'
  BY <1>1 DEF Inv, TypeOK, SessionsRegistered
<1>5. RegnickHonest' /\ RegnickOnline'
  BY <1>1, <1>2 DEF Inv, TypeOK, RegnickHonest, RegnickOnline
<1> QED BY <1>1, <1>2, <1>3, <1>4, <1>5, SameUsersInv DEF Inv

LEMMA OregisterInv ==
  ASSUME Inv, NEW v \in Users \cup {NULL}, NEW h \in Handles, Oregister(v, h)
  PROVE  Inv'
<1>1. /\ accounts' = accounts \cup {h}
      /\ auth' = [u \in Users |-> IF u = v THEN h ELSE auth[u]]
      /\ v \notin regnick
      /\ UNCHANGED <<owner, nicks, nick, regnick, reclaim, asked, allow_auth, crashed>>
  BY Names DEF Oregister, Inv, TypeOK, RegnickHonest
<1>2. TypeOK'
  BY <1>1 DEF Inv, TypeOK
<1>3. NickListsExact' /\ SessionsRegistered'
  BY <1>1 DEF Inv, TypeOK, NickListsExact, SessionsRegistered
<1>4. RegnickHonest' /\ RegnickOnline'
  BY <1>1 DEF Inv, TypeOK, RegnickHonest, RegnickOnline
<1> QED BY <1>1, <1>2, <1>3, <1>4, SameUsersInv DEF Inv

LEMMA UnregisterInv ==
  ASSUME Inv, NEW h \in Handles, Unregister(h)
  PROVE  Inv'
<1>1. /\ accounts' = accounts \ {h}
      /\ auth' = [u \in Users |-> IF auth[u] = h THEN NULL ELSE auth[u]]
      /\ owner' = [n \in Nicks |-> IF n \in nicks[h] THEN NULL ELSE owner[n]]
      /\ nicks' = [g \in Handles |-> nicks[g] \ nicks[h]]
      /\ regnick' = {u \in regnick : nick[u] \notin nicks[h]}
      /\ UNCHANGED <<nick, reclaim, asked, allow_auth, crashed>>
  BY DEF Unregister, DeleteNicks
<1>2. TypeOK'
  BY <1>1 DEF Inv, TypeOK
<1>3. NickListsExact'
  BY <1>1, Names DEF Inv, TypeOK, NickListsExact
<1>4. SessionsRegistered'
  BY <1>1 DEF Inv, TypeOK, SessionsRegistered
<1>5. RegnickHonest' /\ RegnickOnline'
  <2>1. SUFFICES ASSUME NEW u \in regnick'
                 PROVE  auth'[u] # NULL /\ owner'[nick[u]] = auth'[u] /\ nick[u] # NULL
    BY <1>1 DEF RegnickHonest, RegnickOnline
  <2>2. /\ u \in Users /\ nick[u] \in Nicks /\ nick[u] # NULL
        /\ auth[u] # NULL /\ auth[u] \in Handles /\ owner[nick[u]] = auth[u]
    BY <1>1, <2>1 DEF Inv, TypeOK, RegnickHonest, RegnickOnline
  <2>3. nick[u] \notin nicks[h] /\ auth[u] # h
    BY <1>1, <2>1, <2>2 DEF Inv, NickListsExact
  <2> QED BY <1>1, <2>2, <2>3
<1> QED BY <1>1, <1>2, <1>3, <1>4, <1>5, SameUsersInv DEF Inv

LEMMA MergeInv ==
  ASSUME Inv, Tame, NEW hf \in Handles, NEW ht \in Handles, Merge(hf, ht)
  PROVE  Inv'
<1>1. /\ hf # ht /\ hf \in accounts /\ ht \in accounts
      /\ accounts' = accounts \ {hf}
      /\ auth' = [u \in Users |-> IF auth[u] = hf THEN ht ELSE auth[u]]
      /\ owner' = [n \in Nicks |-> IF n \in nicks[hf] THEN ht ELSE owner[n]]
      /\ nicks' = [nicks EXCEPT ![hf] = {}, ![ht] = nicks[ht] \cup nicks[hf]]
      /\ UNCHANGED <<nick, regnick, reclaim, asked, allow_auth, crashed>>
  BY DEF Merge, MergedLists, Tame, Inv, TypeOK
<1>2. TypeOK'
  BY <1>1 DEF Inv, TypeOK
<1>3. NickListsExact'
  <2>1. \A n \in Nicks, g \in Handles : n \in nicks'[g] <=> owner'[n] = g
    BY <1>1 DEF Inv, TypeOK, NickListsExact
  <2>2. \A n \in Nicks : owner'[n] # NULL => owner'[n] \in accounts'
    BY <1>1 DEF Inv, TypeOK, NickListsExact
  <2> QED BY <2>1, <2>2 DEF NickListsExact
<1>4. SessionsRegistered'
  BY <1>1 DEF Inv, TypeOK, SessionsRegistered
<1>5. RegnickHonest' /\ RegnickOnline'
  <2>1. SUFFICES ASSUME NEW u \in regnick
                 PROVE  auth'[u] # NULL /\ owner'[nick[u]] = auth'[u] /\ nick[u] # NULL
    BY <1>1 DEF RegnickHonest, RegnickOnline
  <2>2. /\ u \in Users /\ nick[u] \in Nicks /\ nick[u] # NULL
        /\ auth[u] # NULL /\ owner[nick[u]] = auth[u]
    BY <2>1 DEF Inv, TypeOK, RegnickHonest, RegnickOnline
  <2>3. nick[u] \in nicks[hf] <=> auth[u] = hf
    BY <2>2 DEF Inv, NickListsExact
  <2> QED BY <1>1, <2>2, <2>3, Names
<1> QED BY <1>1, <1>2, <1>3, <1>4, <1>5, SameUsersInv DEF Inv

LEMMA RestartInv ==
  ASSUME Inv, Restart
  PROVE  Inv'
<1>1. /\ owner' = [n \in Nicks |->
                     IF \E h \in accounts : n \in nicks[h]
                     THEN CHOOSE h \in accounts : n \in nicks[h] ELSE NULL]
      /\ nick' = [u \in Users |-> NULL] /\ auth' = [u \in Users |-> NULL]
      /\ regnick' = {} /\ reclaim' = {} /\ asked' = {}
      /\ allow_auth' = [n \in Nicks |-> NULL]
      /\ UNCHANGED <<accounts, nicks, crashed>>
  BY DEF Restart
<1>2. \A n \in Nicks : owner'[n] = owner[n]
  <2>1. SUFFICES ASSUME NEW n \in Nicks PROVE owner'[n] = owner[n]
    OBVIOUS
  <2>2. accounts \subseteq Handles /\ owner[n] \in Handles \cup {NULL}
    BY DEF Inv, TypeOK
  <2>3. \A h \in accounts : n \in nicks[h] <=> owner[n] = h
    BY <2>2 DEF Inv, NickListsExact
  <2>4. CASE \E h \in accounts : n \in nicks[h]
    <3>1. owner'[n] = CHOOSE h \in accounts : n \in nicks[h]
      BY <1>1, <2>4
    <3>2. owner'[n] \in accounts /\ n \in nicks[owner'[n]]
      BY <2>4, <3>1
    <3> QED BY <2>3, <3>2
  <2>5. CASE ~ \E h \in accounts : n \in nicks[h]
    <3>1. owner'[n] = NULL
      BY <1>1, <2>5
    <3>2. owner[n] = NULL
      BY <2>3, <2>5 DEF Inv, NickListsExact
    <3> QED BY <3>1, <3>2
  <2> QED BY <2>4, <2>5
<1>3. owner' \in [Nicks -> Handles \cup {NULL}]
  <2>1. \A n \in Nicks : owner'[n] \in Handles \cup {NULL}
    BY <1>2 DEF Inv, TypeOK
  <2> QED BY <1>1, <2>1
<1>4. TypeOK'
  BY <1>1, <1>3 DEF Inv, TypeOK
<1>5. NickListsExact'
  BY <1>1, <1>2 DEF Inv, NickListsExact
<1>6. SessionsRegistered' /\ OneBearer' /\ RegnickHonest' /\ RegnickOnline'
  BY <1>1 DEF SessionsRegistered, OneBearer, RegnickHonest, RegnickOnline
<1>7. AllowAuthFollowsUser'
  BY <1>1 DEF AllowAuthFollowsUser
<1> QED BY <1>4, <1>5, <1>6, <1>7 DEF Inv

-----------------------------------------------------------------------------
(* Commands about nicks.                                                   *)

\* A nick that was free is registered, and nothing else happens.
LEMMA NewNickInv ==
  ASSUME Inv, NEW n, MayRegister(n), NEW h \in accounts, RegisterNick(n, h),
         UNCHANGED <<accounts, userVars, crashed>>
  PROVE  Inv'
<1>1. n \in Nicks /\ owner[n] = NULL /\ h \in Handles
  BY Names DEF MayRegister, Inv, TypeOK
<1>2. accounts' = accounts /\ accounts \subseteq Handles
  BY DEF Inv, TypeOK
<1>3. /\ owner' \in [Nicks -> Handles \cup {NULL}]
      /\ nicks' \in [Handles -> SUBSET Nicks]
      /\ NickListsExact'
      /\ \A m \in Nicks : owner[m] # NULL => owner'[m] = owner[m]
  BY <1>1, <1>2, RegisterNickInv
<1>4. TypeOK'
  BY <1>3 DEF Inv, TypeOK, userVars
<1>5. SessionsRegistered'
  BY DEF Inv, SessionsRegistered, userVars
<1>6. RegnickHonest' /\ RegnickOnline'
  BY <1>3 DEF Inv, TypeOK, RegnickHonest, RegnickOnline, userVars
<1>7. OneBearer' /\ AllowAuthFollowsUser'
  BY SameUsersInv DEF userVars
<1> QED BY <1>3, <1>4, <1>5, <1>6, <1>7 DEF Inv

LEMMA RegnickInv ==
  ASSUME Inv, NEW u \in Users, Regnick(u)
  PROVE  Inv'
<1>1. auth[u] \in accounts
  BY DEF Regnick, Inv, SessionsRegistered
<1> QED BY <1>1, NewNickInv DEF Regnick

LEMMA OregnickInv ==
  ASSUME Inv, NEW n \in Nicks, NEW h \in Handles, Oregnick(n, h)
  PROVE  Inv'
BY NewNickInv DEF Oregnick

\* The nick is on its owner's list, so that delete_nick finds it there.
LEMMA UnregnickInv ==
  ASSUME Inv, NEW n \in Nicks, Unregnick(n)
  PROVE  Inv' /\ crashed' = crashed
<1>1. n \in nicks[owner[n]]
  BY DEF Unregnick, Inv, TypeOK, NickListsExact
<1>2. /\ owner' = [m \in Nicks |-> IF m \in {n} THEN NULL ELSE owner[m]]
      /\ nicks' = [g \in Handles |-> nicks[g] \ {n}]
      /\ regnick' = {u \in regnick : nick[u] \notin {n}}
      /\ UNCHANGED <<accounts, nick, auth, reclaim, asked, allow_auth, crashed>>
  BY <1>1 DEF Unregnick, DeleteNicks
<1>3. TypeOK'
  BY <1>2 DEF Inv, TypeOK
<1>4. NickListsExact' /\ SessionsRegistered'
  BY <1>2, Names DEF Inv, TypeOK, NickListsExact, SessionsRegistered
<1>5. RegnickHonest' /\ RegnickOnline'
  BY <1>2 DEF Inv, TypeOK, RegnickHonest, RegnickOnline
<1> QED BY <1>2, <1>3, <1>4, <1>5, SameUsersInv DEF Inv

LEMMA AllowAuthInv ==
  ASSUME Inv, NEW u \in Users, NEW hi \in Handles \cup {NULL}, AllowAuth(u, hi)
  PROVE  Inv'
<1>1. /\ nick[u] \in Nicks
      /\ allow_auth' = [allow_auth EXCEPT ![nick[u]] = Permission(u, hi)]
      /\ UNCHANGED <<accounts, owner, nicks, nick, auth, regnick, reclaim, asked, crashed>>
  BY DEF AllowAuth, Online, dictVars, Inv, TypeOK
<1>2. /\ Permission(u, hi) \in Permissions \cup {NULL}
      /\ Permission(u, hi) # NULL => Permission(u, hi).for = u
  BY DEF Permission, Permissions
<1>3. TypeOK'
  BY <1>1, <1>2 DEF Inv, TypeOK
<1>4. NickListsExact' /\ SessionsRegistered' /\ OneBearer'
  BY <1>1 DEF Inv, NickListsExact, SessionsRegistered, OneBearer
<1>5. RegnickHonest' /\ RegnickOnline'
  BY <1>1 DEF Inv, RegnickHonest, RegnickOnline
<1>6. AllowAuthFollowsUser'
  BY <1>1, <1>2 DEF Inv, TypeOK, AllowAuthFollowsUser
<1> QED BY <1>3, <1>4, <1>5, <1>6 DEF Inv


-----------------------------------------------------------------------------
(* The theorems.                                                           *)

\* delete_nick has not walked off the end of a list, in a state of Inv.
Sound == Inv /\ ~crashed

LEMMA UserStepSound ==
  ASSUME Sound, Tame, UserStep
  PROVE  Sound'
<1>1. CASE \E u \in Users, n \in Nicks, hi \in Handles \cup {NULL} : Connect(u, n, hi)
  <2>1. Inv'
    BY <1>1, ConnectInv DEF Sound
  <2>2. crashed' = crashed
    BY <1>1 DEF Connect
  <2> QED BY <2>1, <2>2 DEF Sound
<1>2. CASE \E u \in Users, n \in Nicks : NickChange(u, n)
  BY <1>2, NickChangeInv DEF Sound, NickChange
<1>3. CASE \E u \in Users : Quit(u)
  BY <1>3, QuitInv DEF Sound, Quit
<1>4. CASE \E u \in Users, n \in Nicks : TimerFires(u, n)
  BY <1>4, TimerFiresInv DEF Sound, TimerFires
<1>5. CASE \E u \in Users, h \in Handles : Auth(u, h)
  <2>1. Inv'
    BY <1>5, AuthInv DEF Sound
  <2>2. crashed' = crashed
    BY <1>5 DEF Auth
  <2> QED BY <2>1, <2>2 DEF Sound
<1>6. CASE \E u \in Users, h \in Handles, doStamp \in BOOLEAN : Login(u, h, doStamp)
  BY <1>6, LoginInv DEF Sound, Login
<1> QED BY <1>1, <1>2, <1>3, <1>4, <1>5, <1>6 DEF UserStep

LEMMA AccountStepSound ==
  ASSUME Sound, Tame, AccountStep
  PROVE  Sound'
<1>1. CASE \E u \in Users, h \in Handles : Register(u, h)
  BY <1>1, RegisterInv DEF Sound, Register
<1>2. CASE \E v \in Users \cup {NULL}, h \in Handles : Oregister(v, h)
  BY <1>2, OregisterInv DEF Sound, Oregister
<1>3. CASE \E h \in Handles : Unregister(h)
  BY <1>3, UnregisterInv DEF Sound, Unregister
<1>4. CASE \E hf, ht \in Handles : Merge(hf, ht)
  <2>1. Inv'
    BY <1>4, MergeInv DEF Sound
  <2>2. crashed' = crashed
    BY <1>4 DEF Merge
  <2> QED BY <2>1, <2>2 DEF Sound
<1>5. CASE Restart
  BY <1>5, RestartInv DEF Sound, Restart
<1> QED BY <1>1, <1>2, <1>3, <1>4, <1>5 DEF AccountStep

LEMMA NickStepSound ==
  ASSUME Sound, NickStep
  PROVE  Sound'
<1>1. CASE \E u \in Users : Regnick(u)
  BY <1>1, RegnickInv DEF Sound, Regnick
<1>2. CASE \E n \in Nicks, h \in Handles : Oregnick(n, h)
  BY <1>2, OregnickInv DEF Sound, Oregnick
<1>3. CASE \E n \in Nicks : Unregnick(n)
  BY <1>3, UnregnickInv DEF Sound
<1>4. CASE \E u, v \in Users : ReclaimNick(u, v)
  BY <1>4, ReclaimNickInv DEF Sound, ReclaimNick
<1>5. CASE \E u \in Users, hi \in Handles \cup {NULL} : AllowAuth(u, hi)
  <2>1. Inv'
    BY <1>5, AllowAuthInv DEF Sound
  <2>2. crashed' = crashed
    BY <1>5 DEF AllowAuth
  <2> QED BY <2>1, <2>2 DEF Sound
<1> QED BY <1>1, <1>2, <1>3, <1>4, <1>5 DEF NickStep

LEMMA Stutter ==
  ASSUME Sound, UNCHANGED vars
  PROVE  Sound'
<1>1. Inv'
  BY TimersOnlyInv DEF Sound, Inv, TypeOK, vars, dictVars, userVars
<1> QED BY <1>1 DEF Sound, vars

\* The state the dictionary, the lists, the flags and the permissions are in
\* stays sound whatever users and staff do, and UNREGNICK finds what it looks
\* for.
THEOREM NicksSound == ASSUME Tame PROVE Spec => []Sound
<1>1. Init => Sound
  BY InitInv DEF Sound, Init
<1>2. Sound /\ [Next]_vars => Sound'
  <2>1. SUFFICES ASSUME Sound, [Next]_vars PROVE Sound'
    OBVIOUS
  <2> QED BY <2>1, UserStepSound, AccountStepSound, NickStepSound, Stutter DEF Next
<1> QED BY <1>1, <1>2, PTL DEF Spec

\* Type correctness.
THEOREM NicksTypeCorrect == ASSUME Tame PROVE Spec => []TypeOK
<1>1. Sound => TypeOK
  BY DEF Sound, Inv
<1> QED BY <1>1, NicksSound, PTL

\* The dictionary of nicks and the accounts' lists agree.
THEOREM ListsExact == ASSUME Tame PROVE Spec => []NickListsExact
<1>1. Sound => NickListsExact
  BY DEF Sound, Inv
<1> QED BY <1>1, NicksSound, PTL

\* Whoever has FLAGS_REGNICK is logged in to the owner of their nick.
THEOREM FlagIsHonest == ASSUME Tame PROVE Spec => []RegnickHonest
<1>1. Sound => RegnickHonest
  BY DEF Sound, Inv
<1> QED BY <1>1, NicksSound, PTL

\* A permission of ALLOWAUTH is found by nobody but its user.
THEOREM PermissionFollows == ASSUME Tame PROVE Spec => []AllowAuthFollowsUser
<1>1. Sound => AllowAuthFollowsUser
  BY DEF Sound, Inv
<1> QED BY <1>1, NicksSound, PTL

\* Neither the flag nor a permission outlives what it stands for.
THEOREM RightsAreHonest == ASSUME Tame PROVE Spec => []NickRightsHonest
<1>1. Sound => NickRightsHonest
  BY DEF Sound, Inv, NickRightsHonest
<1> QED BY <1>1, NicksSound, PTL

\* delete_nick never walks off the end of a list.
THEOREM UnregnickFinds == ASSUME Tame PROVE Spec => []~crashed
<1>1. Sound => ~crashed
  BY DEF Sound
<1> QED BY <1>1, NicksSound, PTL


-----------------------------------------------------------------------------
(* Squatters are watched.                                                  *)

\* A timer that makes its user leave the nick, after a delay.
Reclaiming == AutoReclaim \in {"svsnick", "kill"} /\ Delayed

\* The action of WatchNotLost.
Watches(u) ==
  /\ Squatter(u)'
  /\ nick'[u] # nick[u] \/ (Squatter(u) /\ Watched(u))
  => Watched(u)'

\* A login takes away only the timers of those who own their nick now.
LEMMA LogInWatches ==
  ASSUME Inv, NEW u \in Users, NEW h \in Handles, NEW doStamp \in BOOLEAN,
         LogIn(u, h, doStamp), UNCHANGED <<owner, nick, asked>>, NEW v \in Users
  PROVE  Watches(v)
<1>1. auth'[u] = h /\ (reclaim' = reclaim \/ (reclaim' = reclaim \ {u} /\ owner[nick[u]] = h))
  BY DEF LogIn, Inv, TypeOK
<1> QED BY <1>1 DEF Watches, Squatter, Watched, Online

\* DelUser leaves no nick to watch.
LEMMA DelUserWatches ==
  ASSUME Inv, NEW u \in Users, DelUser(u), NEW v \in Users
  PROVE  Watches(v)
<1>1. CASE v = u
  BY <1>1 DEF DelUser, Inv, TypeOK, Watches, Squatter, Online
<1>2. CASE v # u
  BY <1>2 DEF DelUser, Inv, TypeOK, Watches, Watched
<1> QED BY <1>1, <1>2

LEMMA StillWatches ==
  ASSUME UNCHANGED <<nick, reclaim, asked>>, NEW v \in Users
  PROVE  Watches(v)
BY DEF Watches, Watched

\* check_user_nick watches u; whoever else there is stays as they are.
LEMMA CheckUserNickWatches ==
  ASSUME Inv, Reclaiming, NEW u \in Users, NEW n \in Nicks,
         NEW hi \in Handles \cup {NULL}, CheckUserNick(u, n, hi),
         nick' = [nick EXCEPT ![u] = n], auth'[u] = hi, UNCHANGED owner,
         NEW v \in Users
  PROVE  Watches(v)
<1>1. CASE v = u
  <2>1. nick'[u] = n
    BY DEF Inv, TypeOK
  <2>2. owner[n] \notin {NULL, hi} => u \in reclaim'
    BY DEF CheckUserNick, Reclaiming
  <2>3. Squatter(u)' => owner[n] \notin {NULL, hi}
    BY <2>1 DEF Squatter
  <2> QED BY <1>1, <2>2, <2>3 DEF Watches, Watched
<1>2. CASE v # u
  BY <1>2 DEF CheckUserNick, Inv, TypeOK, Watches, Watched
<1> QED BY <1>1, <1>2

LEMMA UserStepWatches ==
  ASSUME Inv, Reclaiming, UserStep, NEW v \in Users
  PROVE  Watches(v)
<1>1. ASSUME NEW u \in Users, NEW n \in Nicks, NEW hi \in Handles \cup {NULL},
             Connect(u, n, hi)
      PROVE  Watches(v)
  <2>1. /\ CheckUserNick(u, n, hi) /\ nick' = [nick EXCEPT ![u] = n]
        /\ auth'[u] = hi /\ UNCHANGED owner
    BY <1>1 DEF Connect, dictVars, Inv, TypeOK
  <2> QED BY <2>1, CheckUserNickWatches
<1>2. ASSUME NEW u \in Users, NEW n \in Nicks, NickChange(u, n)
      PROVE  Watches(v)
  <2>1. CASE KilledAtOnce(u, n)
    BY <2>1 DEF KilledAtOnce, Reclaiming
  <2>2. CASE ~KilledAtOnce(u, n)
    <3>1. /\ CheckUserNick(u, n, auth[u]) /\ nick' = [nick EXCEPT ![u] = n]
          /\ auth'[u] = auth[u] /\ auth[u] \in Handles \cup {NULL} /\ UNCHANGED owner
      BY <1>2, <2>2 DEF NickChange, dictVars, Inv, TypeOK
    <3> QED BY <3>1, CheckUserNickWatches
  <2> QED BY <2>1, <2>2
<1>3. ASSUME NEW u \in Users, Quit(u)
      PROVE  Watches(v)
  BY <1>3, DelUserWatches DEF Quit
<1>4. ASSUME NEW u \in Users, NEW n \in Nicks, TimerFires(u, n)
      PROVE  Watches(v)
  <2>1. /\ nick[u] = n /\ reclaim' = reclaim \ {u} /\ UNCHANGED owner
        /\ IF owner[n] # NULL THEN Reclaim(u, AutoReclaim)
           ELSE UNCHANGED <<nick, auth, regnick, asked, allow_auth>>
    BY <1>4 DEF TimerFires, dictVars
  <2>2. CASE owner[n] # NULL /\ AutoReclaim = "kill"
    BY <2>1, <2>2, DelUserWatches DEF Reclaim
  <2>3. CASE owner[n] # NULL /\ AutoReclaim # "kill"
    <3>1. asked' = asked \cup {u} /\ UNCHANGED <<nick, auth>>
      BY <2>1, <2>3 DEF Reclaim, Reclaiming
    <3> QED BY <2>1, <3>1 DEF Watches, Watched
  <2>4. CASE owner[n] = NULL
    BY <2>1, <2>4 DEF Watches, Squatter, Watched
  <2> QED BY <2>2, <2>3, <2>4
<1>5. ASSUME NEW u \in Users, NEW h \in Handles, Auth(u, h)
      PROVE  Watches(v)
  <2>1. /\ LogIn(u, h, TRUE) \/ UNCHANGED <<auth, regnick, reclaim>>
        /\ UNCHANGED <<owner, nick, asked>>
    BY <1>5 DEF Auth, dictVars
  <2>2. CASE LogIn(u, h, TRUE)
    BY <2>1, <2>2, LogInWatches
  <2>3. CASE UNCHANGED <<auth, regnick, reclaim>>
    BY <2>1, <2>3, StillWatches
  <2> QED BY <2>1, <2>2, <2>3
<1>6. ASSUME NEW u \in Users, NEW h \in Handles, NEW doStamp \in BOOLEAN,
             Login(u, h, doStamp)
      PROVE  Watches(v)
  <2>1. LogIn(u, h, doStamp) /\ UNCHANGED <<owner, nick, asked>>
    BY <1>6 DEF Login, dictVars
  <2> QED BY <2>1, LogInWatches
<1> QED BY <1>1, <1>2, <1>3, <1>4, <1>5, <1>6 DEF UserStep

LEMMA AccountStepWatches ==
  ASSUME Inv, AccountStep, NEW v \in Users
  PROVE  Watches(v)
<1>1. CASE Restart
  BY <1>1 DEF Restart, Watches, Squatter, Online
<1>2. CASE ~Restart
  <2>1. UNCHANGED <<nick, reclaim, asked>>
    BY <1>2 DEF AccountStep, Register, Oregister, Unregister, Merge
  <2> QED BY <2>1, StillWatches
<1> QED BY <1>1, <1>2

LEMMA NickStepWatches ==
  ASSUME Inv, NickStep, NEW v \in Users
  PROVE  Watches(v)
<1>1. ASSUME NEW u \in Users, NEW w \in Users, ReclaimNick(u, w)
      PROVE  Watches(v)
  <2>1. CASE ReclaimAction = "kill"
    BY <1>1, <2>1, DelUserWatches DEF ReclaimNick, Reclaim
  <2>2. CASE ReclaimAction # "kill"
    BY <1>1, <2>2 DEF ReclaimNick, Reclaim, Watches, Watched
  <2> QED BY <2>1, <2>2
<1>2. CASE ~ \E u, w \in Users : ReclaimNick(u, w)
  <2>1. UNCHANGED <<nick, reclaim, asked>>
    BY <1>2 DEF NickStep, Regnick, Oregnick, Unregnick, AllowAuth, userVars
  <2> QED BY <2>1, StillWatches
<1> QED BY <1>1, <1>2

\* Nobody who takes somebody else's nick is forgotten, where the timer (after a
\* delay) makes them leave it.
THEOREM SquattersWatched == ASSUME Tame, Reclaiming PROVE Spec => WatchNotLost
<1>1. Sound /\ [Next]_vars => [\A u \in Users : Watches(u)]_vars
  BY UserStepWatches, AccountStepWatches, NickStepWatches DEF Sound, Next
<1>2. WatchNotLost <=> [][\A u \in Users : Watches(u)]_vars
  BY PTL DEF WatchNotLost, Watches
<1> QED BY <1>1, <1>2, NicksSound, PTL DEF Spec

=============================================================================
