-------------------------- MODULE NickServSessions --------------------------
(***************************************************************************)
(* NickServ sessions: which connection (struct userNode) is logged in to   *)
(* which account (struct handle_info), and the state that has to follow    *)
(* every login and logout:                                                 *)
(*   - user->handle_info and the list of an account's sessions, hi->users  *)
(*   - curr_helpers, the global list of sessions that belong to helpers    *)
(*   - HI_FLAG_HELPING, the "security override" of support staff, which    *)
(*     ChanServ switches as they enter and leave the support channels      *)
(*   - the account stamp that the IRC server keeps for a connection        *)
(*   - unregistering, merging and expiring accounts.                       *)
(* Source: src/nickserv.c, with src/chanserv.c (handle_join, handle_part,  *)
(* handle_auth), src/modcmd.c (cmd_god), src/proto-p10.c and src/hash.c.   *)
(* srvx runs one handler at a time, so every action is a whole handler.    *)
(***************************************************************************)
EXTENDS Naturals, FiniteSets

CONSTANTS
  Users,            \* connection slots; a slot is reused after a quit
  Handles,          \* account names
  SupportChannels,  \* chanserv_conf.support_channels
  IrcOps,           \* the connections that are +o on the IRC network
  Bound,            \* the commands and events this instance enables
  Settable,         \* the flags OSET FLAGS may change
  MaxLevel,         \* opserv_level 1000, the level of the root account
  MaxLogins,        \* nickserv_conf.default_maxlogins
  MaxGen,           \* bound: how often a name may be registered
  MaxEntries,       \* bound: entries of one user in curr_helpers
  CheckTimestamps,  \* account_timestamp_mode "ircu" (TRUE) or "ignore"
  NULL              \* no account, no stamp

HelperFlags == {"SUPPORT_HELPER", "NETWORK_HELPER"}
AllFlags == HelperFlags \cup {"HELPING", "SUSPENDED", "FROZEN", "NODELETE"}

ASSUME SessionsAssumption ==
  /\ IrcOps \subseteq Users
  /\ Settable \subseteq AllFlags
  /\ MaxLevel \in Nat \ {0} /\ MaxLogins \in Nat \ {0}
  /\ MaxGen \in Nat \ {0} /\ MaxEntries \in Nat \ {0}
  /\ CheckTimestamps \in BOOLEAN
  /\ NULL \notin Handles
  /\ NULL \notin Handles \X (0..MaxGen)

VARIABLES
  online,        \* connections srvx has a live userNode for
  clients,       \* the global dictionary `clients'
  accounts,      \* nickserv_handle_dict
  gen,           \* hi->registered: which registration of the name this is
  auth,          \* user->handle_info
  logins,        \* hi->users (a list linked by next_authed), as a set
  curr_helpers,  \* entries of each user in the list of helper sessions
  flags,         \* hi->flags
  level,         \* hi->opserv_level
  stale,         \* accounts whose lastseen is older than the expiry delay
  stamp,         \* the account the IRC server has stamped on a connection
  members,       \* who is on which support channel
  closed,        \* support channels that are unregistered or suspended
  crashed        \* a list walk ran off its end

sessionVars == <<auth, logins, curr_helpers, flags, stale>>
channelVars == <<members, closed>>
accountVars == <<accounts, gen, level>>
connVars    == <<online, clients, stamp>>
vars == <<sessionVars, channelVars, accountVars, connVars, crashed>>

Init ==
  /\ online = {} /\ clients = {} /\ accounts = {} /\ closed = {}
  /\ gen = [h \in Handles |-> 0]
  /\ auth = [u \in Users |-> NULL]
  /\ logins = [h \in Handles |-> {}]
  /\ curr_helpers = [u \in Users |-> 0]
  /\ flags = [h \in Handles |-> {}]
  /\ level = [h \in Handles |-> 0]
  /\ stale = {}
  /\ stamp = [u \in Users |-> NULL]
  /\ members = [c \in SupportChannels |-> {}]
  /\ crashed = FALSE

-----------------------------------------------------------------------------
(* Roles.                                                                  *)

HelperAccount(h) == flags[h] \cap HelperFlags # {}
IsHelper(u) == auth[u] # NULL /\ HelperAccount(auth[u])
Suspended(h) == "SUSPENDED" \in flags[h]

\* oper_outranks: may the owner of account a act on account h?
OperOutranks(a, h) ==
  \/ level[a] > level[h]
  \/ /\ level[a] = level[h]
     /\ \/ level[a] = MaxLevel
        \/ a = h
        \/ level[a] = 0 /\ ~HelperAccount(h) /\ "HELPING" \in flags[a]

\* Mutant: OSET, MERGE and OUNREGISTER without the outranks check.
MayTarget_NoRank(s, h) == auth[s] # NULL /\ h \in accounts

\* get_victim_oper: s, authed, may use a staff command on account h.
MayTarget(s, h) == /\ auth[s] # NULL
                   /\ h \in accounts
                   /\ OperOutranks(auth[s], h)

\* find_handle_in_channel: a session of h other than u's is on c.
HandleIn(h, c, u) == \E v \in members[c] \ {u} : auth[v] = h

-----------------------------------------------------------------------------
(* set_user_handle_info, which every login and logout goes through.        *)

\* Mutant: the old account's list is not updated.
Unlinked_Kept(u) == logins

\* hi->users without u, for the account u leaves.
Unlinked(u) == IF auth[u] = NULL THEN logins
               ELSE [logins EXCEPT ![auth[u]] = @ \ {u}]

\* Mutant: a logout does not touch curr_helpers.
AfterRemoval_None(u) == {curr_helpers[u]}

\* userList_remove skips the entry behind each one it removes, so of several
\* adjacent entries of one user half may stay.
AfterRemoval(u) == IF IsHelper(u) THEN 0..(curr_helpers[u] \div 2)
                   ELSE {curr_helpers[u]}

\* Mutant: only the account that is left is looked at.
DropsOverride_OldOnly(u, hi) ==
  {h \in {auth[u]} \ {NULL} : Unlinked(u)[h] = {} /\ level[h] = 0}

\* The override ends when nobody is left on an account without staff level;
\* a stale one is dropped before the first session of such an account.
DropsOverride(u, hi) ==
  {h \in {auth[u], hi} \ {NULL} : Unlinked(u)[h] = {} /\ level[h] = 0}

\* chanserv's handle_auth: a support helper who is already on a support
\* channel gets the override with the login.
OverrideAtAuth(u, hi) == /\ "SUPPORT_HELPER" \in flags[hi]
                         /\ \E c \in SupportChannels : u \in members[c]

FlagsAtAuth(u, hi) ==
  [h \in Handles |->
     LET kept == IF h \in DropsOverride(u, hi) THEN flags[h] \ {"HELPING"}
                 ELSE flags[h]
     IN  IF h = hi /\ OverrideAtAuth(u, hi) THEN kept \cup {"HELPING"}
         ELSE kept]

\* set_user_handle_info(u, hi, doStamp) for an account hi, when no auth
\* callback kills u.
LogIn(u, hi, doStamp) ==
  /\ auth' = [auth EXCEPT ![u] = hi]
  /\ logins' = [Unlinked(u) EXCEPT ![hi] = @ \cup {u}]
  /\ flags' = [FlagsAtAuth(u, hi) EXCEPT ![hi] = @ \ {"FROZEN"}]
  /\ \E left \in AfterRemoval(u) :
       curr_helpers' = [curr_helpers EXCEPT ![u] =
                          IF HelperAccount(hi) /\ left = 0 THEN 1 ELSE left]
  /\ stale' = stale \ {auth[u], hi}
  /\ stamp' = IF doStamp /\ stamp[u] = NULL
              THEN [stamp EXCEPT ![u] = <<hi, gen'[hi]>>] ELSE stamp

\* Mutant: any other session of the account keeps the override.
PartingDropsOverride_AnySession(u, h, f) ==
  {{"HELPING", "SUPPORT_HELPER"} \subseteq f /\ logins[h] \subseteq {u}}

\* Leaving every channel in DelUser: handle_part looks for other sessions of
\* the account on the support channels, and is not run for a closed channel,
\* so what counts is the channel that is left last.
PartingDropsOverride(u, h, f) ==
  LET mine == {c \in SupportChannels : u \in members[c]}
  IN  IF /\ {"HELPING", "SUPPORT_HELPER"} \subseteq f
         /\ mine # {}
         /\ ~\E c \in SupportChannels : HandleIn(h, c, u)
      THEN {last \notin closed : last \in mine}
      ELSE {FALSE}

\* The same function when opserv_auth_alert kills u (REACT_KILL) from the
\* auth callbacks, before u is linked into hi->users: DelUser logs u out of
\* hi, and the search for u in a list of other sessions runs off its end.
KilledAtAuth(u, hi) ==
  IF Unlinked(u)[hi] # {}
  THEN crashed' = TRUE /\ UNCHANGED <<sessionVars, members, connVars>>
  ELSE
    /\ auth' = [auth EXCEPT ![u] = NULL]
    /\ logins' = Unlinked(u)
    /\ \E drop \in PartingDropsOverride(u, hi, FlagsAtAuth(u, hi)[hi]) :
         flags' = [FlagsAtAuth(u, hi) EXCEPT ![hi] =
                     IF drop \/ level[hi] = 0 THEN @ \ {"HELPING"} ELSE @]
    /\ \E left \in AfterRemoval(u) :
         \E rest \in IF HelperAccount(hi) THEN 0..(left \div 2) ELSE {left} :
           curr_helpers' = [curr_helpers EXCEPT ![u] = rest]
    /\ stale' = stale \ {auth[u], hi}
    /\ members' = [c \in SupportChannels |-> members[c] \ {u}]
    /\ stamp' = [stamp EXCEPT ![u] = NULL]
    /\ online' = online \ {u}
    \* AddUser puts the killed user into `clients' after it was deleted
    /\ clients' = IF u \in clients THEN clients \ {u} ELSE clients \cup {u}
    /\ UNCHANGED crashed

Authenticate(u, hi, doStamp) ==
  \/ /\ LogIn(u, hi, doStamp)
     /\ online' = online \cup {u}
     /\ clients' = clients \cup {u}
     /\ UNCHANGED <<members, crashed>>
  \/ "ALERT" \in Bound /\ KilledAtAuth(u, hi)

\* DelUser, with set_user_handle_info(u, NULL, 0) in nickserv_remove_user.
DelUser(u) ==
  /\ online' = online \ {u}
  /\ clients' = clients \ {u}
  /\ members' = [c \in SupportChannels |-> members[c] \ {u}]
  /\ IF auth[u] = NULL THEN UNCHANGED sessionVars
     ELSE /\ auth' = [auth EXCEPT ![u] = NULL]
          /\ logins' = Unlinked(u)
          /\ \E left \in AfterRemoval(u) :
               curr_helpers' = [curr_helpers EXCEPT ![u] = left]
          /\ stale' = stale \ {auth[u]}
          /\ \E drop \in PartingDropsOverride(u, auth[u], flags[auth[u]]) :
               flags' = [flags EXCEPT ![auth[u]] =
                           IF drop \/ auth[u] \in DropsOverride(u, NULL)
                           THEN @ \ {"HELPING"} ELSE @]
  /\ UNCHANGED <<accountVars, closed, crashed>>

-----------------------------------------------------------------------------
(* Connections.                                                            *)

\* Mutant: a suspended account's stamp is honoured.
StampedAccount_Suspended(st) ==
  IF /\ st # NULL
     /\ st[1] \in accounts
     /\ CheckTimestamps => st[2] = gen[st[1]]
  THEN st[1] ELSE NULL

\* handle_account: the registered account a stamp logs its bearer in to.
StampedAccount(st) ==
  IF /\ st # NULL
     /\ st[1] \in accounts
     /\ CheckTimestamps => st[2] = gen[st[1]]
     /\ ~Suspended(st[1])
  THEN st[1] ELSE NULL

\* AddUser: a new connection, or one back from a netsplit, introduced with
\* the stamp its server holds (mod_usermode, 'r').
Connect(u) ==
  /\ u \notin online /\ u \notin clients
  /\ LET hi == StampedAccount(stamp[u]) IN
       IF hi # NULL
       THEN Authenticate(u, hi, FALSE)
       ELSE /\ online' = online \cup {u}
            /\ clients' = clients \cup {u}
            /\ UNCHANGED <<sessionVars, stamp, members, crashed>>
  /\ UNCHANGED <<accountVars, closed>>

\* QUIT or KILL: the connection is gone, and its stamp with it.
Quit(u) ==
  /\ u \in online
  /\ DelUser(u)
  /\ stamp' = [stamp EXCEPT ![u] = NULL]

\* DelServer: u's server splits off; it keeps u and u's stamp.
NetSplit(u) ==
  /\ "SPLIT" \in Bound
  /\ u \in online
  /\ DelUser(u)
  /\ UNCHANGED stamp

\* cmd_account: another server stamps a connection that has no stamp yet.
AccountMessage(u, h) ==
  /\ "ACCOUNT" \in Bound
  /\ u \in online /\ stamp[u] = NULL
  /\ h \in accounts
  /\ UNCHANGED <<accountVars, closed>>
  /\ LET hi == StampedAccount(<<h, gen[h]>>) IN
       IF hi # NULL /\ auth[u] # hi
       THEN Authenticate(u, hi, TRUE)   \* the stamp is <<hi, gen[hi]>> here too
       ELSE /\ stamp' = [stamp EXCEPT ![u] = <<h, gen[h]>>]
            /\ UNCHANGED <<sessionVars, online, clients, members, crashed>>

\* mod-iauth_loc: LOGIN2 approves a login on connect; the server introduces
\* the connection with the stamp some time later.
LoginOnConnect(u, h) ==
  /\ "LOC" \in Bound
  /\ u \notin online /\ u \notin clients /\ stamp[u] = NULL
  /\ h \in accounts /\ ~Suspended(h)
  /\ stamp' = [stamp EXCEPT ![u] = <<h, gen[h]>>]
  /\ UNCHANGED <<sessionVars, channelVars, accountVars, online, clients, crashed>>

-----------------------------------------------------------------------------
(* Support channels.                                                       *)

\* AddChannelUser and handle_join; a join through a ban returns early.
Join(u, c) ==
  /\ u \in online /\ u \notin members[c]
  /\ members' = [members EXCEPT ![c] = @ \cup {u}]
  /\ \E banned \in BOOLEAN :
       flags' = IF c \notin closed /\ ~banned /\ IsHelper(u)
                THEN [flags EXCEPT ![auth[u]] = @ \cup {"HELPING"}] ELSE flags
  /\ UNCHANGED <<auth, logins, curr_helpers, stale, closed, accountVars,
                 connVars, crashed>>

\* DelChannelUser and handle_part, for a PART or a KICK.
Part(u, c) ==
  /\ u \in members[c]
  /\ members' = [members EXCEPT ![c] = @ \ {u}]
  /\ flags' = IF /\ c \notin closed /\ auth[u] # NULL
                 /\ {"HELPING", "SUPPORT_HELPER"} \subseteq flags[auth[u]]
                 /\ ~\E d \in SupportChannels :
                       HandleIn(auth[u], d, IF d = c THEN u ELSE NULL)
              THEN [flags EXCEPT ![auth[u]] = @ \ {"HELPING"}] ELSE flags
  /\ UNCHANGED <<auth, logins, curr_helpers, stale, closed, accountVars,
                 connVars, crashed>>

\* A support channel loses or regains its registration (or is suspended).
Close(c) ==
  /\ "CSUSPEND" \in Bound
  /\ closed' = IF c \in closed THEN closed \ {c} ELSE closed \cup {c}
  /\ UNCHANGED <<sessionVars, accountVars, connVars, members, crashed>>

-----------------------------------------------------------------------------
(* Commands of users.                                                      *)

\* cmd_auth with the right password, from a host the account's masks admit.
Auth(u, h) ==
  /\ "AUTH" \in Bound
  /\ u \in online /\ auth[u] = NULL /\ stamp[u] = NULL
  /\ h \in accounts /\ ~Suspended(h)
  /\ Cardinality(logins[h]) < MaxLogins
  /\ UNCHANGED <<accountVars, closed>>
  /\ Authenticate(u, h, TRUE)

\* cmd_cookie with a cookie that logs in: ACTIVATION and ALLOWAUTH for users
\* who are not logged in, PASSWORD_CHANGE for everybody.
Cookie(u, h) ==
  /\ "COOKIE" \in Bound
  /\ u \in online /\ auth[u] # h
  /\ h \in accounts /\ ~Suspended(h)
  /\ UNCHANGED <<accountVars, closed>>
  /\ Authenticate(u, h, TRUE)

\* register_handle
NewAccount(h) ==
  /\ h \notin accounts /\ gen[h] < MaxGen
  /\ accounts' = accounts \cup {h}
  /\ gen' = [gen EXCEPT ![h] = @ + 1]

\* cmd_register without email: the first account gets opserv_level 1000.
Register(u, h) ==
  /\ "REGISTER" \in Bound
  /\ u \in online /\ auth[u] = NULL /\ stamp[u] = NULL
  /\ accounts = {} => u \in IrcOps
  /\ NewAccount(h)
  /\ level' = [level EXCEPT ![h] = IF accounts = {} THEN MaxLevel ELSE 0]
  /\ Authenticate(u, h, TRUE)
  /\ UNCHANGED closed

\* cmd_oregister: s registers h, for the connection v or (v = NULL) nobody.
Oregister(s, v, h) ==
  /\ "OREGISTER" \in Bound
  /\ auth[s] # NULL
  /\ NewAccount(h)
  /\ UNCHANGED <<level, closed>>
  /\ IF v = NULL
     THEN UNCHANGED <<sessionVars, connVars, members, crashed>>
     ELSE /\ v \in online /\ auth[v] = NULL
          /\ Authenticate(v, h, TRUE)

\* nickserv_unregister_handle for the accounts in hs: every session is logged
\* out, the IRC server's stamps cannot be taken back.
Unregister(hs) ==
  LET out == UNION {logins[h] : h \in hs} IN
  /\ accounts' = accounts \ hs
  /\ auth' = [u \in Users |-> IF u \in out THEN NULL ELSE auth[u]]
  /\ logins' = [h \in Handles |-> IF h \in hs THEN {} ELSE logins[h]]
  /\ curr_helpers' \in
       {f \in [Users -> 0..MaxEntries] :
          \A u \in Users : IF u \in out THEN f[u] \in AfterRemoval(u)
                           ELSE f[u] = curr_helpers[u]}
  /\ flags' = [h \in Handles |-> IF h \in hs THEN {} ELSE flags[h]]
  /\ level' = [h \in Handles |-> IF h \in hs THEN 0 ELSE level[h]]
  /\ stale' = stale \ hs
  /\ UNCHANGED <<gen, connVars, channelVars, crashed>>

\* cmd_unregister
UnregisterOwn(u) ==
  /\ "UNREGISTER" \in Bound
  /\ auth[u] # NULL
  /\ Unregister({auth[u]})

\* cmd_ghost
Ghost(u, v) ==
  /\ "GHOST" \in Bound
  /\ u # v /\ auth[u] # NULL /\ auth[v] = auth[u]
  /\ DelUser(v)
  /\ stamp' = [stamp EXCEPT ![v] = NULL]

\* cmd_vacation
Vacation(u) ==
  /\ "VACATION" \in Bound
  /\ auth[u] # NULL
  /\ flags' = [flags EXCEPT ![auth[u]] = @ \cup {"FROZEN"}]
  /\ UNCHANGED <<auth, logins, curr_helpers, stale, accountVars, channelVars,
                 connVars, crashed>>

\* cmd_god: opers and network helpers toggle their override.
God(u) ==
  /\ "GOD" \in Bound
  /\ auth[u] # NULL
  /\ u \in IrcOps \/ "NETWORK_HELPER" \in flags[auth[u]]
  /\ flags' = [flags EXCEPT ![auth[u]] = IF "HELPING" \in @ THEN @ \ {"HELPING"}
                                         ELSE @ \cup {"HELPING"}]
  /\ UNCHANGED <<auth, logins, curr_helpers, stale, accountVars, channelVars,
                 connVars, crashed>>

-----------------------------------------------------------------------------
(* Commands of staff.                                                      *)

\* opt_flags and nickserv_apply_flags
OsetFlags(s, h, added, removed) ==
  /\ "OSET FLAGS" \in Bound
  /\ MayTarget(s, h)
  /\ added \cap removed = {}
  /\ LET set     == (flags[h] \cup added) \ removed
         inChan  == \E c \in SupportChannels : HandleIn(h, c, NULL)
         before  == flags[h] \cap HelperFlags
         after   == set \cap HelperFlags
     IN
       /\ flags' = [flags EXCEPT ![h] =
                      IF after = {"SUPPORT_HELPER"} /\ ~inChan
                      THEN set \ {"HELPING"} ELSE set]
       /\ IF after # {} /\ before = {}
          THEN /\ \A u \in logins[h] : curr_helpers[u] < MaxEntries
               /\ curr_helpers' = [u \in Users |->
                    IF u \in logins[h] THEN curr_helpers[u] + 1
                    ELSE curr_helpers[u]]
          ELSE IF after = {} /\ before # {}
          THEN curr_helpers' \in
                 {f \in [Users -> 0..MaxEntries] :
                    \A u \in Users :
                      IF u \in logins[h] THEN f[u] \in 0..(curr_helpers[u] \div 2)
                      ELSE f[u] = curr_helpers[u]}
          ELSE UNCHANGED curr_helpers
  /\ UNCHANGED <<auth, logins, stale, accountVars, channelVars, connVars,
                 crashed>>

\* opt_level and oper_try_set_access
OsetLevel(s, h, new) ==
  /\ "OSET LEVEL" \in Bound
  /\ MayTarget(s, h)
  /\ s \in IrcOps /\ level[auth[s]] > 0   \* modoper_level
  /\ \A other \in {level[h], new} :
       \/ level[auth[s]] > other
       \/ level[auth[s]] = MaxLevel /\ other = MaxLevel
  /\ auth[s] # h
  /\ level' = [level EXCEPT ![h] = new]
  /\ UNCHANGED <<accounts, gen, sessionVars, channelVars, connVars, crashed>>

\* cmd_ounregister with force
Ounregister(s, h) ==
  /\ "OUNREGISTER" \in Bound
  /\ MayTarget(s, h)
  /\ "NODELETE" \notin flags[h]
  /\ s \in IrcOps \/ logins[h] = {}
  /\ Unregister({h})

\* cmd_merge: "Do they get an OpServ level promotion?"
MergedLevel(hf, ht) == IF level[hf] > level[ht] THEN level[hf] ELSE level[ht]

\* cmd_merge: hf's sessions and level go to ht, then hf is unregistered with
\* an empty hi->users.  curr_helpers is left as it is.
Merge(s, hf, ht) ==
  /\ "MERGE" \in Bound
  /\ MayTarget(s, hf) /\ MayTarget(s, ht) /\ hf # ht
  /\ s \in IrcOps /\ level[auth[s]] > 0   \* the command's level, 750
  /\ auth' = [u \in Users |-> IF u \in logins[hf] THEN ht ELSE auth[u]]
  /\ logins' = [logins EXCEPT ![ht] = @ \cup logins[hf], ![hf] = {}]
  /\ level' = [level EXCEPT ![hf] = 0, ![ht] = MergedLevel(hf, ht)]
  /\ stale' = stale \ ({hf} \cup (IF hf \in stale THEN {} ELSE {ht}))
  /\ accounts' = accounts \ {hf}
  /\ flags' = [flags EXCEPT ![hf] = {}]
  /\ UNCHANGED <<curr_helpers, gen, connVars, channelVars, crashed>>

-----------------------------------------------------------------------------
(* The passing of time.                                                    *)

\* hi->lastseen falls behind the expiry delay.
Age(h) ==
  /\ "EXPIRE" \in Bound
  /\ h \in accounts /\ h \notin stale
  /\ stale' = stale \cup {h}
  /\ UNCHANGED <<auth, logins, curr_helpers, flags, accountVars, channelVars,
                 connVars, crashed>>

\* Mutant: any flag keeps an account from expiring.
Protected_AnyFlag(h) == level[h] > 0 \/ logins[h] # {} \/ flags[h] # {}

Protected(h) == \/ level[h] > 0
                \/ logins[h] # {}
                \/ {"FROZEN", "NODELETE"} \cap flags[h] # {}

\* expire_handles, a timer that re-arms itself
ExpireHandles ==
  /\ "EXPIRE" \in Bound
  /\ LET expired == {h \in accounts : ~Protected(h) /\ h \in stale}
     IN  expired # {} /\ Unregister(expired)

-----------------------------------------------------------------------------
\* What the network does, what users and staff ask for, and the timer; nothing
\* runs any more once the process has crashed.
Network ==
  \/ \E u \in Users : ~crashed /\ Connect(u)
  \/ \E u \in Users : ~crashed /\ Quit(u)
  \/ \E u \in Users : ~crashed /\ NetSplit(u)
  \/ \E u \in Users, h \in Handles : ~crashed /\ AccountMessage(u, h)
  \/ \E u \in Users, h \in Handles : ~crashed /\ LoginOnConnect(u, h)
  \/ \E u \in Users, c \in SupportChannels : ~crashed /\ Join(u, c)
  \/ \E u \in Users, c \in SupportChannels : ~crashed /\ Part(u, c)
  \/ \E c \in SupportChannels : ~crashed /\ Close(c)

UserCommand ==
  \/ \E u \in Users, h \in Handles : ~crashed /\ Auth(u, h)
  \/ \E u \in Users, h \in Handles : ~crashed /\ Cookie(u, h)
  \/ \E u \in Users, h \in Handles : ~crashed /\ Register(u, h)
  \/ \E u \in Users : ~crashed /\ UnregisterOwn(u)
  \/ \E u, v \in Users : ~crashed /\ Ghost(u, v)
  \/ \E u \in Users : ~crashed /\ Vacation(u)
  \/ \E u \in Users : ~crashed /\ God(u)

StaffCommand ==
  \/ \E s \in Users, v \in Users \cup {NULL}, h \in Handles :
       ~crashed /\ Oregister(s, v, h)
  \/ \E s \in Users, h \in Handles, added, removed \in SUBSET Settable :
       ~crashed /\ OsetFlags(s, h, added, removed)
  \/ \E s \in Users, h \in Handles, new \in 0..MaxLevel :
       ~crashed /\ OsetLevel(s, h, new)
  \/ \E s \in Users, h \in Handles : ~crashed /\ Ounregister(s, h)
  \/ \E s \in Users, hf, ht \in Handles : ~crashed /\ Merge(s, hf, ht)

Time ==
  \/ \E h \in Handles : ~crashed /\ Age(h)
  \/ ~crashed /\ ExpireHandles

Next == Network \/ UserCommand \/ StaffCommand \/ Time

\* expire_handles runs from a timer that it arms again each time.
Spec == Init /\ [][Next]_vars /\ WF_vars(ExpireHandles)

-----------------------------------------------------------------------------
(* Properties.                                                             *)

TypeOK ==
  /\ online \in SUBSET Users /\ clients \in SUBSET Users
  /\ accounts \in SUBSET Handles
  /\ gen \in [Handles -> 0..MaxGen]
  /\ auth \in [Users -> Handles \cup {NULL}]
  /\ logins \in [Handles -> SUBSET Users]
  /\ curr_helpers \in [Users -> 0..MaxEntries]
  /\ flags \in [Handles -> SUBSET AllFlags]
  /\ level \in [Handles -> 0..MaxLevel]
  /\ stale \in SUBSET Handles
  /\ stamp \in [Users -> (Handles \X (0..MaxGen)) \cup {NULL}]
  /\ members \in [SupportChannels -> SUBSET Users]
  /\ closed \in SUBSET SupportChannels
  /\ crashed \in BOOLEAN

\* The two ends of a session agree: user->handle_info is h exactly when the
\* user is on h's hi->users list, and then the account is registered and the
\* connection is alive.  set_user_handle_info, cmd_merge,
\* nickserv_unregister_handle and DelUser each change one end in a loop.
SessionsExact ==
  /\ \A u \in Users, h \in Handles : u \in logins[h] <=> auth[u] = h
  /\ \A u \in Users : auth[u] # NULL => u \in online /\ auth[u] \in accounts

\* curr_helpers, which STAFF, HELPERS and GLOBAL walk, holds every live
\* session of a helper account once and nobody else, whatever the order of
\* logins, quits, OSET FLAGS and OUNREGISTER.
HelperListExact ==
  \A u \in Users : curr_helpers[u] = IF IsHelper(u) THEN 1 ELSE 0

\* A support helper without staff level who may not use GOD has the override
\* only while one of the account's sessions is on a support channel
\* (handle_join, handle_part, handle_auth, nickserv_apply_flags).
SupportOverrideInChannel ==
  \A h \in accounts :
    /\ "HELPING" \in flags[h]
    /\ flags[h] \cap HelperFlags = {"SUPPORT_HELPER"}
    => \E c \in SupportChannels, u \in Users : u \in members[c] /\ auth[u] = h

\* Whoever is logged in bears the stamp of that account and registration: the
\* IRC server and NickServ agree on who a connection is.
StampAgrees ==
  \A u \in Users : auth[u] # NULL =>
    /\ stamp[u] # NULL
    /\ stamp[u][1] = auth[u]
    /\ CheckTimestamps => stamp[u][2] = gen[auth[u]]

\* What may leave others with an old idea of a session: an account that is
\* dissolved hands its sessions over (cmd_merge), or a connection that bears a
\* stamp already is logged in to another account (also COOKIE and OREGISTER).
HandedOver == \E u \in Users : auth[u] \in accounts \ accounts' /\ auth'[u] # NULL
Relogged == \E u \in online : stamp[u] # NULL /\ auth'[u] \notin {NULL, auth[u]}

\* Who is logged in is known alike to NickServ, to the walkers of curr_helpers
\* and to the IRC server: nothing but that makes the list of helpers or a stamp
\* disagree with the sessions (set_user_handle_info, userList_remove,
\* nickserv_apply_flags, nickserv_unregister_handle, DelUser).
SessionsKnown ==
  [][/\ HelperListExact /\ ~HelperListExact' => HandedOver
     /\ StampAgrees /\ ~StampAgrees' => Relogged]_vars

\* A session that starts on an account without staff level and without other
\* sessions never finds an old security override switched on: it has one only
\* if it is on a support channel (set_user_handle_info, "remove !god").
OverrideNotInherited ==
  [][\A h \in Handles :
       /\ logins[h] = {} /\ logins'[h] # {}
       /\ level'[h] = 0 /\ "HELPING" \in flags'[h]
       => \E c \in SupportChannels : logins'[h] \cap members'[c] # {}]_vars

\* A suspended account gains no session on any path: AUTH, COOKIE, a stamp
\* from a netsplit or another server, a login on connect.
SuspendedLockout ==
  [][\A h \in accounts : Suspended(h) => logins'[h] \subseteq logins[h]]_vars

\* An account's level rises only in the presence of a session with at least
\* the new level; the first account of an empty database is the exception.
\* Covers REGISTER, OSET LEVEL and the promotion at the end of cmd_merge.
NoSelfPromotion ==
  [][\A h \in Handles : level'[h] > level[h] =>
       \/ accounts = {}
       \/ \E s \in Users : auth[s] # NULL /\ level[auth[s]] >= level'[h]]_vars

\* expire_handles reaches every abandoned account: one that is unused for the
\* expiry delay and not protected is unregistered, unless it is used again.
Abandoned(h) == /\ h \in accounts /\ h \in stale
                /\ level[h] = 0 /\ logins[h] = {}
                /\ flags[h] \cap {"FROZEN", "NODELETE"} = {}
AbandonedExpires == \A h \in Handles : Abandoned(h) ~> ~Abandoned(h)

-----------------------------------------------------------------------------
(* A statement of a comment that does not hold.                             *)

\* nickserv.c, set_user_handle_info: a user killed for authing is on no list,
\* and the code expects that list to be empty then.
NoListOverrun == ~crashed
=============================================================================
