------------------------------- MODULE ChanServ -------------------------------
(***************************************************************************)
(* ChanServ's registered channels: who has which access (struct userData), *)
(* who of them is present, which channels are suspended and until when, and*)
(* when a channel lapses.  Presence is a bit that a dozen handlers and     *)
(* commands keep up to date; expiry, TRIM and the database believe it.     *)
(* Source: src/chanserv.c, with svccmd_can_invoke (src/modcmd.c), DelUser  *)
(* (src/proto-p10.c) and cmd_merge (src/nickserv.c).                       *)
(* Bans, modes, do-not-register entries and the accounts' flags are not    *)
(* here: users who join are users no ban turns away.                       *)
(***************************************************************************)
EXTENDS Naturals, FiniteSets, TLC

CONSTANTS
  Users,      \* connections
  Handles,    \* account names
  Channels,   \* channel names
  Grants,     \* the levels ADDUSER and CLVL give in this instance
  MaxOwned,   \* chanserv_conf.max_owned
  Staff,      \* the helpers who are helping: "helper", below nodelete_level,
              \* and "senior", at or above it
  Bound,      \* the commands this instance enables
  NULL

\* UL_OP, UL_MASTER (and UL_PRESENT), UL_COOWNER, UL_OWNER, UL_HELPER.
\* GIVEOWNERSHIP FORCE makes an entry with Owner - 1.
Op == 1
Master == 2
CoOwner == 3
Owner == 5
Helper == 6

ASSUME ChanServAssumption ==
  /\ Grants \subseteq 1..Owner
  /\ MaxOwned \in Nat
  /\ NULL \notin Handles
  /\ Staff \subseteq {"helper", "senior"}
  /\ Users \cap Staff = {}

VARIABLES
  auth,     \* user->handle_info
  members,  \* channel->members, without services
  chan      \* channel->channel_info

vars == <<auth, members, chan>>

\* struct chanData.  An account without userData has access 0.
ChanData ==
  [ registered : BOOLEAN,
    access     : [Handles -> 0..Owner],
    barred     : SUBSET Handles,         \* USER_SUSPENDED
    present    : SUBSET Handles,
    unvisited  : BOOLEAN,                \* visited is channel_expire_delay ago
    protected  : BOOLEAN,                \* CHANNEL_NODELETE
    suspended  : BOOLEAN,                \* CHANNEL_SUSPENDED
    timed      : BOOLEAN,                \* the suspension in force expires
    timers     : 0..2 ]                  \* armed chanserv_expire_suspension

\* No channel_info.
Blank ==
  [ registered |-> FALSE, access |-> [h \in Handles |-> 0], barred |-> {},
    present |-> {}, unvisited |-> FALSE, protected |-> FALSE,
    suspended |-> FALSE, timed |-> FALSE, timers |-> 0 ]

Init ==
  /\ auth = [u \in Users |-> NULL]
  /\ members = [c \in Channels |-> {}]
  /\ chan = [c \in Channels |-> Blank]

-----------------------------------------------------------------------------
(* What handlers and commands do to a channel's data.                      *)

\* The accounts with a session among us.
AccountsOf(us) == {auth[u] : u \in us} \ {NULL}

Listed(r) == {h \in Handles : r.access[h] # 0}

\* scan_user_presence for each of hs, when the accounts in `there' have
\* sessions on the channel.
Scanned(r, hs, there) ==
  [r EXCEPT !.present =
     (@ \ hs) \cup IF r.suspended THEN {} ELSE (hs \cap there) \ r.barred]

\* A handler notes who comes and goes on a channel that is not suspended.
Tracks(r, h) == h # NULL /\ ~r.suspended /\ h \in Listed(r)

Visited(r, h) == [r EXCEPT !.unvisited = @ /\ r.access[h] < Master]

\* handle_join; handle_auth for a channel the user is on.
Arrived(r, h) ==
  IF Tracks(r, h) /\ h \notin r.barred
  THEN Visited([r EXCEPT !.present = @ \cup {h}], h) ELSE r

\* Mutant: the account is away once one of its sessions leaves.
Departed_Absent(r, h, there) ==
  IF Tracks(r, h) THEN Visited([r EXCEPT !.present = @ \ {h}], h) ELSE r

\* handle_part, with the accounts of those who stay
Departed(r, h, there) ==
  IF Tracks(r, h) THEN Visited(Scanned(r, {h}, there), h) ELSE r

\* del_channel_user for each of hs; with do_gc, a channel that has lost its
\* last user is unregistered.
Removed(r, hs) ==
  [r EXCEPT !.access = [h \in Handles |-> IF h \in hs THEN 0 ELSE r.access[h]],
            !.barred = @ \ hs, !.present = @ \ hs]

Collected(r) == IF Listed(r) = {} /\ ~r.protected THEN Blank ELSE r

\* chanserv_expire_suspension, less its timer
Lifted(r, there) ==
  [r EXCEPT !.suspended = FALSE, !.timed = FALSE,
            !.present = @ \cup ((Listed(r) \cap there) \ r.barred)]

-----------------------------------------------------------------------------
(* Users come and go.                                                      *)

\* handle_join
Join(u, c) ==
  /\ u \notin members[c]
  /\ members' = [members EXCEPT ![c] = @ \cup {u}]
  /\ chan' = [chan EXCEPT ![c] = Arrived(@, auth[u])]
  /\ UNCHANGED auth

\* handle_part, for a PART or a KICK
Part(u, c) ==
  /\ u \in members[c]
  /\ members' = [members EXCEPT ![c] = @ \ {u}]
  /\ chan' = [chan EXCEPT ![c] = Departed(@, auth[u], AccountsOf(members[c] \ {u}))]
  /\ UNCHANGED auth

\* Mutant: NickServ forgets the session before the channels are left.
Quit_AuthFirst(u) ==
  /\ auth[u] # NULL
  /\ auth' = [auth EXCEPT ![u] = NULL]
  /\ members' = [c \in Channels |-> members[c] \ {u}]
  /\ UNCHANGED chan

\* DelUser: u leaves all channels, then NickServ forgets its session.
Quit(u) ==
  /\ auth[u] # NULL
  /\ auth' = [auth EXCEPT ![u] = NULL]
  /\ members' = [c \in Channels |-> members[c] \ {u}]
  /\ chan' = [c \in Channels |->
                IF u \in members[c]
                THEN Departed(chan[c], auth[u], AccountsOf(members[c] \ {u}))
                ELSE chan[c]]

\* handle_auth, when set_user_handle_info logs u in to h.  The account u was
\* logged in to before is not looked at.
Auth(u, h) ==
  /\ auth[u] # h
  /\ auth[u] = NULL \/ "SWITCH" \in Bound
  /\ auth' = [auth EXCEPT ![u] = h]
  /\ chan' = [c \in Channels |->
                IF u \in members[c] THEN Arrived(chan[c], h) ELSE chan[c]]
  /\ UNCHANGED members

-----------------------------------------------------------------------------
(* Commands.  The actor a is a user or one of Staff.                       *)

\* The access of the userData GetChannelUser returns, or 0.
Standing(a, c) ==
  IF a \in Staff
  THEN IF a = "senior" \/ ~chan[c].protected THEN Helper ELSE 0
  ELSE IF auth[a] # NULL /\ auth[a] \notin chan[c].barred
       THEN chan[c].access[auth[a]] ELSE 0

\* svccmd_can_invoke for commands on registered channels with a minimal level.
CanInvoke(a, c, level) ==
  /\ chan[c].registered
  /\ ~chan[c].suspended \/ a \in Staff
  /\ Standing(a, c) >= level

\* `privileged' in cmd_clvl
Privileged(a, c) == a \in Staff /\ Standing(a, c) = Helper

OwnAccount(a, h) == a \in Users /\ auth[a] = h

OwnedCount(h) == Cardinality({c \in Channels : chan[c].access[h] = Owner})

\* cmd_register: by whoever has ops there (or finds no channel) for their own
\* account, or by staff (FORCE: above the limit).
Register(a, c, h) ==
  /\ ~chan[c].registered
  /\ a \in Users => /\ auth[a] = h
                    /\ a \in members[c] \/ members[c] = {}
                    /\ OwnedCount(h) < MaxOwned
  /\ chan' = [chan EXCEPT ![c] =
       Scanned([Blank EXCEPT !.registered = TRUE, !.access[h] = Owner],
               {h}, AccountsOf(members[c]))]
  /\ UNCHANGED <<auth, members>>

\* cmd_unregister and unregister_channel
Unregister(a, c) ==
  /\ chan[c].registered /\ ~chan[c].protected
  /\ Standing(a, c) >= Owner
  /\ ~chan[c].suspended \/ a \in Staff
  /\ chan' = [chan EXCEPT ![c] = Blank]
  /\ UNCHANGED <<auth, members>>

\* cmd_adduser
Adduser(a, c, h, level) ==
  /\ CanInvoke(a, c, Master)
  /\ Standing(a, c) > level
  /\ chan[c].access[h] = 0
  /\ chan' = [chan EXCEPT ![c] =
                Scanned([@ EXCEPT !.access[h] = level], {h}, AccountsOf(members[c]))]
  /\ UNCHANGED <<auth, members>>

\* Mutant: the victim's level is not compared.
Clvl_AnyVictim(a, c, h, level) ==
  /\ CanInvoke(a, c, Master)
  /\ chan[c].access[h] # 0
  /\ level < Standing(a, c)
  /\ chan' = [chan EXCEPT ![c].access[h] = level]
  /\ UNCHANGED <<auth, members>>

\* cmd_clvl
Clvl(a, c, h, level) ==
  /\ CanInvoke(a, c, Master)
  /\ chan[c].access[h] \notin {0, level}
  /\ \/ Privileged(a, c)
     \/ /\ ~OwnAccount(a, h)
        /\ chan[c].access[h] < Standing(a, c)
        /\ level < Standing(a, c)
  /\ chan' = [chan EXCEPT ![c].access[h] = level]
  /\ UNCHANGED <<auth, members>>

\* cmd_deluser for one of hs, cmd_mdel_user for those a mask matches.
Deluser(a, c, hs) ==
  /\ CanInvoke(a, c, Master)
  /\ hs # {} /\ hs \subseteq Listed(chan[c])
  /\ \A h \in hs : chan[c].access[h] < Standing(a, c)
  /\ chan' = [chan EXCEPT ![c] = Collected(Removed(@, hs))]
  /\ UNCHANGED <<auth, members>>

\* cmd_trim_users: hs have not been seen for as long as the user says.
Trim(a, c, hs) ==
  /\ CanInvoke(a, c, Master)
  /\ hs # {} /\ hs \subseteq Listed(chan[c]) \ chan[c].present
  /\ \A h \in hs : chan[c].access[h] < Standing(a, c)
  /\ chan' = [chan EXCEPT ![c] = Collected(Removed(@, hs))]
  /\ UNCHANGED <<auth, members>>

\* Mutant: owners may leave too.
Deleteme_Owner(u, c) ==
  /\ CanInvoke(u, c, Op)
  /\ chan' = [chan EXCEPT ![c] = Collected(Removed(@, {auth[u]}))]
  /\ UNCHANGED <<auth, members>>

\* cmd_deleteme
Deleteme(u, c) ==
  /\ CanInvoke(u, c, Op)
  /\ chan[c].access[auth[u]] # Owner
  /\ chan' = [chan EXCEPT ![c] = Collected(Removed(@, {auth[u]}))]
  /\ UNCHANGED <<auth, members>>

\* cmd_suspend
Suspend(a, c, h) ==
  /\ "SUSPEND" \in Bound
  /\ CanInvoke(a, c, Master)
  /\ h \in Listed(chan[c]) \ chan[c].barred
  /\ chan[c].access[h] < Standing(a, c)
  /\ chan' = [chan EXCEPT ![c].barred = @ \cup {h}, ![c].present = @ \ {h}]
  /\ UNCHANGED <<auth, members>>

\* cmd_unsuspend
Unsuspend(a, c, h) ==
  /\ CanInvoke(a, c, Master)
  /\ h \in chan[c].barred
  /\ chan[c].access[h] < Standing(a, c)
  /\ chan' = [chan EXCEPT ![c] =
                Scanned([chan[c] EXCEPT !.barred = chan[c].barred \ {h}],
                        {h}, AccountsOf(members[c]))]
  /\ UNCHANGED <<auth, members>>

\* On channel c, h has a session that an entry made without a look at the
\* channel would not know about.
Unseen(c, h) == ~chan[c].suspended /\ h \in AccountsOf(members[c])

\* cmd_giveownership: the owner's own command, or staff's for the only owner.
\* FORCE (staff) adds h to the list, absent, and ignores the limit.  (Without an
\* owner the code uses a null pointer, and with FORCE it adds a suspended user a
\* second time.  Neither is modelled.)
Giveownership(a, c, giver, h, force) ==
  /\ CanInvoke(a, c, Owner)
  /\ giver # h /\ chan[c].access[giver] = Owner
  /\ IF a \in Users THEN auth[a] = giver
     ELSE \A g \in Handles : chan[c].access[g] = Owner => g = giver
  /\ h \notin chan[c].barred
  /\ force => a \in Staff /\ (chan[c].access[h] = 0 /\ Unseen(c, h) => "UNSEEN" \in Bound)
  /\ ~force => chan[c].access[h] # 0 /\ OwnedCount(h) < MaxOwned
  /\ LET old == IF chan[c].access[h] = 0 THEN Owner - 1 ELSE chan[c].access[h] IN
     chan' = [chan EXCEPT ![c].access[giver] = IF old >= CoOwner THEN old ELSE CoOwner,
                          ![c].access[h] = Owner]
  /\ UNCHANGED <<auth, members>>

\* cmd_move (staff, who share REGISTER's template)
Move(a, c, d) ==
  /\ a \in Staff
  /\ chan[c].registered /\ ~chan[c].protected
  /\ ~chan[d].registered
  /\ chan' = [chan EXCEPT ![c] = Blank,
                          ![d] = Scanned(chan[c], Listed(chan[c]), AccountsOf(members[d]))]
  /\ UNCHANGED <<auth, members>>

\* Of two entries for one account the higher is kept, and of two with the same
\* level the one seen later (`later': the source's).
Kept(r, t, later) ==
  {h \in Listed(r) : r.access[h] > t.access[h] \/ (r.access[h] = t.access[h] /\ h \in later)}

\* Mutant: the entries that come along bring their presence with them.
MergedUsers_Unscanned(r, t, moved, there) ==
  [t EXCEPT !.access = [h \in Handles |-> IF h \in moved THEN r.access[h] ELSE t.access[h]],
            !.barred = (@ \ moved) \cup (r.barred \cap moved),
            !.present = (@ \ moved) \cup (r.present \cap moved),
            !.unvisited = @ /\ r.unvisited]

\* merge_users and merge_data: the entries `moved' of r replace those of t.
MergedUsers(r, t, moved, there) ==
  Scanned([t EXCEPT !.access = [h \in Handles |-> IF h \in moved THEN r.access[h]
                                                  ELSE t.access[h]],
                    !.barred = (@ \ moved) \cup (r.barred \cap moved),
                    !.unvisited = @ /\ r.unvisited],
          moved, there)

\* cmd_merge of ChanServ
MergeChannels(a, c, d, later) ==
  /\ CanInvoke(a, c, Owner) /\ ~chan[c].protected
  /\ c # d /\ chan[d].registered /\ ~chan[d].suspended
  /\ Standing(a, d) >= Owner
  /\ LET r == chan[c]
         t == chan[d]
     IN  chan' = [chan EXCEPT ![c] = Blank,
                              ![d] = MergedUsers(r, t, Kept(r, t, later), AccountsOf(members[d]))]
  /\ UNCHANGED <<auth, members>>

-----------------------------------------------------------------------------
(* Staff commands and what time brings.                                    *)

\* cmd_csuspend, with "!" if the channel is suspended already
Csuspend(a, c, timed) ==
  /\ a \in Staff
  /\ chan[c].registered /\ ~chan[c].protected
  /\ chan' = [chan EXCEPT
       ![c].suspended = TRUE, ![c].timed = timed,
       ![c].present = IF chan[c].suspended THEN @ ELSE {},
       ![c].timers = (IF chan[c].timed THEN @ - 1 ELSE @)
                     + (IF timed THEN 1 ELSE 0)]
  /\ UNCHANGED <<auth, members>>

\* cmd_cunsuspend
Cunsuspend(a, c) ==
  /\ a \in Staff
  /\ chan[c].suspended
  /\ chan' = [chan EXCEPT ![c] =
                Lifted([chan[c] EXCEPT !.timers = chan[c].timers - IF chan[c].timed THEN 1 ELSE 0],
                       AccountsOf(members[c]))]
  /\ UNCHANGED <<auth, members>>

\* chanserv_expire_suspension as a timer
SuspensionExpires(c) ==
  /\ chan[c].timers > 0
  /\ chan' = [chan EXCEPT ![c] = Lifted([chan[c] EXCEPT !.timers = chan[c].timers - 1],
                                        AccountsOf(members[c]))]
  /\ UNCHANGED <<auth, members>>

\* chan_opt_nodelete
SetNodelete(a, c) ==
  /\ "NODELETE" \in Bound
  /\ a = "senior" /\ CanInvoke(a, c, Op)
  /\ chan' = [chan EXCEPT ![c].protected = ~@]
  /\ UNCHANGED <<auth, members>>

\* channel_expire_delay goes by without a visit.
Age(c) ==
  /\ "EXPIRE" \in Bound
  /\ chan[c].registered /\ ~chan[c].unvisited
  /\ chan' = [chan EXCEPT ![c].unvisited = TRUE]
  /\ UNCHANGED <<auth, members>>

HighPresent(r) == \E h \in r.present : r.access[h] >= Master

\* The conditions of expire_channels.
Lapsed(r) == r.registered /\ r.unvisited /\ ~r.protected /\ ~HighPresent(r)

\* expire_channels
ExpireChannels ==
  /\ \E c \in Channels : Lapsed(chan[c])
  /\ chan' = [c \in Channels |-> IF Lapsed(chan[c]) THEN Blank ELSE chan[c]]
  /\ UNCHANGED <<auth, members>>

\* handle_unreg and nickserv_unregister_handle
UnregisterAccount(h) ==
  /\ "UNREGISTER" \in Bound
  /\ chan' = [c \in Channels |->
                IF h \in Listed(chan[c]) THEN Collected(Removed(chan[c], {h}))
                ELSE chan[c]]
  /\ auth' = [u \in Users |-> IF auth[u] = h THEN NULL ELSE auth[u]]
  /\ UNCHANGED members

\* cmd_merge of NickServ for one channel: of two entries the higher is kept, and
\* ht's if they are equal.  Nobody looks at the channel.
MergedAccount(r, hf, ht) ==
  IF r.access[hf] > r.access[ht]
  THEN [Removed(r, {hf}) EXCEPT
          !.access[ht] = r.access[hf],
          !.barred = IF hf \in r.barred THEN @ \cup {ht} ELSE @ \ {ht},
          !.present = IF hf \in r.present THEN @ \cup {ht} ELSE @ \ {ht}]
  ELSE Removed(r, {hf})

\* hf's or ht's session is on c, and the entry that is kept says otherwise.
MergeLosesSight(c, hf, ht) ==
  LET r == MergedAccount(chan[c], hf, ht)
  IN  /\ Unseen(c, hf) \/ Unseen(c, ht)
      /\ ht \in Listed(r) \ (r.barred \cup r.present)

\* cmd_merge of NickServ
MergeAccounts(hf, ht) ==
  /\ "MERGE" \in Bound
  /\ hf # ht
  /\ (\E c \in Channels : MergeLosesSight(c, hf, ht)) => "UNSEEN" \in Bound
  /\ chan' = [c \in Channels |-> MergedAccount(chan[c], hf, ht)]
  /\ auth' = [u \in Users |-> IF auth[u] = hf THEN ht ELSE auth[u]]
  /\ UNCHANGED members

\* chanserv_saxdb_write and chanserv_channel_read; `over' if the suspension has
\* expired meanwhile.
Reread(r, over) ==
  LET s == r.suspended /\ ~(r.timed /\ over) IN
  IF ~r.registered THEN r ELSE
  Collected([r EXCEPT !.present = {}, !.unvisited = @ /\ ~HighPresent(r),
                      !.suspended = s, !.timed = s /\ @,
                      !.timers = IF s /\ r.timed THEN 1 ELSE 0])

\* A restart: the uplink introduces the users again, by Join and Auth.
Restart(over) ==
  /\ "RESTART" \in Bound
  /\ auth' = [u \in Users |-> NULL]
  /\ members' = [c \in Channels |-> {}]
  /\ chan' = [c \in Channels |-> Reread(chan[c], c \in over)]

-----------------------------------------------------------------------------
Command(a) ==
  \/ \E c \in Channels, h \in Handles : Register(a, c, h)
  \/ \E c \in Channels : Unregister(a, c)
  \/ \E c \in Channels, h \in Handles, level \in Grants : Adduser(a, c, h, level)
  \/ \E c \in Channels, h \in Handles, level \in Grants : Clvl(a, c, h, level)
  \/ \E c \in Channels, hs \in SUBSET Handles : Deluser(a, c, hs)
  \/ \E c \in Channels, hs \in SUBSET Handles : Trim(a, c, hs)
  \/ \E c \in Channels, h \in Handles : Suspend(a, c, h)
  \/ \E c \in Channels, h \in Handles : Unsuspend(a, c, h)
  \/ \E c \in Channels, giver, h \in Handles, force \in BOOLEAN :
       Giveownership(a, c, giver, h, force)
  \/ \E c, d \in Channels, later \in SUBSET Handles : MergeChannels(a, c, d, later)

StaffCommand(a) ==
  \/ \E c, d \in Channels : Move(a, c, d)
  \/ \E c \in Channels, timed \in BOOLEAN : Csuspend(a, c, timed)
  \/ \E c \in Channels : Cunsuspend(a, c)
  \/ \E c \in Channels : SetNodelete(a, c)

UserStep ==
  \/ \E u \in Users, c \in Channels : Join(u, c) \/ Part(u, c) \/ Deleteme(u, c)
  \/ \E u \in Users : Quit(u)
  \/ \E u \in Users, h \in Handles : Auth(u, h)
  \/ \E u \in Users : Command(u)

SystemStep ==
  \/ \E c \in Channels : SuspensionExpires(c) \/ Age(c)
  \/ ExpireChannels
  \/ \E h \in Handles : UnregisterAccount(h)
  \/ \E hf, ht \in Handles : MergeAccounts(hf, ht)
  \/ \E over \in SUBSET Channels : Restart(over)

Next == UserStep \/ SystemStep \/ \E a \in Staff : Command(a) \/ StaffCommand(a)

\* The expiry timer arms itself anew, and time passes.
Spec == /\ Init /\ [][Next]_vars
        /\ WF_vars(ExpireChannels) /\ \A c \in Channels : WF_vars(Age(c))

\* Channels and accounts can change places.
Symmetric == Permutations(Channels) \cup Permutations(Handles)

-----------------------------------------------------------------------------
(* Properties.                                                             *)

TypeOK ==
  /\ auth \in [Users -> Handles \cup {NULL}]
  /\ members \in [Channels -> SUBSET Users]
  /\ chan \in [Channels -> ChanData]

\* The present bit of every entry says whether the account has a session on the
\* channel (that of suspended users and channels is off): after any sequence of
\* joins, parts, logins, quits, suspensions, moves and merges.
PresenceExact ==
  \A c \in Channels :
    chan[c].present =
      IF chan[c].suspended THEN {}
      ELSE (Listed(chan[c]) \cap AccountsOf(members[c])) \ chan[c].barred

\* A suspension that expires has one timer, armed for the latest one; nothing
\* else has.  In particular none is left for a channel that is gone, whose
\* memory the timer would use.
SuspensionTimed ==
  \A c \in Channels :
    chan[c].timers = IF chan[c].suspended /\ chan[c].timed THEN 1 ELSE 0

\* What is cached and armed for the entries of a channel is as they are.
UsersExact == PresenceExact /\ SuspensionTimed

\* From r to t, the account h, not u's own, lost access though its level was no
\* lower than u's (standing), or rose to u's.
Encroached(u, r, t, standing, h) ==
  /\ auth[u] # h
  /\ r.registered /\ t.registered
  /\ \/ t.access[h] < r.access[h] /\ r.access[h] >= standing
     \/ t.access[h] > r.access[h] /\ t.access[h] >= standing /\ standing # Owner

\* The account h, with a level no lower than u's, was suspended, or no longer is.
Interfered(u, r, t, standing, h) ==
  /\ auth[u] # h
  /\ r.registered /\ t.registered
  /\ r.access[h] >= standing
  /\ (h \in r.barred) # (h \in t.barred)

\* MERGE and UNREGISTER, which end a registration, are the owner's.
Ends == \E c \in Channels : chan[c].registered /\ ~chan'[c].registered

\* No user's command, nor a sequence of them, lowers or removes an account with
\* as much access as the user has (or more), unless it is their own, or suspends
\* it or lifts its suspension; and none but GIVEOWNERSHIP lets an account rise
\* to the user's level.  (MERGE may bring another suspension along with an entry
\* of the same level.)
RankRespected ==
  [][\A u \in Users, c \in Channels, h \in Handles :
       \/ Encroached(u, chan[c], chan'[c], Standing(u, c), h)
       \/ Interfered(u, chan[c], chan'[c], Standing(u, c), h) /\ ~Ends
       => ~Command(u)]_vars

HasOwner(r) == \E h \in Handles : r.access[h] = Owner

\* Users' commands never leave a registered channel that has an owner without
\* one: owners can hand a channel over or give it up, not walk away from it.
\* GIVEOWNERSHIP, UNREGISTER and MERGE would have no one left to obey.
OwnerRemains ==
  [][\A c \in Channels :
       (HasOwner(chan[c]) /\ chan'[c].registered /\ ~HasOwner(chan'[c])) =>
         ~\E u \in Users : Command(u) \/ Deleteme(u, c)]_vars

\* Nobody with the access that keeps a channel is logged in to it.
Deserted(c) ==
  \A h \in AccountsOf(members[c]) : chan[c].access[h] < Master

\* A channel that nobody looks after is unregistered in the end: no bit that
\* was left behind, and no suspension, keeps it.
DesertedExpires ==
  \A c \in Channels :
    (chan[c].registered /\ ~chan[c].protected /\ Deserted(c))
      ~> (~chan[c].registered \/ chan[c].protected \/ ~Deserted(c))
=============================================================================
