------------------------------- MODULE ChanBans -------------------------------
(***************************************************************************)
(* ChanServ's bans: the list of every registered channel, the timers of    *)
(* those that expire, the bans of the IRC channel, and who is kept out.    *)
(* A mask is the set of the guises it matches; a guise is what a user's    *)
(* nick, ident and host look like.  Masks that match the same are one.     *)
(* What happens on the IRC channel is followed for one of them, Home: what *)
(* the others do there meets no ban list.                                 *)
(* Source: src/chanserv.c, with mod_chanmode_apply (src/proto-common.c).   *)
(***************************************************************************)
EXTENDS Naturals, FiniteSets

CONSTANTS
  Users, Guises, Channels, Home,
  Staff,      \* who gives the commands, from elsewhere
  Standings,  \* pairs of a protection (chProtect) and everybody's access
  MaxBans,    \* chanserv_conf.max_chan_bans
  MaxIrc,     \* MAXBANS, for the IRC channel
  MaxTime,
  Enabled,    \* the faults this instance admits
  NULL

VARIABLES
  guise,     \* of each user
  bans,      \* per channel: NULL, or the masks banned with their expiry (0: never)
  timers,    \* the queued expire_ban: channel, mask, time
  suspended, \* CHANNEL_SUSPENDED, at Home
  irc,       \* channel->banlist of Home
  members,   \* the users who are on Home: opped or voiced?
  standing,  \* protection and access
  now

vars == <<guise, bans, timers, suspended, irc, members, standing, now>>

Masks == SUBSET Guises \ {{}}
None == [m \in {} |-> 0]
TypeOK ==
  /\ guise \in [Users -> Guises] /\ now \in 0..MaxTime
  /\ irc \subseteq Masks /\ DOMAIN members \subseteq Users /\ suspended \in BOOLEAN
  /\ \A c \in Channels : bans[c] # NULL =>
       DOMAIN bans[c] \subseteq Masks /\ \A m \in DOMAIN bans[c] : bans[c][m] \in 0..MaxTime

Init ==
  /\ guise \in [Users -> Guises] /\ standing \in Standings /\ now = 0
  /\ bans = [c \in Channels |-> None] /\ timers = {} /\ suspended = FALSE
  /\ irc = {} /\ members = None

-----------------------------------------------------------------------------
Active(c)  == bans[c] # NULL /\ ~(c = Home /\ suspended)
With(f, x, v) == [y \in DOMAIN f \cup {x} |-> IF y = x THEN v ELSE f[y]]
Sans(f, xs)   == [y \in DOMAIN f \ xs |-> f[y]]
Later(a, b)   == IF a >= b THEN a ELSE b

\* protect_user.
Protected(v, a) ==
  LET mine == standing.access[v]
      theirs == standing.access[a]
  IN /\ standing.protect # "n" /\ v # a
     /\ mine > 0 \/ standing.protect = "a"
     /\ \/ theirs = 0
        \/ mine > 0 /\ IF standing.protect = "l" THEN mine > theirs ELSE mine >= theirs

\* mod_chanmode_apply: a ban replaces those it covers.
Banned(list, m) == {b \in list : ~(b \subseteq m)} \cup {m}

\* Mutant: a freed ban leaves its timer.
Disarmed_Not(ts, c, ms) == ts

\* del_channel_ban: the timers of the bans ms of c are taken out of the queue.
Disarmed(ts, c, ms) == {t \in ts : ~(t.chan = c /\ t.mask \in ms)}

Armed(ts, c, m, e) == IF e = 0 THEN ts ELSE ts \cup {[chan |-> c, mask |-> m, at |-> e]}

\* add_channel_ban, and the bans the new one makes redundant.
Added(c, m, e) ==
  LET covered == {b \in DOMAIN bans[c] : b \subseteq m}
  IN /\ bans' = [bans EXCEPT ![c] = With(Sans(@, covered), m, e)]
     /\ timers' = Armed(Disarmed(timers, c, covered), c, m, e)

-----------------------------------------------------------------------------
(* eject_user: KICK, BAN, KICKBAN, ADDBAN and ADDTIMEDBAN.                 *)

\* Whom the command is about: the user who is named, or everybody who matches.
Victims(c, m, v) == 
  {u \in DOMAIN members : c = Home /\ IF v # NULL THEN u = v ELSE guise[u] \in m}
Named(m, v) == v # NULL => guise[v] \in m

\* What becomes of victims and of the IRC channel, once the list has the ban.
Ejected(c, m, victims, bar, kick) ==
  LET full  == bar /\ Cardinality(irc) >= MaxIrc
      there == bar /\ m \in irc /\ ~kick
      kept  == [u \in DOMAIN members |-> members[u] /\ ~(bar /\ u \in victims)]
  IN IF c # Home \/ full THEN UNCHANGED <<irc, members>>
     ELSE /\ irc' = IF bar /\ m \notin irc THEN Banned(irc, m) ELSE irc
          /\ members' = IF kick /\ ~there THEN Sans(kept, victims) ELSE kept

Eject(a, c, m, v, kick, bar) ==
  /\ Active(c) /\ standing.access[a] > 0 /\ Named(m, v) /\ (kick \/ bar)
  /\ LET victims == Victims(c, m, v)
     IN /\ ~\E u \in victims \cup ({v} \cap Users) : Protected(u, a)
        /\ kick /\ ~bar => victims # {}
        /\ Ejected(c, m, victims, bar, kick)
  /\ UNCHANGED <<guise, bans, timers, suspended, standing, now>>

\* e is when the ban expires, 0 for ADDBAN.  An exact copy is made longer,
\* never shorter; a broader one makes the command redundant.
AddBan(a, c, m, v, e) ==
  /\ Active(c) /\ standing.access[a] > 0 /\ Named(m, v) /\ (e = 0 \/ e > now)
  /\ Cardinality(DOMAIN bans[c]) < MaxBans
  /\ ~\E u \in Victims(c, m, v) \cup ({v} \cap Users) : Protected(u, a)
  /\ ~\E b \in DOMAIN bans[c] : m \subseteq b /\ b # m
  /\ IF m \in DOMAIN bans[c]
       THEN /\ bans[c][m] # 0 => e = 0 \/ e > bans[c][m]
            /\ bans' = [bans EXCEPT ![c][m] = IF bans[c][m] = 0 THEN 0 ELSE e]
            /\ timers' = Armed(Disarmed(timers, c, {m}), c, m, bans'[c][m])
       ELSE Added(c, m, e)
  /\ Ejected(c, m, Victims(c, m, v), TRUE, TRUE)
  /\ UNCHANGED <<guise, suspended, standing, now>>

-----------------------------------------------------------------------------
(* Removal.                                                                *)

\* UNBAN, DELBAN, UNBANME, UNBANALL, OPEN: the bans of the IRC channel that
\* match the user or are covered by the mask, and with `list' ours too.
Unban(c, matched, list) ==
  /\ Active(c)
  /\ irc' = IF c = Home THEN irc \ matched ELSE irc
  /\ LET gone == IF list THEN DOMAIN bans[c] \cap matched ELSE {}
     IN /\ bans' = [bans EXCEPT ![c] = Sans(@, gone)] /\ timers' = Disarmed(timers, c, gone)
        /\ gone # {} \/ irc' # irc
  /\ UNCHANGED <<guise, suspended, members, standing, now>>
Unbanned == {SUBSET m \cap Masks : m \in Masks} \cup {{m \in Masks : g \in m} : g \in Guises}

\* TRIM BANS: whatever was neither set nor met of late.
TrimBans(c, old) ==
  /\ Active(c) /\ old \subseteq DOMAIN bans[c] /\ old # {}
  /\ bans' = [bans EXCEPT ![c] = Sans(@, old)] /\ timers' = Disarmed(timers, c, old)
  /\ UNCHANGED <<guise, suspended, irc, members, standing, now>>

ExpireBan(t) ==
  /\ t \in timers /\ t.at <= now
  /\ timers' = timers \ {t}
  /\ bans' = [bans EXCEPT ![t.chan] = IF @ = NULL THEN NULL ELSE Sans(@, {t.mask})]
  /\ irc' = IF t.chan # Home \/ suspended THEN irc ELSE irc \ {t.mask}
  /\ UNCHANGED <<guise, suspended, members, standing, now>>

-----------------------------------------------------------------------------
(* handle_join, handle_auth, handle_nick_change.                           *)

Seizing(g) == {b \in DOMAIN bans[Home] : g \in b}
Barred(g)  == \E b \in irc : g \in b

\* A channel ban keeps them out; during a burst, without op or voice, one of
\* the IRC channel does.
Join(u, burst, has) ==
  /\ u \notin DOMAIN members /\ (has => burst \/ standing.access[u] > 0)
  /\ IF Active(Home) /\ burst /\ ~has /\ Barred(guise[u]) THEN UNCHANGED <<irc, members>>
     ELSE IF Active(Home) /\ Cardinality(irc) < MaxIrc /\ Seizing(guise[u]) # {}
       THEN \E b \in Seizing(guise[u]) : irc' = Banned(irc, b) /\ UNCHANGED members
     ELSE members' = With(members, u, has) /\ UNCHANGED irc
  /\ UNCHANGED <<guise, bans, timers, suspended, standing, now>>

\* A login that shows, or another nick: bans are looked for where the user has
\* neither op nor voice and is not on the channel in spite of a ban already.
NewGuise(u, g) ==
  /\ g # guise[u] /\ guise' = [guise EXCEPT ![u] = g]
  /\ IF Active(Home) /\ u \in DOMAIN members /\ ~members[u] /\ ~Barred(g) /\ Seizing(g) # {}
       THEN /\ \E b \in Seizing(g) : irc' = Banned(irc, b)
            /\ members' = Sans(members, {u})
       ELSE UNCHANGED <<irc, members>>
  /\ UNCHANGED <<bans, timers, suspended, standing, now>>

Part(u) ==
  /\ u \in DOMAIN members /\ members' = Sans(members, {u})
  /\ UNCHANGED <<guise, bans, timers, suspended, irc, standing, now>>

-----------------------------------------------------------------------------
(* The channel's registration.                                             *)

\* CSUSPEND, CUNSUSPEND, and the end of a suspension.
Csuspend ==
  /\ bans[Home] # NULL /\ suspended' = ~suspended
  /\ UNCHANGED <<guise, bans, timers, irc, members, standing, now>>

\* unregister_channel frees the bans one by one.
Unregister(c) ==
  /\ bans[c] # NULL /\ bans' = [bans EXCEPT ![c] = NULL]
  /\ timers' = Disarmed(timers, c, DOMAIN bans[c]) /\ suspended' = (suspended /\ c # Home)
  /\ UNCHANGED <<guise, irc, members, standing, now>>
Register(c) ==
  /\ bans[c] = NULL /\ bans' = [bans EXCEPT ![c] = None]
  /\ UNCHANGED <<guise, timers, suspended, irc, members, standing, now>>

\* MOVE: the same struct chanData at another channel.
Move(c, d) ==
  /\ Active(c) /\ bans[d] = NULL
  /\ bans' = [bans EXCEPT ![c] = NULL, ![d] = bans[c]]
  /\ timers' = {IF t.chan = c THEN [t EXCEPT !.chan = d] ELSE t : t \in timers}
  /\ UNCHANGED <<guise, suspended, irc, members, standing, now>>

\* merge_bans.  A ban of the target that covers one of the source takes its
\* expiry, one that is covered gives it; in both cases the later, and never is
\* the later of two.  No timer is moved.  A source ban that meets no ban of the
\* target, because there is none or no longer one, is on no list.
Narrower(s, t) == {m \in DOMAIN bans[t] : \E b \in DOMAIN bans[s] : m \subseteq b /\ m # b}
Taken(s, t) == {m \in DOMAIN bans[s] : \A b \in DOMAIN bans[t] : ~(m \subseteq b)}
Latest(e, es) == IF es = {} THEN e ELSE LET x == CHOOSE z \in es : \A y \in es : y <= z IN Later(e, x)
Merged(s, t, lost) ==
  LET stay == DOMAIN bans[t] \ Narrower(s, t)
      come == Taken(s, t) \ lost
  IN [m \in stay \cup come |->
        IF m \in stay THEN Latest(bans[t][m], {bans[s][b] : b \in {b \in DOMAIN bans[s] : b \subseteq m}})
        ELSE Latest(bans[s][m], {bans[t][b] : b \in {b \in DOMAIN bans[t] : b \subseteq m}})]
\* Every ban of the target went before these sources were looked at.
Lost(s, t) ==
  IF DOMAIN bans[t] = {} THEN {DOMAIN bans[s]}
  ELSE {l \in SUBSET Taken(s, t) : l # {} => \A b \in DOMAIN bans[t] :
          \E m \in Taken(s, t) \ l : b \subseteq m /\ b # m}
Merge(s, t) ==
  /\ s # t /\ Active(s) /\ Active(t)
  /\ \E lost \in Lost(s, t) :
       LET new   == Merged(s, t, lost)
           moved == Taken(s, t) \ lost
           freed == DOMAIN bans[s] \ Taken(s, t)
       IN /\ lost # {} => "LOST" \in Enabled
          /\ bans' = [bans EXCEPT ![s] = NULL, ![t] = new]
          /\ timers' = {IF x.chan = s /\ x.mask \in moved THEN [x EXCEPT !.chan = t] ELSE x :
                          x \in Disarmed(Disarmed(timers, s, freed), t, Narrower(s, t))}
          /\ "MISTIMED" \in Enabled \/ \A m \in DOMAIN bans[s], b \in DOMAIN bans[t] :
               m \subseteq b \/ b \subseteq m => bans[s][m] = bans[t][b]
  /\ UNCHANGED <<guise, suspended, irc, members, standing, now>>

\* The database has every ban; those that have lapsed are not read back.
Restart ==
  /\ bans' = [c \in Channels |-> IF bans[c] = NULL THEN NULL
                ELSE Sans(bans[c], {m \in DOMAIN bans[c] : bans[c][m] # 0 /\ bans[c][m] < now})]
  /\ timers' = UNION {{[chan |-> c, mask |-> m, at |-> bans'[c][m]] :
                         m \in {m \in DOMAIN bans'[c] : bans'[c][m] # 0}} :
                       c \in {c \in Channels : bans[c] # NULL}}
  /\ members' = None
  /\ UNCHANGED <<guise, suspended, irc, standing, now>>

Tick == /\ now < MaxTime /\ (\A t \in timers : t.at > now) /\ now' = now + 1
        /\ UNCHANGED <<guise, bans, timers, suspended, irc, members, standing>>

Next ==
  \/ \E a \in Staff, c \in Channels, m \in Masks, v \in Users \cup {NULL} :
       \/ \E kick, bar \in BOOLEAN : Eject(a, c, m, v, kick, bar)
       \/ \E e \in 0..MaxTime : AddBan(a, c, m, v, e)
  \/ \E c \in Channels :
       \/ \E ms \in Unbanned, list \in BOOLEAN : Unban(c, ms, list)
       \/ \E old \in SUBSET Masks : TrimBans(c, old)
       \/ Unregister(c) \/ Register(c)
       \/ \E d \in Channels : Move(c, d) \/ Merge(c, d)
  \/ \E u \in Users :
       \/ \E burst, has \in BOOLEAN : Join(u, burst, has)
       \/ \E g \in Guises : NewGuise(u, g)
       \/ Part(u)
  \/ Csuspend
  \/ \E t \in timers : ExpireBan(t)
  \/ Restart \/ Tick

Spec == Init /\ [][Next]_vars

-----------------------------------------------------------------------------
\* A ban that expires has one timer, for its time; a timer has a ban.  No ban
\* makes another redundant.
BansExact ==
  /\ timers = UNION {{[chan |-> c, mask |-> m, at |-> bans[c][m]] :
                        m \in {m \in DOMAIN bans[c] : bans[c][m] # 0}} :
                      c \in {c \in Channels : bans[c] # NULL}}
  /\ \A c \in Channels : bans[c] # NULL =>
       \A m, n \in DOMAIN bans[c] : m \subseteq n => m = n

\* What MERGE promises (chanserv.c:2388): "keeping the broader ban and copying
\* the later expiration".  Whoever one of the two channels banned stays banned
\* at least as long.
MergedBansKept ==
  \A s, t \in Channels : Merge(s, t) =>
    \A c \in {s, t} : \A m \in DOMAIN bans[c] :
      \E b \in DOMAIN bans'[t] : m \subseteq b /\ (bans'[t][b] = 0 \/ (bans[c][m] # 0 /\ bans'[t][b] >= bans[c][m]))
=============================================================================
