---------------------------- MODULE Services_proofs ----------------------------
(***************************************************************************)
(* Proofs about the smaller components: one channel as the network and     *)
(* services know it; the network's users; OpServ's gags and bad channels;  *)
(* services with their commands, and who may use these; the database files;*)
(* the connection to the network.  Each is a machine of its own; what      *)
(* several of them have by one name, as `now' and `timers', is declared    *)
(* once and belongs to whichever a theorem is about.                       *)
(***************************************************************************)
EXTENDS NetChannels, Sequences, FiniteSetTheorems, WellFoundedInduction, TLAPS

CONSTANTS
  Channels, Nicks, Hosts, Masks, Alerts,                      \* of OpGags
  Words, Kept, Threshold, MaxTimers,                          \* of OpChannels
  Bots, Commands, Levels, BuiltIn, Keepbound, Staff,          \* of Modcmd
  Options, Names, Triggers, MaxBinds, ConfNicks, DefBinds,
  People, Bindings, Helper,                                   \* of ModcmdInvoke
  Dbs, Sections, Buffers, MaxVersion,                         \* of Saxdb
  N, MaxTries, MaxCycles,                                     \* of Uplinks
  Services, Clones, Remote, Leaves, Start, MaxOut, CollidersMove  \* of NetUsers

VARIABLES
  look, opers, gagged, gags, alerts, timers,                  \* of OpGags
  words, exempt, chans,                                       \* of OpChannels
  services, trigger, privileged, bound, offchannel,           \* of Modcmd
  chanmsg, defaults, count, by,
  mem, disk, ctx, acked, kept, full, alive,                   \* of Saxdb
  cur, state, tries, bad, cycles, sock, phase, exited,        \* of Uplinks
  users, clients, bursts, invis, theirs, out,                 \* of NetUsers
  user, channel, cmd, ran, hidden                             \* of ModcmdInvoke

-----------------------------------------------------------------------------
(* A channel as the network and as services know it (NetChannels).          *)

\* Members of a channel with their modes, the channel as services and as the network know it.
Mems  == UNION {[ms -> SUBSET Flags] : ms \in SUBSET Members}
Ours  == [ts : Nat, mem : Mems, keep : BOOLEAN, bans : SUBSET Bans, locks : {0, 1}]
Nets  == [ts : Nat, mem : Mems, keep : BOOLEAN, bans : SUBSET Bans]

\* Services are no users, the leaf is part of the network, NULL is no channel, and neither fault is admitted.
ChannelTame == /\ Leaf \subseteq Users /\ X \notin Users /\ NULL \notin Ours \cup Nets
               /\ Enabled \cap {"AGED", "RECREATED"} = {}

\* A channel is there as long as something keeps it.
Held(c) == DOMAIN c.mem # {} \/ c.keep \/ c.locks = 1
Live(n) == DOMAIN n.mem # {} \/ n.keep

\* The two views, c of services and n of the network: when they agree, when there is no
\* link, and while services' burst is still to come.
Agree(c, n) == IF n # NULL THEN c # NULL /\ OnNet(c) = n ELSE c = NULL \/ (c.locks = 1 /\ DOMAIN c.mem = {})
Aparted(c, n) == (c # NULL => DOMAIN c.mem \subseteq {X}) /\ (n # NULL => X \notin DOMAIN n.mem)
Pending(c, n, t) ==
  /\ c # NULL /\ c.ts < t
  /\ n = NULL => DOMAIN c.mem \subseteq {X}
  /\ n # NULL => /\ DOMAIN n.mem \subseteq DOMAIN c.mem /\ DOMAIN c.mem \subseteq DOMAIN n.mem \cup {X}
                 /\ ~n.keep /\ n.bans = {} /\ c.ts < n.ts

OurOk(c, t) == c \in Ours \cup {NULL} /\ (c # NULL => Held(c) /\ c.ts <= t)
NetOk(n, t) == n \in Nets \cup {NULL} /\ (n # NULL => Live(n) /\ n.ts <= t)
FarOk(n)    == n # NULL => DOMAIN n.mem \subseteq Leaf
Related(c, n, up, wait, t) ==
  /\ ~up => Aparted(c, n)
  /\ up /\ wait => Pending(c, n, t)
  /\ up /\ ~wait => Agree(c, n)

ChanInv ==
  /\ now \in Nat /\ linked \in BOOLEAN /\ unbursted \in BOOLEAN /\ bursting \in BOOLEAN /\ split \in BOOLEAN
  /\ OurOk(chan, now) /\ NetOk(net, now) /\ NetOk(far, now) /\ FarOk(far)
  /\ split /\ net # NULL => DOMAIN net.mem \cap Leaf = {}
  /\ unbursted /\ linked => bursting
  /\ ~linked \/ unbursted => kicked = {}
  /\ kicked \subseteq Users
  /\ Related(chan, net, linked, unbursted, now)

-----------------------------------------------------------------------------
\* Members and their modes as a function.
LEMMA MemIs ==
  /\ \A f \in Mems : DOMAIN f \subseteq Members /\ (\A m \in DOMAIN f : f[m] \subseteq Flags) /\ f = [m \in DOMAIN f |-> f[m]]
  /\ \A ms \in SUBSET Members : \A g \in [ms -> SUBSET Flags] : g \in Mems
BY DEF Mems

\* Members without some: what DelChannelUser leaves.
LEMMA SansMem ==
  ASSUME NEW f \in Mems, NEW gone
  PROVE  /\ Sans(f, gone) \in Mems /\ DOMAIN Sans(f, gone) = DOMAIN f \ gone
         /\ \A m \in DOMAIN f \ gone : Sans(f, gone)[m] = f[m]
<1>1. Sans(f, gone) \in [DOMAIN f \ gone -> SUBSET Flags]
  BY MemIs DEF Sans
<1> QED BY <1>1, MemIs DEF Sans

\* Members with one more, or with other modes for one.
LEMMA WithMem ==
  ASSUME NEW f \in Mems, NEW u \in Members, NEW fl \in SUBSET Flags
  PROVE  /\ With(f, u, fl) \in Mems /\ DOMAIN With(f, u, fl) = DOMAIN f \cup {u}
         /\ With(f, u, fl)[u] = fl /\ \A m \in DOMAIN f \ {u} : With(f, u, fl)[m] = f[m]
<1>1. With(f, u, fl) \in [DOMAIN f \cup {u} -> SUBSET Flags]
  BY MemIs DEF With
<1> QED BY <1>1, MemIs DEF With

\* A change of op or voice (cmd_mode) concerns one member and adds none.
LEMMA FlaggedMem ==
  ASSUME NEW f \in Mems, NEW u, NEW fl \in Flags, NEW add \in BOOLEAN
  PROVE  Flagged(f, u, fl, add) \in Mems /\ DOMAIN Flagged(f, u, fl, add) = DOMAIN f
<1>1. CASE u \in DOMAIN f
  <2>1. Flagged(f, u, fl, add) \in [DOMAIN f -> SUBSET Flags]
    BY <1>1, MemIs DEF Flagged
  <2> QED BY <2>1, MemIs
<1>2. CASE u \notin DOMAIN f
  BY <1>2 DEF Flagged
<1> QED BY <1>1, <1>2

\* A channel that AddChannel makes has no members.
LEMMA NoMem == None \in Mems /\ DOMAIN None = {}
<1>1. None \in [{} -> SUBSET Flags]
  BY DEF None
<1> QED BY <1>1, MemIs, Zenon

\* Members without their modes: what CLEARMODE leaves, and the younger of two channels.
LEMMA PlainMem ==
  ASSUME NEW f \in Mems
  PROVE  [m \in DOMAIN f |-> {}] \in Mems
<1>1. [m \in DOMAIN f |-> {}] \in [DOMAIN f -> SUBSET Flags]
  OBVIOUS
<1> QED BY <1>1, MemIs

\* Two lists of members are one when they have the same members with the same modes.
LEMMA SameMem ==
  ASSUME NEW f \in Mems, NEW g \in Mems, DOMAIN f = DOMAIN g, \A m \in DOMAIN f : f[m] = g[m]
  PROVE  f = g
BY MemIs

\* What the network's part of a channel consists of.
LEMMA OnNetIs ==
  ASSUME NEW c \in Ours
  PROVE  /\ OnNet(c) \in Nets
         /\ OnNet(c).ts = c.ts /\ OnNet(c).mem = c.mem /\ OnNet(c).keep = c.keep /\ OnNet(c).bans = c.bans
         /\ \A n \in Nets : OnNet(c) = n <=> c.ts = n.ts /\ c.mem = n.mem /\ c.keep = n.keep /\ c.bans = n.bans
BY DEF OnNet, Ours, Nets

\* A change of a channel, services' and the network's.
LEMMA OurChange ==
  ASSUME NEW c \in Ours, NEW f \in Mems, NEW k \in BOOLEAN, NEW b \in SUBSET Bans, NEW t \in Nat, NEW l \in {0, 1}
  PROVE  /\ [c EXCEPT !.mem = f] \in Ours /\ [c EXCEPT !.keep = k] \in Ours /\ [c EXCEPT !.bans = b] \in Ours
         /\ [c EXCEPT !.mem = f, !.bans = b] \in Ours /\ [c EXCEPT !.mem = f, !.ts = t] \in Ours
         /\ [c EXCEPT !.locks = l, !.keep = k] \in Ours /\ [c EXCEPT !.ts = t, !.keep = k, !.bans = b] \in Ours
         /\ [c EXCEPT !.keep = k, !.bans = b] \in Ours /\ [c EXCEPT !.ts = t] \in Ours
BY Zenon DEF Ours

\* The same on the network's side.
LEMMA NetChange ==
  ASSUME NEW n \in Nets, NEW f \in Mems, NEW k \in BOOLEAN, NEW b \in SUBSET Bans, NEW t \in Nat
  PROVE  /\ [n EXCEPT !.mem = f] \in Nets /\ [n EXCEPT !.keep = k] \in Nets /\ [n EXCEPT !.bans = b] \in Nets
         /\ [n EXCEPT !.mem = f, !.bans = b] \in Nets /\ [n EXCEPT !.mem = f, !.keep = k] \in Nets
         /\ [ts |-> t, mem |-> f, keep |-> k, bans |-> b] \in Nets
BY Zenon DEF Nets

\* What a channel consists of.
LEMMA Fields ==
  /\ \A c \in Ours : c.ts \in Nat /\ c.mem \in Mems /\ c.keep \in BOOLEAN /\ c.bans \in SUBSET Bans /\ c.locks \in {0, 1}
  /\ \A n \in Nets : n.ts \in Nat /\ n.mem \in Mems /\ n.keep \in BOOLEAN /\ n.bans \in SUBSET Bans
BY DEF Ours, Nets

\* Before the first link neither side has the channel.
LEMMA ChanInit == ChannelTame /\ Init => ChanInv
<1> SUFFICES ASSUME ChannelTame, Init PROVE ChanInv
  OBVIOUS
<1>1. OurOk(chan, now) /\ NetOk(net, now) /\ NetOk(far, now) /\ FarOk(far)
  BY DEF Init, OurOk, NetOk, FarOk
<1>2. Related(chan, net, linked, unbursted, now)
  BY DEF Init, Related, Aparted
<1> QED BY <1>1, <1>2, Zenon DEF Init, ChanInv

-----------------------------------------------------------------------------
\* DelChannelUser and the network's counterpart.
LEMMA OursGo ==
  ASSUME ChannelTame, NEW c \in Ours, NEW t, Held(c), c.ts <= t, NEW gone
  PROVE  LET d == DelChannelUsers(c, gone)
         IN  /\ OurOk(d, t)
             /\ d = NULL <=> DOMAIN c.mem \subseteq gone /\ ~c.keep /\ c.locks = 0
             /\ d # NULL => d = [c EXCEPT !.mem = Sans(c.mem, gone)]
<1> DEFINE s == Sans(c.mem, gone)
           e == [c EXCEPT !.mem = s]
<1>1. c.mem \in Mems /\ c.locks \in {0, 1} /\ c.keep \in BOOLEAN /\ c # NULL
  BY Fields DEF ChannelTame
<1>2. s \in Mems /\ DOMAIN s = DOMAIN c.mem \ gone /\ \A m \in DOMAIN c.mem \ gone : s[m] = c.mem[m]
  BY <1>1, SansMem, Zenon
<1>3. e \in Ours /\ e.mem = s /\ e.keep = c.keep /\ e.locks = c.locks /\ e.ts = c.ts
  BY <1>2 DEF Ours
<1>4. CASE DOMAIN c.mem \cap gone = {}
  <2>1. s = c.mem
    BY <1>1, <1>2, <1>4, SameMem
  <2>2. e = c
    BY <2>1 DEF Ours
  <2>3. DelChannelUsers(c, gone) = c
    BY <1>1, <1>4 DEF DelChannelUsers
  <2> QED BY <1>1, <1>4, <2>2, <2>3 DEF OurOk, Held
<1>5. CASE DOMAIN c.mem \cap gone # {}
  <2>1. DelChannelUsers(c, gone) = IF DOMAIN s = {} /\ c.locks = 0 /\ ~c.keep THEN NULL ELSE e
    BY <1>1, <1>3, <1>5 DEF DelChannelUsers, Emptied
  <2>2. e # NULL
    BY <1>3 DEF ChannelTame
  <2> HIDE DEF e
  <2> QED BY <1>1, <1>2, <1>3, <2>1, <2>2 DEF OurOk, Held, e
<1> QED BY <1>4, <1>5

\* The same on the network's side: a channel goes with its last member.
LEMMA TheirsGo ==
  ASSUME ChannelTame, NEW n \in Nets, NEW t, n.ts <= t, NEW gone
  PROVE  LET g == Gone([n EXCEPT !.mem = Sans(@, gone)])
         IN  /\ NetOk(g, t)
             /\ g = NULL <=> DOMAIN n.mem \subseteq gone /\ ~n.keep
             /\ g # NULL => g = [n EXCEPT !.mem = Sans(n.mem, gone)]
<1> DEFINE s == Sans(n.mem, gone)
           e == [n EXCEPT !.mem = s]
<1>1. n.mem \in Mems /\ n.keep \in BOOLEAN
  BY Fields
<1>2. s \in Mems /\ DOMAIN s = DOMAIN n.mem \ gone /\ \A m \in DOMAIN n.mem \ gone : s[m] = n.mem[m]
  BY <1>1, SansMem, Zenon
<1>3. e \in Nets /\ e.mem = s /\ e.keep = n.keep /\ e.ts = n.ts /\ e # NULL
  BY <1>2 DEF Nets, ChannelTame
<1> HIDE DEF e
<1>4. Gone(e) = IF DOMAIN s = {} /\ ~n.keep THEN NULL ELSE e
  BY <1>3 DEF Gone
<1> QED BY <1>1, <1>2, <1>3, <1>4, Zenon DEF NetOk, Live, e

\* Users who leave both views.
LEMMA UsersGo ==
  ASSUME ChannelTame, NEW c, NEW n, NEW t \in Nat, OurOk(c, t), NetOk(n, t), NEW gone, NEW up, NEW wait, Related(c, n, up, wait, t),
         NEW d, d = DelChannelUsers(c, gone), NEW m, m = IF n = NULL THEN NULL ELSE Gone([n EXCEPT !.mem = Sans(@, gone)])
  PROVE  OurOk(d, t) /\ NetOk(m, t) /\ Related(d, m, up, wait /\ d # NULL, t)
<1>1. c = NULL => d = NULL
  BY DEF DelChannelUsers
<1>2. c # NULL => /\ c \in Ours /\ OurOk(d, t) /\ (d = NULL <=> DOMAIN c.mem \subseteq gone /\ ~c.keep /\ c.locks = 0)
                  /\ d # NULL => d = [c EXCEPT !.mem = Sans(c.mem, gone)]
  BY OursGo DEF OurOk
<1>3. n # NULL => /\ n \in Nets /\ NetOk(m, t) /\ (m = NULL <=> DOMAIN n.mem \subseteq gone /\ ~n.keep)
                  /\ m # NULL => m = [n EXCEPT !.mem = Sans(n.mem, gone)]
  BY TheirsGo DEF NetOk
<1>4. d # NULL => d.ts = c.ts /\ d.keep = c.keep /\ d.bans = c.bans /\ d.locks = c.locks /\ d.mem = Sans(c.mem, gone)
                  /\ DOMAIN d.mem = DOMAIN c.mem \ gone /\ d \in Ours /\ c \in Ours
  <2> SUFFICES ASSUME d # NULL PROVE /\ d.ts = c.ts /\ d.keep = c.keep /\ d.bans = c.bans /\ d.locks = c.locks /\ d.mem = Sans(c.mem, gone)
                                     /\ DOMAIN d.mem = DOMAIN c.mem \ gone /\ d \in Ours /\ c \in Ours
    OBVIOUS
  <2>1. c \in Ours /\ d = [c EXCEPT !.mem = Sans(c.mem, gone)] /\ d \in Ours
    BY <1>1, <1>2 DEF OurOk
  <2>2. c.mem \in Mems
    BY <2>1, Fields
  <2>3. d.ts = c.ts /\ d.keep = c.keep /\ d.bans = c.bans /\ d.locks = c.locks /\ d.mem = Sans(c.mem, gone)
    BY <2>1 DEF Ours
  <2> QED BY <2>1, <2>2, <2>3, SansMem, Zenon
<1>5. m # NULL => m.ts = n.ts /\ m.keep = n.keep /\ m.bans = n.bans /\ m.mem = Sans(n.mem, gone)
                  /\ DOMAIN m.mem = DOMAIN n.mem \ gone /\ m \in Nets /\ n \in Nets
  <2> SUFFICES ASSUME m # NULL PROVE /\ m.ts = n.ts /\ m.keep = n.keep /\ m.bans = n.bans /\ m.mem = Sans(n.mem, gone)
                                     /\ DOMAIN m.mem = DOMAIN n.mem \ gone /\ m \in Nets /\ n \in Nets
    OBVIOUS
  <2>1. n \in Nets /\ m = [n EXCEPT !.mem = Sans(n.mem, gone)] /\ m \in Nets
    BY <1>3 DEF NetOk
  <2>2. n.mem \in Mems
    BY <2>1, Fields
  <2>3. m.ts = n.ts /\ m.keep = n.keep /\ m.bans = n.bans /\ m.mem = Sans(n.mem, gone)
    BY <2>1 DEF Nets
  <2> QED BY <2>1, <2>2, <2>3, SansMem, Zenon
<1>6. OurOk(d, t) /\ NetOk(m, t)
  BY <1>1, <1>2, <1>3 DEF OurOk, NetOk
<1>7. Aparted(c, n) => Aparted(d, m)
  BY <1>1, <1>3, <1>4, <1>5 DEF Aparted
<1>8. Agree(c, n) => Agree(d, m)
  <2>1. CASE n = NULL
    BY <2>1, <1>1, <1>4 DEF Agree
  <2>2. CASE n # NULL /\ Agree(c, n)
    <3>1. c # NULL /\ c \in Ours /\ c.ts = n.ts /\ c.mem = n.mem /\ c.keep = n.keep /\ c.bans = n.bans /\ (c.keep <=> n.keep)
      BY <2>2, <1>2, <1>3, OnNetIs DEF Agree
    <3>2. m # NULL => d # NULL
      BY <3>1, <2>2, <1>2, <1>3
    <3>3. m # NULL => OnNet(d) = m
      BY <3>1, <3>2, <1>4, <1>5, OnNetIs
    <3>4. m = NULL /\ d # NULL => d.locks = 1 /\ DOMAIN d.mem = {}
      BY <3>1, <2>2, <1>2, <1>3, <1>4, Fields
    <3> QED BY <3>2, <3>3, <3>4 DEF Agree
  <2> QED BY <2>1, <2>2
<1>9. Pending(c, n, t) => IF d = NULL THEN Agree(d, m) ELSE Pending(d, m, t)
  <2> SUFFICES ASSUME Pending(c, n, t) PROVE IF d = NULL THEN Agree(d, m) ELSE Pending(d, m, t)
    OBVIOUS
  <2>1. c # NULL /\ c.ts < t
    BY DEF Pending
  <2>2. CASE d = NULL
    BY <2>2, <2>1, <1>2, <1>3 DEF Pending, Agree
  <2>3. CASE d # NULL
    <3>1. m = NULL => DOMAIN d.mem \subseteq {X}
      BY <2>3, <2>1, <1>3, <1>4 DEF Pending
    <3>2. m # NULL => n # NULL
      OBVIOUS
    <3> QED BY <3>1, <3>2, <2>1, <2>3, <1>4, <1>5 DEF Pending
  <2> QED BY <2>2, <2>3
<1> QED BY <1>6, <1>7, <1>8, <1>9 DEF Related

\* Views that agree are of one channel.
LEMMA AgreeIs ==
  ASSUME ChannelTame, NEW c, NEW n, NEW t, OurOk(c, t), NetOk(n, t), n # NULL
  PROVE  /\ n \in Nets
         /\ Agree(c, n) => /\ c # NULL /\ c \in Ours
                           /\ c.ts = n.ts /\ c.mem = n.mem /\ c.keep = n.keep /\ c.bans = n.bans /\ (c.keep <=> n.keep)
BY OnNetIs DEF OurOk, NetOk, Agree

\* And views of one channel agree.
LEMMA Agreed ==
  ASSUME ChannelTame, NEW c \in Ours, NEW n \in Nets,
         c.ts = n.ts, c.mem = n.mem, c.keep = n.keep, c.bans = n.bans
  PROVE  Agree(c, n)
BY OnNetIs DEF Agree, ChannelTame

\* AddChannelUser.
LEMMA OneMore ==
  ASSUME ChannelTame, NEW c \in Ours, NEW t, c.ts <= t, NEW u \in Members, u \notin DOMAIN c.mem
  PROVE  LET d == AddChannelUser(c, u)
         IN  /\ d \in Ours /\ OurOk(d, t) /\ d # NULL
             /\ d.ts = c.ts /\ d.keep = c.keep /\ d.bans = c.bans /\ d.locks = c.locks
             /\ d.mem = With(c.mem, u, FirstOp(c)) /\ DOMAIN d.mem = DOMAIN c.mem \cup {u}
<1> DEFINE f == With(c.mem, u, FirstOp(c))
           d == [c EXCEPT !.mem = f]
<1>1. c.mem \in Mems /\ FirstOp(c) \in SUBSET Flags
  BY Fields DEF FirstOp, Flags
<1>2. f \in Mems /\ DOMAIN f = DOMAIN c.mem \cup {u}
  BY <1>1, WithMem, Zenon
<1>3. AddChannelUser(c, u) = d
  BY DEF AddChannelUser
<1>4. d \in Ours /\ d.ts = c.ts /\ d.keep = c.keep /\ d.bans = c.bans /\ d.locks = c.locks /\ d.mem = f
  BY <1>2 DEF Ours
<1> HIDE DEF d, f
<1>5. d # NULL /\ Held(d)
  BY <1>2, <1>4 DEF ChannelTame, Held
<1> QED BY <1>2, <1>3, <1>4, <1>5 DEF OurOk, f

\* AddChannel: nobody is on the channel, and whoever comes first will be op.
LEMMA NewChannel ==
  ASSUME NEW t \in Nat
  PROVE  LET c == Fresh(t, None, FALSE, {})
         IN  /\ c \in Ours /\ c.ts = t /\ c.mem = None /\ ~c.keep /\ c.keep = FALSE /\ c.bans = {} /\ c.locks = 0
             /\ DOMAIN c.mem = {} /\ FirstOp(c) = {"o"}
BY NoMem DEF Fresh, Ours, FirstOp

\* One more on the network's side.
MoreThere(n, u, fl) == [n EXCEPT !.mem = With(@, u, fl)]
\* The network's side of a JOIN.
LEMMA OneMoreThere ==
  ASSUME ChannelTame, NEW n \in Nets, NEW t, n.ts <= t, NEW u \in Members, NEW fl \in SUBSET Flags
  PROVE  LET m == MoreThere(n, u, fl)
         IN  /\ m \in Nets /\ NetOk(m, t) /\ m # NULL
             /\ m.ts = n.ts /\ m.keep = n.keep /\ m.bans = n.bans /\ m.mem = With(n.mem, u, fl)
             /\ DOMAIN m.mem = DOMAIN n.mem \cup {u}
<1> DEFINE f == With(n.mem, u, fl)
           m == [n EXCEPT !.mem = f]
<1>0. n.mem \in Mems
  BY Fields
<1>1. f \in Mems /\ DOMAIN f = DOMAIN n.mem \cup {u}
  BY <1>0, WithMem, Zenon
<1>2. m \in Nets /\ m.ts = n.ts /\ m.keep = n.keep /\ m.bans = n.bans /\ m.mem = f
  BY <1>1 DEF Nets
<1> HIDE DEF m, f
<1>3. m # NULL /\ Live(m)
  BY <1>1, <1>2 DEF ChannelTame, Live
<1>4. m = MoreThere(n, u, fl)
  BY DEF m, f, MoreThere
<1>5. f = With(n.mem, u, fl)
  BY DEF f
<1> QED BY <1>1, <1>2, <1>3, <1>4, <1>5 DEF NetOk

\* The network's side of a CREATE.
LEMMA NewThere ==
  ASSUME ChannelTame, NEW t \in Nat, NEW u \in Members
  PROVE  LET n == [ts |-> t, mem |-> With(None, u, {"o"}), keep |-> FALSE, bans |-> {}]
         IN  /\ n \in Nets /\ NetOk(n, t) /\ n # NULL
             /\ n.ts = t /\ n.mem = With(None, u, {"o"}) /\ DOMAIN n.mem = {u} /\ n.keep = FALSE /\ ~n.keep /\ n.bans = {}
<1> DEFINE f == With(None, u, {"o"})
           n == [ts |-> t, mem |-> f, keep |-> FALSE, bans |-> {}]
<1>1. f \in Mems /\ DOMAIN f = {u}
  <2>1. {"o"} \in SUBSET Flags /\ None \in Mems /\ DOMAIN None = {}
    BY NoMem DEF Flags
  <2>2. f \in Mems /\ DOMAIN f = DOMAIN None \cup {u}
    BY <2>1, WithMem, Zenon
  <2> QED BY <2>1, <2>2
<1>2. n \in Nets /\ n.ts = t /\ n.mem = f /\ n.keep = FALSE /\ ~n.keep /\ n.bans = {}
  BY <1>1 DEF Nets
<1> HIDE DEF n, f
<1>3. n # NULL /\ Live(n)
  BY <1>1, <1>2 DEF ChannelTame, Live
<1> QED BY <1>1, <1>2, <1>3 DEF NetOk, n, f

\* CREATE and JOIN.
LEMMA JoinStep ==
  ASSUME ChannelTame, ChanInv, NEW u \in Users, Join(u)
  PROVE  ChanInv'
<1> DEFINE J == Joined(chan, u, now)
<1>1. u \in Members /\ u # X /\ now \in Nat /\ now' = now /\ OurOk(chan, now) /\ NetOk(net, now)
  BY DEF Members, ChannelTame, ChanInv, Join
<1>2. net = NULL => /\ NetOk(net', now) /\ net' # NULL /\ net' \in Nets /\ net'.ts = now /\ net'.mem = With(None, u, {"o"})
                    /\ DOMAIN net'.mem = {u} /\ net'.keep = FALSE /\ ~net'.keep /\ net'.bans = {}
  BY <1>1, NewThere DEF Join
<1>3. net # NULL => /\ net \in Nets /\ NetOk(net', now) /\ net' # NULL /\ net' \in Nets /\ net'.mem = With(net.mem, u, {})
                    /\ DOMAIN net'.mem = DOMAIN net.mem \cup {u} /\ u \notin DOMAIN net.mem /\ net'.ts = net.ts
                    /\ net'.keep = net.keep /\ net'.bans = net.bans
  <2> SUFFICES ASSUME net # NULL
               PROVE  /\ net \in Nets /\ NetOk(net', now) /\ net' # NULL /\ net' \in Nets /\ net'.mem = With(net.mem, u, {})
                      /\ DOMAIN net'.mem = DOMAIN net.mem \cup {u} /\ u \notin DOMAIN net.mem /\ net'.ts = net.ts
                      /\ net'.keep = net.keep /\ net'.bans = net.bans
    OBVIOUS
  <2>1. net \in Nets /\ net.ts <= now /\ {} \in SUBSET Flags /\ u \notin DOMAIN net.mem
    BY <1>1 DEF Join, NetOk, On
  <2> DEFINE m == MoreThere(net, u, {})
  <2>2. net' = m
    BY DEF Join, MoreThere
  <2>3. /\ m \in Nets /\ NetOk(m, now) /\ m # NULL /\ m.mem = With(net.mem, u, {})
        /\ DOMAIN m.mem = DOMAIN net.mem \cup {u} /\ m.ts = net.ts /\ m.keep = net.keep /\ m.bans = net.bans
    BY <2>1, <1>1, OneMoreThere
  <2> HIDE DEF m
  <2> QED BY <2>1, <2>2, <2>3
<1>4. NetOk(net', now) /\ net' # NULL
  BY <1>2, <1>3
<1>5. split /\ net' # NULL => DOMAIN net'.mem \cap Leaf = {}
  <2>1. split => u \notin Leaf
    BY DEF Join, Near
  <2> QED BY <2>1, <1>2, <1>3 DEF ChanInv
<1>6. chan # NULL /\ u \notin DOMAIN chan.mem =>
        /\ J \in Ours /\ OurOk(J, now) /\ J # NULL /\ J.ts = chan.ts /\ J.keep = chan.keep /\ J.bans = chan.bans
        /\ J.locks = chan.locks /\ J.mem = With(chan.mem, u, FirstOp(chan)) /\ DOMAIN J.mem = DOMAIN chan.mem \cup {u}
  BY <1>1, OneMore DEF Joined, OurOk
<1>7. chan = NULL =>
        /\ J \in Ours /\ OurOk(J, now) /\ J # NULL /\ J.ts = now /\ J.keep = FALSE /\ J.bans = {}
        /\ J.mem = With(None, u, {"o"})
  <2> DEFINE c == Fresh(now, None, FALSE, {})
  <2>1. /\ c \in Ours /\ c.ts = now /\ c.mem = None /\ ~c.keep /\ c.keep = FALSE /\ c.bans = {} /\ c.locks = 0
        /\ DOMAIN c.mem = {} /\ FirstOp(c) = {"o"}
    BY <1>1, NewChannel, Zenon
  <2>2. chan = NULL => J = AddChannelUser(c, u)
    BY DEF Joined
  <2> HIDE DEF c
  <2>3. c.ts <= now /\ u \notin DOMAIN c.mem
    BY <2>1, <1>1
  <2> DEFINE d == AddChannelUser(c, u)
  <2>4. /\ d \in Ours /\ OurOk(d, now) /\ d # NULL
        /\ d.ts = c.ts /\ d.keep = c.keep /\ d.bans = c.bans /\ d.mem = With(c.mem, u, FirstOp(c))
    BY <2>1, <2>3, <1>1, OneMore, Zenon
  <2> HIDE DEF d
  <2>5. chan = NULL => J = d
    BY <2>2 DEF d
  <2> QED BY <2>1, <2>4, <2>5
<1> HIDE DEF J
<1>8. CASE ~linked
  <2>1. chan' = chan /\ linked' = linked
    BY <1>8 DEF Join, Hears
  <2>2. Aparted(chan, net')
    BY <1>1, <1>2, <1>3, <1>8 DEF ChanInv, Related, Aparted
  <2> QED BY <1>1, <1>4, <1>5, <1>8, <2>1, <2>2 DEF ChanInv, Join, Related
<1>9. CASE linked /\ ~unbursted
  <2>1. chan' = J /\ linked' = linked
    BY <1>9 DEF Join, Hears, J
  <2>2. Agree(chan, net)
    BY <1>9 DEF ChanInv, Related
  <2>3. CASE net = NULL
    <3>1. chan = NULL
      BY <1>9, <2>3 DEF Join, Recreated, Waits, ChannelTame
    <3>2. Agree(J, net')
      BY <3>1, <2>3, <1>2, <1>7, Agreed, Zenon
    <3> QED BY <1>1, <1>4, <1>5, <1>7, <1>9, <2>1, <3>1, <3>2 DEF ChanInv, Join, Related
  <2>4. CASE net # NULL
    <3>1. /\ net \in Nets /\ chan # NULL /\ chan \in Ours /\ chan.ts = net.ts /\ chan.mem = net.mem /\ chan.keep = net.keep
          /\ chan.bans = net.bans /\ (chan.keep <=> net.keep)
      BY <1>1, <2>2, <2>4, AgreeIs
    <3>2. FirstOp(chan) = {}
      BY <1>1, <2>4, <3>1 DEF FirstOp, NetOk, Live
    <3>3. Agree(J, net')
      BY <3>1, <3>2, <2>4, <1>3, <1>6, Agreed
    <3> QED BY <1>1, <1>3, <1>4, <1>5, <1>6, <1>9, <2>1, <2>4, <3>1, <3>3 DEF ChanInv, Join, Related
  <2> QED BY <2>3, <2>4
<1>10. CASE linked /\ unbursted
  <2>1. chan' = J /\ linked' = linked /\ Pending(chan, net, now)
    BY <1>10 DEF Join, Hears, J, ChanInv, Related
  <2>2. chan # NULL /\ u \notin DOMAIN chan.mem
    BY <2>1, <1>1, <1>3 DEF Pending
  <2>3. Pending(J, net', now)
    <3>1. CASE net = NULL
      BY <3>1, <2>1, <2>2, <1>1, <1>2, <1>6 DEF Pending
    <3>2. CASE net # NULL
      BY <3>2, <2>1, <2>2, <1>1, <1>3, <1>6 DEF Pending
    <3> QED BY <3>1, <3>2
  <2> QED BY <1>1, <1>4, <1>5, <1>6, <1>10, <2>1, <2>2, <2>3 DEF ChanInv, Join, Related
<1> QED BY <1>8, <1>9, <1>10 DEF ChanInv

\* Users leave: the channel that services hear of, and the network's.
LeftThere(n, gone) == IF n = NULL THEN NULL ELSE Gone([n EXCEPT !.mem = Sans(@, gone)])
\* Members who go from both sides, while services are linked.
LEMMA Leaving ==
  ASSUME ChannelTame, ChanInv, NEW gone, linked => chan' = DelChannelUsers(chan, gone), ~linked => chan' \in {chan, DelChannelUsers(chan, gone)},
         net' = LeftThere(net, gone), now' = now, linked' = linked, unbursted' = (unbursted /\ chan' # NULL)
  PROVE  OurOk(chan, now)' /\ NetOk(net, now)' /\ Related(chan, net, linked, unbursted, now)'
         /\ (net' # NULL => net # NULL /\ DOMAIN net'.mem = DOMAIN net.mem \ gone)
<1> DEFINE d == DelChannelUsers(chan, gone)
           m == LeftThere(net, gone)
<1>1. now \in Nat /\ OurOk(chan, now) /\ NetOk(net, now) /\ Related(chan, net, linked, unbursted, now)
  BY DEF ChanInv
<1>2. OurOk(d, now) /\ NetOk(m, now) /\ Related(d, m, linked, unbursted /\ d # NULL, now)
  BY <1>1, UsersGo DEF LeftThere
<1>3. net' # NULL => net # NULL /\ DOMAIN net'.mem = DOMAIN net.mem \ gone
  <2>1. net' # NULL => /\ net # NULL /\ net \in Nets /\ net.ts <= now
                       /\ net' = Gone([net EXCEPT !.mem = Sans(@, gone)])
    BY <1>1 DEF LeftThere, NetOk
  <2>2. net' # NULL => net' = [net EXCEPT !.mem = Sans(net.mem, gone)] /\ net.mem \in Mems
    BY <2>1, TheirsGo, Fields
  <2> QED BY <2>1, <2>2, SansMem, Zenon DEF Nets
<1>4. CASE linked
  BY <1>1, <1>2, <1>3, <1>4, Zenon DEF Related
<1>5. CASE ~linked
  <2>1. Aparted(chan, net)
    BY <1>1, <1>5 DEF ChanInv, Related
  <2>2. Aparted(chan, m)
    BY <1>3, <2>1 DEF Aparted
  <2>3. Aparted(d, m)
    BY <1>2, <1>5 DEF Related
  <2> QED BY <1>1, <1>2, <1>3, <1>5, <2>1, <2>2, <2>3 DEF Related
<1> QED BY <1>4, <1>5 DEF ChanInv

\* PART, QUIT, a confirmed KICK, a service that parts.
LEMMA LeaveSteps ==
  ASSUME ChannelTame, ChanInv, NEW u \in Users, Leave(u) \/ KickConfirmed(u)
  PROVE  ChanInv'
<1>1. CASE Leave(u)
  <2>1. net' = LeftThere(net, {u})
    BY <1>1 DEF Leave, On, LeftThere
  <2>2. /\ linked => chan' = DelChannelUsers(chan, {u})
        /\ ~linked => chan' \in {chan, DelChannelUsers(chan, {u})}
        /\ now' = now /\ linked' = linked /\ unbursted' = (unbursted /\ chan' # NULL)
    BY <1>1 DEF Leave, Hears, Unbursts
  <2>3. /\ OurOk(chan, now)' /\ NetOk(net, now)' /\ Related(chan, net, linked, unbursted, now)'
        /\ (net' # NULL => net # NULL /\ DOMAIN net'.mem = DOMAIN net.mem \ {u})
    BY <2>1, <2>2, Leaving
  <2> QED BY <1>1, <2>2, <2>3 DEF Leave, ChanInv
<1>2. CASE KickConfirmed(u)
  <2>1. net' = LeftThere(net, {u})
    BY <1>2 DEF KickConfirmed, LeftThere
  <2>2. /\ linked => chan' = DelChannelUsers(chan, {u})
        /\ ~linked => chan' \in {chan, DelChannelUsers(chan, {u})}
        /\ now' = now /\ linked' = linked /\ unbursted' = (unbursted /\ chan' # NULL)
    BY <1>2 DEF KickConfirmed, Hears, Unbursts
  <2>3. /\ OurOk(chan, now)' /\ NetOk(net, now)' /\ Related(chan, net, linked, unbursted, now)'
        /\ (net' # NULL => net # NULL /\ DOMAIN net'.mem = DOMAIN net.mem \ {u})
    BY <2>1, <2>2, Leaving
  <2> QED BY <1>2, <2>2, <2>3 DEF KickConfirmed, ChanInv
<1> QED BY <1>1, <1>2

\* A service parts.
LEMMA ServicePartsStep ==
  ASSUME ChannelTame, ChanInv, ServiceParts
  PROVE  ChanInv'
<1>1. net' = LeftThere(net, {X})
  <2>1. CASE linked
    BY <2>1 DEF ServiceParts, LeftThere
  <2>2. CASE ~linked /\ net # NULL
    <3> DEFINE s == Sans(net.mem, {X})
    <3>1. net' = net /\ net \in Nets /\ Live(net) /\ X \notin DOMAIN net.mem /\ net.mem \in Mems
      BY <2>2, Fields DEF ServiceParts, ChanInv, Related, Aparted, NetOk
    <3>2. s = net.mem
      <4>1. s \in Mems /\ DOMAIN s = DOMAIN net.mem \ {X} /\ \A m \in DOMAIN net.mem \ {X} : s[m] = net.mem[m]
        BY <3>1, SansMem, Zenon
      <4> HIDE DEF s
      <4> QED BY <3>1, <4>1, SameMem
    <3>3. [net EXCEPT !.mem = s] = net
      BY <3>1, <3>2 DEF Nets
    <3> HIDE DEF s
    <3>4. LeftThere(net, {X}) = Gone([net EXCEPT !.mem = s])
      BY <2>2 DEF LeftThere, s
    <3> QED BY <3>1, <3>3, <3>4, Zenon DEF Gone, Live
  <2>3. CASE ~linked /\ net = NULL
    BY <2>3 DEF ServiceParts, LeftThere
  <2> QED BY <2>1, <2>2, <2>3 DEF ChanInv
<1>2. /\ linked => chan' = DelChannelUsers(chan, {X})
      /\ ~linked => chan' \in {chan, DelChannelUsers(chan, {X})}
      /\ now' = now /\ linked' = linked /\ unbursted' = (unbursted /\ chan' # NULL)
  BY DEF ServiceParts, Unbursts
<1>3. /\ OurOk(chan, now)' /\ NetOk(net, now)' /\ Related(chan, net, linked, unbursted, now)'
      /\ (net' # NULL => net # NULL /\ DOMAIN net'.mem = DOMAIN net.mem \ {X})
  BY <1>1, <1>2, Leaving
<1> QED BY <1>2, <1>3 DEF ServiceParts, ChanInv

\* SQUIT of the leaf, which keeps what it has of the channel.
LEMMA NetsplitStep ==
  ASSUME ChannelTame, ChanInv, Netsplit
  PROVE  ChanInv'
<1>1. net' = LeftThere(net, Leaf)
  BY DEF Netsplit, LeftThere
<1>2. /\ linked => chan' = DelChannelUsers(chan, Leaf)
      /\ ~linked => chan' \in {chan, DelChannelUsers(chan, Leaf)}
      /\ now' = now /\ linked' = linked /\ unbursted' = (unbursted /\ chan' # NULL)
  BY DEF Netsplit, Hears, Unbursts
<1>3. /\ OurOk(chan, now)' /\ NetOk(net, now)' /\ Related(chan, net, linked, unbursted, now)'
      /\ (net' # NULL => net # NULL /\ DOMAIN net'.mem = DOMAIN net.mem \ Leaf)
  BY <1>1, <1>2, Leaving
<1>4. NetOk(far, now)' /\ FarOk(far)'
  <2>1. CASE net = NULL
    BY <2>1, <1>2 DEF Netsplit, NetOk, FarOk
  <2>2. CASE net # NULL
    <3> DEFINE gone == Members \ Leaf
    <3>0. net \in Nets /\ net.ts <= now
      BY <2>2 DEF ChanInv, NetOk
    <3>1. net \in Nets /\ net.ts <= now /\ net.mem \in Mems /\ DOMAIN net.mem \subseteq Members
      BY <3>0, Fields, MemIs
    <3>2. far' = Gone([net EXCEPT !.mem = Sans(@, gone)])
      BY <2>2 DEF Netsplit
    <3> HIDE DEF gone
    <3>3. NetOk(far', now) /\ (far' # NULL => far' = [net EXCEPT !.mem = Sans(net.mem, gone)])
      BY <3>1, <3>2, TheirsGo
    <3>4. far' # NULL => DOMAIN far'.mem = DOMAIN net.mem \ gone
      <4>1. far' # NULL => far'.mem = Sans(net.mem, gone)
        BY <3>1, <3>3 DEF Nets
      <4> QED BY <3>1, <4>1, SansMem, Zenon
    <3> QED BY <3>1, <3>3, <3>4, <1>2 DEF FarOk, gone
  <2> QED BY <2>1, <2>2
<1> QED BY <1>2, <1>3, <1>4 DEF Netsplit, ChanInv

\* What goes on at the leaf, behind a split.
LEMMA FarStep ==
  ASSUME ChannelTame, ChanInv, NEW u \in Users, FarJoin(u)
  PROVE  ChanInv'
<1>1. now \in Nat /\ NetOk(far, now) /\ FarOk(far) /\ u \in Members /\ u \in Leaf /\ now' = now
  BY DEF ChanInv, FarJoin, Members
<1>2. CASE far = NULL
  <2> DEFINE n == [ts |-> now, mem |-> With(None, u, {"o"}), keep |-> FALSE, bans |-> {}]
  <2>1. far' = n
    BY <1>2 DEF FarJoin
  <2>2. NetOk(n, now) /\ DOMAIN n.mem = {u}
    BY <1>1, NewThere
  <2> HIDE DEF n
  <2> QED BY <1>1, <2>1, <2>2, Zenon DEF FarJoin, ChanInv, FarOk
<1>3. CASE far # NULL /\ u \in DOMAIN far.mem
  <2>1. far' = Gone([far EXCEPT !.mem = Sans(@, {u})]) /\ far \in Nets /\ far.ts <= now
    BY <1>1, <1>3 DEF FarJoin, NetOk
  <2>2. NetOk(far', now) /\ (far' # NULL => far' = [far EXCEPT !.mem = Sans(far.mem, {u})])
    BY <2>1, TheirsGo
  <2>3. far' # NULL => DOMAIN far'.mem = DOMAIN far.mem \ {u}
    BY <2>1, <2>2, Fields, SansMem, Zenon DEF Nets
  <2> QED BY <1>1, <1>3, <2>2, <2>3 DEF FarJoin, ChanInv, FarOk
<1>4. CASE far # NULL /\ u \notin DOMAIN far.mem
  <2>1. far' = MoreThere(far, u, {}) /\ far \in Nets /\ far.ts <= now /\ {} \in SUBSET Flags
    BY <1>1, <1>4 DEF FarJoin, NetOk, MoreThere
  <2>2. NetOk(far', now) /\ DOMAIN far'.mem = DOMAIN far.mem \cup {u}
    BY <2>1, <1>1, OneMoreThere
  <2> QED BY <1>1, <1>4, <2>2 DEF FarJoin, ChanInv, FarOk
<1> QED BY <1>2, <1>3, <1>4

\* MODE +o, -o, +v, -v.
LEMMA ModeStep ==
  ASSUME ChannelTame, ChanInv, NEW u \in Members, NEW fl \in Flags, NEW add \in BOOLEAN, NEW server \in BOOLEAN, Mode(u, fl, add, server)
  PROVE  ChanInv'
<1> DEFINE f == Flagged(net.mem, u, fl, add)
<1>1. net # NULL /\ net \in Nets /\ net.mem \in Mems /\ net.keep \in BOOLEAN /\ net.bans \in SUBSET Bans /\ net.ts \in Nat /\ Live(net)
  BY Fields DEF Mode, On, ChanInv, NetOk
<1>2. f \in Mems /\ DOMAIN f = DOMAIN net.mem
  BY <1>1, FlaggedMem
<1>3. net' \in Nets /\ net'.mem = f /\ net'.keep = net.keep /\ net'.bans = net.bans /\ net'.ts = net.ts /\ net' # NULL
  <2>1. net' = [net EXCEPT !.mem = f]
    BY DEF Mode
  <2> HIDE DEF f
  <2> QED BY <1>1, <1>2, <2>1 DEF Nets, ChannelTame
<1>4. (linked => ~unbursted) /\ UNCHANGED <<unbursted, linked, bursting, split, far, kicked, now>> /\ NetOk(net, now) /\ OurOk(chan, now)
  BY DEF Mode, Waits, ChanInv
<1>5. NetOk(net', now)
  BY <1>1, <1>2, <1>3, <1>4 DEF NetOk, Live
<1>6. CASE ~linked
  <2>1. Aparted(chan', net') /\ OurOk(chan', now)
    BY <1>1, <1>2, <1>3, <1>4, <1>6 DEF Mode, Hears, ChanInv, Related, Aparted
  <2> QED BY <1>1, <1>2, <1>3, <1>4, <1>5, <1>6, <2>1 DEF ChanInv, Related
<1>7. CASE linked
  <2>1. Agree(chan, net)
    BY <1>4, <1>7 DEF ChanInv, Related
  <2>2. chan \in Ours /\ chan.ts = net.ts /\ chan.mem = net.mem /\ chan.keep = net.keep /\ chan.bans = net.bans
    BY <1>1, <1>4, <2>1, AgreeIs
  <2>3. chan' = [chan EXCEPT !.mem = f, !.ts = IF server THEN net.ts ELSE @]
    BY <1>7, <2>2 DEF Mode, Hears
  <2> HIDE DEF f
  <2>4. chan' \in Ours /\ chan'.ts = net.ts /\ chan'.mem = f /\ chan'.keep = net.keep /\ chan'.bans = net.bans /\ (chan'.keep <=> net.keep)
    BY <1>1, <1>2, <2>2, <2>3, Zenon DEF Ours
  <2>5. DOMAIN f # {} \/ net.keep
    BY <1>1, <1>2 DEF Live
  <2>6. Agree(chan', net')
    BY <1>3, <2>4, Agreed
  <2>7. OurOk(chan', now)
    BY <1>1, <1>2, <1>3, <1>4, <2>4, <2>5 DEF OurOk, NetOk, Held
  <2> QED BY <1>1, <1>2, <1>3, <1>4, <1>5, <1>7, <2>6, <2>7 DEF ChanInv, Related
<1> QED BY <1>6, <1>7 DEF ChanInv

\* MODE +b and -b, CLEARMODE.
LEMMA BanSteps ==
  ASSUME ChannelTame, ChanInv, Clearmode \/ \E b \in Bans, add \in BOOLEAN : Ban(b, add)
  PROVE  ChanInv'
<1>1. net # NULL /\ net \in Nets /\ net.mem \in Mems /\ net.keep \in BOOLEAN /\ net.bans \in SUBSET Bans /\ net.ts \in Nat /\ Live(net)
  <2>1. net # NULL
    BY Zenon DEF Clearmode, Ban
  <2> QED BY <2>1, Fields DEF ChanInv, NetOk
<1>2. PICK f \in Mems, bs \in SUBSET Bans :
        /\ DOMAIN f = DOMAIN net.mem /\ net' = [net EXCEPT !.mem = f, !.bans = bs]
        /\ linked /\ chan # NULL /\ chan \in Ours /\ chan.mem = net.mem /\ chan.bans = net.bans => chan' = [chan EXCEPT !.mem = f, !.bans = bs]
  <2>1. CASE Clearmode
    <3> DEFINE f == [m \in DOMAIN net.mem |-> {}]
    <3>1. f \in Mems /\ DOMAIN f = DOMAIN net.mem
      BY <1>1, PlainMem
    <3>2. net' = [net EXCEPT !.mem = f, !.bans = {}]
      BY <2>1 DEF Clearmode
    <3>3. linked /\ chan.mem = net.mem => chan' = [chan EXCEPT !.mem = f, !.bans = {}]
      BY <2>1 DEF Clearmode, Hears
    <3> HIDE DEF f
    <3>4. PICK bs \in SUBSET Bans : bs = {}
      BY Zenon
    <3>5. net' = [net EXCEPT !.mem = f, !.bans = bs]
      BY <3>2, <3>4
    <3>6. linked /\ chan # NULL /\ chan \in Ours /\ chan.mem = net.mem /\ chan.bans = net.bans => chan' = [chan EXCEPT !.mem = f, !.bans = bs]
      BY <3>3, <3>4
    <3> QED BY <3>1, <3>5, <3>6, Zenon
  <2>2. ASSUME NEW b \in Bans, NEW add \in BOOLEAN, Ban(b, add)
        PROVE  \E f \in Mems, bs \in SUBSET Bans :
                 /\ DOMAIN f = DOMAIN net.mem /\ net' = [net EXCEPT !.mem = f, !.bans = bs]
                 /\ linked /\ chan # NULL /\ chan \in Ours /\ chan.mem = net.mem /\ chan.bans = net.bans => chan' = [chan EXCEPT !.mem = f, !.bans = bs]
    <3> DEFINE bs == IF add THEN net.bans \cup {b} ELSE net.bans \ {b}
    <3>1. bs \in SUBSET Bans
      BY <1>1
    <3>2. net' = [net EXCEPT !.bans = bs]
      BY <2>2 DEF Ban
    <3>3. linked /\ chan.bans = net.bans => chan' = [chan EXCEPT !.bans = bs]
      BY <2>2 DEF Ban, Hears
    <3> HIDE DEF bs
    <3>4. net' = [net EXCEPT !.mem = net.mem, !.bans = bs]
      BY <1>1, <3>2, Zenon DEF Nets
    <3>5. linked /\ chan \in Ours /\ chan.mem = net.mem /\ chan.bans = net.bans => chan' = [chan EXCEPT !.mem = net.mem, !.bans = bs]
      BY <3>3, Zenon DEF Ours
    <3> QED BY <1>1, <3>1, <3>4, <3>5, Zenon
  <2> QED BY <2>1, <2>2, Zenon
<1>3. net' \in Nets /\ net'.mem = f /\ net'.keep = net.keep /\ net'.bans = bs /\ net'.ts = net.ts /\ net' # NULL
  BY <1>1, <1>2, Zenon DEF Nets, ChannelTame
<1>4. (linked => ~unbursted) /\ UNCHANGED <<unbursted, linked, bursting, split, far, kicked, now>> /\ NetOk(net, now) /\ OurOk(chan, now)
  BY Zenon DEF Clearmode, Ban, Waits, ChanInv
<1>5. NetOk(net', now)
  BY <1>1, <1>2, <1>3, <1>4 DEF NetOk, Live
<1>6. CASE ~linked
  <2>1. Aparted(chan', net') /\ OurOk(chan', now)
    BY <1>1, <1>2, <1>3, <1>4, <1>6, Zenon DEF Clearmode, Ban, Hears, ChanInv, Related, Aparted
  <2> QED BY <1>1, <1>2, <1>3, <1>4, <1>5, <1>6, <2>1 DEF ChanInv, Related
<1>7. CASE linked
  <2>1. Agree(chan, net)
    BY <1>4, <1>7 DEF ChanInv, Related
  <2>2. chan # NULL /\ chan \in Ours /\ chan.ts = net.ts /\ chan.mem = net.mem /\ chan.keep = net.keep /\ chan.bans = net.bans
    BY <1>1, <1>4, <2>1, AgreeIs
  <2>4. chan' \in Ours /\ chan'.ts = net.ts /\ chan'.mem = f /\ chan'.keep = net.keep /\ chan'.bans = bs /\ (chan'.keep <=> net.keep)
    BY <1>2, <1>7, <2>2, Zenon DEF Ours
  <2>5. DOMAIN f # {} \/ net.keep
    BY <1>1, <1>2 DEF Live
  <2>6. Agree(chan', net')
    BY <1>3, <2>4, Agreed
  <2>7. OurOk(chan', now)
    BY <1>1, <1>2, <1>3, <1>4, <2>4, <2>5 DEF OurOk, NetOk, Held
  <2> QED BY <1>1, <1>2, <1>3, <1>4, <1>5, <1>7, <2>6, <2>7 DEF ChanInv, Related
<1> QED BY <1>6, <1>7 DEF ChanInv

\* What keeps a channel changes: +z, -z and locks.
KeptOurs(c, l, k) == Emptied([c EXCEPT !.locks = l, !.keep = k])
KeptThere(n, k)   == Gone([n EXCEPT !.keep = k])
\* A change of the lock or of +z (LockChannel, UnlockChannel, mod_chanmode_apply), after which the
\* channel may go.
LEMMA OursKept ==
  ASSUME ChannelTame, NEW c \in Ours, NEW t, c.ts <= t, NEW l \in {0, 1}, NEW k \in BOOLEAN
  PROVE  /\ OurOk(KeptOurs(c, l, k), t)
         /\ KeptOurs(c, l, k) = NULL <=> DOMAIN c.mem = {} /\ ~k /\ l = 0
         /\ KeptOurs(c, l, k) # NULL =>
              /\ KeptOurs(c, l, k) \in Ours /\ KeptOurs(c, l, k).ts = c.ts /\ KeptOurs(c, l, k).mem = c.mem
              /\ KeptOurs(c, l, k).keep = k /\ KeptOurs(c, l, k).bans = c.bans /\ KeptOurs(c, l, k).locks = l
<1> DEFINE d == [c EXCEPT !.locks = l, !.keep = k]
<1>1. d \in Ours /\ d.ts = c.ts /\ d.mem = c.mem /\ d.keep = k /\ d.bans = c.bans /\ d.locks = l /\ (d.keep <=> k) /\ d # NULL
  BY Zenon DEF Ours, ChannelTame
<1>2. KeptOurs(c, l, k) = Emptied(d)
  BY DEF KeptOurs
<1> HIDE DEF d
<1>3. KeptOurs(c, l, k) = IF DOMAIN c.mem = {} /\ l = 0 /\ ~k THEN NULL ELSE d
  BY <1>1, <1>2 DEF Emptied
<1>4. ~(DOMAIN c.mem = {} /\ l = 0 /\ ~k) => Held(d)
  BY <1>1 DEF Held
<1> QED BY <1>1, <1>3, <1>4 DEF OurOk

\* A change of +z on the network's side.
LEMMA TheirsKept ==
  ASSUME ChannelTame, NEW n \in Nets, NEW t, n.ts <= t, NEW k \in BOOLEAN
  PROVE  /\ NetOk(KeptThere(n, k), t)
         /\ KeptThere(n, k) = NULL <=> DOMAIN n.mem = {} /\ ~k
         /\ KeptThere(n, k) # NULL =>
              /\ KeptThere(n, k) \in Nets /\ KeptThere(n, k).ts = n.ts /\ KeptThere(n, k).mem = n.mem
              /\ KeptThere(n, k).keep = k /\ KeptThere(n, k).bans = n.bans
<1> DEFINE d == [n EXCEPT !.keep = k]
<1>1. d \in Nets /\ d.ts = n.ts /\ d.mem = n.mem /\ d.keep = k /\ d.bans = n.bans /\ (d.keep <=> k) /\ d # NULL
  BY DEF Nets, ChannelTame
<1>2. KeptThere(n, k) = Gone(d)
  BY DEF KeptThere
<1> HIDE DEF d
<1>3. KeptThere(n, k) = IF DOMAIN n.mem = {} /\ ~k THEN NULL ELSE d
  BY <1>1, <1>2 DEF Gone
<1> QED BY <1>1, <1>3 DEF NetOk, Live

\* Both sides of a change of +z.
LEMMA KeptAlike ==
  ASSUME ChannelTame, NEW c \in Ours, NEW n \in Nets, NEW t, c.ts <= t, n.ts <= t,
         c.ts = n.ts, c.mem = n.mem, c.bans = n.bans, NEW l \in {0, 1}, NEW k \in BOOLEAN
  PROVE  Agree(KeptOurs(c, l, k), KeptThere(n, k))
<1>1. CASE KeptThere(n, k) = NULL
  BY <1>1, OursKept, TheirsKept DEF Agree
<1>2. CASE KeptThere(n, k) # NULL
  <2>1. KeptOurs(c, l, k) # NULL
    BY <1>2, OursKept, TheirsKept
  <2>2. /\ KeptOurs(c, l, k) \in Ours /\ KeptOurs(c, l, k).ts = c.ts /\ KeptOurs(c, l, k).mem = c.mem
        /\ KeptOurs(c, l, k).keep = k /\ KeptOurs(c, l, k).bans = c.bans
    BY <2>1, OursKept
  <2>3. /\ KeptThere(n, k) \in Nets /\ KeptThere(n, k).ts = n.ts /\ KeptThere(n, k).mem = n.mem
        /\ KeptThere(n, k).keep = k /\ KeptThere(n, k).bans = n.bans
    BY <1>2, TheirsKept
  <2> QED BY <2>2, <2>3, Agreed
<1> QED BY <1>1, <1>2

\* MODE +z and -z.
LEMMA RegisteredStep ==
  ASSUME ChannelTame, ChanInv, NEW add \in BOOLEAN, Registered(add)
  PROVE  ChanInv'
<1>1. net # NULL /\ net \in Nets /\ net.ts <= now /\ net.ts \in Nat
  BY Fields DEF Registered, ChanInv, NetOk
<1>2. net' = KeptThere(net, add)
  BY DEF Registered, KeptThere
<1>3. NetOk(net', now) /\ (net' # NULL => net'.mem = net.mem)
  BY <1>1, <1>2, TheirsKept
<1>4. CASE ~linked
  BY <1>1, <1>3, <1>4 DEF Registered, Hears, Unbursts, ChanInv, Related, Aparted
<1>5. CASE linked
  <2>1. Agree(chan, net) /\ OurOk(chan, now) /\ NetOk(net, now)
    BY <1>5 DEF Registered, Waits, ChanInv, Related
  <2>2. chan # NULL /\ chan \in Ours /\ chan.ts = net.ts /\ chan.mem = net.mem /\ chan.bans = net.bans
    BY <1>1, <2>1, AgreeIs
  <2>3. chan.locks \in {0, 1} /\ chan.ts <= now
    BY <1>1, <2>2, Fields
  <2>4. chan' = KeptOurs(chan, chan.locks, add)
    <3>1. [chan EXCEPT !.keep = add] = [chan EXCEPT !.locks = chan.locks, !.keep = add]
      BY <2>2, Zenon DEF Ours
    <3> QED BY <3>1, <1>5 DEF Registered, Hears, KeptOurs
  <2>5. OurOk(chan', now)
    BY <2>2, <2>3, <2>4, OursKept
  <2>6. Agree(chan', net')
    BY <1>1, <1>2, <2>2, <2>3, <2>4, KeptAlike
  <2> QED BY <1>1, <1>3, <1>5, <2>5, <2>6 DEF Registered, Waits, Unbursts, ChanInv, Related
<1> QED BY <1>4, <1>5 DEF ChanInv

\* LockChannel and UnlockChannel, for a registration and its end.
LEMMA LockSteps ==
  ASSUME ChannelTame, ChanInv, LockChannel \/ UnlockChannel
  PROVE  ChanInv'
<1>1. chan # NULL /\ chan \in Ours /\ chan.ts <= now /\ Held(chan) /\ chan.keep \in BOOLEAN /\ (linked => ~unbursted) /\ OurOk(chan, now) /\ NetOk(net, now)
      /\ now \in Nat
  <2>1. chan # NULL /\ (linked => ~unbursted)
    BY Zenon DEF LockChannel, UnlockChannel, Waits
  <2> QED BY <2>1, Fields DEF ChanInv, OurOk
<1>2. CASE LockChannel
  <2>1. PICK z \in BOOLEAN :
          /\ chan' = [chan EXCEPT !.locks = 1, !.keep = @ \/ z]
          /\ net' = IF linked THEN [net EXCEPT !.keep = @ \/ z] ELSE net
    BY <1>2, Zenon DEF LockChannel
  <2> DEFINE k == chan.keep \/ z
  <2>2. k \in BOOLEAN /\ chan' = [chan EXCEPT !.locks = 1, !.keep = k]
    BY <2>1, <1>1
  <2> HIDE DEF k
  <2>3. chan' # NULL /\ chan' \in Ours /\ chan'.locks = 1 /\ chan'.ts = chan.ts /\ chan'.mem = chan.mem
    BY <2>2, <1>1, Zenon DEF Ours, ChannelTame
  <2>4. chan' = KeptOurs(chan, 1, k)
    BY <2>2, <2>3 DEF KeptOurs, Emptied
  <2>5. OurOk(chan', now)
    BY <2>3, <1>1 DEF OurOk, Held
  <2>6. CASE ~linked
    BY <1>1, <1>2, <2>1, <2>3, <2>5, <2>6, Zenon DEF LockChannel, ChanInv, Related, Aparted
  <2>7. CASE linked
    <3>1. Agree(chan, net)
      BY <1>1, <2>7 DEF ChanInv, Related
    <3>2. net # NULL
      <4>1. chan.locks = 0
        BY <1>2, Zenon DEF LockChannel
      <4> QED BY <3>1, <1>1, <4>1 DEF Agree
    <3>3. net \in Nets /\ chan.ts = net.ts /\ chan.mem = net.mem /\ chan.bans = net.bans /\ (chan.keep <=> net.keep) /\ net.keep \in BOOLEAN /\ net.ts <= now
      BY <1>1, <3>1, <3>2, AgreeIs, Fields
    <3>4. net' = [net EXCEPT !.keep = k]
      BY <1>1, <2>1, <2>7, <3>3 DEF k
    <3>5. net' \in Nets /\ net'.mem = net.mem /\ (net'.keep <=> k) /\ net' # NULL
      BY <2>2, <3>3, <3>4 DEF Nets, ChannelTame
    <3>6. Live(net')
      BY <1>1, <3>2, <3>3, <3>5 DEF Live, NetOk, k
    <3>7. net' = KeptThere(net, k)
      BY <3>4, <3>5, <3>6 DEF KeptThere, Gone, Live
    <3>8. Agree(chan', net')
      BY <1>1, <2>2, <2>4, <3>3, <3>7, KeptAlike
    <3>9. NetOk(net', now)
      BY <2>2, <3>3, <3>7, TheirsKept
    <3> QED BY <1>1, <1>2, <2>5, <2>7, <3>2, <3>5, <3>8, <3>9, Zenon DEF LockChannel, ChanInv, Related
  <2> QED BY <2>6, <2>7 DEF ChanInv
<1>3. CASE UnlockChannel
  <2>1. chan' = KeptOurs(chan, 0, FALSE) /\ unbursted' \in BOOLEAN /\ (unbursted' => unbursted)
    BY <1>1, <1>3 DEF UnlockChannel, KeptOurs, Unbursts, ChanInv
  <2>2. OurOk(chan', now) /\ (chan' # NULL => chan'.mem = chan.mem)
    BY <1>1, <2>1, OursKept, Zenon
  <2>3. CASE ~linked
    BY <1>1, <1>3, <2>1, <2>2, <2>3, Zenon DEF UnlockChannel, ChanInv, Related, Aparted
  <2>4. CASE linked /\ net = NULL
    <3>1. DOMAIN chan.mem = {}
      BY <1>1, <2>4 DEF ChanInv, Related, Agree
    <3>2. chan' = NULL
      BY <1>1, <2>1, <3>1, OursKept, Zenon
    <3> QED BY <1>1, <1>3, <2>1, <2>2, <2>4, <3>2, Zenon DEF UnlockChannel, ChanInv, Related, Agree
  <2>5. CASE linked /\ net # NULL
    <3>1. Agree(chan, net)
      BY <1>1, <2>5 DEF ChanInv, Related
    <3>2. net \in Nets /\ chan.ts = net.ts /\ chan.mem = net.mem /\ chan.bans = net.bans /\ net.ts <= now
      BY <1>1, <2>5, <3>1, AgreeIs
    <3>3. net' = KeptThere(net, FALSE)
      BY <1>3, <2>5 DEF UnlockChannel, KeptThere
    <3>4. NetOk(net', now) /\ (net' # NULL => net'.mem = net.mem)
      BY <3>2, <3>3, TheirsKept, Zenon
    <3>5. Agree(chan', net')
      BY <1>1, <2>1, <3>2, <3>3, KeptAlike, Zenon
    <3> QED BY <1>1, <1>3, <2>1, <2>2, <2>5, <3>4, <3>5, Zenon DEF UnlockChannel, ChanInv, Related
  <2> QED BY <2>3, <2>4, <2>5 DEF ChanInv
<1> QED BY <1>2, <1>3

\* mod_chanmode_announce.
LEMMA ServiceModesStep ==
  ASSUME ChannelTame, ChanInv, NEW u \in Members, NEW fl \in Flags, NEW add \in BOOLEAN, ServiceModes(u, fl, add)
  PROVE  ChanInv'
<1> DEFINE f == Flagged(chan.mem, u, fl, add)
<1>1. /\ chan # NULL /\ chan \in Ours /\ chan.mem \in Mems /\ chan.ts <= now /\ u \in DOMAIN chan.mem
      /\ (linked => ~unbursted) /\ NetOk(net, now) /\ OurOk(chan, now)
  <2>1. chan # NULL /\ (linked => ~unbursted) /\ u \in DOMAIN chan.mem
    BY DEF ServiceModes, Waits
  <2> QED BY <2>1, Fields DEF ChanInv, OurOk
<1>2. f \in Mems /\ DOMAIN f = DOMAIN chan.mem
  BY <1>1, FlaggedMem
<1>3. chan' = [chan EXCEPT !.mem = f]
  BY DEF ServiceModes
<1> HIDE DEF f
<1>4. chan' \in Ours /\ chan'.mem = f /\ chan'.ts = chan.ts /\ chan'.keep = chan.keep /\ chan'.bans = chan.bans /\ chan' # NULL
  BY <1>1, <1>2, <1>3 DEF Ours, ChannelTame
<1>5. OurOk(chan', now)
  BY <1>1, <1>2, <1>4 DEF OurOk, Held
<1>6. CASE ~linked
  BY <1>1, <1>2, <1>4, <1>5, <1>6 DEF ServiceModes, ChanInv, Related, Aparted
<1>7. CASE linked
  <2>1. Agree(chan, net)
    BY <1>1, <1>7 DEF ChanInv, Related
  <2>2. net # NULL
    BY <1>1, <2>1 DEF Agree
  <2>3. net \in Nets /\ chan.ts = net.ts /\ chan.mem = net.mem /\ chan.keep = net.keep /\ chan.bans = net.bans
    BY <1>1, <2>1, <2>2, AgreeIs
  <2>4. net' = [net EXCEPT !.mem = f]
    BY <1>7, <2>3 DEF ServiceModes, f
  <2>5. net' \in Nets /\ net'.mem = f /\ net'.ts = net.ts /\ net'.keep = net.keep /\ net'.bans = net.bans /\ net' # NULL
    BY <1>2, <2>3, <2>4 DEF Nets, ChannelTame
  <2>6. Agree(chan', net')
    BY <1>4, <2>3, <2>5, Agreed
  <2>7. NetOk(net', now)
    BY <1>1, <1>2, <2>2, <2>3, <2>5 DEF NetOk, Live
  <2> QED BY <1>1, <1>2, <1>5, <1>7, <2>2, <2>3, <2>5, <2>6, <2>7 DEF ServiceModes, ChanInv, Related
<1> QED BY <1>6, <1>7 DEF ChanInv

\* A service joins, or makes a channel.
LEMMA ServiceJoinsStep ==
  ASSUME ChannelTame, ChanInv, ServiceJoins
  PROVE  ChanInv'
<1> DEFINE J == Joined(chan, X, now)
<1>1. /\ X \in Members /\ now \in Nat /\ OurOk(chan, now) /\ NetOk(net, now) /\ chan' = J
      /\ UNCHANGED <<unbursted, linked, bursting, split, far, kicked, now>> /\ X \notin Leaf
  BY DEF Members, ChannelTame, ChanInv, ServiceJoins
<1>2. chan # NULL =>
        /\ J \in Ours /\ OurOk(J, now) /\ J # NULL /\ J.ts = chan.ts /\ J.keep = chan.keep /\ J.bans = chan.bans
        /\ J.locks = chan.locks /\ J.mem = With(chan.mem, X, FirstOp(chan)) /\ DOMAIN J.mem = DOMAIN chan.mem \cup {X}
  <2>1. chan # NULL => chan \in Ours /\ chan.ts <= now /\ X \notin DOMAIN chan.mem /\ J = AddChannelUser(chan, X)
    BY <1>1 DEF ServiceJoins, OurOk, Joined
  <2> QED BY <1>1, <2>1, OneMore
<1>3. chan = NULL =>
        /\ J \in Ours /\ OurOk(J, now) /\ J # NULL /\ J.ts = now /\ J.mem = With(None, X, {"o"}) /\ DOMAIN J.mem = {X}
  <2> DEFINE c == Fresh(now, None, FALSE, {})
  <2>1. /\ c \in Ours /\ c.ts = now /\ c.mem = None /\ ~c.keep /\ c.keep = FALSE /\ c.bans = {} /\ c.locks = 0
        /\ DOMAIN c.mem = {} /\ FirstOp(c) = {"o"}
    BY <1>1, NewChannel, Zenon
  <2>2. chan = NULL => J = AddChannelUser(c, X)
    BY DEF Joined
  <2> HIDE DEF c
  <2>3. c.ts <= now /\ X \notin DOMAIN c.mem
    BY <2>1, <1>1
  <2> DEFINE d == AddChannelUser(c, X)
  <2>4. d \in Ours /\ OurOk(d, now) /\ d # NULL /\ d.ts = c.ts /\ d.mem = With(c.mem, X, FirstOp(c)) /\ DOMAIN d.mem = DOMAIN c.mem \cup {X}
    BY <2>1, <2>3, <1>1, OneMore, Zenon
  <2> HIDE DEF d
  <2>5. chan = NULL => J = d
    BY <2>2 DEF d
  <2> QED BY <2>1, <2>4, <2>5
<1> HIDE DEF J
<1>4. CASE ~linked
  <2>1. net' = net /\ Aparted(chan, net)
    BY <1>1, <1>4 DEF ServiceJoins, ChanInv, Related
  <2>2. Aparted(chan', net')
    BY <1>1, <1>2, <1>3, <2>1 DEF Aparted
  <2> QED BY <1>1, <1>2, <1>3, <1>4, <2>1, <2>2 DEF ChanInv, Related
<1>5. CASE linked /\ chan = NULL
  <2>1. net = NULL /\ net' = OnNet(J) /\ ~unbursted
    BY <1>1, <1>5 DEF ServiceJoins, ChanInv, Related, Pending
  <2>2. net' \in Nets /\ net'.ts = now /\ net'.mem = J.mem /\ net' # NULL
    BY <1>3, <1>5, <2>1, OnNetIs DEF ChannelTame
  <2>3. NetOk(net', now) /\ DOMAIN net'.mem = {X}
    BY <1>1, <1>3, <1>5, <2>2 DEF NetOk, Live
  <2>4. Agree(chan', net')
    BY <1>1, <1>3, <1>5, <2>1, <2>2 DEF Agree
  <2> QED BY <1>1, <1>3, <1>5, <2>1, <2>3, <2>4 DEF ChanInv, Related
<1>6. CASE linked /\ chan # NULL
  <2>1. DOMAIN chan.mem # {} /\ X \notin DOMAIN chan.mem
    BY <1>6 DEF ServiceJoins
  <2>2. Agree(chan, net) \/ Pending(chan, net, now)
    BY <1>6 DEF ChanInv, Related
  <2>3. net # NULL /\ net \in Nets /\ net.ts <= now
    BY <1>1, <1>6, <2>1, <2>2 DEF Agree, Pending, NetOk
  <2>4. net' = MoreThere(net, X, {}) /\ {} \in SUBSET Flags
    BY <1>6, <2>3 DEF ServiceJoins, MoreThere
  <2>5. /\ net' \in Nets /\ NetOk(net', now) /\ net' # NULL
        /\ net'.ts = net.ts /\ net'.keep = net.keep /\ net'.bans = net.bans /\ net'.mem = With(net.mem, X, {})
        /\ DOMAIN net'.mem = DOMAIN net.mem \cup {X}
    BY <1>1, <2>3, <2>4, OneMoreThere
  <2>6. FirstOp(chan) = {}
    BY <2>1 DEF FirstOp
  <2>7. Agree(chan, net) => Agree(J, net')
    <3>1. Agree(chan, net) => chan.ts = net.ts /\ chan.mem = net.mem /\ chan.keep = net.keep /\ chan.bans = net.bans
      BY <1>1, <2>3, AgreeIs
    <3> QED BY <3>1, <1>2, <1>6, <2>5, <2>6, Agreed
  <2>8. Pending(chan, net, now) => Pending(J, net', now)
    BY <1>2, <1>6, <2>3, <2>5 DEF Pending
  <2> QED BY <1>1, <1>2, <1>6, <2>3, <2>5, <2>7, <2>8 DEF ChanInv, Related
<1> QED BY <1>4, <1>5, <1>6 DEF ChanInv

\* The link goes: whoever was on the network is gone for services, and they for it.
LEMMA LinkLostStep ==
  ASSUME ChannelTame, ChanInv, LinkLost
  PROVE  ChanInv'
<1> DEFINE d == DelChannelUsers(chan, Users)
           m == LeftThere(net, {X})
<1>1. chan' = d /\ net' = m /\ ~linked' /\ unbursted' \in BOOLEAN /\ ~bursting' /\ linked' \in BOOLEAN /\ bursting' \in BOOLEAN /\ kicked' = {} /\ UNCHANGED <<split, far, now>>
  BY Zenon DEF LinkLost, LeftThere, Unbursts, ChanInv
<1> HIDE DEF d, m
<1>2. now \in Nat /\ OurOk(chan, now) /\ NetOk(net, now)
  BY DEF ChanInv
<1>3. OurOk(d, now) /\ (d # NULL => DOMAIN d.mem \subseteq {X})
  <2>1. CASE chan = NULL
    BY <2>1, <1>2 DEF d, DelChannelUsers
  <2>2. CASE chan # NULL
    <3>1. chan \in Ours /\ chan.ts <= now /\ Held(chan)
      BY <1>2, <2>2 DEF OurOk
    <3>2. OurOk(d, now) /\ (d # NULL => d = [chan EXCEPT !.mem = Sans(chan.mem, Users)])
      BY <3>1, OursGo DEF d
    <3>3. chan.mem \in Mems /\ DOMAIN chan.mem \subseteq Members
      <4>1. chan.mem \in Mems
        BY <3>1, Fields
      <4> QED BY <4>1, MemIs
    <3>4. d # NULL => d.mem = Sans(chan.mem, Users)
      BY <3>1, <3>2 DEF Ours
    <3>5. DOMAIN Sans(chan.mem, Users) = DOMAIN chan.mem \ Users
      BY <3>3, SansMem, Zenon
    <3> QED BY <3>2, <3>3, <3>4, <3>5 DEF Members
  <2> QED BY <2>1, <2>2
<1>4. NetOk(m, now) /\ (m # NULL => net # NULL /\ DOMAIN m.mem = DOMAIN net.mem \ {X})
  <2>1. CASE net = NULL
    BY <2>1, <1>2 DEF m, LeftThere
  <2>2. CASE net # NULL
    <3>1. net \in Nets /\ net.ts <= now
      BY <1>2, <2>2 DEF NetOk
    <3>2. m = Gone([net EXCEPT !.mem = Sans(@, {X})])
      BY <2>2 DEF m, LeftThere
    <3>3. NetOk(m, now) /\ (m # NULL => m = [net EXCEPT !.mem = Sans(net.mem, {X})])
      BY <3>1, <3>2, TheirsGo
    <3>4. m # NULL => m.mem = Sans(net.mem, {X})
      BY <3>1, <3>3 DEF Nets
    <3>5. net.mem \in Mems
      BY <3>1, Fields
    <3>6. DOMAIN Sans(net.mem, {X}) = DOMAIN net.mem \ {X}
      BY <3>5, SansMem, Zenon
    <3> QED BY <2>2, <3>3, <3>4, <3>6
  <2> QED BY <2>1, <2>2
<1>5. Aparted(d, m)
  BY <1>3, <1>4 DEF Aparted
<1>6. split /\ m # NULL => DOMAIN m.mem \cap Leaf = {}
  BY <1>4 DEF ChanInv
<1> QED BY <1>1, <1>2, <1>3, <1>4, <1>5, <1>6 DEF ChanInv, Related

\* A burst adds its members: BurstIn, for channels without a member in common.
LEMMA BurstIs ==
  ASSUME ChannelTame, NEW c \in Ours, NEW b \in Nets, DOMAIN c.mem \cap DOMAIN b.mem = {}
  PROVE  LET d == BurstIn(c, b)
             k == Aged(c, b)
         IN  /\ d \in Ours /\ d.ts = k.ts /\ d.keep = k.keep /\ d.bans = k.bans /\ d.locks = c.locks
             /\ DOMAIN d.mem = DOMAIN c.mem \cup DOMAIN b.mem
             /\ \A m \in DOMAIN c.mem : d.mem[m] = c.mem[m]
             /\ \A m \in DOMAIN b.mem : d.mem[m] = IF c.ts < b.ts THEN {} ELSE b.mem[m]
             /\ c.ts < b.ts => k = c
             /\ c.ts = b.ts => k.ts = c.ts /\ k.keep = (c.keep \/ b.keep) /\ k.bans = c.bans \cup b.bans
             /\ c.ts > b.ts => k.ts = b.ts /\ k.keep = (b.keep \/ (Reops(c) /\ c.keep)) /\ k.bans = b.bans
<1> DEFINE k == Aged(c, b)
           f == [m \in DOMAIN c.mem \cup DOMAIN b.mem |->
                   IF m \in DOMAIN b.mem THEN IF c.ts < b.ts THEN {} ELSE b.mem[m] ELSE c.mem[m]]
           d == [k EXCEPT !.mem = f]
<1>1. /\ c.ts \in Nat /\ c.mem \in Mems /\ c.keep \in BOOLEAN /\ c.bans \in SUBSET Bans /\ c.locks \in {0, 1} /\ c # NULL
      /\ b.ts \in Nat /\ b.mem \in Mems /\ b.keep \in BOOLEAN /\ b.bans \in SUBSET Bans
  BY Fields DEF ChannelTame
<1>2. /\ DOMAIN c.mem \subseteq Members /\ (\A m \in DOMAIN c.mem : c.mem[m] \subseteq Flags)
      /\ DOMAIN b.mem \subseteq Members /\ (\A m \in DOMAIN b.mem : b.mem[m] \subseteq Flags)
  BY <1>1, MemIs
<1>3. f \in Mems
  <2>1. f \in [DOMAIN c.mem \cup DOMAIN b.mem -> SUBSET Flags]
    BY <1>2
  <2> QED BY <2>1, <1>2, MemIs
<1>4. /\ k \in Ours /\ k.mem = c.mem /\ k.locks = c.locks
      /\ c.ts < b.ts => k = c
      /\ c.ts = b.ts => k.ts = c.ts /\ k.keep = (c.keep \/ b.keep) /\ k.bans = c.bans \cup b.bans
      /\ c.ts > b.ts => k.ts = b.ts /\ k.keep = (b.keep \/ (Reops(c) /\ c.keep)) /\ k.bans = b.bans
  <2>1. CASE c.ts < b.ts
    BY <1>1, <2>1 DEF Aged
  <2>2. CASE c.ts = b.ts
    <3> DEFINE x == c.keep \/ b.keep
               y == c.bans \cup b.bans
    <3>1. x \in BOOLEAN /\ y \in SUBSET Bans /\ k = [c EXCEPT !.keep = x, !.bans = y]
      BY <1>1, <2>2 DEF Aged
    <3> HIDE DEF x, y, k
    <3>2. k \in Ours /\ k.mem = c.mem /\ k.locks = c.locks /\ k.ts = c.ts /\ k.keep = x /\ k.bans = y
      BY <3>1, Zenon DEF Ours
    <3> QED BY <1>1, <2>2, <3>2 DEF x, y
  <2>3. CASE c.ts > b.ts
    <3> DEFINE x == b.keep \/ (Reops(c) /\ c.keep)
               w == WipeoutChannel(c, b)
    <3>1. x \in BOOLEAN /\ w = [c EXCEPT !.ts = b.ts, !.keep = x, !.bans = {}]
      BY <1>1 DEF WipeoutChannel, Reops
    <3>2. k = [w EXCEPT !.bans = b.bans]
      BY <1>1, <2>3 DEF Aged
    <3> HIDE DEF x, w, k
    <3>3. w \in Ours /\ w.mem = c.mem /\ w.locks = c.locks /\ w.ts = b.ts /\ w.keep = x
      BY <1>1, <3>1, Zenon DEF Ours
    <3>4. k \in Ours /\ k.mem = c.mem /\ k.locks = c.locks /\ k.ts = b.ts /\ k.keep = x /\ k.bans = b.bans
      BY <1>1, <3>2, <3>3 DEF Ours
    <3> QED BY <1>1, <2>3, <3>4 DEF x
  <2> QED BY <1>1, <2>1, <2>2, <2>3
<1>5. BurstIn(c, b) = d
  <2> HIDE DEF k
  <2>1. BurstIn(c, b) = [k EXCEPT !.mem = [m \in DOMAIN k.mem \cup DOMAIN b.mem |->
                          IF m \in DOMAIN b.mem THEN IF c # NULL /\ c.ts < b.ts THEN {} ELSE b.mem[m] ELSE k.mem[m]]]
    BY DEF BurstIn, k
  <2> QED BY <1>1, <1>4, <2>1
<1> HIDE DEF k
<1>6. DOMAIN f = DOMAIN c.mem \cup DOMAIN b.mem /\ (\A m \in DOMAIN c.mem : f[m] = c.mem[m])
      /\ \A m \in DOMAIN b.mem : f[m] = IF c.ts < b.ts THEN {} ELSE b.mem[m]
  OBVIOUS
<1> HIDE DEF f
<1>7. d \in Ours /\ d.ts = k.ts /\ d.keep = k.keep /\ d.bans = k.bans /\ d.locks = c.locks /\ d.mem = f
  BY <1>3, <1>4 DEF Ours
<1> HIDE DEF d
<1> QED BY <1>4, <1>5, <1>6, <1>7 DEF k

\* A burst of a channel that services have not.
LEMMA BurstNew ==
  ASSUME ChannelTame, NEW b \in Nets
  PROVE  LET d == BurstIn(NULL, b)
         IN  d \in Ours /\ d.ts = b.ts /\ d.mem = b.mem /\ d.keep = b.keep /\ d.bans = b.bans /\ d.locks = 0
<1> DEFINE k == Fresh(b.ts, None, b.keep, b.bans)
           f == [m \in DOMAIN None \cup DOMAIN b.mem |-> IF m \in DOMAIN b.mem THEN b.mem[m] ELSE None[m]]
           d == [k EXCEPT !.mem = f]
<1>1. b.ts \in Nat /\ b.mem \in Mems /\ b.keep \in BOOLEAN /\ b.bans \in SUBSET Bans /\ DOMAIN None = {} /\ None \in Mems
  BY Fields, NoMem
<1>2. k \in Ours /\ k.ts = b.ts /\ k.mem = None /\ k.keep = b.keep /\ k.bans = b.bans /\ k.locks = 0
  BY <1>1 DEF Fresh, Ours
<1>3. f = b.mem
  BY <1>1, MemIs
<1>4. BurstIn(NULL, b) = d
  BY <1>2 DEF BurstIn, Aged
<1> HIDE DEF k, f
<1>5. d \in Ours /\ d.ts = b.ts /\ d.mem = b.mem /\ d.keep = b.keep /\ d.bans = b.bans /\ d.locks = 0
  BY <1>1, <1>2, <1>3 DEF Ours
<1> QED BY <1>4, <1>5

\* Two channels of the network meet that have no member in common.
LEMMA MeetIs ==
  ASSUME ChannelTame, NEW a \in Nets, NEW b \in Nets, Live(a), Live(b) \/ a.ts <= b.ts, DOMAIN a.mem \cap DOMAIN b.mem = {}
  PROVE  LET d == Meet(a, b)
         IN  /\ d \in Nets /\ DOMAIN d.mem = DOMAIN a.mem \cup DOMAIN b.mem /\ Live(d)
             /\ d.ts = IF a.ts <= b.ts THEN a.ts ELSE b.ts
             /\ d.keep = ((a.ts <= b.ts /\ a.keep) \/ (b.ts <= a.ts /\ b.keep))
             /\ d.bans = (IF a.ts <= b.ts THEN a.bans ELSE {}) \cup (IF b.ts <= a.ts THEN b.bans ELSE {})
             /\ \A m \in DOMAIN a.mem : d.mem[m] = IF a.ts <= b.ts THEN a.mem[m] ELSE {}
             /\ \A m \in DOMAIN b.mem : d.mem[m] = IF b.ts <= a.ts THEN b.mem[m] ELSE {}
<1> DEFINE ts == IF a.ts <= b.ts THEN a.ts ELSE b.ts
           x  == IF a.ts = ts THEN a ELSE Younger(a, ts)
           y  == IF b.ts = ts THEN b ELSE Younger(b, ts)
           f  == [m \in DOMAIN x.mem \cup DOMAIN y.mem |->
                      IF m \in DOMAIN x.mem /\ m \in DOMAIN y.mem THEN x.mem[m] \cup y.mem[m]
                      ELSE IF m \in DOMAIN x.mem THEN x.mem[m] ELSE y.mem[m]]
           k  == x.keep \/ y.keep
           bs == x.bans \cup y.bans
           d  == [ts |-> ts, keep |-> k, bans |-> bs, mem |-> f]
<1>1. /\ a.ts \in Nat /\ a.mem \in Mems /\ a.keep \in BOOLEAN /\ a.bans \in SUBSET Bans
      /\ b.ts \in Nat /\ b.mem \in Mems /\ b.keep \in BOOLEAN /\ b.bans \in SUBSET Bans
      /\ a # NULL /\ b # NULL
  BY Fields DEF ChannelTame
<1>2. Meet(a, b) = d
  BY <1>1 DEF Meet
<1>3. ASSUME NEW n \in Nets, NEW t \in Nat
      PROVE  Younger(n, t) \in Nets /\ DOMAIN Younger(n, t).mem = DOMAIN n.mem /\ Younger(n, t).keep = FALSE /\ ~Younger(n, t).keep
             /\ Younger(n, t).bans = {} /\ \A m \in DOMAIN n.mem : Younger(n, t).mem[m] = {}
  <2> DEFINE g == [m \in DOMAIN n.mem |-> {}]
  <2>1. g \in Mems /\ DOMAIN g = DOMAIN n.mem /\ \A m \in DOMAIN n.mem : g[m] = {}
    BY Fields, PlainMem
  <2> HIDE DEF g
  <2>2. Younger(n, t) = [ts |-> t, mem |-> g, keep |-> FALSE, bans |-> {}]
    BY DEF Younger, g
  <2> QED BY <2>1, <2>2 DEF Nets
<1>4. ts \in Nat /\ (a.ts = ts <=> a.ts <= b.ts) /\ (b.ts = ts <=> b.ts <= a.ts)
  BY <1>1
<1>5. x \in Nets /\ DOMAIN x.mem = DOMAIN a.mem /\ (x.keep <=> a.ts <= b.ts /\ a.keep) /\ x.keep \in BOOLEAN
      /\ x.bans = (IF a.ts <= b.ts THEN a.bans ELSE {}) /\ \A m \in DOMAIN a.mem : x.mem[m] = IF a.ts <= b.ts THEN a.mem[m] ELSE {}
  <2> HIDE DEF ts
  <2> QED BY <1>1, <1>3, <1>4, Zenon
<1>6. y \in Nets /\ DOMAIN y.mem = DOMAIN b.mem /\ (y.keep <=> b.ts <= a.ts /\ b.keep) /\ y.keep \in BOOLEAN
      /\ y.bans = (IF b.ts <= a.ts THEN b.bans ELSE {}) /\ \A m \in DOMAIN b.mem : y.mem[m] = IF b.ts <= a.ts THEN b.mem[m] ELSE {}
  <2> HIDE DEF ts
  <2> QED BY <1>1, <1>3, <1>4, Zenon
<1> HIDE DEF x, y
<1>7. DOMAIN f = DOMAIN a.mem \cup DOMAIN b.mem /\ (\A m \in DOMAIN a.mem : f[m] = x.mem[m]) /\ \A m \in DOMAIN b.mem : f[m] = y.mem[m]
  BY <1>5, <1>6
<1>8. f \in Mems
  <2>1. /\ DOMAIN x.mem \subseteq Members /\ (\A m \in DOMAIN x.mem : x.mem[m] \subseteq Flags)
        /\ DOMAIN y.mem \subseteq Members /\ (\A m \in DOMAIN y.mem : y.mem[m] \subseteq Flags)
    BY <1>5, <1>6, Fields, MemIs
  <2>2. f \in [DOMAIN x.mem \cup DOMAIN y.mem -> SUBSET Flags]
    BY <2>1
  <2> QED BY <2>1, <2>2, MemIs
<1>9. k \in BOOLEAN /\ (k <=> (a.ts <= b.ts /\ a.keep) \/ (b.ts <= a.ts /\ b.keep))
  BY <1>5, <1>6
<1>10. bs \in SUBSET Bans /\ bs = (IF a.ts <= b.ts THEN a.bans ELSE {}) \cup (IF b.ts <= a.ts THEN b.bans ELSE {})
  BY <1>1, <1>5, <1>6
<1> HIDE DEF f, k, bs
<1>11. d \in Nets /\ d.ts = ts /\ d.keep = k /\ (d.keep <=> k) /\ d.bans = bs /\ d.mem = f
  BY <1>4, <1>8, <1>9, <1>10 DEF Nets
<1>12. DOMAIN f # {} \/ k
  BY <1>1, <1>4, <1>7, <1>9 DEF Live
<1>13. Live(d)
  BY <1>11, <1>12 DEF Live
<1> HIDE DEF d
<1> QED BY <1>1, <1>2, <1>5, <1>6, <1>7, <1>9, <1>10, <1>11, <1>13

\* An older channel that has every member of the younger one is what both become.
LEMMA MeetOlder ==
  ASSUME ChannelTame, NEW a \in Nets, NEW b \in Nets, b.ts < a.ts, DOMAIN a.mem \subseteq DOMAIN b.mem
  PROVE  Meet(a, b) = b
<1> DEFINE ts == IF a.ts <= b.ts THEN a.ts ELSE b.ts
           x  == IF a.ts = ts THEN a ELSE Younger(a, ts)
           y  == IF b.ts = ts THEN b ELSE Younger(b, ts)
           f  == [m \in DOMAIN x.mem \cup DOMAIN y.mem |->
                      IF m \in DOMAIN x.mem /\ m \in DOMAIN y.mem THEN x.mem[m] \cup y.mem[m]
                      ELSE IF m \in DOMAIN x.mem THEN x.mem[m] ELSE y.mem[m]]
           k  == x.keep \/ y.keep
           bs == x.bans \cup y.bans
           d  == [ts |-> ts, keep |-> k, bans |-> bs, mem |-> f]
<1>1. /\ a.ts \in Nat /\ a.mem \in Mems /\ a # NULL /\ b # NULL
      /\ b.ts \in Nat /\ b.mem \in Mems /\ b.keep \in BOOLEAN /\ b.bans \in SUBSET Bans
  BY Fields DEF ChannelTame
<1>2. Meet(a, b) = d
  BY <1>1 DEF Meet
<1>3. ts = b.ts /\ y = b /\ DOMAIN x.mem = DOMAIN a.mem /\ ~x.keep /\ x.bans = {} /\ \A m \in DOMAIN a.mem : x.mem[m] = {}
  <2>1. ts = b.ts /\ x = Younger(a, b.ts) /\ y = b
    BY <1>1
  <2> HIDE DEF ts, x, y
  <2> QED BY <2>1 DEF Younger
<1> HIDE DEF ts, x, y
<1>4. f = b.mem
  <2>1. f = [m \in DOMAIN b.mem |-> b.mem[m]]
    BY <1>3
  <2> QED BY <2>1, <1>1, MemIs, Zenon
<1>5. k = b.keep /\ bs = b.bans
  BY <1>1, <1>3
<1> HIDE DEF f, k, bs
<1>6. d = b
  BY <1>3, <1>4, <1>5 DEF Nets
<1> QED BY <1>2, <1>6

\* END_OF_BURST: what the uplink has not heard of yet is sent.
LEMMA EobStep ==
  ASSUME ChannelTame, ChanInv, Eob
  PROVE  ChanInv'
<1>1. /\ linked /\ linked' /\ ~unbursted' /\ ~bursting' /\ UNCHANGED <<chan, linked, split, far, kicked, now>>
      /\ net' = IF unbursted THEN BurstOut(net, chan) ELSE net
      /\ now \in Nat /\ OurOk(chan, now) /\ NetOk(net, now) /\ unbursted' \in BOOLEAN /\ bursting' \in BOOLEAN
  BY Zenon DEF Eob, ChanInv
<1>2. CASE ~unbursted
  BY <1>1, <1>2 DEF ChanInv, Related
<1>3. CASE unbursted
  <2> DEFINE b == OnNet(chan)
  <2>1. Pending(chan, net, now) /\ chan # NULL /\ chan \in Ours /\ Held(chan) /\ chan.ts <= now
    BY <1>1, <1>3 DEF ChanInv, Related, Pending, OurOk
  <2>2. b \in Nets /\ b # NULL /\ b.ts = chan.ts /\ b.mem = chan.mem /\ b.keep = chan.keep /\ (b.keep <=> chan.keep)
    BY <2>1, OnNetIs DEF ChannelTame
  <2>3. Meet(net, b) = b
    <3>1. CASE net = NULL
      BY <3>1 DEF Meet
    <3>2. CASE net # NULL
      BY <3>2, <1>1, <2>1, <2>2, MeetOlder DEF Pending, NetOk
    <3> QED BY <3>1, <3>2
  <2>4. net' = Gone(b)
    BY <1>1, <1>3, <2>3 DEF BurstOut
  <2>5. DOMAIN chan.mem \cap Leaf = {} \/ ~split
    <3>1. CASE net = NULL
      BY <3>1, <2>1 DEF Pending, ChannelTame
    <3>2. CASE net # NULL
      BY <3>2, <2>1 DEF Pending, ChannelTame, ChanInv
    <3> QED BY <3>1, <3>2
  <2>6. CASE DOMAIN chan.mem = {} /\ ~chan.keep
    <3>1. net' = NULL
      BY <2>2, <2>4, <2>6 DEF Gone
    <3>2. chan.locks = 1
      BY <2>1, <2>6 DEF Held
    <3> QED BY <1>1, <1>3, <2>6, <3>1, <3>2 DEF ChanInv, Related, Agree, NetOk
  <2>7. CASE ~(DOMAIN chan.mem = {} /\ ~chan.keep)
    <3>1. net' = b
      BY <2>2, <2>4, <2>7 DEF Gone
    <3>2. NetOk(net', now)
      BY <2>1, <2>2, <2>7, <3>1 DEF NetOk, Live
    <3>3. Agree(chan', net')
      BY <1>1, <2>1, <2>2, <3>1 DEF Agree
    <3> QED BY <1>1, <1>3, <2>2, <2>5, <3>1, <3>2, <3>3 DEF ChanInv, Related
  <2> QED BY <2>6, <2>7
<1> QED BY <1>2, <1>3 DEF ChanInv

\* The link comes up, and both sides burst what they have.
LEMMA LinkUpStep ==
  ASSUME ChannelTame, ChanInv, LinkUp
  PROVE  ChanInv'
<1>1. /\ ~linked /\ linked' /\ bursting' /\ linked' \in BOOLEAN /\ bursting' \in BOOLEAN /\ now \in Nat /\ now' = now + 1 /\ UNCHANGED <<split, far, kicked>>
      /\ OurOk(chan, now) /\ NetOk(net, now) /\ Aparted(chan, net) /\ kicked = {}
  BY DEF LinkUp, ChanInv, Related
<1>2. \A c, n : OurOk(c, now) /\ NetOk(n, now) => OurOk(c, now') /\ NetOk(n, now')
  <2> SUFFICES ASSUME NEW c, NEW n, OurOk(c, now), NetOk(n, now) PROVE OurOk(c, now') /\ NetOk(n, now')
    OBVIOUS
  <2>1. (c # NULL => c.ts \in Nat) /\ (n # NULL => n.ts \in Nat)
    BY Fields DEF OurOk, NetOk
  <2> QED BY <2>1, <1>1 DEF OurOk, NetOk
<1>3. NetOk(far, now)' /\ FarOk(far)' /\ now' \in Nat /\ split' \in BOOLEAN /\ kicked' \subseteq Users /\ kicked' = {}
  <2>1. NetOk(far, now') /\ FarOk(far)
    BY <1>1, <1>2 DEF ChanInv
  <2> QED BY <1>1, <2>1 DEF ChanInv
<1>4. CASE chan # NULL /\ net # NULL
  <2> DEFINE c == [chan EXCEPT !.ts = net.ts]
             b == OnNet(c)
             d == BurstIn(c, net)
             m == Meet(net, b)
  <2>1. chan' = d /\ net' = m /\ unbursted' = FALSE
    BY <1>4 DEF LinkUp
  <2>2. net \in Nets /\ Live(net) /\ net.ts <= now /\ chan \in Ours
    BY <1>1, <1>4 DEF OurOk, NetOk
  <2>3. net.ts \in Nat /\ net.mem \in Mems /\ net.bans \in SUBSET Bans /\ net.keep \in BOOLEAN
    BY <2>2, Fields
  <2>4. c \in Ours /\ c.ts = net.ts /\ c.mem = chan.mem /\ c # NULL
    BY <2>2, <2>3 DEF Ours, ChannelTame
  <2> HIDE DEF c
  <2>5. b \in Nets /\ b.ts = c.ts /\ b.mem = c.mem /\ b.keep = c.keep /\ (b.keep <=> c.keep) /\ b.bans = c.bans
    BY <2>4, OnNetIs
  <2> HIDE DEF b
  <2>6. DOMAIN c.mem \cap DOMAIN net.mem = {}
    BY <1>1, <1>4, <2>4 DEF Aparted
  <2>7. /\ d \in Ours /\ d.ts = net.ts /\ (d.keep <=> c.keep \/ net.keep) /\ d.keep \in BOOLEAN /\ d.bans = c.bans \cup net.bans
        /\ DOMAIN d.mem = DOMAIN c.mem \cup DOMAIN net.mem
        /\ \A x \in DOMAIN c.mem : d.mem[x] = c.mem[x]
        /\ \A x \in DOMAIN net.mem : d.mem[x] = net.mem[x]
    BY <2>2, <2>3, <2>4, <2>6, BurstIs, Fields
  <2>8. /\ m \in Nets /\ m.ts = net.ts /\ (m.keep <=> c.keep \/ net.keep) /\ m.keep \in BOOLEAN /\ m.bans = c.bans \cup net.bans /\ Live(m)
        /\ DOMAIN m.mem = DOMAIN c.mem \cup DOMAIN net.mem
        /\ \A x \in DOMAIN c.mem : m.mem[x] = c.mem[x]
        /\ \A x \in DOMAIN net.mem : m.mem[x] = net.mem[x]
    <3>1. net.ts <= b.ts /\ DOMAIN net.mem \cap DOMAIN b.mem = {}
      BY <2>3, <2>4, <2>5, <2>6
    <3>2. /\ m \in Nets /\ DOMAIN m.mem = DOMAIN net.mem \cup DOMAIN b.mem /\ Live(m)
          /\ m.ts = IF net.ts <= b.ts THEN net.ts ELSE b.ts
          /\ m.keep = ((net.ts <= b.ts /\ net.keep) \/ (b.ts <= net.ts /\ b.keep))
          /\ m.bans = (IF net.ts <= b.ts THEN net.bans ELSE {}) \cup (IF b.ts <= net.ts THEN b.bans ELSE {})
          /\ \A x \in DOMAIN net.mem : m.mem[x] = IF net.ts <= b.ts THEN net.mem[x] ELSE {}
          /\ \A x \in DOMAIN b.mem : m.mem[x] = IF b.ts <= net.ts THEN b.mem[x] ELSE {}
      BY <2>2, <2>5, <3>1, MeetIs
    <3> HIDE DEF m
    <3> QED BY <2>3, <2>4, <2>5, <3>1, <3>2, Fields
  <2> HIDE DEF d, m
  <2>9. d.mem = m.mem
    <3>1. d.mem \in Mems /\ m.mem \in Mems
      BY <2>7, <2>8, Fields
    <3>2. DOMAIN d.mem = DOMAIN m.mem /\ \A x \in DOMAIN d.mem : d.mem[x] = m.mem[x]
      BY <2>7, <2>8
    <3> QED BY <3>1, <3>2, SameMem
  <2>10. Agree(d, m)
    <3>1. d.keep = m.keep
      BY <2>7, <2>8
    <3> QED BY <2>7, <2>8, <2>9, <3>1, Agreed, ZenonT(40)
  <2>11. OurOk(d, now) /\ NetOk(m, now)
    BY <2>2, <2>7, <2>8, <2>9 DEF OurOk, NetOk, Live, Held
  <2>12. split => DOMAIN m.mem \cap Leaf = {}
    BY <1>1, <1>4, <2>4, <2>8 DEF ChanInv, Aparted, ChannelTame
  <2>13. OurOk(chan, now)' /\ NetOk(net, now)' /\ Related(chan, net, linked, unbursted, now)'
    BY <1>1, <1>2, <2>1, <2>10, <2>11 DEF Related
  <2> QED BY <1>1, <1>3, <2>1, <2>12, <2>13, Zenon DEF ChanInv
<1>5. CASE chan = NULL /\ net # NULL
  <2> DEFINE d == BurstIn(NULL, net)
  <2>1. chan' = d /\ net' = net /\ unbursted' = FALSE
    BY <1>5, Zenon DEF LinkUp
  <2>2. net \in Nets /\ Live(net) /\ net.ts <= now
    BY <1>1, <1>5 DEF NetOk
  <2>3. d \in Ours /\ d.ts = net.ts /\ d.mem = net.mem /\ d.keep = net.keep /\ d.bans = net.bans
    BY <2>2, BurstNew
  <2> HIDE DEF d
  <2>4. Agree(d, net)
    BY <2>2, <2>3, Agreed
  <2>5. OurOk(d, now)
    BY <2>2, <2>3 DEF OurOk, Live, Held
  <2>6. OurOk(chan, now)' /\ NetOk(net, now)' /\ Related(chan, net, linked, unbursted, now)'
    BY <1>1, <1>2, <2>1, <2>4, <2>5 DEF Related
  <2> QED BY <1>1, <1>3, <2>1, <2>6, Zenon DEF ChanInv
<1>6. CASE net = NULL
  <2>1. chan' = chan /\ net' = net /\ unbursted' = (chan # NULL)
    BY <1>6 DEF LinkUp
  <2>2. chan # NULL => Pending(chan, net, now')
    <3>1. chan # NULL => chan.ts \in Nat /\ chan.ts <= now
      BY <1>1, Fields DEF OurOk
    <3> QED BY <3>1, <1>1, <1>6 DEF Pending, Aparted
  <2>3. chan = NULL => Agree(chan, net)
    BY <1>6 DEF Agree
  <2>4. OurOk(chan, now)' /\ NetOk(net, now)' /\ Related(chan, net, linked, unbursted, now)'
    BY <1>1, <1>2, <2>1, <2>2, <2>3, Zenon DEF Related
  <2> QED BY <1>1, <1>3, <1>6, <2>1, <2>4, Zenon DEF ChanInv
<1> QED BY <1>4, <1>5, <1>6

\* The split ends, and services get the leaf's channel as a burst.
LEMMA NetjoinStep ==
  ASSUME ChannelTame, ChanInv, Netjoin
  PROVE  ChanInv'
<1>1. /\ UNCHANGED <<unbursted, linked, bursting, kicked, now>> /\ far' = NULL /\ ~split' /\ split' \in BOOLEAN
      /\ now \in Nat /\ OurOk(chan, now) /\ NetOk(net, now) /\ NetOk(far, now) /\ FarOk(far)
      /\ (linked => ~unbursted) /\ (net # NULL => DOMAIN net.mem \cap Leaf = {})
      /\ chan' = IF linked /\ far # NULL THEN BurstIn(chan, far) ELSE chan
      /\ net' = IF far # NULL /\ net # NULL /\ net.ts > far.ts THEN Reopped(Meet(net, far)) ELSE Meet(net, far)
  BY Zenon DEF Netjoin, Waits, Hears, ChanInv
<1>2. NetOk(far, now)' /\ FarOk(far)'
  BY <1>1 DEF NetOk, FarOk
<1>3. CASE far = NULL
  <2>1. chan' = chan /\ net' = net
    BY <1>1, <1>3 DEF Meet
  <2> QED BY <1>1, <1>2, <2>1 DEF ChanInv
<1>4. far # NULL => far \in Nets /\ Live(far) /\ far.ts <= now /\ DOMAIN far.mem \subseteq Leaf
  BY <1>1 DEF NetOk, FarOk
<1>5. CASE far # NULL /\ net = NULL
  <2>1. net' = far
    BY <1>1, <1>5 DEF Meet
  <2>2. CASE ~linked
    <3>1. Aparted(chan', net')
      BY <1>1, <1>4, <1>5, <2>1, <2>2 DEF ChanInv, Related, Aparted, ChannelTame
    <3> QED BY <1>1, <1>2, <2>1, <2>2, <3>1 DEF ChanInv, Related
  <2>3. CASE linked
    <3>1. chan = NULL
      BY <1>5, <2>3 DEF Netjoin, Recreated, ChannelTame
    <3>2. chan' = BurstIn(NULL, far)
      BY <1>1, <1>5, <2>3, <3>1
    <3>3. chan' \in Ours /\ chan'.ts = far.ts /\ chan'.mem = far.mem /\ chan'.keep = far.keep /\ chan'.bans = far.bans
      BY <1>4, <1>5, <3>2, BurstNew
    <3>4. Agree(chan', net')
      BY <1>4, <1>5, <2>1, <3>3, Agreed
    <3>5. OurOk(chan', now)
      BY <1>4, <1>5, <3>3 DEF OurOk, Held, Live
    <3> QED BY <1>1, <1>2, <2>1, <2>3, <3>4, <3>5 DEF ChanInv, Related
  <2> QED BY <2>2, <2>3 DEF ChanInv
<1>6. CASE far # NULL /\ net # NULL
  <2> DEFINE m == Meet(net, far)
  <2>1. net \in Nets /\ Live(net) /\ net.ts <= now /\ DOMAIN net.mem \cap DOMAIN far.mem = {}
    BY <1>1, <1>4, <1>6 DEF NetOk
  <2>2. /\ net.ts \in Nat /\ net.mem \in Mems /\ net.keep \in BOOLEAN /\ net.bans \in SUBSET Bans
        /\ far.ts \in Nat /\ far.mem \in Mems /\ far.keep \in BOOLEAN /\ far.bans \in SUBSET Bans
    BY <1>4, <1>6, <2>1, Fields
  <2>3. /\ m \in Nets /\ DOMAIN m.mem = DOMAIN net.mem \cup DOMAIN far.mem /\ Live(m)
        /\ m.ts = IF net.ts <= far.ts THEN net.ts ELSE far.ts
        /\ m.keep = ((net.ts <= far.ts /\ net.keep) \/ (far.ts <= net.ts /\ far.keep))
        /\ m.bans = (IF net.ts <= far.ts THEN net.bans ELSE {}) \cup (IF far.ts <= net.ts THEN far.bans ELSE {})
        /\ \A x \in DOMAIN net.mem : m.mem[x] = IF net.ts <= far.ts THEN net.mem[x] ELSE {}
        /\ \A x \in DOMAIN far.mem : m.mem[x] = IF far.ts <= net.ts THEN far.mem[x] ELSE {}
    BY <1>4, <1>6, <2>1, MeetIs
  <2> HIDE DEF m
  <2>4. m.ts <= now /\ m.mem \in Mems /\ m.keep \in BOOLEAN /\ m # NULL /\ m.ts \in Nat /\ m.bans \in SUBSET Bans
    BY <1>4, <1>6, <2>1, <2>2, <2>3, Fields DEF ChannelTame
  <2>5. NetOk(m, now)
    BY <2>3, <2>4 DEF NetOk
  <2>6. CASE ~linked
    <3>1. net' = m
      BY <1>1, <1>6, <2>6 DEF m, Reopped
    <3>2. Aparted(chan', net')
      BY <1>1, <1>4, <1>6, <2>3, <2>6, <3>1 DEF ChanInv, Related, Aparted, ChannelTame
    <3> QED BY <1>1, <1>2, <2>5, <2>6, <3>1, <3>2 DEF ChanInv, Related
  <2>7. CASE linked
    <3> DEFINE d == BurstIn(chan, far)
               k == Aged(chan, far)
    <3>1. chan' = d
      BY <1>1, <1>6, <2>7
    <3>2. Agree(chan, net)
      BY <1>1, <2>7 DEF ChanInv, Related
    <3>3. /\ chan # NULL /\ chan \in Ours /\ chan.ts = net.ts /\ chan.mem = net.mem /\ chan.keep = net.keep
          /\ chan.bans = net.bans /\ (chan.keep <=> net.keep)
      BY <1>1, <1>6, <3>2, AgreeIs
    <3>4. /\ d \in Ours /\ d.ts = k.ts /\ d.keep = k.keep /\ d.bans = k.bans /\ d.locks = chan.locks
          /\ DOMAIN d.mem = DOMAIN chan.mem \cup DOMAIN far.mem
          /\ \A x \in DOMAIN chan.mem : d.mem[x] = chan.mem[x]
          /\ \A x \in DOMAIN far.mem : d.mem[x] = IF chan.ts < far.ts THEN {} ELSE far.mem[x]
          /\ chan.ts < far.ts => k = chan
          /\ chan.ts = far.ts => k.ts = chan.ts /\ k.keep = (chan.keep \/ far.keep) /\ k.bans = chan.bans \cup far.bans
          /\ chan.ts > far.ts => k.ts = far.ts /\ k.keep = (far.keep \/ (Reops(chan) /\ chan.keep)) /\ k.bans = far.bans
      BY <1>4, <1>6, <2>1, <3>3, BurstIs
    <3> HIDE DEF d, k
    <3>5. d.mem \in Mems /\ d.keep \in BOOLEAN /\ d.ts \in Nat
      BY <3>4, Fields
    <3>6. CASE chan.ts <= far.ts
      <4>1. net' = m
        BY <1>1, <2>2, <3>3, <3>6 DEF m
      <4>2. DOMAIN d.mem = DOMAIN m.mem /\ \A x \in DOMAIN d.mem : d.mem[x] = m.mem[x]
        BY <2>2, <2>3, <3>3, <3>4, <3>6
      <4>3. d.mem = m.mem
        BY <2>4, <3>5, <4>2, SameMem
      <4>4. d.ts = m.ts /\ d.bans = m.bans /\ (d.keep <=> m.keep)
        BY <2>2, <2>3, <3>3, <3>4, <3>6
      <4>5. d.keep = m.keep
        BY <2>4, <3>5, <4>4
      <4>6. Agree(d, m)
        BY <2>3, <3>4, <4>3, <4>4, <4>5, Agreed, Zenon
      <4>7. OurOk(d, now)
        BY <2>3, <2>4, <3>4, <4>3, <4>4 DEF OurOk, Held, Live
      <4> QED BY <1>1, <1>2, <2>5, <2>7, <3>1, <4>1, <4>6, <4>7 DEF ChanInv, Related
    <3>7. CASE chan.ts > far.ts
      <4>1. \A x \in DOMAIN chan.mem : chan.mem[x] \subseteq IF x = X THEN {"o"} ELSE {}
        BY <1>6, <2>7, <3>3, <3>7 DEF Netjoin, ChannelTame
      <4>2. net' = Reopped(m)
        BY <1>1, <1>6, <2>2, <3>3, <3>7 DEF m
      <4>3. d.ts = m.ts /\ d.bans = m.bans /\ (m.keep <=> far.keep) /\ (d.keep <=> far.keep \/ (Reops(chan) /\ chan.keep))
        BY <2>2, <2>3, <3>3, <3>4, <3>7
      <4>4. /\ \A x \in DOMAIN chan.mem : m.mem[x] = {} /\ d.mem[x] = chan.mem[x]
            /\ \A x \in DOMAIN far.mem : d.mem[x] = m.mem[x] /\ x # X
        BY <1>4, <1>6, <2>2, <2>3, <3>3, <3>4, <3>7 DEF ChannelTame
      <4>5. CASE ~Reops(chan)
        <5>1. net' = m
          BY <4>2, <4>5 DEF Reopped
        <5>2. DOMAIN d.mem = DOMAIN m.mem
          BY <2>3, <3>3, <3>4
        <5>3. ASSUME NEW x \in DOMAIN chan.mem PROVE d.mem[x] = {} /\ m.mem[x] = {}
          <6>1. chan.mem[x] = {}
            BY <4>1, <4>5 DEF Reops
          <6> QED BY <6>1, <4>4
        <5>4. \A x \in DOMAIN d.mem : d.mem[x] = m.mem[x]
          BY <3>4, <4>4, <5>3, Zenon
        <5>5. d.mem = m.mem
          BY <2>4, <3>5, <5>2, <5>4, SameMem
        <5>6. d.keep = m.keep
          BY <2>4, <3>5, <4>3, <4>5
        <5>7. Agree(d, m)
          BY <2>3, <3>4, <4>3, <5>5, <5>6, Agreed, Zenon
        <5>8. OurOk(d, now)
          BY <2>3, <2>4, <3>4, <4>3, <5>5, <5>6 DEF OurOk, Held, Live
        <5> QED BY <1>1, <1>2, <2>5, <2>7, <3>1, <5>1, <5>7, <5>8 DEF ChanInv, Related
      <4>6. CASE Reops(chan)
        <5> DEFINE fl == m.mem[X] \cup {"o"}
                   f  == With(m.mem, X, fl)
                   kp == m.keep \/ chan.keep
                   n  == [m EXCEPT !.mem = f, !.keep = kp]
        <5>1. X \in DOMAIN chan.mem /\ chan.mem[X] = {"o"} /\ X \in Members
          BY <4>1, <4>6 DEF Reops, Members
        <5>2. net' = n
          BY <2>7, <3>3, <4>2, <4>6 DEF Reopped
        <5>3. fl = {"o"} /\ fl \in SUBSET Flags
          BY <4>4, <5>1 DEF Flags
        <5> HIDE DEF fl
        <5>4. /\ f \in Mems /\ DOMAIN f = DOMAIN m.mem \cup {X} /\ f[X] = fl
              /\ \A x \in DOMAIN m.mem \ {X} : f[x] = m.mem[x]
          <6>1. \A g \in Mems : /\ With(g, X, fl) \in Mems /\ DOMAIN With(g, X, fl) = DOMAIN g \cup {X}
                               /\ With(g, X, fl)[X] = fl /\ \A x \in DOMAIN g \ {X} : With(g, X, fl)[x] = g[x]
            BY <5>1, <5>3, WithMem
          <6>2. m.mem \in Mems
            BY <2>4
          <6> QED BY <6>1, <6>2, Zenon
        <5>5. kp \in BOOLEAN /\ (kp <=> d.keep)
          BY <2>4, <3>5, <4>3, <4>6
        <5> HIDE DEF f, kp
        <5>6. n \in Nets /\ n.ts = m.ts /\ n.mem = f /\ n.keep = kp /\ n.bans = m.bans /\ n # NULL
          BY <2>3, <5>4, <5>5, Zenon DEF Nets, ChannelTame
        <5> HIDE DEF n
        <5>7. DOMAIN d.mem = DOMAIN f /\ \A x \in DOMAIN d.mem : d.mem[x] = f[x]
          <6>1. DOMAIN d.mem = DOMAIN f
            BY <2>3, <3>3, <3>4, <5>1, <5>4
          <6>2. ASSUME NEW x \in DOMAIN chan.mem, x # X PROVE d.mem[x] = {} /\ f[x] = {}
            BY <6>2, <2>3, <3>3, <4>1, <4>4, <5>4
          <6>3. ASSUME NEW x \in DOMAIN far.mem PROVE d.mem[x] = f[x]
            BY <6>3, <2>3, <4>4, <5>4
          <6>4. d.mem[X] = f[X]
            BY <4>4, <5>1, <5>3, <5>4
          <6> QED BY <3>4, <6>1, <6>2, <6>3, <6>4, Zenon
        <5>8. d.mem = f
          BY <3>5, <5>4, <5>7, SameMem, Zenon
        <5>9. d.keep = n.keep
          BY <3>5, <5>5, <5>6
        <5>10. Agree(d, n)
          BY <3>4, <4>3, <5>6, <5>8, <5>9, Agreed
        <5>11. DOMAIN d.mem # {}
          BY <3>4, <5>1
        <5>12. OurOk(d, now) /\ NetOk(n, now)
          BY <2>4, <3>4, <4>3, <5>6, <5>8, <5>11 DEF OurOk, Held, NetOk, Live
        <5> QED BY <1>1, <1>2, <2>7, <3>1, <5>2, <5>10, <5>12 DEF ChanInv, Related
      <4> QED BY <4>5, <4>6
    <3> QED BY <2>2, <3>3, <3>6, <3>7
  <2> QED BY <2>6, <2>7 DEF ChanInv
<1> QED BY <1>3, <1>5, <1>6

\* A KICK sets out, and time passes.
LEMMA QuietSteps ==
  ASSUME ChannelTame, ChanInv, Tick \/ UNCHANGED vars \/ \E u \in Users : KickChannelUser(u)
  PROVE  ChanInv'
<1>1. ASSUME NEW u \in Users, KickChannelUser(u) PROVE ChanInv'
  BY <1>1, Zenon DEF KickChannelUser, Waits, ChanInv
<1>2. CASE UNCHANGED vars
  BY <1>2 DEF vars, ChanInv
<1>3. CASE Tick
  <2>1. now \in Nat /\ now' = now + 1 /\ UNCHANGED <<chan, unbursted, linked, bursting, split, net, far, kicked>>
    BY <1>3 DEF Tick, ChanInv
  <2>2. OurOk(chan, now) /\ NetOk(net, now) /\ NetOk(far, now) /\ Related(chan, net, linked, unbursted, now)
    BY DEF ChanInv
  <2>3. (chan # NULL => chan.ts \in Nat) /\ (net # NULL => net.ts \in Nat) /\ (far # NULL => far.ts \in Nat)
    BY <2>2, Fields DEF OurOk, NetOk
  <2>4. OurOk(chan, now') /\ NetOk(net, now') /\ NetOk(far, now')
    BY <2>1, <2>2, <2>3 DEF OurOk, NetOk
  <2>5. Related(chan, net, linked, unbursted, now')
    BY <2>1, <2>2, <2>3 DEF Related, Pending
  <2> QED BY <2>1, <2>4, <2>5 DEF ChanInv
<1> QED BY <1>1, <1>2, <1>3

\* Every step keeps the two views related as the state of the link says.
LEMMA ChanNext == ChannelTame /\ ChanInv /\ [Next]_vars => ChanInv'
<1> SUFFICES ASSUME ChannelTame, ChanInv, [Next]_vars PROVE ChanInv'
  OBVIOUS
<1>1. ASSUME NEW u \in Users, Join(u) \/ Leave(u) \/ FarJoin(u) \/ KickChannelUser(u) \/ KickConfirmed(u) PROVE ChanInv'
  BY <1>1, JoinStep, LeaveSteps, FarStep, QuietSteps
<1>2. ASSUME NEW u \in Members, NEW f \in Flags, NEW add \in BOOLEAN,
             ServiceModes(u, f, add) \/ \E server \in BOOLEAN : Mode(u, f, add, server)
      PROVE  ChanInv'
  BY <1>2, ServiceModesStep, ModeStep
<1>3. ASSUME NEW add \in BOOLEAN, Registered(add) PROVE ChanInv'
  BY <1>3, RegisteredStep
<1>4. CASE ServiceParts
  BY <1>4, ServicePartsStep
<1> QED
  BY <1>1, <1>2, <1>3, <1>4, BanSteps, NetsplitStep, NetjoinStep, LinkUpStep, EobStep, LinkLostStep, ServiceJoinsStep,
     LockSteps, QuietSteps DEF Next

\* Whenever services are linked and the burst is over, they know the channel as the network does:
\* its age, its members and their modes, its bans; a channel that only they know is kept by a lock
\* alone and is empty.  This is for any set of users, behind the leaf or not, any bans, any
\* interleaving of joins, parts, kicks under way, modes, splits, lost links and bursts (hash.c,
\* proto-p10.c), as long as neither of the two faults that NetChannels names is admitted.
THEOREM ViewsOfChannelAgree == ASSUME ChannelTame PROVE Spec => []SameChannel
<1>1. ChanInv /\ [Next]_vars => ChanInv'
  BY ChanNext
<1>2. ChanInv => SameChannel
  BY DEF ChanInv, Related, Agree, SameChannel, OurOk, Ours
<1> QED BY <1>1, <1>2, ChanInit, PTL DEF Spec

-----------------------------------------------------------------------------
(* Users and servers of the network (NetUsers).                             *)
Net == INSTANCE NetUsers WITH burst <- bursts

\* A user as services know them.
Known == [nick : Nicks, ts : Int, invis : BOOLEAN]
\* A user as the network knows them.
Bearers == [nick : Nicks, ts : Int]

\* Services, clones and the network's users have numerics of their own; services are among
\* the nicks; and nobody moves who is in a collision (with which services lose their nicks).
NetTame == /\ Services \cap Clones = {} /\ (Services \cup Clones) \cap Remote = {} /\ Leaves \subseteq Remote
           /\ IsFiniteSet(Services \cup Clones \cup Remote)
           /\ Services \subseteq Nicks /\ NULL \notin Services \cup Clones \cup Remote \cup Known \cup Bearers
           /\ Start \in Int /\ MaxTime \in Int /\ ~CollidersMove

\* A message, and what handlers pass on.
Messages == [type : {"NICK", "KILL", "QUIT"}, who : Net!Numerics, ts : Int, nick : Nicks]
Views    == [u : [Net!Numerics -> Known \cup {NULL}], c : [Nicks -> Net!Numerics \cup {NULL}],
             i : Int, o : Seq(Messages)]

\* Every service is there with its nick, and whoever a nick finds has it.
Found(v) ==
  /\ \A s \in Services : v.u[s] # NULL /\ v.c[s] = s
  /\ \A k \in Nicks : v.c[k] # NULL => v.u[v.c[k]] # NULL /\ v.u[v.c[k]].nick = k
Hidden(v)  == {n \in Net!Numerics : v.u[n] # NULL /\ v.u[n].invis}
Sound(v) == v \in Views /\ Found(v) /\ v.i = Cardinality(Hidden(v))

\* The inductive invariant of what services know: sound in every state.
UsersInv == now \in Int /\ Sound(Net!View)

\* What a handler starts from is what the variables hold.
LEMMA ViewIs ==
  ASSUME NetTame, UsersInv
  PROVE  /\ Net!View.u = users /\ Net!View.c = clients /\ Net!View.i = invis /\ Net!View.o = out
         /\ users \in [Net!Numerics -> Known \cup {NULL}] /\ clients \in [Nicks -> Net!Numerics \cup {NULL}]
         /\ invis \in Int /\ out \in Seq(Messages)
BY DEF Net!View, UsersInv, Sound, Views

\* What a handler passes on becomes the state.
LEMMA BecomesIs ==
  ASSUME NetTame, NEW v, Sound(v), Net!Becomes(v), now' \in Int
  PROVE  UsersInv'
<1>1. v \in Views /\ users' = v.u /\ clients' = v.c /\ invis' = v.i /\ out' = v.o
  BY DEF Sound, Net!Becomes
<1>2. Net!View' = v
  BY <1>1 DEF Net!View, Views
<1>3. Sound(Net!View')
  BY <1>2
<1>4. Sound(Net!View)'
  BY <1>2 DEF Sound, Found, Hidden, Views, Net!Numerics, Net!Locals, Known, Messages
<1> QED BY <1>4 DEF UsersInv

\* Messages are only sent.
LEMMA SendsIs ==
  ASSUME NEW v, Sound(v), NEW type \in {"NICK", "KILL", "QUIT"}, NEW n \in Net!Numerics, NEW ts \in Int, NEW nick \in Nicks
  PROVE  LET w == Net!Sends(v, type, n, ts, nick) IN Sound(w) /\ w.u = v.u /\ w.c = v.c /\ w.i = v.i
<1> DEFINE m == [type |-> type, who |-> n, ts |-> ts, nick |-> nick]
           w == Net!Sends(v, type, n, ts, nick)
<1>1. m \in Messages
  BY DEF Messages
<1>2. w = [v EXCEPT !.o = Append(@, m)]
  BY DEF Net!Sends
<1> HIDE DEF w, m
<1>3. v.o \in Seq(Messages) /\ Append(v.o, m) \in Seq(Messages) /\ v \in Views
  BY <1>1 DEF Sound, Views
<1>4. w \in Views /\ w.u = v.u /\ w.c = v.c /\ w.i = v.i
  BY <1>2, <1>3, Zenon DEF Views
<1>5. Hidden(w) = Hidden(v) /\ Found(w)
  BY <1>4 DEF Hidden, Found, Sound
<1> QED BY <1>4, <1>5 DEF Sound, w

\* irc_user sends a NICK and changes no record.
LEMMA IrcUserIs ==
  ASSUME NetTame, NEW v, Sound(v), NEW n \in Net!Numerics, v.u[n] # NULL
  PROVE  LET w == Net!IrcUser(v, n) IN Sound(w) /\ w.u = v.u /\ w.c = v.c /\ w.i = v.i
<1>1. v.u[n] \in Known
  BY DEF Sound, Views
<1> QED BY <1>1, SendsIs DEF Net!IrcUser, Known

\* A change of one user's record counts them, or does not any longer.
LEMMA CountOne ==
  ASSUME NetTame, NEW v \in Views, v.i = Cardinality(Hidden(v)), NEW w \in Views,
         NEW n \in Net!Numerics, NEW r \in Known \cup {NULL}, w.u = [v.u EXCEPT ![n] = r],
         w.i = v.i + (IF r # NULL /\ r.invis THEN 1 ELSE 0) - (IF v.u[n] # NULL /\ v.u[n].invis THEN 1 ELSE 0)
  PROVE  w.i = Cardinality(Hidden(w))
<1>1. IsFiniteSet(Net!Numerics) /\ IsFiniteSet(Hidden(v)) /\ IsFiniteSet(Hidden(w))
  <2>1. Hidden(v) \subseteq Net!Numerics /\ Hidden(w) \subseteq Net!Numerics
    BY DEF Hidden
  <2> QED BY <2>1, FS_Subset DEF NetTame, Net!Numerics, Net!Locals
<1>2. w.u[n] = r /\ \A m \in Net!Numerics \ {n} : w.u[m] = v.u[m]
  BY DEF Views
<1>3. CASE (r # NULL /\ r.invis) /\ n \notin Hidden(v)
  <2>1. Hidden(w) = Hidden(v) \cup {n}
    BY <1>2, <1>3 DEF Hidden
  <2>2. Cardinality(Hidden(w)) = Cardinality(Hidden(v)) + 1
    BY <1>1, <1>3, <2>1, FS_AddElement
  <2> QED BY <1>3, <2>2 DEF Hidden, Views
<1>4. CASE ~(r # NULL /\ r.invis) /\ n \in Hidden(v)
  <2>1. Hidden(w) = Hidden(v) \ {n}
    BY <1>2, <1>4 DEF Hidden
  <2>2. Cardinality(Hidden(w)) = Cardinality(Hidden(v)) - 1
    BY <1>1, <1>4, <2>1, FS_RemoveElement
  <2> QED BY <1>4, <2>2 DEF Hidden, Views
<1>5. CASE (r # NULL /\ r.invis) <=> n \in Hidden(v)
  <2>1. Hidden(w) = Hidden(v)
    BY <1>2, <1>5 DEF Hidden
  <2>2. w.i = v.i
    BY <1>5 DEF Hidden, Views
  <2> QED BY <2>1, <2>2
<1> QED BY <1>3, <1>4, <1>5

\* DelUser: nobody else's nick goes.
LEMMA DelUserIs ==
  ASSUME NetTame, NEW v, Sound(v), NEW n \in Net!Numerics \ Services, v.u[n] # NULL, NEW announce \in BOOLEAN
  PROVE  LET w == Net!DelUser(v, n, announce)
         IN  /\ Sound(w) /\ w.u = [v.u EXCEPT ![n] = NULL]
             /\ v.c[v.u[n].nick] = n => w.c[v.u[n].nick] = NULL
<1> DEFINE w == [v EXCEPT !.u[n] = NULL, !.c = Net!Removed(v, n), !.i = IF v.u[n].invis THEN @ - 1 ELSE @]
           k == v.u[n].nick
<1>0. v \in Views /\ Found(v) /\ v.i = Cardinality(Hidden(v)) /\ v.u[n] \in Known /\ k \in Nicks
  BY DEF Sound, Views, Known
<1>1. Net!Removed(v, n) = IF v.c[k] = n THEN [v.c EXCEPT ![k] = NULL] ELSE v.c
  BY DEF Net!Removed
<1>2a. /\ [v.u EXCEPT ![n] = NULL] \in [Net!Numerics -> Known \cup {NULL}]
       /\ Net!Removed(v, n) \in [Nicks -> Net!Numerics \cup {NULL}]
       /\ (IF v.u[n].invis THEN v.i - 1 ELSE v.i) \in Int
  BY <1>0, <1>1 DEF Views
<1>2. w \in Views /\ w.u = [v.u EXCEPT ![n] = NULL] /\ w.c = Net!Removed(v, n)
      /\ w.i = IF v.u[n].invis THEN v.i - 1 ELSE v.i
  BY <1>0, <1>2a, Zenon DEF Views
<1>3. v.c[k] = n => w.c[k] = NULL
  BY <1>0, <1>1, <1>2 DEF Views
<1> HIDE DEF w
<1>4. Found(w)
  <2>1. \A s \in Services : w.u[s] # NULL /\ w.c[s] = s
    BY <1>0, <1>1, <1>2 DEF Found, Views, NetTame, Net!Numerics, Net!Locals
  <2>2. \A l \in Nicks : w.c[l] # NULL => w.u[w.c[l]] # NULL /\ w.u[w.c[l]].nick = l
    BY <1>0, <1>1, <1>2 DEF Found, Views
  <2> QED BY <2>1, <2>2 DEF Found
<1>5. w.i = Cardinality(Hidden(w))
  <2>1. w.i = v.i + (IF NULL # NULL /\ NULL.invis THEN 1 ELSE 0) - (IF v.u[n] # NULL /\ v.u[n].invis THEN 1 ELSE 0)
    BY <1>0, <1>2 DEF Views
  <2> QED BY <1>0, <1>2, <2>1, CountOne
<1>6. Sound(w)
  BY <1>2, <1>4, <1>5 DEF Sound
<1>7. Net!DelUser(v, n, announce) = IF ~announce THEN w
         ELSE Net!Sends(w, IF n \in Net!Locals THEN "QUIT" ELSE "KILL", n, 0, k)
  BY DEF Net!DelUser, w
<1>8. Sound(Net!Sends(w, IF n \in Net!Locals THEN "QUIT" ELSE "KILL", n, 0, k))
      /\ Net!Sends(w, IF n \in Net!Locals THEN "QUIT" ELSE "KILL", n, 0, k).u = w.u
      /\ Net!Sends(w, IF n \in Net!Locals THEN "QUIT" ELSE "KILL", n, 0, k).c = w.c
  BY <1>0, <1>6, SendsIs
<1> QED BY <1>2, <1>3, <1>6, <1>7, <1>8

\* What AddUser makes of a new user, and of one who has the nick.
Added(v, n, nick, ts, hides) ==
  [v EXCEPT !.u[n] = [nick |-> nick, ts |-> ts, invis |-> hides], !.i = IF hides THEN @ + 1 ELSE @]
Named(v, n, nick, ts, hides) == [Added(v, n, nick, ts, hides) EXCEPT !.c[nick] = n]

\* A new user, who takes the nick or does not.
LEMMA NewIs ==
  ASSUME NetTame, NEW v, Sound(v), NEW n \in Net!Numerics \ Services, v.u[n] = NULL,
         NEW nick \in Nicks, NEW ts \in Int, NEW hides \in BOOLEAN
  PROVE  LET w == Added(v, n, nick, ts, hides)
             x == Named(v, n, nick, ts, hides)
         IN  /\ Sound(w) /\ w.u = [v.u EXCEPT ![n] = [nick |-> nick, ts |-> ts, invis |-> hides]] /\ w.c = v.c
             /\ v.c[nick] = NULL => Sound(x) /\ x.u = w.u
<1> DEFINE r == [nick |-> nick, ts |-> ts, invis |-> hides]
           w == [v EXCEPT !.u[n] = r, !.i = IF hides THEN @ + 1 ELSE @]
           x == [w EXCEPT !.c[nick] = n]
<1>a. w = Added(v, n, nick, ts, hides) /\ x = Named(v, n, nick, ts, hides)
  BY DEF Added, Named
<1>0. v \in Views /\ Found(v) /\ v.i = Cardinality(Hidden(v)) /\ r \in Known /\ r.invis = hides /\ r.nick = nick /\ r # NULL
  BY DEF Sound, Views, Known, NetTame
<1> HIDE DEF r
<1>1. /\ [v.u EXCEPT ![n] = r] \in [Net!Numerics -> Known \cup {NULL}] /\ [v.c EXCEPT ![nick] = n] \in [Nicks -> Net!Numerics \cup {NULL}]
      /\ v.i + 1 \in Int /\ (IF hides THEN v.i + 1 ELSE v.i) \in Int
  BY <1>0 DEF Views
<1>2. w \in Views /\ w.u = [v.u EXCEPT ![n] = r] /\ w.c = v.c /\ w.i = IF hides THEN v.i + 1 ELSE v.i
  BY <1>0, <1>1, Zenon DEF Views
<1> HIDE DEF w
<1>3. x \in Views /\ x.u = w.u /\ x.i = w.i /\ x.c = [v.c EXCEPT ![nick] = n]
  BY <1>1, <1>2 DEF Views
<1> HIDE DEF x
<1>4. w.i = Cardinality(Hidden(w))
  <2>1. w.i = v.i + (IF r # NULL /\ r.invis THEN 1 ELSE 0) - (IF v.u[n] # NULL /\ v.u[n].invis THEN 1 ELSE 0)
    BY <1>0, <1>2 DEF Views
  <2> QED BY <1>0, <1>2, <2>1, CountOne
<1>5. Hidden(x) = Hidden(w)
  BY <1>3 DEF Hidden
<1>6. Found(w)
  BY <1>0, <1>2 DEF Found, Views, NetTame, Net!Numerics, Net!Locals
<1>7. v.c[nick] = NULL => Found(x)
  <2> SUFFICES ASSUME v.c[nick] = NULL PROVE Found(x)
    OBVIOUS
  <2>1. nick \notin Services
    BY <1>0 DEF Found, NetTame
  <2>2. x.c[nick] = n /\ \A l \in Nicks \ {nick} : x.c[l] = w.c[l]
    BY <1>0, <1>2, <1>3 DEF Views
  <2>3. x.u[n] = r
    BY <1>0, <1>2, <1>3 DEF Views
  <2>4. \A s \in Services : x.u[s] # NULL /\ x.c[s] = s
    BY <1>3, <1>6, <2>1, <2>2 DEF Found, NetTame
  <2> QED BY <1>0, <1>3, <1>6, <2>2, <2>3, <2>4 DEF Found
<1> QED BY <1>a, <1>2, <1>3, <1>4, <1>5, <1>6, <1>7 DEF Sound, r

\* A service outranks whoever takes its nick.
LEMMA OutranksIs ==
  ASSUME NetTame, NEW v, Sound(v), NEW s \in Net!Numerics, v.u[s] # NULL, NEW ts \in Int
  PROVE  LET w == Net!Outranks(v, s, ts)
         IN  Sound(w) /\ w.u = [v.u EXCEPT ![s].ts = ts - 1] /\ w.c = v.c /\ w.o = v.o
<1> DEFINE r == [v.u[s] EXCEPT !.ts = ts - 1]
           w == Net!Outranks(v, s, ts)
<1>0. v \in Views /\ Found(v) /\ v.i = Cardinality(Hidden(v)) /\ v.u[s] \in Known
  BY DEF Sound, Views
<1>1. r \in Known /\ r.invis = v.u[s].invis /\ r.nick = v.u[s].nick /\ r # NULL
  BY <1>0 DEF Known, NetTame
<1>1a. w = [v EXCEPT !.u = [v.u EXCEPT ![s] = r]]
  BY <1>0 DEF Net!Outranks
<1> HIDE DEF r, w
<1>2. [v.u EXCEPT ![s] = r] \in [Net!Numerics -> Known \cup {NULL}]
  BY <1>0, <1>1 DEF Views
<1>3. w \in Views /\ w.u = [v.u EXCEPT ![s] = r] /\ w.c = v.c /\ w.i = v.i /\ w.o = v.o
  BY <1>0, <1>1a, <1>2 DEF Views
<1>4. w.i = Cardinality(Hidden(w))
  <2>1. w.i = v.i + (IF r # NULL /\ r.invis THEN 1 ELSE 0) - (IF v.u[s] # NULL /\ v.u[s].invis THEN 1 ELSE 0)
    BY <1>0, <1>1, <1>3 DEF Views
  <2> QED BY <1>0, <1>1, <1>3, <2>1, CountOne, Zenon
<1>5. Found(w)
  BY <1>0, <1>1, <1>3 DEF Found, Views, NetTame, Net!Numerics, Net!Locals
<1> QED BY <1>3, <1>4, <1>5 DEF Sound, r, w

\* AddUser.
LEMMA AddUserIs ==
  ASSUME NetTame, NEW v, Sound(v), NEW n \in Net!Numerics \ Services, v.u[n] = NULL,
         NEW nick \in Nicks, NEW ts \in Int, NEW hides \in BOOLEAN, NEW quiet \in BOOLEAN
  PROVE  Sound(Net!AddUser(v, n, nick, ts, hides, quiet))
<1> DEFINE old == v.c[nick]
           New(w) == Added(w, n, nick, ts, hides)
           Told(w) == IF n \in Net!Locals THEN Net!IrcUser(Named(w, n, nick, ts, hides), n) ELSE Named(w, n, nick, ts, hides)
<1>0. v \in Views /\ Found(v) /\ old \in Net!Numerics \cup {NULL}
  BY DEF Sound, Views
<1>1. Net!AddUser(v, n, nick, ts, hides, quiet) =
        IF old = NULL THEN Told(v)
        ELSE IF old \in Services
          THEN LET w == Net!Outranks(v, old, ts) IN New(IF quiet THEN w ELSE Net!IrcUser(w, old))
        ELSE IF v.u[old].ts > ts THEN Told(Net!DelUser(v, old, TRUE))
        ELSE New(v)
  BY DEF Net!AddUser, Added, Named
<1>2. ASSUME NEW w, Sound(w), w.u[n] = NULL
      PROVE  Sound(New(w)) /\ (w.c[nick] = NULL => Sound(Told(w)))
  <2>1. Sound(New(w)) /\ New(w).u = [w.u EXCEPT ![n] = [nick |-> nick, ts |-> ts, invis |-> hides]]
        /\ (w.c[nick] = NULL => Sound(Named(w, n, nick, ts, hides)) /\ Named(w, n, nick, ts, hides).u = New(w).u)
    BY <1>2, NewIs
  <2>2. New(w).u[n] \in Known /\ New(w).u[n] # NULL
    <3>1. [nick |-> nick, ts |-> ts, invis |-> hides] \in Known
      BY DEF Known
    <3>2. w.u \in [Net!Numerics -> Known \cup {NULL}]
      BY <1>2 DEF Sound, Views
    <3> QED BY <2>1, <3>1, <3>2 DEF NetTame
  <2> HIDE DEF New
  <2>3. w.c[nick] = NULL => Sound(Net!IrcUser(Named(w, n, nick, ts, hides), n))
    BY <2>1, <2>2, IrcUserIs, Zenon
  <2> QED BY <2>1, <2>3
<1> HIDE DEF New, Told
<1>3. CASE old = NULL
  BY <1>1, <1>2, <1>3
<1>4. CASE old # NULL /\ old \in Services
  <2> DEFINE w == Net!Outranks(v, old, ts)
  <2>1. old \in Net!Numerics /\ v.u[old] # NULL /\ v.u[old] \in Known
    BY <1>0, <1>4 DEF Found, Views
  <2>2. Sound(w) /\ w.u = [v.u EXCEPT ![old].ts = ts - 1]
    BY <2>1, OutranksIs
  <2>3. w.u[n] = NULL /\ w.u[old] # NULL
    BY <1>0, <1>4, <2>1, <2>2 DEF Views, Known, NetTame
  <2> HIDE DEF w
  <2>4. Sound(Net!IrcUser(w, old)) /\ Net!IrcUser(w, old).u = w.u
    BY <2>1, <2>2, <2>3, IrcUserIs, Zenon
  <2>5. Sound(New(w)) /\ Sound(New(Net!IrcUser(w, old)))
    BY <1>2, <2>2, <2>3, <2>4, Zenon
  <2> QED BY <1>1, <1>4, <2>5 DEF w
<1>5. CASE old # NULL /\ old \notin Services
  <2>1. old \in Net!Numerics \ Services /\ v.u[old] # NULL /\ v.u[old].nick = nick /\ v.c[v.u[old].nick] = old
    BY <1>0, <1>5 DEF Found
  <2> DEFINE w == Net!DelUser(v, old, TRUE)
  <2>2. Sound(w) /\ w.u = [v.u EXCEPT ![old] = NULL] /\ w.c[nick] = NULL
    <3> HIDE DEF old
    <3>1. Sound(w) /\ w.u = [v.u EXCEPT ![old] = NULL] /\ (v.c[v.u[old].nick] = old => w.c[v.u[old].nick] = NULL)
      BY <2>1, DelUserIs, ZenonT(40)
    <3> QED BY <2>1, <3>1, Zenon
  <2>3. w.u[n] = NULL
    BY <1>0, <2>1, <2>2, Zenon DEF Views
  <2> HIDE DEF w
  <2>4. Sound(Told(w)) /\ Sound(New(v))
    BY <1>2, <2>2, <2>3, Zenon
  <2> QED BY <1>1, <1>5, <2>4, Zenon DEF w
<1> QED BY <1>3, <1>4, <1>5

\* cmd_kill.
LEMMA KilledIs ==
  ASSUME NetTame, NEW v, Sound(v), NEW n \in Net!Numerics
  PROVE  Sound(Net!Killed(v, n)) /\ (n \in Services => Net!Killed(v, n).u = v.u /\ Net!Killed(v, n).c = v.c)
<1>1. CASE v.u[n] = NULL
  BY <1>1 DEF Net!Killed
<1>2. CASE v.u[n] # NULL /\ n \in Services
  BY <1>2, IrcUserIs DEF Net!Killed
<1>3. CASE v.u[n] # NULL /\ n \notin Services
  BY <1>3, DelUserIs, Zenon DEF Net!Killed
<1> QED BY <1>1, <1>2, <1>3

\* An entry is written; a user's nick and timestamp are (NickChange).
Put(f, x, y) == [f EXCEPT ![x] = y]
Renamed(r, nick) == [r EXCEPT !.nick = nick, !.ts = now]

\* NickChange, to a nick that is free, of somebody who has theirs.
LEMMA NickChangeIs ==
  ASSUME NetTame, NEW v, Sound(v), now \in Int, NEW n \in Net!Numerics \ Services, v.u[n] # NULL,
         v.c[v.u[n].nick] = n, NEW nick \in Nicks, v.c[nick] = NULL
  PROVE  LET w == Net!NickChange(v, n, nick)
             r == Renamed(v.u[n], nick)
         IN  /\ Sound(w) /\ w.u = Put(v.u, n, r) /\ w.o = v.o /\ w.c = Put(Put(v.c, v.u[n].nick, NULL), nick, n)
             /\ r \in Known /\ r.nick = nick /\ r.ts = now
<1> DEFINE k == v.u[n].nick
           r == [v.u[n] EXCEPT !.nick = nick, !.ts = now]
           w == [v EXCEPT !.c = [[v.c EXCEPT ![k] = NULL] EXCEPT ![nick] = n], !.u = [v.u EXCEPT ![n] = r]]
<1>0. v \in Views /\ Found(v) /\ v.i = Cardinality(Hidden(v)) /\ v.u[n] \in Known /\ k \in Nicks /\ k # nick
  <2>1. v \in Views /\ Found(v) /\ v.i = Cardinality(Hidden(v))
    BY DEF Sound
  <2>2. v.u[n] \in Known
    BY <2>1 DEF Views
  <2>3. k \in Nicks /\ n # NULL
    BY <2>2 DEF Known, NetTame, Net!Numerics, Net!Locals
  <2> QED BY <2>1, <2>2, <2>3
<1>1. r \in Known /\ r.invis = v.u[n].invis /\ r.nick = nick /\ r.ts = now /\ r # NULL
  BY <1>0, Zenon DEF Known, NetTame
<1>2. [v.u EXCEPT ![n] = r] \in [Net!Numerics -> Known \cup {NULL}]
  BY <1>0, <1>1 DEF Views
<1>3. [[v.c EXCEPT ![k] = NULL] EXCEPT ![nick] = n] \in [Nicks -> Net!Numerics \cup {NULL}]
  BY <1>0 DEF Views
<1>4. Net!NickChange(v, n, nick) = w
  <2> DEFINE u1 == [v.u EXCEPT ![n].nick = nick]
             u2 == [u1 EXCEPT ![n].ts = now]
             cc == [[v.c EXCEPT ![k] = NULL] EXCEPT ![nick] = n]
  <2>1. u2 = [v.u EXCEPT ![n] = r]
    BY <1>0, Zenon DEF Views
  <2>2. Net!NickChange(v, n, nick) = [[[v EXCEPT !.c = cc] EXCEPT !.u = u1] EXCEPT !.u = u2]
    BY <1>0 DEF Net!NickChange, Views
  <2> HIDE DEF u1, u2, cc
  <2>3. [[[v EXCEPT !.c = cc] EXCEPT !.u = u1] EXCEPT !.u = u2] = [v EXCEPT !.c = cc, !.u = u2]
    BY <1>0, Zenon DEF Views
  <2> QED BY <2>1, <2>2, <2>3 DEF cc
<1> HIDE DEF r
<1>5. w.c = [[v.c EXCEPT ![k] = NULL] EXCEPT ![nick] = n]
  BY <1>0, <1>2, <1>3 DEF Views
<1>5a. w \in Views /\ w.u = [v.u EXCEPT ![n] = r] /\ w.i = v.i /\ w.o = v.o
  BY <1>0, <1>2, <1>3, Zenon DEF Views
<1> HIDE DEF w
<1>6. w.i = Cardinality(Hidden(w))
  <2>1. w.i = v.i + (IF r # NULL /\ r.invis THEN 1 ELSE 0) - (IF v.u[n] # NULL /\ v.u[n].invis THEN 1 ELSE 0)
    BY <1>0, <1>1, <1>5a DEF Views
  <2> QED BY <1>0, <1>1, <1>5a, <2>1, CountOne, Zenon
<1>7. Found(w)
  <2>1. w.c[nick] = n /\ w.c[k] = NULL /\ \A l \in Nicks \ {k, nick} : w.c[l] = v.c[l]
    BY <1>0, <1>5 DEF Views
  <2>2. w.u[n] = r /\ \A m \in Net!Numerics \ {n} : w.u[m] = v.u[m]
    BY <1>0, <1>5a DEF Views
  <2>3. \A s \in Services : w.u[s] # NULL /\ w.c[s] = s
    <3> SUFFICES ASSUME NEW s \in Services PROVE w.u[s] # NULL /\ w.c[s] = s
      OBVIOUS
    <3>1. s \in Net!Numerics \ {n} /\ s \in Nicks /\ s # NULL /\ v.u[s] # NULL /\ v.c[s] = s
      BY <1>0 DEF NetTame, Found, Net!Numerics, Net!Locals
    <3>2. s # k /\ s # nick
      BY <3>1
    <3> QED BY <2>1, <2>2, <3>1, <3>2
  <2>4. \A l \in Nicks : w.c[l] # NULL => w.u[w.c[l]] # NULL /\ w.u[w.c[l]].nick = l
    <3> SUFFICES ASSUME NEW l \in Nicks, w.c[l] # NULL PROVE w.u[w.c[l]] # NULL /\ w.u[w.c[l]].nick = l
      OBVIOUS
    <3>1. CASE l = nick
      BY <1>1, <2>1, <2>2, <3>1
    <3>2. CASE l # nick
      <4>1. l # k /\ w.c[l] = v.c[l]
        BY <2>1, <3>2
      <4>2. v.u[v.c[l]] # NULL /\ v.u[v.c[l]].nick = l /\ v.c[l] \in Net!Numerics
        BY <1>0, <4>1 DEF Found, Views
      <4>3. v.c[l] # n
        BY <4>1, <4>2
      <4> QED BY <2>2, <4>1, <4>2, <4>3
    <3> QED BY <3>1, <3>2
  <2> QED BY <2>3, <2>4 DEF Found
<1> QED BY <1>1, <1>4, <1>5, <1>5a, <1>6, <1>7 DEF Sound, r, Renamed, Put

\* DelServer.
LEMMA WithoutUsersIs ==
  ASSUME NetTame, NEW v, Sound(v), NEW ns \in SUBSET Remote
  PROVE  LET w == Net!WithoutUsers(v, ns)
         IN  /\ Sound(w) /\ w.o = v.o
             /\ \A m \in Net!Numerics : w.u[m] = IF m \in ns THEN NULL ELSE v.u[m]
             /\ \A k \in Nicks : w.c[k] = IF v.c[k] \in ns THEN NULL ELSE v.c[k]
<1> DEFINE c == [k \in Nicks |-> IF v.c[k] \in ns THEN NULL ELSE v.c[k]]
           hid == {n \in ns : v.u[n] # NULL /\ v.u[n].invis}
           u == [n \in Net!Numerics |-> IF n \in ns THEN NULL ELSE v.u[n]]
           w == [v EXCEPT !.u = u, !.c = c, !.i = @ - Cardinality(hid)]
<1>0. v \in Views /\ Found(v) /\ v.i = Cardinality(Hidden(v)) /\ ns \subseteq Net!Numerics /\ ns \cap Services = {}
  BY DEF Sound, NetTame, Net!Numerics, Net!Locals
<1>1. hid \subseteq Hidden(v) /\ IsFiniteSet(Hidden(v)) /\ IsFiniteSet(hid)
  <2>1. Hidden(v) \subseteq Net!Numerics /\ hid \subseteq Hidden(v)
    BY <1>0 DEF Hidden
  <2> QED BY <2>1, FS_Subset DEF NetTame, Net!Numerics, Net!Locals
<1>2. Cardinality(hid) \in Nat /\ Cardinality(Hidden(v) \ hid) = Cardinality(Hidden(v)) - Cardinality(hid)
  <2>1. hid = Hidden(v) \cap hid
    BY <1>1
  <2> HIDE DEF hid
  <2> QED BY <1>1, <2>1, FS_Difference, FS_CardinalityType, ZenonT(40)
<1>3. u \in [Net!Numerics -> Known \cup {NULL}] /\ c \in [Nicks -> Net!Numerics \cup {NULL}]
  BY <1>0 DEF Views
<1>4. Net!WithoutUsers(v, ns) = w
  <2>1. {n \in ns : v.u[n] # NULL /\ v.u[n].invis} = hid
    OBVIOUS
  <2>2. Net!Cardinality(hid) = Cardinality(hid)
    BY DEF Net!Cardinality, Cardinality
  <2> QED BY <2>2, Zenon DEF Net!WithoutUsers
<1>5. \A m \in Net!Numerics : u[m] = IF m \in ns THEN NULL ELSE v.u[m]
  OBVIOUS
<1>6. \A k \in Nicks : c[k] = IF v.c[k] \in ns THEN NULL ELSE v.c[k]
  OBVIOUS
<1>7. Hidden(v) \ hid = {m \in Net!Numerics : u[m] # NULL /\ u[m].invis}
  BY <1>0, <1>5 DEF Hidden
<1> HIDE DEF u, c, hid
<1>8. w \in Views /\ w.u = u /\ w.c = c /\ w.i = v.i - Cardinality(hid) /\ w.o = v.o
  <2> DEFINE rest == v.i - Cardinality(hid)
  <2>1. rest \in Int
    BY <1>0, <1>2 DEF Views
  <2>2. w = [v EXCEPT !.u = u, !.c = c, !.i = rest]
    OBVIOUS
  <2> HIDE DEF rest, w
  <2>3. w \in Views /\ w.u = u /\ w.c = c /\ w.i = rest /\ w.o = v.o
    BY <1>0, <1>3, <2>1, <2>2, Zenon DEF Views
  <2> QED BY <2>3 DEF rest
<1> HIDE DEF w
<1>9. w.i = Cardinality(Hidden(w))
  BY <1>0, <1>2, <1>7, <1>8, Zenon DEF Hidden
<1>10. Found(w)
  <2>1. \A s \in Services : s \in Net!Numerics /\ s \in Nicks /\ s \notin ns
    BY <1>0 DEF NetTame, Net!Numerics, Net!Locals
  <2>2. \A s \in Services : w.u[s] # NULL /\ w.c[s] = s
    BY <1>0, <1>5, <1>6, <1>8, <2>1 DEF Found
  <2>3. \A k \in Nicks : w.c[k] # NULL => w.u[w.c[k]] # NULL /\ w.u[w.c[k]].nick = k
    BY <1>0, <1>5, <1>6, <1>8 DEF Found, Views
  <2> QED BY <2>2, <2>3 DEF Found
<1> QED BY <1>4, <1>5, <1>6, <1>8, <1>9, <1>10 DEF Sound

\* Whoever may move under their own name is not a service.
LEMMA OriginIs ==
  ASSUME NetTame, UsersInv, NEW n \in Remote, Net!MayMove(n)
  PROVE  \/ Net!Origin(n) = NULL
         \/ Net!Origin(n) = n /\ n \in Net!Numerics \ Services /\ users[n] # NULL /\ clients[users[n].nick] = n
BY DEF NetTame, Net!MayMove, Net!Origin, Net!Numerics, Net!Locals

\* NICK of a new user.
LEMMA NetworkStep ==
  ASSUME NetTame, UsersInv, NEW n \in Remote, NEW k \in Nicks, NEW ts \in 1..MaxTime, NEW hides \in BOOLEAN,
         Net!NewUser(n, k, ts, hides)
  PROVE  UsersInv'
<1>0. /\ n \in Net!Numerics \ Services /\ Sound(Net!View) /\ now \in Int
      /\ Net!View.u = users /\ Net!View.c = clients
  BY ViewIs DEF NetTame, Net!Numerics, Net!Locals, UsersInv
<1>1. CASE Net!NewUser(n, k, ts, hides)
  <2> DEFINE lost == Net!Holds(k)
             v == IF lost = {} THEN Net!View ELSE Net!Killed(Net!View, CHOOSE s \in lost : TRUE)
             quiet == Net!ServerOf(n) \in bursts
  <2>1. Sound(v) /\ v.u[n] = NULL
    <3>1. CASE lost = {}
      BY <1>0, <1>1, <3>1 DEF Net!NewUser
    <3>2. CASE lost # {}
      <4>1. lost \subseteq Services
        BY <1>1, <3>2 DEF Net!NewUser
      <4>2. (CHOOSE s \in lost : TRUE) \in Services
        BY <3>2, <4>1
      <4>3. (CHOOSE s \in lost : TRUE) \in Net!Numerics
        BY <4>2 DEF Net!Numerics, Net!Locals
      <4>4. Sound(v) /\ v.u = users
        BY <1>0, <3>2, <4>2, <4>3, KilledIs
      <4>5. users[n] = NULL
        BY <1>1 DEF Net!NewUser
      <4> QED BY <4>4, <4>5
    <3> QED BY <3>1, <3>2
  <2>2. Net!Becomes(Net!AddUser(v, n, k, ts, hides, quiet)) /\ now' = now
    BY <1>1 DEF Net!NewUser
  <2> HIDE DEF v
  <2>3. ts \in Int /\ quiet \in BOOLEAN
    BY DEF NetTame
  <2> HIDE DEF quiet
  <2>4. Sound(Net!AddUser(v, n, k, ts, hides, quiet))
    BY <1>0, <2>1, <2>3, AddUserIs
  <2> QED BY <1>0, <2>2, <2>4, BecomesIs
<1> QED BY <1>1

\* NICK of somebody who has one.
LEMMA RenameStep ==
  ASSUME NetTame, UsersInv, NEW n \in Remote, NEW k \in Nicks, Net!Rename(n, k)
  PROVE  UsersInv'
<1>0. /\ n \in Net!Numerics \ Services /\ Sound(Net!View) /\ now \in Int
      /\ Net!View.u = users /\ Net!View.c = clients
  BY ViewIs DEF NetTame, Net!Numerics, Net!Locals, UsersInv
<1>2. CASE Net!Rename(n, k)
  <2>1. /\ Net!MayMove(n) /\ clients[k] = NULL /\ now' = now
        /\ Net!Becomes(IF Net!Origin(n) = NULL THEN Net!View ELSE Net!NickChange(Net!View, Net!Origin(n), k))
    BY <1>2 DEF Net!Rename, NetTame
  <2>2. CASE Net!Origin(n) = NULL
    BY <1>0, <2>1, <2>2, BecomesIs
  <2>3. CASE Net!Origin(n) # NULL
    <3>1. Net!Origin(n) = n /\ users[n] # NULL /\ clients[users[n].nick] = n
      BY <2>1, <2>3, OriginIs
    <3>2. Sound(Net!NickChange(Net!View, n, k))
      BY <1>0, <2>1, <3>1, NickChangeIs
    <3> QED BY <1>0, <2>1, <2>3, <3>1, <3>2, BecomesIs
  <2> QED BY <2>2, <2>3
<1> QED BY <1>2

\* MODE +i, -i and QUIT.
LEMMA ModeOrQuitStep ==
  ASSUME NetTame, UsersInv, NEW n \in Remote, Net!UserMode(n) \/ Net!Quit(n)
  PROVE  UsersInv'
<1>0. /\ n \in Net!Numerics \ Services /\ Sound(Net!View) /\ now \in Int
      /\ Net!View.u = users /\ Net!View.c = clients
  BY ViewIs DEF NetTame, Net!Numerics, Net!Locals, UsersInv
<1>3. CASE Net!UserMode(n)
  <2> DEFINE r == [users[n] EXCEPT !.invis = ~@]
             w == [Net!View EXCEPT !.u[n].invis = ~@, !.i = IF users[n].invis THEN @ - 1 ELSE @ + 1]
             i == IF users[n].invis THEN invis - 1 ELSE invis + 1
             x == [Net!View EXCEPT !.u = [users EXCEPT ![n] = r], !.i = i]
  <2>0. users \in [Net!Numerics -> Known \cup {NULL}] /\ users[n] # NULL /\ Net!View \in Views /\ invis \in Int
        /\ Net!View.i = invis
    BY <1>0, <1>3, ViewIs DEF Net!UserMode, Sound
  <2>1. r \in Known /\ (r.invis <=> ~users[n].invis) /\ r.nick = users[n].nick /\ r # NULL /\ i \in Int
    <3>1. users[n] \in Known
      BY <1>0, <2>0
    <3>2. users[n] \in [nick : Nicks, ts : Int, invis : BOOLEAN]
      BY <3>1 DEF Known
    <3>3. r \in [nick : Nicks, ts : Int, invis : BOOLEAN] /\ r.nick = users[n].nick
      BY <3>2, Zenon
    <3>4. r.invis <=> ~users[n].invis
      BY <3>2, Zenon
    <3>5. r \in Known /\ r # NULL
      BY <3>3, Zenon DEF Known, NetTame
    <3> QED BY <2>0, <3>3, <3>4, <3>5
  <2>2. w = x
    <3> DEFINE u1 == [users EXCEPT ![n].invis = ~@]
    <3>1. u1 = [users EXCEPT ![n] = r]
      BY <1>0, <2>0
    <3>2. w = [[Net!View EXCEPT !.u = u1] EXCEPT !.i = i]
      BY <1>0, <2>0
    <3> QED BY <3>1, <3>2
  <2>3. [users EXCEPT ![n] = r] \in [Net!Numerics -> Known \cup {NULL}]
    BY <2>0, <2>1, Zenon
  <2> HIDE DEF w, r, i
  <2>4. x \in Views /\ x.u = [users EXCEPT ![n] = r] /\ x.c = clients /\ x.i = i
    BY <1>0, <2>0, <2>1, <2>3, Zenon DEF Views
  <2> HIDE DEF x
  <2>5. x.i = Cardinality(Hidden(x))
    <3>1. x.i = Net!View.i + (IF r # NULL /\ r.invis THEN 1 ELSE 0)
                  - (IF Net!View.u[n] # NULL /\ Net!View.u[n].invis THEN 1 ELSE 0)
      <4>1. CASE users[n].invis
        <5>1. ~r.invis /\ i = invis - 1
          BY <2>1, <4>1 DEF i
        <5> QED BY <1>0, <2>0, <2>1, <2>4, <4>1, <5>1
      <4>2. CASE ~users[n].invis
        <5>1. r.invis /\ i = invis + 1
          BY <2>1, <4>2 DEF i
        <5> QED BY <1>0, <2>0, <2>1, <2>4, <4>2, <5>1
      <4> QED BY <4>1, <4>2
    <3>2. Net!View.i = Cardinality(Hidden(Net!View))
      BY <1>0 DEF Sound
    <3> QED BY <1>0, <2>0, <2>1, <2>4, <3>1, <3>2, CountOne, ZenonT(40)
  <2>6. Found(x)
    BY <1>0, <2>0, <2>1, <2>4 DEF Found, Sound, Views, NetTame, Net!Numerics, Net!Locals
  <2>7. Net!Becomes(w) /\ now' = now
    BY <1>3 DEF Net!UserMode, w
  <2> QED BY <1>0, <2>2, <2>4, <2>5, <2>6, <2>7, BecomesIs DEF Sound
<1>4. CASE Net!Quit(n)
  <2>1. /\ Net!MayMove(n) /\ now' = now
        /\ Net!Becomes(IF Net!Origin(n) = NULL THEN Net!View ELSE Net!DelUser(Net!View, Net!Origin(n), FALSE))
    BY <1>4, Zenon DEF Net!Quit
  <2>2. CASE Net!Origin(n) = NULL
    BY <1>0, <2>1, <2>2, BecomesIs
  <2>3. CASE Net!Origin(n) # NULL
    <3>1. Net!Origin(n) = n /\ users[n] # NULL
      BY <2>1, <2>3, OriginIs
    <3>2. Sound(Net!DelUser(Net!View, n, FALSE))
      BY <1>0, <3>1, DelUserIs, Zenon
    <3> QED BY <1>0, <2>1, <2>3, <3>1, <3>2, BecomesIs, Zenon
  <2> QED BY <2>2, <2>3
<1> QED BY <1>3, <1>4

\* What services do of their own accord.
LEMMA OwnStep ==
  ASSUME NetTame, UsersInv, NEW n \in Net!Numerics,
         \/ Net!KillUser(n) \/ Net!DelClone(n) \/ \E k \in Nicks : Net!AddClone(n, k)
  PROVE  UsersInv'
<1>0. Sound(Net!View) /\ now \in Int /\ Net!View.u = users /\ Net!View.c = clients
  BY ViewIs DEF UsersInv
<1>1. CASE Net!KillUser(n) \/ Net!DelClone(n)
  <2>1. n \in Net!Numerics \ Services /\ users[n] # NULL /\ Net!Becomes(Net!DelUser(Net!View, n, TRUE)) /\ now' = now
    BY <1>1, Zenon DEF Net!KillUser, Net!DelClone, NetTame
  <2>2. Sound(Net!DelUser(Net!View, n, TRUE))
    BY <1>0, <2>1, DelUserIs, Zenon
  <2> QED BY <1>0, <2>1, <2>2, BecomesIs, Zenon
<1>2. CASE \E k \in Nicks : Net!AddClone(n, k)
  <2> PICK k \in Nicks : Net!AddClone(n, k)
    BY <1>2
  <2> DEFINE old == clients[k]
             ts == IF old = NULL THEN now ELSE users[old].ts - 1
  <2>1. n \in Net!Numerics \ Services /\ users[n] = NULL /\ now' = now
        /\ Net!Becomes(Net!AddUser(Net!View, n, k, ts, TRUE, FALSE))
    BY Zenon DEF Net!AddClone, NetTame
  <2>2. ts \in Int
    <3>1. old # NULL => users[old] # NULL /\ old \in Net!Numerics
      BY <1>0 DEF Sound, Found, Views
    <3>2. old # NULL => users[old] \in Known
      BY <1>0, <3>1 DEF Sound, Views
    <3> QED BY <1>0, <3>2 DEF Known
  <2> HIDE DEF ts
  <2>3. Sound(Net!AddUser(Net!View, n, k, ts, TRUE, FALSE))
    BY <1>0, <2>1, <2>2, AddUserIs, Zenon
  <2> QED BY <1>0, <2>1, <2>3, BecomesIs, Zenon
<1> QED BY <1>1, <1>2

\* Splits, with which the numerics of the leaf or of everybody else go.
LEMMA SplitStep ==
  ASSUME NetTame, UsersInv, Net!Netsplit \/ Net!LinkLost
  PROVE  UsersInv'
<1>0. Sound(Net!View) /\ now \in Int
  BY DEF UsersInv
<1>1. ASSUME NEW srv PROVE Sound(Net!WithoutUsers(Net!View, Net!Gone(srv)))
  BY <1>0, WithoutUsersIs DEF Net!Gone, NetTame
<1>2. CASE Net!Netsplit
  BY <1>0, <1>1, <1>2, BecomesIs DEF Net!Netsplit
<1>3. CASE Net!LinkLost
  <2> DEFINE v == Net!WithoutUsers(Net!View, Net!Gone("uplink"))
             none == <<>>
             w == [v EXCEPT !.o = none]
  <2>1. Sound(v) /\ Net!Becomes(w) /\ now' = now /\ none \in Seq(Messages)
    BY <1>1, <1>3 DEF Net!LinkLost
  <2> HIDE DEF v, none
  <2>2. w \in Views /\ w.u = v.u /\ w.c = v.c /\ w.i = v.i
    BY <2>1, Zenon DEF Sound, Views
  <2> HIDE DEF w
  <2>3. Sound(w)
    BY <2>1, <2>2 DEF Sound, Found, Hidden
  <2> QED BY <1>0, <2>1, <2>3, BecomesIs
<1> QED BY <1>2, <1>3

\* The network reads a message.
LEMMA DeliverStep ==
  ASSUME NetTame, UsersInv, Net!Deliver
  PROVE  UsersInv'
<1> DEFINE m    == Head(out)
           v    == [Net!View EXCEPT !.o = Tail(out)]
           them == Net!Holds(m.nick) \ {m.who}
           h    == CHOOSE x \in them : TRUE
           wins == them = {} \/ m.ts < theirs[h].ts
           dies == them # {} /\ m.ts <= theirs[h].ts
           v1   == IF dies THEN Net!Killed(v, h) ELSE v
<1>0. Sound(Net!View) /\ now \in Int /\ out # <<>> /\ now' = now /\ out \in Seq(Messages)
  BY ViewIs DEF UsersInv, Net!Deliver
<1>1. Tail(out) \in Seq(Messages) /\ m \in Messages
  BY <1>0
<1>2. Sound(v)
  <2>1. v \in Views /\ v.u = Net!View.u /\ v.c = Net!View.c /\ v.i = Net!View.i
    BY <1>0, <1>1, Zenon DEF Sound, Views
  <2> HIDE DEF v
  <2> QED BY <1>0, <2>1 DEF Sound, Found, Hidden
<1>3. m.who \in Net!Numerics /\ (them # {} => h \in Net!Numerics)
  BY <1>1 DEF Messages, Net!Holds
<1>4. Net!Becomes(IF m.type # "NICK" THEN v ELSE IF wins THEN v1 ELSE Net!Killed(v1, m.who))
  BY DEF Net!Deliver
<1> HIDE DEF m, v, h
<1>5. Sound(v1) /\ Sound(Net!Killed(v1, m.who))
  <2>1. Sound(v1)
    BY <1>2, <1>3, KilledIs
  <2> HIDE DEF v1
  <2> QED BY <1>3, <2>1, KilledIs
<1> HIDE DEF v1, wins, dies
<1> QED BY <1>0, <1>2, <1>4, <1>5, BecomesIs

\* The link comes up; servers and time.
LEMMA LinkStep ==
  ASSUME NetTame, UsersInv,
         \/ Net!LinkUp \/ Net!ServerJoins \/ Net!Tick \/ UNCHANGED Net!vars \/ \E srv \in linked : Net!EndOfBurst(srv)
  PROVE  UsersInv'
<1>0. Sound(Net!View) /\ now \in Int
  BY DEF UsersInv
<1>1. CASE Net!LinkUp
  <2>1. PICK order \in [1..Net!Cardinality(Net!Online) -> Net!Online] :
          out' = [i \in DOMAIN order |-> [type |-> "NICK", who |-> order[i], ts |-> users[order[i]].ts, nick |-> users[order[i]].nick]]
    BY <1>1, Zenon DEF Net!LinkUp
  <2>2. Net!Cardinality(Net!Online) \in Nat
    <3>1. Net!Online \subseteq Services \cup Clones \cup Remote
      BY DEF Net!Online, Net!Locals
    <3>2. Cardinality(Net!Online) \in Nat
      BY <3>1, FS_Subset, FS_CardinalityType DEF NetTame
    <3>3. Net!Cardinality(Net!Online) = Cardinality(Net!Online)
      BY DEF Net!Cardinality, Cardinality
    <3> QED BY <3>2, <3>3
  <2>3. \A i \in DOMAIN order : [type |-> "NICK", who |-> order[i], ts |-> users[order[i]].ts, nick |-> users[order[i]].nick] \in Messages
    <3> SUFFICES ASSUME NEW i \in DOMAIN order
                 PROVE  [type |-> "NICK", who |-> order[i], ts |-> users[order[i]].ts, nick |-> users[order[i]].nick] \in Messages
      OBVIOUS
    <3>1. order[i] \in Net!Numerics /\ users[order[i]] # NULL
      BY DEF Net!Online, Net!Numerics
    <3>2. users[order[i]] \in Known
      BY <3>1, ViewIs
    <3> QED BY <3>1, <3>2 DEF Known, Messages
  <2>4. out' \in Seq(Messages)
    BY <2>1, <2>2, <2>3
  <2> DEFINE w == [Net!View EXCEPT !.o = out']
  <2>5. w \in Views /\ w.u = users /\ w.c = clients /\ w.i = invis /\ w.o = out'
    BY <1>0, <2>4, ViewIs, Zenon DEF Sound, Views
  <2> HIDE DEF w
  <2>6. Sound(w)
    <3>1. Net!View.u = users /\ Net!View.c = clients /\ Net!View.i = invis
      BY ViewIs
    <3>2. Hidden(w) = Hidden(Net!View)
      BY <2>5, <3>1 DEF Hidden
    <3>3. Found(w)
      BY <1>0, <2>5, <3>1 DEF Sound, Found
    <3> QED BY <1>0, <2>5, <3>1, <3>2, <3>3, Zenon DEF Sound
  <2>7. Net!Becomes(w) /\ now' = now
    BY <1>1, <2>5 DEF Net!Becomes, Net!LinkUp
  <2> QED BY <1>0, <2>6, <2>7, BecomesIs
<1>2. CASE Net!ServerJoins \/ Net!Tick \/ UNCHANGED Net!vars \/ \E srv \in linked : Net!EndOfBurst(srv)
  <2>1. Net!Becomes(Net!View) /\ now' \in Int
    BY <1>0, <1>2, ViewIs DEF Net!ServerJoins, Net!Tick, Net!vars, Net!EndOfBurst, Net!Becomes
  <2> QED BY <1>0, <2>1, BecomesIs
<1> QED BY <1>1, <1>2

\* At the start there are the services.
LEMMA NetInit == ASSUME NetTame, Net!Init PROVE UsersInv
<1>0. /\ \A n \in Net!Numerics : users[n] = IF n \in Services THEN [nick |-> n, ts |-> Start, invis |-> TRUE] ELSE NULL
      /\ \A k \in Nicks : clients[k] = IF k \in Services THEN k ELSE NULL
      /\ invis = Cardinality(Services) /\ out = <<>> /\ now = Start
  <2>1. Net!Cardinality(Services) = Cardinality(Services)
    BY DEF Net!Cardinality, Cardinality
  <2> QED BY <2>1 DEF Net!Init
<1>1. \A s \in Services : s \in Net!Numerics /\ s \in Nicks /\ s # NULL /\ [nick |-> s, ts |-> Start, invis |-> TRUE] \in Known
  BY DEF NetTame, Known, Net!Numerics, Net!Locals
<1>2. users \in [Net!Numerics -> Known \cup {NULL}]
  BY <1>1 DEF Net!Init
<1>3. clients \in [Nicks -> Net!Numerics \cup {NULL}]
  BY <1>1, Zenon DEF Net!Init
<1>4. invis \in Int /\ out \in Seq(Messages) /\ now \in Int
  <2>1. Cardinality(Services) \in Nat
    <3>1. Services \subseteq Services \cup Clones \cup Remote
      OBVIOUS
    <3> QED BY <3>1, FS_Subset, FS_CardinalityType DEF NetTame
  <2> QED BY <1>0, <2>1 DEF NetTame
<1>5. Net!View \in Views /\ Net!View.u = users /\ Net!View.c = clients /\ Net!View.i = invis
  BY <1>2, <1>3, <1>4 DEF Net!View, Views
<1>6. \A s \in Services : users[s] # NULL /\ users[s].nick = s /\ users[s].invis
  <2> SUFFICES ASSUME NEW s \in Services PROVE users[s] # NULL /\ users[s].nick = s /\ users[s].invis
    OBVIOUS
  <2> DEFINE r == [nick |-> s, ts |-> Start, invis |-> TRUE]
  <2>1. r.nick = s /\ r.invis
    OBVIOUS
  <2>2. r # NULL /\ s \in Net!Numerics
    BY <1>1, Zenon DEF NetTame
  <2>3. users[s] = r
    BY <1>0, <2>2
  <2> QED BY <2>1, <2>2, <2>3
<1>7. Found(Net!View)
  <2>1. \A s \in Services : clients[s] = s
    BY <1>0, <1>1, Zenon
  <2>2. \A k \in Nicks : clients[k] # NULL => k \in Services /\ clients[k] = k
    BY <1>0
  <2> QED BY <1>5, <1>6, <2>1, <2>2 DEF Found
<1>8. Hidden(Net!View) = Services
  <2>1. \A n \in Net!Numerics : n \notin Services => users[n] = NULL
    BY <1>0, Zenon
  <2> QED BY <1>1, <1>5, <1>6, <2>1, Zenon DEF Hidden
<1> QED BY <1>0, <1>4, <1>5, <1>7, <1>8 DEF UsersInv, Sound

\* No handler of the network's messages or of services' own commands breaks UsersInv.
LEMMA NetNext ==
  ASSUME NetTame, UsersInv, [Net!Next]_(Net!vars)
  PROVE  UsersInv'
<1>1. Remote \subseteq Net!Numerics /\ Clones \subseteq Net!Numerics
  BY DEF Net!Numerics, Net!Locals
<1>2. CASE \E n \in Remote : Net!KillUser(n)
  BY <1>1, <1>2, OwnStep
<1>3. CASE \E n \in Clones : Net!DelClone(n) \/ \E k \in Nicks : Net!AddClone(n, k)
  BY <1>1, <1>3, OwnStep
<1>4. CASE Net!Deliver
  BY <1>4, DeliverStep
<1>5. CASE Net!Netsplit \/ Net!LinkLost
  BY <1>5, SplitStep
<1>6. CASE Net!LinkUp \/ Net!ServerJoins \/ Net!Tick \/ UNCHANGED Net!vars \/ \E srv \in linked : Net!EndOfBurst(srv)
  BY <1>6, LinkStep
<1>7. CASE \E n \in Remote, k \in Nicks, ts \in 1..MaxTime, hides \in BOOLEAN : Net!NewUser(n, k, ts, hides)
  BY <1>7, NetworkStep
<1>8. CASE \E n \in Remote, k \in Nicks : Net!Rename(n, k)
  <2>1. PICK n \in Remote, k \in Nicks : Net!Rename(n, k)
    BY <1>8
  <2> QED BY <2>1, RenameStep
<1>9. CASE \E n \in Remote : Net!Quit(n) \/ Net!UserMode(n)
  BY <1>9, ModeOrQuitStep
<1> QED BY <1>2, <1>3, <1>4, <1>5, <1>6, <1>7, <1>8, <1>9 DEF Net!Next

\* UsersInv in every reachable state.
LEMMA NetAlways == ASSUME NetTame PROVE Net!Spec => []UsersInv
<1>1. Net!Init => UsersInv
  BY NetInit
<1>2. UsersInv /\ [Net!Next]_(Net!vars) => UsersInv'
  BY NetNext
<1> QED BY <1>1, <1>2, PTL DEF Net!Spec

\* No collision, kill, split or burst costs a service its nick, as long as nobody moves who is in
\* a collision (AddUser, irc_user, cmd_kill), for any number of services, users and nicks and with
\* any messages of services under way.
THEOREM ServicesKeepTheirNicks == ASSUME NetTame PROVE Net!Spec => []Net!ServicesStay
<1>1. UsersInv => Net!ServicesStay
  BY ViewIs DEF UsersInv, Sound, Found, Net!ServicesStay
<1> QED BY <1>1, NetAlways, PTL

\* Message i of o says that n is, or that n is no more.
Nicked(o, i, n) == o[i].who = n /\ o[i].type = "NICK"
Ended(o, i, n)  == o[i].who = n /\ o[i].type # "NICK"

\* What the network is still told of a service: nothing but its nick, and that whenever it lacks it.
ServiceWay(t, o, s) ==
  /\ \A i \in 1..Len(o) : o[i].who = s => o[i].type = "NICK" /\ o[i].nick = s
  /\ IF t = NULL THEN \E i \in 1..Len(o) : o[i].who = s ELSE t.nick = s

\* Of one of its own users, whom services know as r and the network as t: that they were killed.
RemoteWay(r, t, o, n) ==
  /\ \A i \in 1..Len(o) : o[i].who = n => o[i].type # "NICK" /\ r = NULL
  /\ r # NULL => t # NULL /\ t.nick = r.nick /\ t.ts = r.ts
  /\ r = NULL /\ t # NULL => \E i \in 1..Len(o) : o[i].who = n

\* Of a clone: at most one NICK, after the QUIT of an earlier clone and before its own.
CloneWay(r, t, o, c) ==
  /\ t # NULL => t.nick \notin Services
  /\ \A i \in 1..Len(o) : Nicked(o, i, c) =>
       /\ o[i].nick \notin Services
       /\ \A j \in 1..Len(o) : Nicked(o, j, c) => i = j
       /\ r = NULL => \E j \in 1..Len(o) : j > i /\ Ended(o, j, c)
       /\ r # NULL => /\ o[i].nick = r.nick /\ o[i].ts = r.ts
                      /\ \A j \in 1..Len(o) : Ended(o, j, c) => j < i
       /\ t # NULL => \E j \in 1..Len(o) : j < i /\ Ended(o, j, c)
  /\ r # NULL => \/ t # NULL /\ t.nick = r.nick /\ \A i \in 1..Len(o) : o[i].who # c
                 \/ \E i \in 1..Len(o) : Nicked(o, i, c)
  /\ r = NULL /\ t # NULL => \E i \in 1..Len(o) : Ended(o, i, c)

\* Of two clones that had one nick after the other: the QUIT of the first comes before the NICK of the second.
PairWay(t, o, c, d) ==
  \A i \in 1..Len(o) : Nicked(o, i, c) =>
    /\ t # NULL /\ t.nick = o[i].nick => \E j \in 1..Len(o) : j < i /\ Ended(o, j, d)
    /\ \A j \in 1..Len(o) : Nicked(o, j, d) /\ j < i /\ o[j].nick = o[i].nick =>
         \E k \in 1..Len(o) : j < k /\ k < i /\ Ended(o, k, d)

\* What services know, what the network knows and what is under way agree on n, and on everybody.
OneWay(r, t, o, n) == /\ n \in Services => ServiceWay(t, o, n)
                      /\ n \in Remote   => RemoteWay(r, t, o, n)
                      /\ n \in Clones   => CloneWay(r, t, o, n)
Ways(u, t, o) == /\ \A n \in Net!Numerics : OneWay(u[n], t[n], o, n)
                 /\ \A c, d \in Clones : c # d => PairWay(t[d], o, c, d)

\* What putsock adds to the messages under way comes last.
LEMMA AppendIs ==
  ASSUME NEW o \in Seq(Messages), NEW m \in Messages
  PROVE  LET p == Append(o, m)
         IN  /\ p \in Seq(Messages) /\ Len(p) = Len(o) + 1 /\ Len(o) \in Nat
             /\ \A i \in 1..Len(o) : p[i] = o[i] /\ i \in 1..Len(p) /\ i < Len(p)
             /\ \A i \in 1..Len(p) : i = Len(p) \/ i \in 1..Len(o)
             /\ p[Len(p)] = m /\ Len(p) \in 1..Len(p)
OBVIOUS

\* What the network has read is gone, and the rest keeps its order.
LEMMA TailIs ==
  ASSUME NEW o \in Seq(Messages), o # <<>>
  PROVE  LET p == Tail(o)
         IN  /\ p \in Seq(Messages) /\ Len(p) = Len(o) - 1 /\ Len(p) \in Nat
             /\ Head(o) = o[1] /\ 1 \in 1..Len(o) /\ o[1] \in Messages
             /\ \A i \in 1..Len(p) : p[i] = o[i + 1] /\ i + 1 \in 1..Len(o) /\ i + 1 # 1
             /\ \A i \in 1..Len(o) : i # 1 => i - 1 \in 1..Len(p) /\ p[i - 1] = o[i] /\ (i - 1) + 1 = i
OBVIOUS

\* A message about somebody else changes nothing for n.
LEMMA OneAppend ==
  ASSUME NEW o \in Seq(Messages), NEW m \in Messages, NEW n, n # m.who, NEW r, NEW t, OneWay(r, t, o, n)
  PROVE  OneWay(r, t, Append(o, m), n)
<1> DEFINE p == Append(o, m)
<1>1. /\ Len(p) = Len(o) + 1 /\ Len(o) \in Nat
      /\ \A i \in 1..Len(o) : p[i] = o[i] /\ i \in 1..Len(p) /\ i < Len(p)
      /\ \A i \in 1..Len(p) : i = Len(p) \/ i \in 1..Len(o)
      /\ p[Len(p)].who # n
  BY AppendIs
<1> HIDE DEF p
<1>2. n \in Services => ServiceWay(t, p, n)
  BY <1>1 DEF OneWay, ServiceWay
<1>3. n \in Remote => RemoteWay(r, t, p, n)
  BY <1>1 DEF OneWay, RemoteWay
<1>4. n \in Clones => CloneWay(r, t, p, n)
  <2> SUFFICES ASSUME n \in Clones PROVE CloneWay(r, t, p, n)
    OBVIOUS
  <2>0. CloneWay(r, t, o, n)
    BY DEF OneWay
  <2>1. \A i \in 1..Len(p) : p[i].who = n => i \in 1..Len(o) /\ p[i] = o[i]
    BY <1>1
  <2>2. \A i \in 1..Len(o) : p[i] = o[i] /\ i \in 1..Len(p)
    BY <1>1
  <2> QED BY <2>0, <2>1, <2>2 DEF CloneWay, Nicked, Ended
<1> QED BY <1>2, <1>3, <1>4 DEF OneWay, p

\* Reading a message about somebody else changes nothing for n.
LEMMA OneTail ==
  ASSUME NEW o \in Seq(Messages), o # <<>>, NEW n, n # Head(o).who, NEW r, NEW t, OneWay(r, t, o, n)
  PROVE  OneWay(r, t, Tail(o), n)
<1> DEFINE p == Tail(o)
<1>1. /\ Len(p) = Len(o) - 1 /\ Len(p) \in Nat /\ o[1].who # n
      /\ \A i \in 1..Len(p) : p[i] = o[i + 1] /\ i + 1 \in 1..Len(o)
      /\ \A i \in 1..Len(o) : i # 1 => i - 1 \in 1..Len(p) /\ p[i - 1] = o[i]
  BY TailIs
<1> HIDE DEF p
<1>1a. \A i \in 1..Len(o) : o[i].who = n => i - 1 \in 1..Len(p) /\ p[i - 1] = o[i]
  BY <1>1
<1>2. n \in Services => ServiceWay(t, p, n)
  BY <1>1, <1>1a DEF OneWay, ServiceWay
<1>3. n \in Remote => RemoteWay(r, t, p, n)
  BY <1>1, <1>1a DEF OneWay, RemoteWay
<1>4. n \in Clones => CloneWay(r, t, p, n)
  <2> SUFFICES ASSUME n \in Clones PROVE CloneWay(r, t, p, n)
    OBVIOUS
  <2>0. CloneWay(r, t, o, n)
    BY DEF OneWay
  <2>1. ASSUME NEW i \in 1..Len(p), Nicked(p, i, n)
        PROVE  /\ p[i].nick \notin Services
               /\ \A j \in 1..Len(p) : Nicked(p, j, n) => i = j
               /\ r = NULL => \E j \in 1..Len(p) : j > i /\ Ended(p, j, n)
               /\ r # NULL => /\ p[i].nick = r.nick /\ p[i].ts = r.ts
                              /\ \A j \in 1..Len(p) : Ended(p, j, n) => j < i
               /\ t # NULL => \E j \in 1..Len(p) : j < i /\ Ended(p, j, n)
    <3>1. i + 1 \in 1..Len(o) /\ Nicked(o, i + 1, n) /\ p[i] = o[i + 1]
      BY <1>1, <2>1 DEF Nicked
    <3>2. \A j \in 1..Len(p) : Nicked(p, j, n) => i = j
      BY <1>1, <2>0, <3>1 DEF CloneWay, Nicked
    <3>3. r # NULL => /\ p[i].nick = r.nick /\ p[i].ts = r.ts
                      /\ \A j \in 1..Len(p) : Ended(p, j, n) => j < i
      BY <1>1, <2>0, <3>1 DEF CloneWay, Ended
    <3>4. r = NULL => \E j \in 1..Len(p) : j > i /\ Ended(p, j, n)
      <4> SUFFICES ASSUME r = NULL PROVE \E j \in 1..Len(p) : j > i /\ Ended(p, j, n)
        OBVIOUS
      <4>1. PICK j \in 1..Len(o) : j > i + 1 /\ Ended(o, j, n)
        BY <2>0, <3>1 DEF CloneWay
      <4>2. j - 1 \in 1..Len(p) /\ j - 1 > i /\ Ended(p, j - 1, n)
        BY <1>1a, <4>1 DEF Ended
      <4> QED BY <4>2
    <3>5. t # NULL => \E j \in 1..Len(p) : j < i /\ Ended(p, j, n)
      <4> SUFFICES ASSUME t # NULL PROVE \E j \in 1..Len(p) : j < i /\ Ended(p, j, n)
        OBVIOUS
      <4>1. PICK j \in 1..Len(o) : j < i + 1 /\ Ended(o, j, n)
        BY <2>0, <3>1 DEF CloneWay
      <4>2. j - 1 \in 1..Len(p) /\ j - 1 < i /\ Ended(p, j - 1, n)
        BY <1>1a, <4>1 DEF Ended
      <4> QED BY <4>2
    <3> QED BY <2>0, <3>1, <3>2, <3>3, <3>4, <3>5 DEF CloneWay
  <2>2. r # NULL => \/ t # NULL /\ t.nick = r.nick /\ \A i \in 1..Len(p) : p[i].who # n
                    \/ \E i \in 1..Len(p) : Nicked(p, i, n)
    <3> SUFFICES ASSUME r # NULL, ~\E i \in 1..Len(p) : Nicked(p, i, n)
                 PROVE  t # NULL /\ t.nick = r.nick /\ \A i \in 1..Len(p) : p[i].who # n
      OBVIOUS
    <3>1. ASSUME NEW i \in 1..Len(o) PROVE ~Nicked(o, i, n)
      BY <1>1a DEF Nicked
    <3>2. t # NULL /\ t.nick = r.nick /\ \A i \in 1..Len(o) : o[i].who # n
      BY <2>0, <3>1 DEF CloneWay
    <3> QED BY <1>1, <3>2
  <2>3. r = NULL /\ t # NULL => \E i \in 1..Len(p) : Ended(p, i, n)
    <3> SUFFICES ASSUME r = NULL, t # NULL PROVE \E i \in 1..Len(p) : Ended(p, i, n)
      OBVIOUS
    <3>1. PICK i \in 1..Len(o) : Ended(o, i, n)
      BY <2>0 DEF CloneWay
    <3>2. i - 1 \in 1..Len(p) /\ Ended(p, i - 1, n)
      BY <1>1a, <3>1 DEF Ended
    <3> QED BY <3>2
  <2> QED BY <2>0, <2>1, <2>2, <2>3 DEF CloneWay
<1> QED BY <1>2, <1>3, <1>4 DEF OneWay, p

\* A message other than a NICK of c changes nothing for c after d.
LEMMA PairAppend ==
  ASSUME NEW o \in Seq(Messages), NEW m \in Messages, NEW c, NEW d, NEW t, PairWay(t, o, c, d),
         m.who # c \/ m.type # "NICK"
  PROVE  PairWay(t, Append(o, m), c, d)
<1> DEFINE p == Append(o, m)
<1>1. /\ Len(p) = Len(o) + 1 /\ Len(o) \in Nat
      /\ \A i \in 1..Len(o) : p[i] = o[i] /\ i \in 1..Len(p) /\ i < Len(p)
      /\ \A i \in 1..Len(p) : i = Len(p) \/ i \in 1..Len(o)
      /\ ~Nicked(p, Len(p), c)
  BY AppendIs DEF Nicked
<1> HIDE DEF p
<1>2. ASSUME NEW i \in 1..Len(p), Nicked(p, i, c)
      PROVE  /\ t # NULL /\ t.nick = p[i].nick => \E j \in 1..Len(p) : j < i /\ Ended(p, j, d)
             /\ \A j \in 1..Len(p) : Nicked(p, j, d) /\ j < i /\ p[j].nick = p[i].nick =>
                  \E k \in 1..Len(p) : j < k /\ k < i /\ Ended(p, k, d)
  <2>1. i \in 1..Len(o) /\ p[i] = o[i] /\ Nicked(o, i, c) /\ \A j \in 1..Len(p) : j < i => j \in 1..Len(o)
    BY <1>1, <1>2 DEF Nicked
  <2> QED BY <1>1, <2>1 DEF PairWay, Nicked, Ended
<1> QED BY <1>2 DEF PairWay, p

\* Reading the next message, whose owner the network then has as it says, or not.
LEMMA PairTail ==
  ASSUME NEW o \in Seq(Messages), o # <<>>, NEW c, NEW d, NEW t, NEW t2, PairWay(t, o, c, d), c # d,
         \/ t2 = NULL
         \/ t2 = t /\ Head(o).who # d
         \/ Nicked(o, 1, d) /\ t2.nick = Head(o).nick
  PROVE  PairWay(t2, Tail(o), c, d)
<1> DEFINE p == Tail(o)
<1>1. /\ Len(p) = Len(o) - 1 /\ Len(p) \in Nat /\ Head(o) = o[1] /\ 1 \in 1..Len(o)
      /\ \A i \in 1..Len(p) : p[i] = o[i + 1] /\ i + 1 \in 1..Len(o) /\ i + 1 # 1
      /\ \A i \in 1..Len(o) : i # 1 => i - 1 \in 1..Len(p) /\ p[i - 1] = o[i]
  BY TailIs
<1> HIDE DEF p
<1>2. ASSUME NEW i \in 1..Len(p), Nicked(p, i, c)
      PROVE  /\ t2 # NULL /\ t2.nick = p[i].nick => \E j \in 1..Len(p) : j < i /\ Ended(p, j, d)
             /\ \A j \in 1..Len(p) : Nicked(p, j, d) /\ j < i /\ p[j].nick = p[i].nick =>
                  \E k \in 1..Len(p) : j < k /\ k < i /\ Ended(p, k, d)
  <2>1. i + 1 \in 1..Len(o) /\ Nicked(o, i + 1, c) /\ p[i] = o[i + 1]
    BY <1>1, <1>2 DEF Nicked
  <2>2. ASSUME NEW j \in 1..Len(p), Nicked(p, j, d), j < i, p[j].nick = p[i].nick
        PROVE  \E k \in 1..Len(p) : j < k /\ k < i /\ Ended(p, k, d)
    <3>1. j + 1 \in 1..Len(o) /\ Nicked(o, j + 1, d) /\ j + 1 < i + 1 /\ o[j + 1].nick = o[i + 1].nick
      BY <1>1, <2>1, <2>2 DEF Nicked
    <3>2. PICK k \in 1..Len(o) : j + 1 < k /\ k < i + 1 /\ Ended(o, k, d)
      BY <2>1, <3>1, Zenon DEF PairWay
    <3>3. k - 1 \in 1..Len(p) /\ j < k - 1 /\ k - 1 < i /\ Ended(p, k - 1, d)
      BY <1>1, <3>2 DEF Ended
    <3> QED BY <3>3
  <2>3. ASSUME t2 # NULL, t2.nick = p[i].nick
        PROVE  \E j \in 1..Len(p) : j < i /\ Ended(p, j, d)
    <3>1. \E k \in 1..Len(o) : k # 1 /\ k < i + 1 /\ Ended(o, k, d)
      <4>1. CASE t2 = t /\ Head(o).who # d
        <5>1. PICK k \in 1..Len(o) : k < i + 1 /\ Ended(o, k, d)
          BY <2>1, <2>3, <4>1 DEF PairWay
        <5> QED BY <1>1, <4>1, <5>1 DEF Ended
      <4>2. CASE Nicked(o, 1, d) /\ t2.nick = Head(o).nick
        <5>1. 1 < i + 1 /\ o[1].nick = o[i + 1].nick
          BY <1>1, <2>1, <2>3, <4>2
        <5>2. PICK k \in 1..Len(o) : 1 < k /\ k < i + 1 /\ Ended(o, k, d)
          BY <1>1, <2>1, <4>2, <5>1 DEF PairWay
        <5> QED BY <5>2
      <4> QED BY <2>3, <4>1, <4>2
    <3>2. PICK k \in 1..Len(o) : k # 1 /\ k < i + 1 /\ Ended(o, k, d)
      BY <3>1
    <3>3. k - 1 \in 1..Len(p) /\ k - 1 < i /\ Ended(p, k - 1, d)
      BY <1>1, <3>2 DEF Ended
    <3> QED BY <3>3
  <2> QED BY <2>2, <2>3
<1> QED BY <1>2 DEF PairWay, p

\* QUIT of a clone, KILL of a user, NICK of a service and of a clone are sent.
LEMMA EndWay ==
  ASSUME NEW o \in Seq(Messages), NEW m \in Messages, m.type # "NICK", NEW r, NEW t,
         OneWay(r, t, o, m.who), m.who \notin Services, NetTame
  PROVE  OneWay(NULL, t, Append(o, m), m.who)
<1> DEFINE p == Append(o, m)
<1>1. /\ Len(p) = Len(o) + 1 /\ Len(o) \in Nat
      /\ \A i \in 1..Len(o) : p[i] = o[i] /\ i \in 1..Len(p) /\ i < Len(p)
      /\ \A i \in 1..Len(p) : i = Len(p) \/ i \in 1..Len(o)
      /\ p[Len(p)] = m /\ Len(p) \in 1..Len(p)
  BY AppendIs
<1>2. Ended(p, Len(p), m.who) /\ ~Nicked(p, Len(p), m.who)
  BY <1>1 DEF Ended, Nicked
<1> HIDE DEF p
<1>3. m.who \in Remote => RemoteWay(NULL, t, p, m.who)
  BY <1>1, <1>2 DEF OneWay, RemoteWay
<1>4. m.who \in Clones => CloneWay(NULL, t, p, m.who)
  <2> SUFFICES ASSUME m.who \in Clones PROVE CloneWay(NULL, t, p, m.who)
    OBVIOUS
  <2>0. CloneWay(r, t, o, m.who)
    BY DEF OneWay
  <2>1. \A i \in 1..Len(p) : Nicked(p, i, m.who) => i \in 1..Len(o) /\ Nicked(o, i, m.who) /\ p[i] = o[i]
    BY <1>1, <1>2 DEF Nicked
  <2>2. \A i \in 1..Len(o) : Ended(o, i, m.who) => i \in 1..Len(p) /\ Ended(p, i, m.who)
    BY <1>1 DEF Ended
  <2> QED BY <1>1, <1>2, <2>0, <2>1, <2>2 DEF CloneWay
<1> QED BY <1>3, <1>4 DEF OneWay, p

\* The NICK of a service (irc_user) is what its way allows.
LEMMA ServiceNickWay ==
  ASSUME NEW o \in Seq(Messages), NEW m \in Messages, m.type = "NICK", NEW r, NEW t, m.who \in Services, m.nick = m.who,
         \A i \in 1..Len(o) : o[i].who = m.who => o[i].type = "NICK" /\ o[i].nick = m.who,
         t # NULL => t.nick = m.who, NetTame
  PROVE  OneWay(r, t, Append(o, m), m.who)
<1> DEFINE p == Append(o, m)
<1>1. /\ Len(p) = Len(o) + 1 /\ Len(o) \in Nat
      /\ \A i \in 1..Len(o) : p[i] = o[i] /\ i \in 1..Len(p) /\ i < Len(p)
      /\ \A i \in 1..Len(p) : i = Len(p) \/ i \in 1..Len(o)
      /\ p[Len(p)] = m /\ Len(p) \in 1..Len(p)
  BY AppendIs
<1> HIDE DEF p
<1>2. ServiceWay(t, p, m.who)
  BY <1>1 DEF ServiceWay
<1> QED BY <1>2 DEF OneWay, p, NetTame

\* The NICK of a clone (AddLocalUser), whose last QUIT is under way if the network has it.
LEMMA CloneNickWay ==
  ASSUME NetTame, NEW o \in Seq(Messages), NEW m \in Messages, m.type = "NICK", NEW r \in Known, NEW t, m.who \in Clones,
         r.nick = m.nick, r.ts = m.ts, m.nick \notin Services,
         \A i \in 1..Len(o) : ~Nicked(o, i, m.who), OneWay(NULL, t, o, m.who)
  PROVE  OneWay(r, t, Append(o, m), m.who)
<1> DEFINE p == Append(o, m)
<1>1. /\ Len(p) = Len(o) + 1 /\ Len(o) \in Nat
      /\ \A i \in 1..Len(o) : p[i] = o[i] /\ i \in 1..Len(p) /\ i < Len(p)
      /\ \A i \in 1..Len(p) : i = Len(p) \/ i \in 1..Len(o)
      /\ p[Len(p)] = m /\ Len(p) \in 1..Len(p)
  BY AppendIs
<1> HIDE DEF p
<1>2. /\ \A i \in 1..Len(p) : Nicked(p, i, m.who) <=> i = Len(p)
      /\ \A i \in 1..Len(p) : Ended(p, i, m.who) <=> i \in 1..Len(o) /\ Ended(o, i, m.who)
  BY <1>1 DEF Nicked, Ended
<1>3. CloneWay(NULL, t, o, m.who) /\ r # NULL
  BY DEF OneWay, NetTame
<1>4. CloneWay(r, t, p, m.who)
  BY <1>1, <1>2, <1>3 DEF CloneWay
<1> QED BY <1>4 DEF OneWay, p, NetTame

\* A clone's NICK is sent when no other clone has the nick: the others' NICKs are followed by their QUITs.
LEMMA CloneNickPair ==
  ASSUME NetTame, NEW o \in Seq(Messages), NEW m \in Messages, NEW d \in Clones, d # m.who, NEW r, NEW t, OneWay(r, t, o, d),
         r = NULL \/ r.nick # m.nick, PairWay(t, o, m.who, d)
  PROVE  PairWay(t, Append(o, m), m.who, d)
<1> DEFINE p == Append(o, m)
           c == m.who
<1>1. /\ Len(p) = Len(o) + 1 /\ Len(o) \in Nat
      /\ \A i \in 1..Len(o) : p[i] = o[i] /\ i \in 1..Len(p) /\ i < Len(p)
      /\ \A i \in 1..Len(p) : i = Len(p) \/ i \in 1..Len(o)
      /\ p[Len(p)] = m /\ Len(p) \in 1..Len(p)
  BY AppendIs
<1> HIDE DEF p
<1>3. CloneWay(r, t, o, d)
  BY DEF OneWay
<1>4. ASSUME NEW i \in 1..Len(p), Nicked(p, i, c)
      PROVE  /\ t # NULL /\ t.nick = p[i].nick => \E j \in 1..Len(p) : j < i /\ Ended(p, j, d)
             /\ \A j \in 1..Len(p) : Nicked(p, j, d) /\ j < i /\ p[j].nick = p[i].nick =>
                  \E k \in 1..Len(p) : j < k /\ k < i /\ Ended(p, k, d)
  <2>1. CASE i \in 1..Len(o)
    <3>1. Nicked(o, i, c) /\ p[i] = o[i] /\ \A j \in 1..Len(p) : j < i => j \in 1..Len(o)
      BY <1>1, <1>4, <2>1 DEF Nicked
    <3> QED BY <1>1, <2>1, <3>1 DEF PairWay, Nicked, Ended
  <2>2. CASE i = Len(p)
    <3>1. p[i].nick = m.nick
      BY <1>1, <2>2
    <3>2. ASSUME t # NULL, t.nick = m.nick PROVE \E j \in 1..Len(p) : j < i /\ Ended(p, j, d)
      <4>1. \E j \in 1..Len(o) : Ended(o, j, d)
        BY <1>3, <3>2 DEF CloneWay
      <4> QED BY <1>1, <2>2, <4>1 DEF Ended
    <3>3. ASSUME NEW j \in 1..Len(p), Nicked(p, j, d), j < i, p[j].nick = m.nick
          PROVE  \E k \in 1..Len(p) : j < k /\ k < i /\ Ended(p, k, d)
      <4>1. j \in 1..Len(o) /\ Nicked(o, j, d) /\ o[j].nick = m.nick
        BY <1>1, <2>2, <3>3 DEF Nicked
      <4>2. PICK k \in 1..Len(o) : k > j /\ Ended(o, k, d)
        BY <1>3, <4>1 DEF CloneWay
      <4> QED BY <1>1, <2>2, <4>2 DEF Ended
    <3> QED BY <3>1, <3>2, <3>3
  <2> QED BY <1>1, <2>1, <2>2
<1> QED BY <1>4 DEF PairWay, p

\* What the network has read of n: that they are no more.
LEMMA EndRead ==
  ASSUME NetTame, NEW o \in Seq(Messages), o # <<>>, NEW n, n = Head(o).who, Head(o).type # "NICK", NEW r, NEW t, OneWay(r, t, o, n)
  PROVE  OneWay(r, NULL, Tail(o), n) /\ n \notin Services /\ (n \in Remote => r = NULL)
<1> DEFINE p == Tail(o)
<1>1. /\ Len(p) = Len(o) - 1 /\ Len(p) \in Nat /\ Head(o) = o[1] /\ 1 \in 1..Len(o)
      /\ \A i \in 1..Len(p) : p[i] = o[i + 1] /\ i + 1 \in 1..Len(o) /\ i + 1 # 1
      /\ \A i \in 1..Len(o) : i # 1 => i - 1 \in 1..Len(p) /\ p[i - 1] = o[i] /\ (i - 1) + 1 = i
  BY TailIs
<1> HIDE DEF p
<1>2. n \notin Services /\ Ended(o, 1, n)
  BY <1>1 DEF OneWay, ServiceWay, Ended
<1>3. n \in Remote => r = NULL /\ RemoteWay(r, NULL, p, n)
  BY <1>1 DEF OneWay, RemoteWay
<1>4. n \in Clones => CloneWay(r, NULL, p, n)
  <2> SUFFICES ASSUME n \in Clones PROVE CloneWay(r, NULL, p, n)
    OBVIOUS
  <2>0. CloneWay(r, t, o, n)
    BY DEF OneWay
  <2>1. ASSUME NEW i \in 1..Len(p), Nicked(p, i, n)
        PROVE  /\ p[i].nick \notin Services
               /\ \A j \in 1..Len(p) : Nicked(p, j, n) => i = j
               /\ r = NULL => \E j \in 1..Len(p) : j > i /\ Ended(p, j, n)
               /\ r # NULL => /\ p[i].nick = r.nick /\ p[i].ts = r.ts
                              /\ \A j \in 1..Len(p) : Ended(p, j, n) => j < i
    <3>1. i + 1 \in 1..Len(o) /\ Nicked(o, i + 1, n) /\ p[i] = o[i + 1]
      BY <1>1, <2>1 DEF Nicked
    <3>2. \A j \in 1..Len(p) : Nicked(p, j, n) => i = j
      BY <1>1, <2>0, <3>1 DEF CloneWay, Nicked
    <3>3. r # NULL => /\ p[i].nick = r.nick /\ p[i].ts = r.ts
                      /\ \A j \in 1..Len(p) : Ended(p, j, n) => j < i
      BY <1>1, <2>0, <3>1 DEF CloneWay, Ended
    <3>4. r = NULL => \E j \in 1..Len(p) : j > i /\ Ended(p, j, n)
      <4> SUFFICES ASSUME r = NULL PROVE \E j \in 1..Len(p) : j > i /\ Ended(p, j, n)
        OBVIOUS
      <4>1. PICK j \in 1..Len(o) : j > i + 1 /\ Ended(o, j, n)
        BY <2>0, <3>1 DEF CloneWay
      <4>2. j # 1 /\ j - 1 > i
        BY <4>1
      <4>3. j - 1 \in 1..Len(p) /\ p[j - 1] = o[j]
        BY <1>1, <4>2
      <4> QED BY <4>1, <4>2, <4>3 DEF Ended
    <3>5. p[i].nick \notin Services
      BY <2>0, <3>1 DEF CloneWay
    <3> QED BY <3>2, <3>3, <3>4, <3>5
  <2>2. ASSUME r # NULL PROVE \E i \in 1..Len(p) : Nicked(p, i, n)
    <3>1. PICK i \in 1..Len(o) : Nicked(o, i, n)
      BY <1>1, <1>2, <2>0, <2>2 DEF CloneWay, Ended
    <3>2. i # 1
      BY <1>2, <3>1 DEF Nicked, Ended
    <3> QED BY <1>1, <3>1, <3>2 DEF Nicked
  <2> QED BY <2>1, <2>2 DEF CloneWay
<1> QED BY <1>2, <1>3, <1>4 DEF OneWay, p

\* That they are: the network has a clone as the NICK says it, or took it for the loser of a collision, as services do then.
LEMMA NickRead ==
  ASSUME NetTame, NEW o \in Seq(Messages), o # <<>>, NEW n \in Clones, Nicked(o, 1, n), NEW r, NEW t, OneWay(r, t, o, n)
  PROVE  /\ \A t2 : t2 # NULL /\ t2.nick = Head(o).nick => OneWay(r, t2, Tail(o), n)
         /\ OneWay(NULL, NULL, Tail(o), n)
         /\ r # NULL => r.nick = Head(o).nick /\ r.ts = Head(o).ts
         /\ Head(o).nick \notin Services
<1> DEFINE p == Tail(o)
<1>1. /\ Len(p) = Len(o) - 1 /\ Len(p) \in Nat /\ Head(o) = o[1] /\ 1 \in 1..Len(o)
      /\ \A i \in 1..Len(p) : p[i] = o[i + 1] /\ i + 1 \in 1..Len(o) /\ i + 1 # 1
      /\ \A i \in 1..Len(o) : i # 1 => i - 1 \in 1..Len(p) /\ p[i - 1] = o[i] /\ (i - 1) + 1 = i
  BY TailIs
<1> HIDE DEF p
<1>2. CloneWay(r, t, o, n) /\ n \notin Services /\ n \notin Remote
  BY DEF OneWay, NetTame
<1>3. \A i \in 1..Len(p) : ~Nicked(p, i, n)
  BY <1>1, <1>2 DEF CloneWay, Nicked
<1>4. r # NULL => \A i \in 1..Len(p) : p[i].who # n
  <2> SUFFICES ASSUME r # NULL, NEW i \in 1..Len(p) PROVE p[i].who # n
    OBVIOUS
  <2>1. ~Ended(o, i + 1, n)
    BY <1>1, <1>2 DEF CloneWay
  <2> QED BY <1>1, <1>3, <2>1 DEF Ended, Nicked
<1>5. r = NULL => \E i \in 1..Len(p) : Ended(p, i, n)
  <2> SUFFICES ASSUME r = NULL PROVE \E i \in 1..Len(p) : Ended(p, i, n)
    OBVIOUS
  <2>1. PICK j \in 1..Len(o) : j > 1 /\ Ended(o, j, n)
    BY <1>1, <1>2 DEF CloneWay
  <2> QED BY <1>1, <2>1 DEF Ended
<1>6. r # NULL => r.nick = Head(o).nick /\ r.ts = Head(o).ts
  BY <1>1, <1>2 DEF CloneWay
<1>7. Head(o).nick \notin Services
  BY <1>1, <1>2 DEF CloneWay
<1>8. ASSUME NEW t2, t2 # NULL, t2.nick = Head(o).nick PROVE CloneWay(r, t2, p, n)
  BY <1>3, <1>4, <1>5, <1>6, <1>7, <1>8 DEF CloneWay
<1>9. CloneWay(NULL, NULL, p, n)
  BY <1>3 DEF CloneWay
<1> QED BY <1>2, <1>6, <1>7, <1>8, <1>9 DEF OneWay, p

\* The network reads the NICK of a service: whatever it then has is that nick.
LEMMA ServiceRead ==
  ASSUME NetTame, NEW o \in Seq(Messages), o # <<>>, NEW n \in Services, n = Head(o).who, NEW r, NEW t, OneWay(r, t, o, n)
  PROVE  /\ \A t2 : t2 # NULL /\ t2.nick = Head(o).nick => \A r2 : OneWay(r2, t2, Tail(o), n)
         /\ Head(o).nick = n /\ Head(o).type = "NICK"
         /\ \A i \in 1..Len(Tail(o)) : Tail(o)[i].who = n => Tail(o)[i].type = "NICK" /\ Tail(o)[i].nick = n
<1> DEFINE p == Tail(o)
<1>1. /\ Len(p) = Len(o) - 1 /\ Len(p) \in Nat /\ Head(o) = o[1] /\ 1 \in 1..Len(o)
      /\ \A i \in 1..Len(p) : p[i] = o[i + 1] /\ i + 1 \in 1..Len(o)
  BY TailIs
<1> HIDE DEF p
<1>2. ServiceWay(t, o, n) /\ n \notin Clones /\ n \notin Remote
  BY DEF OneWay, NetTame
<1>3. Head(o).nick = n /\ Head(o).type = "NICK"
  BY <1>1, <1>2 DEF ServiceWay
<1>4. \A i \in 1..Len(p) : p[i].who = n => p[i].type = "NICK" /\ p[i].nick = n
  BY <1>1, <1>2 DEF ServiceWay
<1>5. \A t2 : t2 # NULL /\ t2.nick = n => ServiceWay(t2, p, n)
  BY <1>4 DEF ServiceWay
<1> QED BY <1>2, <1>3, <1>4, <1>5 DEF OneWay, p

\* Everybody's nick finds somebody; a local user's finds them, and is not younger than who lost it to them.
Numbered(v) ==
  /\ \A n \in Net!Numerics : v.u[n] # NULL => v.c[v.u[n].nick] # NULL
  /\ \A n \in Net!Locals : v.u[n] # NULL => v.c[v.u[n].nick] = n
  /\ \A m \in Remote : v.u[m] # NULL /\ v.c[v.u[m].nick] \in Clones => v.u[v.c[v.u[m].nick]].ts <= v.u[m].ts

\* What the proofs need of the constants.
Kinds == /\ Services \cap Clones = {} /\ (Services \cup Clones) \cap Remote = {} /\ NULL \notin Known
         /\ NULL \notin Net!Numerics /\ Net!Numerics = Services \cup Clones \cup Remote /\ Net!Locals = Services \cup Clones
LEMMA KindsHold == ASSUME NetTame PROVE Kinds
BY DEF NetTame, Kinds, Net!Numerics, Net!Locals

\* Somebody goes who is the only one with the nick that finds them.
LEMMA GoneNumbered ==
  ASSUME NetTame, NEW v, Sound(v), Numbered(v), NEW w, NEW n \in Net!Numerics \ Services, v.u[n] # NULL,
         w.u = [v.u EXCEPT ![n] = NULL], w.c = Net!Removed(v, n),
         v.c[v.u[n].nick] = n => \A m \in Net!Numerics \ {n} : v.u[m] # NULL => v.u[m].nick # v.u[n].nick
  PROVE  Numbered(w)
<1> DEFINE k == v.u[n].nick
<1>0. /\ v.u \in [Net!Numerics -> Known \cup {NULL}] /\ v.c \in [Nicks -> Net!Numerics \cup {NULL}]
      /\ \A m \in Net!Numerics : v.u[m] # NULL => v.u[m] \in Known /\ v.u[m].nick \in Nicks
      /\ \A l \in Nicks : v.c[l] # NULL => v.u[v.c[l]] # NULL /\ v.u[v.c[l]].nick = l
      /\ Kinds
  BY KindsHold DEF Sound, Views, Found, Known
<1>1. w.u[n] = NULL /\ \A m \in Net!Numerics \ {n} : w.u[m] = v.u[m]
  BY <1>0
<1>2. ASSUME NEW m \in Net!Numerics \ {n}, v.u[m] # NULL PROVE w.c[v.u[m].nick] = v.c[v.u[m].nick] /\ v.c[v.u[m].nick] # n
  <2>1. CASE v.u[m].nick = k
    BY <1>2, <2>1 DEF Net!Removed
  <2>2. CASE v.u[m].nick # k
    <3> DEFINE l == v.u[m].nick
    <3>1. l \in Nicks /\ l # k /\ k \in Nicks /\ n # NULL
      BY <1>0, <1>2, <2>2 DEF Kinds
    <3> HIDE DEF l
    <3>2. v.c[l] # n
      BY <1>0, <3>1
    <3>3. w.c[l] = v.c[l]
      BY <1>0, <3>1 DEF Net!Removed
    <3> QED BY <3>2, <3>3 DEF l
  <2> QED BY <2>1, <2>2
<1>3. \A m \in Net!Numerics : w.u[m] # NULL => m # n /\ v.u[m] # NULL /\ w.u[m] = v.u[m] /\ w.c[w.u[m].nick] = v.c[v.u[m].nick] /\ v.c[v.u[m].nick] # n
  BY <1>1, <1>2
<1>4. \A m \in Net!Numerics : w.u[m] # NULL => w.c[w.u[m].nick] # NULL
  BY <1>3 DEF Numbered
<1>5. \A m \in Net!Locals : w.u[m] # NULL => w.c[w.u[m].nick] = m
  BY <1>0, <1>3 DEF Numbered, Kinds
<1>6. ASSUME NEW m \in Remote, w.u[m] # NULL, w.c[w.u[m].nick] \in Clones
      PROVE  w.u[w.c[w.u[m].nick]].ts <= w.u[m].ts
  <2>1. m \in Net!Numerics /\ w.c[w.u[m].nick] \in Net!Numerics \ {n}
    BY <1>0, <1>3, <1>6 DEF Kinds
  <2> QED BY <1>1, <1>3, <1>6, <2>1 DEF Numbered
<1> QED BY <1>4, <1>5, <1>6 DEF Numbered

\* Somebody comes with a nick that finds nobody.
LEMMA NewNumbered ==
  ASSUME NetTame, NEW v, Sound(v), Numbered(v), NEW w, NEW n \in Net!Numerics \ Services, v.u[n] = NULL,
         NEW r \in Known, v.c[r.nick] = NULL,
         w.u = Put(v.u, n, r), w.c = Put(v.c, r.nick, n)
  PROVE  Numbered(w)
<1>0. /\ v.u \in [Net!Numerics -> Known \cup {NULL}] /\ v.c \in [Nicks -> Net!Numerics \cup {NULL}]
      /\ \A m \in Net!Numerics : v.u[m] # NULL => v.u[m] \in Known /\ v.u[m].nick \in Nicks
      /\ \A l \in Nicks : v.c[l] # NULL => v.u[v.c[l]] # NULL /\ v.u[v.c[l]].nick = l
      /\ Kinds /\ r.nick \in Nicks
  BY KindsHold DEF Sound, Views, Found, Known
<1>1. w.u[n] = r /\ w.c[r.nick] = n /\ \A m \in Net!Numerics \ {n} : w.u[m] = v.u[m]
  BY <1>0 DEF Put
<1>2. ASSUME NEW m \in Net!Numerics \ {n}, v.u[m] # NULL PROVE w.c[v.u[m].nick] = v.c[v.u[m].nick] /\ v.c[v.u[m].nick] # n
  <2> DEFINE l == v.u[m].nick
  <2>1. l # r.nick /\ l \in Nicks /\ n # NULL
    BY <1>0, <1>2 DEF Numbered, Kinds
  <2> HIDE DEF l
  <2>2. w.c[l] = v.c[l] /\ v.c[l] # n
    BY <1>0, <2>1 DEF Put
  <2> QED BY <2>2 DEF l
<1>4. \A m \in Net!Numerics : w.u[m] # NULL => w.c[w.u[m].nick] # NULL
  BY <1>0, <1>1, <1>2 DEF Numbered, Kinds
<1>5. \A m \in Net!Locals : w.u[m] # NULL => w.c[w.u[m].nick] = m
  BY <1>0, <1>1, <1>2 DEF Numbered, Kinds
<1>6. ASSUME NEW m \in Remote, w.u[m] # NULL, w.c[w.u[m].nick] \in Clones
      PROVE  w.u[w.c[w.u[m].nick]].ts <= w.u[m].ts
  <2>1. m \in Net!Numerics /\ m # n
    BY <1>0, <1>1, <1>6 DEF Kinds
  <2>2. w.c[w.u[m].nick] \in Net!Numerics \ {n} /\ v.u[m] = w.u[m] /\ w.c[w.u[m].nick] = v.c[v.u[m].nick]
    BY <1>0, <1>1, <1>2, <1>6, <2>1 DEF Kinds
  <2> QED BY <1>1, <1>6, <2>1, <2>2 DEF Numbered
<1> QED BY <1>4, <1>5, <1>6 DEF Numbered

\* A user of the network comes who loses the nick to somebody older.
LEMMA LoserNumbered ==
  ASSUME NetTame, NEW v, Sound(v), Numbered(v), NEW w, NEW n \in Remote, v.u[n] = NULL,
         NEW r \in Known, v.c[r.nick] # NULL, v.c[r.nick] \in Clones => v.u[v.c[r.nick]].ts <= r.ts,
         w.u = Put(v.u, n, r), w.c = v.c
  PROVE  Numbered(w)
<1>0. /\ v.u \in [Net!Numerics -> Known \cup {NULL}] /\ v.c \in [Nicks -> Net!Numerics \cup {NULL}]
      /\ \A m \in Net!Numerics : v.u[m] # NULL => v.u[m] \in Known /\ v.u[m].nick \in Nicks
      /\ \A l \in Nicks : v.c[l] # NULL => v.u[v.c[l]] # NULL /\ v.u[v.c[l]].nick = l
      /\ Kinds /\ r.nick \in Nicks /\ n \in Net!Numerics
  BY KindsHold DEF Sound, Views, Found, Known, Kinds
<1>1. w.u[n] = r /\ \A m \in Net!Numerics \ {n} : w.u[m] = v.u[m]
  BY <1>0 DEF Put
<1>4. \A m \in Net!Numerics : w.u[m] # NULL => w.c[w.u[m].nick] # NULL
  BY <1>0, <1>1 DEF Numbered, Kinds
<1>5. \A m \in Net!Locals : w.u[m] # NULL => w.c[w.u[m].nick] = m
  BY <1>0, <1>1 DEF Numbered, Kinds
<1>6. ASSUME NEW m \in Remote, w.u[m] # NULL, w.c[w.u[m].nick] \in Clones
      PROVE  w.u[w.c[w.u[m].nick]].ts <= w.u[m].ts
  <2>1. m \in Net!Numerics /\ w.c[w.u[m].nick] \in Net!Numerics \ {n}
    BY <1>0, <1>6 DEF Kinds
  <2>2. CASE m = n
    BY <1>1, <1>6, <2>1, <2>2
  <2>3. CASE m # n
    BY <1>1, <1>6, <2>1, <2>3 DEF Numbered
  <2> QED BY <2>2, <2>3
<1> QED BY <1>4, <1>5, <1>6 DEF Numbered

\* Records change, but not whose they are.
LEMMA SameNumbered ==
  ASSUME NetTame, NEW v, Sound(v), Numbered(v), NEW w, w.c = v.c,
         \A n \in Net!Numerics : /\ w.u[n] = NULL <=> v.u[n] = NULL
                                 /\ v.u[n] # NULL => w.u[n].nick = v.u[n].nick /\ (n \notin Services => w.u[n].ts = v.u[n].ts)
  PROVE  Numbered(w)
<1>0. /\ v.u \in [Net!Numerics -> Known \cup {NULL}] /\ v.c \in [Nicks -> Net!Numerics \cup {NULL}]
      /\ \A m \in Net!Numerics : v.u[m] # NULL => v.u[m] \in Known /\ v.u[m].nick \in Nicks
      /\ \A l \in Nicks : v.c[l] # NULL => v.u[v.c[l]] # NULL /\ v.u[v.c[l]].nick = l
      /\ Kinds
  BY KindsHold DEF Sound, Views, Found, Known
<1>4. \A m \in Net!Numerics : w.u[m] # NULL => w.c[w.u[m].nick] # NULL
  BY <1>0 DEF Numbered
<1>5. \A m \in Net!Locals : w.u[m] # NULL => w.c[w.u[m].nick] = m
  BY <1>0 DEF Numbered, Kinds
<1>6. ASSUME NEW m \in Remote, w.u[m] # NULL, w.c[w.u[m].nick] \in Clones
      PROVE  w.u[w.c[w.u[m].nick]].ts <= w.u[m].ts
  <2>1. m \in Net!Numerics \ Services /\ w.c[w.u[m].nick] \in Net!Numerics \ Services
    BY <1>0, <1>6 DEF Kinds
  <2>2. v.u[m] # NULL /\ w.u[m].nick = v.u[m].nick /\ w.u[m].ts = v.u[m].ts
    BY <1>6, <2>1
  <2>3. v.u[v.c[v.u[m].nick]] # NULL
    <3>1. v.u[m].nick \in Nicks /\ v.c[v.u[m].nick] # NULL
      BY <1>0, <1>6, <2>1, <2>2 DEF Kinds
    <3> QED BY <1>0, <3>1
  <2>4. w.u[w.c[w.u[m].nick]].ts = v.u[v.c[v.u[m].nick]].ts
    BY <2>1, <2>2, <2>3
  <2> QED BY <1>6, <2>2, <2>4 DEF Numbered
<1> QED BY <1>4, <1>5, <1>6 DEF Numbered

\* A user's record, the NICK of a new user, and the NICK and the end of one who has a record.
Entry(nick, ts, hides) == [nick |-> nick, ts |-> ts, invis |-> hides]
Introduces(n, ts, nick) == [type |-> "NICK", who |-> n, ts |-> ts, nick |-> nick]
NickOf(u, n) == [type |-> "NICK", who |-> n, ts |-> u[n].ts, nick |-> u[n].nick]
EndOf(u, n)  == [type |-> IF n \in Net!Locals THEN "QUIT" ELSE "KILL", who |-> n, ts |-> 0, nick |-> u[n].nick]

\* A message is appended to what is under way (putsock).
LEMMA SendsDoes ==
  ASSUME NEW v \in Views, NEW type, NEW n, NEW ts, NEW nick
  PROVE  LET w == Net!Sends(v, type, n, ts, nick)
         IN  w.u = v.u /\ w.c = v.c /\ w.i = v.i /\ w.o = Append(v.o, [type |-> type, who |-> n, ts |-> ts, nick |-> nick])
BY DEF Views, Net!Sends

\* irc_user sends the NICK of the record.
LEMMA IrcUserDoes ==
  ASSUME NEW v \in Views, NEW n
  PROVE  LET w == Net!IrcUser(v, n) IN w.u = v.u /\ w.c = v.c /\ w.o = Append(v.o, NickOf(v.u, n))
BY SendsDoes DEF Net!IrcUser, NickOf

\* DelUser clears the record, frees the nick, and sends the QUIT or KILL if it is to be announced.
LEMMA DelUserDoes ==
  ASSUME NEW v \in Views, NEW n \in Net!Numerics, v.u[n] # NULL, NEW announce \in BOOLEAN
  PROVE  LET w == Net!DelUser(v, n, announce)
         IN  /\ w.u = [v.u EXCEPT ![n] = NULL] /\ w.c = Net!Removed(v, n)
             /\ w.o = IF announce THEN Append(v.o, EndOf(v.u, n)) ELSE v.o
<1> DEFINE i == IF v.u[n].invis THEN v.i - 1 ELSE v.i
           cc == Net!Removed(v, n)
           uu == [v.u EXCEPT ![n] = NULL]
           w == [v EXCEPT !.u = uu, !.c = cc, !.i = i]
           k == v.u[n].nick
<1>1. Net!DelUser(v, n, announce) = IF ~announce THEN w
         ELSE Net!Sends(w, IF n \in Net!Locals THEN "QUIT" ELSE "KILL", n, 0, k)
  BY DEF Net!DelUser, Views
<1> HIDE DEF cc, uu, i
<1>2. w.u = uu /\ w.c = cc /\ w.o = v.o /\ w = [u |-> uu, c |-> cc, i |-> i, o |-> v.o]
  <2> DEFINE w1 == [v EXCEPT !.u = uu]
             w2 == [w1 EXCEPT !.c = cc]
  <2>1. w1 = [u |-> uu, c |-> v.c, i |-> v.i, o |-> v.o]
    BY DEF Views
  <2>2. w = [w2 EXCEPT !.i = i]
    OBVIOUS
  <2> HIDE DEF w1, w
  <2>3. w2 = [u |-> uu, c |-> cc, i |-> v.i, o |-> v.o]
    BY <2>1
  <2> HIDE DEF w2
  <2> QED BY <2>2, <2>3
<1> HIDE DEF w
<1>3. LET x == Net!Sends(w, IF n \in Net!Locals THEN "QUIT" ELSE "KILL", n, 0, k)
      IN  x.u = w.u /\ x.c = w.c /\ x.o = Append(w.o, [type |-> IF n \in Net!Locals THEN "QUIT" ELSE "KILL", who |-> n, ts |-> 0, nick |-> k])
  BY <1>2 DEF Net!Sends
<1> QED BY <1>1, <1>2, <1>3, Zenon DEF EndOf, uu, cc

\* A new user, whose NICK is sent if they are local, takes a nick.
Told(v, n, nick, ts, hides) ==
  IF n \in Net!Locals THEN Net!IrcUser(Named(v, n, nick, ts, hides), n) ELSE Named(v, n, nick, ts, hides)

\* AddUser's record, its entry in clients, and the NICK of a local user.
LEMMA AddedDoes ==
  ASSUME NEW v, v \in Views, NEW n \in Net!Numerics, NEW nick, NEW ts, NEW hides
  PROVE  LET r == Entry(nick, ts, hides)
             w == Added(v, n, nick, ts, hides)
             x == Told(v, n, nick, ts, hides)
         IN  /\ w.u = Put(v.u, n, r) /\ w.c = v.c /\ w.o = v.o
             /\ x.u = Put(v.u, n, r) /\ x.c = Put(v.c, nick, n)
             /\ n \in Net!Locals => x.o = Append(v.o, Introduces(n, ts, nick))
             /\ n \notin Net!Locals => x.o = v.o
<1> DEFINE r == [nick |-> nick, ts |-> ts, invis |-> hides]
           uu == [v.u EXCEPT ![n] = r]
           i == IF hides THEN v.i + 1 ELSE v.i
           w == Added(v, n, nick, ts, hides)
           cc == [v.c EXCEPT ![nick] = n]
           y == Named(v, n, nick, ts, hides)
<1>1. w = [v EXCEPT !.u = uu, !.i = i]
  BY DEF Added, Views
<1>0. v.u \in [Net!Numerics -> Known \cup {NULL}] /\ uu[n] = r /\ r.ts = ts /\ r.nick = nick
  BY DEF Views
<1> HIDE DEF uu, i, r
<1>2. w.u = uu /\ w.c = v.c /\ w.o = v.o /\ w = [u |-> uu, c |-> v.c, i |-> i, o |-> v.o]
  BY <1>1, Zenon DEF Views
<1>3. y = [w EXCEPT !.c[nick] = n]
  BY DEF Named
<1> HIDE DEF w, y
<1>4. y = [u |-> uu, c |-> cc, i |-> i, o |-> v.o]
  BY <1>2, <1>3
<1> HIDE DEF cc
<1>5. LET x == Net!IrcUser(y, n) IN x.u = uu /\ x.c = cc /\ x.o = Append(v.o, [type |-> "NICK", who |-> n, ts |-> uu[n].ts, nick |-> uu[n].nick])
  BY <1>4 DEF Net!IrcUser, Net!Sends
<1>6. y.u = uu /\ y.c = cc /\ y.o = v.o
  BY <1>4
<1> QED BY <1>0, <1>2, <1>5, <1>6 DEF Told, y, w, uu, cc, r, Put, Entry, Introduces

\* AddUser: the nick is free, a service has it, the older of two stays, or the newcomer does without it.
LEMMA AddUserCases ==
  ASSUME NEW v, NEW n, NEW nick, NEW ts, NEW hides, NEW quiet
  PROVE  LET old == v.c[nick]
         IN  Net!AddUser(v, n, nick, ts, hides, quiet) =
               IF old = NULL THEN Told(v, n, nick, ts, hides)
               ELSE IF old \in Services
                 THEN LET w == Net!Outranks(v, old, ts) IN Added(IF quiet THEN w ELSE Net!IrcUser(w, old), n, nick, ts, hides)
               ELSE IF v.u[old].ts > ts THEN Told(Net!DelUser(v, old, TRUE), n, nick, ts, hides)
               ELSE Added(v, n, nick, ts, hides)
BY DEF Net!AddUser, Added, Named, Told

\* On the network a nick has one bearer.
Distinct(t) == \A n, m \in Net!Numerics : t[n] # NULL /\ t[m] # NULL /\ t[n].nick = t[m].nick => n = m

\* The inductive invariant: handlers leave a state in which nobody's views differ but for messages under way.
NetViews ==
  /\ UsersInv /\ Numbered(Net!View) /\ theirs \in [Net!Numerics -> Bearers \cup {NULL}]
  /\ linked = {} => \A n \in Net!Numerics : theirs[n] = NULL /\ (n \in Remote => users[n] = NULL)
  /\ linked # {} => "uplink" \in linked
  /\ linked # {} => Distinct(theirs) /\ Ways(users, theirs, out)

\* Users of the network change, with nothing sent.
LEMMA WaysRemote ==
  ASSUME NetTame, NEW u, NEW t, NEW o, Ways(u, t, o), NEW u2, NEW t2,
         \A n \in Net!Numerics \ Remote : t2[n] = t[n] /\ (n \in Clones => u2[n] = u[n]),
         \A n \in Remote : RemoteWay(u2[n], t2[n], o, n)
  PROVE  Ways(u2, t2, o)
<1>1. Kinds
  BY KindsHold
<1>2. ASSUME NEW n \in Net!Numerics PROVE OneWay(u2[n], t2[n], o, n)
  <2>1. OneWay(u[n], t[n], o, n)
    BY DEF Ways
  <2> QED BY <1>1, <2>1 DEF OneWay, Kinds
<1>3. \A c, d \in Clones : c # d => PairWay(t2[d], o, c, d)
  <2>1. \A d \in Clones : t2[d] = t[d]
    BY <1>1 DEF Kinds
  <2> QED BY <2>1 DEF Ways
<1> QED BY <1>2, <1>3 DEF Ways

\* A message about somebody is sent.
LEMMA WaysAppend ==
  ASSUME NetTame, NEW u, NEW t, NEW o \in Seq(Messages), Ways(u, t, o), NEW u2, NEW t2, NEW m \in Messages,
         \A n \in Net!Numerics \ {m.who} : t2[n] = t[n] /\ (n \notin Services => u2[n] = u[n]),
         t2[m.who] \in {t[m.who], NULL}, OneWay(u2[m.who], t2[m.who], Append(o, m), m.who),
         m.type = "NICK" /\ m.who \in Clones => \A d \in Clones \ {m.who} : PairWay(t[d], Append(o, m), m.who, d)
  PROVE  Ways(u2, t2, Append(o, m))
<1> DEFINE p == Append(o, m)
<1>1. Kinds
  BY KindsHold
<1>2. ASSUME NEW n \in Net!Numerics, n # m.who PROVE OneWay(u2[n], t2[n], p, n)
  <2>1. OneWay(u[n], t[n], p, n)
    BY <1>2, OneAppend DEF Ways
  <2>2. t2[n] = t[n] /\ (n \notin Services => u2[n] = u[n])
    BY <1>2
  <2> HIDE DEF p
  <2> QED BY <1>1, <2>1, <2>2 DEF OneWay, Kinds
<1>3. ASSUME NEW c \in Clones, NEW d \in Clones, c # d PROVE PairWay(t2[d], p, c, d)
  <2>1. PairWay(t[d], p, c, d)
    <3>1. CASE m.type = "NICK" /\ m.who = c
      BY <1>3, <3>1
    <3>2. CASE ~(m.type = "NICK" /\ m.who = c)
      BY <1>3, <3>2, PairAppend DEF Ways
    <3> QED BY <3>1, <3>2
  <2>2. t2[d] = t[d] \/ t2[d] = NULL
    BY <1>1 DEF Kinds
  <2> HIDE DEF p
  <2> QED BY <2>1, <2>2 DEF PairWay
<1> QED BY <1>2, <1>3 DEF Ways

\* But for k, users of the network may change, and nobody else does.
Others(u, t, u2, t2, o, k) ==
  \A n \in Net!Numerics \ {k} :
    IF n \in Remote THEN RemoteWay(u2[n], t2[n], o, n) ELSE t2[n] = t[n] /\ (n \in Clones => u2[n] = u[n])

\* A message is read, and the users of the network whom it concerns change.
LEMMA WaysTail ==
  ASSUME NetTame, NEW u, NEW t, NEW o \in Seq(Messages), o # <<>>, Ways(u, t, o), NEW u2, NEW t2,
         Others(u, t, u2, t2, o, Head(o).who),
         OneWay(u2[Head(o).who], t2[Head(o).who], Tail(o), Head(o).who),
         t2[Head(o).who] = NULL \/ (Head(o).type = "NICK" /\ t2[Head(o).who].nick = Head(o).nick)
  PROVE  Ways(u2, t2, Tail(o))
<1>1. Kinds
  BY KindsHold
<1>2. ASSUME NEW n \in Net!Numerics, n # Head(o).who PROVE OneWay(u2[n], t2[n], Tail(o), n)
  <2>1. OneWay(u2[n], t2[n], o, n)
    <3>1. OneWay(u[n], t[n], o, n)
      BY DEF Ways
    <3> QED BY <1>1, <1>2, <3>1 DEF OneWay, Kinds, Others
  <2> QED BY <1>2, <2>1, OneTail
<1>3. ASSUME NEW c \in Clones, NEW d \in Clones, c # d PROVE PairWay(t2[d], Tail(o), c, d)
  <2>1. PairWay(t[d], o, c, d)
    BY <1>3 DEF Ways
  <2>2. Head(o) = o[1]
    BY TailIs
  <2>3. CASE d # Head(o).who
    <3>1. t2[d] = t[d]
      BY <1>1, <2>3 DEF Kinds, Others
    <3> QED BY <1>3, <2>1, <2>3, <3>1, PairTail
  <2>4. CASE d = Head(o).who
    <3>1. t2[d] = NULL \/ (Nicked(o, 1, d) /\ t2[d].nick = Head(o).nick)
      BY <2>2, <2>4 DEF Nicked
    <3> QED BY <1>3, <2>1, <3>1, PairTail
  <2> QED BY <2>3, <2>4
<1> QED BY <1>2, <1>3 DEF Ways

\* What a handler passes on becomes the state.
LEMMA BecomesViews ==
  ASSUME NetTame, NetViews, UsersInv', NEW w, users' = w.u, clients' = w.c, out' = w.o, Numbered(w),
         theirs' \in [Net!Numerics -> Bearers \cup {NULL}],
         linked' = {} => \A n \in Net!Numerics : theirs'[n] = NULL /\ (n \in Remote => w.u[n] = NULL),
         linked' = linked \/ "uplink" \in linked' \/ linked' = {},
         linked' # {} => Distinct(theirs') /\ Ways(w.u, theirs', w.o)
  PROVE  NetViews'
<1>1. Net!View'.u = w.u /\ Net!View'.c = w.c
  BY DEF Net!View
<1>2. Numbered(Net!View')
  BY <1>1 DEF Numbered
<1>3. Numbered(Net!View)'
  BY <1>2 DEF Numbered, Net!Numerics, Net!Locals
<1>4. linked' # {} => Distinct(theirs') /\ Ways(users', theirs', out')
  OBVIOUS
<1>5. linked' = {} => \A n \in Net!Numerics : theirs'[n] = NULL /\ (n \in Remote => users'[n] = NULL)
  OBVIOUS
<1>6. linked' # {} => "uplink" \in linked'
  <2>1. linked # {} => "uplink" \in linked
    BY DEF NetViews
  <2> QED BY <2>1
<1> QED BY <1>3, <1>4, <1>5, <1>6, Zenon DEF NetViews, Net!Numerics, Net!Locals, Bearers, Distinct, Ways, OneWay, ServiceWay, RemoteWay, CloneWay, PairWay, Nicked, Ended

\* What is known of everybody.
LEMMA EverybodyIs ==
  ASSUME NetTame, NetViews
  PROVE  /\ Net!View \in Views /\ Sound(Net!View) /\ Kinds /\ now \in Int
         /\ Net!View.u = users /\ Net!View.c = clients /\ Net!View.o = out
         /\ out \in Seq(Messages) /\ users \in [Net!Numerics -> Known \cup {NULL}] /\ clients \in [Nicks -> Net!Numerics \cup {NULL}]
         /\ \A m \in Net!Numerics : users[m] # NULL => users[m].nick \in Nicks /\ clients[users[m].nick] # NULL
         /\ \A m \in Net!Numerics : users[m] # NULL => users[m].ts \in Int
         /\ \A l \in Nicks : clients[l] # NULL => users[clients[l]] # NULL /\ users[clients[l]].nick = l
         /\ \A m \in Net!Locals : users[m] # NULL => clients[users[m].nick] = m
         /\ \A m \in Remote : users[m] # NULL => linked # {}
         /\ \A m \in Net!Numerics : theirs[m] # NULL => linked # {} /\ theirs[m].ts \in Int /\ theirs[m].nick \in Nicks
         /\ \A s \in Services : s \in Nicks /\ clients[s] = s /\ users[s] # NULL /\ users[s].nick = s
<1>1. /\ Net!View \in Views /\ Sound(Net!View) /\ Kinds /\ now \in Int
      /\ Net!View.u = users /\ Net!View.c = clients /\ Net!View.o = out
  BY ViewIs, KindsHold DEF NetViews, UsersInv, Sound
<1>2. /\ out \in Seq(Messages) /\ users \in [Net!Numerics -> Known \cup {NULL}] /\ clients \in [Nicks -> Net!Numerics \cup {NULL}]
  BY ViewIs DEF NetViews
<1>3. \A m \in Net!Numerics : users[m] # NULL => users[m] \in Known /\ users[m].nick \in Nicks /\ users[m].ts \in Int
  BY <1>2 DEF Known
<1>4. /\ \A m \in Net!Numerics : users[m] # NULL => clients[users[m].nick] # NULL
      /\ \A m \in Net!Locals : users[m] # NULL => clients[users[m].nick] = m
  BY <1>1 DEF NetViews, Numbered
<1>5. /\ \A l \in Nicks : clients[l] # NULL => users[clients[l]] # NULL /\ users[clients[l]].nick = l
      /\ \A s \in Services : clients[s] = s /\ users[s] # NULL
  BY <1>1 DEF Sound, Found
<1>6. \A m \in Net!Numerics : theirs[m] # NULL => linked # {} /\ theirs[m].ts \in Int /\ theirs[m].nick \in Nicks
  BY DEF NetViews, Bearers
<1>7. \A m \in Remote : users[m] # NULL => linked # {}
  BY <1>1 DEF NetViews, Kinds
<1>8. \A s \in Services : s \in Nicks /\ users[s].nick = s
  BY <1>1, <1>5 DEF NetTame, Kinds
<1> QED BY <1>1, <1>2, <1>3, <1>4, <1>5, <1>6, <1>7, <1>8

\* What is known while linked: of users of the network services know what the network does; its nicks are borne by one.
LEMMA LinkedIs ==
  ASSUME NetTame, NetViews, linked # {}
  PROVE  /\ Distinct(theirs) /\ Ways(users, theirs, out)
         /\ \A n \in Net!Numerics : OneWay(users[n], theirs[n], out, n)
         /\ \A n \in Remote : RemoteWay(users[n], theirs[n], out, n)
         /\ \A n \in Remote : users[n] # NULL => theirs[n] # NULL /\ theirs[n].nick = users[n].nick /\ theirs[n].ts = users[n].ts
         /\ \A s \in Services : theirs[s] # NULL => theirs[s].nick = s
         /\ \A c \in Clones : theirs[c] # NULL => theirs[c].nick \notin Services
<1>1. Distinct(theirs) /\ Ways(users, theirs, out) /\ Kinds
  BY KindsHold DEF NetViews
<1>2. \A n \in Net!Numerics : OneWay(users[n], theirs[n], out, n)
  BY <1>1 DEF Ways
<1>3. /\ \A n \in Remote : RemoteWay(users[n], theirs[n], out, n)
      /\ \A s \in Services : ServiceWay(theirs[s], out, s)
      /\ \A c \in Clones : CloneWay(users[c], theirs[c], out, c)
  BY <1>1, <1>2 DEF OneWay, Kinds
<1>4. \A n \in Remote : users[n] # NULL => theirs[n] # NULL /\ theirs[n].nick = users[n].nick /\ theirs[n].ts = users[n].ts
  BY <1>3 DEF RemoteWay
<1>5. \A s \in Services : theirs[s] # NULL => theirs[s].nick = s
  BY <1>3 DEF ServiceWay
<1>6. \A c \in Clones : theirs[c] # NULL => theirs[c].nick \notin Services
  BY <1>3 DEF CloneWay
<1> QED BY <1>1, <1>2, <1>3, <1>4, <1>5, <1>6

\* Who is found by their nick is alone with it, unless they are local and the others lost it to them.
LEMMA AloneIs ==
  ASSUME NetTame, NetViews, NEW n \in Remote, users[n] # NULL, clients[users[n].nick] = n
  PROVE  \A m \in Net!Numerics \ {n} : users[m] # NULL => users[m].nick # users[n].nick
<1>1. linked # {} /\ Kinds /\ \A m \in Net!Locals : users[m] # NULL => clients[users[m].nick] = m
  BY EverybodyIs
<1>2. Distinct(theirs) /\ \A m \in Remote : users[m] # NULL => theirs[m] # NULL /\ theirs[m].nick = users[m].nick
  BY <1>1, LinkedIs
<1> QED BY <1>1, <1>2 DEF Distinct, Kinds

\* Whoever takes a nick that nobody else has is its only bearer.
LEMMA DistinctNew ==
  ASSUME NEW t \in [Net!Numerics -> Bearers \cup {NULL}], Distinct(t), NEW n \in Net!Numerics, NEW b, NEW t2,
         \A m \in Net!Numerics : t2[m] # NULL => m = n \/ t2[m] = t[m],
         \A m \in Net!Numerics \ {n} : t2[m] # NULL => t[m].nick # b.nick, t2[n] = b
  PROVE  Distinct(t2)
BY DEF Distinct

\* Losing users gives no nick a second bearer.
LEMMA DistinctLess ==
  ASSUME NEW t, Distinct(t), NEW t2, \A m \in Net!Numerics : t2[m] # NULL => t2[m] = t[m]
  PROVE  Distinct(t2)
BY DEF Distinct

\* A user of the network goes, by QUIT, or by KILL of services.
LEMMA RemoteGoes ==
  ASSUME NetTame, NetViews, NEW n \in Remote, users[n] # NULL, clients[users[n].nick] = n, NEW announce \in BOOLEAN
  PROVE  LET w == Net!DelUser(Net!View, n, announce)
         IN  /\ Numbered(w) /\ Sound(w) /\ w.u = [users EXCEPT ![n] = NULL] /\ w.c = [clients EXCEPT ![users[n].nick] = NULL]
             /\ w.o = IF announce THEN Append(out, EndOf(users, n)) ELSE out
             /\ linked # {} /\ EndOf(users, n) \in Messages /\ EndOf(users, n).type # "NICK"
<1>0. /\ Net!View \in Views /\ Sound(Net!View) /\ Net!View.u = users /\ Net!View.c = clients /\ Net!View.o = out
      /\ n \in Net!Numerics \ Services /\ linked # {} /\ users[n].nick \in Nicks
  BY EverybodyIs DEF Kinds
<1> DEFINE w == Net!DelUser(Net!View, n, announce)
<1>1. Sound(w)
  BY <1>0, DelUserIs, Zenon
<1>2. w.u = [users EXCEPT ![n] = NULL] /\ w.c = Net!Removed(Net!View, n) /\ w.o = IF announce THEN Append(out, EndOf(users, n)) ELSE out
  BY <1>0, DelUserDoes
<1> HIDE DEF w
<1>3. Net!Removed(Net!View, n) = [clients EXCEPT ![users[n].nick] = NULL]
  BY <1>0 DEF Net!Removed
<1>4. Numbered(w)
  BY <1>0, <1>2, AloneIs, GoneNumbered DEF NetViews
<1>5. EndOf(users, n) \in Messages /\ EndOf(users, n).type # "NICK"
  BY <1>0 DEF EndOf, Messages
<1> QED BY <1>0, <1>1, <1>2, <1>3, <1>4, <1>5 DEF w

\* NICK of somebody who has one.
LEMMA RenameViews ==
  ASSUME NetTame, NetViews, UsersInv', NEW n \in Remote, NEW nick \in Nicks, Net!Rename(n, nick)
  PROVE  NetViews'
<1> DEFINE b == [nick |-> nick, ts |-> now]
<1>0. /\ theirs[n] # NULL /\ clients[nick] = NULL /\ linked' = linked /\ theirs' = [theirs EXCEPT ![n] = b]
      /\ users[n] = NULL \/ Net!Origin(n) = n
      /\ \A m \in Net!Numerics : theirs[m] # NULL => theirs[m].nick # nick
  BY DEF Net!Rename, NetTame, Net!Present, Net!Holds, Net!MayMove
<1>1. /\ n \in Net!Numerics \ Services /\ linked # {} /\ now \in Int /\ Kinds
      /\ Net!View.u = users /\ Net!View.c = clients /\ Net!View.o = out /\ Sound(Net!View)
      /\ users \in [Net!Numerics -> Known \cup {NULL}] /\ clients \in [Nicks -> Net!Numerics \cup {NULL}]
      /\ theirs \in [Net!Numerics -> Bearers \cup {NULL}]
  BY <1>0, EverybodyIs DEF Kinds, NetViews
<1>2. b \in Bearers /\ b.nick = nick /\ b.ts = now /\ b # NULL
  BY <1>1 DEF Bearers, NetTame
<1> HIDE DEF b
<1>3. theirs' \in [Net!Numerics -> Bearers \cup {NULL}] /\ theirs'[n] = b /\ \A m \in Net!Numerics \ {n} : theirs'[m] = theirs[m]
  BY <1>0, <1>1, <1>2
<1>4. Distinct(theirs')
  BY <1>0, <1>1, <1>2, <1>3, LinkedIs DEF Distinct
<1>5. CASE users[n] = NULL
  <2>1. users' = users /\ clients' = clients /\ out' = out
    BY <1>1, <1>5 DEF Net!Rename, Net!Origin, Net!Becomes
  <2>2. RemoteWay(users[n], theirs[n], out, n)
    BY <1>1, LinkedIs
  <2>3. RemoteWay(users[n], theirs'[n], out, n)
    BY <1>0, <1>5, <2>2 DEF RemoteWay
  <2>4. Ways(users, theirs', out)
    <3>1. \A m \in Net!Numerics \ Remote : theirs'[m] = theirs[m]
      BY <1>3
    <3>2. \A m \in Remote : RemoteWay(users[m], theirs'[m], out, m)
      BY <1>1, <1>3, <2>3, LinkedIs DEF Kinds
    <3> QED BY <1>1, <3>1, <3>2, LinkedIs, WaysRemote
  <2>5. Numbered(Net!View)
    BY DEF NetViews
  <2> QED BY <1>0, <1>1, <1>3, <1>4, <2>1, <2>4, <2>5, BecomesViews, Zenon
<1>6. CASE users[n] # NULL
  <2> DEFINE w == Net!NickChange(Net!View, n, nick)
             r == Renamed(users[n], nick)
             x == Net!DelUser(Net!View, n, FALSE)
             k == users[n].nick
  <2>1. Net!Origin(n) = n /\ clients[k] = n /\ k \in Nicks
    BY <1>0, <1>1, <1>6, EverybodyIs DEF Net!Origin
  <2>2. users' = w.u /\ clients' = w.c /\ out' = w.o
    BY <1>1, <2>1 DEF Net!Rename, Net!Becomes, Kinds
  <2>3. /\ w.u = Put(users, n, r) /\ w.o = out /\ w.c = Put(Put(clients, k, NULL), nick, n)
        /\ r \in Known /\ r.nick = nick /\ r.ts = now
    BY <1>0, <1>1, <1>6, <2>1, NickChangeIs
  <2>4. Numbered(x) /\ Sound(x) /\ x.u = [users EXCEPT ![n] = NULL] /\ x.c = [clients EXCEPT ![k] = NULL]
    BY <1>6, <2>1, RemoteGoes, Zenon
  <2> HIDE DEF w, x, r
  <2>5. Numbered(w)
    <3>1. x.u[n] = NULL /\ x.c[r.nick] = NULL
      BY <1>0, <1>1, <2>3, <2>4
    <3>2. [[users EXCEPT ![n] = NULL] EXCEPT ![n] = r] = [users EXCEPT ![n] = r]
      BY <1>1, Zenon
    <3>3. w.u = Put(x.u, n, r)
      BY <2>3, <2>4, <3>2 DEF Put
    <3>4. w.c = Put(x.c, r.nick, n)
      BY <2>3, <2>4 DEF Put
    <3>5. NetTame /\ n \in Net!Numerics \ Services /\ r \in Known /\ Numbered(x) /\ Sound(x)
      BY <1>1, <2>3, <2>4
    <3> QED BY <3>1, <3>3, <3>4, <3>5, NewNumbered
  <2>6. Ways(w.u, theirs', out)
    <3>0. w.u[n] = r /\ r # NULL /\ \A m \in Net!Numerics \ {n} : w.u[m] = users[m]
      BY <1>1, <2>3 DEF NetTame, Put
    <3>1. \A m \in Net!Numerics \ Remote : theirs'[m] = theirs[m] /\ w.u[m] = users[m]
      BY <1>3, <3>0
    <3>2. RemoteWay(w.u[n], theirs'[n], out, n)
      <4>1. RemoteWay(users[n], theirs[n], out, n)
        BY <1>1, LinkedIs
      <4> QED BY <1>2, <1>3, <1>6, <2>3, <3>0, <4>1 DEF RemoteWay
    <3>3. \A m \in Remote : RemoteWay(w.u[m], theirs'[m], out, m)
      BY <1>1, <1>3, <3>0, <3>2, LinkedIs DEF Kinds
    <3> QED BY <1>1, <3>1, <3>3, LinkedIs, WaysRemote
  <2> QED BY <1>0, <1>1, <1>3, <1>4, <2>2, <2>3, <2>5, <2>6, BecomesViews, Zenon
<1> QED BY <1>5, <1>6

\* QUIT.
LEMMA QuitViews ==
  ASSUME NetTame, NetViews, UsersInv', NEW n \in Remote, Net!Quit(n)
  PROVE  NetViews'
<1>0. /\ theirs[n] # NULL /\ linked' = linked /\ theirs' = [theirs EXCEPT ![n] = NULL]
      /\ users[n] = NULL \/ Net!Origin(n) = n
  BY DEF Net!Quit, NetTame, Net!Present, Net!MayMove
<1>1. /\ n \in Net!Numerics \ Services /\ linked # {} /\ Kinds
      /\ Net!View.u = users /\ Net!View.c = clients /\ Net!View.o = out
      /\ users \in [Net!Numerics -> Known \cup {NULL}]
      /\ theirs \in [Net!Numerics -> Bearers \cup {NULL}]
  BY <1>0, EverybodyIs DEF Kinds, NetViews
<1>3. theirs' \in [Net!Numerics -> Bearers \cup {NULL}] /\ theirs'[n] = NULL /\ \A m \in Net!Numerics \ {n} : theirs'[m] = theirs[m]
  BY <1>0, <1>1
<1>4. Distinct(theirs')
  BY <1>1, <1>3, LinkedIs, DistinctLess
<1>5. \E w : users' = w.u /\ clients' = w.c /\ out' = w.o /\ Numbered(w) /\ w.u = [users EXCEPT ![n] = NULL] /\ w.o = out
  <2>1. CASE users[n] = NULL
    <3>1. users' = users /\ clients' = clients /\ out' = out
      BY <1>1, <2>1 DEF Net!Quit, Net!Origin, Net!Becomes
    <3>2. users = [users EXCEPT ![n] = NULL]
      BY <1>1, <2>1
    <3>3. Numbered(Net!View)
      BY DEF NetViews
    <3> QED BY <1>1, <3>1, <3>2, <3>3, Zenon
  <2>2. CASE users[n] # NULL
    <3> DEFINE w == Net!DelUser(Net!View, n, FALSE)
    <3>1. Net!Origin(n) = n /\ clients[users[n].nick] = n
      BY <1>0, <2>2 DEF Net!Origin
    <3>2. users' = w.u /\ clients' = w.c /\ out' = w.o
      BY <1>1, <3>1, Zenon DEF Net!Quit, Net!Becomes, Kinds
    <3>3. Numbered(w) /\ w.u = [users EXCEPT ![n] = NULL] /\ w.o = out
      BY <2>2, <3>1, RemoteGoes, Zenon
    <3> QED BY <3>2, <3>3, Zenon
  <2> QED BY <2>1, <2>2, Zenon
<1>6. PICK w : users' = w.u /\ clients' = w.c /\ out' = w.o /\ Numbered(w) /\ w.u = [users EXCEPT ![n] = NULL] /\ w.o = out
  BY <1>5
<1>7. Ways(w.u, theirs', out)
  <2>1. \A m \in Net!Numerics \ Remote : theirs'[m] = theirs[m] /\ w.u[m] = users[m]
    BY <1>1, <1>3, <1>6
  <2>2. \A m \in Remote : RemoteWay(w.u[m], theirs'[m], out, m)
    <3>1. RemoteWay(users[n], theirs[n], out, n)
      BY <1>1, LinkedIs
    <3>2. RemoteWay(NULL, NULL, out, n)
      BY <3>1 DEF RemoteWay
    <3> QED BY <1>1, <1>3, <1>6, <3>2, LinkedIs DEF Kinds
  <2> QED BY <1>1, <2>1, <2>2, LinkedIs, WaysRemote
<1> QED BY <1>0, <1>1, <1>3, <1>4, <1>6, <1>7, BecomesViews, Zenon

\* MODE +i and -i.
LEMMA UserModeViews ==
  ASSUME NetTame, NetViews, UsersInv', NEW n \in Remote, Net!UserMode(n)
  PROVE  NetViews'
<1> DEFINE w == [Net!View EXCEPT !.u[n].invis = ~@, !.i = IF users[n].invis THEN @ - 1 ELSE @ + 1]
           r == [users[n] EXCEPT !.invis = ~@]
<1>0. /\ theirs[n] # NULL /\ linked' = linked /\ theirs' = theirs /\ users[n] # NULL
      /\ users' = w.u /\ clients' = w.c /\ out' = w.o
  BY DEF Net!UserMode, Net!Present, Net!Becomes
<1>1. /\ n \in Net!Numerics \ Services /\ linked # {} /\ Kinds /\ Sound(Net!View)
      /\ Net!View.u = users /\ Net!View.c = clients /\ Net!View.o = out
      /\ users \in [Net!Numerics -> Known \cup {NULL}]
  BY <1>0, EverybodyIs DEF Kinds
<1>2. w.u = [users EXCEPT ![n] = r] /\ w.c = clients /\ w.o = out
  BY <1>1 DEF Net!View
<1>3. r.nick = users[n].nick /\ r.ts = users[n].ts /\ r # NULL
  <2>1. users[n] \in Known
    BY <1>0, <1>1
  <2>2. r \in Known /\ r.nick = users[n].nick /\ r.ts = users[n].ts
    BY <2>1, Zenon DEF Known
  <2> QED BY <2>2 DEF NetTame
<1> HIDE DEF w, r
<1>4. w.u[n] = r /\ \A m \in Net!Numerics \ {n} : w.u[m] = users[m]
  BY <1>1, <1>2
<1>5. Numbered(w)
  <2>1. \A m \in Net!Numerics : /\ w.u[m] = NULL <=> users[m] = NULL
                                /\ users[m] # NULL => w.u[m].nick = users[m].nick /\ w.u[m].ts = users[m].ts
    BY <1>0, <1>3, <1>4
  <2>2. Numbered(Net!View) /\ NetTame
    BY DEF NetViews
  <2>3. ASSUME NEW v, v = Net!View PROVE Numbered(w)
    <3>1. v.u = users /\ w.c = v.c /\ Sound(v) /\ Numbered(v)
      BY <1>1, <1>2, <2>2, <2>3
    <3> QED BY <2>1, <2>2, <3>1, SameNumbered
  <2> QED BY <2>3
<1>6. Ways(w.u, theirs, out)
  <2>1. \A m \in Net!Numerics \ Remote : w.u[m] = users[m]
    BY <1>4
  <2>2. RemoteWay(w.u[n], theirs[n], out, n)
    <3>1. RemoteWay(users[n], theirs[n], out, n)
      BY <1>1, LinkedIs
    <3> QED BY <1>0, <1>3, <1>4, <3>1 DEF RemoteWay
  <2>3. \A m \in Remote : RemoteWay(w.u[m], theirs[m], out, m)
    BY <1>1, <1>4, <2>2, LinkedIs DEF Kinds
  <2> QED BY <1>1, <2>1, <2>3, LinkedIs, WaysRemote
<1>7. theirs' \in [Net!Numerics -> Bearers \cup {NULL}] /\ Distinct(theirs')
  BY <1>0, <1>1, LinkedIs DEF NetViews
<1> QED BY <1>0, <1>1, <1>2, <1>5, <1>6, <1>7, BecomesViews, Zenon

\* KILL by services.
LEMMA KillViews ==
  ASSUME NetTame, NetViews, UsersInv', NEW n \in Remote, Net!KillUser(n)
  PROVE  NetViews'
<1> DEFINE w == Net!DelUser(Net!View, n, TRUE)
           m == EndOf(users, n)
<1>0. /\ users[n] # NULL /\ clients[users[n].nick] = n /\ linked' = linked /\ theirs' = theirs
      /\ users' = w.u /\ clients' = w.c /\ out' = w.o
  BY DEF Net!KillUser, Net!Origin, Net!Becomes
<1>1. /\ Numbered(w) /\ w.u = [users EXCEPT ![n] = NULL]
      /\ w.o = Append(out, m) /\ linked # {} /\ m \in Messages /\ m.type # "NICK"
  BY <1>0, RemoteGoes, Zenon
<1>2. m.who = n
  BY DEF EndOf
<1>3. /\ n \in Net!Numerics \ Services /\ users \in [Net!Numerics -> Known \cup {NULL}] /\ out \in Seq(Messages)
  BY EverybodyIs DEF Kinds
<1> HIDE DEF w, m
<1>4. Ways(w.u, theirs, Append(out, m))
  <2>1. w.u[n] = NULL /\ \A x \in Net!Numerics \ {n} : w.u[x] = users[x]
    BY <1>1, <1>3
  <2>2. OneWay(users[n], theirs[n], out, n)
    BY <1>1, <1>3, LinkedIs
  <2>3. OneWay(NULL, theirs[n], Append(out, m), n)
    BY <1>1, <1>2, <1>3, <2>2, EndWay, Zenon
  <2> QED BY <1>1, <1>2, <1>3, <2>1, <2>3, LinkedIs, WaysAppend, ZenonT(40)
<1>5. theirs' \in [Net!Numerics -> Bearers \cup {NULL}] /\ Distinct(theirs')
  BY <1>0, <1>1, LinkedIs DEF NetViews
<1> QED BY <1>0, <1>1, <1>4, <1>5, BecomesViews, Zenon

\* A clone goes.
LEMMA DelCloneViews ==
  ASSUME NetTame, NetViews, UsersInv', NEW n \in Clones, Net!DelClone(n)
  PROVE  NetViews'
<1> DEFINE w == Net!DelUser(Net!View, n, TRUE)
           m == EndOf(users, n)
           k == users[n].nick
<1>0. /\ users[n] # NULL /\ linked' = linked /\ theirs' = theirs /\ ~Net!Contested(k)
      /\ users' = w.u /\ clients' = w.c /\ out' = w.o
  BY DEF Net!DelClone, Net!Becomes, NetTame
<1>1. /\ n \in Net!Numerics \ Services /\ users \in [Net!Numerics -> Known \cup {NULL}] /\ out \in Seq(Messages)
      /\ Kinds /\ Net!View \in Views /\ Sound(Net!View) /\ Net!View.u = users /\ Net!View.c = clients /\ Net!View.o = out
      /\ clients[k] = n /\ k \in Nicks
  BY <1>0, EverybodyIs DEF Kinds
<1>2. w.u = [users EXCEPT ![n] = NULL] /\ w.c = Net!Removed(Net!View, n) /\ w.o = Append(out, m)
  BY <1>0, <1>1, DelUserDoes, Zenon
<1>3. m.who = n /\ m.type # "NICK" /\ m \in Messages
  BY <1>1 DEF EndOf, Messages
<1>4. Numbered(w)
  <2>1. \A x \in Net!Numerics \ {n} : users[x] # NULL => users[x].nick # k
    BY <1>0, <1>1, EverybodyIs DEF Kinds, Net!Contested
  <2>2. Numbered(Net!View)
    BY DEF NetViews
  <2> HIDE DEF w
  <2> QED BY <1>0, <1>1, <1>2, <2>1, <2>2, GoneNumbered, ZenonT(40)
<1> HIDE DEF w, m
<1>5. ASSUME linked # {} PROVE Ways(w.u, theirs, Append(out, m))
  <2>1. w.u[n] = NULL /\ \A x \in Net!Numerics \ {n} : w.u[x] = users[x]
    BY <1>1, <1>2
  <2>2. OneWay(users[n], theirs[n], out, n)
    BY <1>1, <1>5, LinkedIs
  <2>3. OneWay(NULL, theirs[n], Append(out, m), n)
    BY <1>1, <1>3, <2>2, EndWay, Zenon
  <2> QED BY <1>1, <1>3, <1>5, <2>1, <2>3, LinkedIs, WaysAppend
<1>6. theirs' \in [Net!Numerics -> Bearers \cup {NULL}] /\ (linked' # {} => Distinct(theirs'))
  BY <1>0, LinkedIs DEF NetViews
<1>7. linked' = {} => \A x \in Net!Numerics : theirs'[x] = NULL /\ (x \in Remote => w.u[x] = NULL)
  BY <1>0, <1>1, <1>2 DEF NetViews
<1> QED BY <1>0, <1>2, <1>4, <1>5, <1>6, <1>7, BecomesViews, Zenon

\* A clone comes with a nick that nobody is found by, and nothing but the QUIT of an earlier clone under way about it.
LEMMA CloneComes ==
  ASSUME NetTame, NEW v, Sound(v), Numbered(v), NEW n \in Clones, v.u[n] = NULL, NEW nick \in Nicks, v.c[nick] = NULL,
         NEW ts \in Int, NEW t, \A i \in 1..Len(v.o) : ~Nicked(v.o, i, n)
  PROVE  LET w == Told(v, n, nick, ts, TRUE)
         IN  /\ Numbered(w) /\ (Ways(v.u, t, v.o) => Ways(w.u, t, w.o))
             /\ \A m \in Net!Numerics \ {n} : w.u[m] = v.u[m]
<1> DEFINE w == Told(v, n, nick, ts, TRUE)
           r == Entry(nick, ts, TRUE)
           m == Introduces(n, ts, nick)
<1>0. /\ v \in Views /\ v.u \in [Net!Numerics -> Known \cup {NULL}] /\ v.o \in Seq(Messages) /\ Kinds
      /\ n \in Net!Numerics \ Services /\ n \in Net!Locals
      /\ \A s \in Services : v.c[s] = s
  BY KindsHold DEF Sound, Views, Kinds, Found
<1>1. w.u = Put(v.u, n, r) /\ w.c = Put(v.c, nick, n) /\ w.o = Append(v.o, m)
  <2> DEFINE hides == TRUE
  <2> HIDE DEF hides
  <2>1. LET x == Told(v, n, nick, ts, hides)
        IN  x.u = Put(v.u, n, Entry(nick, ts, hides)) /\ x.c = Put(v.c, nick, n) /\ x.o = Append(v.o, m)
    <3>1. v \in Views /\ n \in Net!Numerics /\ n \in Net!Locals
      BY <1>0
    <3>2. Told(v, n, nick, ts, hides).u = Put(v.u, n, Entry(nick, ts, hides))
      BY <3>1, AddedDoes
    <3>3. Told(v, n, nick, ts, hides).c = Put(v.c, nick, n)
      BY <3>1, AddedDoes
    <3>4. Told(v, n, nick, ts, hides).o = Append(v.o, m)
      BY <3>1, AddedDoes
    <3> QED BY <3>2, <3>3, <3>4
  <2> QED BY <2>1, Zenon DEF hides
<1>2. r \in Known /\ r.nick = nick /\ r.ts = ts
  BY DEF Known, Entry
<1>3. m \in Messages /\ m.who = n /\ m.type = "NICK" /\ m.nick = nick /\ m.ts = ts
  BY <1>0 DEF Messages, Introduces
<1> HIDE DEF w, r, m
<1>4. Numbered(w)
  <2>1. w.c = Put(v.c, r.nick, n) /\ v.c[r.nick] = NULL /\ NetTame
    BY <1>1, <1>2
  <2> QED BY <1>0, <1>1, <1>2, <2>1, NewNumbered
<1>5. w.u[n] = r /\ \A x \in Net!Numerics \ {n} : w.u[x] = v.u[x]
  BY <1>0, <1>1 DEF Put
<1>6. nick \notin Services
  BY <1>0 DEF Kinds, Net!Numerics, Net!Locals
<1>7. ASSUME Ways(v.u, t, v.o) PROVE Ways(w.u, t, w.o)
  <2>1. OneWay(NULL, t[n], v.o, n)
    BY <1>0, <1>7 DEF Ways
  <2>2. OneWay(r, t[n], Append(v.o, m), n)
    BY <1>0, <1>2, <1>3, <1>6, <2>1, CloneNickWay, Zenon
  <2>3. ASSUME NEW d \in Clones \ {n} PROVE PairWay(t[d], Append(v.o, m), n, d)
    <3>1. OneWay(v.u[d], t[d], v.o, d) /\ PairWay(t[d], v.o, n, d)
      BY <1>0, <1>7, <2>3 DEF Ways, Kinds
    <3>2. v.u[d] = NULL \/ v.u[d].nick # nick
      BY <1>0, <2>3 DEF Numbered, Kinds
    <3> QED BY <1>0, <1>3, <2>3, <3>1, <3>2, CloneNickPair
  <2>4. t[m.who] \in {t[m.who], NULL} /\ OneWay(w.u[m.who], t[m.who], Append(v.o, m), m.who)
    BY <1>3, <1>5, <2>2
  <2>5. \A x \in Net!Numerics \ {m.who} : t[x] = t[x] /\ (x \notin Services => w.u[x] = v.u[x])
    BY <1>3, <1>5
  <2>6. \A d \in Clones \ {m.who} : PairWay(t[d], Append(v.o, m), m.who, d)
    BY <1>3, <2>3
  <2>7. Ways(w.u, t, Append(v.o, m))
    BY <1>0, <1>3, <1>7, <2>4, <2>5, <2>6, WaysAppend
  <2> QED BY <1>1, <2>7
<1> QED BY <1>4, <1>5, <1>7, Zenon DEF w

\* AddClone, for a nick that is free or that somebody on the network has.
LEMMA AddCloneViews ==
  ASSUME NetTame, NetViews, UsersInv', NEW n \in Clones, NEW nick \in Nicks, Net!AddClone(n, nick)
  PROVE  NetViews'
<1> DEFINE old == clients[nick]
           ts  == IF old = NULL THEN now ELSE users[old].ts - 1
           v   == IF old = NULL THEN Net!View ELSE Net!DelUser(Net!View, old, TRUE)
           w   == Told(v, n, nick, ts, TRUE)
<1>0. /\ users[n] = NULL /\ linked' = linked /\ theirs' = theirs /\ old \in Remote \cup {NULL}
      /\ \A i \in DOMAIN out : out[i].who = n => out[i].type # "NICK"
      /\ Net!Becomes(Net!AddUser(Net!View, n, nick, ts, TRUE, FALSE))
  BY Zenon DEF Net!AddClone, NetTame
<1>1. /\ n \in Net!Numerics \ Services /\ users \in [Net!Numerics -> Known \cup {NULL}] /\ out \in Seq(Messages)
      /\ Kinds /\ Sound(Net!View) /\ Net!View.u = users /\ Net!View.c = clients /\ Net!View.o = out
      /\ clients \in [Nicks -> Net!Numerics \cup {NULL}]
  BY EverybodyIs DEF Kinds
<1>1a. now \in Int /\ theirs \in [Net!Numerics -> Bearers \cup {NULL}] /\ \A i \in 1..Len(out) : ~Nicked(out, i, n)
  BY <1>0, <1>1, EverybodyIs DEF NetViews, Nicked
<1>2. ASSUME old # NULL
      PROVE  /\ users[old] # NULL /\ users[old].ts \in Int /\ users[old].nick = nick /\ old \in Remote /\ linked # {}
             /\ old \in Net!Numerics /\ old \notin Services
  BY <1>0, <1>1, <1>2, EverybodyIs DEF Kinds
<1>3. ts \in Int
  BY <1>1a, <1>2
<1>4. Net!AddUser(Net!View, n, nick, ts, TRUE, FALSE) = w
  <2>1. CASE old = NULL
    BY <1>1, <2>1, AddUserCases, Zenon
  <2>2. CASE old # NULL
    <3>1. users[old].ts > ts /\ old \notin Services
      BY <1>2, <2>2
    <3> QED BY <1>1, <2>2, <3>1, AddUserCases, Zenon
  <2> QED BY <2>1, <2>2, Zenon
<1> HIDE DEF ts
<1>5. /\ Sound(v) /\ Numbered(v) /\ v.u[n] = NULL /\ v.c[nick] = NULL /\ \A i \in 1..Len(v.o) : ~Nicked(v.o, i, n)
      /\ \A x \in Remote : users[x] = NULL => v.u[x] = NULL
      /\ linked # {} => Ways(v.u, theirs, v.o)
  <2>1. CASE old = NULL
    <3>1. Numbered(Net!View)
      BY DEF NetViews
    <3> QED BY <1>0, <1>1, <1>1a, <2>1, <3>1, LinkedIs
  <2>2. CASE old # NULL
    <3> DEFINE m == EndOf(users, old)
               x == Net!DelUser(Net!View, old, TRUE)
    <3> HIDE DEF old
    <3>1. clients[users[old].nick] = old
      BY <1>2, <2>2 DEF old
    <3>2. /\ Numbered(x) /\ Sound(x) /\ x.u = [users EXCEPT ![old] = NULL] /\ x.c = [clients EXCEPT ![users[old].nick] = NULL]
          /\ x.o = Append(out, m) /\ m \in Messages /\ m.type # "NICK"
      BY <1>2, <2>2, <3>1, RemoteGoes, Zenon
    <3>3. m.who = old /\ old # n
      BY <1>0, <1>2, <2>2 DEF EndOf
    <3> HIDE DEF m, x
    <3>4. x.u[n] = NULL /\ x.c[nick] = NULL /\ x.u[old] = NULL /\ \A y \in Net!Numerics \ {old} : x.u[y] = users[y]
      BY <1>0, <1>1, <1>2, <2>2, <3>2, <3>3
    <3>5. \A i \in 1..Len(x.o) : ~Nicked(x.o, i, n)
      BY <1>1, <1>1a, <3>2, <3>3, AppendIs DEF Nicked
    <3>6. linked # {} => Ways(x.u, theirs, x.o)
      <4> SUFFICES ASSUME linked # {} PROVE Ways(x.u, theirs, x.o)
        OBVIOUS
      <4>1. OneWay(users[old], theirs[old], out, old)
        BY <1>2, <2>2, LinkedIs
      <4>2. OneWay(NULL, theirs[old], Append(out, m), old)
        BY <1>1, <1>2, <2>2, <3>2, <3>3, <4>1, EndWay, Zenon
      <4>3. /\ \A y \in Net!Numerics \ {m.who} : theirs[y] = theirs[y] /\ (y \notin Services => x.u[y] = users[y])
            /\ theirs[m.who] \in {theirs[m.who], NULL} /\ OneWay(x.u[m.who], theirs[m.who], Append(out, m), m.who)
        BY <3>3, <3>4, <4>2
      <4>4. NetTame /\ Ways(users, theirs, out) /\ m \in Messages /\ m.type # "NICK" /\ out \in Seq(Messages)
        BY <1>1, <3>2, LinkedIs
      <4>5. Ways(x.u, theirs, Append(out, m))
        BY <4>3, <4>4, WaysAppend
      <4> QED BY <3>2, <4>5
    <3>7. \A y \in Remote : users[y] = NULL => x.u[y] = NULL
      BY <1>1, <3>4 DEF Kinds
    <3> QED BY <2>2, <3>2, <3>4, <3>5, <3>6, <3>7, Zenon DEF x
  <2> QED BY <2>1, <2>2, Zenon
<1> HIDE DEF v, w
<1>6. /\ Numbered(w) /\ (linked # {} => Ways(w.u, theirs, w.o)) /\ \A m \in Net!Numerics \ {n} : w.u[m] = v.u[m]
  BY <1>3, <1>5, CloneComes, Zenon DEF w
<1>7. users' = w.u /\ clients' = w.c /\ out' = w.o
  BY <1>0, <1>4, Zenon DEF Net!Becomes
<1>8. theirs' \in [Net!Numerics -> Bearers \cup {NULL}] /\ (linked' # {} => Distinct(theirs'))
  BY <1>0, <1>1a, LinkedIs
<1>9. linked' = {} => \A x \in Net!Numerics : theirs'[x] = NULL /\ (x \in Remote => w.u[x] = NULL)
  BY <1>0, <1>1, <1>5, <1>6 DEF NetViews, Kinds
<1> QED BY <1>0, <1>6, <1>7, <1>8, <1>9, BecomesViews

\* Users of the network go, all that a server had: whoever keeps a nick had it before.
LEMMA SplitNumbered ==
  ASSUME NetTame, NetViews, NEW ns \in SUBSET Remote, NEW w,
         \A m \in Net!Numerics : w.u[m] = IF m \in ns THEN NULL ELSE users[m],
         \A k \in Nicks : w.c[k] = IF clients[k] \in ns THEN NULL ELSE clients[k]
  PROVE  Numbered(w)
<1>0. /\ Kinds /\ users \in [Net!Numerics -> Known \cup {NULL}] /\ clients \in [Nicks -> Net!Numerics \cup {NULL}]
      /\ \A m \in Net!Numerics : users[m] # NULL => users[m].nick \in Nicks /\ clients[users[m].nick] # NULL
      /\ \A l \in Nicks : clients[l] # NULL => users[clients[l]] # NULL /\ users[clients[l]].nick = l
      /\ \A m \in Net!Locals : users[m] # NULL => clients[users[m].nick] = m
      /\ \A m \in Remote : users[m] # NULL => linked # {}
  BY EverybodyIs
<1>1. ASSUME NEW n \in Net!Numerics, w.u[n] # NULL
      PROVE  n \notin ns /\ users[n] # NULL /\ w.u[n] = users[n] /\ clients[users[n].nick] \notin ns
             /\ w.c[users[n].nick] = clients[users[n].nick]
  <2>1. n \notin ns /\ users[n] # NULL /\ w.u[n] = users[n] /\ users[n].nick \in Nicks
    BY <1>0, <1>1
  <2> DEFINE x == clients[users[n].nick]
  <2>2. x \in Net!Numerics /\ users[x] # NULL /\ users[x].nick = users[n].nick
    BY <1>0, <2>1
  <2>3. x \notin ns
    <3>1. CASE n \in Net!Locals
      BY <1>0, <2>1, <3>1
    <3>2. CASE n \in Remote
      <4> SUFFICES ASSUME x \in ns PROVE FALSE
        OBVIOUS
      <4>1. linked # {} /\ x \in Remote
        BY <1>0, <2>1, <3>2
      <4> HIDE DEF x
      <4>2. theirs[n] # NULL /\ theirs[x] # NULL /\ theirs[n].nick = theirs[x].nick
        BY <2>1, <2>2, <3>2, <4>1, LinkedIs
      <4>3. n = x
        BY <2>2, <4>1, <4>2, LinkedIs DEF Distinct
      <4> QED BY <2>1, <4>3
    <3> QED BY <1>0, <3>1, <3>2 DEF Kinds
  <2>4. w.c[users[n].nick] = x
    BY <2>1, <2>3
  <2> QED BY <2>1, <2>3, <2>4
<1>2. \A n \in Net!Numerics : w.u[n] # NULL => w.c[w.u[n].nick] # NULL
  BY <1>0, <1>1
<1>3. \A n \in Net!Locals : w.u[n] # NULL => w.c[w.u[n].nick] = n
  BY <1>0, <1>1 DEF Kinds
<1>4. ASSUME NEW m \in Remote, w.u[m] # NULL, w.c[w.u[m].nick] \in Clones
      PROVE  w.u[w.c[w.u[m].nick]].ts <= w.u[m].ts
  <2>1. /\ m \in Net!Numerics /\ users[m] # NULL /\ w.u[m] = users[m] /\ w.c[w.u[m].nick] = clients[users[m].nick]
        /\ clients[users[m].nick] \in Clones
    BY <1>0, <1>1, <1>4 DEF Kinds
  <2>2. users[clients[users[m].nick]].ts <= users[m].ts
    BY <2>1, EverybodyIs DEF NetViews, Numbered
  <2>3. w.u[clients[users[m].nick]] = users[clients[users[m].nick]]
    BY <1>0, <2>1 DEF Kinds
  <2> QED BY <2>1, <2>2, <2>3
<1> QED BY <1>2, <1>3, <1>4 DEF Numbered

\* SQUIT.
LEMMA NetsplitViews ==
  ASSUME NetTame, NetViews, UsersInv', Net!Netsplit
  PROVE  NetViews'
<1> DEFINE w == Net!WithoutUsers(Net!View, Leaves)
<1>0. /\ linked # {} /\ theirs' = [n \in Net!Numerics |-> IF n \in Leaves THEN NULL ELSE theirs[n]]
      /\ users' = w.u /\ clients' = w.c /\ out' = w.o
  BY DEF Net!Netsplit, Net!Gone, Net!Becomes
<1>1. /\ Leaves \in SUBSET Remote /\ Kinds /\ Sound(Net!View) /\ theirs \in [Net!Numerics -> Bearers \cup {NULL}]
      /\ Net!View.u = users /\ Net!View.c = clients /\ Net!View.o = out
  BY EverybodyIs DEF NetTame, NetViews
<1>2. /\ w.o = out
      /\ \A m \in Net!Numerics : w.u[m] = IF m \in Leaves THEN NULL ELSE users[m]
      /\ \A k \in Nicks : w.c[k] = IF clients[k] \in Leaves THEN NULL ELSE clients[k]
  BY <1>1, WithoutUsersIs
<1> HIDE DEF w
<1>3. Numbered(w)
  BY <1>1, <1>2, SplitNumbered, Zenon
<1>4. /\ theirs' \in [Net!Numerics -> Bearers \cup {NULL}]
      /\ \A n \in Net!Numerics : theirs'[n] = IF n \in Leaves THEN NULL ELSE theirs[n]
  BY <1>0, <1>1
<1>5. Distinct(theirs')
  BY <1>0, <1>4, LinkedIs, DistinctLess
<1>6. Ways(w.u, theirs', out)
  <2>1. \A n \in Net!Numerics \ Remote : theirs'[n] = theirs[n] /\ w.u[n] = users[n]
    BY <1>1, <1>2, <1>4
  <2>2. ASSUME NEW n \in Remote PROVE RemoteWay(w.u[n], theirs'[n], out, n)
    <3>1. RemoteWay(users[n], theirs[n], out, n) /\ n \in Net!Numerics
      BY <1>0, <1>1, LinkedIs DEF Kinds
    <3>2. CASE n \in Leaves
      <4>1. w.u[n] = NULL /\ theirs'[n] = NULL
        BY <1>2, <1>4, <3>1, <3>2
      <4> QED BY <3>1, <4>1 DEF RemoteWay
    <3>3. CASE n \notin Leaves
      BY <1>2, <1>4, <3>1, <3>3
    <3> QED BY <3>2, <3>3
  <2> QED BY <1>0, <2>1, <2>2, LinkedIs, WaysRemote
<1>7. linked' # {} /\ "uplink" \in linked'
  BY DEF Net!Netsplit, NetViews
<1> QED BY <1>0, <1>2, <1>3, <1>4, <1>5, <1>6, <1>7, BecomesViews

\* The link is lost.
LEMMA LinkLostViews ==
  ASSUME NetTame, NetViews, UsersInv', Net!LinkLost
  PROVE  NetViews'
<1> DEFINE v == Net!WithoutUsers(Net!View, Remote)
           none == <<>>
           w == [v EXCEPT !.o = none]
<1>0. /\ linked' = {} /\ theirs' = [n \in Net!Numerics |-> NULL]
      /\ users' = w.u /\ clients' = w.c /\ out' = w.o
  BY DEF Net!LinkLost, Net!Gone, Net!Becomes
<1>1. /\ Remote \in SUBSET Remote /\ Kinds /\ Sound(Net!View)
      /\ Net!View.u = users /\ Net!View.c = clients
  BY EverybodyIs
<1>2. /\ v \in Views
      /\ \A m \in Net!Numerics : v.u[m] = IF m \in Remote THEN NULL ELSE users[m]
      /\ \A k \in Nicks : v.c[k] = IF clients[k] \in Remote THEN NULL ELSE clients[k]
  BY <1>1, WithoutUsersIs DEF Sound
<1> HIDE DEF v, none
<1>3. w.u = v.u /\ w.c = v.c
  BY <1>2 DEF Views
<1> HIDE DEF w
<1>4. Numbered(w)
  <2>1. /\ \A m \in Net!Numerics : w.u[m] = IF m \in Remote THEN NULL ELSE users[m]
        /\ \A k \in Nicks : w.c[k] = IF clients[k] \in Remote THEN NULL ELSE clients[k]
    BY <1>2, <1>3
  <2> QED BY <1>1, <2>1, SplitNumbered, Zenon
<1>5. theirs' \in [Net!Numerics -> Bearers \cup {NULL}] /\ \A n \in Net!Numerics : theirs'[n] = NULL /\ (n \in Remote => w.u[n] = NULL)
  BY <1>0, <1>2, <1>3
<1> QED BY <1>0, <1>4, <1>5, BecomesViews

\* The link comes up, with a NICK for each local user.
LEMMA LinkUpViews ==
  ASSUME NetTame, NetViews, UsersInv', Net!LinkUp
  PROVE  NetViews'
<1>0. /\ linked = {} /\ linked' # {} /\ "uplink" \in linked' /\ theirs' = theirs /\ users' = users /\ clients' = clients
      /\ \A n \in Net!Numerics : theirs[n] = NULL /\ (n \in Remote => users[n] = NULL)
  BY DEF Net!LinkUp, NetViews
<1>1. /\ Kinds /\ Net!View.u = users /\ Net!View.c = clients
      /\ theirs \in [Net!Numerics -> Bearers \cup {NULL}] /\ Numbered(Net!View)
      /\ users \in [Net!Numerics -> Known \cup {NULL}]
      /\ \A m \in Net!Locals : users[m] # NULL => clients[users[m].nick] = m
      /\ \A s \in Services : s \in Nicks /\ clients[s] = s /\ users[s] # NULL /\ users[s].nick = s
  BY EverybodyIs DEF NetViews
<1> DEFINE num == Cardinality(Net!Online)
<1>2. PICK order \in [1..Net!Cardinality(Net!Online) -> Net!Online] :
        /\ \A i, j \in DOMAIN order : order[i] = order[j] => i = j
        /\ out' = [i \in DOMAIN order |-> [type |-> "NICK", who |-> order[i], ts |-> users[order[i]].ts, nick |-> users[order[i]].nick]]
  BY Zenon DEF Net!LinkUp
<1>3. Net!Cardinality(Net!Online) = num /\ num \in Nat /\ IsFiniteSet(Net!Online)
  <2>1. Net!Online \subseteq Services \cup Clones \cup Remote
    BY DEF Net!Online, Net!Locals
  <2>2. num \in Nat /\ IsFiniteSet(Net!Online)
    BY <2>1, FS_Subset, FS_CardinalityType DEF NetTame
  <2>3. Net!Cardinality(Net!Online) = Cardinality(Net!Online)
    BY DEF Net!Cardinality, Cardinality
  <2> QED BY <2>2, <2>3
<1>4. \A n \in Net!Online : \E i \in 1..num : order[i] = n
  <2>1. order \in [1..num -> Net!Online] /\ DOMAIN order = 1..num
    BY <1>2, <1>3
  <2>2. order \in Injection(1..num, Net!Online)
    BY <1>2, <2>1, Zenon DEF Injection, IsInjective
  <2>3. Cardinality(1..num) = num
    BY <1>3, FS_Interval
  <2>4. order \in Surjection(1..num, Net!Online)
    BY <1>3, <2>2, <2>3, FS_Injection
  <2> QED BY <2>4 DEF Surjection
<1> HIDE DEF num
<1>5. /\ Len(out') = num
      /\ \A i \in 1..num : /\ out'[i].who = order[i] /\ order[i] \in Net!Online /\ out'[i].type = "NICK"
                           /\ out'[i].nick = users[order[i]].nick /\ out'[i].ts = users[order[i]].ts
      /\ \A i, j \in 1..num : out'[i].who = out'[j].who => i = j
  BY <1>2, <1>3
<1>6. \A n \in Net!Online : n \in Net!Locals /\ n \in Net!Numerics /\ users[n] # NULL
  BY <1>1 DEF Net!Online, Kinds
<1>7. \A n \in Net!Locals : users[n] # NULL => n \in Net!Online
  BY DEF Net!Online
<1>8. ASSUME NEW n \in Net!Numerics PROVE OneWay(users[n], theirs[n], out', n)
  <2>1. n \in Services => ServiceWay(theirs[n], out', n)
    <3> SUFFICES ASSUME n \in Services PROVE ServiceWay(theirs[n], out', n)
      OBVIOUS
    <3>1. n \in Net!Online /\ users[n].nick = n
      BY <1>1, <1>7 DEF Kinds
    <3>2. \A i \in 1..Len(out') : out'[i].who = n => out'[i].type = "NICK" /\ out'[i].nick = n
      BY <1>5, <3>1
    <3>3. \E i \in 1..Len(out') : out'[i].who = n
      BY <1>4, <1>5, <3>1
    <3> QED BY <1>0, <3>2, <3>3 DEF ServiceWay
  <2>2. n \in Remote => RemoteWay(users[n], theirs[n], out', n)
    <3> SUFFICES ASSUME n \in Remote PROVE RemoteWay(users[n], theirs[n], out', n)
      OBVIOUS
    <3>1. users[n] = NULL /\ theirs[n] = NULL
      BY <1>0
    <3>2. \A i \in 1..Len(out') : out'[i].who # n
      BY <1>5, <1>6, <3>1
    <3> QED BY <3>1, <3>2 DEF RemoteWay
  <2>3. n \in Clones => CloneWay(users[n], theirs[n], out', n)
    <3> SUFFICES ASSUME n \in Clones PROVE CloneWay(users[n], theirs[n], out', n)
      OBVIOUS
    <3>1. \A i \in 1..Len(out') : ~Ended(out', i, n)
      BY <1>5 DEF Ended
    <3>2. \A i \in 1..Len(out') : Nicked(out', i, n) =>
            users[n] # NULL /\ out'[i].nick = users[n].nick /\ out'[i].ts = users[n].ts
      BY <1>5, <1>6 DEF Nicked
    <3>3. \A i, j \in 1..Len(out') : Nicked(out', i, n) /\ Nicked(out', j, n) => i = j
      BY <1>5 DEF Nicked
    <3>4. users[n] # NULL => users[n].nick \notin Services
      BY <1>1 DEF Kinds
    <3>5. users[n] # NULL => \E i \in 1..Len(out') : Nicked(out', i, n)
      BY <1>1, <1>4, <1>5, <1>7 DEF Kinds, Nicked
    <3> QED BY <1>0, <3>1, <3>2, <3>3, <3>4, <3>5 DEF CloneWay
  <2> QED BY <2>1, <2>2, <2>3 DEF OneWay
<1>9. ASSUME NEW c \in Clones, NEW d \in Clones, c # d PROVE PairWay(theirs[d], out', c, d)
  <2>1. theirs[d] = NULL
    BY <1>0, <1>1 DEF Kinds
  <2>2. ASSUME NEW i \in 1..Len(out'), Nicked(out', i, c), NEW j \in 1..Len(out'), Nicked(out', j, d), out'[j].nick = out'[i].nick
        PROVE  FALSE
    <3>1. order[i] = c /\ order[j] = d /\ users[c].nick = users[d].nick /\ users[c] # NULL /\ users[d] # NULL
      BY <1>5, <1>6, <2>2 DEF Nicked
    <3> QED BY <1>1, <1>9, <3>1 DEF Kinds
  <2> QED BY <2>1, <2>2 DEF PairWay
<1>10. Ways(users, theirs, out')
  BY <1>8, <1>9 DEF Ways
<1>11. Distinct(theirs)
  BY <1>0 DEF Distinct
<1> DEFINE w == [u |-> users, c |-> clients, o |-> out']
<1>12. w.u = users /\ w.c = clients /\ w.o = out'
  OBVIOUS
<1>13. Numbered(w)
  BY <1>1, <1>12 DEF Numbered
<1> HIDE DEF w
<1> QED BY <1>0, <1>1, <1>10, <1>11, <1>12, <1>13, BecomesViews

\* Servers and time.
LEMMA OtherViews ==
  ASSUME NetTame, NetViews, UsersInv',
         Net!ServerJoins \/ Net!Tick \/ UNCHANGED Net!vars \/ \E srv \in linked : Net!EndOfBurst(srv)
  PROVE  NetViews'
<1>0. users' = users /\ clients' = clients /\ out' = out /\ theirs' = theirs /\ (linked' = {} <=> linked = {})
  BY DEF Net!ServerJoins, Net!Tick, Net!vars, Net!EndOfBurst
<1>1. Net!View.u = users /\ Net!View.c = clients /\ Net!View.o = out
  BY EverybodyIs
<1>2. /\ theirs \in [Net!Numerics -> Bearers \cup {NULL}] /\ Numbered(Net!View)
      /\ linked = {} => \A n \in Net!Numerics : theirs[n] = NULL /\ (n \in Remote => users[n] = NULL)
      /\ linked # {} => Distinct(theirs) /\ Ways(users, theirs, out)
  BY DEF NetViews
<1>3. linked' = linked \/ "uplink" \in linked' \/ linked' = {}
  BY DEF Net!ServerJoins, Net!Tick, Net!vars, Net!EndOfBurst
<1>4. ASSUME NEW w, w = Net!View PROVE NetViews'
  <2>1. users' = w.u /\ clients' = w.c /\ out' = w.o /\ w.u = users /\ w.o = out
    BY <1>0, <1>1, <1>4
  <2>2. Numbered(w)
    BY <1>2, <1>4
  <2>3. theirs' \in [Net!Numerics -> Bearers \cup {NULL}]
    BY <1>0, <1>2
  <2>4. linked' = {} => \A n \in Net!Numerics : theirs'[n] = NULL /\ (n \in Remote => w.u[n] = NULL)
    BY <1>0, <1>1, <1>2, <2>1
  <2>5. linked' # {} => Distinct(theirs') /\ Ways(w.u, theirs', w.o)
    BY <1>0, <1>2, <2>1
  <2> QED BY <1>3, <2>1, <2>2, <2>3, <2>4, <2>5, BecomesViews
<1> QED BY <1>4

\* irc_user, for a service the network lacks or is to have once more.
LEMMA ServiceReturns ==
  ASSUME NetTame, NEW v, Sound(v), Numbered(v), NEW s \in Services, NEW t, Ways(v.u, t, v.o), NEW t2,
         \A n \in Net!Numerics \ {s} : t2[n] = t[n], t2[s] \in {t[s], NULL}
  PROVE  LET w == Net!IrcUser(v, s)
         IN  /\ Sound(w) /\ Numbered(w) /\ w.u = v.u /\ w.c = v.c
             /\ w.o = Append(v.o, NickOf(v.u, s)) /\ Ways(w.u, t2, w.o)
<1> DEFINE w == Net!IrcUser(v, s)
           m == NickOf(v.u, s)
<1>0. /\ v \in Views /\ v.u \in [Net!Numerics -> Known \cup {NULL}] /\ v.o \in Seq(Messages) /\ Kinds /\ s \in Net!Numerics
      /\ v.u[s] # NULL /\ v.u[s] \in Known /\ v.c[s] = s /\ s \in Nicks /\ v.u[s].nick = s /\ s # NULL
  <2>1. v \in Views /\ Found(v) /\ Kinds /\ s \in Nicks /\ s \in Net!Numerics /\ s # NULL
    BY KindsHold DEF NetTame, Sound, Kinds
  <2>2. v.u \in [Net!Numerics -> Known \cup {NULL}] /\ v.o \in Seq(Messages)
    BY <2>1 DEF Views
  <2>3. v.u[s] # NULL /\ v.c[s] = s /\ v.u[s].nick = s
    BY <2>1 DEF Found
  <2> QED BY <2>1, <2>2, <2>3
<1>1. w.u = v.u /\ w.c = v.c /\ w.o = Append(v.o, m)
  BY <1>0, IrcUserDoes
<1>2. Sound(w)
  BY <1>0, IrcUserIs
<1>3. m \in Messages /\ m.who = s /\ m.type = "NICK" /\ m.nick = s
  BY <1>0 DEF NickOf, Messages, Known
<1> HIDE DEF w, m
<1>4. Numbered(w)
  BY <1>1 DEF Numbered
<1>5. ServiceWay(t[s], v.o, s)
  BY <1>0 DEF Ways, OneWay
<1>6. OneWay(v.u[s], t2[s], Append(v.o, m), s)
  <2>1. t2[s] # NULL => t2[s].nick = s
    BY <1>5 DEF ServiceWay
  <2>2. \A i \in 1..Len(v.o) : v.o[i].who = m.who => v.o[i].type = "NICK" /\ v.o[i].nick = m.who
    BY <1>3, <1>5 DEF ServiceWay
  <2> QED BY <1>0, <1>3, <2>1, <2>2, ServiceNickWay, Zenon
<1>7. Ways(w.u, t2, Append(v.o, m))
  <2>1. \A n \in Net!Numerics \ {m.who} : t2[n] = t[n] /\ (n \notin Services => w.u[n] = v.u[n])
    BY <1>1, <1>3
  <2>2. t2[m.who] \in {t[m.who], NULL} /\ OneWay(w.u[m.who], t2[m.who], Append(v.o, m), m.who)
    BY <1>1, <1>3, <1>6
  <2>3. ~(m.type = "NICK" /\ m.who \in Clones)
    BY <1>0, <1>3 DEF Kinds
  <2> QED BY <1>0, <1>3, <2>1, <2>2, <2>3, WaysAppend
<1> QED BY <1>1, <1>2, <1>4, <1>7 DEF w, m

\* Services know a user of the network as it does, and sent nothing about them.
LEMMA NewWay ==
  ASSUME NetTame, NEW v, Sound(v), NEW t \in [Net!Numerics -> Bearers \cup {NULL}], Ways(v.u, t, v.o), NEW n \in Remote,
         \A i \in 1..Len(v.o) : v.o[i].who # n,
         NEW r \in Known, NEW b \in Bearers, b.nick = r.nick, b.ts = r.ts, NEW u2, u2 = Put(v.u, n, r)
  PROVE  Ways(u2, Put(t, n, b), v.o)
<1> DEFINE t2 == Put(t, n, b)
<1>0. v.u \in [Net!Numerics -> Known \cup {NULL}] /\ Kinds /\ n \in Net!Numerics /\ r # NULL /\ b # NULL
  BY KindsHold DEF Sound, Views, Kinds, NetTame
<1>1. u2[n] = r /\ t2[n] = b /\ \A m \in Net!Numerics \ {n} : u2[m] = v.u[m] /\ t2[m] = t[m]
  BY <1>0 DEF Put
<1> HIDE DEF t2
<1>2. RemoteWay(u2[n], t2[n], v.o, n)
  BY <1>0, <1>1 DEF RemoteWay
<1>3. ASSUME NEW m \in Remote PROVE RemoteWay(u2[m], t2[m], v.o, m)
  <2>1. RemoteWay(v.u[m], t[m], v.o, m) /\ m \in Net!Numerics
    BY <1>0 DEF Ways, OneWay, Kinds
  <2> QED BY <1>1, <1>2, <2>1
<1>4. \A m \in Net!Numerics \ Remote : t2[m] = t[m] /\ (m \in Clones => u2[m] = v.u[m])
  BY <1>1
<1>5. NetTame
  OBVIOUS
<1>6. Ways(u2, t2, v.o)
  BY <1>3, <1>4, <1>5, WaysRemote
<1> QED BY <1>6 DEF t2

\* A clone is killed.
LEMMA CloneDies ==
  ASSUME NetTame, NEW v, Sound(v), Numbered(v), NEW t, Ways(v.u, t, v.o), NEW c \in Clones, v.u[c] # NULL,
         \A m \in Remote : v.u[m] # NULL => v.u[m].nick # v.u[c].nick
  PROVE  LET x == Net!DelUser(v, c, TRUE)
         IN  /\ Sound(x) /\ Numbered(x) /\ x.u = [v.u EXCEPT ![c] = NULL] /\ x.c = [v.c EXCEPT ![v.u[c].nick] = NULL]
             /\ x.o = Append(v.o, EndOf(v.u, c)) /\ EndOf(v.u, c) \in Messages /\ EndOf(v.u, c).who = c
             /\ Ways(x.u, t, x.o)
<1> DEFINE x == Net!DelUser(v, c, TRUE)
           m == EndOf(v.u, c)
           k == v.u[c].nick
<1>0. /\ v \in Views /\ v.u \in [Net!Numerics -> Known \cup {NULL}] /\ v.o \in Seq(Messages) /\ Kinds
      /\ c \in Net!Numerics \ Services /\ v.c[k] = c /\ k \in Nicks
  <2>1. v \in Views /\ Kinds /\ c \in Net!Numerics \ Services /\ c \in Net!Locals
    BY KindsHold DEF Sound, Kinds
  <2>2. v.u \in [Net!Numerics -> Known \cup {NULL}] /\ v.o \in Seq(Messages)
    BY <2>1 DEF Views
  <2>3. v.u[c] \in Known
    BY <2>1, <2>2
  <2>4. k \in Nicks
    BY <2>3 DEF Known
  <2> QED BY <2>1, <2>2, <2>4 DEF Numbered
<1>1. x.u = [v.u EXCEPT ![c] = NULL] /\ x.c = Net!Removed(v, c) /\ x.o = Append(v.o, m)
  BY <1>0, DelUserDoes, Zenon
<1>2. Net!Removed(v, c) = [v.c EXCEPT ![k] = NULL]
  BY <1>0 DEF Net!Removed
<1>3. m.who = c /\ m.type # "NICK" /\ m \in Messages
  BY <1>0 DEF EndOf, Messages
<1>4. Sound(x)
  BY <1>0, DelUserIs, Zenon
<1>5. Numbered(x)
  <2>1. \A y \in Net!Numerics \ {c} : v.u[y] # NULL => v.u[y].nick # k
    BY <1>0 DEF Numbered, Kinds
  <2> HIDE DEF x
  <2> QED BY <1>0, <1>1, <2>1, GoneNumbered
<1> HIDE DEF x, m
<1>6. Ways(x.u, t, Append(v.o, m))
  <2>1. x.u[c] = NULL /\ \A y \in Net!Numerics \ {c} : x.u[y] = v.u[y]
    BY <1>0, <1>1
  <2>2. OneWay(v.u[c], t[c], v.o, c)
    BY <1>0 DEF Ways
  <2>3. OneWay(NULL, t[c], Append(v.o, m), c)
    BY <1>0, <1>3, <2>2, EndWay, Zenon
  <2>4. /\ \A y \in Net!Numerics \ {m.who} : t[y] = t[y] /\ (y \notin Services => x.u[y] = v.u[y])
        /\ t[m.who] \in {t[m.who], NULL} /\ OneWay(x.u[m.who], t[m.who], Append(v.o, m), m.who)
    BY <1>3, <2>1, <2>3
  <2>5. NetTame /\ v.o \in Seq(Messages) /\ m \in Messages /\ m.type # "NICK"
    BY <1>0, <1>3
  <2> QED BY <2>4, <2>5, WaysAppend
<1> QED BY <1>1, <1>2, <1>3, <1>4, <1>5, <1>6, Zenon DEF x, m

\* A user of the network takes a nick that finds nobody.
LEMMA TakesNick ==
  ASSUME NetTame, NEW v, Sound(v), Numbered(v), NEW n \in Remote, v.u[n] = NULL,
         NEW t \in [Net!Numerics -> Bearers \cup {NULL}], Ways(v.u, t, v.o), \A i \in 1..Len(v.o) : v.o[i].who # n,
         NEW nick \in Nicks, NEW ts \in Int, NEW hides \in BOOLEAN,
         NEW b \in Bearers, b.nick = nick, b.ts = ts, v.c[nick] = NULL
  PROVE  LET w == Told(v, n, nick, ts, hides) IN Numbered(w) /\ Ways(w.u, Put(t, n, b), w.o)
<1> DEFINE w == Told(v, n, nick, ts, hides)
           r == Entry(nick, ts, hides)
<1>0. v \in Views /\ Kinds /\ n \in Net!Numerics \ Services /\ n \notin Net!Locals
  BY KindsHold DEF Sound, Kinds
<1>1. w.u = Put(v.u, n, r) /\ w.c = Put(v.c, nick, n) /\ w.o = v.o
  BY <1>0, AddedDoes
<1>2. r \in Known /\ r.nick = nick /\ r.ts = ts
  BY DEF Known, Entry
<1> HIDE DEF w, r
<1>3. Numbered(w)
  <2>1. NetTame /\ n \in Net!Numerics \ Services /\ v.c[r.nick] = NULL /\ w.c = Put(v.c, r.nick, n)
    BY <1>0, <1>1, <1>2
  <2> QED BY <1>1, <1>2, <2>1, NewNumbered
<1>4. Ways(w.u, Put(t, n, b), v.o)
  <2>1. b.nick = r.nick /\ b.ts = r.ts
    BY <1>2
  <2> QED BY <1>1, <1>2, <2>1, NewWay
<1> QED BY <1>1, <1>3, <1>4 DEF w

\* One who does not get the nick is numbered all the same.
LEMMA LosesNick ==
  ASSUME NetTame, NEW v, Sound(v), Numbered(v), NEW n \in Remote, v.u[n] = NULL,
         NEW t \in [Net!Numerics -> Bearers \cup {NULL}], Ways(v.u, t, v.o), \A i \in 1..Len(v.o) : v.o[i].who # n,
         NEW nick \in Nicks, NEW ts \in Int, NEW hides \in BOOLEAN,
         NEW b \in Bearers, b.nick = nick, b.ts = ts,
         v.c[nick] # NULL, v.c[nick] \in Clones => v.u[v.c[nick]].ts <= ts
  PROVE  LET w == Added(v, n, nick, ts, hides) IN Numbered(w) /\ Ways(w.u, Put(t, n, b), w.o)
<1> DEFINE w == Added(v, n, nick, ts, hides)
           r == Entry(nick, ts, hides)
<1>0. v \in Views /\ Kinds /\ n \in Net!Numerics
  BY KindsHold DEF Sound, Kinds
<1>1. w.u = Put(v.u, n, r) /\ w.c = v.c /\ w.o = v.o
  BY <1>0, AddedDoes
<1>2. r \in Known /\ r.nick = nick /\ r.ts = ts
  BY DEF Known, Entry
<1> HIDE DEF w, r
<1>3. Numbered(w)
  <2>1. NetTame /\ v.c[r.nick] # NULL /\ (v.c[r.nick] \in Clones => v.u[v.c[r.nick]].ts <= r.ts)
    BY <1>2
  <2> QED BY <1>1, <1>2, <2>1, LoserNumbered
<1>4. Ways(w.u, Put(t, n, b), v.o)
  <2>1. b.nick = r.nick /\ b.ts = r.ts
    BY <1>2
  <2> QED BY <1>1, <1>2, <2>1, NewWay
<1> QED BY <1>1, <1>3, <1>4 DEF w

\* AddUser, for somebody of whom services have sent nothing and whose nick no known user of the network has.
LEMMA UserComes ==
  ASSUME NetTame, NEW v, Sound(v), Numbered(v), NEW n \in Remote, v.u[n] = NULL,
         NEW t \in [Net!Numerics -> Bearers \cup {NULL}], Ways(v.u, t, v.o), \A i \in 1..Len(v.o) : v.o[i].who # n,
         NEW nick \in Nicks, NEW ts \in Int, NEW hides \in BOOLEAN, NEW quiet,
         NEW b \in Bearers, b.nick = nick, b.ts = ts,
         \A m \in Remote : v.u[m] # NULL => v.u[m].nick # nick
  PROVE  LET w == Net!AddUser(v, n, nick, ts, hides, quiet) IN Numbered(w) /\ Ways(w.u, Put(t, n, b), w.o)
<1> DEFINE old == v.c[nick]
           y == Net!Outranks(v, old, ts)
           z == IF quiet THEN y ELSE Net!IrcUser(y, old)
           x == Net!DelUser(v, old, TRUE)
<1>0. /\ v \in Views /\ Kinds /\ n \in Net!Numerics \ Services /\ v.u \in [Net!Numerics -> Known \cup {NULL}]
      /\ v.o \in Seq(Messages) /\ v.c \in [Nicks -> Net!Numerics \cup {NULL}]
      /\ old \in Net!Numerics \cup {NULL} /\ (old # NULL => v.u[old] # NULL /\ v.u[old].nick = nick)
  <2>1. v \in Views /\ Kinds /\ n \in Net!Numerics \ Services /\ Found(v)
    BY KindsHold DEF Sound, Kinds
  <2>2. /\ v.u \in [Net!Numerics -> Known \cup {NULL}] /\ v.o \in Seq(Messages)
        /\ v.c \in [Nicks -> Net!Numerics \cup {NULL}]
    BY <2>1 DEF Views
  <2> QED BY <2>1, <2>2 DEF Found
<1>1. Net!AddUser(v, n, nick, ts, hides, quiet) =
        IF old = NULL THEN Told(v, n, nick, ts, hides)
        ELSE IF old \in Services THEN Added(z, n, nick, ts, hides)
        ELSE IF v.u[old].ts > ts THEN Told(x, n, nick, ts, hides)
        ELSE Added(v, n, nick, ts, hides)
  BY AddUserCases, Zenon
<1>2. CASE old = NULL
  BY <1>1, <1>2, TakesNick
<1>3. CASE old # NULL /\ old \in Services
  <2>0. old \in Net!Numerics /\ v.u[old] # NULL /\ NetTame /\ v.u[old] \in Known
    BY <1>0, <1>3
  <2>1. Sound(y) /\ y.u = [v.u EXCEPT ![old].ts = ts - 1] /\ y.c = v.c /\ y.o = v.o
    BY <2>0, OutranksIs
  <2>1a. y.u[old] # NULL /\ y.u[old].nick = v.u[old].nick /\ \A m \in Net!Numerics \ {old} : y.u[m] = v.u[m]
    <3>1. y.u[old] = [v.u[old] EXCEPT !.ts = ts - 1] /\ \A m \in Net!Numerics \ {old} : y.u[m] = v.u[m]
      BY <1>0, <2>0, <2>1
    <3>2. [v.u[old] EXCEPT !.ts = ts - 1] \in Known /\ [v.u[old] EXCEPT !.ts = ts - 1].nick = v.u[old].nick
      BY <2>0 DEF Known
    <3> QED BY <1>0, <3>1, <3>2 DEF Kinds
  <2>1b. Sound(y) /\ y.c = v.c /\ y.o = v.o /\ NetTame
    BY <2>0, <2>1
  <2> HIDE DEF y
  <2>2. Numbered(y)
    <3>1. \A m \in Net!Numerics : /\ y.u[m] = NULL <=> v.u[m] = NULL
                                  /\ v.u[m] # NULL => y.u[m].nick = v.u[m].nick /\ (m \notin Services => y.u[m].ts = v.u[m].ts)
      BY <1>3, <2>0, <2>1a
    <3> QED BY <2>1b, <3>1, SameNumbered
  <2>3. Ways(y.u, t, y.o)
    <3>1. \A m \in Net!Numerics \ Remote : t[m] = t[m] /\ (m \in Clones => y.u[m] = v.u[m])
      BY <1>0, <1>3, <2>1a DEF Kinds
    <3>2. \A m \in Remote : RemoteWay(y.u[m], t[m], v.o, m)
      BY <1>0, <1>3, <2>1a DEF Ways, OneWay, Kinds
    <3>3. Ways(y.u, t, v.o)
      BY <2>1b, <3>1, <3>2, WaysRemote
    <3> QED BY <2>1b, <3>3
  <2>4. Sound(z) /\ Numbered(z) /\ z.u = y.u /\ z.c = v.c /\ Ways(z.u, t, z.o) /\ \A i \in 1..Len(z.o) : z.o[i].who # n
    <3>1. CASE quiet
      BY <2>1, <2>2, <2>3, <3>1
    <3>2. CASE ~quiet
      <4> DEFINE q == Net!IrcUser(y, old)
                 m == NickOf(y.u, old)
      <4>1. Sound(q) /\ Numbered(q) /\ q.u = y.u /\ q.c = y.c /\ q.o = Append(y.o, m) /\ Ways(q.u, t, q.o)
        BY <1>3, <2>1, <2>2, <2>3, ServiceReturns
      <4>2. m.who # n
        BY <1>0, <1>3 DEF NickOf
      <4> HIDE DEF q, m
      <4>3. \A i \in 1..Len(q.o) : q.o[i].who # n
        <5>1. q.o = Append(v.o, m) /\ v.o \in Seq(Messages)
          BY <1>0, <2>1, <4>1
        <5>2. Len(q.o) = Len(v.o) + 1 /\ q.o[Len(v.o) + 1] = m /\ \A i \in 1..Len(v.o) : q.o[i] = v.o[i]
          BY <5>1
        <5> QED BY <4>2, <5>1, <5>2
      <4> QED BY <2>1, <3>2, <4>1, <4>3, Zenon DEF q
    <3> QED BY <3>1, <3>2
  <2> HIDE DEF z
  <2>5. z.u[n] = NULL /\ z.c[nick] # NULL /\ z.c[nick] \notin Clones
    BY <1>0, <1>3, <2>1a, <2>4 DEF Kinds
  <2>6. LET w == Added(z, n, nick, ts, hides) IN Numbered(w) /\ Ways(w.u, Put(t, n, b), w.o)
    BY <2>4, <2>5, LosesNick
  <2> QED BY <1>1, <1>3, <2>6
<1>4. CASE old # NULL /\ old \notin Services /\ v.u[old].ts > ts
  <2> DEFINE m == EndOf(v.u, old)
  <2>1. old \in Clones /\ v.u[old] # NULL /\ v.u[old].nick = nick
    BY <1>0, <1>4 DEF Kinds
  <2>1a. \A z2 \in Remote : v.u[z2] # NULL => v.u[z2].nick # v.u[old].nick
    BY <2>1
  <2> HIDE DEF old
  <2>1b. /\ Sound(x) /\ Numbered(x) /\ x.u = [v.u EXCEPT ![old] = NULL] /\ x.c = [v.c EXCEPT ![v.u[old].nick] = NULL]
         /\ x.o = Append(v.o, m) /\ m \in Messages /\ m.who = old /\ Ways(x.u, t, x.o)
    BY <2>1, <2>1a, CloneDies, Zenon
  <2> HIDE DEF x, m
  <2>2. /\ Sound(x) /\ Numbered(x) /\ x.u = [v.u EXCEPT ![old] = NULL] /\ x.c = [v.c EXCEPT ![nick] = NULL]
        /\ x.o = Append(v.o, m) /\ m \in Messages /\ m.who = old /\ Ways(x.u, t, x.o)
    BY <2>1, <2>1b
  <2>3. x.u[n] = NULL /\ x.c[nick] = NULL /\ old # n
    BY <1>0, <2>1, <2>2 DEF Kinds
  <2>4. \A i \in 1..Len(x.o) : x.o[i].who # n
    <3>1. Len(x.o) = Len(v.o) + 1 /\ x.o[Len(v.o) + 1] = m /\ \A i \in 1..Len(v.o) : x.o[i] = v.o[i]
      BY <1>0, <2>2
    <3> QED BY <1>0, <2>2, <2>3, <3>1
  <2>5. LET w == Told(x, n, nick, ts, hides) IN Numbered(w) /\ Ways(w.u, Put(t, n, b), w.o)
    BY <2>2, <2>3, <2>4, TakesNick, Zenon
  <2> QED BY <1>1, <1>4, <2>5
<1>5. CASE old # NULL /\ old \notin Services /\ ~(v.u[old].ts > ts)
  <2>1. v.u[old].ts <= ts
    <3>1. v.u[old] \in Known
      BY <1>0, <1>5
    <3>2. v.u[old].ts \in Int
      BY <3>1 DEF Known
    <3> QED BY <1>5, <3>2
  <2>2. LET w == Added(v, n, nick, ts, hides) IN Numbered(w) /\ Ways(w.u, Put(t, n, b), w.o)
    BY <1>5, <2>1, LosesNick
  <2> QED BY <1>1, <1>5, <2>2, Zenon
<1> QED BY <1>2, <1>3, <1>4, <1>5

\* NICK of a new user.
LEMMA NewUserViews ==
  ASSUME NetTame, NetViews, UsersInv', NEW n \in Remote, NEW k \in Nicks, NEW ts \in 1..MaxTime, NEW hides \in BOOLEAN,
         Net!NewUser(n, k, ts, hides)
  PROVE  NetViews'
<1> DEFINE lost == Net!Holds(k)
           s == CHOOSE s \in lost : TRUE
           v == IF lost = {} THEN Net!View ELSE Net!Killed(Net!View, s)
           quiet == Net!ServerOf(n) \in bursts
           w == Net!AddUser(v, n, k, ts, hides, quiet)
           b == [nick |-> k, ts |-> ts]
           t == [m \in Net!Numerics |-> IF m \in lost THEN NULL ELSE theirs[m]]
<1>0. /\ Net!ServerOf(n) \in linked /\ theirs[n] = NULL /\ users[n] = NULL
      /\ \A i \in DOMAIN out : out[i].who # n
      /\ lost = {} \/ lost \subseteq Services
      /\ theirs' = [m \in Net!Numerics |-> IF m = n THEN b ELSE IF m \in lost THEN NULL ELSE theirs[m]]
      /\ Net!Becomes(w) /\ linked' = linked
  BY DEF Net!NewUser, Net!Present
<1>1. /\ n \in Net!Numerics \ Services /\ users \in [Net!Numerics -> Known \cup {NULL}] /\ out \in Seq(Messages)
      /\ Kinds /\ Sound(Net!View) /\ Net!View.u = users /\ Net!View.c = clients /\ Net!View.o = out
      /\ Numbered(Net!View) /\ theirs \in [Net!Numerics -> Bearers \cup {NULL}] /\ linked # {} /\ ts \in Int
      /\ \A z \in Services : users[z] # NULL
  BY <1>0, EverybodyIs DEF Kinds, NetViews, NetTame
<1>2. /\ Distinct(theirs) /\ Ways(users, theirs, out)
      /\ \A m \in Remote : users[m] # NULL => theirs[m] # NULL /\ theirs[m].nick = users[m].nick
  BY <1>1, LinkedIs
<1>3. \A m \in Net!Numerics : m \in lost <=> theirs[m] # NULL /\ theirs[m].nick = k
  BY DEF Net!Holds, Net!Present
<1>4. b \in Bearers /\ b.nick = k /\ b.ts = ts
  BY <1>1 DEF Bearers
<1>4a. b # NULL
  BY <1>4 DEF NetTame
<1>5. lost # {} => s \in Services /\ s \in lost /\ \A m \in Net!Numerics \ {s} : m \notin lost
  <2> SUFFICES ASSUME lost # {} PROVE s \in Services /\ s \in lost /\ \A m \in Net!Numerics \ {s} : m \notin lost
    OBVIOUS
  <2>1. s \in lost /\ s \in Services
    BY <1>0
  <2> HIDE DEF s, lost
  <2> QED BY <1>1, <1>2, <1>3, <2>1 DEF Distinct, Kinds
<1> HIDE DEF b, lost, s
<1>6. /\ t \in [Net!Numerics -> Bearers \cup {NULL}]
      /\ \A m \in Net!Numerics : t[m] = IF m \in lost THEN NULL ELSE theirs[m]
  BY <1>1
<1>7. theirs' = Put(t, n, b)
  BY <1>0, <1>1, Zenon DEF Put
<1> HIDE DEF t
<1>8. Sound(v) /\ Numbered(v) /\ v.u = users /\ Ways(v.u, t, v.o) /\ \A i \in 1..Len(v.o) : v.o[i].who # n
  <2>1. CASE lost = {}
    <3>1. \A m \in Net!Numerics : t[m] = theirs[m]
      BY <1>6, <2>1
    <3>2. t = theirs
      BY <1>1, <1>6, <3>1
    <3> QED BY <1>0, <1>1, <1>2, <2>1, <3>2
  <2>2. CASE lost # {}
    <3> DEFINE x == Net!IrcUser(Net!View, s)
               m == NickOf(users, s)
    <3>1. v = x
      BY <1>1, <1>5, <2>2, Zenon DEF Net!Killed
    <3>2. t[s] \in {theirs[s], NULL} /\ \A z \in Net!Numerics \ {s} : t[z] = theirs[z]
      BY <1>1, <1>5, <1>6, <2>2 DEF Kinds
    <3>3. Sound(x) /\ Numbered(x) /\ x.u = users /\ x.o = Append(out, m) /\ Ways(x.u, t, x.o)
      BY <1>1, <1>2, <1>5, <2>2, <3>2, ServiceReturns
    <3>4. m.who # n
      BY <1>1, <1>5, <2>2 DEF NickOf
    <3> HIDE DEF x, m, v
    <3>5. Len(x.o) = Len(out) + 1 /\ x.o[Len(out) + 1] = m /\ \A i \in 1..Len(out) : x.o[i] = out[i]
      BY <1>1, <3>3
    <3>6. \A i \in 1..Len(x.o) : x.o[i].who # n
      BY <1>0, <1>1, <3>4, <3>5
    <3> QED BY <3>1, <3>3, <3>6
  <2> QED BY <2>1, <2>2
<1> HIDE DEF v, quiet
<1>9. \A m \in Remote : v.u[m] # NULL => v.u[m].nick # k
  BY <1>0, <1>1, <1>2, <1>3, <1>8 DEF Kinds
<1>10. Numbered(w) /\ Ways(w.u, theirs', w.o)
  <2>1. v.u[n] = NULL
    BY <1>0, <1>8
  <2>2. Numbered(w) /\ Ways(w.u, Put(t, n, b), w.o)
    BY <1>1, <1>4, <1>6, <1>8, <1>9, <2>1, UserComes
  <2> QED BY <1>7, <2>2
<1>11. Distinct(theirs')
  <2>1. theirs'[n] = b /\ \A m \in Net!Numerics \ {n} : theirs'[m] = IF m \in lost THEN NULL ELSE theirs[m]
    BY <1>0, <1>1
  <2>2. \A m \in Net!Numerics : theirs'[m] # NULL => m = n \/ theirs'[m] = theirs[m]
    BY <2>1
  <2>3. \A m \in Net!Numerics \ {n} : theirs'[m] # NULL => theirs[m].nick # b.nick
    BY <1>3, <1>4, <2>1
  <2> QED BY <1>1, <1>2, <2>1, <2>2, <2>3, DistinctNew
<1>12. theirs' \in [Net!Numerics -> Bearers \cup {NULL}]
  BY <1>1, <1>4, <1>6, <1>7 DEF Put
<1>13. users' = w.u /\ clients' = w.c /\ out' = w.o
  BY <1>0 DEF Net!Becomes
<1> HIDE DEF w
<1> QED BY <1>0, <1>1, <1>10, <1>11, <1>12, <1>13, BecomesViews

\* The next message is somebody's NICK: theirs is a service or a clone.
LEMMA ReaderIs ==
  ASSUME NetTame, NetViews, linked # {}, out # <<>>
  PROVE  LET m == Head(out)
         IN  /\ m \in Messages /\ m = out[1] /\ 1 \in 1..Len(out) /\ m.who \in Net!Numerics /\ Kinds
             /\ Tail(out) \in Seq(Messages) /\ OneWay(users[m.who], theirs[m.who], out, m.who)
             /\ m.type = "NICK" => m.who \in Services \cup Clones /\ Nicked(out, 1, m.who)
<1> DEFINE m == Head(out)
<1>1. out \in Seq(Messages) /\ Kinds
  BY EverybodyIs
<1>2. m \in Messages /\ m = out[1] /\ 1 \in 1..Len(out) /\ Tail(out) \in Seq(Messages)
  BY <1>1, TailIs
<1> HIDE DEF m
<1>3. m.who \in Net!Numerics
  BY <1>2 DEF Messages
<1>4. m.type = "NICK" => m.who \notin Remote
  BY <1>2, LinkedIs DEF RemoteWay
<1>5. OneWay(users[m.who], theirs[m.who], out, m.who)
  BY <1>3, LinkedIs
<1>6. m.type = "NICK" => Nicked(out, 1, m.who)
  BY <1>2 DEF Nicked
<1> QED BY <1>1, <1>2, <1>3, <1>4, <1>5, <1>6 DEF Kinds, m

\* Who has the nick that the network reads is one of its own users, alone with it.
LEMMA HolderIs ==
  ASSUME NetTame, NetViews, linked # {}, out # <<>>, Head(out).type = "NICK",
         NEW h \in Net!Numerics \ {Head(out).who}, theirs[h] # NULL, theirs[h].nick = Head(out).nick
  PROVE  /\ h \in Remote
         /\ \A x \in Net!Numerics \ {Head(out).who} : theirs[x] # NULL /\ theirs[x].nick = Head(out).nick => x = h
<1> DEFINE m == Head(out)
<1>1. /\ m \in Messages /\ m = out[1] /\ 1 \in 1..Len(out) /\ m.who \in Services \cup Clones /\ Nicked(out, 1, m.who)
      /\ OneWay(users[m.who], theirs[m.who], out, m.who) /\ Kinds
  BY ReaderIs
<1>2. /\ Distinct(theirs) /\ Ways(users, theirs, out) /\ \A s \in Services : theirs[s] # NULL => theirs[s].nick = s
      /\ \A c \in Clones : theirs[c] # NULL => theirs[c].nick \notin Services
  BY LinkedIs
<1>2a. h # m.who /\ theirs[h].nick = m.nick
  OBVIOUS
<1> HIDE DEF m
<1>3. m.who \in Services => m.nick = m.who
  BY <1>1 DEF OneWay, ServiceWay
<1>4. m.who \in Clones => m.nick \notin Services
  BY <1>1 DEF OneWay, CloneWay
<1>5. h \notin Services
  BY <1>1, <1>2, <1>2a, <1>3, <1>4
<1>6. h \notin Clones
  <2> SUFFICES ASSUME h \in Clones PROVE FALSE
    OBVIOUS
  <2>1. m.who \in Clones
    BY <1>1, <1>2, <1>2a, <1>3
  <2>2. PairWay(theirs[h], out, m.who, h)
    BY <1>2, <1>2a, <2>1 DEF Ways
  <2>3. PICK j \in 1..Len(out) : j < 1
    BY <1>1, <1>2a, <2>2 DEF PairWay
  <2> QED BY <2>3
<1> QED BY <1>1, <1>2, <1>2a, <1>5, <1>6 DEF Distinct, Kinds, m

\* cmd_kill, for a user of the network who lost a collision.
LEMMA HolderDies ==
  ASSUME NetTame, NetViews, linked # {}, NEW v, Sound(v), Numbered(v), v.u = users, v.c = clients, NEW h \in Remote
  PROVE  LET x == Net!Killed(v, h)
         IN  /\ Sound(x) /\ Numbered(x) /\ x.o = v.o
             /\ \A y \in Net!Numerics : x.u[y] = IF y = h THEN NULL ELSE users[y]
<1>0. v \in Views /\ Kinds /\ h \in Net!Numerics \ Services /\ users \in [Net!Numerics -> Known \cup {NULL}]
  BY EverybodyIs DEF Sound, Kinds
<1>1. CASE users[h] = NULL
  BY <1>0, <1>1 DEF Net!Killed
<1>2. CASE users[h] # NULL
  <2> DEFINE x == Net!DelUser(v, h, FALSE)
  <2>1. x.u = [v.u EXCEPT ![h] = NULL] /\ x.c = Net!Removed(v, h) /\ x.o = v.o
    BY <1>0, <1>2, DelUserDoes, Zenon
  <2>2. Sound(x)
    BY <1>0, <1>2, DelUserIs, Zenon
  <2>3. Net!Killed(v, h) = x
    BY <1>0, <1>2 DEF Net!Killed
  <2> HIDE DEF x
  <2>4. v.c[v.u[h].nick] = h => \A y \in Net!Numerics \ {h} : v.u[y] # NULL => v.u[y].nick # v.u[h].nick
    BY <1>2, AloneIs
  <2>5. Numbered(x)
    BY <1>0, <1>2, <2>1, <2>4, GoneNumbered, Zenon
  <2>6. \A y \in Net!Numerics : x.u[y] = IF y = h THEN NULL ELSE users[y]
    BY <1>0, <2>1
  <2> QED BY <2>1, <2>2, <2>3, <2>5, <2>6, Zenon
<1> QED BY <1>1, <1>2

\* What services know without hs; what the network has without hs and the bearer of the NICK it reads.
Without(u, hs) == \A x \in Net!Numerics : u[x] = IF x \in hs THEN NULL ELSE users[x]
Lost(t, hs)    == \A x \in Net!Numerics : t[x] = IF x = Head(out).who \/ x \in hs THEN NULL ELSE theirs[x]

\* The network reads a NICK, and has its bearer as it says; somebody else who had the nick goes.
LEMMA ReadWays ==
  ASSUME NetTame, NetViews, linked # {}, out # <<>>, Head(out).type = "NICK",
         NEW b \in Bearers, b.nick = Head(out).nick, NEW hs \in SUBSET Remote, NEW u, NEW t,
         Without(u, hs),
         \A x \in Net!Numerics : t[x] = IF x = Head(out).who THEN b ELSE IF x \in hs THEN NULL ELSE theirs[x]
  PROVE  Ways(u, t, Tail(out))
<1> DEFINE m == Head(out)
<1>1. /\ m \in Messages /\ m.who \in Services \cup Clones /\ Nicked(out, 1, m.who) /\ m.who \in Net!Numerics
      /\ OneWay(users[m.who], theirs[m.who], out, m.who) /\ Kinds /\ out \in Seq(Messages)
  BY ReaderIs, EverybodyIs
<1>2. b # NULL /\ NetTame
  BY DEF NetTame
<1>3. t[m.who] = b /\ u[m.who] = users[m.who]
  BY <1>1 DEF Kinds, Without
<1>4. OneWay(u[m.who], t[m.who], Tail(out), m.who)
  <2>1. CASE m.who \in Services
    <3>1. \A t2 : t2 # NULL /\ t2.nick = m.nick => \A r2 : OneWay(r2, t2, Tail(out), m.who)
      <4>1. ASSUME NEW n, n = m.who, NEW r, r = users[n], NEW t0, t0 = theirs[n]
            PROVE  \A t2 : t2 # NULL /\ t2.nick = m.nick => \A r2 : OneWay(r2, t2, Tail(out), n)
        <5>1. NetTame /\ out \in Seq(Messages) /\ n \in Services /\ n = Head(out).who /\ OneWay(r, t0, out, n)
          BY <1>1, <1>2, <2>1, <4>1
        <5> QED BY <5>1, ServiceRead, Zenon
      <4> QED BY <4>1
    <3> HIDE DEF m
    <3>2. b # NULL /\ b.nick = m.nick
      BY <1>2 DEF m
    <3> QED BY <1>3, <3>1, <3>2
  <2>2. CASE m.who \in Clones
    BY <1>1, <1>2, <1>3, <2>2, NickRead
  <2> QED BY <1>1, <2>1, <2>2
<1>5. ASSUME NEW n \in Net!Numerics \ {m.who}
      PROVE  IF n \in Remote THEN RemoteWay(u[n], t[n], out, n) ELSE t[n] = theirs[n] /\ (n \in Clones => u[n] = users[n])
  <2>1. CASE n \in Remote
    <3>1. RemoteWay(users[n], theirs[n], out, n)
      BY <2>1, LinkedIs
    <3>2. RemoteWay(NULL, NULL, out, n)
      BY <3>1 DEF RemoteWay
    <3> QED BY <1>5, <2>1, <3>1, <3>2 DEF Without
  <2>2. CASE n \notin Remote
    BY <1>5, <2>2 DEF Without
  <2> QED BY <2>1, <2>2
<1>6. Ways(users, theirs, out)
  BY LinkedIs
<1>7. m.type = "NICK" /\ t[m.who].nick = m.nick
  BY <1>3
<1>8. Others(users, theirs, u, t, out, m.who)
  BY <1>5 DEF Others
<1> QED BY <1>1, <1>2, <1>4, <1>6, <1>7, <1>8, WaysTail

\* A clone whose NICK loses on the network goes, with whoever of the same age had the nick: nobody else is known by it.
LEMMA CloneLoses ==
  ASSUME NetTame, NetViews, linked # {}, out # <<>>, Head(out).type = "NICK", Head(out).who \in Clones,
         NEW hs \in SUBSET Remote,
         \A x \in Remote \ hs : theirs[x] # NULL /\ theirs[x].nick = Head(out).nick => Head(out).ts > theirs[x].ts,
         NEW v, Sound(v), Numbered(v), v.o = Tail(out), Without(v.u, hs),
         NEW t, Lost(t, hs)
  PROVE  LET w == Net!Killed(v, Head(out).who) IN Numbered(w) /\ w.o = Tail(out) /\ Ways(w.u, t, Tail(out))
<1> DEFINE m == Head(out)
           c == m.who
           w == Net!Killed(v, c)
<1>1. /\ m \in Messages /\ Nicked(out, 1, c) /\ c \in Net!Numerics \ Services /\ c \notin Remote
      /\ OneWay(users[c], theirs[c], out, c) /\ Kinds /\ out \in Seq(Messages) /\ m.ts \in Int /\ v \in Views
      /\ users \in [Net!Numerics -> Known \cup {NULL}] /\ Ways(users, theirs, out)
  BY ReaderIs, EverybodyIs, LinkedIs DEF Messages, Kinds, Sound
<1>2. OneWay(NULL, NULL, Tail(out), c) /\ (users[c] # NULL => users[c].nick = m.nick /\ users[c].ts = m.ts)
  BY <1>1, NickRead
<1>3. v.u[c] = users[c]
  BY <1>1 DEF Without
<1>4. /\ Numbered(w) /\ w.o = Tail(out) /\ w.u[c] = NULL
      /\ \A x \in Net!Numerics \ {c} : w.u[x] = v.u[x]
  <2>1. CASE v.u[c] = NULL
    BY <2>1 DEF Net!Killed
  <2>2. CASE v.u[c] # NULL
    <3> DEFINE y == Net!DelUser(v, c, FALSE)
    <3>1. y.u = [v.u EXCEPT ![c] = NULL] /\ y.c = Net!Removed(v, c) /\ y.o = v.o
      BY <1>1, <2>2, DelUserDoes, Zenon
    <3>2. w = y
      BY <1>1, <2>2, Zenon DEF Net!Killed
    <3> HIDE DEF y, w
    <3>3. ASSUME NEW x \in Net!Numerics \ {c}, v.u[x] # NULL, v.u[x].nick = v.u[c].nick PROVE FALSE
      <4>0. users[c].nick = m.nick /\ users[c].ts = m.ts /\ c \in Net!Locals /\ c \in Net!Numerics /\ users[c] # NULL
        BY <1>1, <1>2, <1>3, <2>2 DEF Kinds
      <4>1. CASE x \in Net!Locals
        BY <2>2, <3>3, <4>0, <4>1 DEF Numbered
      <4>2. CASE x \in Remote
        <5>1. x \notin hs /\ users[x] # NULL /\ users[x].nick = users[c].nick /\ users[x].nick = m.nick
          BY <1>3, <3>3, <4>0 DEF Without
        <5>2. theirs[x] # NULL /\ theirs[x].nick = m.nick /\ theirs[x].ts = users[x].ts
          BY <4>2, <5>1, LinkedIs
        <5>3. m.ts > theirs[x].ts
          BY <4>2, <5>1, <5>2
        <5>4. clients[users[x].nick] = c
          BY <4>0, <5>1, EverybodyIs
        <5>5. users[c].ts <= users[x].ts
          BY <4>2, <5>1, <5>4, EverybodyIs DEF NetViews, Numbered
        <5>6. theirs[x].ts \in Int
          BY <1>1, <4>2, <5>2, EverybodyIs DEF Kinds
        <5> QED BY <1>1, <4>0, <5>2, <5>3, <5>5, <5>6
      <4> QED BY <1>1, <4>1, <4>2 DEF Kinds
    <3>4. \A x \in Net!Numerics \ {c} : v.u[x] # NULL => v.u[x].nick # v.u[c].nick
      BY <3>3
    <3>5. Numbered(y)
      BY <1>1, <2>2, <3>1, <3>4, GoneNumbered, Zenon
    <3>6. v.u \in [Net!Numerics -> Known \cup {NULL}]
      BY <1>1 DEF Views
    <3>7. y.u[c] = NULL /\ \A x \in Net!Numerics \ {c} : y.u[x] = v.u[x]
      BY <1>1, <3>1, <3>6
    <3> QED BY <3>1, <3>2, <3>5, <3>7, Zenon
  <2> QED BY <2>1, <2>2
<1> HIDE DEF w
<1>5. ASSUME NEW n \in Net!Numerics \ {c}
      PROVE  IF n \in Remote THEN RemoteWay(w.u[n], t[n], out, n) ELSE t[n] = theirs[n] /\ (n \in Clones => w.u[n] = users[n])
  <2>1. CASE n \in Remote
    <3>1. RemoteWay(users[n], theirs[n], out, n)
      BY <2>1, LinkedIs
    <3>2. RemoteWay(NULL, NULL, out, n)
      BY <3>1 DEF RemoteWay
    <3> QED BY <1>4, <1>5, <2>1, <3>1, <3>2 DEF Without, Lost
  <2>2. CASE n \notin Remote
    BY <1>4, <1>5, <2>2 DEF Without, Lost
  <2> QED BY <2>1, <2>2
<1>6. OneWay(w.u[c], t[c], Tail(out), c) /\ t[c] = NULL
  BY <1>1, <1>2, <1>4 DEF Lost
<1>7. Ways(w.u, t, Tail(out))
  <2>1. NetTame /\ out \in Seq(Messages) /\ out # <<>> /\ Ways(users, theirs, out)
    BY <1>1
  <2>2. Others(users, theirs, w.u, t, out, Head(out).who)
    BY <1>5 DEF Others
  <2>3. OneWay(w.u[Head(out).who], t[Head(out).who], Tail(out), Head(out).who) /\ t[Head(out).who] = NULL
    BY <1>6
  <2> QED BY <2>1, <2>2, <2>3, WaysTail
<1> QED BY <1>4, <1>7 DEF w

\* A service whose NICK is sent again (irc_user), with the messages under way given a name.
LEMMA ServiceBack ==
  ASSUME NetTame, NEW v, Sound(v), Numbered(v), NEW s \in Services, NEW t, NEW o, v.o = o, Ways(v.u, t, o), NEW t2,
         \A n \in Net!Numerics \ {s} : t2[n] = t[n], t2[s] \in {t[s], NULL}
  PROVE  LET w == Net!IrcUser(v, s) IN Numbered(w) /\ w.u = v.u /\ Ways(w.u, t2, w.o)
<1>1. ASSUME NEW x, x = v PROVE LET w == Net!IrcUser(x, s) IN Numbered(w) /\ w.u = x.u /\ Ways(w.u, t2, w.o)
  <2>1. Sound(x) /\ Numbered(x) /\ Ways(x.u, t, x.o)
    BY <1>1
  <2> QED BY <2>1, ServiceReturns
<1> QED BY <1>1

\* A service comes back that lost its nick.
LEMMA ServiceLoses ==
  ASSUME NetTame, NetViews, linked # {}, out # <<>>, Head(out).type = "NICK", Head(out).who \in Services,
         NEW hs \in SUBSET Remote,
         NEW v, Sound(v), Numbered(v), v.o = Tail(out), Without(v.u, hs),
         NEW t, Lost(t, hs)
  PROVE  LET w == Net!Killed(v, Head(out).who) IN Numbered(w) /\ Ways(w.u, t, w.o) /\ w.u = v.u
<1> DEFINE m == Head(out)
           s == m.who
           b == [nick |-> m.nick, ts |-> m.ts]
           t3 == [x \in Net!Numerics |-> IF x = m.who THEN b ELSE IF x \in hs THEN NULL ELSE theirs[x]]
<1>1. m \in Messages /\ Kinds /\ s \in Net!Numerics
  BY ReaderIs
<1>2. b \in Bearers /\ b.nick = m.nick
  BY <1>1 DEF Messages, Bearers
<1> HIDE DEF b
<1>3. \A x \in Net!Numerics : t3[x] = IF x = s THEN b ELSE IF x \in hs THEN NULL ELSE theirs[x]
  OBVIOUS
<1> HIDE DEF t3
<1>4. Ways(v.u, t3, v.o)
  <2>1. ASSUME NEW u, u = v.u PROVE Ways(u, t3, Tail(out))
    <3>1. b \in Bearers /\ b.nick = Head(out).nick
      BY <1>2
    <3>2. Without(u, hs)
      BY <2>1
    <3>3. \A x \in Net!Numerics : t3[x] = IF x = Head(out).who THEN b ELSE IF x \in hs THEN NULL ELSE theirs[x]
      BY <1>3
    <3> QED BY <3>1, <3>2, <3>3, ReadWays
  <2> QED BY <2>1
<1>5. t[s] \in {t3[s], NULL} /\ \A x \in Net!Numerics \ {s} : t[x] = t3[x]
  BY <1>1, <1>3 DEF Lost
<1>6. v.u[s] # NULL
  BY DEF Sound, Found
<1>7. Net!Killed(v, s) = Net!IrcUser(v, s)
  BY <1>6 DEF Net!Killed
<1>8. ASSUME NEW z \in Services, z = s
      PROVE  LET w == Net!IrcUser(v, z) IN Numbered(w) /\ Ways(w.u, t, w.o) /\ w.u = v.u
  <2>1. t[z] \in {t3[z], NULL} /\ \A x \in Net!Numerics \ {z} : t[x] = t3[x]
    BY <1>5, <1>8
  <2>2. Numbered(Net!IrcUser(v, z)) /\ Net!IrcUser(v, z).u = v.u /\ Ways(Net!IrcUser(v, z).u, t, Net!IrcUser(v, z).o)
    BY <1>4, <2>1, ServiceBack, Zenon
  <2> QED BY <2>2
<1> QED BY <1>7, <1>8

\* The network reads of somebody's end.
LEMMA EndViews ==
  ASSUME NetTame, NetViews, UsersInv', Net!Deliver, Head(out).type # "NICK"
  PROVE  NetViews'
<1> DEFINE m == Head(out)
           w == [Net!View EXCEPT !.o = Tail(out)]
<1>0. /\ out # <<>> /\ linked # {} /\ linked' = linked /\ theirs' = [theirs EXCEPT ![m.who] = NULL]
      /\ users' = w.u /\ clients' = w.c /\ out' = w.o
  BY DEF Net!Deliver, Net!Becomes
<1>1. /\ m \in Messages /\ m.who \in Net!Numerics /\ OneWay(users[m.who], theirs[m.who], out, m.who) /\ Kinds
      /\ Net!View.u = users /\ Net!View.c = clients /\ out \in Seq(Messages) /\ Net!View \in Views
      /\ theirs \in [Net!Numerics -> Bearers \cup {NULL}] /\ Numbered(Net!View) /\ Ways(users, theirs, out) /\ Distinct(theirs)
  BY <1>0, ReaderIs, EverybodyIs, LinkedIs DEF NetViews
<1>2. w.u = users /\ w.c = clients /\ w.o = Tail(out)
  BY <1>1 DEF Views
<1> HIDE DEF w
<1>3. Numbered(w)
  BY <1>1, <1>2 DEF Numbered
<1>4. OneWay(users[m.who], NULL, Tail(out), m.who)
  BY <1>0, <1>1, EndRead, Zenon
<1>5. theirs'[m.who] = NULL /\ \A n \in Net!Numerics \ {m.who} : theirs'[n] = theirs[n]
  BY <1>0, <1>1
<1>6. theirs' \in [Net!Numerics -> Bearers \cup {NULL}] /\ Distinct(theirs')
  BY <1>0, <1>1, <1>5, DistinctLess, Zenon
<1>7. Ways(users, theirs', Tail(out))
  <2>1. ASSUME NEW n \in Net!Numerics \ {m.who}
        PROVE  IF n \in Remote THEN RemoteWay(users[n], theirs'[n], out, n) ELSE theirs'[n] = theirs[n] /\ (n \in Clones => users[n] = users[n])
    BY <1>0, <1>5, <2>1, LinkedIs
  <2>2. NetTame /\ out \in Seq(Messages) /\ out # <<>> /\ Ways(users, theirs, out)
    BY <1>0, <1>1
  <2>3. OneWay(users[Head(out).who], theirs'[Head(out).who], Tail(out), Head(out).who) /\ theirs'[Head(out).who] = NULL
    BY <1>4, <1>5
  <2>4. ASSUME NEW t, t = theirs' PROVE Ways(users, t, Tail(out))
    <3>1. Others(users, theirs, users, t, out, Head(out).who)
      BY <2>1, <2>4 DEF Others
    <3>2. OneWay(users[Head(out).who], t[Head(out).who], Tail(out), Head(out).who) /\ t[Head(out).who] = NULL
      BY <2>3, <2>4
    <3> QED BY <2>2, <3>1, <3>2, WaysTail
  <2> QED BY <2>4
<1>8. Ways(w.u, theirs', w.o)
  BY <1>2, <1>7
<1> QED BY <1>0, <1>3, <1>6, <1>8, BecomesViews, Zenon

\* The network reads somebody's NICK.
LEMMA NickViews ==
  ASSUME NetTame, NetViews, UsersInv', Net!Deliver, Head(out).type = "NICK"
  PROVE  NetViews'
<1> DEFINE m    == Head(out)
           v    == [Net!View EXCEPT !.o = Tail(out)]
           them == Net!Holds(m.nick) \ {m.who}
           h    == CHOOSE x \in them : TRUE
           wins == them = {} \/ m.ts < theirs[h].ts
           dies == them # {} /\ m.ts <= theirs[h].ts
           hs   == IF dies THEN {h} ELSE {}
           v1   == IF dies THEN Net!Killed(v, h) ELSE v
           b    == [nick |-> m.nick, ts |-> m.ts]
           w    == IF wins THEN v1 ELSE Net!Killed(v1, m.who)
<1>0. /\ out # <<>> /\ linked # {} /\ linked' = linked
      /\ theirs' = [n \in Net!Numerics |-> IF n = m.who /\ wins THEN b
                                           ELSE IF n = m.who \/ (dies /\ n = h) THEN NULL ELSE theirs[n]]
      /\ users' = w.u /\ clients' = w.c /\ out' = w.o
  BY Zenon DEF Net!Deliver, Net!Becomes
<1>1. /\ m \in Messages /\ m.who \in Services \cup Clones /\ m.who \in Net!Numerics /\ Kinds /\ m.ts \in Int /\ m.nick \in Nicks
      /\ Tail(out) \in Seq(Messages) /\ Sound(Net!View) /\ Net!View \in Views
      /\ Net!View.u = users /\ Net!View.c = clients
      /\ theirs \in [Net!Numerics -> Bearers \cup {NULL}] /\ Numbered(Net!View) /\ Distinct(theirs)
  BY <1>0, ReaderIs, EverybodyIs, LinkedIs DEF NetViews, Messages
<1>2. b \in Bearers /\ b.nick = m.nick /\ b.ts = m.ts /\ b # NULL
  BY <1>1 DEF Bearers, NetTame
<1>3. Sound(v) /\ Numbered(v) /\ v.u = users /\ v.c = clients /\ v.o = Tail(out)
  <2>1. v \in Views /\ v.u = Net!View.u /\ v.c = Net!View.c /\ v.i = Net!View.i /\ v.o = Tail(out)
    BY <1>1, Zenon DEF Views
  <2> HIDE DEF v
  <2>2. Sound(v)
    <3>1. Sound(Net!View) /\ v \in Views /\ v.u = Net!View.u /\ v.c = Net!View.c /\ v.i = Net!View.i
      BY <1>1, <2>1
    <3> QED BY <3>1 DEF Sound, Found, Hidden
  <2>3. Numbered(v)
    BY <1>1, <2>1 DEF Numbered
  <2> QED BY <1>1, <2>1, <2>2, <2>3
<1>4. /\ \A x \in Net!Numerics : x \in them <=> x # m.who /\ theirs[x] # NULL /\ theirs[x].nick = m.nick
      /\ them \subseteq Net!Numerics
      /\ them # {} => h \in them
  BY DEF Net!Holds, Net!Present
<1> HIDE DEF h, them, v, b
<1>5. them # {} => h \in Remote /\ theirs[h].ts \in Int /\ \A x \in them : x = h
  <2> SUFFICES ASSUME them # {} PROVE h \in Remote /\ theirs[h].ts \in Int /\ \A x \in them : x = h
    OBVIOUS
  <2>1. h \in Net!Numerics \ {m.who} /\ theirs[h] # NULL /\ theirs[h].nick = m.nick
    BY <1>4
  <2>2. /\ h \in Remote
        /\ \A x \in Net!Numerics \ {m.who} : theirs[x] # NULL /\ theirs[x].nick = m.nick => x = h
    BY <1>0, <2>1, HolderIs
  <2>3. theirs[h].ts \in Int
    BY <2>1, EverybodyIs
  <2> QED BY <1>4, <2>2, <2>3
<1>6. hs \in SUBSET Remote /\ m.who \notin hs /\ \A x \in Net!Numerics : x \in hs <=> dies /\ x = h
  BY <1>1, <1>5 DEF Kinds
<1>7. /\ Sound(v1) /\ Numbered(v1) /\ v1.o = Tail(out)
      /\ Without(v1.u, hs)
  <2>1. CASE dies
    <3>1. h \in Remote
      BY <1>5, <2>1
    <3>2. LET x == Net!Killed(v, h)
          IN  /\ Sound(x) /\ Numbered(x) /\ x.o = v.o
              /\ \A y \in Net!Numerics : x.u[y] = IF y = h THEN NULL ELSE users[y]
      BY <1>0, <1>3, <3>1, HolderDies
    <3> QED BY <1>3, <1>6, <2>1, <3>2 DEF Without
  <2>2. CASE ~dies
    BY <1>3, <2>2 DEF Without
  <2> QED BY <2>1, <2>2
<1>8. ASSUME ~wins, NEW x \in Remote \ hs, theirs[x] # NULL, theirs[x].nick = m.nick PROVE m.ts > theirs[x].ts
  <2>1. x \in them
    BY <1>1, <1>4, <1>8 DEF Kinds
  <2>2. x = h /\ them # {} /\ theirs[h].ts \in Int
    BY <1>5, <2>1
  <2>3. ~(m.ts <= theirs[h].ts)
    BY <1>8, <2>2
  <2> QED BY <1>1, <2>2, <2>3
<1>9. /\ \A n \in Net!Numerics : theirs'[n] = IF n = m.who THEN (IF wins THEN b ELSE NULL) ELSE IF n \in hs THEN NULL ELSE theirs[n]
      /\ theirs' \in [Net!Numerics -> Bearers \cup {NULL}]
  <2>1. \A n \in Net!Numerics : theirs'[n] = IF n = m.who THEN (IF wins THEN b ELSE NULL) ELSE IF n \in hs THEN NULL ELSE theirs[n]
    BY <1>0, <1>1, <1>6
  <2>2. theirs' \in [Net!Numerics -> Bearers \cup {NULL}]
    BY <1>0, <1>1, <1>2
  <2> QED BY <2>1, <2>2
<1>10. wins /\ them # {} => h \in hs
  BY <1>1, <1>5
<1> HIDE DEF wins, dies, hs, v1
<1>11. Distinct(theirs')
  <2>1. CASE wins
    <3>1. theirs'[m.who] = b
      BY <1>1, <1>9, <2>1
    <3>2. \A x \in Net!Numerics : theirs'[x] # NULL => x = m.who \/ theirs'[x] = theirs[x]
      BY <1>9
    <3>3. \A x \in Net!Numerics \ {m.who} : theirs'[x] # NULL => theirs[x].nick # b.nick
      BY <1>2, <1>4, <1>5, <1>9, <1>10, <2>1
    <3> QED BY <1>1, <3>1, <3>2, <3>3, DistinctNew
  <2>2. CASE ~wins
    BY <1>1, <1>9, <2>2, DistinctLess
  <2> QED BY <2>1, <2>2
<1>12. ASSUME NEW t, t = theirs' PROVE Numbered(w) /\ Ways(w.u, t, w.o)
  <2>1. CASE wins
    <3>1. \A x \in Net!Numerics : t[x] = IF x = Head(out).who THEN b ELSE IF x \in hs THEN NULL ELSE theirs[x]
      BY <1>9, <1>12, <2>1
    <3>2. ASSUME NEW u, u = v1.u PROVE Ways(u, t, Tail(out))
      <4>1. Without(u, hs)
        BY <1>7, <3>2
      <4> QED BY <1>0, <1>2, <1>6, <3>1, <4>1, ReadWays
    <3> QED BY <1>7, <2>1, <3>2, Zenon
  <2>2. CASE ~wins
    <3>1. Lost(t, hs)
      BY <1>9, <1>12, <2>2 DEF Lost
    <3>2. CASE m.who \in Services
      <4>1. LET z == Net!Killed(v1, Head(out).who) IN Numbered(z) /\ Ways(z.u, t, z.o) /\ z.u = v1.u
        <5>1. linked # {} /\ out # <<>> /\ Head(out).who \in Services /\ hs \in SUBSET Remote
          BY <1>0, <1>6, <3>2
        <5> QED BY <1>7, <3>1, <5>1, ServiceLoses
      <4> QED BY <2>2, <4>1
    <3>3. CASE m.who \in Clones
      <4>0. \A x \in Remote \ hs : theirs[x] # NULL /\ theirs[x].nick = Head(out).nick => Head(out).ts > theirs[x].ts
        BY <1>8, <2>2
      <4>1. LET z == Net!Killed(v1, Head(out).who) IN Numbered(z) /\ z.o = Tail(out) /\ Ways(z.u, t, Tail(out))
        BY <1>0, <1>6, <1>7, <3>1, <3>3, <4>0, CloneLoses, Zenon
      <4> QED BY <2>2, <4>1, Zenon
    <3> QED BY <1>1, <3>2, <3>3
  <2> QED BY <2>1, <2>2
<1> HIDE DEF w
<1>13. Numbered(w) /\ Ways(w.u, theirs', w.o)
  BY <1>12
<1> QED BY <1>0, <1>9, <1>11, <1>13, BecomesViews

\* Before the link comes up nobody is known but services.
LEMMA ViewsInit == ASSUME NetTame, Net!Init PROVE NetViews
<1>1. UsersInv
  BY NetInit
<1>2. /\ linked = {} /\ Kinds
      /\ theirs = [n \in Net!Numerics |-> NULL]
      /\ users = [n \in Net!Numerics |-> IF n \in Services THEN Entry(n, Start, TRUE) ELSE NULL]
      /\ clients = [k \in Nicks |-> IF k \in Services THEN k ELSE NULL]
  BY KindsHold DEF Net!Init, Entry
<1>3. \A n \in Net!Numerics : theirs[n] = NULL /\ (n \in Remote => users[n] = NULL)
  BY <1>2, Zenon DEF Kinds
<1>4. \A n \in Net!Numerics : users[n] # NULL => n \in Services /\ users[n].nick = n /\ n \in Nicks
  BY <1>2 DEF Entry, NetTame
<1>5. Net!View.u = users /\ Net!View.c = clients
  BY DEF Net!View
<1>6. \A n \in Net!Numerics : users[n] # NULL => clients[users[n].nick] = n /\ n # NULL /\ n \notin Remote
  BY <1>2, <1>4, ZenonT(40) DEF Kinds
<1>7. \A n \in Net!Locals : n \in Net!Numerics
  BY <1>2 DEF Kinds
<1>8. Numbered(Net!View)
  BY <1>2, <1>5, <1>6, <1>7, ZenonT(40) DEF Numbered, Kinds
<1>9. theirs \in [Net!Numerics -> Bearers \cup {NULL}]
  BY <1>2
<1> QED BY <1>1, <1>2, <1>3, <1>8, <1>9, Zenon DEF NetViews

\* No step of the network or of services breaks NetViews.
LEMMA ViewsNext ==
  ASSUME NetTame, NetViews, [Net!Next]_(Net!vars)
  PROVE  NetViews'
<1>0. UsersInv'
  BY NetNext DEF NetViews
<1>1. CASE Net!LinkUp
  BY <1>0, <1>1, LinkUpViews
<1>2. CASE Net!ServerJoins \/ Net!Tick \/ UNCHANGED Net!vars \/ \E srv \in linked : Net!EndOfBurst(srv)
  BY <1>0, <1>2, OtherViews
<1>3. CASE Net!Netsplit
  BY <1>0, <1>3, NetsplitViews
<1>4. CASE Net!LinkLost
  BY <1>0, <1>4, LinkLostViews
<1>5. CASE Net!Deliver
  BY <1>0, <1>5, EndViews, NickViews
<1>6. CASE \E n \in Remote : Net!Quit(n) \/ Net!UserMode(n) \/ Net!KillUser(n)
  BY <1>0, <1>6, QuitViews, UserModeViews, KillViews
<1>7. CASE \E n \in Remote, k \in Nicks : Net!Rename(n, k)
  <2>1. PICK n \in Remote, k \in Nicks : Net!Rename(n, k)
    BY <1>7
  <2> QED BY <1>0, <2>1, RenameViews
<1>8. CASE \E n \in Clones : Net!DelClone(n) \/ \E k \in Nicks : Net!AddClone(n, k)
  <2>1. PICK n \in Clones : Net!DelClone(n) \/ \E k \in Nicks : Net!AddClone(n, k)
    BY <1>8
  <2>2. CASE Net!DelClone(n)
    BY <1>0, <2>2, DelCloneViews
  <2>3. CASE \E k \in Nicks : Net!AddClone(n, k)
    <3>1. PICK k \in Nicks : Net!AddClone(n, k)
      BY <2>3
    <3> QED BY <1>0, <3>1, AddCloneViews
  <2> QED BY <2>1, <2>2, <2>3
<1>9. CASE \E n \in Remote, k \in Nicks, ts \in 1..MaxTime, hides \in BOOLEAN : Net!NewUser(n, k, ts, hides)
  <2>1. PICK n \in Remote, k \in Nicks, ts \in 1..MaxTime, hides \in BOOLEAN : Net!NewUser(n, k, ts, hides)
    BY <1>9
  <2> QED BY <1>0, <2>1, NewUserViews
<1> QED BY <1>1, <1>2, <1>3, <1>4, <1>5, <1>6, <1>7, <1>8, <1>9 DEF Net!Next

\* NetViews in every reachable state.
LEMMA ViewsAlways == ASSUME NetTame PROVE Net!Spec => []NetViews
<1>1. Net!Init => NetViews
  BY ViewsInit
<1>2. NetViews /\ [Net!Next]_(Net!vars) => NetViews'
  BY ViewsNext
<1> QED BY <1>1, <1>2, PTL DEF Net!Spec

\* What a nick finds has that nick, whoever is numbered has a nick that finds somebody, and
\* invis_clients counts whoever is +i (AddUser, NickChange, DelUser, mod_usermode).
THEOREM UsersAreNumbered == ASSUME NetTame PROVE Net!Spec => []Net!UsersNumbered
<1>1. ASSUME NetViews PROVE \A n \in Net!Numerics : users[n] # NULL => clients[users[n].nick] # NULL
  BY <1>1, EverybodyIs
<1>2. UsersInv => Net!NicksFindUsers
  BY ViewIs DEF UsersInv, Sound, Found, Net!NicksFindUsers
<1>3. UsersInv => Net!InvisCounted
  <2>1. ASSUME UsersInv PROVE invis = Cardinality({n \in Net!Numerics : users[n] # NULL /\ users[n].invis})
    BY <2>1, ViewIs, Zenon DEF UsersInv, Sound, Hidden
  <2>2. \A S : Net!Cardinality(S) = Cardinality(S)
    BY DEF Net!Cardinality, Cardinality
  <2> QED BY <2>1, <2>2 DEF Net!InvisCounted
<1>4. NetViews => Net!UsersNumbered
  BY <1>1, <1>2, <1>3 DEF Net!UsersNumbered, NetViews
<1> QED BY <1>4, ViewsAlways, PTL

\* Once the network has read what services sent, both know the same users under the same nicks,
\* and a nick finds its only bearer: collisions, kills, splits and bursts in any order, with any
\* number of NICK, QUIT and KILL messages crossing each other (AddUser, NickChange, DelUser,
\* cmd_kill, send_burst, cmd_eob), as long as nobody moves who is in a collision.
THEOREM ViewsOfUsersAgree == ASSUME NetTame PROVE Net!Spec => []Net!ViewsAgree
<1>1. ASSUME NetViews PROVE Net!ViewsAgree
  <2> SUFFICES ASSUME linked # {}, out = <<>>, NEW n \in Net!Numerics
               PROVE  /\ users[n] = NULL <=> theirs[n] = NULL
                      /\ users[n] # NULL => users[n].nick = theirs[n].nick /\ clients[users[n].nick] = n
    BY DEF Net!ViewsAgree
  <2>1. OneWay(users[n], theirs[n], out, n) /\ Distinct(theirs)
    BY <1>1, LinkedIs
  <2>2. Kinds /\ 1..Len(out) = {}
    BY <1>1, EverybodyIs
  <2>3. CASE n \in Services
    BY <1>1, <2>1, <2>2, <2>3, EverybodyIs DEF OneWay, ServiceWay
  <2>4. CASE n \in Clones
    <3>1. clients[users[n].nick] = n \/ users[n] = NULL
      BY <1>1, <2>2, <2>4, EverybodyIs DEF Kinds
    <3> QED BY <2>1, <2>2, <2>4, <3>1 DEF OneWay, CloneWay
  <2>5. CASE n \in Remote
    <3>1. RemoteWay(users[n], theirs[n], out, n)
      BY <2>1, <2>5 DEF OneWay
    <3>2. /\ users[n] = NULL <=> theirs[n] = NULL
          /\ users[n] # NULL => users[n].nick = theirs[n].nick
      BY <2>2, <3>1 DEF RemoteWay
    <3>3. ASSUME users[n] # NULL PROVE clients[users[n].nick] = n
      <4> DEFINE x == clients[users[n].nick]
      <4>1. x \in Net!Numerics /\ users[x] # NULL /\ users[x].nick = users[n].nick
        BY <1>1, <3>3, EverybodyIs
      <4> HIDE DEF x
      <4>2. theirs[x] # NULL /\ theirs[x].nick = users[x].nick
        <5>1. OneWay(users[x], theirs[x], out, x)
          BY <1>1, <4>1, LinkedIs
        <5>2. x \in Services => theirs[x] # NULL /\ theirs[x].nick = users[x].nick
          BY <1>1, <2>2, <5>1, EverybodyIs DEF OneWay, ServiceWay
        <5>3. x \in Clones => theirs[x] # NULL /\ theirs[x].nick = users[x].nick
          BY <2>2, <4>1, <5>1 DEF OneWay, CloneWay
        <5>4. x \in Remote => theirs[x] # NULL /\ theirs[x].nick = users[x].nick
          BY <2>2, <4>1, <5>1 DEF OneWay, RemoteWay
        <5> QED BY <2>2, <4>1, <5>2, <5>3, <5>4 DEF Kinds
      <4> QED BY <2>1, <3>2, <3>3, <4>1, <4>2 DEF Distinct, x
    <3> QED BY <3>2, <3>3
  <2> QED BY <2>2, <2>3, <2>4, <2>5 DEF Kinds
<1> QED BY <1>1, ViewsAlways, PTL

-----------------------------------------------------------------------------
(* OpServ's gags (OpGags).                                                  *)
Gags == INSTANCE OpGags

\* Nobody looks like NULL.
LooksTold == NULL \notin Gags!Looks

\* Who is online has a look; GagsExact.
GagInv == look \in [Users -> Gags!Looks \cup {NULL}] /\ Gags!GagsExact

\* The timers that the gags fs should have.
GagTimers(fs) == {[mask |-> m, at |-> fs[m]] : m \in {m \in DOMAIN fs : fs[m] # 0}}

\* Nobody is gagged at first.
LEMMA GagInit == Gags!Init => GagInv
BY DEF Gags!Init, GagInv, Gags!GagsExact, Gags!None

\* Users come, go and change, and the gags stay.
LEMMA PeopleGagged ==
  ASSUME LooksTold, GagInv, UNCHANGED <<gags, timers>>, look' \in [Users -> Gags!Looks \cup {NULL}],
         \A u \in gagged' : u \in Gags!Online' /\ Gags!Covered(look'[u])
  PROVE  GagInv'
BY DEF GagInv, Gags!GagsExact, Gags!Covered

\* Connections, quits, nick changes and opers: opserv_new_user_check gags whom a mask covers, and
\* opserv_alert_check_nick ungags whom none does.
LEMMA UserSteps ==
  ASSUME LooksTold, GagInv, NEW u \in Users,
         \/ \E l \in Gags!Looks, oper \in BOOLEAN : Gags!Connect(u, l, oper)
         \/ Gags!Quit(u) \/ Gags!Oper(u) \/ \E n \in Nicks : Gags!NickChange(u, n)
  PROVE  GagInv'
<1>1. look \in [Users -> Gags!Looks \cup {NULL}] /\ \A v \in gagged : v \in Users /\ look[v] # NULL /\ Gags!Covered(look[v])
  BY DEF GagInv, Gags!GagsExact, Gags!Online
<1>2. ASSUME NEW l \in Gags!Looks, NEW oper \in BOOLEAN, Gags!Connect(u, l, oper) PROVE GagInv'
  <2>1. look' = [look EXCEPT ![u] = l] /\ UNCHANGED <<gags, timers>> /\ look[u] = NULL
    BY <1>2 DEF Gags!Connect
  <2>2. look'[u] = l /\ l # NULL /\ (\A v \in Users \ {u} : look'[v] = look[v]) /\ look' \in [Users -> Gags!Looks \cup {NULL}]
    BY <2>1, <1>1 DEF LooksTold
  <2>3. \A v \in gagged' : v \in gagged \/ (v = u /\ Gags!Covered(l))
    BY <1>2 DEF Gags!Connect
  <2>4. \A v \in gagged' : v \in Users /\ look'[v] # NULL /\ Gags!Covered(look'[v])
    BY <2>1, <2>2, <2>3, <1>1
  <2> QED BY <2>1, <2>2, <2>4, PeopleGagged DEF Gags!Online
<1>3. ASSUME Gags!Gone(u), UNCHANGED <<gags, timers>> PROVE GagInv'
  <2>1. look' \in [Users -> Gags!Looks \cup {NULL}] /\ \A v \in Users \ {u} : look'[v] = look[v]
    BY <1>1, <1>3 DEF Gags!Gone
  <2>2. \A v \in gagged' : v \in Users /\ look'[v] # NULL /\ Gags!Covered(look'[v])
    BY <2>1, <1>1, <1>3 DEF Gags!Gone
  <2> QED BY <2>1, <2>2, <1>3, PeopleGagged DEF Gags!Online
<1>4. CASE Gags!Quit(u)
  BY <1>3, <1>4 DEF Gags!Quit
<1>5. CASE Gags!Oper(u)
  BY <1>1, <1>5, PeopleGagged DEF Gags!Oper, Gags!Online
<1>6. ASSUME NEW n \in Nicks, Gags!NickChange(u, n) PROVE GagInv'
  <2>1. CASE n \in alerts /\ u \notin opers
    BY <2>1, <1>3, <1>6 DEF Gags!NickChange
  <2>2. CASE ~(n \in alerts /\ u \notin opers)
    <3> DEFINE l == [look[u] EXCEPT !.nick = n]
    <3>1. look' = [look EXCEPT ![u] = l] /\ gagged' = Gags!Regagged(u, l) /\ UNCHANGED <<gags, timers>> /\ look[u] # NULL
      BY <2>2, <1>6 DEF Gags!NickChange, Gags!Online
    <3>2. l \in Gags!Looks
      BY <3>1, <1>1 DEF Gags!Looks
    <3> HIDE DEF l
    <3>3. look' \in [Users -> Gags!Looks \cup {NULL}] /\ look'[u] = l /\ l # NULL /\ \A v \in Users \ {u} : look'[v] = look[v]
      BY <3>1, <3>2, <1>1 DEF LooksTold
    <3>4. \A v \in gagged' : (v \in gagged /\ v # u) \/ (v = u /\ Gags!Covered(l))
      BY <3>1 DEF Gags!Regagged
    <3>5. \A v \in gagged' : v \in Users /\ look'[v] # NULL /\ Gags!Covered(look'[v])
      BY <3>3, <3>4, <1>1
    <3> QED BY <3>1, <3>3, <3>5, PeopleGagged DEF Gags!Online
  <2> QED BY <2>1, <2>2
<1> QED BY <1>2, <1>4, <1>5, <1>6

\* A new gag, by mask or by the host of somebody.
LEMMA GagStep ==
  ASSUME GagInv, NEW m, NEW e, Gags!Gag(m, e)
  PROVE  GagInv'
<1>1. m \notin DOMAIN gags
  BY DEF Gags!Gag
<1>2. DOMAIN gags' = DOMAIN gags \cup {m} /\ gags'[m] = e /\ \A x \in DOMAIN gags : gags'[x] = gags[x]
  BY <1>1 DEF Gags!Gag
<1>3. look' = look /\ gagged' \subseteq gagged \cup {u \in Gags!Online : look[u] \in m}
  BY DEF Gags!Gag, Gags!Gaggable
<1>4. \A u \in gagged' : u \in Gags!Online' /\ Gags!Covered(look[u])'
  BY <1>2, <1>3 DEF GagInv, Gags!GagsExact, Gags!Covered, Gags!Online
<1>5. timers = GagTimers(gags)
  BY DEF GagInv, Gags!GagsExact, GagTimers
<1>6. timers' = IF e = 0 THEN timers ELSE timers \cup {[mask |-> m, at |-> e]}
  BY DEF Gags!Gag
<1>7. timers' = GagTimers(gags')
  <2>1. CASE e = 0
    <3>1. {x \in DOMAIN gags' : gags'[x] # 0} = {x \in DOMAIN gags : gags[x] # 0}
      BY <1>1, <1>2, <2>1
    <3> QED BY <3>1, <1>2, <1>5, <1>6, <2>1 DEF GagTimers
  <2>2. CASE e # 0
    <3>1. {x \in DOMAIN gags' : gags'[x] # 0} = {x \in DOMAIN gags : gags[x] # 0} \cup {m}
      BY <1>1, <1>2, <2>2
    <3> QED BY <3>1, <1>2, <1>5, <1>6, <2>2 DEF GagTimers
  <2> QED BY <2>1, <2>2
<1> QED BY <1>3, <1>4, <1>7 DEF GagInv, Gags!GagsExact, GagTimers

\* A gag that goes takes its timer along.
LEMMA FreedStep ==
  ASSUME GagInv, NEW m \in DOMAIN gags, Gags!Freed(m), timers' = timers \ {[mask |-> m, at |-> gags[m]]}
  PROVE  GagInv'
<1>1. DOMAIN gags' = DOMAIN gags \ {m} /\ \A x \in DOMAIN gags \ {m} : gags'[x] = gags[x]
  BY DEF Gags!Freed
<1>2. look' = look /\ gagged' = gagged \ {u \in Gags!Online : look[u] \in m}
  BY DEF Gags!Freed
<1>3. \A u \in gagged' : u \in Gags!Online' /\ Gags!Covered(look[u])'
  BY <1>1, <1>2 DEF GagInv, Gags!GagsExact, Gags!Covered, Gags!Online
<1>4. timers = GagTimers(gags)
  BY DEF GagInv, Gags!GagsExact, GagTimers
<1>5. \A x \in timers' : \E k \in DOMAIN gags' : gags'[k] # 0 /\ x = [mask |-> k, at |-> gags'[k]]
  BY <1>1, <1>4 DEF GagTimers
<1>6. \A k \in DOMAIN gags' : gags'[k] # 0 => [mask |-> k, at |-> gags'[k]] \in timers'
  BY <1>1, <1>4 DEF GagTimers
<1>7. timers' = GagTimers(gags')
  BY <1>5, <1>6 DEF GagTimers
<1> QED BY <1>2, <1>3, <1>7 DEF GagInv, Gags!GagsExact, GagTimers

\* Every step keeps the gags, their timers and the flags together.
LEMMA GagNext == LooksTold /\ GagInv /\ [Gags!Next]_(Gags!vars) => GagInv'
<1> SUFFICES ASSUME LooksTold, GagInv, [Gags!Next]_(Gags!vars) PROVE GagInv'
  OBVIOUS
<1>1. ASSUME NEW u \in Users,
             \/ \E l \in Gags!Looks, oper \in BOOLEAN : Gags!Connect(u, l, oper)
             \/ Gags!Quit(u) \/ Gags!Oper(u) \/ \E n \in Nicks : Gags!NickChange(u, n)
      PROVE  GagInv'
  BY <1>1, UserSteps
<1>2. ASSUME NEW u \in Users, NEW e \in 0..MaxTime, Gags!TraceGag(u, e) PROVE GagInv'
  BY <1>2, GagStep DEF Gags!TraceGag
<1>3. ASSUME NEW m \in Masks, NEW e \in 0..MaxTime, Gags!Gag(m, e) PROVE GagInv'
  BY <1>3, GagStep
<1>4. ASSUME NEW m \in Masks, Gags!Ungag(m) PROVE GagInv'
  BY <1>4, FreedStep DEF Gags!Ungag
<1>5. ASSUME NEW t \in timers, Gags!GagExpire(t) PROVE GagInv'
  <2>1. PICK m \in DOMAIN gags : t = [mask |-> m, at |-> gags[m]]
    BY DEF GagInv, Gags!GagsExact
  <2>2. Gags!Freed(m) /\ timers' = timers \ {[mask |-> m, at |-> gags[m]]}
    BY <2>1, <1>5 DEF Gags!GagExpire
  <2> QED BY <2>2, FreedStep
<1>6. CASE Gags!Restart
  BY <1>6 DEF Gags!Restart, GagInv, Gags!GagsExact
<1>7. CASE Gags!Tick \/ UNCHANGED Gags!vars
  BY <1>7 DEF Gags!Tick, Gags!vars, GagInv, Gags!GagsExact, Gags!Online, Gags!Covered
<1> QED
  BY <1>1, <1>2, <1>3, <1>4, <1>5, <1>6, <1>7 DEF Gags!Next

\* Whoever is gagged is online and covered by a gag, and the queue holds one gag_expire for
\* each gag that expires and no other: whatever gags are set, traced, lifted or expire (gag_create,
\* gag_free, gag_expire), and however users come, go and rename.
THEOREM GagsAreExact == ASSUME LooksTold PROVE Gags!Spec => []Gags!GagsExact
<1>1. GagInv /\ [Gags!Next]_(Gags!vars) => GagInv'
  BY GagNext
<1>2. GagInv => Gags!GagsExact
  BY DEF GagInv
<1> QED BY <1>1, <1>2, GagInit, PTL DEF Gags!Spec

-----------------------------------------------------------------------------
(* OpServ's bad channels (OpChannels).                                      *)
Shut == INSTANCE OpChannels

\* What the proofs assume of the constants: NULL is no channel.
ShutTame == NULL \notin Shut!ChanNode /\ MaxTimers \in Nat

\* What holds of a channel that there is, under words ws and exemptions ex.
Watched(c, r, ws, ex) ==
  /\ r \in Shut!ChanNode
  /\ r.bad_channel => Shut!BadName(c, ws, ex) /\ r.members = r.kicked /\ (r.opserv => r.timers > 0)
  /\ Shut!BadName(c, ws, ex) => r.bad_channel \/ r.spared
  /\ c \in ex => r.spared

ShutInv ==
  /\ words \subseteq Words /\ exempt \subseteq Channels
  /\ chans \in [Channels -> Shut!ChanNode \cup {NULL}]
  /\ \A c \in Channels : chans[c] # NULL => Watched(c, chans[c], words, exempt)
  /\ \A w, x \in words : w \subseteq x => w = x

\* No word, no exemption, no channel.
LEMMA ShutInit == ASSUME Shut!Init PROVE ShutInv
  BY DEF Shut!Init, ShutInv

\* A change of one channel that words and exemptions have no part in.
LEMMA OneShut ==
  ASSUME ShutInv, NEW c \in Channels, NEW r, r = NULL \/ Watched(c, r, words, exempt),
         chans' = [chans EXCEPT ![c] = r], UNCHANGED <<words, exempt>>
  PROVE  ShutInv'
<1>1. r \in Shut!ChanNode \cup {NULL}
  BY DEF Watched
<1>2. chans' \in [Channels -> Shut!ChanNode \cup {NULL}]
  BY <1>1 DEF ShutInv
<1>3. ASSUME NEW d \in Channels, chans'[d] # NULL
      PROVE  Watched(d, chans'[d], words', exempt')
  <2>1. CASE d = c
    <3>1. chans'[d] = r
      BY <2>1 DEF ShutInv
    <3> QED BY <3>1, <2>1, <1>3
  <2>2. CASE d # c
    <3>1. chans'[d] = chans[d]
      BY <2>2 DEF ShutInv
    <3> QED BY <3>1, <1>3 DEF ShutInv
  <2> QED BY <2>1, <2>2
<1> QED BY <1>2, <1>3 DEF ShutInv

\* A channel that is found or made, with another member.
LEMMA FoundWatched ==
  ASSUME ShutTame, ShutInv, NEW c \in Channels, Shut!Found(c).timers < MaxTimers
  PROVE  /\ Watched(c, Shut!Found(c), words, exempt)
         /\ Shut!Found(c).timers < MaxTimers
<1>1. CASE chans[c] # NULL
  BY <1>1 DEF Shut!Found, ShutInv
<1>2. CASE chans[c] = NULL
  <2>1. Shut!Found(c) \in Shut!ChanNode
    BY <1>2 DEF Shut!Found, Shut!ChanNode, ShutTame, Shut!BadName
  <2>2. (Shut!BadName(c, words, exempt) <=> Shut!Found(c).bad_channel) /\ (c \in exempt <=> Shut!Found(c).spared) /\ Shut!Found(c).members = {} /\ Shut!Found(c).kicked = {} /\ ~Shut!Found(c).opserv
    BY <1>2, Zenon DEF Shut!Found, Shut!BadName
  <2> QED BY <2>1, <2>2 DEF Watched
<1> QED BY <1>1, <1>2

\* opserv_join_check: the channel is made, shut down, or policed.
LEMMA BadJoinStep ==
  ASSUME ShutTame, ShutInv, NEW c \in Channels, NEW u \in Users, NEW burst \in BOOLEAN, NEW conforms \in BOOLEAN,
         Shut!Join(u, c, burst, conforms)
  PROVE  ShutInv'
<1> DEFINE f == Shut!Found(c)
           r == [f EXCEPT !.members = @ \cup {u}]
           s == IF r.bad_channel THEN IF r.opserv THEN [r EXCEPT !.kicked = @ \cup {u}] ELSE Shut!Shut(r)
                ELSE IF burst THEN r ELSE Shut!Policed(r, conforms)
<1>1. f.timers < MaxTimers /\ chans' = [chans EXCEPT ![c] = s] /\ UNCHANGED <<words, exempt>>
  BY DEF Shut!Join
<1>2. Watched(c, f, words, exempt)
  BY <1>1, FoundWatched
<1> HIDE DEF f
<1>3. /\ f \in Shut!ChanNode /\ r \in Shut!ChanNode
      /\ r.bad_channel = f.bad_channel /\ r.opserv = f.opserv /\ r.timers = f.timers /\ r.spared = f.spared
      /\ r.kicked = f.kicked /\ r.members = f.members \cup {u} /\ r.join_flooded = f.join_flooded
  BY <1>2 DEF Watched, Shut!ChanNode
<1> HIDE DEF r
<1>4. Watched(c, s, words, exempt)
  <2>1. CASE r.bad_channel /\ r.opserv
    <3>1. /\ s \in Shut!ChanNode /\ s.bad_channel /\ s.spared = r.spared /\ s.timers = r.timers
          /\ s.kicked = r.kicked \cup {u} /\ s.members = r.members
      BY <2>1, <1>3 DEF Shut!ChanNode
    <3> QED BY <3>1, <2>1, <1>3, <1>2 DEF Watched
  <2>2. CASE r.bad_channel /\ ~r.opserv
    <3>1. r.timers + 1 \in 0..MaxTimers /\ r.timers + 1 > 0
      BY <1>1, <1>3 DEF Shut!ChanNode, ShutTame
    <3>2. /\ s \in Shut!ChanNode /\ s.bad_channel /\ s.spared = r.spared /\ s.timers = r.timers + 1
          /\ s.kicked = r.members /\ s.members = r.members
      BY <2>2, <1>3, <3>1, Zenon DEF Shut!ChanNode, Shut!Shut
    <3> QED BY <3>1, <3>2, <2>2, <1>3, <1>2, Zenon DEF Watched
  <2>3. CASE ~r.bad_channel
    <3>1. s \in Shut!ChanNode /\ ~s.bad_channel /\ s.spared = r.spared
      BY <2>3, <1>3, Zenon DEF Shut!ChanNode, Shut!Policed
    <3> QED BY <3>1, <2>3, <1>3, <1>2 DEF Watched
  <2> QED BY <2>1, <2>2, <2>3
<1> HIDE DEF s
<1> QED BY <1>1, <1>4, OneShut, Zenon

\* Whoever leaves, and OpServ itself, may leave a channel that goes.
LEMMA LeftWatched ==
  ASSUME NEW c, NEW r, Watched(c, r, words, exempt)
  PROVE  Shut!Left(c, r) = NULL \/ Watched(c, Shut!Left(c, r), words, exempt)
  BY DEF Shut!Left

\* DelChannelUser, also for a kick that comes back.
LEMMA BadLeaveStep ==
  ASSUME ShutTame, ShutInv, NEW c \in Channels, NEW u \in Users, Shut!Leave(u, c)
  PROVE  ShutInv'
<1> DEFINE o == chans[c]
           r == Shut!Sans(o, u)
<1>1. Watched(c, o, words, exempt) /\ o \in Shut!ChanNode
  BY DEF Shut!Leave, ShutInv, Watched
<1> HIDE DEF o
<1>2. /\ r \in Shut!ChanNode /\ (r.bad_channel <=> o.bad_channel) /\ (r.opserv <=> o.opserv) /\ r.timers = o.timers
      /\ (r.spared <=> o.spared) /\ r.kicked = o.kicked \ {u} /\ r.members = o.members \ {u}
  BY <1>1, Zenon DEF Shut!ChanNode, Shut!Sans
<1>3. Watched(c, r, words, exempt)
  BY <1>1, <1>2 DEF Watched
<1>4. chans' = [chans EXCEPT ![c] = Shut!Left(c, r)] /\ UNCHANGED <<words, exempt>>
  BY DEF Shut!Leave, o, ShutInv
<1> HIDE DEF r
<1> QED BY <1>3, <1>4, LeftWatched, OneShut, Zenon

\* opserv_part_channel: one timer fewer, and OpServ leaves.
LEMMA BadPartStep ==
  ASSUME ShutTame, ShutInv, NEW c \in Channels, Shut!PartChannel(c)
  PROVE  ShutInv'
<1> DEFINE o == chans[c]
           r == Shut!Fired(o)
<1>1. Watched(c, o, words, exempt) /\ o \in Shut!ChanNode /\ o.timers > 0
  BY DEF Shut!PartChannel, ShutInv, Watched
<1>2. UNCHANGED <<words, exempt>> /\ chans' = [chans EXCEPT ![c] = IF o.opserv THEN Shut!Left(c, r) ELSE r]
  BY DEF Shut!PartChannel, ShutInv
<1> HIDE DEF o
<1>3. o.timers - 1 \in 0..MaxTimers
  BY <1>1 DEF Shut!ChanNode, ShutTame
<1>4. /\ r \in Shut!ChanNode /\ (r.bad_channel <=> o.bad_channel) /\ ~r.opserv
      /\ (r.spared <=> o.spared) /\ r.kicked = o.kicked /\ r.members = o.members
  BY <1>1, <1>3, Zenon DEF Shut!ChanNode, Shut!Fired
<1> HIDE DEF r
<1>5. Watched(c, r, words, exempt)
  BY <1>1, <1>4 DEF Watched
<1>6. CASE o.opserv
  BY <1>2, <1>5, <1>6, LeftWatched, OneShut, Zenon
<1>7. CASE ~o.opserv
  BY <1>2, <1>5, <1>7, OneShut, Zenon
<1> QED BY <1>6, <1>7

\* A word that is added covers the names that those it replaces were in.
LEMMA BadAddStep ==
  ASSUME ShutTame, ShutInv, NEW w \in Words, Shut!AddBad(w)
  PROVE  ShutInv'
<1>1. /\ words' = {x \in words : ~(w \subseteq x)} \cup {w} /\ exempt' = exempt
      /\ ~\E x \in words : x \subseteq w
  BY DEF Shut!AddBad
<1>2. words' \subseteq Words /\ exempt' \subseteq Channels /\ \A v, x \in words' : v \subseteq x => v = x
  BY <1>1 DEF ShutInv
<1>3. ASSUME NEW c PROVE Shut!BadName(c, words, exempt) => Shut!BadName(c, words', exempt)
  BY <1>1 DEF Shut!BadName
<1>4. ASSUME NEW c \in Channels
      PROVE  /\ chans'[c] \in Shut!ChanNode \cup {NULL}
             /\ chans'[c] # NULL => Watched(c, chans'[c], words', exempt')
  <2>1. CASE chans[c] # NULL /\ Shut!BadName(c, words', exempt)
    <3> DEFINE o == chans[c]
               r == [Shut!Shut(o) EXCEPT !.bad_channel = TRUE]
    <3>1. chans'[c] = r
      BY <2>1 DEF Shut!AddBad
    <3>2. o \in Shut!ChanNode /\ Watched(c, o, words, exempt) /\ o.timers < MaxTimers
      BY <2>1 DEF Shut!AddBad, ShutInv, Watched
    <3> HIDE DEF o
    <3>3. o.timers + 1 \in 0..MaxTimers /\ o.timers + 1 > 0
      BY <3>2 DEF Shut!ChanNode, ShutTame
    <3>4. /\ r \in Shut!ChanNode /\ r.bad_channel /\ r.kicked = o.members /\ r.members = o.members
          /\ r.timers = o.timers + 1 /\ (r.spared <=> o.spared)
      BY <3>2, <3>3, Zenon DEF Shut!ChanNode, Shut!Shut
    <3> HIDE DEF r
    <3>5. Watched(c, r, words', exempt)
      BY <3>2, <3>3, <3>4, <2>1 DEF Watched
    <3> QED BY <3>1, <3>4, <3>5, <1>1
  <2>2. CASE chans[c] = NULL
    BY <2>2 DEF Shut!AddBad
  <2>3. CASE chans[c] # NULL /\ ~Shut!BadName(c, words', exempt)
    <3>1. chans'[c] = chans[c]
      BY <2>3 DEF Shut!AddBad
    <3>2. Watched(c, chans[c], words, exempt)
      BY <2>3 DEF ShutInv
    <3>3. Watched(c, chans[c], words', exempt)
      BY <2>3, <3>2, <1>3 DEF Watched
    <3> QED BY <3>1, <3>3, <1>1 DEF Watched
  <2> QED BY <2>1, <2>2, <2>3
<1>5. chans' = [c \in Channels |-> chans'[c]]
  BY DEF Shut!AddBad
<1> QED BY <1>2, <1>4, <1>5 DEF ShutInv

\* A channel that is opened again is not bad.
LEMMA ReopenedIs ==
  ASSUME ShutTame, NEW r \in Shut!ChanNode
  PROVE  /\ Shut!Reopened(r) \in Shut!ChanNode /\ ~Shut!Reopened(r).bad_channel
         /\ (Shut!Reopened(r).spared <=> r.spared)
<1>1. 0 \in 0..MaxTimers
  BY DEF ShutTame
<1> HIDE DEF ShutTame
<1> QED BY <1>1, Zenon DEF Shut!Reopened, Shut!ChanNode

\* Channels whose name no other word is in are opened again.
LEMMA BadDelStep ==
  ASSUME ShutTame, ShutInv, NEW w \in Words, Shut!DelBad(w)
  PROVE  ShutInv'
<1>1. words' = words \ {w} /\ exempt' = exempt
  BY DEF Shut!DelBad
<1>2. words' \subseteq Words /\ exempt' \subseteq Channels /\ \A v, x \in words' : v \subseteq x => v = x
  BY <1>1 DEF ShutInv
<1>3. ASSUME NEW c \in Channels
      PROVE  /\ chans'[c] \in Shut!ChanNode \cup {NULL}
             /\ chans'[c] # NULL => Watched(c, chans'[c], words', exempt')
  <2>1. CASE chans[c] # NULL /\ w \subseteq c /\ ~Shut!BadName(c, words', exempt)
    <3>1. chans'[c] = Shut!Reopened(chans[c])
      BY <2>1 DEF Shut!DelBad, Shut!StillBad
    <3>2. chans[c] \in Shut!ChanNode /\ Watched(c, chans[c], words, exempt)
      BY <2>1 DEF ShutInv, Watched
    <3> QED BY <3>1, <3>2, <2>1, <1>1, ReopenedIs DEF Watched
  <2>2. CASE chans[c] = NULL
    BY <2>2 DEF Shut!DelBad
  <2>3. CASE chans[c] # NULL /\ ~(w \subseteq c /\ ~Shut!BadName(c, words', exempt))
    <3>1. chans'[c] = chans[c]
      BY <2>3 DEF Shut!DelBad, Shut!StillBad
    <3>2. Watched(c, chans[c], words, exempt)
      BY <2>3 DEF ShutInv
    <3>3. Shut!BadName(c, words, exempt) <=> Shut!BadName(c, words', exempt)
      BY <2>3, <1>1 DEF Shut!BadName
    <3>4. Watched(c, chans[c], words', exempt)
      BY <3>2, <3>3 DEF Watched
    <3> QED BY <3>1, <3>4, <1>1 DEF Watched
  <2> QED BY <2>1, <2>2, <2>3
<1>4. chans' = [c \in Channels |-> chans'[c]]
  BY DEF Shut!DelBad
<1> QED BY <1>2, <1>3, <1>4 DEF ShutInv

\* ADDEXEMPT opens the channel, whatever its name.
LEMMA BadExemptStep ==
  ASSUME ShutTame, ShutInv, NEW c \in Channels, Shut!AddExempt(c)
  PROVE  ShutInv'
<1> DEFINE o == chans[c]
           p == IF o.bad_channel THEN Shut!Reopened(o) ELSE o
           r == [p EXCEPT !.spared = TRUE]
<1>1. exempt' = exempt \cup {c} /\ words' = words
      /\ chans' = [chans EXCEPT ![c] = IF o = NULL THEN NULL ELSE r]
  BY DEF Shut!AddExempt, ShutInv
<1>2. ASSUME o # NULL PROVE Watched(c, r, words, exempt')
  <2>1. o \in Shut!ChanNode /\ Watched(c, o, words, exempt)
    BY <1>2 DEF ShutInv, Watched
  <2> HIDE DEF o
  <2>2. p \in Shut!ChanNode /\ ~p.bad_channel
    BY <2>1, ReopenedIs
  <2> HIDE DEF p
  <2>3. r \in Shut!ChanNode /\ ~r.bad_channel /\ r.spared
    BY <2>2, Zenon DEF Shut!ChanNode
  <2> HIDE DEF r
  <2> QED BY <2>3, <1>1 DEF Watched, Shut!BadName
<1>3. ASSUME NEW d \in Channels
      PROVE  /\ chans'[d] \in Shut!ChanNode \cup {NULL}
             /\ chans'[d] # NULL => Watched(d, chans'[d], words', exempt')
  <2>1. CASE d = c
    <3>1. chans'[c] = IF o = NULL THEN NULL ELSE r
      BY <1>1 DEF ShutInv
    <3> HIDE DEF r, o
    <3> QED BY <3>1, <2>1, <1>2, <1>1 DEF Watched
  <2>2. CASE d # c
    <3>1. chans'[d] = chans[d] /\ chans[d] \in Shut!ChanNode \cup {NULL}
      BY <1>1, <2>2 DEF ShutInv
    <3>2. (d \in exempt' <=> d \in exempt) /\ (Shut!BadName(d, words, exempt') <=> Shut!BadName(d, words, exempt))
      BY <1>1, <2>2 DEF Shut!BadName
    <3>3. chans[d] # NULL => Watched(d, chans[d], words, exempt)
      BY DEF ShutInv
    <3> QED BY <3>1, <3>2, <3>3, <1>1 DEF Watched
  <2> QED BY <2>1, <2>2
<1>4. chans' = [d \in Channels |-> chans'[d]]
  BY <1>1, Zenon DEF ShutInv
<1>5. words' \subseteq Words /\ exempt' \subseteq Channels /\ \A v, x \in words' : v \subseteq x => v = x
  BY <1>1 DEF ShutInv
<1> QED BY <1>3, <1>4, <1>5 DEF ShutInv

\* What was exempt while it was there needs no shutting.
LEMMA BadUnexemptStep ==
  ASSUME ShutTame, ShutInv, NEW c \in Channels, Shut!DelExempt(c)
  PROVE  ShutInv'
<1>1. exempt' = exempt \ {c} /\ words' = words /\ chans' = chans /\ c \in exempt
  BY DEF Shut!DelExempt
<1>2. ASSUME NEW d \in Channels, chans[d] # NULL
      PROVE  Watched(d, chans[d], words, exempt')
  <2>1. Watched(d, chans[d], words, exempt)
    BY <1>2 DEF ShutInv
  <2>2. CASE d = c
    BY <2>1, <2>2, <1>1 DEF Watched, Shut!BadName
  <2>3. CASE d # c
    BY <2>1, <2>3, <1>1 DEF Watched, Shut!BadName
  <2> QED BY <2>2, <2>3
<1> QED BY <1>1, <1>2, Zenon DEF ShutInv

\* Every step keeps what is known of the channels.
LEMMA ShutNext == ASSUME ShutTame, ShutInv, [Shut!Next]_(Shut!vars) PROVE ShutInv'
<1>1. ASSUME NEW c \in Channels, NEW u \in Users, Shut!Leave(u, c) PROVE ShutInv'
  BY <1>1, BadLeaveStep
<1>2. ASSUME NEW c \in Channels, NEW u \in Users, NEW burst \in BOOLEAN, NEW conforms \in BOOLEAN, Shut!Join(u, c, burst, conforms)
      PROVE  ShutInv'
  BY <1>2, BadJoinStep
<1>3. ASSUME NEW c \in Channels, Shut!PartChannel(c) PROVE ShutInv'
  BY <1>3, BadPartStep
<1>4. ASSUME NEW c \in Channels, Shut!AddExempt(c) PROVE ShutInv'
  BY <1>4, BadExemptStep
<1>5. ASSUME NEW c \in Channels, Shut!DelExempt(c) PROVE ShutInv'
  BY <1>5, BadUnexemptStep
<1>6. ASSUME NEW w \in Words, Shut!AddBad(w) PROVE ShutInv'
  BY <1>6, BadAddStep
<1>7. ASSUME NEW w \in Words, Shut!DelBad(w) PROVE ShutInv'
  BY <1>7, BadDelStep
<1>8. CASE Shut!Restart
  BY <1>8 DEF Shut!Restart, ShutInv
<1>9. CASE UNCHANGED Shut!vars
  BY <1>9 DEF Shut!vars, ShutInv
<1> QED BY <1>1, <1>2, <1>3, <1>4, <1>5, <1>6, <1>7, <1>8, <1>9 DEF Shut!Next

\* A channel with a bad word in its name is known as such ...
THEOREM BadChannelsAreShut == ASSUME ShutTame PROVE Shut!Spec => []Shut!BadChannelsShut
<1>1. ShutInv /\ [Shut!Next]_(Shut!vars) => ShutInv'
  BY ShutNext
<1>2. ShutInv => Shut!BadChannelsShut
  BY DEF ShutInv, Shut!BadChannelsShut, Shut!TypeOK, Watched
<1>3. Shut!Init => ShutInv
  BY ShutInit
<1> QED BY <1>1, <1>2, <1>3, PTL DEF Shut!Spec

-----------------------------------------------------------------------------
(* Services and their commands (Modcmd).                                    *)
Registry == INSTANCE Modcmd WITH Flags <- Options

\* What the proofs assume of the constants: bots and names are finitely many, levels are numbers,
\* who gives commands has one that is not 0, and NULL is none of what it stands for the lack of.
Binding == [cmd : Commands, alias : BOOLEAN, rules : Registry!Rules]
RegistryTame ==
  /\ IsFiniteSet(Bots) /\ IsFiniteSet(Names) /\ Levels \subseteq Int /\ BuiltIn \in [Commands -> Levels]
  /\ Staff \subseteq Int \ {0} /\ NULL \notin Bots \cup Triggers \cup Binding /\ Registry!Gone \notin Bots
  /\ ConfNicks \subseteq Nicks /\ DefBinds \in [Names -> Binding \cup {NULL}]

\* A trigger leads to a service that has it.
TriggersLead == \A t \in Triggers : chanmsg[t] \notin {NULL, Registry!Gone} => chanmsg[t] \in Registry!There /\ trigger[chanmsg[t]] = t
\* A bot is one service at most, and one that is none has no bindings.
OneNick == \A n, m \in Nicks : services[n] # NULL /\ services[n] = services[m] => n = m
RegistryInv ==
  /\ services \in [Nicks -> Bots \cup {NULL}] /\ trigger \in [Bots -> Triggers \cup {NULL}]
  /\ chanmsg \in [Triggers -> Bots \cup {NULL, Registry!Gone}]
  /\ bound \in [Bots -> [Names -> Binding \cup {NULL}]]
  /\ defaults \in [Commands -> Registry!Rules] /\ count \in [Commands -> Int]
  /\ TriggersLead /\ OneNick
  /\ \A b \in Bots \ Registry!There : bound[b] = Registry!Nothing
  /\ \A c \in Commands : Cardinality(Registry!BoundTo(Bots, c)) <= count[c]

\* The two sections count in the same way.
LEMMA SameCount == \A S : Registry!Cardinality(S) = Cardinality(S)
  BY Zenon DEF Registry!Cardinality, Cardinality

\* The bindings of a command can be counted.
LEMMA BoundFinite ==
  ASSUME RegistryTame, NEW bs \in SUBSET Bots, NEW c
  PROVE  IsFiniteSet(Registry!BoundTo(bs, c)) /\ Cardinality(Registry!BoundTo(bs, c)) \in Int
<1>1. IsFiniteSet(Bots \X Names)
  BY FS_Product DEF RegistryTame
<1>2. Registry!BoundTo(bs, c) \subseteq Bots \X Names
  BY DEF Registry!BoundTo
<1> QED BY <1>1, <1>2, FS_Subset, FS_CardinalityType

\* What a service that is gone was bound to counts no more.
LEMMA FewerBound ==
  ASSUME RegistryTame, RegistryInv, count' = count,
         \A c \in Commands : Registry!BoundTo(Bots, c)' \subseteq Registry!BoundTo(Bots, c)
  PROVE  \A c \in Commands : Cardinality(Registry!BoundTo(Bots, c)') <= count'[c]
<1> TAKE c \in Commands
<1>1. IsFiniteSet(Registry!BoundTo(Bots, c)) /\ Cardinality(Registry!BoundTo(Bots, c)) \in Int
  BY BoundFinite
<1>2. Cardinality(Registry!BoundTo(Bots, c)') <= Cardinality(Registry!BoundTo(Bots, c)) /\ Cardinality(Registry!BoundTo(Bots, c)') \in Int
  BY <1>1, FS_Subset, FS_CardinalityType
<1>3. Cardinality(Registry!BoundTo(Bots, c)) <= count[c] /\ count[c] \in Int
  BY DEF RegistryInv
<1> QED BY <1>1, <1>2, <1>3

\* Who is there.
LEMMA ServicesThere ==
  /\ \A b : b \in Registry!There <=> \E n \in Nicks : services[n] = b /\ b # NULL
  /\ RegistryInv => Registry!There \subseteq Bots
  BY DEF Registry!There, RegistryInv

\* Default binds are given to services only.
LEMMA DefaultsGiven ==
  ASSUME RegistryTame, NEW bs, NEW cmds \in [Bots -> [Names -> Binding \cup {NULL}]]
  PROVE  /\ Registry!WithDefaults(bs, cmds) \in [Bots -> [Names -> Binding \cup {NULL}]]
         /\ \A b \in Bots : b \notin bs \/ cmds[b] # Registry!Nothing => Registry!WithDefaults(bs, cmds)[b] = cmds[b]
<1>1. DefBinds \in [Names -> Binding \cup {NULL}]
  BY DEF RegistryTame
<1> QED BY <1>1 DEF Registry!WithDefaults

\* The services of srvx.conf have their commands and no trigger.
LEMMA RegistryInit == ASSUME RegistryTame, Registry!Init PROVE RegistryInv
<1>1. PICK to \in [ConfNicks -> Bots] :
        /\ \A n, m \in ConfNicks : to[n] = to[m] => n = m
        /\ services = [n \in Nicks |-> IF n \in ConfNicks THEN to[n] ELSE NULL]
  BY DEF Registry!Init
<1>2. services \in [Nicks -> Bots \cup {NULL}] /\ ConfNicks \subseteq Nicks /\ NULL \notin Bots
  BY <1>1 DEF RegistryTame
<1>3. OneNick
  BY <1>1, <1>2 DEF OneNick
<1>4. TriggersLead
  BY DEF TriggersLead, Registry!Init
<1>5. defaults \in [Commands -> Registry!Rules]
  BY DEF Registry!Init, Registry!Rules, RegistryTame
<1> DEFINE none == [b \in Bots |-> Registry!Nothing]
<1>6. none \in [Bots -> [Names -> Binding \cup {NULL}]] /\ bound = Registry!WithDefaults(Registry!There, none)
  BY DEF Registry!Init, Registry!Nothing
<1>7. \A b \in Bots : none[b] = Registry!Nothing
  OBVIOUS
<1> HIDE DEF none
<1>8. bound \in [Bots -> [Names -> Binding \cup {NULL}]] /\ \A b \in Bots \ Registry!There : bound[b] = Registry!Nothing
  BY <1>6, <1>7, DefaultsGiven
<1>9. count = [c \in Commands |-> Cardinality(Registry!BoundTo(Bots, c))]
  BY SameCount DEF Registry!Init
<1>10. \A c \in Commands : Cardinality(Registry!BoundTo(Bots, c)) \in Int
  BY BoundFinite
<1>11. count \in [Commands -> Int] /\ \A c \in Commands : Cardinality(Registry!BoundTo(Bots, c)) <= count[c]
  BY <1>9, <1>10
<1> QED BY <1>2, <1>3, <1>4, <1>5, <1>8, <1>11 DEF Registry!Init, RegistryInv

\* A binding is looked up by a pair.
LEMMA BoundToIs ==
  ASSUME NEW c, NEW bs, NEW b, NEW n
  PROVE  <<b, n>> \in Registry!BoundTo(bs, c) <=> b \in bs /\ n \in Names /\ bound[b][n] # NULL /\ bound[b][n].cmd = c
  BY DEF Registry!BoundTo

\* A new binding is counted.
LEMMA BindStep ==
  ASSUME RegistryTame, RegistryInv, NEW s \in Staff, NEW b \in Bots, NEW n \in Names, NEW t \in Registry!Templates(s),
         NEW alias \in BOOLEAN, Registry!Bind(s, b, n, t, alias)
  PROVE  RegistryInv'
<1>1. t \in Binding
  <2>1. CASE t \in {[cmd |-> c, alias |-> FALSE, rules |-> defaults[c]] : c \in Commands}
    <3>1. PICK c \in Commands : t = [cmd |-> c, alias |-> FALSE, rules |-> defaults[c]]
      BY <2>1
    <3>2. defaults[c] \in Registry!Rules
      BY DEF RegistryInv
    <3> QED BY <3>1, <3>2 DEF Binding
  <2>2. ASSUME NEW d \in Registry!There, NEW m \in Names, t = bound[d][m], t # NULL PROVE t \in Binding
    <3>1. d \in Bots
      BY ServicesThere
    <3>2. bound[d][m] \in Binding \cup {NULL}
      BY <3>1 DEF RegistryInv
    <3> QED BY <2>2, <3>2
  <2> QED BY <2>1, <2>2 DEF Registry!Templates
<1> DEFINE r == [t EXCEPT !.alias = alias]
<1>2. r \in Binding /\ r.cmd = t.cmd /\ r # NULL
  BY <1>1 DEF Binding, RegistryTame
<1>3. /\ bound' = [bound EXCEPT ![b][n] = r] /\ count' = [count EXCEPT ![t.cmd] = @ + 1]
      /\ bound[b][n] = NULL /\ b \in Registry!There
      /\ UNCHANGED <<services, trigger, chanmsg, defaults>>
  BY DEF Registry!Bind, Registry!registry
<1> HIDE DEF r
<1>4. /\ bound' \in [Bots -> [Names -> Binding \cup {NULL}]]
      /\ bound'[b][n] = r /\ \A d \in Bots, m \in Names : d # b \/ m # n => bound'[d][m] = bound[d][m]
      /\ \A d \in Bots : d # b => bound'[d] = bound[d]
  BY <1>2, <1>3 DEF RegistryInv
<1>5. t.cmd \in Commands
  BY <1>1 DEF Binding
<1>6. count' \in [Commands -> Int] /\ count'[t.cmd] = count[t.cmd] + 1 /\ \A c \in Commands \ {t.cmd} : count'[c] = count[c]
  BY <1>3, <1>5 DEF RegistryInv
<1>7. ASSUME NEW c \in Commands PROVE Registry!BoundTo(Bots, c)' = IF c = t.cmd THEN Registry!BoundTo(Bots, c) \cup {<<b, n>>} ELSE Registry!BoundTo(Bots, c)
  BY <1>2, <1>3, <1>4 DEF Registry!BoundTo
<1>8. ASSUME NEW c \in Commands PROVE Cardinality(Registry!BoundTo(Bots, c)') <= count'[c]
  <2>1. IsFiniteSet(Registry!BoundTo(Bots, c)) /\ Cardinality(Registry!BoundTo(Bots, c)) \in Int
    BY BoundFinite
  <2>2. <<b, n>> \notin Registry!BoundTo(Bots, c)
    BY <1>3 DEF Registry!BoundTo
  <2>3. Cardinality(Registry!BoundTo(Bots, c) \cup {<<b, n>>}) = Cardinality(Registry!BoundTo(Bots, c)) + 1
    BY <2>1, <2>2, FS_AddElement, Zenon
  <2>4. Cardinality(Registry!BoundTo(Bots, c)) <= count[c] /\ count[c] \in Int
    BY DEF RegistryInv
  <2> QED BY <2>1, <2>3, <2>4, <1>6, <1>7
<1>9. Registry!There' = Registry!There
  BY <1>3 DEF Registry!There
<1>10. TriggersLead' /\ OneNick'
  BY <1>3, <1>9 DEF RegistryInv, TriggersLead, OneNick
<1>11. \A d \in Bots \ Registry!There' : bound'[d] = Registry!Nothing
  BY <1>3, <1>4, <1>9 DEF RegistryInv
<1>12. Registry!Nothing' = Registry!Nothing
  BY DEF Registry!Nothing
<1> QED BY <1>3, <1>4, <1>6, <1>8, <1>10, <1>11, <1>12 DEF RegistryInv

\* A binding that goes, or gets other rules.
LEMMA RebindStep ==
  ASSUME RegistryTame, RegistryInv, NEW b \in Registry!There, NEW n \in Names, NEW r,
         r = NULL \/ (bound[b][n] # NULL /\ r \in Binding /\ r.cmd = bound[b][n].cmd),
         bound' = [bound EXCEPT ![b][n] = r],
         UNCHANGED <<services, trigger, chanmsg, defaults, count>>
  PROVE  RegistryInv'
<1>1. b \in Bots
  BY ServicesThere
<1>2. /\ bound' \in [Bots -> [Names -> Binding \cup {NULL}]]
      /\ bound'[b][n] = r /\ \A d \in Bots, m \in Names : d # b \/ m # n => bound'[d][m] = bound[d][m]
      /\ \A d \in Bots : d # b => bound'[d] = bound[d]
  BY <1>1 DEF RegistryInv
<1>3. \A c \in Commands : Registry!BoundTo(Bots, c)' \subseteq Registry!BoundTo(Bots, c)
  BY <1>1, <1>2 DEF Registry!BoundTo
<1>4. \A c \in Commands : Cardinality(Registry!BoundTo(Bots, c)') <= count'[c]
  BY <1>3, FewerBound
<1>5. Registry!There' = Registry!There /\ Registry!Nothing' = Registry!Nothing
  BY DEF Registry!There, Registry!Nothing
<1>6. TriggersLead' /\ OneNick'
  BY <1>5 DEF RegistryInv, TriggersLead, OneNick
<1>7. \A d \in Bots \ Registry!There' : bound'[d] = Registry!Nothing'
  BY <1>2, <1>5 DEF RegistryInv
<1> QED BY <1>2, <1>4, <1>6, <1>7 DEF RegistryInv

\* svccmd_configure: the command of a binding stays.
LEMMA ModcmdStep ==
  ASSUME RegistryTame, RegistryInv, NEW s \in Staff, NEW b \in Bots, NEW n \in Names, NEW new \in Registry!Rules,
         Registry!ModcmdBound(s, b, n, new)
  PROVE  RegistryInv'
<1> DEFINE old == bound[b][n]
           r == [old EXCEPT !.rules = new]
<1>1. b \in Registry!There /\ old # NULL /\ bound' = [bound EXCEPT ![b][n] = r]
      /\ UNCHANGED <<services, trigger, chanmsg, defaults, count>>
  <2>1. /\ b \in Registry!There /\ old # NULL /\ bound' = [bound EXCEPT ![b][n].rules = new]
        /\ UNCHANGED <<services, trigger, chanmsg, defaults, count>>
    BY DEF Registry!ModcmdBound, Registry!registry
  <2>2. [bound EXCEPT ![b][n].rules = new] = [bound EXCEPT ![b][n] = [@ EXCEPT !.rules = new]]
    BY SMT
  <2>3. [bound EXCEPT ![b][n] = [@ EXCEPT !.rules = new]] = [bound EXCEPT ![b][n] = r]
    BY SMT
  <2> QED BY <2>1, <2>2, <2>3
<1>2. old \in Binding
  BY <1>1 DEF RegistryInv
<1> HIDE DEF old
<1>3. r \in Binding /\ r.cmd = old.cmd
  BY <1>2 DEF Binding
<1> HIDE DEF r
<1> QED BY <1>1, <1>3, RebindStep, Zenon DEF old

\* UNBIND
LEMMA UnbindStep ==
  ASSUME RegistryTame, RegistryInv, NEW s \in Staff, NEW b \in Bots, NEW n \in Names, Registry!Unbind(s, b, n)
  PROVE  RegistryInv'
  BY RebindStep, Zenon DEF Registry!Unbind, Registry!registry

\* MODCMD, of a command itself, concerns no binding.
LEMMA DefaultStep ==
  ASSUME RegistryTame, RegistryInv, NEW s \in Staff, NEW c \in Commands, NEW new \in Registry!Rules, Registry!ModcmdDefault(s, c, new)
  PROVE  RegistryInv'
<1>1. defaults' \in [Commands -> Registry!Rules] /\ UNCHANGED <<services, trigger, chanmsg, bound, count>>
  BY DEF Registry!ModcmdDefault, Registry!registry, RegistryInv
<1>2. Registry!There' = Registry!There /\ Registry!Nothing' = Registry!Nothing /\ \A c2 \in Commands : Registry!BoundTo(Bots, c2)' = Registry!BoundTo(Bots, c2)
  BY <1>1 DEF Registry!There, Registry!Nothing, Registry!BoundTo
<1>3. TriggersLead' /\ OneNick'
  BY <1>1, <1>2 DEF RegistryInv, TriggersLead, OneNick
<1> QED BY <1>1, <1>2, <1>3 DEF RegistryInv

\* A service that is made has no trigger and no bindings, and none led to it.
LEMMA ServiceAddStep ==
  ASSUME RegistryTame, RegistryInv, NEW s \in Staff, NEW b \in Bots, NEW n \in Nicks, Registry!ServiceAdd(s, b, n)
  PROVE  RegistryInv'
<1>1. /\ services[n] = NULL /\ b \notin Registry!There /\ b # NULL
      /\ services' = [services EXCEPT ![n] = b] /\ trigger' = [trigger EXCEPT ![b] = NULL]
      /\ bound' = [bound EXCEPT ![b] = Registry!Nothing]
      /\ UNCHANGED <<chanmsg, defaults, count>>
  BY DEF Registry!ServiceAdd, RegistryTame
<1>2. /\ services' \in [Nicks -> Bots \cup {NULL}] /\ services'[n] = b
      /\ \A m \in Nicks \ {n} : services'[m] = services[m]
  BY <1>1 DEF RegistryInv
<1>3. \A d : d \in Registry!There' <=> d \in Registry!There \/ d = b
  <2>1. \A d : d \in Registry!There' <=> \E m \in Nicks : services'[m] = d /\ d # NULL
    BY DEF Registry!There
  <2> QED BY <1>1, <1>2, <2>1, ServicesThere
<1>4. TriggersLead'
  <2>1. ASSUME NEW t \in Triggers, chanmsg[t] \notin {NULL, Registry!Gone} PROVE chanmsg[t] \in Registry!There' /\ trigger'[chanmsg[t]] = t
    <3>1. chanmsg[t] \in Registry!There /\ trigger[chanmsg[t]] = t
      BY <2>1 DEF RegistryInv, TriggersLead
    <3>2. chanmsg[t] # b /\ chanmsg[t] \in Bots
      BY <1>1, <2>1, <3>1 DEF RegistryInv
    <3> QED BY <1>1, <1>3, <3>1, <3>2 DEF RegistryInv
  <2> QED BY <1>1, <2>1 DEF TriggersLead
<1>5. OneNick'
  <2>1. ASSUME NEW m \in Nicks, m # n PROVE services'[m] # b
    BY <1>1, <1>2, <2>1, ServicesThere
  <2> QED BY <1>2, <2>1 DEF RegistryInv, OneNick
<1>6. /\ bound' \in [Bots -> [Names -> Binding \cup {NULL}]] /\ bound'[b] = Registry!Nothing
      /\ \A d \in Bots \ {b} : bound'[d] = bound[d]
  BY <1>1 DEF RegistryInv, Registry!Nothing
<1>7. \A c \in Commands : Registry!BoundTo(Bots, c)' \subseteq Registry!BoundTo(Bots, c)
  BY <1>6 DEF Registry!BoundTo, Registry!Nothing
<1>8. \A c \in Commands : Cardinality(Registry!BoundTo(Bots, c)') <= count'[c]
  BY <1>1, <1>7, FewerBound
<1>9. \A d \in Bots \ Registry!There' : bound'[d] = Registry!Nothing'
  BY <1>3, <1>6 DEF RegistryInv, Registry!Nothing
<1>10. trigger' \in [Bots -> Triggers \cup {NULL}]
  BY <1>1 DEF RegistryInv
<1> QED BY <1>1, <1>2, <1>4, <1>5, <1>6, <1>8, <1>9, <1>10 DEF RegistryInv

\* When a service ends and its bot has no nick any more, nothing is bound to it and no trigger leads to it.
LEMMA EndStep ==
  ASSUME RegistryTame, RegistryInv, NEW b \in Bots, Registry!End(b), UNCHANGED <<trigger, defaults, count>>,
         services' \in [Nicks -> Bots \cup {NULL}], OneNick',
         \A d : d \in Registry!There' <=> d \in Registry!There /\ d # b
  PROVE  RegistryInv'
<1>1. bound' = [bound EXCEPT ![b] = Registry!Nothing] /\ chanmsg' = [t \in Triggers |-> IF chanmsg[t] = b THEN Registry!Gone ELSE chanmsg[t]]
  BY DEF Registry!End
<1>2. /\ chanmsg' \in [Triggers -> Bots \cup {NULL, Registry!Gone}]
      /\ \A t \in Triggers : chanmsg'[t] \notin {NULL, Registry!Gone} => chanmsg'[t] = chanmsg[t] /\ chanmsg[t] # b
  BY <1>1 DEF RegistryInv
<1>3. TriggersLead'
  BY <1>2 DEF RegistryInv, TriggersLead
<1>4. /\ bound' \in [Bots -> [Names -> Binding \cup {NULL}]] /\ bound'[b] = Registry!Nothing
      /\ \A d \in Bots \ {b} : bound'[d] = bound[d]
  BY <1>1 DEF RegistryInv, Registry!Nothing
<1>5. \A c \in Commands : Registry!BoundTo(Bots, c)' \subseteq Registry!BoundTo(Bots, c)
  BY <1>4 DEF Registry!BoundTo, Registry!Nothing
<1>6. \A c \in Commands : Cardinality(Registry!BoundTo(Bots, c)') <= count'[c]
  BY <1>5, FewerBound
<1>7. \A d \in Bots \ Registry!There' : bound'[d] = Registry!Nothing'
  BY <1>4 DEF RegistryInv, Registry!Nothing
<1> QED BY <1>2, <1>3, <1>4, <1>6, <1>7 DEF RegistryInv

\* A service keeps its bot, and with it all that is known of it; the one whose nick it takes ends.
LEMMA ServiceRenameStep ==
  ASSUME RegistryTame, RegistryInv, NEW s \in Staff, NEW n \in Nicks, NEW to \in Nicks, Registry!ServiceRename(s, n, to)
  PROVE  RegistryInv'
<1> DEFINE b == services[n]
           e == services[to]
<1>1. /\ b # NULL /\ services' = [services EXCEPT ![n] = NULL, ![to] = b]
      /\ IF e \in {b, NULL} THEN UNCHANGED <<bound, chanmsg>> ELSE Registry!End(e)
      /\ UNCHANGED <<trigger, defaults, count>>
  BY DEF Registry!ServiceRename
<1>2. /\ b \in Bots /\ e \in Bots \cup {NULL} /\ b = services[n] /\ e = services[to]
      /\ \A m \in Nicks : (services[m] = b => m = n) /\ (services[m] = e /\ e # NULL => m = to)
  BY <1>1 DEF RegistryInv, OneNick
<1> HIDE DEF b, e
<1>3. /\ services' \in [Nicks -> Bots \cup {NULL}] /\ services'[to] = b /\ (n # to => services'[n] = NULL)
      /\ \A m \in Nicks \ {n, to} : services'[m] = services[m]
  BY <1>1, <1>2 DEF RegistryInv
<1>4. OneNick'
  BY <1>1, <1>2, <1>3 DEF RegistryInv, OneNick
<1>5. \A d : d \in Registry!There' <=> \E m \in Nicks : services'[m] = d /\ d # NULL
  BY DEF Registry!There
<1>6. CASE e \in {b, NULL}
  <2>1. Registry!There' = Registry!There
    BY <1>1, <1>2, <1>3, <1>5, <1>6, ServicesThere
  <2>2. TriggersLead' /\ Registry!Nothing' = Registry!Nothing /\ \A c \in Commands : Registry!BoundTo(Bots, c)' = Registry!BoundTo(Bots, c)
    BY <1>1, <1>6, <2>1 DEF RegistryInv, TriggersLead, Registry!Nothing, Registry!BoundTo
  <2> QED BY <1>1, <1>3, <1>4, <1>6, <2>1, <2>2 DEF RegistryInv
<1>7. CASE e \notin {b, NULL}
  <2>1. \A d : d \in Registry!There' <=> d \in Registry!There /\ d # e
    BY <1>1, <1>2, <1>3, <1>5, <1>7, ServicesThere
  <2> QED BY <1>1, <1>2, <1>3, <1>4, <1>7, <2>1, EndStep
<1> QED BY <1>6, <1>7

\* A service that is removed ends.
LEMMA ServiceRemoveStep ==
  ASSUME RegistryTame, RegistryInv, NEW s \in Staff, NEW n \in Nicks, Registry!ServiceRemove(s, n)
  PROVE  RegistryInv'
<1> DEFINE b == services[n]
<1>1. /\ b # NULL /\ services' = [services EXCEPT ![n] = NULL] /\ Registry!End(b) /\ UNCHANGED <<trigger, defaults, count>>
  BY DEF Registry!ServiceRemove
<1>2. b \in Bots /\ b = services[n] /\ \A m \in Nicks : services[m] = b => m = n
  BY <1>1 DEF RegistryInv, OneNick
<1> HIDE DEF b
<1>3. /\ services' \in [Nicks -> Bots \cup {NULL}] /\ services'[n] = NULL
      /\ \A m \in Nicks \ {n} : services'[m] = services[m]
  BY <1>1 DEF RegistryInv
<1>4. \A d : d \in Registry!There' <=> d \in Registry!There /\ d # b
  <2>1. \A d : d \in Registry!There' <=> \E m \in Nicks : services'[m] = d /\ d # NULL
    BY DEF Registry!There
  <2> QED BY <1>1, <1>2, <1>3, <2>1, ServicesThere
<1>5. OneNick'
  BY <1>3 DEF RegistryInv, OneNick
<1> QED BY <1>1, <1>2, <1>3, <1>4, <1>5, EndStep

\* What neither names nor bindings have a part in.
LEMMA TriggersStep ==
  ASSUME RegistryTame, RegistryInv, TriggersLead', UNCHANGED <<services, bound, defaults, count>>,
         trigger' \in [Bots -> Triggers \cup {NULL}], chanmsg' \in [Triggers -> Bots \cup {NULL, Registry!Gone}]
  PROVE  RegistryInv'
<1>1. Registry!There' = Registry!There /\ Registry!Nothing' = Registry!Nothing /\ \A c \in Commands : Registry!BoundTo(Bots, c)' = Registry!BoundTo(Bots, c)
  BY DEF Registry!There, Registry!Nothing, Registry!BoundTo
<1>2. OneNick'
  BY DEF RegistryInv, OneNick
<1> QED BY <1>1, <1>2 DEF RegistryInv

\* The old trigger is free; the new one leads to the service if nobody has it.
LEMMA TriggerStep ==
  ASSUME RegistryTame, RegistryInv, NEW s \in Staff, NEW b \in Bots, NEW t \in Triggers \cup {NULL}, Registry!ServiceTrigger(s, b, t)
  PROVE  RegistryInv'
<1>1. b \in Registry!There /\ UNCHANGED <<services, bound, defaults, count>> /\ Registry!There' = Registry!There
  BY DEF Registry!ServiceTrigger, Registry!bindings, Registry!There
<1>2. /\ Registry!Freed(b) \in [Triggers -> Bots \cup {NULL, Registry!Gone}]
      /\ \A u \in Triggers : Registry!Freed(b)[u] # NULL => Registry!Freed(b)[u] = chanmsg[u] /\ u # trigger[b]
  <2>1. trigger[b] \in Triggers \cup {NULL} /\ chanmsg \in [Triggers -> Bots \cup {NULL, Registry!Gone}]
    BY DEF RegistryInv
  <2>2. CASE trigger[b] = NULL
    BY <2>1, <2>2 DEF Registry!Freed, RegistryTame
  <2>3. CASE trigger[b] # NULL
    BY <2>1, <2>3 DEF Registry!Freed
  <2> QED BY <2>2, <2>3
<1>3. \A u \in Triggers : Registry!Freed(b)[u] \notin {NULL, Registry!Gone} => Registry!Freed(b)[u] \in Registry!There /\ trigger[Registry!Freed(b)[u]] = u /\ Registry!Freed(b)[u] # b
  BY <1>2 DEF RegistryInv, TriggersLead
<1>4. CASE t = NULL
  <2>1. trigger' = [trigger EXCEPT ![b] = NULL] /\ chanmsg' = Registry!Freed(b)
    BY <1>4 DEF Registry!ServiceTrigger
  <2>2. TriggersLead'
    BY <1>1, <1>2, <1>3, <2>1 DEF TriggersLead, RegistryInv
  <2> QED BY <1>1, <1>2, <2>1, <2>2, TriggersStep DEF RegistryInv
<1>5. CASE t # NULL /\ Registry!Freed(b)[t] # NULL
  <2>1. trigger' = trigger /\ chanmsg' = Registry!Freed(b)
    BY <1>5 DEF Registry!ServiceTrigger
  <2>2. TriggersLead'
    BY <1>1, <1>2, <1>3, <2>1 DEF TriggersLead
  <2> QED BY <1>1, <1>2, <2>1, <2>2, TriggersStep DEF RegistryInv
<1>6. CASE t # NULL /\ Registry!Freed(b)[t] = NULL
  <2>1. trigger' = [trigger EXCEPT ![b] = t] /\ chanmsg' = [Registry!Freed(b) EXCEPT ![t] = b] /\ t \in Triggers
    BY <1>6 DEF Registry!ServiceTrigger
  <2>2. /\ chanmsg' \in [Triggers -> Bots \cup {NULL, Registry!Gone}] /\ chanmsg'[t] = b
        /\ \A u \in Triggers \ {t} : chanmsg'[u] = Registry!Freed(b)[u]
    BY <1>2, <2>1
  <2>3. /\ trigger' \in [Bots -> Triggers \cup {NULL}] /\ trigger'[b] = t
        /\ \A d \in Bots \ {b} : trigger'[d] = trigger[d]
    BY <2>1 DEF RegistryInv
  <2>4. \A u \in Triggers : Registry!Freed(b)[u] \notin {NULL, Registry!Gone} => Registry!Freed(b)[u] \in Bots
    BY <1>2
  <2>5. TriggersLead'
    BY <1>1, <1>3, <2>2, <2>3, <2>4 DEF TriggersLead
  <2> QED BY <1>1, <2>2, <2>3, <2>5, TriggersStep
<1> QED BY <1>4, <1>5, <1>6

\* Bindings are read back as they were, as far as their commands are concerned.
LEMMA RereadIs ==
  ASSUME RegistryTame, RegistryInv, NEW r \in Binding
  PROVE  /\ Registry!Reread(r) \in Binding /\ Registry!Reread(r).cmd = r.cmd
         /\ Registry!Reread(r).rules.level = r.rules.level \/ r.rules.level = defaults[r.cmd].level
<1> DEFINE own == defaults[r.cmd]
           made == Registry!BuiltInRules(r.cmd)
           lv == IF r.rules.level # own.level THEN r.rules.level ELSE made.level
           fl == IF r.rules.flags # own.flags THEN r.rules.flags ELSE made.flags
<1>1. own \in Registry!Rules /\ made \in Registry!Rules /\ r.rules \in Registry!Rules
  BY DEF RegistryInv, RegistryTame, Registry!BuiltInRules, Registry!Rules, Binding
<1>2. Registry!Reread(r) = [r EXCEPT !.rules.level = lv, !.rules.flags = fl]
  BY DEF Registry!Reread
<1> HIDE DEF own, made
<1>3. lv \in Levels /\ fl \in SUBSET Options
  BY <1>1 DEF Registry!Rules
<1>4. lv = r.rules.level \/ r.rules.level = own.level
  OBVIOUS
<1> HIDE DEF lv, fl
<1>5. Registry!Reread(r) \in Binding /\ Registry!Reread(r).cmd = r.cmd /\ Registry!Reread(r).rules.level = lv
  BY <1>1, <1>2, <1>3, ZenonT(40) DEF Binding, Registry!Rules
<1> QED BY <1>4, <1>5 DEF own

\* What is read back are bindings of the same commands, for the same bots.
LEMMA ReadBackIs ==
  ASSUME RegistryTame, RegistryInv
  PROVE  /\ Registry!ReadBack \in [Bots -> [Names -> Binding \cup {NULL}]]
         /\ \A b \in Bots, n \in Names :
              Registry!ReadBack[b][n] = IF bound[b][n] = NULL THEN NULL ELSE Registry!Reread(bound[b][n])
         /\ \A b \in Bots, n \in Names : Registry!ReadBack[b][n] = NULL <=> bound[b][n] = NULL
         /\ \A b \in Bots : bound[b] = Registry!Nothing => Registry!ReadBack[b] = Registry!Nothing
<1>1. ASSUME NEW b \in Bots, NEW n \in Names
      PROVE  /\ (IF bound[b][n] = NULL THEN NULL ELSE Registry!Reread(bound[b][n])) \in Binding \cup {NULL}
             /\ (IF bound[b][n] = NULL THEN NULL ELSE Registry!Reread(bound[b][n])) = NULL <=> bound[b][n] = NULL
  <2>1. bound[b][n] \in Binding \cup {NULL}
    BY DEF RegistryInv
  <2>2. ASSUME bound[b][n] # NULL PROVE Registry!Reread(bound[b][n]) \in Binding /\ Registry!Reread(bound[b][n]) # NULL
    <3>1. Registry!Reread(bound[b][n]) \in Binding
      BY <2>1, <2>2, RereadIs
    <3> QED BY <3>1 DEF RegistryTame
  <2> QED BY <2>2
<1>2. ASSUME NEW b \in Bots, bound[b] = Registry!Nothing PROVE Registry!ReadBack[b] = Registry!Nothing
  <2>1. \A n \in Names : bound[b][n] = NULL
    BY <1>2 DEF Registry!Nothing
  <2> QED BY <2>1 DEF Registry!ReadBack, Registry!Nothing
<1> QED BY <1>1, <1>2 DEF Registry!ReadBack

\* A bot that comes back to a nick of srvx.conf was no service before, and is of that nick alone.
LEMMA BackIs ==
  ASSUME RegistryTame, RegistryInv, NEW to \in Registry!Fresh, services' = Registry!Back(to)
  PROVE  /\ services' \in [Nicks -> Bots \cup {NULL}] /\ OneNick'
         /\ \A b : b \in Registry!There => b \in Registry!There'
         /\ \A n \in Registry!Missing : to[n] \in Bots /\ to[n] \notin Registry!There
         /\ \A n \in ConfNicks : services'[n] \in Registry!There'
         /\ \A n \in Nicks : services[n] # NULL => services'[n] = services[n]
<1>1. /\ to \in [Registry!Missing -> Bots \ Registry!There]
      /\ \A n, m \in Registry!Missing : to[n] = to[m] => n = m
  BY DEF Registry!Fresh
<1>2. \A n : n \in Registry!Missing <=> n \in ConfNicks /\ services[n] = NULL
  BY DEF Registry!Missing
<1>3. ConfNicks \subseteq Nicks /\ NULL \notin Bots
  BY DEF RegistryTame
<1>4. /\ services' \in [Nicks -> Bots \cup {NULL}]
      /\ \A n \in Nicks : services'[n] = IF n \in Registry!Missing THEN to[n] ELSE services[n]
  BY <1>1 DEF Registry!Back, RegistryInv
<1>5. \A d : d \in Registry!There' <=> \E n \in Nicks : services'[n] = d /\ d # NULL
  BY DEF Registry!There
<1>6. \A n \in Registry!Missing : to[n] \in Bots /\ to[n] \notin Registry!There
  BY <1>1
<1>7. OneNick'
  <2> SUFFICES ASSUME NEW n \in Nicks, NEW m \in Nicks, services'[n] # NULL, services'[n] = services'[m] PROVE n = m
    BY DEF OneNick
  <2>1. ASSUME NEW k \in Nicks, k \notin Registry!Missing, services'[k] # NULL PROVE services'[k] \in Registry!There
    BY <1>4, <2>1, ServicesThere
  <2>2. \A k, j \in Nicks : services[k] # NULL /\ services[k] = services[j] => k = j
    BY DEF RegistryInv, OneNick
  <2>3. CASE n \in Registry!Missing /\ m \in Registry!Missing
    BY <1>1, <1>4, <2>3
  <2>4. CASE n \notin Registry!Missing /\ m \notin Registry!Missing
    BY <1>4, <2>2, <2>4
  <2>5. CASE n \in Registry!Missing /\ m \notin Registry!Missing
    BY <1>4, <1>6, <2>1, <2>5
  <2>6. CASE n \notin Registry!Missing /\ m \in Registry!Missing
    BY <1>4, <1>6, <2>1, <2>6
  <2> QED BY <2>3, <2>4, <2>5, <2>6
<1>8. \A b : b \in Registry!There => b \in Registry!There'
  BY <1>2, <1>4, <1>5, ServicesThere
<1>9. \A n \in ConfNicks : services'[n] \in Registry!There'
  <2> TAKE n \in ConfNicks
  <2>1. n \in Nicks /\ services'[n] # NULL
    BY <1>1, <1>2, <1>3, <1>4
  <2> QED BY <1>5, <2>1
<1> QED BY <1>2, <1>4, <1>6, <1>7, <1>8, <1>9

\* What was bound is bound, and counted; a trigger leads to a service that has it.
LEMMA RegistryRestartStep ==
  ASSUME RegistryTame, RegistryInv, Registry!Restart
  PROVE  RegistryInv'
<1>1. PICK to \in Registry!Fresh :
        /\ services' = Registry!Back(to)
        /\ trigger' = [b \in Bots |-> IF \E n \in Registry!Missing : to[n] = b THEN NULL ELSE trigger[b]]
  BY DEF Registry!Restart, Registry!Loaded
<1>2. /\ bound' = Registry!WithDefaults({services'[n] : n \in ConfNicks}, Registry!ReadBack)
      /\ defaults' = [c \in Commands |-> Registry!BuiltInRules(c)]
      /\ count' = [c \in Commands |-> Cardinality(Registry!BoundTo(Bots, c)')]
      /\ chanmsg' = [t \in Triggers |-> IF Registry!Bearer(t) = {} THEN NULL ELSE services[CHOOSE n \in Registry!Bearer(t) : TRUE]]
  BY SameCount DEF Registry!Restart
<1>3. /\ services' \in [Nicks -> Bots \cup {NULL}] /\ OneNick'
      /\ \A b : b \in Registry!There => b \in Registry!There'
      /\ \A n \in Registry!Missing : to[n] \in Bots /\ to[n] \notin Registry!There
      /\ \A n \in ConfNicks : services'[n] \in Registry!There'
  BY <1>1, BackIs
<1>4. /\ trigger' \in [Bots -> Triggers \cup {NULL}]
      /\ \A b \in Registry!There : trigger'[b] = trigger[b]
  BY <1>1, <1>3, ServicesThere DEF RegistryInv
<1>5. /\ bound' \in [Bots -> [Names -> Binding \cup {NULL}]]
      /\ \A b \in Bots : b \notin {services'[n] : n \in ConfNicks} => bound'[b] = Registry!ReadBack[b]
  BY <1>2, ReadBackIs, DefaultsGiven
<1>6. \A b \in Bots \ Registry!There' : bound'[b] = Registry!Nothing'
  <2> SUFFICES ASSUME NEW b \in Bots, b \notin Registry!There' PROVE bound'[b] = Registry!Nothing
    BY DEF Registry!Nothing
  <2>1. b \notin Registry!There /\ b \notin {services'[n] : n \in ConfNicks}
    BY <1>3
  <2>2. bound[b] = Registry!Nothing
    BY <2>1 DEF RegistryInv
  <2> QED BY <1>5, <2>1, <2>2, ReadBackIs
<1>7. \A c \in Commands : Cardinality(Registry!BoundTo(Bots, c)') \in Int
  <2> TAKE c \in Commands
  <2>1. IsFiniteSet(Bots \X Names)
    BY FS_Product DEF RegistryTame
  <2>2. Registry!BoundTo(Bots, c)' \subseteq Bots \X Names
    BY DEF Registry!BoundTo
  <2>3. IsFiniteSet(Registry!BoundTo(Bots, c)')
    BY <2>1, <2>2, FS_Subset
  <2> QED BY <2>3, FS_CardinalityType
<1>8. ASSUME NEW t \in Triggers
      PROVE  /\ chanmsg'[t] \in Bots \cup {NULL, Registry!Gone}
             /\ chanmsg'[t] \notin {NULL, Registry!Gone} => chanmsg'[t] \in Registry!There /\ trigger[chanmsg'[t]] = t
  <2>1. CASE Registry!Bearer(t) = {}
    BY <1>2, <2>1
  <2>2. CASE Registry!Bearer(t) # {}
    <3>1. PICK n \in Registry!Bearer(t) : chanmsg'[t] = services[n]
      BY <1>2, <2>2
    <3>2. n \in Nicks /\ services[n] # NULL /\ trigger[services[n]] = t
      BY DEF Registry!Bearer
    <3> QED BY <3>1, <3>2, ServicesThere DEF RegistryInv
  <2> QED BY <2>1, <2>2
<1>9. chanmsg' \in [Triggers -> Bots \cup {NULL, Registry!Gone}] /\ TriggersLead'
  <2>1. chanmsg' = [t \in Triggers |-> chanmsg'[t]]
    BY <1>2
  <2> QED BY <1>3, <1>4, <1>8, <2>1 DEF TriggersLead
<1>10. /\ defaults' \in [Commands -> Registry!Rules] /\ count' \in [Commands -> Int]
       /\ \A c \in Commands : Cardinality(Registry!BoundTo(Bots, c)') <= count'[c]
  BY <1>2, <1>7 DEF Registry!BuiltInRules, Registry!Rules, RegistryTame
<1> QED BY <1>3, <1>4, <1>5, <1>6, <1>9, <1>10 DEF RegistryInv

\* A bot that comes back while the program runs has neither commands nor a trigger.
LEMMA RegistryReloadStep ==
  ASSUME RegistryTame, RegistryInv, Registry!Reload
  PROVE  RegistryInv'
<1>1. PICK to \in Registry!Fresh :
        /\ services' = Registry!Back(to)
        /\ trigger' = [b \in Bots |-> IF \E n \in Registry!Missing : to[n] = b THEN NULL ELSE trigger[b]]
  BY DEF Registry!Reload, Registry!Loaded
<1>2. UNCHANGED <<bound, defaults, count, chanmsg>>
  BY DEF Registry!Reload, Registry!bindings
<1>3. /\ services' \in [Nicks -> Bots \cup {NULL}] /\ OneNick'
      /\ \A b : b \in Registry!There => b \in Registry!There'
      /\ \A n \in Registry!Missing : to[n] \in Bots /\ to[n] \notin Registry!There
  BY <1>1, BackIs
<1>4. /\ trigger' \in [Bots -> Triggers \cup {NULL}]
      /\ \A b \in Registry!There : trigger'[b] = trigger[b]
  BY <1>1, <1>3, ServicesThere DEF RegistryInv
<1>5. TriggersLead'
  BY <1>2, <1>3, <1>4 DEF RegistryInv, TriggersLead
<1>6. Registry!Nothing' = Registry!Nothing /\ \A c \in Commands : Registry!BoundTo(Bots, c)' = Registry!BoundTo(Bots, c)
  BY <1>2 DEF Registry!Nothing, Registry!BoundTo
<1>7. \A b \in Bots \ Registry!There' : bound'[b] = Registry!Nothing'
  BY <1>2, <1>3, <1>6 DEF RegistryInv
<1> QED BY <1>2, <1>3, <1>4, <1>5, <1>6, <1>7 DEF RegistryInv

\* Every step keeps the services and their bindings exact.
LEMMA RegistryNext == ASSUME RegistryTame, RegistryInv, [Registry!Next]_(Registry!vars) PROVE RegistryInv'
<1>1. ASSUME NEW s \in Staff, NEW b \in Bots, NEW n \in Names, Registry!Unbind(s, b, n) PROVE RegistryInv'
  BY <1>1, UnbindStep
<1>2. ASSUME NEW s \in Staff, NEW b \in Bots, NEW n \in Names, NEW t \in Registry!Templates(s), NEW alias \in BOOLEAN,
             Registry!Bind(s, b, n, t, alias)
      PROVE  RegistryInv'
  BY <1>2, BindStep
<1>3. ASSUME NEW s \in Staff, NEW b \in Bots, NEW n \in Names, NEW r \in Registry!Rules, Registry!ModcmdBound(s, b, n, r)
      PROVE  RegistryInv'
  BY <1>3, ModcmdStep
<1>4. ASSUME NEW s \in Staff, NEW b \in Bots, NEW n \in Nicks, Registry!ServiceAdd(s, b, n) PROVE RegistryInv'
  BY <1>4, ServiceAddStep
<1>5. ASSUME NEW s \in Staff, NEW b \in Bots, NEW on \in BOOLEAN, Registry!ServicePrivileged(s, b, on) \/ Registry!ServiceOffchannel(s, b, on)
      PROVE  RegistryInv'
  <2>1. UNCHANGED <<services, trigger, chanmsg, bound, defaults, count>>
    BY <1>5 DEF Registry!ServicePrivileged, Registry!ServiceOffchannel, Registry!bindings
  <2>2. Registry!There' = Registry!There
    BY <2>1 DEF Registry!There
  <2> QED BY <2>1, <2>2, TriggersStep DEF RegistryInv, TriggersLead
<1>6. ASSUME NEW s \in Staff, NEW b \in Bots, NEW t \in Triggers \cup {NULL}, Registry!ServiceTrigger(s, b, t) PROVE RegistryInv'
  BY <1>6, TriggerStep
<1>7. ASSUME NEW s \in Staff, NEW c \in Commands, NEW r \in Registry!Rules, Registry!ModcmdDefault(s, c, r) PROVE RegistryInv'
  BY <1>7, DefaultStep
<1>8. ASSUME NEW s \in Staff, NEW n \in Nicks, Registry!ServiceRemove(s, n) PROVE RegistryInv'
  BY <1>8, ServiceRemoveStep
<1>9. ASSUME NEW s \in Staff, NEW n \in Nicks, NEW to \in Nicks, Registry!ServiceRename(s, n, to) PROVE RegistryInv'
  BY <1>9, ServiceRenameStep
<1>10. CASE Registry!Restart
  BY <1>10, RegistryRestartStep
<1>12. CASE Registry!Reload
  BY <1>12, RegistryReloadStep
<1>11. CASE UNCHANGED Registry!vars
  <2>1. UNCHANGED <<services, trigger, chanmsg, bound, defaults, count>>
    BY <1>11 DEF Registry!vars
  <2>2. Registry!There' = Registry!There
    BY <2>1 DEF Registry!There
  <2> QED BY <2>1, <2>2, TriggersStep DEF RegistryInv, TriggersLead
<1> QED BY <1>1, <1>2, <1>3, <1>4, <1>5, <1>6, <1>7, <1>8, <1>9, <1>10, <1>11, <1>12 DEF Registry!Next

\* They are exact in every state.
LEMMA RegistryAlways == ASSUME RegistryTame PROVE Registry!Spec => []RegistryInv
<1>1. Registry!Init => RegistryInv
  BY RegistryInit
<1>2. RegistryInv /\ [Registry!Next]_(Registry!vars) => RegistryInv'
  BY RegistryNext
<1> QED BY <1>1, <1>2, PTL DEF Registry!Spec

\* A trigger that leads to a service leads to one that has it, no bot is two services, and a command
\* is bound at most as often as was counted: however services, triggers and bindings are added, changed, moved and
\* removed, and through any restart (cmd_bind, cmd_unbind, SERVICE ADD, RENAME, REMOVE, TRIGGER,
\* modcmd_finalize), for any services, commands and triggers.
THEOREM RegistryIsExact == ASSUME RegistryTame PROVE Registry!Spec => []Registry!ServicesExact
<1>1. ASSUME RegistryInv PROVE Registry!ServicesExact
  <2>1. ASSUME NEW c \in Commands PROVE Cardinality(Registry!BoundTo(Registry!There, c)) <= count[c]
    <3>1. Registry!BoundTo(Registry!There, c) \subseteq Registry!BoundTo(Bots, c)
      BY <1>1, ServicesThere DEF Registry!BoundTo
    <3>2. IsFiniteSet(Registry!BoundTo(Bots, c)) /\ Cardinality(Registry!BoundTo(Bots, c)) \in Int
      BY BoundFinite
    <3>3. Cardinality(Registry!BoundTo(Registry!There, c)) <= Cardinality(Registry!BoundTo(Bots, c)) /\ Cardinality(Registry!BoundTo(Registry!There, c)) \in Int
      BY <3>1, <3>2, FS_Subset, FS_CardinalityType
    <3>4. Cardinality(Registry!BoundTo(Bots, c)) <= count[c] /\ count[c] \in Int
      BY <1>1 DEF RegistryInv
    <3> QED BY <3>2, <3>3, <3>4
  <2> QED BY <1>1, <2>1, SameCount DEF Registry!ServicesExact, RegistryInv, TriggersLead, OneNick
<1> QED BY <1>1, RegistryAlways, PTL

\* Who gives a command.
LEMMA SoMuchStaff == ASSUME RegistryTame, NEW s \in Staff PROVE s \in Int /\ s # 0
  BY DEF RegistryTame

\* Bindings that stay as they are require the same.
LEMMA SameRequired == ASSUME RegistryTame, RegistryInv, NEW b \in Bots, NEW n \in Names,
                             bound'[b][n] \in {bound[b][n], NULL}
                      PROVE  Registry!RequirementKept(b, n)
<1>1. ASSUME bound[b][n] # NULL PROVE bound[b][n].rules.level \in Int
  <2>1. bound[b][n] \in Binding
    BY <1>1 DEF RegistryInv
  <2> QED BY <2>1, Zenon DEF Binding, Registry!Rules, RegistryTame
<1> QED BY <1>1 DEF Registry!RequirementKept

\* Nobody lowers what a binding requires below a level that they do not have themselves, by
\* whatever commands; a restart does so only where the command's own rules required the same just
\* then (svccmd_configure, modcmd_saxdb_write_command), for any levels.
THEOREM RequirementsAreKept == ASSUME RegistryTame PROVE Registry!Spec => [][Registry!KeepsRequirements]_(Registry!vars)
<1>1. RegistryInv /\ [Registry!Next]_(Registry!vars) => [Registry!KeepsRequirements]_(Registry!vars)
  <2> SUFFICES ASSUME RegistryInv, Registry!Next, NEW b \in Bots, NEW n \in Names
               PROVE  Registry!RequirementKept(b, n)
    BY DEF Registry!KeepsRequirements
  <2>1. ASSUME NEW s \in Staff, NEW d \in Bots, NEW m \in Names, NEW r \in Registry!Rules, Registry!ModcmdBound(s, d, m, r)
        PROVE  Registry!RequirementKept(b, n)
    <3>1. CASE b = d /\ n = m
      <4> DEFINE old == bound[b][n]
      <4>1. old \in Binding /\ by' = s /\ s \in Int /\ s # 0
        BY <2>1, <3>1, SoMuchStaff DEF Registry!ModcmdBound, RegistryInv
      <4>2. bound' = [bound EXCEPT ![b][n].rules = r] /\ Registry!Configured(s, old.rules, r)
        BY <2>1, <3>1 DEF Registry!ModcmdBound
      <4>3. [bound EXCEPT ![b][n].rules = r] = [bound EXCEPT ![b][n] = [@ EXCEPT !.rules = r]]
        BY SMT
      <4>4. bound'[b][n] = [old EXCEPT !.rules = r]
        BY <4>2, <4>3 DEF RegistryInv
      <4> HIDE DEF old
      <4>5. bound'[b][n].rules = r /\ r.level \in Int /\ old.rules.level \in Int
        BY <4>1, <4>4 DEF Binding, Registry!Rules, RegistryTame
      <4> QED BY <4>1, <4>2, <4>5 DEF Registry!RequirementKept, Registry!Configured, Registry!MaySet, old
    <3>2. CASE ~(b = d /\ n = m)
      <4>1. bound'[b][n] = bound[b][n]
        BY <2>1, <3>2 DEF Registry!ModcmdBound, RegistryInv
      <4> QED BY <4>1, SameRequired
    <3> QED BY <3>1, <3>2
  <2>2. CASE Registry!Restart
    <3>1. CASE bound[b][n] = NULL
      BY <3>1 DEF Registry!RequirementKept
    <3>2. CASE bound[b][n] # NULL
      <4>1. Registry!ReadBack[b][n] = Registry!Reread(bound[b][n]) /\ Registry!ReadBack[b][n] # NULL
        BY <3>2, ReadBackIs
      <4>2. Registry!ReadBack[b] # Registry!Nothing
        BY <4>1 DEF Registry!Nothing
      <4>3. bound' = Registry!WithDefaults({services'[m] : m \in ConfNicks}, Registry!ReadBack) /\ by' = 0
        BY <2>2 DEF Registry!Restart
      <4>4. bound'[b][n] = Registry!Reread(bound[b][n])
        BY <4>1, <4>2, <4>3, ReadBackIs, DefaultsGiven
      <4>5. bound[b][n] \in Binding
        BY <3>2 DEF RegistryInv
      <4> QED BY <4>3, <4>4, <4>5, RereadIs DEF Registry!RequirementKept
    <3> QED BY <3>1, <3>2
  <2>3. ASSUME bound'[b][n] \in {bound[b][n], NULL} \/ bound[b][n] = NULL PROVE Registry!RequirementKept(b, n)
    BY <2>3, SameRequired DEF Registry!RequirementKept
  <2>4. ASSUME NEW s \in Staff, NEW d \in Bots, NEW m \in Names, Registry!Unbind(s, d, m) PROVE Registry!RequirementKept(b, n)
    BY <2>3, <2>4 DEF Registry!Unbind, RegistryInv
  <2>5. ASSUME NEW s \in Staff, NEW d \in Bots, NEW m \in Names, NEW t \in Registry!Templates(s), NEW alias \in BOOLEAN,
               Registry!Bind(s, d, m, t, alias)
        PROVE  Registry!RequirementKept(b, n)
    BY <2>3, <2>5 DEF Registry!Bind, RegistryInv
  <2>6. ASSUME NEW s \in Staff, NEW d \in Bots, NEW m \in Nicks, Registry!ServiceAdd(s, d, m) PROVE Registry!RequirementKept(b, n)
    BY <2>3, <2>6 DEF Registry!ServiceAdd, RegistryInv, Registry!Nothing
  <2>7. ASSUME NEW d, Registry!End(d) PROVE Registry!RequirementKept(b, n)
    BY <2>3, <2>7 DEF Registry!End, RegistryInv, Registry!Nothing
  <2>8. ASSUME bound' = bound PROVE Registry!RequirementKept(b, n)
    BY <2>3, <2>8
  <2>9. ASSUME NEW s \in Staff, NEW d \in Bots, NEW on \in BOOLEAN, Registry!ServicePrivileged(s, d, on) \/ Registry!ServiceOffchannel(s, d, on)
        PROVE  Registry!RequirementKept(b, n)
    BY <2>8, <2>9 DEF Registry!ServicePrivileged, Registry!ServiceOffchannel, Registry!bindings
  <2>10. ASSUME NEW s \in Staff, NEW d \in Bots, NEW t \in Triggers \cup {NULL}, Registry!ServiceTrigger(s, d, t)
         PROVE  Registry!RequirementKept(b, n)
    BY <2>8, <2>10 DEF Registry!ServiceTrigger, Registry!bindings
  <2>11. ASSUME NEW s \in Staff, NEW c \in Commands, NEW r \in Registry!Rules, Registry!ModcmdDefault(s, c, r) PROVE Registry!RequirementKept(b, n)
    BY <2>8, <2>11 DEF Registry!ModcmdDefault
  <2>12. ASSUME NEW s \in Staff, NEW m \in Nicks, Registry!ServiceRemove(s, m) PROVE Registry!RequirementKept(b, n)
    BY <2>7, <2>12 DEF Registry!ServiceRemove
  <2>13. ASSUME NEW s \in Staff, NEW m \in Nicks, NEW to \in Nicks, Registry!ServiceRename(s, m, to) PROVE Registry!RequirementKept(b, n)
    BY <2>7, <2>8, <2>13 DEF Registry!ServiceRename
  <2>14. CASE Registry!Reload
    BY <2>8, <2>14 DEF Registry!Reload, Registry!bindings
  <2> QED BY <2>1, <2>2, <2>4, <2>5, <2>6, <2>9, <2>10, <2>11, <2>12, <2>13, <2>14 DEF Registry!Next
<1> QED BY <1>1, RegistryAlways, PTL DEF Registry!Spec

-----------------------------------------------------------------------------
(* The database files (Saxdb).                                              *)
Saved == INSTANCE Saxdb WITH up <- alive

\* A write under way.
Writes == [file : Saved!Files, written : Int, failed : BOOLEAN, short : BOOLEAN, garbled : BOOLEAN]

\* What the proofs assume of the constants: NULL is no write under way.
SaxTame == NULL \notin Writes

\* The databases of a file that rename() did not fail to replace are there as reported.
Reported(f) == f \notin kept => \A d \in Saved!Holds(f) : acked[d] <= disk[f].data[d]

SaxInv ==
  /\ mem \in [Saved!Data -> Int] /\ acked \in [Saved!Data -> Int]
  /\ disk = [f \in Saved!Files |-> disk[f]]
  /\ ctx # NULL => ctx \in Writes
  /\ \A f \in Saved!Files : /\ disk[f].written = Buffers /\ Reported(f)
                      /\ \A d \in Saved!Holds(f) : disk[f].data[d] \in Int

\* A database is in the file that it is written to.
LEMMA FileThere == ASSUME NEW d \in Saved!Data PROVE Saved!FileOf(d) \in Saved!Files /\ d \in Saved!Holds(Saved!FileOf(d))
  BY DEF Saved!Data, Saved!FileOf, Saved!Files, Saved!Holds

\* The files hold what there is at first.
LEMMA SaxInit == ASSUME SaxTame, Saved!Init PROVE SaxInv
<1>1. ASSUME NEW f \in Saved!Files, NEW d \in Saved!Holds(f)
      PROVE  acked[d] = 0 /\ disk[f].data[d] = 0
  BY DEF Saved!Init, Saved!Holds
<1> QED BY <1>1 DEF Saved!Init, SaxInv, Reported

\* The loop of saxdb_flush ends with a write that goes on, or with none.
LEMMA FlushedIs ==
  ASSUME NEW c \in Writes, NEW g \in BOOLEAN
  PROVE  Saved!Flushed(c, g) = NULL \/ Saved!Flushed(c, g) \in Writes
<1> DEFINE more == c.garbled \/ g
<1>1. more \in BOOLEAN
  BY Zenon
<1> HIDE DEF more
<1>2. [c EXCEPT !.written = @ + 1, !.short = FALSE, !.garbled = more] \in Writes
  <2>1. c.written + 1 \in Int
    BY DEF Writes
  <2> DEFINE next == c.written + 1
  <2> HIDE DEF next
  <2>2. ASSUME next \in Int PROVE [c EXCEPT !.written = next, !.short = FALSE, !.garbled = more] \in Writes
    BY <1>1, <2>2 DEF Writes
  <2> QED BY <2>1, <2>2, Zenon DEF next
<1>3. [c EXCEPT !.written = @ + 1, !.short = FALSE, !.garbled = @ \/ g]
      = [c EXCEPT !.written = @ + 1, !.short = FALSE, !.garbled = more]
  BY Zenon DEF more
<1> QED BY <1>2, <1>3, Zenon DEF Saved!Flushed

\* The end of a write, whether rename() worked or not: memory is what is reported.
LEMMA ReportIs ==
  ASSUME SaxTame, SaxInv, Saved!Report
  PROVE  /\ ctx.file \in Saved!Files /\ ctx.written = Buffers /\ ctx' = NULL /\ mem' = mem
         /\ acked' \in [Saved!Data -> Int]
         /\ \A g \in Saved!Files : \A d \in Saved!Holds(g) :
              d \in Saved!Data /\ mem[d] \in Int /\ acked'[d] = IF g = ctx.file THEN mem[d] ELSE acked[d]
<1> DEFINE f == ctx.file
<1>1. f \in Saved!Files /\ ctx.written = Buffers
  BY DEF Saved!Report, Saved!Finished, SaxInv, Writes
<1>2. ctx' = NULL /\ mem' = mem /\ acked' = [d \in Saved!Data |-> IF Saved!FileOf(d) = f THEN mem[d] ELSE acked[d]]
  BY DEF Saved!Report
<1> HIDE DEF f
<1>3. acked' \in [Saved!Data -> Int]
  BY <1>2 DEF SaxInv
<1>4. ASSUME NEW g \in Saved!Files, NEW d \in Saved!Holds(g)
      PROVE  d \in Saved!Data /\ mem[d] \in Int /\ acked'[d] = IF g = f THEN mem[d] ELSE acked[d]
  BY <1>2 DEF Saved!Holds, SaxInv
<1> QED BY <1>1, <1>2, <1>3, <1>4, Zenon DEF f

\* A file that is replaced is what memory holds, and is reported as that.
LEMMA SaveStep == ASSUME SaxTame, SaxInv, Saved!Rename PROVE SaxInv'
<1> DEFINE f == ctx.file
<1>0. Saved!Report
  BY DEF Saved!Rename
<1>1. /\ f \in Saved!Files /\ ctx.written = Buffers /\ ctx' = NULL /\ mem' = mem /\ acked' \in [Saved!Data -> Int]
      /\ \A g \in Saved!Files : \A d \in Saved!Holds(g) :
           d \in Saved!Data /\ mem[d] \in Int /\ acked'[d] = IF g = f THEN mem[d] ELSE acked[d]
  BY <1>0, ReportIs, Zenon
<1>2. /\ disk' = [disk EXCEPT ![f] = [data |-> [d \in Saved!Holds(f) |-> mem[d]], written |-> ctx.written,
                                      garbled |-> ctx.garbled]]
      /\ kept' = kept \ {f}
  BY Zenon DEF Saved!Rename
<1>3. /\ disk'[f].written = Buffers /\ \A d \in Saved!Holds(f) : disk'[f].data[d] = mem[d]
      /\ \A g \in Saved!Files \ {f} : disk'[g] = disk[g]
      /\ disk' = [g \in Saved!Files |-> disk'[g]]
  <2>1. disk = [g \in Saved!Files |-> disk[g]]
    BY DEF SaxInv
  <2> HIDE DEF f
  <2> QED BY <2>1, <1>1, <1>2, Zenon
<1> HIDE DEF f
<1>4. ASSUME NEW g \in Saved!Files
      PROVE  /\ disk'[g].written = Buffers /\ Reported(g)'
             /\ \A d \in Saved!Holds(g) : disk'[g].data[d] \in Int
  <2>1. CASE g = f
    BY <2>1, <1>1, <1>3 DEF Reported
  <2>2. CASE g # f
    BY <2>2, <1>1, <1>2, <1>3 DEF SaxInv, Reported
  <2> QED BY <2>1, <2>2
<1>5. mem' \in [Saved!Data -> Int]
  BY <1>1 DEF SaxInv
<1> QED BY <1>1, <1>3, <1>4, <1>5, Zenon DEF SaxInv

\* A file that is not replaced is as whole as before, and known to be older than reported.
LEMMA SaveFailsStep == ASSUME SaxTame, SaxInv, Saved!RenameFails PROVE SaxInv'
<1> DEFINE f == ctx.file
<1>0. Saved!Report
  BY DEF Saved!RenameFails
<1>1. /\ f \in Saved!Files /\ ctx' = NULL /\ mem' = mem /\ acked' \in [Saved!Data -> Int]
      /\ \A g \in Saved!Files : \A d \in Saved!Holds(g) : acked'[d] = IF g = f THEN mem[d] ELSE acked[d]
  BY <1>0, ReportIs, Zenon
<1>2. disk' = disk /\ kept' = kept \cup {f}
  BY DEF Saved!RenameFails
<1> HIDE DEF f
<1>3. ASSUME NEW g \in Saved!Files PROVE Reported(g)'
  BY <1>1, <1>2 DEF SaxInv, Reported
<1> QED BY <1>1, <1>2, <1>3 DEF SaxInv

\* Every step leaves each file whole, with what was reported unless rename() failed.
LEMMA SaxNext == ASSUME SaxTame, SaxInv, [Saved!Next]_(Saved!vars) PROVE SaxInv'
<1>1. ASSUME NEW d \in Saved!Data, Saved!Change(d) PROVE SaxInv'
  BY <1>1 DEF Saved!Change, SaxInv, Reported
<1>2. ASSUME NEW f \in Saved!Files, Saved!Open(f) PROVE SaxInv'
  BY <1>2 DEF Saved!Open, SaxInv, Reported, Writes
<1>3. ASSUME UNCHANGED <<mem, disk, acked, kept>>, ctx' = NULL \/ ctx' \in Writes PROVE SaxInv'
  BY <1>3 DEF SaxInv, Reported
<1>4. CASE Saved!Flush
  <2>1. ctx \in Writes /\ ctx.short \in BOOLEAN /\ ctx' = Saved!Flushed(ctx, ctx.short)
    BY <1>4 DEF Saved!Flush, SaxInv, Writes
  <2> QED BY <2>1, <1>3, <1>4, FlushedIs, Zenon DEF Saved!Flush
<1>5. CASE Saved!FlushShort
  <2>1. ctx \in Writes /\ [ctx EXCEPT !.short = TRUE] \in Writes
    BY <1>5 DEF Saved!FlushShort, SaxInv, Writes
  <2>2. ctx' = NULL \/ ctx' \in Writes
    BY <2>1, <1>5, FlushedIs, Zenon DEF Saved!FlushShort
  <2> QED BY <2>2, <1>3, <1>5, Zenon DEF Saved!FlushShort
<1>6. CASE Saved!FlushFails \/ Saved!WriterFails
  <2>1. /\ ctx \in Writes
        /\ [ctx EXCEPT !.failed = TRUE, !.short = FALSE] \in Writes /\ [ctx EXCEPT !.failed = TRUE] \in Writes
    BY <1>6 DEF Saved!FlushFails, Saved!WriterFails, SaxInv, Writes
  <2> QED BY <2>1, <1>3, <1>6, Zenon DEF Saved!FlushFails, Saved!WriterFails
<1>7. CASE Saved!Crash \/ Saved!Disk
  BY <1>7 DEF Saved!Crash, Saved!Disk, SaxInv, Reported
<1>8. CASE Saved!Start
  <2>1. mem' \in [Saved!Data -> Int]
    BY <1>8 DEF Saved!Start
  <2> QED BY <2>1, <1>8 DEF Saved!Start, SaxInv, Reported
<1>9. CASE UNCHANGED Saved!vars
  BY <1>9 DEF Saved!vars, SaxInv, Reported
<1> QED BY <1>1, <1>2, <1>4, <1>5, <1>6, <1>7, <1>8, <1>9, SaveStep, SaveFailsStep DEF Saved!Next

\* The files are whole in every state.
LEMMA SaxAlways == ASSUME SaxTame PROVE Saved!Spec => []SaxInv
<1>1. Saved!Init => SaxInv
  BY SaxInit
<1>2. SaxInv /\ [Saved!Next]_(Saved!vars) => SaxInv'
  BY SaxNext
<1> QED BY <1>1, <1>2, PTL DEF Saved!Spec

\* No database file is ever there in part, or older than reported unless rename() failed in that very
\* report: whatever write(), the writer and rename() do, the disk being full or not, and wherever the
\* process dies (saxdb_write_db, saxdb_flush), for any number of databases.
THEOREM FilesAreWhole == ASSUME SaxTame PROVE Saved!Spec => []Saved!SavedWhole
<1>1. SaxInv => Saved!SavedWhole
  BY FileThere DEF SaxInv, Saved!SavedWhole, Reported
<1> QED BY <1>1, SaxAlways, PTL

\* What was reported written is what the next start reads, or something newer, but for a file that
\* rename() failed to replace and for one that a short write has spoilt (saxdb_write_db reports both
\* as written), for any number of databases and of buffers.
THEOREM WritesSurvive == ASSUME SaxTame PROVE Saved!Spec => Saved!NothingAckedLost
<1>1. SaxInv /\ [Saved!Next]_(Saved!vars) =>
        [Saved!Start => \A d \in Saved!Data : \/ Saved!FileOf(d) \in kept \/ disk[Saved!FileOf(d)].garbled
                                              \/ mem'[d] >= acked[d]]_(Saved!vars)
  <2>1. ASSUME SaxInv, Saved!Start, NEW d \in Saved!Data,
               Saved!FileOf(d) \notin kept, ~disk[Saved!FileOf(d)].garbled
        PROVE  mem'[d] >= acked[d]
    <3>1. Saved!FileOf(d) \in Saved!Files /\ d \in Saved!Holds(Saved!FileOf(d)) /\ mem'[d] = disk[Saved!FileOf(d)].data[d]
      BY <2>1, FileThere DEF Saved!Start, Saved!Read
    <3>2. disk[Saved!FileOf(d)].data[d] \in Int /\ acked[d] <= disk[Saved!FileOf(d)].data[d]
      BY <2>1, <3>1 DEF SaxInv, Reported
    <3>3. acked[d] \in Int
      BY <2>1 DEF SaxInv
    <3> QED BY <3>1, <3>2, <3>3
  <2> QED BY <2>1
<1> QED BY <1>1, SaxAlways, PTL DEF Saved!Spec, Saved!NothingAckedLost

\* A set of numbers has a least one.
LEMMA LeastOf ==
  ASSUME NEW T \in SUBSET Nat, T # {}
  PROVE  \E x \in T : \A y \in T : x <= y
<1> DEFINE R == {ss \in Nat \X Nat : ss[1] < ss[2]}
<1>1. IsWellFoundedOn(R, Nat)
  BY NatLessThanWellFounded DEF OpToRel
<1> HIDE DEF R
<1>2. PICK x \in T : \A y \in T : ~ (<<y, x>> \in R)
  BY <1>1, WFMin, Zenon
<1>3. ASSUME NEW y \in T PROVE x <= y
  <2>1. ~(y < x)
    BY <1>2, Zenon DEF R
  <2> QED BY <2>1
<1> QED BY <1>3

-----------------------------------------------------------------------------
(* The connection to the network (Uplinks).                                 *)
Link == INSTANCE Uplinks

\* There is an uplink, and attempts, cycles and timers have their limits.
LinkTame == /\ N \in Nat \ {0} /\ MaxTries \in Nat \ {0}
            /\ MaxCycles \in Nat /\ MaxTimers \in Nat \ {0}

\* Types; services which have given up have no connection, so that no ping sets the
\* cycles back; and until then an uplink that is used or may be has attempts left.
LinkInv == /\ Link!TypeOK /\ Link!LinkSound
           /\ exited # "no" => ~sock
           /\ exited = "no" => \A l \in Link!Links : l = cur \/ l \notin bad => tries[l] < MaxTries

\* A link state, as the functions of Uplinks pass it on.
LinkStates == [cur : Link!Links, state : [Link!Links -> Link!States], tries : [Link!Links -> 0..MaxTries],
               bad : SUBSET Link!Links, cycles : Nat, exited : {"no", "exhausted", "cycles"}]

\* Why a link state may say that services gave up, or what is left to try.
Plausible(s) ==
  /\ s.exited = "exhausted" => s.bad = Link!Links
  /\ s.exited = "cycles" => MaxCycles # 0 /\ s.cycles >= MaxCycles
  /\ s.exited = "no" => \A l \in Link!Links : l = s.cur \/ l \notin s.bad => s.tries[l] < MaxTries

\* The search looks at every uplink.
LEMMA NthIs ==
  ASSUME LinkTame, NEW start \in Link!Links
  PROVE  /\ \A k \in 0..N - 1 : Link!Nth(start, k) \in Link!Links
         /\ \A l \in Link!Links : \E k \in 0..N - 1 : Link!Nth(start, k) = l
<1>0. N \in Nat /\ N > 0 /\ start \in 1..N
  BY DEF LinkTame, Link!Links
<1>1. ASSUME NEW k \in 0..N - 1 PROVE Link!Nth(start, k) \in Link!Links
  BY <1>0, Z3 DEF Link!Nth, Link!Links
<1>2. ASSUME NEW k \in 0..N - 1 PROVE start - 1 + k < N => (start - 1 + k) % N = start - 1 + k
  BY <1>0, Z3
<1>3. ASSUME NEW k \in 0..N - 1 PROVE start - 1 + k >= N => (start - 1 + k) % N = start - 1 + k - N
  BY <1>0, Z3
<1>4. ASSUME NEW l \in Link!Links PROVE \E k \in 0..N - 1 : Link!Nth(start, k) = l
  <2>0. l \in 1..N
    BY <1>4 DEF Link!Links
  <2>1. CASE l >= start
    <3>1. l - start \in 0..N - 1 /\ start - 1 + (l - start) < N
      BY <1>0, <2>0, <2>1
    <3>2. Link!Nth(start, l - start) = l
      BY <1>0, <1>2, <2>0, <3>1 DEF Link!Nth
    <3> QED BY <3>1, <3>2
  <2>2. CASE l < start
    <3>1. l - start + N \in 0..N - 1 /\ start - 1 + (l - start + N) >= N
      BY <1>0, <2>0, <2>2
    <3>2. Link!Nth(start, l - start + N) = l
      BY <1>0, <1>3, <2>0, <3>1 DEF Link!Nth
    <3> QED BY <3>1, <3>2
  <2> QED BY <1>0, <2>0, <2>1, <2>2
<1> QED BY <1>1, <1>4

\* uplink_select changes the current uplink, the count of cycles and nothing else;
\* it only gives up for one of its two reasons.
LEMMA SelectIs ==
  ASSUME LinkTame, NEW s \in LinkStates, s.exited = "no", NEW start \in Link!Links, NEW names
  PROVE  LET t == Link!SelectFrom(s, start, names) IN
         /\ t \in LinkStates /\ t.state = s.state /\ t.bad = s.bad /\ t.tries = s.tries
         /\ t.exited = "exhausted" => names \cap Link!Links \subseteq s.bad /\ s.cur \in s.bad
         /\ t.exited = "cycles" => MaxCycles # 0 /\ t.cycles >= MaxCycles
         /\ t.exited = "no" => t.cur \notin s.bad /\ (t.cur = s.cur \/ t.cur \in names)
<1> DEFINE Fits(k)  == Link!Nth(start, k) \in names \ s.bad
           Hits    == {k \in 0..N-1 : Fits(k)}
           First    == CHOOSE k \in Hits : \A j \in Hits : k <= j
           Wraps    == \A k \in Hits : k = N - 1
           turned   == IF Wraps THEN s.cycles + 1 ELSE s.cycles
           t == Link!SelectFrom(s, start, names)
<1>1. t = IF Wraps /\ MaxCycles # 0 /\ turned >= MaxCycles
            THEN [s EXCEPT !.cycles = turned, !.exited = "cycles"]
          ELSE IF Hits # {} THEN [s EXCEPT !.cycles = turned, !.cur = Link!Nth(start, First)]
          ELSE IF s.cur \in s.bad THEN [s EXCEPT !.cycles = turned, !.exited = "exhausted"]
          ELSE [s EXCEPT !.cycles = turned]
  BY DEF Link!SelectFrom
<1>2. turned \in Nat
  BY DEF LinkStates
<1>3. Hits # {} => First \in Hits
  <2> SUFFICES ASSUME Hits # {} PROVE \E k \in Hits : \A j \in Hits : k <= j
    BY Zenon
  <2>1. Hits \subseteq Nat
    BY DEF LinkTame
  <2> HIDE DEF Hits
  <2> QED BY <2>1, LeastOf
<1>4. \A k \in Hits : Link!Nth(start, k) \in Link!Links /\ Link!Nth(start, k) \in names \ s.bad
  BY NthIs
<1>5. Hits = {} => names \cap Link!Links \subseteq s.bad
  BY NthIs, Zenon
<1> HIDE DEF Hits, First, turned, Wraps, t
<1>6. /\ t \in LinkStates /\ t.state = s.state /\ t.bad = s.bad /\ t.tries = s.tries
      /\ t.exited = "exhausted" => Hits = {} /\ s.cur \in s.bad
      /\ t.exited = "cycles" => MaxCycles # 0 /\ t.cycles >= MaxCycles
      /\ t.exited = "no" => t.cur \notin s.bad /\ (t.cur = s.cur \/ t.cur \in names)
  BY <1>1, <1>2, <1>3, <1>4, Zenon DEF LinkStates
<1> QED BY <1>5, <1>6 DEF t

\* What is found before the search is all round does not cost a cycle.
LEMMA FoundInTime ==
  ASSUME NEW s \in LinkStates, s.exited = "no", NEW start, NEW names,
         NEW k \in {j \in 0..N - 1 : Link!Nth(start, j) \in names \ s.bad}, k # N - 1
  PROVE  Link!SelectFrom(s, start, names).exited = "no"
BY DEF Link!SelectFrom, LinkStates

\* What the handlers that end a connection make of a link state.
LEMMA ClosedIs ==
  ASSUME LinkTame, NEW s \in LinkStates
  PROVE  /\ Link!Closed(s) \in LinkStates /\ Link!Squit(s) \in LinkStates
         /\ Plausible(s) => Plausible(Link!Closed(s)) /\ Plausible(Link!Squit(s))
<1> DEFINE z == [s EXCEPT !.tries[s.cur] = 0]
<1>0. s.cur \in Link!Links /\ 0 \in 0..MaxTries
  BY DEF LinkStates, LinkTame
<1>1. ASSUME NEW r \in LinkStates
      PROVE  /\ Link!Closed(r) \in LinkStates
             /\ \A f \in {"cur", "tries", "bad", "cycles", "exited"} : Link!Closed(r)[f] = r[f]
  BY DEF Link!Closed, LinkStates, Link!States
<1>2. z \in LinkStates /\ z.exited = s.exited /\ z.bad = s.bad /\ z.cycles = s.cycles /\ z.cur = s.cur
  BY <1>0 DEF LinkStates
<1>3. z.tries = [s.tries EXCEPT ![s.cur] = 0]
  BY DEF LinkStates
<1>4. Link!Squit(s) = Link!Closed(z)
  BY DEF Link!Squit
<1>5. Plausible(s) => Plausible(z)
  <2>1. \A l \in Link!Links : z.tries[l] = IF l = s.cur THEN 0 ELSE s.tries[l]
    BY <1>3 DEF LinkStates
  <2> HIDE DEF z
  <2> QED BY <1>2, <2>1 DEF Plausible, LinkTame
<1> HIDE DEF z
<1>6. \A r \in LinkStates : Plausible(r) => Plausible(Link!Closed(r))
  BY <1>1 DEF Plausible
<1> QED BY <1>1, <1>2, <1>4, <1>5, <1>6

\* The variables as a link state.
LEMMA HereIs ==
  ASSUME LinkInv
  PROVE  /\ Link!Here \in LinkStates /\ Plausible(Link!Here)
         /\ Link!Here.cur = cur /\ Link!Here.state = state /\ Link!Here.bad = bad
         /\ Link!Here.cycles = cycles /\ Link!Here.exited = exited /\ Link!Here.tries = tries
BY DEF LinkInv, Link!TypeOK, Link!LinkSound, LinkStates, Plausible, Link!Here

\* The rest of the variables of a connection that is up or down.
Around == /\ sock \in BOOLEAN /\ linked \in BOOLEAN /\ (linked => sock)
          /\ phase \in {"connect", "events", "timers"}
          /\ timers \in [{"send", "timeout"} -> Nat]

\* The variables become a link state.
LEMMA BecomesLink ==
  ASSUME NEW s \in LinkStates, Link!Becomes(s), Plausible(s), Around',
         sock' => s.state[s.cur] # "DISCONNECTED" /\ s.exited = "no"
  PROVE  LinkInv'
BY DEF Around, LinkInv, Link!TypeOK, Link!LinkSound, LinkStates, Plausible, Link!Becomes

\* The timers, one more or one less.
LEMMA PingTimers ==
  ASSUME LinkTame, LinkInv
  PROVE  \A t \in {"send", "timeout"} : Link!OneMore(t) \in Nat
BY DEF LinkTame, LinkInv, Link!TypeOK, Link!OneMore

\* Connecting: an attempt fails, perhaps the last, or there is a socket.
LEMMA UplinkConnectStep ==
  ASSUME LinkTame, LinkInv, Link!UplinkConnect
  PROVE  LinkInv'
<1> DEFINE h == Link!Here
           s == IF cur \in bad THEN Link!Select(h, Link!Links) ELSE h
           up == [s EXCEPT !.state[s.cur] = "AUTHENTICATING", !.tries[s.cur] = 0]
<1>0. /\ ~sock /\ exited = "no" /\ UNCHANGED <<linked, phase>>
      /\ h \in LinkStates /\ h.cur \in Link!Links /\ h.exited = "no" /\ Plausible(h)
      /\ Around /\ ~linked
  BY HereIs DEF Link!UplinkConnect, LinkInv, Around, Link!TypeOK, Link!LinkSound
<1>1. ASSUME NEW r \in LinkStates, r.exited = "no",
             \A l \in Link!Links \ r.bad : r.tries[l] < MaxTries
      PROVE  Link!Select(r, Link!Links) \in LinkStates /\ Plausible(Link!Select(r, Link!Links))
  <2>1. Link!Nth(r.cur, 1) \in Link!Links
    <3>1. r.cur \in 1..N /\ N \in Nat /\ N > 0
      BY DEF LinkStates, LinkTame, Link!Links
    <3> QED BY <3>1, Z3 DEF Link!Nth, Link!Links
  <2>2. Link!Select(r, Link!Links) = Link!SelectFrom(r, Link!Nth(r.cur, 1), Link!Links)
    BY DEF Link!Select
  <2>3. r.bad \subseteq Link!Links
    BY DEF LinkStates
  <2> DEFINE t == Link!SelectFrom(r, Link!Nth(r.cur, 1), Link!Links)
  <2>4. /\ t \in LinkStates /\ t.state = r.state /\ t.bad = r.bad /\ t.tries = r.tries
        /\ t.exited = "exhausted" => Link!Links \cap Link!Links \subseteq r.bad /\ r.cur \in r.bad
        /\ t.exited = "cycles" => MaxCycles # 0 /\ t.cycles >= MaxCycles
        /\ t.exited = "no" => t.cur \notin r.bad /\ (t.cur = r.cur \/ t.cur \in Link!Links)
    BY <1>1, <2>1, SelectIs
  <2> HIDE DEF t
  <2>5. Plausible(t)
    BY <1>1, <2>3, <2>4 DEF Plausible, LinkStates
  <2> QED BY <2>2, <2>4, <2>5 DEF t
<1>2. s \in LinkStates /\ Plausible(s)
  BY <1>0, <1>1 DEF Plausible
<1>3. \/ s.exited # "no" /\ Link!Becomes(s) /\ UNCHANGED <<sock, timers>>
      \/ s.exited = "no" /\ Link!Becomes(up) /\ sock' = TRUE
           /\ timers' = [timers EXCEPT !["send"] = Link!OneMore("send")]
      \/ s.exited = "no" /\ Link!Becomes(Link!Failed(s)) /\ UNCHANGED <<sock, timers>>
  BY DEF Link!UplinkConnect
<1> HIDE DEF s, h
<1>4. CASE Link!Becomes(s) /\ UNCHANGED <<sock, timers>>
  <2>1. Around' /\ ~sock'
    BY <1>0, <1>4 DEF Around
  <2> QED BY <1>2, <1>4, <2>1, BecomesLink
<1>5. CASE s.exited = "no" /\ Link!Becomes(up) /\ sock' = TRUE
             /\ timers' = [timers EXCEPT !["send"] = Link!OneMore("send")]
  <2> DEFINE st == [s EXCEPT !.state[s.cur] = "AUTHENTICATING"]
  <2>0. s.cur \in Link!Links /\ 0 \in 0..MaxTries /\ up = [st EXCEPT !.tries[s.cur] = 0]
    BY <1>2 DEF LinkStates, LinkTame
  <2>6. /\ st \in LinkStates /\ st.state[s.cur] = "AUTHENTICATING"
        /\ \A f \in {"cur", "tries", "bad", "cycles", "exited"} : st[f] = s[f]
    BY <1>2, <2>0 DEF LinkStates, Link!States
  <2> HIDE DEF st
  <2>1. /\ up \in LinkStates /\ up.exited = "no" /\ up.cur = s.cur
        /\ up.state[up.cur] = "AUTHENTICATING"
    BY <1>5, <2>0, <2>6, Zenon DEF LinkStates
  <2>2. up.bad = s.bad /\ up.tries = [s.tries EXCEPT ![s.cur] = 0]
    BY <2>0, <2>6 DEF LinkStates
  <2> HIDE DEF up
  <2>3. Plausible(up)
    BY <1>2, <1>5, <2>1, <2>2 DEF Plausible, LinkTame, LinkStates
  <2>4. Around'
    BY <1>0, <1>5, PingTimers DEF Around
  <2>5. Link!Becomes(up)
    BY <1>5 DEF up
  <2> QED BY <2>1, <2>3, <2>4, <2>5, BecomesLink
<1>6. CASE s.exited = "no" /\ Link!Becomes(Link!Failed(s)) /\ UNCHANGED <<sock, timers>>
  <2>0. Around' /\ ~sock' /\ Link!Becomes(Link!Failed(s))
    BY <1>0, <1>6 DEF Around
  <2> DEFINE n == s.tries[s.cur] + 1
             t == [s EXCEPT !.state[s.cur] = "DISCONNECTED", !.tries[s.cur] = n]
             b == [t EXCEPT !.bad = @ \cup {s.cur}]
  <2>1. Link!Failed(s) = IF n >= MaxTries THEN Link!Select(b, Link!Links) ELSE t
    BY DEF Link!Failed
  <2>2. CASE n < MaxTries
    <3>1. n \in 0..MaxTries
      BY <1>2, <2>2 DEF LinkStates, LinkTame
    <3>2. t \in LinkStates /\ t.exited = "no"
      BY <1>2, <1>6, <3>1, Zenon DEF LinkStates, Link!States
    <3>3. Link!Failed(s) = t
      BY <1>2, <2>1, <2>2 DEF LinkStates, LinkTame
    <3>4. Plausible(t)
      BY <1>2, <1>6, <2>2, <3>1 DEF Plausible, LinkStates
    <3> HIDE DEF t
    <3> QED BY <2>0, <3>2, <3>3, <3>4, BecomesLink
  <2>3. CASE n >= MaxTries
    <3>1. n \in 0..MaxTries
      BY <1>2, <1>6 DEF Plausible, LinkStates, LinkTame
    <3>2. b \in LinkStates /\ b.exited = "no"
      BY <1>2, <1>6, <3>1, Zenon DEF LinkStates, Link!States
    <3>3. Link!Failed(s) = Link!Select(b, Link!Links)
      BY <2>1, <2>3
    <3>5. \A l \in Link!Links \ b.bad : b.tries[l] < MaxTries
      BY <1>2, <1>6, <3>1 DEF Plausible, LinkStates
    <3> HIDE DEF b
    <3>4. Link!Failed(s) \in LinkStates /\ Plausible(Link!Failed(s))
      BY <1>1, <3>2, <3>3, <3>5
    <3> QED BY <2>0, <3>4, BecomesLink
  <2> QED BY <1>2, <2>2, <2>3 DEF LinkStates, LinkTame
<1> QED BY <1>2, <1>3, <1>4, <1>5, <1>6, Zenon

\* The connection is closed by either side, by a kill or because a ping is not answered.
LEMMA DownStep ==
  ASSUME LinkTame, LinkInv, NEW s \in LinkStates, Plausible(s), Link!Becomes(s), Link!Down,
         phase' = phase, timers' \in [{"send", "timeout"} -> Nat]
  PROVE  LinkInv'
<1>1. Around' /\ ~sock'
  BY Zenon DEF Around, Link!Down, LinkInv, Link!TypeOK
<1> QED BY <1>1, BecomesLink

LEMMA ErrorStep ==
  ASSUME LinkTame, LinkInv, Link!Error
  PROVE  LinkInv'
<1> DEFINE h == Link!Here
           e == [h EXCEPT !.bad = IF state[cur] = "CONNECTED" THEN @ ELSE @ \cup {cur}]
<1>1. h \in LinkStates /\ Plausible(h) /\ h.cur = cur /\ cur \in Link!Links /\ h.exited = "no"
  BY HereIs DEF Link!Error, LinkInv, Link!TypeOK
<1>2. Link!Becomes(Link!Closed(e)) /\ Link!Down /\ UNCHANGED <<timers, phase>>
  BY DEF Link!Error
<1>3. timers \in [{"send", "timeout"} -> Nat]
  BY DEF LinkInv, Link!TypeOK
<1> HIDE DEF h
<1>4. /\ e \in LinkStates /\ e.exited = "no" /\ e.cur = h.cur /\ e.tries = h.tries
      /\ h.bad \subseteq e.bad
  BY <1>1 DEF LinkStates
<1> HIDE DEF e
<1>5. Plausible(e)
  BY <1>1, <1>4 DEF Plausible
<1> QED BY <1>2, <1>3, <1>4, <1>5, ClosedIs, DownStep

\* JUMP always finds the uplink it names, since that is not the current one.
LEMMA JumpStep ==
  ASSUME LinkTame, LinkInv, NEW l \in Link!Links, Link!Jump(l)
  PROVE  LinkInv'
<1> DEFINE h == Link!Here
           start == Link!Nth(cur, 1)
           s == Link!SelectFrom(h, start, {l})
<1>0. N \in Nat /\ N > 0 /\ cur \in 1..N /\ l \in 1..N /\ l # cur /\ l \notin bad
  BY DEF LinkTame, LinkInv, Link!TypeOK, Link!Links, Link!Jump
<1>1. h \in LinkStates /\ Plausible(h) /\ h.cur = cur /\ h.bad = bad /\ h.exited = "no"
  BY HereIs DEF Link!Jump, LinkInv
<1>2. start \in Link!Links
  BY <1>0, Z3 DEF Link!Nth, Link!Links
<1>3. s = Link!Select(h, {l})
  BY <1>1 DEF Link!Select
<1>4. Link!Nth(start, N - 1) = cur
  <2>1. CASE cur < N
    <3>1. (cur - 1 + 1) % N = cur
      BY <1>0, <2>1, Z3
    <3>2. start = cur + 1
      BY <1>0, <3>1 DEF Link!Nth
    <3>3. (start - 1 + (N - 1)) % N = cur - 1
      BY <1>0, <2>1, <3>2, Z3
    <3> QED BY <1>0, <3>3 DEF Link!Nth
  <2>2. CASE cur = N
    <3>1. (cur - 1 + 1) % N = 0
      BY <1>0, <2>2, Z3
    <3>2. start = 1
      BY <1>0, <3>1 DEF Link!Nth
    <3>3. (start - 1 + (N - 1)) % N = N - 1
      BY <1>0, <3>2, Z3
    <3> QED BY <1>0, <2>2, <3>3 DEF Link!Nth
  <2> QED BY <1>0, <2>1, <2>2
<1>5. PICK k \in 0..N - 1 : Link!Nth(start, k) = l
  BY <1>2, NthIs DEF Link!Jump
<1>6. k # N - 1
  BY <1>0, <1>4, <1>5
<1>7. s.exited = "no"
  <2>1. k \in {j \in 0..N - 1 : Link!Nth(start, j) \in {l} \ h.bad}
    BY <1>0, <1>1, <1>5
  <2> QED BY <1>1, <1>6, <2>1, FoundInTime
<1>8. /\ s \in LinkStates /\ s.tries = h.tries /\ s.bad = h.bad
      /\ s.cur \notin h.bad
  BY <1>1, <1>2, <1>7, SelectIs
<1>9. Link!Becomes(Link!Squit(s)) /\ Link!Down /\ UNCHANGED <<timers, phase>>
  BY <1>3, <1>7, Zenon DEF Link!Jump
<1>10. timers \in [{"send", "timeout"} -> Nat]
  BY DEF LinkInv, Link!TypeOK
<1> HIDE DEF s, h
<1>11. Plausible(s)
  BY <1>1, <1>7, <1>8 DEF Plausible
<1> QED BY <1>8, <1>9, <1>10, <1>11, ClosedIs, DownStep

\* A reload makes new records of the uplinks, and keeps the connection if its uplink is
\* still enabled.
LEMMA ReloadStep ==
  ASSUME LinkTame, LinkInv, NEW enabled \in SUBSET Link!Links \ {{}}, Link!Reload(enabled)
  PROVE  LinkInv'
<1> DEFINE h == Link!Here
           nt == [l \in Link!Links |-> IF Link!Carried(l, enabled) THEN tries[l] ELSE 0]
           ns == [l \in Link!Links |-> IF Link!Carried(l, enabled) THEN state[l]
                                        ELSE "DISCONNECTED"]
           fresh == [h EXCEPT !.bad = Link!Links \ enabled, !.tries = nt, !.state = ns]
<1>0. /\ N \in Nat /\ N > 0 /\ 1 \in Link!Links
      /\ cur \in Link!Links /\ tries \in [Link!Links -> 0..MaxTries]
      /\ state \in [Link!Links -> Link!States] /\ exited = "no"
  BY DEF LinkTame, LinkInv, Link!TypeOK, Link!Links, Link!Reload
<1>1. h \in LinkStates /\ Plausible(h) /\ h.cur = cur /\ h.exited = "no" /\ h.tries = tries
  BY <1>0, HereIs
<1>2. /\ nt \in [Link!Links -> 0..MaxTries] /\ ns \in [Link!Links -> Link!States]
      /\ \A l \in Link!Links : nt[l] < MaxTries
      /\ cur \in enabled => ns[cur] = state[cur]
  BY <1>0, <1>1 DEF Plausible, LinkTame, Link!Carried, Link!States
<1>3. \/ cur \in enabled /\ Link!Becomes(fresh) /\ UNCHANGED <<sock, linked>>
      \/ Link!Becomes(Link!SelectFrom(fresh, 1, Link!Links)) /\ Link!Down
  BY DEF Link!Reload
<1>4. UNCHANGED <<timers, phase>>
  BY DEF Link!Reload
<1> HIDE DEF h, nt, ns
<1>5. /\ fresh \in LinkStates /\ fresh.cur = cur /\ fresh.exited = "no"
      /\ fresh.tries = nt /\ fresh.state = ns
  BY <1>1, <1>2, Zenon DEF LinkStates
<1> HIDE DEF fresh
<1>6. CASE cur \in enabled /\ Link!Becomes(fresh) /\ UNCHANGED <<sock, linked>>
  <2>1. Around'
    BY <1>4, <1>6 DEF Around, LinkInv, Link!TypeOK, Link!LinkSound
  <2>2. Plausible(fresh)
    BY <1>2, <1>5 DEF Plausible
  <2>3. sock' => fresh.state[fresh.cur] # "DISCONNECTED" /\ fresh.exited = "no"
    BY <1>2, <1>5, <1>6 DEF LinkInv, Link!LinkSound
  <2> QED BY <1>5, <1>6, <2>1, <2>2, <2>3, BecomesLink
<1>7. CASE Link!Becomes(Link!SelectFrom(fresh, 1, Link!Links)) /\ Link!Down
  <2> DEFINE t == Link!SelectFrom(fresh, 1, Link!Links)
  <2>1. /\ t \in LinkStates /\ t.bad = fresh.bad /\ t.tries = fresh.tries
        /\ t.exited = "exhausted" => Link!Links \cap Link!Links \subseteq fresh.bad /\ fresh.cur \in fresh.bad
        /\ t.exited = "cycles" => MaxCycles # 0 /\ t.cycles >= MaxCycles
    BY <1>0, <1>5, SelectIs
  <2> HIDE DEF t
  <2>2. Plausible(t)
    BY <1>2, <1>5, <2>1, Zenon DEF Plausible, LinkStates
  <2>3. timers' \in [{"send", "timeout"} -> Nat] /\ phase' = phase
    BY <1>4 DEF LinkInv, Link!TypeOK
  <2>4. Link!Becomes(t) /\ Link!Down
    BY <1>7 DEF t
  <2> QED BY <2>1, <2>2, <2>3, <2>4, DownStep
<1> QED BY <1>3, <1>6, <1>7

\* The steps that neither connect nor disconnect.
LEMMA QuietLinkStep ==
  ASSUME LinkTame, LinkInv,
         \/ Link!Poll \/ Link!RunTimers \/ Link!LoopAgain
         \/ Link!Pass \/ Link!Server \/ Link!Eob \/ Link!Pinged \/ Link!TimedSendPing
         \/ UNCHANGED Link!vars
  PROVE  LinkInv'
<1>1. CASE Link!Poll \/ Link!RunTimers \/ Link!LoopAgain \/ UNCHANGED Link!vars
  BY <1>1 DEF Link!Poll, Link!RunTimers, Link!LoopAgain, Link!vars, Link!link, LinkInv, Link!TypeOK,
              Link!LinkSound
<1>2. CASE Link!Pass \/ Link!Server \/ Link!Eob
  BY <1>2, Zenon DEF Link!Pass, Link!Server, Link!Eob, Link!Advance, LinkInv, Link!TypeOK, Link!LinkSound,
              Link!States
<1>3. CASE Link!Pinged
  BY <1>3 DEF Link!Pinged, LinkInv, Link!TypeOK, Link!LinkSound
<1>4. CASE Link!TimedSendPing
  <2>1. timers' \in [{"send", "timeout"} -> Nat]
    BY <1>4, PingTimers DEF Link!TimedSendPing, LinkInv, Link!TypeOK
  <2> QED BY <1>4, <2>1 DEF Link!TimedSendPing, Link!link, LinkInv, Link!TypeOK, Link!LinkSound
<1> QED BY <1>1, <1>2, <1>3, <1>4

\* One action after the other.
LEMMA LinkNext ==
  ASSUME LinkTame, LinkInv, [Link!Next]_(Link!vars)
  PROVE  LinkInv'
<1>0. /\ Link!Here \in LinkStates /\ Plausible(Link!Here)
      /\ timers \in [{"send", "timeout"} -> Nat]
  BY HereIs DEF LinkInv, Link!TypeOK
<1>1. CASE Link!ConnectionLost
  BY <1>0, <1>1, ClosedIs, DownStep DEF Link!ConnectionLost
<1>2. CASE Link!Disagree
  BY <1>0, <1>2, ClosedIs, DownStep DEF Link!Disagree
<1>3. CASE Link!TimedPingTimeout
  <2>1. timers' \in [{"send", "timeout"} -> Nat]
    BY <1>0, <1>3 DEF Link!TimedPingTimeout
  <2> QED BY <1>0, <1>3, <2>1, ClosedIs, DownStep DEF Link!TimedPingTimeout
<1> QED BY <1>1, <1>2, <1>3, UplinkConnectStep, ErrorStep, JumpStep, ReloadStep, QuietLinkStep
        DEF Link!Next

\* The record that is connected is the current one, and services only give up when no
\* uplink is left or the list has been gone round too often, for any number of uplinks,
\* attempts and cycles and in any order of failures, jumps, reloads, pings and timers.
THEOREM LinkIsSound == ASSUME LinkTame PROVE Link!Spec => []Link!LinkSound
<1>1. ASSUME Link!Init PROVE LinkInv
  <2>1. 1 \in Link!Links /\ 0 \in 0..MaxTries /\ MaxTries > 0
    BY DEF LinkTame, Link!Links
  <2>2. Link!TypeOK
    BY <1>1, <2>1, Zenon DEF Link!Init, Link!TypeOK, Link!States
  <2>3. Link!LinkSound
    BY <1>1 DEF Link!Init, Link!LinkSound
  <2>4. exited = "no" /\ \A l \in Link!Links : tries[l] < MaxTries
    BY <1>1, <2>1 DEF Link!Init
  <2> QED BY <2>2, <2>3, <2>4 DEF LinkInv
<1>2. LinkInv /\ [Link!Next]_(Link!vars) => LinkInv'
  BY LinkNext
<1>3. LinkInv => Link!LinkSound
  BY DEF LinkInv
<1> QED BY <1>1, <1>2, <1>3, PTL DEF Link!Spec

-----------------------------------------------------------------------------
(* Who may use a command (ModcmdInvoke).                                    *)
Dispatch == INSTANCE ModcmdInvoke

\* What the proofs assume of the constants: levels and access are numbers, whoever helps has access that is logged
\* (500 or more in the code, more than 5 here), and TIMECMD and joiners keep their channel.
Persons == [account : {"none", "active", "suspended"}, oper : BOOLEAN, level : Int, helper : {"none", "network", "support"},
            helping : BOOLEAN, access : Nat, on : BOOLEAN]
InvokeTame ==
  /\ People \subseteq Persons /\ Helper \in Nat /\ Helper > 5 /\ "NAMED" \notin Enabled
  /\ \A b \in Bindings : b.level \in Int /\ b.access \in Nat

\* What is hidden could not be run.
InvokeInv ==
  /\ user \in Persons /\ cmd \in Bindings
  /\ hidden => ~Dispatch!CanInvoke(FALSE, FALSE, TRUE)
  /\ Dispatch!RanAsDocumented

\* What the flags imply of one another (modcmd_set_effective_flags).
LEMMA EffectiveFlags ==
  LET f == Dispatch!Effective
  IN /\ cmd.flags \subseteq f
     /\ cmd.level > 0 => "oper" \in f
     /\ cmd.access > 0 => "chanuser" \in f
     /\ "chanuser" \in f => "regchan" \in f
     /\ "regchan" \in f => "channel" \in f
     /\ f \cap (Dispatch!Staff \cup {"helping"}) # {} => "authed" \in f
     /\ "ignore_csuspend" \in f <=> "ignore_csuspend" \in cmd.flags
     /\ "toy" \in f <=> "toy" \in cmd.flags
     /\ "chanuser" \in f => "chanuser" \in cmd.flags \/ cmd.access > 0
  BY DEF Dispatch!Effective, Dispatch!Staff

\* Who is on the channel for a command.
Insider == channel.registered /\ ((user.access > 0 /\ user.access >= cmd.access) \/ user.helping)
Own     == channel.registered /\ user.access > 0 /\ user.access >= cmd.access

\* Access of those who do not have it themselves is a helper's.
LEMMA AccessIs ==
  ASSUME InvokeTame, user \in Persons, cmd \in Bindings
  PROVE  /\ Dispatch!Access(TRUE) > 0 => channel.registered /\ Dispatch!Authed
         /\ Dispatch!Access(TRUE) # Dispatch!Access(FALSE) => user.helping /\ Dispatch!Access(TRUE) > 5
         /\ Dispatch!Access(TRUE) > 0 => Dispatch!Access(FALSE) = user.access
         /\ Dispatch!Access(TRUE) > 0 /\ Dispatch!Access(TRUE) >= cmd.access => Insider
         /\ Dispatch!Access(TRUE) \in Nat /\ Dispatch!Access(FALSE) \in Nat /\ cmd.access \in Nat /\ user.access \in Nat
<1>1. /\ user.access \in Nat /\ user.level \in Int /\ user.helping \in BOOLEAN
      /\ Helper \in Nat /\ Helper > 5 /\ cmd.access \in Nat
  BY DEF InvokeTame, Persons
<1> QED BY <1>1 DEF Dispatch!Access, Dispatch!Overrides, Insider

\* Whether the command is listed is a matter of the user, the channel and the command.
LEMMA SameAnswer ==
  ASSUME UNCHANGED <<user, channel, cmd>>
  PROVE  Dispatch!CanInvoke(FALSE, FALSE, TRUE)' <=> Dispatch!CanInvoke(FALSE, FALSE, TRUE)
  BY DEF Dispatch!CanInvoke, Dispatch!Effective, Dispatch!InChannel, Dispatch!Access, Dispatch!Authed, Dispatch!Overrides,
         Dispatch!IsStaff, Dispatch!OperHasAccess

\* What may run meets the requirements, and is logged as what it is.
LEMMA RanMeets ==
  ASSUME InvokeTame, InvokeInv, Dispatch!Served, UNCHANGED <<user, channel, cmd, privileged, hidden>>,
         NEW given \in BOOLEAN, NEW named, NEW qualified \in BOOLEAN, NEW from,
         given => from = "channel", ran' = Dispatch!Ran(given, named, qualified, from)
  PROVE  InvokeInv'
<1> DEFINE f == Dispatch!Effective
           accept == "acceptchan" \in cmd.flags
           here == IF named # "no" /\ accept THEN "toy" \notin cmd.flags ELSE given
<1>1. user \in Persons /\ cmd \in Bindings /\ (hidden => ~Dispatch!CanInvoke(FALSE, FALSE, TRUE))
  BY Zenon DEF InvokeInv
<1>2. Dispatch!CanInvoke(FALSE, FALSE, TRUE)' <=> Dispatch!CanInvoke(FALSE, FALSE, TRUE)
  BY SameAnswer, Zenon
<1>3. CASE ran' = NULL
  BY <1>1, <1>2, <1>3, Zenon DEF InvokeInv, Dispatch!RanAsDocumented
<1>4. CASE ran' # NULL
  <2>1. /\ Dispatch!CanInvoke(here, TRUE, qualified)
        /\ ran' = [ from |-> from, qualified |-> qualified, log |-> Dispatch!Severity(here),
                    here |-> here /\ ~("toy" \in cmd.flags /\ (~channel.registered \/ channel.toys = "n")) ]
    BY <1>4, Zenon DEF Dispatch!Ran
  <2>2. /\ ran'.from = from /\ ran'.qualified = qualified /\ ran'.log = Dispatch!Severity(here)
        /\ ran'.here <=> here /\ ~("toy" \in cmd.flags /\ (~channel.registered \/ channel.toys = "n"))
    <3> DEFINE x == here /\ ~("toy" \in cmd.flags /\ (~channel.registered \/ channel.toys = "n"))
               log == Dispatch!Severity(here)
    <3>1. x \in BOOLEAN /\ ran' = [from |-> from, qualified |-> qualified, log |-> log, here |-> x]
      BY <2>1
    <3> HIDE DEF x, log
    <3>2. ran'.from = from /\ ran'.qualified = qualified /\ ran'.log = log /\ ran'.here = x
      BY <3>1
    <3> QED BY <3>1, <3>2, Zenon DEF x, log
  <2>3. "toy" \in cmd.flags /\ here => from = "channel"
    OBVIOUS
  <2> HIDE DEF here
  <2>4. /\ "disabled" \notin f /\ ("qualified" \in f => qualified)
        /\ "authed" \in f => user.account = "active"
        /\ f \cap Dispatch!Staff # {} => Dispatch!IsStaff(f)
        /\ "helping" \in f => user.helping
        /\ cmd.level > 0 => Dispatch!OperHasAccess(cmd.level)
        /\ Dispatch!InChannel(f, here)
    BY <2>1 DEF Dispatch!CanInvoke
  <2>5. ~hidden
    BY <1>1, <2>1 DEF Dispatch!CanInvoke
  <2>6. /\ cmd.flags \subseteq f
        /\ cmd.level > 0 => "oper" \in f
        /\ cmd.access > 0 => "chanuser" \in f
        /\ "chanuser" \in f => "regchan" \in f
        /\ "regchan" \in f => "channel" \in f
        /\ f \cap (Dispatch!Staff \cup {"helping"}) # {} => "authed" \in f
        /\ "ignore_csuspend" \in f <=> "ignore_csuspend" \in cmd.flags
        /\ "toy" \in f <=> "toy" \in cmd.flags
        /\ "chanuser" \in f => "chanuser" \in cmd.flags \/ cmd.access > 0
    BY EffectiveFlags
  <2> DEFINE any == Dispatch!Access(TRUE)
             self == Dispatch!Access(FALSE)
  <2>7. /\ "channel" \in f => here
        /\ "regchan" \in f => channel.registered /\ (channel.suspended /\ "ignore_csuspend" \notin f => user.helping)
        /\ "chanuser" \in f => any > 0 /\ any >= cmd.access
        /\ "joinable" \in f /\ here => ~channel.closed \/ any > 0 \/ user.on
    BY <2>4, Zenon DEF Dispatch!InChannel
  <2> HIDE DEF f
  <2>8. /\ any > 0 => channel.registered /\ Dispatch!Authed
        /\ any # self => user.helping /\ any > 5
        /\ any > 0 => self = user.access
        /\ any > 0 /\ any >= cmd.access => Insider
        /\ any \in Nat /\ self \in Nat /\ cmd.access \in Nat /\ user.access \in Nat
    BY <1>1, AccessIs, Zenon
  <2> HIDE DEF any, self
  <2>9. /\ "disabled" \notin cmd.flags
        /\ "qualified" \in cmd.flags => qualified
        /\ cmd.flags \cap (Dispatch!Staff \cup {"authed", "helping"}) # {} \/ cmd.level > 0 \/ privileged => Dispatch!Authed
    <3>1. user.account = "active" => Dispatch!Authed
      BY DEF Dispatch!Authed
    <3>2. privileged => Dispatch!Authed
      BY DEF Dispatch!Served
    <3>3. cmd.level > 0 => Dispatch!Authed
      BY <2>4 DEF Dispatch!OperHasAccess
    <3>4. cmd.flags \cap (Dispatch!Staff \cup {"authed", "helping"}) # {} => "authed" \in f
      BY <2>6
    <3> QED BY <2>4, <2>6, <3>1, <3>2, <3>3, <3>4
  <2>10. /\ cmd.flags \cap {"channel", "regchan", "chanuser"} # {} => ran'.here \/ "toy" \in cmd.flags
         /\ "chanuser" \in cmd.flags \/ cmd.access > 0 => Insider
         /\ "joinable" \in cmd.flags /\ ran'.here /\ channel.closed => Insider \/ user.on
    <3>1. "joinable" \in cmd.flags /\ here /\ channel.closed => Insider \/ user.on
      BY <2>6, <2>7, <2>8
    <3> QED BY <2>2, <2>6, <2>7, <2>8, <3>1
  <2>11. /\ cmd.flags \cap Dispatch!Staff # {} => user.oper \/ user.helper # "none"
         /\ "helping" \in cmd.flags => user.helping
         /\ cmd.level > 0 => user.oper /\ user.level >= cmd.level
         /\ privileged => user.oper
         /\ "regchan" \in cmd.flags /\ channel.suspended /\ "ignore_csuspend" \notin cmd.flags => user.helping
         /\ "toy" \in cmd.flags /\ ran'.here => ran'.from = "channel"
    <3>1. cmd.flags \cap Dispatch!Staff # {} => user.oper \/ user.helper # "none"
      BY <2>4, <2>6 DEF Dispatch!IsStaff
    <3> QED BY <2>2, <2>3, <2>4, <2>6, <2>7, <3>1 DEF Dispatch!Served, Dispatch!OperHasAccess
  <2>12. /\ Dispatch!Severity(here) = "override" => ~Own /\ user.helping
         /\ "chanuser" \in cmd.flags \/ cmd.access > 0 => Own \/ Dispatch!Severity(here) # "command"
    <3> DEFINE lacks == self = 0 \/ self < cmd.access
    <3>1. /\ Dispatch!Severity(here) = "override" => "chanuser" \in f /\ any > 5 /\ lacks
          /\ Dispatch!Severity(here) = "command" => ~("chanuser" \in f /\ any > 5 /\ lacks)
      BY Zenon DEF Dispatch!Severity, f, any, self
    <3>2. "chanuser" \in f => (Own <=> ~lacks)
      BY <2>7, <2>8 DEF Own
    <3>3. "chanuser" \in f /\ lacks => user.helping /\ any > 5
      BY <2>7, <2>8
    <3> HIDE DEF lacks
    <3> QED BY <2>6, <3>1, <3>2, <3>3
  <2>13. Dispatch!MetRequirements'
    BY <2>2, <2>9, <2>10, <2>11 DEF Dispatch!MetRequirements, Insider, Dispatch!Authed
  <2>14. Dispatch!OverrideLogged'
    BY <2>2, <2>12 DEF Dispatch!OverrideLogged, Own
  <2> QED BY <1>1, <1>2, <2>5, <2>13, <2>14, Zenon DEF InvokeInv, Dispatch!RanAsDocumented
<1> QED BY <1>3, <1>4

\* A line that is refused.
LEMMA NoneRan ==
  ASSUME InvokeInv, ran' = NULL, UNCHANGED <<user, channel, cmd, privileged, hidden>> PROVE InvokeInv'
  BY SameAnswer, Zenon DEF InvokeInv, Dispatch!RanAsDocumented

\* Steps after which nothing has run.
LEMMA NothingRan ==
  ASSUME InvokeTame, InvokeInv, Dispatch!God \/ Dispatch!Otherwise \/ \E here \in BOOLEAN : Dispatch!ShowCommands(here)
  PROVE  InvokeInv'
<1>1. user \in Persons /\ cmd \in Bindings
  BY DEF InvokeInv
<1>2. ASSUME NEW here \in BOOLEAN, Dispatch!ShowCommands(here) PROVE InvokeInv'
  <2>1. UNCHANGED <<user, channel, cmd, privileged>> /\ ~here /\ hidden' = ~Dispatch!CanInvoke(here, FALSE, TRUE) /\ ran' = NULL
    BY <1>2 DEF Dispatch!ShowCommands
  <2>2. Dispatch!CanInvoke(FALSE, FALSE, TRUE)' <=> Dispatch!CanInvoke(FALSE, FALSE, TRUE)
    BY <2>1, SameAnswer, Zenon
  <2>3. here = FALSE
    BY <2>1
  <2> QED BY <1>1, <2>1, <2>2, <2>3, Zenon DEF InvokeInv, Dispatch!RanAsDocumented
<1>3. CASE Dispatch!God
  <2>1. user' \in Persons /\ cmd' \in Bindings
    BY <1>1, <1>3, Zenon DEF Dispatch!God, Persons
  <2> QED BY <1>3, <2>1, Zenon DEF Dispatch!God, InvokeInv, Dispatch!RanAsDocumented
<1>4. CASE Dispatch!Otherwise
  <2>1. user' \in Persons /\ cmd' \in Bindings
    BY <1>1, <1>4 DEF Dispatch!Otherwise, InvokeTame
  <2> QED BY <1>4, <2>1, Zenon DEF Dispatch!Otherwise, InvokeInv, Dispatch!RanAsDocumented
<1> QED BY <1>2, <1>3, <1>4

\* Whatever runs meets every requirement that MODCMD's help states, at whatever time and by whatever
\* way it came, is listed by SHOWCOMMANDS, and is logged as an override just if the user's own access would not
\* have done (svccmd_can_invoke, svccmd_invoke_argv): for any people, channels and requirements.
THEOREM WhatRanWasAllowed == ASSUME InvokeTame PROVE Dispatch!Spec => []Dispatch!RanAsDocumented
<1>1. Dispatch!Init => InvokeInv
  BY Zenon DEF Dispatch!Init, InvokeInv, Dispatch!RanAsDocumented, InvokeTame
<1>2. InvokeInv /\ [Dispatch!Next]_(Dispatch!vars) => InvokeInv'
  <2> SUFFICES ASSUME InvokeInv, [Dispatch!Next]_(Dispatch!vars) PROVE InvokeInv'
    OBVIOUS
  <2>1. CASE UNCHANGED Dispatch!vars
    <3>1. /\ user' = user /\ channel' = channel /\ cmd' = cmd /\ privileged' = privileged
          /\ ran' = ran /\ hidden' = hidden
      BY <2>1 DEF Dispatch!vars
    <3>2. Dispatch!Effective' = Dispatch!Effective /\ (Dispatch!Authed <=> Dispatch!Authed')
      BY <3>1 DEF Dispatch!Effective, Dispatch!Authed
    <3>3. \A f : Dispatch!IsStaff(f) <=> Dispatch!IsStaff(f)'
      BY <3>1 DEF Dispatch!IsStaff
    <3>4. Dispatch!CanInvoke(FALSE, FALSE, TRUE)' => Dispatch!CanInvoke(FALSE, FALSE, TRUE)
      BY <3>1, <3>2, <3>3 DEF Dispatch!CanInvoke, Dispatch!OperHasAccess
    <3>5. Dispatch!RanAsDocumented => Dispatch!RanAsDocumented'
      BY <3>1, <3>2 DEF Dispatch!RanAsDocumented, Dispatch!MetRequirements, Dispatch!OverrideLogged
    <3> QED BY <3>1, <3>4, <3>5 DEF InvokeInv
  <2>2. ASSUME NEW from \in {"msg", "channel"}, NEW named \in Dispatch!Names, NEW qualified \in BOOLEAN,
               Dispatch!Invoke(from, named, qualified)
        PROVE  InvokeInv'
    <3>1. CASE Dispatch!Served
      BY <2>2, <3>1, RanMeets, Zenon DEF Dispatch!Invoke
    <3>2. CASE ~Dispatch!Served
      <4>1. ran' = NULL /\ UNCHANGED <<user, channel, cmd, privileged, hidden>>
        BY <2>2, <3>2 DEF Dispatch!Invoke
      <4> QED BY <4>1, NoneRan
    <3> QED BY <3>1, <3>2
  <2>3. ASSUME NEW from \in {"msg", "channel"}, NEW named \in Dispatch!Names, NEW via \in {"timecmd", "joiner"}, NEW outside \in BOOLEAN,
               Dispatch!Nested(from, via, outside, named)
        PROVE  InvokeInv'
    <3>1. ~outside /\ UNCHANGED <<user, channel, cmd, privileged, hidden>>
      BY <2>3 DEF Dispatch!Nested, InvokeTame
    <3>2. ran' = NULL \/ (Dispatch!Served /\ ran' = Dispatch!Ran(from = "channel" \/ outside, named, FALSE, from))
      BY <2>3, Zenon DEF Dispatch!Nested
    <3>3. CASE ran' = NULL
      BY <3>1, <3>3, NoneRan
    <3>4. CASE Dispatch!Served /\ ran' = Dispatch!Ran(from = "channel" \/ outside, named, FALSE, from)
      BY <3>1, <3>4, RanMeets, Zenon
    <3> QED BY <3>2, <3>3, <3>4, Zenon
  <2> QED BY <2>1, <2>2, <2>3, NothingRan DEF Dispatch!Next
<1>3. InvokeInv => Dispatch!RanAsDocumented
  BY DEF InvokeInv
<1> QED BY <1>1, <1>2, <1>3, PTL DEF Dispatch!Spec
================================================================================
