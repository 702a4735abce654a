------------------------------ MODULE NetChannels ------------------------------
(***************************************************************************)
(* One channel as the network and as services see it (proto-p10.c,         *)
(* proto-common.c, hash.c): joins, parts, kicks and modes, the first       *)
(* member's op, locks, the burst when services link, and the merge by age  *)
(* when a split server returns with a channel of its own.                  *)
(*                                                                         *)
(* `net' and `far' are the network's doing and external; `chan' changes by *)
(* the handlers of the messages it sends and by what services do.  Kicks   *)
(* by services take effect when the victim's server confirms them.         *)
(***************************************************************************)
EXTENDS Integers, FiniteSets

CONSTANTS
  Users,      \* users of the network
  Leaf,       \* those of them behind the server that splits
  X,          \* a service
  Bans,
  MaxTime,    \* bound: ages of channels
  Enabled,    \* a subset of {"AGED", "RECREATED"}
  NULL
\* "AGED": an older burst may meet ops and voices of ours, besides a service's op.  "RECREATED": a channel that
\* services keep by a lock alone may be created anew by the network.

VARIABLES
  chan,       \* services' chanNode, or NULL
  unbursted,  \* it is in unbursted_channels
  linked, bursting, split,
  net,        \* the channel on the uplink's side, or NULL
  far,        \* on the leaf's side during a split, or NULL
  kicked,     \* users with a KICK by services under way
  now

vars == <<chan, unbursted, linked, bursting, split, net, far, kicked, now>>

Members == Users \cup {X}
Flags   == {"o", "v"}
None    == [m \in {} |-> {}]
With(mem, u, fl) == [m \in DOMAIN mem \cup {u} |-> IF m = u THEN fl ELSE mem[m]]
Sans(mem, gone)  == [m \in DOMAIN mem \ gone |-> mem[m]]

TypeOK ==
  /\ chan # NULL => /\ chan.ts \in 1..MaxTime /\ chan.keep \in BOOLEAN /\ chan.locks \in 0..1
                    /\ DOMAIN chan.mem \subseteq Members /\ chan.bans \subseteq Bans
  /\ unbursted \in BOOLEAN /\ linked \in BOOLEAN /\ bursting \in BOOLEAN /\ split \in BOOLEAN
  /\ kicked \subseteq Users /\ now \in 1..MaxTime

-----------------------------------------------------------------------------
(* hash.c and the parsers, as operators from the channel to the channel.   *)

Fresh(ts, mem, keep, bans) ==
  [ts |-> ts, mem |-> mem, keep |-> keep, bans |-> bans, locks |-> 0]

\* AddChannelUser: the first member gets op, unless the channel stays without.
FirstOp(c) == IF DOMAIN c.mem = {} /\ ~c.keep THEN {"o"} ELSE {}
AddChannelUser(c, u) ==
  IF u \in DOMAIN c.mem THEN c ELSE [c EXCEPT !.mem = With(@, u, FirstOp(c))]

\* join_helper, or AddChannel and AddChannelUser for a channel we do not have.
Joined(c, u, ts) ==
  AddChannelUser(IF c = NULL THEN Fresh(ts, None, FALSE, {}) ELSE c, u)

\* What DelChannelUser, and the unlocking of dead_channels, leave of a channel.
Emptied(c) == IF DOMAIN c.mem = {} /\ c.locks = 0 /\ ~c.keep THEN NULL ELSE c
DelChannelUsers(c, gone) ==
  IF c = NULL THEN NULL
  ELSE IF DOMAIN c.mem \cap gone = {} THEN c
  ELSE Emptied([c EXCEPT !.mem = Sans(@, gone)])

\* wipeout_channel: the services that were op get it back, with the old modes
\* (Reops); what the others had stays as it was.
Reops(c) == X \in DOMAIN c.mem /\ "o" \in c.mem[X]
WipeoutChannel(c, b) ==
  [c EXCEPT !.ts = b.ts, !.keep = b.keep \/ (Reops(c) /\ c.keep), !.bans = {}]

\* AddChannel for a burst, with the age of the other channel.
Aged(c, b) ==
  IF c = NULL THEN Fresh(b.ts, None, b.keep, b.bans)
  ELSE IF c.ts > b.ts THEN [WipeoutChannel(c, b) EXCEPT !.bans = b.bans]
  ELSE IF c.ts = b.ts THEN [c EXCEPT !.keep = @ \/ b.keep, !.bans = @ \cup b.bans]
  ELSE c

\* Mutant: members of a younger channel keep the modes they come with.
BurstIn_Trusts(c, b) ==
  LET k == Aged(c, b)
  IN [k EXCEPT !.mem = [m \in DOMAIN @ \cup DOMAIN b.mem |->
                          IF m \in DOMAIN b.mem THEN b.mem[m] ELSE @[m]]]

\* cmd_burst: then its members, with their modes unless theirs is younger.
BurstIn(c, b) ==
  LET k == Aged(c, b)
      older == c # NULL /\ c.ts < b.ts
  IN [k EXCEPT !.mem = [m \in DOMAIN @ \cup DOMAIN b.mem |->
                          IF m \in DOMAIN b.mem THEN IF older THEN {} ELSE b.mem[m] ELSE @[m]]]

-----------------------------------------------------------------------------
(* The network.                                                            *)

OnNet(c)  == [ts |-> c.ts, mem |-> c.mem, keep |-> c.keep, bans |-> c.bans]
Gone(c)   == IF c # NULL /\ DOMAIN c.mem = {} /\ ~c.keep THEN NULL ELSE c
Younger(b, ts) == [ts |-> ts, mem |-> [m \in DOMAIN b.mem |-> {}], keep |-> FALSE, bans |-> {}]

\* Two channels of one name meet: the older one's modes are in force.
Meet(a, b) ==
  IF a = NULL THEN b ELSE IF b = NULL THEN a
  ELSE LET ts == IF a.ts <= b.ts THEN a.ts ELSE b.ts
           x  == IF a.ts = ts THEN a ELSE Younger(a, ts)
           y  == IF b.ts = ts THEN b ELSE Younger(b, ts)
       IN [ts |-> ts, keep |-> x.keep \/ y.keep, bans |-> x.bans \cup y.bans,
           mem |-> [m \in DOMAIN x.mem \cup DOMAIN y.mem |->
                      IF m \in DOMAIN x.mem /\ m \in DOMAIN y.mem THEN x.mem[m] \cup y.mem[m]
                      ELSE IF m \in DOMAIN x.mem THEN x.mem[m] ELSE y.mem[m]]]

Hears(c) == chan' = IF linked THEN c ELSE chan
\* A channel that is deleted is taken from unbursted_channels.
Unbursts == unbursted' = (unbursted /\ chan' # NULL)
\* The uplink has not heard of the channel yet, but its burst will end.
Waits     == linked /\ unbursted
Recreated == net = NULL /\ chan # NULL /\ linked
Near(u)  == u \in Users /\ ~(split /\ u \in Leaf)
On(u)    == net # NULL /\ u \in DOMAIN net.mem

Init ==
  /\ now = 2 /\ unbursted = FALSE /\ linked = FALSE /\ bursting = FALSE /\ split = FALSE
  /\ chan = NULL /\ net = NULL /\ far = NULL /\ kicked = {}

\* CREATE by whoever comes first, JOIN by the others.
Join(u) ==
  /\ Near(u) /\ ~On(u) /\ u \notin kicked
  /\ Recreated => "RECREATED" \in Enabled \/ Waits
  /\ net' = IF net = NULL THEN [ts |-> now, mem |-> With(None, u, {"o"}), keep |-> FALSE, bans |-> {}]
            ELSE [net EXCEPT !.mem = With(@, u, {})]
  /\ Hears(Joined(chan, u, now))
  /\ UNCHANGED <<unbursted, linked, bursting, split, far, kicked, now>>

\* PART, QUIT, and KICK by a user: nobody kicks a service.
Leave(u) ==
  /\ u \in Users /\ On(u) /\ u \notin kicked
  /\ net' = Gone([net EXCEPT !.mem = Sans(@, {u})])
  /\ Hears(DelChannelUsers(chan, {u})) /\ Unbursts
  /\ UNCHANGED <<linked, bursting, split, far, kicked, now>>

\* MODE with +o, -o, +v, -v (cmd_mode, mod_chanmode_apply); from a server it
\* brings the timestamp.  None comes for a channel that is still unbursted: the
\* uplink's END_OF_BURST is next.
Flagged(mem, u, flag, add) ==
  IF u \in DOMAIN mem THEN [mem EXCEPT ![u] = IF add THEN @ \cup {flag} ELSE @ \ {flag}] ELSE mem
Mode(u, flag, add, server) ==
  /\ On(u) /\ (u = X => ~split) /\ ~Waits
  /\ net' = [net EXCEPT !.mem = Flagged(@, u, flag, add)]
  /\ Hears([chan EXCEPT !.mem = Flagged(@, u, flag, add), !.ts = IF server THEN net.ts ELSE @])
  /\ UNCHANGED <<unbursted, linked, bursting, split, far, kicked, now>>
Ban(b, add) ==
  /\ net # NULL /\ ~Waits
  /\ net' = [net EXCEPT !.bans = IF add THEN @ \cup {b} ELSE @ \ {b}]
  /\ Hears([chan EXCEPT !.bans = IF add THEN @ \cup {b} ELSE @ \ {b}])
  /\ UNCHANGED <<unbursted, linked, bursting, split, far, kicked, now>>

\* MODE +z and -z: the parser locks a channel that loses it until the line has
\* been handled, when nothing may keep it any more.
Registered(add) ==
  /\ net # NULL /\ net.keep # add /\ ~Waits
  /\ net' = Gone([net EXCEPT !.keep = add])
  /\ Hears(Emptied([chan EXCEPT !.keep = add])) /\ Unbursts
  /\ UNCHANGED <<linked, bursting, split, far, kicked, now>>

\* CLEARMODE ov and b.
Clearmode ==
  /\ net # NULL /\ ~Waits
  /\ net' = [net EXCEPT !.mem = [m \in DOMAIN @ |-> {}], !.bans = {}]
  /\ Hears([chan EXCEPT !.mem = [m \in DOMAIN @ |-> {}], !.bans = {}])
  /\ UNCHANGED <<unbursted, linked, bursting, split, far, kicked, now>>

\* SQUIT of the leaf: DelServer takes its users from the channel.  The leaf
\* keeps what is left of the channel there.
Netsplit ==
  /\ ~split /\ split' = TRUE
  /\ far' = IF net = NULL THEN NULL ELSE Gone([net EXCEPT !.mem = Sans(@, Members \ Leaf)])
  /\ net' = IF net = NULL THEN NULL ELSE Gone([net EXCEPT !.mem = Sans(@, Leaf)])
  /\ Hears(DelChannelUsers(chan, Leaf)) /\ Unbursts /\ kicked' = kicked \ Leaf
  /\ UNCHANGED <<linked, bursting, now>>
FarJoin(u) ==
  /\ split /\ u \in Leaf
  /\ far' = IF far = NULL THEN [ts |-> now, mem |-> With(None, u, {"o"}), keep |-> FALSE, bans |-> {}]
            ELSE IF u \in DOMAIN far.mem THEN Gone([far EXCEPT !.mem = Sans(@, {u})])
            ELSE [far EXCEPT !.mem = With(@, u, {})]
  /\ UNCHANGED <<chan, unbursted, linked, bursting, split, net, kicked, now>>

\* Services' own op is restored by a MODE of theirs, with the modes of before.
Reopped(n) ==
  IF linked /\ chan # NULL /\ Reops(chan)
    THEN [n EXCEPT !.mem = With(@, X, @[X] \cup {"o"}), !.keep = @ \/ chan.keep] ELSE n

\* The split ends: services get the leaf's channel as a BURST.
Netjoin ==
  /\ split /\ split' = FALSE /\ far' = NULL /\ ~Waits
  /\ far # NULL /\ Recreated => "RECREATED" \in Enabled
  /\ far # NULL /\ chan # NULL /\ linked /\ chan.ts > far.ts =>
       \/ "AGED" \in Enabled
       \/ \A m \in DOMAIN chan.mem : chan.mem[m] \subseteq IF m = X THEN {"o"} ELSE {}
  /\ net' = IF far # NULL /\ net # NULL /\ net.ts > far.ts THEN Reopped(Meet(net, far))
            ELSE Meet(net, far)
  /\ Hears(IF far = NULL THEN chan ELSE BurstIn(chan, far))
  /\ UNCHANGED <<unbursted, linked, bursting, kicked, now>>

-----------------------------------------------------------------------------
(* The link, and what services do.                                         *)

\* SERVER, send_burst and the uplink's BURST, for which a channel we have takes
\* the network's age and is sent first.
LinkUp ==
  /\ ~linked /\ linked' = TRUE /\ bursting' = TRUE /\ now < MaxTime /\ now' = now + 1
  /\ IF chan # NULL /\ net # NULL
       THEN LET c == [chan EXCEPT !.ts = net.ts]
            IN chan' = BurstIn(c, net) /\ net' = Meet(net, OnNet(c)) /\ unbursted' = FALSE
       ELSE /\ chan' = IF net # NULL THEN BurstIn(chan, net) ELSE chan
            /\ unbursted' = (chan # NULL) /\ UNCHANGED net
  /\ UNCHANGED <<split, far, kicked>>

\* irc_burst of a channel that the uplink has not: nothing, if nothing holds it.
BurstOut(n, c) == Gone(Meet(n, OnNet(c)))

\* END_OF_BURST: what is still unbursted is sent.
Eob ==
  /\ linked /\ bursting /\ bursting' = FALSE /\ unbursted' = FALSE
  /\ net' = IF unbursted THEN BurstOut(net, chan) ELSE net
  /\ UNCHANGED <<chan, linked, split, far, kicked, now>>

LinkLost ==
  /\ linked /\ linked' = FALSE /\ bursting' = FALSE /\ kicked' = {}
  /\ chan' = DelChannelUsers(chan, Users) /\ Unbursts
  /\ net' = IF net = NULL THEN NULL ELSE Gone([net EXCEPT !.mem = Sans(@, {X})])
  /\ UNCHANGED <<split, far, now>>

\* AddChannel and AddChannelUser for a service: JOIN, or CREATE of a channel
\* nobody has.
ServiceJoins ==
  /\ chan # NULL => X \notin DOMAIN chan.mem
  /\ linked /\ chan # NULL => DOMAIN chan.mem # {}
  /\ linked /\ chan = NULL => net = NULL
  /\ chan' = Joined(chan, X, now)
  /\ net' = IF ~linked THEN net
            ELSE IF net = NULL THEN OnNet(chan') ELSE [net EXCEPT !.mem = With(@, X, {})]
  /\ UNCHANGED <<unbursted, linked, bursting, split, far, kicked, now>>
ServiceParts ==
  /\ chan # NULL /\ X \in DOMAIN chan.mem
  /\ chan' = DelChannelUsers(chan, {X}) /\ Unbursts
  /\ net' = IF linked /\ net # NULL THEN Gone([net EXCEPT !.mem = Sans(@, {X})]) ELSE net
  /\ UNCHANGED <<linked, bursting, split, far, kicked, now>>

\* mod_chanmode_announce.
ServiceModes(u, flag, add) ==
  /\ chan # NULL /\ u \in DOMAIN chan.mem /\ u \notin kicked /\ ~Waits
  /\ chan' = [chan EXCEPT !.mem = Flagged(@, u, flag, add)]
  /\ net' = IF linked THEN [net EXCEPT !.mem = Flagged(@, u, flag, add)] ELSE net
  /\ UNCHANGED <<unbursted, linked, bursting, split, far, kicked, now>>

\* KickChannelUser waits for the PART of the victim's server.
KickChannelUser(u) ==
  /\ linked /\ ~Waits /\ chan # NULL /\ u \in DOMAIN chan.mem \ {X}
  /\ kicked' = kicked \cup {u}
  /\ UNCHANGED <<chan, unbursted, linked, bursting, split, net, far, now>>
KickConfirmed(u) ==
  /\ u \in kicked /\ kicked' = kicked \ {u}
  /\ net' = IF net = NULL THEN NULL ELSE Gone([net EXCEPT !.mem = Sans(@, {u})])
  /\ Hears(DelChannelUsers(chan, {u})) /\ Unbursts
  /\ UNCHANGED <<linked, bursting, split, far, now>>

\* LockChannel with +z, as for a registration, and -z with UnlockChannel.
LockChannel ==
  /\ chan # NULL /\ chan.locks = 0 /\ ~Waits
  /\ \E z \in BOOLEAN :
       /\ chan' = [chan EXCEPT !.locks = 1, !.keep = @ \/ z]
       /\ net' = IF linked THEN [net EXCEPT !.keep = @ \/ z] ELSE net
  /\ UNCHANGED <<unbursted, linked, bursting, split, far, kicked, now>>
UnlockChannel ==
  /\ chan # NULL /\ chan.locks = 1 /\ ~Waits
  /\ chan' = Emptied([chan EXCEPT !.locks = 0, !.keep = FALSE]) /\ Unbursts
  /\ net' = IF linked /\ net # NULL THEN Gone([net EXCEPT !.keep = FALSE]) ELSE net
  /\ UNCHANGED <<linked, bursting, split, far, kicked, now>>

Tick == /\ now < MaxTime /\ now' = now + 1
        /\ UNCHANGED <<chan, unbursted, linked, bursting, split, net, far, kicked>>

Next ==
  \/ \E u \in Users : Join(u) \/ Leave(u) \/ FarJoin(u) \/ KickChannelUser(u) \/ KickConfirmed(u)
  \/ \E u \in Members, f \in Flags, add \in BOOLEAN :
       ServiceModes(u, f, add) \/ \E server \in BOOLEAN : Mode(u, f, add, server)
  \/ \E b \in Bans, add \in BOOLEAN : Ban(b, add)
  \/ \E add \in BOOLEAN : Registered(add)
  \/ Clearmode \/ Netsplit \/ Netjoin \/ LinkUp \/ Eob \/ LinkLost
  \/ ServiceJoins \/ ServiceParts \/ LockChannel \/ UnlockChannel \/ Tick

Spec == Init /\ [][Next]_vars

-----------------------------------------------------------------------------
\* Linked, services and the network know the same channel: who is on it, with
\* what modes, how old it is, its bans.  A lock alone keeps it for services.
SameChannel ==
  linked /\ ~bursting =>
    IF net # NULL THEN chan # NULL /\ OnNet(chan) = net
    ELSE chan = NULL \/ (chan.locks > 0 /\ DOMAIN chan.mem = {})
=============================================================================
