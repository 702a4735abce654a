------------------------------- MODULE OpChanCmds ------------------------------
(***************************************************************************)
(* OpServ's commands about a channel.  A user elsewhere who is kicked is   *)
(* on the channel until the kick comes back; a clone is off at once, and   *)
(* the last one to go takes the channel along.  Sources: src/opserv.c,     *)
(* with src/hash.c, src/proto-common.c and irc_kick of src/proto-p10.c.    *)
(***************************************************************************)
EXTENDS Integers, Sequences, SequencesExt, FiniteSetsExt

CONSTANTS
  Users,    \* elsewhere
  Clones,   \* local, but no services
  OpServ,
  Level,    \* opserv_level of the account of each, 0 for none
  Callers,  \* the levels of those who give commands
  Modes,    \* of channels
  NULL

VARIABLES
  list,     \* channel->members, or NULL when there is no channel
  flags,    \* of each: ops and voices
  kicked,   \* those whose kick is on its way
  modes, bans

vars == <<list, flags, kicked, modes, bans>>

All  == Users \cup Clones \cup {OpServ}
Everyone == "*!*@*"
Ovs  == {"op", "voice"}
Init == /\ list = NULL /\ flags = [u \in All |-> {}] /\ kicked = {} /\ modes = {} /\ bans = {}

There == list # NULL
On(u) == There /\ Contains(list, u)
Here  == IF There THEN Range(list) ELSE {}

\* DelChannelUser, DelChannel: us are off; kicks of rs are on their way.
Left(us, rs, bs) ==
  LET stay == SelectSeq(list, LAMBDA u : u \notin us)
      gone == stay = <<>> /\ "registered" \notin modes
  IN /\ list' = (IF gone THEN NULL ELSE stay)
     /\ flags' = [u \in All |-> IF u \in us THEN {} ELSE flags[u]]
     /\ kicked' = (IF gone THEN {} ELSE {k \in kicked : k \notin us} \cup rs)
     /\ modes' = (IF gone THEN {} ELSE modes) /\ bans' = IF gone THEN {} ELSE bs

-----------------------------------------------------------------------------
\* The network.
Join(u) ==
  /\ ~On(u) /\ u \in Users \cup Clones
  /\ list' = IF There THEN Append(list, u) ELSE <<u>>
  /\ flags' = [flags EXCEPT ![u] = IF There THEN {} ELSE {"op"}]
  /\ UNCHANGED <<kicked, modes, bans>>
Leave(u) == On(u) /\ u # OpServ /\ Left({u}, {}, bans)

-----------------------------------------------------------------------------
\* Modes: who gets or loses what among us.
Given(f, us) == flags' = [u \in All |-> IF u \in us THEN flags[u] \cup {f} ELSE flags[u]]
Taken(f, us) == flags' = [u \in All |-> IF u \in us THEN flags[u] \ {f} ELSE flags[u]]
OnlyFlags    == There /\ UNCHANGED <<list, kicked, modes, bans>>

\* OP, OPALL; VOICEALL spares ops.
Op(us)     == us \subseteq Here /\ OnlyFlags /\ Given("op", us)
OpAll      == OnlyFlags /\ Given("op", Here)
VoiceAll   == OnlyFlags /\ Given("voice", {u \in Here : "op" \notin flags[u]})
DevoiceAll == OnlyFlags /\ Taken("voice", Here)

\* DEOP, DEOPALL: not services.
Deop(us) == us \subseteq Here /\ OnlyFlags /\ Taken("op", us \ {OpServ})
DeopAll  == OnlyFlags /\ Taken("op", Here \ {OpServ})

\* MODE, of a member or of the channel.
ModeMember(u, f, add) ==
  On(u) /\ OnlyFlags /\ IF add THEN Given(f, {u}) ELSE Taken(f, {u})

\* Without MODE_REGISTERED an empty channel goes, after the line (parse_cleanup).
Mode(set, clear) ==
  LET gone == list = <<>> /\ "registered" \in clear
  IN /\ There /\ UNCHANGED <<flags, kicked>>
     /\ list' = (IF gone THEN NULL ELSE list) /\ bans' = (IF gone THEN {} ELSE bans)
     /\ modes' = IF gone THEN {} ELSE (modes \ clear) \cup set

\* CLEARMODES.
ClearModes == /\ There /\ modes # {} /\ modes' = modes \cap {"registered"}
              /\ UNCHANGED <<list, flags, kicked, bans>>

\* BAN, UNBAN, CLEARBANS.  A ban replaces those that it covers.
Banned(m) == (IF m = Everyone THEN {} ELSE bans) \cup {m}
Ban(m)    == There /\ bans' = Banned(m) /\ UNCHANGED <<list, flags, kicked, modes>>
Unban(ms) == There /\ bans' = bans \ ms /\ UNCHANGED <<list, flags, kicked, modes>>

-----------------------------------------------------------------------------
\* KICK, KICKBAN, with KickChannelUser: not services.  FORCEKICK is for those who
\* are elsewhere.
Kick(u, cmd) ==
  /\ On(u) /\ u # OpServ
  /\ IF u \in Clones THEN Left({u}, {}, IF cmd = "kickban" THEN Banned(u) ELSE bans)
     ELSE Left({}, {u}, IF cmd = "kickban" THEN Banned(u) ELSE bans)
ForceKick(u) == u \in Users /\ Kick(u, "kick")

Spared(u, l) == u = OpServ \/ Level[u] >= l

Off(ms, n, l) == IF ~Spared(ms[n], l) /\ ms[n] \in Clones THEN RemoveAt(ms, n) ELSE ms

\* KICKALL and KICKBANALL walk the list from its end while it shrinks: those they
\* come by.
RECURSIVE Walk(_, _, _)
Walk(ms, n, l) == IF n = 0 THEN {} ELSE {ms[n]} \cup Walk(Off(ms, n, l), n - 1, l)
Walked(ms, l) == Walk(ms, Len(ms), l)

\* OpServ joins for as long as it takes.
KickAll(l, ban) ==
  LET inchan == On(OpServ)
      struck == {u \in Walked(IF inchan THEN list ELSE Append(list, OpServ), l) : ~Spared(u, l)}
  IN There /\ Left((struck \cap Clones) \cup (IF inchan THEN {} ELSE {OpServ}), struck \cap Users,
                   IF ban THEN {Everyone} ELSE bans)

\* JOIN, PART.
OpServJoins ==
  /\ ~On(OpServ) /\ list' = (IF There THEN Append(list, OpServ) ELSE <<OpServ>>)
  /\ flags' = [flags EXCEPT ![OpServ] = {"op"}]
  /\ UNCHANGED <<kicked, modes, bans>>
OpServParts == On(OpServ) /\ Left({OpServ}, {}, bans)

Next ==
  \/ OpAll \/ VoiceAll \/ DevoiceAll \/ DeopAll \/ ClearModes \/ OpServJoins \/ OpServParts \/ Unban(bans)
  \/ \E u \in All :
       \/ Join(u) \/ Leave(u) \/ Op({u}) \/ Deop({u}) \/ ForceKick(u)
       \/ \E cmd \in {"kick", "kickban"} : Kick(u, cmd)
       \/ \E f \in Ovs, add \in BOOLEAN : ModeMember(u, f, add)
  \/ \E u \in Users : Ban(u) \/ Unban({u})
  \/ \E m \in Modes : Mode({m}, {}) \/ Mode({}, {m})
  \/ \E l \in Callers, ban \in BOOLEAN : KickAll(l, ban)

Spec == Init /\ [][Next]_vars

-----------------------------------------------------------------------------
\* A channel is as long as somebody is on it or it is registered; nobody is on it
\* twice; only those who are on it have modes, and kicks on their way.
ChannelExact ==
  /\ There => IsInjective(list) /\ (list # <<>> \/ "registered" \in modes)
  /\ \A u \in All : flags[u] # {} => On(u)
  /\ \A u \in kicked : On(u)

\* KICKALL and KICKBANALL leave nobody out and spare those of the caller's level and
\* above; OpServ is there afterwards just if it was.  No command but MODE costs
\* OpServ its ops.
Struck(l) == \A u \in Here :
  IF u = OpServ \/ Level[u] >= l THEN list' # NULL /\ Contains(list', u)
  ELSE list' = NULL \/ ~Contains(list', u) \/ u \in kicked'
StepFair ==
  /\ \A l \in Callers, ban \in BOOLEAN : KickAll(l, ban) =>
       Struck(l) /\ (list' # NULL /\ Contains(list', OpServ) <=> On(OpServ))
  /\ "op" \in flags[OpServ] /\ "op" \notin flags'[OpServ] /\ On(OpServ) /\ list' # NULL /\ Contains(list', OpServ)
       => ModeMember(OpServ, "op", FALSE)
  /\ "registered" \in modes \ modes' => Mode({}, {"registered"})
=============================================================================
