------------------------------- MODULE ChanModes ------------------------------
(***************************************************************************)
(* Op, voice, modes and topic of a registered channel: what users send,    *)
(* what ChanServ answers in the same breath, and its commands.  Modes are  *)
(* one mode that may be locked; levels are those of the users and of the   *)
(* settings that are compared with them.  Source: src/chanserv.c.          *)
(***************************************************************************)
EXTENDS Naturals

CONSTANTS
  Users,
  Owner,     \* UL_OWNER; Owner + 1 is nobody's level
  Standings, \* who has which access, for each behaviour
  Options,   \* the settings the channel may have
  Topics,
  NULL

VARIABLES
  access,   \* of each user; 0 for those suspended from the channel too
  member,   \* the users on the channel, with op and voice
  mode,     \* the channel's mode
  lock,     \* cData->modes
  opts,     \* lvlOpts and chOpts
  topic, default_topic, topic_mask,
  suspended,
  by        \* whose message or command the last step was, or NULL

vars == <<access, member, mode, lock, opts, topic, default_topic, topic_mask, suspended, by>>
ircs == <<member, mode, topic>>
sets == <<lock, opts, default_topic, topic_mask, suspended>>

TypeOK ==
  /\ access \in Standings /\ DOMAIN member \subseteq Users
  /\ \A u \in DOMAIN member : member[u] \subseteq {"o", "v"}
  /\ mode \in BOOLEAN /\ lock \in {"on", "off", NULL} /\ opts \in Options
  /\ topic \in Topics /\ default_topic \in Topics \cup {NULL} /\ topic_mask \subseteq Topics

Init ==
  /\ access \in Standings /\ member = [u \in {} |-> {}] /\ mode = FALSE /\ lock = NULL
  /\ opts \in Options /\ topic \in Topics /\ default_topic = NULL
  /\ topic_mask = Topics /\ suspended = FALSE /\ by = NULL

-----------------------------------------------------------------------------
\* check_user_level; `exempt' is exempt_owner.
MayExempt(u, o, exempt) ==
  opts[o] = 0 \/ (access[u] > 0 /\ (opts[o] <= access[u] \/ (exempt /\ access[u] = Owner)))
May(u, o) == MayExempt(u, o, FALSE)

\* protect_user.
Protected(v, a) ==
  /\ opts.protect # "n" /\ v # a /\ (access[v] > 0 \/ opts.protect = "a")
  /\ \/ access[a] = 0
     \/ access[v] > 0 /\ IF opts.protect = "l" THEN access[v] > access[a] ELSE access[v] >= access[a]

\* mode_lock_violated.
LockViolated(m) == lock = IF m THEN "off" ELSE "on"
\* Announcing the lock.
Locked(m) == IF lock = NULL THEN m ELSE lock = "on"

With(f, u, x) == [y \in DOMAIN f \cup {u} |-> IF y = u THEN x ELSE f[y]]
Sans(f, u)    == [y \in DOMAIN f \ {u} |-> f[y]]

\* validate_op.
MayBeOpped(a, v) == (access[v] > 0 /\ access[v] >= opts.give_ops) \/ May(a, "enf_ops")

\* What somebody's access gives them.
Due(u) == IF opts.give_ops = 0 \/ (access[u] > 0 /\ access[u] >= opts.give_ops) THEN {"o"}
          ELSE IF opts.give_voice = 0 \/ (access[u] > 0 /\ access[u] >= opts.give_voice) THEN {"v"}
          ELSE {}

-----------------------------------------------------------------------------
(* Messages of users, with the answer of handle_mode, handle_kick,         *)
(* handle_topic and handle_join.                                           *)

\* A user ops or deops somebody.
DeoppedBy(a, v) ==
  LET m == [member EXCEPT ![v] = @ \ {"o"}]
  IN IF ~suspended /\ Protected(v, a) THEN [[m EXCEPT ![a] = @ \ {"o"}] EXCEPT ![v] = @ \cup {"o"}]
     ELSE m
UserDeops(a, v) ==
  /\ {a, v} \subseteq DOMAIN member /\ "o" \in member[a] /\ "o" \in member[v]
  /\ member' = DeoppedBy(a, v) /\ UNCHANGED <<mode, topic, sets, access>>
UserOps(a, v) ==
  /\ {a, v} \subseteq DOMAIN member /\ "o" \in member[a] /\ "o" \notin member[v]
  /\ suspended \/ MayBeOpped(a, v)
  /\ member' = [member EXCEPT ![v] = @ \cup {"o"}] /\ UNCHANGED <<mode, topic, sets, access>>

\* Mutant: who may set modes is asked, what they set is not undone.
Reset_Not(a, m) == m

Reset(a, m) == IF ~suspended /\ ~May(a, "enf_modes") /\ LockViolated(m) THEN Locked(m) ELSE m

UserModes(a) ==
  /\ a \in DOMAIN member /\ "o" \in member[a]
  /\ mode' = Reset(a, ~mode)
  /\ UNCHANGED <<member, topic, sets, access>>

UserKicks(a, v) ==
  /\ a # v /\ {a, v} \subseteq DOMAIN member /\ "o" \in member[a]
  /\ LET m == Sans(member, v)
     IN member' = IF ~suspended /\ Protected(v, a) THEN Sans(m, a) ELSE m
  /\ UNCHANGED <<mode, topic, sets, access>>

\* bad_topic.
BadTopic(u, t) ==
  /\ ~May(u, "enf_topic")
  /\ IF topic_mask # Topics THEN t \notin topic_mask ELSE default_topic \notin {NULL, t}

\* handle_topic: the old topic if it fits the mask, or else the default.
UserTopic(a, t) ==
  /\ a \in DOMAIN member /\ "o" \in member[a] /\ t # topic
  /\ LET bad == ~suspended /\ BadTopic(a, t)
     IN /\ topic' = IF ~bad THEN t
                    ELSE IF topic_mask # Topics /\ topic \in topic_mask THEN topic
                    ELSE IF default_topic # NULL THEN default_topic ELSE t
        /\ default_topic' = IF ~suspended /\ ~bad /\ May(a, "topic_snarf") THEN t ELSE default_topic
  /\ UNCHANGED <<member, mode, lock, opts, topic_mask, suspended, access>>

\* handle_join, for somebody no ban turns away; users may have turned automatic
\* op off.  The first on an empty channel is opped by their server.
Join(u, auto) ==
  /\ u \notin DOMAIN member
  /\ member' = With(member, u, (IF ~suspended /\ (auto \/ opts.give_ops = 0) THEN Due(u) ELSE {})
                               \cup (IF DOMAIN member = {} THEN {"o"} ELSE {}))
  /\ UNCHANGED <<mode, topic, sets, access>>
Leave(u) == /\ u \in DOMAIN member /\ member' = Sans(member, u)
            /\ UNCHANGED <<mode, topic, sets, access>>

-----------------------------------------------------------------------------
(* Commands.  They are refused while the channel is suspended.             *)

\* UP, UPALL; DOWN, DOWNALL.
Up(u) ==
  /\ ~suspended /\ u \in DOMAIN member /\ access[u] > 0 /\ Due(u) # {}
  /\ member' = [member EXCEPT ![u] = @ \cup Due(u)] /\ UNCHANGED <<mode, topic, sets, access>>
Down(u) ==
  /\ ~suspended /\ u \in DOMAIN member
  /\ member' = [member EXCEPT ![u] = {}] /\ UNCHANGED <<mode, topic, sets, access>>

\* OP, DEOP, VOICE and DEVOICE through modify_users.
ModifyUsers(a, v, how) ==
  /\ ~suspended /\ access[a] > 0 /\ v \in DOMAIN member
  /\ how = "op" => MayBeOpped(a, v)
  /\ how = "deop" => ~Protected(v, a)
  /\ member' = [member EXCEPT ![v] = CASE how = "op" -> @ \cup {"o"} [] how = "deop" -> @ \ {"o"}
                                       [] how = "voice" -> @ \cup {"v"} [] OTHER -> @ \ {"v"}]
  /\ UNCHANGED <<mode, topic, sets, access>>

\* RESYNC: everybody gets what their access gives, and loses the rest; who is
\* opped keeps their voice.
Resync(a) ==
  /\ ~suspended /\ access[a] > 0
  /\ member' = [u \in DOMAIN member |-> IF Due(u) = {"o"} THEN member[u] \cup {"o"} ELSE Due(u)]
  /\ UNCHANGED <<mode, topic, sets, access>>

\* MODE without arguments sets the default modes.
ModeCmd(a, m) ==
  /\ ~suspended /\ access[a] > 0
  /\ May(a, "enf_modes") \/ ~LockViolated(m)
  /\ mode' \in {m, Locked(mode)}
  /\ UNCHANGED <<member, topic, sets, access>>

\* TOPIC: a topic that does not fit is put into the mask, if there is one.
TopicCmd(a, t) ==
  /\ ~suspended /\ access[a] > 0
  /\ \/ BadTopic(a, t) /\ topic_mask # Topics /\ topic' \in topic_mask
     \/ ~BadTopic(a, t) /\ topic' = t
     \/ default_topic # NULL /\ topic' = default_topic
  /\ default_topic' = IF May(a, "topic_snarf") THEN topic' ELSE default_topic
  /\ UNCHANGED <<member, mode, lock, opts, topic_mask, suspended, access>>

\* SET MODES, DEFAULTTOPIC, TOPICMASK.
SetModes(a, l) ==
  /\ ~suspended /\ access[a] > 0 /\ May(a, "setters") /\ May(a, "enf_modes")
  /\ lock' = l /\ mode' = IF l = NULL THEN mode ELSE l = "on"
  /\ UNCHANGED <<member, topic, opts, default_topic, topic_mask, suspended, access>>
SetDefaultTopic(a, t) ==
  /\ ~suspended /\ access[a] > 0 /\ May(a, "setters") /\ May(a, "enf_topic")
  /\ default_topic' = t /\ (t # NULL => topic' = t) /\ (t = NULL => topic' \in Topics)
  /\ UNCHANGED <<member, mode, lock, opts, topic_mask, suspended, access>>
SetTopicMask(a, ts) ==
  /\ ~suspended /\ access[a] > 0 /\ May(a, "setters") /\ May(a, "enf_topic")
  /\ topic_mask' = ts /\ UNCHANGED <<ircs, lock, opts, default_topic, suspended, access>>

\* channel_level_option.
Settable(a, o, l) == MayExempt(a, o, TRUE) /\ (access[a] = Owner \/ l <= access[a])
SetLevel(a, o, l) ==
  /\ ~suspended /\ access[a] > 0 /\ May(a, "setters") /\ Settable(a, o, l)
  /\ CASE o = "give_voice" -> l <= opts.give_ops
       [] o = "give_ops" -> l >= opts.give_voice
       [] o = "setters" -> l <= access[a]
       [] OTHER -> TRUE
  /\ opts' = [opts EXCEPT ![o] = l] /\ opts' \in Options
  /\ UNCHANGED <<ircs, lock, default_topic, topic_mask, suspended, access>>
SetProtect(a, p) ==
  /\ ~suspended /\ access[a] > 0 /\ May(a, "setters")
  /\ opts' = [opts EXCEPT !.protect = p] /\ opts' \in Options
  /\ UNCHANGED <<ircs, lock, default_topic, topic_mask, suspended, access>>

\* The channel is suspended, or not any longer.
Csuspend == suspended' = ~suspended /\ UNCHANGED <<ircs, lock, opts, default_topic, topic_mask, access>>

\* chanserv_refresh_topics.
RefreshTopics == /\ ~suspended /\ default_topic # NULL /\ topic' = default_topic
                 /\ UNCHANGED <<member, mode, sets, access>>

\* handle_new_channel, when the channel is there again.
NewChannel == /\ DOMAIN member = {} /\ ~suspended /\ mode' = Locked(FALSE)
              /\ UNCHANGED <<member, topic, sets, access>>

LevelOptions == {"give_ops", "give_voice", "enf_ops", "enf_modes", "enf_topic", "topic_snarf", "setters"}

Messages(a) ==
  \/ \E v \in Users : UserDeops(a, v) \/ UserOps(a, v) \/ UserKicks(a, v)
  \/ UserModes(a) \/ \E t \in Topics : UserTopic(a, t)
Commands(a) ==
  \/ Up(a) \/ Down(a) \/ Resync(a)
  \/ \E v \in Users, how \in {"op", "deop", "voice", "devoice"} : ModifyUsers(a, v, how)
  \/ \E m \in BOOLEAN : ModeCmd(a, m)
  \/ \E t \in Topics : TopicCmd(a, t)
  \/ \E l \in {"on", "off", NULL} : SetModes(a, l)
  \/ \E t \in Topics \cup {NULL} : SetDefaultTopic(a, t)
  \/ \E ts \in SUBSET Topics : SetTopicMask(a, ts)
  \/ \E o \in LevelOptions, l \in 0..Owner + 1 : SetLevel(a, o, l)
  \/ \E p \in {"a", "e", "l", "n"} : SetProtect(a, p)

Next ==
  \/ \E a \in Users : by' = a /\ (Messages(a) \/ Commands(a))
  \/ /\ by' = NULL
     /\ \/ \E u \in Users : Leave(u) \/ \E auto \in BOOLEAN : Join(u, auto)
        \/ Csuspend \/ RefreshTopics \/ NewChannel

Spec == Init /\ [][Next]_vars

-----------------------------------------------------------------------------
\* While the channel is not suspended, nobody without the level to set modes or
\* topic gets round the lock, the mask or the default topic, and a member whom
\* the channel protects is opped again, whatever is sent or commanded.  Nobody
\* sets a level to which they have no access, or past what they reach.
Guarded(a) ==
  /\ ~May(a, "enf_modes") /\ Locked(mode) = mode => lock' # lock \/ Locked(mode') = mode'
  /\ ~May(a, "enf_topic") /\ default_topic # NULL /\ topic \in topic_mask =>
       topic' \in topic_mask \cup {default_topic, default_topic'} 
  /\ \A v \in DOMAIN member \cap DOMAIN member' :
       "o" \in member[v] /\ Protected(v, a) => "o" \in member'[v] \/ (Resync(a) /\ Due(v) # {"o"})
  /\ \A o \in LevelOptions : opts'[o] # opts[o] =>
       access[a] = Owner \/ (opts[o] <= access[a] /\ opts'[o] <= access[a])
StepGuarded == /\ opts'.give_voice <= opts'.give_ops
               /\ by' # NULL /\ ~suspended => Guarded(by')
=============================================================================
