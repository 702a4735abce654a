------------------------------- MODULE OpChannels ------------------------------
(***************************************************************************)
(* OpServ's bad words: channels whose name has one are shut down, by a     *)
(* join or when the word is added; OpServ stays a while to keep them shut. *)
(* It also moderates channels that are flooded with joins.  A name or word *)
(* is a set of letters; a word is in a name if its letters are.  Those who *)
(* are kicked are on the channel until the network says they are gone.     *)
(* Channels whose name does not begin with '#' are not here: their users   *)
(* are killed.  Source: src/opserv.c, with DelChannelUser (src/hash.c).    *)
(***************************************************************************)
EXTENDS Naturals, FiniteSets

CONSTANTS
  Users, Channels, Words,
  Kept,       \* the channels ChanServ sits in
  Threshold,  \* opserv_conf.join_flood_moderate_threshold
  MaxTimers,
  NULL

VARIABLES
  words,    \* opserv_bad_words
  exempt,   \* opserv_exempt_channels
  chans     \* the channels there are

vars == <<words, exempt, chans>>

\* struct chanNode.  `spared': it was exempt once since it is there.
ChanNode ==
  [ members : SUBSET Users, kicked : SUBSET Users, bad_channel : BOOLEAN, spared : BOOLEAN,
    opserv : BOOLEAN, timers : 0..MaxTimers, join_flooded : BOOLEAN ]
TypeOK == /\ words \subseteq Words /\ exempt \subseteq Channels
          /\ \A c \in Channels : chans[c] \in ChanNode \cup {NULL}

Init == words = {} /\ exempt = {} /\ chans = [c \in Channels |-> NULL]

-----------------------------------------------------------------------------
\* opserv_bad_channel, but for G-lined channels.
BadName(c, ws, ex) == c \notin ex /\ \E w \in ws : w \subseteq c

\* opserv_shutdown_channel.
Shut(r) == [r EXCEPT !.opserv = TRUE, !.kicked = r.members, !.timers = @ + 1]

\* A channel that nobody is on goes, and its timers with it.
Left(c, r) == IF r.members = {} /\ ~r.opserv /\ c \notin Kept THEN NULL ELSE r

\* AddChannel, and opserv_channel_check.
Found(c) == IF chans[c] # NULL THEN chans[c]
            ELSE [members |-> {}, kicked |-> {}, bad_channel |-> BadName(c, words, exempt),
                  spared |-> c \in exempt, opserv |-> FALSE, timers |-> 0, join_flooded |-> FALSE]

\* The joins so far conform to the channel's policer, or are too many.
Policed(r, conforms) ==
  IF conforms THEN [r EXCEPT !.join_flooded = FALSE]
  ELSE [r EXCEPT !.join_flooded = TRUE,
                 !.opserv = @ \/ (~r.join_flooded /\ Cardinality(r.members) > Threshold)]

\* opserv_join_check.
Join(u, c, burst, conforms) ==
  LET r == [Found(c) EXCEPT !.members = @ \cup {u}]
  IN /\ u \notin Found(c).members /\ Found(c).timers < MaxTimers
     /\ chans' = [chans EXCEPT ![c] =
          IF r.bad_channel THEN IF r.opserv THEN [r EXCEPT !.kicked = @ \cup {u}] ELSE Shut(r)
          ELSE IF burst THEN r ELSE Policed(r, conforms)]
     /\ UNCHANGED <<words, exempt>>

\* Somebody leaves, or the kick comes back.
Sans(r, u) == [r EXCEPT !.members = @ \ {u}, !.kicked = @ \ {u}]
Leave(u, c) ==
  /\ chans[c] # NULL /\ u \in chans[c].members
  /\ chans' = [chans EXCEPT ![c] = Left(c, Sans(@, u))]
  /\ UNCHANGED <<words, exempt>>

\* opserv_part_channel.
Fired(r) == [r EXCEPT !.opserv = FALSE, !.timers = @ - 1]
PartChannel(c) ==
  /\ chans[c] # NULL /\ chans[c].timers > 0
  /\ chans' = [chans EXCEPT ![c] = IF @.opserv THEN Left(c, Fired(@)) ELSE Fired(@)]
  /\ UNCHANGED <<words, exempt>>

-----------------------------------------------------------------------------
\* ADDBAD.  The word replaces those it is in; channels that were shut down are
\* shut down again.
AddBad(w) ==
  /\ ~\E x \in words : x \subseteq w
  /\ words' = {x \in words : ~(w \subseteq x)} \cup {w}
  /\ \A c \in Channels : chans[c] # NULL => chans[c].timers < MaxTimers
  /\ chans' = [c \in Channels |->
       IF chans[c] # NULL /\ BadName(c, words', exempt) THEN [Shut(chans[c]) EXCEPT !.bad_channel = TRUE]
       ELSE chans[c]]
  /\ UNCHANGED exempt

\* OpServ leaves for good; a channel it leaves empty stays (DelChannelUser with
\* `deleting').
Reopened(r) == [r EXCEPT !.opserv = FALSE, !.timers = 0, !.bad_channel = FALSE]

StillBad(c, ws) == BadName(c, ws, exempt)

\* DELBAD.
DelBad(w) ==
  /\ w \in words /\ words' = words \ {w}
  /\ chans' = [c \in Channels |-> IF chans[c] # NULL /\ w \subseteq c /\ ~StillBad(c, words')
                                    THEN Reopened(chans[c]) ELSE chans[c]]
  /\ UNCHANGED exempt

\* ADDEXEMPT, DELEXEMPT.
AddExempt(c) ==
  /\ exempt' = exempt \cup {c}
  /\ chans' = [chans EXCEPT ![c] =
       IF @ = NULL THEN NULL
       ELSE [IF chans[c].bad_channel THEN Reopened(chans[c]) ELSE chans[c] EXCEPT !.spared = TRUE]]
  /\ UNCHANGED words
DelExempt(c) == c \in exempt /\ exempt' = exempt \ {c} /\ UNCHANGED <<words, chans>>

\* Words are read one by one; channels come back with the burst.
Restart == chans' = [c \in Channels |-> NULL] /\ UNCHANGED <<words, exempt>>

Next ==
  \/ \E c \in Channels :
       \/ \E u \in Users : Leave(u, c) \/ \E burst, conforms \in BOOLEAN : Join(u, c, burst, conforms)
       \/ PartChannel(c) \/ AddExempt(c) \/ DelExempt(c)
  \/ \E w \in Words : AddBad(w) \/ DelBad(w)
  \/ Restart

Spec == Init /\ [][Next]_vars

-----------------------------------------------------------------------------
\* A channel with a bad word in its name is known as such unless it was exempt,
\* no other is; everybody on it has been kicked, and OpServ, if it is there, has
\* a timer to leave.  No bad word is in another.
BadChannelsShut ==
  /\ TypeOK
  /\ \A c \in Channels : chans[c] # NULL =>
       /\ chans[c].bad_channel => /\ BadName(c, words, exempt) /\ chans[c].members = chans[c].kicked
                                  /\ chans[c].opserv => chans[c].timers > 0
       /\ BadName(c, words, exempt) => chans[c].bad_channel \/ chans[c].spared
  /\ \A w, x \in words : w \subseteq x => w = x
=============================================================================
