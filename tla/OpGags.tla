--------------------------------- MODULE OpGags --------------------------------
(***************************************************************************)
(* OpServ's gags, and the alerts about nicks that kill.  A look is a nick  *)
(* and a host; a mask is the set of the looks it matches.  (A mask with an *)
(* address for a host is another matter: users whose host is a name match  *)
(* it when they come, not when it is added or removed.)                    *)
(* Source: src/opserv.c.                                                   *)
(***************************************************************************)
EXTENDS Naturals

CONSTANTS
  Users, Nicks, Hosts,
  Masks,    \* sets of looks
  Alerts,   \* the sets of nicks that the alerts in force may be about
  MaxTime,
  NULL

VARIABLES
  look,    \* of each user, or NULL
  opers,
  gagged,  \* FLAGS_GAGGED
  gags,    \* gagList: the masks with their expiry (0: never)
  timers,  \* queued gag_expire: mask and time
  alerts,  \* opserv_nick_based_alerts that kill
  now

vars == <<look, opers, gagged, gags, timers, alerts, now>>

Looks  == [nick : Nicks, host : Hosts]
None   == [m \in {} |-> 0]
Init ==
  /\ look = [u \in Users |-> NULL] /\ opers = {} /\ gagged = {}
  /\ gags = None /\ timers = {} /\ alerts \in Alerts /\ now = 0

Online  == {u \in Users : look[u] # NULL}
Covered(l) == \E m \in DOMAIN gags : l \in m

\* gag_helper_func.
Gaggable(us) == us \ opers

\* opserv_new_user_check.
Connect(u, l, oper) ==
  /\ look[u] = NULL /\ (oper \/ l.nick \notin alerts)
  /\ look' = [look EXCEPT ![u] = l] /\ opers' = IF oper THEN opers \cup {u} ELSE opers
  /\ gagged' = IF Covered(l) /\ ~oper THEN gagged \cup {u} ELSE gagged
  /\ UNCHANGED <<gags, timers, alerts, now>>

Gone(u) == look' = [look EXCEPT ![u] = NULL] /\ opers' = opers \ {u} /\ gagged' = gagged \ {u}
Quit(u) == u \in Online /\ Gone(u) /\ UNCHANGED <<gags, timers, alerts, now>>

\* opserv_alert_check_nick, after the alerts: gagged "if appropriate (and only
\* if)".
Regagged(u, l) == IF Covered(l) /\ u \notin opers THEN gagged \cup {u} ELSE gagged \ {u}

NickChange(u, n) ==
  /\ u \in Online /\ n # look[u].nick
  /\ IF n \in alerts /\ u \notin opers THEN Gone(u)
     ELSE LET l == [look[u] EXCEPT !.nick = n]
          IN look' = [look EXCEPT ![u] = l] /\ gagged' = Regagged(u, l) /\ UNCHANGED opers
  /\ UNCHANGED <<gags, timers, alerts, now>>

\* A user opers, or no longer is one; the flag stays.
Oper(u) ==
  /\ u \in Online /\ opers' = IF u \in opers THEN opers \ {u} ELSE opers \cup {u}
  /\ UNCHANGED <<look, gagged, gags, timers, alerts, now>>

\* gag_create, for GAG, TRACE GAG and the database: redundant gags are refused.
Gag(m, e) ==
  /\ (e = 0 \/ e > now) /\ ~\E g \in DOMAIN gags : m \subseteq g
  /\ gags' = [x \in DOMAIN gags \cup {m} |-> IF x = m THEN e ELSE gags[x]]
  /\ timers' = IF e = 0 THEN timers ELSE timers \cup {[mask |-> m, at |-> e]}
  /\ gagged' = gagged \cup Gaggable({u \in Online : look[u] \in m})
  /\ UNCHANGED <<look, opers, alerts, now>>
TraceGag(u, e) == /\ u \in Online \ opers
                  /\ Gag({l \in Looks : l.host = look[u].host}, e)

\* gag_free ungags whomever the mask matches, also those whom another gag covers.
Freed(m) ==
  /\ gags' = [x \in DOMAIN gags \ {m} |-> gags[x]]
  /\ gagged' = gagged \ {u \in Online : look[u] \in m}
  /\ UNCHANGED <<look, opers, alerts, now>>
Ungag(m) == m \in DOMAIN gags /\ Freed(m) /\ timers' = timers \ {[mask |-> m, at |-> gags[m]]}
GagExpire(t) == t.at <= now /\ Freed(t.mask) /\ timers' = timers \ {t}

\* Gags that are over are read back as well, and go with their timer.
Restart ==
  /\ look' = [u \in Users |-> NULL] /\ opers' = {} /\ gagged' = {}
  /\ timers' = {[mask |-> m, at |-> gags[m]] : m \in {m \in DOMAIN gags : gags[m] # 0}}
  /\ UNCHANGED <<gags, alerts, now>>

Tick == /\ now < MaxTime /\ (\A t \in timers : t.at > now) /\ now' = now + 1
        /\ UNCHANGED <<look, opers, gagged, gags, timers, alerts>>

Next ==
  \/ \E u \in Users :
       \/ \E l \in Looks, oper \in BOOLEAN : Connect(u, l, oper)
       \/ Quit(u) \/ Oper(u) \/ \E n \in Nicks : NickChange(u, n)
       \/ \E e \in 0..MaxTime : TraceGag(u, e)
  \/ \E m \in Masks : Ungag(m) \/ \E e \in 0..MaxTime : Gag(m, e)
  \/ \E t \in timers : GagExpire(t)
  \/ Restart \/ Tick

Spec == Init /\ [][Next]_vars

-----------------------------------------------------------------------------
\* Nobody is gagged whom no gag covers; a gag that expires has one timer, and no
\* other has one (gag_create, gag_free, gag_expire).
GagsExact ==
  /\ \A u \in gagged : u \in Online /\ Covered(look[u])
  /\ timers = {[mask |-> m, at |-> gags[m]] : m \in {m \in DOMAIN gags : gags[m] # 0}}
=============================================================================
