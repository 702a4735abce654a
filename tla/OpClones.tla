-------------------------------- MODULE OpClones -------------------------------
(***************************************************************************)
(* OpServ's count of the connections from each address, the addresses that *)
(* may have more, the alerts and commands that ban an address, and the     *)
(* nicks OpServ holds.  G-lines are seen as the addresses they cover; the  *)
(* network lets nobody in from these.  Source: src/opserv.c.               *)
(***************************************************************************)
EXTENDS Naturals, FiniteSets, TLAPS

CONSTANTS
  Users, Ips,
  Trustable,    \* the addresses ADDTRUST is used for
  Watched,      \* those alerts are about
  Limits,       \* of trusted addresses; 0: none
  UntrustedMax, \* opserv_conf.untrusted_max
  Nicks,        \* to be reserved
  MaxTime,
  NULL

VARIABLES
  online,   \* the address of each user, or NULL
  opers,
  clients,  \* opserv_hostinfo_dict
  blocked,  \* users whom an alert banned before they were counted
  trusted,  \* opserv_trusted_hosts: limit and expiry (0: never)
  timers,   \* queued opserv_expire_trusted_host: address and time
  alerts,   \* what an alert does to those who come from an address, or NULL
  glined,
  held,     \* local users by nick: "clone", "collide" or "reserve"
  reserved, \* opserv_reserved_nick_dict
  now

vars == <<online, opers, clients, blocked, trusted, timers, alerts, glined, held, reserved, now>>
people == <<online, opers, clients, blocked>>
trust == <<trusted, timers>>
nicks == <<held, reserved>>

None == [x \in {} |-> 0]
Init ==
  /\ online = [u \in Users |-> NULL] /\ opers = {} /\ clients = None /\ blocked = {}
  /\ trusted = None /\ timers = {} /\ alerts = [i \in Ips |-> NULL] /\ glined = {}
  /\ held = None /\ reserved = {} /\ now = 0

With(f, k, v) == [x \in DOMAIN f \cup {k} |-> IF x = k THEN v ELSE f[x]]
Sans(f, k)    == [x \in DOMAIN f \ {k} |-> f[x]]
Limit(i)      == IF i \in DOMAIN trusted THEN trusted[i].limit ELSE UntrustedMax

-----------------------------------------------------------------------------
(* Users.                                                                  *)

\* alert_check_user: opers and trusted addresses are spared.
Reaction(i, oper) == IF oper \/ i \in DOMAIN trusted THEN NULL ELSE alerts[i]

\* opserv_new_user_check stops at an alert that kills or bans.  Otherwise the
\* user is counted; one too many has the address banned.
Connect(u, i, oper) ==
  /\ online[u] = NULL /\ i \notin glined /\ Reaction(i, oper) # "kill"
  /\ online' = [online EXCEPT ![u] = i] /\ opers' = IF oper THEN opers \cup {u} ELSE opers
  /\ IF Reaction(i, oper) = "gline"
       THEN glined' = glined \cup {i} /\ blocked' = blocked \cup {u} /\ UNCHANGED clients
       ELSE LET list == {u} \cup IF i \in DOMAIN clients THEN clients[i] ELSE {}
            IN /\ clients' = With(clients, i, list) /\ UNCHANGED blocked
               /\ glined' = IF Limit(i) # 0 /\ Cardinality(list) > Limit(i) THEN glined \cup {i} ELSE glined
  /\ UNCHANGED <<trust, alerts, nicks, now>>

\* Mutant: a user who was never counted is not looked for, nor anybody after.
Uncounted_First(u, i) ==
  IF i \notin DOMAIN clients \/ u \in blocked \/ blocked # {} THEN clients
  ELSE IF clients[i] \subseteq {u} THEN Sans(clients, i) ELSE [clients EXCEPT ![i] = @ \ {u}]

\* opserv_user_cleanup.
Uncounted(u, i) ==
  IF i \notin DOMAIN clients THEN clients
  ELSE IF clients[i] \subseteq {u} THEN Sans(clients, i) ELSE [clients EXCEPT ![i] = @ \ {u}]

Quit(u) ==
  /\ online[u] # NULL /\ online' = [online EXCEPT ![u] = NULL]
  /\ clients' = Uncounted(u, online[u]) /\ opers' = opers \ {u} /\ blocked' = blocked \ {u}
  /\ UNCHANGED <<trust, alerts, glined, nicks, now>>

\* BLOCK and TRACE GLINE: neither a trusted address nor that of an oper.
Block(u) ==
  /\ online[u] # NULL /\ online[u] \notin DOMAIN trusted
  /\ ~\E o \in opers : online[o] = online[u]
  /\ glined' = glined \cup {online[u]} /\ UNCHANGED <<people, trust, alerts, nicks, now>>

\* A G-line is over.
Ungline(i) == i \in glined /\ glined' = glined \ {i} /\ UNCHANGED <<people, trust, alerts, nicks, now>>

Alert(i, what) ==
  /\ (what = NULL) # (alerts[i] = NULL) /\ alerts' = [alerts EXCEPT ![i] = what]
  /\ UNCHANGED <<people, trust, glined, nicks, now>>

-----------------------------------------------------------------------------
(* Trusted addresses.                                                      *)

Armed(ts, i, e) == IF e = 0 THEN ts ELSE ts \cup {[ip |-> i, at |-> e]}
Disarmed(i)     == timers \ {[ip |-> i, at |-> trusted[i].expires]}

AddTrust(i, l, e) ==
  /\ i \notin DOMAIN trusted /\ (e = 0 \/ e > now)
  /\ trusted' = With(trusted, i, [limit |-> l, expires |-> e]) /\ timers' = Armed(timers, i, e)
  /\ UNCHANGED <<people, alerts, glined, nicks, now>>
EditTrust(i, l, e) ==
  /\ i \in DOMAIN trusted /\ (e = 0 \/ e > now)
  /\ trusted' = With(trusted, i, [limit |-> l, expires |-> e]) /\ timers' = Armed(Disarmed(i), i, e)
  /\ UNCHANGED <<people, alerts, glined, nicks, now>>
DelTrust(i) ==
  /\ i \in DOMAIN trusted /\ trusted' = Sans(trusted, i) /\ timers' = Disarmed(i)
  /\ UNCHANGED <<people, alerts, glined, nicks, now>>
ExpireTrust(t) ==
  /\ t.at <= now /\ timers' = timers \ {t} /\ trusted' = Sans(trusted, t.ip)
  /\ UNCHANGED <<people, alerts, glined, nicks, now>>

-----------------------------------------------------------------------------
(* Nicks that services hold.                                               *)

\* AddLocalUser gives back the local user who has the nick already.
Hold(n, how) ==
  /\ n \in DOMAIN held => how # "clone"
  /\ held' = With(held, n, IF n \in DOMAIN held /\ held[n] = "reserve" THEN "reserve" ELSE how)
  /\ reserved' = IF how = "clone" THEN reserved ELSE reserved \cup {n}
  /\ UNCHANGED <<people, trust, alerts, glined, now>>

\* UNRESERVE, or CLONE REMOVE; the user's end takes them off the dictionary.
Release(n, unreserve) ==
  /\ n \in DOMAIN held /\ (unreserve => n \in reserved)
  /\ held' = Sans(held, n) /\ reserved' = reserved \ {n}
  /\ UNCHANGED <<people, trust, alerts, glined, now>>

\* Reserves that are persistent, alerts and what is trusted are in the database.
Restart ==
  /\ online' = [u \in Users |-> NULL] /\ opers' = {} /\ clients' = None /\ blocked' = {}
  /\ LET kept == {i \in DOMAIN trusted : trusted[i].expires = 0 \/ trusted[i].expires >= now}
     IN /\ trusted' = [i \in kept |-> trusted[i]]
        /\ timers' = {[ip |-> i, at |-> trusted[i].expires] : i \in {i \in kept : trusted[i].expires # 0}}
  /\ reserved' = {n \in reserved : held[n] = "reserve"} /\ held' = [n \in reserved' |-> "reserve"]
  /\ UNCHANGED <<alerts, glined, now>>

Tick == /\ now < MaxTime /\ (\A t \in timers : t.at > now) /\ now' = now + 1
        /\ UNCHANGED <<people, trust, alerts, glined, nicks>>

Next ==
  \/ \E u \in Users : Quit(u) \/ Block(u) \/ \E i \in Ips, oper \in BOOLEAN : Connect(u, i, oper)
  \/ \E i \in Ips : Ungline(i)
  \/ \E i \in Watched, what \in {NULL, "kill", "gline"} : Alert(i, what)
  \/ \E i \in Trustable :
       DelTrust(i) \/ \E l \in Limits, e \in 0..MaxTime : AddTrust(i, l, e) \/ EditTrust(i, l, e)
  \/ \E t \in timers : ExpireTrust(t)
  \/ \E n \in Nicks :
       \/ \E how \in {"clone", "collide", "reserve"} : Hold(n, how)
       \/ \E unreserve \in BOOLEAN : Release(n, unreserve)
  \/ Restart \/ Tick

Spec == Init /\ [][Next]_vars

-----------------------------------------------------------------------------
\* Whoever is online is on the list of their address unless an alert banned them
\* before; nobody else is, and no list is empty.  A trusted address that expires
\* has one timer, no other has one.  The reserved nicks are held.
ClonesExact ==
  /\ clients = [i \in {online[u] : u \in {u \in Users \ blocked : online[u] # NULL}} |->
                  {u \in Users \ blocked : online[u] = i}]
  /\ timers = {[ip |-> i, at |-> trusted[i].expires] : i \in {i \in DOMAIN trusted : trusted[i].expires # 0}}
  /\ reserved \subseteq DOMAIN held

-----------------------------------------------------------------------------
(* What opserv_hostinfo_dict holds, as an operator of who is online.       *)

There(on, bl)   == {on[u] : u \in {u \in Users \ bl : on[u] # NULL}}
From(on, bl, i) == {u \in Users \ bl : on[u] = i}
Lists(on, bl)   == [i \in There(on, bl) |-> From(on, bl, i)]

\* Nobody is blocked who is not online.
BlockedOnline ==
  /\ NULL \notin Ips /\ online \in [Users -> Ips \cup {NULL}] /\ blocked \subseteq Users
  /\ \A u \in blocked : online[u] # NULL

Inv == BlockedOnline /\ ClonesExact

\* Who comes and is counted is put on the list of their address, which is
\* made if they are the first.
LEMMA Counted ==
  ASSUME online \in [Users -> Ips \cup {NULL}], NEW u \in Users, u \notin blocked, NEW i \in Ips,
         online[u] = NULL, NULL \notin Ips, clients = Lists(online, blocked)
  PROVE  Lists([online EXCEPT ![u] = i], blocked) =
           With(clients, i, {u} \cup IF i \in DOMAIN clients THEN clients[i] ELSE {})
<1> DEFINE on2 == [online EXCEPT ![u] = i]
<1>1. There(on2, blocked) = There(online, blocked) \cup {i}
  BY DEF There
<1>2. From(on2, blocked, i) = {u} \cup From(online, blocked, i)
  BY DEF From
<1>3. i \notin There(online, blocked) => From(online, blocked, i) = {}
  BY DEF There, From
<1>4. \A j \in There(online, blocked) \ {i} : From(on2, blocked, j) = From(online, blocked, j)
  BY DEF There, From
<1>5. DOMAIN clients = There(online, blocked) /\ \A j \in There(online, blocked) : clients[j] = From(online, blocked, j)
  BY DEF Lists
<1> HIDE DEF on2
<1>6. Lists(on2, blocked) = [j \in There(online, blocked) \cup {i} |-> IF j = i THEN {u} \cup From(online, blocked, i) ELSE From(online, blocked, j)]
  BY <1>1, <1>2, <1>4 DEF Lists
<1> QED
  BY <1>3, <1>5, <1>6 DEF With, on2

\* Who goes is taken off the list of their address, which goes with the last;
\* whoever was not counted is on none.
LEMMA Discounted ==
  ASSUME NEW on \in [Users -> Ips \cup {NULL}], NEW bl, NEW u \in Users, on[u] # NULL, NULL \notin Ips,
         clients = Lists(on, bl)
  PROVE  Uncounted(u, on[u]) = Lists([on EXCEPT ![u] = NULL], bl \ {u})
<1> DEFINE on2 == [on EXCEPT ![u] = NULL]
<1> DEFINE bl2 == bl \ {u}
<1>1. \A j \in There(on, bl) \ {on[u]} : From(on2, bl2, j) = From(on, bl, j)
  BY DEF There, From
<1>2. From(on2, bl2, on[u]) = From(on, bl, on[u]) \ {u}
  BY DEF From
<1>3. There(on2, bl2) = IF From(on, bl, on[u]) \subseteq {u} THEN There(on, bl) \ {on[u]} ELSE There(on, bl)
  BY DEF There, From
<1>4. on[u] \notin There(on, bl) => From(on, bl, on[u]) = {}
  BY DEF There, From
<1>5. DOMAIN clients = There(on, bl) /\ \A j \in There(on, bl) : clients[j] = From(on, bl, j)
  BY DEF Lists
<1>6. clients = [j \in There(on, bl) |-> From(on, bl, j)]
  BY DEF Lists
<1>7. Lists(on2, bl2) = [j \in There(on2, bl2) |-> From(on2, bl2, j)]
  BY DEF Lists
<1> HIDE DEF on2, bl2
<1> DEFINE a == on[u]
<1> DEFINE F(j) == From(on2, bl2, j)
<1>8. CASE a \notin There(on, bl)
  <2>1. Uncounted(u, a) = clients
    BY <1>5, <1>8 DEF Uncounted
  <2>2. There(on2, bl2) = There(on, bl)
    BY <1>3, <1>4, <1>8
  <2>3. \A j \in There(on, bl) : F(j) = From(on, bl, j)
    BY <1>1, <1>8
  <2>4. [j \in There(on, bl) |-> F(j)] = [j \in There(on, bl) |-> From(on, bl, j)]
    BY <2>3
  <2>5. Uncounted(u, a) = Lists(on2, bl2)
    BY <1>6, <1>7, <2>1, <2>2, <2>4
  <2> QED
    BY <2>5 DEF on2, bl2
<1>9. CASE a \in There(on, bl) /\ From(on, bl, a) \subseteq {u}
  <2>1. Uncounted(u, a) = [j \in There(on, bl) \ {a} |-> clients[j]]
    BY <1>5, <1>9 DEF Uncounted, Sans
  <2>2. There(on2, bl2) = There(on, bl) \ {a}
    BY <1>3, <1>9
  <2>3. \A j \in There(on, bl) \ {a} : F(j) = clients[j]
    BY <1>1, <1>5
  <2>4. [j \in There(on, bl) \ {a} |-> F(j)] = [j \in There(on, bl) \ {a} |-> clients[j]]
    BY <2>3
  <2>5. Uncounted(u, a) = Lists(on2, bl2)
    BY <1>7, <2>1, <2>2, <2>4
  <2> QED
    BY <2>5 DEF on2, bl2
<1>10. CASE a \in There(on, bl) /\ ~(From(on, bl, a) \subseteq {u})
  <2>1. Uncounted(u, a) = [clients EXCEPT ![a] = @ \ {u}]
    BY <1>5, <1>10 DEF Uncounted
  <2>2. Uncounted(u, a) = [j \in There(on, bl) |-> IF j = a THEN From(on, bl, a) \ {u} ELSE From(on, bl, j)]
    <3> HIDE DEF a
    <3> QED
      BY <1>6, <1>10, <2>1
  <2>3. There(on2, bl2) = There(on, bl)
    BY <1>3, <1>10
  <2>4. \A j \in There(on, bl) : F(j) = IF j = a THEN From(on, bl, a) \ {u} ELSE From(on, bl, j)
    BY <1>1, <1>2
  <2>5. [j \in There(on, bl) |-> F(j)]
          = [j \in There(on, bl) |-> IF j = a THEN From(on, bl, a) \ {u} ELSE From(on, bl, j)]
    BY <2>4
  <2>6. Uncounted(u, a) = Lists(on2, bl2)
    BY <1>7, <2>2, <2>3, <2>5
  <2> QED
    BY <2>6 DEF on2, bl2
<1> QED
  BY <1>8, <1>9, <1>10

\* Nobody is online: nobody is listed.
LEMMA NobodyListed == Lists([u \in Users |-> NULL], {}) = None
BY DEF Lists, There, From, None

-----------------------------------------------------------------------------
\* The timers there should be for what is trusted.
Due(tr) == {[ip |-> i, at |-> tr[i].expires] : i \in {i \in DOMAIN tr : tr[i].expires # 0}}

\* ADDTRUST and the change of a trusted address arm one timer, and disarm the
\* one it had.
LEMMA Retimed ==
  ASSUME NEW tr, NEW i, NEW l, NEW e, NEW ts, ts = Due(tr) \ (IF i \in DOMAIN tr THEN {[ip |-> i, at |-> tr[i].expires]} ELSE {})
  PROVE  Armed(ts, i, e) = Due(With(tr, i, [limit |-> l, expires |-> e]))
<1> DEFINE new == With(tr, i, [limit |-> l, expires |-> e])
<1>1. DOMAIN new = DOMAIN tr \cup {i} /\ new[i].expires = e /\ \A j \in DOMAIN tr \ {i} : new[j].expires = tr[j].expires
  BY DEF With
<1> HIDE DEF new
<1>2. ts = {[ip |-> j, at |-> tr[j].expires] : j \in {j \in DOMAIN tr \ {i} : tr[j].expires # 0}}
  BY DEF Due
<1>3. Due(new) = ts \cup {[ip |-> j, at |-> e] : j \in {j \in {i} : e # 0}}
  BY <1>1, <1>2 DEF Due
<1>4. Armed(ts, i, e) = Due(new)
  BY <1>3 DEF Armed
<1> QED
  BY <1>4 DEF new

\* DELTRUST and the timer itself take away the address with its timer.
LEMMA Untimed ==
  ASSUME NEW tr, NEW i \in DOMAIN tr
  PROVE  Due(tr) \ {[ip |-> i, at |-> tr[i].expires]} = Due(Sans(tr, i))
<1> DEFINE new == Sans(tr, i)
<1>1. DOMAIN new = DOMAIN tr \ {i} /\ \A j \in DOMAIN tr \ {i} : new[j] = tr[j]
  BY DEF Sans
<1> HIDE DEF new
<1>2. Due(new) = {[ip |-> j, at |-> tr[j].expires] : j \in {j \in DOMAIN tr \ {i} : tr[j].expires # 0}}
  BY <1>1 DEF Due
<1>3. Due(tr) \ {[ip |-> i, at |-> tr[i].expires]}
        = {[ip |-> j, at |-> tr[j].expires] : j \in {j \in DOMAIN tr \ {i} : tr[j].expires # 0}}
  BY DEF Due
<1> QED
  BY <1>2, <1>3 DEF new

-----------------------------------------------------------------------------
\* At first nobody is online and nothing is trusted or held.
LEMMA ClonesInit == NULL \notin Ips /\ Init => Inv
<1> SUFFICES ASSUME NULL \notin Ips, Init PROVE Inv
  OBVIOUS
<1>1. BlockedOnline
  BY DEF Init, BlockedOnline
<1>2. clients = Lists(online, blocked)
  BY NobodyListed DEF Init
<1>3. timers = Due(trusted) /\ reserved \subseteq DOMAIN held
  BY DEF Init, Due, None
<1> QED
  BY <1>1, <1>2, <1>3 DEF Inv, ClonesExact, Lists, There, From, Due

\* What the invariant says, in terms of the operators above.
LEMMA InvIs ==
  Inv <=> /\ BlockedOnline /\ clients = Lists(online, blocked)
          /\ timers = Due(trusted) /\ reserved \subseteq DOMAIN held
BY DEF Inv, ClonesExact, Lists, There, From, Due

LEMMA InvPrimeIs ==
  Inv' <=> /\ BlockedOnline' /\ clients' = Lists(online', blocked')
           /\ timers' = Due(trusted') /\ (reserved \subseteq DOMAIN held)'
BY DEF Inv, ClonesExact, Lists, There, From, Due

\* Users come and go: who is counted, banned on arrival or neither any more.
LEMMA ConnectKeeps ==
  ASSUME Inv, NEW u \in Users, NEW i \in Ips, NEW oper \in BOOLEAN, Connect(u, i, oper)
  PROVE  Inv'
<1>1. BlockedOnline'
  BY InvIs DEF Connect, BlockedOnline
<1>2. u \notin blocked
  BY InvIs DEF Connect, BlockedOnline
<1>3. CASE Reaction(i, oper) = "gline"
  <2>1. There(online', blocked') = There(online, blocked)
    BY <1>2, <1>3, InvIs DEF Connect, There, BlockedOnline
  <2>2. \A j \in There(online, blocked) : From(online', blocked', j) = From(online, blocked, j)
    BY <1>2, <1>3, InvIs DEF Connect, From, BlockedOnline, There
  <2>3. Lists(online', blocked') = Lists(online, blocked)
    BY <2>1, <2>2 DEF Lists
  <2> QED
    BY <1>1, <1>3, <2>3, InvIs, InvPrimeIs DEF Connect, trust, nicks
<1>4. CASE Reaction(i, oper) # "gline"
  <2>1. online' = [online EXCEPT ![u] = i] /\ blocked' = blocked
    BY <1>4 DEF Connect
  <2>2. clients' = With(clients, i, {u} \cup IF i \in DOMAIN clients THEN clients[i] ELSE {})
    BY <1>4 DEF Connect
  <2>3. /\ online \in [Users -> Ips \cup {NULL}] /\ u \notin blocked /\ NULL \notin Ips
        /\ online[u] = NULL /\ clients = Lists(online, blocked)
    BY <1>2, InvIs DEF Connect, BlockedOnline
  <2>4. Lists([online EXCEPT ![u] = i], blocked)
          = With(clients, i, {u} \cup IF i \in DOMAIN clients THEN clients[i] ELSE {})
    BY <2>3, Counted
  <2>5. clients' = Lists(online', blocked')
    BY <2>1, <2>2, <2>4
  <2> QED
    BY <1>1, <2>5, InvIs, InvPrimeIs DEF Connect, trust, nicks
<1> QED
  BY <1>3, <1>4

LEMMA QuitKeeps ==
  ASSUME Inv, NEW u \in Users, Quit(u)
  PROVE  Inv'
<1>1. BlockedOnline'
  BY InvIs DEF Quit, BlockedOnline
<1>2. clients' = Lists(online', blocked')
  BY Discounted, InvIs DEF Quit, BlockedOnline
<1> QED
  BY <1>1, <1>2, InvIs, InvPrimeIs DEF Quit, trust, nicks

\* Everything else about users leaves the lists as they are.
LEMMA OthersKeep ==
  ASSUME Inv, UNCHANGED <<online, clients, blocked>>, UNCHANGED trust, UNCHANGED nicks
  PROVE  Inv'
BY InvIs, InvPrimeIs DEF trust, nicks, BlockedOnline

LEMMA TrustKeeps ==
  ASSUME Inv, UNCHANGED <<online, clients, blocked>>, UNCHANGED nicks, timers' = Due(trusted')
  PROVE  Inv'
BY InvIs, InvPrimeIs DEF nicks, BlockedOnline

LEMMA NicksKeep ==
  ASSUME Inv, UNCHANGED <<online, clients, blocked>>, UNCHANGED trust, (reserved \subseteq DOMAIN held)'
  PROVE  Inv'
BY InvIs, InvPrimeIs DEF trust, BlockedOnline

\* A restart reads back what has not expired, with its timers.
LEMMA RestartKeeps ==
  ASSUME Inv, Restart
  PROVE  Inv'
<1> DEFINE kept == {i \in DOMAIN trusted : trusted[i].expires = 0 \/ trusted[i].expires >= now}
<1>1. BlockedOnline'
  BY InvIs DEF Restart, BlockedOnline
<1>2. clients' = Lists(online', blocked')
  BY NobodyListed DEF Restart
<1>3. trusted' = [i \in kept |-> trusted[i]]
      /\ timers' = {[ip |-> i, at |-> trusted[i].expires] : i \in {i \in kept : trusted[i].expires # 0}}
  BY DEF Restart
<1> HIDE DEF kept
<1>4. timers' = Due(trusted')
  BY <1>3 DEF Due
<1>5. (reserved \subseteq DOMAIN held)'
  BY DEF Restart
<1> QED
  BY <1>1, <1>2, <1>4, <1>5, InvPrimeIs

\* Every step keeps counts, timers and nicks.
LEMMA ClonesNext == Inv /\ [Next]_vars => Inv'
<1> SUFFICES ASSUME Inv, [Next]_vars PROVE Inv'
  OBVIOUS
<1>1. ASSUME NEW u \in Users, Quit(u) PROVE Inv'
  BY <1>1, QuitKeeps
<1>2. ASSUME NEW u \in Users, Block(u) PROVE Inv'
  BY <1>2, OthersKeep DEF Block, people
<1>3. ASSUME NEW u \in Users, NEW i \in Ips, NEW oper \in BOOLEAN, Connect(u, i, oper) PROVE Inv'
  BY <1>3, ConnectKeeps
<1>4. ASSUME NEW i, Ungline(i) PROVE Inv'
  BY <1>4, OthersKeep DEF Ungline, people
<1>5. ASSUME NEW i, NEW what, Alert(i, what) PROVE Inv'
  BY <1>5, OthersKeep DEF Alert, people
<1>6. ASSUME NEW i, DelTrust(i) PROVE Inv'
  BY <1>6, TrustKeeps, Untimed, InvIs DEF DelTrust, Disarmed, people
<1>7. ASSUME NEW i, NEW l, NEW e, AddTrust(i, l, e) PROVE Inv'
  <2>1. Armed(timers, i, e) = Due(trusted')
    BY <1>7, Retimed, InvIs DEF AddTrust
  <2> QED
    BY <1>7, <2>1, TrustKeeps DEF AddTrust, people
<1>8. ASSUME NEW i, NEW l, NEW e, EditTrust(i, l, e) PROVE Inv'
  <2>1. Armed(Disarmed(i), i, e) = Due(trusted')
    BY <1>8, Retimed, InvIs DEF EditTrust, Disarmed
  <2> QED
    BY <1>8, <2>1, TrustKeeps DEF EditTrust, people
<1>9. ASSUME NEW t \in timers, ExpireTrust(t) PROVE Inv'
  <2>1. PICK i \in DOMAIN trusted : t = [ip |-> i, at |-> trusted[i].expires]
    BY InvIs DEF Due
  <2>2. timers \ {t} = Due(Sans(trusted, t.ip))
    BY <2>1, Untimed, InvIs
  <2> QED
    BY <1>9, <2>2, TrustKeeps DEF ExpireTrust, people
<1>10. ASSUME NEW n, NEW how, Hold(n, how) PROVE Inv'
  <2>1. (reserved \subseteq DOMAIN held)'
    BY <1>10, InvIs DEF Hold, With
  <2> QED
    BY <1>10, <2>1, NicksKeep DEF Hold, people
<1>11. ASSUME NEW n, NEW unreserve, Release(n, unreserve) PROVE Inv'
  <2>1. (reserved \subseteq DOMAIN held)'
    BY <1>11, InvIs DEF Release, Sans
  <2> QED
    BY <1>11, <2>1, NicksKeep DEF Release, people
<1>12. CASE Restart
  BY <1>12, RestartKeeps
<1>13. CASE Tick
  BY <1>13, OthersKeep DEF Tick, people
<1>14. CASE UNCHANGED vars
  BY <1>14, OthersKeep DEF vars, people, trust, nicks
<1> QED
  BY <1>1, <1>2, <1>3, <1>4, <1>5, <1>6, <1>7, <1>8, <1>9, <1>10, <1>11, <1>12, <1>13, <1>14 DEF Next

\* ClonesExact for every number of users and addresses: no order of arrivals,
\* bans on arrival, departures, changes of trust and restarts loses a
\* connection or a timer.
THEOREM ClonesAreExact == NULL \notin Ips => (Spec => []ClonesExact)
<1> SUFFICES ASSUME NULL \notin Ips PROVE Spec => []ClonesExact
  OBVIOUS
<1>1. Inv => ClonesExact
  BY DEF Inv
<1> QED
  BY <1>1, ClonesInit, ClonesNext, PTL DEF Spec
=============================================================================
