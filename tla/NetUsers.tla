------------------------------- MODULE NetUsers -------------------------------
(***************************************************************************)
(* Users and servers as the P10 protocol brings them (proto-p10.c, hash.c):*)
(* numerics and nicks, collisions with services, netsplits.  The uplink's  *)
(* messages are handled as they come; what services send is on its way     *)
(* (`out') while the network goes on without it, which is how the two      *)
(* views come to disagree about a nick.                                    *)
(***************************************************************************)
EXTENDS Integers, Sequences, FiniteSets

CONSTANTS
  Services,       \* local users with +k: the name is the numeric and the nick
  Clones,         \* numerics for local users without +k
  Remote,         \* numerics of other users
  Leaves,         \* those of them behind a second server; the others are on the uplink
  Nicks,          \* includes the services
  Start,          \* when services started; users of the network may be older
  MaxTime,        \* bound: timestamps of nicks
  MaxOut,         \* bound: messages of services under way
  CollidersMove,  \* TRUE: whoever is in a collision may leave, rename or be replaced before it is settled
  NULL

Locals   == Services \cup Clones
Numerics == Locals \cup Remote
ServerOf(n) == IF n \in Locals THEN "self" ELSE IF n \in Leaves THEN "leaf" ELSE "uplink"

VARIABLES
  users,    \* server->users[]: NULL or [nick, ts, invis]
  clients,  \* nick -> numeric
  linked,   \* the servers that are known
  burst,    \* of which those bursting
  invis,    \* invis_clients
  now,
  theirs,   \* the network's users: NULL or [nick, ts]
  out       \* what services sent and the network has not yet read

vars == <<users, clients, linked, burst, invis, now, theirs, out>>

Bearer == [nick : Nicks, ts : -MaxTime..MaxTime]
Record == [nick : Nicks, ts : -MaxTime..MaxTime, invis : BOOLEAN]
Msg    == [type : {"NICK", "KILL", "QUIT"}, who : Numerics]

TypeOK ==
  /\ users \in [Numerics -> Record \cup {NULL}] /\ clients \in [Nicks -> Numerics \cup {NULL}]
  /\ linked \subseteq {"uplink", "leaf"} /\ burst \subseteq linked
  /\ invis \in Int /\ now \in 0..MaxTime /\ theirs \in [Numerics -> Bearer \cup {NULL}]
  /\ \A i \in DOMAIN out : out[i].type \in {"NICK", "KILL", "QUIT"} /\ out[i].who \in Numerics

\* The services' view, so that handlers compose: u, c, i and the messages o.
View == [u |-> users, c |-> clients, i |-> invis, o |-> out]
Becomes(v) == users' = v.u /\ clients' = v.c /\ invis' = v.i /\ out' = v.o
Sends(v, type, n, ts, nick) ==
  [v EXCEPT !.o = Append(@, [type |-> type, who |-> n, ts |-> ts, nick |-> nick])]

Init ==
  /\ users = [n \in Numerics |->
                IF n \in Services THEN [nick |-> n, ts |-> Start, invis |-> TRUE] ELSE NULL]
  /\ clients = [k \in Nicks |-> IF k \in Services THEN k ELSE NULL]
  /\ invis = Cardinality(Services) /\ linked = {} /\ burst = {} /\ now = Start
  /\ theirs = [n \in Numerics |-> NULL] /\ out = <<>>

-----------------------------------------------------------------------------
(* hash.c and the user functions of proto-p10.c.                           *)

\* irc_user.
IrcUser(v, n) == Sends(v, "NICK", n, v.u[n].ts, v.u[n].nick)

\* Mutant: the nick goes with the loser of a collision too.
Removed_Always(v, n) == [v.c EXCEPT ![v.u[n].nick] = NULL]

\* The nick goes with the user, "but not if after a collide".
Removed(v, n) ==
  LET k == v.u[n].nick IN IF v.c[k] = n THEN [v.c EXCEPT ![k] = NULL] ELSE v.c

DelUser(v, n, announce) ==
  LET w == [v EXCEPT !.u[n] = NULL, !.c = Removed(v, n),
                     !.i = IF v.u[n].invis THEN @ - 1 ELSE @]
  IN IF ~announce THEN w
     ELSE Sends(w, IF n \in Locals THEN "QUIT" ELSE "KILL", n, 0, v.u[n].nick)

\* A service is older than whoever takes its nick, from now on.
Outranks(v, s, ts) == [v EXCEPT !.u[s].ts = ts - 1]

\* AddUser, for a user the network introduces (or a service that is new): the
\* loser of a collision is numbered, but not in clients.
AddUser(v, n, nick, ts, hides, bursting) ==
  LET old == v.c[nick]
      New(w) == [w EXCEPT !.u[n] = [nick |-> nick, ts |-> ts, invis |-> hides],
                          !.i = IF hides THEN @ + 1 ELSE @]
      Named(w) == [New(w) EXCEPT !.c[nick] = n]
      Known(w) == IF n \in Locals THEN IrcUser(Named(w), n) ELSE Named(w)
  IN IF old = NULL THEN Known(v)
     ELSE IF old \in Services
       THEN LET w == Outranks(v, old, ts) IN New(IF bursting THEN w ELSE IrcUser(w, old))
     ELSE IF v.u[old].ts > ts THEN Known(DelUser(v, old, TRUE))
     ELSE New(v)

\* NickChange; the network's users announce their own.
NickChange(v, n, nick) ==
  LET k == v.u[n].nick IN
  IF k = nick THEN v
  ELSE [v EXCEPT !.c = [[@ EXCEPT ![k] = NULL] EXCEPT ![nick] = n],
                 !.u[n].nick = nick, !.u[n].ts = now]

\* parse_line names the origin of a message by its nick, the handlers look the
\* nick up again: the loser of a collision is taken for the winner.
Origin(n) == IF users[n] = NULL THEN NULL ELSE clients[users[n].nick]

\* cmd_kill: a service that was killed comes back.
Killed(v, n) ==
  IF v.u[n] = NULL THEN v
  ELSE IF n \in Services THEN IrcUser(v, n)
  ELSE DelUser(v, n, FALSE)

-----------------------------------------------------------------------------
(* What the network does, and the handlers of what it then sends.          *)

Present(n) == theirs[n] # NULL
Holds(k)   == {n \in Numerics : Present(n) /\ theirs[n].nick = k}
Room       == Len(out) < MaxOut
Contested(k) == \E m \in Remote : users[m] # NULL /\ users[m].nick = k /\ clients[k] # m
MayMove(n) == CollidersMove \/ users[n] = NULL \/ Origin(n) = n

Online == {n \in Locals : users[n] # NULL}

\* The link comes up: send_burst introduces every local user.
LinkUp ==
  /\ linked = {} /\ linked' = {"uplink"} /\ burst' = {"uplink"}
  /\ \E order \in [1..Cardinality(Online) -> Online] :
       /\ \A i, j \in DOMAIN order : order[i] = order[j] => i = j
       /\ out' = [i \in DOMAIN order |->
                    [type |-> "NICK", who |-> order[i], ts |-> users[order[i]].ts,
                     nick |-> users[order[i]].nick]]
  /\ UNCHANGED <<users, clients, invis, now, theirs>>

\* SERVER for a server behind the uplink, and END_OF_BURST.
ServerJoins ==
  /\ "uplink" \in linked /\ "leaf" \notin linked /\ Leaves # {}
  /\ linked' = linked \cup {"leaf"} /\ burst' = burst \cup {"leaf"}
  /\ UNCHANGED <<users, clients, invis, now, theirs, out>>
EndOfBurst(srv) ==
  /\ srv \in burst /\ burst' = burst \ {srv}
  /\ UNCHANGED <<users, clients, linked, invis, now, theirs, out>>

\* NICK of a new user; one that is bursted may be older than now.  The nick is
\* free on the network, or a burst overrules the service that has it, which is
\* killed first.  (External: servers hand out numerics in turn, none again while
\* a message to its last user is under way.)
NewUser(n, nick, ts, hides) ==
  LET srv  == ServerOf(n)
      lost == Holds(nick)
      v    == IF lost = {} THEN View ELSE Killed(View, CHOOSE s \in lost : TRUE)
  IN /\ srv \in linked /\ ~Present(n) /\ users[n] = NULL /\ Room
     /\ \A i \in DOMAIN out : out[i].who # n
     /\ IF srv \in burst THEN ts <= now ELSE ts = now
     /\ \/ lost = {}
        \/ srv \in burst /\ lost \subseteq Services /\ \A s \in lost : theirs[s].ts > ts
     /\ theirs' = [m \in Numerics |-> IF m = n THEN [nick |-> nick, ts |-> ts]
                                      ELSE IF m \in lost THEN NULL ELSE theirs[m]]
     /\ Becomes(AddUser(v, n, nick, ts, hides, srv \in burst))
     /\ UNCHANGED <<linked, burst, now>>

\* NICK of a user that has one.
Rename(n, nick) ==
  /\ n \in Remote /\ Present(n) /\ Holds(nick) = {} /\ MayMove(n)
  /\ clients[nick] = NULL \/ CollidersMove
  /\ theirs' = [theirs EXCEPT ![n] = [nick |-> nick, ts |-> now]]
  /\ Becomes(IF Origin(n) = NULL THEN View ELSE NickChange(View, Origin(n), nick))
  /\ UNCHANGED <<linked, burst, now>>

\* MODE +i and -i.
UserMode(n) ==
  /\ n \in Remote /\ Present(n) /\ users[n] # NULL /\ Origin(n) = n
  /\ Becomes([View EXCEPT !.u[n].invis = ~@, !.i = IF users[n].invis THEN @ - 1 ELSE @ + 1])
  /\ UNCHANGED <<linked, burst, now, theirs>>

\* cmd_quit.
Quit(n) ==
  /\ n \in Remote /\ Present(n) /\ MayMove(n)
  /\ theirs' = [theirs EXCEPT ![n] = NULL]
  /\ Becomes(IF Origin(n) = NULL THEN View ELSE DelUser(View, Origin(n), FALSE))
  /\ UNCHANGED <<linked, burst, now>>

\* DelServer, servers behind it first: the users are found by number.
Gone(srv) == IF srv = "uplink" THEN Remote ELSE Leaves
WithoutUsers(v, ns) ==
  LET c == [k \in Nicks |-> IF v.c[k] \in ns THEN NULL ELSE v.c[k]]
      hid == {n \in ns : v.u[n] # NULL /\ v.u[n].invis}
  IN [v EXCEPT !.u = [n \in Numerics |-> IF n \in ns THEN NULL ELSE v.u[n]],
               !.c = c, !.i = @ - Cardinality(hid)]

\* SQUIT of the server behind the uplink.
Netsplit ==
  /\ "leaf" \in linked /\ linked' = linked \ {"leaf"} /\ burst' = burst \ {"leaf"}
  /\ theirs' = [n \in Numerics |-> IF n \in Gone("leaf") THEN NULL ELSE theirs[n]]
  /\ Becomes(WithoutUsers(View, Gone("leaf")))
  /\ UNCHANGED now

\* socket_destroyed: the network forgets services, services forget everybody.
LinkLost ==
  /\ "uplink" \in linked /\ linked' = {} /\ burst' = {}
  /\ theirs' = [n \in Numerics |-> NULL]
  /\ Becomes([WithoutUsers(View, Gone("uplink")) EXCEPT !.o = <<>>])
  /\ UNCHANGED now

-----------------------------------------------------------------------------
(* What services do to users of their own accord, and the network's side.  *)

\* KILL by a service, and by auth and alert checks: DelUser with announce.
KillUser(n) ==
  /\ n \in Remote /\ users[n] # NULL /\ Origin(n) = n /\ Room
  /\ Becomes(DelUser(View, n, TRUE)) /\ UNCHANGED <<linked, burst, now, theirs>>

\* AddClone for a nick that is to be held: older than whoever has it.  The
\* numeric may have been a clone's whose NICK is still under way.
AddClone(n, nick) ==
  LET old == clients[nick]
      ts  == IF old = NULL THEN now ELSE users[old].ts - 1
  IN /\ n \in Clones /\ users[n] = NULL /\ Len(out) + 1 < MaxOut
     /\ old = NULL \/ (old \in Remote /\ ts >= 0)
     /\ CollidersMove \/ \A i \in DOMAIN out : out[i].who = n => out[i].type # "NICK"
     /\ Becomes(AddUser(View, n, nick, ts, TRUE, FALSE))
     /\ UNCHANGED <<linked, burst, now, theirs>>

DelClone(n) ==
  /\ n \in Clones /\ users[n] # NULL /\ Room /\ (CollidersMove \/ ~Contested(users[n].nick))
  /\ Becomes(DelUser(View, n, TRUE)) /\ UNCHANGED <<linked, burst, now, theirs>>

\* The network reads the next message of services.  (External: of two users
\* with one nick the older stays, none if they are of the same age; whoever is
\* removed is announced by a KILL.)
Deliver ==
  /\ out # <<>> /\ linked # {}
  /\ LET m    == Head(out)
         v    == [View EXCEPT !.o = Tail(out)]
         them == Holds(m.nick) \ {m.who}
         h    == CHOOSE x \in them : TRUE
         wins == them = {} \/ m.ts < theirs[h].ts
         dies == them # {} /\ m.ts <= theirs[h].ts
         v1   == IF dies THEN Killed(v, h) ELSE v
     IN IF m.type # "NICK"
          THEN theirs' = [theirs EXCEPT ![m.who] = NULL] /\ Becomes(v)
          ELSE /\ theirs' = [n \in Numerics |->
                               IF n = m.who /\ wins THEN [nick |-> m.nick, ts |-> m.ts]
                               ELSE IF n = m.who \/ (dies /\ n = h) THEN NULL ELSE theirs[n]]
               /\ Becomes(IF wins THEN v1 ELSE Killed(v1, m.who))
  /\ UNCHANGED <<linked, burst, now>>

Tick == /\ now < MaxTime /\ now' = now + 1
        /\ UNCHANGED <<users, clients, linked, burst, invis, theirs, out>>

Next ==
  \/ LinkUp \/ ServerJoins \/ Netsplit \/ LinkLost \/ Deliver \/ Tick
  \/ \E srv \in linked : EndOfBurst(srv)
  \/ \E n \in Remote : Quit(n) \/ UserMode(n) \/ KillUser(n)
  \/ \E n \in Remote, k \in Nicks : Rename(n, k)
  \/ \E n \in Clones : DelClone(n) \/ \E k \in Nicks : AddClone(n, k)
  \/ \E n \in Remote, k \in Nicks, ts \in 1..MaxTime, hides \in BOOLEAN : NewUser(n, k, ts, hides)

Spec == Init /\ [][Next]_vars

-----------------------------------------------------------------------------
\* Nick and number find the same user; only the losers of collisions are known
\* by number alone, and invis_clients counts whoever is +i.
NicksFindUsers == \A k \in Nicks : clients[k] # NULL => users[clients[k]] # NULL /\ users[clients[k]].nick = k
InvisCounted   == invis = Cardinality({n \in Numerics : users[n] # NULL /\ users[n].invis})
UsersNumbered ==
  /\ NicksFindUsers /\ InvisCounted
  /\ \A n \in Numerics : users[n] # NULL => clients[users[n].nick] # NULL

\* No collision, kill or split costs a service its nick ("The service should
\* collide the new user off", proto-p10.c:2236).
ServicesStay == \A s \in Services : users[s] # NULL /\ clients[s] = s

\* Once the network has read what services sent, both know the same users
\* under the same nicks, and nobody is numbered without being in clients.
ViewsAgree ==
  linked # {} /\ out = <<>> =>
    \A n \in Numerics :
      /\ users[n] = NULL <=> theirs[n] = NULL
      /\ users[n] # NULL => users[n].nick = theirs[n].nick /\ clients[users[n].nick] = n
=============================================================================
