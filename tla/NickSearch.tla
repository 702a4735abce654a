------------------------------- MODULE NickSearch -------------------------------
(***************************************************************************)
(* NickServ's SEARCH: criteria are narrowed to ranges, the accounts that   *)
(* lie in them are counted or unregistered in the order of their names,    *)
(* perhaps the searcher's own among them.  An account is its place in that *)
(* order; a mask is the set of the hosts it covers.                        *)
(* Source: src/nickserv.c.                                                 *)
(***************************************************************************)
EXTENDS Integers, Sequences, FiniteSets, FiniteSetsExt

CONSTANTS
  Roster,     \* the accounts: level, karma, flags, masks, last (last_quit_host), born
  Users, Opers,
  Searches,   \* the lists of criteria that are given
  FlagLevel,  \* flag_access_levels
  MailLevel,  \* email_search_level
  MaxTime, NULL

VARIABLES
  alive,   \* nickserv_handle_dict
  auth,    \* user->handle_info
  seen,    \* hi->lastseen
  asked,   \* the last command, if it was a search: who, what and its criteria
  found,   \* and what it counted
  now

vars == <<alive, auth, seen, asked, found, now>>

Accounts == DOMAIN Roster
Top == 100  \* INT_MAX

Init ==
  /\ alive = Accounts /\ auth = [u \in Users |-> NULL]
  /\ seen = [a \in Accounts |-> 0] /\ asked = NULL /\ found = 0 /\ now = 0

Level(u) == Roster[auth[u]].level

Full == [from |-> -Top, to |-> Top]
Everything == [limit |-> 50, level |-> [from |-> 0, to |-> Top], karma |-> Full, age |-> Full, idle |-> -Top,
               on |-> {}, off |-> {}, hosts |-> NULL, how |-> "superset", mail |-> NULL]

\* A comparison narrows a side of a range; one that is none is reported and
\* passed over.
Ranged(r, op, n) ==
  CASE op = "<"  -> [r EXCEPT !.to = n - 1]
    [] op = "<=" -> [r EXCEPT !.to = n]
    [] op = "="  -> [from |-> n, to |-> n]
    [] op = ">=" -> [r EXCEPT !.from = n]
    [] op = ">"  -> [r EXCEPT !.from = n + 1]
    [] OTHER     -> r

\* nickserv_discrim_create, one criterion: "access <" and "access <=" leave out
\* the accounts without access; flags above the searcher's level are passed over.
Narrowed(d, c, u) ==
  CASE c.of = "limit"  -> [d EXCEPT !.limit = c.n]
    [] c.of = "access" -> [d EXCEPT !.level = Ranged(IF c.op \in {"<", "<="} /\ @.from = 0
                                                     THEN [@ EXCEPT !.from = 1] ELSE @, c.op, c.n)]
    [] c.of = "karma"  -> [d EXCEPT !.karma = Ranged(@, c.op, c.n)]
    [] c.of = "registered" -> [d EXCEPT !.age = Ranged(@, c.op, c.n)]
    [] c.of = "seen"   -> [d EXCEPT !.idle = c.n]
    [] c.of = "flags"  -> IF \E f \in c.on \cup c.off : FlagLevel[f] > Level(u) THEN d
                          ELSE [d EXCEPT !.on = c.on, !.off = c.off]
    [] c.of = "hostmask" -> [d EXCEPT !.hosts = c.mask, !.how = c.how]
    [] c.of = "email"  -> [d EXCEPT !.mail = c.mask]

\* Refused: an address without the level for it.
Refused(cs, u) == \E k \in DOMAIN cs : cs[k].of = "email" /\ Level(u) < MailLevel

Discrim(cs, u) ==
  LET d[k \in 0..Len(cs)] == IF k = 0 THEN Everything ELSE Narrowed(d[k - 1], cs[k], u)
  IN d[Len(cs)]

In(n, r) == r.from <= n /\ n <= r.to
Idle(a)  == IF \E u \in Users : auth[u] = a THEN 0 ELSE now - seen[a]

\* The host is looked for mask by mask, the last one seen too.
HostFits(d, a) ==
  \E m \in Roster[a].masks :
    CASE d.how = "subset"   -> m \subseteq d.hosts
      [] d.how = "exact"    -> m = d.hosts
      [] d.how = "superset" -> d.hosts \subseteq m
      [] d.how = "lastquit" -> Roster[a].last \in d.hosts

\* nickserv_discrim_match.
Match(d, a) ==
  /\ d.on \subseteq Roster[a].flags /\ d.off \cap Roster[a].flags = {}
  /\ In(now - Roster[a].born, d.age) /\ d.idle <= Idle(a)
  /\ In(Roster[a].level, d.level) /\ In(Roster[a].karma, d.karma)
  /\ d.mail # NULL => Roster[a].mail \in d.mail
  /\ d.hosts # NULL => HostFits(d, a)

\* nickserv_discrim_search: the first matches, as many as the limit.
Hits(d) == LET all == {a \in alive : Match(d, a)}
           IN {a \in all : Cardinality({b \in all : b < a}) < d.limit}

\* oper_has_access, for the searcher u and what an account needs.
HasAccess(u, a) == /\ "suspended" \notin Roster[auth[u]].flags
                   /\ u \in Opers \/ ("helping" \in Roster[auth[u]].flags /\ Roster[a].level = 0)
                   /\ Level(u) >= Roster[a].level

\* search_unregister_func: without an account of their own the searcher has no
\* access to the rest.
Doomed(u, hits) == {a \in hits : HasAccess(u, a) /\ (auth[u] \in hits /\ HasAccess(u, auth[u]) => a <= auth[u])}

Without(as) == /\ alive' = alive \ as
               /\ auth' = [u \in Users |-> IF auth[u] \in as THEN NULL ELSE auth[u]]

\* cmd_search; "print" counts what it prints, "count" knows no limit.
Search(u, what, cs) ==
  /\ auth[u] # NULL /\ ~Refused(cs, u)
  /\ LET d    == Discrim(cs, u)
         hits == Hits(IF what = "count" THEN [d EXCEPT !.limit = Top] ELSE d)
     IN /\ found' = Cardinality(hits)
        /\ Without(IF what = "unregister" THEN Doomed(u, hits) ELSE {})
  /\ asked' = [by |-> u, what |-> what, criteria |-> cs]
  /\ UNCHANGED <<seen, now>>

\* The rest of the world: sessions come and go.
NotAsked == asked' = NULL /\ found' = 0
LogIn(u, a) == /\ a \in alive /\ auth[u] = NULL /\ auth' = [auth EXCEPT ![u] = a]
               /\ seen' = [seen EXCEPT ![a] = now] /\ NotAsked /\ UNCHANGED <<alive, now>>
Quit(u) == /\ auth[u] # NULL /\ auth' = [auth EXCEPT ![u] = NULL]
           /\ seen' = [seen EXCEPT ![auth[u]] = now] /\ NotAsked /\ UNCHANGED <<alive, now>>
Tick == now < MaxTime /\ now' = now + 1 /\ NotAsked /\ UNCHANGED <<alive, auth, seen>>

Next ==
  \/ \E u \in Users, what \in {"print", "count", "unregister"}, cs \in Searches : Search(u, what, cs)
  \/ \E u \in Users, a \in Accounts : LogIn(u, a)
  \/ \E u \in Users : Quit(u)
  \/ Tick

Spec == Init /\ [][Next]_vars

-----------------------------------------------------------------------------

Compared(v, op, n) == CASE op = "<" -> v < n [] op = "<=" -> v <= n [] op = "=" -> v = n
                        [] op = ">=" -> v >= n [] op = ">" -> v > n [] OTHER -> TRUE

\* What the help says of a criterion.
Means(c, a, u) ==
  CASE c.of = "limit"  -> TRUE
    [] c.of = "access" -> /\ Compared(Roster[a].level, c.op, c.n)
                          /\ c.op \in {"<", "<="} => Roster[a].level > 0
    [] c.of = "karma"  -> Compared(Roster[a].karma, c.op, c.n)
    [] c.of = "registered" -> Compared(now - Roster[a].born, c.op, c.n)
    [] c.of = "seen"   -> Idle(a) >= c.n
    [] c.of = "flags"  -> \/ \E f \in c.on \cup c.off : FlagLevel[f] > Level(u)
                          \/ c.on \subseteq Roster[a].flags /\ c.off \cap Roster[a].flags = {}
    [] c.of = "hostmask" -> HostFits([hosts |-> c.mask, how |-> c.how], a)
    [] c.of = "email"  -> Roster[a].mail \in c.mask

\* A search counts what its criteria, each taken by itself, say, up to its
\* limit, and unregisters nothing else; nobody above the searcher goes, and
\* nobody once the searcher's own account is gone.
SearchSpares ==
  [][asked' # NULL =>
       LET u   == asked'.by
           all == {a \in alive : \A k \in DOMAIN asked'.criteria : Means(asked'.criteria[k], a, u)}
           limits == {asked'.criteria[k].n : k \in {j \in DOMAIN asked'.criteria : asked'.criteria[j].of = "limit"}}
           gone == alive \ alive'
       IN /\ found' = IF limits = {} \/ asked'.what = "count" THEN Cardinality(all)
                      ELSE Min(limits \cup {Cardinality(all)})
          /\ gone \subseteq all
          /\ asked'.what # "unregister" => gone = {}
          /\ \A a \in gone : Roster[a].level <= Level(u) /\ (auth[u] \in gone => a <= auth[u])]_vars
=============================================================================
