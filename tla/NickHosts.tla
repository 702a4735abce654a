-------------------------------- MODULE NickHosts -------------------------------
(***************************************************************************)
(* The host and the ident the network shows for the sessions of an         *)
(* account: OSET TITLE, FAKEHOST and FAKEIDENT set them for the account,   *)
(* logins and the three commands give them to its sessions.  RENAME and    *)
(* MERGE leave the sessions as they are (the code says so of MERGE), and   *)
(* so does the end of an account; `outdated' says whose hosts those are.   *)
(* Everything else about sessions is in NickServSessions.                  *)
(* Source: src/nickserv.c, src/hash.c.                                     *)
(***************************************************************************)
EXTENDS Naturals, TLAPS

CONSTANTS
  Users, Accounts, Names, Titles, Hosts, Idents,
  Length,    \* of the names and titles
  HostLen,   \* what a name and a title may come to: HOSTLEN without the suffix
  Staff,     \* the users who may set titles and hosts for any account
  Trusted,   \* those of them who may set idents too
  NULL

VARIABLES
  name,      \* hi->handle, NULL without an account
  host,      \* hi->fakehost: a host, or a title
  ident,     \* hi->fakeident
  auth,      \* user->handle_info
  shown,     \* user->fakehost and user->fakeident; NULL: the user's own ident
  outdated   \* the users whose host was right for what their account was

vars == <<name, host, ident, auth, shown, outdated>>

Own == [host |-> NULL, ident |-> NULL]
Init ==
  /\ name = [a \in Accounts |-> NULL] /\ host = name /\ ident = name
  /\ auth = [u \in Users |-> NULL] /\ shown = [u \in Users |-> Own] /\ outdated = {}

Sessions(a) == {u \in Users : auth[u] = a}
Fits(n, t)  == Length[n] + Length[t] <= HostLen

\* generate_fakehost: what does not fit is cut off.
Generated(n, h) ==
  IF h = NULL THEN [kind |-> "hidden", of |-> n, with |-> NULL]
  ELSE IF h.kind = "host" THEN [kind |-> "host", of |-> NULL, with |-> h.text]
  ELSE [kind |-> IF Fits(n, h.text) THEN "title" ELSE "cut", of |-> n, with |-> h.text]

View(n, h, i) == [host |-> Generated(n, h), ident |-> i]

\* set_user_handle_info: a login gives the account's host if it has one or if
\* the user may have had one before.
Applies(u, a) == host[a] # NULL \/ ident[a] # NULL \/ auth[u] # NULL

LogIn(u, a) ==
  /\ name[a] # NULL /\ auth[u] # a
  /\ auth' = [auth EXCEPT ![u] = a]
  /\ IF Applies(u, a)
     THEN shown' = [shown EXCEPT ![u] = View(name[a], host[a], ident[a])] /\ outdated' = outdated \ {u}
     ELSE UNCHANGED <<shown, outdated>>
  /\ UNCHANGED <<name, host, ident>>

Register(a, n) ==
  /\ name[a] = NULL /\ \A b \in Accounts : name[b] # n
  /\ name' = [name EXCEPT ![a] = n]
  /\ UNCHANGED <<host, ident, auth, shown, outdated>>

\* Sessions whose host says something about the account.
Dressed(us) == {u \in us : shown[u] # Own}

\* nickserv_unregister_handle.
Unregistered(a) ==
  /\ name' = [name EXCEPT ![a] = NULL] /\ host' = [host EXCEPT ![a] = NULL]
  /\ ident' = [ident EXCEPT ![a] = NULL]
Unregister(a) ==
  /\ name[a] # NULL /\ Unregistered(a)
  /\ auth' = [u \in Users |-> IF auth[u] = a THEN NULL ELSE auth[u]]
  /\ outdated' = outdated \cup Dressed(Sessions(a)) /\ UNCHANGED shown

\* DelUser.
Quit(u) ==
  /\ auth[u] # NULL \/ shown[u] # Own
  /\ auth' = [auth EXCEPT ![u] = NULL] /\ shown' = [shown EXCEPT ![u] = Own]
  /\ outdated' = outdated \ {u} /\ UNCHANGED <<name, host, ident>>

\* apply_fakehost, for the whole account.
Apply(a, h, i) ==
  /\ host' = [host EXCEPT ![a] = h] /\ ident' = [ident EXCEPT ![a] = i]
  /\ shown' = [u \in Users |-> IF auth[u] = a THEN View(name[a], h, i) ELSE shown[u]]
  /\ outdated' = outdated \ Sessions(a)
  /\ UNCHANGED <<name, auth>>

MayOset(s, a) == s \in Staff /\ auth[s] # NULL /\ name[a] # NULL

\* opt_title: what must fit is the title with the name of the account of the
\* one who sets it.
Title(s, a, t) == /\ MayOset(s, a) /\ Fits(name[auth[s]], t)
                  /\ Apply(a, [kind |-> "title", text |-> t], ident[a])
NoTitle(s, a) == MayOset(s, a) /\ Length[name[auth[s]]] + 1 <= HostLen /\ Apply(a, NULL, ident[a])

\* opt_fakehost: "*" (NULL) for none; <<i, h>> for ident@host, of which h may
\* be empty.  Without the level for idents nothing changes, and is applied.
Typed(h) == IF h = NULL THEN NULL ELSE [kind |-> "host", text |-> h]
FakeHost(s, a, h) == MayOset(s, a) /\ Apply(a, Typed(h), ident[a])
FakeIdentHost(s, a, i, h) ==
  /\ MayOset(s, a)
  /\ IF s \in Trusted THEN Apply(a, IF h = "" THEN host[a] ELSE Typed(h), i)
     ELSE Apply(a, host[a], ident[a])

\* opt_fakeident.
FakeIdent(s, a, i) == MayOset(s, a) /\ s \in Trusted /\ Apply(a, host[a], i)

\* cmd_rename_handle: here the new name has to fit.
Rename(s, a, n) ==
  /\ MayOset(s, a) /\ \A b \in Accounts : name[b] # n
  /\ host[a] # NULL => (host[a].kind = "title" => Fits(n, host[a].text))
  /\ name' = [name EXCEPT ![a] = n]
  /\ outdated' = outdated \cup {u \in Sessions(a) : shown[u].host # NULL /\ shown[u].host.of # NULL}
  /\ UNCHANGED <<host, ident, auth, shown>>

\* cmd_merge: "This intentionally doesn't set it for users previously attached
\* to hi_to", nor for those who come over.
Or(x, y) == IF x = NULL THEN y ELSE x
Merge(s, from, to) ==
  /\ MayOset(s, from) /\ MayOset(s, to) /\ from # to
  /\ name' = [name EXCEPT ![from] = NULL]
  /\ host' = [host EXCEPT ![from] = NULL, ![to] = Or(@, host[from])]
  /\ ident' = [ident EXCEPT ![from] = NULL, ![to] = Or(@, ident[from])]
  /\ auth' = [u \in Users |-> IF auth[u] = from THEN to ELSE auth[u]]
  /\ outdated' = outdated \cup Dressed(Sessions(from))
       \cup (IF host'[to] # NULL \/ ident'[to] # NULL THEN Sessions(from) ELSE {})
       \cup (IF <<host'[to], ident'[to]>> # <<host[to], ident[to]>> THEN Sessions(to) ELSE {})
  /\ UNCHANGED shown

Next ==
  \/ \E u \in Users, a \in Accounts : LogIn(u, a)
  \/ \E a \in Accounts, n \in Names : Register(a, n)
  \/ \E a \in Accounts : Unregister(a)
  \/ \E u \in Users : Quit(u)
  \/ \E s \in Staff, a \in Accounts :
       \/ \E t \in Titles : Title(s, a, t)
       \/ NoTitle(s, a)
       \/ \E h \in Hosts \cup {NULL} : FakeHost(s, a, h)
       \/ \E i \in Idents \cup {NULL}, h \in Hosts \cup {NULL, ""} : FakeIdentHost(s, a, i, h)
       \/ \E i \in Idents \cup {NULL} : FakeIdent(s, a, i)
       \/ \E n \in Names : Rename(s, a, n)
       \/ \E to \in Accounts : Merge(s, a, to)

Spec == Init /\ [][Next]_vars

-----------------------------------------------------------------------------

\* A session shows what its account's settings say, or nothing where they say
\* nothing, unless its account was renamed, merged or ended since it was given
\* a host; and nobody bears the host of an account they left by a login.
HostsAgree ==
  \A u \in Users \ outdated :
    \/ shown[u] = Own /\ (auth[u] = NULL \/ (host[auth[u]] = NULL /\ ident[auth[u]] = NULL))
    \/ auth[u] # NULL /\ shown[u] = View(name[auth[u]], host[auth[u]], ident[auth[u]])

-----------------------------------------------------------------------------
\* NULL is no name and no account, and nothing with fields; nobody's staff but
\* users.
Sentinel == /\ NULL \notin Accounts \cup Names /\ Staff \subseteq Users
            /\ \A k, o, w : [kind |-> k, of |-> o, with |-> w] # NULL

\* Sessions are of accounts that have a name: whoever ends or is merged takes
\* none along.
SessionsNamed ==
  /\ name \in [Accounts -> Names \cup {NULL}] /\ auth \in [Users -> Accounts \cup {NULL}]
  /\ DOMAIN host = Accounts /\ DOMAIN ident = Accounts /\ DOMAIN shown = Users
  /\ \A u \in Users : auth[u] # NULL => name[auth[u]] # NULL

Inv == SessionsNamed /\ HostsAgree

\* At first nobody is logged in and nothing is shown.
LEMMA HostsInit == Sentinel /\ Init => Inv
BY DEF Sentinel, Init, Inv, SessionsNamed, HostsAgree

\* apply_fakehost gives every session of the account what it says now.
LEMMA ApplyKeeps ==
  ASSUME Sentinel, Inv, NEW a \in Accounts, name[a] # NULL, NEW h, NEW i, Apply(a, h, i)
  PROVE  Inv'
<1>1. SessionsNamed'
  BY DEF Apply, Inv, SessionsNamed
<1>2. HostsAgree'
  BY DEF Apply, Inv, SessionsNamed, HostsAgree, Sessions, Sentinel
<1> QED
  BY <1>1, <1>2 DEF Inv

\* A login gives the new account's host, or finds none to take away.
LEMMA LogInKeeps ==
  ASSUME Sentinel, Inv, NEW u \in Users, NEW a \in Accounts, LogIn(u, a)
  PROVE  Inv'
<1>1. SessionsNamed'
  BY DEF LogIn, Inv, SessionsNamed
<1>2. HostsAgree'
  BY DEF LogIn, Applies, Inv, SessionsNamed, HostsAgree, Sentinel
<1> QED
  BY <1>1, <1>2 DEF Inv

\* The host of an account whose name is part of it is outdated by RENAME.
LEMMA RenameKeeps ==
  ASSUME Sentinel, Inv, NEW s, NEW a \in Accounts, NEW n \in Names, Rename(s, a, n)
  PROVE  Inv'
<1>1. SessionsNamed'
  BY DEF Rename, MayOset, Inv, SessionsNamed, Sentinel
<1>2. ASSUME NEW u \in Users \ outdated', auth[u] = a PROVE
        \/ shown[u] = Own /\ host[a] = NULL /\ ident[a] = NULL
        \/ shown[u] = View(n, host[a], ident[a])
  <2>1. CASE shown[u] = Own /\ host[a] = NULL /\ ident[a] = NULL
    BY <2>1
  <2>2. CASE shown[u] = View(name[a], host[a], ident[a])
    <3>1. shown[u].host = Generated(name[a], host[a])
      BY <2>2 DEF View
    <3>2. shown[u].host = NULL \/ shown[u].host.of = NULL
      BY <1>2 DEF Rename, Sessions
    <3>3. name[a] # NULL
      BY DEF Rename, MayOset
    <3>4. Generated(name[a], host[a]) = Generated(n, host[a])
      BY <3>1, <3>2, <3>3 DEF Generated, Sentinel
    <3> QED
      BY <2>2, <3>4 DEF View
  <2> QED
    BY <1>2, <2>1, <2>2 DEF Rename, Inv, HostsAgree, SessionsNamed, Sentinel
<1>3. HostsAgree'
  <2> SUFFICES ASSUME NEW u \in Users \ outdated'
               PROVE  \/ shown[u] = Own /\ (auth[u] = NULL \/ (host[auth[u]] = NULL /\ ident[auth[u]] = NULL))
                      \/ auth[u] # NULL /\ shown[u] = View(name'[auth[u]], host[auth[u]], ident[auth[u]])
    BY DEF Rename, HostsAgree, View, Generated, Fits
  <2>1. CASE auth[u] = a
    BY <1>2, <2>1 DEF Rename, Inv, SessionsNamed, Sentinel
  <2>2. CASE auth[u] # a
    BY <2>2 DEF Rename, Inv, SessionsNamed, HostsAgree, Sentinel
  <2> QED
    BY <2>1, <2>2
<1> QED
  BY <1>1, <1>3 DEF Inv

\* MERGE outdates the hosts of whoever comes over, and of the target's sessions
\* if it gets another host.
LEMMA MergeKeeps ==
  ASSUME Sentinel, Inv, NEW s, NEW a \in Accounts, NEW to \in Accounts, Merge(s, a, to)
  PROVE  Inv'
<1>1. SessionsNamed'
  BY DEF Merge, MayOset, Inv, SessionsNamed, Sentinel
<1>2. HostsAgree'
  <2> SUFFICES ASSUME NEW u \in Users \ outdated'
               PROVE  \/ shown[u] = Own /\ (auth'[u] = NULL \/ (host'[auth'[u]] = NULL /\ ident'[auth'[u]] = NULL))
                      \/ auth'[u] # NULL /\ shown[u] = View(name'[auth'[u]], host'[auth'[u]], ident'[auth'[u]])
    BY DEF Merge, HostsAgree, View, Generated, Fits
  <2>1. CASE auth[u] = a
    BY <2>1 DEF Merge, Inv, SessionsNamed, HostsAgree, Sessions, Dressed, Sentinel
  <2>2. CASE auth[u] = to
    <3>1. host'[to] = host[to] /\ ident'[to] = ident[to] /\ name'[to] = name[to] /\ auth'[u] = to
      BY <2>2 DEF Merge, Inv, SessionsNamed, Sessions
    <3> QED
      BY <2>2, <3>1 DEF Merge, Inv, SessionsNamed, HostsAgree, Sentinel
  <2>3. CASE auth[u] \notin {a, to}
    BY <2>3 DEF Merge, Inv, SessionsNamed, HostsAgree, Sentinel
  <2> QED
    BY <2>1, <2>2, <2>3
<1> QED
  BY <1>1, <1>2 DEF Inv

\* Every step keeps sessions named and their hosts right.
LEMMA HostsNext == Sentinel /\ Inv /\ [Next]_vars => Inv'
<1> SUFFICES ASSUME Sentinel, Inv, [Next]_vars PROVE Inv'
  OBVIOUS
<1>1. ASSUME NEW u \in Users, NEW a \in Accounts, LogIn(u, a) PROVE Inv'
  BY <1>1, LogInKeeps
<1>2. ASSUME NEW a \in Accounts, NEW n \in Names, Register(a, n) PROVE Inv'
  <2>1. SessionsNamed'
    BY <1>2 DEF Register, Inv, SessionsNamed, Sentinel
  <2>2. \A u \in Users : auth[u] # NULL => name'[auth[u]] = name[auth[u]]
    BY <1>2 DEF Register, Inv, SessionsNamed, Sentinel
  <2>3. HostsAgree'
    BY <1>2, <2>2 DEF Register, Inv, SessionsNamed, HostsAgree, View, Generated, Fits
  <2> QED
    BY <2>1, <2>3 DEF Inv
<1>3. ASSUME NEW a \in Accounts, Unregister(a) PROVE Inv'
  <2>1. SessionsNamed'
    BY <1>3 DEF Unregister, Unregistered, Inv, SessionsNamed, Sentinel
  <2>2. HostsAgree'
    BY <1>3 DEF Unregister, Unregistered, Dressed, Sessions, Inv, SessionsNamed, HostsAgree, Sentinel
  <2> QED
    BY <2>1, <2>2 DEF Inv
<1>4. ASSUME NEW u \in Users, Quit(u) PROVE Inv'
  BY <1>4 DEF Quit, Inv, SessionsNamed, HostsAgree
<1>5. ASSUME NEW s \in Staff, NEW a \in Accounts, NEW h, NEW i, MayOset(s, a), Apply(a, h, i) PROVE Inv'
  BY <1>5, ApplyKeeps DEF MayOset
<1>6. ASSUME NEW s \in Staff, NEW a \in Accounts, NEW t \in Titles, Title(s, a, t) PROVE Inv'
  BY <1>5, <1>6 DEF Title
<1>7. ASSUME NEW s \in Staff, NEW a \in Accounts, NoTitle(s, a) PROVE Inv'
  BY <1>5, <1>7 DEF NoTitle
<1>8. ASSUME NEW s \in Staff, NEW a \in Accounts, NEW h, FakeHost(s, a, h) PROVE Inv'
  BY <1>5, <1>8 DEF FakeHost
<1>9. ASSUME NEW s \in Staff, NEW a \in Accounts, NEW i, NEW h, FakeIdentHost(s, a, i, h) PROVE Inv'
  BY <1>5, <1>9 DEF FakeIdentHost
<1>10. ASSUME NEW s \in Staff, NEW a \in Accounts, NEW i, FakeIdent(s, a, i) PROVE Inv'
  BY <1>5, <1>10 DEF FakeIdent
<1>11. ASSUME NEW s \in Staff, NEW a \in Accounts, NEW n \in Names, Rename(s, a, n) PROVE Inv'
  BY <1>11, RenameKeeps
<1>12. ASSUME NEW s \in Staff, NEW a \in Accounts, NEW to \in Accounts, Merge(s, a, to) PROVE Inv'
  BY <1>12, MergeKeeps
<1>13. CASE UNCHANGED vars
  BY <1>13 DEF vars, Inv, SessionsNamed, HostsAgree, View, Generated, Fits
<1> QED
  BY <1>1, <1>2, <1>3, <1>4, <1>6, <1>7, <1>8, <1>9, <1>10, <1>11, <1>12, <1>13 DEF Next

\* HostsAgree for every number of users and accounts, whatever names, titles,
\* hosts and idents there are.
THEOREM HostsAreRight == Sentinel => (Spec => []HostsAgree)
<1> SUFFICES ASSUME Sentinel PROVE Spec => []HostsAgree
  OBVIOUS
<1>1. Inv => HostsAgree
  BY DEF Inv
<1> QED
  BY <1>1, HostsInit, HostsNext, PTL DEF Spec
=============================================================================
