----------------------- MODULE NickServSessions_proofs -----------------------
(***************************************************************************)
(* Proofs about NickServSessions for any number of users, accounts,        *)
(* support channels and bound commands: type correctness, that the two     *)
(* ends of every session agree, and that levels rise only by permission.   *)
(* Without cmd_merge: the helper list, suspensions and overrides; without  *)
(* the commands that re-log a stamped connection, its stamp.               *)
(***************************************************************************)
EXTENDS NickServSessions, TLAPS

\* What a login leaves behind when the account it enters is registered: the
\* only session whose ends changed is u's.  Covers both outcomes of the auth
\* callbacks.
LEMMA AuthenticateExact ==
  ASSUME TypeOK, SessionsExact,
         NEW u \in Users, NEW hi \in Handles, NEW doStamp \in BOOLEAN,
         Authenticate(u, hi, doStamp),
         auth[u] # hi,
         hi \in accounts', accounts \subseteq accounts'
  PROVE  SessionsExact'
<1>0. NULL \notin Handles
  BY SessionsAssumption DEF SessionsAssumption
<1>1. CASE LogIn(u, hi, doStamp) /\ online' = online \cup {u}
  <2>1. \A v \in Users, h \in Handles : v \in logins'[h] <=> auth'[v] = h
    BY <1>0, <1>1 DEF LogIn, Unlinked, TypeOK, SessionsExact
  <2>2. \A v \in Users : auth'[v] # NULL => v \in online' /\ auth'[v] \in accounts'
    BY <1>0, <1>1 DEF LogIn, TypeOK, SessionsExact
  <2> QED BY <2>1, <2>2 DEF SessionsExact
<1>2. CASE KilledAtAuth(u, hi)
  <2>1. CASE Unlinked(u)[hi] # {}
    BY <1>2, <2>1 DEF KilledAtAuth, SessionsExact, sessionVars, connVars
  <2>2. CASE Unlinked(u)[hi] = {}
    <3>1. /\ auth' = [auth EXCEPT ![u] = NULL]
          /\ logins' = Unlinked(u)
          /\ online' = online \ {u}
      BY <1>2, <2>2 DEF KilledAtAuth
    <3>2. \A v \in Users, h \in Handles : v \in logins'[h] <=> auth'[v] = h
      BY <1>0, <3>1 DEF Unlinked, TypeOK, SessionsExact
    <3>3. \A v \in Users : auth'[v] # NULL => v \in online' /\ auth'[v] \in accounts'
      BY <3>1 DEF TypeOK, SessionsExact
    <3> QED BY <3>2, <3>3 DEF SessionsExact
  <2> QED BY <2>1, <2>2
<1> QED BY <1>1, <1>2 DEF Authenticate

\* DelUser takes a connection off its account's list before it is gone.
LEMMA DelUserExact ==
  ASSUME TypeOK, SessionsExact, NEW u \in Users, DelUser(u)
  PROVE  SessionsExact'
<1>0. NULL \notin Handles
  BY SessionsAssumption DEF SessionsAssumption
<1>1. /\ online' = online \ {u} /\ accounts' = accounts
  BY DEF DelUser, accountVars
<1>2. CASE auth[u] = NULL
  BY <1>1, <1>2 DEF DelUser, sessionVars, TypeOK, SessionsExact
<1>3. CASE auth[u] # NULL
  <2>1. auth' = [auth EXCEPT ![u] = NULL] /\ logins' = Unlinked(u)
    BY <1>3 DEF DelUser
  <2>2. \A v \in Users, h \in Handles : v \in logins'[h] <=> auth'[v] = h
    BY <1>0, <2>1 DEF Unlinked, TypeOK, SessionsExact
  <2>3. \A v \in Users : auth'[v] # NULL => v \in online' /\ auth'[v] \in accounts'
    BY <1>1, <2>1 DEF TypeOK, SessionsExact
  <2> QED BY <2>2, <2>3 DEF SessionsExact
<1> QED BY <1>2, <1>3

\* Unregistering accounts logs out exactly their sessions.
LEMMA UnregisterExact ==
  ASSUME TypeOK, SessionsExact, NEW hs \in SUBSET Handles, Unregister(hs)
  PROVE  SessionsExact'
<1>0. NULL \notin Handles
  BY SessionsAssumption DEF SessionsAssumption
<1> DEFINE out == UNION {logins[h] : h \in hs}
<1>1. /\ accounts' = accounts \ hs
      /\ auth' = [v \in Users |-> IF v \in out THEN NULL ELSE auth[v]]
      /\ logins' = [h \in Handles |-> IF h \in hs THEN {} ELSE logins[h]]
      /\ online' = online
  BY DEF Unregister, connVars
<1>2. \A v \in Users : v \in out <=> auth[v] \in hs
  BY DEF TypeOK, SessionsExact
<1> HIDE DEF out
<1>3. \A v \in Users, h \in Handles : v \in logins'[h] <=> auth'[v] = h
  BY <1>0, <1>1, <1>2 DEF TypeOK, SessionsExact
<1>4. \A v \in Users : auth'[v] # NULL => v \in online' /\ auth'[v] \in accounts'
  BY <1>1, <1>2 DEF TypeOK, SessionsExact
<1> QED BY <1>3, <1>4 DEF SessionsExact

-----------------------------------------------------------------------------
(* Type correctness.                                                       *)

\* The variables a login or a logout writes stay in their types.
SessionTypes ==
  /\ online \in SUBSET Users /\ clients \in SUBSET Users
  /\ auth \in [Users -> Handles \cup {NULL}]
  /\ logins \in [Handles -> SUBSET Users]
  /\ curr_helpers \in [Users -> 0..MaxEntries]
  /\ flags \in [Handles -> SUBSET AllFlags]
  /\ stale \in SUBSET Handles
  /\ stamp \in [Users -> (Handles \X (0..MaxGen)) \cup {NULL}]
  /\ members \in [SupportChannels -> SUBSET Users]
  /\ crashed \in BOOLEAN

\* Removing a user's entries from curr_helpers never adds one.
LEMMA AfterRemovalType ==
  ASSUME TypeOK, NEW u \in Users, NEW left \in AfterRemoval(u)
  PROVE  left \in 0..MaxEntries
<1>1. curr_helpers[u] \in 0..MaxEntries /\ MaxEntries \in Nat
  BY SessionsAssumption DEF TypeOK, SessionsAssumption
<1>2. CASE IsHelper(u)
  BY <1>1, <1>2 DEF AfterRemoval
<1>3. CASE ~IsHelper(u)
  BY <1>1, <1>3 DEF AfterRemoval
<1> QED BY <1>2, <1>3

\* The flags a login leaves are flags.
LEMMA FlagsAtAuthType ==
  ASSUME TypeOK, NEW u \in Users, NEW hi \in Handles
  PROVE  FlagsAtAuth(u, hi) \in [Handles -> SUBSET AllFlags]
BY DEF TypeOK, FlagsAtAuth, AllFlags

\* The list without u is a list of users.
LEMMA UnlinkedType ==
  ASSUME TypeOK, NEW u \in Users
  PROVE  Unlinked(u) \in [Handles -> SUBSET Users]
BY DEF TypeOK, Unlinked

\* Both outcomes of a login keep the types.
LEMMA AuthenticateType ==
  ASSUME TypeOK, NEW u \in Users, NEW hi \in Handles, NEW doStamp \in BOOLEAN,
         Authenticate(u, hi, doStamp), gen' \in [Handles -> 0..MaxGen]
  PROVE  SessionTypes'
<1>1. CASE LogIn(u, hi, doStamp) /\ online' = online \cup {u}
           /\ clients' = clients \cup {u} /\ UNCHANGED <<members, crashed>>
  <2>1. PICK left \in AfterRemoval(u) :
          curr_helpers' = [curr_helpers EXCEPT ![u] =
                             IF HelperAccount(hi) /\ left = 0 THEN 1 ELSE left]
    BY <1>1 DEF LogIn
  <2>2. left \in 0..MaxEntries /\ 1 \in 0..MaxEntries
    BY AfterRemovalType, SessionsAssumption DEF SessionsAssumption
  <2>3. curr_helpers' \in [Users -> 0..MaxEntries]
    BY <2>1, <2>2 DEF TypeOK
  <2>4. flags' \in [Handles -> SUBSET AllFlags]
    BY <1>1, FlagsAtAuthType DEF LogIn
  <2>5. auth' \in [Users -> Handles \cup {NULL}] /\ logins' \in [Handles -> SUBSET Users]
    BY <1>1, UnlinkedType DEF LogIn, TypeOK
  <2>6. stale' \in SUBSET Handles
    BY <1>1 DEF LogIn, TypeOK
  <2>7. stamp' \in [Users -> (Handles \X (0..MaxGen)) \cup {NULL}]
    BY <1>1 DEF LogIn, TypeOK
  <2> QED BY <1>1, <2>3, <2>4, <2>5, <2>6, <2>7 DEF SessionTypes, TypeOK
<1>2. CASE KilledAtAuth(u, hi) /\ Unlinked(u)[hi] # {}
  BY <1>2 DEF KilledAtAuth, SessionTypes, TypeOK, sessionVars, connVars
<1>3. CASE KilledAtAuth(u, hi) /\ Unlinked(u)[hi] = {}
  <2>1. /\ auth' = [auth EXCEPT ![u] = NULL]
        /\ logins' = Unlinked(u)
        /\ stale' = stale \ {auth[u], hi}
        /\ members' = [c \in SupportChannels |-> members[c] \ {u}]
        /\ stamp' = [stamp EXCEPT ![u] = NULL]
        /\ online' = online \ {u}
        /\ clients' = IF u \in clients THEN clients \ {u} ELSE clients \cup {u}
        /\ crashed' = crashed
    BY <1>3 DEF KilledAtAuth
  <2>2. PICK left \in AfterRemoval(u) :
          \E rest \in IF HelperAccount(hi) THEN 0..(left \div 2) ELSE {left} :
            curr_helpers' = [curr_helpers EXCEPT ![u] = rest]
    BY <1>3 DEF KilledAtAuth
  <2>3. PICK rest \in IF HelperAccount(hi) THEN 0..(left \div 2) ELSE {left} :
          curr_helpers' = [curr_helpers EXCEPT ![u] = rest]
    BY <2>2
  <2>4. left \in 0..MaxEntries /\ MaxEntries \in Nat
    BY AfterRemovalType, SessionsAssumption DEF SessionsAssumption
  <2>5. rest \in 0..MaxEntries
    BY <2>3, <2>4
  <2>6. curr_helpers' \in [Users -> 0..MaxEntries]
    BY <2>3, <2>5 DEF TypeOK
  <2>7. PICK drop \in PartingDropsOverride(u, hi, FlagsAtAuth(u, hi)[hi]) :
          flags' = [FlagsAtAuth(u, hi) EXCEPT ![hi] =
                      IF drop \/ level[hi] = 0 THEN @ \ {"HELPING"} ELSE @]
    BY <1>3 DEF KilledAtAuth
  <2>8. flags' \in [Handles -> SUBSET AllFlags]
    BY <2>7, FlagsAtAuthType
  <2>9. logins' \in [Handles -> SUBSET Users]
    BY <2>1, UnlinkedType
  <2> QED BY <2>1, <2>6, <2>8, <2>9 DEF SessionTypes, TypeOK
<1> QED BY <1>1, <1>2, <1>3 DEF Authenticate

\* A departing connection keeps the types, whatever becomes of its stamp.
LEMMA DelUserType ==
  ASSUME TypeOK, NEW u \in Users, DelUser(u),
         stamp' \in [Users -> (Handles \X (0..MaxGen)) \cup {NULL}]
  PROVE  TypeOK'
<1>1. CASE auth[u] = NULL
  BY <1>1 DEF DelUser, TypeOK, sessionVars, accountVars
<1>2. CASE auth[u] # NULL
  <2>1. /\ auth' = [auth EXCEPT ![u] = NULL]
        /\ logins' = Unlinked(u)
        /\ stale' = stale \ {auth[u]}
    BY <1>2 DEF DelUser
  <2>2. PICK left \in AfterRemoval(u) :
          curr_helpers' = [curr_helpers EXCEPT ![u] = left]
    BY <1>2 DEF DelUser
  <2>3. curr_helpers' \in [Users -> 0..MaxEntries]
    BY <2>2, AfterRemovalType DEF TypeOK
  <2>4. PICK drop \in PartingDropsOverride(u, auth[u], flags[auth[u]]) :
          flags' = [flags EXCEPT ![auth[u]] =
                      IF drop \/ auth[u] \in DropsOverride(u, NULL)
                      THEN @ \ {"HELPING"} ELSE @]
    BY <1>2 DEF DelUser
  <2>5. flags' \in [Handles -> SUBSET AllFlags]
    BY <2>4 DEF TypeOK
  <2>6. /\ online' = online \ {u} /\ clients' = clients \ {u}
        /\ members' = [c \in SupportChannels |-> members[c] \ {u}]
        /\ UNCHANGED <<accountVars, closed, crashed>>
    BY DEF DelUser
  <2> QED BY <2>1, <2>3, <2>5, <2>6, UnlinkedType DEF TypeOK, accountVars
<1> QED BY <1>1, <1>2

\* Unregistering keeps the types.
LEMMA UnregisterType ==
  ASSUME TypeOK, NEW hs \in SUBSET Handles, Unregister(hs)
  PROVE  TypeOK'
<1> DEFINE out == UNION {logins[h] : h \in hs}
<1>1. auth' = [v \in Users |-> IF v \in out THEN NULL ELSE auth[v]]
  BY DEF Unregister
<1>2. auth' \in [Users -> Handles \cup {NULL}]
  BY <1>1 DEF TypeOK
<1>3. curr_helpers' \in [Users -> 0..MaxEntries]
  BY DEF Unregister
<1>4. flags' \in [Handles -> SUBSET AllFlags] /\ level' \in [Handles -> 0..MaxLevel]
  <2>1. 0 \in 0..MaxLevel
    BY SessionsAssumption DEF SessionsAssumption
  <2> QED BY <2>1 DEF Unregister, TypeOK
<1>5. /\ accounts' \in SUBSET Handles
      /\ logins' \in [Handles -> SUBSET Users]
      /\ stale' \in SUBSET Handles
  BY DEF Unregister, TypeOK
<1>6. UNCHANGED <<gen, online, clients, stamp, members, closed, crashed>>
  BY DEF Unregister, connVars, channelVars
<1> QED BY <1>2, <1>3, <1>4, <1>5, <1>6 DEF TypeOK

-----------------------------------------------------------------------------
(* The inductive invariant, one lemma per group of actions.                *)

Inv == TypeOK /\ SessionsExact

\* The actions that leave auth, logins, online and accounts alone.
LEMMA SameSessionsExact ==
  ASSUME SessionsExact, UNCHANGED <<auth, logins, online, accounts>>
  PROVE  SessionsExact'
BY DEF SessionsExact

LEMMA NetworkStep ==
  ASSUME Inv, Network
  PROVE  Inv'
<1> USE DEF Inv
<1>1. ASSUME NEW u \in Users, Connect(u) PROVE Inv'
  <2> DEFINE hi == StampedAccount(stamp[u])
  <2>1. UNCHANGED <<accounts, gen, level, closed>> /\ u \notin online
    BY <1>1 DEF Connect, accountVars
  <2>2. CASE hi # NULL
    <3>1. hi \in accounts /\ hi \in Handles
      BY <2>2 DEF StampedAccount, TypeOK
    <3>2. Authenticate(u, hi, FALSE)
      BY <1>1, <2>2 DEF Connect
    <3>3. auth[u] # hi
      BY <2>1, <2>2 DEF SessionsExact
    <3> HIDE DEF hi
    <3>4. SessionsExact'
      BY <2>1, <3>1, <3>2, <3>3, AuthenticateExact
    <3>5. SessionTypes'
      BY <2>1, <3>1, <3>2, AuthenticateType DEF TypeOK
    <3> QED BY <2>1, <3>4, <3>5 DEF SessionTypes, TypeOK
  <2>3. CASE hi = NULL
    <3>1. /\ online' = online \cup {u} /\ clients' = clients \cup {u}
          /\ UNCHANGED <<sessionVars, stamp, members, crashed>>
      BY <1>1, <2>3 DEF Connect
    <3> QED BY <2>1, <3>1 DEF TypeOK, SessionsExact, sessionVars
  <2> QED BY <2>2, <2>3
<1>2. ASSUME NEW u \in Users, Quit(u) PROVE Inv'
  <2>1. DelUser(u) /\ stamp' \in [Users -> (Handles \X (0..MaxGen)) \cup {NULL}]
    BY <1>2 DEF Quit, TypeOK
  <2> QED BY <2>1, DelUserExact, DelUserType
<1>3. ASSUME NEW u \in Users, NetSplit(u) PROVE Inv'
  <2>1. DelUser(u) /\ stamp' \in [Users -> (Handles \X (0..MaxGen)) \cup {NULL}]
    BY <1>3 DEF NetSplit, TypeOK
  <2> QED BY <2>1, DelUserExact, DelUserType
<1>4. ASSUME NEW u \in Users, NEW h \in Handles, AccountMessage(u, h) PROVE Inv'
  <2> DEFINE hi == StampedAccount(<<h, gen[h]>>)
  <2>1. UNCHANGED <<accounts, gen, level, closed>> /\ u \in online
    BY <1>4 DEF AccountMessage, accountVars
  <2>2. CASE hi # NULL /\ auth[u] # hi
    <3>1. hi \in accounts /\ hi \in Handles
      BY <2>2 DEF StampedAccount, TypeOK
    <3>2. Authenticate(u, hi, TRUE)
      BY <1>4, <2>2 DEF AccountMessage
    <3>3. auth[u] # hi
      BY <2>2
    <3> HIDE DEF hi
    <3>4. SessionsExact'
      BY <2>1, <3>1, <3>2, <3>3, AuthenticateExact
    <3>5. SessionTypes'
      BY <2>1, <3>1, <3>2, AuthenticateType DEF TypeOK
    <3> QED BY <2>1, <3>4, <3>5 DEF SessionTypes, TypeOK
  <2>3. CASE ~(hi # NULL /\ auth[u] # hi)
    <3>1. /\ stamp' = [stamp EXCEPT ![u] = <<h, gen[h]>>]
          /\ UNCHANGED <<sessionVars, online, clients, members, crashed>>
      BY <1>4, <2>3 DEF AccountMessage
    <3> QED BY <2>1, <3>1 DEF TypeOK, SessionsExact, sessionVars
  <2> QED BY <2>2, <2>3
<1>5. ASSUME NEW u \in Users, NEW h \in Handles, LoginOnConnect(u, h) PROVE Inv'
  BY <1>5 DEF LoginOnConnect, TypeOK, SessionsExact, sessionVars, channelVars,
     accountVars
<1>6. ASSUME NEW u \in Users, NEW c \in SupportChannels, Join(u, c) PROVE Inv'
  <2>1. SessionsExact'
    BY <1>6, SameSessionsExact DEF Join, accountVars, connVars
  <2>2. members' \in [SupportChannels -> SUBSET Users]
    BY <1>6 DEF Join, TypeOK
  <2>3. flags' \in [Handles -> SUBSET AllFlags]
    <3>1. {"HELPING"} \subseteq AllFlags
      BY DEF AllFlags
    <3>2. \/ flags' = flags
          \/ flags' = [flags EXCEPT ![auth[u]] = @ \cup {"HELPING"}]
      BY <1>6 DEF Join
    <3> QED BY <3>1, <3>2 DEF TypeOK
  <2> QED BY <1>6, <2>1, <2>2, <2>3 DEF Join, TypeOK, accountVars, connVars
<1>7. ASSUME NEW u \in Users, NEW c \in SupportChannels, Part(u, c) PROVE Inv'
  <2>1. SessionsExact'
    BY <1>7, SameSessionsExact DEF Part, accountVars, connVars
  <2>2. members' \in [SupportChannels -> SUBSET Users]
    BY <1>7 DEF Part, TypeOK
  <2>3. flags' \in [Handles -> SUBSET AllFlags]
    BY <1>7 DEF Part, TypeOK
  <2> QED BY <1>7, <2>1, <2>2, <2>3 DEF Part, TypeOK, accountVars, connVars
<1>8. ASSUME NEW c \in SupportChannels, Close(c) PROVE Inv'
  BY <1>8 DEF Close, TypeOK, SessionsExact, sessionVars, accountVars, connVars
<1> QED BY <1>1, <1>2, <1>3, <1>4, <1>5, <1>6, <1>7, <1>8 DEF Network

\* A fresh registration changes one name's generation and nobody's session.
LEMMA NewAccountType ==
  ASSUME TypeOK, NEW h \in Handles, NewAccount(h)
  PROVE  /\ accounts' \in SUBSET Handles /\ accounts \subseteq accounts'
         /\ h \in accounts' /\ gen' \in [Handles -> 0..MaxGen]
BY SessionsAssumption DEF NewAccount, TypeOK, SessionsAssumption

LEMMA UserCommandStep ==
  ASSUME Inv, UserCommand
  PROVE  Inv'
<1> USE DEF Inv
<1>1. ASSUME NEW u \in Users, NEW h \in Handles,
             h \in accounts, auth[u] # h,
             UNCHANGED <<accountVars, closed>>, Authenticate(u, h, TRUE)
      PROVE  Inv'
  <2>1. SessionsExact'
    BY <1>1, AuthenticateExact DEF accountVars
  <2>2. SessionTypes'
    BY <1>1, AuthenticateType DEF accountVars, TypeOK
  <2> QED BY <1>1, <2>1, <2>2 DEF SessionTypes, TypeOK, accountVars
<1>2. ASSUME NEW u \in Users, NEW h \in Handles, Auth(u, h) PROVE Inv'
  <2>1. auth[u] # h
    BY <1>2, SessionsAssumption DEF Auth, SessionsAssumption
  <2> QED BY <1>1, <1>2, <2>1 DEF Auth
<1>3. ASSUME NEW u \in Users, NEW h \in Handles, Cookie(u, h) PROVE Inv'
  BY <1>1, <1>3 DEF Cookie
<1>4. ASSUME NEW u \in Users, NEW h \in Handles, Register(u, h) PROVE Inv'
  <2>1. auth[u] # h /\ NewAccount(h) /\ Authenticate(u, h, TRUE) /\ closed' = closed
    BY <1>4, SessionsAssumption DEF Register, SessionsAssumption
  <2>2. level' \in [Handles -> 0..MaxLevel]
    BY <1>4, SessionsAssumption DEF Register, TypeOK, SessionsAssumption
  <2>3. SessionsExact'
    BY <2>1, NewAccountType, AuthenticateExact
  <2>4. SessionTypes'
    BY <2>1, NewAccountType, AuthenticateType
  <2> QED BY <2>1, <2>2, <2>3, <2>4, NewAccountType DEF SessionTypes, TypeOK
<1>5. ASSUME NEW u \in Users, UnregisterOwn(u) PROVE Inv'
  <2>1. {auth[u]} \in SUBSET Handles /\ Unregister({auth[u]})
    BY <1>5 DEF UnregisterOwn, TypeOK
  <2> QED BY <2>1, UnregisterExact, UnregisterType
<1>6. ASSUME NEW u \in Users, NEW v \in Users, Ghost(u, v) PROVE Inv'
  <2>1. DelUser(v) /\ stamp' \in [Users -> (Handles \X (0..MaxGen)) \cup {NULL}]
    BY <1>6 DEF Ghost, TypeOK
  <2> QED BY <2>1, DelUserExact, DelUserType
<1>7. ASSUME NEW u \in Users, Vacation(u) PROVE Inv'
  <2>1. SessionsExact'
    BY <1>7, SameSessionsExact DEF Vacation, accountVars, connVars
  <2>2. flags' \in [Handles -> SUBSET AllFlags]
    BY <1>7 DEF Vacation, TypeOK, AllFlags
  <2> QED BY <1>7, <2>1, <2>2 DEF Vacation, TypeOK, accountVars, channelVars, connVars
<1>8. ASSUME NEW u \in Users, God(u) PROVE Inv'
  <2>1. SessionsExact'
    BY <1>8, SameSessionsExact DEF God, accountVars, connVars
  <2>2. flags' \in [Handles -> SUBSET AllFlags]
    BY <1>8 DEF God, TypeOK, AllFlags
  <2> QED BY <1>8, <2>1, <2>2 DEF God, TypeOK, accountVars, channelVars, connVars
<1> QED BY <1>2, <1>3, <1>4, <1>5, <1>6, <1>7, <1>8 DEF UserCommand

LEMMA StaffCommandStep ==
  ASSUME Inv, StaffCommand
  PROVE  Inv'
<1> USE DEF Inv
<1>1. ASSUME NEW s \in Users, NEW v \in Users \cup {NULL}, NEW h \in Handles,
             Oregister(s, v, h)
      PROVE  Inv'
  <2>1. NewAccount(h) /\ UNCHANGED <<level, closed>>
    BY <1>1 DEF Oregister
  <2>2. CASE v = NULL
    <3>1. UNCHANGED <<sessionVars, connVars, members, crashed>>
      BY <1>1, <2>2 DEF Oregister
    <3> QED BY <2>1, <3>1, NewAccountType
            DEF TypeOK, SessionsExact, sessionVars, connVars
  <2>3. CASE v # NULL
    <3>1. v \in Users /\ auth[v] # h /\ Authenticate(v, h, TRUE)
      BY <1>1, <2>3, SessionsAssumption DEF Oregister, SessionsAssumption
    <3>2. SessionsExact'
      BY <2>1, <3>1, NewAccountType, AuthenticateExact
    <3>3. SessionTypes'
      BY <2>1, <3>1, NewAccountType, AuthenticateType
    <3> QED BY <2>1, <3>2, <3>3, NewAccountType DEF SessionTypes, TypeOK
  <2> QED BY <2>2, <2>3
<1>2. ASSUME NEW s \in Users, NEW h \in Handles,
             NEW added \in SUBSET Settable, NEW removed \in SUBSET Settable,
             OsetFlags(s, h, added, removed)
      PROVE  Inv'
  <2>1. UNCHANGED <<auth, logins, stale, accountVars, channelVars, connVars, crashed>>
    BY <1>2 DEF OsetFlags
  <2>2. SessionsExact'
    BY <2>1, SameSessionsExact DEF accountVars, connVars
  <2>3. (flags[h] \cup added) \ removed \in SUBSET AllFlags
    BY SessionsAssumption DEF TypeOK, SessionsAssumption
  <2>4. flags' \in [Handles -> SUBSET AllFlags]
    BY <1>2, <2>3 DEF OsetFlags, TypeOK
  <2>5. curr_helpers' \in [Users -> 0..MaxEntries]
    <3> DEFINE after  == ((flags[h] \cup added) \ removed) \cap HelperFlags
               before == flags[h] \cap HelperFlags
    <3>1. CASE after # {} /\ before = {}
      <4>1. /\ \A u \in logins[h] : curr_helpers[u] < MaxEntries
            /\ curr_helpers' = [u \in Users |->
                 IF u \in logins[h] THEN curr_helpers[u] + 1 ELSE curr_helpers[u]]
        BY <1>2, <3>1 DEF OsetFlags
      <4> QED BY <4>1, SessionsAssumption DEF TypeOK, SessionsAssumption
    <3>2. CASE after = {} /\ before # {}
      BY <1>2, <3>2 DEF OsetFlags
    <3>3. CASE ~(after # {} /\ before = {}) /\ ~(after = {} /\ before # {})
      <4>1. UNCHANGED curr_helpers
        BY <1>2, <3>3 DEF OsetFlags
      <4> QED BY <4>1 DEF TypeOK
    <3> QED BY <3>1, <3>2, <3>3
  <2> QED BY <2>1, <2>2, <2>4, <2>5 DEF TypeOK, accountVars, channelVars, connVars
<1>3. ASSUME NEW s \in Users, NEW h \in Handles, NEW new \in 0..MaxLevel,
             OsetLevel(s, h, new)
      PROVE  Inv'
  BY <1>3 DEF OsetLevel, TypeOK, SessionsExact, sessionVars, channelVars, connVars
<1>4. ASSUME NEW s \in Users, NEW h \in Handles, Ounregister(s, h) PROVE Inv'
  <2>1. {h} \in SUBSET Handles /\ Unregister({h})
    BY <1>4 DEF Ounregister
  <2> QED BY <2>1, UnregisterExact, UnregisterType
<1>5. ASSUME NEW s \in Users, NEW hf \in Handles, NEW ht \in Handles,
             Merge(s, hf, ht)
      PROVE  Inv'
  <2>1. /\ hf # ht /\ ht \in accounts
        /\ auth' = [u \in Users |-> IF u \in logins[hf] THEN ht ELSE auth[u]]
        /\ logins' = [logins EXCEPT ![ht] = @ \cup logins[hf], ![hf] = {}]
        /\ accounts' = accounts \ {hf}
        /\ UNCHANGED <<curr_helpers, gen, connVars, channelVars, crashed>>
    BY <1>5 DEF Merge, MayTarget
  <2>2. \A u \in Users, h \in Handles : u \in logins'[h] <=> auth'[u] = h
    BY <2>1 DEF TypeOK, SessionsExact
  <2>3. \A u \in Users : auth'[u] # NULL => u \in online' /\ auth'[u] \in accounts'
    <3> TAKE u \in Users
    <3>1. online' = online
      BY <2>1 DEF connVars
    <3>2. CASE u \in logins[hf]
      <4>1. auth[u] = hf /\ auth'[u] = ht /\ u \in online
        BY <2>1, <3>2, SessionsAssumption DEF SessionsExact, SessionsAssumption
      <4> QED BY <2>1, <3>1, <4>1
    <3>3. CASE u \notin logins[hf]
      <4>1. auth[u] # hf /\ auth'[u] = auth[u]
        BY <2>1, <3>3 DEF SessionsExact
      <4> QED BY <2>1, <3>1, <4>1 DEF SessionsExact
    <3> QED BY <3>2, <3>3
  <2>4. /\ auth' \in [Users -> Handles \cup {NULL}]
        /\ logins' \in [Handles -> SUBSET Users]
    BY <2>1 DEF TypeOK
  <2>5. level' \in [Handles -> 0..MaxLevel]
    BY <1>5, SessionsAssumption DEF Merge, MergedLevel, TypeOK, SessionsAssumption
  <2>6. flags' \in [Handles -> SUBSET AllFlags] /\ stale' \in SUBSET Handles
    BY <1>5 DEF Merge, TypeOK
  <2> QED BY <2>1, <2>2, <2>3, <2>4, <2>5, <2>6
          DEF TypeOK, SessionsExact, connVars, channelVars
<1> QED BY <1>1, <1>2, <1>3, <1>4, <1>5 DEF StaffCommand

LEMMA TimeStep ==
  ASSUME Inv, Time
  PROVE  Inv'
<1> USE DEF Inv
<1>1. ASSUME NEW h \in Handles, Age(h) PROVE Inv'
  BY <1>1 DEF Age, TypeOK, SessionsExact, accountVars, channelVars, connVars
<1>2. ASSUME ExpireHandles PROVE Inv'
  <2> DEFINE expired == {h \in accounts : ~Protected(h) /\ h \in stale}
  <2>1. expired \in SUBSET Handles /\ Unregister(expired)
    BY <1>2 DEF ExpireHandles, TypeOK
  <2> QED BY <2>1, UnregisterExact, UnregisterType
<1> QED BY <1>1, <1>2 DEF Time

\* Every reachable state is well typed and no session is seen from one end
\* only: the loops of set_user_handle_info, DelUser, cmd_merge and
\* nickserv_unregister_handle keep user->handle_info and hi->users in step.
THEOREM SessionsCorrect == Spec => []Inv
<1>1. Init => Inv
  <2> SUFFICES ASSUME Init PROVE Inv
    OBVIOUS
  <2>1. TypeOK
    <3>1. 0 \in 0..MaxGen /\ 0 \in 0..MaxLevel /\ 0 \in 0..MaxEntries
      BY SessionsAssumption DEF SessionsAssumption
    <3>2. /\ gen \in [Handles -> 0..MaxGen] /\ level \in [Handles -> 0..MaxLevel]
          /\ curr_helpers \in [Users -> 0..MaxEntries]
      BY <3>1 DEF Init
    <3>3. /\ auth \in [Users -> Handles \cup {NULL}]
          /\ stamp \in [Users -> (Handles \X (0..MaxGen)) \cup {NULL}]
      BY DEF Init
    <3>4. /\ logins \in [Handles -> SUBSET Users]
          /\ flags \in [Handles -> SUBSET AllFlags]
          /\ members \in [SupportChannels -> SUBSET Users]
      BY DEF Init
    <3> QED BY <3>2, <3>3, <3>4 DEF Init, TypeOK
  <2>2. SessionsExact
    BY SessionsAssumption DEF Init, SessionsExact, SessionsAssumption
  <2> QED BY <2>1, <2>2 DEF Inv
<1>2. Inv /\ [Next]_vars => Inv'
  <2> SUFFICES ASSUME Inv, [Next]_vars PROVE Inv'
    OBVIOUS
  <2>1. CASE UNCHANGED vars
    BY <2>1 DEF Inv, TypeOK, SessionsExact, vars, sessionVars, channelVars,
       accountVars, connVars
  <2>2. CASE Next
    BY <2>2, NetworkStep, UserCommandStep, StaffCommandStep, TimeStep DEF Next
  <2> QED BY <2>1, <2>2
<1> QED BY <1>1, <1>2, PTL DEF Spec

\* The type invariant alone.
THEOREM TypeCorrect == Spec => []TypeOK
<1>1. Inv => TypeOK
  BY DEF Inv
<1> QED BY <1>1, SessionsCorrect, PTL

\* The agreement of the two ends of a session alone.
THEOREM SessionsAgree == Spec => []SessionsExact
<1>1. Inv => SessionsExact
  BY DEF Inv
<1> QED BY <1>1, SessionsCorrect, PTL

-----------------------------------------------------------------------------
(* What no step does.                                                      *)

\* A level rises by REGISTER into an empty database, OSET LEVEL or MERGE; the
\* session that gives either of these is of the new level or above.
LEMMA LevelsStep ==
  ASSUME TypeOK, Next, NEW h \in Handles, level'[h] > level[h]
  PROVE  accounts = {} \/ \E s \in Users : auth[s] # NULL /\ level[auth[s]] >= level'[h]
<1>0. /\ MaxLevel \in Nat /\ 0 \in 0..MaxLevel /\ NULL \notin Handles
      /\ level \in [Handles -> 0..MaxLevel] /\ auth \in [Users -> Handles \cup {NULL}]
  BY SessionsAssumption DEF SessionsAssumption, TypeOK
<1>1. level' # level
  BY <1>0
<1>2. CASE \E u \in Users, k \in Handles : Register(u, k)
  BY <1>0, <1>2 DEF Register
<1>3. CASE \E hs \in SUBSET Handles : Unregister(hs)
  BY <1>0, <1>3 DEF Unregister
<1>4. CASE \E s \in Users, k \in Handles, new \in 0..MaxLevel : OsetLevel(s, k, new)
  <2>1. PICK s \in Users, k \in Handles, new \in 0..MaxLevel : OsetLevel(s, k, new)
    BY <1>4
  <2>2. auth[s] \in Handles /\ auth[s] # NULL /\ level' = [level EXCEPT ![k] = new]
        /\ (level[auth[s]] > new \/ (level[auth[s]] = MaxLevel /\ new = MaxLevel))
    BY <1>0, <2>1 DEF OsetLevel, MayTarget
  <2>3. h = k /\ level'[h] = new
    BY <1>0, <2>2
  <2>4. level[auth[s]] >= new
    BY <1>0, <2>2
  <2> QED
    BY <2>2, <2>3, <2>4
<1>5. CASE \E s \in Users, hf, ht \in Handles : Merge(s, hf, ht)
  <2>1. PICK s \in Users, hf \in Handles, ht \in Handles : Merge(s, hf, ht)
    BY <1>5
  <2>2. /\ auth[s] \in Handles /\ auth[s] # NULL /\ OperOutranks(auth[s], hf)
        /\ level' = [level EXCEPT ![hf] = 0, ![ht] = MergedLevel(hf, ht)]
    BY <1>0, <2>1 DEF Merge, MayTarget
  <2>3. h = ht /\ level'[h] = level[hf]
    BY <1>0, <2>2 DEF MergedLevel
  <2>4. level[auth[s]] >= level[hf]
    BY <1>0, <2>2 DEF OperOutranks
  <2> QED
    BY <2>2, <2>3, <2>4
<1>6. CASE UNCHANGED level
  BY <1>1, <1>6
<1> QED
  <2>1. CASE Network
    BY <1>6, <2>1 DEF Network, Connect, Quit, NetSplit, DelUser, AccountMessage, LoginOnConnect, Join, Part, Close, accountVars
  <2>2. CASE UserCommand
    <3>1. CASE \E u \in Users : UnregisterOwn(u)
      <4>1. PICK u \in Users : UnregisterOwn(u)
        BY <3>1
      <4>2. {auth[u]} \in SUBSET Handles /\ Unregister({auth[u]})
        BY <1>0, <4>1 DEF UnregisterOwn
      <4> QED
        BY <1>3, <4>2
    <3>2. CASE ~\E u \in Users : UnregisterOwn(u)
      BY <1>2, <1>6, <2>2, <3>2 DEF UserCommand, Auth, Cookie, Ghost, DelUser, Vacation, God, accountVars
    <3> QED
      BY <3>1, <3>2
  <2>3. CASE StaffCommand
    <3>1. CASE \E s \in Users, k \in Handles : Ounregister(s, k)
      <4>1. PICK s \in Users, k \in Handles : Ounregister(s, k)
        BY <3>1
      <4>2. {k} \in SUBSET Handles /\ Unregister({k})
        BY <4>1 DEF Ounregister
      <4> QED
        BY <1>3, <4>2
    <3>2. CASE ~\E s \in Users, k \in Handles : Ounregister(s, k)
      BY <1>4, <1>5, <1>6, <2>3, <3>2 DEF StaffCommand, Oregister, OsetFlags, accountVars
    <3> QED
      BY <3>1, <3>2
  <2>4. CASE Time
    <3>1. CASE ExpireHandles
      <4>1. \E hs \in SUBSET Handles : Unregister(hs)
        BY <3>1 DEF ExpireHandles, TypeOK
      <4> QED
        BY <1>3, <4>1
    <3> QED
      BY <1>6, <2>4, <3>1 DEF Time, Age, accountVars
  <2> QED
    BY <2>1, <2>2, <2>3, <2>4 DEF Next

\* REGISTER, OSET LEVEL and MERGE give no account a level that no session
\* present has, whichever commands are enabled.
THEOREM NobodyPromotesThemselves == Spec => NoSelfPromotion
<1>1. TypeOK /\ [Next]_vars =>
        [\A h \in Handles : level'[h] > level[h] =>
           \/ accounts = {}
           \/ \E s \in Users : auth[s] # NULL /\ level[auth[s]] >= level'[h]]_vars
  BY LevelsStep
<1> QED
  BY <1>1, TypeCorrect, PTL DEF Spec, NoSelfPromotion

-----------------------------------------------------------------------------
(* The list of helpers.                                                    *)

\* A session of a helper account is on curr_helpers once, and userList_remove
\* takes it off then.
LEMMA AfterRemovalExact ==
  ASSUME TypeOK, HelperListExact, NEW u \in Users, NEW left \in AfterRemoval(u)
  PROVE  left = 0
<1>1. CASE IsHelper(u)
  <2>1. curr_helpers[u] = 1
    BY <1>1 DEF HelperListExact
  <2>2. left \in 0..(1 \div 2)
    BY <1>1, <2>1 DEF AfterRemoval
  <2> QED BY <2>2
<1>2. CASE ~IsHelper(u)
  BY <1>2 DEF AfterRemoval, HelperListExact
<1> QED BY <1>1, <1>2

\* What the list depends on.
SameRoles == \A h \in Handles : HelperAccount(h)' = HelperAccount(h)

\* The actions that change nobody's account and no helper flag.
LEMMA SameHelperList ==
  ASSUME TypeOK, HelperListExact, SameRoles, UNCHANGED <<auth, curr_helpers>>
  PROVE  HelperListExact'
BY DEF TypeOK, HelperListExact, SameRoles, IsHelper

\* One session changes accounts, and its entries are brought up to date.
LEMMA OneSessionHelperList ==
  ASSUME TypeOK, HelperListExact, SameRoles, NEW u \in Users,
         NEW hi \in Handles \cup {NULL}, NEW n,
         auth' = [auth EXCEPT ![u] = hi],
         curr_helpers' = [curr_helpers EXCEPT ![u] = n],
         n = IF hi # NULL /\ HelperAccount(hi) THEN 1 ELSE 0
  PROVE  HelperListExact'
<1> SUFFICES ASSUME NEW v \in Users
             PROVE  curr_helpers'[v] = IF IsHelper(v)' THEN 1 ELSE 0
  BY DEF HelperListExact
<1>0. auth \in [Users -> Handles \cup {NULL}] /\ curr_helpers \in [Users -> 0..MaxEntries]
  BY DEF TypeOK
<1>1. CASE v = u
  <2>1. auth'[v] = hi /\ curr_helpers'[v] = n
    BY <1>0, <1>1
  <2>2. IsHelper(v)' <=> hi # NULL /\ HelperAccount(hi)
    BY <2>1 DEF IsHelper, SameRoles, HelperAccount
  <2> QED BY <2>1, <2>2
<1>2. CASE v # u
  <2>1. auth'[v] = auth[v] /\ curr_helpers'[v] = curr_helpers[v]
    BY <1>0, <1>2
  <2>2. IsHelper(v)' <=> IsHelper(v)
    BY <1>0, <2>1 DEF IsHelper, SameRoles, HelperAccount
  <2> QED BY <2>1, <2>2 DEF HelperListExact
<1> QED BY <1>1, <1>2

\* Logging in touches the override and FROZEN, not the roles.
LEMMA RolesAtAuth ==
  ASSUME TypeOK, NEW u \in Users, NEW hi \in Handles, NEW h \in Handles
  PROVE  FlagsAtAuth(u, hi)[h] \cap HelperFlags = flags[h] \cap HelperFlags
BY DEF FlagsAtAuth, HelperFlags

\* Both outcomes of a login leave the list exact.
LEMMA AuthenticateHelperList ==
  ASSUME TypeOK, HelperListExact, NEW u \in Users, NEW hi \in Handles,
         NEW doStamp \in BOOLEAN, Authenticate(u, hi, doStamp)
  PROVE  HelperListExact'
<1>0. NULL \notin Handles /\ FlagsAtAuth(u, hi) \in [Handles -> SUBSET AllFlags]
  BY SessionsAssumption, FlagsAtAuthType DEF SessionsAssumption
<1>1. CASE LogIn(u, hi, doStamp)
  <2>1. flags' = [FlagsAtAuth(u, hi) EXCEPT ![hi] = @ \ {"FROZEN"}]
        /\ auth' = [auth EXCEPT ![u] = hi]
    BY <1>1 DEF LogIn
  <2>2. SameRoles
    <3> SUFFICES ASSUME NEW h \in Handles
                 PROVE  flags'[h] \cap HelperFlags = flags[h] \cap HelperFlags
      BY DEF SameRoles, HelperAccount
    <3>1. flags'[h] \cap HelperFlags = FlagsAtAuth(u, hi)[h] \cap HelperFlags
      BY <1>0, <2>1 DEF HelperFlags
    <3> QED BY <3>1, RolesAtAuth
  <2>3. PICK left \in AfterRemoval(u) :
          curr_helpers' = [curr_helpers EXCEPT ![u] =
                             IF HelperAccount(hi) /\ left = 0 THEN 1 ELSE left]
    BY <1>1 DEF LogIn
  <2>4. left = 0
    BY AfterRemovalExact
  <2> QED BY <1>0, <2>1, <2>2, <2>3, <2>4, OneSessionHelperList
<1>2. CASE KilledAtAuth(u, hi) /\ Unlinked(u)[hi] # {}
  <2>1. UNCHANGED <<auth, curr_helpers, flags>>
    BY <1>2 DEF KilledAtAuth, sessionVars
  <2> QED BY <2>1, SameHelperList DEF SameRoles, HelperAccount
<1>3. CASE KilledAtAuth(u, hi) /\ Unlinked(u)[hi] = {}
  <2>1. auth' = [auth EXCEPT ![u] = NULL]
    BY <1>3 DEF KilledAtAuth
  <2>2. PICK drop \in PartingDropsOverride(u, hi, FlagsAtAuth(u, hi)[hi]) :
          flags' = [FlagsAtAuth(u, hi) EXCEPT ![hi] =
                      IF drop \/ level[hi] = 0 THEN @ \ {"HELPING"} ELSE @]
    BY <1>3 DEF KilledAtAuth
  <2>3. SameRoles
    <3> SUFFICES ASSUME NEW h \in Handles
                 PROVE  flags'[h] \cap HelperFlags = flags[h] \cap HelperFlags
      BY DEF SameRoles, HelperAccount
    <3>1. flags'[h] \cap HelperFlags = FlagsAtAuth(u, hi)[h] \cap HelperFlags
      BY <1>0, <2>2 DEF HelperFlags
    <3> QED BY <3>1, RolesAtAuth
  <2>4. PICK left \in AfterRemoval(u) :
          \E rest \in IF HelperAccount(hi) THEN 0..(left \div 2) ELSE {left} :
            curr_helpers' = [curr_helpers EXCEPT ![u] = rest]
    BY <1>3 DEF KilledAtAuth
  <2>5. left = 0
    BY AfterRemovalExact
  <2>6. PICK rest \in IF HelperAccount(hi) THEN 0..(left \div 2) ELSE {left} :
          curr_helpers' = [curr_helpers EXCEPT ![u] = rest]
    BY <2>4
  <2>7. rest = 0
    BY <2>5, <2>6
  <2> QED BY <2>1, <2>3, <2>6, <2>7, OneSessionHelperList
<1> QED BY <1>1, <1>2, <1>3 DEF Authenticate

\* A connection that goes is taken off the list.
LEMMA DelUserHelperList ==
  ASSUME TypeOK, HelperListExact, NEW u \in Users, DelUser(u)
  PROVE  HelperListExact'
<1>1. CASE auth[u] = NULL
  <2>1. UNCHANGED <<auth, curr_helpers, flags>>
    BY <1>1 DEF DelUser, sessionVars
  <2> QED BY <2>1, SameHelperList DEF SameRoles, HelperAccount
<1>2. CASE auth[u] # NULL
  <2>1. auth' = [auth EXCEPT ![u] = NULL]
    BY <1>2 DEF DelUser
  <2>2. PICK left \in AfterRemoval(u) :
          curr_helpers' = [curr_helpers EXCEPT ![u] = left]
    BY <1>2 DEF DelUser
  <2>3. PICK drop \in PartingDropsOverride(u, auth[u], flags[auth[u]]) :
          flags' = [flags EXCEPT ![auth[u]] =
                      IF drop \/ auth[u] \in DropsOverride(u, NULL)
                      THEN @ \ {"HELPING"} ELSE @]
    BY <1>2 DEF DelUser
  <2>4. SameRoles
    BY <2>3 DEF SameRoles, HelperAccount, HelperFlags, TypeOK
  <2>5. left = 0
    BY AfterRemovalExact
  <2> QED BY <2>1, <2>2, <2>4, <2>5, OneSessionHelperList
<1> QED BY <1>1, <1>2

\* The sessions of an unregistered account are taken off the list.
LEMMA UnregisterHelperList ==
  ASSUME Inv, HelperListExact, NEW hs \in SUBSET Handles, Unregister(hs)
  PROVE  HelperListExact'
<1> DEFINE out == UNION {logins[h] : h \in hs}
<1>1. /\ auth' = [v \in Users |-> IF v \in out THEN NULL ELSE auth[v]]
      /\ flags' = [h \in Handles |-> IF h \in hs THEN {} ELSE flags[h]]
      /\ \A v \in Users : IF v \in out THEN curr_helpers'[v] \in AfterRemoval(v)
                          ELSE curr_helpers'[v] = curr_helpers[v]
  BY DEF Unregister
<1>2. \A v \in Users : v \in out <=> auth[v] \in hs
  BY DEF Inv, TypeOK, SessionsExact
<1> HIDE DEF out
<1> SUFFICES ASSUME NEW v \in Users
             PROVE  curr_helpers'[v] = IF IsHelper(v)' THEN 1 ELSE 0
  BY DEF HelperListExact
<1>3. CASE v \in out
  <2>1. curr_helpers'[v] = 0
    BY <1>1, <1>3, AfterRemovalExact DEF Inv
  <2>2. ~IsHelper(v)'
    BY <1>1, <1>3 DEF IsHelper
  <2> QED BY <2>1, <2>2
<1>4. CASE v \notin out
  <2>1. curr_helpers'[v] = curr_helpers[v] /\ auth'[v] = auth[v] /\ auth[v] \notin hs
    BY <1>1, <1>2, <1>4
  <2>2. auth[v] \in Handles \cup {NULL}
    BY DEF Inv, TypeOK
  <2>3. IsHelper(v)' <=> IsHelper(v)
    BY <1>1, <2>1, <2>2 DEF IsHelper, HelperAccount
  <2> QED BY <2>1, <2>3 DEF HelperListExact
<1> QED BY <1>3, <1>4

\* OSET FLAGS walks the account's sessions when it becomes, or stops being, a
\* helper's.
LEMMA OsetFlagsHelperList ==
  ASSUME Inv, HelperListExact, NEW s \in Users, NEW h \in Handles,
         NEW added, NEW removed, OsetFlags(s, h, added, removed)
  PROVE  HelperListExact'
<1> DEFINE set    == (flags[h] \cup added) \ removed
           after  == set \cap HelperFlags
           before == flags[h] \cap HelperFlags
<1>0. /\ auth \in [Users -> Handles \cup {NULL}] /\ auth' = auth
      /\ flags \in [Handles -> SUBSET AllFlags]
      /\ \A v \in Users : v \in logins[h] <=> auth[v] = h
      /\ NULL \notin Handles
  BY SessionsAssumption DEF Inv, TypeOK, SessionsExact, OsetFlags, SessionsAssumption
<1>1. PICK f : flags' = [flags EXCEPT ![h] = f] /\ f \in {set, set \ {"HELPING"}}
  BY DEF OsetFlags
<1>2. f \cap HelperFlags = after
  BY <1>1 DEF HelperFlags
<1>3. HelperAccount(h)' <=> after # {}
  BY <1>0, <1>1, <1>2 DEF HelperAccount
<1>4. \A k \in Handles \ {h} : HelperAccount(k)' <=> HelperAccount(k)
  BY <1>0, <1>1 DEF HelperAccount
<1>5. HelperAccount(h) <=> before # {}
  BY DEF HelperAccount
<1> SUFFICES ASSUME NEW v \in Users
             PROVE  curr_helpers'[v] = IF IsHelper(v)' THEN 1 ELSE 0
  BY DEF HelperListExact
<1>6. curr_helpers[v] = IF IsHelper(v) THEN 1 ELSE 0
  BY DEF HelperListExact
<1>7. v \in logins[h] => /\ IsHelper(v) <=> before # {}
                         /\ IsHelper(v)' <=> after # {}
  BY <1>0, <1>3, <1>5 DEF IsHelper
<1>8. v \notin logins[h] => (IsHelper(v)' <=> IsHelper(v))
  BY <1>0, <1>4 DEF IsHelper
<1>9. CASE after # {} /\ before = {}
  <2>1. curr_helpers' = [u \in Users |-> IF u \in logins[h] THEN curr_helpers[u] + 1
                                         ELSE curr_helpers[u]]
    BY <1>9 DEF OsetFlags
  <2>2. curr_helpers'[v] = IF v \in logins[h] THEN curr_helpers[v] + 1 ELSE curr_helpers[v]
    BY <2>1
  <2> HIDE DEF set, after, before
  <2> QED BY <1>6, <1>7, <1>8, <1>9, <2>2
<1>10. CASE after = {} /\ before # {}
  <2>1. IF v \in logins[h] THEN curr_helpers'[v] \in 0..(curr_helpers[v] \div 2)
        ELSE curr_helpers'[v] = curr_helpers[v]
    BY <1>10 DEF OsetFlags
  <2> HIDE DEF set, after, before
  <2>2. CASE v \in logins[h]
    <3>1. curr_helpers[v] = 1 /\ ~IsHelper(v)'
      BY <1>6, <1>7, <1>10, <2>2
    <3>2. curr_helpers'[v] \in 0..(1 \div 2)
      BY <2>1, <2>2, <3>1
    <3>3. curr_helpers'[v] = 0
      BY <3>2
    <3> QED BY <3>1, <3>3
  <2> QED BY <1>6, <1>8, <2>1, <2>2
<1>11. CASE ~(after # {} /\ before = {}) /\ ~(after = {} /\ before # {})
  <2>1. UNCHANGED curr_helpers
    BY <1>11 DEF OsetFlags
  <2> HIDE DEF set, after, before
  <2> QED BY <1>6, <1>7, <1>8, <1>11, <2>1
<1> HIDE DEF set, after, before
<1> QED BY <1>9, <1>10, <1>11

\* One action after the other.
LEMMA HelperListStep ==
  ASSUME Inv, HelperListExact, Next, ~HandedOver \/ "MERGE" \notin Bound
  PROVE  HelperListExact'
<1>0. TypeOK
  BY DEF Inv
<1>1. ASSUME NEW u \in Users, DelUser(u) PROVE HelperListExact'
  BY <1>0, <1>1, DelUserHelperList
<1>2. ASSUME NEW u \in Users, NEW h \in Handles, Authenticate(u, h, TRUE)
      PROVE  HelperListExact'
  BY <1>0, <1>2, AuthenticateHelperList
<1>3. ASSUME NEW hs \in SUBSET Handles, Unregister(hs) PROVE HelperListExact'
  BY <1>3, UnregisterHelperList
<1>4. ASSUME UNCHANGED <<auth, curr_helpers, flags>> PROVE HelperListExact'
  BY <1>0, <1>4, SameHelperList DEF SameRoles, HelperAccount
<1>5. ASSUME UNCHANGED <<auth, curr_helpers>>, NEW h \in Handles,
             \/ flags' = flags
             \/ flags' = [flags EXCEPT ![h] = @ \cup {"HELPING"}]
             \/ flags' = [flags EXCEPT ![h] = @ \ {"HELPING"}]
             \/ flags' = [flags EXCEPT ![h] = @ \cup {"FROZEN"}]
      PROVE  HelperListExact'
  <2>1. SameRoles
    BY <1>0, <1>5 DEF SameRoles, HelperAccount, HelperFlags, TypeOK
  <2> QED BY <1>0, <1>5, <2>1, SameHelperList
<1>6. CASE Network
  <2>1. ASSUME NEW u \in Users, Connect(u) PROVE HelperListExact'
    <3> DEFINE hi == StampedAccount(stamp[u])
    <3>1. CASE hi # NULL
      <4>1. Authenticate(u, hi, FALSE) /\ hi \in Handles
        BY <1>0, <2>1, <3>1 DEF Connect, StampedAccount, TypeOK
      <4> HIDE DEF hi
      <4> QED BY <1>0, <4>1, AuthenticateHelperList
    <3>2. CASE hi = NULL
      BY <1>4, <2>1, <3>2 DEF Connect, sessionVars
    <3> QED BY <3>1, <3>2
  <2>2. ASSUME NEW u \in Users, NEW h \in Handles, AccountMessage(u, h)
        PROVE  HelperListExact'
    <3> DEFINE hi == StampedAccount(<<h, gen[h]>>)
    <3>1. CASE hi # NULL /\ auth[u] # hi
      <4>1. Authenticate(u, hi, TRUE) /\ hi \in Handles
        BY <1>0, <2>2, <3>1 DEF AccountMessage, StampedAccount, TypeOK
      <4> HIDE DEF hi
      <4> QED BY <1>2, <4>1
    <3>2. CASE ~(hi # NULL /\ auth[u] # hi)
      BY <1>4, <2>2, <3>2 DEF AccountMessage, sessionVars
    <3> QED BY <3>1, <3>2
  <2>3. ASSUME NEW u \in Users, NEW c \in SupportChannels, Join(u, c) \/ Part(u, c)
        PROVE  HelperListExact'
    <3>1. CASE flags' = flags
      BY <1>4, <2>3, <3>1 DEF Join, Part
    <3>2. CASE flags' # flags
      <4>1. /\ auth[u] # NULL
            /\ \/ flags' = [flags EXCEPT ![auth[u]] = @ \cup {"HELPING"}]
               \/ flags' = [flags EXCEPT ![auth[u]] = @ \ {"HELPING"}]
            /\ UNCHANGED <<auth, curr_helpers>>
        BY <2>3, <3>2 DEF Join, Part, IsHelper
      <4>2. auth[u] \in Handles
        BY <1>0, <4>1 DEF TypeOK
      <4> QED BY <1>5, <4>1, <4>2
    <3> QED BY <3>1, <3>2
  <2>4. ASSUME NEW u \in Users, NEW h \in Handles, LoginOnConnect(u, h)
        PROVE  HelperListExact'
    BY <1>4, <2>4 DEF LoginOnConnect, sessionVars
  <2>5. ASSUME NEW c \in SupportChannels, Close(c) PROVE HelperListExact'
    BY <1>4, <2>5 DEF Close, sessionVars
  <2> QED BY <1>1, <1>6, <2>1, <2>2, <2>3, <2>4, <2>5 DEF Network, Quit, NetSplit
<1>7. CASE UserCommand
  <2>1. ASSUME NEW u \in Users, Vacation(u) \/ God(u) PROVE HelperListExact'
    <3>1. /\ auth[u] # NULL /\ UNCHANGED <<auth, curr_helpers>>
          /\ \/ flags' = [flags EXCEPT ![auth[u]] = @ \cup {"HELPING"}]
             \/ flags' = [flags EXCEPT ![auth[u]] = @ \ {"HELPING"}]
             \/ flags' = [flags EXCEPT ![auth[u]] = @ \cup {"FROZEN"}]
      BY <1>0, <2>1 DEF Vacation, God, TypeOK
    <3>2. auth[u] \in Handles
      BY <1>0, <3>1 DEF TypeOK
    <3> QED BY <1>5, <3>1, <3>2
  <2>2. ASSUME NEW u \in Users, UnregisterOwn(u) PROVE HelperListExact'
    <3>1. {auth[u]} \in SUBSET Handles /\ Unregister({auth[u]})
      BY <1>0, <2>2 DEF UnregisterOwn, TypeOK
    <3> QED BY <1>3, <3>1
  <2> QED BY <1>1, <1>2, <1>7, <2>1, <2>2
          DEF UserCommand, Auth, Cookie, Register, Ghost
<1>8. CASE StaffCommand
  <2>1. ASSUME NEW s \in Users, NEW v \in Users \cup {NULL}, NEW h \in Handles,
               Oregister(s, v, h)
        PROVE  HelperListExact'
    BY <1>2, <1>4, <2>1 DEF Oregister, sessionVars
  <2>2. ASSUME NEW s \in Users, NEW h \in Handles, NEW new \in 0..MaxLevel,
               OsetLevel(s, h, new)
        PROVE  HelperListExact'
    BY <1>4, <2>2 DEF OsetLevel, sessionVars
  <2>3. ASSUME NEW s \in Users, NEW h \in Handles, Ounregister(s, h)
        PROVE  HelperListExact'
    BY <1>3, <2>3 DEF Ounregister
  <2>4. ASSUME NEW s \in Users, NEW hf \in Handles, NEW ht \in Handles, Merge(s, hf, ht)
        PROVE  HelperListExact'
    <3>1. /\ auth' = [v \in Users |-> IF v \in logins[hf] THEN ht ELSE auth[v]]
          /\ accounts' = accounts \ {hf} /\ hf \in accounts
          /\ curr_helpers' = curr_helpers /\ flags' = [flags EXCEPT ![hf] = {}]
      BY <2>4 DEF Merge, MayTarget
    <3>2. ASSUME NEW v \in Users PROVE auth[v] # hf
      <4>1. SUFFICES ASSUME auth[v] = hf PROVE FALSE
        OBVIOUS
      <4>2. v \in logins[hf]
        BY <4>1 DEF Inv, SessionsExact
      <4>3. auth'[v] = ht /\ ht # NULL
        BY <3>1, <4>2, SessionsAssumption DEF SessionsAssumption
      <4>4. ~HandedOver
        BY <2>4 DEF Merge
      <4> QED BY <3>1, <4>1, <4>3, <4>4 DEF HandedOver
    <3>3. auth' = auth
      BY <1>0, <3>1, <3>2 DEF Inv, SessionsExact, TypeOK
    <3>4. ASSUME NEW v \in Users PROVE IsHelper(v)' <=> IsHelper(v)
      <4>1. CASE auth[v] = NULL
        BY <3>3, <4>1 DEF IsHelper
      <4>2. CASE auth[v] # NULL
        <5>1. auth[v] \in Handles /\ auth[v] # hf
          BY <1>0, <3>2, <4>2 DEF TypeOK
        <5>2. flags'[auth[v]] = flags[auth[v]]
          BY <1>0, <3>1, <5>1 DEF TypeOK
        <5> QED BY <3>3, <5>2 DEF IsHelper, HelperAccount
      <4> QED BY <4>1, <4>2
    <3> QED BY <3>1, <3>4 DEF HelperListExact
  <2> QED BY <1>8, <2>1, <2>2, <2>3, <2>4, OsetFlagsHelperList DEF StaffCommand
<1>9. CASE Time
  <2>1. ASSUME NEW h \in Handles, Age(h) PROVE HelperListExact'
    BY <1>4, <2>1 DEF Age
  <2>2. ASSUME ExpireHandles PROVE HelperListExact'
    BY <1>0, <1>3, <2>2 DEF ExpireHandles, TypeOK
  <2> QED BY <1>9, <2>1, <2>2 DEF Time
<1> QED BY <1>6, <1>7, <1>8, <1>9 DEF Next

\* curr_helpers is exactly the live sessions of helper accounts, once each, as
\* long as no account is merged: cmd_merge moves sessions without touching it.
THEOREM HelperListCorrect ==
  ASSUME "MERGE" \notin Bound PROVE Spec => []HelperListExact
<1>1. Init => HelperListExact
  BY DEF Init, HelperListExact, IsHelper
<1>2. Inv /\ HelperListExact /\ [Next]_vars => HelperListExact'
  <2> SUFFICES ASSUME Inv, HelperListExact, [Next]_vars PROVE HelperListExact'
    OBVIOUS
  <2>1. CASE UNCHANGED vars
    BY <2>1, SameHelperList DEF Inv, vars, sessionVars, SameRoles, HelperAccount
  <2> QED BY <2>1, HelperListStep
<1> QED BY <1>1, <1>2, SessionsCorrect, PTL DEF Spec

-----------------------------------------------------------------------------
(* Stamps.                                                                 *)

\* Whom a stamp names, and the registration it names.
Stamps(st, h) == /\ st # NULL
                 /\ st[1] = h
                 /\ CheckTimestamps => st[2] = gen[h]

\* Nobody enters an account, no session keeps its account without its stamp,
\* and no account with sessions is registered again.
LEMMA SameStamps ==
  ASSUME StampAgrees,
         \A u \in Users : auth'[u] # NULL =>
           /\ auth'[u] = auth[u] /\ stamp'[u] = stamp[u]
           /\ gen'[auth[u]] = gen[auth[u]]
  PROVE  StampAgrees'
BY DEF StampAgrees

\* A login of a connection without a stamp, or with the account's, or one that
\* a kill undoes.
LEMMA AuthenticateStamps ==
  ASSUME TypeOK, StampAgrees, NEW u \in Users, NEW hi \in Handles,
         NEW doStamp \in BOOLEAN, Authenticate(u, hi, doStamp),
         \/ doStamp /\ stamp[u] = NULL
         \/ Stamps(stamp[u], hi) /\ gen' = gen
         \/ auth'[u] # hi,
         \A v \in Users : auth[v] # NULL => gen'[auth[v]] = gen[auth[v]],
         gen' \in [Handles -> 0..MaxGen]
  PROVE  StampAgrees'
<1>0. /\ NULL \notin Handles /\ NULL \notin Handles \X (0..MaxGen)
      /\ auth \in [Users -> Handles \cup {NULL}]
      /\ stamp \in [Users -> (Handles \X (0..MaxGen)) \cup {NULL}]
      /\ gen'[hi] \in 0..MaxGen
  BY SessionsAssumption DEF SessionsAssumption, TypeOK
<1>1. CASE LogIn(u, hi, doStamp)
  <2>1. /\ auth' = [auth EXCEPT ![u] = hi]
        /\ stamp' = IF doStamp /\ stamp[u] = NULL
                    THEN [stamp EXCEPT ![u] = <<hi, gen'[hi]>>] ELSE stamp
    BY <1>1 DEF LogIn
  <2>0. auth'[u] = hi
    BY <1>0, <2>1
  <2> SUFFICES ASSUME NEW v \in Users, auth'[v] # NULL
               PROVE  /\ stamp'[v] # NULL
                      /\ stamp'[v][1] = auth'[v]
                      /\ CheckTimestamps => stamp'[v][2] = gen'[auth'[v]]
    BY DEF StampAgrees
  <2>2. CASE v # u
    <3>1. auth'[v] = auth[v] /\ stamp'[v] = stamp[v]
      BY <1>0, <2>1, <2>2
    <3> QED BY <3>1 DEF StampAgrees
  <2>3. CASE v = u /\ stamp[u] = NULL
    <3>1. doStamp
      BY <2>0, <2>3 DEF Stamps
    <3>2. auth'[u] = hi /\ stamp'[u] = <<hi, gen'[hi]>>
      BY <1>0, <2>1, <2>3, <3>1
    <3>3. <<hi, gen'[hi]>> \in Handles \X (0..MaxGen)
      BY <1>0
    <3> QED BY <1>0, <2>3, <3>2, <3>3
  <2>4. CASE v = u /\ stamp[u] # NULL
    <3>1. auth'[u] = hi /\ stamp'[u] = stamp[u]
      BY <1>0, <2>1, <2>4
    <3> QED BY <2>0, <2>4, <3>1 DEF Stamps
  <2> QED BY <2>2, <2>3, <2>4
<1>2. CASE KilledAtAuth(u, hi) /\ Unlinked(u)[hi] # {}
  BY <1>2, SameStamps DEF KilledAtAuth, sessionVars, connVars
<1>3. CASE KilledAtAuth(u, hi) /\ Unlinked(u)[hi] = {}
  <2>1. auth' = [auth EXCEPT ![u] = NULL] /\ stamp' = [stamp EXCEPT ![u] = NULL]
    BY <1>3 DEF KilledAtAuth
  <2>2. \A v \in Users : auth'[v] # NULL => /\ auth'[v] = auth[v]
                                            /\ stamp'[v] = stamp[v]
    BY <1>0, <2>1
  <2> QED BY <2>2, SameStamps
<1> QED BY <1>1, <1>2, <1>3 DEF Authenticate

\* A connection that goes may lose its stamp; nobody else's changes.
LEMMA DelUserStamps ==
  ASSUME TypeOK, StampAgrees, NEW u \in Users, DelUser(u),
         stamp' \in {stamp, [stamp EXCEPT ![u] = NULL]}
  PROVE  StampAgrees'
<1>0. /\ auth \in [Users -> Handles \cup {NULL}] /\ gen' = gen
      /\ stamp \in [Users -> (Handles \X (0..MaxGen)) \cup {NULL}]
  BY DEF TypeOK, DelUser, accountVars
<1>1. auth' = [auth EXCEPT ![u] = NULL]
  <2>1. CASE auth[u] = NULL
    BY <1>0, <2>1 DEF DelUser, sessionVars
  <2>2. CASE auth[u] # NULL
    BY <2>2 DEF DelUser
  <2> QED BY <2>1, <2>2
<1>2. \A v \in Users : auth'[v] # NULL => auth'[v] = auth[v] /\ stamp'[v] = stamp[v]
  BY <1>0, <1>1
<1> QED BY <1>0, <1>2, SameStamps

\* Logging sessions out disturbs no stamp.
LEMMA UnregisterStamps ==
  ASSUME StampAgrees, NEW hs, Unregister(hs)
  PROVE  StampAgrees'
<1>1. /\ \A v \in Users : auth'[v] # NULL => auth'[v] = auth[v]
      /\ stamp' = stamp /\ gen' = gen
  BY DEF Unregister, connVars
<1> QED BY <1>1, SameStamps

\* A registration changes the generation of an account nobody is logged in to.
LEMMA NewAccountGen ==
  ASSUME Inv, NEW h \in Handles, NewAccount(h), NEW v \in Users, auth[v] # NULL
  PROVE  gen'[auth[v]] = gen[auth[v]]
<1>1. auth[v] \in Handles /\ auth[v] # h
  BY DEF Inv, TypeOK, SessionsExact, NewAccount
<1> QED BY <1>1 DEF Inv, TypeOK, NewAccount

\* What handle_account accepts names the account it finds.
LEMMA StampedAccountNamed ==
  ASSUME TypeOK, NEW st, StampedAccount(st) # NULL
  PROVE  StampedAccount(st) \in Handles /\ Stamps(st, StampedAccount(st))
BY DEF StampedAccount, Stamps, TypeOK

\* One action after the other.
LEMMA StampsStep ==
  ASSUME Inv, StampAgrees, Next,
         ~Relogged \/ {"COOKIE", "OREGISTER", "MERGE"} \cap Bound = {}
  PROVE  StampAgrees'
<1>0. /\ TypeOK /\ auth \in [Users -> Handles \cup {NULL}]
      /\ stamp \in [Users -> (Handles \X (0..MaxGen)) \cup {NULL}]
  BY DEF Inv, TypeOK
<1>1. ASSUME NEW u \in Users, DelUser(u),
             stamp' \in {stamp, [stamp EXCEPT ![u] = NULL]}
      PROVE  StampAgrees'
  BY <1>0, <1>1, DelUserStamps
<1>2. ASSUME NEW hs, Unregister(hs) PROVE StampAgrees'
  BY <1>2, UnregisterStamps
<1>3. ASSUME UNCHANGED <<auth, stamp, gen>> PROVE StampAgrees'
  BY <1>3, SameStamps
<1>4. ASSUME NEW u \in Users, stamp[u] = NULL, NEW st,
             stamp' = [stamp EXCEPT ![u] = st], UNCHANGED <<auth, gen>>
      PROVE  StampAgrees'
  <2>1. auth[u] = NULL
    BY <1>4 DEF StampAgrees
  <2>2. \A v \in Users : auth'[v] # NULL => auth'[v] = auth[v] /\ stamp'[v] = stamp[v]
    BY <1>0, <1>4, <2>1
  <2> QED BY <1>4, <2>2, SameStamps
<1>5. CASE Network
  <2>1. ASSUME NEW u \in Users, Connect(u) PROVE StampAgrees'
    <3> DEFINE hi == StampedAccount(stamp[u])
    <3>1. CASE hi # NULL
      <4>1. Authenticate(u, hi, FALSE) /\ gen' = gen
        BY <2>1, <3>1 DEF Connect, accountVars
      <4>2. hi \in Handles /\ Stamps(stamp[u], hi)
        BY <1>0, <3>1, StampedAccountNamed
      <4>3. gen' \in [Handles -> 0..MaxGen]
        BY <1>0, <4>1 DEF TypeOK
      <4> HIDE DEF hi
      <4> QED BY <1>0, <4>1, <4>2, <4>3, AuthenticateStamps
    <3>2. CASE hi = NULL
      BY <1>3, <2>1, <3>2 DEF Connect, sessionVars, accountVars
    <3> QED BY <3>1, <3>2
  <2>2. ASSUME NEW u \in Users, NEW h \in Handles, AccountMessage(u, h)
        PROVE  StampAgrees'
    <3> DEFINE hi == StampedAccount(<<h, gen[h]>>)
    <3>0. stamp[u] = NULL /\ gen' = gen
      BY <2>2 DEF AccountMessage, accountVars
    <3>1. CASE hi # NULL /\ auth[u] # hi
      <4>1. Authenticate(u, hi, TRUE)
        BY <2>2, <3>1 DEF AccountMessage
      <4>2. hi \in Handles
        BY <1>0, <3>1, StampedAccountNamed
      <4>3. gen' \in [Handles -> 0..MaxGen]
        BY <1>0, <3>0 DEF TypeOK
      <4> HIDE DEF hi
      <4> QED BY <1>0, <3>0, <4>1, <4>2, <4>3, AuthenticateStamps
    <3>2. CASE ~(hi # NULL /\ auth[u] # hi)
      <4>1. stamp' = [stamp EXCEPT ![u] = <<h, gen[h]>>] /\ auth' = auth
        BY <2>2, <3>2 DEF AccountMessage, sessionVars
      <4> QED BY <1>4, <3>0, <4>1
    <3> QED BY <3>1, <3>2
  <2>3. ASSUME NEW u \in Users, NEW h \in Handles, LoginOnConnect(u, h)
        PROVE  StampAgrees'
    BY <1>4, <2>3 DEF LoginOnConnect, sessionVars, accountVars
  <2>4. ASSUME NEW u \in Users, NEW c \in SupportChannels, Join(u, c) \/ Part(u, c)
        PROVE  StampAgrees'
    BY <1>3, <2>4 DEF Join, Part, accountVars, connVars
  <2>5. ASSUME NEW c \in SupportChannels, Close(c) PROVE StampAgrees'
    BY <1>3, <2>5 DEF Close, sessionVars, accountVars, connVars
  <2> QED BY <1>1, <1>5, <2>1, <2>2, <2>3, <2>4, <2>5 DEF Network, Quit, NetSplit
<1>6. CASE UserCommand
  <2>1. ASSUME NEW u \in Users, NEW h \in Handles, Auth(u, h) PROVE StampAgrees'
    <3>1. gen' = gen /\ gen' \in [Handles -> 0..MaxGen]
      BY <1>0, <2>1 DEF Auth, accountVars, TypeOK
    <3>2. stamp[u] = NULL /\ Authenticate(u, h, TRUE)
      BY <2>1 DEF Auth
    <3> QED BY <1>0, <3>1, <3>2, AuthenticateStamps
  <2>2. ASSUME NEW u \in Users, NEW h \in Handles, Register(u, h) PROVE StampAgrees'
    <3>1. stamp[u] = NULL /\ NewAccount(h) /\ Authenticate(u, h, TRUE)
      BY <2>2 DEF Register
    <3>2. gen' \in [Handles -> 0..MaxGen]
      BY <1>0, <3>1, NewAccountType
    <3>3. \A v \in Users : auth[v] # NULL => gen'[auth[v]] = gen[auth[v]]
      BY <3>1, NewAccountGen
    <3> QED BY <1>0, <3>1, <3>2, <3>3, AuthenticateStamps
  <2>3. ASSUME NEW u \in Users, Vacation(u) \/ God(u) PROVE StampAgrees'
    BY <1>3, <2>3 DEF Vacation, God, accountVars, connVars
  <2>4. ASSUME NEW u \in Users, NEW h \in Handles, Cookie(u, h) PROVE StampAgrees'
    <3>1. gen' = gen /\ gen' \in [Handles -> 0..MaxGen]
      BY <1>0, <2>4 DEF Cookie, accountVars, TypeOK
    <3>2. Authenticate(u, h, TRUE) /\ u \in online /\ auth[u] # h /\ ~Relogged
      BY <2>4 DEF Cookie
    <3>3. stamp[u] = NULL \/ auth'[u] # h
      BY <3>2, SessionsAssumption DEF Relogged, SessionsAssumption
    <3> QED BY <1>0, <3>1, <3>2, <3>3, AuthenticateStamps
  <2> QED BY <1>1, <1>2, <1>6, <2>1, <2>2, <2>3, <2>4
          DEF UserCommand, UnregisterOwn, Ghost
<1>7. CASE StaffCommand
  <2>1. ASSUME NEW s \in Users, NEW h \in Handles, NEW added, NEW removed,
               OsetFlags(s, h, added, removed)
        PROVE  StampAgrees'
    BY <1>3, <2>1 DEF OsetFlags, accountVars, connVars
  <2>2. ASSUME NEW s \in Users, NEW h \in Handles, NEW new, OsetLevel(s, h, new)
        PROVE  StampAgrees'
    BY <1>3, <2>2 DEF OsetLevel, sessionVars, connVars
  <2>3. ASSUME NEW s \in Users, NEW v \in Users \cup {NULL}, NEW h \in Handles,
               Oregister(s, v, h)
        PROVE  StampAgrees'
    <3>1. NewAccount(h) /\ gen' \in [Handles -> 0..MaxGen]
      BY <1>0, <2>3, NewAccountType DEF Oregister
    <3>2. \A w \in Users : auth[w] # NULL => gen'[auth[w]] = gen[auth[w]]
      BY <3>1, NewAccountGen
    <3>3. CASE v = NULL
      <4>1. UNCHANGED <<auth, stamp>>
        BY <2>3, <3>3 DEF Oregister, sessionVars, connVars
      <4> QED BY <3>2, <4>1, SameStamps
    <3>4. CASE v # NULL
      <4>1. v \in Users /\ Authenticate(v, h, TRUE) /\ v \in online /\ auth[v] = NULL /\ ~Relogged
        BY <2>3, <3>4 DEF Oregister
      <4>2. stamp[v] = NULL \/ auth'[v] # h
        BY <4>1, SessionsAssumption DEF Relogged, SessionsAssumption
      <4> QED BY <1>0, <3>1, <3>2, <4>1, <4>2, AuthenticateStamps
    <3> QED BY <3>3, <3>4
  <2>4. ASSUME NEW s \in Users, NEW hf \in Handles, NEW ht \in Handles, Merge(s, hf, ht)
        PROVE  StampAgrees'
    <3>1. /\ auth' = [v \in Users |-> IF v \in logins[hf] THEN ht ELSE auth[v]]
          /\ gen' = gen /\ stamp' = stamp /\ hf # ht /\ ~Relogged
      BY <2>4 DEF Merge, connVars
    <3>2. ASSUME NEW v \in Users PROVE v \notin logins[hf]
      <4>1. SUFFICES ASSUME v \in logins[hf] PROVE FALSE
        OBVIOUS
      <4>2. auth[v] = hf /\ hf # NULL /\ ht # NULL
        BY <4>1, SessionsAssumption DEF Inv, SessionsExact, SessionsAssumption
      <4>3. v \in online /\ stamp[v] # NULL
        BY <4>2 DEF Inv, SessionsExact, StampAgrees
      <4>4. auth'[v] = ht
        BY <3>1, <4>1
      <4> QED BY <3>1, <4>2, <4>3, <4>4 DEF Relogged
    <3>3. \A v \in Users : auth'[v] = auth[v]
      BY <3>1, <3>2
    <3> QED BY <3>1, <3>3, SameStamps
  <2> QED BY <1>2, <1>7, <2>1, <2>2, <2>3, <2>4 DEF StaffCommand, Ounregister
<1>8. CASE Time
  BY <1>2, <1>3, <1>8 DEF Time, Age, ExpireHandles, accountVars, connVars
<1> QED BY <1>5, <1>6, <1>7, <1>8 DEF Next

\* NickServ and the IRC server agree on who is logged in, through splits,
\* registrations and the expiry of accounts, as long as no command logs a
\* stamped connection in to another account: COOKIE, OREGISTER and MERGE do.
THEOREM StampsCorrect ==
  ASSUME "COOKIE" \notin Bound, "OREGISTER" \notin Bound, "MERGE" \notin Bound
  PROVE  Spec => []StampAgrees
<1>1. Init => StampAgrees
  BY DEF Init, StampAgrees
<1>2. Inv /\ StampAgrees /\ [Next]_vars => StampAgrees'
  <2> SUFFICES ASSUME Inv, StampAgrees, [Next]_vars PROVE StampAgrees'
    OBVIOUS
  <2>1. CASE UNCHANGED vars
    BY <2>1, SameStamps DEF vars, sessionVars, accountVars, connVars
  <2> QED BY <2>1, StampsStep
<1> QED BY <1>1, <1>2, SessionsCorrect, PTL DEF Spec

\* Whatever commands there are: curr_helpers goes wrong only when an account
\* hands its sessions over, a stamp only when a connection that bears one is
\* logged in to another account.
THEOREM SessionsStayKnown == Spec => SessionsKnown
<1>1. Inv /\ [Next]_vars =>
        [/\ HelperListExact /\ ~HelperListExact' => HandedOver
         /\ StampAgrees /\ ~StampAgrees' => Relogged]_vars
  BY HelperListStep, StampsStep
<1> QED BY <1>1, SessionsCorrect, PTL DEF Spec, SessionsKnown

-----------------------------------------------------------------------------
(* Who may start a session, and with what.                                 *)

\* A step that lets u in to hi, if it lets anybody in to an account: u keeps
\* the override of no earlier session, and hi is not suspended.
Enters(u, hi) ==
  /\ hi \in accounts => ~Suspended(hi)
  /\ level'[hi] = 0 => level[hi] = 0
  /\ \E doStamp \in BOOLEAN : Authenticate(u, hi, doStamp)

\* Nobody enters any account.
NobodyEnters == \A h \in Handles : logins'[h] \subseteq logins[h]

\* The list of an account that u leaves has lost u only.
LEMMA UnlinkedSmaller ==
  ASSUME TypeOK, NEW u \in Users, NEW h \in Handles
  PROVE  Unlinked(u)[h] \subseteq logins[h]
BY DEF TypeOK, Unlinked

\* A login adds at most the user to the one account.
LEMMA EntersOne ==
  ASSUME TypeOK, NEW u \in Users, NEW hi \in Handles, NEW doStamp,
         Authenticate(u, hi, doStamp), NEW h \in Handles
  PROVE  \/ logins'[h] \subseteq logins[h]
         \/ h = hi /\ LogIn(u, hi, doStamp) /\ members' = members
<1>0. logins \in [Handles -> SUBSET Users] /\ Unlinked(u) \in [Handles -> SUBSET Users]
  BY UnlinkedType DEF TypeOK
<1>1. CASE LogIn(u, hi, doStamp) /\ members' = members
  <2>1. logins' = [Unlinked(u) EXCEPT ![hi] = @ \cup {u}]
    BY <1>1 DEF LogIn
  <2>2. h # hi => logins'[h] = Unlinked(u)[h]
    BY <1>0, <2>1
  <2> QED BY <1>1, <2>2, UnlinkedSmaller
<1>2. CASE KilledAtAuth(u, hi)
  <2>1. logins' = logins \/ logins' = Unlinked(u)
    BY <1>2 DEF KilledAtAuth, sessionVars
  <2> QED BY <2>1, UnlinkedSmaller
<1> QED BY <1>1, <1>2 DEF Authenticate

\* The override a login finds switched on is its own.
LEMMA LogInOverride ==
  ASSUME TypeOK, NEW u \in Users, NEW hi \in Handles, NEW doStamp,
         LogIn(u, hi, doStamp), members' = members,
         logins[hi] = {}, level[hi] = 0, "HELPING" \in flags'[hi]
  PROVE  \E c \in SupportChannels : logins'[hi] \cap members'[c] # {}
<1>0. /\ Unlinked(u) \in [Handles -> SUBSET Users] /\ NULL \notin Handles
      /\ FlagsAtAuth(u, hi) \in [Handles -> SUBSET AllFlags]
  BY UnlinkedType, FlagsAtAuthType, SessionsAssumption DEF SessionsAssumption
<1>1. /\ logins' = [Unlinked(u) EXCEPT ![hi] = @ \cup {u}]
      /\ flags' = [FlagsAtAuth(u, hi) EXCEPT ![hi] = @ \ {"FROZEN"}]
  BY DEF LogIn
<1>2. Unlinked(u)[hi] = {}
  BY UnlinkedSmaller
<1>3. hi \in DropsOverride(u, hi)
  BY <1>0, <1>2 DEF DropsOverride
<1>4. "HELPING" \in FlagsAtAuth(u, hi)[hi]
  BY <1>0, <1>1
<1>5. OverrideAtAuth(u, hi)
  BY <1>3, <1>4 DEF FlagsAtAuth
<1>6. PICK c \in SupportChannels : u \in members[c]
  BY <1>5 DEF OverrideAtAuth
<1>7. u \in logins'[hi]
  BY <1>0, <1>1
<1> QED BY <1>6, <1>7

\* An account that does not exist has no staff level.
NoGhostLevel == \A h \in Handles \ accounts : level[h] = 0

\* A connection that goes enters no account.
LEMMA DelUserEnters ==
  ASSUME TypeOK, NEW u \in Users, DelUser(u)
  PROVE  NobodyEnters /\ UNCHANGED accountVars
<1>1. logins' = logins \/ logins' = Unlinked(u)
  BY DEF DelUser, sessionVars
<1> QED BY <1>1, UnlinkedSmaller DEF NobodyEnters, DelUser

\* Neither does unregistering, and it leaves no level behind.
LEMMA UnregisterEnters ==
  ASSUME TypeOK, NoGhostLevel, NEW hs \in SUBSET Handles, Unregister(hs)
  PROVE  NobodyEnters /\ NoGhostLevel'
BY DEF TypeOK, NoGhostLevel, Unregister, NobodyEnters

\* Every step lets in one connection or nobody.
LEMMA EntersStep ==
  ASSUME TypeOK, NoGhostLevel, Next, "MERGE" \notin Bound
  PROVE  /\ NobodyEnters \/ \E u \in Users, hi \in Handles : Enters(u, hi)
         /\ NoGhostLevel'
<1> DEFINE P == /\ NobodyEnters \/ \E u \in Users, hi \in Handles : Enters(u, hi)
                /\ NoGhostLevel'
<1> SUFFICES P
  OBVIOUS
<1>1. ASSUME NEW u \in Users, DelUser(u) PROVE P
  BY <1>1, DelUserEnters DEF NoGhostLevel, accountVars
<1>2. ASSUME NEW hs \in SUBSET Handles, Unregister(hs) PROVE P
  BY <1>2, UnregisterEnters
<1>3. ASSUME UNCHANGED <<logins, accounts, level>> PROVE P
  BY <1>3 DEF NobodyEnters, NoGhostLevel
<1>4. ASSUME NEW u \in Users, NEW h \in Handles, NEW doStamp \in BOOLEAN,
             Authenticate(u, h, doStamp), ~Suspended(h), UNCHANGED accountVars
      PROVE  P
  BY <1>4 DEF Enters, NoGhostLevel, accountVars
<1>5. ASSUME NEW u \in Users, NEW h \in Handles, NewAccount(h),
             Authenticate(u, h, TRUE),
             \/ level' = level
             \/ \E n : level' = [level EXCEPT ![h] = n]
      PROVE  P
  <2>1. h \notin accounts /\ accounts' = accounts \cup {h} /\ level[h] = 0
    BY <1>5 DEF NewAccount, NoGhostLevel
  <2>2. NoGhostLevel'
    BY <1>5, <2>1 DEF NoGhostLevel, TypeOK
  <2>3. Enters(u, h)
    BY <1>5, <2>1 DEF Enters
  <2> QED BY <2>2, <2>3
<1> HIDE DEF P
<1>6. CASE Network
  <2>1. ASSUME NEW u \in Users, Connect(u) PROVE P
    <3> DEFINE hi == StampedAccount(stamp[u])
    <3>1. CASE hi # NULL
      <4>1. /\ Authenticate(u, hi, FALSE) /\ hi \in Handles /\ ~Suspended(hi)
            /\ UNCHANGED accountVars
        BY <2>1, <3>1 DEF Connect, StampedAccount, TypeOK
      <4> HIDE DEF hi
      <4> QED BY <1>4, <4>1
    <3>2. CASE hi = NULL
      BY <1>3, <2>1, <3>2 DEF Connect, sessionVars, accountVars
    <3> QED BY <3>1, <3>2
  <2>2. ASSUME NEW u \in Users, NEW h \in Handles, AccountMessage(u, h) PROVE P
    <3> DEFINE hi == StampedAccount(<<h, gen[h]>>)
    <3>1. CASE hi # NULL /\ auth[u] # hi
      <4>1. /\ Authenticate(u, hi, TRUE) /\ hi \in Handles /\ ~Suspended(hi)
            /\ UNCHANGED accountVars
        BY <2>2, <3>1 DEF AccountMessage, StampedAccount, TypeOK
      <4> HIDE DEF hi
      <4> QED BY <1>4, <4>1
    <3>2. CASE ~(hi # NULL /\ auth[u] # hi)
      BY <1>3, <2>2, <3>2 DEF AccountMessage, sessionVars, accountVars
    <3> QED BY <3>1, <3>2
  <2>3. ASSUME NEW u \in Users, NEW h \in Handles, LoginOnConnect(u, h) PROVE P
    BY <1>3, <2>3 DEF LoginOnConnect, sessionVars, accountVars
  <2>4. ASSUME NEW u \in Users, NEW c \in SupportChannels, Join(u, c) \/ Part(u, c)
        PROVE P
    BY <1>3, <2>4 DEF Join, Part, accountVars
  <2>5. ASSUME NEW c \in SupportChannels, Close(c) PROVE P
    BY <1>3, <2>5 DEF Close, sessionVars, accountVars
  <2> QED BY <1>1, <1>6, <2>1, <2>2, <2>3, <2>4, <2>5 DEF Network, Quit, NetSplit
<1>7. CASE UserCommand
  <2>1. ASSUME NEW u \in Users, NEW h \in Handles, Auth(u, h) \/ Cookie(u, h) PROVE P
    BY <1>4, <2>1 DEF Auth, Cookie
  <2>2. ASSUME NEW u \in Users, NEW h \in Handles, Register(u, h) PROVE P
    <3>1. level' = [level EXCEPT ![h] = IF accounts = {} THEN MaxLevel ELSE 0]
      BY <2>2 DEF Register
    <3>2. \E n : level' = [level EXCEPT ![h] = n]
      BY <3>1
    <3>3. NewAccount(h) /\ Authenticate(u, h, TRUE)
      BY <2>2 DEF Register
    <3> QED BY <1>5, <3>2, <3>3
  <2>3. ASSUME NEW u \in Users, UnregisterOwn(u) PROVE P
    <3>1. {auth[u]} \in SUBSET Handles /\ Unregister({auth[u]})
      BY <2>3 DEF UnregisterOwn, TypeOK
    <3> QED BY <1>2, <3>1
  <2>4. ASSUME NEW u \in Users, Vacation(u) \/ God(u) PROVE P
    BY <1>3, <2>4 DEF Vacation, God, accountVars
  <2> QED BY <1>1, <1>7, <2>1, <2>2, <2>3, <2>4 DEF UserCommand, Ghost
<1>8. CASE StaffCommand
  <2>1. ASSUME NEW s \in Users, NEW v \in Users \cup {NULL}, NEW h \in Handles,
               Oregister(s, v, h)
        PROVE  P
    <3>1. NewAccount(h) /\ level' = level
      BY <2>1 DEF Oregister
    <3>2. CASE v = NULL
      <4>1. logins' = logins
        BY <2>1, <3>2 DEF Oregister, sessionVars
      <4> QED BY <3>1, <4>1 DEF P, NobodyEnters, NoGhostLevel, NewAccount
    <3>3. CASE v # NULL
      BY <1>5, <2>1, <3>1, <3>3 DEF Oregister
    <3> QED BY <3>2, <3>3
  <2>2. ASSUME NEW s \in Users, NEW h \in Handles, NEW added, NEW removed,
               OsetFlags(s, h, added, removed)
        PROVE  P
    BY <1>3, <2>2 DEF OsetFlags, accountVars
  <2>3. ASSUME NEW s \in Users, NEW h \in Handles, NEW new, OsetLevel(s, h, new)
        PROVE  P
    BY <2>3 DEF P, NobodyEnters, NoGhostLevel, OsetLevel, MayTarget, sessionVars, TypeOK
  <2>4. ASSUME NEW s \in Users, NEW h \in Handles, Ounregister(s, h) PROVE P
    BY <1>2, <2>4 DEF Ounregister
  <2> QED BY <1>8, <2>1, <2>2, <2>3, <2>4 DEF StaffCommand, Merge
<1>9. CASE Time
  <2>1. ASSUME NEW h \in Handles, Age(h) PROVE P
    BY <1>3, <2>1 DEF Age, accountVars
  <2>2. ASSUME ExpireHandles PROVE P
    BY <1>2, <2>2 DEF ExpireHandles, TypeOK
  <2> QED BY <1>9, <2>1, <2>2 DEF Time
<1> QED BY <1>6, <1>7, <1>8, <1>9 DEF Next

\* Accounts that are gone keep no level, as long as none is merged.
LEMMA GhostLevels ==
  ASSUME "MERGE" \notin Bound PROVE Spec => [](TypeOK /\ NoGhostLevel)
<1>1. Init => NoGhostLevel
  BY DEF Init, NoGhostLevel
<1>2. TypeOK /\ NoGhostLevel /\ [Next]_vars => NoGhostLevel'
  <2> SUFFICES ASSUME TypeOK, NoGhostLevel, [Next]_vars PROVE NoGhostLevel'
    OBVIOUS
  <2>1. CASE UNCHANGED vars
    BY <2>1 DEF vars, accountVars, NoGhostLevel
  <2> QED BY <2>1, EntersStep
<1> QED BY <1>1, <1>2, TypeCorrect, PTL DEF Spec

\* A suspended account gains no session by AUTH, COOKIE, a stamp or a login on
\* connect, unless accounts are merged: cmd_merge looks at no suspension.
THEOREM SuspendedStayOut ==
  ASSUME "MERGE" \notin Bound PROVE Spec => SuspendedLockout
<1>1. TypeOK /\ NoGhostLevel /\ [Next]_vars =>
        [\A h \in accounts : Suspended(h) => logins'[h] \subseteq logins[h]]_vars
  <2> SUFFICES ASSUME TypeOK, NoGhostLevel, Next, NEW h \in accounts, Suspended(h)
               PROVE  logins'[h] \subseteq logins[h]
    OBVIOUS
  <2>0. h \in Handles
    BY DEF TypeOK
  <2>1. CASE NobodyEnters
    BY <2>0, <2>1 DEF NobodyEnters
  <2>2. ASSUME NEW u \in Users, NEW hi \in Handles, Enters(u, hi)
        PROVE  logins'[h] \subseteq logins[h]
    BY <2>0, <2>2, EntersOne DEF Enters
  <2> QED BY <2>1, <2>2, EntersStep
<1> QED BY <1>1, GhostLevels, PTL DEF Spec, SuspendedLockout

\* The first session of an account without staff level has the override only
\* from a support channel it is on, whichever login it comes by, unless
\* accounts are merged.
THEOREM OverridesNotInherited ==
  ASSUME "MERGE" \notin Bound PROVE Spec => OverrideNotInherited
<1>1. TypeOK /\ NoGhostLevel /\ [Next]_vars =>
        [\A h \in Handles :
           /\ logins[h] = {} /\ logins'[h] # {}
           /\ level'[h] = 0 /\ "HELPING" \in flags'[h]
           => \E c \in SupportChannels : logins'[h] \cap members'[c] # {}]_vars
  <2> SUFFICES ASSUME TypeOK, NoGhostLevel, Next, NEW h \in Handles,
                      logins[h] = {}, logins'[h] # {},
                      level'[h] = 0, "HELPING" \in flags'[h]
               PROVE  \E c \in SupportChannels : logins'[h] \cap members'[c] # {}
    OBVIOUS
  <2>1. PICK u \in Users, hi \in Handles : Enters(u, hi)
    BY EntersStep DEF NobodyEnters
  <2>2. PICK doStamp \in BOOLEAN : Authenticate(u, hi, doStamp)
    BY <2>1 DEF Enters
  <2>3. h = hi /\ LogIn(u, hi, doStamp) /\ members' = members
    BY <2>2, EntersOne
  <2>4. level[hi] = 0
    BY <2>1, <2>3 DEF Enters
  <2> QED BY <2>3, <2>4, LogInOverride
<1> QED BY <1>1, GhostLevels, PTL DEF Spec, OverrideNotInherited
-----------------------------------------------------------------------------
(* The override of support staff.                                          *)

\* Where no command sets the override, no support channel is closed and no
\* session changes accounts.
OverridesOnlyOnChannels ==
  /\ "GOD" \notin Bound /\ "CSUSPEND" \notin Bound /\ "HELPING" \notin Settable
  /\ "COOKIE" \notin Bound /\ "OREGISTER" \notin Bound /\ "MERGE" \notin Bound

\* A session of account h is on a support channel.
OnSupport(h) == \E c \in SupportChannels, v \in Users : v \in members[c] /\ auth[v] = h

\* Members are connections, and a name that is not registered has no flags.
SupportInv == /\ SupportOverrideInChannel /\ closed = {}
              /\ \A c \in SupportChannels : members[c] \subseteq online
              /\ \A h \in Handles \ accounts : flags[h] = {}

\* h needs no session on a support channel.
NeedsNobody(h) ==
  "HELPING" \in flags[h] /\ flags[h] \cap HelperFlags = {"SUPPORT_HELPER"} => OnSupport(h)

\* A connection that is logged in to nothing logs in.
LEMMA AuthenticateOverride ==
  ASSUME Inv, SupportInv, NEW u \in Users, NEW hi \in Handles, NEW doStamp \in BOOLEAN,
         Authenticate(u, hi, doStamp), auth[u] = NULL, closed' = closed,
         hi \in accounts', \A h \in accounts' : h = hi \/ h \in accounts,
         accounts \subseteq accounts'
  PROVE  SupportInv'
<1>0. /\ NULL \notin Handles /\ auth \in [Users -> Handles \cup {NULL}]
      /\ FlagsAtAuth(u, hi) \in [Handles -> SUBSET AllFlags]
      /\ accounts \subseteq Handles
      /\ logins \in [Handles -> SUBSET Users]
      /\ members \in [SupportChannels -> SUBSET Users]
      /\ flags \in [Handles -> SUBSET AllFlags]
  BY SessionsAssumption, FlagsAtAuthType DEF SessionsAssumption, Inv, TypeOK
<1>1. Unlinked(u) = logins
  BY DEF Unlinked
<1>2. \A h \in Handles : NeedsNobody(h)
  BY <1>0 DEF SupportInv, SupportOverrideInChannel, NeedsNobody, OnSupport
<1>3. \A h \in Handles \ {hi} : FlagsAtAuth(u, hi)[h] = flags[h]
  BY <1>0 DEF FlagsAtAuth, DropsOverride
<1>4. CASE LogIn(u, hi, doStamp) /\ online' = online \cup {u} /\ members' = members
  <2>1. auth' = [auth EXCEPT ![u] = hi]
        /\ flags' = [FlagsAtAuth(u, hi) EXCEPT ![hi] = @ \ {"FROZEN"}]
    BY <1>4 DEF LogIn
  <2>2. ASSUME NEW h \in Handles, OnSupport(h) PROVE OnSupport(h)'
    <3>1. PICK c \in SupportChannels, v \in Users : v \in members[c] /\ auth[v] = h
      BY <2>2 DEF OnSupport
    <3>2. v # u
      BY <1>0, <2>2, <3>1
    <3>3. v \in members'[c] /\ auth'[v] = h
      BY <1>0, <1>4, <2>1, <3>1, <3>2
    <3> QED BY <3>3 DEF OnSupport
  <2>3. ASSUME NEW h \in Handles, "HELPING" \in flags'[h],
               flags'[h] \cap HelperFlags = {"SUPPORT_HELPER"}
        PROVE  OnSupport(h)'
    <3>1. CASE h # hi
      <4>1. flags'[h] = flags[h]
        BY <1>0, <1>3, <2>1, <3>1
      <4> QED BY <1>2, <2>2, <2>3, <4>1 DEF NeedsNobody
    <3>2. CASE h = hi /\ OverrideAtAuth(u, hi)
      <4>1. PICK c \in SupportChannels : u \in members[c]
        BY <3>2 DEF OverrideAtAuth
      <4>2. auth'[u] = hi /\ u \in members'[c]
        BY <1>0, <1>4, <2>1, <4>1
      <4> QED BY <3>2, <4>2 DEF OnSupport
    <3>3. CASE h = hi /\ ~OverrideAtAuth(u, hi)
      <4>1. FlagsAtAuth(u, hi)[hi] \in {flags[hi], flags[hi] \ {"HELPING"}}
        BY <3>3 DEF FlagsAtAuth
      <4>2. flags'[hi] = FlagsAtAuth(u, hi)[hi] \ {"FROZEN"}
        BY <1>0, <2>1
      <4>3. "HELPING" \in flags[hi] /\ flags[hi] \cap HelperFlags = {"SUPPORT_HELPER"}
        BY <2>3, <3>3, <4>1, <4>2 DEF HelperFlags
      <4> QED BY <1>2, <2>2, <3>3, <4>3 DEF NeedsNobody
    <3> QED BY <3>1, <3>2, <3>3
  <2>4. \A h \in Handles \ accounts' : flags'[h] = {}
    <3> SUFFICES ASSUME NEW h \in Handles \ accounts' PROVE flags'[h] = {}
      OBVIOUS
    <3>1. h # hi /\ h \notin accounts
      OBVIOUS
    <3>2. flags'[h] = flags[h]
      BY <1>0, <1>3, <2>1, <3>1
    <3> QED BY <3>1, <3>2 DEF SupportInv
  <2>5. \A c \in SupportChannels : members'[c] \subseteq online'
    BY <1>4 DEF SupportInv
  <2>6. accounts' \subseteq Handles
    BY <1>0
  <2>7. SupportOverrideInChannel'
    BY <2>3, <2>6 DEF SupportOverrideInChannel, OnSupport
  <2> QED BY <2>4, <2>5, <2>7 DEF SupportInv
<1>5. CASE KilledAtAuth(u, hi) /\ logins[hi] # {}
  <2>1. UNCHANGED <<flags, auth, members, online>>
    BY <1>1, <1>5 DEF KilledAtAuth, sessionVars, connVars
  <2>2. \A h \in Handles : NeedsNobody(h)'
    BY <1>2, <2>1 DEF NeedsNobody, OnSupport
  <2>3. SupportOverrideInChannel'
    BY <1>0, <2>2 DEF SupportOverrideInChannel, NeedsNobody, OnSupport
  <2> QED BY <2>1, <2>3 DEF SupportInv
<1>6. CASE KilledAtAuth(u, hi) /\ logins[hi] = {}
  <2>1. /\ auth' = [auth EXCEPT ![u] = NULL]
        /\ members' = [c \in SupportChannels |-> members[c] \ {u}]
        /\ online' = online \ {u}
    BY <1>1, <1>6 DEF KilledAtAuth
  <2>2. PICK drop \in PartingDropsOverride(u, hi, FlagsAtAuth(u, hi)[hi]) :
          flags' = [FlagsAtAuth(u, hi) EXCEPT ![hi] =
                      IF drop \/ level[hi] = 0 THEN @ \ {"HELPING"} ELSE @]
    BY <1>1, <1>6 DEF KilledAtAuth
  <2>3. ~OnSupport(hi) /\ \A c \in SupportChannels : ~HandleIn(hi, c, u)
    BY <1>0, <1>6 DEF OnSupport, HandleIn, Inv, SessionsExact, SupportInv
  <2>4. ASSUME NEW h \in Handles, OnSupport(h) PROVE OnSupport(h)'
    <3>1. PICK c \in SupportChannels, v \in Users : v \in members[c] /\ auth[v] = h
      BY <2>4 DEF OnSupport
    <3>2. v # u
      BY <1>0, <2>4, <3>1
    <3>3. v \in members'[c] /\ auth'[v] = h
      BY <1>0, <2>1, <3>1, <3>2
    <3> QED BY <3>3 DEF OnSupport
  <2>5. ASSUME NEW h \in Handles, "HELPING" \in flags'[h],
               flags'[h] \cap HelperFlags = {"SUPPORT_HELPER"}
        PROVE  OnSupport(h)'
    <3>1. CASE h # hi
      <4>1. flags'[h] = flags[h]
        BY <1>0, <1>3, <2>2, <3>1
      <4> QED BY <1>2, <2>4, <2>5, <4>1 DEF NeedsNobody
    <3>2. CASE h = hi
      <4>1. /\ "HELPING" \in FlagsAtAuth(u, hi)[hi] /\ ~drop
            /\ flags'[hi] = FlagsAtAuth(u, hi)[hi]
        BY <1>0, <2>2, <2>5, <3>2
      <4>2. flags[hi] \cap HelperFlags = {"SUPPORT_HELPER"}
        BY <2>5, <3>2, <4>1, RolesAtAuth DEF Inv
      <4>3. "HELPING" \notin flags[hi]
        BY <1>2, <2>3, <4>2 DEF NeedsNobody
      <4>4. OverrideAtAuth(u, hi)
        BY <4>1, <4>3 DEF FlagsAtAuth
      <4>5. PICK c \in SupportChannels : u \in members[c]
        BY <4>4 DEF OverrideAtAuth
      <4>6. {"HELPING", "SUPPORT_HELPER"} \subseteq FlagsAtAuth(u, hi)[hi]
        BY <2>5, <3>2, <4>1 DEF HelperFlags
      <4>7. drop \in {last \notin closed : last \in {d \in SupportChannels : u \in members[d]}}
        BY <2>2, <2>3, <4>5, <4>6 DEF PartingDropsOverride
      <4> QED BY <4>1, <4>7 DEF SupportInv
    <3> QED BY <3>1, <3>2
  <2>6. \A h \in Handles \ accounts' : flags'[h] = {}
    <3> SUFFICES ASSUME NEW h \in Handles \ accounts' PROVE flags'[h] = {}
      OBVIOUS
    <3>1. h # hi /\ h \notin accounts
      OBVIOUS
    <3>2. flags'[h] = flags[h]
      BY <1>0, <1>3, <2>2, <3>1
    <3> QED BY <3>1, <3>2 DEF SupportInv
  <2>7. \A c \in SupportChannels : members'[c] \subseteq online'
    BY <2>1 DEF SupportInv
  <2>8. accounts' \subseteq Handles
    BY <1>0
  <2>9. SupportOverrideInChannel'
    BY <2>5, <2>8 DEF SupportOverrideInChannel, OnSupport
  <2> QED BY <2>6, <2>7, <2>9 DEF SupportInv
<1> QED BY <1>1, <1>4, <1>5, <1>6 DEF Authenticate
\* A step that changes no account, no member and no login, and gives the
\* override to nobody.
LEMMA SameOverride ==
  ASSUME Inv, SupportInv, closed' = closed, accounts' = accounts, online \subseteq online',
         UNCHANGED <<auth, members>>,
         \A h \in Handles : \/ flags'[h] = flags[h]
                            \/ h \in accounts /\ NeedsNobody(h)'
  PROVE  SupportInv'
<1>0. accounts \subseteq Handles
  BY DEF Inv, TypeOK
<1>1. \A h \in Handles : NeedsNobody(h)
  BY <1>0 DEF SupportInv, SupportOverrideInChannel, NeedsNobody, OnSupport
<1>2. \A h \in Handles : NeedsNobody(h)'
  BY <1>1 DEF NeedsNobody, OnSupport
<1>3. SupportOverrideInChannel'
  BY <1>0, <1>2 DEF SupportOverrideInChannel, NeedsNobody, OnSupport
<1> QED BY <1>3 DEF SupportInv

\* Whoever leaves as the last session on the support channels takes the
\* override along.
LEMMA DelUserOverride ==
  ASSUME Inv, SupportInv, NEW u \in Users, DelUser(u)
  PROVE  SupportInv'
<1>0. /\ NULL \notin Handles /\ auth \in [Users -> Handles \cup {NULL}]
      /\ accounts \subseteq Handles
      /\ members \in [SupportChannels -> SUBSET Users]
      /\ flags \in [Handles -> SUBSET AllFlags]
  BY SessionsAssumption DEF SessionsAssumption, Inv, TypeOK
<1>1. \A h \in Handles : NeedsNobody(h)
  BY <1>0 DEF SupportInv, SupportOverrideInChannel, NeedsNobody, OnSupport
<1>2. /\ members' = [c \in SupportChannels |-> members[c] \ {u}]
      /\ online' = online \ {u} /\ closed' = closed /\ accounts' = accounts
  BY DEF DelUser, accountVars
<1>3. \A v \in Users \ {u} : auth'[v] = auth[v]
  BY <1>0 DEF DelUser, sessionVars
<1>4. ASSUME NEW h \in Handles, NEW c \in SupportChannels, NEW v \in Users \ {u},
             v \in members[c], auth[v] = h
      PROVE  OnSupport(h)'
  <2>1. v \in members'[c] /\ auth'[v] = h
    BY <1>2, <1>3, <1>4
  <2> QED BY <2>1 DEF OnSupport
<1>5. ASSUME NEW h \in Handles, h # auth[u] PROVE NeedsNobody(h)' /\ flags'[h] = flags[h]
  <2>1. flags'[h] = flags[h]
    BY <1>0, <1>5 DEF DelUser, sessionVars
  <2>2. ASSUME OnSupport(h) PROVE OnSupport(h)'
    <3>1. PICK c \in SupportChannels, v \in Users : v \in members[c] /\ auth[v] = h
      BY <2>2 DEF OnSupport
    <3>2. v # u
      BY <1>5, <3>1
    <3> QED BY <1>4, <3>1, <3>2
  <2>3. NeedsNobody(h)
    BY <1>1
  <2> QED BY <2>1, <2>2, <2>3 DEF NeedsNobody
<1>6. ASSUME NEW h \in Handles, h = auth[u] PROVE NeedsNobody(h)' /\ h \in accounts
  <2>0. h \in accounts /\ auth[u] # NULL
    BY <1>0, <1>6 DEF Inv, SessionsExact
  <2>1. PICK drop \in PartingDropsOverride(u, h, flags[h]) :
          flags' = [flags EXCEPT ![h] = IF drop \/ h \in DropsOverride(u, NULL)
                                        THEN @ \ {"HELPING"} ELSE @]
    BY <1>6, <2>0 DEF DelUser
  <2>2. ASSUME "HELPING" \in flags'[h], flags'[h] \cap HelperFlags = {"SUPPORT_HELPER"}
        PROVE  OnSupport(h)'
    <3>1. flags'[h] = flags[h] /\ ~drop
      BY <1>0, <2>1, <2>2
    <3>2. {"HELPING", "SUPPORT_HELPER"} \subseteq flags[h]
      BY <2>2, <3>1 DEF HelperFlags
    <3>3. PICK c \in SupportChannels, v \in Users : v \in members[c] /\ auth[v] = h
      BY <1>1, <2>2, <3>1 DEF NeedsNobody, OnSupport
    <3>4. CASE \E d \in SupportChannels : HandleIn(h, d, u)
      <4>1. PICK d \in SupportChannels : HandleIn(h, d, u)
        BY <3>4
      <4>2. PICK w \in Users \ {u} : w \in members[d] /\ auth[w] = h
        BY <1>0, <4>1 DEF HandleIn
      <4> QED BY <1>4, <4>2
    <3>5. CASE v # u
      BY <1>4, <3>3, <3>5
    <3>6. CASE v = u /\ ~\E d \in SupportChannels : HandleIn(h, d, u)
      <4>1. c \in {d \in SupportChannels : u \in members[d]}
        BY <3>3, <3>6
      <4>2. drop \in {last \notin closed : last \in {d \in SupportChannels : u \in members[d]}}
        BY <2>1, <3>2, <3>6, <4>1 DEF PartingDropsOverride
      <4> QED BY <3>1, <4>2 DEF SupportInv
    <3> QED BY <3>4, <3>5, <3>6
  <2> QED BY <2>0, <2>2 DEF NeedsNobody
<1>7. \A h \in Handles : NeedsNobody(h)'
  BY <1>5, <1>6
<1>8. SupportOverrideInChannel'
  BY <1>0, <1>2, <1>7 DEF SupportOverrideInChannel, NeedsNobody, OnSupport
<1>9. \A h \in Handles \ accounts' : flags'[h] = {}
  BY <1>2, <1>5, <1>6 DEF SupportInv
<1>10. \A c \in SupportChannels : members'[c] \subseteq online'
  BY <1>2 DEF SupportInv
<1> QED BY <1>2, <1>8, <1>9, <1>10 DEF SupportInv

\* The sessions of other accounts stay where they are.
LEMMA UnregisterOverride ==
  ASSUME Inv, SupportInv, NEW hs \in SUBSET Handles, Unregister(hs)
  PROVE  SupportInv'
<1> DEFINE out == UNION {logins[h] : h \in hs}
<1>0. /\ auth \in [Users -> Handles \cup {NULL}] /\ accounts \subseteq Handles
      /\ logins \in [Handles -> SUBSET Users]
  BY DEF Inv, TypeOK
<1>1. /\ accounts' = accounts \ hs
      /\ auth' = [v \in Users |-> IF v \in out THEN NULL ELSE auth[v]]
      /\ flags' = [h \in Handles |-> IF h \in hs THEN {} ELSE flags[h]]
      /\ online' = online /\ members' = members /\ closed' = closed
  BY DEF Unregister, connVars, channelVars
<1>2. \A v \in Users : v \in out => auth[v] \in hs
  BY DEF Inv, TypeOK, SessionsExact
<1> HIDE DEF out
<1>3. ASSUME NEW h \in accounts', "HELPING" \in flags'[h],
             flags'[h] \cap HelperFlags = {"SUPPORT_HELPER"}
      PROVE  OnSupport(h)'
  <2>1. h \in accounts /\ h \in Handles /\ h \notin hs /\ flags'[h] = flags[h]
    BY <1>0, <1>1, <1>3
  <2>2. PICK c \in SupportChannels, v \in Users : v \in members[c] /\ auth[v] = h
    BY <1>3, <2>1 DEF SupportInv, SupportOverrideInChannel
  <2>3. v \in members'[c] /\ auth'[v] = h
    BY <1>1, <1>2, <2>1, <2>2
  <2> QED BY <2>3 DEF OnSupport
<1>4. SupportOverrideInChannel'
  BY <1>3 DEF SupportOverrideInChannel, OnSupport
<1> QED BY <1>1, <1>4 DEF SupportInv
\* Entering a support channel, and leaving one.
LEMMA JoinOverride ==
  ASSUME Inv, SupportInv, NEW u \in Users, NEW c \in SupportChannels, Join(u, c)
  PROVE  SupportInv'
<1>0. /\ auth \in [Users -> Handles \cup {NULL}] /\ accounts \subseteq Handles
      /\ members \in [SupportChannels -> SUBSET Users]
      /\ flags \in [Handles -> SUBSET AllFlags]
  BY DEF Inv, TypeOK
<1>1. \A h \in Handles : NeedsNobody(h)
  BY <1>0 DEF SupportInv, SupportOverrideInChannel, NeedsNobody, OnSupport
<1>2. /\ members' = [members EXCEPT ![c] = @ \cup {u}] /\ u \in online
      /\ online' = online /\ closed' = closed /\ accounts' = accounts /\ auth' = auth
  BY DEF Join, accountVars, connVars
<1>3. ASSUME NEW h \in Handles, OnSupport(h) PROVE OnSupport(h)'
  BY <1>0, <1>2, <1>3 DEF OnSupport
<1>4. ASSUME NEW h \in Handles PROVE NeedsNobody(h)' /\ (h \notin accounts => flags'[h] = {})
  <2>1. CASE flags'[h] = flags[h]
    BY <1>1, <1>3, <2>1 DEF NeedsNobody, SupportInv
  <2>2. CASE flags'[h] # flags[h]
    <3>1. h = auth[u] /\ auth[u] # NULL
      BY <1>0, <2>2 DEF Join, IsHelper
    <3>2. u \in members'[c] /\ auth'[u] = h
      BY <1>0, <1>2, <3>1
    <3>3. h \in accounts
      BY <3>1 DEF Inv, SessionsExact
    <3> QED BY <3>2, <3>3 DEF NeedsNobody, OnSupport
  <2> QED BY <2>1, <2>2
<1>5. SupportOverrideInChannel'
  BY <1>0, <1>2, <1>4 DEF SupportOverrideInChannel, NeedsNobody, OnSupport
<1>6. \A d \in SupportChannels : members'[d] \subseteq online'
  BY <1>0, <1>2 DEF SupportInv
<1> QED BY <1>2, <1>4, <1>5, <1>6 DEF SupportInv

LEMMA PartOverride ==
  ASSUME Inv, SupportInv, NEW u \in Users, NEW c \in SupportChannels, Part(u, c)
  PROVE  SupportInv'
<1>0. /\ auth \in [Users -> Handles \cup {NULL}] /\ accounts \subseteq Handles
      /\ members \in [SupportChannels -> SUBSET Users]
      /\ flags \in [Handles -> SUBSET AllFlags]
  BY DEF Inv, TypeOK
<1>1. \A h \in Handles : NeedsNobody(h)
  BY <1>0 DEF SupportInv, SupportOverrideInChannel, NeedsNobody, OnSupport
<1>2. /\ members' = [members EXCEPT ![c] = @ \ {u}]
      /\ online' = online /\ closed' = closed /\ accounts' = accounts /\ auth' = auth
  BY DEF Part, accountVars, connVars
<1>3. ASSUME NEW h \in Handles, h # auth[u], OnSupport(h) PROVE OnSupport(h)'
  <2>1. PICK d \in SupportChannels, v \in Users : v \in members[d] /\ auth[v] = h
    BY <1>3 DEF OnSupport
  <2>2. v \in members'[d] /\ auth'[v] = h
    BY <1>0, <1>2, <1>3, <2>1
  <2> QED BY <2>2 DEF OnSupport
<1>4. ASSUME NEW h \in Handles PROVE NeedsNobody(h)' /\ (h \notin accounts => flags'[h] = {})
  <2>1. CASE h # auth[u]
    <3>1. flags'[h] = flags[h]
      BY <1>0, <2>1 DEF Part
    <3> QED BY <1>1, <1>3, <2>1, <3>1 DEF NeedsNobody, SupportInv
  <2>2. CASE h = auth[u]
    <3>0. h \in accounts /\ auth[u] # NULL
      BY <2>2, SessionsAssumption DEF Inv, SessionsExact, SessionsAssumption
    <3>1. ASSUME "HELPING" \in flags'[h], flags'[h] \cap HelperFlags = {"SUPPORT_HELPER"}
          PROVE  OnSupport(h)'
      <4>1. /\ flags'[h] = flags[h]
            /\ \E d \in SupportChannels : HandleIn(h, d, IF d = c THEN u ELSE NULL)
        <5>1. CASE /\ c \notin closed /\ auth[u] # NULL
                   /\ {"HELPING", "SUPPORT_HELPER"} \subseteq flags[auth[u]]
                   /\ ~\E d \in SupportChannels :
                         HandleIn(auth[u], d, IF d = c THEN u ELSE NULL)
          <6>1. flags' = [flags EXCEPT ![h] = @ \ {"HELPING"}]
            BY <2>2, <5>1 DEF Part
          <6> QED BY <1>0, <3>1, <6>1
        <5>2. CASE ~(/\ c \notin closed /\ auth[u] # NULL
                     /\ {"HELPING", "SUPPORT_HELPER"} \subseteq flags[auth[u]]
                     /\ ~\E d \in SupportChannels :
                           HandleIn(auth[u], d, IF d = c THEN u ELSE NULL))
          <6>1. flags' = flags
            BY <5>2 DEF Part
          <6>2. {"HELPING", "SUPPORT_HELPER"} \subseteq flags[h]
            BY <3>1, <6>1 DEF HelperFlags
          <6> QED BY <2>2, <3>0, <5>2, <6>1, <6>2 DEF SupportInv
        <5> QED BY <5>1, <5>2
      <4>2. PICK d \in SupportChannels : HandleIn(h, d, IF d = c THEN u ELSE NULL)
        BY <4>1
      <4>3. PICK v \in Users : v \in members[d] /\ (d = c => v # u) /\ auth[v] = h
        BY <1>0, <4>2 DEF HandleIn
      <4>4. v \in members'[d] /\ auth'[v] = h
        BY <1>0, <1>2, <4>3
      <4> QED BY <4>4 DEF OnSupport
    <3> QED BY <3>0, <3>1 DEF NeedsNobody
  <2> QED BY <2>1, <2>2
<1>5. SupportOverrideInChannel'
  BY <1>0, <1>2, <1>4 DEF SupportOverrideInChannel, NeedsNobody, OnSupport
<1>6. \A d \in SupportChannels : members'[d] \subseteq online'
  BY <1>0, <1>2 DEF SupportInv
<1> QED BY <1>2, <1>4, <1>5, <1>6 DEF SupportInv

\* nickserv_apply_flags looks for the account on the support channels.
LEMMA OsetFlagsOverride ==
  ASSUME Inv, SupportInv, OverridesOnlyOnChannels, NEW s \in Users, NEW h \in Handles,
         NEW added \in SUBSET Settable, NEW removed \in SUBSET Settable,
         OsetFlags(s, h, added, removed)
  PROVE  SupportInv'
<1> DEFINE set == (flags[h] \cup added) \ removed
           inChan == \E c \in SupportChannels : HandleIn(h, c, NULL)
<1>0. /\ members \in [SupportChannels -> SUBSET Users]
      /\ flags \in [Handles -> SUBSET AllFlags]
  BY DEF Inv, TypeOK
<1>1. flags' = [flags EXCEPT ![h] = IF set \cap HelperFlags = {"SUPPORT_HELPER"} /\ ~inChan
                                    THEN set \ {"HELPING"} ELSE set]
      /\ h \in accounts
  BY DEF OsetFlags, MayTarget
<1>2. UNCHANGED <<auth, members>> /\ online' = online /\ closed' = closed /\ accounts' = accounts
  BY DEF OsetFlags, accountVars, channelVars, connVars
<1>3. inChan => OnSupport(h)'
  BY <1>0, <1>2 DEF HandleIn, OnSupport
<1> HIDE DEF inChan, set
<1>4. NeedsNobody(h)'
  <2>1. CASE set \cap HelperFlags = {"SUPPORT_HELPER"} /\ ~inChan
    BY <1>0, <1>1, <2>1 DEF NeedsNobody
  <2>2. CASE ~(set \cap HelperFlags = {"SUPPORT_HELPER"} /\ ~inChan)
    BY <1>0, <1>1, <1>3, <2>2 DEF NeedsNobody
  <2> QED BY <2>1, <2>2
<1>5. \A k \in Handles \ {h} : flags'[k] = flags[k]
  BY <1>0, <1>1
<1> QED BY <1>1, <1>2, <1>4, <1>5, SameOverride

\* One action after the other.
LEMMA OverrideStep ==
  ASSUME Inv, SupportInv, StampAgrees, OverridesOnlyOnChannels, Next
  PROVE  SupportInv'
<1>0. TypeOK /\ NULL \notin Handles
  BY SessionsAssumption DEF SessionsAssumption, Inv
<1>1. ASSUME NEW u \in Users, DelUser(u) PROVE SupportInv'
  BY <1>1, DelUserOverride
<1>2. ASSUME NEW u \in Users, NEW h \in Handles, NEW doStamp \in BOOLEAN,
             Authenticate(u, h, doStamp), auth[u] = NULL, closed' = closed,
             \/ accounts' = accounts /\ h \in accounts
             \/ NewAccount(h)
      PROVE  SupportInv'
  <2>1. /\ h \in accounts' /\ accounts \subseteq accounts'
        /\ \A k \in accounts' : k = h \/ k \in accounts
    BY <1>2 DEF NewAccount
  <2> QED BY <1>2, <2>1, AuthenticateOverride
<1>3. ASSUME NEW hs \in SUBSET Handles, Unregister(hs) PROVE SupportInv'
  BY <1>3, UnregisterOverride
<1>4. ASSUME UNCHANGED <<auth, members, flags, online, accounts>>, closed' = closed
      PROVE  SupportInv'
  BY <1>4, SameOverride
<1>5. CASE Network
  <2>1. ASSUME NEW u \in Users, Connect(u) PROVE SupportInv'
    <3> DEFINE hi == StampedAccount(stamp[u])
    <3>1. u \notin online /\ auth[u] = NULL /\ closed' = closed /\ accounts' = accounts
      BY <2>1 DEF Connect, accountVars, Inv, SessionsExact
    <3>2. CASE hi # NULL
      <4>1. Authenticate(u, hi, FALSE) /\ hi \in Handles /\ hi \in accounts
        BY <1>0, <2>1, <3>2 DEF Connect, StampedAccount, TypeOK
      <4> HIDE DEF hi
      <4> QED BY <1>2, <3>1, <4>1
    <3>3. CASE hi = NULL
      <4>1. UNCHANGED <<auth, members, flags>> /\ online' = online \cup {u}
        BY <2>1, <3>3 DEF Connect, sessionVars
      <4> QED BY <3>1, <4>1, SameOverride
    <3> QED BY <3>2, <3>3
  <2>2. ASSUME NEW u \in Users, NEW h \in Handles, AccountMessage(u, h)
        PROVE  SupportInv'
    <3> DEFINE hi == StampedAccount(<<h, gen[h]>>)
    <3>1. auth[u] = NULL /\ closed' = closed /\ accounts' = accounts
      BY <2>2 DEF AccountMessage, accountVars, StampAgrees
    <3>2. CASE hi # NULL /\ auth[u] # hi
      <4>1. Authenticate(u, hi, TRUE) /\ hi \in Handles /\ hi \in accounts
        BY <1>0, <2>2, <3>2 DEF AccountMessage, StampedAccount, TypeOK
      <4> HIDE DEF hi
      <4> QED BY <1>2, <3>1, <4>1
    <3>3. CASE ~(hi # NULL /\ auth[u] # hi)
      BY <1>4, <2>2, <3>1, <3>3 DEF AccountMessage, sessionVars
    <3> QED BY <3>2, <3>3
  <2>3. ASSUME NEW u \in Users, NEW h \in Handles, LoginOnConnect(u, h)
        PROVE  SupportInv'
    BY <1>4, <2>3 DEF LoginOnConnect, sessionVars, channelVars, accountVars
  <2>4. ASSUME NEW c \in SupportChannels, Close(c) PROVE SupportInv'
    BY <2>4 DEF Close, OverridesOnlyOnChannels
  <2> QED BY <1>1, <1>5, <2>1, <2>2, <2>3, <2>4, JoinOverride, PartOverride
          DEF Network, Quit, NetSplit
<1>6. CASE UserCommand
  <2>1. ASSUME NEW u \in Users, NEW h \in Handles, Auth(u, h) PROVE SupportInv'
    BY <1>2, <2>1 DEF Auth, accountVars
  <2>2. ASSUME NEW u \in Users, NEW h \in Handles, Register(u, h) PROVE SupportInv'
    BY <1>2, <2>2 DEF Register
  <2>3. ASSUME NEW u \in Users, UnregisterOwn(u) PROVE SupportInv'
    <3>1. {auth[u]} \in SUBSET Handles /\ Unregister({auth[u]})
      BY <1>0, <2>3 DEF UnregisterOwn, TypeOK
    <3> QED BY <1>3, <3>1
  <2>4. ASSUME NEW u \in Users, Vacation(u) PROVE SupportInv'
    <3>1. auth[u] \in accounts /\ auth[u] \in Handles
      BY <1>0, <2>4 DEF Vacation, Inv, SessionsExact, TypeOK
    <3>2. /\ flags' = [flags EXCEPT ![auth[u]] = @ \cup {"FROZEN"}]
          /\ UNCHANGED <<auth, members>> /\ online' = online
          /\ closed' = closed /\ accounts' = accounts
      BY <2>4 DEF Vacation, accountVars, channelVars, connVars
    <3>3. \A h \in Handles \ {auth[u]} : flags'[h] = flags[h]
      BY <1>0, <3>2 DEF TypeOK
    <3>4. NeedsNobody(auth[u])
      BY <3>1 DEF SupportInv, SupportOverrideInChannel, NeedsNobody, OnSupport
    <3>5. /\ flags'[auth[u]] \cap HelperFlags = flags[auth[u]] \cap HelperFlags
          /\ "HELPING" \in flags'[auth[u]] => "HELPING" \in flags[auth[u]]
      BY <1>0, <3>1, <3>2 DEF TypeOK, HelperFlags
    <3>6. ASSUME NEW h \in Handles, h = auth[u] PROVE NeedsNobody(h)'
      BY <3>2, <3>4, <3>5, <3>6 DEF NeedsNobody, OnSupport
    <3> QED BY <3>1, <3>2, <3>3, <3>6, SameOverride
  <2> QED BY <1>1, <1>6, <2>1, <2>2, <2>3, <2>4
          DEF UserCommand, Ghost, Cookie, God, OverridesOnlyOnChannels
<1>7. CASE StaffCommand
  <2>1. ASSUME NEW s \in Users, NEW h \in Handles, NEW new \in 0..MaxLevel,
               OsetLevel(s, h, new)
        PROVE  SupportInv'
    BY <1>4, <2>1 DEF OsetLevel, sessionVars, channelVars, connVars
  <2>2. ASSUME NEW s \in Users, NEW h \in Handles, Ounregister(s, h) PROVE SupportInv'
    <3>1. {h} \in SUBSET Handles /\ Unregister({h})
      BY <2>2 DEF Ounregister
    <3> QED BY <1>3, <3>1
  <2> QED BY <1>7, <2>1, <2>2, OsetFlagsOverride
          DEF StaffCommand, Oregister, Merge, OverridesOnlyOnChannels
<1>8. CASE Time
  <2>1. ASSUME NEW h \in Handles, Age(h) PROVE SupportInv'
    BY <1>4, <2>1 DEF Age, accountVars, channelVars, connVars
  <2>2. ASSUME ExpireHandles PROVE SupportInv'
    BY <1>0, <1>3, <2>2 DEF ExpireHandles, TypeOK
  <2> QED BY <1>8, <2>1, <2>2 DEF Time
<1> QED BY <1>5, <1>6, <1>7, <1>8 DEF Next

\* A support helper who may not use GOD has the override only while one of the
\* account's sessions is on a support channel, through joins, parts, quits,
\* splits, stamped logins, kills by auth alerts, OSET FLAGS and expiry.
THEOREM OverridesEndWithPresence ==
  ASSUME OverridesOnlyOnChannels PROVE Spec => []SupportOverrideInChannel
<1>1. Init => SupportInv
  BY DEF Init, SupportInv, SupportOverrideInChannel
<1>2. Inv /\ StampAgrees /\ SupportInv /\ [Next]_vars => SupportInv'
  <2> SUFFICES ASSUME Inv, StampAgrees, SupportInv, [Next]_vars PROVE SupportInv'
    OBVIOUS
  <2>1. CASE UNCHANGED vars
    BY <2>1, SameOverride
    DEF vars, sessionVars, channelVars, accountVars, connVars
  <2> QED BY <2>1, OverrideStep
<1>3. "COOKIE" \notin Bound /\ "OREGISTER" \notin Bound /\ "MERGE" \notin Bound
  BY DEF OverridesOnlyOnChannels
<1>4. Spec => []StampAgrees
  BY <1>3, StampsCorrect
<1>5. SupportInv => SupportOverrideInChannel
  BY DEF SupportInv
<1> QED BY <1>1, <1>2, <1>4, <1>5, SessionsCorrect, PTL DEF Spec
=============================================================================
