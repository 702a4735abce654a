--------------------------- MODULE NickServCookies ---------------------------
(***************************************************************************)
(* NickServ's email authentication: accounts registered with an address,   *)
(* the cookies mailed to it (ACTIVATION, PASSWORD_CHANGE, EMAIL_CHANGE,    *)
(* ALLOWAUTH), the timer that frees each cookie, nickserv_email_dict, and  *)
(* the password that stays unusable until the account is activated.        *)
(* Source: src/nickserv.c, docs/cookies.txt.  email_enabled is on.  Mail   *)
(* may get lost: nobody has to use a cookie.  Staff commands are reduced   *)
(* to what they do; a refusal for other reasons (wrong password, suspended *)
(* account) is the command not happening.                                  *)
(***************************************************************************)
EXTENDS Naturals, FiniteSets, TLAPS

CONSTANTS
  Users,      \* connections
  Handles,    \* account names
  Addrs,      \* email addresses
  Reads(_),   \* Reads(u): the addresses whose mail u receives
  PerEmail,   \* nickserv_conf.handles_per_email
  Staff,      \* staff use their commands in this instance
  NULL

CookieTypes == {"ACTIVATION", "PASSWORD_CHANGE", "EMAIL_CHANGE", "ALLOWAUTH"}

\* struct handle_cookie; mailed: the addresses its parts were sent to
CookieRecord == [type : CookieTypes, data : Addrs \cup {NULL},
                 mailed : SUBSET Addrs]

ASSUME CookiesAssumption ==
  /\ PerEmail \in Nat \ {0} /\ Staff \in BOOLEAN
  /\ \A u \in Users : Reads(u) \subseteq Addrs
  /\ NULL \notin Handles /\ NULL \notin Addrs /\ NULL \notin CookieRecord

VARIABLES
  accounts,     \* nickserv_handle_dict
  email,        \* hi->email_addr
  email_dict,   \* nickserv_email_dict: the accounts on each address
  cookie,       \* hi->cookie, with the addresses its parts were mailed to
  timers,       \* accounts for which nickserv_free_cookie is in the timeq
  passwd,       \* FALSE: hi->passwd is the unusable empty string
  auth,         \* user->handle_info
  registering   \* users with FLAGS_REGISTERING

vars == <<accounts, email, email_dict, cookie, timers, passwd, auth, registering>>

Init ==
  /\ accounts = {}
  /\ email = [h \in Handles |-> NULL]
  /\ email_dict = [a \in Addrs |-> {}]
  /\ cookie = [h \in Handles |-> NULL]
  /\ timers = {}
  /\ passwd = [h \in Handles |-> FALSE]
  /\ auth = [u \in Users |-> NULL]
  /\ registering = {}

-----------------------------------------------------------------------------
(* Cookies.                                                                *)

\* Where nickserv_make_cookie mails the parts of a cookie for h: the halves of
\* an EMAIL_CHANGE cookie go to the new and, if there is one, the old address.
Recipients(h, type, data) ==
  IF type = "ACTIVATION" THEN {data}
  ELSE IF type = "EMAIL_CHANGE" THEN {data, email[h]} \ {NULL}
  ELSE {email[h]}

\* nickserv_make_cookie and nickserv_bake_cookie: nothing is issued while the
\* account has a cookie.
MakeCookie(h, type, data) ==
  IF cookie[h] # NULL THEN UNCHANGED <<cookie, timers>>
  ELSE /\ cookie' = [cookie EXCEPT ![h] = [type |-> type, data |-> data,
                                           mailed |-> Recipients(h, type, data)]]
       /\ timers' = timers \cup {h}

\* Mutant: the timer stays.
EatCookies_LeaveTimer(hs) ==
  /\ cookie' = [h \in Handles |-> IF h \in hs THEN NULL ELSE cookie[h]]
  /\ UNCHANGED timers

\* nickserv_eat_cookie, for each of hs that has a cookie
EatCookies(hs) ==
  /\ cookie' = [h \in Handles |-> IF h \in hs THEN NULL ELSE cookie[h]]
  /\ timers' = timers \ hs

\* Mutant: the account stays on the list of its old address.
SetEmail_OnlyAdds(h, a) ==
  /\ email' = [email EXCEPT ![h] = a]
  /\ email_dict' = [b \in Addrs |-> IF b = a THEN email_dict[b] \cup {h}
                                    ELSE email_dict[b]]

\* nickserv_set_email_addr
SetEmail(h, a) ==
  /\ email' = [email EXCEPT ![h] = a]
  /\ email_dict' = [b \in Addrs |-> IF b = a THEN email_dict[b] \cup {h}
                                    ELSE email_dict[b] \ {h}]

-----------------------------------------------------------------------------
(* Registering and getting rid of accounts.                                *)

\* cmd_register's checks of an address
MayRegisterWith(a) ==
  /\ \A h \in email_dict[a] : cookie[h] = NULL
  /\ Cardinality(email_dict[a]) < PerEmail

\* Mutant: the address is stored only when the account is activated.
RegisterByEmail_AddressLater(u, h, a) ==
  /\ auth[u] = NULL /\ u \notin registering /\ h \notin accounts
  /\ MayRegisterWith(a)
  /\ accounts' = accounts \cup {h}
  /\ MakeCookie(h, "ACTIVATION", a)
  /\ registering' = registering \cup {u}
  /\ UNCHANGED <<email, email_dict, passwd, auth>>

\* cmd_register with an address: nobody is logged in, and the password waits
\* in the ACTIVATION cookie.
RegisterByEmail(u, h, a) ==
  /\ auth[u] = NULL /\ u \notin registering /\ h \notin accounts
  /\ MayRegisterWith(a)
  /\ accounts' = accounts \cup {h}
  /\ SetEmail(h, a)
  /\ MakeCookie(h, "ACTIVATION", a)
  /\ passwd' = [passwd EXCEPT ![h] = FALSE]
  /\ registering' = registering \cup {u}
  /\ UNCHANGED auth

\* cmd_register without an address, where email_required allows it
Register(u, h) ==
  /\ auth[u] = NULL /\ u \notin registering /\ h \notin accounts
  /\ accounts' = accounts \cup {h}
  /\ passwd' = [passwd EXCEPT ![h] = TRUE]
  /\ auth' = [auth EXCEPT ![u] = h]
  /\ registering' = registering \cup {u}
  /\ UNCHANGED <<email, email_dict, cookie, timers>>

\* cmd_oregister, with or without (a = NULL) an address
Oregister(h, a) ==
  /\ h \notin accounts
  /\ accounts' = accounts \cup {h}
  /\ passwd' = [passwd EXCEPT ![h] = TRUE]
  /\ SetEmail(h, a)
  /\ UNCHANGED <<cookie, timers, auth, registering>>

\* What is left of the accounts in hs: free_handle_info.
FreeAccounts(hs) ==
  /\ accounts' = accounts \ hs
  /\ email' = [h \in Handles |-> IF h \in hs THEN NULL ELSE email[h]]
  /\ email_dict' = [a \in Addrs |-> email_dict[a] \ hs]
  /\ passwd' = [h \in Handles |-> passwd[h] /\ h \notin hs]
  /\ EatCookies(hs)
  /\ UNCHANGED registering

\* UNREGISTER, OUNREGISTER and expiry
Unregister(h) ==
  /\ h \in accounts
  /\ FreeAccounts({h})
  /\ auth' = [u \in Users |-> IF auth[u] = h THEN NULL ELSE auth[u]]

\* cmd_merge: address, password and cookie of ht stay as they are.
Merge(hf, ht) ==
  /\ hf # ht /\ {hf, ht} \subseteq accounts
  /\ FreeAccounts({hf})
  /\ auth' = [u \in Users |-> IF auth[u] = hf THEN ht ELSE auth[u]]

-----------------------------------------------------------------------------
(* Asking for cookies.                                                     *)

\* cmd_authcookie and cmd_resetpass
RequestCookie(u, h, type) ==
  /\ type \in {"ALLOWAUTH", "PASSWORD_CHANGE"}
  /\ auth[u] = NULL /\ h \in accounts /\ email[h] # NULL
  /\ MakeCookie(h, type, NULL)
  /\ UNCHANGED <<accounts, email, email_dict, passwd, auth, registering>>

\* opt_email: SET EMAIL by the account's user
SetOwnEmail(u, a) ==
  /\ auth[u] # NULL /\ email[auth[u]] # a
  /\ MakeCookie(auth[u], "EMAIL_CHANGE", a)
  /\ UNCHANGED <<accounts, email, email_dict, passwd, auth, registering>>

\* Mutant: a pending cookie survives the change.
OsetEmail_KeepsCookie(h, a) ==
  /\ h \in accounts /\ email[h] # a
  /\ SetEmail(h, a)
  /\ UNCHANGED <<accounts, cookie, timers, passwd, auth, registering>>

\* opt_email: OSET EMAIL by staff
OsetEmail(h, a) ==
  /\ h \in accounts /\ email[h] # a
  /\ SetEmail(h, a)
  /\ EatCookies({h})
  /\ UNCHANGED <<accounts, passwd, auth, registering>>

\* cmd_delcookie
Delcookie(u) ==
  /\ auth[u] # NULL
  /\ cookie[auth[u]] # NULL
  /\ cookie[auth[u]].type \notin {"ACTIVATION", "EMAIL_CHANGE"}
  /\ EatCookies({auth[u]})
  /\ UNCHANGED <<accounts, email, email_dict, passwd, auth, registering>>

\* cmd_odelcookie
Odelcookie(h) ==
  /\ cookie[h] # NULL
  /\ EatCookies({h})
  /\ UNCHANGED <<accounts, email, email_dict, passwd, auth, registering>>

-----------------------------------------------------------------------------
(* Using cookies and passwords.                                            *)

\* u got every part of h's cookie by mail.
HasCookie(u, h) == cookie[h].mailed \subseteq Reads(u)

\* cmd_cookie
Cookie(u, h) ==
  /\ cookie[h] # NULL
  /\ auth[u] # NULL => cookie[h].type \in {"EMAIL_CHANGE", "PASSWORD_CHANGE"}
  /\ HasCookie(u, h)
  /\ IF cookie[h].type = "EMAIL_CHANGE"
     THEN SetEmail(h, cookie[h].data) /\ UNCHANGED <<auth, passwd>>
     ELSE /\ auth' = [auth EXCEPT ![u] = h]
          /\ passwd' = IF cookie[h].type = "ALLOWAUTH" THEN passwd
                       ELSE [passwd EXCEPT ![h] = TRUE]
          /\ UNCHANGED <<email, email_dict>>
  /\ EatCookies({h})
  /\ UNCHANGED <<accounts, registering>>

\* cmd_auth with the password: the empty string is no password's hash.
Auth(u, h) ==
  /\ auth[u] = NULL /\ h \in accounts /\ passwd[h]
  /\ auth' = [auth EXCEPT ![u] = h]
  /\ UNCHANGED <<accounts, email, email_dict, cookie, timers, passwd, registering>>

\* opt_password: OSET PASSWORD by staff
OsetPassword(h) ==
  /\ h \in accounts
  /\ passwd' = [passwd EXCEPT ![h] = TRUE]
  /\ UNCHANGED <<accounts, email, email_dict, cookie, timers, auth, registering>>

\* The connection goes; its slot is used by another one later.
Quit(u) ==
  /\ auth[u] # NULL \/ u \in registering
  /\ auth' = [auth EXCEPT ![u] = NULL]
  /\ registering' = registering \ {u}
  /\ UNCHANGED <<accounts, email, email_dict, cookie, timers, passwd>>

-----------------------------------------------------------------------------
(* Time, and a new process.                                                *)

\* nickserv_free_cookie from the timeq: cookie_timeout has passed.
CookieExpires(h) ==
  /\ h \in timers
  /\ timers' = timers \ {h}
  /\ cookie' = [cookie EXCEPT ![h] = NULL]
  /\ UNCHANGED <<accounts, email, email_dict, passwd, auth, registering>>

\* Mutant: nickserv_bake_cookie is left out when the database is read.
BakedTimers_None(live) == {}

\* The timers that nickserv_db_read_handle arms.
BakedTimers(live) == live

\* nickserv_saxdb_write, exit, and nickserv_db_read_handle of every account in
\* a new process: cookies that timed out meanwhile are dropped.
Restart ==
  /\ \E live \in SUBSET {h \in accounts : cookie[h] # NULL} :
       /\ cookie' = [h \in Handles |-> IF h \in live THEN cookie[h] ELSE NULL]
       /\ timers' = BakedTimers(live)
  /\ auth' = [u \in Users |-> NULL]
  /\ registering' = {}
  /\ UNCHANGED <<accounts, email, email_dict, passwd>>

-----------------------------------------------------------------------------
Next ==
  \/ \E u \in Users, h \in Handles, a \in Addrs : RegisterByEmail(u, h, a)
  \/ \E u \in Users, h \in Handles : Register(u, h)
  \/ \E h \in Handles, a \in Addrs \cup {NULL} : Staff /\ Oregister(h, a)
  \/ \E h \in Handles : Unregister(h)
  \/ \E hf, ht \in Handles : Staff /\ Merge(hf, ht)
  \/ \E u \in Users, h \in Handles, type \in CookieTypes :
       RequestCookie(u, h, type)
  \/ \E u \in Users, a \in Addrs : SetOwnEmail(u, a)
  \/ \E h \in Handles, a \in Addrs : Staff /\ OsetEmail(h, a)
  \/ \E u \in Users : Delcookie(u)
  \/ \E h \in Handles : Staff /\ Odelcookie(h)
  \/ \E u \in Users, h \in Handles : Cookie(u, h)
  \/ \E u \in Users, h \in Handles : Auth(u, h)
  \/ \E h \in Handles : Staff /\ OsetPassword(h)
  \/ \E u \in Users : Quit(u)
  \/ \E h \in Handles : CookieExpires(h)
  \/ Restart

\* The main loop runs every timer that is due.
Spec == /\ Init /\ [][Next]_vars
        /\ \A h \in Handles : WF_vars(CookieExpires(h))

-----------------------------------------------------------------------------
(* Properties.                                                             *)

TypeOK ==
  /\ accounts \in SUBSET Handles
  /\ email \in [Handles -> Addrs \cup {NULL}]
  /\ email_dict \in [Addrs -> SUBSET Handles]
  /\ cookie \in [Handles -> CookieRecord \cup {NULL}]
  /\ timers \in SUBSET Handles
  /\ passwd \in [Handles -> BOOLEAN]
  /\ auth \in [Users -> Handles \cup {NULL}]
  /\ registering \in SUBSET Users

\* nickserv_email_dict lists exactly the registered accounts of each address:
\* what cmd_register counts, however addresses and accounts come and go.
EmailDictExact ==
  /\ \A a \in Addrs, h \in Handles : h \in email_dict[a] <=> email[h] = a
  /\ \A h \in Handles : email[h] # NULL => h \in accounts

\* Each cookie belongs to a registered account and has its timer, and a timer
\* has its cookie: nickserv_free_cookie never runs on a cookie that is gone,
\* and no cookie blocks its account for ever.
CookieTimed == \A h \in Handles : /\ h \in timers <=> cookie[h] # NULL
                                  /\ cookie[h] # NULL => h \in accounts

\* A live cookie was mailed to the address its account has now (and, to change
\* that, to the new one as well), although SET EMAIL, OSET EMAIL and merges
\* may intervene between the request and the use.
CookieForCurrentAddress ==
  \A h \in Handles : cookie[h] # NULL =>
    /\ email[h] # NULL => email[h] \in cookie[h].mailed
    /\ email[h] = NULL => cookie[h].type = "EMAIL_CHANGE"
    /\ cookie[h].type = "EMAIL_CHANGE" => cookie[h].data \in cookie[h].mailed

\* The cookies that exist are timed and in the right mailbox.
CookiesSound == CookieTimed /\ CookieForCurrentAddress

\* Whoever logs in by a cookie has read mail sent to the address the account
\* has at that moment; who asked for the cookie, and what staff did to the
\* address in between, does not matter.
CookieLoginProved ==
  [][\A u \in Users, h \in Handles :
       /\ auth[u] # h /\ auth'[u] = h
       /\ cookie[h] # NULL /\ cookie'[h] = NULL
       => email[h] \in Reads(u)]_vars

\* A cookie is used, cancelled or timed out before another is issued
\* (docs/cookies.txt), also across restarts.
CookieNotReplaced ==
  [][\A h \in Handles :
       cookie[h] # NULL => cookie'[h] \in {cookie[h], NULL}]_vars

\* An account whose password is unusable can still be opened by mail: it has
\* an address for RESETPASS, whatever became of its ACTIVATION cookie.
NotLockedOut == \A h \in accounts : ~passwd[h] => email[h] # NULL

\* No cookie keeps the account from getting another one for ever.
CookieFreesSlot == \A h \in Handles : cookie[h] # NULL ~> cookie[h] = NULL

-----------------------------------------------------------------------------
(* Proofs, for any users, accounts, addresses and limits: Inv is           *)
(* inductive, cookies are never replaced, and whoever logs in by one reads *)
(* the account's mail.                                                     *)

\* The inductive invariant.  CookieForCurrentAddress needs CookieTimed and
\* EmailDictExact: an account that is registered anew has neither a cookie nor
\* an address left over; SET EMAIL, that sessions are on registered accounts.
SessionsRegistered == \A u \in Users : auth[u] # NULL => auth[u] \in accounts

Inv == /\ TypeOK /\ EmailDictExact /\ CookieTimed /\ SessionsRegistered
       /\ CookieForCurrentAddress /\ NotLockedOut

\* An empty network and an empty database satisfy it.
LEMMA InitInv == Init => Inv
BY CookiesAssumption DEF CookiesAssumption, Init, Inv, TypeOK, EmailDictExact, CookieTimed, SessionsRegistered,
     CookieForCurrentAddress, NotLockedOut

\* RegisterByEmail takes a name that has no account, so no cookie and no address.
LEMMA RegisterByEmailInv ==
  ASSUME Inv, NEW u \in Users, NEW h \in Handles, NEW a \in Addrs,
         RegisterByEmail(u, h, a)
  PROVE  Inv'
<1> USE DEF Inv
<1>0. NULL \notin Addrs /\ NULL \notin CookieRecord /\ NULL \notin Handles
  BY CookiesAssumption DEF CookiesAssumption
<1>1. cookie[h] = NULL /\ email[h] = NULL /\ h \notin accounts
  BY DEF RegisterByEmail, CookieTimed, EmailDictExact
<1>2. /\ accounts' = accounts \cup {h}
      /\ cookie' = [cookie EXCEPT ![h] = [type |-> "ACTIVATION", data |-> a,
                                          mailed |-> {a}]]
      /\ timers' = timers \cup {h}
      /\ email' = [email EXCEPT ![h] = a]
      /\ passwd' = [passwd EXCEPT ![h] = FALSE]
  BY <1>1 DEF RegisterByEmail, MakeCookie, Recipients, SetEmail
<1>3. [type |-> "ACTIVATION", data |-> a, mailed |-> {a}] \in CookieRecord
  BY DEF CookieRecord, CookieTypes
<1>4. TypeOK'
  BY <1>2, <1>3 DEF RegisterByEmail, SetEmail, TypeOK
<1>5. EmailDictExact'
  BY <1>0, <1>2 DEF RegisterByEmail, SetEmail, TypeOK, EmailDictExact
<1>6. CookieTimed'
  BY <1>0, <1>2, <1>3 DEF TypeOK, CookieTimed
<1>7. CookieForCurrentAddress'
  BY <1>0, <1>2 DEF TypeOK, CookieForCurrentAddress
<1>8. NotLockedOut'
  BY <1>0, <1>2 DEF TypeOK, NotLockedOut
<1>9. SessionsRegistered'
  BY <1>2 DEF RegisterByEmail, SessionsRegistered
<1> QED BY <1>4, <1>5, <1>6, <1>7, <1>8, <1>9

\* A cookie that is asked for goes to the address the account has now.
LEMMA RequestCookieInv ==
  ASSUME Inv, NEW u \in Users, NEW h \in Handles, NEW type \in CookieTypes,
         RequestCookie(u, h, type)
  PROVE  Inv'
<1> USE DEF Inv
<1>0. NULL \notin CookieRecord
  BY CookiesAssumption DEF CookiesAssumption
<1> DEFINE c == [type |-> type, data |-> NULL, mailed |-> {email[h]}]
<1>1. /\ type \in {"ALLOWAUTH", "PASSWORD_CHANGE"} /\ h \in accounts
      /\ email[h] \in Addrs
  BY DEF RequestCookie, TypeOK
<1>2. c \in CookieRecord
  BY <1>1 DEF CookieRecord
<1>3. Recipients(h, type, NULL) = {email[h]}
  BY <1>1 DEF Recipients
<1>4. CASE cookie[h] # NULL
  BY <1>4 DEF RequestCookie, MakeCookie, Inv, TypeOK, EmailDictExact, CookieTimed, SessionsRegistered,
     CookieForCurrentAddress, NotLockedOut
<1>5. CASE cookie[h] = NULL
  <2>1. cookie' = [cookie EXCEPT ![h] = c] /\ timers' = timers \cup {h}
    BY <1>3, <1>5 DEF RequestCookie, MakeCookie
  <2>2. UNCHANGED <<accounts, email, email_dict, passwd, auth, registering>>
    BY DEF RequestCookie
  <2>6. /\ c.type \in {"ALLOWAUTH", "PASSWORD_CHANGE"}
        /\ email[h] \in c.mailed /\ email[h] # NULL
    BY <1>1, CookiesAssumption DEF CookiesAssumption
  <2> HIDE DEF c
  <2>3. TypeOK'
    BY <1>2, <2>1, <2>2 DEF TypeOK
  <2>4. CookieTimed'
    BY <1>0, <1>1, <1>2, <2>1, <2>2 DEF TypeOK, CookieTimed
  <2>5. CookieForCurrentAddress'
    BY <1>1, <2>1, <2>2, <2>6 DEF TypeOK, CookieForCurrentAddress
  <2> QED BY <2>2, <2>3, <2>4, <2>5 DEF EmailDictExact, NotLockedOut, SessionsRegistered
<1> QED BY <1>4, <1>5

\* SET EMAIL issues a cookie for the new address and, if there is one, the old.
LEMMA SetOwnEmailInv ==
  ASSUME Inv, NEW u \in Users, NEW a \in Addrs, SetOwnEmail(u, a)
  PROVE  Inv'
<1> USE DEF Inv
<1>0. NULL \notin CookieRecord /\ NULL \notin Handles
  BY CookiesAssumption DEF CookiesAssumption
<1> DEFINE h == auth[u]
           c == [type |-> "EMAIL_CHANGE", data |-> a, mailed |-> {a, email[h]} \ {NULL}]
<1>1. h \in Handles /\ h \in accounts /\ a # NULL
  BY <1>0, CookiesAssumption DEF SetOwnEmail, SessionsRegistered, TypeOK,
     CookiesAssumption
<1>2. c \in CookieRecord
  BY <1>1 DEF CookieRecord, CookieTypes, TypeOK
<1>3. Recipients(h, "EMAIL_CHANGE", a) = {a, email[h]} \ {NULL}
  BY DEF Recipients
<1>4. CASE cookie[h] # NULL
  BY <1>4 DEF SetOwnEmail, MakeCookie, Inv, TypeOK, EmailDictExact, CookieTimed, SessionsRegistered,
     CookieForCurrentAddress, NotLockedOut
<1>5. CASE cookie[h] = NULL
  <2>1. cookie' = [cookie EXCEPT ![h] = c] /\ timers' = timers \cup {h}
    BY <1>3, <1>5 DEF SetOwnEmail, MakeCookie
  <2>2. UNCHANGED <<accounts, email, email_dict, passwd, auth, registering>>
    BY DEF SetOwnEmail
  <2>3. c.type = "EMAIL_CHANGE" /\ c.data \in c.mailed
        /\ (email[h] # NULL => email[h] \in c.mailed)
    BY <1>1
  <2> HIDE DEF c
  <2>4. TypeOK'
    BY <1>1, <1>2, <2>1, <2>2 DEF TypeOK
  <2>5. CookieTimed'
    BY <1>0, <1>1, <1>2, <2>1, <2>2 DEF TypeOK, CookieTimed
  <2>6. CookieForCurrentAddress'
    BY <1>1, <2>1, <2>2, <2>3 DEF TypeOK, CookieForCurrentAddress
  <2> QED BY <2>2, <2>4, <2>5, <2>6 DEF EmailDictExact, NotLockedOut, SessionsRegistered
<1> QED BY <1>4, <1>5

\* A used cookie is eaten; only EMAIL_CHANGE moves the account to an address.
LEMMA CookieInv ==
  ASSUME Inv, NEW u \in Users, NEW h \in Handles, Cookie(u, h)
  PROVE  Inv'
<1> USE DEF Inv
<1>0. NULL \notin Addrs /\ NULL \notin CookieRecord
  BY CookiesAssumption DEF CookiesAssumption
<1>1. cookie[h] \in CookieRecord /\ h \in accounts
  BY DEF Cookie, TypeOK, CookieTimed
<1>2. /\ accounts' = accounts /\ timers' = timers \ {h}
      /\ cookie' = [k \in Handles |-> IF k \in {h} THEN NULL ELSE cookie[k]]
  BY DEF Cookie, EatCookies
<1>3. CookieTimed'
  BY <1>0, <1>2 DEF TypeOK, CookieTimed
<1>4. CASE cookie[h].type = "EMAIL_CHANGE"
  <2>1. cookie[h].data \in Addrs
    BY <1>1, <1>4 DEF Cookie, CookieForCurrentAddress, CookieRecord
  <2>2. SetEmail(h, cookie[h].data) /\ UNCHANGED <<auth, passwd, registering>>
    BY <1>4 DEF Cookie
  <2>3. TypeOK' /\ EmailDictExact'
    BY <1>1, <1>2, <2>1, <2>2 DEF SetEmail, TypeOK, EmailDictExact
  <2>4. CookieForCurrentAddress' /\ NotLockedOut'
    BY <1>0, <1>2, <2>1, <2>2 DEF SetEmail, TypeOK, CookieForCurrentAddress, NotLockedOut
  <2>5. SessionsRegistered'
    BY <1>2, <2>2 DEF SessionsRegistered
  <2> QED BY <1>3, <2>3, <2>4, <2>5
<1>5. CASE cookie[h].type # "EMAIL_CHANGE"
  <2>1. /\ auth' = [auth EXCEPT ![u] = h]
        /\ UNCHANGED <<email, email_dict, registering>>
        /\ passwd' = passwd \/ passwd' = [passwd EXCEPT ![h] = TRUE]
    BY <1>5 DEF Cookie
  <2>2. TypeOK' /\ EmailDictExact'
    BY <1>2, <2>1 DEF TypeOK, EmailDictExact
  <2>3. CookieForCurrentAddress'
    BY <1>2, <2>1 DEF TypeOK, CookieForCurrentAddress
  <2>4. NotLockedOut'
    BY <1>2, <2>1 DEF TypeOK, NotLockedOut
  <2>5. SessionsRegistered'
    BY <1>1, <1>2, <2>1 DEF TypeOK, SessionsRegistered
  <2> QED BY <1>3, <2>2, <2>3, <2>4, <2>5
<1> QED BY <1>4, <1>5

\* A new account without an address starts with a password.
LEMMA RegisterInv ==
  ASSUME Inv, NEW u \in Users, NEW h \in Handles, Register(u, h)
  PROVE  Inv'
BY CookiesAssumption DEF CookiesAssumption, Register,
   Inv, TypeOK, EmailDictExact, CookieTimed,
   SessionsRegistered, CookieForCurrentAddress, NotLockedOut

\* So does one that staff register, which enters the list of its address.
LEMMA OregisterInv ==
  ASSUME Inv, NEW h \in Handles, NEW a \in Addrs \cup {NULL}, Oregister(h, a)
  PROVE  Inv'
BY CookiesAssumption DEF CookiesAssumption, Oregister, SetEmail,
   Inv, TypeOK, EmailDictExact, CookieTimed,
   SessionsRegistered, CookieForCurrentAddress, NotLockedOut

\* An account that is unregistered leaves its address, its cookie and its timer.
LEMMA UnregisterInv ==
  ASSUME Inv, NEW h \in Handles, Unregister(h)
  PROVE  Inv'
BY CookiesAssumption DEF CookiesAssumption, Unregister, FreeAccounts, EatCookies,
   Inv, TypeOK, EmailDictExact, CookieTimed,
   SessionsRegistered, CookieForCurrentAddress, NotLockedOut

\* So does one that is merged; its sessions go to a registered account.
LEMMA MergeInv ==
  ASSUME Inv, NEW hf \in Handles, NEW ht \in Handles, Merge(hf, ht)
  PROVE  Inv'
BY CookiesAssumption DEF CookiesAssumption, Merge, FreeAccounts, EatCookies,
   Inv, TypeOK, EmailDictExact, CookieTimed,
   SessionsRegistered, CookieForCurrentAddress, NotLockedOut

\* OSET EMAIL moves the account between lists and eats its cookie.
LEMMA OsetEmailInv ==
  ASSUME Inv, NEW h \in Handles, NEW a \in Addrs, OsetEmail(h, a)
  PROVE  Inv'
BY CookiesAssumption DEF CookiesAssumption, OsetEmail, SetEmail, EatCookies,
   Inv, TypeOK, EmailDictExact, CookieTimed,
   SessionsRegistered, CookieForCurrentAddress, NotLockedOut

\* DELCOOKIE takes the cookie and its timer together.
LEMMA DelcookieInv ==
  ASSUME Inv, NEW u \in Users, Delcookie(u)
  PROVE  Inv'
BY CookiesAssumption DEF CookiesAssumption, Delcookie, EatCookies,
   Inv, TypeOK, EmailDictExact, CookieTimed,
   SessionsRegistered, CookieForCurrentAddress, NotLockedOut

\* ODELCOOKIE does the same.
LEMMA OdelcookieInv ==
  ASSUME Inv, NEW h \in Handles, Odelcookie(h)
  PROVE  Inv'
BY CookiesAssumption DEF CookiesAssumption, Odelcookie, EatCookies,
   Inv, TypeOK, EmailDictExact, CookieTimed,
   SessionsRegistered, CookieForCurrentAddress, NotLockedOut

\* A timer takes its cookie along.
LEMMA CookieExpiresInv ==
  ASSUME Inv, NEW h \in Handles, CookieExpires(h)
  PROVE  Inv'
BY CookiesAssumption DEF CookiesAssumption, CookieExpires,
   Inv, TypeOK, EmailDictExact, CookieTimed,
   SessionsRegistered, CookieForCurrentAddress, NotLockedOut

\* A restart arms a timer for each cookie it keeps.
LEMMA RestartInv ==
  ASSUME Inv, Restart
  PROVE  Inv'
BY CookiesAssumption DEF CookiesAssumption, Restart, BakedTimers,
   Inv, TypeOK, EmailDictExact, CookieTimed,
   SessionsRegistered, CookieForCurrentAddress, NotLockedOut

\* No step of NickServ breaks Inv.
LEMMA NextInv == Inv /\ [Next]_vars => Inv'
<1> SUFFICES ASSUME Inv, [Next]_vars PROVE Inv'
  OBVIOUS
<1>1. ASSUME NEW u \in Users, NEW h \in Handles, NEW a \in Addrs,
             RegisterByEmail(u, h, a)
      PROVE  Inv'
  BY <1>1, RegisterByEmailInv
<1>2. ASSUME NEW u \in Users, NEW h \in Handles, Register(u, h) PROVE Inv'
  BY <1>2, RegisterInv
<1>3. ASSUME NEW h \in Handles, NEW a \in Addrs \cup {NULL}, Oregister(h, a)
      PROVE  Inv'
  BY <1>3, OregisterInv
<1>4. ASSUME NEW h \in Handles, Unregister(h) PROVE Inv'
  BY <1>4, UnregisterInv
<1>5. ASSUME NEW hf \in Handles, NEW ht \in Handles, Merge(hf, ht) PROVE Inv'
  BY <1>5, MergeInv
<1>6. ASSUME NEW u \in Users, NEW h \in Handles, NEW type \in CookieTypes,
             RequestCookie(u, h, type)
      PROVE  Inv'
  BY <1>6, RequestCookieInv
<1>7. ASSUME NEW u \in Users, NEW a \in Addrs, SetOwnEmail(u, a) PROVE Inv'
  BY <1>7, SetOwnEmailInv
<1>8. ASSUME NEW h \in Handles, NEW a \in Addrs, OsetEmail(h, a) PROVE Inv'
  BY <1>8, OsetEmailInv
<1>9. ASSUME NEW u \in Users, Delcookie(u) PROVE Inv'
  BY <1>9, DelcookieInv
<1>10. ASSUME NEW h \in Handles, Odelcookie(h) PROVE Inv'
  BY <1>10, OdelcookieInv
<1>11. ASSUME NEW u \in Users, NEW h \in Handles, Cookie(u, h) PROVE Inv'
  BY <1>11, CookieInv
<1>12. ASSUME NEW u \in Users, NEW h \in Handles, Auth(u, h) PROVE Inv'
  BY <1>12 DEF Auth, Inv, TypeOK, EmailDictExact, CookieTimed, SessionsRegistered,
     CookieForCurrentAddress, NotLockedOut
<1>13. ASSUME NEW h \in Handles, OsetPassword(h) PROVE Inv'
  BY <1>13 DEF OsetPassword, Inv, TypeOK, EmailDictExact, CookieTimed,
     SessionsRegistered, CookieForCurrentAddress, NotLockedOut
<1>14. ASSUME NEW u \in Users, Quit(u) PROVE Inv'
  BY <1>14 DEF Quit, Inv, TypeOK, EmailDictExact, CookieTimed, SessionsRegistered,
     CookieForCurrentAddress, NotLockedOut
<1>15. ASSUME NEW h \in Handles, CookieExpires(h) PROVE Inv'
  BY <1>15, CookieExpiresInv
<1>16. CASE Restart
  BY <1>16, RestartInv
<1>17. CASE UNCHANGED vars
  BY <1>17 DEF vars, Inv, TypeOK, EmailDictExact, CookieTimed, SessionsRegistered,
     CookieForCurrentAddress, NotLockedOut
<1> QED
  BY <1>1, <1>2, <1>3, <1>4, <1>5, <1>6, <1>7, <1>8, <1>9, <1>10, <1>11, <1>12,
     <1>13, <1>14, <1>15, <1>16, <1>17 DEF Next

\* The email side of NickServ is consistent in every reachable state: types, the
\* address lists, cookies and their timers, where cookies were mailed, and that
\* no account is beyond recovery.
THEOREM CookiesCorrect == Spec => []Inv
<1>1. Init => Inv
  BY InitInv
<1>2. Inv /\ [Next]_vars => Inv'
  BY NextInv
<1> QED BY <1>1, <1>2, PTL DEF Spec

\* nickserv_email_dict agrees with hi->email_addr for any number of accounts,
\* addresses and users.
THEOREM EmailDictCorrect == Spec => []EmailDictExact
<1>1. Inv => EmailDictExact
  BY DEF Inv
<1> QED BY <1>1, CookiesCorrect, PTL

\* Every cookie has its timer and every timer its cookie.
THEOREM TimersCorrect == Spec => []CookieTimed
<1>1. Inv => CookieTimed
  BY DEF Inv
<1> QED BY <1>1, CookiesCorrect, PTL

\* A live cookie is in the mail of the account's current address.
THEOREM CookiesFollowAddress == Spec => []CookieForCurrentAddress
<1>1. Inv => CookieForCurrentAddress
  BY DEF Inv
<1> QED BY <1>1, CookiesCorrect, PTL

\* Cookies are timed and in the mail of the current address.
THEOREM CookiesAreSound == Spec => []CookiesSound
<1>1. Inv => CookiesSound
  BY DEF Inv, CookiesSound
<1> QED BY <1>1, CookiesCorrect, PTL

\* An account nobody can log in to by password has an address for RESETPASS.
THEOREM NobodyLockedOut == Spec => []NotLockedOut
<1>1. Inv => NotLockedOut
  BY DEF Inv
<1> QED BY <1>1, CookiesCorrect, PTL

\* No step puts another cookie in the place of a live one.
LEMMA NextKeepsCookies ==
  ASSUME Inv, [Next]_vars, NEW h \in Handles, cookie[h] # NULL
  PROVE  cookie'[h] \in {cookie[h], NULL}
<1> USE DEF Inv, TypeOK
<1>1. ASSUME NEW k \in Handles, NEW type, NEW data, MakeCookie(k, type, data)
      PROVE  cookie'[h] \in {cookie[h], NULL}
  BY <1>1 DEF MakeCookie
<1>2. ASSUME NEW hs \in SUBSET Handles, EatCookies(hs)
      PROVE  cookie'[h] \in {cookie[h], NULL}
  BY <1>2 DEF EatCookies
<1>3. ASSUME UNCHANGED cookie PROVE cookie'[h] \in {cookie[h], NULL}
  BY <1>3
<1>4. ASSUME NEW u \in Users, NEW k \in Handles, NEW a \in Addrs,
             RegisterByEmail(u, k, a)
      PROVE  cookie'[h] \in {cookie[h], NULL}
  BY <1>1, <1>4 DEF RegisterByEmail
<1>5. ASSUME NEW k \in Handles, Unregister(k)
      PROVE  cookie'[h] \in {cookie[h], NULL}
  BY <1>2, <1>5 DEF Unregister, FreeAccounts
<1>6. ASSUME NEW hf \in Handles, NEW ht \in Handles, Merge(hf, ht)
      PROVE  cookie'[h] \in {cookie[h], NULL}
  BY <1>2, <1>6 DEF Merge, FreeAccounts
<1>7. ASSUME NEW u \in Users, NEW k \in Handles, NEW type \in CookieTypes,
             RequestCookie(u, k, type)
      PROVE  cookie'[h] \in {cookie[h], NULL}
  BY <1>1, <1>7 DEF RequestCookie
<1>8. ASSUME NEW u \in Users, NEW a \in Addrs, SetOwnEmail(u, a)
      PROVE  cookie'[h] \in {cookie[h], NULL}
  <2>1. auth[u] \in Handles
    BY <1>8 DEF SetOwnEmail
  <2> QED BY <1>1, <1>8, <2>1 DEF SetOwnEmail
<1>9. ASSUME NEW k \in Handles, NEW a \in Addrs, OsetEmail(k, a)
      PROVE  cookie'[h] \in {cookie[h], NULL}
  BY <1>2, <1>9 DEF OsetEmail
<1>10. ASSUME NEW u \in Users, Delcookie(u)
       PROVE  cookie'[h] \in {cookie[h], NULL}
  <2>1. auth[u] \in Handles
    BY <1>10 DEF Delcookie
  <2> QED BY <1>2, <1>10, <2>1 DEF Delcookie
<1>11. ASSUME NEW k \in Handles, Odelcookie(k)
       PROVE  cookie'[h] \in {cookie[h], NULL}
  BY <1>2, <1>11 DEF Odelcookie
<1>12. ASSUME NEW u \in Users, NEW k \in Handles, Cookie(u, k)
       PROVE  cookie'[h] \in {cookie[h], NULL}
  BY <1>2, <1>12 DEF Cookie
<1>13. ASSUME NEW k \in Handles, CookieExpires(k)
       PROVE  cookie'[h] \in {cookie[h], NULL}
  BY <1>13 DEF CookieExpires
<1>14. CASE Restart
  BY <1>14 DEF Restart
<1>15. ASSUME \/ \E u \in Users, k \in Handles : Register(u, k) \/ Auth(u, k)
              \/ \E k \in Handles, a \in Addrs \cup {NULL} : Oregister(k, a)
              \/ \E k \in Handles : OsetPassword(k)
              \/ \E u \in Users : Quit(u)
              \/ UNCHANGED vars
       PROVE  cookie'[h] \in {cookie[h], NULL}
  BY <1>15, <1>3 DEF Register, Auth, Oregister, OsetPassword, Quit, vars
<1> QED
  BY <1>4, <1>5, <1>6, <1>7, <1>8, <1>9, <1>10, <1>11, <1>12, <1>13, <1>14, <1>15
     DEF Next

\* "Only one cookie will be issued per handle at a time": a live cookie stays the
\* one it is until it is used, cancelled or timed out.
THEOREM CookiesNotReplaced == Spec => CookieNotReplaced
<1>1. Inv /\ [Next]_vars =>
        [\A h \in Handles : cookie[h] # NULL => cookie'[h] \in {cookie[h], NULL}]_vars
  BY NextKeepsCookies
<1> QED BY <1>1, CookiesCorrect, PTL DEF Spec, CookieNotReplaced

\* A login in the step that uses a cookie is COOKIE's: the other steps that end
\* a cookie log nobody in to its account.
LEMMA NextLogsInByMail ==
  ASSUME Inv, Next, NEW u \in Users, NEW h \in Handles,
         auth[u] # h, auth'[u] = h, cookie[h] # NULL, cookie'[h] = NULL
  PROVE  email[h] \in Reads(u)
<1>0. NULL \notin Handles /\ auth \in [Users -> Handles \cup {NULL}]
  BY CookiesAssumption DEF CookiesAssumption, Inv, TypeOK
<1>1. auth' # auth /\ cookie' # cookie
  BY <1>0
<1>2. ASSUME NEW v \in Users, NEW k \in Handles, Cookie(v, k)
      PROVE  email[h] \in Reads(u)
  <2>1. auth' = [auth EXCEPT ![v] = k] /\ cookie[k].type # "EMAIL_CHANGE"
    BY <1>1, <1>2 DEF Cookie
  <2>2. v = u /\ k = h
    BY <1>0, <2>1
  <2>3. cookie[h].mailed \subseteq Reads(u)
    BY <1>2, <2>2 DEF Cookie, HasCookie
  <2>4. email[h] \in cookie[h].mailed
    BY <2>1, <2>2 DEF Inv, CookieForCurrentAddress
  <2> QED BY <2>3, <2>4
<1>3. ASSUME NEW hf \in Handles, NEW ht \in Handles, Merge(hf, ht)
      PROVE  FALSE
  <2>1. h = hf
    BY <1>3 DEF Merge, FreeAccounts, EatCookies
  <2>2. auth'[u] = IF auth[u] = hf THEN ht ELSE auth[u]
    BY <1>3 DEF Merge
  <2> QED BY <2>1, <2>2
<1>4. ~\E k \in Handles : Unregister(k)
  BY <1>0 DEF Unregister
<1>5. ~Restart
  BY <1>0 DEF Restart
<1>6. ~\E v \in Users : Quit(v)
  BY <1>1 DEF Quit
<1> QED
  BY <1>1, <1>2, <1>3, <1>4, <1>5, <1>6
     DEF Next, RegisterByEmail, Register, Oregister, RequestCookie, SetOwnEmail,
         OsetEmail, Delcookie, Odelcookie, Auth, OsetPassword, CookieExpires

\* Nobody is logged in by a cookie who does not read the mail of the address
\* the account has at that moment.
THEOREM CookieLoginsProved == Spec => CookieLoginProved
<1>1. Inv /\ [Next]_vars =>
        [\A u \in Users, h \in Handles :
           /\ auth[u] # h /\ auth'[u] = h
           /\ cookie[h] # NULL /\ cookie'[h] = NULL
           => email[h] \in Reads(u)]_vars
  BY NextLogsInByMail
<1> QED BY <1>1, CookiesCorrect, PTL DEF Spec, CookieLoginProved
=============================================================================
