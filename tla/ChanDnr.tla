------------------------------- MODULE ChanDnr --------------------------------
(***************************************************************************)
(* ChanServ's do-not-register entries: three dictionaries, of accounts,    *)
(* channels and masks, that expire by a timer and whenever they are looked *)
(* at.  Source: src/chanserv.c.                                            *)
(***************************************************************************)
EXTENDS Integers

CONSTANTS
  Accounts,
  Names,     \* channels; n without its first character is n - 1
  Masks,     \* likewise; each matches every channel
  MaxTime

VARIABLES
  handle_dnrs, plain_dnrs, mask_dnrs,  \* when each entry expires; 0: never
  now

vars == <<handle_dnrs, plain_dnrs, mask_dnrs, now>>
dnrs == <<handle_dnrs, plain_dnrs, mask_dnrs>>

None == [k \in {} |-> 0]
Init == /\ handle_dnrs = None /\ plain_dnrs = None /\ mask_dnrs = None
        /\ now = 0

With(d, k, e) == [x \in DOMAIN d \cup {k} |-> IF x = k THEN e ELSE d[x]]
Sans(d, ks)   == [x \in DOMAIN d \ ks |-> d[x]]

Over(d)    == {k \in DOMAIN d : d[k] # 0 /\ d[k] <= now}
InForce(d) == DOMAIN d \ Over(d)

\* NOREGISTER: an entry of the same name is replaced.
Noregister(k, e) ==
  /\ e = 0 \/ e > now
  /\ \/ k \in Accounts /\ handle_dnrs' = With(handle_dnrs, k, e) /\ UNCHANGED <<plain_dnrs, mask_dnrs>>
     \/ k \in Names /\ plain_dnrs' = With(plain_dnrs, k, e) /\ UNCHANGED <<handle_dnrs, mask_dnrs>>
     \/ k \in Masks /\ mask_dnrs' = With(mask_dnrs, k, e) /\ UNCHANGED <<handle_dnrs, plain_dnrs>>
  /\ UNCHANGED now

\* ALLOWREGISTER.
Allowregister(k) ==
  /\ handle_dnrs' = Sans(handle_dnrs, {k}) /\ plain_dnrs' = Sans(plain_dnrs, {k})
  /\ mask_dnrs' = Sans(mask_dnrs, {k}) /\ dnrs' # dnrs
  /\ UNCHANGED now

\* dnr_search_create: "expires" sets a first and a last time (0: any); the masks
\* and the time an entry was set pick some of the entries.
Searches == [min_expires : 0..MaxTime, max_expires : 0..MaxTime]

\* dnr_search_matches.  What never expires is before every first time and after
\* every last one.
DnrSearchMatches(d, search) ==
  {k \in DOMAIN d : /\ d[k] >= search.min_expires
                    /\ search.max_expires # 0 => d[k] # 0 /\ d[k] <= search.max_expires}

\* DNRSEARCH REMOVE, up to its limit; what is over is found as well.
DnrsearchRemove(hs, ps, ms) ==
  /\ \E search \in Searches : /\ hs \subseteq DnrSearchMatches(handle_dnrs, search)
                              /\ ps \subseteq DnrSearchMatches(plain_dnrs, search)
                              /\ ms \subseteq DnrSearchMatches(mask_dnrs, search)
  /\ handle_dnrs' = Sans(handle_dnrs, hs) /\ plain_dnrs' = Sans(plain_dnrs, ps)
  /\ mask_dnrs' = Sans(mask_dnrs, ms) /\ UNCHANGED now

\* chanserv_find_dnrs for one entry, as REGISTER and MOVE need it: account,
\* channel, then masks; what is over is dropped, masks until one is found.
IsDnr(n, h) ==
  LET found == h \in InForce(handle_dnrs) \/ n \in InForce(plain_dnrs)
  IN /\ handle_dnrs' = Sans(handle_dnrs, {h} \cap Over(handle_dnrs))
     /\ plain_dnrs' = Sans(plain_dnrs, {n} \cap Over(plain_dnrs))
     /\ \E seen \in IF found THEN {{}} ELSE SUBSET Over(mask_dnrs) : mask_dnrs' = Sans(mask_dnrs, seen)
     /\ UNCHANGED now

\* A list, or the database being written.
Visit == /\ handle_dnrs' = Sans(handle_dnrs, Over(handle_dnrs))
         /\ plain_dnrs' = Sans(plain_dnrs, Over(plain_dnrs))
         /\ mask_dnrs' = Sans(mask_dnrs, Over(mask_dnrs))
         /\ UNCHANGED now

\* expire_dnrs removes accounts under their name, but channels and masks under
\* what follows the first character.
ExpireDnrs ==
  /\ handle_dnrs' = Sans(handle_dnrs, Over(handle_dnrs))
  /\ plain_dnrs' = Sans(plain_dnrs, {k - 1 : k \in Over(plain_dnrs)})
  /\ mask_dnrs' = Sans(mask_dnrs, {k - 1 : k \in Over(mask_dnrs)})
  /\ UNCHANGED now

\* handle_rename: the entry follows the account.
Rename(h, k) ==
  /\ h \in DOMAIN handle_dnrs /\ k \in Accounts \ DOMAIN handle_dnrs
  /\ handle_dnrs' = With(Sans(handle_dnrs, {h}), k, handle_dnrs[h])
  /\ UNCHANGED <<plain_dnrs, mask_dnrs, now>>

Tick == now < MaxTime /\ now' = now + 1 /\ UNCHANGED dnrs

Next ==
  \/ Visit \/ ExpireDnrs \/ Tick
  \/ \E k \in Accounts \cup Names \cup Masks, e \in 0..MaxTime : Noregister(k, e)
  \/ \E k \in Accounts \cup Names \cup Masks : Allowregister(k)
  \/ \E hs \in SUBSET DOMAIN handle_dnrs, ps \in SUBSET DOMAIN plain_dnrs, ms \in SUBSET DOMAIN mask_dnrs :
       DnrsearchRemove(hs, ps, ms)
  \/ \E n \in Names, h \in Accounts : IsDnr(n, h)
  \/ \E h, k \in Accounts : Rename(h, k)

Spec == Init /\ [][Next]_vars

-----------------------------------------------------------------------------
\* Entries in force stay, whatever is added, expires or is looked at beside them:
\* "the do-not-register entry will be automatically removed after duration"
\* (chanserv.help:283), not before.  It is left to staff to remove more.
Kept(d, e) == \A k \in DOMAIN d : d[k] = 0 \/ d[k] > now => k \in DOMAIN e
Unattended == \/ \E k \in Accounts \cup Names \cup Masks, e \in 0..MaxTime : Noregister(k, e)
              \/ \E n \in Names, h \in Accounts : IsDnr(n, h)
              \/ Visit \/ ExpireDnrs \/ Tick
KeepsDnrs ==
  Unattended => /\ Kept(handle_dnrs, handle_dnrs') /\ Kept(plain_dnrs, plain_dnrs')
                /\ Kept(mask_dnrs, mask_dnrs')
DnrsKept == [][KeepsDnrs]_vars
=============================================================================
