---------------------------- MODULE ChanServ_proofs ----------------------------
(***************************************************************************)
(* Proofs about ChanServ for any number of users, accounts and channels:   *)
(* presence is exact, suspensions have their timer, commands respect rank  *)
(* and leave an owner.  They hold where nobody goes from one account to    *)
(* another without logging out, and the two staff commands that copy       *)
(* entries without a look at the channel meet nobody there (Tame).  After  *)
(* them the bans, the notes, the modes and the do-not-register entries,    *)
(* each a machine of its own; what two of them have by one name, as `now', *)
(* is declared once and belongs to whichever a theorem is about.           *)
(***************************************************************************)
EXTENDS ChanServ, Integers, FiniteSetTheorems, WellFoundedInduction, TLAPS

CONSTANTS
  Guises, Home, Admins, Standings, MaxBans, MaxIrc, MaxTime, Enabled, \* of ChanBans
  Types, Setting, Lengths, Texts, People,                            \* of ChanNotes
  FullOwner, Options, Topics,                                        \* of ChanModes
  Accounts, Names, Masks                                             \* of ChanDnr

VARIABLES
  guise, bans, timers, suspended, irc, standing, now,                 \* of ChanBans
  types, freed, notes, broken,                                       \* of ChanNotes
  access, member, mode, lock, opts, topic, default_topic, topic_mask, by, \* of ChanModes
  handle_dnrs, plain_dnrs, mask_dnrs                                 \* of ChanDnr

\* PresenceExact of one channel, with the accounts that have sessions there.
Exact(r, there) ==
  r.present = IF r.suspended THEN {} ELSE (Listed(r) \cap there) \ r.barred

\* SuspensionTimed of one channel; what expires is in force.
Timed(r) == /\ r.timed => r.suspended
            /\ r.timers = IF r.timed THEN 1 ELSE 0

\* Only listed users are suspended, and a name that is not registered lists
\* nobody.  UNSUSPEND, REGISTER and MOVE rely on it.
Proper(r) == r.barred \subseteq Listed(r) /\ (~r.registered => Listed(r) = {})

Good(r, there) == r \in ChanData /\ Exact(r, there) /\ Timed(r) /\ Proper(r)

\* A channel's first data, and none.
LEMMA BlankGood ==
  ASSUME NEW there
  PROVE  Good(Blank, there) /\ Good([Blank EXCEPT !.registered = TRUE], there)
<1>1. Blank \in ChanData
  BY DEF Blank, ChanData, Owner
<1>2. Listed(Blank) = {}
  BY DEF Blank, Listed
<1>3. Blank.present = {} /\ Blank.barred = {} /\ ~Blank.suspended /\ ~Blank.timed /\ Blank.timers = 0
  BY DEF Blank
<1>31. Exact(Blank, there)
  BY <1>2, <1>3 DEF Exact
<1>32. Timed(Blank) /\ Proper(Blank)
  BY <1>2, <1>3 DEF Timed, Proper
<1> DEFINE r == [Blank EXCEPT !.registered = TRUE]
<1>4. r \in ChanData
  BY <1>1 DEF ChanData
<1>5. Listed(r) = {}
  BY DEF Blank, Listed
<1>6. r.present = {} /\ r.barred = {} /\ ~r.suspended /\ ~r.timed /\ r.timers = 0
  BY DEF Blank
<1>7. Exact(r, there)
  BY <1>5, <1>6 DEF Exact
<1>8. Timed(r) /\ Proper(r)
  BY <1>5, <1>6 DEF Timed, Proper
<1> QED  BY <1>1, <1>31, <1>32, <1>4, <1>7, <1>8 DEF Good

\* Entries that are looked up may have been wrong before.
LEMMA ScannedGood ==
  ASSUME NEW there, NEW s \in ChanData, Timed(s), Proper(s), NEW hs \in SUBSET Listed(s),
         s.present \ hs = IF s.suspended THEN {}
                          ELSE ((Listed(s) \cap there) \ s.barred) \ hs
  PROVE  Good(Scanned(s, hs, there), there)
<1> DEFINE found == IF s.suspended THEN {} ELSE (hs \cap there) \ s.barred
           p == (s.present \ hs) \cup found
           t == Scanned(s, hs, there)
<1>1. t = [s EXCEPT !.present = p]
  BY DEF Scanned
<1>2. hs \in SUBSET Handles
  BY DEF Listed
<1>3. p \in SUBSET Handles
  BY <1>2 DEF ChanData
<1>4. t \in ChanData
  BY <1>1, <1>3 DEF ChanData
<1>5. /\ t.present = p /\ t.suspended = s.suspended /\ t.barred = s.barred
      /\ t.access = s.access /\ t.timers = s.timers /\ t.timed = s.timed
      /\ t.registered = s.registered
  BY <1>1 DEF ChanData
<1>6. Listed(t) = Listed(s)
  BY <1>5 DEF Listed
<1>7. p = IF s.suspended THEN {} ELSE (Listed(s) \cap there) \ s.barred
  OBVIOUS
<1>8. Exact(t, there)
  BY <1>5, <1>6, <1>7 DEF Exact
<1>9. Timed(t) /\ Proper(t)
  BY <1>5, <1>6 DEF Timed, Proper
<1> QED  BY <1>4, <1>8, <1>9 DEF Good

\* ADDUSER and REGISTER look the new user up.
LEMMA AddedGood ==
  ASSUME NEW there, NEW r, Good(r, there), r.registered, NEW h \in Handles, NEW level \in 1..Owner
  PROVE  Good(Scanned([r EXCEPT !.access[h] = level], {h}, there), there)
<1> DEFINE s == [r EXCEPT !.access[h] = level]
<1>1. s \in ChanData
  BY DEF Good, ChanData, Owner
<1>2. /\ s.present = r.present /\ s.suspended = r.suspended /\ s.barred = r.barred
      /\ s.timers = r.timers /\ s.timed = r.timed /\ s.registered
  BY DEF Good, ChanData
<1>3. Listed(s) = Listed(r) \cup {h}
  BY DEF Good, ChanData, Listed, Owner
<1>4. Timed(s) /\ Proper(s)
  BY <1>2, <1>3 DEF Good, Timed, Proper
<1>5. s.present \ {h} = IF s.suspended THEN {}
                         ELSE ((Listed(s) \cap there) \ s.barred) \ {h}
  BY <1>2, <1>3 DEF Good, Exact
<1> HIDE DEF s
<1>6. Good(Scanned(s, {h}, there), there)
  BY <1>1, <1>3, <1>4, <1>5, ScannedGood
<1> QED  BY <1>6 DEF s

\* CLVL and GIVEOWNERSHIP do not, and need not for those already listed.
LEMMA RelevelGood ==
  ASSUME NEW there, NEW r, Good(r, there), r.registered,
         NEW h \in Handles, NEW level \in 1..Owner, r.access[h] # 0 \/ r.suspended \/ h \notin there
  PROVE  Good([r EXCEPT !.access[h] = level], there)
<1> DEFINE t == [r EXCEPT !.access[h] = level]
<1>1. t \in ChanData
  BY DEF Good, ChanData, Owner
<1>2. Listed(t) = Listed(r) \cup {h}
  BY DEF Good, ChanData, Listed, Owner
<1>3. h \in Listed(r) \/ r.suspended \/ h \notin there
  BY DEF Listed
<1>4. Exact(t, there) /\ Timed(t) /\ Proper(t)
  BY <1>2, <1>3 DEF Good, ChanData, Exact, Timed, Proper
<1> QED  BY <1>1, <1>4 DEF Good

\* Entries are removed, and the channel with the last of them.
LEMMA CollectedGood ==
  ASSUME NEW there, NEW r, Good(r, there), NEW hs \in SUBSET Handles
  PROVE  Good(Removed(r, hs), there) /\ Good(Collected(Removed(r, hs)), there)
<1> DEFINE t == Removed(r, hs)
<1>1. t \in ChanData
  <2> DEFINE a == [h \in Handles |-> IF h \in hs THEN 0 ELSE r.access[h]]
  <2>1. a \in [Handles -> 0..Owner]
    BY DEF Good, ChanData, Owner
  <2>2. r.barred \ hs \in SUBSET Handles /\ r.present \ hs \in SUBSET Handles
    BY DEF Good, ChanData
  <2>3. t = [r EXCEPT !.access = a, !.barred = r.barred \ hs, !.present = r.present \ hs]
    BY DEF Removed
  <2> HIDE DEF a
  <2> QED  BY <2>1, <2>2, <2>3 DEF Good, ChanData
<1>2. Listed(t) = Listed(r) \ hs
  BY DEF Good, ChanData, Removed, Listed, Owner
<1>3. Exact(t, there) /\ Timed(t) /\ Proper(t)
  BY <1>2 DEF Good, ChanData, Removed, Exact, Timed, Proper
<1> QED  BY <1>1, <1>3, BlankGood DEF Good, Collected

\* SUSPEND turns the bit off.
LEMMA SuspendGood ==
  ASSUME NEW there, NEW r, Good(r, there), NEW h \in Listed(r)
  PROVE  Good([r EXCEPT !.barred = @ \cup {h}, !.present = @ \ {h}], there)
<1> DEFINE t == [r EXCEPT !.barred = @ \cup {h}, !.present = @ \ {h}]
<1>1. t \in ChanData
  BY DEF Good, ChanData, Listed
<1>2. /\ t.present = r.present \ {h} /\ t.barred = r.barred \cup {h}
      /\ t.suspended = r.suspended /\ t.timers = r.timers /\ t.timed = r.timed
      /\ t.registered = r.registered
  BY DEF Good, ChanData
<1>3. Listed(t) = Listed(r)
  BY DEF Good, ChanData, Listed
<1>4. Exact(t, there) /\ Timed(t) /\ Proper(t)
  BY <1>2, <1>3 DEF Good, Exact, Timed, Proper
<1> QED  BY <1>1, <1>4 DEF Good

\* UNSUSPEND looks the user up.
LEMMA UnsuspendGood ==
  ASSUME NEW there, NEW r, Good(r, there), NEW h \in Listed(r)
  PROVE  Good(Scanned([r EXCEPT !.barred = @ \ {h}], {h}, there), there)
<1> DEFINE s == [r EXCEPT !.barred = @ \ {h}]
<1>1. s \in ChanData
  BY DEF Good, ChanData
<1>2. /\ s.present = r.present /\ s.suspended = r.suspended /\ s.barred = r.barred \ {h}
      /\ s.timers = r.timers /\ s.timed = r.timed /\ s.access = r.access
      /\ s.registered = r.registered
  BY DEF Good, ChanData
<1>3. Listed(s) = Listed(r)
  BY <1>2 DEF Listed
<1>4. Timed(s) /\ Proper(s)
  BY <1>2, <1>3 DEF Good, Timed, Proper
<1>5. s.present \ {h} = IF s.suspended THEN {}
                         ELSE ((Listed(s) \cap there) \ s.barred) \ {h}
  BY <1>2, <1>3 DEF Good, Exact
<1> HIDE DEF s
<1>6. Good(Scanned(s, {h}, there), there)
  BY <1>1, <1>3, <1>4, <1>5, ScannedGood
<1> QED  BY <1>6 DEF s

\* A visit concerns the channel's age only.
LEMMA VisitedGood ==
  ASSUME NEW there, NEW r, Good(r, there), NEW h
  PROVE  Good(Visited(r, h), there)
<1> DEFINE t == Visited(r, h)
<1>1. t \in ChanData
  BY DEF Good, ChanData, Visited
<1>2. /\ t.present = r.present /\ t.suspended = r.suspended /\ t.barred = r.barred
      /\ t.timers = r.timers /\ t.timed = r.timed /\ t.access = r.access
      /\ t.registered = r.registered
  BY DEF Good, ChanData, Visited
<1>3. Listed(t) = Listed(r)
  BY <1>2 DEF Listed
<1>4. Exact(t, there) /\ Timed(t) /\ Proper(t)
  BY <1>2, <1>3 DEF Good, Exact, Timed, Proper
<1> QED  BY <1>1, <1>4 DEF Good

\* Someone joins, or someone on the channel logs in.
LEMMA ArrivedGood ==
  ASSUME NEW there, NEW r, Good(r, there), NEW h \in Handles \cup {NULL}
  PROVE  Good(Arrived(r, h), there \cup ({h} \ {NULL}))
<1> DEFINE after == there \cup ({h} \ {NULL})
<1>1. NULL \notin Listed(r)
  BY ChanServAssumption DEF ChanServAssumption, Listed
<1>2. CASE Tracks(r, h) /\ h \notin r.barred
  <2> DEFINE t == [r EXCEPT !.present = @ \cup {h}]
  <2>1. t \in ChanData
    BY <1>2 DEF Good, ChanData, Tracks, Listed
  <2>2. /\ t.present = r.present \cup {h} /\ t.suspended = r.suspended /\ t.barred = r.barred
        /\ t.timers = r.timers /\ t.timed = r.timed /\ t.access = r.access
        /\ t.registered = r.registered
    BY DEF Good, ChanData
  <2>3. Listed(t) = Listed(r)
    BY <2>2 DEF Listed
  <2>4. Exact(t, after) /\ Timed(t) /\ Proper(t)
    BY <1>2, <2>2, <2>3 DEF Good, Exact, Timed, Proper, Tracks
  <2>5. Good(t, after)
    BY <2>1, <2>4 DEF Good
  <2> HIDE DEF t
  <2>6. Good(Visited(t, h), after)
    BY <2>5, VisitedGood
  <2> QED  BY <1>2, <2>6 DEF t, Arrived
<1>3. CASE ~(Tracks(r, h) /\ h \notin r.barred)
  <2>1. Arrived(r, h) = r
    BY <1>3 DEF Arrived
  <2>2. Exact(r, after)
    BY <1>1, <1>3 DEF Good, Exact, Tracks
  <2> QED  BY <2>1, <2>2 DEF Good
<1> QED  BY <1>2, <1>3

\* Someone leaves, and `after' are the accounts that stay.
LEMMA DepartedGood ==
  ASSUME NEW there, NEW r, Good(r, there), NEW h \in Handles \cup {NULL},
         NEW after, there \ {h} \subseteq after, after \subseteq there
  PROVE  Good(Departed(r, h, after), after)
<1>1. NULL \notin Listed(r)
  BY ChanServAssumption DEF ChanServAssumption, Listed
<1>2. CASE Tracks(r, h)
  <2>1. r.present \ {h} = IF r.suspended THEN {} ELSE ((Listed(r) \cap after) \ r.barred) \ {h}
    BY <1>2 DEF Good, Exact, Tracks
  <2>2. {h} \in SUBSET Listed(r)
    BY <1>2 DEF Tracks
  <2>3. Good(Scanned(r, {h}, after), after)
    BY <2>1, <2>2, ScannedGood DEF Good
  <2> QED  BY <1>2, <2>3, VisitedGood DEF Departed
<1>3. CASE ~Tracks(r, h)
  <2>1. Departed(r, h, after) = r
    BY <1>3 DEF Departed
  <2>2. Exact(r, after)
    BY <1>1, <1>3 DEF Good, Exact, Tracks
  <2> QED  BY <2>1, <2>2 DEF Good
<1> QED  BY <1>2, <1>3

\* CSUSPEND clears every bit, and trades the timer for the new one.
LEMMA CsuspendGood ==
  ASSUME NEW there, NEW r, Good(r, there), NEW timed \in BOOLEAN
  PROVE  Good([r EXCEPT !.suspended = TRUE, !.timed = timed,
                        !.present = IF r.suspended THEN @ ELSE {},
                        !.timers = (IF r.timed THEN @ - 1 ELSE @) + (IF timed THEN 1 ELSE 0)],
              there)
<1> DEFINE n == (IF r.timed THEN r.timers - 1 ELSE r.timers) + (IF timed THEN 1 ELSE 0)
           p == IF r.suspended THEN r.present ELSE {}
           t == [r EXCEPT !.suspended = TRUE, !.timed = timed, !.present = p, !.timers = n]
<1>1. n = IF timed THEN 1 ELSE 0
  BY DEF Good, ChanData, Timed
<1>2. p = {}
  BY DEF Good, Exact
<1>3. n \in 0..2
  BY <1>1
<1> HIDE DEF n, p
<1>4. t \in ChanData
  BY <1>2, <1>3 DEF Good, ChanData
<1>5. /\ t.present = p /\ t.suspended /\ t.timers = n /\ t.timed = timed
      /\ t.access = r.access /\ t.registered = r.registered
  BY DEF Good, ChanData
<1>6. Listed(t) = Listed(r)
  BY <1>5 DEF Listed
<1>7. Exact(t, there) /\ Timed(t) /\ Proper(t)
  BY <1>1, <1>2, <1>5, <1>6 DEF Good, Exact, Timed, Proper
<1>8. Good(t, there)
  BY <1>4, <1>7 DEF Good
<1> QED  BY <1>8 DEF n, p

\* The suspension ends once its timer, if it had one, has fired or is cancelled.
LEMMA LiftedGood ==
  ASSUME NEW there \in SUBSET Handles, NEW r, Good(r, there), r.suspended
  PROVE  Good(Lifted([r EXCEPT !.timers = 0], there), there)
<1> DEFINE p == r.present \cup ((Listed(r) \cap there) \ r.barred)
           m == [r EXCEPT !.timers = 0]
           t == [m EXCEPT !.suspended = FALSE, !.timed = FALSE, !.present = p]
<1>1. p \in SUBSET Handles
  BY DEF Good, ChanData
<1> HIDE DEF p
<1>m. m \in ChanData
  BY DEF Good, ChanData
<1>2. t \in ChanData
  <2> HIDE DEF m
  <2> QED  BY <1>1, <1>m DEF ChanData
<1>3. /\ t.present = p /\ t.suspended = FALSE /\ t.timers = 0 /\ t.access = r.access
      /\ t.barred = r.barred /\ t.timed = FALSE /\ t.registered = r.registered
  BY DEF Good, ChanData
<1>4. Listed(t) = Listed(r)
  BY <1>3 DEF Listed
<1>5. Exact(t, there) /\ Timed(t) /\ Proper(t)
  BY <1>3, <1>4 DEF p, Good, Exact, Timed, Proper
<1>6. m.present = r.present /\ Listed(m) = Listed(r) /\ m.barred = r.barred
  BY DEF Good, ChanData, Listed
<1>7. Lifted(m, there) = t
  BY <1>6 DEF Lifted, p
<1> QED  BY <1>2, <1>5, <1>7 DEF Good

\* Nobody is there when the database is read, and the timer is armed again.
LEMMA RereadGood ==
  ASSUME NEW there, NEW r, Good(r, there), NEW over \in BOOLEAN
  PROVE  Good(Reread(r, over), {})
<1> DEFINE s == r.suspended /\ ~(r.timed /\ over)
           v == r.unvisited /\ ~HighPresent(r)
           w == s /\ r.timed
           n == IF w THEN 1 ELSE 0
           t == [r EXCEPT !.present = {}, !.unvisited = v, !.suspended = s,
                          !.timed = w, !.timers = n]
<1>1. s \in BOOLEAN /\ v \in BOOLEAN /\ w \in BOOLEAN
  OBVIOUS
<1>2. n \in 0..2
  OBVIOUS
<1>3. n = (IF w THEN 1 ELSE 0) /\ (w => s)
  OBVIOUS
<1>4. Reread(r, over) = IF ~r.registered THEN r ELSE Collected(t)
  BY DEF Reread
<1> HIDE DEF s, v, w, n
<1>5. t \in ChanData
  BY <1>1, <1>2 DEF Good, ChanData
<1>6. /\ t.present = {} /\ t.suspended = s /\ t.timed = w /\ t.timers = n
      /\ t.access = r.access /\ t.registered = r.registered
  BY DEF Good, ChanData
<1>7. Exact(t, {}) /\ Timed(t) /\ Proper(t)
  BY <1>1, <1>3, <1>6 DEF Good, Exact, Timed, Proper, Listed
<1>8. Good(t, {}) /\ Good(Collected(t), {})
  BY <1>5, <1>7, BlankGood DEF Good, Collected
<1>9. CASE ~r.registered
  BY <1>4, <1>9 DEF Good, Exact, Proper
<1>10. CASE r.registered
  BY <1>4, <1>8, <1>10
<1> QED  BY <1>9, <1>10

\* The accounts on the channel once hf's sessions are ht's.
LEMMA MergedAccountGood ==
  ASSUME NEW there, NEW r, Good(r, there), NEW hf \in Handles, NEW ht \in Handles,
         hf # ht,
         ~r.suspended /\ (hf \in there \/ ht \in there) =>
           ht \notin Listed(MergedAccount(r, hf, ht)) \ (MergedAccount(r, hf, ht).barred \cup
                                                      MergedAccount(r, hf, ht).present)
  PROVE  Good(MergedAccount(r, hf, ht),
              (there \ {hf}) \cup (IF hf \in there THEN {ht} ELSE {}))
<1> DEFINE after == (there \ {hf}) \cup (IF hf \in there THEN {ht} ELSE {})
           q == Removed(r, {hf})
           m == MergedAccount(r, hf, ht)
<1>1. Good(q, there)
  BY CollectedGood
<1>2. /\ Listed(q) = Listed(r) \ {hf} /\ q.barred = r.barred \ {hf}
      /\ q.present = r.present \ {hf} /\ q.suspended = r.suspended
      /\ q.timers = r.timers /\ q.timed = r.timed /\ q.registered = r.registered
      /\ \A h \in Handles : q.access[h] = IF h = hf THEN 0 ELSE r.access[h]
  BY DEF Good, ChanData, Removed, Listed
<1>3. CASE r.access[hf] > r.access[ht]
  <2> DEFINE b == IF hf \in r.barred THEN q.barred \cup {ht} ELSE q.barred \ {ht}
             p == IF hf \in r.present THEN q.present \cup {ht} ELSE q.present \ {ht}
             t == [q EXCEPT !.access[ht] = r.access[hf], !.barred = b, !.present = p]
  <2>1. m = t
    BY <1>3 DEF MergedAccount
  <2>2. b \in SUBSET Handles /\ p \in SUBSET Handles /\ r.access[hf] \in 1..Owner
    BY <1>1, <1>3 DEF Good, ChanData, Owner
  <2>3. \A h \in Handles \ {ht} : (h \in b <=> h \in q.barred) /\ (h \in p <=> h \in q.present)
    OBVIOUS
  <2>4. (ht \in b <=> hf \in r.barred) /\ (ht \in p <=> hf \in r.present)
    OBVIOUS
  <2> HIDE DEF b, p, q
  <2>5. t \in ChanData
    BY <1>1, <2>2 DEF Good, ChanData, Owner
  <2>6. /\ t.present = p /\ t.barred = b /\ t.suspended = r.suspended
        /\ t.timers = r.timers /\ t.timed = r.timed /\ t.registered = r.registered
    BY <1>1, <1>2 DEF Good, ChanData
  <2>7. Listed(t) = Listed(q) \cup {ht}
    BY <1>1, <2>2 DEF Good, ChanData, Listed, Owner
  <2>8. hf \in Listed(r)
    BY <1>3 DEF Good, ChanData, Listed, Owner
  <2>9. Timed(t) /\ Proper(t)
    BY <1>1, <1>2, <2>2, <2>3, <2>6, <2>7, <2>8 DEF Good, Timed, Proper
  <2>10. Exact(t, after)
    <3>1. CASE r.suspended
      <4>1. r.present = {} /\ q.present = {}
        BY <3>1, <1>2 DEF Good, Exact
      <4>2. p = {}
        BY <4>1, <2>2, <2>3, <2>4
      <4> QED  BY <3>1, <4>2, <2>6 DEF Exact
    <3>2. CASE ~r.suspended
      BY <3>2, <1>2, <2>1, <2>2, <2>3, <2>4, <2>5, <2>6, <2>7, <2>8 DEF Good, Exact, ChanData
    <3> QED  BY <3>1, <3>2
  <2> QED  BY <2>1, <2>5, <2>9, <2>10 DEF Good
<1>4. CASE ~(r.access[hf] > r.access[ht])
  <2>1. m = q
    BY <1>4 DEF MergedAccount
  <2>2. Exact(q, after)
    BY <1>2, <1>1, <2>1 DEF Good, Exact
  <2> QED  BY <1>1, <2>1, <2>2 DEF Good
<1> QED  BY <1>3, <1>4

\* The entries that come from another channel are looked up on this one.
LEMMA MergedUsersGood ==
  ASSUME NEW there, NEW away, NEW r, Good(r, away), NEW t, Good(t, there), ~t.suspended,
         t.registered, NEW moved \in SUBSET Listed(r)
  PROVE  Good(MergedUsers(r, t, moved, there), there)
<1> DEFINE a == [h \in Handles |-> IF h \in moved THEN r.access[h] ELSE t.access[h]]
           b == (t.barred \ moved) \cup (r.barred \cap moved)
           v == t.unvisited /\ r.unvisited
           s == [t EXCEPT !.access = a, !.barred = b, !.unvisited = v]
<1>1. MergedUsers(r, t, moved, there) = Scanned(s, moved, there)
  BY DEF MergedUsers
<1>2. a \in [Handles -> 0..Owner] /\ b \in SUBSET Handles
  BY DEF Good, ChanData
<1>3. v \in BOOLEAN
  OBVIOUS
<1>4. \A h \in Handles : a[h] = IF h \in moved THEN r.access[h] ELSE t.access[h]
  OBVIOUS
<1>5. b \ moved = t.barred \ moved
  OBVIOUS
<1> HIDE DEF a, b, v
<1>6. s \in ChanData
  BY <1>2, <1>3 DEF Good, ChanData
<1>7. /\ s.present = t.present /\ s.suspended = t.suspended /\ s.barred = b
      /\ s.timers = t.timers /\ s.timed = t.timed /\ s.registered /\ s.access = a
  BY DEF Good, ChanData
<1>8. Listed(s) = Listed(t) \cup moved
  BY <1>4, <1>7 DEF Listed
<1>9. Timed(s) /\ Proper(s)
  BY <1>7, <1>8 DEF b, Good, Timed, Proper
<1>10. s.present \ moved = IF s.suspended THEN {}
                           ELSE ((Listed(s) \cap there) \ s.barred) \ moved
  BY <1>5, <1>7, <1>8 DEF Good, Exact
<1> HIDE DEF s
<1> QED  BY <1>1, <1>6, <1>8, <1>9, <1>10, ScannedGood

-----------------------------------------------------------------------------
(* The steps.                                                              *)

\* Logins of users who are logged in, GIVEOWNERSHIP FORCE and account merges
\* leave presence wrong without these.
Tame == "SWITCH" \notin Bound /\ "UNSEEN" \notin Bound

\* The inductive invariant.
Inv ==
  /\ auth \in [Users -> Handles \cup {NULL}]
  /\ members \in [Channels -> SUBSET Users]
  /\ chan \in [Channels -> ChanData]
  /\ \A c \in Channels : Good(chan[c], AccountsOf(members[c]))

\* Accounts are handles.
LEMMA AccountsAreHandles ==
  ASSUME Inv, NEW us \in SUBSET Users
  PROVE  AccountsOf(us) \in SUBSET Handles
BY DEF Inv, AccountsOf

\* A step that changes one channel's data, and nobody's whereabouts.
LEMMA OneChannel ==
  ASSUME Inv, UNCHANGED <<auth, members>>, NEW c \in Channels, NEW r,
         Good(r, AccountsOf(members[c])), chan' = [chan EXCEPT ![c] = r]
  PROVE  Inv'
<1>1. r \in ChanData
  BY DEF Good
<1>2. chan' \in [Channels -> ChanData]
  BY <1>1 DEF Inv
<1>3. ASSUME NEW d \in Channels PROVE Good(chan'[d], AccountsOf(members[d]))
  <2>1. chan'[d] = IF d = c THEN r ELSE chan[d]
    BY DEF Inv
  <2> QED  BY <2>1 DEF Inv
<1>4. ASSUME NEW d \in Channels PROVE AccountsOf(members[d])' = AccountsOf(members[d])
  BY DEF AccountsOf
<1> QED  BY <1>2, <1>3, <1>4 DEF Inv

\* Nothing is registered at first.
LEMMA InitInv == Init => Inv
<1> SUFFICES ASSUME Init PROVE Inv
  OBVIOUS
<1>1. \A c \in Channels : Good(chan[c], AccountsOf(members[c]))
  BY BlankGood DEF Init
<1>2. Blank \in ChanData
  BY BlankGood DEF Good
<1> QED  BY <1>1, <1>2 DEF Init, Inv

\* handle_join
LEMMA JoinInv == ASSUME Inv, NEW u \in Users, NEW c \in Channels, Join(u, c) PROVE Inv'
<1> DEFINE there == AccountsOf(members[c])
<1>1. auth[u] \in Handles \cup {NULL} /\ Good(chan[c], there)
  BY DEF Inv
<1>2. Good(Arrived(chan[c], auth[u]), there \cup ({auth[u]} \ {NULL}))
  BY <1>1, ArrivedGood
<1>3. AccountsOf(members[c])' = there \cup ({auth[u]} \ {NULL})
  BY DEF Join, AccountsOf, Inv
<1>4. ASSUME NEW d \in Channels PROVE Good(chan[d], AccountsOf(members[d]))'
  <2>1. CASE d = c
    <3>1. chan'[d] = Arrived(chan[c], auth[u])
      BY <2>1 DEF Join, Inv
    <3> QED  BY <1>2, <1>3, <2>1, <3>1
  <2>2. CASE d # c
    <3>1. chan'[d] = chan[d] /\ members'[d] = members[d] /\ auth' = auth
      BY <2>2 DEF Join, Inv
    <3>2. AccountsOf(members[d])' = AccountsOf(members[d])
      BY <3>1 DEF AccountsOf
    <3> QED  BY <3>1, <3>2 DEF Inv
  <2> QED  BY <2>1, <2>2
<1>5. chan' \in [Channels -> ChanData]
  BY <1>2 DEF Join, Inv, Good
<1> QED  BY <1>4, <1>5 DEF Inv, Join

\* handle_part: another session of the account may stay.
LEMMA PartInv == ASSUME Inv, NEW u \in Users, NEW c \in Channels, Part(u, c) PROVE Inv'
<1> DEFINE there == AccountsOf(members[c])
           after == AccountsOf(members[c] \ {u})
<1>1. auth[u] \in Handles \cup {NULL} /\ Good(chan[c], there)
  BY DEF Inv
<1>2. there \ {auth[u]} \subseteq after /\ after \subseteq there
  BY DEF AccountsOf
<1>3. Good(Departed(chan[c], auth[u], after), after)
  <2> HIDE DEF there, after
  <2> QED  BY <1>1, <1>2, DepartedGood
<1>4. AccountsOf(members[c])' = after
  BY DEF Part, AccountsOf, Inv
<1>5. ASSUME NEW d \in Channels PROVE Good(chan[d], AccountsOf(members[d]))'
  <2>1. CASE d = c
    <3>1. chan'[d] = Departed(chan[c], auth[u], after)
      BY <2>1 DEF Part, Inv
    <3> QED  BY <1>3, <1>4, <2>1, <3>1
  <2>2. CASE d # c
    <3>1. chan'[d] = chan[d] /\ members'[d] = members[d] /\ auth' = auth
      BY <2>2 DEF Part, Inv
    <3>2. AccountsOf(members[d])' = AccountsOf(members[d])
      BY <3>1 DEF AccountsOf
    <3> QED  BY <3>1, <3>2 DEF Inv
  <2> QED  BY <2>1, <2>2
<1>6. chan' \in [Channels -> ChanData]
  BY <1>3 DEF Part, Inv, Good
<1> QED  BY <1>5, <1>6 DEF Inv, Part

\* On every channel u leaves its account has gone, or another session stays.
LEMMA QuitInv == ASSUME Inv, NEW u \in Users, Quit(u) PROVE Inv'
<1>1. ASSUME NEW c \in Channels
      PROVE  Good(chan[c], AccountsOf(members[c]))'
  <2> DEFINE there == AccountsOf(members[c])
             after == AccountsOf(members[c] \ {u})
  <2>1. auth[u] \in Handles \cup {NULL} /\ Good(chan[c], there)
    BY DEF Inv
  <2>2. AccountsOf(members[c])' = after
    BY DEF Quit, AccountsOf, Inv
  <2>3. CASE u \in members[c]
    <3>1. there \ {auth[u]} \subseteq after /\ after \subseteq there
      BY DEF AccountsOf
    <3>2. Good(Departed(chan[c], auth[u], after), after)
      <4> HIDE DEF there, after
      <4> QED  BY <2>1, <3>1, DepartedGood
    <3>3. chan'[c] = Departed(chan[c], auth[u], after)
      BY <2>3 DEF Quit
    <3> QED  BY <2>2, <3>2, <3>3
  <2>4. CASE u \notin members[c]
    <3>1. chan'[c] = chan[c] /\ after = there
      BY <2>4 DEF Quit
    <3> QED  BY <2>1, <2>2, <3>1
  <2> QED  BY <2>3, <2>4
<1>2. \A c \in Channels : chan'[c] \in ChanData
  BY <1>1 DEF Good
<1>3. chan' \in [Channels -> ChanData]
  BY <1>2 DEF Quit
<1>4. auth' \in [Users -> Handles \cup {NULL}] /\ members' \in [Channels -> SUBSET Users]
  BY DEF Quit, Inv
<1> QED  BY <1>1, <1>3, <1>4 DEF Inv

\* Who logs in was not logged in (Tame), so no account has left.
LEMMA AuthInv == ASSUME Tame, Inv, NEW u \in Users, NEW h \in Handles, Auth(u, h) PROVE Inv'
<1>0. auth[u] = NULL /\ h # NULL
  BY ChanServAssumption DEF Tame, Auth, ChanServAssumption
<1>1. ASSUME NEW c \in Channels
      PROVE  Good(chan[c], AccountsOf(members[c]))'
  <2> DEFINE there == AccountsOf(members[c])
  <2>1. Good(chan[c], there)
    BY DEF Inv
  <2>2. CASE u \in members[c]
    <3>1. AccountsOf(members[c])' = there \cup ({h} \ {NULL})
      BY <1>0, <2>2 DEF Auth, AccountsOf, Inv
    <3>2. Good(Arrived(chan[c], h), there \cup ({h} \ {NULL}))
      BY <2>1, ArrivedGood
    <3>3. chan'[c] = Arrived(chan[c], h)
      BY <2>2 DEF Auth
    <3> QED  BY <3>1, <3>2, <3>3
  <2>3. CASE u \notin members[c]
    <3>1. \A v \in members[c] : v \in Users /\ auth'[v] = auth[v]
      BY <2>3 DEF Auth, Inv
    <3>2. AccountsOf(members[c])' = there
      BY <3>1 DEF Auth, AccountsOf
    <3>3. chan'[c] = chan[c]
      BY <2>3 DEF Auth
    <3> QED  BY <2>1, <3>2, <3>3
  <2> QED  BY <2>2, <2>3
<1>2. \A c \in Channels : chan'[c] \in ChanData
  BY <1>1 DEF Good
<1>3. chan' \in [Channels -> ChanData]
  BY <1>2 DEF Auth
<1>4. auth' \in [Users -> Handles \cup {NULL}] /\ members' \in [Channels -> SUBSET Users]
  BY DEF Auth, Inv
<1> QED  BY <1>1, <1>3, <1>4 DEF Inv

\* The commands that change one channel's data, whoever gives them.
LEMMA RegisterInv ==
  ASSUME Inv, NEW a, NEW c \in Channels, NEW h \in Handles, Register(a, c, h) PROVE Inv'
<1> DEFINE r == [Blank EXCEPT !.registered = TRUE]
           there == AccountsOf(members[c])
<1>1. Good(r, there) /\ r.registered
  BY BlankGood DEF Blank
<1>2. Owner \in 1..Owner
  BY DEF Owner
<1> HIDE DEF there
<1>3. Good(Scanned([r EXCEPT !.access[h] = Owner], {h}, there), there)
  <2> HIDE DEF r
  <2> QED  BY <1>1, <1>2, AddedGood
<1>4. [r EXCEPT !.access[h] = Owner] = [Blank EXCEPT !.registered = TRUE, !.access[h] = Owner]
  BY DEF Blank
<1>5. chan' = [chan EXCEPT ![c] = Scanned([r EXCEPT !.access[h] = Owner], {h}, there)]
  BY <1>4 DEF Register, there
<1> QED  BY <1>3, <1>5, OneChannel DEF Register, there

\* UNREGISTER leaves nothing behind.
LEMMA UnregisterInv ==
  ASSUME Inv, NEW a, NEW c \in Channels, Unregister(a, c) PROVE Inv'
BY BlankGood, OneChannel DEF Unregister

\* ADDUSER
LEMMA AdduserInv ==
  ASSUME Inv, NEW a, NEW c \in Channels, NEW h \in Handles, NEW level \in Grants,
         Adduser(a, c, h, level)
  PROVE  Inv'
<1>1. level \in 1..Owner
  BY ChanServAssumption DEF ChanServAssumption
<1>2. Good(chan[c], AccountsOf(members[c])) /\ chan[c].registered
  BY DEF Inv, Adduser, CanInvoke
<1>3. Good(Scanned([chan[c] EXCEPT !.access[h] = level], {h}, AccountsOf(members[c])),
           AccountsOf(members[c]))
  BY <1>1, <1>2, AddedGood
<1>4. chan' = [chan EXCEPT ![c] = Scanned([chan[c] EXCEPT !.access[h] = level], {h},
                                          AccountsOf(members[c]))]
  BY DEF Adduser
<1> QED  BY <1>3, <1>4, OneChannel DEF Adduser

\* CLVL is for listed users.
LEMMA ClvlInv ==
  ASSUME Inv, NEW a, NEW c \in Channels, NEW h \in Handles, NEW level \in Grants,
         Clvl(a, c, h, level)
  PROVE  Inv'
<1>1. level \in 1..Owner
  BY ChanServAssumption DEF ChanServAssumption
<1>2. Good(chan[c], AccountsOf(members[c])) /\ chan[c].registered /\ chan[c].access[h] # 0
  BY DEF Inv, Clvl, CanInvoke
<1>3. Good([chan[c] EXCEPT !.access[h] = level], AccountsOf(members[c]))
  BY <1>1, <1>2, RelevelGood
<1>4. chan' = [chan EXCEPT ![c] = [chan[c] EXCEPT !.access[h] = level]]
  BY DEF Clvl
<1> QED  BY <1>3, <1>4, OneChannel DEF Clvl

\* A step that removes users from one channel.
LEMMA RemovalInv ==
  ASSUME Inv, NEW c \in Channels, NEW hs \in SUBSET Handles, UNCHANGED <<auth, members>>,
         chan' = [chan EXCEPT ![c] = Collected(Removed(chan[c], hs))]
  PROVE  Inv'
BY CollectedGood, OneChannel DEF Inv

\* DELUSER and TRIM
LEMMA DeleteInv ==
  ASSUME Inv, NEW a, NEW c \in Channels, NEW hs \in SUBSET Handles,
         Deluser(a, c, hs) \/ Trim(a, c, hs)
  PROVE  Inv'
BY RemovalInv DEF Deluser, Trim

\* Who has access at all is logged in.
LEMMA DeletemeInv ==
  ASSUME Inv, NEW u \in Users, NEW c \in Channels, Deleteme(u, c) PROVE Inv'
<1>1. u \notin Staff /\ Standing(u, c) >= Op
  BY ChanServAssumption DEF ChanServAssumption, Deleteme, CanInvoke
<1>2. auth[u] # NULL
  BY <1>1 DEF Standing, Op
<1>3. {auth[u]} \in SUBSET Handles
  BY <1>2 DEF Inv
<1> QED  BY <1>3, RemovalInv DEF Deleteme

\* SUSPEND
LEMMA SuspendInv ==
  ASSUME Inv, NEW a, NEW c \in Channels, NEW h \in Handles, Suspend(a, c, h) PROVE Inv'
<1> DEFINE t == [chan[c] EXCEPT !.barred = @ \cup {h}, !.present = @ \ {h}]
<1>1. Good(t, AccountsOf(members[c]))
  BY SuspendGood DEF Suspend, Inv
<1>2. chan' = [chan EXCEPT ![c] = t]
  BY DEF Suspend, Inv
<1> HIDE DEF t
<1> QED  BY <1>1, <1>2, OneChannel DEF Suspend

\* UNSUSPEND finds a listed user: only those are suspended.
LEMMA UnsuspendInv ==
  ASSUME Inv, NEW a, NEW c \in Channels, NEW h \in Handles, Unsuspend(a, c, h) PROVE Inv'
<1> DEFINE t == Scanned([chan[c] EXCEPT !.barred = @ \ {h}], {h}, AccountsOf(members[c]))
<1>1. h \in Listed(chan[c])
  BY DEF Unsuspend, Inv, Good, Proper
<1>2. Good(t, AccountsOf(members[c]))
  BY <1>1, UnsuspendGood DEF Inv
<1>3. chan' = [chan EXCEPT ![c] = t]
  BY DEF Unsuspend
<1> HIDE DEF t
<1> QED  BY <1>2, <1>3, OneChannel DEF Unsuspend

\* CSUSPEND
LEMMA CsuspendInv ==
  ASSUME Inv, NEW a, NEW c \in Channels, NEW timed \in BOOLEAN, Csuspend(a, c, timed)
  PROVE  Inv'
<1> DEFINE t == [chan[c] EXCEPT !.suspended = TRUE, !.timed = timed,
                        !.present = IF chan[c].suspended THEN @ ELSE {},
                        !.timers = (IF chan[c].timed THEN @ - 1 ELSE @) + (IF timed THEN 1 ELSE 0)]
<1>1. Good(t, AccountsOf(members[c]))
  BY CsuspendGood DEF Inv
<1>2. chan' = [chan EXCEPT ![c] = t]
  BY DEF Csuspend, Inv
<1> HIDE DEF t
<1> QED  BY <1>1, <1>2, OneChannel DEF Csuspend

\* CUNSUSPEND and the timer: a timer that fires is that of the suspension in force.
LEMMA LiftedInv ==
  ASSUME Inv, NEW a, NEW c \in Channels, Cunsuspend(a, c) \/ SuspensionExpires(c)
  PROVE  Inv'
<1> DEFINE there == AccountsOf(members[c])
           m == [chan[c] EXCEPT !.timers = 0]
<1>1. Good(chan[c], there) /\ there \in SUBSET Handles
  BY AccountsAreHandles DEF Inv
<1>2. chan[c].suspended
  BY <1>1 DEF Cunsuspend, SuspensionExpires, Good, Timed
<1>3. Good(Lifted(m, there), there)
  BY <1>1, <1>2, LiftedGood
<1>4. CASE Cunsuspend(a, c)
  <2>1. chan[c].timers - (IF chan[c].timed THEN 1 ELSE 0) = 0
    BY <1>1 DEF Good, Timed
  <2>2. chan' = [chan EXCEPT ![c] = Lifted(m, there)]
    BY <1>4, <2>1 DEF Cunsuspend
  <2> HIDE DEF m, there
  <2> QED  BY <1>3, <1>4, <2>2, OneChannel DEF Cunsuspend, there
<1>5. CASE SuspensionExpires(c)
  <2>1. chan[c].timers - 1 = 0
    BY <1>1, <1>5 DEF SuspensionExpires, Good, Timed
  <2>2. chan' = [chan EXCEPT ![c] = Lifted(m, there)]
    BY <1>5, <2>1 DEF SuspensionExpires
  <2> HIDE DEF m, there
  <2> QED  BY <1>3, <1>5, <2>2, OneChannel DEF SuspensionExpires, there
<1> QED  BY <1>4, <1>5

\* Presence does not depend on a channel's flag or age.
LEMMA FlagInv ==
  ASSUME Inv, NEW a, NEW c \in Channels, SetNodelete(a, c) \/ Age(c)
  PROVE  Inv'
<1> DEFINE there == AccountsOf(members[c])
           t == chan'[c]
<1>1. Good(chan[c], there)
  BY DEF Inv
<1>2. \/ t = [chan[c] EXCEPT !.protected = ~chan[c].protected]
      \/ t = [chan[c] EXCEPT !.unvisited = TRUE]
  BY DEF SetNodelete, Age, Inv
<1> HIDE DEF t
<1>m. t \in ChanData
  BY <1>1, <1>2 DEF Good, ChanData
<1>3. /\ t.present = chan[c].present /\ t.suspended = chan[c].suspended
      /\ t.barred = chan[c].barred /\ t.timers = chan[c].timers /\ t.timed = chan[c].timed
      /\ t.access = chan[c].access /\ t.registered = chan[c].registered
  BY <1>1, <1>2 DEF Good, ChanData
<1>4. Listed(t) = Listed(chan[c])
  BY <1>3 DEF Listed
<1>5. Good(t, there)
  BY <1>1, <1>m, <1>3, <1>4 DEF Good, Exact, Timed, Proper
<1>6. chan' = [chan EXCEPT ![c] = t]
  BY DEF t, SetNodelete, Age, Inv
<1> QED  BY <1>5, <1>6, OneChannel DEF SetNodelete, Age

\* The new owner is listed, or (Tame) has no session on a channel in service.
LEMMA GiveownershipInv ==
  ASSUME Tame, Inv, NEW a, NEW c \in Channels, NEW giver \in Handles, NEW h \in Handles,
         NEW force \in BOOLEAN, Giveownership(a, c, giver, h, force)
  PROVE  Inv'
<1> DEFINE there == AccountsOf(members[c])
           old == IF chan[c].access[h] = 0 THEN Owner - 1 ELSE chan[c].access[h]
           level == IF old >= CoOwner THEN old ELSE CoOwner
           r == [chan[c] EXCEPT !.access[giver] = level]
           t == [r EXCEPT !.access[h] = Owner]
<1>1. Good(chan[c], there) /\ chan[c].registered /\ chan[c].access[giver] # 0 /\ giver # h
  BY DEF Giveownership, CanInvoke, Inv, Owner
<1>2. level \in 1..Owner /\ Owner \in 1..Owner
  BY <1>1 DEF Good, ChanData, Owner, CoOwner
<1>3. chan[c].access[h] # 0 \/ chan[c].suspended \/ h \notin there
  BY DEF Giveownership, Tame, Unseen
<1>4. chan' = [chan EXCEPT ![c].access[giver] = level, ![c].access[h] = Owner]
  BY DEF Giveownership
<1> HIDE DEF level, there
<1>5. Good(r, there)
  BY <1>1, <1>2, RelevelGood
<1>6. r.registered /\ r.access[h] = chan[c].access[h] /\ r.suspended = chan[c].suspended
  BY <1>1 DEF Good, ChanData
<1>7. chan' = [chan EXCEPT ![c] = t]
  BY <1>1, <1>4 DEF Inv
<1> HIDE DEF r
<1>8. Good(t, there)
  BY <1>2, <1>3, <1>5, <1>6, RelevelGood
<1> HIDE DEF t
<1> QED  BY <1>7, <1>8, OneChannel DEF Giveownership, there

\* A registration that ends here and goes on there.
LEMMA TwoChannels ==
  ASSUME Inv, UNCHANGED <<auth, members>>, NEW c \in Channels, NEW d \in Channels, c # d, NEW t,
         Good(t, AccountsOf(members[d])), chan' = [chan EXCEPT ![c] = Blank, ![d] = t]
  PROVE  Inv'
<1>1. t \in ChanData /\ Blank \in ChanData
  BY BlankGood DEF Good
<1>2. chan' \in [Channels -> ChanData]
  BY <1>1 DEF Inv
<1>3. ASSUME NEW e \in Channels PROVE Good(chan'[e], AccountsOf(members[e]))
  <2>1. chan'[e] = IF e = d THEN t ELSE IF e = c THEN Blank ELSE chan[e]
    BY DEF Inv
  <2> QED  BY <2>1, BlankGood DEF Inv
<1>4. ASSUME NEW e \in Channels PROVE AccountsOf(members[e])' = AccountsOf(members[e])
  BY DEF AccountsOf
<1> QED  BY <1>2, <1>3, <1>4 DEF Inv

\* MOVE looks every entry up on the new channel.
LEMMA MoveInv ==
  ASSUME Inv, NEW a, NEW c \in Channels, NEW d \in Channels, Move(a, c, d)
  PROVE  Inv'
<1> DEFINE s == chan[c]
           there == AccountsOf(members[d])
           t == Scanned(s, Listed(s), there)
<1>1. Good(s, AccountsOf(members[c])) /\ c # d
  BY DEF Move, Inv
<1>2. s.present \subseteq Listed(s)
  BY <1>1 DEF Good, Exact
<1>3. Good(t, there)
  <2> HIDE DEF there, s
  <2>1. s.present \ Listed(s) = IF s.suspended THEN {}
                                ELSE ((Listed(s) \cap there) \ s.barred) \ Listed(s)
    BY <1>2
  <2> QED  BY <1>1, <2>1, ScannedGood DEF Good
<1>4. chan' = [chan EXCEPT ![c] = Blank, ![d] = t]
  BY DEF Move
<1> HIDE DEF t
<1> QED  BY <1>1, <1>3, <1>4, TwoChannels DEF Move

\* MERGE of two channels
LEMMA MergeChannelsInv ==
  ASSUME Inv, NEW a, NEW c \in Channels, NEW d \in Channels, NEW later \in SUBSET Handles,
         MergeChannels(a, c, d, later)
  PROVE  Inv'
<1> DEFINE r == chan[c]
           there == AccountsOf(members[d])
           t == MergedUsers(r, chan[d], Kept(r, chan[d], later), there)
<1>1. Good(r, AccountsOf(members[c])) /\ Good(chan[d], there) /\ c # d
  BY DEF MergeChannels, Inv
<1>2. ~chan[d].suspended /\ chan[d].registered
  BY DEF MergeChannels
<1>3. Kept(r, chan[d], later) \in SUBSET Listed(r)
  BY DEF Kept
<1>4. Good(t, there)
  BY <1>1, <1>2, <1>3, MergedUsersGood
<1>5. chan' = [chan EXCEPT ![c] = Blank, ![d] = t]
  BY DEF MergeChannels
<1> HIDE DEF t
<1> QED  BY <1>1, <1>4, <1>5, TwoChannels DEF MergeChannels

\* Whatever lapses leaves nothing behind.
LEMMA ExpireInv == ASSUME Inv, ExpireChannels PROVE Inv'
<1>1. ASSUME NEW c \in Channels PROVE Good(chan'[c], AccountsOf(members[c]))
  BY BlankGood DEF ExpireChannels, Inv
<1>2. chan' \in [Channels -> ChanData]
  BY <1>1 DEF ExpireChannels, Good
<1>3. ASSUME NEW c \in Channels PROVE AccountsOf(members[c])' = AccountsOf(members[c])
  BY DEF AccountsOf, ExpireChannels
<1> QED  BY <1>1, <1>2, <1>3 DEF Inv, ExpireChannels

\* The account leaves every list, and its sessions are logged out.
LEMMA UnregisterAccountInv ==
  ASSUME Inv, NEW h \in Handles, UnregisterAccount(h) PROVE Inv'
<1>1. ASSUME NEW c \in Channels PROVE Good(chan[c], AccountsOf(members[c]))'
  <2> DEFINE there == AccountsOf(members[c])
             r == chan'[c]
  <2>1. AccountsOf(members[c])' = there \ {h}
    BY DEF UnregisterAccount, AccountsOf, Inv
  <2>2. Good(chan[c], there)
    BY DEF Inv
  <2>3. Good(r, there) /\ h \notin Listed(r)
    <3>1. CASE h \in Listed(chan[c])
      <4>1. r = Collected(Removed(chan[c], {h}))
        BY <3>1 DEF UnregisterAccount
      <4>2. h \notin Listed(Removed(chan[c], {h})) /\ h \notin Listed(Blank)
        BY <2>2 DEF Good, ChanData, Removed, Listed, Blank
      <4>3. Good(r, there)
        BY <2>2, <4>1, CollectedGood
      <4> QED  BY <4>1, <4>2, <4>3 DEF Collected
    <3>2. CASE h \notin Listed(chan[c])
      BY <2>2, <3>2 DEF UnregisterAccount
    <3> QED  BY <3>1, <3>2
  <2> HIDE DEF r, there
  <2>4. Good(r, there \ {h})
    BY <2>3 DEF Good, Exact
  <2> QED  BY <2>1, <2>4 DEF r, there
<1>2. chan' \in [Channels -> ChanData]
  BY <1>1 DEF UnregisterAccount, Good
<1>3. auth' \in [Users -> Handles \cup {NULL}] /\ members' \in [Channels -> SUBSET Users]
  BY DEF UnregisterAccount, Inv
<1> QED  BY <1>1, <1>2, <1>3 DEF Inv

\* hf's sessions are ht's, on every channel at once.
LEMMA MergeAccountsInv ==
  ASSUME Tame, Inv, NEW hf \in Handles, NEW ht \in Handles, MergeAccounts(hf, ht)
  PROVE  Inv'
<1>0. hf # NULL /\ ht # NULL /\ hf # ht
  BY ChanServAssumption DEF ChanServAssumption, MergeAccounts
<1>1. ASSUME NEW c \in Channels PROVE Good(chan[c], AccountsOf(members[c]))'
  <2> DEFINE there == AccountsOf(members[c])
             after == (there \ {hf}) \cup (IF hf \in there THEN {ht} ELSE {})
             m == MergedAccount(chan[c], hf, ht)
  <2>1. AccountsOf(members[c])' = after
    <3>1. members' = members /\ \A u \in members[c] : auth'[u] = IF auth[u] = hf THEN ht ELSE auth[u]
      BY DEF MergeAccounts, Inv
    <3>2. AccountsOf(members[c])' = {auth'[u] : u \in members[c]} \ {NULL}
      BY <3>1 DEF AccountsOf
    <3> QED  BY <1>0, <3>1, <3>2 DEF AccountsOf
  <2>2. Good(chan[c], there)
    BY DEF Inv
  <2>3. ~MergeLosesSight(c, hf, ht)
    BY DEF MergeAccounts, Tame
  <2>4. ~chan[c].suspended /\ (hf \in there \/ ht \in there) =>
          ht \notin Listed(m) \ (m.barred \cup m.present)
    BY <2>3 DEF MergeLosesSight, Unseen
  <2>5. Good(m, after)
    BY <1>0, <2>2, <2>4, MergedAccountGood
  <2>6. chan'[c] = m
    BY DEF MergeAccounts
  <2> QED  BY <2>1, <2>5, <2>6
<1>2. chan' \in [Channels -> ChanData]
  BY <1>1 DEF MergeAccounts, Good
<1>3. auth' \in [Users -> Handles \cup {NULL}] /\ members' \in [Channels -> SUBSET Users]
  BY DEF MergeAccounts, Inv
<1> QED  BY <1>1, <1>2, <1>3 DEF Inv

\* A restart empties the channels and the bits.
LEMMA RestartInv == ASSUME Inv, NEW over \in SUBSET Channels, Restart(over) PROVE Inv'
<1>1. ASSUME NEW c \in Channels PROVE Good(chan[c], AccountsOf(members[c]))'
  <2>1. AccountsOf(members[c])' = {}
    BY DEF Restart, AccountsOf
  <2>2. Good(Reread(chan[c], c \in over), {})
    <3> DEFINE o == c \in over
    <3>1. o \in BOOLEAN
      OBVIOUS
    <3> HIDE DEF o
    <3>2. Good(Reread(chan[c], o), {})
      BY <3>1, RereadGood DEF Inv
    <3> QED  BY <3>2 DEF o
  <2>3. chan'[c] = Reread(chan[c], c \in over)
    BY DEF Restart
  <2> QED  BY <2>1, <2>2, <2>3
<1>2. chan' \in [Channels -> ChanData]
  BY <1>1 DEF Restart, Good
<1>3. auth' \in [Users -> Handles \cup {NULL}] /\ members' \in [Channels -> SUBSET Users]
  BY DEF Restart
<1> QED  BY <1>1, <1>2, <1>3 DEF Inv

-----------------------------------------------------------------------------
(* The theorems.                                                           *)

\* All commands a user or a helper may give.
LEMMA CommandInv == ASSUME Tame, Inv, NEW a, Command(a) PROVE Inv'
BY RegisterInv, UnregisterInv, AdduserInv, ClvlInv, DeleteInv, SuspendInv, UnsuspendInv,
   GiveownershipInv, MergeChannelsInv
   DEF Command

\* Every step keeps the invariant.
LEMMA StepInv == ASSUME Tame, Inv, [Next]_vars PROVE Inv'
<1>1. CASE UserStep
  BY <1>1, JoinInv, PartInv, DeletemeInv, QuitInv, AuthInv, CommandInv DEF UserStep
<1>2. CASE SystemStep
  BY <1>2, LiftedInv, FlagInv, ExpireInv, UnregisterAccountInv, MergeAccountsInv, RestartInv
     DEF SystemStep
<1>3. CASE \E a \in Staff : Command(a) \/ StaffCommand(a)
  BY <1>3, CommandInv, MoveInv, CsuspendInv, LiftedInv, FlagInv DEF StaffCommand
<1>4. CASE UNCHANGED vars
  BY <1>4 DEF vars, Inv, AccountsOf
<1> QED  BY <1>1, <1>2, <1>3, <1>4 DEF Next

\* The invariant holds in every state.
THEOREM InvAlways == ASSUME Tame PROVE Spec => []Inv
<1>1. Inv /\ [Next]_vars => Inv'
  BY StepInv
<1> QED  BY InitInv, <1>1, PTL DEF Spec

\* Type correctness: levels and timers stay in range.
THEOREM ChanServTypeCorrect == ASSUME Tame PROVE Spec => []TypeOK
<1>1. Inv => TypeOK
  BY DEF Inv, TypeOK
<1> QED  BY InvAlways, <1>1, PTL

\* The present bits are right after any sequence of joins, parts, quits, logins,
\* suspensions, moves, merges and restarts.
THEOREM PresenceCorrect == ASSUME Tame PROVE Spec => []PresenceExact
<1>1. Inv => PresenceExact
  BY DEF Inv, Good, Exact, PresenceExact
<1> QED  BY InvAlways, <1>1, PTL

\* A suspension that expires has one timer, and no other timer is left armed by
\* CSUSPEND, CUNSUSPEND, a move, a merge, UNREGISTER, expiry or a restart.
THEOREM SuspensionsTimed == ASSUME Tame PROVE Spec => []SuspensionTimed
<1>1. Inv => SuspensionTimed
  BY DEF Inv, Good, Timed, SuspensionTimed
<1> QED  BY InvAlways, <1>1, PTL

\* Presence and timers are as the entries are.
THEOREM UsersAreExact == ASSUME Tame PROVE Spec => []UsersExact
<1>1. Inv => UsersExact
  BY DEF Inv, Good, Exact, Timed, UsersExact, PresenceExact, SuspensionTimed
<1> QED  BY InvAlways, <1>1, PTL

-----------------------------------------------------------------------------
(* Rank.                                                                   *)

\* RankRespected and OwnerRemains, of one channel.
Respected(u, c, h) ==
  /\ ~Encroached(u, chan[c], chan'[c], Standing(u, c), h)
  /\ Interfered(u, chan[c], chan'[c], Standing(u, c), h) => Ends

Owned(c) == HasOwner(chan[c]) /\ chan'[c].registered => HasOwner(chan'[c])

\* A user's standing is the access of their account.
LEMMA StandingOf ==
  ASSUME Inv, NEW u \in Users, NEW c \in Channels
  PROVE  /\ Standing(u, c) \in 0..Owner
         /\ Standing(u, c) # 0 => /\ auth[u] \in Handles
                                  /\ Standing(u, c) = chan[c].access[auth[u]]
         /\ u \notin Staff /\ ~Privileged(u, c)
<1>1. u \notin Staff
  BY ChanServAssumption DEF ChanServAssumption
<1>2. chan[c] \in ChanData /\ auth[u] \in Handles \cup {NULL}
  BY DEF Inv
<1> QED  BY <1>1, <1>2 DEF Standing, Privileged, ChanData, Owner

\* A channel the step leaves alone.
LEMMA SameRespected ==
  ASSUME Inv, NEW u \in Users, NEW c \in Channels, NEW h \in Handles, chan'[c] = chan[c]
  PROVE  Respected(u, c, h) /\ Owned(c)
<1>1. chan[c].access[h] \in 0..Owner
  BY DEF Inv, ChanData
<1> QED  BY <1>1 DEF Respected, Owned, Encroached, Interfered, Owner

\* A channel that is or becomes unregistered.
LEMMA EndRespected ==
  ASSUME Inv, NEW u \in Users, NEW c \in Channels, NEW h \in Handles,
         ~chan[c].registered \/ ~chan'[c].registered
  PROVE  Respected(u, c, h) /\ Owned(c)
<1>1. ~chan[c].registered => \A g \in Handles : chan[c].access[g] = 0
  BY DEF Inv, Good, Proper, Listed
<1> QED  BY <1>1 DEF Respected, Owned, Encroached, Interfered, HasOwner, Owner

\* An account below u gets a level below u's.
LEMMA LevelRespected ==
  ASSUME Inv, NEW u \in Users, NEW c \in Channels, NEW h \in Handles,
         NEW g \in Handles, NEW level \in 1..Owner, level < Standing(u, c),
         chan[c].access[g] < Standing(u, c),
         chan'[c].barred = chan[c].barred,
         chan'[c].access = [chan[c].access EXCEPT ![g] = level]
  PROVE  Respected(u, c, h) /\ Owned(c)
<1>1. chan[c].access \in [Handles -> 0..Owner] /\ Standing(u, c) \in 0..Owner
  BY StandingOf DEF Inv, ChanData
<1>2. \A k \in Handles : chan'[c].access[k] = IF k = g THEN level ELSE chan[c].access[k]
  BY <1>1
<1>3. Respected(u, c, h)
  BY <1>1, <1>2 DEF Respected, Encroached, Interfered, Owner
<1>4. chan[c].access[g] # Owner
  BY <1>1 DEF Owner
<1>5. Owned(c)
  BY <1>2, <1>4 DEF Owned, HasOwner
<1> QED  BY <1>3, <1>5

\* Accounts below u are removed.
LEMMA RemovalRespected ==
  ASSUME Inv, NEW u \in Users, NEW c \in Channels, NEW h \in Handles,
         NEW hs \in SUBSET Handles, \A g \in hs : chan[c].access[g] < Standing(u, c),
         chan'[c] = Collected(Removed(chan[c], hs))
  PROVE  Respected(u, c, h) /\ Owned(c)
<1>1. CASE ~chan'[c].registered
  BY <1>1, EndRespected
<1>2. CASE chan'[c].registered
  <2>1. chan'[c] = Removed(chan[c], hs)
    BY <1>2 DEF Collected, Blank
  <2>2. chan[c] \in ChanData /\ Standing(u, c) \in 0..Owner
    BY StandingOf DEF Inv
  <2>3. /\ \A k \in Handles : chan'[c].access[k] = IF k \in hs THEN 0 ELSE chan[c].access[k]
        /\ chan'[c].barred = chan[c].barred \ hs
    <3> DEFINE a == [k \in Handles |-> IF k \in hs THEN 0 ELSE chan[c].access[k]]
               r == chan[c]
    <3>1. \A k \in Handles : a[k] = IF k \in hs THEN 0 ELSE chan[c].access[k]
      OBVIOUS
    <3>2. chan'[c] = [r EXCEPT !.access = a, !.barred = r.barred \ hs, !.present = r.present \ hs]
      BY <2>1 DEF Removed
    <3>3. r \in ChanData
      BY <2>2
    <3> HIDE DEF a, r
    <3>4. chan'[c].access = a /\ chan'[c].barred = r.barred \ hs
      BY <3>2, <3>3 DEF ChanData
    <3> QED  BY <3>1, <3>4 DEF r
  <2>4. \A k \in Handles : chan[c].access[k] \in 0..Owner
    BY <2>2 DEF ChanData
  <2>5. Respected(u, c, h)
    BY <2>2, <2>3, <2>4 DEF Respected, Encroached, Interfered, Owner
  <2>6. \A k \in Handles : chan[c].access[k] = Owner => k \notin hs
    BY <2>2, <2>4 DEF Owner
  <2>7. Owned(c)
    BY <2>3, <2>6 DEF Owned, HasOwner
  <2> QED  BY <2>5, <2>7
<1> QED  BY <1>1, <1>2

\* An account below u comes into suspension or out of it.
LEMMA SuspensionRespected ==
  ASSUME Inv, NEW u \in Users, NEW c \in Channels, NEW h \in Handles,
         NEW g, chan[c].access[g] < Standing(u, c),
         chan'[c].access = chan[c].access,
         \A k \in Handles \ {g} : k \in chan'[c].barred <=> k \in chan[c].barred
  PROVE  Respected(u, c, h) /\ Owned(c)
<1>1. chan[c].access[h] \in 0..Owner /\ Standing(u, c) \in 0..Owner
  BY StandingOf DEF Inv, ChanData
<1>2. Interfered(u, chan[c], chan'[c], Standing(u, c), h) => h = g
  BY DEF Interfered
<1>3. ~Interfered(u, chan[c], chan'[c], Standing(u, c), h)
  BY <1>1, <1>2 DEF Interfered, Owner
<1>4. ~Encroached(u, chan[c], chan'[c], Standing(u, c), h)
  BY <1>1 DEF Encroached, Owner
<1> QED  BY <1>3, <1>4 DEF Respected, Owned, HasOwner

\* The commands that name a level, or accounts to remove or to suspend.
LEMMA UserCommandRespected ==
  ASSUME Inv, NEW u \in Users, NEW c \in Channels, NEW h \in Handles, NEW d \in Channels,
         NEW g \in Handles, NEW level, NEW hs \in SUBSET Handles,
         \/ Register(u, d, g) \/ Unregister(u, d)
         \/ level \in Grants /\ (Adduser(u, d, g, level) \/ Clvl(u, d, g, level))
         \/ Deluser(u, d, hs) \/ Trim(u, d, hs)
         \/ Suspend(u, d, g) \/ Unsuspend(u, d, g)
  PROVE  Respected(u, c, h) /\ Owned(c)
<1>0. (level \in Grants => level \in 1..Owner) /\ Standing(u, c) \in 0..Owner /\ ~Privileged(u, c)
  BY ChanServAssumption, StandingOf DEF ChanServAssumption
<1>1. CASE c # d
  <2>1. chan'[c] = chan[c]
    BY <1>1 DEF Inv, Register, Unregister, Adduser, Clvl, Deluser, Trim, Suspend, Unsuspend
  <2> QED  BY <2>1, SameRespected
<1>2. CASE c = d /\ (Register(u, d, g) \/ Unregister(u, d))
  <2>1. ~chan[c].registered \/ ~chan'[c].registered
    BY <1>2 DEF Register, Unregister, Inv, Blank
  <2> QED  BY <2>1, EndRespected
<1>3. CASE c = d /\ level \in Grants /\ Adduser(u, d, g, level)
  <2> DEFINE s == [chan[c] EXCEPT !.access[g] = level]
  <2>1. chan[c] \in ChanData /\ chan'[c] = Scanned(s, {g}, AccountsOf(members[c]))
    BY <1>3 DEF Adduser, Inv
  <2>2. /\ s.access = [chan[c].access EXCEPT ![g] = level] /\ s.barred = chan[c].barred
        /\ s \in ChanData
    BY <1>0, <1>3, <2>1 DEF ChanData, Owner
  <2> HIDE DEF s
  <2>3. chan'[c].access = s.access /\ chan'[c].barred = s.barred
    BY <2>1, <2>2 DEF Scanned, ChanData
  <2>4. level < Standing(u, c) /\ chan[c].access[g] < Standing(u, c)
    BY <1>0, <1>3 DEF Adduser, Owner
  <2> QED  BY <1>0, <1>3, <2>2, <2>3, <2>4, LevelRespected
<1>4. CASE c = d /\ level \in Grants /\ Clvl(u, d, g, level)
  <2>1. chan[c] \in ChanData /\ chan'[c] = [chan[c] EXCEPT !.access[g] = level]
    BY <1>4 DEF Clvl, Inv
  <2>2. chan'[c].access = [chan[c].access EXCEPT ![g] = level] /\ chan'[c].barred = chan[c].barred
    BY <2>1 DEF ChanData
  <2>3. level < Standing(u, c) /\ chan[c].access[g] < Standing(u, c)
    BY <1>0, <1>4 DEF Clvl
  <2> QED  BY <1>0, <1>4, <2>2, <2>3, LevelRespected
<1>5. CASE c = d /\ (Deluser(u, d, hs) \/ Trim(u, d, hs))
  <2>1. chan'[c] = Collected(Removed(chan[c], hs))
    BY <1>5 DEF Deluser, Trim, Inv
  <2>2. \A k \in hs : chan[c].access[k] < Standing(u, c)
    BY <1>5 DEF Deluser, Trim
  <2> QED  BY <2>1, <2>2, RemovalRespected
<1>6. CASE c = d /\ Suspend(u, d, g)
  <2>1. chan[c] \in ChanData
        /\ chan'[c] = [chan[c] EXCEPT !.barred = @ \cup {g}, !.present = @ \ {g}]
    BY <1>6 DEF Suspend, Inv
  <2>2. chan'[c].access = chan[c].access /\ chan'[c].barred = chan[c].barred \cup {g}
    BY <2>1 DEF ChanData
  <2>3. chan[c].access[g] < Standing(u, c)
    BY <1>6 DEF Suspend
  <2> QED  BY <2>2, <2>3, SuspensionRespected
<1>7. CASE c = d /\ Unsuspend(u, d, g)
  <2> DEFINE s == [chan[c] EXCEPT !.barred = chan[c].barred \ {g}]
  <2>1. chan[c] \in ChanData /\ chan'[c] = Scanned(s, {g}, AccountsOf(members[c]))
    BY <1>7 DEF Unsuspend, Inv
  <2>2. s.access = chan[c].access /\ s.barred = chan[c].barred \ {g} /\ s \in ChanData
    BY <2>1 DEF ChanData
  <2> HIDE DEF s
  <2>3. chan'[c].access = s.access /\ chan'[c].barred = s.barred
    BY <2>1, <2>2 DEF Scanned, ChanData
  <2>4. chan[c].access[g] < Standing(u, c)
    BY <1>7 DEF Unsuspend
  <2> QED  BY <2>2, <2>3, <2>4, SuspensionRespected
<1> QED  BY <1>1, <1>2, <1>3, <1>4, <1>5, <1>6, <1>7

\* An owner hands the channel over: their account, and nobody else's, loses.
LEMMA HandoverRespected ==
  ASSUME Inv, NEW u \in Users, NEW c \in Channels, NEW h \in Handles, NEW d \in Channels,
         NEW giver \in Handles, NEW g \in Handles, NEW force \in BOOLEAN,
         Giveownership(u, d, giver, g, force)
  PROVE  Respected(u, c, h) /\ Owned(c)
<1>1. CASE c # d
  <2>1. chan'[c] = chan[c]
    BY <1>1 DEF Inv, Giveownership
  <2> QED  BY <2>1, SameRespected
<1>2. CASE c = d
  <2> DEFINE old == IF chan[c].access[g] = 0 THEN Owner - 1 ELSE chan[c].access[g]
             level == IF old >= CoOwner THEN old ELSE CoOwner
  <2>1. chan[c] \in ChanData /\ giver # g /\ auth[u] = giver /\ Standing(u, c) = Owner
    <3>1. Standing(u, c) >= Owner /\ Standing(u, c) \in 0..Owner
      BY <1>2, StandingOf DEF Giveownership, CanInvoke
    <3> QED  BY <1>2, <3>1 DEF Inv, Giveownership, Owner
  <2>2. chan'[c] = [chan[c] EXCEPT !.access[giver] = level, !.access[g] = Owner]
    BY <1>2 DEF Giveownership, Inv
  <2> HIDE DEF level
  <2>3. /\ chan'[c].barred = chan[c].barred
        /\ chan'[c].access[g] = Owner
        /\ \A k \in Handles \ {giver, g} : chan'[c].access[k] = chan[c].access[k]
    BY <2>1, <2>2 DEF ChanData
  <2>4. \A k \in Handles : chan[c].access[k] \in 0..Owner
    BY <2>1 DEF ChanData
  <2>5. Respected(u, c, h)
    BY <2>1, <2>3, <2>4 DEF Respected, Encroached, Interfered, Owner
  <2>6. Owned(c)
    BY <2>3 DEF Owned, HasOwner
  <2> QED  BY <2>5, <2>6
<1> QED  BY <1>1, <1>2

\* Of two entries the higher is kept.
LEMMA MergerRespected ==
  ASSUME Inv, NEW u \in Users, NEW c \in Channels, NEW h \in Handles,
         NEW d \in Channels, NEW e \in Channels, NEW later \in SUBSET Handles,
         MergeChannels(u, d, e, later)
  PROVE  Respected(u, c, h) /\ Owned(c)
<1>0. d # e /\ chan'[d] = Blank /\ chan[d].registered /\ ~Blank.registered
  BY DEF MergeChannels, CanInvoke, Inv, Blank
<1>1. CASE c = d
  BY <1>0, <1>1, EndRespected
<1>2. CASE c # d /\ c # e
  <2>1. chan'[c] = chan[c]
    BY <1>2 DEF Inv, MergeChannels
  <2> QED  BY <2>1, SameRespected
<1>3. CASE c = e
  <2> DEFINE r == chan[d]
             t == chan[c]
             moved == Kept(r, t, later)
             a == [k \in Handles |-> IF k \in moved THEN r.access[k] ELSE t.access[k]]
             s == [t EXCEPT !.access = a,
                            !.barred = (t.barred \ moved) \cup (r.barred \cap moved),
                            !.unvisited = t.unvisited /\ r.unvisited]
  <2>1. r \in ChanData /\ t \in ChanData /\ Standing(u, c) = Owner
    <3>1. Standing(u, c) >= Owner /\ Standing(u, c) \in 0..Owner
      BY <1>3, StandingOf DEF MergeChannels
    <3> QED  BY <3>1 DEF Inv, Owner
  <2>2. chan'[c] = Scanned(s, moved, AccountsOf(members[c]))
    BY <1>0, <1>3 DEF MergeChannels, MergedUsers, Inv
  <2>3. \A k \in Handles : r.access[k] \in 0..Owner /\ t.access[k] \in 0..Owner
    BY <2>1 DEF ChanData
  <2>4. \A k \in Handles : a[k] >= t.access[k] /\ a[k] \in 0..Owner
    BY <2>3 DEF Kept, Owner
  <2>5. a \in [Handles -> 0..Owner]
    BY <2>4
  <2> HIDE DEF moved, a
  <2>6. s.access = a
    BY <2>1 DEF ChanData
  <2>7. chan'[c].access = a
    <3>1. DOMAIN s = DOMAIN t
      OBVIOUS
    <3> QED  BY <2>1, <2>2, <2>6, <3>1 DEF Scanned, ChanData
  <2>8. Respected(u, c, h)
    BY <1>0, <2>1, <2>3, <2>4, <2>7 DEF Respected, Encroached, Ends, Owner
  <2>9. Owned(c)
    BY <2>3, <2>4, <2>7 DEF Owned, HasOwner, Owner
  <2> QED  BY <2>8, <2>9
<1> QED  BY <1>1, <1>2, <1>3

\* All commands of a user.
LEMMA CommandRespected ==
  ASSUME Inv, NEW u \in Users, NEW c \in Channels, NEW h \in Handles, Command(u)
  PROVE  Respected(u, c, h) /\ Owned(c)
<1>1. ASSUME NEW d \in Channels, NEW g \in Handles, NEW hs \in SUBSET Handles,
             \/ Register(u, d, g) \/ Unregister(u, d)
             \/ \E level \in Grants : Adduser(u, d, g, level) \/ Clvl(u, d, g, level)
             \/ Deluser(u, d, hs) \/ Trim(u, d, hs)
             \/ Suspend(u, d, g) \/ Unsuspend(u, d, g)
      PROVE  Respected(u, c, h) /\ Owned(c)
  BY <1>1, UserCommandRespected
<1>2. {} \in SUBSET Handles
  OBVIOUS
<1>3. CASE \E d \in Channels, g \in Handles :
             Register(u, d, g) \/ Unregister(u, d) \/ Suspend(u, d, g) \/ Unsuspend(u, d, g)
             \/ \E level \in Grants : Adduser(u, d, g, level) \/ Clvl(u, d, g, level)
  BY <1>1, <1>2, <1>3
<1>4. CASE \E d \in Channels, hs \in SUBSET Handles : Deluser(u, d, hs) \/ Trim(u, d, hs)
  BY <1>1, <1>4
<1> QED  BY <1>3, <1>4, HandoverRespected, MergerRespected DEF Command

\* DELETEME is not for owners.
LEMMA DeletemeKeepsOwner ==
  ASSUME Inv, NEW u \in Users, NEW c \in Channels, NEW d \in Channels, Deleteme(u, d)
  PROVE  Owned(c)
<1>1. CASE c # d
  <2>1. chan'[c] = chan[c]
    BY <1>1 DEF Inv, Deleteme
  <2> QED  BY <2>1 DEF Owned, HasOwner
<1>2. CASE c = d
  <2> DEFINE hs == {auth[u]}
             r == chan[c]
             a == [k \in Handles |-> IF k \in hs THEN 0 ELSE r.access[k]]
             t == [r EXCEPT !.access = a, !.barred = @ \ hs, !.present = @ \ hs]
  <2>1. r \in ChanData /\ chan'[c] = Collected(t) /\ r.access[auth[u]] # Owner
    BY <1>2 DEF Deleteme, Inv, Removed
  <2>2. \A k \in Handles : r.access[k] = Owner => a[k] = Owner
    BY <2>1
  <2> HIDE DEF r, a
  <2>3. t.access = a
    BY <2>1 DEF ChanData
  <2> HIDE DEF t
  <2>4. HasOwner(r) => HasOwner(t)
    BY <2>2, <2>3 DEF HasOwner
  <2>5. ~Blank.registered
    BY DEF Blank
  <2> QED  BY <2>1, <2>4, <2>5 DEF Collected, Owned, r
<1> QED  BY <1>1, <1>2

\* Commands of users reach nobody of their rank or above it, and raise nobody to
\* it: the comparisons of the dozen commands that change entries agree.
THEOREM RankIsRespected == ASSUME Tame PROVE Spec => RankRespected
<1> DEFINE A == \A u \in Users, c \in Channels, h \in Handles :
                  \/ Encroached(u, chan[c], chan'[c], Standing(u, c), h)
                  \/ Interfered(u, chan[c], chan'[c], Standing(u, c), h) /\ ~Ends
                  => ~Command(u)
<1>1. Inv => A
  BY CommandRespected DEF Respected
<1>2. RankRespected <=> [][A]_vars
  BY DEF RankRespected
<1> HIDE DEF A
<1> QED  BY InvAlways, <1>1, <1>2, PTL

\* Users' commands never take the last owner from a channel.
THEOREM OwnersRemain == ASSUME Tame PROVE Spec => OwnerRemains
<1> DEFINE A == \A c \in Channels :
                  (HasOwner(chan[c]) /\ chan'[c].registered /\ ~HasOwner(chan'[c])) =>
                    ~\E u \in Users : Command(u) \/ Deleteme(u, c)
<1>1. Inv => A
  <2> SUFFICES ASSUME Inv, NEW c \in Channels, NEW u \in Users, Command(u) \/ Deleteme(u, c)
               PROVE  Owned(c)
    BY DEF Owned
  <2>1. CASE Command(u)
    <3>1. CASE Handles # {}
      BY <2>1, <3>1, CommandRespected
    <3>2. CASE Handles = {}
      BY <3>2 DEF Owned, HasOwner
    <3> QED  BY <3>1, <3>2
  <2>2. CASE Deleteme(u, c)
    BY <2>2, DeletemeKeepsOwner
  <2> QED  BY <2>1, <2>2
<1>2. OwnerRemains <=> [][A]_vars
  BY DEF OwnerRemains
<1> HIDE DEF A
<1> QED  BY InvAlways, <1>1, <1>2, PTL

-----------------------------------------------------------------------------
(* ChanServ's bans (ChanBans).                                              *)
BanLists == INSTANCE ChanBans WITH Staff <- Admins

\* A channel's ban list: masks with their expiry.
BanList == UNION {[ms -> 0..MaxTime] : ms \in SUBSET BanLists!Masks}

\* No list of bans is NULL, and no MERGE loses a ban or leaves its timer behind.
BansTame == NULL \notin BanList /\ Enabled \cap {"LOST", "MISTIMED"} = {}

BanTimer(c, m, e) == [chan |-> c, mask |-> m, at |-> e]

\* Bans that expire, each with its timer.
Due(bs, c, m, e) == bs[c] # NULL /\ m \in DOMAIN bs[c] /\ bs[c][m] = e /\ e # 0
TimersOfBans == \A x \in timers : \E c \in Channels, m \in BanLists!Masks, e \in 0..MaxTime : x = BanTimer(c, m, e) /\ Due(bans, c, m, e)
BansHaveTimers == \A c \in Channels : \A m \in BanLists!Masks, e \in 0..MaxTime : Due(bans, c, m, e) => BanTimer(c, m, e) \in timers

\* Of two bans none covers the other.
Apart(f) == \A m, n \in DOMAIN f : m \subseteq n => m = n

Lists == bans \in [Channels -> BanList \cup {NULL}]
Sparse == \A c \in Channels : bans[c] # NULL => Apart(bans[c])
BInv == Lists /\ Sparse /\ TimersOfBans /\ BansHaveTimers

\* What a list is.
LEMMA ListOf ==
  /\ \A f \in BanList : DOMAIN f \subseteq BanLists!Masks /\ \A m \in DOMAIN f : f[m] \in 0..MaxTime
  /\ \A ms \in SUBSET BanLists!Masks : \A g \in [ms -> 0..MaxTime] : g \in BanList
BY DEF BanList

\* Two entries of the queue are one exactly when channel, mask and time are.
LEMMA EntryInj == \A c, m, e, d, n, g : BanTimer(c, m, e) = BanTimer(d, n, g) => c = d /\ m = n /\ e = g
<1> SUFFICES ASSUME NEW c, NEW m, NEW e, NEW d, NEW n, NEW g, BanTimer(c, m, e) = BanTimer(d, n, g)
             PROVE  c = d /\ m = n /\ e = g
  OBVIOUS
<1>1. /\ BanTimer(c, m, e).chan = c /\ BanTimer(c, m, e).mask = m /\ BanTimer(c, m, e).at = e
      /\ BanTimer(d, n, g).chan = d /\ BanTimer(d, n, g).mask = n /\ BanTimer(d, n, g).at = g
  BY DEF BanTimer
<1> QED BY <1>1

\* Lists with fewer bans.
LEMMA SansList ==
  ASSUME NEW f \in BanList, NEW gone
  PROVE  /\ BanLists!Sans(f, gone) \in BanList /\ DOMAIN BanLists!Sans(f, gone) = DOMAIN f \ gone
         /\ \A m \in DOMAIN f \ gone : BanLists!Sans(f, gone)[m] = f[m]
         /\ Apart(f) => Apart(BanLists!Sans(f, gone))
<1>1. DOMAIN BanLists!Sans(f, gone) = DOMAIN f \ gone /\ \A m \in DOMAIN f \ gone : BanLists!Sans(f, gone)[m] = f[m]
  BY DEF BanLists!Sans
<1>2. BanLists!Sans(f, gone) \in [DOMAIN f \ gone -> 0..MaxTime]
  BY ListOf DEF BanLists!Sans
<1>3. DOMAIN f \ gone \in SUBSET BanLists!Masks
  BY ListOf
<1> QED BY <1>1, <1>2, <1>3, ListOf DEF Apart

\* A list with one ban more, or with another expiry for one it has (AddBan).
LEMMA WithList ==
  ASSUME NEW f \in BanList, NEW m \in BanLists!Masks, NEW e \in 0..MaxTime
  PROVE  /\ BanLists!With(f, m, e) \in BanList /\ DOMAIN BanLists!With(f, m, e) = DOMAIN f \cup {m}
         /\ BanLists!With(f, m, e)[m] = e /\ \A n \in DOMAIN f \ {m} : BanLists!With(f, m, e)[n] = f[n]
<1>1. /\ DOMAIN BanLists!With(f, m, e) = DOMAIN f \cup {m}
      /\ BanLists!With(f, m, e)[m] = e /\ \A n \in DOMAIN f \ {m} : BanLists!With(f, m, e)[n] = f[n]
  BY DEF BanLists!With
<1>2. BanLists!With(f, m, e) \in [DOMAIN f \cup {m} -> 0..MaxTime]
  BY ListOf DEF BanLists!With
<1>3. DOMAIN f \cup {m} \in SUBSET BanLists!Masks
  BY ListOf
<1> QED BY <1>1, <1>2, <1>3, ListOf

\* The list of a channel that has just been registered is empty.
LEMMA NoneList == BanLists!None \in BanList /\ DOMAIN BanLists!None = {} /\ Apart(BanLists!None)
<1>1. BanLists!None \in [{} -> 0..MaxTime]
  BY DEF BanLists!None
<1> QED BY <1>1, ListOf, Zenon DEF Apart, BanLists!None

\* No channel has a ban and no timer is queued before the first registration.
LEMMA BanInit == BanLists!Init => BInv
BY NoneList DEF BanLists!Init, BInv, Lists, Sparse, TimersOfBans, BansHaveTimers, Due

\* What leaves the lists and the queue alone.
LEMMA BansSame == BInv /\ UNCHANGED <<bans, timers>> => BInv'
BY DEF BInv, Lists, Sparse, TimersOfBans, BansHaveTimers, Due

\* Bans and their timers go together.
LEMMA BansGo ==
  ASSUME BansTame, BInv, NEW c \in Channels, bans[c] # NULL, NEW gone,
         bans' = [bans EXCEPT ![c] = BanLists!Sans(@, gone)], timers' = BanLists!Disarmed(timers, c, gone)
  PROVE  BInv'
<1>1. bans[c] \in BanList
  BY DEF BInv, Lists
<1>2. bans' \in [Channels -> BanList \cup {NULL}] /\ bans'[c] = BanLists!Sans(bans[c], gone)
      /\ \A d \in Channels \ {c} : bans'[d] = bans[d]
  BY <1>1, SansList, Zenon DEF BInv, Lists
<1>3. Sparse'
  BY <1>1, <1>2, SansList, Zenon DEF BInv, Sparse
<1>10. /\ BanLists!Sans(bans[c], gone) \in BanList /\ DOMAIN BanLists!Sans(bans[c], gone) = DOMAIN bans[c] \ gone
       /\ \A m \in DOMAIN bans[c] \ gone : BanLists!Sans(bans[c], gone)[m] = bans[c][m]
  BY <1>1, SansList, Zenon
<1>4. bans'[c] # NULL
  BY <1>2, <1>10 DEF BansTame
<1>5. \A d \in Channels : \A m \in BanLists!Masks, e \in 0..MaxTime : Due(bans', d, m, e) <=> Due(bans, d, m, e) /\ ~(d = c /\ m \in gone)
  BY <1>2, <1>4, <1>10 DEF Due
<1>6. \A d, m, e : BanTimer(d, m, e) \in timers' <=> BanTimer(d, m, e) \in timers /\ ~(d = c /\ m \in gone)
  BY DEF BanLists!Disarmed, BanTimer
<1>7. timers' \subseteq timers
  BY DEF BanLists!Disarmed
<1>8. TimersOfBans'
  <2> SUFFICES ASSUME NEW x \in timers'
               PROVE  \E d \in Channels, m \in BanLists!Masks, e \in 0..MaxTime : x = BanTimer(d, m, e) /\ Due(bans', d, m, e)
    BY Zenon DEF TimersOfBans
  <2>1. PICK d \in Channels, m \in BanLists!Masks, e \in 0..MaxTime : x = BanTimer(d, m, e) /\ Due(bans, d, m, e)
    BY <1>7 DEF BInv, TimersOfBans
  <2> QED BY <2>1, <1>5, <1>6, Zenon
<1>9. BansHaveTimers'
  BY <1>5, <1>6 DEF BInv, BansHaveTimers
<1> QED BY <1>2, <1>3, <1>8, <1>9 DEF BInv, Lists

\* A new or changed ban, in place of those it covers.
LEMMA BanComes ==
  ASSUME BansTame, BInv, NEW c \in Channels, bans[c] # NULL, NEW gone, NEW m \in BanLists!Masks, NEW e \in 0..MaxTime,
         NEW f \in BanList, Apart(f), DOMAIN f = (DOMAIN bans[c] \ gone) \cup {m}, f[m] = e,
         \A n \in DOMAIN bans[c] \ (gone \cup {m}) : f[n] = bans[c][n],
         m \in gone \/ m \notin DOMAIN bans[c],
         bans' = [bans EXCEPT ![c] = f], timers' = BanLists!Armed(BanLists!Disarmed(timers, c, gone), c, m, e)
  PROVE  BInv'
<1>1. bans' \in [Channels -> BanList \cup {NULL}] /\ bans'[c] = f /\ f # NULL
      /\ \A d \in Channels \ {c} : bans'[d] = bans[d]
  BY DEF BInv, Lists, BansTame
<1>2. Sparse'
  BY <1>1 DEF BInv, Sparse
<1>3. \A n \in BanLists!Masks, g \in 0..MaxTime :
        Due(bans', c, n, g) <=> \/ n = m /\ g = e /\ e # 0
                                \/ n # m /\ n \notin gone /\ Due(bans, c, n, g)
  BY <1>1 DEF Due
<1>4. \A d \in Channels \ {c} : \A n \in BanLists!Masks, g \in 0..MaxTime : Due(bans', d, n, g) <=> Due(bans, d, n, g)
  BY <1>1 DEF Due
<1>5. \A x : x \in timers' <=> (x \in timers /\ ~(x.chan = c /\ x.mask \in gone)) \/ (x = BanTimer(c, m, e) /\ e # 0)
  BY DEF BanLists!Armed, BanLists!Disarmed, BanTimer
<1>6. \A d, n, g : BanTimer(d, n, g).chan = d /\ BanTimer(d, n, g).mask = n /\ BanTimer(d, n, g).at = g
  BY DEF BanTimer
<1>7. \A n \in BanLists!Masks, g \in 0..MaxTime : BanTimer(c, n, g) \in timers => Due(bans, c, n, g)
  BY <1>6 DEF BInv, TimersOfBans
<1>8. \A g \in 0..MaxTime : m \in gone \/ BanTimer(c, m, g) \notin timers
  BY <1>7 DEF Due
<1>9. TimersOfBans'
  <2> SUFFICES ASSUME NEW x \in timers'
               PROVE  \E d \in Channels, n \in BanLists!Masks, g \in 0..MaxTime : x = BanTimer(d, n, g) /\ Due(bans', d, n, g)
    BY Zenon DEF TimersOfBans
  <2>1. CASE x = BanTimer(c, m, e) /\ e # 0
    BY <2>1, <1>3, Zenon
  <2>2. CASE x \in timers /\ ~(x.chan = c /\ x.mask \in gone)
    <3>1. PICK d \in Channels, n \in BanLists!Masks, g \in 0..MaxTime : x = BanTimer(d, n, g) /\ Due(bans, d, n, g)
      BY <2>2 DEF BInv, TimersOfBans
    <3>2. CASE d # c
      BY <3>1, <3>2, <1>4, Zenon
    <3>3. CASE d = c
      <4>1. n \notin gone /\ n # m
        BY <3>1, <3>3, <2>2, <1>6, <1>8
      <4> QED BY <3>1, <3>3, <4>1, <1>3, Zenon
    <3> QED BY <3>2, <3>3, Zenon
  <2> QED BY <1>5, <2>1, <2>2, Zenon
<1>10. BansHaveTimers'
  <2> SUFFICES ASSUME NEW d \in Channels, NEW n \in BanLists!Masks, NEW g \in 0..MaxTime, Due(bans', d, n, g)
               PROVE  BanTimer(d, n, g) \in timers'
    BY DEF BansHaveTimers
  <2>1. \/ d = c /\ n = m /\ g = e /\ e # 0
        \/ Due(bans, d, n, g) /\ ~(d = c /\ n \in gone)
    BY <1>3, <1>4, ZenonT(40)
  <2>2. ASSUME Due(bans, d, n, g) PROVE BanTimer(d, n, g) \in timers
    BY <2>2 DEF BInv, BansHaveTimers
  <2> QED BY <2>1, <2>2, <1>5, <1>6
<1> QED BY <1>1, <1>2, <1>9, <1>10 DEF BInv, Lists

\* ADDBAN and ADDTIMEDBAN.
LEMMA AddBanStep ==
  ASSUME BansTame, BInv, NEW a, NEW c \in Channels, NEW m \in BanLists!Masks, NEW v, NEW e \in 0..MaxTime, BanLists!AddBan(a, c, m, v, e)
  PROVE  BInv'
<1>1. bans[c] # NULL /\ bans[c] \in BanList /\ Apart(bans[c])
  BY DEF BanLists!AddBan, BanLists!Active, BInv, Lists, Sparse
<1> DEFINE F == DOMAIN bans[c]
<1>2. \A b \in F : m \subseteq b => b = m
  BY DEF BanLists!AddBan
<1>3. CASE m \in F
  <2> DEFINE x == IF bans[c][m] = 0 THEN 0 ELSE e
             f == [bans[c] EXCEPT ![m] = x]
  <2>1. x \in 0..MaxTime
    BY <1>1, <1>3, ListOf
  <2>2. bans[c] \in [F -> 0..MaxTime] /\ F \in SUBSET BanLists!Masks
    BY <1>1, ListOf DEF BanList
  <2>3. f \in [F -> 0..MaxTime] /\ f[m] = x /\ \A n \in F \ {m} : f[n] = bans[c][n]
    BY <2>1, <2>2, <1>3
  <2>4. f \in BanList /\ DOMAIN f = (F \ {m}) \cup {m} /\ Apart(f)
    BY <2>2, <2>3, <1>1, <1>3, ListOf DEF Apart
  <2>5. bans' = [bans EXCEPT ![c] = f]
    BY <1>3 DEF BanLists!AddBan
  <2>6. bans'[c][m] = x
    BY <2>5, <2>3 DEF BInv, Lists
  <2>7. timers' = BanLists!Armed(BanLists!Disarmed(timers, c, {m}), c, m, x)
    BY <1>3, <2>6 DEF BanLists!AddBan
  <2> HIDE DEF x, f
  <2> QED BY <1>1, <2>1, <2>3, <2>4, <2>5, <2>7, BanComes, Zenon
<1>4. CASE m \notin F
  <2> DEFINE gone == {b \in F : b \subseteq m}
             f == BanLists!With(BanLists!Sans(bans[c], gone), m, e)
  <2>1. /\ BanLists!Sans(bans[c], gone) \in BanList /\ DOMAIN BanLists!Sans(bans[c], gone) = F \ gone
        /\ \A n \in F \ gone : BanLists!Sans(bans[c], gone)[n] = bans[c][n]
    BY <1>1, SansList, Zenon
  <2>2. f \in BanList /\ DOMAIN f = (F \ gone) \cup {m} /\ f[m] = e /\ \A n \in F \ (gone \cup {m}) : f[n] = bans[c][n]
    <3> DEFINE s == BanLists!Sans(bans[c], gone)
    <3>1. s \in BanList /\ DOMAIN s = F \ gone /\ \A n \in F \ gone : s[n] = bans[c][n]
      BY <2>1
    <3> HIDE DEF gone, s
    <3>2. s \in BanList
      BY <3>1
    <3>3. /\ BanLists!With(s, m, e) \in BanList /\ DOMAIN BanLists!With(s, m, e) = DOMAIN s \cup {m}
          /\ BanLists!With(s, m, e)[m] = e /\ \A n \in DOMAIN s \ {m} : BanLists!With(s, m, e)[n] = s[n]
      BY <3>2, WithList
    <3> QED BY <3>1, <3>3 DEF s
  <2>3. Apart(f)
    BY <2>2, <1>1, <1>2 DEF Apart
  <2>4. bans' = [bans EXCEPT ![c] = f] /\ timers' = BanLists!Armed(BanLists!Disarmed(timers, c, gone), c, m, e)
    BY <1>4 DEF BanLists!AddBan, BanLists!Added
  <2> HIDE DEF f, gone
  <2> QED BY <1>1, <1>4, <2>2, <2>3, <2>4, BanComes, Zenon
<1> QED BY <1>3, <1>4

\* UNBAN and its kind, and TRIM BANS.
LEMMA BansRemoved ==
  ASSUME BansTame, BInv, NEW c \in Channels,
         (\E ms, list : BanLists!Unban(c, ms, list)) \/ (\E old : BanLists!TrimBans(c, old))
  PROVE  BInv'
<1>1. bans[c] # NULL /\ \E gone : bans' = [bans EXCEPT ![c] = BanLists!Sans(@, gone)] /\ timers' = BanLists!Disarmed(timers, c, gone)
  BY Zenon DEF BanLists!Unban, BanLists!TrimBans, BanLists!Active
<1> QED BY <1>1, BansGo, Zenon

\* expire_ban.
LEMMA ExpireStep ==
  ASSUME BansTame, BInv, NEW t \in timers, BanLists!ExpireBan(t)
  PROVE  BInv'
<1>1. PICK c \in Channels, m \in BanLists!Masks, e \in 0..MaxTime : t = BanTimer(c, m, e) /\ Due(bans, c, m, e)
  BY DEF BInv, TimersOfBans
<1>2. t.chan = c /\ t.mask = m /\ bans[c] # NULL
  BY <1>1 DEF BanTimer, Due
<1>3. bans' = [bans EXCEPT ![c] = BanLists!Sans(@, {m})]
  BY <1>2 DEF BanLists!ExpireBan
<1>4. \A x \in timers : x.chan = c /\ x.mask = m => x = t
  BY <1>1, <1>2 DEF BInv, TimersOfBans, BanTimer, Due
<1>5. timers' = BanLists!Disarmed(timers, c, {m})
  BY <1>2, <1>4 DEF BanLists!ExpireBan, BanLists!Disarmed
<1> QED BY <1>2, <1>3, <1>5, BansGo, Zenon

\* A list goes, or begins empty.
LEMMA RegistrationSteps ==
  ASSUME BansTame, BInv, NEW c \in Channels, BanLists!Unregister(c) \/ BanLists!Register(c)
  PROVE  BInv'
<1>1. CASE BanLists!Unregister(c)
  <2>1. bans' \in [Channels -> BanList \cup {NULL}] /\ bans'[c] = NULL /\ \A d \in Channels \ {c} : bans'[d] = bans[d]
    BY <1>1 DEF BanLists!Unregister, BInv, Lists
  <2>2. Sparse'
    BY <2>1 DEF BInv, Sparse
  <2>3. \A d \in Channels : \A m \in BanLists!Masks, e \in 0..MaxTime : Due(bans', d, m, e) <=> Due(bans, d, m, e) /\ d # c
    BY <2>1 DEF Due
  <2>4. timers' = BanLists!Disarmed(timers, c, DOMAIN bans[c])
    BY <1>1 DEF BanLists!Unregister
  <2>5. \A d, m, e : BanTimer(d, m, e) \in timers' <=> BanTimer(d, m, e) \in timers /\ ~(d = c /\ m \in DOMAIN bans[c])
    BY <2>4 DEF BanLists!Disarmed, BanTimer
  <2>6. \A d, m, e : Due(bans, d, m, e) => m \in DOMAIN bans[d]
    BY DEF Due
  <2>7. TimersOfBans'
    <3> SUFFICES ASSUME NEW x \in timers'
                 PROVE  \E d \in Channels, m \in BanLists!Masks, e \in 0..MaxTime : x = BanTimer(d, m, e) /\ Due(bans', d, m, e)
      BY DEF TimersOfBans
    <3>1. x \in timers
      BY <2>4 DEF BanLists!Disarmed
    <3>2. PICK d \in Channels, m \in BanLists!Masks, e \in 0..MaxTime : x = BanTimer(d, m, e) /\ Due(bans, d, m, e)
      BY <3>1 DEF BInv, TimersOfBans
    <3> QED BY <3>2, <2>3, <2>5, <2>6
  <2>8. BansHaveTimers'
    BY <2>3, <2>5 DEF BInv, BansHaveTimers
  <2> QED BY <2>1, <2>2, <2>7, <2>8 DEF BInv, Lists
<1>2. CASE BanLists!Register(c)
  <2>1. bans' \in [Channels -> BanList \cup {NULL}] /\ bans'[c] = BanLists!None /\ \A d \in Channels \ {c} : bans'[d] = bans[d]
    BY <1>2, NoneList DEF BanLists!Register, BInv, Lists
  <2>2. bans[c] = NULL /\ timers' = timers
    BY <1>2 DEF BanLists!Register
  <2>3. Sparse'
    BY <2>1, NoneList DEF BInv, Sparse
  <2>4. \A d \in Channels : \A m \in BanLists!Masks, e \in 0..MaxTime : Due(bans', d, m, e) <=> Due(bans, d, m, e)
    BY <2>1, <2>2, NoneList DEF Due
  <2>5. TimersOfBans' /\ BansHaveTimers'
    BY <2>2, <2>4 DEF BInv, TimersOfBans, BansHaveTimers
  <2> QED BY <2>1, <2>3, <2>5 DEF BInv, Lists
<1> QED BY <1>1, <1>2

\* An entry of another channel.
LEMMA EntryMoved == \A c, m, e, d : [BanTimer(c, m, e) EXCEPT !.chan = d] = BanTimer(d, m, e)
BY DEF BanTimer

\* MOVE takes the list and its timers to the other channel: struct chanData stays the same.
LEMMA MoveStep ==
  ASSUME BansTame, BInv, NEW c \in Channels, NEW d \in Channels, BanLists!Move(c, d)
  PROVE  BInv'
<1>1. c # d /\ bans[c] # NULL /\ bans[c] \in BanList /\ bans[d] = NULL
  BY DEF BanLists!Move, BanLists!Active, BInv, Lists
<1>2. /\ bans' \in [Channels -> BanList \cup {NULL}] /\ bans'[c] = NULL /\ bans'[d] = bans[c]
      /\ \A k \in Channels \ {c, d} : bans'[k] = bans[k]
  BY <1>1 DEF BanLists!Move, BInv, Lists
<1>3. Sparse'
  BY <1>1, <1>2 DEF BInv, Sparse
<1>4. \A m \in BanLists!Masks, e \in 0..MaxTime :
        /\ ~Due(bans', c, m, e)
        /\ Due(bans', d, m, e) <=> Due(bans, c, m, e)
        /\ ~Due(bans, d, m, e)
        /\ \A k \in Channels \ {c, d} : Due(bans', k, m, e) <=> Due(bans, k, m, e)
  BY <1>1, <1>2 DEF Due
<1>5. timers' = {IF t.chan = c THEN [t EXCEPT !.chan = d] ELSE t : t \in timers}
  BY DEF BanLists!Move
<1>6. \A k, m, e : BanTimer(k, m, e).chan = k
  BY DEF BanTimer
<1>7. TimersOfBans'
  <2> SUFFICES ASSUME NEW x \in timers'
               PROVE  \E k \in Channels, m \in BanLists!Masks, e \in 0..MaxTime : x = BanTimer(k, m, e) /\ Due(bans', k, m, e)
    BY DEF TimersOfBans
  <2>1. PICK t \in timers : x = IF t.chan = c THEN [t EXCEPT !.chan = d] ELSE t
    BY <1>5
  <2>2. PICK k \in Channels, m \in BanLists!Masks, e \in 0..MaxTime : t = BanTimer(k, m, e) /\ Due(bans, k, m, e)
    BY DEF BInv, TimersOfBans
  <2>3. CASE k = c
    BY <2>1, <2>2, <2>3, <1>4, <1>6, EntryMoved
  <2>4. CASE k # c
    BY <2>1, <2>2, <2>4, <1>4, <1>6
  <2> QED BY <2>3, <2>4
<1>8. BansHaveTimers'
  <2> SUFFICES ASSUME NEW k \in Channels, NEW m \in BanLists!Masks, NEW e \in 0..MaxTime, Due(bans', k, m, e)
               PROVE  BanTimer(k, m, e) \in timers'
    BY DEF BansHaveTimers
  <2>1. CASE k = d
    <3>1. BanTimer(c, m, e) \in timers
      BY <2>1, <1>4 DEF BInv, BansHaveTimers
    <3> QED BY <3>1, <2>1, <1>5, <1>6, EntryMoved
  <2>2. CASE k # d
    <3>1. BanTimer(k, m, e) \in timers /\ k # c
      BY <2>2, <1>4 DEF BInv, BansHaveTimers
    <3> QED BY <3>1, <1>5, <1>6
  <2> QED BY <2>1, <2>2
<1> QED BY <1>2, <1>3, <1>7, <1>8 DEF BInv, Lists

\* The later of equal times.
LEMMA LatestSame ==
  ASSUME NEW e \in Nat, NEW es, \A x \in es : x = e
  PROVE  BanLists!Latest(e, es) = e
<1>1. CASE es = {}
  BY <1>1 DEF BanLists!Latest
<1>2. CASE es # {}
  <2>1. \E z \in es : \A y \in es : y <= z
    BY <1>2
  <2>2. (CHOOSE z \in es : \A y \in es : y <= z) = e
    BY <2>1
  <2> QED BY <1>2, <2>2 DEF BanLists!Latest, BanLists!Later
<1> QED BY <1>1, <1>2

\* What MERGE makes of two lists whose comparable bans expire together.
LEMMA MergedList ==
  ASSUME NEW s, NEW t, bans[s] \in BanList, bans[t] \in BanList, Apart(bans[s]), Apart(bans[t]),
         \A m \in DOMAIN bans[s], b \in DOMAIN bans[t] : m \subseteq b \/ b \subseteq m => bans[s][m] = bans[t][b]
  PROVE  /\ BanLists!Merged(s, t, {}) \in BanList /\ Apart(BanLists!Merged(s, t, {}))
         /\ DOMAIN BanLists!Merged(s, t, {}) = (DOMAIN bans[t] \ BanLists!Narrower(s, t)) \cup BanLists!Taken(s, t)
         /\ \A m \in DOMAIN bans[t] \ BanLists!Narrower(s, t) : BanLists!Merged(s, t, {})[m] = bans[t][m]
         /\ \A m \in BanLists!Taken(s, t) : BanLists!Merged(s, t, {})[m] = bans[s][m]
<1> DEFINE F == DOMAIN bans[s]
           G == DOMAIN bans[t]
           stay == G \ BanLists!Narrower(s, t)
           come == BanLists!Taken(s, t)
           new == BanLists!Merged(s, t, {})
<1>1. F \subseteq BanLists!Masks /\ G \subseteq BanLists!Masks /\ (\A m \in F : bans[s][m] \in 0..MaxTime) /\ (\A m \in G : bans[t][m] \in 0..MaxTime)
  BY ListOf
<1>2. come \subseteq F /\ stay \subseteq G
  BY DEF BanLists!Taken
<1>3. \A m \in come : m \notin G
  BY DEF BanLists!Taken
<1>4. DOMAIN new = stay \cup come
  BY DEF BanLists!Merged
<1>5. ASSUME NEW m \in stay PROVE new[m] = bans[t][m]
  <2>1. \A x \in {bans[s][b] : b \in {b \in F : b \subseteq m}} : x = bans[t][m]
    BY <1>5
  <2>2. bans[t][m] \in Nat
    BY <1>1
  <2>3. new[m] = BanLists!Latest(bans[t][m], {bans[s][b] : b \in {b \in F : b \subseteq m}})
    BY <1>5 DEF BanLists!Merged
  <2> QED BY <2>1, <2>2, <2>3, LatestSame
<1>6. ASSUME NEW m \in come PROVE new[m] = bans[s][m]
  <2>1. \A x \in {bans[t][b] : b \in {b \in G : b \subseteq m}} : x = bans[s][m]
    BY <1>2
  <2>2. bans[s][m] \in Nat
    BY <1>1, <1>2
  <2>3. new[m] = BanLists!Latest(bans[s][m], {bans[t][b] : b \in {b \in G : b \subseteq m}})
    BY <1>3, <1>6 DEF BanLists!Merged
  <2> QED BY <2>1, <2>2, <2>3, LatestSame
<1>7. Apart(new)
  <2> SUFFICES ASSUME NEW m \in stay \cup come, NEW n \in stay \cup come, m \subseteq n PROVE m = n
    BY <1>4 DEF Apart
  <2>1. CASE m \in stay /\ n \in stay
    BY <2>1, <1>2 DEF Apart
  <2>2. CASE m \in come /\ n \in come
    BY <2>2, <1>2 DEF Apart
  <2>3. CASE m \in stay /\ n \in come
    BY <2>3, <1>2 DEF BanLists!Narrower
  <2>4. CASE m \in come /\ n \in stay
    BY <2>4, <1>2 DEF BanLists!Taken
  <2> QED BY <2>1, <2>2, <2>3, <2>4
<1>8. new \in [stay \cup come -> 0..MaxTime]
  <2>1. \A m \in stay \cup come : new[m] \in 0..MaxTime
    BY <1>1, <1>2, <1>5, <1>6
  <2>2. new = [m \in stay \cup come |-> new[m]]
    BY DEF BanLists!Merged
  <2> HIDE DEF stay, come, new
  <2> QED BY <2>1, <2>2, Zenon
<1>9. stay \cup come \in SUBSET BanLists!Masks
  BY <1>1, <1>2
<1>10. new \in BanList
  BY <1>8, <1>9, ListOf
<1> QED BY <1>4, <1>5, <1>6, <1>7, <1>10

\* What MERGE does to the lists and the queue: the target's bans that none of
\* the source's is broader than, and the source's that are not covered.
MergeMade(s, t) ==
  LET F == DOMAIN bans[s]
      stay == DOMAIN bans[t] \ BanLists!Narrower(s, t)
      come == BanLists!Taken(s, t)
      new == BanLists!Merged(s, t, {})
  IN /\ s # t /\ bans[s] # NULL /\ bans[t] # NULL
     /\ bans[s] \in BanList /\ bans[t] \in BanList /\ Apart(bans[s]) /\ Apart(bans[t])
     /\ \A m \in F, b \in DOMAIN bans[t] : m \subseteq b \/ b \subseteq m => bans[s][m] = bans[t][b]
     /\ new \in BanList /\ Apart(new) /\ new # NULL /\ DOMAIN new = stay \cup come
     /\ \A m \in stay : new[m] = bans[t][m]
     /\ \A m \in come : new[m] = bans[s][m]
     /\ bans' = [bans EXCEPT ![s] = NULL, ![t] = new] /\ bans'[t] = new
     /\ timers' = {IF x.chan = s /\ x.mask \in come THEN [x EXCEPT !.chan = t] ELSE x :
                     x \in BanLists!Disarmed(BanLists!Disarmed(timers, s, F \ come), t, BanLists!Narrower(s, t))}

\* merge_bans, where comparable bans of the two channels expire together and the target has room.
LEMMA MergeMakes ==
  ASSUME BansTame, BInv, NEW s \in Channels, NEW t \in Channels, BanLists!Merge(s, t)
  PROVE  MergeMade(s, t)
<1> DEFINE F == DOMAIN bans[s]
           G == DOMAIN bans[t]
           stay == G \ BanLists!Narrower(s, t)
           come == BanLists!Taken(s, t)
           new == BanLists!Merged(s, t, {})
<1>1. s # t /\ bans[s] # NULL /\ bans[t] # NULL
  BY DEF BanLists!Merge, BanLists!Active
<1>2. bans[s] \in BanList /\ bans[t] \in BanList /\ Apart(bans[s]) /\ Apart(bans[t])
  BY <1>1 DEF BInv, Lists, Sparse
<1>3. \A m \in F, b \in G : m \subseteq b \/ b \subseteq m => bans[s][m] = bans[t][b]
  BY DEF BanLists!Merge, BansTame
<1>4. /\ bans' = [bans EXCEPT ![s] = NULL, ![t] = new]
      /\ timers' = {IF x.chan = s /\ x.mask \in come THEN [x EXCEPT !.chan = t] ELSE x :
                      x \in BanLists!Disarmed(BanLists!Disarmed(timers, s, F \ come), t, BanLists!Narrower(s, t))}
  <2>1. PICK lost : /\ lost # {} => "LOST" \in Enabled
                    /\ bans' = [bans EXCEPT ![s] = NULL, ![t] = BanLists!Merged(s, t, lost)]
                    /\ timers' = {IF x.chan = s /\ x.mask \in BanLists!Taken(s, t) \ lost THEN [x EXCEPT !.chan = t] ELSE x :
                                    x \in BanLists!Disarmed(BanLists!Disarmed(timers, s, F \ BanLists!Taken(s, t)), t, BanLists!Narrower(s, t))}
    BY Zenon DEF BanLists!Merge
  <2>2. lost = {}
    BY <2>1 DEF BansTame
  <2>3. BanLists!Taken(s, t) \ lost = come
    BY <2>2
  <2> QED BY <2>1, <2>2, <2>3
<1>5. /\ new \in BanList /\ Apart(new) /\ DOMAIN new = stay \cup come
      /\ \A m \in stay : new[m] = bans[t][m]
      /\ \A m \in come : new[m] = bans[s][m]
  <2>1. \A m \in DOMAIN bans[s], b \in DOMAIN bans[t] : m \subseteq b \/ b \subseteq m => bans[s][m] = bans[t][b]
    BY <1>3
  <2> HIDE <1>3
  <2>2. /\ BanLists!Merged(s, t, {}) \in BanList /\ Apart(BanLists!Merged(s, t, {}))
        /\ DOMAIN BanLists!Merged(s, t, {}) = (DOMAIN bans[t] \ BanLists!Narrower(s, t)) \cup BanLists!Taken(s, t)
        /\ \A m \in DOMAIN bans[t] \ BanLists!Narrower(s, t) : BanLists!Merged(s, t, {})[m] = bans[t][m]
        /\ \A m \in BanLists!Taken(s, t) : BanLists!Merged(s, t, {})[m] = bans[s][m]
    <3> HIDE DEF F, G, stay, come, new
    <3> QED BY <1>2, <2>1, MergedList, ZenonT(40)
  <2> QED BY <2>2
<1>6. new # NULL
  BY <1>5 DEF BansTame
<1>7. bans'[t] = new
  BY <1>1, <1>4 DEF BInv, Lists
<1> QED BY <1>1, <1>2, <1>3, <1>4, <1>5, <1>6, <1>7 DEF MergeMade

\* merge_bans leaves every timer with the list its ban is on now.
LEMMA MergeStep ==
  ASSUME BansTame, BInv, NEW s \in Channels, NEW t \in Channels, BanLists!Merge(s, t)
  PROVE  BInv'
<1> DEFINE F == DOMAIN bans[s]
           G == DOMAIN bans[t]
           stay == G \ BanLists!Narrower(s, t)
           come == BanLists!Taken(s, t)
           new == BanLists!Merged(s, t, {})
<1>0. MergeMade(s, t)
  BY MergeMakes
<1>1. s # t /\ bans[s] # NULL /\ bans[t] # NULL
  BY <1>0 DEF MergeMade
<1>4. /\ bans' = [bans EXCEPT ![s] = NULL, ![t] = new]
      /\ timers' = {IF x.chan = s /\ x.mask \in come THEN [x EXCEPT !.chan = t] ELSE x :
                      x \in BanLists!Disarmed(BanLists!Disarmed(timers, s, F \ come), t, BanLists!Narrower(s, t))}
  BY <1>0 DEF MergeMade
<1>5. /\ new \in BanList /\ Apart(new) /\ DOMAIN new = stay \cup come
      /\ \A m \in stay : new[m] = bans[t][m]
      /\ \A m \in come : new[m] = bans[s][m]
  BY <1>0 DEF MergeMade
<1>6. new # NULL
  BY <1>0 DEF MergeMade
<1>7. come \subseteq F /\ stay \subseteq G /\ come \cap G = {}
  BY DEF BanLists!Taken
<1> HIDE DEF new, stay, come
<1>8. /\ bans' \in [Channels -> BanList \cup {NULL}] /\ bans'[s] = NULL /\ bans'[t] = new
      /\ \A k \in Channels \ {s, t} : bans'[k] = bans[k]
  BY <1>1, <1>4, <1>5 DEF BInv, Lists
<1>9. Sparse'
  BY <1>5, <1>8 DEF BInv, Sparse
<1>10. \A m \in BanLists!Masks, e \in 0..MaxTime :
         /\ ~Due(bans', s, m, e)
         /\ Due(bans', t, m, e) <=> (m \in stay /\ Due(bans, t, m, e)) \/ (m \in come /\ Due(bans, s, m, e))
         /\ \A k \in Channels \ {s, t} : Due(bans', k, m, e) <=> Due(bans, k, m, e)
  BY <1>1, <1>5, <1>6, <1>7, <1>8 DEF Due
<1>11. \A k, m, e : BanTimer(k, m, e).chan = k /\ BanTimer(k, m, e).mask = m
  BY DEF BanTimer
<1>12. \A x : x \in BanLists!Disarmed(BanLists!Disarmed(timers, s, F \ come), t, BanLists!Narrower(s, t)) <=>
                x \in timers /\ ~(x.chan = s /\ x.mask \in F \ come) /\ ~(x.chan = t /\ x.mask \in BanLists!Narrower(s, t))
  BY DEF BanLists!Disarmed
<1>15. \A k, m, e : BanTimer(k, m, e) \in timers /\ ~(k = s /\ m \in F \ come) /\ ~(k = t /\ m \in BanLists!Narrower(s, t)) =>
          (IF k = s /\ m \in come THEN BanTimer(t, m, e) ELSE BanTimer(k, m, e)) \in timers'
  <2> SUFFICES ASSUME NEW k, NEW m, NEW e, BanTimer(k, m, e) \in timers,
                      ~(k = s /\ m \in F \ come) /\ ~(k = t /\ m \in BanLists!Narrower(s, t))
               PROVE  (IF k = s /\ m \in come THEN BanTimer(t, m, e) ELSE BanTimer(k, m, e)) \in timers'
    OBVIOUS
  <2> DEFINE x == BanTimer(k, m, e)
  <2>1. x \in BanLists!Disarmed(BanLists!Disarmed(timers, s, F \ come), t, BanLists!Narrower(s, t))
    <3>1. x \in timers /\ x.chan = k /\ x.mask = m
      BY <1>11
    <3>2. ~(x.chan = s /\ x.mask \in F \ come) /\ ~(x.chan = t /\ x.mask \in BanLists!Narrower(s, t))
      BY <3>1
    <3> HIDE DEF x
    <3> QED BY <3>1, <3>2, <1>12, Zenon
  <2>2. (IF x.chan = s /\ x.mask \in come THEN [x EXCEPT !.chan = t] ELSE x) \in timers'
    <3> DEFINE all == BanLists!Disarmed(BanLists!Disarmed(timers, s, F \ come), t, BanLists!Narrower(s, t))
    <3> HIDE DEF x, all
    <3>1. timers' = {IF y.chan = s /\ y.mask \in come THEN [y EXCEPT !.chan = t] ELSE y : y \in all}
      BY <1>4 DEF all
    <3>2. x \in all
      BY <2>1 DEF all
    <3> QED BY <3>1, <3>2, Zenon
  <2>3. [x EXCEPT !.chan = t] = BanTimer(t, m, e) /\ x.chan = k /\ x.mask = m
    BY EntryMoved, <1>11
  <2> HIDE DEF x
  <2>4. (IF k = s /\ m \in come THEN BanTimer(t, m, e) ELSE x) \in timers'
    BY <2>2, <2>3
  <2> QED BY <2>4 DEF x
<1>13. TimersOfBans'
  <2> SUFFICES ASSUME NEW y \in timers'
               PROVE  \E k \in Channels, m \in BanLists!Masks, e \in 0..MaxTime : y = BanTimer(k, m, e) /\ Due(bans', k, m, e)
    BY DEF TimersOfBans
  <2>1. PICK x \in BanLists!Disarmed(BanLists!Disarmed(timers, s, F \ come), t, BanLists!Narrower(s, t)) :
               y = IF x.chan = s /\ x.mask \in come THEN [x EXCEPT !.chan = t] ELSE x
    BY <1>4, Zenon
  <2>2. x \in timers /\ ~(x.chan = s /\ x.mask \in F \ come) /\ ~(x.chan = t /\ x.mask \in BanLists!Narrower(s, t))
    BY <1>12, Zenon
  <2>3. PICK k \in Channels, m \in BanLists!Masks, e \in 0..MaxTime : x = BanTimer(k, m, e) /\ Due(bans, k, m, e)
    BY <2>2 DEF BInv, TimersOfBans
  <2>4. m \in DOMAIN bans[k] /\ x.chan = k /\ x.mask = m
    BY <2>3, <1>11 DEF Due
  <2>5. CASE k = s
    <3>1. m \in come
      BY <2>5, <2>2, <2>4
    <3>2. y = BanTimer(t, m, e)
      BY <3>1, <2>1, <2>3, <2>4, <2>5, EntryMoved
    <3> QED BY <3>1, <3>2, <2>3, <2>5, <1>10
  <2>6. CASE k = t
    <3>1. m \in stay
      BY <2>6, <2>2, <2>4 DEF stay
    <3> QED BY <3>1, <2>1, <2>3, <2>4, <2>6, <1>1, <1>10
  <2>7. CASE k \notin {s, t}
    BY <2>7, <2>1, <2>3, <2>4, <1>10
  <2> QED BY <2>5, <2>6, <2>7
<1>14. BansHaveTimers'
  <2> SUFFICES ASSUME NEW k \in Channels, NEW m \in BanLists!Masks, NEW e \in 0..MaxTime, Due(bans', k, m, e)
               PROVE  BanTimer(k, m, e) \in timers'
    BY DEF BansHaveTimers
  <2>1. \A d \in Channels : Due(bans, d, m, e) => BanTimer(d, m, e) \in timers
    BY DEF BInv, BansHaveTimers
  <2>2. CASE k = t /\ m \in stay
    <3>1. BanTimer(t, m, e) \in timers
      BY <2>1, <2>2, <1>7, <1>10
    <3>2. m \notin BanLists!Narrower(s, t)
      BY <2>2 DEF stay
    <3> QED BY <2>2, <3>1, <3>2, <1>1, <1>15
  <2>3. CASE k = t /\ m \in come
    <3>1. BanTimer(s, m, e) \in timers
      BY <2>1, <2>3, <1>7, <1>10 DEF stay
    <3> QED BY <2>3, <3>1, <1>1, <1>15
  <2>4. CASE k \notin {s, t}
    <3>1. BanTimer(k, m, e) \in timers
      BY <2>1, <2>4, <1>10
    <3> QED BY <2>4, <3>1, <1>15
  <2> QED BY <2>2, <2>3, <2>4, <1>10
<1> QED BY <1>8, <1>9, <1>13, <1>14 DEF BInv, Lists

\* The timers are those of the bans.
LEMMA ExactTimers ==
  Lists => (TimersOfBans /\ BansHaveTimers <=>
              timers = UNION {{[chan |-> c, mask |-> m, at |-> bans[c][m]] :
                                 m \in {m \in DOMAIN bans[c] : bans[c][m] # 0}} :
                               c \in {c \in Channels : bans[c] # NULL}})
<1> SUFFICES ASSUME Lists
             PROVE  TimersOfBans /\ BansHaveTimers <=>
              timers = UNION {{[chan |-> c, mask |-> m, at |-> bans[c][m]] :
                                 m \in {m \in DOMAIN bans[c] : bans[c][m] # 0}} :
                               c \in {c \in Channels : bans[c] # NULL}}
  OBVIOUS
<1> DEFINE all == UNION {{[chan |-> c, mask |-> m, at |-> bans[c][m]] :
                            m \in {m \in DOMAIN bans[c] : bans[c][m] # 0}} :
                          c \in {c \in Channels : bans[c] # NULL}}
<1>1. \A c \in Channels : bans[c] # NULL => DOMAIN bans[c] \subseteq BanLists!Masks /\ \A m \in DOMAIN bans[c] : bans[c][m] \in 0..MaxTime
  BY ListOf DEF Lists
<1>2. \A x : x \in all <=> \E c \in Channels : bans[c] # NULL /\ \E m \in DOMAIN bans[c] : bans[c][m] # 0 /\ x = BanTimer(c, m, bans[c][m])
  BY DEF BanTimer
<1> HIDE DEF all
<1>3. \A x : x \in all <=> \E c \in Channels, m \in BanLists!Masks, e \in 0..MaxTime : x = BanTimer(c, m, e) /\ Due(bans, c, m, e)
  BY <1>1, <1>2 DEF Due
<1>4. TimersOfBans <=> timers \subseteq all
  BY <1>3 DEF TimersOfBans
<1>5. BansHaveTimers <=> all \subseteq timers
  BY <1>3 DEF BansHaveTimers
<1>6. TimersOfBans /\ BansHaveTimers <=> timers = all
  BY <1>4, <1>5
<1> QED BY <1>6 DEF all

\* The bans that are read back get their timers anew, those that have lapsed are not read.
LEMMA RestartStep ==
  ASSUME BansTame, BInv, BanLists!Restart
  PROVE  BInv'
<1>1. \A c \in Channels : bans'[c] = IF bans[c] = NULL THEN NULL
                                     ELSE BanLists!Sans(bans[c], {m \in DOMAIN bans[c] : bans[c][m] # 0 /\ bans[c][m] < now})
  BY DEF BanLists!Restart
<1>2. ASSUME NEW c \in Channels PROVE bans'[c] \in BanList \cup {NULL} /\ (bans'[c] # NULL => bans[c] # NULL /\ Apart(bans'[c]))
                                      /\ (bans[c] # NULL => bans'[c] # NULL)
  <2>1. CASE bans[c] = NULL
    BY <2>1, <1>1, Zenon
  <2>2. CASE bans[c] # NULL
    <3> DEFINE gone == {m \in DOMAIN bans[c] : bans[c][m] # 0 /\ bans[c][m] < now}
    <3>1. bans[c] \in BanList /\ Apart(bans[c])
      BY <2>2 DEF BInv, Lists, Sparse
    <3>2. bans'[c] = BanLists!Sans(bans[c], gone)
      BY <2>2, <1>1
    <3> HIDE DEF gone
    <3>3. BanLists!Sans(bans[c], gone) \in BanList /\ Apart(BanLists!Sans(bans[c], gone))
      BY <3>1, SansList, Zenon
    <3> QED BY <3>2, <3>3, <2>2 DEF BansTame
  <2> QED BY <2>1, <2>2
<1>3. bans' = [c \in Channels |-> bans'[c]]
  BY DEF BanLists!Restart
<1>4. Lists' /\ Sparse'
  BY <1>2, <1>3 DEF Lists, Sparse
<1>5. timers' = UNION {{[chan |-> c, mask |-> m, at |-> bans'[c][m]] :
                           m \in {m \in DOMAIN bans'[c] : bans'[c][m] # 0}} :
                         c \in {c \in Channels : bans'[c] # NULL}}
  <2>1. {c \in Channels : bans[c] # NULL} = {c \in Channels : bans'[c] # NULL}
    BY <1>2
  <2> QED BY <2>1, Zenon DEF BanLists!Restart
<1>6. (Lists => (TimersOfBans /\ BansHaveTimers <=>
              timers = UNION {{[chan |-> c, mask |-> m, at |-> bans[c][m]] :
                                 m \in {m \in DOMAIN bans[c] : bans[c][m] # 0}} :
                               c \in {c \in Channels : bans[c] # NULL}}))'
  BY ExactTimers, PTL
<1> QED BY <1>4, <1>5, <1>6 DEF BInv

\* Every step keeps the lists and the queue together.
LEMMA BanNext == BansTame /\ BInv /\ [BanLists!Next]_(BanLists!vars) => BInv'
<1> SUFFICES ASSUME BansTame, BInv, [BanLists!Next]_(BanLists!vars) PROVE BInv'
  OBVIOUS
<1>1. ASSUME NEW a \in Admins, NEW c \in Channels, NEW m \in BanLists!Masks, NEW v \in Users \cup {NULL},
             \/ \E kick, bar \in BOOLEAN : BanLists!Eject(a, c, m, v, kick, bar)
             \/ \E e \in 0..MaxTime : BanLists!AddBan(a, c, m, v, e)
      PROVE  BInv'
  BY <1>1, AddBanStep, BansSame DEF BanLists!Eject
<1>2. ASSUME NEW c \in Channels,
             \/ \E ms \in BanLists!Unbanned, list \in BOOLEAN : BanLists!Unban(c, ms, list)
             \/ \E old \in SUBSET BanLists!Masks : BanLists!TrimBans(c, old)
      PROVE  BInv'
  BY <1>2, BansRemoved
<1>3. ASSUME NEW c \in Channels, BanLists!Unregister(c) \/ BanLists!Register(c) PROVE BInv'
  BY <1>3, RegistrationSteps
<1>4. ASSUME NEW c \in Channels, NEW d \in Channels, BanLists!Move(c, d) \/ BanLists!Merge(c, d) PROVE BInv'
  BY <1>4, MoveStep, MergeStep
<1>5. ASSUME NEW u \in Users, \/ \E burst, has \in BOOLEAN : BanLists!Join(u, burst, has)
                              \/ \E g \in Guises : BanLists!NewGuise(u, g)
                              \/ BanLists!Part(u)
      PROVE  BInv'
  BY <1>5, BansSame DEF BanLists!Join, BanLists!NewGuise, BanLists!Part
<1>6. CASE BanLists!Csuspend \/ BanLists!Tick \/ UNCHANGED BanLists!vars
  BY <1>6, BansSame DEF BanLists!Csuspend, BanLists!Tick, BanLists!vars
<1>7. CASE \E t \in timers : BanLists!ExpireBan(t)
  BY <1>7, ExpireStep
<1>8. CASE BanLists!Restart
  BY <1>8, RestartStep
<1> QED
  BY <1>1, <1>2, <1>3, <1>4, <1>5, <1>6, <1>7, <1>8 DEF BanLists!Next

\* Every ban of a channel list that expires has one timer, for its time and its channel, every
\* timer has its ban, and no ban of a list makes another redundant: whatever is added, removed,
\* moved, merged, expires or is read back (add_channel_ban, del_channel_ban, expire_ban,
\* merge_bans), as long as no MERGE meets one of the two faults that ChanBans names.
THEOREM BansAreExact == ASSUME BansTame PROVE BanLists!Spec => []BanLists!BansExact
<1>1. BInv => BanLists!BansExact
  BY ExactTimers DEF BInv, Sparse, Apart, BanLists!BansExact
<1>2. BInv /\ [BanLists!Next]_(BanLists!vars) => BInv'
  BY BanNext
<1> QED BY <1>1, <1>2, BanInit, PTL DEF BanLists!Spec

\* A ban of either channel has one in the merged list that covers it and lasts as long.
LEMMA MergeKeeps ==
  ASSUME BansTame, BInv, NEW s \in Channels, NEW t \in Channels, BanLists!Merge(s, t), NEW c \in {s, t}, NEW m \in DOMAIN bans[c]
  PROVE  \E b \in DOMAIN bans'[t] : m \subseteq b /\ (bans'[t][b] = 0 \/ (bans[c][m] # 0 /\ bans'[t][b] >= bans[c][m]))
<1> DEFINE F == DOMAIN bans[s]
           G == DOMAIN bans[t]
           new == bans'[t]
<1>1. MergeMade(s, t)
  BY MergeMakes
<1>2. s # t /\ Apart(bans[s]) /\ Apart(bans[t]) /\ bans[s] \in BanList /\ bans[t] \in BanList
  BY <1>1 DEF MergeMade
<1>3. /\ DOMAIN new = (G \ BanLists!Narrower(s, t)) \cup BanLists!Taken(s, t)
      /\ \A b \in G \ BanLists!Narrower(s, t) : new[b] = bans[t][b]
      /\ \A b \in BanLists!Taken(s, t) : new[b] = bans[s][b]
  BY <1>1, Zenon DEF MergeMade
<1>4. \A d \in F, b \in G : d \subseteq b \/ b \subseteq d => bans[s][d] = bans[t][b]
  BY <1>1 DEF MergeMade
<1>5. \A d \in {s, t} : \A b \in DOMAIN bans[d] : bans[d][b] \in Nat
  BY <1>2, ListOf
<1>6. SUFFICES \E b \in DOMAIN new : m \subseteq b /\ new[b] = bans[c][m]
  BY <1>5
<1> HIDE DEF new
<1>7. CASE c = s /\ m \in BanLists!Taken(s, t)
  BY <1>7, <1>3
<1>8. CASE c = s /\ m \notin BanLists!Taken(s, t)
  <2>1. PICK b \in G : m \subseteq b
    BY <1>8 DEF BanLists!Taken
  <2>2. b \notin BanLists!Narrower(s, t)
    <3> SUFFICES ASSUME NEW d \in F, b \subseteq d, b # d PROVE FALSE
      BY DEF BanLists!Narrower
    <3>1. m \subseteq d /\ m \in F
      BY <2>1, <1>8
    <3>2. m = d
      BY <3>1, <1>2 DEF Apart
    <3>3. b = d
      BY <2>1, <3>2, Zenon
    <3> QED BY <3>3
  <2> QED BY <2>1, <2>2, <1>3, <1>4, <1>8
<1>9. CASE c = t /\ m \notin BanLists!Narrower(s, t)
  BY <1>9, <1>3
<1>10. CASE c = t /\ m \in BanLists!Narrower(s, t)
  <2>1. PICK b \in F : m \subseteq b /\ m # b
    BY <1>10 DEF BanLists!Narrower
  <2>2. b \in BanLists!Taken(s, t)
    <3> SUFFICES ASSUME NEW d \in G, b \subseteq d PROVE FALSE
      BY DEF BanLists!Taken
    <3>1. m \subseteq d /\ m \in G
      BY <2>1, <1>10
    <3>2. m = d
      BY <3>1, <1>2 DEF Apart
    <3>3. b = m
      BY <2>1, <3>2
    <3> QED BY <2>1, <3>3
  <2> QED BY <2>1, <2>2, <1>3, <1>4, <1>10
<1> QED BY <1>7, <1>8, <1>9, <1>10

\* MERGE keeps "the broader ban" (merge_bans, chanserv.c:2388): whoever one of the two channels
\* banned stays banned, for at least as long.
THEOREM MergeKeepsBans == ASSUME BansTame PROVE BanLists!Spec => [][BanLists!MergedBansKept]_(BanLists!vars)
<1>1. BInv /\ [BanLists!Next]_(BanLists!vars) => [BanLists!MergedBansKept]_(BanLists!vars)
  BY MergeKeeps DEF BanLists!MergedBansKept
<1>2. BInv /\ [BanLists!Next]_(BanLists!vars) => BInv'
  BY BanNext
<1> QED BY <1>1, <1>2, BanInit, PTL DEF BanLists!Spec

-----------------------------------------------------------------------------
(* ChanServ's notes about channels (ChanNotes).                             *)
NoteTypes == INSTANCE ChanNotes

\* What the proofs assume of the constants: lengths are numbers, channels finitely many, NULL is no dictionary.
NotesTame == /\ IsFiniteSet(Channels) /\ Lengths \subseteq Int /\ Texts \subseteq Int
             /\ \A f : f = [t \in DOMAIN f |-> f[t]] => f # NULL

\* One line of note_types.
Hows == {"privileged"} \cup {s.how : s \in Setting}
Mins == {0} \cup {s.min : s \in Setting}
NoteType == [refs : Int, how : Hows, min : Mins, max : Int]

HoldersOf(ns, t) == {c \in Channels : ns[c] # NULL /\ t \in DOMAIN ns[c]}

NotesInv ==
  /\ ~broken
  /\ types = [t \in DOMAIN types |-> types[t]] /\ \A t \in DOMAIN types : types[t] \in NoteType
  /\ notes = [c \in Channels |-> notes[c]]
  /\ \A c \in Channels : notes[c] # NULL =>
       /\ notes[c] = [t \in DOMAIN notes[c] |-> notes[c][t]]
       /\ DOMAIN notes[c] \subseteq DOMAIN types
       /\ \A t \in DOMAIN notes[c] : notes[c][t] \in Int /\ notes[c][t] <= types[t].max
  /\ freed \cap DOMAIN types = {}
  /\ \A t \in DOMAIN types : types[t].refs = 1 + Cardinality(HoldersOf(notes, t))

\* The two sections count in the same way.
LEMMA SameCardinality == \A S : NoteTypes!Cardinality(S) = Cardinality(S)
  BY Zenon DEF NoteTypes!Cardinality, Cardinality

\* Finitely many channels have a note of a type.
LEMMA HoldersFinite ==
  ASSUME NotesTame, NEW ns, NEW t
  PROVE  /\ IsFiniteSet(HoldersOf(ns, t)) /\ Cardinality(HoldersOf(ns, t)) \in Nat
<1>1. HoldersOf(ns, t) \subseteq Channels
  BY DEF HoldersOf
<1> QED BY <1>1, FS_Subset, FS_CardinalityType DEF NotesTame

\* No note outlives its type.
LEMMA NoHolders ==
  ASSUME NotesInv, NEW t, t \notin DOMAIN types
  PROVE  Cardinality(HoldersOf(notes, t)) = 0
<1>1. HoldersOf(notes, t) = {}
  BY DEF HoldersOf, NotesInv
<1> QED BY <1>1, FS_EmptySet

\* A note more, or one fewer.
LEMMA OneHolder ==
  ASSUME NotesTame, NEW ns, NEW os, NEW t, NEW c \in Channels,
         \A d \in Channels \ {c} : (ns[d] # NULL /\ t \in DOMAIN ns[d]) <=> (os[d] # NULL /\ t \in DOMAIN os[d]),
         ns[c] # NULL /\ t \in DOMAIN ns[c]
  PROVE  Cardinality(HoldersOf(ns, t)) = Cardinality(HoldersOf(os, t)) + IF os[c] # NULL /\ t \in DOMAIN os[c] THEN 0 ELSE 1
<1>1. IsFiniteSet(HoldersOf(os, t)) /\ Cardinality(HoldersOf(os, t)) \in Nat
  BY HoldersFinite
<1>2. HoldersOf(ns, t) = HoldersOf(os, t) \cup {c}
  BY DEF HoldersOf
<1>3. c \in HoldersOf(os, t) <=> os[c] # NULL /\ t \in DOMAIN os[c]
  BY DEF HoldersOf
<1>4. IF c \in HoldersOf(os, t) THEN Cardinality(HoldersOf(os, t) \cup {c}) = Cardinality(HoldersOf(os, t))
      ELSE Cardinality(HoldersOf(os, t) \cup {c}) = Cardinality(HoldersOf(os, t)) + 1
  BY <1>1, FS_AddElement, Zenon
<1> QED BY <1>1, <1>2, <1>3, <1>4

\* There is no type, and no channel.
LEMMA NotesInit == ASSUME NotesTame, NoteTypes!Init PROVE NotesInv
  BY DEF NoteTypes!Init, NotesInv, NoteTypes!Empty

\* CREATENOTE: the notes that are too long are cut, and counted as before.
LEMMA NoteCreateStep ==
  ASSUME NotesTame, NotesInv, NEW t \in Types, NEW s \in Setting, NEW max \in Lengths,
         NEW w \in {"access", "length", "nothing"}, NoteTypes!CreateNote(t, s, max, w)
  PROVE  NotesInv'
<1> DEFINE old  == IF t \in DOMAIN types THEN types[t] ELSE NoteTypes!New
           set  == [old EXCEPT !.how = s.how, !.min = s.min]
           made == CASE w = "access" -> old [] w = "length" -> set
                     [] w = "nothing" -> [set EXCEPT !.max = max]
           kept == w = "nothing" \/ t \in DOMAIN types
<1>1. /\ types' = IF kept THEN NoteTypes!With(types, t, made) ELSE types
      /\ freed' = IF kept THEN freed \ {t} ELSE freed
      /\ notes' = [c \in Channels |->
           IF NoteTypes!Has(c, t) /\ w = "nothing" /\ notes[c][t] > max THEN [notes[c] EXCEPT ![t] = max] ELSE notes[c]]
      /\ broken' = broken
  BY DEF NoteTypes!CreateNote
<1>2. max \in Int
  BY DEF NotesTame
<1>3. old \in NoteType /\ old.refs = 1 + Cardinality(HoldersOf(notes, t))
  <2>1. CASE t \in DOMAIN types
    BY <2>1 DEF NotesInv
  <2>2. CASE t \notin DOMAIN types
    <3>1. old = [refs |-> 1, how |-> "privileged", min |-> 0, max |-> 0]
      BY <2>2 DEF NoteTypes!New
    <3> HIDE DEF old
    <3> QED BY <3>1, <2>2, NoHolders DEF NoteType, Hows, Mins
  <2> QED BY <2>1, <2>2
<1>4. t \in DOMAIN types => old = types[t]
  OBVIOUS
<1> HIDE DEF old
<1>5. set \in NoteType /\ set.refs = old.refs /\ set.max = old.max
  <2>1. s.how \in Hows /\ s.min \in Mins
    BY DEF Hows, Mins
  <2> QED BY <1>3, <2>1, Zenon DEF NoteType
<1> HIDE DEF set
<1>6. made \in NoteType /\ made.refs = old.refs /\ made.max = IF w = "nothing" THEN max ELSE old.max
  <2>1. CASE w = "access"
    BY <2>1, <1>3
  <2>2. CASE w = "length"
    BY <2>2, <1>5
  <2>3. CASE w = "nothing"
    <3>1. made = [set EXCEPT !.max = max]
      BY <2>3
    <3> HIDE DEF made
    <3> QED BY <3>1, <2>3, <1>2, <1>5 DEF NoteType
  <2> QED BY <2>1, <2>2, <2>3
<1> HIDE DEF made
<1>7. ASSUME NEW c \in Channels, notes[c] # NULL
      PROVE  /\ notes'[c] # NULL /\ DOMAIN notes'[c] = DOMAIN notes[c]
             /\ notes'[c] = [x \in DOMAIN notes[c] |-> notes'[c][x]]
             /\ \A x \in DOMAIN notes[c] \ {t} : notes'[c][x] = notes[c][x]
             /\ t \in DOMAIN notes[c] => notes'[c][t] \in Int /\ notes'[c][t] <= made.max
  <2>1. notes[c] = [x \in DOMAIN notes[c] |-> notes[c][x]] /\ \A x \in DOMAIN notes[c] : notes[c][x] \in Int
    BY <1>7 DEF NotesInv
  <2>2. t \in DOMAIN notes[c] => t \in DOMAIN types /\ notes[c][t] <= old.max /\ old.max \in Int
    BY <1>7, <1>4 DEF NotesInv, NoteType
  <2>3. CASE t \in DOMAIN notes[c] /\ w = "nothing" /\ notes[c][t] > max
    <3>1. notes'[c] = [notes[c] EXCEPT ![t] = max]
      BY <1>1, <2>3, <1>7 DEF NoteTypes!Has
    <3>2. notes'[c] = [x \in DOMAIN notes[c] |-> IF x = t THEN max ELSE notes[c][x]]
      BY <3>1, <2>1
    <3>3. notes'[c] # NULL
      BY <3>2 DEF NotesTame
    <3>4. DOMAIN notes'[c] = DOMAIN notes[c] /\ \A x \in DOMAIN notes[c] : notes'[c][x] = IF x = t THEN max ELSE notes[c][x]
      BY <3>2
    <3>5. notes'[c] = [x \in DOMAIN notes[c] |-> notes'[c][x]]
      BY <3>2, <3>4
    <3> QED BY <3>3, <3>4, <3>5, <2>3, <1>2, <1>6
  <2>4. CASE ~(t \in DOMAIN notes[c] /\ w = "nothing" /\ notes[c][t] > max)
    <3>1. notes'[c] = notes[c]
      BY <1>1, <2>4, <1>7 DEF NoteTypes!Has
    <3>2. t \in DOMAIN notes[c] => notes[c][t] <= made.max
      BY <2>1, <2>2, <2>4, <1>6, <1>2
    <3> QED BY <3>1, <3>2, <2>1, <1>7
  <2> QED BY <2>3, <2>4
<1>8. ASSUME NEW c \in Channels PROVE notes'[c] # NULL <=> notes[c] # NULL
  BY <1>1, <1>7, Zenon DEF NoteTypes!Has
<1>9. ASSUME NEW x PROVE HoldersOf(notes', x) = HoldersOf(notes, x)
  <2>1. ASSUME NEW d \in Channels
        PROVE  (notes'[d] # NULL /\ x \in DOMAIN notes'[d]) <=> (notes[d] # NULL /\ x \in DOMAIN notes[d])
    BY <1>7, <1>8, Zenon
  <2> QED BY <2>1 DEF HoldersOf
<1>10. CASE kept
  <2>1. types' = [x \in DOMAIN types \cup {t} |-> IF x = t THEN made ELSE types[x]] /\ freed' = freed \ {t}
    BY <1>1, <1>10 DEF NoteTypes!With
  <2>2. /\ DOMAIN types' = DOMAIN types \cup {t} /\ types'[t] = made
        /\ \A x \in DOMAIN types \ {t} : types'[x] = types[x]
        /\ types' = [x \in DOMAIN types' |-> types'[x]]
    BY <2>1
  <2>3. \A x \in DOMAIN types' : types'[x] \in NoteType /\ types'[x].refs = 1 + Cardinality(HoldersOf(notes', x))
    <3> TAKE x \in DOMAIN types'
    <3>1. CASE x = t
      BY <3>1, <2>2, <1>3, <1>6, <1>9
    <3>2. CASE x # t
      <4>1. types'[x] = types[x] /\ x \in DOMAIN types
        BY <3>2, <2>2
      <4>2. types[x] \in NoteType /\ types[x].refs = 1 + Cardinality(HoldersOf(notes, x))
        BY <4>1 DEF NotesInv
      <4> QED BY <4>1, <4>2, <1>9
    <3> QED BY <3>1, <3>2
  <2>4. ASSUME NEW c \in Channels, notes'[c] # NULL
        PROVE  /\ notes'[c] = [x \in DOMAIN notes'[c] |-> notes'[c][x]]
               /\ DOMAIN notes'[c] \subseteq DOMAIN types'
               /\ \A x \in DOMAIN notes'[c] : notes'[c][x] \in Int /\ notes'[c][x] <= types'[x].max
    <3>1. notes[c] # NULL /\ DOMAIN notes[c] \subseteq DOMAIN types
      BY <2>4, <1>8 DEF NotesInv
    <3>2. \A x \in DOMAIN notes[c] : notes[c][x] \in Int /\ notes[c][x] <= types[x].max
      BY <3>1 DEF NotesInv
    <3>3. /\ DOMAIN notes'[c] = DOMAIN notes[c]
          /\ notes'[c] = [x \in DOMAIN notes[c] |-> notes'[c][x]]
          /\ \A x \in DOMAIN notes[c] \ {t} : notes'[c][x] = notes[c][x]
          /\ t \in DOMAIN notes[c] => notes'[c][t] \in Int /\ notes'[c][t] <= made.max
      BY <3>1, <1>7
    <3> QED BY <3>1, <3>2, <3>3, <2>2
  <2>5. freed' \cap DOMAIN types' = {}
    BY <2>1, <2>2 DEF NotesInv
  <2>6. notes' = [c \in Channels |-> notes'[c]]
    BY <1>1
  <2>7. ~broken'
    BY <1>1 DEF NotesInv
  <2> QED BY <2>2, <2>3, <2>4, <2>5, <2>6, <2>7 DEF NotesInv
<1>11. CASE ~kept
  <2>1. types' = types /\ freed' = freed /\ broken' = broken /\ t \notin DOMAIN types /\ w # "nothing"
    BY <1>1, <1>11
  <2>2. notes' = [c \in Channels |-> notes[c]]
    BY <1>1, <2>1
  <2>3. notes' = notes
    BY <2>2 DEF NotesInv
  <2> QED BY <2>1, <2>3 DEF NotesInv
<1> QED BY <1>10, <1>11

\* A change of one type's references, with the channel's notes.
LEMMA NoteRemoveStep ==
  ASSUME NotesTame, NotesInv, NEW t \in Types, NEW force \in BOOLEAN, NoteTypes!RemoveNote(t, force)
  PROVE  NotesInv'
<1>1. NoteTypes!Holders(t) = HoldersOf(notes, t)
  BY DEF NoteTypes!Holders, NoteTypes!Has, HoldersOf
<1>2. t \in DOMAIN types /\ types[t].refs - Cardinality(NoteTypes!Holders(t)) = 1
  BY <1>1, HoldersFinite, SameCardinality DEF NoteTypes!RemoveNote, NotesInv, NoteType
<1>3. /\ types' = [x \in DOMAIN types \ {t} |-> types[x]] /\ freed' = freed \cup {t} /\ ~broken'
      /\ notes' = [c \in Channels |-> IF NoteTypes!Has(c, t) THEN NoteTypes!Without(notes[c], t) ELSE notes[c]]
  <2> DEFINE left == types[t].refs - NoteTypes!Cardinality(NoteTypes!Holders(t))
  <2>1. /\ broken' = (broken \/ left # 1) /\ freed' = IF left = 1 THEN freed \cup {t} ELSE freed
        /\ types' = NoteTypes!Without(types, t)
        /\ notes' = [c \in Channels |-> IF NoteTypes!Has(c, t) THEN NoteTypes!Without(notes[c], t) ELSE notes[c]]
    BY DEF NoteTypes!RemoveNote
  <2>2. left = 1 /\ ~broken
    BY <1>2, SameCardinality DEF NotesInv
  <2> HIDE DEF left
  <2>3. types' = [x \in DOMAIN types \ {t} |-> types[x]]
    BY <2>1 DEF NoteTypes!Without
  <2> QED BY <2>1, <2>2, <2>3, Zenon
<1>4. /\ DOMAIN types' = DOMAIN types \ {t} /\ types' = [x \in DOMAIN types' |-> types'[x]]
      /\ \A x \in DOMAIN types' : types'[x] = types[x]
  BY <1>3
<1>5. ASSUME NEW c \in Channels, notes[c] # NULL
      PROVE  /\ notes'[c] # NULL /\ DOMAIN notes'[c] = DOMAIN notes[c] \ {t}
             /\ notes'[c] = [x \in DOMAIN notes'[c] |-> notes'[c][x]]
             /\ \A x \in DOMAIN notes'[c] : notes'[c][x] = notes[c][x]
  <2>1. notes[c] = [x \in DOMAIN notes[c] |-> notes[c][x]]
    BY <1>5 DEF NotesInv
  <2>2. CASE t \in DOMAIN notes[c]
    <3>1. notes'[c] = [x \in DOMAIN notes[c] \ {t} |-> notes[c][x]]
      BY <1>3, <1>5, <2>2 DEF NoteTypes!Has, NoteTypes!Without
    <3>2. DOMAIN notes'[c] = DOMAIN notes[c] \ {t} /\ \A x \in DOMAIN notes'[c] : notes'[c][x] = notes[c][x]
      BY <3>1
    <3>3. notes'[c] = [x \in DOMAIN notes'[c] |-> notes'[c][x]]
      BY <3>1, <3>2
    <3>4. notes'[c] # NULL
      BY <3>3 DEF NotesTame
    <3> QED BY <3>2, <3>3, <3>4
  <2>3. CASE t \notin DOMAIN notes[c]
    <3>1. notes'[c] = notes[c]
      BY <1>3, <2>3 DEF NoteTypes!Has
    <3> QED BY <3>1, <2>1, <2>3, <1>5
  <2> QED BY <2>2, <2>3
<1>6. ASSUME NEW c \in Channels PROVE notes'[c] # NULL <=> notes[c] # NULL
  BY <1>3, <1>5, Zenon DEF NoteTypes!Has
<1>7. ASSUME NEW x \in DOMAIN types' PROVE HoldersOf(notes', x) = HoldersOf(notes, x)
  <2>1. x # t
    BY <1>7, <1>4
  <2>2. ASSUME NEW d \in Channels
        PROVE  (notes'[d] # NULL /\ x \in DOMAIN notes'[d]) <=> (notes[d] # NULL /\ x \in DOMAIN notes[d])
    BY <2>1, <1>5, <1>6, Zenon
  <2> QED BY <2>2 DEF HoldersOf
<1>8. \A x \in DOMAIN types' : types'[x] \in NoteType /\ types'[x].refs = 1 + Cardinality(HoldersOf(notes', x))
  <2> TAKE x \in DOMAIN types'
  <2>1. x \in DOMAIN types /\ types'[x] = types[x]
    BY <1>4
  <2>2. types[x] \in NoteType /\ types[x].refs = 1 + Cardinality(HoldersOf(notes, x))
    BY <2>1 DEF NotesInv
  <2> QED BY <2>1, <2>2, <1>7
<1>9. ASSUME NEW c \in Channels, notes'[c] # NULL
      PROVE  /\ notes'[c] = [x \in DOMAIN notes'[c] |-> notes'[c][x]]
             /\ DOMAIN notes'[c] \subseteq DOMAIN types'
             /\ \A x \in DOMAIN notes'[c] : notes'[c][x] \in Int /\ notes'[c][x] <= types'[x].max
  <2>1. notes[c] # NULL /\ DOMAIN notes[c] \subseteq DOMAIN types
    BY <1>9, <1>6 DEF NotesInv
  <2>2. \A x \in DOMAIN notes[c] : notes[c][x] \in Int /\ notes[c][x] <= types[x].max
    BY <2>1 DEF NotesInv
  <2> QED BY <2>1, <2>2, <1>4, <1>5
<1>10. freed' \cap DOMAIN types' = {}
  BY <1>3, <1>4 DEF NotesInv
<1>11. notes' = [c \in Channels |-> notes'[c]]
  BY <1>3
<1> QED BY <1>3, <1>4, <1>8, <1>9, <1>10, <1>11, Zenon DEF NotesInv

\* One type's references change with the notes of one channel.
LEMMA OneNote ==
  ASSUME NotesTame, NotesInv, NEW c \in Channels, NEW t \in DOMAIN types, NEW f, NEW n \in Int,
         notes[c] # NULL, f = [x \in DOMAIN f |-> f[x]], DOMAIN f \subseteq DOMAIN types,
         \A x \in DOMAIN f : f[x] \in Int /\ f[x] <= types[x].max,
         DOMAIN f \ {t} = DOMAIN notes[c] \ {t},
         n = (IF t \in DOMAIN notes[c] THEN 1 ELSE 0) - (IF t \in DOMAIN f THEN 1 ELSE 0),
         types' = NoteTypes!Dereffed(t, n), notes' = [notes EXCEPT ![c] = f], freed' = freed, ~broken'
  PROVE  NotesInv'
<1>1. f # NULL
  BY DEF NotesTame
<1>2. notes' = [d \in Channels |-> IF d = c THEN f ELSE notes[d]]
  BY DEF NotesInv
<1>3. /\ notes' = [d \in Channels |-> notes'[d]] /\ notes'[c] = f
      /\ \A d \in Channels \ {c} : notes'[d] = notes[d]
  BY <1>2, Zenon
<1>4. types[t] \in NoteType
  BY DEF NotesInv
<1>5. types' = [x \in DOMAIN types |-> IF x = t THEN [types[t] EXCEPT !.refs = @ - n] ELSE types[x]]
  BY Zenon DEF NoteTypes!Dereffed, NotesInv
<1>6. /\ DOMAIN types' = DOMAIN types /\ types' = [x \in DOMAIN types' |-> types'[x]]
      /\ types'[t] = [types[t] EXCEPT !.refs = @ - n]
      /\ \A x \in DOMAIN types \ {t} : types'[x] = types[x]
  BY <1>5
<1>7. types'[t] \in NoteType /\ types'[t].refs = types[t].refs - n /\ types'[t].max = types[t].max
  BY <1>4, <1>6 DEF NoteType
<1>8. ASSUME NEW x \in DOMAIN types, x # t PROVE HoldersOf(notes', x) = HoldersOf(notes, x)
  <2>1. ASSUME NEW d \in Channels
        PROVE  (notes'[d] # NULL /\ x \in DOMAIN notes'[d]) <=> (notes[d] # NULL /\ x \in DOMAIN notes[d])
    BY <1>1, <1>3, <1>8
  <2> QED BY <2>1 DEF HoldersOf
<1>9. Cardinality(HoldersOf(notes', t)) = Cardinality(HoldersOf(notes, t)) - n
  <2> DEFINE H == HoldersOf(notes, t)
             K == HoldersOf(notes', t)
  <2>1. IsFiniteSet(H) /\ Cardinality(H) \in Nat
    BY HoldersFinite
  <2>2. c \in H <=> t \in DOMAIN notes[c]
    BY DEF HoldersOf
  <2>3. K = IF t \in DOMAIN f THEN H \cup {c} ELSE H \ {c}
    BY <1>1, <1>3 DEF HoldersOf
  <2> HIDE DEF H, K
  <2>4. IF c \in H THEN Cardinality(H \cup {c}) = Cardinality(H) ELSE Cardinality(H \cup {c}) = Cardinality(H) + 1
    BY <2>1, FS_AddElement, Zenon
  <2>5. IF c \in H THEN Cardinality(H \ {c}) = Cardinality(H) - 1 ELSE Cardinality(H \ {c}) = Cardinality(H)
    BY <2>1, FS_RemoveElement, Zenon
  <2>6. Cardinality(K) = Cardinality(H) - n
    BY <2>1, <2>2, <2>3, <2>4, <2>5
  <2> QED BY <2>6 DEF H, K
<1>10. \A x \in DOMAIN types' : types'[x] \in NoteType /\ types'[x].refs = 1 + Cardinality(HoldersOf(notes', x))
  <2> TAKE x \in DOMAIN types'
  <2>0. types[x] \in NoteType /\ types[x].refs = 1 + Cardinality(HoldersOf(notes, x))
    BY <1>6 DEF NotesInv
  <2>1. CASE x = t
    <3>1. Cardinality(HoldersOf(notes, t)) \in Nat
      BY HoldersFinite
    <3> QED BY <2>0, <2>1, <3>1, <1>7, <1>9
  <2>2. CASE x # t
    BY <2>0, <2>2, <1>6, <1>8, Zenon
  <2> QED BY <2>1, <2>2
<1>11. ASSUME NEW d \in Channels, notes'[d] # NULL
       PROVE  /\ notes'[d] = [x \in DOMAIN notes'[d] |-> notes'[d][x]]
              /\ DOMAIN notes'[d] \subseteq DOMAIN types'
              /\ \A x \in DOMAIN notes'[d] : notes'[d][x] \in Int /\ notes'[d][x] <= types'[x].max
  <2>1. \A x \in DOMAIN types : types'[x].max = types[x].max
    BY <1>6, <1>7
  <2>2. CASE d = c
    BY <2>1, <2>2, <1>3, <1>6
  <2>3. CASE d # c
    BY <2>1, <2>3, <1>3, <1>6, <1>11 DEF NotesInv
  <2> QED BY <2>2, <2>3
<1>12. freed' \cap DOMAIN types' = {}
  BY <1>6 DEF NotesInv
<1> QED BY <1>3, <1>6, <1>10, <1>11, <1>12, Zenon DEF NotesInv

\* chanserv_add_channel_note: a note that is replaced gives its reference back.
LEMMA NoteStep ==
  ASSUME NotesTame, NotesInv, NEW p \in People, NEW c \in Channels, NEW t \in Types, NEW len \in Texts,
         NoteTypes!Note(p, c, t, len)
  PROVE  NotesInv'
<1> DEFINE v == IF len > types[t].max THEN types[t].max ELSE len
           f == NoteTypes!With(notes[c], t, v)
           n == NoteTypes!Replaced(c, t) - 1
<1>1. /\ notes[c] # NULL /\ t \in DOMAIN types /\ types' = NoteTypes!Dereffed(t, n)
      /\ notes' = [notes EXCEPT ![c] = f] /\ freed' = freed /\ ~broken'
  BY DEF NoteTypes!Note, NotesInv
<1>2. types[t].max \in Int /\ len \in Int
  BY <1>1 DEF NotesInv, NoteType, NotesTame
<1>3. v \in Int /\ v <= types[t].max
  BY <1>2
<1> HIDE DEF v
<1>4. f = [x \in DOMAIN notes[c] \cup {t} |-> IF x = t THEN v ELSE notes[c][x]]
  BY DEF NoteTypes!With
<1> HIDE DEF f
<1>5. /\ DOMAIN f = DOMAIN notes[c] \cup {t} /\ f = [x \in DOMAIN f |-> f[x]] /\ f[t] = v
      /\ \A x \in DOMAIN notes[c] \ {t} : f[x] = notes[c][x]
  BY <1>4
<1>6. DOMAIN f \subseteq DOMAIN types /\ \A x \in DOMAIN f : f[x] \in Int /\ f[x] <= types[x].max
  BY <1>1, <1>3, <1>5 DEF NotesInv
<1>7. n \in Int /\ n = (IF t \in DOMAIN notes[c] THEN 1 ELSE 0) - (IF t \in DOMAIN f THEN 1 ELSE 0)
  BY <1>1, <1>5 DEF NoteTypes!Replaced, NoteTypes!Has
<1>8. DOMAIN f \ {t} = DOMAIN notes[c] \ {t}
  BY <1>5
<1> HIDE DEF n
<1> QED BY <1>1, <1>5, <1>6, <1>7, <1>8, OneNote, Zenon

\* The type of a note has a reference besides it, so the last one stays.
LEMMA DelNoteStep ==
  ASSUME NotesTame, NotesInv, NEW p \in People, NEW c \in Channels, NEW t \in Types, NoteTypes!DelNote(p, c, t)
  PROVE  NotesInv'
<1> DEFINE f == NoteTypes!Without(notes[c], t)
<1>1. /\ notes[c] # NULL /\ t \in DOMAIN notes[c] /\ t \in DOMAIN types /\ types' = NoteTypes!Dereffed(t, 1)
      /\ notes' = [notes EXCEPT ![c] = f] /\ freed' = freed /\ broken' = (broken \/ types[t].refs = 1)
  BY DEF NoteTypes!DelNote, NoteTypes!Has
<1>2. types[t].refs # 1
  <2>1. c \in HoldersOf(notes, t)
    BY <1>1 DEF HoldersOf
  <2>2. Cardinality(HoldersOf(notes, t)) # 0 /\ Cardinality(HoldersOf(notes, t)) \in Nat
    BY <2>1, HoldersFinite, FS_EmptySet
  <2>3. types[t].refs = 1 + Cardinality(HoldersOf(notes, t))
    BY <1>1 DEF NotesInv
  <2> QED BY <2>2, <2>3
<1>3. ~broken'
  BY <1>1, <1>2, Zenon DEF NotesInv
<1>4. f = [x \in DOMAIN notes[c] \ {t} |-> notes[c][x]]
  BY DEF NoteTypes!Without
<1> HIDE DEF f
<1>5. /\ DOMAIN f = DOMAIN notes[c] \ {t} /\ f = [x \in DOMAIN f |-> f[x]]
      /\ \A x \in DOMAIN f : f[x] = notes[c][x]
  BY <1>4
<1>6. DOMAIN f \subseteq DOMAIN types /\ \A x \in DOMAIN f : f[x] \in Int /\ f[x] <= types[x].max
  BY <1>1, <1>5 DEF NotesInv
<1>7. 1 \in Int /\ 1 = (IF t \in DOMAIN notes[c] THEN 1 ELSE 0) - (IF t \in DOMAIN f THEN 1 ELSE 0)
  BY <1>1, <1>5
<1>8. DOMAIN f \ {t} = DOMAIN notes[c] \ {t}
  BY <1>5
<1> QED BY <1>1, <1>3, <1>5, <1>6, <1>7, <1>8, OneNote, Zenon

\* A channel that has just been registered has no notes.
LEMMA NoteRegisterStep ==
  ASSUME NotesTame, NotesInv, NEW c \in Channels, NoteTypes!Register(c)
  PROVE  NotesInv'
<1>1. /\ notes[c] = NULL /\ types' = types /\ freed' = freed /\ broken' = broken
      /\ notes' = [notes EXCEPT ![c] = NoteTypes!Empty]
  BY DEF NoteTypes!Register
<1>2. NoteTypes!Empty = [x \in {} |-> 0] /\ DOMAIN NoteTypes!Empty = {} /\ NoteTypes!Empty = [x \in DOMAIN NoteTypes!Empty |-> NoteTypes!Empty[x]] /\ NoteTypes!Empty # NULL
  BY Zenon DEF NoteTypes!Empty, NotesTame
<1>3. /\ notes' = [d \in Channels |-> notes'[d]] /\ notes'[c] = NoteTypes!Empty
      /\ \A d \in Channels \ {c} : notes'[d] = notes[d]
  BY <1>1 DEF NotesInv
<1>4. ASSUME NEW x PROVE HoldersOf(notes', x) = HoldersOf(notes, x)
  <2>1. ASSUME NEW d \in Channels
        PROVE  (notes'[d] # NULL /\ x \in DOMAIN notes'[d]) <=> (notes[d] # NULL /\ x \in DOMAIN notes[d])
    BY <1>1, <1>2, <1>3
  <2> QED BY <2>1 DEF HoldersOf
<1>5. ASSUME NEW d \in Channels, notes'[d] # NULL
      PROVE  /\ notes'[d] = [x \in DOMAIN notes'[d] |-> notes'[d][x]]
             /\ DOMAIN notes'[d] \subseteq DOMAIN types'
             /\ \A x \in DOMAIN notes'[d] : notes'[d][x] \in Int /\ notes'[d][x] <= types'[x].max
  <2>1. CASE d = c
    BY <2>1, <1>2, <1>3
  <2>2. CASE d # c
    BY <2>2, <1>1, <1>3, <1>5 DEF NotesInv
  <2> QED BY <2>1, <2>2
<1>6. \A t \in DOMAIN types' : types'[t] \in NoteType /\ types'[t].refs = 1 + Cardinality(HoldersOf(notes', t))
  BY <1>1, <1>4, Zenon DEF NotesInv
<1>7. ~broken' /\ types' = [t \in DOMAIN types' |-> types'[t]] /\ freed' \cap DOMAIN types' = {}
  BY <1>1 DEF NotesInv
<1> QED BY <1>3, <1>5, <1>6, <1>7 DEF NotesInv

\* Every type the channel had a note of loses one reference.
LEMMA NoteUnregisterStep ==
  ASSUME NotesTame, NotesInv, NEW c \in Channels, NoteTypes!Unregister(c)
  PROVE  NotesInv'
<1>1. /\ notes[c] # NULL /\ freed' = freed /\ broken' = broken
      /\ notes' = [d \in Channels |-> IF d = c THEN NULL ELSE notes[d]]
      /\ types' = [t \in DOMAIN types |-> IF NoteTypes!Has(c, t) THEN [types[t] EXCEPT !.refs = @ - 1] ELSE types[t]]
  BY DEF NoteTypes!Unregister, NotesInv
<1>2. /\ notes' = [d \in Channels |-> notes'[d]] /\ notes'[c] = NULL
      /\ \A d \in Channels \ {c} : notes'[d] = notes[d]
  BY <1>1
<1>3. DOMAIN types' = DOMAIN types /\ types' = [x \in DOMAIN types' |-> types'[x]]
  BY <1>1
<1>4. ASSUME NEW t \in DOMAIN types
      PROVE  /\ types'[t] \in NoteType /\ types'[t].max = types[t].max
             /\ types'[t].refs = 1 + Cardinality(HoldersOf(notes', t))
  <2>1. types[t] \in NoteType /\ types[t].refs = 1 + Cardinality(HoldersOf(notes, t))
    BY DEF NotesInv
  <2>2. IsFiniteSet(HoldersOf(notes, t)) /\ Cardinality(HoldersOf(notes, t)) \in Nat
    BY HoldersFinite
  <2>3. HoldersOf(notes', t) = HoldersOf(notes, t) \ {c}
    BY <1>2 DEF HoldersOf
  <2>4. c \in HoldersOf(notes, t) <=> NoteTypes!Has(c, t)
    BY <1>1 DEF HoldersOf, NoteTypes!Has
  <2>5. IF c \in HoldersOf(notes, t) THEN Cardinality(HoldersOf(notes, t) \ {c}) = Cardinality(HoldersOf(notes, t)) - 1
        ELSE Cardinality(HoldersOf(notes, t) \ {c}) = Cardinality(HoldersOf(notes, t))
    BY <2>2, FS_RemoveElement, Zenon
  <2>6. CASE NoteTypes!Has(c, t)
    <3>1. types'[t] = [types[t] EXCEPT !.refs = @ - 1]
      BY <1>1, <2>6
    <3>2. types'[t] \in NoteType /\ types'[t].max = types[t].max /\ types'[t].refs = types[t].refs - 1
      BY <2>1, <3>1 DEF NoteType
    <3> QED BY <3>2, <2>1, <2>2, <2>3, <2>4, <2>5, <2>6
  <2>7. CASE ~NoteTypes!Has(c, t)
    <3>1. types'[t] = types[t]
      BY <1>1, <2>7
    <3> QED BY <3>1, <2>1, <2>3, <2>4, <2>5, <2>7
  <2> QED BY <2>6, <2>7
<1>5. ASSUME NEW d \in Channels, notes'[d] # NULL
      PROVE  /\ notes'[d] = [x \in DOMAIN notes'[d] |-> notes'[d][x]]
             /\ DOMAIN notes'[d] \subseteq DOMAIN types'
             /\ \A x \in DOMAIN notes'[d] : notes'[d][x] \in Int /\ notes'[d][x] <= types'[x].max
  <2>1. d # c /\ notes'[d] = notes[d]
    BY <1>2, <1>5
  <2>2. DOMAIN notes[d] \subseteq DOMAIN types /\ \A x \in DOMAIN notes[d] : notes[d][x] \in Int /\ notes[d][x] <= types[x].max
    BY <2>1, <1>5 DEF NotesInv
  <2>3. notes[d] = [x \in DOMAIN notes[d] |-> notes[d][x]]
    BY <2>1, <1>5 DEF NotesInv
  <2> QED BY <2>1, <2>2, <2>3, <1>3, <1>4
<1> QED BY <1>1, <1>2, <1>3, <1>4, <1>5, Zenon DEF NotesInv

\* The types that are read back count the notes that are read after them.
LEMMA NoteRestartStep ==
  ASSUME NotesTame, NotesInv, NoteTypes!Restart
  PROVE  NotesInv'
<1>1. /\ freed' = {} /\ broken' = broken
      /\ types' = [t \in DOMAIN types |-> [types[t] EXCEPT !.refs = 1 + Cardinality(HoldersOf(notes, t))]]
  <2>1. \A t : NoteTypes!Holders(t) = HoldersOf(notes, t)
    BY DEF NoteTypes!Holders, HoldersOf, NoteTypes!Has
  <2>2. /\ freed' = {} /\ broken' = broken
        /\ types' = [t \in DOMAIN types |-> [types[t] EXCEPT !.refs = 1 + NoteTypes!Cardinality(NoteTypes!Holders(t))]]
    BY DEF NoteTypes!Restart
  <2> QED BY <2>1, <2>2, SameCardinality
<1>2. DOMAIN types' = DOMAIN types /\ types' = [x \in DOMAIN types' |-> types'[x]]
  BY <1>1
<1>3. ASSUME NEW t \in DOMAIN types
      PROVE  types'[t] \in NoteType /\ types'[t].max = types[t].max /\ types'[t].refs = 1 + Cardinality(HoldersOf(notes, t))
  <2>1. types[t] \in NoteType
    BY DEF NotesInv
  <2>2. Cardinality(HoldersOf(notes, t)) \in Nat
    BY HoldersFinite
  <2>3. types'[t] = [types[t] EXCEPT !.refs = 1 + Cardinality(HoldersOf(notes, t))]
    BY <1>1
  <2> QED BY <2>1, <2>2, <2>3 DEF NoteType
<1>4. notes' = [c \in Channels |-> notes'[c]]
  BY DEF NoteTypes!Restart
<1>5. ASSUME NEW c \in Channels, notes[c] # NULL
      PROVE  /\ notes'[c] # NULL /\ DOMAIN notes'[c] = DOMAIN notes[c]
             /\ notes'[c] = [x \in DOMAIN notes'[c] |-> notes'[c][x]]
             /\ \A x \in DOMAIN notes'[c] : notes'[c][x] \in Int /\ notes'[c][x] <= types[x].max
  <2>1. DOMAIN notes[c] \cap DOMAIN types = DOMAIN notes[c]
    BY <1>5 DEF NotesInv
  <2>2. notes'[c] = [t \in DOMAIN notes[c] \cap DOMAIN types |-> IF notes[c][t] > types[t].max THEN types[t].max ELSE notes[c][t]]
    BY <1>5 DEF NoteTypes!Restart
  <2>3. notes'[c] = [t \in DOMAIN notes[c] |-> IF notes[c][t] > types[t].max THEN types[t].max ELSE notes[c][t]]
    BY <2>1, <2>2
  <2>4. /\ DOMAIN notes'[c] = DOMAIN notes[c] /\ notes'[c] = [x \in DOMAIN notes'[c] |-> notes'[c][x]]
        /\ \A t \in DOMAIN notes[c] : notes'[c][t] = IF notes[c][t] > types[t].max THEN types[t].max ELSE notes[c][t]
    BY <2>3
  <2>5. notes'[c] # NULL
    BY <2>4 DEF NotesTame
  <2>6. ASSUME NEW x \in DOMAIN notes[c] PROVE notes[c][x] \in Int /\ types[x].max \in Int
    BY <1>5 DEF NotesInv, NoteType
  <2> QED BY <2>4, <2>5, <2>6
<1>6. ASSUME NEW c \in Channels PROVE notes'[c] # NULL <=> notes[c] # NULL
  BY <1>5, Zenon DEF NoteTypes!Restart
<1>7. ASSUME NEW x PROVE HoldersOf(notes', x) = HoldersOf(notes, x)
  <2>1. ASSUME NEW d \in Channels
        PROVE  (notes'[d] # NULL /\ x \in DOMAIN notes'[d]) <=> (notes[d] # NULL /\ x \in DOMAIN notes[d])
    BY <1>5, <1>6, Zenon
  <2> QED BY <2>1 DEF HoldersOf
<1>8. ASSUME NEW d \in Channels, notes'[d] # NULL
      PROVE  /\ notes'[d] = [x \in DOMAIN notes'[d] |-> notes'[d][x]]
             /\ DOMAIN notes'[d] \subseteq DOMAIN types'
             /\ \A x \in DOMAIN notes'[d] : notes'[d][x] \in Int /\ notes'[d][x] <= types'[x].max
  <2>1. notes[d] # NULL /\ DOMAIN notes[d] \subseteq DOMAIN types
    BY <1>6, <1>8 DEF NotesInv
  <2> QED BY <2>1, <1>2, <1>3, <1>5, Zenon
<1> QED BY <1>1, <1>2, <1>3, <1>4, <1>7, <1>8, Zenon DEF NotesInv

\* Every step keeps the references counted.
LEMMA NotesNext == ASSUME NotesTame, NotesInv, [NoteTypes!Next]_(NoteTypes!vars) PROVE NotesInv'
<1>1. ASSUME NEW t \in Types, NEW s \in Setting, NEW max \in Lengths, NEW w \in {"access", "length", "nothing"},
             NoteTypes!CreateNote(t, s, max, w)
      PROVE  NotesInv'
  BY <1>1, NoteCreateStep
<1>2. ASSUME NEW t \in Types, NEW force \in BOOLEAN, NoteTypes!RemoveNote(t, force) PROVE NotesInv'
  BY <1>2, NoteRemoveStep
<1>3. ASSUME NEW p \in People, NEW c \in Channels, NEW t \in Types, NoteTypes!DelNote(p, c, t) PROVE NotesInv'
  BY <1>3, DelNoteStep
<1>4. ASSUME NEW p \in People, NEW c \in Channels, NEW t \in Types, NEW len \in Texts, NoteTypes!Note(p, c, t, len) PROVE NotesInv'
  BY <1>4, NoteStep
<1>5. ASSUME NEW c \in Channels, NoteTypes!Register(c) \/ NoteTypes!Unregister(c) PROVE NotesInv'
  BY <1>5, NoteRegisterStep, NoteUnregisterStep
<1>6. CASE NoteTypes!Restart
  BY <1>6, NoteRestartStep
<1>7. CASE UNCHANGED NoteTypes!vars
  BY <1>7, ZenonT(40) DEF NoteTypes!vars, NotesInv, HoldersOf
<1> QED BY <1>1, <1>2, <1>3, <1>4, <1>5, <1>6, <1>7 DEF NoteTypes!Next

\* A type's references are the dictionary's and one for each channel that has such a note; no
\* note is longer than its type allows, or outlives it, and no assertion about references fails:
\* whatever types are defined, redefined and removed, for any lengths and rights to set
\* (chanserv_create_note_type, chanserv_deref_note_type, chanserv_add_channel_note).
THEOREM NotesAreExact == ASSUME NotesTame PROVE NoteTypes!Spec => []NoteTypes!NotesExact
<1>1. NotesInv => NoteTypes!NotesExact
  BY SameCardinality DEF NotesInv, NoteTypes!NotesExact, HoldersOf
<1>2. NoteTypes!Init => NotesInv
  BY NotesInit
<1>3. NotesInv /\ [NoteTypes!Next]_(NoteTypes!vars) => NotesInv'
  BY NotesNext
<1> QED BY <1>1, <1>2, <1>3, PTL DEF NoteTypes!Spec

-----------------------------------------------------------------------------
(* Op, voice, modes and topic of a registered channel (ChanModes).          *)
Rules == INSTANCE ChanModes WITH Owner <- FullOwner

\* What the proofs assume of the constants: levels are numbers, a channel's settings have a level for each option.
ModesTame ==
  /\ \A s \in Standings : s \in [Users -> Nat]
  /\ \A s \in Options : /\ s \in [Rules!LevelOptions \cup {"protect"} -> Nat \cup {"a", "e", "l", "n"}]
                        /\ \A o \in Rules!LevelOptions : s[o] \in Nat

ModesInv ==
  /\ Rules!TypeOK /\ member \in [DOMAIN member -> SUBSET {"o", "v"}]
  /\ opts.give_voice <= opts.give_ops

\* The four parts of Guarded.
LockKept(a)   == ~Rules!May(a, "enf_modes") /\ Rules!Locked(mode) = mode => lock' # lock \/ Rules!Locked(mode') = mode'
TopicKept(a)  == ~Rules!May(a, "enf_topic") /\ default_topic # NULL /\ topic \in topic_mask =>
                   topic' \in topic_mask \cup {default_topic, default_topic'}
OpsKept(a)    == \A v \in DOMAIN member \cap DOMAIN member' :
                   "o" \in member[v] /\ Rules!Protected(v, a) => "o" \in member'[v] \/ (Rules!Resync(a) /\ Rules!Due(v) # {"o"})
LevelsKept(a) == \A o \in Rules!LevelOptions : opts'[o] # opts[o] =>
                   access[a] = FullOwner \/ (opts[o] <= access[a] /\ opts'[o] <= access[a])
LEMMA PartsOfGuarded ==
  ASSUME NEW a, LockKept(a), TopicKept(a), OpsKept(a), LevelsKept(a) PROVE Rules!Guarded(a)
  BY DEF Rules!Guarded, LockKept, TopicKept, OpsKept, LevelsKept

\* What does not change keeps to the rules.
LEMMA NoChange ==
  ASSUME ModesInv, NEW a
  PROVE  /\ mode' = mode => LockKept(a)
         /\ topic' = topic => TopicKept(a)
         /\ member' = member => OpsKept(a)
         /\ opts' = opts => LevelsKept(a)
  BY DEF LockKept, TopicKept, OpsKept, LevelsKept, Rules!Locked

\* Members with modes, as they come and go.
MembersOk(m) == DOMAIN m \subseteq Users /\ m \in [DOMAIN m -> SUBSET {"o", "v"}]
LEMMA MembersAre == ModesInv => MembersOk(member)
  BY DEF ModesInv, Rules!TypeOK, MembersOk
LEMMA MembersChange ==
  ASSUME NEW m, MembersOk(m), NEW u \in Users, NEW fl \in SUBSET {"o", "v"}
  PROVE  /\ MembersOk([m EXCEPT ![u] = fl])
         /\ MembersOk(Rules!With(m, u, fl)) /\ MembersOk(Rules!Sans(m, u))
<1>1. MembersOk([m EXCEPT ![u] = fl])
  BY Zenon DEF MembersOk
<1>2. MembersOk(Rules!With(m, u, fl))
  BY DEF MembersOk, Rules!With
<1>3. MembersOk(Rules!Sans(m, u))
  BY DEF MembersOk, Rules!Sans
<1> QED BY <1>1, <1>2, <1>3
LEMMA DueIs == \A u : Rules!Due(u) \in SUBSET {"o", "v"}
  BY DEF Rules!Due

\* A step of members alone.
LEMMA MembersStep ==
  ASSUME ModesInv, UNCHANGED <<mode, topic, Rules!sets, access>>, MembersOk(member')
  PROVE  ModesInv' /\ \A a : OpsKept(a) => Rules!Guarded(a)
<1>1. UNCHANGED <<mode, topic, lock, opts, default_topic, topic_mask, suspended, access>>
  BY DEF Rules!sets
<1>2. ModesInv'
  BY <1>1 DEF ModesInv, Rules!TypeOK, MembersOk
<1>3. \A a : OpsKept(a) => Rules!Guarded(a)
  BY <1>1, NoChange, PartsOfGuarded
<1> QED BY <1>2, <1>3

\* A deop of who is protected is taken back (handle_mode).
LEMMA DeopsAnswered ==
  ASSUME ModesTame, ModesInv, NEW a \in Users, NEW v \in Users, Rules!UserDeops(a, v)
  PROVE  ModesInv' /\ (~suspended => Rules!Guarded(a))
<1> DEFINE m == [member EXCEPT ![v] = @ \ {"o"}]
           back == [[m EXCEPT ![a] = @ \ {"o"}] EXCEPT ![v] = @ \cup {"o"}]
<1>1. MembersOk(member) /\ {a, v} \subseteq DOMAIN member
  BY MembersAre DEF Rules!UserDeops
<1>2. MembersOk(m) /\ DOMAIN m = DOMAIN member /\ \A w \in DOMAIN member : m[w] = IF w = v THEN member[w] \ {"o"} ELSE member[w]
  BY <1>1 DEF MembersOk
<1> HIDE DEF m
<1>3. DOMAIN back = DOMAIN member /\ MembersOk(back) /\ "o" \in back[v] /\ \A w \in DOMAIN member \ {a, v} : back[w] = m[w]
  <2> DEFINE k == [m EXCEPT ![a] = @ \ {"o"}]
  <2>1. DOMAIN k = DOMAIN member /\ MembersOk(k) /\ \A w \in DOMAIN member \ {a} : k[w] = m[w]
    BY <1>1, <1>2 DEF MembersOk
  <2> HIDE DEF k
  <2>2. [k EXCEPT ![v] = @ \cup {"o"}] = back
    BY DEF k
  <2> HIDE DEF back
  <2> QED BY <1>1, <2>1, <2>2 DEF MembersOk
<1>4. member' = IF ~suspended /\ Rules!Protected(v, a) THEN back ELSE m
  BY DEF Rules!UserDeops, Rules!DeoppedBy, m
<1> HIDE DEF back
<1>5. MembersOk(member')
  BY <1>2, <1>3, <1>4
<1>6. ASSUME ~suspended PROVE OpsKept(a)
  BY <1>2, <1>3, <1>4, <1>6 DEF OpsKept, Rules!Protected
<1>7. UNCHANGED <<mode, topic, Rules!sets, access>>
  BY DEF Rules!UserDeops
<1> QED BY <1>5, <1>6, <1>7, MembersStep

\* Modes that somebody sets.
LEMMA ModesAnswered ==
  ASSUME ModesTame, ModesInv, NEW a \in Users, Rules!UserModes(a)
  PROVE  ModesInv' /\ (~suspended => Rules!Guarded(a))
<1>1. UNCHANGED <<member, topic, lock, opts, default_topic, topic_mask, suspended, access>> /\ mode' = Rules!Reset(a, ~mode)
  BY DEF Rules!UserModes, Rules!sets
<1>2. mode \in BOOLEAN /\ lock \in {"on", "off", NULL}
  BY DEF ModesInv, Rules!TypeOK
<1>3. \A m \in BOOLEAN : Rules!Reset(a, m) \in BOOLEAN
  BY Zenon DEF Rules!Reset, Rules!Locked
<1>4. mode' \in BOOLEAN
  BY <1>1, <1>2, <1>3, Zenon
<1>5. ModesInv'
  BY <1>1, <1>4 DEF ModesInv, Rules!TypeOK
<1>6. ASSUME ~suspended PROVE LockKept(a)
  <2>1. CASE Rules!LockViolated(~mode) /\ ~Rules!May(a, "enf_modes")
    <3>1. mode' = Rules!Locked(~mode)
      BY <1>1, <1>6, <2>1 DEF Rules!Reset
    <3> QED BY <1>2, <3>1 DEF LockKept, Rules!Locked
  <2>2. CASE ~Rules!LockViolated(~mode)
    <3>1. mode' = ~mode
      BY <1>1, <2>2 DEF Rules!Reset
    <3> QED BY <1>2, <2>2, <3>1 DEF LockKept, Rules!Locked, Rules!LockViolated
  <2>3. CASE Rules!May(a, "enf_modes")
    BY <2>3 DEF LockKept
  <2> QED BY <2>1, <2>2, <2>3
<1> QED BY <1>1, <1>5, <1>6, NoChange, PartsOfGuarded

\* Whoever is kicked, the protected are not deopped.
LEMMA KicksAnswered ==
  ASSUME ModesTame, ModesInv, NEW a \in Users, NEW v \in Users, Rules!UserKicks(a, v)
  PROVE  ModesInv' /\ (~suspended => Rules!Guarded(a))
<1> DEFINE m == Rules!Sans(member, v)
           k == Rules!Sans(m, a)
<1>1. MembersOk(m) /\ DOMAIN m \subseteq DOMAIN member /\ \A w \in DOMAIN m : m[w] = member[w]
  BY MembersAre, MembersChange, Zenon DEF Rules!Sans
<1> HIDE DEF m
<1>2. MembersOk(k) /\ DOMAIN k \subseteq DOMAIN m /\ \A w \in DOMAIN k : k[w] = m[w]
  BY <1>1, MembersChange, Zenon DEF Rules!Sans
<1>3. member' \in {m, k} /\ UNCHANGED <<mode, topic, Rules!sets, access>>
  BY DEF Rules!UserKicks, m
<1> HIDE DEF k
<1>4. MembersOk(member') /\ OpsKept(a)
  BY <1>1, <1>2, <1>3 DEF OpsKept
<1> QED BY <1>3, <1>4, MembersStep

\* One member gets other modes.
LEMMA OneChanges ==
  ASSUME ModesInv, NEW a \in Users, NEW v \in DOMAIN member, NEW fl \in SUBSET {"o", "v"},
         member' = [member EXCEPT ![v] = fl], UNCHANGED <<mode, topic, Rules!sets, access>>,
         "o" \in fl \/ "o" \notin member[v] \/ ~Rules!Protected(v, a)
  PROVE  ModesInv' /\ Rules!Guarded(a)
<1>1. v \in Users /\ MembersOk(member)
  BY MembersAre DEF MembersOk
<1>2. MembersOk(member')
  BY <1>1, MembersChange, Zenon
<1>3. OpsKept(a)
  BY <1>1 DEF OpsKept, MembersOk
<1> QED BY <1>2, <1>3, MembersStep

\* Commands about members (modify_users, UP, DOWN).
LEMMA OneCommanded ==
  ASSUME ModesTame, ModesInv, NEW a \in Users, NEW v \in Users, NEW how \in {"op", "deop", "voice", "devoice"},
         Rules!ModifyUsers(a, v, how) \/ Rules!UserOps(a, v) \/ (v = a /\ (Rules!Up(v) \/ Rules!Down(v)))
  PROVE  ModesInv' /\ Rules!Guarded(a)
<1>1. member \in [DOMAIN member -> SUBSET {"o", "v"}]
  BY DEF ModesInv
<1>2. CASE Rules!ModifyUsers(a, v, how)
  <2>1. v \in DOMAIN member /\ UNCHANGED <<mode, topic, Rules!sets, access>>
    BY <1>2 DEF Rules!ModifyUsers
  <2> DEFINE fl == IF how = "op" THEN member[v] \cup {"o"} ELSE IF how = "deop" THEN member[v] \ {"o"}
                   ELSE IF how = "voice" THEN member[v] \cup {"v"} ELSE member[v] \ {"v"}
  <2>2. member' = [member EXCEPT ![v] = fl]
    <3>1. CASE how = "op"
      BY <1>2, <3>1 DEF Rules!ModifyUsers
    <3>2. CASE how = "deop"
      BY <1>2, <3>2 DEF Rules!ModifyUsers
    <3>3. CASE how = "voice"
      BY <1>2, <3>3 DEF Rules!ModifyUsers
    <3>4. CASE how = "devoice"
      BY <1>2, <3>4 DEF Rules!ModifyUsers
    <3> QED BY <3>1, <3>2, <3>3, <3>4
  <2>3. fl \in SUBSET {"o", "v"} /\ ("o" \in fl \/ "o" \notin member[v] \/ how = "deop")
    BY <1>1, <2>1
  <2>4. how = "deop" => ~Rules!Protected(v, a)
    BY <1>2 DEF Rules!ModifyUsers
  <2> HIDE DEF fl
  <2> QED BY <2>1, <2>2, <2>3, <2>4, OneChanges, Zenon
<1>3. CASE Rules!UserOps(a, v)
  <2>1. /\ v \in DOMAIN member /\ UNCHANGED <<mode, topic, Rules!sets, access>>
        /\ member' = [member EXCEPT ![v] = member[v] \cup {"o"}]
    BY <1>3 DEF Rules!UserOps
  <2>2. member[v] \cup {"o"} \in SUBSET {"o", "v"}
    BY <1>1, <2>1
  <2> QED BY <2>1, <2>2, OneChanges, Zenon
<1>4. CASE v = a /\ Rules!Up(v)
  <2>1. /\ v \in DOMAIN member /\ UNCHANGED <<mode, topic, Rules!sets, access>>
        /\ member' = [member EXCEPT ![v] = member[v] \cup Rules!Due(v)]
    BY <1>4 DEF Rules!Up
  <2>2. member[v] \cup Rules!Due(v) \in SUBSET {"o", "v"}
    BY <1>1, <2>1, DueIs
  <2>3. ~Rules!Protected(v, a)
    BY <1>4 DEF Rules!Protected
  <2> QED BY <2>1, <2>2, <2>3, OneChanges, Zenon
<1>5. CASE v = a /\ Rules!Down(v)
  <2>1. /\ v \in DOMAIN member /\ UNCHANGED <<mode, topic, Rules!sets, access>>
        /\ member' = [member EXCEPT ![v] = {}]
    BY <1>5 DEF Rules!Down
  <2>2. {} \in SUBSET {"o", "v"} /\ ~Rules!Protected(v, a)
    BY <1>5 DEF Rules!Protected
  <2> QED BY <2>1, <2>2, OneChanges, Zenon
<1> QED BY <1>2, <1>3, <1>4, <1>5

\* RESYNC.
LEMMA ResyncKeeps ==
  ASSUME ModesTame, ModesInv, NEW a \in Users, Rules!Resync(a) PROVE ModesInv' /\ Rules!Guarded(a)
<1>1. MembersOk(member)
  BY MembersAre
<1>2. /\ member' = [u \in DOMAIN member |-> IF Rules!Due(u) = {"o"} THEN member[u] \cup {"o"} ELSE Rules!Due(u)]
      /\ UNCHANGED <<mode, topic, Rules!sets, access>>
  BY DEF Rules!Resync
<1>3. MembersOk(member')
  BY <1>1, <1>2, DueIs DEF MembersOk
<1>4. OpsKept(a)
  BY <1>1, <1>2 DEF OpsKept
<1> QED BY <1>2, <1>3, <1>4, MembersStep

\* A step of the topic and the default topic alone.
LEMMA TopicStep ==
  ASSUME ModesInv, UNCHANGED <<member, mode, lock, opts, topic_mask, suspended, access>>,
         topic' \in Topics, default_topic' \in Topics \cup {NULL}
  PROVE  ModesInv' /\ \A a : TopicKept(a) => Rules!Guarded(a)
<1>1. ModesInv'
  BY DEF ModesInv, Rules!TypeOK
<1> QED BY <1>1, NoChange, PartsOfGuarded

\* A topic that somebody sets, and TOPIC.
LEMMA TopicsAnswered ==
  ASSUME ModesTame, ModesInv, NEW a \in Users, NEW t \in Topics, Rules!UserTopic(a, t) \/ Rules!TopicCmd(a, t)
  PROVE  ModesInv' /\ (~suspended => Rules!Guarded(a))
<1>1. topic \in Topics /\ default_topic \in Topics \cup {NULL} /\ topic_mask \subseteq Topics
  BY DEF ModesInv, Rules!TypeOK
<1>2. CASE Rules!UserTopic(a, t)
  <2>1. UNCHANGED <<member, mode, lock, opts, topic_mask, suspended, access>>
    BY <1>2 DEF Rules!UserTopic
  <2>2. topic' \in Topics /\ default_topic' \in Topics \cup {NULL}
    BY <1>1, <1>2 DEF Rules!UserTopic
  <2>3. ASSUME ~suspended PROVE TopicKept(a)
    BY <1>1, <1>2, <2>3 DEF Rules!UserTopic, Rules!BadTopic, TopicKept
  <2> QED BY <2>1, <2>2, <2>3, TopicStep
<1>3. CASE Rules!TopicCmd(a, t)
  <2>1. UNCHANGED <<member, mode, lock, opts, topic_mask, suspended, access>>
    BY <1>3 DEF Rules!TopicCmd
  <2>2. topic' \in Topics /\ default_topic' \in Topics \cup {NULL}
    BY <1>1, <1>3 DEF Rules!TopicCmd
  <2>3. TopicKept(a)
    BY <1>1, <1>3 DEF Rules!TopicCmd, Rules!BadTopic, TopicKept
  <2> QED BY <2>1, <2>2, <2>3, TopicStep
<1> QED BY <1>2, <1>3

\* MODE, and the settings about modes and topics: these ask for the level that they guard.
LEMMA SettingsGuarded ==
  ASSUME ModesTame, ModesInv, NEW a \in Users,
         \/ \E m \in BOOLEAN : Rules!ModeCmd(a, m)
         \/ \E l \in {"on", "off", NULL} : Rules!SetModes(a, l)
         \/ \E t \in Topics \cup {NULL} : Rules!SetDefaultTopic(a, t)
         \/ \E ts \in SUBSET Topics : Rules!SetTopicMask(a, ts)
  PROVE  ModesInv' /\ Rules!Guarded(a)
<1>1. mode \in BOOLEAN /\ lock \in {"on", "off", NULL}
  BY DEF ModesInv, Rules!TypeOK
<1>2. ASSUME NEW m \in BOOLEAN, Rules!ModeCmd(a, m) PROVE ModesInv' /\ Rules!Guarded(a)
  <2>1. UNCHANGED <<member, topic, lock, opts, default_topic, topic_mask, suspended, access>> /\ mode' \in {m, Rules!Locked(mode)}
    BY <1>2 DEF Rules!ModeCmd, Rules!sets
  <2>2. mode' \in BOOLEAN
    BY <1>1, <2>1, Zenon DEF Rules!Locked
  <2>3. ModesInv'
    BY <2>1, <2>2 DEF ModesInv, Rules!TypeOK
  <2>4. Rules!May(a, "enf_modes") \/ ~Rules!LockViolated(m)
    BY <1>2 DEF Rules!ModeCmd
  <2>5. ASSUME mode' = m, ~Rules!LockViolated(m) PROVE LockKept(a)
    BY <1>1, <2>5 DEF LockKept, Rules!Locked, Rules!LockViolated
  <2>6. ASSUME mode' = Rules!Locked(mode) PROVE LockKept(a)
    BY <1>1, <2>6 DEF LockKept, Rules!Locked
  <2>7. Rules!May(a, "enf_modes") => LockKept(a)
    BY DEF LockKept
  <2> QED BY <2>1, <2>3, <2>4, <2>5, <2>6, <2>7, NoChange, PartsOfGuarded
<1>3. ASSUME NEW l \in {"on", "off", NULL}, Rules!SetModes(a, l) PROVE ModesInv' /\ Rules!Guarded(a)
  <2>1. UNCHANGED <<member, topic, opts, default_topic, topic_mask, suspended, access>> /\ Rules!May(a, "enf_modes")
        /\ lock' = l /\ mode' = IF l = NULL THEN mode ELSE l = "on"
    BY <1>3 DEF Rules!SetModes
  <2>2. ModesInv'
    BY <1>1, <2>1, Zenon DEF ModesInv, Rules!TypeOK
  <2> QED BY <2>1, <2>2, NoChange, PartsOfGuarded DEF LockKept
<1>4. ASSUME NEW t \in Topics \cup {NULL}, Rules!SetDefaultTopic(a, t) PROVE ModesInv' /\ Rules!Guarded(a)
  <2>1. UNCHANGED <<member, mode, lock, opts, topic_mask, suspended, access>> /\ Rules!May(a, "enf_topic")
        /\ default_topic' = t /\ topic' \in Topics
    BY <1>4 DEF Rules!SetDefaultTopic
  <2> QED BY <2>1, TopicStep DEF TopicKept
<1>5. ASSUME NEW ts \in SUBSET Topics, Rules!SetTopicMask(a, ts) PROVE ModesInv' /\ Rules!Guarded(a)
  <2>1. UNCHANGED <<member, mode, topic, lock, opts, default_topic, suspended, access>> /\ topic_mask' = ts
    BY <1>5 DEF Rules!SetTopicMask, Rules!ircs
  <2>2. ModesInv'
    BY <2>1 DEF ModesInv, Rules!TypeOK
  <2> QED BY <2>1, <2>2, NoChange, PartsOfGuarded
<1> QED BY <1>2, <1>3, <1>4, <1>5

\* Settings that are levels, and who is protected.
LEMMA LevelsGuarded ==
  ASSUME ModesTame, ModesInv, NEW a \in Users,
         \/ \E o \in Rules!LevelOptions, l \in 0..FullOwner + 1 : Rules!SetLevel(a, o, l)
         \/ \E p \in {"a", "e", "l", "n"} : Rules!SetProtect(a, p)
  PROVE  ModesInv' /\ Rules!Guarded(a)
<1> DEFINE All == Rules!LevelOptions \cup {"protect"}
<1>1. opts \in [All -> Nat \cup {"a", "e", "l", "n"}] /\ \A o \in Rules!LevelOptions : opts[o] \in Nat
  BY Zenon DEF ModesInv, Rules!TypeOK, ModesTame
<1>2. access[a] \in Nat /\ "protect" \notin Rules!LevelOptions /\ {"give_ops", "give_voice"} \subseteq Rules!LevelOptions
  BY DEF ModesInv, Rules!TypeOK, ModesTame, Rules!LevelOptions
<1> HIDE DEF All
<1>3. ASSUME UNCHANGED <<member, mode, topic, lock, default_topic, topic_mask, suspended, access>>, opts' \in Options,
             opts'.give_voice <= opts'.give_ops, LevelsKept(a)
      PROVE  ModesInv' /\ Rules!Guarded(a)
  <2>1. ModesInv'
    BY <1>3 DEF ModesInv, Rules!TypeOK
  <2> QED BY <1>3, <2>1, NoChange, PartsOfGuarded
<1>4. ASSUME NEW o \in Rules!LevelOptions, NEW l \in 0..FullOwner + 1, Rules!SetLevel(a, o, l) PROVE ModesInv' /\ Rules!Guarded(a)
  <2>1. /\ opts' = [opts EXCEPT ![o] = l] /\ opts' \in Options
        /\ UNCHANGED <<member, mode, topic, lock, default_topic, topic_mask, suspended, access>>
    BY <1>4 DEF Rules!SetLevel, Rules!ircs
  <2>2. o \in All /\ opts'[o] = l /\ \A x \in All \ {o} : opts'[x] = opts[x]
    BY <1>1, <2>1 DEF All
  <2>3. opts["give_voice"] <= opts["give_ops"]
    BY DEF ModesInv
  <2>4. opts'["give_voice"] <= opts'["give_ops"]
    <3>1. CASE o = "give_voice"
      <4>1. l <= opts["give_ops"]
        BY <1>4, <3>1 DEF Rules!SetLevel
      <4> QED BY <1>2, <2>2, <3>1, <4>1 DEF All
    <3>2. CASE o = "give_ops"
      <4>1. l >= opts["give_voice"]
        BY <1>4, <3>2 DEF Rules!SetLevel
      <4>2. opts["give_voice"] \in Nat /\ l \in Int
        BY <1>1, <1>2
      <4> QED BY <1>2, <2>2, <3>2, <4>1, <4>2 DEF All
    <3>3. CASE o \notin {"give_voice", "give_ops"}
      BY <1>2, <2>2, <2>3, <3>3 DEF All
    <3> QED BY <3>1, <3>2, <3>3
  <2>5. LevelsKept(a)
    <3>1. access[a] = FullOwner \/ (opts[o] <= access[a] /\ l <= access[a])
      BY <1>1, <1>2, <1>4 DEF Rules!SetLevel, Rules!Settable, Rules!MayExempt
    <3> QED BY <2>2, <3>1 DEF LevelsKept, All
  <2> QED BY <1>3, <2>1, <2>4, <2>5
<1>5. ASSUME NEW p \in {"a", "e", "l", "n"}, Rules!SetProtect(a, p) PROVE ModesInv' /\ Rules!Guarded(a)
  <2>1. /\ opts' = [opts EXCEPT !.protect = p] /\ opts' \in Options
        /\ UNCHANGED <<member, mode, topic, lock, default_topic, topic_mask, suspended, access>>
    BY <1>5 DEF Rules!SetProtect, Rules!ircs
  <2>2. \A x \in Rules!LevelOptions : opts'[x] = opts[x]
    BY <1>1, <1>2, <2>1 DEF All
  <2>3. opts'["give_voice"] <= opts'["give_ops"] /\ LevelsKept(a)
    BY <1>2, <2>2 DEF ModesInv, LevelsKept
  <2> QED BY <1>3, <2>1, <2>3
<1> QED BY <1>4, <1>5

\* Every message and command of somebody.
LEMMA SentOrCommanded ==
  ASSUME ModesTame, ModesInv, NEW a \in Users, Rules!Messages(a) \/ Rules!Commands(a)
  PROVE  ModesInv' /\ (~suspended => Rules!Guarded(a))
<1>1. CASE Rules!Messages(a)
  BY <1>1, DeopsAnswered, OneCommanded, KicksAnswered, ModesAnswered, TopicsAnswered DEF Rules!Messages
<1>2. CASE Rules!Commands(a)
  BY <1>2, OneCommanded, ResyncKeeps, TopicsAnswered, SettingsGuarded, LevelsGuarded DEF Rules!Commands
<1> QED BY <1>1, <1>2

\* What nobody sends or commands.
LEMMA UncommandedSteps ==
  ASSUME ModesTame, ModesInv,
         \/ \E u \in Users : Rules!Leave(u) \/ \E auto \in BOOLEAN : Rules!Join(u, auto)
         \/ Rules!Csuspend \/ Rules!RefreshTopics \/ Rules!NewChannel
  PROVE  ModesInv'
<1>1. ASSUME NEW u \in Users, Rules!Leave(u) PROVE ModesInv'
  <2>1. MembersOk(member') /\ UNCHANGED <<mode, topic, Rules!sets, access>>
    BY <1>1, MembersAre, MembersChange, Zenon DEF Rules!Leave
  <2> QED BY <2>1, MembersStep
<1>2. ASSUME NEW u \in Users, NEW auto \in BOOLEAN, Rules!Join(u, auto) PROVE ModesInv'
  <2> DEFINE fl == (IF ~suspended /\ (auto \/ opts.give_ops = 0) THEN Rules!Due(u) ELSE {})
                   \cup (IF DOMAIN member = {} THEN {"o"} ELSE {})
  <2>1. fl \in SUBSET {"o", "v"}
    BY DueIs
  <2>2. member' = Rules!With(member, u, fl) /\ UNCHANGED <<mode, topic, Rules!sets, access>>
    BY <1>2 DEF Rules!Join
  <2> HIDE DEF fl
  <2>3. MembersOk(member')
    BY <2>1, <2>2, MembersAre, MembersChange, Zenon
  <2> QED BY <2>2, <2>3, MembersStep
<1>3. CASE Rules!Csuspend
  BY <1>3 DEF Rules!Csuspend, Rules!ircs, ModesInv, Rules!TypeOK
<1>4. CASE Rules!RefreshTopics
  BY <1>4 DEF Rules!RefreshTopics, Rules!sets, ModesInv, Rules!TypeOK
<1>5. CASE Rules!NewChannel
  <2>1. Rules!Locked(FALSE) \in BOOLEAN
    BY Zenon DEF Rules!Locked
  <2> QED BY <1>5, <2>1, Zenon DEF Rules!NewChannel, Rules!sets, ModesInv, Rules!TypeOK
<1> QED BY <1>1, <1>2, <1>3, <1>4, <1>5

\* While a channel is not suspended nobody gets round its mode lock, its topic mask or its default
\* topic without the level for it, a member whom the channel protects is opped again whatever is
\* sent or commanded, nobody sets a level that they do not reach, and voice never needs more than
\* op (handle_mode, handle_topic, handle_kick, modify_users, channel_level_option): for any users,
\* levels, settings and topics of a channel that begins with the levels for op and voice in order.
THEOREM ModesAreGuarded ==
  ASSUME ModesTame
  PROVE  Rules!Spec /\ opts.give_voice <= opts.give_ops => []Rules!TypeOK /\ [][Rules!StepGuarded]_(Rules!vars)
<1>1. Rules!Init /\ opts.give_voice <= opts.give_ops => ModesInv
  BY Zenon DEF Rules!Init, ModesInv, Rules!TypeOK
<1>2. ModesInv /\ [Rules!Next]_(Rules!vars) => ModesInv' /\ [Rules!StepGuarded]_(Rules!vars)
  <2> SUFFICES ASSUME ModesInv, [Rules!Next]_(Rules!vars) PROVE ModesInv' /\ [Rules!StepGuarded]_(Rules!vars)
    OBVIOUS
  <2>1. CASE UNCHANGED Rules!vars
    BY <2>1 DEF Rules!vars, ModesInv, Rules!TypeOK
  <2>2. CASE \E a \in Users : by' = a /\ (Rules!Messages(a) \/ Rules!Commands(a))
    <3>1. ModesInv' /\ (~suspended => Rules!Guarded(by'))
      BY <2>2, SentOrCommanded
    <3> QED BY <3>1 DEF Rules!StepGuarded, ModesInv
  <2>3. CASE by' = NULL /\ \/ \E u \in Users : Rules!Leave(u) \/ \E auto \in BOOLEAN : Rules!Join(u, auto)
                           \/ Rules!Csuspend \/ Rules!RefreshTopics \/ Rules!NewChannel
    <3>1. ModesInv'
      BY <2>3, UncommandedSteps
    <3> QED BY <2>3, <3>1 DEF Rules!StepGuarded, ModesInv
  <2> QED BY <2>1, <2>2, <2>3 DEF Rules!Next
<1>3. ModesInv => Rules!TypeOK
  BY DEF ModesInv
<1> QED BY <1>1, <1>2, <1>3, PTL DEF Rules!Spec

-----------------------------------------------------------------------------
(* Do-not-register entries (ChanDnr).                                       *)
Dnrs == INSTANCE ChanDnr

\* No channel or mask is another one without its first character: where this
\* holds, expire_dnrs removes nothing but what is over.
Unclipped == \A k \in Names \cup Masks : k - 1 \notin Names \cup Masks

\* The dictionaries list what belongs in them, with times.
Dated(d) == \A k \in DOMAIN d : d[k] \in Int
Kinds == /\ DOMAIN plain_dnrs \subseteq Names /\ DOMAIN mask_dnrs \subseteq Masks
         /\ Dated(handle_dnrs) /\ Dated(plain_dnrs) /\ Dated(mask_dnrs) /\ now \in Int

\* At first they are empty.
LEMMA KindsInit == Dnrs!Init => Kinds
BY DEF Dnrs!Init, Kinds, Dated, Dnrs!None

\* Whatever is added, dropped or renamed, they stay so.
LEMMA KindsNext == Kinds /\ [Dnrs!Next]_(Dnrs!vars) => Kinds'
<1> SUFFICES ASSUME Kinds, [Dnrs!Next]_(Dnrs!vars) PROVE Kinds'
  OBVIOUS
<1> USE DEF Kinds, Dated, Dnrs!With, Dnrs!Sans
<1>1. ASSUME NEW k \in Accounts \cup Names \cup Masks, NEW e \in 0..MaxTime, Dnrs!Noregister(k, e) PROVE Kinds'
  BY <1>1 DEF Dnrs!Noregister
<1>2. ASSUME NEW k, Dnrs!Allowregister(k) PROVE Kinds'
  BY <1>2 DEF Dnrs!Allowregister
<1>9. ASSUME NEW hs, NEW ps, NEW ms, Dnrs!DnrsearchRemove(hs, ps, ms) PROVE Kinds'
  BY <1>9 DEF Dnrs!DnrsearchRemove
<1>3. ASSUME NEW n \in Names, NEW h \in Accounts, Dnrs!IsDnr(n, h) PROVE Kinds'
  BY <1>3 DEF Dnrs!IsDnr
<1>4. CASE Dnrs!Visit
  BY <1>4 DEF Dnrs!Visit
<1>5. CASE Dnrs!ExpireDnrs
  BY <1>5 DEF Dnrs!ExpireDnrs
<1>6. CASE Dnrs!Tick
  BY <1>6 DEF Dnrs!Tick, Dnrs!dnrs
<1>7. ASSUME NEW h \in Accounts, NEW k \in Accounts, Dnrs!Rename(h, k) PROVE Kinds'
  BY <1>7 DEF Dnrs!Rename
<1>8. CASE UNCHANGED Dnrs!vars
  BY <1>8 DEF Dnrs!vars
<1> QED
  BY <1>1, <1>2, <1>3, <1>4, <1>5, <1>6, <1>7, <1>8, <1>9 DEF Dnrs!Next

\* Dropping what is over keeps what is in force.
LEMMA OverGoes ==
  ASSUME NEW d, NEW ks, ks \subseteq Dnrs!Over(d), Dated(d), now \in Int
  PROVE  Dnrs!Kept(d, Dnrs!Sans(d, ks))
BY DEF Dnrs!Over, Dnrs!Kept, Dnrs!Sans, Dated

\* NOREGISTER anew keeps the name.
LEMMA ReplacedStays == \A d, k, e : Dnrs!Kept(d, Dnrs!With(d, k, e))
BY DEF Dnrs!Kept, Dnrs!With

\* What is left alone keeps everything.
LEMMA SameStays == \A d : Dnrs!Kept(d, d)
BY DEF Dnrs!Kept

\* Names behind a first character are no entries.
LEMMA ClippedGoes ==
  ASSUME Unclipped, NEW d, DOMAIN d \subseteq Names \cup Masks, Dated(d), now \in Int
  PROVE  Dnrs!Kept(d, Dnrs!Sans(d, {k - 1 : k \in Dnrs!Over(d)}))
BY DEF Unclipped, Dnrs!Over, Dnrs!Kept, Dnrs!Sans, Dated

\* Entries in force stay, in every step that is not a removal by staff.
LEMMA StepKeeps == Unclipped /\ Kinds => Dnrs!KeepsDnrs
<1> SUFFICES ASSUME Unclipped, Kinds, Dnrs!Unattended
             PROVE  /\ Dnrs!Kept(handle_dnrs, handle_dnrs') /\ Dnrs!Kept(plain_dnrs, plain_dnrs')
                    /\ Dnrs!Kept(mask_dnrs, mask_dnrs')
  BY DEF Dnrs!KeepsDnrs
<1> DEFINE Goal == /\ Dnrs!Kept(handle_dnrs, handle_dnrs') /\ Dnrs!Kept(plain_dnrs, plain_dnrs')
                   /\ Dnrs!Kept(mask_dnrs, mask_dnrs')
<1>1. ASSUME NEW k \in Accounts \cup Names \cup Masks, NEW e \in 0..MaxTime, Dnrs!Noregister(k, e) PROVE Goal
  BY <1>1, ReplacedStays, SameStays DEF Dnrs!Noregister
<1>2. ASSUME NEW n \in Names, NEW h \in Accounts, Dnrs!IsDnr(n, h) PROVE Goal
  <2>1. /\ {h} \cap Dnrs!Over(handle_dnrs) \subseteq Dnrs!Over(handle_dnrs)
        /\ {n} \cap Dnrs!Over(plain_dnrs) \subseteq Dnrs!Over(plain_dnrs)
    OBVIOUS
  <2>2. Dnrs!Kept(handle_dnrs, handle_dnrs') /\ Dnrs!Kept(plain_dnrs, plain_dnrs')
    BY <1>2, <2>1, OverGoes DEF Dnrs!IsDnr, Kinds
  <2>3. PICK seen \in SUBSET Dnrs!Over(mask_dnrs) : mask_dnrs' = Dnrs!Sans(mask_dnrs, seen)
    BY <1>2 DEF Dnrs!IsDnr
  <2>4. Dnrs!Kept(mask_dnrs, mask_dnrs')
    BY <2>3, OverGoes DEF Kinds
  <2> QED
    BY <2>2, <2>4
<1>3. CASE Dnrs!Visit
  BY <1>3, OverGoes DEF Dnrs!Visit, Kinds
<1>4. CASE Dnrs!ExpireDnrs
  BY <1>4, OverGoes, ClippedGoes DEF Dnrs!ExpireDnrs, Kinds
<1>5. CASE Dnrs!Tick
  BY <1>5, SameStays DEF Dnrs!Tick, Dnrs!dnrs
<1> QED
  BY <1>1, <1>2, <1>3, <1>4, <1>5 DEF Dnrs!Unattended

\* DnrsKept, for every set of accounts, channels and masks, but for names that
\* are others without their first character (chanserv.c:1417).
THEOREM DnrsStay == Unclipped => (Dnrs!Spec => Dnrs!DnrsKept)
<1> SUFFICES ASSUME Unclipped PROVE Dnrs!Spec => Dnrs!DnrsKept
  OBVIOUS
<1>1. Kinds /\ [Dnrs!Next]_(Dnrs!vars) => [Dnrs!KeepsDnrs]_(Dnrs!vars)
  BY StepKeeps
<1> QED
  BY <1>1, KindsInit, KindsNext, PTL DEF Dnrs!Spec, Dnrs!DnrsKept
=============================================================================
