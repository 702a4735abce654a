-------------------------- MODULE MCNickServCookies --------------------------
(***************************************************************************)
(* Accounts, one part at a time: addresses and cookies; and the smaller    *)
(* parts beside them, the hosts of sessions, the settings, the search and  *)
(* the notes.  A behaviour stays in the part it begins in, and the others  *)
(* stay as they are initially.                                             *)
(***************************************************************************)
EXTENDS NickServCookies, TLC, Integers, Sequences

CONSTANTS u1, a1, a2, a3, k1, k2

VARIABLES
  part,
  name, host, ident, h_auth, shown, outdated,
  width, table, on, chosen, maxlogins, karma, epithet, o_passwd, masks, by,
  alive, s_auth, seen, asked, found, s_now,
  notes, disk, wanted, lost, saved, restarted, n_now

hosts    == <<name, host, ident, h_auth, shown, outdated>>
settings == <<width, table, on, chosen, maxlogins, karma, epithet, o_passwd, masks, by>>
search   == <<alive, s_auth, seen, asked, found, s_now>>
noted    == <<notes, disk, wanted, lost, saved, restarted, n_now>>

\* Who reads which mailbox: u1 two of them, everybody else the third.
OwnMail(u) == IF u = u1 THEN {a1, a2} ELSE {a3}

H == INSTANCE NickHosts WITH Users <- {1, 2}, Accounts <- {k1, k2}, Names <- {"n", "longer"}, Titles <- {"t"},
       Hosts <- {"h"}, Idents <- {"i"}, Length <- "n" :> 1 @@ "longer" :> 2 @@ "t" :> 1, HostLen <- 2,
       Staff <- {1}, Trusted <- {1}, auth <- h_auth

O == INSTANCE NickOptions WITH Binary <- {"COLOR"}, Picks <- {"STYLE"}, Values <- {"v"},
       Staff <- "lo" :> 1 @@ "hi" :> 3, Rank <- 2, Praised <- {"hi"}, MinLine <- 2, MaxLine <- 3, MaxWidth <- 4,
       Byte <- 4, HardMax <- 1, MaxKarma <- 1, Passwords <- {"p", "q"}, Insecure <- {"q"}, Masks <- {"m", "n"},
       passwd <- o_passwd

\* A helper, an account of level 1 and one of level 2; what is asked for.
Account(level, kar, flags, ms, born) ==
  [level |-> level, karma |-> kar, flags |-> flags, masks |-> ms, last |-> 1, born |-> born, mail |-> level]
Compare(of, op, n) == [of |-> of, op |-> op, n |-> n]
Mask(how)  == [of |-> "hostmask", how |-> how, mask |-> {1}]
Asked ==
  {<<Compare("access", op, 1)>> : op \in {"<", "=", ">", "?"}} \cup
  {<<Compare("access", ">=", 0), [of |-> "limit", n |-> 1]>>,
   <<[of |-> "seen", n |-> 1], Compare("registered", "<=", 1)>>,
   <<Compare("karma", ">", -1), Compare("karma", "<", 1)>>,
   <<[of |-> "flags", on |-> {"g"}, off |-> {}]>>,
   <<Mask("superset")>>, <<Mask("lastquit")>>,
   <<[of |-> "email", mask |-> {0}]>>}

S == INSTANCE NickSearch WITH
       Roster <- <<Account(0, 0, {"helping"}, {{1}}, -1), Account(1, 1, {}, {{1, 2}}, 0), Account(2, -1, {"g"}, {}, 0)>>,
       Users <- {1, 2}, Opers <- {1}, Searches <- Asked, FlagLevel <- "helping" :> 0 @@ "g" :> 2,
       MailLevel <- 1, MaxTime <- 1, auth <- s_auth, now <- s_now

N == INSTANCE NickNotes WITH Durations <- {0, 1}, Base <- 3, MaxId <- 3, MaxTime <- 3, now <- n_now

MCInit ==
  /\ part \in {"cookies", "hosts", "settings", "search", "notes"}
  /\ Init /\ H!Init /\ O!Init /\ S!Init /\ N!Init

MCNext ==
  /\ UNCHANGED part
  /\ \/ part = "cookies" /\ Next /\ UNCHANGED <<hosts, settings, search, noted>>
     \/ part = "hosts" /\ H!Next /\ UNCHANGED <<vars, settings, search, noted>>
     \/ part = "settings" /\ O!Next /\ UNCHANGED <<vars, hosts, search, noted>>
     \/ part = "search" /\ S!Next /\ UNCHANGED <<vars, hosts, settings, noted>>
     \/ part = "notes" /\ N!Next /\ UNCHANGED <<vars, hosts, settings, search>>
     \/ part = "search" /\ alive = {} /\ UNCHANGED <<vars, hosts, settings, search, noted>>

MCSpec == /\ MCInit /\ [][MCNext]_<<part, vars, hosts, settings, search, noted>>
          /\ \A h \in Handles : WF_vars(CookieExpires(h))

\* What the smaller parts keep.
AccountsKept ==
  [](H!HostsAgree /\ O!WidthsSane /\ N!NotesListed) /\ O!SettingsAllowed /\ S!SearchSpares
=============================================================================
