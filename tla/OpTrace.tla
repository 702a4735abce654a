-------------------------------- MODULE OpTrace --------------------------------
(***************************************************************************)
(* OpServ's TRACE: users are searched for along the members of a channel,  *)
(* the connections from an address or everybody, up to a limit; what was   *)
(* found is printed, counted, killed or has its address banned.  Source:   *)
(* src/opserv.c.                                                           *)
(***************************************************************************)
EXTENDS SequencesExt

CONSTANTS
  Roster,   \* all users, in the order of the dictionary of clients
  Caller,   \* who gives the command
  Person,   \* of each: service or not, address, opserv level or NULL without an account
  Joiners, Chans,
  Flags,    \* what members of each channel may be, sets of "op" and "voice"
  Trusted,  \* addresses
  Discrims, \* what TRACE is given: chans (chan, req, no), ip, authed, min and max level,
            \* clones, joined (number of channels), limit, and what to abuse: opers, trusted
  NULL

VARIABLES
  clients, \* the users who are on
  hosts,   \* opserv_hostinfo_dict: a list of users for each address
  opers,
  members, \* of each channel, in order of joining
  flags,
  glined,
  fault    \* the caller's account was looked at after the caller's end

vars == <<clients, hosts, opers, members, flags, glined, fault>>

Everyone == Range(Roster)
Ips      == {Person[u].ip : u \in Everyone}

Init ==
  /\ clients = {u \in Everyone : Person[u].service} /\ opers = {} /\ glined = {}
  /\ hosts = [i \in Ips |-> <<>>] /\ fault = FALSE
  /\ members = [c \in Chans |-> <<>>] /\ flags = [c \in Chans |-> [u \in Everyone |-> {}]]

-----------------------------------------------------------------------------
(* Everyone come, are counted unless an alert had their address banned, join, *)
(* and go.                                                                 *)

Connect(u, counted) ==
  /\ u \notin clients /\ Person[u].ip \notin glined /\ clients' = clients \cup {u}
  /\ hosts' = IF counted THEN [hosts EXCEPT ![Person[u].ip] = Append(@, u)] ELSE hosts
  /\ glined' = IF counted THEN glined ELSE glined \cup {Person[u].ip}
  /\ UNCHANGED <<opers, members, flags, fault>>

Oper(u) ==
  /\ u \in clients \ opers /\ ~Person[u].service /\ opers' = opers \cup {u}
  /\ UNCHANGED <<clients, hosts, members, flags, glined, fault>>

Join(u, c, f) ==
  /\ u \in clients /\ ~Contains(members[c], u)
  /\ members' = [members EXCEPT ![c] = Append(@, u)] /\ flags' = [flags EXCEPT ![c][u] = f]
  /\ UNCHANGED <<clients, hosts, opers, glined, fault>>

\* DelUser: off the channels, the counts and the opers.
Deleted(us) ==
  LET Off(l) == SelectSeq(l, LAMBDA u : u \notin us)
  IN /\ clients' = clients \ us /\ opers' = opers \ us
     /\ hosts' = [i \in Ips |-> Off(hosts[i])] /\ members' = [c \in Chans |-> Off(members[c])]
     /\ flags' = [c \in Chans |-> [u \in Everyone |-> IF u \in us THEN {} ELSE flags[c][u]]]

Quit(u) == u \in clients /\ ~Person[u].service /\ Deleted({u}) /\ UNCHANGED <<glined, fault>>

-----------------------------------------------------------------------------
(* The search.                                                             *)

On(u, c)     == Contains(members[c], u)
Level(u)     == IF Person[u].level = NULL THEN 0 ELSE Person[u].level
Fits(u, ch)  == ch.req \subseteq flags[ch.chan][u] /\ ch.no \cap flags[ch.chan][u] = {}
Joined(u)    == {c \in Chans : On(u, c)}

\* discrim_match.
DiscrimMatch(d, u) ==
  /\ d.authed # NULL => d.authed = (Person[u].level # NULL)
  /\ d.joined # NULL => d.joined = Cardinality(Joined(u))
  /\ d.ip # NULL => d.ip = Person[u].ip
  /\ \A n \in DOMAIN d.chans : On(u, d.chans[n].chan)
  /\ Level(u) \in d.min .. d.max
  /\ d.clones > 1 => Len(hosts[Person[u].ip]) >= d.clones

\* opserv_discrim_search: where to look.
Along(d) ==
  IF d.chans # <<>>
    THEN SelectSeq(members[d.chans[1].chan], LAMBDA u : \A n \in DOMAIN d.chans : Fits(u, d.chans[n]))
  ELSE IF d.ip # NULL THEN hosts[d.ip] ELSE SelectSeq(Roster, LAMBDA u : u \in clients)

Search(d) ==
  LET found == SelectSeq(Along(d), LAMBDA u : DiscrimMatch(d, u))
  IN SubSeq(found, 1, IF Len(found) < d.limit THEN Len(found) ELSE d.limit)

-----------------------------------------------------------------------------
(* What is done with those who were found.                                 *)

\* is_oper_victim and is_trust_victim.
OperVictim(u, d, check_ip) ==
  /\ ~Person[u].service /\ (d.opers \/ u \notin opers)
  /\ Person[u].level # NULL => Person[u].level <= Level(Caller)
  /\ check_ip /\ ~d.opers => \A o \in opers : Person[o].ip # Person[u].ip
TrustVictim(u, d) == d.trusted \/ Person[u].ip \notin Trusted

MayTrace == Caller \in opers

\* PRINT, DOMAINS and COUNT; COUNT and DOMAINS know no limit.
Count(d) == Len(Search([d EXCEPT !.limit = 1000]))

\* Once the caller is killed the caller's account is gone.
TraceKill(d) ==
  LET found   == Search(d)
      victims == {u \in Range(found) : OperVictim(u, d, FALSE) /\ TrustVictim(u, d)}
      Before(u, v) == \E i, j \in DOMAIN found : i < j /\ found[i] = u /\ found[j] = v
      Late(v) == /\ Before(Caller, v) /\ Person[v].level # NULL
                 /\ ~Person[v].service /\ (d.opers \/ v \notin opers)
  IN /\ MayTrace /\ fault' = (Caller \in victims /\ \E v \in Everyone : Late(v))
     /\ IF fault' THEN UNCHANGED <<clients, opers, hosts, members, flags>> ELSE Deleted(victims)
     /\ UNCHANGED glined

\* opserv_block: the address is banned; the servers see to its users.
TraceGline(d) ==
  /\ MayTrace
  /\ glined' = glined \cup {Person[u].ip :
        u \in {u \in Range(Search(d)) : OperVictim(u, d, TRUE) /\ TrustVictim(u, d)}}
  /\ UNCHANGED <<clients, hosts, opers, members, flags, fault>>

Ungline == glined # {} /\ glined' = {} /\ UNCHANGED <<clients, hosts, opers, members, flags, fault>>

Next ==
  /\ ~fault
  /\ \/ \E u \in Everyone : Oper(u) \/ Quit(u) \/ \E b \in BOOLEAN : Connect(u, b)
     \/ \E u \in Joiners, c \in Chans : \E f \in Flags[c] : Join(u, c, f)
     \/ \E d \in Discrims : TraceKill(d) \/ TraceGline(d)
     \/ Ungline

Spec == Init /\ [][Next]_vars

-----------------------------------------------------------------------------
\* Every way of searching finds those who fit all that was asked for: members
\* with the right modes of all the channels, whoever came from the address and
\* was counted (no service is, nor who was banned on arrival), or else all.
\* A limit is kept and never leaves room for one who fits.
Asked(d) ==
  {u \in clients :
     /\ \A n \in DOMAIN d.chans :
          LET ch == d.chans[n] IN On(u, ch.chan) /\ ch.req \subseteq flags[ch.chan][u] /\ ch.no \cap flags[ch.chan][u] = {}
     /\ d.ip # NULL => Person[u].ip = d.ip /\ (d.chans # <<>> \/ Contains(hosts[d.ip], u))
     /\ d.authed = NULL \/ (d.authed <=> Person[u].level # NULL)
     /\ d.joined = NULL \/ d.joined = Cardinality({c \in Chans : Contains(members[c], u)})
     /\ d.min <= Level(u) /\ Level(u) <= d.max
     /\ d.clones > 1 => Len(hosts[Person[u].ip]) >= d.clones}

SearchExact ==
  \A d \in Discrims :
    LET found == Search(d) IN
    /\ Range(found) \subseteq Asked(d) /\ IsInjective(found)
    /\ Len(found) = IF Cardinality(Asked(d)) < d.limit THEN Cardinality(Asked(d)) ELSE d.limit
    /\ Count(d) = Cardinality(Asked(d))

\* Who is killed, or has the address banned, by TRACE: no service, nobody of
\* a higher level; no oper, nobody trusted unless that is asked for; a ban
\* spares even those who share an address with an oper.  The caller's account
\* is missed only by one who asked for opers and was among those found.
StepSpares ==
  clients' \subseteq clients /\ <<clients, glined, fault>> # <<clients, glined, fault>>' =>
    \A d \in Discrims :
      /\ TraceKill(d) => \A u \in clients \ clients' :
           /\ ~Person[u].service /\ Level(u) <= Level(Caller) /\ (u \in opers => d.opers)
           /\ Person[u].ip \in Trusted => d.trusted
      /\ TraceGline(d) => \A i \in glined' \ glined :
           /\ (\E o \in opers : Person[o].ip = i) => d.opers
           /\ i \in Trusted => d.trusted
      /\ fault' /\ TraceKill(d) => d.opers /\ Caller \in Range(Search(d))
=============================================================================
