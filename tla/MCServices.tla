------------------------------- MODULE MCServices ------------------------------
(***************************************************************************)
(* The smaller components, one at a time: a behaviour is about the part it *)
(* begins in.  The parts are independent machines and lend their state     *)
(* from one set of variables, v1 .. v11, in the order each module declares *)
(* its own; what a part does not need stays 0.  Only the part `channel' is *)
(* NetChannels itself, which has not begun in the others.                  *)
(***************************************************************************)
EXTENDS NetChannels, TLC

CONSTANTS s1, l1, r1, r2, n2, u1, u2, u3, h1, h2, a1, g1, g2, c1, c2, i1, i2

VARIABLES part, v1, v2, v3, v4, v5, v6, v7, v8, v9, v10, v11

state == <<v1, v2, v3, v4, v5, v6, v7, v8, v9, v10, v11>>

\* The variables from the nth on, and that these are not needed.
From11 == v11
From10 == <<v10, From11>>
From9  == <<v9, From10>>
From8  == <<v8, From9>>
From7  == <<v7, From8>>
From6  == <<v6, From7>>
From5  == <<v5, From6>>
From4  == <<v4, From5>>
From1  == <<v1, v2, v3, From4>>
No11 == v11 = 0
No10 == v10 = 0 /\ No11
No9  == v9 = 0 /\ No10
No8  == v8 = 0 /\ No9
No7  == v7 = 0 /\ No8
No6  == v6 = 0 /\ No7
No5  == v5 = 0 /\ No6
No4  == v4 = 0 /\ No5
No1  == v1 = 0 /\ v2 = 0 /\ v3 = 0 /\ No4

-----------------------------------------------------------------------------
(* The network.                                                            *)

Net == INSTANCE NetUsers WITH Services <- {s1}, Clones <- {l1}, Remote <- {r1, r2}, Leaves <- {r2},
         Nicks <- {s1, n2}, Start <- 2, MaxTime <- 3, MaxOut <- 3, CollidersMove <- FALSE,
         users <- v1, clients <- v2, linked <- v3, burst <- v4, invis <- v5, now <- v6, theirs <- v7, out <- v8

-----------------------------------------------------------------------------
(* ChanServ: bans, do-not-register entries, modes and notes.               *)

\* u1 is protected from a1 by a lower level or by the channel's setting.
Protected == {[protect |-> "l", access |-> u1 :> 0 @@ a1 :> 1], [protect |-> "e", access |-> u1 :> 1 @@ a1 :> 1]}
BanLists == INSTANCE ChanBans WITH Users <- {u1}, Guises <- {g1, g2}, Channels <- {c1, c2}, Home <- c1,
          Staff <- {a1}, Standings <- Protected, MaxBans <- 2, MaxIrc <- 1, MaxTime <- 1, Enabled <- {},
          guise <- v1, bans <- v2, timers <- v3, suspended <- v4, irc <- v5, members <- v6, standing <- v7, now <- v8

Dnrs == INSTANCE ChanDnr WITH Accounts <- {h1, h2}, Names <- {1, 3}, Masks <- {5}, MaxTime <- 2,
          handle_dnrs <- v1, plain_dnrs <- v2, mask_dnrs <- v3, now <- v4

Opts(ops, p) == [give_ops |-> ops, give_voice |-> 1, enf_ops |-> 2, enf_modes |-> 2, enf_topic |-> 2,
                 topic_snarf |-> 4, setters |-> 1, protect |-> p]
Rules == INSTANCE ChanModes WITH Users <- {u1, u2}, Owner <- 3, Standings <- {u1 :> 1 @@ u2 :> 2},
           Options <- {Opts(2, "l"), Opts(3, "l"), Opts(2, "e")}, Topics <- {"t1", "t2"},
           access <- v1, member <- v2, mode <- v3, lock <- v4, opts <- v5, topic <- v6, default_topic <- v7,
           topic_mask <- v8, suspended <- v9, by <- v10

Noter(access, helping, level) == [access |-> access, setter |-> access = 3, helping |-> helping, level |-> level]
NoteTypes == INSTANCE ChanNotes WITH Channels <- {c1, c2}, Types <- {"s", "t"},
           Setting <- {[how |-> "channel", min |-> 2], [how |-> "privileged", min |-> 1], [how |-> "setter", min |-> 0]},
           Lengths <- {1, 2}, Texts <- {1, 2, 3},
           People <- {Noter(0, FALSE, 0), Noter(1, FALSE, 0), Noter(3, FALSE, 0), Noter(0, TRUE, 2)},
           types <- v1, freed <- v2, notes <- v3, broken <- v4

-----------------------------------------------------------------------------
(* OpServ and the scanner.                                                 *)

Counts == INSTANCE OpClones WITH Users <- {u1, u2, u3}, Ips <- {i1, i2}, Trustable <- {i1}, Watched <- {i1},
            Limits <- {0, 2}, UntrustedMax <- 1, Nicks <- {n2}, MaxTime <- 1,
            online <- v1, opers <- v2, clients <- v3, blocked <- v4, trusted <- v5, timers <- v6, alerts <- v7,
            glined <- v8, held <- v9, reserved <- v10, now <- v11

Looks == [nick : {s1, n2}, host : {i1, i2}]
Gags == INSTANCE OpGags WITH Users <- {u1, u2}, Nicks <- {s1, n2}, Hosts <- {i1, i2},
          Masks <- {{l \in Looks : l.nick = s1}, {l \in Looks : l.host = i1}, Looks}, Alerts <- {{}, {n2}}, MaxTime <- 1,
          look <- v1, opers <- v2, gagged <- v3, gags <- v4, timers <- v5, alerts <- v6, now <- v7

Shut == INSTANCE OpChannels WITH Users <- {u1, u2}, Channels <- {{1}, {1, 2}}, Words <- {{1}, {2}, {1, 2}},
          Kept <- {{1, 2}}, Threshold <- 1, MaxTimers <- 2,
          words <- v1, exempt <- v2, chans <- v3

Scanner == INSTANCE Sockcheck WITH Addrs <- {"a", "b", "c"}, Tests <- {"s", "t"}, Deep <- {"t"}, MaxClients <- 2,
           CacheAge <- 0, GlineDuration <- 1, Reps <- 1, MaxTime <- 1, Enabled <- {},
           cache <- v1, pending <- v2, clients <- v3, slots <- v4, num <- v5, tests <- v6, now <- v7

ChanCmds == INSTANCE OpChanCmds WITH Users <- {u1}, Clones <- {l1}, OpServ <- s1, Level <- u1 :> 1 @@ l1 :> 0 @@ s1 :> 0,
              Callers <- {1, 2}, Modes <- {"registered"},
              list <- v1, flags <- v2, kicked <- v3, modes <- v4, bans <- v5

Someone(service, ip, level) == [service |-> service, ip |-> ip, level |-> level]
Anybody == [chans |-> <<>>, ip |-> NULL, authed |-> NULL, min |-> 0, max |-> 3, clones |-> 0,
            joined |-> NULL, limit |-> 3, opers |-> FALSE, trusted |-> FALSE]
Visited(c, req, no) == [chan |-> c, req |-> req, no |-> no]
Searches ==
  {[Anybody EXCEPT !.limit = 2, !.authed = TRUE, !.opers = TRUE, !.trusted = TRUE],
   [Anybody EXCEPT !.ip = i2, !.trusted = TRUE],
   [Anybody EXCEPT !.clones = 2, !.min = 2, !.opers = TRUE],
   [Anybody EXCEPT !.chans = <<Visited(c1, {}, {"voice"})>>, !.joined = 1],
   [Anybody EXCEPT !.chans = <<Visited(c2, {}, {}), Visited(c1, {"voice"}, {"op"})>>, !.limit = 1]}
Trace == INSTANCE OpTrace WITH Roster <- <<s1, r1, r2, l1>>, Caller <- r1,
           Person <- s1 :> Someone(TRUE, NULL, NULL) @@ r1 :> Someone(FALSE, i1, 2)
                     @@ r2 :> Someone(FALSE, i2, 3) @@ l1 :> Someone(FALSE, i2, 1),
           Joiners <- {r2}, Chans <- {c1, c2}, Flags <- c1 :> {{"op"}, {"voice"}} @@ c2 :> {{}},
           Trusted <- {i2}, Discrims <- Searches,
           clients <- v1, hosts <- v2, opers <- v3, members <- v4, flags <- v5, glined <- v6, fault <- v7

-----------------------------------------------------------------------------
(* MemoServ, Global, the dispatcher of commands; masks and database files. *)

MemoLists == INSTANCE MemoServ WITH Handles <- {h1, h2}, Names <- {"a", "b", "c"}, Friends <- {<<h1, h2>>}, Memos <- {1, 2},
           Expiry <- 1, MaxTime <- 2,
           name <- v1, dict <- v2, private <- v3, recvd <- v4, sent <- v5, memo <- v6, count <- v7, timer <- v8,
           now <- v9, by <- v10

Everybody == {"users", "opers", "helpers", "channels"}
\* Global with two users, then with so many messages that the texts of their numbers have
\* another order.
Notices == INSTANCE Global WITH Users <- {1, 2},
             Targets <- {{"users"}, {"opers"}, {"opers", "helpers"}, {"channels"}, Everybody},
             Base <- 3, MaxMessages <- 2, Durations <- {0, 1}, MaxTime <- 1, Quiet <- 0,
             online <- v1, opers <- v2, helpers <- v3, list <- v4, next <- v5, timers <- v6, alerted <- v7,
             shown <- v8, now <- v9
ReadBack == INSTANCE Global WITH Users <- {1}, Targets <- {{"users"}},
              Base <- 3, MaxMessages <- 4, Durations <- {0, 1}, MaxTime <- 1, Quiet <- 0,
              online <- v1, opers <- v2, helpers <- v3, list <- v4, next <- v5, timers <- v6, alerted <- v7,
              shown <- v8, now <- v9

\* The registry twice: with two triggers and staff of one level, then with staff of two
\* levels and one trigger.
Default(n) == n :> [cmd |-> "c", alias |-> FALSE, rules |-> [level |-> 1, flags |-> {}]]
Registry == INSTANCE Modcmd WITH Bots <- {"b1", "b2"}, Nicks <- {1, 2}, Commands <- {"c"}, Levels <- {1, 2},
              BuiltIn <- "c" :> 1, Keepbound <- {"c"}, Flags <- {}, Names <- {"x"}, Triggers <- {"t", "u"}, Staff <- {1},
              MaxBinds <- 2, ConfNicks <- {2}, DefBinds <- Default("x"),
              services <- v1, trigger <- v2, privileged <- v3, bound <- v4, offchannel <- v5, chanmsg <- v6,
              defaults <- v7, count <- v8, by <- v9
Ranks == INSTANCE Modcmd WITH Bots <- {"b1", "b2"}, Nicks <- {1, 2}, Commands <- {"c"}, Levels <- {1, 2},
              BuiltIn <- "c" :> 1, Keepbound <- {"c"}, Flags <- {}, Names <- {"x"}, Triggers <- {"t"}, Staff <- {1, 2},
              MaxBinds <- 2, ConfNicks <- {2}, DefBinds <- Default("x"),
              services <- v1, trigger <- v2, privileged <- v3, bound <- v4, offchannel <- v5, chanmsg <- v6,
              defaults <- v7, count <- v8, by <- v9

Asker(account, oper, level, helper, helping, access, on) ==
  [account |-> account, oper |-> oper, level |-> level, helper |-> helper, helping |-> helping, access |-> access, on |-> on]
Askers ==
  {Asker("none", FALSE, 0, "none", FALSE, 0, on) : on \in BOOLEAN}
  \cup {Asker("none", TRUE, 0, "none", FALSE, 0, FALSE), Asker("suspended", TRUE, 2, "none", FALSE, 2, TRUE)}
  \cup {Asker("active", FALSE, 0, "none", FALSE, access, FALSE) : access \in {0, 1, 2}}
  \cup {Asker("active", r[1], r[2], r[3], helping, access, FALSE) :
          r \in {<<TRUE, 1, "none">>, <<TRUE, 2, "none">>, <<TRUE, -1, "none">>, <<FALSE, 0, "network">>, <<FALSE, 0, "support">>},
          helping \in BOOLEAN, access \in {0, 2}}
Place(registered, suspended, protected, closed, pubcmd, toys) ==
  [registered |-> registered, suspended |-> suspended, protected |-> protected, closed |-> closed,
   pubcmd |-> pubcmd, toys |-> toys]
Places == {Place(FALSE, FALSE, FALSE, closed, 0, "p") : closed \in BOOLEAN}
          \cup {Place(TRUE, suspended, protected, FALSE, 0, "p") : suspended, protected \in BOOLEAN}
          \cup {Place(TRUE, FALSE, FALSE, TRUE, pubcmd, toys) : pubcmd \in {0, 2}, toys \in {"d", "n", "p"}}
Bound(flags, level, access) == [flags |-> flags, level |-> level, access |-> access]
BoundTo ==
  {Bound({"acceptchan"} \cup fs, 0, 0) :
     fs \in {{"chanuser"}, {"regchan", "ignore_csuspend"}, {"regchan", "never_csuspend"}, {"joinable"}, {"toy"},
             {"supporthelper", "channel"}}}
  \cup {Bound(fs, 0, 0) : fs \in {{}, {"oper", "networkhelper"}, {"disabled"}, {"authed"}}}
  \cup {Bound({"acceptchan"}, 0, 2), Bound({"acceptchan", "helping"}, 0, 1), Bound({"qualified"}, 2, 0)}
Dispatch == INSTANCE ModcmdInvoke WITH People <- Askers, Channels <- Places, Bindings <- BoundTo, Helper <- 6, Enabled <- {},
              user <- v1, channel <- v2, cmd <- v3, privileged <- v4, ran <- v5, hidden <- v6

Masks == INSTANCE Globs WITH Letters <- {"a", "b"}, MaxText <- 3, MaxMask <- 3,
           glob <- v1, text <- v2, mode <- v3, m <- v4, n <- v5, ma <- v6, na <- v7, wild <- v8, result <- v9

\* Strings with whatever is escaped or ends something, alone, in lists and in objects.
Value(type, s, list, object) == [type |-> type, qstring |-> s, list |-> list, object |-> object]
Record(n, v) == [name |-> <<n>>, value |-> v]
Strings == UNION {[1..k -> {"a", "n", "\"", "\\", "\n", "/"}] : k \in 0..2}
Written ==
  UNION {{<<Record("a", Value("string_list", <<>>, <<>>, <<>>)),
            Record("b", Value("string_list", <<>>, <<s, <<"a">>>>, <<>>))>>,
          <<Record("a", Value("object", <<>>, <<>>, <<Record("x", Value("qstring", s, <<>>, <<>>)),
                                                       Record("y", Value("object", <<>>, <<>>, <<>>))>>)),
            Record("b", Value("qstring", s, <<>>, <<>>))>>} : s \in Strings}
Files == INSTANCE Recdb WITH Databases <- Written, Comments <- {<<"/", "*", "a", "*", "/">>, <<"/", "/", "\"", "\n">>},
           db <- v1, file <- v2, state <- v3, read <- v4

-----------------------------------------------------------------------------
MCInit ==
  /\ Init
  /\ \/ part = "channel" /\ No1
     \/ part = "users" /\ Net!Init /\ No9
     \/ part = "bans" /\ BanLists!Init /\ No9
     \/ part = "dnrs" /\ Dnrs!Init /\ No5
     \/ part = "modes" /\ Rules!Init /\ No11
     \/ part = "notes" /\ NoteTypes!Init /\ No5
     \/ part = "clones" /\ Counts!Init
     \/ part = "gags" /\ Gags!Init /\ No8
     \/ part = "shut" /\ Shut!Init /\ No4
     \/ part = "scans" /\ Scanner!Init /\ No8
     \/ part = "commands" /\ ChanCmds!Init /\ No6
     \/ part = "trace" /\ Trace!Init /\ No8
     \/ part = "memos" /\ MemoLists!Init /\ No11
     \/ part = "notices" /\ Notices!Init /\ No10
     \/ part = "reread" /\ ReadBack!Init /\ No10
     \/ part = "registry" /\ Registry!Init /\ No10
     \/ part = "ranks" /\ Ranks!Init /\ No10
     \/ part = "dispatch" /\ Dispatch!Init /\ No7
     \/ part = "masks" /\ Masks!Init /\ No10
     \/ part = "files" /\ Files!Init /\ No5

MCNext ==
  /\ UNCHANGED part
  /\ \/ part = "channel" /\ Next /\ UNCHANGED From1
     \/ /\ UNCHANGED vars
        /\ \/ part = "users" /\ Net!Next /\ UNCHANGED From9
           \/ part = "bans" /\ BanLists!Next /\ UNCHANGED From9
           \/ part = "dnrs" /\ Dnrs!Next /\ UNCHANGED From5
           \/ part = "modes" /\ Rules!Next /\ UNCHANGED From11
           \/ part = "notes" /\ NoteTypes!Next /\ UNCHANGED From5
           \/ part = "clones" /\ Counts!Next
           \/ part = "gags" /\ Gags!Next /\ UNCHANGED From8
           \/ part = "shut" /\ Shut!Next /\ UNCHANGED From4
           \/ part = "scans" /\ Scanner!Next /\ UNCHANGED From8
           \/ part = "commands" /\ ChanCmds!Next /\ UNCHANGED From6
           \/ part = "trace" /\ Trace!Next /\ UNCHANGED From8
           \/ part = "memos" /\ MemoLists!Next /\ UNCHANGED From11
           \/ part = "notices" /\ Notices!Next /\ UNCHANGED From10
           \/ part = "reread" /\ ReadBack!Next /\ UNCHANGED From10
           \/ part = "registry" /\ Registry!Next /\ UNCHANGED From10
           \/ part = "ranks" /\ Ranks!Next /\ UNCHANGED From10
           \/ part = "dispatch" /\ Dispatch!Next /\ UNCHANGED From7
           \/ part = "masks" /\ Masks!Next /\ UNCHANGED From10
           \/ part = "files" /\ Files!Next /\ UNCHANGED From5

MCSpec == MCInit /\ [][MCNext]_<<part, vars, state>>

-----------------------------------------------------------------------------
\* The network's users and ours agree; services stay.  Its channels and ours are
\* those of NetChannels.
UsersAgree == TypeOK /\ (part = "users" => Net!TypeOK /\ Net!UsersNumbered /\ Net!ServicesStay /\ Net!ViewsAgree)

\* ChanServ's lists: bans, modes and notes.
ListsExact ==
  /\ part = "bans"  => BanLists!TypeOK /\ BanLists!BansExact
  /\ part = "modes" => Rules!TypeOK
  /\ part = "notes" => NoteTypes!NotesExact

\* What OpServ and the scanner count, list and guard.
OpServExact ==
  /\ part = "clones"   => Counts!ClonesExact
  /\ part = "gags"     => Gags!GagsExact
  /\ part = "shut"     => Shut!BadChannelsShut
  /\ part = "scans"    => Scanner!ScansExact
  /\ part = "commands" => ChanCmds!ChannelExact
  /\ part = "trace"    => Trace!SearchExact

\* What the other services list, run and send, and the tools compute.
ServicesExact ==
  /\ part = "memos"    => MemoLists!MemosExact
  /\ part = "notices"  => Notices!MessagesExact
  /\ part = "reread"   => ReadBack!MessagesExact
  /\ part = "registry" => Registry!ServicesExact
  /\ part = "ranks"    => Ranks!ServicesExact
  /\ part = "dispatch" => Dispatch!RanAsDocumented
  /\ part = "masks"    => Masks!GlobsExact
  /\ part = "files"    => Files!FilesExact

\* What no step does.
RulesGuarded ==
  [][/\ part = "modes"    => Rules!StepGuarded
     /\ part = "bans"     => BanLists!MergedBansKept
     /\ part = "dnrs"     => Dnrs!KeepsDnrs
     /\ part = "commands" => ChanCmds!StepFair
     /\ part = "trace"    => Trace!StepSpares
     /\ part = "memos"    => MemoLists!KeepsMemos
     /\ part = "registry" => Registry!KeepsRequirements
     /\ part = "ranks"    => Ranks!KeepsRequirements]_<<part, state>>
=============================================================================
