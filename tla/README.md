# srvx in TLA+

srvx provides the services of an IRC network: NickServ (accounts), ChanServ
(channels), OpServ (network staff), Global, and modules such as HelpServ,
MemoServ and a proxy scanner. It links to the network as a server and keeps a
copy of its state: who is connected, who is on which channel.

This directory holds TLA+ models of that program, the TLC configurations that
check them on small instances, and TLAPS proofs. Paths below are relative to the
repository's `src/` directory (`nickserv.c`, ...).

**State of the work.** NickServ, ChanServ's users and HelpServ's requests are
modelled in detail, with proofs. The rest of the services, the
network's state, and the machinery below (timers, dictionaries, G-lines, DNS,
sockets, databases, the link to the network) are modelled in smaller modules,
fourteen of them with proofs. What is left out is listed at the end, with the
reasons. 53 theorems are listed in `PROJECT.json`; twelve runs check the models,
four of them by finding what the code does against its own words.

## How the program runs

One process, one thread. `ioset_run` (`ioset.c`) waits for sockets, passes
each line from the uplink to the protocol module, and runs the timers that are
due (`timeq_run`). A handler runs to its end before the next one starts, so one
TLA+ action stands for one whole handler with everything it calls. What makes
the program hard is not preemption but

* callbacks: a login runs `auth_func` hooks of every service, a hook may kill
  the user, and the handler goes on;
* many representations of one fact: two ends of a session, two indexes of a
  nick, lists per address, per channel, per account, all with raw pointers;
* timers that hold pointers, and must be found and removed by whoever frees what
  they point to;
* lists and tables that are walked while the body of the loop removes from them;
* a network that is another machine: it goes on while a message is under way,
  splits and returns, and brings users back with stamps that may be out of date;
* restarts, which keep what is in the database and lose the rest.

## Inventory

| Component | State | Operations | Interacts with | Hard behaviour | Correct means |
|---|---|---|---|---|---|
| NickServ accounts and sessions, `nickserv.c` | `nickserv_handle_dict`, `hi->users` / `user->handle_info`, flags, levels, `curr_helpers`, stamps | REGISTER, AUTH, COOKIE, OSET, MERGE, (O)UNREGISTER, GHOST, account messages, expiry | hooks into every service; ChanServ switches the override | kills inside hooks, netsplits, re-registered names, merges | both ends of a session agree; lists exact; nobody gains rank; suspended accounts stay shut |
| NickServ nicks, `nickserv.c` | `nickserv_nick_dict`, `hi->nicks`, FLAGS_REGNICK, reclaim timers, `nickserv_allow_auth_dict` | (O)REGNICK, (O)UNREGNICK, RECLAIM, ALLOWAUTH, nick changes | users of `hash.c`, timers | stale timers and flags; merge; restart from the lists | dictionary and lists agree; permissions follow the user; squatters are dealt with |
| NickServ cookies, `nickserv.c` | `hi->cookie`, its timer, `nickserv_email_dict`, unusable password | REGISTER by mail, AUTHCOOKIE, RESETPASS, SET EMAIL, COOKIE, DELCOOKIE | mail, timers | time-out races use; address changes while a cookie is out | a cookie has a timer; it proves the present address; nobody is locked out |
| NickServ hosts, settings, search, notes | `hi->fakehost`, `hi->fakeident`, widths, flags, masks, `hi->notes` | SET, OSET, PASS, masks, SEARCH, ADDNOTE, DELNOTE | sessions, the network, saxdb | what sessions are shown with; a search that unregisters the searcher; removal during a walk | sessions agree with accounts; settings in range; nobody above is touched; live notes are kept |
| ChanServ, `chanserv.c` | `chanData` (users, bans, options, suspension chain, notes, DNRs), `userData` on two lists, timers | REGISTER, ADDUSER, CLVL, BAN, CSUSPEND, MERGE, MOVE, join/part/kick/mode handlers, expiry | NickServ hooks, `hash.c` channels, timers | timers that own bans; presence across suspension; accounts merged or unregistered; two lists merged | no dangling user or ban; owner exists; presence = membership; expiry spares channels in use |
| HelpServ, `mod-helpserv.c` | requests by id, by nick, by account and on the unhandled list; helpers per bot and per account | request on join or message, PICKUP, NEXT, REASSIGN, CLOSE, MOVE, quits, merges | NickServ hooks, channels, timers, saxdb | four indexes; persistence settings; bots that vanish | indexes agree; each open request has a helper or is unhandled; alarms run while nobody helps |
| OpServ, `opserv.c` | trusted hosts, host counts, gags, alerts, reserved nicks, bad channels | ADDTRUST, GAG, ADDALERT, RESERVE, ADDBAD, KICKALL and the like, TRACE | `hash.c` hooks, G-lines, timers | counters against membership; timers removed by time; walks that shorten their list | count = users of the host; gag lifted iff no gag matches; staff are spared |
| G-lines, `gline.c` | `gline_heap`, `gline_dict`, one timer | add, extend, remove, expire | timers | one timer for all | timer armed for the earliest; nothing outlives its lifetime |
| Network state, `hash.c` | `clients`, `channels`, `servers`, `modeNode`s on two lists | AddUser, DelUser, NickChange, AddChannelUser, DelServer | all hooks | messages that cross; older bursts; locks | membership is symmetric; empty channels go unless locked |
| P10, `proto-p10.c`, `proto-common.c` | numerics, burst state, self burst, pings | N, Q, D, B, C, J, L, M, AC, S, SQ, EB | `hash.c`, NickServ | collisions by timestamp, bursts, splits | one bearer per nick and numeric; older channel wins; a lost link is replaced |
| Timers, `timeq.c`, `heap.c` | binary heap of (time, function, data) | add, delete by mask, run | everything | deletion in the middle of the heap, callbacks that add and delete | behaves as a bag; due timers run in order |
| Containers, `dict-splay.c`, `tools.c` | splay tree threaded by a list; masks | find, insert, remove, iterate; match, cover | everything | each lookup reshapes the tree | behaves as a map; covering is covering |
| Persistence, `saxdb.c`, `recdb.c` | databases, mondo file, periodic timers | register, write, rename, read | every service | crash between writes; failing writes; quoting | the file is a complete snapshot and reads back as it was written |
| Resolver, `sar.c`; `mod-blacklist.c` | requests by id, one time-out timer, name servers | request, retry, answer, fail, abort | UDP, timers | loss, duplicates, late answers, id reuse | every request ends exactly once |
| Sockets, `ioset.c` | ring buffers | read, write, line by line | the uplink | wrapping, growing, partial writes | the stream is kept, lines are found |
| Proxy scanner, `mod-sockcheck.c` | client slots, pending list, address cache | queue, test, advance, decide | sockets, timers, G-lines | slots handed over inside a decision; time-out against answer | at most max_clients; every address decided |
| MemoServ, `mod-memoserv.c` | memos on two lists per account | SEND, READ, DELETE, expiry | NickServ hooks | rename, unregister | both lists agree |
| Dispatcher, `modcmd.c` | services, bindings, requirements, triggers | bind, unbind, dispatch | all services | rebinding; commands within commands | access is that of the whole chain |
| Global, `global.c` | messages and their timers | NOTICE, MESSAGE, REMOVE, expiry | logins, timers | restarts | everybody gets what is for them |
| Others | Bahamut, `policer.c`, mail, `mod-qserver.c`, `mod-snoop.c`, iauth, hashes, librx, tools | | | | see *Not modelled* |

The hazards the properties are for are listed in `PROJECT.json`, each at its
line, with the properties that would catch it or the reason none does.

## What is modelled: NickServ

### NickServSessions

Who is logged in to what, and everything that has to follow. The state is that
of the code, one variable per field or list: `auth` is `user->handle_info`,
`logins` the list `hi->users`, `level` `hi->opserv_level`, `flags` `hi->flags`,
`stamp` what the IRC server remembers of a connection, `gen` the registration
time of a name (which registration of it this is). Two lists are kept with their
defects: `curr_helpers` is a count per user, because the list may hold a user
twice and `userList_remove` skips the entry behind one it removes; `crashed`
becomes true where a list walk has no end.

`Authenticate(u, hi, doStamp)` is `set_user_handle_info` with its hooks and is
shared by all logins; `KilledAtAuth` is the same call when an OpServ alert kills
the user from inside. `Unregister` is `nickserv_unregister_handle` for a set of
accounts. The actions are the handlers: network (`Connect`, `Quit`, `NetSplit`,
`AccountMessage`, `LoginOnConnect`, `Join`, `Part`, `Close`), user commands,
staff commands and the passing of time (`Age`, `ExpireHandles`).

Abstracted: passwords, hostmasks and mail (a command may always be refused, so a
refusal for such a reason is the command not happening), `lastseen` (an account
is `stale` or not), the individual flags that nothing here depends on.

### NickServNicks

Registered nicks in their two places, `owner` (`nickserv_nick_dict`) and `nicks`
(`hi->nicks`), and what hangs on them: FLAGS_REGNICK, reclaim timers, requests to
the network to rename a user (`asked`), ALLOWAUTH permissions. `allow_auth` holds
besides the account whom the permission was meant for, which the code does not
keep; only properties use it. `LogIn` is the part of `set_user_handle_info` that
concerns nicks, `CheckUserNick` is `check_user_nick`, `DeleteNicks` is
`delete_nick`. Sessions are reduced to `auth`. Collisions are a `Quit` followed
by a `Connect`, which is what `AddUser` does when the earlier bearer loses.
`Restart` writes the databases, ends and reads them: of the nicks, only those on
a list come back.

### NickServCookies

Registration by mail. `cookie` is `hi->cookie` with the set of mailboxes its
parts went to (`mailed`, for the properties); `timers` are the accounts with
`nickserv_free_cookie` in the timer queue; `email_dict` is
`nickserv_email_dict`; `passwd` says whether the password can be used at all.
`Reads(u)` says whose mail a user gets: a cookie is entered by a user who has
read all its parts. Mail may be lost, because no user has to enter a cookie.

### NickHosts, NickOptions, NickSearch, NickNotes

* `NickHosts`: the fake host or title and the fake ident of each account, and
  what the network shows for its sessions (`shown`). `ApplyFakehost` runs at
  logins and in OSET TITLE, FAKEHOST and FAKEIDENT, with the lengths and clashes
  they check. `HostsAgree`: a session is shown with the host of its account,
  whatever order logins and settings come in; `outdated` names the sessions the
  code leaves alone on purpose (MERGE, RENAME) and those of accounts that ended.
* `NickOptions`: SET and OSET of widths, switches, choices, MAXLOGINS, karma,
  epithets, PASS, ADDMASK and DELMASK and their OSET forms. `SettingsAllowed` is about who
  changed what: an owner never more than a user may, staff only accounts below
  them; `WidthsSane` about the range of the widths.
* `NickSearch`: criteria are folded into ranges as in `nickserv_discrim_create`,
  then SEARCH goes along the dictionary; with UNREGISTER it may take the searcher's
  own account and asks for their access again for each account behind it.
  `SearchSpares`: only accounts that match, at most `limit`, of a rank the searcher
  may touch.
* `NickNotes`: `hi->notes` with WALK_NOTES as it is, ids, and the database on
  the way (`disk`). `wanted` has the notes that were added and not deleted, `saved`
  what it was at the last save. `NotesListed`: a note stays until it is deleted or
  expires, and until a restart its number is its own; a restart brings back what
  was wanted at the save but for `lost`, the notes that save passed over
  (WALK_NOTES) or wrote under a number written again. Without either kind in
  `LeftOut` TLC finds the property violated.

## What is modelled: ChanServ

### ChanServ

Registered channels: one record of type `ChanData` for each, for `struct
chanData` with the `userData` of its list. An entry's `access` is 0 where there is none;
`barred` are the entries with USER_SUSPENDED, `present` those with that bit.
`timers` counts the armed `chanserv_expire_suspension` of a channel, `timed` says
that the suspension in force has an expiry. `members` and `auth` are the network's and
NickServ's part. What handlers do to a record is an operator from record to
record (`Scanned` is `scan_user_presence`, `Removed` and `Collected` the two
halves of `del_channel_user`, `Lifted` is `chanserv_expire_suspension`), and the
actions put them together: what the network brings (`Join`, `Part`, `Quit`,
`Auth`), commands, NickServ's hooks (`UnregisterAccount`, `MergeAccounts`), and
time (`SuspensionExpires`, `Age`, `ExpireChannels`). `Restart` writes the
database and reads it.

Commands are given by a user or by one of `Staff`, helpers with the override on
who have no entry on the channel; "senior" ones may override protected channels
(`nodelete_level`). REGISTER is there for users as well as for staff: by default
its binding requires the override, but the code has both cases, and bindings are
configuration. MOVE is staff's only. A suspended account's entry stays in
`Listed`; `Standing` is the access `GetChannelUser` finds.

Abstracted: levels 1-500 become five; who holds ops; seen times (TRIM may take any subset
of those who are absent, MERGE may keep either of two equal entries);
`max_chan_users` and confirmation strings, where a refusal is the command not happening;
`off_channel`; the flags BOT and FROZEN.

### ChanBans, ChanDnr, ChanModes, ChanNotes

* `ChanBans`: the ban list of every registered channel, its armed `expire_ban`
  timers, the IRC bans of one channel and who is kept out. A mask is the set of the
  guises it matches, so that covering is inclusion. ADDBAN and ADDTIMEDBAN with
  what they make redundant, KICK and KICKBAN, UNBAN, TRIM, MOVE, joins and nick
  changes, expiry during suspension, `merge_bans`, restarts. `BansExact`: each ban
  that expires has exactly its timer, no timer is left without its ban, and no ban
  makes another redundant.
  `MergedBansKept`: a merge loses no ban the target has room for.
* `ChanDnr`: the three dictionaries of do-not-register entries, their lookups
  (which drop what has expired on the way), the timer, and DNRSEARCH with what it
  removes. A name is a number and the name without its first character is the number
  below it, which is all that `expire_dnrs` needs to go wrong. `KeepsDnrs`: what
  nobody ordered removes only what has expired.
* `ChanModes`: op, voice, one mode that may be locked, topics and masks; what
  ChanServ answers to a user's message in the same step; OP, DEOP, VOICE, the SET
  levels. `StepGuarded`: nobody gets or gives more than the settings grant and
  nobody is deopped against the channel's protection.
* `ChanNotes`: note types with their reference counts, notes of channels,
  CREATENOTE, REMOVENOTE, NOTE, DELNOTE, unregistration, restarts. `NotesExact`: a type lives
  exactly as long as it is referred to.

## What is modelled: HelpServ

`HelpServ` has two variables: `net`, what HelpServ sees of the network and of
NickServ, and `hs`, everything it keeps: the requests of each bot, the index by
nick and by account, the unhandled queue, the helpers and their levels, the
options, and the timer of `run_empty_interval`. A handler is a function from one
`hs` to the next, so that handlers compose as their calls do. Operations:
requests by joining and by message, PICKUP, NEXT, REASSIGN, CLOSE, ownership,
quits, parts, kicks, nick changes, logins, renames, merges, unregistrations,
changes of helpers and options, bots that come and go, restarts.
`QueuesExact` says that the four ways to a request agree,
`RequestsHaveTheirPeople` that user, account and helper of a request are those
it is filed under, `ChannelsWatched` that the alert is armed once and that
requests end with a part where the settings say so, `AlertGoesOn` that no step
lets the alert stop while somebody waits, `CloseOnlyByHelper` and
`RestartKeepsRequests` what their names say. In the run ids do not wrap (`IdWrap = 0`): when
they do, `create_request` replaces an open request (see below). The theorems hold for any
`IdWrap`. The loops over lists and dictionaries are written with recursive functions
(`Each`, what a loop's body does for each member, `Only`, the members a loop does not pass
over), which the provers can expand.

## What is modelled: OpServ, the network and the smaller services

| Module | State | Actions and what is abstracted |
|---|---|---|
| `NetUsers` | `users` by numeric, `clients` by nick, servers, burst; `theirs` the network's users, `out` what services have sent and the network has not read | N, NICK, Q, D, splits and bursts, clones; a nick may be disputed while a message is under way |
| `NetChannels` | `chan` services' channel, `net` and `far` the network's on both sides of a split, `kicked` kicks under way | J, P, K, M, C, B, locks, splits, the merge by age; one channel, one kind of ban |
| `OpClones` | `clients` is `opserv_hostinfo_dict`, `trusted` with `timers`, `alerts`, `held` local users, `reserved` | `opserv_new_user_check`, `opserv_user_cleanup`, ADDTRUST, EDITTRUST, DELTRUST, ADDALERT, RESERVE, restarts; a G-line is the address it covers |
| `OpGags` | `gags`, `gagged`, timers, nick alerts | GAG, UNGAG, TRACE GAG, expiry, connects, opers, nick changes, restarts; a mask is the set of looks it matches |
| `OpChannels` | bad words, exempt channels, channels that are shut and watched | ADDBAD, DELBAD, ADDEXEMPT, DELEXEMPT, joins, floods, OpServ's parting, restarts; a name is a set of letters |
| `OpChanCmds` | the member list of a channel, modes, bans, kicks under way | OP, DEOP, OPALL, DEOPALL, VOICEALL, DEVOICEALL, MODE, KICK, KICKBAN, FORCEKICK, KICKALL, KICKBANALL, BAN, UNBAN, CLEARBANS, CLEARMODES, JOIN, PART |
| `OpTrace` | roster, hosts, members, G-lines | TRACE with its criteria and actions, kills that shorten the lists it walks |
| `Sockcheck` | cache, pending addresses, clients in slots, their timers | queueing, connecting, tests with a second question and repetitions, time-outs, UNCACHEHOST, clean-ups, configuration |
| `MemoServ` | memos on two lists, names, the dictionary, ids | SEND, READ, DELETE, EXPIRE, the private setting, registrations, renames, ends of accounts, expiry, restarts |
| `Global` | messages with targets and expiry, what users are shown | MESSAGE, NOTICE, REMOVE, MESSAGES, expiry, connects, logins, opers, restarts, which read in the order of the texts of the numbers (`Before`) |
| `Modcmd` | services, triggers, bindings with requirements, the database | BIND, UNBIND, MODCMD, SERVICE ADD, RENAME, TRIGGER, PRIVILEGED, OFFCHANNEL, REMOVE, reloads of `srvx.conf` with the services it names, restarts with default bindings. `Gone` stands for a bot that was freed while its trigger still leads to it; `MaxBinds` bounds `bind_count` |
| `ModcmdInvoke` | a line on its way: user, channel, command, `privileged`, what ran | `svccmd_invoke_argv`, `svccmd_can_invoke`, TIMECMD, joiners, GOD, COMMAND, SHOWCOMMANDS |
| `Globs` | the indices of `match_ircglob` and of `mmatch` | one action is one round of their loops; the reference is `Means` |
| `Recdb` | a file as characters | what saxdb writes, whole, cut short or with comments put in, and what the parser reads |

## What is modelled: the machinery

| Module | Source | Note |
|---|---|---|
| `Heap`, `Timers`, `TimerBag` | `heap.c`, `timeq.c`, `ioset.c` | the queue with deletions in the middle and callbacks that add and delete; refines `TimerBag`, a bag of entries from which an earliest one is fired |
| `DictSplay`, `DictMap` | `dict-splay.c` | the splay tree with its list; refines `DictMap`, a map that frees what it replaces, with iteration by key |
| `Glines` | `gline.c` | times as numbers of `IntRange` values where the comparator cuts them; `GtraceUngline` is what GTRACE UNGLINE removes by `gline_discrim_search` |
| `Resolver` | `sar.c`, `mod-blacklist.c` | `wire` holds questions and answers that may be lost, late or repeated |
| `IoQueue` | `ioset.c` | a ring of numbered bytes; `come` and `gone` are what the properties compare |
| `Saxdb` | `saxdb.c` | one action per write(), which may take all, a part (`short`) or nothing; failures and a crash between any two; `rename()` may fail. Two ghosts name what the code reports though it is not so: `kept`, the files whose last rename failed, and `garbled`, a file with bytes from behind the buffer after a short write |
| `Uplinks` | `main-common.c`, `proto-common.c`, `proto-p10.c` | selection, handshake, pings, JUMP, reload, exit |

**Refinement.** `Timers!RefinesTimerBag` maps the heap to the bag of its
elements (`ToBag(data)`), `DictSplay!RefinesMap` the tree to the map of what it
contains (`map <- Contents`); `infra` checks both as properties. The modules
about services use timers as sets or bags and dictionaries as functions, which
is what the two abstract specifications promise.

**Composition.** The `MC` modules hold several parts, each an instance of a
module with variables of its own (in `MCServices` with variables lent from one
set, except those of `NetChannels`, which it extends: `SameChannel` is that
module's own); a behaviour is about the part it begins in. Components that call each
other are composed inside the modules: hooks of NickServ are actions of
`ChanServ`, `HelpServ` and `MemoServ`, the network is a second party in
`NetUsers`, `NetChannels` and `Resolver`, files outlive the program in `Saxdb`.

**The map.** `PROJECT.json` names for each definition the lines it translates. A
helper that one or two operations use, and whose code lies among that
operation's lines, is mapped with it.

## What the runs check

| Run | Parts and bounds | Checks |
|---|---|---|
| `sessions` | `MCNickServSessions`, three parts of 2 users and 2 accounts: `logins` with levels 0-2, every command and kills by alerts; `helpers` with helper flags, GOD and a support channel; `stamps` with 2 registrations of a name, splits and expiry | `SessionsExact`, `OverridesKnown` (types, and `SupportOverrideInChannel` where channels are parted), `SessionsKnown` (`curr_helpers` and stamps stay right in every step but those that hand sessions over or log a stamped connection in elsewhere), `NoSelfPromotion`, `OverrideNotInherited`, `SuspendedLockout`, `AbandonedExpires` |
| `nick_lists` | 2 users, 2 accounts, 3 nicks of which 2 can be registered | `NickListsExact`, `NickRightsHonest`, `WatchNotLost`, `SquatterReclaimed` |
| `cook_mail` | `MCNickServCookies`: `cookies` with 2 users, 2 accounts, 3 addresses, 2 accounts per address; `hosts`, `settings`, `search` (3 accounts), `notes` (3 ids) | `EmailDictExact`, `CookiesSound`, `NotLockedOut`, `CookieLoginProved`, `CookieFreesSlot`, and `AccountsKept` for the four smaller parts |
| `chan_users` | 1 channel, 2 users, 2 accounts, 3 levels to give, both kinds of staff | `UsersExact`, `RankRespected`, `OwnerRemains`, `DesertedExpires` |
| `chan_pairs` | 2 channels, 1 user, 2 accounts, suspensions, MOVE and MERGE | `UsersExact` |
| `help_requests` | `MCHelpServ`: 1 bot, 2 users, 2 nicks, 2 accounts, 2 requests in `filing` (everything that moves requests between lists) and `queue` (staff that comes and goes) | `QueuesExact`, `RequestsHaveTheirPeople`, `ChannelsWatched`, `RestartKeepsRequests`, `CloseOnlyByHelper`, `AlertGoesOn` |
| `infra` | `MCInfra`: `timers` (6 timers, 2 functions), `dict` (4 keys, 5 insertions), `glines` (2 targets), `resolver` (2 ids, 3 hosts, 2 retries), `queue` (rings of 4 bytes and more), `saxdb` (1 database and 2 sections), `link` (2 uplinks, 2 tries each) | `RefinesTimerBag`, `RefinesMap`, `TimersServeAll` (G-lines and lookups: `AnsweredOnce`, `TimerCovers` in every state, `LapsesIdle` in every step), `LinesKept`, `WritesKept`, `LinkKept` |
| `services` | `MCServices`: 20 parts, with the values given there; the registry twice, with two triggers and staff of one level (`registry`), and with staff of two levels and one trigger (`ranks`); Global twice, with two users (`notices`), and with four messages in base 3, where the text of 3 comes before that of 2 (`reread`) | `UsersAgree` (`users`), `SameChannel` (`channel`), `ListsExact` (`bans`, `modes`, `notes`), `OpServExact` (`clones`, `gags`, `shut`, `scans`, `commands`, `trace`), `ServicesExact` (`memos`, `notices`, `reread`, `registry`, `ranks`, `dispatch`, `masks`, `files`), `RulesGuarded` (what no step of `modes`, `bans`, `dnrs`, `commands`, `trace`, `memos`, `registry`, `ranks` does) |
| `sess_v_overrun`, `link_v_jump`, `net_v_quit`, `dnr_v_expire` | the fewest commands that show it | a statement of a comment or help text that the code breaks |

Why these bounds. Every property relates at most two accounts (a merge, a
switch, a promotion) and two connections (a session and the one that takes its
account, nick or permission), so two of each exhibit every pattern; a third
would only repeat one of the two. Two registrations of a name are needed for a
stamp to be out of date. Two nicks can change owner while a third, which nobody
can register, is where a renamed user goes. Three addresses let one user read two
of them, so that a cookie split between the old and the new address can be
completed, and lets the third be somebody else's. Levels 0-2 give a staff member
who outranks another. `MaxEntries` bounds repeated entries in `curr_helpers`,
`MaxGen` how often a name is registered. Presence is about two sessions of one
account on one channel, hence two users in `chan_users`; no command but MOVE,
MERGE and the ownership limit relates two channels, and they look at whole
records, so `chan_pairs` has two channels with one user. An owner can keep a
deserted channel for ever by merging fresh registrations into it, which is why
`DesertedExpires` is checked on one channel.

In the machinery the bounds are chosen for the case that is hard: six timers make
a heap of three levels, so that a removal in the middle can have to sift up as
well as down; four keys make splay trees with zig-zig and zig-zag on either
side; a ring that starts with four bytes wraps and grows within eleven; two
retries and two ids let a late answer meet the next use of its id. In `services`,
three users of one address exceed a limit of two; two masks make one redundant;
three letters of text and mask reach every branch of the matcher. Times are
few because they are only compared with each other.

Symmetry is used where no liveness is checked and nothing tells the members
apart: accounts and channels in `chan_pairs`, users, nicks and accounts in
`help_requests`.

Deadlock. `sessions`, `infra`, `services` and the violation runs do not check for
it: after a crash nothing runs, the machines of the machinery end when their
clocks or their input do, and an uplink that is given up ends the program. The
other runs do; in `cook_mail` the search may unregister everybody, and then
stutters.

Each property has a mutant: a plausible slip in the code (defined next to the
definition it replaces and marked *Mutant*) under which TLC finds the property
violated in that run.

**What is kept out by name.** Where the code has a fault that a property would
only report again and again, the module admits it under a name, and the runs and
proofs leave the name out: that the property holds without it is the result.
The names that are parts of a state (`kept` and `garbled`, `Lapsed`, `lost`) are
never left out: those faults are in every run, and the
properties say what remains true beside them.

| Name | In | What it lets happen |
|---|---|---|
| "MERGE INTO EMPTY" | `NickServNicks` | MERGE into an account without nicks leaves the nicks on no list (`nickserv.c:3162`, against the comment above it) |
| "SWITCH" | `NickServNicks`, `ChanServ` | a logged-in user logs in to another account; FLAGS_REGNICK and the old account's presence stay |
| "UNSEEN" | `ChanServ` | GIVEOWNERSHIP FORCE or NickServ's MERGE gives an entry to an account that is on the channel, without `scan_user_presence` |
| "LOST", "MISTIMED" | `ChanBans` | `merge_bans` leaves source bans on no list when the target has no room or none; takes 0 (never) for the earliest expiry and moves no timers |
| "AGED", "RECREATED" | `NetChannels` | `wipeout_channel` leaves op and voice of ordinary members when an older burst arrives; a channel services keep by a lock alone keeps its old age |
| `CollidersMove` | `NetUsers` | a party to a collision leaves, renames or is replaced before it is settled (`net_v_quit`); a clone's numeric is handed out anew while its last user's NICK is under way (`get_local_numeric`, `proto-p10.c:2038`) |
| "STALE" | `Sockcheck` | the clean-up forgets addresses that are being scanned or wait |
| "NAMED" | `ModcmdInvoke` | with TIMECMD or a joiner set to accept a channel, a line may name one the user is not on |
| `kept`, `garbled` | `Saxdb` | a file whose rename failed counts as written (`saxdb.c:162`); a short write is taken up again past the end of the buffer (`saxdb.c:206`). Both happen in the run; the properties promise nothing of such a file until it is written again |
| `Lapsed` | `Resolver` | `next_sar_timeout` keeps its value when the timer is not armed again (`sar.c:294`): no later request times out. It happens in the run; `LapsesIdle` says when it may |
| `lost` | `NickNotes` | what a save passes over or writes under a number written again |
| `IdWrap` > 0 | `HelpServ` | ids are reused and may meet an open request |

## Fairness and liveness

Fairness is assumed of timers and of the loop that runs them, never of users,
staff or the network. `ioset_run` runs all timers that are due before it waits
again, so a timer that stays armed fires. Where one specification has several
parts the condition is about the part that runs.

* `WF(ExpireHandles)` (re-armed at `nickserv.c:3903`): `AbandonedExpires`, an
  account nobody uses or protects is unregistered, or used again.
* `WF(TimerFires(u, n))` (a nick change re-arms it for the new nick, hence one
  condition for each): `SquatterReclaimed`, an armed timer ends in a rename
  request, another nick, or a squatter no more.
* `WF(CookieExpires(h))`: `CookieFreesSlot`, no cookie blocks its account for ever.
* `WF(ExpireChannels)` (re-armed at `chanserv.c:1396`), `WF(Age(c))` (time
  passes): `DesertedExpires`, a channel that is unprotected and where nobody
  with the access that keeps it is logged in is unregistered, or found by
  somebody: no present bit is left behind that would keep it for ever.
* `WF(Wake)`, `WF(TimeqRun)`, `WF(TimeqRunEnds)` in `Timers` (the loop itself):
  the fairness of `TimerBag` is part of what the refinement shows.
* `WF(GlineExpire)`: `OutlivedDropped`, a G-line past its lifetime leaves the
  dictionary.
* `WF(UplinkConnect)` (`ioset_run` calls it as long as there is no uplink):
  `ReconnectsUnstranded`, a lost connection is replaced or services exit, as long
  as no record was left behind by JUMP (`link_v_jump` shows what happens then).

## What is proved

TLAPS checks, for every value of the constants that satisfies the modules'
assumptions (`SessionsAssumption`, `NicksAssumption`, `CookiesAssumption`,
`ChanServAssumption`: the bounds are numbers, the levels given are between 1
and the owner's, NULL is none of the names, helpers are not users) or the
hypothesis of the theorem:

* `NickServSessions_proofs`: `TypeCorrect`, `SessionsAgree` (both ends of every
  session agree), and on top of them seven theorems about staff and stamps.
  `TypeOK /\ SessionsExact` is inductive. The work is in
  `Authenticate`: the session of the user who logs in is the only one whose ends
  change, on both ways out of the hooks; the crash leaves everything as it was.
  `SessionsExact` includes that an account with sessions is registered: without
  it, an account that is registered anew could find old sessions.
  `NobodyPromotesThemselves` needs no more than the types. `SessionsStayKnown`
  holds whatever is bound: an exact `curr_helpers` goes wrong only in a step that
  hands the sessions of a dissolved account over (`HandedOver`: MERGE), agreement
  about stamps only in one that logs a stamped connection in to another account
  (`Relogged`). With "MERGE" not in
  `Bound`: `HelperListCorrect` (`HelperListExact` is inductive with that
  invariant, because an exact list holds each session once, so that
  `userList_remove`, which skips entries, cannot miss it; kills on login
  included), `SuspendedStayOut` and `OverridesNotInherited` (both from what
  `Enters` says of every login, with the invariant `NoGhostLevel`: a name that is
  not registered has no level). The hypothesis is needed: `cmd_merge` moves
  sessions without touching curr_helpers and without a look at the target's
  suspension or override. With "COOKIE" and "OREGISTER" not in `Bound` either:
  `StampsCorrect`, since only those log a connection in that bears another
  account's stamp. `OverridesEndWithPresence` (a support helper has the override only
  while one of their sessions is on a support channel) assumes
  `OverridesOnlyOnChannels`: GOD gives the override anywhere, a support channel that is
  closed is not parted (CSUSPEND), and COOKIE, OREGISTER and MERGE move a session
  that stays on its channel.
* `NickServNicks` (its theorems in the module itself): `NicksTypeCorrect`, `ListsExact`, `FlagIsHonest`,
  `PermissionFollows`, their conjunction `RightsAreHonest`, `UnregnickFinds`
  (delete_nick finds what it looks for) and the action property
  `SquattersWatched`. They assume `Tame`: "MERGE INTO EMPTY" and "SWITCH" are not
  in `Bound`. `SquattersWatched` assumes besides that the timer renames or kills,
  after a delay. The inductive invariant `Inv` joins the four invariants with
  `SessionsRegistered` (UNREGISTER and MERGE may only take what is registered),
  `RegnickOnline` and `OneBearer`: permissions are kept by nick, so that they
  follow the user depends on a nick having one bearer.
* `NickServCookies` (with its theorems in the module itself): `EmailDictCorrect`, `TimersCorrect`,
  `CookiesFollowAddress` and their conjunction `CookiesAreSound`,
  `NobodyLockedOut`, and the action properties `CookiesNotReplaced` and
  `CookieLoginsProved` (COOKIE is the only step that ends a cookie and logs
  somebody in to its account, and the cookie went to the present address). The inductive
  invariant `Inv` joins them, the type invariant, and `SessionsRegistered`,
  which is needed because a logged-in user may ask for a cookie for their account,
  and a cookie of an unregistered account would be one that no timer's account
  owns. Each action has a lemma that says what it does to lists, timers and cookies.
* `ChanServ_proofs`: `ChanServTypeCorrect`, `PresenceCorrect`,
  `SuspensionsTimed`, their conjunction `UsersAreExact`, and the action
  properties `RankIsRespected` and `OwnersRemain`. They assume `Tame`: "SWITCH"
  and "UNSEEN" are not in `Bound`. The inductive invariant says for each channel
  by itself (`Good`) that presence and timer are right, that what expires is in
  force, that only listed users are suspended (UNSUSPEND looks up an entry that
  must be there) and that a name that is not registered lists nobody. One lemma
  for each operator from record to record says that it keeps `Good`, with the
  accounts on the channel after the step; the lemmas about the steps put these
  together. For rank and ownership, each kind of change (a level, a removal, a
  suspension, a handover, a merge) has a lemma about one channel, an account and
  the user's standing. Four smaller machines follow, each in a section of its own.
  * `BansAreExact` and the action property `MergeKeepsBans` (`ChanBans`): timers and
    bans correspond one to one, and covering, which is inclusion here, is
    transitive, so that a ban that goes because of a wider one leaves the list closed.
    Assumes `BansTame`: neither "LOST" nor "MISTIMED".
  * `NotesAreExact` (`ChanNotes`): the references of a type are one and the number of
    channels that hold a note of it, by adding and removing one channel at a time.
  * `ModesAreGuarded` (`ChanModes`): the action property `StepGuarded`, for any users,
    levels, settings and topics, of a channel that begins with `give_voice` at most
    `give_ops`. Each kind of mode change (what somebody sent on IRC, what a command
    does) has a lemma about the members it leaves with op and voice.
  * `DnrsStay` (`ChanDnr`): if no name is another one without its first character
    (`Unclipped`), no step but a removal by staff takes away an entry that is in force.
    The hypothesis is needed: `dnr_v_expire` drops it and TLC finds the entry that
    goes. The invariant `Kinds` says which dictionary each kind of name is in.
* `NickHosts`: `HostsAreRight`. `HostsAgree` for every number of users, accounts
  and hosts (`Sentinel`: NULL is no account). The invariant adds that sessions
  are of known accounts.
* `OpClones`: `ClonesAreExact`. Whatever the order of arrivals, bans on arrival,
  departures, changes of trust and restarts, `opserv_hostinfo_dict` lists those
  who are online by address, each trusted address that expires has its one timer,
  and reserved nicks are held. The list is written as an operator `Lists` of who is
  online; two lemmas say how it changes when somebody comes and goes. The
  inductive invariant adds that only those online were banned on arrival: whom
  the code forgot to uncount could not be told from them.

* `HelpServ_proofs`: `QueuesStayExact`, `RequestsStayWithTheirPeople` and
  `RestartsKeepRequests`, for any finite set of bots, any users, accounts, options and
  any reuse of ids, and no hypothesis but `HelpServAssumption`. The
  inductive invariant is `NetOk(net) /\ Kept(net, hs)`. `NetOk`: a nick has one bearer, a
  name one account, who is logged in is connected and the account is registered.
  `Kept` has three parts. `Filed`: the tables are as they should be, every list holds the
  members it should, each once, so that `RemoveFirst` cannot leave a second one behind, and
  the queue is in order; every request has a connected user or a registered account, without
  which nothing would ever find it. `Followed`: requests of the connected belong to their
  account. `Staffed`: helpers are on the staff of the bot. They are kept apart because a
  handler may break one while it keeps another, in the middle of a login or of an
  unregistration (`Half`), or while a restart has read some bots only. Every loop is an instance of `LoopRuns`: what is true after i of its
  members, and that one more keeps it, with induction over 0..n from the well-foundedness of
  numbers (`Induct`). Each handler has a lemma about the two states it goes
  between, and the actions put the handlers together. `RestartsKeepRequests` reads the
  file `Written` makes of any state that fulfils the invariant: every request kept
  comes back once, in the order of ids, to the helper it had.
* `Services_proofs`: one section for each of eight smaller modules.
  * `ViewsOfChannelAgree` (`NetChannels`): services and the network agree about a channel
    whenever they are linked and no burst is on, for any users, leaf, bans and times.
    `ChanInv` has a relation of the two views for each state of the link: `Aparted`
    (no link: services' copy has no users but services, the network's no
    services), `Pending` (services' burst is to come: the network's channel is the younger
    one, and services know its members), `Agree`. Assumes `ChannelTame`: neither "AGED"
    nor "RECREATED".
  * `GagsAreExact` (`OpGags`): whoever is gagged is covered by a gag, also after they
    changed their looks (`LooksTold`: the nick alert is told of each).
  * `BadChannelsAreShut` (`OpChannels`): `Watched` says of one channel, under given words
    and exemptions, what the commands, joins and timers keep; each is shown for
    one channel and put together.
  * `RegistryIsExact` and the action property `RequirementsAreKept` (`Modcmd`): who is no
    service has no bindings, no bot is two services, and a command is bound at most as
    often as `bind_count` says, never exactly, because the code does not count down.
  * `FilesAreWhole` and `WritesSurvive` (`Saxdb`): each file has the whole of one write,
    whatever `write()`, the writer and `rename()` do; it is no older than what was
    reported saved unless `rename()` failed in that very report; and the next start
    reads what was reported but for such a file and for one a short write has spoilt.
    `Reported` is the invariant, file by file: a failed rename takes its file out, the
    next one that works brings it back.
  * `LinkIsSound` (`Uplinks`): the connected record is the current one, and services give
    up only for their two reasons. The work is in `SelectIs`, what `uplink_select` does
    with a link state: it looks at every uplink once, and `FoundInTime`, that it finds
    one before it has gone round. The invariant adds that an uplink in use or still
    to be tried has attempts left.
  * `ServicesKeepTheirNicks`, `UsersAreNumbered`, `ViewsOfUsersAgree` (`NetUsers`): no
    service loses its nick, what a nick finds bears it, `invis_clients` is the number of
    those with +i, and when nothing is under way services and the network know the same
    users. Each function of `hash.c` and `proto-p10.c` is a lemma about the view it is
    given and the view it returns. The invariant of the last one, `NetViews`, is about
    every state in between: for each user, what services know, what the network knows and
    the NICK, QUIT and KILL messages on their way agree (`ServiceWay`, `RemoteWay`,
    `CloneWay`), two clones that use one nick after the other have their messages in that
    order (`PairWay`), and a nick has one bearer on the network. Assumes `NetTame`: the
    three kinds of numerics are apart and not `CollidersMove`, without which a service
    does lose its nick.
  * `WhatRanWasAllowed` (`ModcmdInvoke`): `RanAsDocumented`, for any people, bindings and
    requirements, with "NAMED" not in `Enabled`. The invariant adds that what is
    hidden could not be run; `EffectiveFlags` says which requirements imply which.

Proving changed some models. `NetChannels` had guards that hid cases (`Waits` names what
is left of them); `UsersNumbered` failed in `NetUsers` with a second clone, which led to
the reuse of numerics (see below); an implication in `Modcmd`'s `ServicesExact` was misplaced
and three of its guards restricted what the code does not.

Only model-checked:

* the liveness properties (TLAPS has no ENABLED) and the
  refinements, whose modules use recursive operators, as do `Heap`, `Glines`,
  `Resolver`, `IoQueue`, `Globs`, `Recdb` and `OpChanCmds` (the provers cannot expand
  these); the composites `MCServices` and `MCInfra` reach some of them, so their
  invariants are proved part by part, about the modules that are their parts;
* of HelpServ, `ChannelsWatched` and the action property `CloseOnlyByHelper`; of `MemoServ`
  and `Global` everything: they select from sequences, which is an induction over data
  that would need lemmas such as those of `HelpServ_proofs`;
* what no step does in `OpTrace`, `NickOptions` and
  `NickSearch`, and `Sockcheck`, `NickNotes`.

## Where code and words differ

* `sess_v_overrun`: an auth alert that kills, when the account has another
  session, makes `set_user_handle_info` run off the session list; the comment
  allows for an empty list only.
* `link_v_jump`: after JUMP the record of the uplink that was left stays
  CONNECTED, and when it is selected again `uplink_connect` refuses it for ever.
* `net_v_quit`: the quit of a user who lost a collision with a service at
  introduction is attributed by nick, and deletes the service.
* `dnr_v_expire`: `expire_dnrs` removes the entry of the name without its first
  character.

Noted while reading, without a run of its own:

*NickServ.* COOKIE lets in users who bear a stamp but are not logged in
(`nickserv.c:2021`, against the comment at 1698). The reclaim timer is not
cancelled when the user registers the nick, so that its owner is renamed or
killed by it (4136, against the message at 298). "One un-activated handle per
address" (`docs/cookies.txt`) holds until the cookie times out (1245). COOKIE and
account stamps do not look at MAXLOGINS; SET EMAIL and OSET EMAIL do not look at
`accounts_per_email`; PASS does not cancel a RESETPASS cookie. WALK_NOTES passes
over the note behind an expired first one, which NOTES then does not show and the
database does not keep; after a restart notes are in text order of their ids, so that the
next id may be taken. `opt_title` checks the length with the setter's own account
name (2649); `opt_tablewidth` compares `screen_width` with the limit (2376), so table
widths are never capped; `maxlogins` is cut to a byte before the comparison; sessions of
an unregistered account keep its fake host. SEARCH goes on after a malformed
criterion or a flag the searcher may not use (3319), UNREGISTER included, and
takes accounts of equal level and NODELETE ones.

*ChanServ.* GIVEOWNERSHIP on a channel without an owner uses a null pointer, and with
FORCE adds a second entry for a suspended account. MOVE tests `mn->modes &&
MODE_CHANOP`. DELUSER lets a helper with the override pass where CLVL asks for
`nodelete_level`; DELUSER and TRIM may unregister the channel in their loop and
then name it in the reply. ADDBAN by nick checks the protection of that user only;
converted `old_ban_names` can give two equal masks; the bounce loop of `handle_mode`
reads past the arguments it allocated; CREATENOTE that fails on a later argument
has already changed an existing type; MERGE drops the source's notes.

*HelpServ.* When ids wrap, `create_request` may replace an open request (879,
against `mod-helpserv.help`). The EMPTYINTERVAL alert is not started again after
CLVL, DELUSER, REQONJOIN or a request's return to the queue.
`handle_nickserv_unreg` uses `req->handle` after clearing it (4443);
`request_read_helper` frees a request it has appended (3568);
`smart_get_request` compares with the wrong variable (857); HelpServ's quit
handler runs before NickServ's.

*OpServ, G-lines, scanner.* Ungagging one mask ungags users another gag still
covers. `opserv_join_check` uses a user a channel alert has killed. TRACE KILL of
opers that takes the caller goes on with the caller's cleared account; help says TRACE spares opers at the
caller's level, the code only those above (`opserv.c:3371`). KICKALL's temporary
join does not op OpServ (1074), so that the kicks come from the server, against
the comment at 1070. DELBAD and ADDEXEMPT leave emptied channels in `channels`. The
comparator of G-lines cuts differences to `int`; a G-line set again in the second
of its UNGLINE stays expired; an expired one that is remembered is still found. The
`lifetime` criterion of GTRACE counts back from now, while lifetimes lie ahead; `mask exact` with an
alternate target matches everything but the alternate (`gline.c:425`). DNRSEARCH's
"expires >X" misses entries that never expire, whose expiry is 0, and finds expired ones.
New scanner clients start in slot `sockcheck_num_clients` even if it is taken;
with no tests the count grows without a client.

*Network and link.* `get_local_numeric` hands a freed numeric out at once, so that the KILL or
QUIT of the clone that had it hits the next one (`proto-p10.c:2038`). A user numbered into a slot that is taken replaces who was
there; a join callback that kills the first burst member
may free the channel `cmd_burst` still uses; repeated +i counts a user twice in
`invis_clients`; `cmd_gline` tests `argc > 5` but takes `argv[4]`. Ping timers of
lost connections are not deleted; `irc_squit` uses the record of an uplink that
`uplink_compile` may have freed.

*Machinery.* `next_sar_timeout` keeps its value after the timer has fired with
nothing left, so that later requests do not time out (`sar.c:294`, against
"timeout" in `srvx.conf.example`); answers are matched by id alone; an IPv6 name of the wrong length
trips an assertion; a request whose socket cannot be opened is freed and written to. A request
that `sar_timeout_cb` sends again is not looked at for the next time-out. `saxdb_write_db`
flushes without end on a full disk; a failed rename is reported as "Wrote" and sets
`last_write` (`saxdb.c:162`); after a short write `saxdb_flush` asks for the whole length
of the buffer again, from behind what was taken (206), and the file is renamed into place
with what lies behind the buffer; sections of modules that
are not loaded are dropped from the mondo file; numbers of more than 15 digits
are cut; comments that end in `**/` do not end (`recdb.c:345`). A line that
is too long loses a byte per piece; `ioset_close` with an empty line reads before
its buffer. A mask with an escaped star behind a star backtracks to it as a wildcard.

*Other services.* `bind_count` is never decremented, so the last binding of a
KEEPBOUND command can be removed (`modcmd.c:944`, `modcmd.help:46`); SERVICE TRIGGER with
another's trigger unregisters the old one but keeps it; SERVICE REMOVE leaves
the channel function of the freed bot, and SERVICE RENAME onto the nick of another service
frees that one; a service of `srvx.conf` that was removed is back without commands at a
reload, with the default ones at a restart; bindings equal to a default that was
changed at run time are not saved. Memos and notices are in text order of their
ids after a restart, and a notice lasts its whole duration again.

## Not modelled

* *Bahamut* (`proto-bahamut.c`): an alternative to P10 chosen at build time, whose
  handlers mirror those of `proto-p10.c`.
* *Mail* (`mail*.c`): sending is I/O that nothing waits for, and the SMTP client is
  unfinished (it never sends the body, `smtp_handle_rset` asserts what
  `discard_mail` has cleared).
* *Rate limits* (`policer.c`): one function over doubles.
* *`mod-qserver.c`, `mod-snoop.c`, iauth*: reports and queries over sockets. The
  logins iauth asks for are in `NickServSessions`.
* *Parsing and layout*: configuration, option parsing, help, listings,
  `SEARCHNOTES`, `CSEARCH`, statistics. They read and print.
* *Of modelled components*: MAXLOGINS and masks at logins; ChanServ's dynamic
  limits, greetings, off-channel operation and GIVEOWNERSHIP's delay; HelpServ's MOVE,
  page targets and statistics; OpServ's routing and user-defined levels; alias
  arguments and templates of the dispatcher, `aliases.db` and the triggers in `srvx.conf`; `sar_getaddr` and `sar_getname`, which
  nothing calls; the socket engines.
* *Hashes, librx, tools*: pure functions, vendored code, and programs that are not
  part of the services.

## What is left

In the order of what it would add: the action properties of `OpTrace`,
`NickOptions` and `NickSearch` as theorems; the refinements of the timer queue and the
dictionary with recursive functions in place of recursive operators, so that
their steps can be proved; ChanServ's dynamic limits and HelpServ's MOVE; a
composition of `NetUsers` with `NickServSessions`, where a collision ends a session
while its stamp is under way.
