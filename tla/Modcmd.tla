--------------------------------- MODULE Modcmd --------------------------------
(***************************************************************************)
(* The services, the commands bound to them with their requirements, and   *)
(* the triggers that call them in channels; what the database keeps of     *)
(* these.  A bot is known by its allocation and found by its nick.  Of the *)
(* requirements there are the oper level and the flags that a binding has  *)
(* of its own.  What an aliases.db of old adds to a first start is left    *)
(* out, and the services of srvx.conf have no trigger there.               *)
(* Source: src/modcmd.c, with the table of triggers of src/proto-common.c. *)
(***************************************************************************)
EXTENDS Integers, FiniteSets

CONSTANTS
  Bots, Nicks,
  Commands,   \* the commands of the modules
  Levels, BuiltIn, \* oper levels; those of the commands
  Keepbound,  \* the commands with MODCMD_KEEP_BOUND
  Flags, Names, Triggers,
  Staff,      \* the levels of those who give commands
  ConfNicks, DefBinds, \* the services of srvx.conf; what is bound to them by default
  MaxBinds,   \* bound: how often a command is bound between two starts
  NULL

VARIABLES
  services, \* the bot of each nick, or NULL
  trigger, privileged, \* of each bot
  bound,    \* the bindings of each bot: by name, or NULL
  offchannel,    \* offchannel_allowed
  chanmsg,  \* chanmsg_funcs: the bot of each trigger, Gone, or NULL
  defaults, \* the level and flags of each command
  count,    \* its bind_count
  by        \* history: the level of who gave the last command

vars == <<services, trigger, privileged, bound, offchannel, chanmsg, defaults, count, by>>
registry == <<services, trigger, privileged, offchannel, chanmsg>>
bindings == <<bound, defaults, count>>

Rules   == [level : Levels, flags : SUBSET Flags]
Nothing == [n \in Names |-> NULL]
There   == {services[n] : n \in {n \in Nicks : services[n] # NULL}}
BoundTo(bs, c) == {p \in bs \X Names : bound[p[1]][p[2]] # NULL /\ bound[p[1]][p[2]].cmd = c}

\* modcmd_load_bots: the services of srvx.conf that are not there become some.
Missing == {n \in ConfNicks : services[n] = NULL}
Back(to) == [n \in Nicks |-> IF n \in Missing THEN to[n] ELSE services[n]]
Fresh   == {to \in [Missing -> Bots \ There] : \A n, m \in Missing : to[n] = to[m] => n = m}

\* create_default_binds, for those whose commands are none.
WithDefaults(bs, cmds) ==
  [b \in Bots |-> IF b \in bs /\ cmds[b] = Nothing THEN DefBinds ELSE cmds[b]]

\* The first start.
Init ==
  /\ \E to \in [ConfNicks -> Bots] :
       /\ \A n, m \in ConfNicks : to[n] = to[m] => n = m
       /\ services = [n \in Nicks |-> IF n \in ConfNicks THEN to[n] ELSE NULL]
  /\ trigger = [b \in Bots |-> NULL] /\ privileged = {}
  /\ bound = WithDefaults(There, [b \in Bots |-> Nothing])
  /\ offchannel = {} /\ chanmsg = [t \in Triggers |-> NULL]
  /\ defaults = [c \in Commands |-> [level |-> BuiltIn[c], flags |-> {}]]
  /\ count = [c \in Commands |-> Cardinality(BoundTo(Bots, c))] /\ by = 0

-----------------------------------------------------------------------------
\* svccmd_resolve_name: the rules of a module's command or of a binding.
Templates(s) ==
  {[cmd |-> c, alias |-> FALSE, rules |-> defaults[c]] : c \in Commands}
  \cup ({bound[b][n] : b \in There, n \in Names} \ {NULL})

\* cmd_bind, svccmd_insert; the new binding gets the rules of its template.
Bind(s, b, n, t, alias) ==
  /\ b \in There /\ bound[b][n] = NULL /\ ~t.alias /\ count[t.cmd] < MaxBinds
  /\ bound' = [bound EXCEPT ![b][n] = [t EXCEPT !.alias = alias]]
  /\ count' = [count EXCEPT ![t.cmd] = @ + 1] /\ by' = s /\ UNCHANGED <<registry, defaults>>

\* cmd_unbind: nothing is counted down.
Unbind(s, b, n) ==
  /\ b \in There /\ (bound[b][n] # NULL => bound[b][n].cmd \notin Keepbound \/ count[bound[b][n].cmd] # 1)
  /\ bound' = [bound EXCEPT ![b][n] = NULL] /\ by' = s /\ UNCHANGED <<registry, defaults, count>>

\* svccmd_configure, for a level.
MaySet(s, old, new) == old <= s /\ new <= s

\* MODCMD, on a binding or on the command itself.
Configured(s, r, new) == r.level # new.level => MaySet(s, r.level, new.level)
ModcmdBound(s, b, n, new) ==
  /\ b \in There /\ bound[b][n] # NULL /\ Configured(s, bound[b][n].rules, new)
  /\ bound' = [bound EXCEPT ![b][n].rules = new]
  /\ by' = s /\ UNCHANGED <<registry, defaults, count>>
ModcmdDefault(s, c, new) ==
  /\ Configured(s, defaults[c], new) /\ defaults' = [defaults EXCEPT ![c] = new]
  /\ by' = s /\ UNCHANGED <<registry, bound, count>>

-----------------------------------------------------------------------------
\* SERVICE ADD, RENAME and REMOVE; modcmd_nick_change.
ServiceAdd(s, b, n) ==
  /\ services[n] = NULL /\ b \notin There /\ services' = [services EXCEPT ![n] = b]
  /\ trigger' = [trigger EXCEPT ![b] = NULL] /\ privileged' = privileged \ {b}
  /\ bound' = [bound EXCEPT ![b] = Nothing] /\ by' = s
  /\ UNCHANGED <<offchannel, chanmsg, defaults, count>>

\* A service ends with its bindings, not with its trigger: this goes on to lead to
\* the bot, which is freed, or is another's by its nick.
Gone == "gone"
End(b) ==
  /\ bound' = [bound EXCEPT ![b] = Nothing]
  /\ chanmsg' = [t \in Triggers |-> IF chanmsg[t] = b THEN Gone ELSE chanmsg[t]]

\* Nobody looks whether there is a service of the new nick, which ends then.
ServiceRename(s, n, to) ==
  /\ services[n] # NULL /\ services' = [services EXCEPT ![n] = NULL, ![to] = services[n]] /\ by' = s
  /\ IF services[to] \in {services[n], NULL} THEN UNCHANGED <<bound, chanmsg>> ELSE End(services[to])
  /\ UNCHANGED <<trigger, privileged, offchannel, defaults, count>>
ServiceRemove(s, n) ==
  /\ services[n] # NULL /\ services' = [services EXCEPT ![n] = NULL] /\ End(services[n]) /\ by' = s
  /\ UNCHANGED <<trigger, privileged, offchannel, defaults, count>>
ServicePrivileged(s, b, on) ==
  /\ b \in There /\ privileged' = (IF on THEN privileged \cup {b} ELSE privileged \ {b}) /\ by' = s
  /\ UNCHANGED <<services, trigger, offchannel, chanmsg, bindings>>

\* SERVICE TRIGGER.  The old trigger is free from here on, even if the new one is
\* another's.
Freed(b)  == IF trigger[b] = NULL THEN chanmsg ELSE [chanmsg EXCEPT ![trigger[b]] = NULL]
SilentIn(b) == offchannel \ {trigger[b]}
ServiceTrigger(s, b, t) ==
  /\ b \in There /\ by' = s /\ UNCHANGED <<services, privileged, bindings>>
  /\ IF t = NULL THEN trigger' = [trigger EXCEPT ![b] = NULL] /\ chanmsg' = Freed(b) /\ offchannel' = SilentIn(b)
     ELSE IF Freed(b)[t] # NULL THEN chanmsg' = Freed(b) /\ offchannel' = SilentIn(b) /\ UNCHANGED trigger
     ELSE /\ trigger' = [trigger EXCEPT ![b] = t] /\ chanmsg' = [Freed(b) EXCEPT ![t] = b]
          /\ offchannel' = IF trigger[b] \in offchannel THEN SilentIn(b) \cup {t} ELSE SilentIn(b) \ {t}
ServiceOffchannel(s, b, on) ==
  /\ b \in There /\ trigger[b] # NULL /\ by' = s
  /\ offchannel' = IF on THEN offchannel \cup {trigger[b]} ELSE offchannel \ {trigger[b]}
  /\ UNCHANGED <<services, trigger, privileged, chanmsg, bindings>>

-----------------------------------------------------------------------------
\* modcmd_saxdb_write_command writes what differs from the command's own rules,
\* modcmd_db_load_command starts from these.
BuiltInRules(c) == [level |-> BuiltIn[c], flags |-> {}]
Reread(b) ==
  LET own == defaults[b.cmd] made == BuiltInRules(b.cmd)
  IN [b EXCEPT !.rules.level = IF @ # own.level THEN @ ELSE made.level,
               !.rules.flags = IF @ # own.flags THEN @ ELSE made.flags]

\* Of two services with one trigger the later in the order of nicks has it.
Bearer(t) ==
  {n \in Nicks : /\ services[n] # NULL /\ trigger[services[n]] = t
                 /\ \A m \in Nicks : m > n /\ services[m] # NULL => trigger[services[m]] # t}

\* modcmd_saxdb_read: the bindings of each service as they were written.
ReadBack == [b \in Bots |-> [n \in Names |-> IF bound[b][n] = NULL THEN NULL ELSE Reread(bound[b][n])]]

Loaded(to) ==
  /\ services' = Back(to)
  /\ trigger' = [b \in Bots |-> IF \E n \in Missing : to[n] = b THEN NULL ELSE trigger[b]]
  /\ privileged' = {b \in privileged : \A n \in Missing : to[n] # b}

\* modcmd_conf_read, when srvx.conf is read again: services come back without commands.
Reload == (\E to \in Fresh : Loaded(to)) /\ by' = 0 /\ UNCHANGED <<bindings, offchannel, chanmsg>>

\* modcmd_load_bots, modcmd_saxdb_read, modcmd_finalize.
Restart ==
  /\ \E to \in Fresh : Loaded(to)
  /\ bound' = WithDefaults({services'[n] : n \in ConfNicks}, ReadBack)
  /\ defaults' = [c \in Commands |-> BuiltInRules(c)]
  /\ count' = [c \in Commands |-> Cardinality(BoundTo(Bots, c)')]
  /\ chanmsg' = [t \in Triggers |-> IF Bearer(t) = {} THEN NULL ELSE services[CHOOSE n \in Bearer(t) : TRUE]]
  /\ offchannel' = {t \in offchannel : \E b \in There : trigger[b] = t}
  /\ by' = 0

Next ==
  \/ \E s \in Staff :
       \/ \E b \in Bots :
            \/ \E n \in Names : \/ Unbind(s, b, n)
                                \/ \E t \in Templates(s), alias \in BOOLEAN : Bind(s, b, n, t, alias)
                                \/ \E r \in Rules : ModcmdBound(s, b, n, r)
            \/ \E n \in Nicks : ServiceAdd(s, b, n)
            \/ \E on \in BOOLEAN : ServicePrivileged(s, b, on) \/ ServiceOffchannel(s, b, on)
            \/ \E t \in Triggers \cup {NULL} : ServiceTrigger(s, b, t)
       \/ \E c \in Commands, r \in Rules : ModcmdDefault(s, c, r)
       \/ \E n \in Nicks : ServiceRemove(s, n) \/ \E to \in Nicks : ServiceRename(s, n, to)
  \/ Reload \/ Restart

Spec == Init /\ [][Next]_vars

-----------------------------------------------------------------------------
\* A trigger that leads to a service leads to one that has it; no bot is two
\* services; commands are bound at most as often as was counted.
ServicesExact ==
  /\ \A t \in Triggers : chanmsg[t] \notin {NULL, Gone} => chanmsg[t] \in There /\ trigger[chanmsg[t]] = t
  /\ \A n, m \in Nicks : services[n] # NULL /\ services[n] = services[m] => n = m
  /\ \A c \in Commands : Cardinality(BoundTo(There, c)) <= count[c]

\* What a binding requires is lowered by nobody below it, and by a restart only
\* if the command's own rules required the same just then.
RequirementKept(b, n) ==
  bound[b][n] # NULL /\ bound'[b][n] # NULL =>
    LET old == bound[b][n].rules new == bound'[b][n].rules
    IN IF by' # 0 THEN new.level >= old.level \/ by' >= old.level
       ELSE \/ new.level = old.level \/ old.level = defaults[bound[b][n].cmd].level
KeepsRequirements == \A b \in Bots, n \in Names : RequirementKept(b, n)
=============================================================================
