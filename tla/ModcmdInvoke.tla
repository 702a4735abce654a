------------------------------ MODULE ModcmdInvoke -----------------------------
(***************************************************************************)
(* Who may use a command: a user writes to a service, or in a channel that *)
(* has it; the line may name the channel, and may go through TIMECMD or a  *)
(* joiner, which invoke the command in turn.  The user, the channel and    *)
(* the requirements of the command change in between.  Sources:            *)
(* src/modcmd.c, src/nickserv.c (oper_has_access), src/chanserv.c          *)
(* (_GetChannelUser, check_user_level).                                    *)
(***************************************************************************)
EXTENDS Integers, FiniteSetsExt

CONSTANTS
  People,   \* what the user may be
  Channels, \* what the channel may be
  Bindings, \* what the command may require
  Helper,   \* UL_HELPER, the access of those who help
  Enabled,  \* "NAMED": TIMECMD and joiners accept a channel, too
  NULL

VARIABLES
  user,     \* account: "none", "active" or "suspended"; oper and its level; helper; helping; access; on
  channel,  \* registered, suspended, protected, closed, pubcmd, toys
  cmd,      \* flags, level, access
  privileged, \* of the service
  ran,      \* what ran last, with the channel it had, or NULL
  hidden    \* SHOWCOMMANDS did not list the command, just so

vars == <<user, channel, cmd, privileged, ran, hidden>>

Init == /\ user \in People /\ channel \in Channels /\ cmd \in Bindings /\ privileged \in BOOLEAN
        /\ ran = NULL /\ hidden = FALSE

-----------------------------------------------------------------------------
\* modcmd_set_effective_flags.
Staff == {"oper", "networkhelper", "supporthelper"}
Effective ==
  LET own  == cmd.flags \cup (IF cmd.level > 0 THEN {"oper"} ELSE {})
                        \cup (IF cmd.access > 0 THEN {"chanuser"} ELSE {})
      chan == own \cup (IF "chanuser" \in own THEN {"regchan"} ELSE {})
      all  == chan \cup (IF "regchan" \in chan THEN {"channel"} ELSE {})
  IN all \cup IF all \cap (Staff \cup {"helping"}) # {} THEN {"authed"} ELSE {}

\* _GetChannelUser: whoever helps has the helpers' access, if it is not
\* protected from them; 0 for none.
Authed  == user.account # "none"
Overrides == user.helping /\ (user.level > 1 \/ ~channel.protected)
Access(override) ==
  IF ~channel.registered \/ ~Authed THEN 0 ELSE IF override /\ Overrides THEN Helper ELSE user.access

\* oper_has_access.
OperHasAccess(min) == Authed /\ user.oper /\ user.level # -1 /\ user.level >= min

IsStaff(f) ==
  \/ "oper" \in f /\ user.oper
  \/ "networkhelper" \in f /\ user.helper = "network"
  \/ "supporthelper" \in f /\ user.helper = "support"

\* svccmd_can_invoke, what is asked of the channel.
InChannel(f, here) ==
  /\ "channel" \in f => here
  /\ "regchan" \in f =>
       /\ channel.registered
       /\ channel.suspended /\ "ignore_csuspend" \notin f => user.helping /\ "never_csuspend" \notin f
  /\ "chanuser" \in f => Access(TRUE) > 0 /\ Access(TRUE) >= cmd.access
  /\ "joinable" \in f /\ here => ~channel.closed \/ Access(TRUE) > 0 \/ user.on
  /\ "toy" \in f /\ here /\ channel.registered => channel.toys # "d"

\* svccmd_can_invoke.  A command that is only listed is not asked about a channel
\* that is not given.
CanInvoke(here, noisy, qualified) ==
  LET f == Effective
  IN /\ "disabled" \notin f
     /\ "qualified" \in f => qualified
     /\ "authed" \in f => user.account = "active"
     /\ here \/ noisy => InChannel(f, here)
     /\ f \cap Staff # {} => IsStaff(f)
     /\ "helping" \in f => user.helping
     /\ cmd.level > 0 => OperHasAccess(cmd.level)

\* How it is logged.
Severity(here) ==
  LET f == Effective
  IN IF f \cap (Staff \cup {"helping"}) # {} THEN "staff"
     ELSE IF "regchan" \in f /\ channel.suspended /\ "ignore_csuspend" \notin f THEN "staff"
     ELSE IF "chanuser" \in f /\ Access(TRUE) > 5 /\ (Access(FALSE) = 0 \/ Access(FALSE) < cmd.access) THEN "override"
     ELSE "command"

-----------------------------------------------------------------------------
\* svccmd_invoke_argv.  `given': the channel the line came from; a line that names
\* one is "before" or "after" the command.  A toy does without it then.
Ran(given, named, qualified, from) ==
  LET accept == "acceptchan" \in cmd.flags
      here == IF named # "no" /\ accept THEN "toy" \notin cmd.flags ELSE given
  IN IF /\ given /\ channel.registered => channel.pubcmd = 0 \/ Access(TRUE) >= channel.pubcmd
        /\ named = "before" => accept
        /\ CanInvoke(here, TRUE, qualified)
     THEN [ from |-> from, qualified |-> qualified, log |-> Severity(here),
            here |-> here /\ ~("toy" \in cmd.flags /\ (~channel.registered \/ channel.toys = "n")) ]
     ELSE NULL

\* svccmd_invoke: privileged services are for opers.
Served == privileged => user.oper /\ Authed /\ user.level # -1

\* modcmd_privmsg, modcmd_chanmsg.
Invoke(from, named, qualified) ==
  /\ from = "channel" => ~qualified
  /\ ran' = IF Served THEN Ran(from = "channel", named, qualified, from) ELSE NULL
  /\ UNCHANGED <<user, channel, cmd, privileged, hidden>>

\* TIMECMD, for opers, and joiners: on with what comes after them, unqualified.
\* What they are called with is their channel.
Nested(from, via, outside, named) ==
  /\ outside => "NAMED" \in Enabled /\ via = "timecmd"
  /\ ran' = IF /\ Served /\ (via = "timecmd" => OperHasAccess(1) /\ user.account = "active")
               /\ from = "channel" /\ channel.registered => channel.pubcmd = 0 \/ Access(TRUE) >= channel.pubcmd
            THEN Ran(from = "channel" \/ outside, named, FALSE, from) ELSE NULL
  /\ UNCHANGED <<user, channel, cmd, privileged, hidden>>

\* SHOWCOMMANDS.
ShowCommands(here) ==
  /\ Served /\ hidden' = ~CanInvoke(here, FALSE, TRUE) /\ ~here
  /\ ran' = NULL /\ UNCHANGED <<user, channel, cmd, privileged>>

\* GOD.
God ==
  /\ user.account = "active" /\ (user.oper \/ user.helper = "network")
  /\ user' = [user EXCEPT !.helping = ~@] /\ ran' = NULL /\ hidden' = FALSE
  /\ UNCHANGED <<channel, cmd, privileged>>

\* Logins, opers and kicks; REGISTER and SUSPEND; MODCMD and SERVICE PRIVILEGED.
Otherwise ==
  /\ ran' = NULL /\ hidden' = FALSE
  /\ \/ user' \in {p \in People : p.helping = user.helping \/ p.account # user.account} /\ UNCHANGED <<channel, cmd, privileged>>
     \/ channel' \in Channels /\ UNCHANGED <<user, cmd, privileged>>
     \/ cmd' \in Bindings /\ UNCHANGED <<user, channel, privileged>>
     \/ privileged' = ~privileged /\ UNCHANGED <<user, channel, cmd>>

Names == {"no", "before", "after"}
Next ==
  \/ \E from \in {"msg", "channel"}, named \in Names :
       \/ \E qualified \in BOOLEAN : Invoke(from, named, qualified)
       \/ \E via \in {"timecmd", "joiner"}, outside \in BOOLEAN : Nested(from, via, outside, named)
  \/ \E here \in BOOLEAN : ShowCommands(here)
  \/ God \/ Otherwise

Spec == Init /\ [][Next]_vars

-----------------------------------------------------------------------------
\* What runs meets every requirement as the help of MODCMD states it, whatever way
\* it came: the requirements imply one another in no particular order there.
MetRequirements ==
  LET f == cmd.flags
      inside == channel.registered /\ ((user.access > 0 /\ user.access >= cmd.access) \/ user.helping)
  IN /\ "disabled" \notin f
     /\ "qualified" \in f => ran.qualified
     /\ f \cap (Staff \cup {"authed", "helping"}) # {} \/ cmd.level > 0 \/ privileged => Authed
     /\ f \cap {"channel", "regchan", "chanuser"} # {} => ran.here \/ "toy" \in f
     /\ "chanuser" \in f \/ cmd.access > 0 => inside
     /\ "joinable" \in f /\ ran.here /\ channel.closed => inside \/ user.on
     /\ f \cap Staff # {} => user.oper \/ user.helper # "none"
     /\ "helping" \in f => user.helping
     /\ cmd.level > 0 => user.oper /\ user.level >= cmd.level
     /\ privileged => user.oper
     /\ "regchan" \in f /\ channel.suspended /\ "ignore_csuspend" \notin f => user.helping
     \* a toy "cannot be invoked on a channel from outside the channel"
     /\ "toy" \in f /\ ran.here => ran.from = "channel"
\* Access that only those have who help is logged as such.
OverrideLogged ==
  LET own == channel.registered /\ user.access > 0 /\ user.access >= cmd.access
  IN /\ ran.log = "override" => ~own /\ user.helping
     /\ "chanuser" \in cmd.flags \/ cmd.access > 0 => own \/ ran.log # "command"
RanAsDocumented ==
  ran # NULL => MetRequirements /\ OverrideLogged /\ ~hidden
=============================================================================
