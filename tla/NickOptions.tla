------------------------------- MODULE NickOptions ------------------------------
(***************************************************************************)
(* The settings of an account that SET changes for its owner and OSET for  *)
(* staff, its password and its host masks.  OSET LEVEL and FLAGS are in    *)
(* NickServSessions, EMAIL in NickServCookies, the hosts in NickHosts.     *)
(* Source: src/nickserv.c.                                                 *)
(***************************************************************************)
EXTENDS Integers, Sequences, SequencesExt

CONSTANTS
  Binary,      \* settings that are on or off: COLOR, PRIVMSG
  Picks,     \* settings that take a value as it is: STYLE, LANGUAGE, INFO
  Values,      \* of them
  Staff,       \* sessions of other accounts that may use OSET, with their rank
  Rank,        \* the rank of the account
  Praised,     \* the staff who may set epithets (set_epithet_level)
  MinLine, MaxLine, MaxWidth,  \* MIN_LINE_SIZE, MAX_LINE_SIZE; bound: what is typed
  Byte, HardMax,               \* 256 and hard_maxlogins
  MaxKarma,                    \* bound: of what is added up
  Passwords, Insecure,         \* those is_secure_password refuses
  Masks,
  NULL                         \* no value, an empty setting

VARIABLES
  width, table,   \* hi->screen_width, hi->table_width
  on, chosen,     \* hi->flags and the choices
  maxlogins, karma, epithet, passwd,
  masks,          \* hi->masks
  by              \* who gave the last command

vars == <<width, table, on, chosen, maxlogins, karma, epithet, passwd, masks, by>>

Init ==
  /\ width = 0 /\ table = 0 /\ on = {} /\ chosen = [c \in Picks |-> NULL]
  /\ maxlogins = 0 /\ karma = 0 /\ epithet = NULL /\ passwd \in Passwords \ Insecure
  /\ masks = <<>> /\ by = "owner"

\* get_victim_oper; the owner may use OSET as anyone of their rank may.
Outranks(s) == Staff[s] > Rank
MayOset(s)  == s \in DOMAIN Staff /\ Outranks(s)

AllBut  == <<width, table, on, chosen, maxlogins, karma, epithet, passwd, masks>>

\* opt_width.
Width(n) ==
  /\ width' = IF n > 0 /\ n < MinLine THEN MinLine ELSE IF n > MaxLine THEN MaxLine ELSE n
  /\ UNCHANGED <<table, on, chosen, maxlogins, karma, epithet, passwd, masks>>

\* opt_tablewidth compares the other width with the maximum.
TableWidth(n) ==
  /\ table' = IF n > 0 /\ n < MinLine THEN MinLine ELSE IF width > MaxLine THEN MaxLine ELSE n
  /\ UNCHANGED <<width, on, chosen, maxlogins, karma, epithet, passwd, masks>>

\* opt_color, opt_privmsg.
Switch(b, yes) ==
  /\ on' = IF yes THEN on \cup {b} ELSE on \ {b}
  /\ UNCHANGED <<width, table, chosen, maxlogins, karma, epithet, passwd, masks>>

\* opt_info ("*" empties it), opt_style, opt_language.
Choose(c, v) ==
  /\ chosen' = [chosen EXCEPT ![c] = v]
  /\ UNCHANGED <<width, table, on, maxlogins, karma, epithet, passwd, masks>>

\* opt_maxlogins: what is kept of a number, if it is accepted.
Logins(n, override) == IF n % Byte > HardMax /\ ~override THEN {} ELSE {n % Byte}

MaxLogins(n, override) ==
  /\ maxlogins' \in Logins(n, override)
  /\ UNCHANGED <<width, table, on, chosen, karma, epithet, passwd, masks>>

\* What SET and OSET share.
Shared(override) ==
  \/ \E n \in 0..MaxWidth : Width(n) \/ TableWidth(n)
  \/ \E b \in Binary, yes \in BOOLEAN : Switch(b, yes)
  \/ \E c \in Picks, v \in Values : Choose(c, v)
  \/ \E n \in 0..Byte + HardMax + 1 : MaxLogins(n, override)

Set == Shared(FALSE) /\ by' = "owner"

\* opt_karma, opt_epithet ("*" for none), opt_password.
Karma(d) == /\ karma + d \in -MaxKarma..MaxKarma /\ karma' = karma + d
            /\ UNCHANGED <<width, table, on, chosen, maxlogins, epithet, passwd, masks>>
Epithet(s, v) == /\ s \in Praised /\ epithet' = v
                 /\ UNCHANGED <<width, table, on, chosen, maxlogins, karma, passwd, masks>>
Password(p) == /\ passwd' = p
               /\ UNCHANGED <<width, table, on, chosen, maxlogins, karma, epithet, masks>>

Oset(s) ==
  /\ MayOset(s) /\ by' = s
  /\ \/ Shared(TRUE)
     \/ \E d \in {-1, 1} : Karma(d)
     \/ \E v \in Values \cup {NULL} : Epithet(s, v)
     \/ \E p \in Passwords : Password(p)

\* cmd_pass: the old password and a secure new one.
Pass(old, new) == /\ new \notin Insecure /\ old = passwd
                  /\ Password(new) /\ by' = "owner"

\* nickserv_addmask, nickserv_delmask: the last mask takes the place of the one
\* that is removed.
WithMask(m) == /\ m \notin ToSet(masks) /\ masks' = Append(masks, m)
               /\ UNCHANGED <<width, table, on, chosen, maxlogins, karma, epithet, passwd>>

\* "You may not delete your last hostmask."
Kept(force) == force \/ Len(masks) > 1

WithoutMask(m, force) ==
  /\ m \in ToSet(masks) /\ Kept(force)
  /\ LET k == CHOOSE j \in DOMAIN masks : masks[j] = m
     IN masks' = Front([masks EXCEPT ![k] = Last(masks)])
  /\ UNCHANGED <<width, table, on, chosen, maxlogins, karma, epithet, passwd>>

\* cmd_addmask, cmd_delmask; cmd_oaddmask, cmd_odelmask.
OwnMasks == /\ by' = "owner"
            /\ \E m \in Masks : WithMask(m) \/ WithoutMask(m, FALSE)
StaffMasks(s) == /\ MayOset(s) /\ by' = s
                 /\ \E m \in Masks : WithMask(m) \/ WithoutMask(m, TRUE)

Next ==
  \/ Set \/ OwnMasks
  \/ \E s \in DOMAIN Staff : Oset(s) \/ StaffMasks(s)
  \/ \E p, q \in Passwords : Pass(p, q)

Spec == Init /\ [][Next]_vars

-----------------------------------------------------------------------------

\* Whatever is typed, the text width is none or one that can be wrapped to, a
\* table's is not too narrow, and the masks are different ones.
WidthsSane ==
  /\ width \in {0} \cup MinLine..MaxLine
  /\ table = 0 \/ table >= MinLine
  /\ IsInjective(masks)

\* The owner never gets more sessions than hard_maxlogins by a command of
\* theirs, nor out of what staff say of them, nor without a mask who had one, nor
\* to an insecure password; and staff who do not outrank the account change
\* nothing of it.
SettingsAllowed ==
  [][/\ by' = "owner" =>
          /\ maxlogins' # maxlogins => maxlogins' <= HardMax
          /\ <<karma, epithet>>' = <<karma, epithet>>
          /\ masks # <<>> => masks' # <<>>
          /\ passwd' # passwd => passwd' \notin Insecure
     /\ by' # "owner" /\ AllBut' # AllBut => Staff[by'] > Rank]_vars
=============================================================================
