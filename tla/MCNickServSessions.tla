------------------------- MODULE MCNickServSessions -------------------------
(***************************************************************************)
(* Small instances of NickServSessions.  They differ in which commands are *)
(* bound, which modcmd lets staff decide at run time, and in what there is *)
(* on the network; a behaviour is one of the instance its part names.      *)
(***************************************************************************)
EXTENDS NickServSessions, TLC

CONSTANTS c1, u1, u2

VARIABLE part

Common == {"AUTH", "REGISTER", "UNREGISTER"}
Staff  == {"OSET FLAGS", "OSET LEVEL", "OUNREGISTER"}
Stamps == {"SPLIT", "LOC", "ACCOUNT"}

\* Everything there is, kills by auth alerts included.
AllCommands == Common \cup Staff \cup Stamps \cup
               {"GHOST", "OREGISTER", "COOKIE", "MERGE", "ALERT", "VACATION"}

\* What moves helper flags and the override, without MERGE.
HelperCommands == Common \cup Staff \cup {"GOD", "CSUSPEND", "COOKIE"}

\* Stamped logins and expiry, without the commands that log a stamped
\* connection in to another account (COOKIE, OREGISTER, MERGE).
StampCommands == {"AUTH", "REGISTER", "OUNREGISTER", "OSET FLAGS", "EXPIRE"} \cup Stamps

Logins  == INSTANCE NickServSessions WITH Bound <- AllCommands, SupportChannels <- {},
             IrcOps <- {u1, u2}, Settable <- {"SUPPORT_HELPER"}, MaxLevel <- 2
Stamped == INSTANCE NickServSessions WITH Bound <- StampCommands,
             Settable <- {"SUPPORT_HELPER", "SUSPENDED"}, MaxGen <- 2

MCInit ==
  \/ part = "logins" /\ Logins!Init
  \/ part = "helpers" /\ Init
  \/ part = "stamps" /\ Stamped!Init

MCNext ==
  /\ UNCHANGED part
  /\ \/ part = "logins" /\ Logins!Next
     \/ part = "helpers" /\ Next
     \/ part = "stamps" /\ Stamped!Next

MCSpec ==
  MCInit /\ [][MCNext]_<<part, vars>> /\ WF_vars(part = "stamps" /\ Stamped!ExpireHandles)

\* The type invariant of each instance.
Types == CASE part = "logins" -> Logins!TypeOK
           [] part = "helpers" -> TypeOK
           [] part = "stamps" -> Stamped!TypeOK

\* Types, and the override of support staff where nobody may use GOD, no support
\* channel is closed and no command logs a stamped connection in to another
\* account.
OverridesKnown == Types /\ (part = "stamps" => SupportOverrideInChannel)
=============================================================================
