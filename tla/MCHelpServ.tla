------------------------------ MODULE MCHelpServ ------------------------------
(***************************************************************************)
(* HelpServ on two instances: `filing' enables everything that moves       *)
(* requests between lists, `queue' opens more requests on channels that    *)
(* become unstaffed.  A behaviour stays in the part it begins in.          *)
(***************************************************************************)
EXTENDS HelpServ

VARIABLE part

Keep == {[req |-> "close", helper |-> "part", interval |-> FALSE, on_join |-> FALSE],
         [req |-> "quit", helper |-> "quit", interval |-> FALSE, on_join |-> TRUE]}
Everything == {"QUIT", "NICK", "AUTH", "RENAME", "UNREG", "MERGE", "STAFF", "RESTART", "BOTS"}

Alerting == [req : {"part"}, helper : {"part"}, interval : BOOLEAN, on_join : BOOLEAN]

Queue == INSTANCE HelpServ WITH
  Opts <- Alerting, MaxRequests <- 2, Names <- Handles, Levels <- {2},
  Bound <- {"AUTH", "STAFF", "SET"}

MCInit == \/ part = "filing" /\ Init
          \/ part = "queue" /\ Queue!Init
MCNext == /\ \/ part = "filing" /\ Next
             \/ part = "queue" /\ Queue!Next
          /\ UNCHANGED part
MCSpec == MCInit /\ [][MCNext]_<<vars, part>>

Types == IF part = "filing" THEN TypeOK ELSE Queue!TypeOK

\* Types, and in the part where requests end with a part of the channel: that
\* they do, and that the alert is armed once.
ChannelsWatched == Types /\ OneAlert /\ (part = "queue" => Queue!PartEndsRequests)

Interchangeable == Permutations(Users) \cup Permutations(Nicks)
                   \cup Permutations(Handles) \cup Permutations(Names)
=============================================================================
