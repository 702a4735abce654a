------------------------------- MODULE Uplinks --------------------------------
(***************************************************************************)
(* The connection to the network: which uplink is tried, how a connection  *)
(* is set up, watched by pings and lost, and how the next one is chosen    *)
(* (main-common.c, proto-common.c, the link messages of proto-p10.c and    *)
(* the loop of ioset.c that calls them).                                   *)
(***************************************************************************)
EXTENDS Integers, FiniteSets

CONSTANTS
  N,          \* the uplinks of the configuration are 1..N, in list order, N > 0
  MaxTries,   \* max_tries of each uplink, > 0
  MaxCycles,  \* server/max_cycles, 0 for no limit
  MaxTimers   \* bound: more ping timers of one kind are not counted

Links  == 1..N
States == {"DISCONNECTED", "AUTHENTICATING", "BURSTING", "CONNECTED"}

VARIABLES
  cur,      \* cManager.uplink
  state,    \* of each uplink
  tries,    \* of each uplink
  bad,      \* UPLINK_UNAVAILABLE
  cycles,   \* cManager.cycles
  sock,     \* socket_io_fd # NULL
  linked,   \* self->uplink # NULL
  timers,   \* how many of each ping timer are queued
  phase,    \* of ioset_run
  exited    \* why services gave up, or "no"

link == <<cur, state, tries, bad, cycles>>
vars == <<cur, state, tries, bad, cycles, sock, linked, timers, phase, exited>>

TypeOK ==
  /\ cur \in Links /\ state \in [Links -> States] /\ tries \in [Links -> 0..MaxTries]
  /\ bad \subseteq Links /\ cycles \in Nat /\ sock \in BOOLEAN /\ linked \in BOOLEAN
  /\ timers \in [{"send", "timeout"} -> Nat]
  /\ phase \in {"connect", "events", "timers"} /\ exited \in {"no", "exhausted", "cycles"}

Init ==
  /\ cur = 1 /\ state = [l \in Links |-> "DISCONNECTED"] /\ tries = [l \in Links |-> 0]
  /\ bad = {} /\ cycles = 0 /\ sock = FALSE /\ linked = FALSE
  /\ timers = [t \in {"send", "timeout"} |-> 0] /\ phase = "connect" /\ exited = "no"

-----------------------------------------------------------------------------
(* uplink_select.  A link state is a record of the variables in `link',    *)
(* with exited, so that the handlers that select can be composed.          *)

Here == [cur |-> cur, state |-> state, tries |-> tries, bad |-> bad, cycles |-> cycles,
         exited |-> exited]
Becomes(s) ==
  /\ cur' = s.cur /\ state' = s.state /\ tries' = s.tries /\ bad' = s.bad
  /\ cycles' = s.cycles /\ exited' = s.exited

\* The k-th uplink the search looks at, after the one that starts it.
Nth(start, k) == ((start - 1 + k) % N) + 1

\* The search goes once round the list from start; reaching the last one costs
\* a cycle.  Nothing that qualifies leaves the current uplink, if it is usable.
SelectFrom(s, start, names) ==
  LET Fits(k)  == Nth(start, k) \in names \ s.bad
      Found    == {k \in 0..N-1 : Fits(k)}
      First    == CHOOSE k \in Found : \A j \in Found : k <= j
      Wraps    == \A k \in Found : k = N - 1
      turned   == IF Wraps THEN s.cycles + 1 ELSE s.cycles
  IN IF Wraps /\ MaxCycles # 0 /\ turned >= MaxCycles
       THEN [s EXCEPT !.cycles = turned, !.exited = "cycles"]
     ELSE IF Found # {} THEN [s EXCEPT !.cycles = turned, !.cur = Nth(start, First)]
     ELSE IF s.cur \in s.bad THEN [s EXCEPT !.cycles = turned, !.exited = "exhausted"]
     ELSE [s EXCEPT !.cycles = turned]

Select(s, names) == SelectFrom(s, Nth(s.cur, 1), names)

\* Mutant: the state is set before the attempt and not taken back.
Failed_StateKept(s) == [s EXCEPT !.state[s.cur] = "AUTHENTICATING", !.tries[s.cur] = @ + 1]

\* create_socket_client fails: the attempt counts, and the last one an uplink
\* has disables it.
Failed(s) ==
  LET n == s.tries[s.cur] + 1
      t == [s EXCEPT !.state[s.cur] = "DISCONNECTED", !.tries[s.cur] = n]
  IN IF n >= MaxTries THEN Select([t EXCEPT !.bad = @ \cup {s.cur}], Links) ELSE t

OneMore(t) == IF timers[t] < MaxTimers THEN timers[t] + 1 ELSE timers[t]

\* uplink_connect as the loop calls it while there is no socket.  An uplink
\* whose state is not DISCONNECTED is not touched, and the loop calls again.
UplinkConnect ==
  /\ phase = "connect" /\ ~sock /\ exited = "no" /\ state[cur] = "DISCONNECTED"
  /\ LET s == IF cur \in bad THEN Select(Here, Links) ELSE Here
         up == [s EXCEPT !.state[s.cur] = "AUTHENTICATING", !.tries[s.cur] = 0]
     IN IF s.exited # "no" THEN Becomes(s) /\ UNCHANGED <<sock, timers>>
        ELSE \/ /\ Becomes(up) /\ sock' = TRUE
                /\ timers' = [timers EXCEPT !["send"] = OneMore("send")]
             \/ Becomes(Failed(s)) /\ UNCHANGED <<sock, timers>>
  /\ UNCHANGED <<linked, phase>>

\* Once there is a socket, the loop waits for something to read.
Poll == /\ phase = "connect" /\ sock /\ exited = "no" /\ phase' = "events"
        /\ UNCHANGED <<link, sock, linked, timers, exited>>
RunTimers == /\ phase = "events" /\ phase' = "timers"
             /\ UNCHANGED <<link, sock, linked, timers, exited>>
LoopAgain == /\ phase = "timers" /\ phase' = "connect"
             /\ UNCHANGED <<link, sock, linked, timers, exited>>

-----------------------------------------------------------------------------
(* Losing the connection.                                                  *)

\* close_socket, socket_destroyed: whatever is the current uplink now is
\* disconnected, the servers behind it are forgotten.
Closed(s) == [s EXCEPT !.state[s.cur] = "DISCONNECTED"]
\* irc_squit(self): the next attempt is made without delay.
Squit(s) == Closed([s EXCEPT !.tries[s.cur] = 0])
Down == sock' = FALSE /\ linked' = FALSE

ConnectionLost ==
  /\ phase = "events" /\ sock /\ Becomes(Closed(Here)) /\ Down
  /\ UNCHANGED <<timers, phase>>

\* cmd_error: an error before the link is up disables the uplink.
Error ==
  /\ phase = "events" /\ sock
  /\ Becomes(Closed([Here EXCEPT !.bad = IF state[cur] = "CONNECTED" THEN @ ELSE @ \cup {cur}]))
  /\ Down /\ UNCHANGED <<timers, phase>>

\* A wrong password, an erroneous nick, or a SQUIT of the uplink.
Disagree == /\ phase = "events" /\ sock /\ Becomes(Squit(Here)) /\ Down
            /\ UNCHANGED <<timers, phase>>

\* cmd_jump: the named uplink becomes the current one, then the connection of
\* the one before is closed.
Jump(l) ==
  /\ phase = "events" /\ sock /\ linked /\ l # cur /\ l \notin bad
  /\ LET s == Select(Here, {l})
     IN IF s.exited = "no" THEN Becomes(Squit(s)) /\ Down
        ELSE Becomes(s) /\ UNCHANGED <<sock, linked>>
  /\ UNCHANGED <<timers, phase>>

\* uplink_insert: the record that takes over from the current one.
Carried(l, enabled) == l = cur /\ cur \in enabled

\* uplink_compile at a reload: new records for the uplinks that are enabled
\* now; the connection is kept if its uplink is among them.
Reload(enabled) ==
  LET fresh == [Here EXCEPT !.bad = Links \ enabled,
                  !.tries = [l \in Links |-> IF Carried(l, enabled) THEN tries[l] ELSE 0],
                  !.state = [l \in Links |-> IF Carried(l, enabled) THEN state[l]
                                             ELSE "DISCONNECTED"]]
  IN /\ phase = "timers" /\ exited = "no"
     /\ IF cur \in enabled THEN Becomes(fresh) /\ UNCHANGED <<sock, linked>>
        ELSE Becomes(SelectFrom(fresh, 1, Links)) /\ Down
     /\ UNCHANGED <<timers, phase>>

-----------------------------------------------------------------------------
(* The messages of a link, and the ping timers.                            *)

\* PASS, SERVER, END_OF_BURST and its acknowledgement.
Advance(from, to) ==
  /\ phase = "events" /\ sock /\ state[cur] = from
  /\ state' = [state EXCEPT ![cur] = to]
  /\ UNCHANGED <<cur, tries, bad, cycles, sock, timers, phase, exited>>
Pass   == Advance("AUTHENTICATING", "BURSTING") /\ UNCHANGED linked
Server == Advance("BURSTING", "BURSTING") /\ ~linked /\ linked' = TRUE
Eob    == Advance("BURSTING", "CONNECTED") /\ linked /\ UNCHANGED linked

\* cmd_ping, cmd_pong: both timers are deleted, one is armed again.
Pinged ==
  /\ phase = "events" /\ sock
  /\ timers' = [send |-> 1, timeout |-> 0] /\ cycles' = 0
  /\ UNCHANGED <<cur, state, tries, bad, sock, linked, phase, exited>>

TimedSendPing ==
  /\ phase = "timers" /\ timers["send"] > 0
  /\ timers' = [send |-> timers["send"] - 1, timeout |-> OneMore("timeout")]
  /\ UNCHANGED <<link, sock, linked, phase, exited>>

TimedPingTimeout ==
  /\ phase = "timers" /\ timers["timeout"] > 0
  /\ timers' = [timers EXCEPT !["timeout"] = @ - 1]
  /\ Becomes(Squit(Here)) /\ Down /\ UNCHANGED phase

Next ==
  \/ UplinkConnect \/ Poll \/ RunTimers \/ LoopAgain
  \/ ConnectionLost \/ Error \/ Disagree
  \/ \E l \in Links : Jump(l)
  \/ \E enabled \in SUBSET Links \ {{}} : Reload(enabled)
  \/ Pass \/ Server \/ Eob \/ Pinged \/ TimedSendPing \/ TimedPingTimeout

\* ioset_run goes on: it connects, polls and runs what is due.
Fairness == WF_vars(UplinkConnect)
Spec == Init /\ [][Next]_vars /\ Fairness

-----------------------------------------------------------------------------
\* No uplink but the current one believes it is connected.
NoneStranded == \A l \in Links \ {cur} : state[l] = "DISCONNECTED"

\* The record that is connected is the current one, across jumps and reloads;
\* servers are known only behind a connection; services only give up when no
\* uplink is left or the list has been gone round too often, never because of
\* an order of failures, reloads, jumps and timers.
LinkSound ==
  /\ sock => state[cur] # "DISCONNECTED"
  /\ linked => sock
  /\ exited = "exhausted" => bad = Links
  /\ exited = "cycles" => MaxCycles # 0 /\ cycles >= MaxCycles

\* Whenever the connection is lost, there is another one or services give up
\* ("Force a reconnect to the currently selected server", proto-p10.c:545).
Reconnects == phase = "connect" /\ ~sock ~> sock \/ exited # "no"

\* The same where no jump has stranded an uplink.
ReconnectsUnstranded == []NoneStranded => Reconnects
=============================================================================
