------------------------------- MODULE Resolver -------------------------------
(***************************************************************************)
(* DNS requests as the blacklist module makes them: one for every zone a   *)
(* new user's address is looked up in, sent to all name servers at once,   *)
(* again when it times out, and ended by the first answer, by an error or  *)
(* after the last retry.  Source: src/sar.c and src/mod-blacklist.c.       *)
(***************************************************************************)
EXTENDS Integers, FiniteSets

CONSTANTS
  Ids,      \* what rand() & 0xffff may yield
  Hosts,    \* addresses of users, numbered in the order they come
  Zones,    \* of the configuration
  Servers,  \* name servers
  Timeout,  \* conf.sar_timeout
  Retries,  \* conf.sar_retries
  MaxTime,  \* bound on the clock
  LastAsk,  \* bound: no request is made after this time
  NULL

VARIABLES
  requests,     \* sar_requests: id -> [host, zone, retries, expiry]
  fd,           \* the socket is open
  timers,       \* when sar_timeout_cb is armed for
  next_timeout, \* next_sar_timeout, 0 before it is first set
  wire,         \* questions name servers have not answered and may answer
  asked,        \* lookups that were begun
  answered,     \* lookup -> how many answers dnsbl_hit was called with
  zones,        \* blacklist_zones
  now

vars == <<requests, fd, timers, next_timeout, wire, asked, answered, zones, now>>

Lookups == Hosts \X Zones

Init ==
  /\ requests = <<>> /\ fd = FALSE /\ timers = {} /\ next_timeout = 0 /\ wire = {}
  /\ asked = {} /\ answered = [l \in Lookups |-> 0] /\ zones = Zones
  /\ now = 0

\* Mutant: the timer is moved for what comes later.
Earlier_Later(when, s) == s.next = 0 \/ when > s.next

\* What sar_check_timeout asks.
Earlier(when, s) == s.next = 0 \/ when < s.next

\* sar_check_timeout
CheckTimeout(when, s) ==
  IF Earlier(when, s) THEN [s EXCEPT !.timers = {when}, !.next = when] ELSE s

Without(reqs, id) == [i \in DOMAIN reqs \ {id} |-> reqs[i]]

\* sar_request_send, for a request that is in s.requests
Send(s, id) ==
  LET req == s.requests[id]
      sent == [req EXCEPT !.retries = @ + 1,
                          !.expiry = now + Timeout * 2 ^ (req.retries + 1)] IN
  CheckTimeout(sent.expiry,
    [s EXCEPT !.requests[id] = sent,
              !.wire = @ \cup {[id |-> id, host |-> req.host, zone |-> req.zone,
                                try |-> sent.retries, by |-> ns] : ns \in Servers}])

Current == [requests |-> requests, timers |-> timers, next |-> next_timeout, wire |-> wire]
Becomes(s) == requests' = s.requests /\ timers' = s.timers /\ next_timeout' = s.next /\ wire' = s.wire

\* blacklist_check_user for one zone: sar_request_simple with an id that no
\* request has; a socket that cannot be opened fails the request at once.
Ask(host, zone, id) ==
  LET new == [host |-> host, zone |-> zone, retries |-> 0, expiry |-> 0] IN
  /\ zone \in zones /\ <<host, zone>> \notin asked /\ now <= LastAsk
  /\ \A h \in 1..host - 1 : \E l \in asked : l[1] = h
  /\ id \notin DOMAIN requests
  /\ asked' = asked \cup {<<host, zone>>}
  /\ \/ /\ Becomes(Send([Current EXCEPT !.requests = [i \in DOMAIN @ \cup {id} |->
                           IF i = id THEN new ELSE @[i]]], id))
        /\ fd' = TRUE
     \/ ~fd /\ UNCHANGED <<requests, timers, next_timeout, wire, fd>>
  /\ UNCHANGED <<answered, zones, now>>

\* The end of sar_decode_answer, dnsbl_hit asks nothing further.
Answered(reqs, id) == Without(reqs, id)

\* sar_fd_readable: an answer to one of the questions, from one of our name
\* servers; the request is found by its id alone.
Answer(q) ==
  /\ wire' = wire \ {q}
  /\ \/ /\ q.id \notin DOMAIN requests
        /\ UNCHANGED <<requests, answered>>
     \/ \* sar_request_fail: an error or something that cannot be read
        /\ q.id \in DOMAIN requests /\ requests' = Without(requests, q.id)
        /\ UNCHANGED answered
     \/ \* dnsbl_hit, which bans a host that is listed
        /\ q.id \in DOMAIN requests /\ requests' = Answered(requests, q.id)
        /\ LET req == requests[q.id] IN
           answered' = [answered EXCEPT ![<<req.host, req.zone>>] = @ + 1]
  /\ UNCHANGED <<fd, timers, next_timeout, asked, zones, now>>

\* A packet is lost, on its way there or back.
Lose(q) == wire' = wire \ {q} /\ UNCHANGED <<requests, fd, timers, next_timeout,
                                              asked, answered, zones, now>>

\* The loop of sar_timeout_cb over the ids that are left, in their order; s
\* also has the least expiry that lies ahead, NULL before one is met.
RECURSIVE TimeOut(_, _)
TimeOut(s, rest) ==
  IF rest = {} THEN s
  ELSE LET id == CHOOSE i \in rest : \A j \in rest : i <= j
           req == s.requests[id] IN
       TimeOut(IF s.ahead # NULL /\ req.expiry > s.ahead THEN s
               ELSE IF req.expiry > now THEN [s EXCEPT !.ahead = req.expiry]
               ELSE IF req.retries >= Retries THEN [s EXCEPT !.requests = Without(@, id)]
               ELSE Send(s, id),
               rest \ {id})

\* sar_timeout_cb
TimeoutCb ==
  /\ \E w \in timers :
       /\ w <= now
       /\ LET start == [requests |-> requests, timers |-> timers \ {w}, next |-> next_timeout,
                        wire |-> wire, ahead |-> NULL]
              end == TimeOut(start, DOMAIN requests) IN
          Becomes(IF end.ahead = NULL THEN end
                  ELSE [end EXCEPT !.timers = @ \cup {end.ahead}, !.next = end.ahead])
  /\ UNCHANGED <<fd, asked, answered, zones, now>>

\* blacklist_conf_read with other zones
Reload ==
  /\ \E kept \in SUBSET Zones : zones' = kept
  /\ UNCHANGED <<requests, fd, timers, next_timeout, wire, asked, answered, now>>

Tick == now < MaxTime /\ now' = now + 1
        /\ UNCHANGED <<requests, fd, timers, next_timeout, wire, asked, answered, zones>>

Next ==
  \/ \E host \in Hosts, zone \in Zones, id \in Ids : Ask(host, zone, id)
  \/ \E q \in wire : Answer(q) \/ Lose(q)
  \/ TimeoutCb \/ Reload \/ Tick

\* Time passes and timers that are due are run; no packet has to arrive.
Spec == Init /\ [][Next]_vars /\ WF_vars(Tick) /\ WF_vars(TimeoutCb)

-----------------------------------------------------------------------------
(* Properties.                                                             *)

\* However often a question was sent, to however many servers, and whatever
\* arrives late under an id that is in use again: no lookup is answered twice,
\* and none that was not begun (sar.c:582, 635).
AnsweredOnce == \A l \in Lookups : answered[l] <= IF l \in asked THEN 1 ELSE 0

\* sar_timeout_cb leaves next_sar_timeout alone when no time-out lies ahead of
\* those it has looked at, and sar_check_timeout does not arm anything after it
\* (sar.c:286, 294): from then on no request times out.
Lapsed == timers = {} /\ next_timeout # 0

\* One timer serves all requests: it is armed for next_sar_timeout, and until
\* it lapses it covers every request that was sent once.  (What the callback
\* sends again it does not look at a second time.)
TimerCovers ==
  /\ Cardinality(timers) <= 1 /\ timers \subseteq {next_timeout}
  /\ Lapsed \/ \A id \in DOMAIN requests :
       requests[id].retries = 1 => \E w \in timers : w <= requests[id].expiry

\* The timer lapses only when it leaves nobody who waits for the end of a first
\* time-out: whatever request is left has just been sent again.
LapsesIdle ==
  [][~Lapsed /\ Lapsed' => \A id \in DOMAIN requests' : requests'[id].retries = requests[id].retries + 1]_vars
=============================================================================
