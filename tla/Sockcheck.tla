------------------------------- MODULE Sockcheck -------------------------------
(***************************************************************************)
(* The proxy scanner: addresses are queued, a bounded number of clients    *)
(* scans them, each with one test after the other, and what was found out  *)
(* is cached.  What the scanned host sends is abstracted to the decision   *)
(* of the response it meets.  A client in phase "begin" is being started   *)
(* inside the handler that handed it its slot.  Source: src/mod-sockcheck.c. *)
(***************************************************************************)
EXTENDS Integers, Sequences, SequencesExt

CONSTANTS
  Addrs,
  Tests, Deep,    \* the tests; those with a second question
  MaxClients, CacheAge, GlineDuration, Reps,
  MaxTime,
  Enabled,        \* "STALE": clean-ups forget what is being scanned or waits
  NULL

VARIABLES
  cache,    \* checked_ip_dict
  pending,  \* pending_sci_list
  clients,  \* the scan of each address, or NULL
  slots,    \* client_list: the address that is scanned, or NULL
  num,      \* sockcheck_num_clients
  tests,    \* the order for new clients
  now

vars == <<cache, pending, clients, slots, num, tests, now>>

Client ==
  [ slot : 0..MaxClients-1, tests : SeqOf(Tests, 2), index : 1..2, rep : 0..1,
    phase : {"begin", "connect", "ask", "deeper"}, timers : 0..2 ]

Init ==
  /\ cache = [a \in Addrs |-> NULL] /\ pending = <<>> /\ clients = [a \in Addrs |-> NULL]
  /\ slots = [n \in 0..MaxClients-1 |-> NULL] /\ num = 0
  /\ tests \in {<<t>> : t \in Tests} /\ now = 0

Scans   == {a \in Addrs : clients[a] # NULL}
Settled == \A a \in Scans : clients[a].phase # "begin"

-----------------------------------------------------------------------------
\* sockcheck_start_client: the oldest address that waits gets the slot.
Started(n, queue, cs) ==
  /\ pending' = Tail(queue) /\ slots' = [slots EXCEPT ![n] = Head(queue)]
  /\ clients' = [cs EXCEPT ![Head(queue)] =
       [slot |-> n, tests |-> tests', index |-> 1, rep |-> 0, phase |-> "begin", timers |-> 0]]

\* What is known of the address is still good.
Cached(a) ==
  /\ cache[a] # NULL
  /\ \/ cache[a].decision = "CHECKING"
     \/ now <= cache[a].touched + IF cache[a].decision = "ACCEPT" THEN CacheAge ELSE GlineDuration

\* sockcheck_queue_address.
QueueAddress(a) ==
  /\ Settled /\ ~Cached(a) /\ UNCHANGED <<tests, now>>
  /\ cache' = [cache EXCEPT ![a] = [decision |-> "CHECKING", touched |-> now]]
  /\ IF num < MaxClients THEN num' = num + 1 /\ Started(num, Append(pending, a), clients)
     ELSE pending' = Append(pending, a) /\ UNCHANGED <<num, slots, clients>>

\* sockcheck_decide: the test that found a proxy will be the first for those to
\* come, and the slot goes to the next address.
Promoted(t) == <<t>> \o SelectSeq(tests, LAMBDA x : x # t)

HandsOn == num - 1 < MaxClients /\ pending # <<>>

Decide(a, decision) ==
  LET c == clients[a]
  IN /\ cache' = [cache EXCEPT ![a] = [decision |-> decision, touched |-> now]]
     /\ tests' = IF decision = "REJECT" THEN Promoted(c.tests[c.index]) ELSE tests
     /\ IF HandsOn THEN num' = num /\ Started(c.slot, pending, [clients EXCEPT ![a] = NULL])
        ELSE /\ num' = num - 1 /\ clients' = [clients EXCEPT ![a] = NULL]
             /\ slots' = [slots EXCEPT ![c.slot] = NULL] /\ UNCHANGED pending
     /\ UNCHANGED now

\* sockcheck_begin_test.  Tests that cannot be connected to are skipped; without
\* a test that is left the address is accepted.
BeginTest(a, opened) ==
  LET c == clients[a]
  IN /\ a \in Scans /\ c.phase = "begin"
     /\ IF opened
          THEN /\ clients' = [clients EXCEPT ![a].phase = "connect", ![a].timers = 1]
               /\ UNCHANGED <<cache, pending, slots, num, tests, now>>
        ELSE IF c.index < Len(c.tests)
          THEN /\ clients' = [clients EXCEPT ![a].index = @ + 1]
               /\ UNCHANGED <<cache, pending, slots, num, tests, now>>
        ELSE Decide(a, "ACCEPT")

\* sockcheck_connected: the first question; its timer comes on top.
Connected(a) ==
  /\ Settled /\ a \in Scans /\ clients[a].phase = "connect"
  /\ clients' = [clients EXCEPT ![a].phase = "ask", ![a].timers = 2]
  /\ UNCHANGED <<cache, pending, slots, num, tests, now>>

\* sockcheck_advance, for a response, an error, the end of the connection or the
\* time-out.
Advance(a, decision) ==
  LET c == clients[a]
  IN /\ Settled /\ a \in Scans
     /\ IF decision = "CHECKING"
          THEN /\ c.phase = "ask" /\ c.tests[c.index] \in Deep
               /\ clients' = [clients EXCEPT ![a].phase = "deeper", ![a].timers = 1]
               /\ UNCHANGED <<cache, pending, slots, num, tests, now>>
        ELSE IF decision = "ACCEPT" /\ (c.rep + 1 < Reps \/ c.index < Len(c.tests))
          THEN /\ clients' = [clients EXCEPT ![a] =
                    IF c.rep + 1 < Reps THEN [c EXCEPT !.rep = @ + 1, !.phase = "begin", !.timers = 0]
                    ELSE [c EXCEPT !.index = @ + 1, !.rep = 0, !.phase = "begin", !.timers = 0]]
               /\ UNCHANGED <<cache, pending, slots, num, tests, now>>
        ELSE Decide(a, decision)
TimeOut(a) == a \in Scans /\ clients[a].timers > 0 /\ \E d \in {"ACCEPT", "CHECKING"} : Advance(a, d)

-----------------------------------------------------------------------------
\* CLEARHOST, sockcheck_uncache_host.
UncacheHost(a) ==
  /\ Settled /\ (cache[a] # NULL => cache[a].decision # "CHECKING")
  /\ cache' = [cache EXCEPT ![a] = NULL] /\ UNCHANGED <<pending, clients, slots, num, tests, now>>

\* sockcheck_clean_cache forgets what is old, but for the addresses in the slots.
Old(a) == /\ cache[a] # NULL /\ \A n \in DOMAIN slots : slots[n] # a
          /\ cache[a].touched + (IF cache[a].decision = "REJECT" THEN GlineDuration ELSE CacheAge) < now
CleanCache ==
  /\ Settled /\ ("STALE" \in Enabled \/ \A a \in Addrs : Old(a) => cache[a].decision # "CHECKING")
  /\ cache' = [a \in Addrs |-> IF Old(a) THEN NULL ELSE cache[a]]
  /\ UNCHANGED <<pending, clients, slots, num, tests, now>>

\* DEFPROXY.
AddTest(t) == /\ Settled /\ ~Contains(tests, t) /\ tests' = Append(tests, t)
              /\ UNCHANGED <<cache, pending, clients, slots, num, now>>

Tick == Settled /\ now < MaxTime /\ now' = now + 1 /\ UNCHANGED <<cache, pending, clients, slots, num, tests>>

Next ==
  \/ \E a \in Addrs :
       \/ QueueAddress(a) \/ Connected(a) \/ TimeOut(a) \/ UncacheHost(a)
       \/ \E opened \in BOOLEAN : BeginTest(a, opened)
       \/ \E d \in {"CHECKING", "ACCEPT", "REJECT"} : Advance(a, d)
  \/ CleanCache \/ Tick \/ \E t \in Tests : AddTest(t)

Spec == Init /\ [][Next]_vars

-----------------------------------------------------------------------------
\* An address is being checked just if it waits or is scanned; addresses wait
\* only while every slot is taken; the scans are counted right, each has a timer
\* to go on, and no test is lost or twice on the list.
ScansExact ==
  /\ \A a \in Scans : clients[a] \in Client /\ (clients[a].timers > 0 \/ clients[a].phase = "begin")
  /\ \A a \in Addrs : (cache[a] # NULL /\ cache[a].decision = "CHECKING") <=> (a \in Scans \/ Contains(pending, a))
  /\ \A a \in Scans : ~Contains(pending, a)
  /\ IsInjective(pending) /\ IsInjective(tests)
  /\ num = Cardinality(Scans) /\ num <= MaxClients /\ (pending # <<>> => num = MaxClients)
=============================================================================
