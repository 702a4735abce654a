-------------------------------- MODULE MCInfra -------------------------------
(***************************************************************************)
(* What the services stand on, one part at a time: a behaviour exercises   *)
(* the part it begins in, the others stay as they are initially.           *)
(***************************************************************************)
EXTENDS Integers

CONSTANTS f1, f2, d1, z1, s1, s2, t1, t2, NULL

VARIABLES
  part,
  t_data, t_fired, t_now, t_running,
  root, list, count, freed, made, it,
  glines, g_heap, g_timers, g_now,
  requests, fd, r_timers, next_timeout, wire, asked, answered, zones, r_now,
  side, ioq, come, gone, eols, line_len,
  mem, disk, ctx, acked, kept, full, up,
  cur, state, tries, bad, cycles, sock, linked, pings, phase, exited

timers   == <<t_data, t_fired, t_now, t_running>>
dict     == <<root, list, count, freed, made, it>>
glinevs  == <<glines, g_heap, g_timers, g_now>>
resolver == <<requests, fd, r_timers, next_timeout, wire, asked, answered, zones, r_now>>
queue    == <<side, ioq, come, gone, eols, line_len>>
saxdb    == <<mem, disk, ctx, acked, kept, full, up>>
link     == <<cur, state, tries, bad, cycles, sock, linked, pings, phase, exited>>

Parts == {"timers", "dict", "glines", "resolver", "queue", "saxdb", "link"}

T == INSTANCE Timers WITH Funcs <- {f1, f2}, Data <- {d1}, MaxTime <- 2, MaxTimers <- 6,
       data <- t_data, fired <- t_fired, now <- t_now, running <- t_running
D == INSTANCE DictSplay WITH Keys <- 1..4, MaxItems <- 5
G == INSTANCE Glines WITH Targets <- {t1, t2}, Durations <- {1, 2}, MaxTime <- 2, MaxLife <- 4,
       IntRange <- 16, heap <- g_heap, timers <- g_timers, now <- g_now
R == INSTANCE Resolver WITH Ids <- {1, 2}, Hosts <- 1..3, Zones <- {z1}, Servers <- {s1},
       Timeout <- 1, Retries <- 2, MaxTime <- 6, LastAsk <- 3, timers <- r_timers, now <- r_now
Q == INSTANCE IoQueue WITH StartSize <- 4, MaxLine <- 3, MaxBytes <- 11
S == INSTANCE Saxdb WITH Dbs <- {d1}, Sections <- {s1, s2}, Buffers <- 2, MaxVersion <- 1
U == INSTANCE Uplinks WITH N <- 2, MaxTries <- 2, MaxCycles <- 3, MaxTimers <- 3, timers <- pings

\* A clock at its bound starts nothing in the parts that rest.
Init ==
  /\ part \in Parts
  /\ T!Init /\ (part # "timers" => t_now = 2)
  /\ D!Init /\ G!Init /\ R!Init /\ S!Init /\ U!Init
  /\ Q!Init /\ (part # "queue" => side = "recv")

Next ==
  /\ UNCHANGED part
  /\ \/ part = "timers" /\ T!Next /\ UNCHANGED <<dict, glinevs, resolver, queue, saxdb, link>>
     \/ part = "dict" /\ D!Next /\ UNCHANGED <<timers, glinevs, resolver, queue, saxdb, link>>
     \/ part = "glines" /\ G!Next /\ UNCHANGED <<timers, dict, resolver, queue, saxdb, link>>
     \/ part = "resolver" /\ R!Next /\ UNCHANGED <<timers, dict, glinevs, queue, saxdb, link>>
     \/ part = "queue" /\ Q!Next /\ UNCHANGED <<timers, dict, glinevs, resolver, saxdb, link>>
     \/ part = "saxdb" /\ S!Next /\ UNCHANGED <<timers, dict, glinevs, resolver, queue, link>>
     \/ part = "link" /\ U!Next /\ UNCHANGED <<timers, dict, glinevs, resolver, queue, saxdb>>

Spec ==
  /\ Init /\ [][Next]_<<part, timers, dict, glinevs, resolver, queue, saxdb, link>>
  /\ WF_timers(T!Wake) /\ WF_timers(T!TimeqRun) /\ WF_timers(T!TimeqRunEnds)
  /\ WF_glinevs(G!GlineExpire)
  /\ WF_link(part = "link" /\ U!UplinkConnect)

\* The invariants and properties of the parts.
RefinesTimerBag   == []T!EarliestNext /\ T!RefinesTimerBag
RefinesMap        == []D!Sane /\ D!RefinesMap
TimersServeAll    == /\ []G!OneTimerServesAll /\ G!InForceKept /\ G!OutlivedDropped
                     /\ [](R!AnsweredOnce /\ R!TimerCovers) /\ R!LapsesIdle
LinesKept         == Q!StreamKept /\ Q!FirstLineKnown
WritesKept        == []S!SavedWhole /\ S!NothingAckedLost
LinkKept          == part = "link" => []U!LinkSound /\ U!ReconnectsUnstranded
=============================================================================
