---------------------------- MODULE SystemHealth ----------------------------
(***************************************************************************)
(* What an operator is told of the system: the heartbeats of               *)
(* lib/heartbeat.ts and the report of system.service.ts. Time is kept as   *)
(* the age of things, in ticks: the ages that no answer can depend on any  *)
(* more are not told apart.                                                *)
(***************************************************************************)
EXTENDS Naturals, Sequences, FiniteSets

CONSTANTS
    Worker,         \* workers the report names
    Leased,         \* those of them that only the holder of a lease runs
    Caller,         \* requests for a report that may overlap
    Interval,       \* per worker: its tick
    MinTtl,         \* 5 s
    CacheFor,       \* CACHE_MS
    QueueDegraded, QueueDown,   \* QUEUE_DEGRADED, QUEUE_DOWN
    MaxCheck,       \* bound: how long the queries of one report take
    NULL

HealthAssumption ==
    /\ Interval \in [Worker -> Nat \ {0}]
    /\ {MinTtl, CacheFor} \subseteq Nat \ {0}
    /\ {QueueDegraded, QueueDown, MaxCheck} \subseteq Nat
    /\ QueueDegraded <= QueueDown
    /\ Leased \subseteq Worker

VARIABLES
    up,         \* per dependency: whether it answers
    beat,       \* per worker: its heartbeat and the heartbeat's age, or NULL
    silent,     \* per worker: how long since any instance last beat
    cache,      \* the last report and its age, or NULL
    check,      \* per caller: the report being made, since when, what it found
    told        \* the report this step answers an operator with, if it does

vars == <<up, beat, silent, cache, check, told>>

-----------------------------------------------------------------------------
Dependency == {"database", "redis"}
Health == {"healthy", "degraded", "down"}

LargerOf(a, b) == IF a > b THEN a ELSE b

\* beat: the key lives for three ticks of its worker, and never less than MinTtl.
Ttl(w) == LargerOf(MinTtl, 3 * Interval[w])

\* After so long a silence nothing may call a worker well: its heartbeat was
\* read in its last moment, by queries that took their time, into a report
\* that was given in its last moment.
Longest(w) == (LargerOf(MinTtl, 3 * Interval[w]) - 1) + MaxCheck + (CacheFor - 1)

Grown(age, max) == IF age < max THEN age + 1 ELSE age

Init ==
    /\ up = [d \in Dependency |-> TRUE]
    /\ beat = [w \in Worker |-> NULL]
    /\ silent = [w \in Worker |-> Longest(w) + 1]
    /\ cache = NULL
    /\ check = [c \in Caller |-> NULL]
    /\ told = NULL

-----------------------------------------------------------------------------
\* What a tick reports of itself: it ran, it threw, or it was not its turn.
Details(w) == {"ran", "lastError"} \cup (IF w \in Leased THEN {"skipped"} ELSE {})

\* beat, of any instance that runs the worker, under one key for all; that
\* Redis does not answer is swallowed. A stopped worker is one that does not.
Beat(w) ==
    /\ \E detail \in Details(w) :
           beat' = IF up["redis"]
                   THEN [beat EXCEPT ![w] = [age |-> 0, detail |-> detail]]
                   ELSE beat
    /\ silent' = [silent EXCEPT ![w] = 0]
    /\ told' = NULL
    /\ UNCHANGED <<up, cache, check>>

Fails(d) ==
    /\ up[d]
    /\ up' = [up EXCEPT ![d] = FALSE]
    /\ told' = NULL
    /\ UNCHANGED <<beat, silent, cache, check>>

Recovers(d) ==
    /\ ~up[d]
    /\ up' = [up EXCEPT ![d] = TRUE]
    /\ told' = NULL
    /\ UNCHANGED <<beat, silent, cache, check>>

-----------------------------------------------------------------------------
DegradedIf(condition) == IF condition THEN "degraded" ELSE "healthy"

worstOf(verdicts) ==
    IF "down" \in verdicts THEN "down" ELSE DegradedIf("degraded" \in verdicts)

\* databaseCheck: an error is a verdict, and so is slowness.
databaseCheck(slow) == IF up["database"] THEN DegradedIf(slow) ELSE "down"

\* redisChecks: Redis itself, the click queue, and the clicks set aside, dead or
\* parked.
redisChecks(queue, aside) ==
    IF ~up["redis"] THEN {"down"}
    ELSE {IF queue >= QueueDown THEN "down" ELSE DegradedIf(queue >= QueueDegraded),
          DegradedIf(aside)}

\* workerCheck, of the heartbeat that is read: an absent one says it stopped,
\* one that failed or stands by says so, and an old one is late.
workerCheck(w) ==
    IF ~up["redis"] \/ beat[w] = NULL THEN "down"
    ELSE CASE beat[w].detail = "lastError" -> "degraded"
           [] beat[w].detail = "skipped"   -> "healthy"
           [] beat[w].detail = "ran"       ->
                  DegradedIf(beat[w].age > 3 * Interval[w])

\* check: a young enough report is given again.
KeptForGood(age) == age <= 2 * CacheFor
Fresh(age) == age < CacheFor

Cached ==
    /\ cache # NULL
    /\ Fresh(cache.age)
    /\ told' = cache.report
    /\ UNCHANGED <<up, beat, silent, cache, check>>

\* Otherwise everything is asked, one answer awaited after the other. Of the
\* answers only the workers' are told apart later: of the rest, the worst.
Begin(c) ==
    /\ check[c] = NULL
    /\ cache # NULL => ~Fresh(cache.age)
    /\ check' = [check EXCEPT ![c] = [age |-> 0, next |-> "database",
                                     worst |-> "healthy", worker |-> <<>>]]
    /\ told' = NULL
    /\ UNCHANGED <<up, beat, silent, cache>>

At(c, next) == check[c] # NULL /\ check[c].next = next

Found(c, verdicts, next) ==
    check' = [check EXCEPT ![c].next = next,
                           ![c].worst = worstOf(verdicts \cup {check[c].worst})]

AskDatabase(c) ==
    /\ At(c, "database")
    /\ \E slow \in BOOLEAN : Found(c, {databaseCheck(slow)}, "redis")
    /\ told' = NULL
    /\ UNCHANGED <<up, beat, silent, cache>>

AskRedis(c) ==
    /\ At(c, "redis")
    /\ \E queue \in {0, QueueDegraded, QueueDown}, aside \in BOOLEAN :
           Found(c, redisChecks(queue, aside), "workers")
    /\ told' = NULL
    /\ UNCHANGED <<up, beat, silent, cache>>

AskWorker(c, w) ==
    /\ At(c, "workers")
    /\ w \notin DOMAIN check[c].worker
    /\ LET known == check[c].worker
           asked == DOMAIN known \cup {w} IN
           check' = [check EXCEPT
               ![c].worker = [v \in asked |->
                                 IF v = w THEN workerCheck(v) ELSE known[v]],
               ![c].next = IF asked = Worker THEN "domain" ELSE @]
    /\ told' = NULL
    /\ UNCHANGED <<up, beat, silent, cache>>

\* domainChecks catches nothing: without the database there is no report. With
\* it the report is kept, and given.
AskDomain(c) ==
    /\ At(c, "domain")
    /\ IF up["database"]
       THEN \E owed \in BOOLEAN :
                LET found == worstOf({check[c].worst, DegradedIf(owed)})
                    workers == {check[c].worker[w] : w \in Worker}
                    report == [status |-> worstOf(workers \cup {found}),
                               worker |-> check[c].worker] IN
                    /\ cache' = [age |-> 0, report |-> report]
                    /\ told' = report
       ELSE told' = NULL /\ UNCHANGED cache
    /\ check' = [check EXCEPT ![c] = NULL]
    /\ UNCHANGED <<up, beat, silent>>

\* Replaying the dead letters forgets the report.
ReplayDeadLetters ==
    /\ up["redis"]
    /\ cache' = NULL
    /\ told' = NULL
    /\ UNCHANGED <<up, beat, silent, check>>

-----------------------------------------------------------------------------
\* A tick. Keys expire, everything grows older, and the queries of a report
\* end within the bound.
Tick ==
    /\ \A c \in Caller : check[c] # NULL => check[c].age < MaxCheck
    /\ beat' = [w \in Worker |->
                   IF beat[w] = NULL \/ beat[w].age + 1 >= Ttl(w) THEN NULL
                   ELSE [beat[w] EXCEPT !.age = @ + 1]]
    /\ silent' = [w \in Worker |-> Grown(silent[w], Longest(w) + 1)]
    /\ cache' = IF cache = NULL THEN NULL
                ELSE [cache EXCEPT !.age = Grown(@, CacheFor)]
    /\ check' = [c \in Caller |-> IF check[c] = NULL THEN NULL
                                  ELSE [check[c] EXCEPT !.age = @ + 1]]
    /\ told' = NULL
    /\ UNCHANGED up

Next ==
    \/ \E w \in Worker : Beat(w)
    \/ \E d \in Dependency : Fails(d) \/ Recovers(d)
    \/ \E c \in Caller :
           \/ Begin(c) \/ AskDatabase(c) \/ AskRedis(c) \/ AskDomain(c)
           \/ \E w \in Worker : AskWorker(c, w)
    \/ Cached \/ ReplayDeadLetters \/ Tick

Spec == Init /\ [][Next]_vars

-----------------------------------------------------------------------------
\* Types, over the state of lib/heartbeat.ts and system.service.ts.
Beats == [age : Nat, detail : {"ran", "lastError", "skipped"}]
Checks == [age : 0..MaxCheck, next : {"database", "redis", "workers", "domain"},
           worst : Health, worker : UNION {[W -> Health] : W \in SUBSET Worker}]
Reports == [status : Health, worker : [Worker -> Health]]

TypeOK ==
    /\ up \in [Dependency -> BOOLEAN]
    /\ beat \in [Worker -> Beats \cup {NULL}]
    /\ silent \in [Worker -> Nat]
    /\ \A w \in Worker :
           /\ beat[w] # NULL => beat[w].age < Ttl(w) /\ beat[w].detail \in Details(w)
           /\ silent[w] <= Longest(w) + 1
    /\ cache \in [age : 0..CacheFor, report : Reports] \cup {NULL}
    /\ told \in Reports \cup {NULL}
    /\ check \in [Caller -> Checks \cup {NULL}]

\* A worker that no instance runs any more is reported down, and the system
\* with it, once its heartbeat, the queries of a report and the report have
\* had their time: neither a report from a cache nor one whose slow queries
\* end after another's calls it well (heartbeat.ts, system.service.ts check).
SilenceIsTold ==
    told # NULL =>
        \A w \in Worker : silent[w] > Longest(w) =>
            told.worker[w] = "down" /\ told.status = "down"

\* What it rests on: whoever holds that a worker is well, its heartbeat, a
\* report being made or the one that is kept, has a bound on its silence.
BeatInv ==
    \A w \in Worker : beat[w] # NULL => silent[w] <= beat[w].age

CheckInv ==
    \A c \in Caller : check[c] # NULL =>
        /\ check[c].next = "domain" => DOMAIN check[c].worker = Worker
        /\ \A w \in DOMAIN check[c].worker : check[c].worker[w] # "down" =>
               silent[w] <= (Ttl(w) - 1) + check[c].age

CacheInv ==
    cache # NULL =>
        \A w \in Worker :
            IF cache.report.worker[w] = "down" THEN cache.report.status = "down"
            ELSE cache.age < CacheFor =>
                     silent[w] <= (Ttl(w) - 1) + MaxCheck + cache.age

HealthInv == TypeOK /\ BeatInv /\ CheckInv /\ CacheInv /\ SilenceIsTold
=============================================================================
