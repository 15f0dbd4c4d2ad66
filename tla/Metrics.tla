------------------------------- MODULE Metrics -------------------------------
(***************************************************************************)
(* The metrics of lib/metrics.ts as plugins/observability.ts feeds them:   *)
(* a counter and a histogram per response, a gauge that each scrape reads  *)
(* from Redis, and the registry's account of what it could not record.     *)
(***************************************************************************)
EXTENDS Naturals, Sequences, FiniteSets, Functions, FiniteSetsExt

CONSTANTS
    Route, Status,  \* labels of a response: its method goes with its route
    Seconds,        \* how long a response may take
    Buckets,        \* the upper bounds of HTTP_DURATION_BUCKETS, ascending
    MaxSeries,      \* MAX_SERIES_PER_METRIC
    Scraper,        \* scrapes that may overlap
    MaxLength,      \* bound: the click queue
    MaxResponses,   \* bound: responses
    MaxErrors,      \* bound: scrapes that fail to reach Redis
    NULL

MetricsAssumption ==
    /\ Seconds \subseteq Nat
    /\ Buckets \in Seq(Nat) \ {<<>>}
    /\ \A i, j \in DOMAIN Buckets : i < j => Buckets[i] < Buckets[j]
    /\ {MaxSeries, MaxLength, MaxResponses, MaxErrors} \subseteq Nat

VARIABLES
    responses,  \* how many were sent
    counter,    \* httpRequestsTotal: a count per series
    histogram,  \* httpRequestDuration: counts, sum and count per series
    dropped,    \* per metric: droppedSeries
    redis,      \* the length of the queue, NULL while Redis is unreachable
    gauge,      \* queueDepth, NULL until it is first set
    errors,     \* metrics_collector_errors_total of the queue's collector
    scrape,     \* per scraper: its step, what it read, what it knew at first
    page        \* the last page rendered

vars == <<responses, counter, histogram, dropped, redis, gauge, errors, scrape,
          page>>

-----------------------------------------------------------------------------
NoSeries == <<>>
Idle == [pc |-> "idle", length |-> NULL, errors |-> 0]

Init ==
    /\ responses = 0
    /\ counter = NoSeries
    /\ histogram = NoSeries
    /\ dropped = [counter |-> 0, histogram |-> 0]
    /\ redis = 0
    /\ gauge = NULL
    /\ errors = 0
    /\ scrape = [s \in Scraper |-> Idle]
    /\ page = NULL

With(series, key, value) ==
    [k \in DOMAIN series \cup {key} |-> IF k = key THEN value ELSE series[k]]

NeverFull(series, key) == FALSE

\* A series that is new to a full metric is refused.
Full(series, key) ==
    /\ key \notin DOMAIN series
    /\ Cardinality(DOMAIN series) >= MaxSeries

\* Counter.inc
inc(series, key) ==
    With(series, key, IF key \in DOMAIN series THEN series[key] + 1 ELSE 1)

\* Histogram.observe: an observation lands in every bucket it is under.
Observed(entry, value) ==
    [counts |-> [i \in DOMAIN Buckets |->
                    IF value <= Buckets[i] THEN entry.counts[i] + 1
                    ELSE entry.counts[i]],
     sum |-> entry.sum + value,
     count |-> entry.count + 1]

NewEntry == [counts |-> [i \in DOMAIN Buckets |-> 0], sum |-> 0, count |-> 0]

observe(series, key, value) ==
    With(series, key,
         Observed(IF key \in DOMAIN series THEN series[key] ELSE NewEntry, value))

\* What a refusal leaves behind.
Forgotten(losses, metric, refused) == losses
Counted(losses, metric, refused) ==
    IF refused THEN [losses EXCEPT ![metric] = @ + 1] ELSE losses

\* onResponse: both metrics, in one turn of the event loop.
Respond ==
    /\ responses < MaxResponses
    /\ responses' = responses + 1
    /\ \E route \in Route, status \in Status, seconds \in Seconds :
           LET labels == <<route, status>>
               uncounted == Full(counter, labels)
               unobserved == Full(histogram, route) IN
               /\ counter' = IF uncounted THEN counter ELSE inc(counter, labels)
               /\ histogram' = IF unobserved THEN histogram
                               ELSE observe(histogram, route, seconds)
               /\ dropped' = Counted(Counted(dropped, "counter", uncounted),
                                     "histogram", unobserved)
    /\ UNCHANGED <<redis, gauge, errors, scrape, page>>

\* Clicks come and are written; Redis goes and comes back.
RedisMoves ==
    /\ \E length \in (0..MaxLength) \cup {NULL} :
           length # redis /\ redis' = length
    /\ UNCHANGED <<responses, counter, histogram, dropped, gauge, errors, scrape,
                   page>>

-----------------------------------------------------------------------------
\* render: the collectors run first, and a scrape waits for what they read.
Scrape(s) ==
    /\ scrape[s] = Idle
    /\ scrape' = [scrape EXCEPT ![s] = [pc |-> "reading", length |-> NULL,
                                        errors |-> errors]]
    /\ UNCHANGED <<responses, counter, histogram, dropped, redis, gauge, errors,
                   page>>

Read(s) ==
    /\ scrape[s].pc = "reading"
    /\ scrape' = [scrape EXCEPT ![s].pc = "collected", ![s].length = redis]
    /\ UNCHANGED <<responses, counter, histogram, dropped, redis, gauge, errors,
                   page>>

\* What the page says of the responses, and of those it leaves out.
Total(series) == FoldFunction(+, 0, series)

Durations == [r \in DOMAIN histogram |-> histogram[r].count]

SeriesDropped == dropped.counter + dropped.histogram

\* collect: the gauge is set to what was read, and a collector that threw is
\* counted instead. The next collector reads the heartbeats, which is to wait.
Collected(s) ==
    /\ scrape[s].pc = "collected"
    /\ IF scrape[s].length = NULL
       THEN /\ errors < MaxErrors
            /\ errors' = errors + 1
            /\ UNCHANGED gauge
       ELSE /\ gauge' = scrape[s].length
            /\ UNCHANGED errors
    /\ scrape' = [scrape EXCEPT ![s].pc = "render"]
    /\ UNCHANGED <<responses, counter, histogram, dropped, redis, page>>

\* The sum of the refusals and the page are one turn of the event loop.
Render(s) ==
    /\ scrape[s].pc = "render"
    /\ page' = [requests |-> Total(counter),
                durations |-> Total(Durations),
                dropped |-> SeriesDropped,
                sent |-> responses,
                fresh |-> scrape[s].length # NULL,
                newErrors |-> errors - scrape[s].errors]
    /\ scrape' = [scrape EXCEPT ![s] = Idle]
    /\ UNCHANGED <<responses, counter, histogram, dropped, redis, gauge, errors>>

Next ==
    \/ Respond \/ RedisMoves
    \/ \E s \in Scraper : Scrape(s) \/ Read(s) \/ Collected(s) \/ Render(s)

Spec == Init /\ [][Next]_vars

-----------------------------------------------------------------------------
\* Types, over the metrics of lib/metrics.ts.
TypeOK ==
    /\ responses \in 0..MaxResponses
    /\ DOMAIN counter \subseteq Route \X Status
    /\ DOMAIN histogram \subseteq Route
    /\ \A m \in {counter, histogram} : Cardinality(DOMAIN m) <= MaxSeries
    /\ dropped \in [counter : 0..MaxResponses, histogram : 0..MaxResponses]
    /\ redis \in 0..MaxLength \cup {NULL}
    /\ gauge \in 0..MaxLength \cup {NULL}
    /\ errors \in 0..MaxErrors

\* Every page adds up: the responses it counts, those it gives durations of
\* and those it says it refused are all that were sent, once per metric. A
\* metric that is full is visibly incomplete (metrics.ts seriesDropped).
PageAddsUp ==
    page # NULL =>
        page.requests + page.durations + page.dropped = 2 * page.sent

\* A histogram's buckets are cumulative, and no bucket holds more than all:
\* for any bound the bucket is the number of responses within it, which is
\* what a quantile is computed from (metrics.ts observe).
BucketsAreCumulative ==
    \A r \in DOMAIN histogram :
        LET counts == histogram[r].counts
            Holds(i, n) == \A j \in DOMAIN counts : j < i => counts[j] <= n IN
            /\ \A i \in DOMAIN counts : Holds(i, counts[i])
            /\ Holds(Len(Buckets) + 1, histogram[r].count)
            /\ histogram[r].sum >=
                   (histogram[r].count - counts[Len(Buckets)]) * Buckets[Len(Buckets)]

\* A page whose gauge is not this scrape's says so: the collector's errors
\* have grown since the scrape began, whatever scrapes overlap it
\* (metrics.ts render).
FrozenGaugeIsTold == page # NULL => (page.fresh \/ page.newErrors > 0)

\* What they rest on: each metric adds up with its refusals at all times, and a
\* scrape that read nothing has counted an error of its own.
SeriesInv ==
    /\ IsFiniteSet(DOMAIN counter) /\ IsFiniteSet(DOMAIN histogram)
    /\ \A k \in DOMAIN counter : counter[k] \in Nat
    /\ \A r \in DOMAIN histogram :
           histogram[r] \in [counts : [DOMAIN Buckets -> Nat], sum : Nat, count : Nat]
    /\ Total(counter) + dropped.counter = responses
    /\ Total(Durations) + dropped.histogram = responses

ScrapeInv ==
    /\ scrape \in [Scraper -> [pc : {"idle", "reading", "collected", "render"},
                               length : 0..MaxLength \cup {NULL}, errors : Nat]]
    /\ \A s \in Scraper :
        /\ scrape[s].errors <= errors
        /\ scrape[s].pc = "render" =>
               scrape[s].length # NULL \/ errors > scrape[s].errors

MetricsInv ==
    TypeOK /\ SeriesInv /\ ScrapeInv /\ PageAddsUp /\ BucketsAreCumulative
    /\ FrozenGaugeIsTold
=============================================================================
