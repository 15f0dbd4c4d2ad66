--------------------------- MODULE OperatorsProofs ---------------------------
(***************************************************************************)
(* Proofs about what operators are told and about the transport of one     *)
(* webhook attempt, component by component: for any workers and intervals, *)
(* any callers, any timeout, any labels and bucket bounds, any addresses   *)
(* and response codes, and any bound on what is counted.                   *)
(***************************************************************************)
EXTENDS MCWebhooks, Sequences, SumTheorems

-----------------------------------------------------------------------------
(* The transport: one attempt, from the lookup to what is recorded of it. *)

LEMMA TransportParameters ==
    /\ Private \subseteq Address
    /\ Timeout \in Nat \ {0} /\ MaxBody \in Nat
    /\ NULL \notin Address /\ NULL \notin Code /\ NULL \notin Nat
    /\ NULL \notin Transport!Errors
BY OutboundAssumption DEF Transport!TransportAssumption

LEMMA TransportInit == Transport!Init => Transport!AttemptInv
BY TransportParameters
DEF Transport!Init, Transport!AttemptInv, Transport!TypeOK, Transport!ExchangeInv,
    Transport!AttemptIsTrue

\* What an attempt is settled with.
LEMMA Results ==
    /\ \A e \in Transport!Errors :
           /\ Transport!Failed(e).statusCode = NULL
           /\ Transport!Failed(e).error = e
           /\ Transport!Failed(e) \in Transport!Attempts
    /\ code \in Code => \A e \in Transport!Errors \cup {NULL} :
           /\ Transport!Arrived(e).statusCode = code
           /\ Transport!Arrived(e).error = e
           /\ Transport!Arrived(e) \in Transport!Attempts
BY DEF Transport!Failed, Transport!Arrived, Transport!Attempts

LEMMA ErrorsListed ==
    {"invalid url", "private", "dns", "request", "response", "timeout"}
        = Transport!Errors
BY DEF Transport!Errors

LEMMA Failures ==
    \A e \in {"invalid url", "private", "dns", "request", "response", "timeout"} :
        /\ Transport!Failed(e) # NULL => Transport!Failed(e).statusCode = NULL
        /\ Transport!Failed(e).error = e /\ e # NULL
        /\ Transport!Failed(e) \in Transport!Attempts
BY ErrorsListed, Results, TransportParameters, Zenon

LEMMA TransportNext ==
    ASSUME Transport!AttemptInv, Transport!Next PROVE Transport!AttemptInv'
  <1>1. /\ Transport!TypeOK /\ Transport!ExchangeInv /\ Transport!AttemptIsTrue
    BY DEF Transport!AttemptInv
  <1>2. ASSUME NEW url \in Transport!Urls, Transport!Send(url)
        PROVE  Transport!AttemptInv'
    <2>1. Transport!TypeOK'
      BY <1>1, <1>2, TransportParameters, ErrorsListed, Results
      DEF Transport!Send, Transport!Resolved, Transport!TypeOK, Transport!ExchangeInv
    <2>2. Transport!ExchangeInv'
      BY <1>1, <1>2, TransportParameters, ErrorsListed, Results
      DEF Transport!Send, Transport!Resolved, Transport!TypeOK, Transport!ExchangeInv
    <2>3. Transport!AttemptIsTrue'
      <3>1. address' = address /\ looked' = looked /\ code' = code
        BY <1>2 DEF Transport!Send
      <3>2. CASE attempt' = Transport!Failed("invalid url") /\ pc = "idle"
        BY <1>1, Failures, <3>1, <3>2 DEF Transport!ExchangeInv, Transport!AttemptIsTrue
      <3>3. CASE attempt' = attempt
        BY <1>1, <3>1, <3>3 DEF Transport!AttemptIsTrue
      <3>4. QED
        BY <1>2, <3>2, <3>3, Zenon DEF Transport!Send, Transport!Resolved
    <2>4. QED
      BY <2>1, <2>2, <2>3 DEF Transport!AttemptInv
  <1>3. ASSUME NEW found \in SUBSET Address \ {{}}, Transport!Looked(found)
        PROVE  Transport!AttemptInv'
    <2>1. Transport!Usable(found) \subseteq found \ Private
      BY DEF Transport!Usable, Transport!isBlockedAddress
    <2>2. CASE Transport!Usable(found) = {}
      <3>1. /\ looked' = found
            /\ attempt' = Transport!Failed("private") /\ pc' = "settled"
            /\ UNCHANGED <<address, deadline>>
            /\ dialled' = 0 /\ UNCHANGED <<code, seen, body>>
            /\ pc = "lookup"
        BY <1>3, <2>2 DEF Transport!Looked, Transport!Resolved
      <3>2. Transport!TypeOK' /\ Transport!ExchangeInv'
        BY <1>1, <1>3, <3>1, ErrorsListed, Results
        DEF Transport!TypeOK, Transport!ExchangeInv
      <3>3. Transport!AttemptIsTrue'
        BY <1>1, <3>1, Failures
        DEF Transport!ExchangeInv, Transport!AttemptIsTrue
      <3>4. QED
        BY <3>2, <3>3 DEF Transport!AttemptInv
    <2>3. CASE Transport!Usable(found) # {}
      <3>1. /\ looked' = found
            /\ address' \in found \ Private
            /\ deadline' = 0 /\ pc' = "dialling" /\ attempt' = attempt
            /\ dialled' = 0 /\ UNCHANGED <<code, seen, body>>
            /\ pc = "lookup"
        BY <1>3, <2>1, <2>3 DEF Transport!Looked
      <3>2. Transport!TypeOK' /\ Transport!ExchangeInv'
        BY <1>1, <1>3, <3>1, TransportParameters
        DEF Transport!TypeOK, Transport!ExchangeInv
      <3>3. Transport!AttemptIsTrue'
        BY <1>1, <3>1
        DEF Transport!ExchangeInv, Transport!AttemptIsTrue
      <3>4. QED
        BY <3>2, <3>3 DEF Transport!AttemptInv
    <2>5. QED
      BY <2>2, <2>3
  <1>4. CASE Transport!LookupFails
    <2>1. Transport!TypeOK'
      BY <1>1, <1>4, TransportParameters, ErrorsListed, Results
      DEF Transport!LookupFails, Transport!Resolved, Transport!TypeOK, Transport!ExchangeInv
    <2>2. Transport!ExchangeInv'
      BY <1>1, <1>4, TransportParameters, ErrorsListed, Results
      DEF Transport!LookupFails, Transport!Resolved, Transport!TypeOK, Transport!ExchangeInv
    <2>3. Transport!AttemptIsTrue'
      BY <1>1, <1>4, TransportParameters, ErrorsListed, Results
      DEF Transport!LookupFails, Transport!Resolved, Transport!TypeOK, Transport!ExchangeInv,
          Transport!AttemptIsTrue
    <2>4. QED
      BY <2>1, <2>2, <2>3 DEF Transport!AttemptInv
  <1>5. CASE Transport!Dribble
    <2>1. Transport!TypeOK'
      BY <1>1, <1>5, TransportParameters
      DEF Transport!Dribble, Transport!Unmoved, Transport!TypeOK, Transport!ExchangeInv
    <2>2. Transport!ExchangeInv'
      BY <1>1, <1>5, TransportParameters
      DEF Transport!Dribble, Transport!Unmoved, Transport!TypeOK, Transport!ExchangeInv
    <2>3. Transport!AttemptIsTrue'
      BY <1>1, <1>5, TransportParameters
      DEF Transport!Dribble, Transport!Unmoved, Transport!TypeOK, Transport!ExchangeInv,
          Transport!AttemptIsTrue
    <2>4. QED
      BY <2>1, <2>2, <2>3 DEF Transport!AttemptInv
  <1>6. CASE Transport!RequestError
    <2>1. Transport!TypeOK'
      BY <1>1, <1>6, TransportParameters, ErrorsListed, Results
      DEF Transport!RequestError, Transport!Settle, Transport!Resolved, Transport!TypeOK, Transport!ExchangeInv
    <2>2. Transport!ExchangeInv'
      BY <1>1, <1>6, TransportParameters, ErrorsListed, Results
      DEF Transport!RequestError, Transport!Settle, Transport!Resolved, Transport!TypeOK, Transport!ExchangeInv
    <2>3. Transport!AttemptIsTrue'
      <3>1. /\ address' = address /\ looked' = looked /\ code' = code
            /\ address # NULL /\ code = NULL
        BY <1>6 DEF Transport!RequestError
      <3>2. CASE attempt' = Transport!Failed("request")
        BY <1>1, Failures, <3>1, <3>2 DEF Transport!AttemptIsTrue
      <3>3. CASE attempt' = attempt
        BY <1>1, <3>1, <3>3 DEF Transport!AttemptIsTrue
      <3>4. QED
        BY <1>6, <3>2, <3>3
        DEF Transport!RequestError, Transport!Settle, Transport!Resolved
    <2>4. QED
      BY <2>1, <2>2, <2>3 DEF Transport!AttemptInv
  <1>7. ASSUME NEW c \in Code, Transport!Response(c) PROVE Transport!AttemptInv'
    <2>1. Transport!TypeOK'
      BY <1>1, <1>7, TransportParameters
      DEF Transport!Response, Transport!TypeOK, Transport!ExchangeInv
    <2>2. Transport!ExchangeInv'
      BY <1>1, <1>7, TransportParameters
      DEF Transport!Response, Transport!TypeOK, Transport!ExchangeInv
    <2>3. Transport!AttemptIsTrue'
      BY <1>1, <1>7, TransportParameters
      DEF Transport!Response, Transport!TypeOK, Transport!ExchangeInv,
          Transport!AttemptIsTrue
    <2>4. QED
      BY <2>1, <2>2, <2>3 DEF Transport!AttemptInv
  <1>8. CASE Transport!Data
    <2>1. Transport!TypeOK'
      BY <1>1, <1>8, TransportParameters
      DEF Transport!Data, Transport!Unmoved, Transport!TypeOK, Transport!ExchangeInv
    <2>2. Transport!ExchangeInv'
      BY <1>1, <1>8, TransportParameters
      DEF Transport!Data, Transport!Unmoved, Transport!TypeOK, Transport!ExchangeInv
    <2>3. Transport!AttemptIsTrue'
      BY <1>1, <1>8, TransportParameters
      DEF Transport!Data, Transport!Unmoved, Transport!TypeOK, Transport!ExchangeInv,
          Transport!AttemptIsTrue
    <2>4. QED
      BY <2>1, <2>2, <2>3 DEF Transport!AttemptInv
  <1>9. CASE Transport!End
    <2>1. /\ pc = "body" /\ body' = "ended" /\ attempt = NULL
          /\ attempt' = Transport!Arrived(NULL)
          /\ pc' = "settled" /\ deadline' = NULL
          /\ UNCHANGED <<address, looked, dialled, code, seen>>
      BY <1>1, <1>9
      DEF Transport!End, Transport!Settle, Transport!Resolved, Transport!ExchangeInv
    <2>2. code \in Code /\ code # NULL
      BY <1>1, <2>1 DEF Transport!TypeOK, Transport!ExchangeInv
    <2>3. /\ Transport!Arrived(NULL).statusCode = code
          /\ Transport!Arrived(NULL).error = NULL
          /\ Transport!Arrived(NULL) \in Transport!Attempts
      BY <2>2, Results
    <2>4. Transport!TypeOK'
      BY <1>1, <2>1, <2>3 DEF Transport!TypeOK
    <2>5. Transport!ExchangeInv'
      BY <1>1, <2>1 DEF Transport!ExchangeInv
    <2>6. Transport!AttemptIsTrue'
      <3>1. \A e \in {"private", "dns", "invalid url"} : e # NULL
        BY ErrorsListed, TransportParameters
      <3>2. QED
        BY <1>1, <2>1, <2>2, <2>3, <3>1 DEF Transport!AttemptIsTrue
    <2>7. QED
      BY <2>4, <2>5, <2>6 DEF Transport!AttemptInv
  <1>10. CASE Transport!Broken
    <2>1. PICK error \in {"response", NULL} :
              /\ pc \in {"body", "settled"} /\ code # NULL /\ body' = "ended"
              /\ UNCHANGED <<address, looked, dialled, code, seen>>
              /\ IF attempt # NULL THEN UNCHANGED <<attempt, deadline, pc>>
                 ELSE /\ attempt' = Transport!Arrived(error)
                      /\ pc' = "settled" /\ deadline' = NULL
      BY <1>10 DEF Transport!Broken, Transport!Settle, Transport!Resolved
    <2>2. /\ Transport!Arrived(error).statusCode = code
          /\ Transport!Arrived(error).error \notin {"private", "dns", "invalid url"}
          /\ Transport!Arrived(error) \in Transport!Attempts
      <3>1. code \in Code /\ error \in Transport!Errors \cup {NULL}
        BY <1>1, ErrorsListed, <2>1 DEF Transport!TypeOK
      <3>2. \A e \in {"private", "dns", "invalid url"} : e # NULL
        BY ErrorsListed, TransportParameters
      <3>3. QED
        BY <2>1, <3>1, <3>2, Results
    <2>3. Transport!TypeOK'
      BY <1>1, <2>1, <2>2, TransportParameters DEF Transport!TypeOK, Transport!ExchangeInv
    <2>4. Transport!ExchangeInv'
      BY <1>1, <2>1, TransportParameters DEF Transport!TypeOK, Transport!ExchangeInv
    <2>5. Transport!AttemptIsTrue'
      BY <1>1, <2>1, <2>2 DEF Transport!AttemptIsTrue
    <2>6. QED
      BY <2>3, <2>4, <2>5 DEF Transport!AttemptInv
  <1>11. CASE Transport!DeadlineDue
    <2>1. /\ deadline = Timeout /\ pc \in {"dialling", "body"} /\ attempt = NULL
          /\ attempt' = Transport!Failed("timeout")
          /\ pc' = "settled" /\ deadline' = NULL
          /\ body' = IF body = "open" THEN "destroyed" ELSE body
          /\ UNCHANGED <<address, looked, dialled, code, seen>>
      BY <1>1, <1>11, TransportParameters
      DEF Transport!DeadlineDue, Transport!Settle, Transport!Resolved,
          Transport!TypeOK, Transport!ExchangeInv
    <2>2. /\ Transport!Failed("timeout").statusCode = NULL
          /\ Transport!Failed("timeout").error = "timeout" /\ "timeout" # NULL
          /\ Transport!Failed("timeout") \in Transport!Attempts
      BY ErrorsListed, Results, TransportParameters
    <2>3. Transport!TypeOK'
      BY <1>1, <2>1, <2>2 DEF Transport!TypeOK
    <2>4. Transport!ExchangeInv'
      BY <1>1, <2>1 DEF Transport!ExchangeInv
    <2>5. Transport!AttemptIsTrue'
      BY <1>1, <2>1, <2>2 DEF Transport!AttemptIsTrue
    <2>6. QED
      BY <2>3, <2>4, <2>5 DEF Transport!AttemptInv
  <1>12. CASE Transport!Tick
    <2>1. Transport!TypeOK'
      BY <1>1, <1>12, TransportParameters
      DEF Transport!Tick, Transport!TypeOK, Transport!ExchangeInv
    <2>2. Transport!ExchangeInv'
      BY <1>1, <1>12, TransportParameters
      DEF Transport!Tick, Transport!TypeOK, Transport!ExchangeInv
    <2>3. Transport!AttemptIsTrue'
      BY <1>1, <1>12, TransportParameters
      DEF Transport!Tick, Transport!TypeOK, Transport!ExchangeInv,
          Transport!AttemptIsTrue
    <2>4. QED
      BY <2>1, <2>2, <2>3 DEF Transport!AttemptInv
  <1>13. QED
    BY <1>2, <1>3, <1>4, <1>5, <1>6, <1>7, <1>8, <1>9, <1>10, <1>11, <1>12, Zenon
    DEF Transport!Next

-----------------------------------------------------------------------------
(* The readiness probe. *)

LEMMA ProbeParameters == Timeout \in Nat \ {0} /\ NULL \notin {"ok", "unready"}
BY OutboundAssumption DEF Probes!ReadinessAssumption

LEMMA ProbeInit == Probes!Init => Probes!ProbeInv
BY ProbeParameters
DEF Probes!Init, Probes!ProbeInv, Probes!TypeOK, Probes!NoProbe, Probes!Dependency

LEMMA ProbeNext ==
    ASSUME Probes!ProbeInv, Probes!Next PROVE Probes!ProbeInv'
  <1> DEFINE Probe == [age : 0..Timeout, pending : SUBSET Probes!Dependency,
                       status : {NULL, "ok", "unready"}]
  <1>1. /\ running \in [Probes!Dependency -> BOOLEAN]
        /\ downFor \in [Probes!Dependency -> 0..(Timeout + 1)]
        /\ probe \in Probe
        /\ \A d \in Probes!Dependency :
               /\ running[d] => downFor[d] = 0
               /\ (probe.status = "ok" /\ d \notin probe.pending)
                      => downFor[d] <= probe.age
    BY DEF Probes!ProbeInv, Probes!TypeOK
  <1>2. /\ probe.age \in 0..Timeout /\ probe.pending \in SUBSET Probes!Dependency
        /\ probe.status \in {NULL, "ok", "unready"}
    BY <1>1
  \* A check that settles well found its dependency up.
  <1>3. ASSUME NEW d \in Probes!Dependency, NEW ok \in BOOLEAN,
               probe' = Probes!Settled(d, ok), UNCHANGED <<running, downFor>>,
               ok => downFor[d] = 0
        PROVE  Probes!ProbeInv'
    <2>1. /\ probe'.age = probe.age /\ probe'.pending = probe.pending \ {d}
          /\ probe'.status = IF ok THEN probe.status ELSE "unready"
          /\ probe' \in Probe
      BY <1>1, <1>2, <1>3 DEF Probes!Settled
    <2> HIDE DEF Probe
    <2>2. ASSUME NEW e \in Probes!Dependency,
                 probe'.status = "ok", e \notin probe'.pending
          PROVE  downFor[e] <= probe'.age
      BY <1>1, <1>2, <1>3, <2>1, <2>2
    <2>3. QED
      BY <1>1, <1>3, <2>1, <2>2 DEF Probes!ProbeInv, Probes!TypeOK, Probe
  <1>4. ASSUME NEW d \in Probes!Dependency, Probes!Answers(d) \/ Probes!TimesOut(d)
        PROVE  Probes!ProbeInv'
    BY <1>1, <1>3, <1>4 DEF Probes!Answers, Probes!TimesOut
  <1>5. ASSUME NEW d \in Probes!Dependency, Probes!Fails(d) \/ Probes!Recovers(d)
        PROVE  Probes!ProbeInv'
    <2>1. probe' = probe
      BY <1>5 DEF Probes!Fails, Probes!Recovers
    <2>2. CASE Probes!Fails(d)
      BY <1>1, <1>2, <2>1, <2>2 DEF Probes!Fails, Probes!ProbeInv, Probes!TypeOK
    <2>3. CASE Probes!Recovers(d)
      BY <1>1, <1>2, <2>1, <2>3, ProbeParameters
      DEF Probes!Recovers, Probes!ProbeInv, Probes!TypeOK
    <2>4. QED
      BY <1>5, <2>2, <2>3
  <1>6. CASE Probes!Probe
    BY <1>1, <1>6, ProbeParameters DEF Probes!Probe, Probes!ProbeInv, Probes!TypeOK
  <1>7. CASE Probes!Tick
    <2>1. /\ probe'.status = "ok" => probe.status = "ok" /\ probe.pending # {}
          /\ probe.pending # {} => /\ probe'.age = probe.age + 1
                                   /\ probe'.pending = probe.pending
                                   /\ probe.age < Timeout
          /\ probe' \in Probe
      <3>1. CASE probe.pending = {}
        BY <1>7, <3>1, ProbeParameters DEF Probes!Tick, Probes!NoProbe
      <3>2. CASE probe.pending # {}
        BY <1>1, <1>2, <1>7, <3>2, ProbeParameters DEF Probes!Tick
      <3>3. QED
        BY <3>1, <3>2
    <2>2. /\ running' = running
          /\ downFor' \in [Probes!Dependency -> 0..(Timeout + 1)]
          /\ \A d \in Probes!Dependency :
                 /\ running[d] => downFor'[d] = 0
                 /\ downFor'[d] <= downFor[d] + 1
      BY <1>1, <1>7, ProbeParameters DEF Probes!Tick
    <2> HIDE DEF Probe
    <2>3. ASSUME NEW e \in Probes!Dependency,
                 probe'.status = "ok", e \notin probe'.pending
          PROVE  downFor'[e] <= probe'.age
      <3>1. downFor[e] \in Nat /\ downFor'[e] \in Nat
        BY <1>1, <2>2
      <3>2. QED
        BY <1>1, <1>2, <2>1, <2>2, <2>3, <3>1
    <2>4. QED
      BY <1>1, <2>1, <2>2, <2>3 DEF Probes!ProbeInv, Probes!TypeOK, Probe
  <1>8. QED
    BY <1>4, <1>5, <1>6, <1>7 DEF Probes!Next

LEMMA ReadinessTold ==
    ASSUME Probes!ProbeInv PROVE Probes!ReadyWasUp
  <1>1. /\ downFor \in [Probes!Dependency -> 0..(Timeout + 1)]
        /\ probe.age \in 0..Timeout
    BY DEF Probes!ProbeInv, Probes!TypeOK
  <1>2. QED
    BY <1>1, ProbeParameters DEF Probes!ProbeInv, Probes!ReadyWasUp

-----------------------------------------------------------------------------
(* The health report, of beats, checks that overlap and a cache. *)

LEMMA HealthParameters ==
    /\ Interval \in [Worker -> Nat \ {0}]
    /\ MinTtl \in Nat \ {0} /\ CacheFor \in Nat \ {0} /\ MaxCheck \in Nat
    /\ \A w \in Worker :
           /\ Reporting!Ttl(w) \in Nat \ {0}
           /\ Reporting!Longest(w) =
                  (Reporting!Ttl(w) - 1) + MaxCheck + (CacheFor - 1)
BY OutboundAssumption
DEF Reporting!HealthAssumption, Reporting!Ttl, Reporting!Longest, Reporting!LargerOf

LEMMA Verdicts ==
    \A V \in SUBSET Reporting!Health :
        /\ Reporting!worstOf(V) \in Reporting!Health
        /\ "down" \in V => Reporting!worstOf(V) = "down"
BY DEF Reporting!worstOf, Reporting!DegradedIf, Reporting!Health

LEMMA HealthInit == Reporting!Init => Reporting!HealthInv
BY HealthParameters
DEF Reporting!Init, Reporting!HealthInv, Reporting!TypeOK, Reporting!BeatInv,
    Reporting!CheckInv, Reporting!CacheInv, Reporting!SilenceIsTold,
    Reporting!Dependency

\* What a step that concerns no heartbeat and ends no report leaves alone.
LEMMA HealthQuiet ==
    ASSUME Reporting!HealthInv,
           up' \in [Reporting!Dependency -> BOOLEAN], answer' = NULL,
           UNCHANGED <<beat, silent>>,
           check' \in [Caller -> Reporting!Checks \cup {NULL}], Reporting!CheckInv',
           cache' \in {cache, NULL}
    PROVE  Reporting!HealthInv'
  <1>1. Reporting!TypeOK'
    BY DEF Reporting!HealthInv, Reporting!TypeOK
  <1>2. Reporting!CacheInv'
    BY DEF Reporting!HealthInv, Reporting!CacheInv
  <1>3. Reporting!BeatInv' /\ Reporting!SilenceIsTold'
    BY DEF Reporting!HealthInv, Reporting!BeatInv, Reporting!SilenceIsTold
  <1>4. QED
    BY <1>1, <1>2, <1>3 DEF Reporting!HealthInv

LEMMA HealthBeat ==
    ASSUME Reporting!HealthInv, NEW w \in Worker, Reporting!Beat(w)
    PROVE  Reporting!HealthInv'
  <1>1. /\ Reporting!TypeOK /\ Reporting!BeatInv /\ Reporting!CheckInv
        /\ Reporting!CacheInv
    BY DEF Reporting!HealthInv
  <1>2. PICK detail \in Reporting!Details(w) :
            beat' = IF up["redis"]
                    THEN [beat EXCEPT ![w] = [age |-> 0, detail |-> detail]]
                    ELSE beat
    BY DEF Reporting!Beat
  <1>3. /\ silent' = [silent EXCEPT ![w] = 0] /\ answer' = NULL
        /\ UNCHANGED <<up, cache, check>>
    BY DEF Reporting!Beat
  <1>4. /\ detail \in {"ran", "lastError", "skipped"}
        /\ [age |-> 0, detail |-> detail] \in Reporting!Beats
    BY DEF Reporting!Details, Reporting!Beats
  <1>5. /\ silent \in [Worker -> Nat] /\ silent' \in [Worker -> Nat]
        /\ silent'[w] = 0 /\ \A v \in Worker : silent'[v] <= silent[v]
    BY <1>1, <1>3 DEF Reporting!TypeOK
  <1>6. /\ beat' \in [Worker -> Reporting!Beats \cup {NULL}]
        /\ \A v \in Worker :
               \/ v # w /\ beat'[v] = beat[v]
               \/ v = w /\ beat'[v] \in {beat[v], [age |-> 0, detail |-> detail]}
    BY <1>1, <1>2, <1>4 DEF Reporting!TypeOK
  <1>7. \A v \in Worker : beat[v] # NULL => beat[v].age \in Nat
    BY <1>1 DEF Reporting!TypeOK, Reporting!Beats
  <1>8. ASSUME NEW v \in Worker, beat'[v] # NULL
        PROVE  /\ beat'[v].age < Reporting!Ttl(v)
               /\ beat'[v].detail \in Reporting!Details(v)
               /\ silent'[v] <= beat'[v].age
    <2>1. CASE v = w /\ beat'[v] = [age |-> 0, detail |-> detail]
      BY <1>2, <1>5, <2>1, HealthParameters
    <2>2. CASE beat'[v] = beat[v]
      <3>1. /\ beat[v].age < Reporting!Ttl(v) /\ silent[v] <= beat[v].age
            /\ beat[v].detail \in Reporting!Details(v)
        BY <1>1, <1>8, <2>2 DEF Reporting!TypeOK, Reporting!BeatInv
      <3>2. silent'[v] <= silent[v] /\ silent'[v] \in Nat /\ silent[v] \in Nat
        BY <1>5
      <3>3. silent'[v] <= beat[v].age
        BY <1>7, <1>8, <2>2, <3>1, <3>2
      <3>4. QED
        BY <2>2, <3>1, <3>3
    <2>3. QED
      BY <1>6, <2>1, <2>2
  <1>9. \A v \in Worker : Reporting!Longest(v) \in Int /\ Reporting!Ttl(v) \in Nat
    BY HealthParameters
  <1>10. Reporting!TypeOK'
    BY <1>1, <1>3, <1>5, <1>6, <1>8, <1>9 DEF Reporting!TypeOK
  <1>11. Reporting!CheckInv'
    <2>1. ASSUME NEW c \in Caller, check[c] # NULL PROVE check[c].age \in Nat
      BY <1>1, <2>1, HealthParameters DEF Reporting!TypeOK, Reporting!Checks
    <2>2. ASSUME NEW c \in Caller, check[c] # NULL PROVE DOMAIN check[c].worker \subseteq Worker
      BY <1>1, <2>2 DEF Reporting!TypeOK, Reporting!Checks
    <2>3. QED
      BY <1>1, <1>3, <1>5, <1>9, <2>1, <2>2, HealthParameters DEF Reporting!CheckInv
  <1>12. Reporting!CacheInv'
    <2>1. cache # NULL => cache.age \in Nat
      BY <1>1, HealthParameters DEF Reporting!TypeOK
    <2>2. QED
      BY <1>1, <1>3, <1>5, <1>9, <2>1, HealthParameters DEF Reporting!CacheInv
  <1>13. QED
    BY <1>3, <1>8, <1>10, <1>11, <1>12
    DEF Reporting!HealthInv, Reporting!BeatInv, Reporting!SilenceIsTold

LEMMA HealthFacts ==
    ASSUME Reporting!HealthInv
    PROVE  /\ Reporting!TypeOK /\ Reporting!BeatInv /\ Reporting!CheckInv
           /\ Reporting!CacheInv
           /\ \A c \in Caller : check[c] # NULL =>
                  /\ check[c] \in Reporting!Checks
                  /\ check[c].age \in 0..MaxCheck /\ check[c].worst \in Reporting!Health
                  /\ DOMAIN check[c].worker \subseteq Worker
                  /\ check[c].worker \in [DOMAIN check[c].worker -> Reporting!Health]
BY DEF Reporting!HealthInv, Reporting!TypeOK, Reporting!Checks

\* A step of one report, which asks no worker of another.
LEMMA CheckMoves ==
    ASSUME Reporting!HealthInv, NEW c \in Caller, NEW r \in Reporting!Checks,
           check' = [check EXCEPT ![c] = r], UNCHANGED silent,
           r.next = "domain" => DOMAIN r.worker = Worker,
           \A w \in DOMAIN r.worker :
               r.worker[w] # "down" => silent[w] <= (Reporting!Ttl(w) - 1) + r.age
    PROVE  /\ check' \in [Caller -> Reporting!Checks \cup {NULL}]
           /\ Reporting!CheckInv'
  <1>1. /\ check \in [Caller -> Reporting!Checks \cup {NULL}]
        /\ Reporting!CheckInv
    BY DEF Reporting!HealthInv, Reporting!TypeOK
  <1>2. /\ check' \in [Caller -> Reporting!Checks \cup {NULL}]
        /\ check'[c] = r /\ \A d \in Caller \ {c} : check'[d] = check[d]
    BY <1>1
  <1>3. Reporting!CheckInv'
    BY <1>1, <1>2 DEF Reporting!CheckInv
  <1>4. QED
    BY <1>2, <1>3

LEMMA HealthAsk ==
    ASSUME Reporting!HealthInv, NEW c \in Caller,
           Reporting!Begin(c) \/ Reporting!AskDatabase(c) \/ Reporting!AskRedis(c)
    PROVE  Reporting!HealthInv'
  <1>1. /\ up' \in [Reporting!Dependency -> BOOLEAN] /\ answer' = NULL
        /\ UNCHANGED <<beat, silent, cache>>
    BY HealthFacts
    DEF Reporting!TypeOK, Reporting!Begin, Reporting!AskDatabase, Reporting!AskRedis
  <1>2. ASSUME Reporting!Begin(c)
        PROVE  /\ check' \in [Caller -> Reporting!Checks \cup {NULL}]
               /\ Reporting!CheckInv'
    <2> DEFINE r == [age |-> 0, next |-> "database", worst |-> "healthy", worker |-> <<>>]
    <2>1. r \in Reporting!Checks /\ DOMAIN r.worker = {} /\ r.next = "database"
      <3>1. <<>> \in [{} -> Reporting!Health] /\ DOMAIN <<>> = {}
        OBVIOUS
      <3>2. <<>> \in UNION {[W -> Reporting!Health] : W \in SUBSET Worker}
        BY <3>1
      <3>3. QED
        <4> DEFINE none == <<>>
        <4>1. 0 \in 0..MaxCheck /\ "healthy" \in Reporting!Health
          BY HealthParameters DEF Reporting!Health
        <4>2. /\ none \in UNION {[W -> Reporting!Health] : W \in SUBSET Worker}
              /\ DOMAIN none = {}
          BY <3>1, <3>2, Zenon
        <4> HIDE DEF none
        <4>3. [age |-> 0, next |-> "database", worst |-> "healthy", worker |-> none]
                  \in Reporting!Checks
          BY <4>1, <4>2 DEF Reporting!Checks
        <4>4. QED
          BY <4>2, <4>3 DEF none
    <2>2. check' = [check EXCEPT ![c] = r]
      BY <1>2 DEF Reporting!Begin
    <2> HIDE DEF r
    <2>3. QED
      BY <1>1, <2>1, <2>2, CheckMoves
  <1>3. ASSUME NEW V \in SUBSET Reporting!Health, NEW next \in {"redis", "workers"},
               check[c] # NULL, Reporting!Found(c, V, next)
        PROVE  /\ check' \in [Caller -> Reporting!Checks \cup {NULL}]
               /\ Reporting!CheckInv'
    <2> DEFINE v == Reporting!worstOf(V \cup {check[c].worst})
               r == [check[c] EXCEPT !.next = next, !.worst = v]
    <2>1. v \in Reporting!Health
      BY <1>3, HealthFacts, Verdicts
    <2>2. check' = [check EXCEPT ![c] = r]
      <3>1. check \in [Caller -> Reporting!Checks \cup {NULL}]
        BY HealthFacts DEF Reporting!TypeOK
      <3>2. QED
        BY <1>3, <3>1 DEF Reporting!Found
    <2> HIDE DEF v
    <2>3. /\ r \in Reporting!Checks /\ r.next = next
          /\ r.worker = check[c].worker /\ r.age = check[c].age
      <3>1. check[c] \in Reporting!Checks
        BY <1>3, HealthFacts
      <3>2. QED
        BY <2>1, <3>1 DEF Reporting!Checks
    <2> HIDE DEF r
    <2>4. QED
      BY <1>1, <1>3, <2>2, <2>3, CheckMoves, HealthFacts DEF Reporting!CheckInv
  <1>4. ASSUME Reporting!AskDatabase(c)
        PROVE  /\ check' \in [Caller -> Reporting!Checks \cup {NULL}]
               /\ Reporting!CheckInv'
    <2>1. PICK slow \in BOOLEAN :
              Reporting!Found(c, {Reporting!databaseCheck(slow)}, "redis")
      BY <1>4 DEF Reporting!AskDatabase
    <2>2. {Reporting!databaseCheck(slow)} \in SUBSET Reporting!Health
      BY DEF Reporting!databaseCheck, Reporting!DegradedIf, Reporting!Health
    <2>3. QED
      BY <1>3, <1>4, <2>1, <2>2 DEF Reporting!AskDatabase, Reporting!At
  <1>5. ASSUME Reporting!AskRedis(c)
        PROVE  /\ check' \in [Caller -> Reporting!Checks \cup {NULL}]
               /\ Reporting!CheckInv'
    <2>1. PICK queue \in {0, QueueDegraded, QueueDown}, aside \in BOOLEAN :
              Reporting!Found(c, Reporting!redisChecks(queue, aside), "workers")
      BY <1>5 DEF Reporting!AskRedis
    <2>2. Reporting!redisChecks(queue, aside) \in SUBSET Reporting!Health
      BY DEF Reporting!redisChecks, Reporting!DegradedIf, Reporting!Health
    <2>3. QED
      BY <1>3, <1>5, <2>1, <2>2 DEF Reporting!AskRedis, Reporting!At
  <1>6. QED
    BY <1>1, <1>2, <1>4, <1>5, HealthQuiet

LEMMA HealthAskWorker ==
    ASSUME Reporting!HealthInv, NEW c \in Caller, NEW w \in Worker,
           Reporting!AskWorker(c, w)
    PROVE  Reporting!HealthInv'
  <1> DEFINE known == check[c].worker
             asked == DOMAIN known \cup {w}
             worker == [v \in asked |-> IF v = w THEN Reporting!workerCheck(v)
                                        ELSE known[v]]
             next == IF asked = Worker THEN "domain" ELSE check[c].next
             r == [check[c] EXCEPT !.worker = worker, !.next = next]
  <1>1. /\ check[c] # NULL /\ check[c].next = "workers" /\ answer' = NULL
        /\ UNCHANGED <<up, beat, silent, cache>>
    BY DEF Reporting!AskWorker, Reporting!At
  <1>2. /\ check[c] \in Reporting!Checks /\ check[c].age \in 0..MaxCheck
        /\ DOMAIN known \subseteq Worker /\ known \in [DOMAIN known -> Reporting!Health]
    BY <1>1, HealthFacts
  <1>3. check' = [check EXCEPT ![c] = r]
    <2>1. check \in [Caller -> Reporting!Checks \cup {NULL}]
      BY HealthFacts DEF Reporting!TypeOK
    <2>2. QED
      BY <1>1, <1>2, <2>1 DEF Reporting!AskWorker
  <1>4. /\ Reporting!workerCheck(w) \in Reporting!Health
        /\ Reporting!workerCheck(w) # "down" =>
               silent[w] <= (Reporting!Ttl(w) - 1) + check[c].age
    <2>1. CASE ~up["redis"] \/ beat[w] = NULL
      BY <2>1 DEF Reporting!workerCheck, Reporting!Health
    <2>2. CASE ~(~up["redis"] \/ beat[w] = NULL)
      <3>1. /\ beat[w].detail \in {"ran", "lastError", "skipped"}
            /\ beat[w].age \in Nat /\ beat[w].age < Reporting!Ttl(w)
            /\ silent[w] <= beat[w].age /\ silent[w] \in Nat
        BY <2>2, HealthFacts DEF Reporting!TypeOK, Reporting!BeatInv, Reporting!Beats
      <3>2. Reporting!workerCheck(w) \in Reporting!Health
        BY <2>2, <3>1
        DEF Reporting!workerCheck, Reporting!Health, Reporting!DegradedIf
      <3>3. QED
        BY <1>2, <3>1, <3>2, HealthParameters
    <2>3. QED
      BY <2>1, <2>2
  <1>5. /\ worker \in [asked -> Reporting!Health] /\ asked \in SUBSET Worker
        /\ worker[w] = Reporting!workerCheck(w)
        /\ \A v \in DOMAIN known \ {w} : worker[v] = known[v]
    BY <1>2, <1>4
  <1>6. next = "domain" => asked = Worker
    BY <1>1
  <1>7. next \in {"workers", "domain"}
    BY <1>1
  <1> HIDE DEF worker, next
  <1>8. /\ r \in Reporting!Checks /\ r.next = next
        /\ r.worker = worker /\ r.age = check[c].age
    <2>1. worker \in UNION {[W -> Reporting!Health] : W \in SUBSET Worker}
      BY <1>5
    <2>2. QED
      BY <1>2, <1>7, <2>1 DEF Reporting!Checks
  <1>9. DOMAIN worker = asked
    BY <1>5
  <1> HIDE DEF r
  <1>10. \A v \in DOMAIN r.worker :
             r.worker[v] # "down" => silent[v] <= (Reporting!Ttl(v) - 1) + r.age
    BY <1>1, <1>4, <1>5, <1>8, <1>9, HealthFacts DEF Reporting!CheckInv
  <1>11. /\ check' \in [Caller -> Reporting!Checks \cup {NULL}]
         /\ Reporting!CheckInv'
    BY <1>1, <1>3, <1>6, <1>8, <1>9, <1>10, CheckMoves
  <1>12. QED
    BY <1>1, <1>11, HealthFacts, HealthQuiet DEF Reporting!TypeOK

LEMMA HealthDependencies ==
    ASSUME Reporting!HealthInv,
           \/ \E d \in Reporting!Dependency : Reporting!Fails(d) \/ Reporting!Recovers(d)
           \/ Reporting!ReplayDeadLetters
    PROVE  Reporting!HealthInv'
  <1>1. /\ up' \in [Reporting!Dependency -> BOOLEAN] /\ answer' = NULL
        /\ UNCHANGED <<beat, silent, check>> /\ cache' \in {cache, NULL}
    BY HealthFacts
    DEF Reporting!TypeOK, Reporting!Fails, Reporting!Recovers, Reporting!ReplayDeadLetters
  <1>2. check' \in [Caller -> Reporting!Checks \cup {NULL}] /\ Reporting!CheckInv'
    BY <1>1, HealthFacts DEF Reporting!TypeOK, Reporting!CheckInv
  <1>3. QED
    BY <1>1, <1>2, HealthQuiet

LEMMA HealthCached ==
    ASSUME Reporting!HealthInv, Reporting!Cached PROVE Reporting!HealthInv'
  <1>1. /\ cache # NULL /\ cache.age < CacheFor /\ answer' = cache.report
        /\ UNCHANGED <<up, beat, silent, cache, check>>
    BY DEF Reporting!Cached, Reporting!Fresh
  <1>2. cache.report \in Reporting!Reports /\ cache.age \in 0..CacheFor
    BY <1>1, HealthFacts DEF Reporting!TypeOK
  <1>3. Reporting!TypeOK'
    BY <1>1, <1>2, HealthFacts DEF Reporting!TypeOK
  <1>4. Reporting!SilenceIsTold'
    <2>1. ASSUME NEW w \in Worker, silent[w] > Reporting!Longest(w)
          PROVE  cache.report.worker[w] = "down"
      <3>1. SUFFICES ASSUME cache.report.worker[w] # "down" PROVE FALSE
        OBVIOUS
      <3>2. silent[w] <= (Reporting!Ttl(w) - 1) + MaxCheck + cache.age
        BY <1>1, <3>1, HealthFacts DEF Reporting!CacheInv
      <3>3. silent[w] \in Nat
        BY HealthFacts DEF Reporting!TypeOK
      <3>4. QED
        BY <1>1, <1>2, <2>1, <3>2, <3>3, HealthParameters
    <2>2. QED
      BY <1>1, <2>1, HealthFacts DEF Reporting!SilenceIsTold, Reporting!CacheInv
  <1>5. QED
    BY <1>1, <1>3, <1>4, HealthFacts
    DEF Reporting!HealthInv, Reporting!BeatInv, Reporting!CheckInv, Reporting!CacheInv

LEMMA HealthAskDomain ==
    ASSUME Reporting!HealthInv, NEW c \in Caller, Reporting!AskDomain(c)
    PROVE  Reporting!HealthInv'
  <1> DEFINE worker == check[c].worker
  <1>1. /\ check[c] # NULL /\ check[c].next = "domain"
        /\ check' = [check EXCEPT ![c] = NULL] /\ UNCHANGED <<up, beat, silent>>
    BY DEF Reporting!AskDomain, Reporting!At
  <1>2. /\ check[c].age \in 0..MaxCheck /\ check[c].worst \in Reporting!Health
        /\ DOMAIN worker = Worker /\ worker \in [Worker -> Reporting!Health]
        /\ \A w \in Worker : worker[w] # "down" =>
               silent[w] <= (Reporting!Ttl(w) - 1) + check[c].age
    BY <1>1, HealthFacts DEF Reporting!CheckInv
  <1>3. check' \in [Caller -> Reporting!Checks \cup {NULL}] /\ Reporting!CheckInv'
    BY <1>1, HealthFacts DEF Reporting!TypeOK, Reporting!CheckInv
  <1>4. ASSUME ~up["database"] PROVE Reporting!HealthInv'
    <2>1. answer' = NULL /\ cache' = cache
      BY <1>4 DEF Reporting!AskDomain
    <2>2. QED
      BY <1>1, <1>3, <2>1, HealthFacts, HealthQuiet DEF Reporting!TypeOK
  <1>5. ASSUME up["database"] PROVE Reporting!HealthInv'
    <2> DEFINE workers == {worker[w] : w \in Worker}
               found(owed) == Reporting!worstOf({check[c].worst, Reporting!DegradedIf(owed)})
               status(owed) == Reporting!worstOf(workers \cup {found(owed)})
    <2>1. PICK owed \in BOOLEAN :
              LET report == [status |-> status(owed), worker |-> worker]
              IN  cache' = [age |-> 0, report |-> report] /\ answer' = report
      BY <1>5 DEF Reporting!AskDomain
    <2>2. found(owed) \in Reporting!Health
      <3>1. {check[c].worst, Reporting!DegradedIf(owed)} \in SUBSET Reporting!Health
        BY <1>2 DEF Reporting!DegradedIf, Reporting!Health
      <3>2. QED
        BY <3>1, Verdicts
    <2> HIDE DEF found
    <2>3. workers \cup {found(owed)} \in SUBSET Reporting!Health
      BY <1>2, <2>2
    <2>4. /\ status(owed) \in Reporting!Health
          /\ \A w \in Worker : worker[w] = "down" => status(owed) = "down"
      BY <2>3, Verdicts
    <2> HIDE DEF status, worker
    <2> DEFINE report == [status |-> status(owed), worker |-> worker]
    <2>5. /\ report \in Reporting!Reports /\ report.worker = worker
          /\ report.status = status(owed)
      BY <1>2, <2>4 DEF Reporting!Reports
    <2>6. cache' = [age |-> 0, report |-> report] /\ answer' = report
      BY <2>1
    <2> HIDE DEF report
    <2>7. /\ cache'.age = 0 /\ cache'.report = report
          /\ cache' \in [age : 0..CacheFor, report : Reporting!Reports]
      BY <2>5, <2>6, HealthParameters
    <2>8. Reporting!TypeOK'
      BY <1>1, <1>3, <2>5, <2>6, <2>7, HealthFacts DEF Reporting!TypeOK
    <2>9. ASSUME NEW w \in Worker, worker[w] # "down"
          PROVE  /\ silent[w] <= (Reporting!Ttl(w) - 1) + MaxCheck + 0
                 /\ ~(silent[w] > Reporting!Longest(w))
      <3>1. silent[w] \in Nat /\ silent[w] <= (Reporting!Ttl(w) - 1) + check[c].age
        BY <1>2, <2>9, HealthFacts DEF Reporting!TypeOK
      <3>2. QED
        BY <1>2, <3>1, HealthParameters
    <2>10. Reporting!CacheInv'
      BY <1>1, <2>4, <2>5, <2>7, <2>9 DEF Reporting!CacheInv
    <2>11. Reporting!SilenceIsTold'
      BY <1>1, <2>4, <2>5, <2>6, <2>9 DEF Reporting!SilenceIsTold
    <2>12. QED
      BY <1>1, <1>3, <2>8, <2>10, <2>11, HealthFacts
      DEF Reporting!HealthInv, Reporting!BeatInv
  <1>6. QED
    BY <1>4, <1>5

LEMMA HealthTick ==
    ASSUME Reporting!HealthInv, Reporting!Tick PROVE Reporting!HealthInv'
  <1>1. /\ \A c \in Caller : check[c] # NULL => check[c].age < MaxCheck
        /\ beat' = [w \in Worker |->
                       IF beat[w] = NULL \/ beat[w].age + 1 >= Reporting!Ttl(w) THEN NULL
                       ELSE [beat[w] EXCEPT !.age = @ + 1]]
        /\ silent' = [w \in Worker |->
                         Reporting!Grown(silent[w], Reporting!Longest(w) + 1)]
        /\ cache' = IF cache = NULL THEN NULL
                    ELSE [cache EXCEPT !.age = Reporting!Grown(@, CacheFor)]
        /\ check' = [c \in Caller |-> IF check[c] = NULL THEN NULL
                                      ELSE [check[c] EXCEPT !.age = @ + 1]]
        /\ answer' = NULL /\ up' = up
    BY DEF Reporting!Tick
  <1>2. \A w \in Worker : Reporting!Longest(w) \in Int /\ Reporting!Ttl(w) \in Nat
    BY HealthParameters
  <1>3. /\ silent' \in [Worker -> Nat]
        /\ \A w \in Worker : /\ silent[w] \in Nat /\ silent'[w] <= silent[w] + 1
                             /\ silent'[w] <= Reporting!Longest(w) + 1
    BY <1>1, <1>2, HealthFacts DEF Reporting!TypeOK, Reporting!Grown
  <1>4. ASSUME NEW w \in Worker
        PROVE  /\ beat'[w] \in Reporting!Beats \cup {NULL}
               /\ beat'[w] # NULL =>
                      /\ beat'[w].age < Reporting!Ttl(w)
                      /\ beat'[w].detail \in Reporting!Details(w)
                      /\ silent'[w] <= beat'[w].age
    <2>1. CASE beat[w] = NULL \/ beat[w].age + 1 >= Reporting!Ttl(w)
      BY <1>1, <2>1
    <2>2. CASE ~(beat[w] = NULL \/ beat[w].age + 1 >= Reporting!Ttl(w))
      <3>1. beat[w] \in Reporting!Beats /\ beat[w].detail \in Reporting!Details(w)
        BY <2>2, HealthFacts DEF Reporting!TypeOK
      <3>2. silent[w] <= beat[w].age /\ beat[w].age \in Nat
        BY <2>2, <3>1, HealthFacts DEF Reporting!BeatInv, Reporting!Beats
      <3>3. beat'[w] = [beat[w] EXCEPT !.age = @ + 1]
        BY <1>1, <2>2
      <3>4. /\ beat'[w] \in Reporting!Beats /\ beat'[w].age = beat[w].age + 1
            /\ beat'[w].detail = beat[w].detail
        BY <3>1, <3>3 DEF Reporting!Beats
      <3>5. QED
        BY <1>2, <1>3, <2>2, <3>1, <3>2, <3>4
    <2>3. QED
      BY <2>1, <2>2
  <1>5. beat' \in [Worker -> Reporting!Beats \cup {NULL}]
    <2>1. beat' = [w \in Worker |-> beat'[w]]
      BY <1>1
    <2>2. QED
      BY <1>4, <2>1
  <1>6. ASSUME NEW c \in Caller
        PROVE  /\ check'[c] \in Reporting!Checks \cup {NULL}
               /\ check[c] = NULL => check'[c] = NULL
               /\ check[c] # NULL => /\ check'[c].age = check[c].age + 1
                                     /\ check'[c].next = check[c].next
                                     /\ check'[c].worker = check[c].worker
                                     /\ check[c].age \in Nat
    <2>1. CASE check[c] = NULL
      BY <1>1, <2>1
    <2>2. CASE check[c] # NULL
      <3>1. /\ check[c] \in Reporting!Checks /\ check[c].age \in 0..MaxCheck
            /\ check[c].age < MaxCheck
        BY <1>1, <2>2, HealthFacts
      <3>2. check'[c] = [check[c] EXCEPT !.age = @ + 1]
        BY <1>1, <2>2
      <3>3. check[c].age + 1 \in 0..MaxCheck /\ check[c].age \in Nat
        BY <3>1, HealthParameters
      <3>4. QED
        BY <2>2, <3>1, <3>2, <3>3 DEF Reporting!Checks
    <2>3. QED
      BY <2>1, <2>2
  <1>7. check' \in [Caller -> Reporting!Checks \cup {NULL}]
    <2>1. check' = [c \in Caller |-> check'[c]]
      BY <1>1
    <2>2. QED
      BY <1>6, <2>1
  <1>8. Reporting!CheckInv'
    <2>1. SUFFICES ASSUME NEW c \in Caller, check'[c] # NULL
                   PROVE  /\ check'[c].next = "domain" =>
                                 DOMAIN check'[c].worker = Worker
                          /\ \A w \in DOMAIN check'[c].worker :
                                 check'[c].worker[w] # "down" =>
                                     silent'[w] <=
                                         (Reporting!Ttl(w) - 1) + check'[c].age
      BY DEF Reporting!CheckInv
    <2>2. /\ check[c] # NULL /\ check'[c].age = check[c].age + 1
          /\ check'[c].next = check[c].next /\ check'[c].worker = check[c].worker
          /\ check[c].age \in Nat /\ DOMAIN check[c].worker \subseteq Worker
      BY <1>6, <2>1, HealthFacts
    <2>3. ASSUME NEW w \in DOMAIN check'[c].worker, check'[c].worker[w] # "down"
          PROVE  silent'[w] <= (Reporting!Ttl(w) - 1) + check'[c].age
      <3>1. silent[w] <= (Reporting!Ttl(w) - 1) + check[c].age /\ w \in Worker
        BY <2>2, <2>3, HealthFacts DEF Reporting!CheckInv
      <3>2. silent[w] \in Nat /\ silent'[w] \in Nat /\ silent'[w] <= silent[w] + 1
        BY <1>3, <3>1
      <3>3. QED
        BY <1>2, <2>2, <3>1, <3>2
    <2>4. QED
      BY <2>2, <2>3, HealthFacts DEF Reporting!CheckInv
  <1>9. /\ cache' \in [age : 0..CacheFor, report : Reporting!Reports] \cup {NULL}
        /\ Reporting!CacheInv'
    <2>1. CASE cache = NULL
      BY <1>1, <2>1 DEF Reporting!CacheInv
    <2>2. CASE cache # NULL
      <3>1. cache \in [age : 0..CacheFor, report : Reporting!Reports]
        BY <2>2, HealthFacts DEF Reporting!TypeOK
      <3>2. /\ Reporting!Grown(cache.age, CacheFor) \in 0..CacheFor
            /\ cache.age < CacheFor =>
                   Reporting!Grown(cache.age, CacheFor) = cache.age + 1
            /\ ~(cache.age < CacheFor) =>
                   Reporting!Grown(cache.age, CacheFor) = cache.age
            /\ cache.age \in Nat
        BY <3>1, HealthParameters DEF Reporting!Grown
      <3>3. cache' = [cache EXCEPT !.age = Reporting!Grown(cache.age, CacheFor)]
        BY <1>1, <2>2
      <3>4. /\ cache' \in [age : 0..CacheFor, report : Reporting!Reports]
            /\ cache'.age = Reporting!Grown(cache.age, CacheFor)
            /\ cache'.report = cache.report
        BY <3>1, <3>2, <3>3
      <3>5. ASSUME NEW w \in Worker, cache.report.worker[w] # "down",
                   cache'.age < CacheFor
            PROVE  silent'[w] <= (Reporting!Ttl(w) - 1) + MaxCheck + cache'.age
        <4>1. cache.age < CacheFor /\ cache'.age = cache.age + 1
          BY <3>2, <3>4, <3>5, HealthParameters
        <4>2. silent[w] <= (Reporting!Ttl(w) - 1) + MaxCheck + cache.age
          BY <2>2, <3>5, <4>1, HealthFacts DEF Reporting!CacheInv
        <4>3. silent[w] \in Nat /\ silent'[w] \in Nat /\ silent'[w] <= silent[w] + 1
          BY <1>3
        <4>4. QED
          BY <1>2, <3>2, <4>1, <4>2, <4>3, HealthParameters
      <3>6. QED
        BY <2>2, <3>4, <3>5, HealthFacts DEF Reporting!CacheInv
    <2>3. QED
      BY <2>1, <2>2
  <1>10. Reporting!TypeOK'
    BY <1>1, <1>3, <1>4, <1>5, <1>7, <1>9, HealthFacts DEF Reporting!TypeOK
  <1>11. QED
    BY <1>1, <1>4, <1>8, <1>9, <1>10
    DEF Reporting!HealthInv, Reporting!BeatInv, Reporting!SilenceIsTold

LEMMA HealthNext ==
    ASSUME Reporting!HealthInv, Reporting!Next PROVE Reporting!HealthInv'
BY HealthBeat, HealthDependencies, HealthAsk, HealthAskWorker, HealthAskDomain,
   HealthCached, HealthTick, Zenon
DEF Reporting!Next

-----------------------------------------------------------------------------
(* The metrics: what is counted, what is refused, and a page of both. *)

LEMMA MeterParameters ==
    /\ Seconds \subseteq Nat
    /\ Buckets \in Seq(Nat) /\ Buckets # <<>>
    /\ \A i, j \in DOMAIN Buckets : i < j => Buckets[i] < Buckets[j]
    /\ MaxSeries \in Nat /\ MaxLength \in Nat /\ MaxResponses \in Nat
    /\ MaxErrors \in Nat
    /\ Len(Buckets) \in Nat \ {0} /\ DOMAIN Buckets = 1..Len(Buckets)
    /\ \A i \in DOMAIN Buckets : Buckets[i] \in Nat
  <1>1. Buckets \in Seq(Nat) \ {<<>>}
    BY OutboundAssumption DEF Meters!MetricsAssumption
  <1>2. Len(Buckets) \in Nat \ {0} /\ DOMAIN Buckets = 1..Len(Buckets)
        /\ \A i \in DOMAIN Buckets : Buckets[i] \in Nat
    BY <1>1
  <1>3. QED
    BY <1>1, <1>2, OutboundAssumption DEF Meters!MetricsAssumption

\* The page's totals are sums over the series, and grow with them.
LEMMA TotalIsSum == \A f : Meters!Total(f) = SumFunctionOnSet(f, DOMAIN f)
BY DEF Meters!Total, Meters!FoldFunction, Meters!FoldFunctionOnSet,
       Meters!MapThenFoldSet, SumFunctionOnSet, FoldFunctionOnSet, MapThenFoldSet

LEMMA MeterSets ==
    \A S : /\ Meters!IsFiniteSet(S) <=> IsFiniteSet(S)
           /\ Meters!Cardinality(S) = Cardinality(S)
  <1>1. \A S : Meters!IsFiniteSet(S) <=> IsFiniteSet(S)
    BY Zenon DEF Meters!IsFiniteSet, IsFiniteSet
  <1>2. \A S : Meters!Cardinality(S) = Cardinality(S)
    BY Zenon DEF Meters!Cardinality, Cardinality
  <1>3. QED
    BY <1>1, <1>2

LEMMA TotalGrows ==
    ASSUME NEW f, NEW key, NEW value \in Nat,
           IsFiniteSet(DOMAIN f), \A k \in DOMAIN f : f[k] \in Nat
    PROVE  /\ Meters!Total(f) \in Nat
           /\ Meters!Total(Meters!With(f, key, value)) \in Nat
           /\ IsFiniteSet(DOMAIN Meters!With(f, key, value))
           /\ key \in DOMAIN f =>
                  Meters!Total(Meters!With(f, key, value)) + f[key] =
                      Meters!Total(f) + value
           /\ key \notin DOMAIN f =>
                  Meters!Total(Meters!With(f, key, value)) = Meters!Total(f) + value
  <1> DEFINE g == Meters!With(f, key, value)
             D == DOMAIN f
             E == D \cup {key}
  <1>1. g = [k \in E |-> IF k = key THEN value ELSE f[k]]
    BY DEF Meters!With
  <1>2. /\ DOMAIN g = E /\ g[key] = value /\ \A k \in D \ {key} : g[k] = f[k]
        /\ \A k \in E : g[k] \in Nat
    BY <1>1
  <1>3. IsFiniteSet(E) /\ IsFiniteSet(E \ {key}) /\ IsFiniteSet(D)
    BY FS_AddElement, FS_RemoveElement
  <1> HIDE DEF g
  <1>4. SumFunctionOnSet(f, D) \in Nat /\ SumFunctionOnSet(f, D \ {key}) \in Nat
    <2>1. IsFiniteSet(D \ {key})
      BY <1>3, FS_RemoveElement
    <2>2. QED
      BY <1>3, <2>1, SumType
  <1>5. SumFunctionOnSet(g, E) = value + SumFunctionOnSet(g, E \ {key})
    BY <1>2, <1>3, SumAdd
  <1>6. SumFunctionOnSet(g, E \ {key}) = SumFunctionOnSet(f, D \ {key})
    <2>1. E \ {key} = D \ {key}
      OBVIOUS
    <2>2. QED
      BY <1>2, <1>3, <2>1, SumSame
  <1>7. CASE key \in D
    <2>1. SumFunctionOnSet(f, D) = f[key] + SumFunctionOnSet(f, D \ {key})
      BY <1>3, <1>7, SumAdd
    <2>2. QED
      BY <1>2, <1>3, <1>4, <1>5, <1>6, <1>7, <2>1, TotalIsSum DEF g
  <1>8. CASE key \notin D
    <2>1. D \ {key} = D
      BY <1>8
    <2>2. QED
      BY <1>2, <1>3, <1>4, <1>5, <1>6, <1>8, <2>1, TotalIsSum DEF g
  <1>9. IsFiniteSet(DOMAIN Meters!With(f, key, value))
    BY <1>2, <1>3 DEF g
  <1>10. Meters!Total(Meters!With(f, key, value)) \in Nat
    BY <1>2, <1>3, SumType, TotalIsSum DEF g
  <1>11. QED
    BY <1>4, <1>7, <1>8, <1>9, <1>10, TotalIsSum

\* An entry of a histogram, and what it says of the responses observed.
Entry == [counts : [DOMAIN Buckets -> Nat], sum : Nat, count : Nat]

Cumulative(e) ==
    /\ e \in Entry
    /\ \A i, j \in DOMAIN Buckets : j < i => e.counts[j] <= e.counts[i]
    /\ \A j \in DOMAIN Buckets : e.counts[j] <= e.count
    /\ e.sum >= (e.count - e.counts[Len(Buckets)]) * Buckets[Len(Buckets)]

LEMMA NewIsCumulative ==
    Cumulative(Meters!NewEntry) /\ Meters!NewEntry.count = 0
  <1> DEFINE counts == [i \in DOMAIN Buckets |-> 0]
             e == [counts |-> counts, sum |-> 0, count |-> 0]
  <1>1. /\ counts \in [DOMAIN Buckets -> Nat]
        /\ \A i \in DOMAIN Buckets : counts[i] = 0
    OBVIOUS
  <1> HIDE DEF counts
  <1>2. e \in Entry /\ e.counts = counts /\ e.sum = 0 /\ e.count = 0
    BY <1>1 DEF Entry
  <1>3. e = Meters!NewEntry
    BY DEF Meters!NewEntry, counts
  <1> HIDE DEF e
  <1>4. QED
    BY <1>1, <1>2, <1>3, MeterParameters DEF Cumulative

LEMMA ObservedIsCumulative ==
    ASSUME NEW e, Cumulative(e), NEW value \in Nat
    PROVE  /\ Cumulative(Meters!Observed(e, value))
           /\ Meters!Observed(e, value).count = e.count + 1
  <1> DEFINE n == Len(Buckets)
             counts == [i \in DOMAIN Buckets |-> IF value <= Buckets[i]
                                                 THEN e.counts[i] + 1
                                                 ELSE e.counts[i]]
             o == [counts |-> counts, sum |-> e.sum + value, count |-> e.count + 1]
  <1>1. /\ e.counts \in [DOMAIN Buckets -> Nat] /\ e.sum \in Nat /\ e.count \in Nat
        /\ \A i, j \in DOMAIN Buckets : j < i => e.counts[j] <= e.counts[i]
        /\ \A j \in DOMAIN Buckets : e.counts[j] <= e.count
        /\ e.sum >= (e.count - e.counts[n]) * Buckets[n]
    BY DEF Cumulative, Entry
  <1>2. /\ counts \in [DOMAIN Buckets -> Nat]
        /\ \A i \in DOMAIN Buckets :
               counts[i] = IF value <= Buckets[i] THEN e.counts[i] + 1
                           ELSE e.counts[i]
    BY <1>1
  <1> HIDE DEF counts
  <1>3. /\ o \in Entry /\ o.counts = counts
        /\ o.sum = e.sum + value /\ o.count = e.count + 1
    BY <1>1, <1>2 DEF Entry
  <1>4. o = Meters!Observed(e, value)
    BY DEF Meters!Observed, counts
  <1> HIDE DEF o
  <1>5. ASSUME NEW i \in DOMAIN Buckets, NEW j \in DOMAIN Buckets, j < i
        PROVE  counts[j] <= counts[i]
    <2>1. /\ Buckets[j] < Buckets[i] /\ Buckets[j] \in Nat /\ Buckets[i] \in Nat
          /\ e.counts[j] <= e.counts[i] /\ e.counts[j] \in Nat /\ e.counts[i] \in Nat
      BY <1>1, <1>5, MeterParameters
    <2>2. QED
      BY <1>2, <2>1
  <1>6. ASSUME NEW j \in DOMAIN Buckets PROVE counts[j] <= e.count + 1
    <2>1. e.counts[j] <= e.count /\ e.counts[j] \in Nat
      BY <1>1
    <2>2. QED
      BY <1>1, <1>2, <2>1
  <1>7. e.sum + value >= ((e.count + 1) - counts[n]) * Buckets[n]
    <2> DEFINE b == Buckets[n]
               k == e.count - e.counts[n]
    <2>1. b \in Nat /\ k \in Int /\ e.sum >= k * b /\ n \in DOMAIN Buckets
      BY <1>1, MeterParameters
    <2>2. (e.count + 1) - counts[n] = IF value <= b THEN k ELSE k + 1
      <3>1. /\ e.counts[n] \in Nat /\ e.count \in Nat
            /\ counts[n] = IF value <= b THEN e.counts[n] + 1 ELSE e.counts[n]
        BY <1>1, <1>2, <2>1
      <3>2. CASE value <= b
        BY ONLY <3>1, <3>2
      <3>3. CASE ~(value <= b)
        BY ONLY <3>1, <3>3
      <3>4. QED
        BY <3>2, <3>3
    <2> HIDE DEF b, k
    <2>3. k * b \in Int /\ (k + 1) * b = k * b + b
      BY <2>1
    <2>4. e.sum + value >= (IF value <= b THEN k ELSE k + 1) * b
      BY <1>1, <2>1, <2>3
    <2>5. QED
      BY <2>2, <2>4 DEF b
  <1>8. QED
    BY <1>3, <1>4, <1>5, <1>6, <1>7 DEF Cumulative

LEMMA MeterInit ==
    ASSUME Meters!Init PROVE Meters!MetricsInv
  <1> DEFINE none == Meters!NoSeries
  <1>1. DOMAIN none = {} /\ Meters!Total(none) = 0
    <2>1. DOMAIN none = {}
      BY DEF Meters!NoSeries
    <2>2. QED
      BY <2>1, TotalIsSum, SumEmpty
  <1>2. DOMAIN Meters!Durations = {} /\ Meters!Total(Meters!Durations) = 0
    <2>1. DOMAIN Meters!Durations = {}
      BY <1>1 DEF Meters!Durations, Meters!Init
    <2>2. QED
      BY <2>1, TotalIsSum, SumEmpty
  <1>3. IsFiniteSet({}) /\ Cardinality({}) = 0
    BY FS_EmptySet
  <1>4. /\ responses = 0 /\ counter = none /\ histogram = none
        /\ dropped = [counter |-> 0, histogram |-> 0]
        /\ redis = 0 /\ gauge = NULL /\ errors = 0
        /\ scrape = [s \in Scraper |-> Meters!Idle] /\ page = NULL
    BY DEF Meters!Init
  <1> HIDE DEF none
  <1>5. Meters!TypeOK
    BY <1>1, <1>3, <1>4, MeterSets, MeterParameters DEF Meters!TypeOK
  <1>6. Meters!SeriesInv
    BY <1>1, <1>2, <1>3, <1>4, MeterSets DEF Meters!SeriesInv
  <1>7. Meters!ScrapeInv
    BY <1>4, MeterParameters DEF Meters!ScrapeInv, Meters!Idle
  <1>8. QED
    BY <1>1, <1>4, <1>5, <1>6, <1>7
    DEF Meters!MetricsInv, Meters!PageAddsUp, Meters!BucketsAreCumulative,
        Meters!FrozenGaugeIsTold

LEMMA MeterFacts ==
    ASSUME Meters!MetricsInv
    PROVE  /\ Meters!TypeOK /\ Meters!SeriesInv /\ Meters!ScrapeInv
           /\ responses \in 0..MaxResponses
           /\ dropped \in [counter : 0..MaxResponses, histogram : 0..MaxResponses]
           /\ dropped.counter \in Nat /\ dropped.histogram \in Nat
           /\ IsFiniteSet(DOMAIN counter) /\ IsFiniteSet(DOMAIN histogram)
           /\ \A r \in DOMAIN histogram : Cumulative(histogram[r])
  <1>1. /\ Meters!TypeOK /\ Meters!SeriesInv /\ Meters!ScrapeInv
        /\ Meters!BucketsAreCumulative
    BY DEF Meters!MetricsInv
  <1>2. /\ responses \in 0..MaxResponses
        /\ dropped \in [counter : 0..MaxResponses, histogram : 0..MaxResponses]
    BY <1>1 DEF Meters!TypeOK
  <1>3. dropped.counter \in Nat /\ dropped.histogram \in Nat
    BY <1>2, MeterParameters
  <1>4. IsFiniteSet(DOMAIN counter) /\ IsFiniteSet(DOMAIN histogram)
    BY <1>1, MeterSets DEF Meters!SeriesInv
  <1>5. ASSUME NEW r \in DOMAIN histogram PROVE Cumulative(histogram[r])
    <2> DEFINE e == histogram[r]
    <2>1. e \in Entry
      BY <1>1 DEF Meters!SeriesInv, Entry
    <2>2. e.counts \in [DOMAIN Buckets -> Nat] /\ DOMAIN e.counts = DOMAIN Buckets
      BY <2>1 DEF Entry
    <2>3. /\ \A i \in DOMAIN e.counts : \A j \in DOMAIN e.counts :
                 j < i => e.counts[j] <= e.counts[i]
          /\ \A j \in DOMAIN e.counts :
                 j < Len(Buckets) + 1 => e.counts[j] <= e.count
          /\ e.sum >= (e.count - e.counts[Len(Buckets)]) * Buckets[Len(Buckets)]
      BY <1>1 DEF Meters!BucketsAreCumulative
    <2>4. \A j \in DOMAIN Buckets : j < Len(Buckets) + 1
      BY MeterParameters
    <2> HIDE DEF e
    <2>5. Cumulative(e)
      BY <2>1, <2>2, <2>3, <2>4 DEF Cumulative
    <2>6. QED
      BY <2>5 DEF e
  <1>6. QED
    BY <1>1, <1>2, <1>3, <1>4, <1>5

\* A response: each metric takes it or refuses it, and counts either.
LEMMA MeterRespond ==
    ASSUME Meters!MetricsInv, Meters!Respond PROVE Meters!MetricsInv'
  <1>1. PICK route \in Route, status \in Status, seconds \in Seconds :
            LET labels == <<route, status>>
                uncounted == Meters!Full(counter, labels)
                unobserved == Meters!Full(histogram, route)
            IN  /\ counter' = IF uncounted THEN counter
                              ELSE Meters!inc(counter, labels)
                /\ histogram' = IF unobserved THEN histogram
                                ELSE Meters!observe(histogram, route, seconds)
                /\ dropped' = Meters!Counted(
                                  Meters!Counted(dropped, "counter", uncounted),
                                  "histogram", unobserved)
    BY Zenon DEF Meters!Respond
  <1> DEFINE labels == <<route, status>>
             uncounted == Meters!Full(counter, labels)
             unobserved == Meters!Full(histogram, route)
  <1>2. /\ responses \in Nat /\ responses' = responses + 1
        /\ responses' \in 0..MaxResponses
        /\ UNCHANGED <<redis, gauge, errors, scrape, page>>
    BY MeterFacts, MeterParameters DEF Meters!Respond
  <1>3. /\ dropped'.counter = IF uncounted THEN dropped.counter + 1
                              ELSE dropped.counter
        /\ dropped'.histogram = IF unobserved THEN dropped.histogram + 1
                                ELSE dropped.histogram
        /\ dropped' \in [counter : Nat, histogram : Nat]
    <2> DEFINE first == Meters!Counted(dropped, "counter", uncounted)
    <2>1. dropped \in [counter : Nat, histogram : Nat]
      BY MeterFacts, MeterParameters
    <2>2. /\ first \in [counter : Nat, histogram : Nat]
          /\ first.counter = IF uncounted THEN dropped.counter + 1 ELSE dropped.counter
          /\ first.histogram = dropped.histogram
      BY <2>1 DEF Meters!Counted
    <2>3. dropped' = Meters!Counted(first, "histogram", unobserved)
      BY <1>1
    <2> HIDE DEF first
    <2>4. QED
      BY <2>2, <2>3 DEF Meters!Counted
  <1> HIDE DEF uncounted, unobserved, labels
  <1>4. /\ IsFiniteSet(DOMAIN counter')
        /\ DOMAIN counter' \subseteq Route \X Status
        /\ Cardinality(DOMAIN counter') <= MaxSeries
        /\ \A k \in DOMAIN counter' : counter'[k] \in Nat
        /\ Meters!Total(counter)' + dropped'.counter = responses'
    <2>1. /\ \A k \in DOMAIN counter : counter[k] \in Nat
          /\ Meters!Total(counter) + dropped.counter = responses
          /\ DOMAIN counter \subseteq Route \X Status
          /\ Cardinality(DOMAIN counter) <= MaxSeries
          /\ IsFiniteSet(DOMAIN counter) /\ Meters!Total(counter) \in Nat
          /\ dropped.counter \in Nat
      <3>1. \A k \in DOMAIN counter : counter[k] \in Nat
        BY MeterFacts DEF Meters!SeriesInv
      <3>2. Cardinality(DOMAIN counter) <= MaxSeries
        BY MeterFacts, MeterSets DEF Meters!TypeOK
      <3>3. Meters!Total(counter) \in Nat
        BY <3>1, MeterFacts, TotalIsSum, SumType
      <3>4. QED
        BY <3>1, <3>2, <3>3, MeterFacts DEF Meters!SeriesInv, Meters!TypeOK
    <2>2. CASE uncounted
      <3>1. counter' = counter
        BY <1>1, <2>2 DEF uncounted, labels
      <3>2. Meters!Total(counter)' = Meters!Total(counter)
        BY <3>1
      <3>3. dropped'.counter = dropped.counter + 1
        BY <1>3, <2>2
      <3>4. Meters!Total(counter)' + dropped'.counter = responses'
        BY <1>2, <2>1, <3>2, <3>3
      <3>5. QED
        BY <2>1, <3>1, <3>4
    <2>3. CASE ~uncounted
      <3> DEFINE value == IF labels \in DOMAIN counter THEN counter[labels] + 1 ELSE 1
      <3>1. counter' = Meters!With(counter, labels, value)
        BY <1>1, <2>3 DEF Meters!inc, uncounted, labels
      <3>2. value \in Nat
        BY <2>1
      <3> HIDE DEF value
      <3>3. /\ DOMAIN counter' = DOMAIN counter \cup {labels}
            /\ counter'[labels] = value
            /\ \A k \in DOMAIN counter \ {labels} : counter'[k] = counter[k]
        BY <3>1 DEF Meters!With
      <3>4. /\ IsFiniteSet(DOMAIN counter') /\ Meters!Total(counter') \in Nat
            /\ labels \in DOMAIN counter =>
                   Meters!Total(counter') + counter[labels] =
                       Meters!Total(counter) + value
            /\ labels \notin DOMAIN counter =>
                   Meters!Total(counter') = Meters!Total(counter) + value
        <4>1. /\ IsFiniteSet(DOMAIN Meters!With(counter, labels, value))
              /\ Meters!Total(Meters!With(counter, labels, value)) \in Nat
              /\ labels \in DOMAIN counter =>
                     Meters!Total(Meters!With(counter, labels, value)) + counter[labels] =
                         Meters!Total(counter) + value
              /\ labels \notin DOMAIN counter =>
                     Meters!Total(Meters!With(counter, labels, value)) =
                         Meters!Total(counter) + value
          BY <2>1, <3>2, TotalGrows
        <4>2. QED
          BY <3>1, <4>1
      <3>5. Meters!Total(counter') = Meters!Total(counter) + 1
        <4> DEFINE old == Meters!Total(counter)
                   new == Meters!Total(counter')
        <4>1. old \in Nat /\ new \in Nat
          BY <2>1, <3>4
        <4>2. CASE labels \in DOMAIN counter
          <5>1. value = counter[labels] + 1 /\ counter[labels] \in Nat
            BY <2>1, <4>2 DEF value
          <5>2. new + counter[labels] = old + value
            BY <3>4, <4>2
          <5> HIDE DEF old, new
          <5>3. new = old + 1
            BY ONLY <4>1, <5>1, <5>2
          <5>4. QED
            BY <5>3 DEF old, new
        <4>3. CASE labels \notin DOMAIN counter
          <5>1. value = 1
            BY <4>3 DEF value
          <5>2. new = old + value
            BY <3>4, <4>3
          <5>3. QED
            BY <5>1, <5>2, Zenon
        <4>4. QED
          BY <4>2, <4>3
      <3>6. labels \in Route \X Status
        BY DEF labels
      <3>7. Cardinality(DOMAIN counter') <= MaxSeries
        <4>1. CASE labels \in DOMAIN counter
          <5>1. DOMAIN counter' = DOMAIN counter
            BY <3>3, <4>1
          <5>2. QED
            BY <2>1, <5>1
        <4>2. CASE labels \notin DOMAIN counter
          <5>1. ~(Cardinality(DOMAIN counter) >= MaxSeries)
            BY <2>3, <4>2, MeterSets DEF uncounted, Meters!Full
          <5>2. Cardinality(DOMAIN counter') = Cardinality(DOMAIN counter) + 1
            BY <2>1, <3>3, <4>2, FS_AddElement
          <5>3. Cardinality(DOMAIN counter) \in Nat
            BY <2>1, FS_CardinalityType
          <5>4. QED
            BY <5>1, <5>2, <5>3, MeterParameters
        <4>3. QED
          BY <4>1, <4>2
      <3>8. Meters!Total(counter)' = Meters!Total(counter')
        OBVIOUS
      <3>9. Meters!Total(counter') + dropped'.counter = responses'
        BY <1>2, <1>3, <2>1, <2>3, <3>5
      <3>10. \A k \in DOMAIN counter' : counter'[k] \in Nat
        BY <2>1, <3>2, <3>3
      <3>11. DOMAIN counter' \subseteq Route \X Status
        BY <2>1, <3>3, <3>6
      <3>12. QED
        BY <3>7, <3>8, <3>9, <3>10, <3>11, <3>4, Zenon
    <2>4. QED
      BY <2>2, <2>3
  <1>5. /\ IsFiniteSet(DOMAIN histogram') /\ DOMAIN histogram' \subseteq Route
        /\ Cardinality(DOMAIN histogram') <= MaxSeries
        /\ \A r \in DOMAIN histogram' : Cumulative(histogram'[r])
        /\ Meters!Total(Meters!Durations') + dropped'.histogram = responses'
    <2> DEFINE f == Meters!Durations
               entry == IF route \in DOMAIN histogram THEN histogram[route]
                        ELSE Meters!NewEntry
               e == Meters!Observed(entry, seconds)
    <2>1. /\ f = [r \in DOMAIN histogram |-> histogram[r].count]
          /\ DOMAIN f = DOMAIN histogram /\ IsFiniteSet(DOMAIN f)
          /\ \A r \in DOMAIN f : f[r] = histogram[r].count /\ f[r] \in Nat
          /\ \A r \in DOMAIN histogram : Cumulative(histogram[r])
      BY MeterFacts DEF Meters!Durations, Cumulative, Entry
    <2>2. /\ Meters!Total(f) + dropped.histogram = responses
          /\ DOMAIN histogram \subseteq Route
          /\ dropped.histogram \in Nat
      BY MeterFacts DEF Meters!SeriesInv, Meters!TypeOK
    <2>3. Cardinality(DOMAIN histogram) <= MaxSeries
      BY MeterFacts, MeterSets DEF Meters!TypeOK
    <2>4. Meters!Durations' = [r \in DOMAIN histogram' |-> histogram'[r].count]
      BY DEF Meters!Durations
    <2>5. Cumulative(entry) /\ entry.count \in Nat
      BY <2>1, NewIsCumulative DEF Cumulative, Entry
    <2>6. Cumulative(e) /\ e.count = entry.count + 1 /\ e.count \in Nat
      <3>1. seconds \in Nat
        BY MeterParameters
      <3> HIDE DEF entry
      <3>2. Cumulative(e) /\ e.count = entry.count + 1
        BY <2>5, <3>1, ObservedIsCumulative
      <3>3. QED
        BY <2>5, <3>2
    <2>7. CASE unobserved
      <3>1. histogram' = histogram
        BY <1>1, <2>7 DEF unobserved
      <3>2. Meters!Durations' = f
        BY <2>1, <2>4, <3>1
      <3>3. Meters!Total(f) \in Nat
        BY <2>1, TotalIsSum, SumType
      <3> HIDE DEF f
      <3>4. QED
        BY <1>2, <1>3, <2>1, <2>2, <2>3, <2>7, <3>1, <3>2, <3>3
    <2>8. CASE ~unobserved
      <3>1. histogram' = Meters!With(histogram, route, e)
        BY <1>1, <2>8 DEF Meters!observe, unobserved
      <3>2. route \in DOMAIN histogram => entry = histogram[route] /\ entry.count = f[route]
        BY <2>1
      <3>3. route \notin DOMAIN histogram => entry.count = 0
        BY NewIsCumulative
      <3> HIDE DEF e, f, entry
      <3>4. /\ DOMAIN histogram' = DOMAIN histogram \cup {route}
            /\ histogram'[route] = e
            /\ \A r \in DOMAIN histogram \ {route} : histogram'[r] = histogram[r]
        BY <3>1 DEF Meters!With
      <3>5. Meters!Durations' = Meters!With(f, route, e.count)
        BY <2>1, <2>4, <3>4 DEF Meters!With
      <3>6. /\ IsFiniteSet(DOMAIN Meters!With(f, route, e.count))
            /\ Meters!Total(f) \in Nat
            /\ Meters!Total(Meters!With(f, route, e.count)) \in Nat
            /\ route \in DOMAIN f =>
                   Meters!Total(Meters!With(f, route, e.count)) + f[route] =
                       Meters!Total(f) + e.count
            /\ route \notin DOMAIN f =>
                   Meters!Total(Meters!With(f, route, e.count)) =
                       Meters!Total(f) + e.count
        BY <2>1, <2>6, TotalGrows
      <3>7. Meters!Total(Meters!Durations') = Meters!Total(f) + 1
        BY <2>1, <2>5, <2>6, <3>2, <3>3, <3>5, <3>6
      <3>8. IsFiniteSet(DOMAIN histogram')
        BY <2>1, <3>4, FS_AddElement
      <3>9. Cardinality(DOMAIN histogram') <= MaxSeries
        <4>1. CASE route \in DOMAIN histogram
          <5>1. DOMAIN histogram' = DOMAIN histogram
            BY <3>4, <4>1
          <5>2. QED
            BY <2>3, <5>1
        <4>2. CASE route \notin DOMAIN histogram
          <5>1. ~(Cardinality(DOMAIN histogram) >= MaxSeries)
            BY <2>8, <4>2, MeterSets DEF unobserved, Meters!Full
          <5>2. Cardinality(DOMAIN histogram') = Cardinality(DOMAIN histogram) + 1
            BY <2>1, <3>4, <4>2, FS_AddElement
          <5>3. Cardinality(DOMAIN histogram) \in Nat
            BY <2>1, FS_CardinalityType
          <5>4. QED
            BY <5>1, <5>2, <5>3, MeterParameters
        <4>3. QED
          BY <4>1, <4>2
      <3>10. \A r \in DOMAIN histogram' : Cumulative(histogram'[r])
        BY <2>1, <2>6, <3>4
      <3>11. Meters!Total(Meters!Durations') + dropped'.histogram = responses'
        BY <1>2, <1>3, <2>2, <2>8, <3>6, <3>7
      <3>12. QED
        BY <2>2, <3>4, <3>8, <3>9, <3>10, <3>11
    <2>9. QED
      BY <2>7, <2>8
  <1>6. Meters!TypeOK'
    <2>1. Meters!Total(counter)' \in Nat
      <3>1. Meters!Total(counter') \in Nat
        BY <1>4, TotalIsSum, SumType
      <3>2. QED
        BY <3>1
    <2>2. Meters!Total(Meters!Durations') \in Nat
      <3> DEFINE f == Meters!Durations'
      <3>1. f = [r \in DOMAIN histogram' |-> histogram'[r].count]
        BY DEF Meters!Durations
      <3>2. \A r \in DOMAIN histogram' : histogram'[r].count \in Nat
        BY <1>5 DEF Cumulative, Entry
      <3>3. IsFiniteSet(DOMAIN f) /\ \A r \in DOMAIN f : f[r] \in Nat
        BY <1>5, <3>1, <3>2
      <3> HIDE DEF f
      <3>4. Meters!Total(f) \in Nat
        BY <3>3, TotalIsSum, SumType
      <3>5. QED
        BY <3>4 DEF f
    <2>3. dropped'.counter \in 0..MaxResponses /\ dropped'.histogram \in 0..MaxResponses
      <3>1. dropped'.counter \in Nat /\ dropped'.histogram \in Nat
        BY <1>3
      <3>2. /\ Meters!Total(counter)' + dropped'.counter = responses'
            /\ Meters!Total(Meters!Durations') + dropped'.histogram = responses'
            /\ responses' \in 0..MaxResponses /\ MaxResponses \in Nat
        BY <1>2, <1>4, <1>5, MeterParameters
      <3> DEFINE c == Meters!Total(counter)'
                 d == Meters!Total(Meters!Durations')
      <3> HIDE DEF c, d
      <3>3. c \in Nat /\ d \in Nat /\ c + dropped'.counter = responses'
            /\ d + dropped'.histogram = responses'
        BY <2>1, <2>2, <3>2 DEF c, d
      <3>4. QED
        BY <3>1, <3>2, <3>3
    <2>4. dropped' \in [counter : 0..MaxResponses, histogram : 0..MaxResponses]
      BY <1>3, <2>3
    <2>5. \A m \in {counter', histogram'} : Meters!Cardinality(DOMAIN m) <= MaxSeries
      BY <1>4, <1>5, MeterSets
    <2>6. /\ redis \in 0..MaxLength \cup {NULL} /\ gauge \in 0..MaxLength \cup {NULL}
          /\ errors \in 0..MaxErrors
      BY MeterFacts DEF Meters!TypeOK
    <2>7. QED
      BY <1>2, <1>4, <1>5, <2>4, <2>5, <2>6 DEF Meters!TypeOK
  <1>7. Meters!SeriesInv'
    <2>1. \A r \in DOMAIN histogram' :
              histogram'[r] \in [counts : [DOMAIN Buckets -> Nat], sum : Nat, count : Nat]
      BY <1>5 DEF Cumulative, Entry
    <2>2. QED
      BY <1>4, <1>5, <2>1, MeterSets DEF Meters!SeriesInv
  <1>8. Meters!ScrapeInv' /\ Meters!PageAddsUp' /\ Meters!FrozenGaugeIsTold'
    BY <1>2, MeterFacts
    DEF Meters!MetricsInv, Meters!ScrapeInv, Meters!PageAddsUp, Meters!FrozenGaugeIsTold
  <1>9. Meters!BucketsAreCumulative'
    <2>1. ASSUME NEW e, Cumulative(e)
          PROVE  /\ \A i \in DOMAIN e.counts : \A j \in DOMAIN e.counts :
                        j < i => e.counts[j] <= e.counts[i]
                 /\ \A j \in DOMAIN e.counts :
                        j < Len(Buckets) + 1 => e.counts[j] <= e.count
                 /\ e.sum >= (e.count - e.counts[Len(Buckets)]) * Buckets[Len(Buckets)]
      BY <2>1 DEF Cumulative, Entry
    <2>2. QED
      BY <1>5, <2>1 DEF Meters!BucketsAreCumulative
  <1>10. QED
    BY <1>6, <1>7, <1>8, <1>9 DEF Meters!MetricsInv

\* A step that leaves the series alone leaves what is known of them.
LEMMA MeterQuiet ==
    ASSUME Meters!MetricsInv,
           UNCHANGED <<responses, counter, histogram, dropped>>,
           redis' \in 0..MaxLength \cup {NULL},
           gauge' \in 0..MaxLength \cup {NULL}, errors' \in 0..MaxErrors
    PROVE  Meters!TypeOK' /\ Meters!SeriesInv' /\ Meters!BucketsAreCumulative'
  <1>1. Meters!TypeOK'
    BY MeterFacts DEF Meters!TypeOK
  <1>2. Meters!SeriesInv'
    <2>1. Meters!Total(counter)' = Meters!Total(counter)
          /\ Meters!Total(Meters!Durations)' = Meters!Total(Meters!Durations)
      BY DEF Meters!Durations
    <2>2. QED
      BY <2>1, MeterFacts DEF Meters!SeriesInv
  <1>3. Meters!BucketsAreCumulative'
    BY DEF Meters!MetricsInv, Meters!BucketsAreCumulative
  <1>4. QED
    BY <1>1, <1>2, <1>3

\* The steps of a scrape: what it has read, and what it has counted.
Scrapes == [pc : {"idle", "reading", "collected", "render"},
            length : 0..MaxLength \cup {NULL}, errors : Nat]

LEMMA MeterTypes ==
    ASSUME Meters!MetricsInv
    PROVE  /\ redis \in 0..MaxLength \cup {NULL}
           /\ gauge \in 0..MaxLength \cup {NULL}
           /\ errors \in 0..MaxErrors /\ errors \in Nat
           /\ scrape \in [Scraper -> Scrapes]
           /\ \A s \in Scraper :
                  /\ scrape[s].errors \in Nat /\ scrape[s].errors <= errors
                  /\ scrape[s].length \in 0..MaxLength \cup {NULL}
                  /\ scrape[s].pc = "render" =>
                         scrape[s].length # NULL \/ errors > scrape[s].errors
  <1>1. scrape \in [Scraper -> Scrapes]
    BY MeterFacts DEF Meters!ScrapeInv, Scrapes
  <1>2. \A s \in Scraper : /\ scrape[s].errors \in Nat
                           /\ scrape[s].length \in 0..MaxLength \cup {NULL}
    BY <1>1 DEF Scrapes
  <1>3. QED
    BY <1>1, <1>2, MeterFacts, MeterParameters DEF Meters!ScrapeInv, Meters!TypeOK

\* A scrape that moves on while the others wait, and the page stays as it is.
LEMMA ScrapeMoves ==
    ASSUME Meters!MetricsInv, NEW s \in Scraper, NEW row \in Scrapes,
           scrape' = [scrape EXCEPT ![s] = row],
           errors' \in Nat, errors <= errors', row.errors <= errors',
           row.pc = "render" => row.length # NULL \/ errors' > row.errors
    PROVE  Meters!ScrapeInv'
  <1>1. scrape' \in [Scraper -> Scrapes]
    BY MeterTypes
  <1>2. ASSUME NEW t \in Scraper
        PROVE  /\ scrape'[t].errors <= errors'
               /\ scrape'[t].pc = "render" =>
                      scrape'[t].length # NULL \/ errors' > scrape'[t].errors
    <2>1. scrape'[t] = IF t = s THEN row ELSE scrape[t]
      BY MeterTypes
    <2>2. /\ scrape[t].errors \in Nat /\ scrape[t].errors <= errors /\ errors \in Nat
          /\ scrape[t].pc = "render" =>
                 scrape[t].length # NULL \/ errors > scrape[t].errors
      BY MeterTypes
    <2>3. CASE t = s
      BY <2>1, <2>3
    <2>4. CASE t # s
      <3>1. scrape'[t] = scrape[t]
        BY <2>1, <2>4
      <3>2. QED
        BY <2>2, <3>1
    <2>5. QED
      BY <2>3, <2>4
  <1>3. QED
    BY <1>1, <1>2 DEF Meters!ScrapeInv, Scrapes

LEMMA ReadingOf ==
    ASSUME NEW r \in Scrapes, NEW n \in 0..MaxLength \cup {NULL}
    PROVE  /\ [r EXCEPT !.pc = "collected", !.length = n] \in Scrapes
           /\ [r EXCEPT !.pc = "collected", !.length = n].pc = "collected"
           /\ [r EXCEPT !.pc = "collected", !.length = n].errors = r.errors
BY DEF Scrapes

LEMMA MeterScrape ==
    ASSUME Meters!MetricsInv, NEW s \in Scraper,
           Meters!Scrape(s) \/ Meters!Read(s)
    PROVE  Meters!MetricsInv'
  <1>1. UNCHANGED <<responses, counter, histogram, dropped, redis, gauge, errors, page>>
    BY DEF Meters!Scrape, Meters!Read
  <1>2. PICK row \in Scrapes : /\ scrape' = [scrape EXCEPT ![s] = row]
                               /\ row.errors <= errors /\ row.pc # "render"
    <2>1. CASE Meters!Scrape(s)
      <3> DEFINE row == [pc |-> "reading", length |-> NULL, errors |-> errors]
      <3>1. scrape' = [scrape EXCEPT ![s] = row]
        BY <2>1 DEF Meters!Scrape
      <3>2. row \in Scrapes /\ row.errors <= errors /\ row.pc # "render"
        BY MeterTypes DEF Scrapes
      <3> HIDE DEF row
      <3>3. QED
        BY <3>1, <3>2
    <2>2. CASE Meters!Read(s)
      <3> DEFINE row == [scrape[s] EXCEPT !.pc = "collected", !.length = redis]
      <3>1. scrape[s] \in Scrapes
        BY MeterTypes
      <3>2. scrape' = [scrape EXCEPT ![s] = row]
        BY <2>2, MeterTypes DEF Meters!Read
      <3>3. row \in Scrapes /\ row.errors = scrape[s].errors /\ row.pc = "collected"
        BY <3>1, MeterTypes, ReadingOf
      <3> HIDE DEF row
      <3>4. row.errors <= errors /\ row.pc # "render"
        BY <3>3, MeterTypes
      <3>5. QED
        BY <3>2, <3>3, <3>4
    <2>3. QED
      BY <2>1, <2>2
  <1>3. Meters!TypeOK' /\ Meters!SeriesInv' /\ Meters!BucketsAreCumulative'
    BY <1>1, MeterTypes, MeterQuiet
  <1>4. Meters!ScrapeInv'
    <2>1. errors' = errors /\ errors \in Nat
      BY <1>1, MeterTypes
    <2>2. /\ errors' \in Nat /\ errors <= errors' /\ row.errors <= errors'
          /\ (row.pc = "render" => row.length # NULL \/ errors' > row.errors)
      BY <1>2, <2>1
    <2>3. QED
      BY <1>2, <2>2, ScrapeMoves
  <1>5. Meters!PageAddsUp' /\ Meters!FrozenGaugeIsTold'
    BY <1>1 DEF Meters!MetricsInv, Meters!PageAddsUp, Meters!FrozenGaugeIsTold
  <1>6. QED
    BY <1>3, <1>4, <1>5 DEF Meters!MetricsInv

LEMMA MeterRedis ==
    ASSUME Meters!MetricsInv, Meters!RedisMoves PROVE Meters!MetricsInv'
  <1>1. /\ UNCHANGED <<responses, counter, histogram, dropped, gauge, errors,
                       scrape, page>>
        /\ redis' \in 0..MaxLength \cup {NULL}
    BY DEF Meters!RedisMoves
  <1>2. Meters!TypeOK' /\ Meters!SeriesInv' /\ Meters!BucketsAreCumulative'
    BY <1>1, MeterTypes, MeterQuiet
  <1>3. Meters!ScrapeInv' /\ Meters!PageAddsUp' /\ Meters!FrozenGaugeIsTold'
    BY <1>1 DEF Meters!MetricsInv, Meters!ScrapeInv, Meters!PageAddsUp,
                Meters!FrozenGaugeIsTold
  <1>4. QED
    BY <1>2, <1>3 DEF Meters!MetricsInv

\* A scrape that could not read the queue counts an error before it renders.
LEMMA MeterCollected ==
    ASSUME Meters!MetricsInv, NEW s \in Scraper, Meters!Collected(s)
    PROVE  Meters!MetricsInv'
  <1> DEFINE row == [pc |-> "render", length |-> scrape[s].length,
                     errors |-> scrape[s].errors]
  <1>1. UNCHANGED <<responses, counter, histogram, dropped, redis, page>>
    BY DEF Meters!Collected
  <1>2. row \in Scrapes /\ row.errors = scrape[s].errors
        /\ row.length = scrape[s].length
    BY MeterTypes DEF Scrapes
  <1>3. scrape' = [scrape EXCEPT ![s] = row]
    <2>1. scrape[s] \in Scrapes
      BY MeterTypes
    <2>2. row = [scrape[s] EXCEPT !.pc = "render"]
      BY <2>1 DEF Scrapes
    <2>3. scrape' = [scrape EXCEPT ![s].pc = "render"]
      BY DEF Meters!Collected
    <2>4. QED
      BY <2>2, <2>3, MeterTypes
  <1> HIDE DEF row
  <1>4. /\ errors' \in 0..MaxErrors /\ errors' \in Nat /\ errors <= errors'
        /\ gauge' \in 0..MaxLength \cup {NULL}
        /\ row.errors <= errors'
        /\ row.length # NULL \/ errors' > row.errors
    <2>1. CASE scrape[s].length = NULL
      <3>1. errors < MaxErrors /\ errors' = errors + 1 /\ gauge' = gauge
        BY <2>1 DEF Meters!Collected
      <3>2. QED
        BY <1>2, <3>1, MeterTypes, MeterParameters
    <2>2. CASE scrape[s].length # NULL
      <3>1. errors' = errors /\ gauge' = scrape[s].length
        BY <2>2 DEF Meters!Collected
      <3>2. QED
        BY <1>2, <2>2, <3>1, MeterTypes
    <2>3. QED
      BY <2>1, <2>2
  <1>5. Meters!TypeOK' /\ Meters!SeriesInv' /\ Meters!BucketsAreCumulative'
    BY <1>1, <1>4, MeterTypes, MeterQuiet
  <1>6. Meters!ScrapeInv'
    BY <1>2, <1>3, <1>4, ScrapeMoves
  <1>7. Meters!PageAddsUp' /\ Meters!FrozenGaugeIsTold'
    BY <1>1 DEF Meters!MetricsInv, Meters!PageAddsUp, Meters!FrozenGaugeIsTold
  <1>8. QED
    BY <1>5, <1>6, <1>7 DEF Meters!MetricsInv

\* A page is one turn of the event loop, so its sums are of one moment.
LEMMA MeterRender ==
    ASSUME Meters!MetricsInv, NEW s \in Scraper, Meters!Render(s)
    PROVE  Meters!MetricsInv'
  <1>1. /\ UNCHANGED <<responses, counter, histogram, dropped, redis, gauge, errors>>
        /\ scrape' = [scrape EXCEPT ![s] = Meters!Idle]
        /\ scrape[s].pc = "render"
    BY DEF Meters!Render
  <1>2. Meters!Idle \in Scrapes /\ Meters!Idle.errors = 0
        /\ Meters!Idle.pc = "idle"
    BY DEF Meters!Idle, Scrapes
  <1>3. Meters!TypeOK' /\ Meters!SeriesInv' /\ Meters!BucketsAreCumulative'
    BY <1>1, MeterTypes, MeterQuiet
  <1>4. Meters!ScrapeInv'
    <2>1. errors' \in Nat /\ errors <= errors' /\ Meters!Idle.errors <= errors'
      BY <1>1, <1>2, MeterTypes
    <2>2. Meters!Idle.pc # "render"
      BY <1>2
    <2>3. QED
      BY <1>1, <1>2, <2>1, <2>2, ScrapeMoves
  <1>5. page' = [requests |-> Meters!Total(counter),
                 durations |-> Meters!Total(Meters!Durations),
                 dropped |-> dropped.counter + dropped.histogram,
                 sent |-> responses,
                 fresh |-> scrape[s].length # NULL,
                 newErrors |-> errors - scrape[s].errors]
    BY DEF Meters!Render, Meters!SeriesDropped
  <1>6. Meters!PageAddsUp'
    <2> DEFINE c == Meters!Total(counter)
               d == Meters!Total(Meters!Durations)
    <2>1. c + dropped.counter = responses /\ d + dropped.histogram = responses
      BY MeterFacts DEF Meters!SeriesInv
    <2>2. c \in Nat /\ d \in Nat
      <3>1. c \in Nat
        BY MeterFacts, TotalIsSum, SumType DEF Meters!SeriesInv
      <3> DEFINE f == Meters!Durations
      <3>2. f = [r \in DOMAIN histogram |-> histogram[r].count]
        BY DEF Meters!Durations
      <3>3. \A r \in DOMAIN histogram : histogram[r].count \in Nat
        BY MeterFacts DEF Cumulative, Entry
      <3>4. IsFiniteSet(DOMAIN f) /\ \A r \in DOMAIN f : f[r] \in Nat
        BY <3>2, <3>3, MeterFacts
      <3> HIDE DEF f
      <3>5. Meters!Total(f) \in Nat
        BY <3>4, TotalIsSum, SumType
      <3>6. QED
        BY <3>1, <3>5 DEF f
    <2>3. /\ page'.requests = c /\ page'.durations = d
          /\ page'.dropped = dropped.counter + dropped.histogram
          /\ page'.sent = responses
      BY <1>5
    <2> HIDE DEF c, d
    <2>4. page'.requests + page'.durations + page'.dropped = 2 * page'.sent
      BY <2>1, <2>2, <2>3, MeterFacts
    <2>5. QED
      BY <2>4 DEF Meters!PageAddsUp
  <1>7. Meters!FrozenGaugeIsTold'
    <2>1. page'.fresh = (scrape[s].length # NULL)
          /\ page'.newErrors = errors - scrape[s].errors
      BY <1>5
    <2>2. scrape[s].length # NULL \/ errors > scrape[s].errors
      BY <1>1, MeterTypes
    <2>3. scrape[s].errors \in Nat /\ errors \in Nat
      BY MeterTypes
    <2>4. page'.fresh \/ page'.newErrors > 0
      <3>1. CASE scrape[s].length # NULL
        BY Zenon, <2>1, <3>1
      <3>2. CASE errors > scrape[s].errors
        BY <2>1, <2>3, <3>2
      <3>3. QED
        BY <2>2, <3>1, <3>2
    <2>5. QED
      BY <2>4 DEF Meters!FrozenGaugeIsTold
  <1>8. QED
    BY <1>3, <1>4, <1>6, <1>7 DEF Meters!MetricsInv

LEMMA MeterNext ==
    ASSUME Meters!MetricsInv, Meters!Next PROVE Meters!MetricsInv'
BY MeterRespond, MeterRedis, MeterScrape, MeterCollected, MeterRender
DEF Meters!Next

-----------------------------------------------------------------------------
(* The components together. *)

outboundVars ==
    <<component, deliveryVars, healthVars, probeVars, metricVars, transportVars>>

\* The components run apart: a step is one of a component's own or leaves it
\* as it is.
LEMMA Alone ==
    ASSUME [OutboundNext]_outboundVars
    PROVE  /\ Reporting!Next \/ UNCHANGED healthVars
           /\ Probes!Next \/ UNCHANGED probeVars
           /\ Meters!Next \/ UNCHANGED metricVars
           /\ Transport!Next \/ UNCHANGED transportVars
  <1>1. Reporting!Next \/ UNCHANGED healthVars
    BY Zenon DEF OutboundNext, outboundVars
  <1>2. Probes!Next \/ UNCHANGED probeVars
    BY Zenon DEF OutboundNext, outboundVars
  <1>3. Meters!Next \/ UNCHANGED metricVars
    BY Zenon DEF OutboundNext, outboundVars
  <1>4. Transport!Next \/ UNCHANGED transportVars
    BY Zenon DEF OutboundNext, outboundVars
  <1>5. QED
    BY <1>1, <1>2, <1>3, <1>4

\* What is known of the components together.
OutboundInv ==
    /\ Reporting!HealthInv /\ Probes!ProbeInv /\ Meters!MetricsInv
    /\ Transport!AttemptInv

LEMMA OutboundBegins == ASSUME OutboundInit PROVE OutboundInv
BY HealthInit, ProbeInit, MeterInit, TransportInit DEF OutboundInit, OutboundInv

LEMMA OutboundStep ==
    ASSUME OutboundInv, [OutboundNext]_outboundVars
    PROVE  OutboundInv'
  <1>1. Reporting!HealthInv'
    <2>1. ASSUME UNCHANGED healthVars PROVE Reporting!HealthInv'
      BY <2>1
      DEF OutboundInv, healthVars, Reporting!HealthInv, Reporting!TypeOK,
          Reporting!BeatInv, Reporting!CheckInv, Reporting!CacheInv,
          Reporting!SilenceIsTold
    <2>2. QED
      BY <2>1, Alone, HealthNext DEF OutboundInv
  <1>2. Probes!ProbeInv'
    <2>1. ASSUME UNCHANGED probeVars PROVE Probes!ProbeInv'
      BY <2>1 DEF OutboundInv, probeVars, Probes!ProbeInv, Probes!TypeOK
    <2>2. QED
      BY <2>1, Alone, ProbeNext DEF OutboundInv
  <1>3. Meters!MetricsInv'
    <2>1. ASSUME UNCHANGED metricVars PROVE Meters!MetricsInv'
      <3>1. UNCHANGED <<responses, counter, histogram, dropped, redis, gauge,
                        errors, scrape, page>>
        BY <2>1 DEF metricVars
      <3>2. Meters!TypeOK' /\ Meters!SeriesInv' /\ Meters!BucketsAreCumulative'
        BY <3>1, MeterTypes, MeterQuiet DEF OutboundInv
      <3>3. Meters!ScrapeInv' /\ Meters!PageAddsUp' /\ Meters!FrozenGaugeIsTold'
        BY <3>1 DEF OutboundInv, Meters!MetricsInv, Meters!ScrapeInv,
                    Meters!PageAddsUp, Meters!FrozenGaugeIsTold
      <3>4. QED
        BY <3>2, <3>3 DEF Meters!MetricsInv
    <2>2. QED
      BY <2>1, Alone, MeterNext DEF OutboundInv
  <1>4. Transport!AttemptInv'
    <2>1. ASSUME UNCHANGED transportVars PROVE Transport!AttemptInv'
      BY <2>1
      DEF OutboundInv, transportVars, Transport!AttemptInv, Transport!TypeOK,
          Transport!ExchangeInv, Transport!AttemptIsTrue
    <2>2. QED
      BY <2>1, Alone, TransportNext DEF OutboundInv
  <1>5. QED
    BY <1>1, <1>2, <1>3, <1>4 DEF OutboundInv

LEMMA OutboundKeeps == OutboundSpec => []OutboundInv
  <1>1. OutboundInit => OutboundInv
    BY OutboundBegins
  <1>2. OutboundInv /\ [OutboundNext]_outboundVars => OutboundInv'
    BY OutboundStep
  <1>3. QED
    BY <1>1, <1>2, PTL DEF OutboundSpec, outboundVars

\* Health reports, probes, metrics and attempts have their types, whichever
\* component runs (system.service.ts, lib/metrics.ts, webhook-transport.ts).
THEOREM OperatorsTypes == OutboundSpec => []OperatorsTypeOK
  <1>1. ASSUME OutboundInv PROVE OperatorsTypeOK
    <2>1. /\ Reporting!TypeOK /\ Probes!TypeOK /\ Meters!TypeOK /\ Transport!TypeOK
      BY <1>1 DEF OutboundInv, Reporting!HealthInv, Probes!ProbeInv,
                  Meters!MetricsInv, Transport!AttemptInv
    <2>2. QED
      BY <2>1 DEF OperatorsTypeOK
  <1>2. QED
    BY <1>1, OutboundKeeps, PTL

\* A worker that has been silent for longer than its heartbeat lives is down in
\* every report that is answered, cached ones included, and a probe that says
\* ready found both dependencies within its timeout (system.service.ts check,
\* ready).
THEOREM OutagesAreTold == OutboundSpec => []OutageIsTold
  <1>1. ASSUME OutboundInv PROVE OutageIsTold
    BY <1>1, ReadinessTold
    DEF OutboundInv, OutageIsTold, Reporting!HealthInv
  <1>2. QED
    BY <1>1, OutboundKeeps, PTL

\* Every page accounts for all responses of its moment, buckets are cumulative,
\* and a gauge that was not read counts an error (lib/metrics.ts render).
THEOREM MetricsDoAddUp == OutboundSpec => []MetricsAddUp
  <1>1. ASSUME OutboundInv PROVE MetricsAddUp
    BY <1>1 DEF OutboundInv, Meters!MetricsInv, MetricsAddUp
  <1>2. QED
    BY <1>1, OutboundKeeps, PTL

\* An attempt is settled by its deadline, with what happened to the request
\* (webhook-transport.ts send).
THEOREM AttemptsAreTrue == OutboundSpec => []AttemptIsTrue
  <1>1. ASSUME OutboundInv PROVE AttemptIsTrue
    BY <1>1
    DEF OutboundInv, Transport!AttemptInv, Transport!ExchangeInv,
        Transport!SettledInTime, AttemptIsTrue
  <1>2. QED
    BY <1>1, OutboundKeeps, PTL
=============================================================================
