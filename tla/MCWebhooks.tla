----------------------------- MODULE MCWebhooks -----------------------------
(***************************************************************************)
(* What leaves the system: the webhooks owed to endpoints, the transport   *)
(* that carries one attempt, and what operators are told by the health     *)
(* report, the readiness probe and the metrics. Webhook delivery is        *)
(* extended, with one tick per process, the others are instances. The      *)
(* initial state chooses the component that runs and the others stay as    *)
(* they are, so that their states add up instead of multiplying.           *)
(***************************************************************************)
EXTENDS WebhookDelivery, TLC

CONSTANTS
    Worker, Leased, Caller, Interval, MinTtl, CacheFor, QueueDegraded, QueueDown,
    MaxCheck, Timeout,
    Route, Status, Seconds, Buckets, MaxSeries, Scraper, MaxLength, MaxResponses,
    MaxErrors,
    Address, Private, Code, MaxBody, MaxLookup

VARIABLES
    component,
    up, beat, silent, cache, check, answer,
    running, downFor, probe,
    responses, counter, histogram, dropped, redis, gauge, errors, scrape, page,
    pc, address, looked, deadline, dialled, code, seen, body, attempt

OwnInstance == [p \in Pass |-> p]
EachTick == [w \in Worker |-> 1]
TwoBuckets == <<1, 3>>
Symmetry == Permutations(Pass) \cup Permutations(Event)

deliveryVars == <<lease, endpoint, breaker, delivery, emission, replaying, pass,
                  drain, received, requests, streak, losses, replays>>
healthVars == <<up, beat, silent, cache, check, answer>>
probeVars == <<running, downFor, probe>>
metricVars ==
    <<responses, counter, histogram, dropped, redis, gauge, errors, scrape, page>>
transportVars ==
    <<pc, address, looked, deadline, dialled, code, seen, body, attempt>>

-----------------------------------------------------------------------------
Reporting == INSTANCE SystemHealth WITH told <- answer

Probes == INSTANCE Readiness WITH up <- running

Meters == INSTANCE Metrics

Transport == INSTANCE WebhookTransport

ASSUME OutboundAssumption ==
    /\ Reporting!HealthAssumption
    /\ Probes!ReadinessAssumption
    /\ Meters!MetricsAssumption
    /\ Transport!TransportAssumption

-----------------------------------------------------------------------------
OutboundInit ==
    /\ component \in {"delivery", "health", "probes", "meters", "transport"}
    /\ Init
    /\ Reporting!Init
    /\ Probes!Init
    /\ Meters!Init
    /\ Transport!Init

OutboundNext ==
    \/ /\ component = "delivery"
       /\ Next
       /\ UNCHANGED <<component, healthVars, probeVars, metricVars, transportVars>>
    \/ /\ component = "health"
       /\ Reporting!Next
       /\ UNCHANGED <<component, deliveryVars, probeVars, metricVars, transportVars>>
    \/ /\ component = "probes"
       /\ Probes!Next
       /\ UNCHANGED <<component, deliveryVars, healthVars, metricVars, transportVars>>
    \/ /\ component = "meters"
       /\ Meters!Next
       /\ UNCHANGED <<component, deliveryVars, healthVars, probeVars, transportVars>>
    \/ /\ component = "transport"
       /\ Transport!Next
       /\ UNCHANGED <<component, deliveryVars, healthVars, probeVars, metricVars>>

OutboundSpec ==
    /\ OutboundInit
    /\ [][OutboundNext]_<<component, deliveryVars, healthVars, probeVars,
                          metricVars, transportVars>>

-----------------------------------------------------------------------------
\* Types of what operators see and of the transport, where they run.
OperatorsTypeOK ==
    /\ component = "health" => Reporting!TypeOK
    /\ component = "probes" => Probes!TypeOK
    /\ component = "meters" => Meters!TypeOK
    /\ component = "transport" => Transport!TypeOK

\* What is gone is said to be gone: a worker in the report, an instance's
\* dependency in the probe (system.service.ts check, ready).
OutageIsTold ==
    /\ component = "health" => Reporting!SilenceIsTold
    /\ component = "probes" => Probes!ReadyWasUp

\* A page of metrics accounts for everything that was to be recorded
\* (lib/metrics.ts).
MetricsAddUp ==
    component = "meters" =>
        /\ Meters!PageAddsUp
        /\ Meters!BucketsAreCumulative
        /\ Meters!FrozenGaugeIsTold

\* An attempt ends in time, and with what happened (webhook-transport.ts send).
AttemptIsTrue ==
    component = "transport" => Transport!SettledInTime /\ Transport!AttemptIsTrue

=============================================================================
