--------------------------- MODULE WebhookDelivery ---------------------------
(***************************************************************************)
(* Outbound webhooks: events are owed to every active endpoint in the      *)
(* transaction that causes them, and a worker under a lease sends what is  *)
(* due, endpoint by endpoint, behind a circuit breaker.                    *)
(*                                                                         *)
(* A pass reads its batch once.  drain[p][e] is the coroutine of pass p    *)
(* that works through endpoint e: its todo and its breaker are what that   *)
(* read returned, and every await between two writes is a step boundary.   *)
(*                                                                         *)
(* Time appears only as what the code compares it with: due says that      *)
(* nextAttemptAt has come, cooled that breakerOpenedAt is a cooldown ago.  *)
(***************************************************************************)
EXTENDS Integers, FiniteSets, SchedulerLease

CONSTANTS
    Event,          \* state changes that owe a webhook
    Endpoint,
    Replayer,       \* replay requests that may be in progress
    Pass,           \* ticks that may be in progress or leave work behind
    InstanceOf,     \* the process each tick runs in
    MaxAttempts,    \* WEBHOOK_MAX_ATTEMPTS
    Threshold,      \* BREAKER_FAILURE_THRESHOLD
    BatchSize,      \* BATCH_SIZE
    MaxConcurrent,  \* MAX_CONCURRENT_DELIVERIES
    Faults,         \* faults considered besides crashes
    MaxLosses,      \* bound on process crashes and failed queries
    MaxReplays      \* bound on manual replays

ASSUME WebhookAssumption ==
    /\ IsFiniteSet(Endpoint)
    /\ InstanceOf \in [Pass -> Instance]
    /\ MaxAttempts \in Nat \ {0}
    /\ Threshold \in Nat \ {0}
    /\ BatchSize \in Nat \ {0}
    /\ MaxConcurrent \in Nat \ {0}
    /\ Faults \subseteq {"endpoint deleted", "query fails", "renewal fails",
                         "replays overlap"}
    /\ NULL \notin Event \X Endpoint
    /\ MaxLosses \in Nat
    /\ MaxReplays \in Nat

VARIABLES
    endpoint,   \* status of each endpoint
    breaker,    \* circuit breaker of each endpoint, in its row
    delivery,   \* the row owed to each endpoint for each event
    emission,   \* the transaction that causes each event
    replaying,  \* the delivery each replay request has read as FAILED
    pass,       \* each tick
    drain,      \* the coroutine of each tick for each endpoint
    received,   \* history: deliveries their endpoint has processed
    requests,   \* history: requests made for each delivery since it was queued
    streak,     \* history: failures since the endpoint answered or cooled down
    losses,
    replays

rowVars == <<endpoint, breaker, delivery>>
historyVars == <<received, requests, streak>>
vars == <<lease, rowVars, emission, replaying, pass, drain, historyVars,
          losses, replays>>

Delivery == Event \X Endpoint

-----------------------------------------------------------------------------
\* The circuit breaker.

BreakerState == {"CLOSED", "OPEN", "HALF_OPEN"}
Breaker == [state: BreakerState, failures: Nat, cooled: BOOLEAN]

ClosedBreaker == [state |-> "CLOSED", failures |-> 0, cooled |-> FALSE]

\* Mutant: a half-open breaker waits for the result of its probe.
AdmitWhenClosedOrCooled(b) ==
    b.state = "CLOSED" \/ (b.state = "OPEN" /\ b.cooled)

\* Both OPEN and HALF_OPEN admit once the cooldown has elapsed.
admit(b) == b.state = "CLOSED" \/ b.cooled

\* The snapshot to persist before the attempt.
admitted(b) ==
    IF b.state = "CLOSED" THEN b
    ELSE [b EXCEPT !.state = "HALF_OPEN", !.cooled = FALSE]

\* Mutant: a failed probe leaves the breaker closed, with a fresh count.
ForgivingFailure(b) ==
    [state |-> IF b.state # "HALF_OPEN" /\ b.failures + 1 >= Threshold
               THEN "OPEN" ELSE "CLOSED",
     failures |-> IF b.state = "HALF_OPEN" THEN 0 ELSE b.failures + 1,
     cooled |-> FALSE]

onFailure(b) ==
    [state |-> IF b.state = "HALF_OPEN" \/ b.failures + 1 >= Threshold
               THEN "OPEN" ELSE "CLOSED",
     failures |-> b.failures + 1,
     cooled |-> FALSE]

-----------------------------------------------------------------------------
EndpointStatus == {"NONE", "ACTIVE", "DISABLED", "DELETED"}
DeliveryStatus == {"NONE", "PENDING", "DELIVERED", "FAILED", "DELETED"}
Row == [status: DeliveryStatus, attempts: Nat, due: BOOLEAN]

\* A delivery a pass has read, with the attempts it had then.
Item == [event: Event, attempts: Nat]

\* Where a coroutine is: not started, between two deliveries, past the breaker,
\* waiting for the endpoint, or about to write what the answer means.
Phase == {"none", "queued", "ready", "admitted", "sending", "closing",
          "tripping", "gone", "purging"}
Drain == [phase: Phase, todo: SUBSET Item, item: Item \cup {NULL},
          breaker: Breaker]
NoDrain == [phase |-> "none", todo |-> {}, item |-> NULL,
            breaker |-> ClosedBreaker]

\* slots counts the runners of mapWithConcurrency that are free.
PassState == [step: {"idle", "listing", "running", "rejected"}, slots: Nat]
IdlePass == [step |-> "idle", slots |-> 0]

TypeOK ==
    /\ LeaseTypeOK
    /\ endpoint \in [Endpoint -> EndpointStatus]
    /\ breaker \in [Endpoint -> Breaker]
    /\ delivery \in [Delivery -> Row]
    /\ emission \in [Event -> [step: {"none", "read", "done"},
                               targets: SUBSET Endpoint]]
    /\ replaying \in [Replayer -> Delivery \cup {NULL}]
    /\ pass \in [Pass -> PassState]
    /\ drain \in [Pass -> [Endpoint -> Drain]]
    /\ received \subseteq Delivery
    /\ requests \in [Delivery -> Nat]
    /\ streak \in [Endpoint -> Nat]
    /\ losses \in Nat
    /\ replays \in Nat

Init ==
    /\ LeaseInit
    /\ endpoint = [e \in Endpoint |-> "NONE"]
    /\ breaker = [e \in Endpoint |-> ClosedBreaker]
    /\ delivery = [d \in Delivery |->
                      [status |-> "NONE", attempts |-> 0, due |-> FALSE]]
    /\ emission = [v \in Event |-> [step |-> "none", targets |-> {}]]
    /\ replaying = [r \in Replayer |-> NULL]
    /\ pass = [p \in Pass |-> IdlePass]
    /\ drain = [p \in Pass |-> [e \in Endpoint |-> NoDrain]]
    /\ received = {}
    /\ requests = [d \in Delivery |-> 0]
    /\ streak = [e \in Endpoint |-> 0]
    /\ losses = 0
    /\ replays = 0

-----------------------------------------------------------------------------
\* Endpoints, and the events owed to them.

Register(e) ==
    /\ endpoint[e] = "NONE"
    /\ endpoint' = [endpoint EXCEPT ![e] = "ACTIVE"]
    /\ UNCHANGED <<lease, breaker, delivery, emission, replaying, pass, drain,
                   historyVars, losses, replays>>

\* Deleting an endpoint deletes its deliveries.
Delete(e) ==
    /\ "endpoint deleted" \in Faults
    /\ endpoint[e] \in {"ACTIVE", "DISABLED"}
    /\ endpoint' = [endpoint EXCEPT ![e] = "DELETED"]
    /\ delivery' = [d \in Delivery |->
          IF d[2] = e THEN [delivery[d] EXCEPT !.status = "DELETED"]
          ELSE delivery[d]]
    /\ UNCHANGED <<lease, breaker, emission, replaying, pass, drain,
                   historyVars, losses, replays>>

\* enqueueWebhookEvent, in its caller's transaction: the active endpoints ...
EmitRead(v) ==
    /\ emission[v].step = "none"
    /\ emission' = [emission EXCEPT ![v] =
          [step |-> "read",
           targets |-> {e \in Endpoint : endpoint[e] = "ACTIVE"}]]
    /\ UNCHANGED <<lease, rowVars, replaying, pass, drain, historyVars,
                   losses, replays>>

\* ... and a row for each of them, visible when that transaction commits.
EmitCommit(v) ==
    /\ emission[v].step = "read"
    /\ \A e \in emission[v].targets : endpoint[e] # "DELETED"
    /\ emission' = [emission EXCEPT ![v].step = "done"]
    /\ delivery' = [d \in Delivery |->
          IF d[1] = v /\ d[2] \in emission[v].targets
          THEN [status |-> "PENDING", attempts |-> 0, due |-> TRUE]
          ELSE delivery[d]]
    /\ UNCHANGED <<lease, endpoint, breaker, replaying, pass, drain,
                   historyVars, losses, replays>>

\* The transaction fails for a reason of its own or its foreign key does.
EmitAbort(v) ==
    /\ emission[v].step = "read"
    /\ emission' = [emission EXCEPT ![v] = [step |-> "none", targets |-> {}]]
    /\ UNCHANGED <<lease, rowVars, replaying, pass, drain, historyVars,
                   losses, replays>>

\* Mutant: a delivery is replayed whatever became of it.
ReplayReadAny(r, d) ==
    /\ replaying[r] = NULL
    /\ replays < MaxReplays
    /\ endpoint[d[2]] = "ACTIVE"
    /\ replaying' = [replaying EXCEPT ![r] = d]
    /\ replays' = replays + 1
    /\ UNCHANGED <<lease, rowVars, emission, pass, drain, historyVars, losses>>

\* replayDelivery reads the delivery with its endpoint ...
ReplayRead(r, d) ==
    /\ replaying[r] = NULL
    /\ "replays overlap" \in Faults \/ \A q \in Replayer : replaying[q] # d
    /\ replays < MaxReplays
    /\ delivery[d].status = "FAILED"
    /\ endpoint[d[2]] = "ACTIVE"
    /\ replaying' = [replaying EXCEPT ![r] = d]
    /\ replays' = replays + 1
    /\ UNCHANGED <<lease, rowVars, emission, pass, drain, historyVars, losses>>

\* ... and then queues it again by id.
ReplayWrite(r) ==
    LET d == replaying[r]
    IN
    /\ d # NULL
    /\ replaying' = [replaying EXCEPT ![r] = NULL]
    /\ IF endpoint[d[2]] = "DELETED"
       THEN UNCHANGED <<delivery, requests>>
       ELSE /\ delivery' = [delivery EXCEPT ![d] =
                  [status |-> "PENDING", attempts |-> 0, due |-> TRUE]]
            /\ requests' = [requests EXCEPT ![d] = 0]
    /\ UNCHANGED <<lease, endpoint, breaker, emission, pass, drain, received,
                   streak, losses, replays>>

-----------------------------------------------------------------------------
\* The clock.

\* nextAttemptAt comes.
Due(d) ==
    /\ delivery[d].status = "PENDING"
    /\ ~delivery[d].due
    /\ delivery' = [delivery EXCEPT ![d].due = TRUE]
    /\ UNCHANGED <<lease, endpoint, breaker, emission, replaying, pass, drain,
                   historyVars, losses, replays>>

\* A cooldown has passed since breakerOpenedAt.
Cools(e) ==
    /\ breaker[e].state # "CLOSED"
    /\ ~breaker[e].cooled
    /\ breaker' = [breaker EXCEPT ![e].cooled = TRUE]
    /\ streak' = [streak EXCEPT ![e] = 0]
    /\ UNCHANGED <<lease, endpoint, delivery, emission, replaying, pass, drain,
                   received, requests, losses, replays>>

\* The lease is renewed while its holder works, unless the renewals fail.
LeaseLapses ==
    /\ \/ "renewal fails" \in Faults
       \/ \A p \in Pass : InstanceOf[p] = lease =>
              pass[p].step \notin {"listing", "running"}
    /\ Lapse
    /\ UNCHANGED <<rowVars, emission, replaying, pass, drain, historyVars,
                   losses, replays>>

-----------------------------------------------------------------------------
\* A tick.

Begin(p) ==
    /\ pass[p] = IdlePass
    /\ Acquire(InstanceOf[p])
    /\ pass' = [pass EXCEPT ![p].step = "listing"]
    /\ UNCHANGED <<rowVars, emission, replaying, drain, historyVars, losses,
                   replays>>

DueDeliveries ==
    {d \in Delivery : /\ delivery[d].status = "PENDING"
                      /\ delivery[d].due
                      /\ endpoint[d[2]] = "ACTIVE"}

\* listDue and byEndpoint: up to BatchSize due rows, S, grouped by endpoint.
List(p, S) ==
    /\ pass[p].step = "listing"
    /\ S \subseteq DueDeliveries
    /\ Cardinality(S) <= BatchSize
    /\ Cardinality(S) = BatchSize \/ S = DueDeliveries
    /\ LET groups == {d[2] : d \in S}
       IN  /\ drain' = [drain EXCEPT ![p] = [e \in Endpoint |->
                 IF e \in groups
                 THEN [phase |-> "queued", item |-> NULL, breaker |-> breaker[e],
                       todo |-> {[event |-> d[1],
                                  attempts |-> delivery[d].attempts] :
                                    d \in {s \in S : s[2] = e}}]
                 ELSE NoDrain]]
           /\ pass' = [pass EXCEPT ![p] =
                 [step |-> "running",
                  slots |-> IF Cardinality(groups) < MaxConcurrent
                           THEN Cardinality(groups) ELSE MaxConcurrent]]
    /\ UNCHANGED <<lease, rowVars, emission, replaying, historyVars, losses,
                   replays>>

\* The coroutine goes on to another phase, or to its next delivery.
Enter(p, e, phase) ==
    drain' = [drain EXCEPT ![p][e].phase = phase]
Resume(p, e, b) ==
    drain' = [drain EXCEPT ![p][e] =
       [phase |-> "ready", todo |-> @.todo, item |-> NULL, breaker |-> b]]

\* A free runner takes the next group.
Take(p, e) ==
    /\ drain[p][e].phase = "queued"
    /\ pass[p].slots > 0
    /\ Enter(p, e, "ready")
    /\ pass' = [pass EXCEPT ![p].slots = @ - 1]
    /\ UNCHANGED <<lease, rowVars, emission, replaying, historyVars, losses,
                   replays>>

\* Mutant: the runner's slot is taken a second time.
LeaveTwice(p, e) ==
    /\ drain' = [drain EXCEPT ![p][e] = NoDrain]
    /\ pass' = [pass EXCEPT ![p].slots = @ - 1]

\* The group is done, or the rest of it is skipped.
Leave(p, e) ==
    /\ drain' = [drain EXCEPT ![p][e] = NoDrain]
    /\ pass' = [pass EXCEPT ![p].slots = @ + 1]

GroupDone(p, e) ==
    /\ drain[p][e].phase = "ready"
    /\ drain[p][e].todo = {}
    /\ Leave(p, e)
    /\ UNCHANGED <<lease, rowVars, emission, replaying, historyVars, losses,
                   replays>>

\* Every group is done: withLease releases, or the release fails.
Finish(p) ==
    /\ pass[p].step = "running"
    /\ \A e \in Endpoint : drain[p][e].phase = "none"
    /\ pass' = [pass EXCEPT ![p] = IdlePass]
    /\ Release(InstanceOf[p]) \/ ReleaseFails
    /\ UNCHANGED <<rowVars, emission, replaying, drain, historyVars, losses,
                   replays>>

-----------------------------------------------------------------------------
\* One endpoint's deliveries, one at a time.

\* A row that is updated by id is still there.
Writable(e) == endpoint[e] # "DELETED"

\* The breaker refuses: the delivery is parked, and no attempt is spent.
Park(p, e, i) ==
    /\ drain[p][e].phase = "ready"
    /\ i \in drain[p][e].todo
    /\ ~admit(drain[p][e].breaker)
    /\ Writable(e)
    /\ delivery' = [delivery EXCEPT ![<<i.event, e>>].due = FALSE]
    /\ drain' = [drain EXCEPT ![p][e].todo = @ \ {i}]
    /\ UNCHANGED <<lease, endpoint, breaker, emission, replaying, pass,
                   historyVars, losses, replays>>

\* drainEndpoint adopts that snapshot only when the state changes: a breaker
\* that was half open already keeps the time of its lost probe.
adopted(b) == IF admitted(b).state = b.state THEN b ELSE admitted(b)

\* The breaker admits, and a new probe is written down before it leaves.
Admit(p, e, i) ==
    /\ drain[p][e].phase = "ready"
    /\ i \in drain[p][e].todo
    /\ admit(drain[p][e].breaker)
    /\ drain[p][e].breaker.state # "CLOSED" => Writable(e)
    /\ LET b == adopted(drain[p][e].breaker)
       IN  /\ drain' = [drain EXCEPT ![p][e] =
                 [phase |-> "admitted", todo |-> @.todo \ {i}, item |-> i,
                  breaker |-> b]]
           /\ breaker' = IF b.state = drain[p][e].breaker.state THEN breaker
                         ELSE [breaker EXCEPT ![e] = b]
    /\ UNCHANGED <<lease, endpoint, delivery, emission, replaying, pass,
                   historyVars, losses, replays>>

\* openSecret throws: the delivery fails, with no request and no breaker.
Unreadable(p, e) ==
    /\ drain[p][e].phase = "admitted"
    /\ Writable(e)
    /\ delivery' = [delivery EXCEPT
          ![<<drain[p][e].item.event, e>>].status = "FAILED"]
    /\ Resume(p, e, drain[p][e].breaker)
    /\ UNCHANGED <<lease, endpoint, breaker, emission, replaying, pass,
                   historyVars, losses, replays>>

Send(p, e) ==
    /\ drain[p][e].phase = "admitted"
    /\ Enter(p, e, "sending")
    /\ requests' = [requests EXCEPT ![<<drain[p][e].item.event, e>>] = @ + 1]
    /\ UNCHANGED <<lease, rowVars, emission, replaying, pass, received, streak,
                   losses, replays>>

\* The endpoint processes the request, whether or not its answer arrives.
Receive(p, e) ==
    /\ drain[p][e].phase = "sending"
    /\ <<drain[p][e].item.event, e>> \notin received
    /\ received' = received \cup {<<drain[p][e].item.event, e>>}
    /\ UNCHANGED <<lease, rowVars, emission, replaying, pass, drain, requests,
                   streak, losses, replays>>

\* A 2xx: the delivery ...
Succeed(p, e) ==
    LET i == drain[p][e].item
    IN
    /\ drain[p][e].phase = "sending"
    /\ <<i.event, e>> \in received
    /\ Writable(e)
    /\ delivery' = [delivery EXCEPT ![<<i.event, e>>].status = "DELIVERED",
                                    ![<<i.event, e>>].attempts = i.attempts + 1]
    /\ streak' = [streak EXCEPT ![e] = 0]
    /\ Enter(p, e, "closing")
    /\ UNCHANGED <<lease, endpoint, breaker, emission, replaying, pass,
                   received, requests, losses, replays>>

\* ... and then the breaker, which any success closes.
Close(p, e) ==
    /\ drain[p][e].phase = "closing"
    /\ Writable(e)
    /\ breaker' = [breaker EXCEPT ![e] = ClosedBreaker]
    /\ Resume(p, e, ClosedBreaker)
    /\ UNCHANGED <<lease, endpoint, delivery, emission, replaying, pass,
                   historyVars, losses, replays>>

exhausted(attempts) == attempts >= MaxAttempts

\* Any other status, an error or the deadline: the delivery ...
Fail(p, e) ==
    LET i == drain[p][e].item
    IN
    /\ drain[p][e].phase = "sending"
    /\ Writable(e)
    /\ delivery' = [delivery EXCEPT ![<<i.event, e>>] =
          IF exhausted(i.attempts + 1)
          THEN [@ EXCEPT !.status = "FAILED", !.attempts = i.attempts + 1]
          ELSE [status |-> "PENDING", attempts |-> i.attempts + 1, due |-> FALSE]]
    /\ streak' = [streak EXCEPT ![e] = @ + 1]
    /\ Enter(p, e, "tripping")
    /\ UNCHANGED <<lease, endpoint, breaker, emission, replaying, pass,
                   received, requests, losses, replays>>

\* ... and then the breaker.
Trip(p, e) ==
    LET b == onFailure(drain[p][e].breaker)
    IN
    /\ drain[p][e].phase = "tripping"
    /\ Writable(e)
    /\ breaker' = [breaker EXCEPT ![e] = b]
    /\ Resume(p, e, b)
    /\ UNCHANGED <<lease, endpoint, delivery, emission, replaying, pass,
                   historyVars, losses, replays>>

\* 410 Gone: the endpoint is disabled, ...
Gone(p, e) ==
    /\ drain[p][e].phase = "sending"
    /\ Writable(e)
    /\ endpoint' = [endpoint EXCEPT ![e] = "DISABLED"]
    /\ Enter(p, e, "gone")
    /\ UNCHANGED <<lease, breaker, delivery, emission, replaying, pass,
                   historyVars, losses, replays>>

\* ... the delivery fails, ...
GoneDelivery(p, e) ==
    LET i == drain[p][e].item
    IN
    /\ drain[p][e].phase = "gone"
    /\ Writable(e)
    /\ delivery' = [delivery EXCEPT ![<<i.event, e>>].status = "FAILED",
                                    ![<<i.event, e>>].attempts = i.attempts + 1]
    /\ Enter(p, e, "purging")
    /\ UNCHANGED <<lease, endpoint, breaker, emission, replaying, pass,
                   historyVars, losses, replays>>

\* ... and the endpoint's backlog with it; the rest of the group is skipped.
Purge(p, e) ==
    /\ drain[p][e].phase = "purging"
    /\ delivery' = [d \in Delivery |->
          IF d[2] = e /\ delivery[d].status = "PENDING"
          THEN [delivery[d] EXCEPT !.status = "FAILED"]
          ELSE delivery[d]]
    /\ Leave(p, e)
    /\ UNCHANGED <<lease, endpoint, breaker, emission, replaying, historyVars,
                   losses, replays>>

-----------------------------------------------------------------------------
\* Failures.

\* The coroutine is at an update by id, which throws when the row is gone.
Updating(p, e) ==
    \/ drain[p][e].phase \in {"admitted", "sending", "closing", "tripping", "gone"}
    \/ /\ drain[p][e].phase = "ready"
       /\ drain[p][e].todo # {}
       /\ drain[p][e].breaker.state # "CLOSED"

\* A query of one group throws.  Promise.all rejects, so the pass is over and
\* its lease released, but the other runners go on with the other groups.
Throw(p, e) ==
    /\ \/ /\ Updating(p, e)
          /\ ~Writable(e)
          /\ UNCHANGED losses
       \/ /\ "query fails" \in Faults
          /\ Updating(p, e) \/ drain[p][e].phase = "purging"
          /\ losses < MaxLosses
          /\ losses' = losses + 1
    /\ drain' = [drain EXCEPT ![p][e] = NoDrain]
    /\ pass' = [pass EXCEPT ![p].step = "rejected"]
    /\ IF pass[p].step = "running"
       THEN Release(InstanceOf[p]) \/ ReleaseFails
       ELSE UNCHANGED lease
    /\ UNCHANGED <<rowVars, emission, replaying, historyVars, replays>>

ListFails(p) ==
    /\ "query fails" \in Faults
    /\ pass[p].step = "listing"
    /\ losses < MaxLosses
    /\ losses' = losses + 1
    /\ pass' = [pass EXCEPT ![p] = IdlePass]
    /\ Release(InstanceOf[p]) \/ ReleaseFails
    /\ UNCHANGED <<rowVars, emission, replaying, drain, historyVars, replays>>

\* Nothing of a rejected pass is running any more.
Settled(p) ==
    /\ pass[p].step = "rejected"
    /\ \A e \in Endpoint :
           \/ drain[p][e].phase = "none"
           \/ drain[p][e].phase = "queued" /\ pass[p].slots = 0
    /\ pass' = [pass EXCEPT ![p] = IdlePass]
    /\ drain' = [drain EXCEPT ![p] = [e \in Endpoint |-> NoDrain]]
    /\ UNCHANGED <<lease, rowVars, emission, replaying, historyVars, losses,
                   replays>>

\* A process dies, and its ticks with it.  Its lease stays until it lapses.
Crash(i) ==
    /\ losses < MaxLosses
    /\ \E p \in Pass : InstanceOf[p] = i /\ pass[p] # IdlePass
    /\ losses' = losses + 1
    /\ pass' = [p \in Pass |-> IF InstanceOf[p] = i THEN IdlePass ELSE pass[p]]
    /\ drain' = [p \in Pass |-> IF InstanceOf[p] = i
                                THEN [e \in Endpoint |-> NoDrain]
                                ELSE drain[p]]
    /\ UNCHANGED <<lease, rowVars, emission, replaying, historyVars, replays>>

-----------------------------------------------------------------------------
Running(p, e) ==
    \/ Take(p, e) \/ GroupDone(p, e)
    \/ \E i \in drain[p][e].todo : Park(p, e, i) \/ Admit(p, e, i)
    \/ Unreadable(p, e) \/ Send(p, e)
    \/ Succeed(p, e) \/ Close(p, e)
    \/ Fail(p, e) \/ Trip(p, e)
    \/ Gone(p, e) \/ GoneDelivery(p, e) \/ Purge(p, e)
    \/ Throw(p, e)

Ticking(p) ==
    \/ \E S \in SUBSET DueDeliveries : List(p, S)
    \/ Finish(p) \/ ListFails(p) \/ Settled(p)

Next ==
    \/ \E e \in Endpoint : Register(e) \/ Delete(e) \/ Cools(e)
    \/ \E v \in Event : EmitRead(v) \/ EmitCommit(v) \/ EmitAbort(v)
    \/ \E r \in Replayer :
           ReplayWrite(r) \/ \E d \in Delivery : ReplayRead(r, d)
    \/ \E d \in Delivery : Due(d)
    \/ LeaseLapses
    \/ \E p \in Pass : Begin(p) \/ Ticking(p)
    \/ \E p \in Pass, e \in Endpoint : Running(p, e) \/ Receive(p, e)
    \/ \E i \in Instance : Crash(i)

Spec == Init /\ [][Next]_vars

\* Time passes; setInterval keeps starting ticks in every process; a query
\* returns, and a request returns by its deadline.  Nobody has to register an
\* endpoint, cause an event or replay a delivery.
TickFairness == WF_vars(\E p \in Pass : Begin(p))

PassFairness ==
    /\ \A d \in Delivery : WF_vars(Due(d))
    /\ \A e \in Endpoint : WF_vars(Cools(e))
    /\ WF_vars(LeaseLapses)
    /\ \A p \in Pass : WF_vars(Ticking(p))
    /\ \A p \in Pass, e \in Endpoint : WF_vars(Running(p, e))

FairSpec == Spec /\ TickFairness /\ PassFairness

-----------------------------------------------------------------------------
(***************************************************************************)
(* What holds while a pass is protected by its lease: no renewal fails and *)
(* no query throws, and two replays of one delivery do not overlap.        *)
(* Processes may crash.                                                    *)
(***************************************************************************)

Sending(e) == {p \in Pass : drain[p][e].phase = "sending"}

\* drainEndpoint is sequential and withLease runs one pass at a time: an
\* endpoint never has two requests of ours at once, so a half-open breaker
\* lets one probe through.
OneRequestPerEndpoint ==
    \A e \in Endpoint : \A p, q \in Sending(e) : p = q

\* A delivery is tried WEBHOOK_MAX_ATTEMPTS times since it was queued, and a
\* crash between a request and its record costs at most one more.
RetriesBounded ==
    \A d \in Delivery : requests[d] <= MaxAttempts + losses

\* The breaker cuts an endpoint off: without an answer of its own or a cooldown
\* in between it fails us Threshold times, and a crash between a failure and
\* the breaker's record of it costs at most one more.
BreakerCutsOff ==
    \A e \in Endpoint : streak[e] <= Threshold + losses

\* The deliveries are an outbox.
Outbox == INSTANCE EventOutbox WITH
    Message  <- Delivery,
    status   <- [d \in Delivery |-> delivery[d].status],
    received <- received
ImplementsOutbox == Outbox!Spec

\* What is owed to an active endpoint is delivered or given up on: a breaker
\* left half open by a crash does not refuse it forever, and parking a
\* delivery does not postpone it forever.
EventuallySettled ==
    \A d \in Delivery :
        (delivery[d].status = "PENDING" /\ endpoint[d[2]] = "ACTIVE")
            ~> (delivery[d].status # "PENDING" \/ endpoint[d[2]] # "ACTIVE")

-----------------------------------------------------------------------------
(***************************************************************************)
(* What the repository says and the code does not keep.                    *)
(***************************************************************************)

\* failPendingForEndpoint: the backlog of an endpoint that answered 410 goes
\* with it, and is not left PENDING behind a disabled endpoint.
DisabledHasNoBacklog ==
    \A d \in Delivery :
        endpoint[d[2]] = "DISABLED" /\ delivery[d].status = "PENDING" =>
            \E p \in Pass : drain[p][d[2]].phase \in {"gone", "purging"}

\* webhook-delivery.worker.ts: under the lease two passes do not claim
\* overlapping batches, so that a subscriber does not get each event twice.
PassesDoNotOverlap ==
    \A e \in Endpoint : \A p, q \in Sending(e) :
        drain[p][e].item.event = drain[q][e].item.event => p = q
=============================================================================
