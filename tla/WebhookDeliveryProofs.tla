----------------------- MODULE WebhookDeliveryProofs -----------------------
(***************************************************************************)
(* Proofs about WebhookDelivery for every number of events, endpoints,     *)
(* processes and crashes.  The theorems about requests and the breaker are *)
(* about passes that keep their lease (LeaseHolds).                        *)
(***************************************************************************)
EXTENDS WebhookDelivery, FiniteSetTheorems, TLAPS

-----------------------------------------------------------------------------
\* The phases in which a coroutine has chosen a delivery.
Attempting == {"admitted", "sending", "closing", "tripping", "gone", "purging"}

\* The item of a coroutine past the breaker: Init and Admit.
ItemInv ==
    \A p \in Pass, e \in Endpoint :
        drain[p][e].phase \in Attempting => drain[p][e].item \in Item
TypeInv == TypeOK /\ ItemInv

\* A step of one coroutine leaves the others alone.
Others(p, e) ==
    \A q \in Pass, f \in Endpoint : q # p \/ f # e => drain'[q][f] = drain[q][f]
DrainOK == drain' \in [Pass -> [Endpoint -> Drain]] /\ ItemInv'

-----------------------------------------------------------------------------
\* What the helpers return.

LEMMA BreakerResults ==
    /\ ClosedBreaker \in Breaker
    /\ \A b \in Breaker : onFailure(b) \in Breaker /\ adopted(b) \in Breaker
  <1>1. ClosedBreaker \in Breaker
    BY DEF ClosedBreaker, Breaker, BreakerState
  <1>2. ASSUME NEW b \in Breaker PROVE onFailure(b) \in Breaker
    <2>1. b.failures \in Nat
      BY Zenon DEF Breaker
    <2>2. (IF b.state = "HALF_OPEN" \/ b.failures + 1 >= Threshold
           THEN "OPEN" ELSE "CLOSED") \in BreakerState
      BY DEF BreakerState
    <2>3. b.failures + 1 \in Nat
      BY <2>1
    <2>4. QED
      BY <2>1, <2>2, <2>3, Zenon DEF onFailure, Breaker
  <1>3. ASSUME NEW b \in Breaker PROVE adopted(b) \in Breaker
    BY DEF Breaker, BreakerState, admitted, adopted
  <1>4. QED
    BY <1>1, <1>2, <1>3

LEMMA CounterType ==
    ASSUME TypeInv
    PROVE  losses \in Nat /\ replays \in Nat /\ losses + 1 \in Nat /\ replays + 1 \in Nat
  <1>1. losses \in Nat /\ replays \in Nat
    BY Zenon DEF TypeInv, TypeOK
  <1>2. QED
    BY <1>1

LEMMA NoDrainType == NoDrain \in Drain /\ NoDrain.phase = "none"
  BY BreakerResults DEF NoDrain, Drain, Phase

LEMMA DrainType ==
    ASSUME TypeInv
    PROVE  /\ drain \in [Pass -> [Endpoint -> Drain]]
           /\ \A p \in Pass, e \in Endpoint :
                  /\ drain[p][e] \in Drain
                  /\ drain[p][e].phase \in Phase
                  /\ drain[p][e].todo \in SUBSET Item
                  /\ drain[p][e].breaker \in Breaker
                  /\ drain[p][e].phase \in Attempting =>
                         drain[p][e].item \in Item
  <1>1. drain \in [Pass -> [Endpoint -> Drain]]
    BY DEF TypeInv, TypeOK
  <1>2. \A p \in Pass, e \in Endpoint : drain[p][e] \in Drain
    BY <1>1
  <1>3. \A d \in Drain : /\ d.phase \in Phase
                         /\ d.todo \in SUBSET Item
                         /\ d.breaker \in Breaker
    BY DEF Drain
  <1>4. QED
    BY <1>1, <1>2, <1>3 DEF TypeInv, ItemInv

\* A coroutine is replaced by r.
LEMMA DrainUpdate ==
    ASSUME TypeInv, NEW p \in Pass, NEW e \in Endpoint, NEW r \in Drain,
           r.phase \in Attempting => r.item \in Item,
           drain' = [drain EXCEPT ![p][e] = r]
    PROVE  DrainOK /\ Others(p, e) /\ drain'[p][e] = r
  <1>1. /\ drain' \in [Pass -> [Endpoint -> Drain]]
        /\ drain'[p][e] = r
        /\ Others(p, e)
    BY DEF TypeInv, TypeOK, Others
  <1>2. ItemInv'
    BY <1>1 DEF ItemInv, TypeInv, Others
  <1>3. QED
    BY <1>1, <1>2 DEF DrainOK

LEMMA EnterUpdate ==
    ASSUME TypeInv, NEW p \in Pass, NEW e \in Endpoint, NEW phase \in Phase,
           Enter(p, e, phase),
           phase \in Attempting => drain[p][e].item \in Item
    PROVE  /\ DrainOK /\ Others(p, e)
           /\ drain'[p][e].phase = phase
           /\ drain'[p][e].todo = drain[p][e].todo
           /\ drain'[p][e].item = drain[p][e].item
           /\ drain'[p][e].breaker = drain[p][e].breaker
  <1> DEFINE r == [drain[p][e] EXCEPT !.phase = phase]
  <1>1. drain[p][e] \in Drain
    BY DrainType
  <1>2. /\ r \in Drain
        /\ r.phase = phase
        /\ r.todo = drain[p][e].todo
        /\ r.item = drain[p][e].item
        /\ r.breaker = drain[p][e].breaker
    BY <1>1 DEF Drain
  <1>3. drain' = [drain EXCEPT ![p][e] = r]
    BY DEF Enter
  <1> HIDE DEF r
  <1>4. DrainOK /\ Others(p, e) /\ drain'[p][e] = r
    BY <1>2, <1>3, DrainUpdate
  <1>5. QED
    BY <1>2, <1>4

LEMMA ResumeUpdate ==
    ASSUME TypeInv, NEW p \in Pass, NEW e \in Endpoint, NEW b \in Breaker,
           Resume(p, e, b)
    PROVE  /\ DrainOK /\ Others(p, e)
           /\ drain'[p][e].phase = "ready"
           /\ drain'[p][e].todo = drain[p][e].todo
           /\ drain'[p][e].breaker = b
  <1> DEFINE r == [phase |-> "ready", todo |-> drain[p][e].todo,
                   item |-> NULL, breaker |-> b]
  <1>1. drain[p][e].todo \in SUBSET Item
    BY DrainType
  <1>2. /\ r \in Drain
        /\ r.phase = "ready"
        /\ r.todo = drain[p][e].todo
        /\ r.breaker = b
    BY <1>1 DEF Drain, Phase
  <1>3. drain' = [drain EXCEPT ![p][e] = r]
    BY DEF Resume
  <1> HIDE DEF r
  <1>4. DrainOK /\ Others(p, e) /\ drain'[p][e] = r
    BY <1>2, <1>3, DrainUpdate DEF Attempting
  <1>5. QED
    BY <1>2, <1>4

LEMMA ParkUpdate ==
    ASSUME TypeInv, NEW p \in Pass, NEW e \in Endpoint, NEW i, Park(p, e, i)
    PROVE  /\ DrainOK /\ Others(p, e)
           /\ drain'[p][e].phase = drain[p][e].phase
           /\ drain'[p][e].todo = drain[p][e].todo \ {i}
           /\ drain'[p][e].item = drain[p][e].item
           /\ drain'[p][e].breaker = drain[p][e].breaker
  <1> DEFINE r == [drain[p][e] EXCEPT !.todo = @ \ {i}]
  <1>1. drain[p][e] \in Drain
    BY DrainType
  <1>2. /\ r \in Drain
        /\ r.phase = drain[p][e].phase
        /\ r.todo = drain[p][e].todo \ {i}
        /\ r.item = drain[p][e].item
        /\ r.breaker = drain[p][e].breaker
    BY <1>1 DEF Drain
  <1>3. drain' = [drain EXCEPT ![p][e] = r]
    BY DEF Park
  <1>4. r.phase \in Attempting => r.item \in Item
    BY <1>2, DrainType
  <1> HIDE DEF r
  <1>5. DrainOK /\ Others(p, e) /\ drain'[p][e] = r
    BY <1>2, <1>3, <1>4, DrainUpdate
  <1>6. QED
    BY <1>2, <1>5

LEMMA AdmitUpdate ==
    ASSUME TypeInv, NEW p \in Pass, NEW e \in Endpoint,
           NEW i \in drain[p][e].todo, Admit(p, e, i)
    PROVE  /\ DrainOK /\ Others(p, e)
           /\ drain'[p][e].phase = "admitted"
           /\ drain'[p][e].todo = drain[p][e].todo \ {i}
           /\ drain'[p][e].item = i
           /\ drain'[p][e].breaker = adopted(drain[p][e].breaker)
  <1> DEFINE b == adopted(drain[p][e].breaker)
             r == [phase |-> "admitted", todo |-> drain[p][e].todo \ {i},
                   item |-> i, breaker |-> b]
  <1>1. b \in Breaker /\ i \in Item /\ drain[p][e].todo \in SUBSET Item
    BY DrainType, BreakerResults
  <1> HIDE DEF b
  <1>2. /\ r \in Drain
        /\ r.phase = "admitted"
        /\ r.todo = drain[p][e].todo \ {i}
        /\ r.item = i
        /\ r.breaker = b
    BY <1>1 DEF Drain, Phase
  <1>3. drain' = [drain EXCEPT ![p][e] = r]
    BY DEF Admit, b
  <1> HIDE DEF r
  <1>4. DrainOK /\ Others(p, e) /\ drain'[p][e] = r
    BY <1>1, <1>2, <1>3, DrainUpdate
  <1>5. QED
    BY <1>2, <1>4 DEF b

LEMMA LeaveUpdate ==
    ASSUME TypeInv, NEW p \in Pass, NEW e \in Endpoint, Leave(p, e)
    PROVE  /\ DrainOK /\ Others(p, e)
           /\ drain'[p][e].phase = "none"
           /\ pass' \in [Pass -> PassState]
           /\ \A q \in Pass : pass'[q].step = pass[q].step
  <1>1. DrainOK /\ Others(p, e) /\ drain'[p][e].phase = "none"
    BY NoDrainType, DrainUpdate DEF Leave, Attempting
  <1>2. pass \in [Pass -> PassState]
    BY DEF TypeInv, TypeOK
  <1>3. /\ pass' \in [Pass -> PassState]
        /\ \A q \in Pass : pass'[q].step = pass[q].step
    <2> DEFINE r == [pass[p] EXCEPT !.slots = @ + 1]
    <2>1. pass[p] \in PassState
      BY <1>2
    <2>2. r \in PassState /\ r.step = pass[p].step
      BY <2>1 DEF PassState
    <2>3. pass' = [pass EXCEPT ![p] = r]
      BY DEF Leave
    <2> HIDE DEF r
    <2>4. QED
      BY <1>2, <2>2, <2>3
  <1>4. QED
    BY <1>1, <1>3

LEMMA ItemType ==
    ASSUME NEW i \in Item, NEW e \in Endpoint
    PROVE  i.event \in Event /\ i.attempts \in Nat /\ <<i.event, e>> \in Delivery
  <1>1. i.event \in Event /\ i.attempts \in Nat
    BY DEF Item
  <1>2. QED
    BY <1>1 DEF Delivery

\* Rows keep their type, whatever of a row is written.
LEMMA RowUpdate ==
    ASSUME TypeInv, NEW d \in Delivery
    PROVE  /\ delivery[d] \in Row
           /\ \A r \in Row : [delivery EXCEPT ![d] = r] \in [Delivery -> Row]
           /\ \A s \in DeliveryStatus :
                  [delivery EXCEPT ![d].status = s] \in [Delivery -> Row]
           /\ \A s \in DeliveryStatus, n \in Nat :
                  [delivery EXCEPT ![d].status = s, ![d].attempts = n]
                      \in [Delivery -> Row]
           /\ \A b \in BOOLEAN :
                  [delivery EXCEPT ![d].due = b] \in [Delivery -> Row]
  <1>1. delivery \in [Delivery -> Row]
    BY DEF TypeInv, TypeOK
  <1>2. \A r \in Row : [delivery EXCEPT ![d] = r] \in [Delivery -> Row]
    BY <1>1
  <1>3. \A s \in DeliveryStatus :
            [delivery EXCEPT ![d].status = s] \in [Delivery -> Row]
    BY <1>1 DEF Row
  <1>4. \A s \in DeliveryStatus, n \in Nat :
            [delivery EXCEPT ![d].status = s, ![d].attempts = n]
                \in [Delivery -> Row]
    BY <1>1 DEF Row
  <1>5. \A b \in BOOLEAN : [delivery EXCEPT ![d].due = b] \in [Delivery -> Row]
    BY <1>1 DEF Row
  <1>6. QED
    BY <1>1, <1>2, <1>3, <1>4, <1>5

-----------------------------------------------------------------------------
\* Type correctness, action by action.

LEMMA InitType == Init => TypeInv
  <1>1. Init => ItemInv
    BY DEF Init, ItemInv, NoDrain, Attempting
  <1>2. ASSUME Init PROVE TypeOK
    <2>1. drain \in [Pass -> [Endpoint -> Drain]]
      BY <1>2, NoDrainType DEF Init
    <2>2. breaker \in [Endpoint -> Breaker]
      BY <1>2, BreakerResults DEF Init
    <2>3. delivery \in [Delivery -> Row]
      BY <1>2 DEF Init, Row, DeliveryStatus
    <2>4. pass \in [Pass -> PassState]
      BY <1>2 DEF Init, PassState, IdlePass
    <2>5. LeaseTypeOK
      BY <1>2 DEF Init, LeaseInit, LeaseTypeOK
    <2>6. QED
      BY <1>2, <2>1, <2>2, <2>3, <2>4, <2>5
      DEF Init, TypeOK, EndpointStatus, Delivery
  <1>3. QED
    BY <1>1, <1>2 DEF TypeInv

LEMMA EndpointType ==
    ASSUME TypeInv, NEW e \in Endpoint, Register(e) \/ Delete(e) \/ Cools(e)
    PROVE  TypeInv'
  <1>1. CASE Register(e)
    BY <1>1 DEF Register, TypeInv, TypeOK, ItemInv, historyVars, LeaseTypeOK,
                EndpointStatus
  <1>2. CASE Delete(e)
    <2>1. \A d \in Delivery : [delivery[d] EXCEPT !.status = "DELETED"] \in Row
      <3>1. \A row \in Row : [row EXCEPT !.status = "DELETED"] \in Row
        BY DEF Row, DeliveryStatus
      <3>2. \A d \in Delivery : delivery[d] \in Row
        BY DEF TypeInv, TypeOK
      <3>3. QED
        BY <3>1, <3>2
    <2>2. delivery' \in [Delivery -> Row]
      <3>1. \A d \in Delivery : delivery[d] \in Row
        BY DEF TypeInv, TypeOK
      <3>2. QED
        BY <1>2, <2>1, <3>1 DEF Delete
    <2>3. endpoint' \in [Endpoint -> EndpointStatus]
      BY <1>2 DEF Delete, TypeInv, TypeOK, EndpointStatus
    <2>4. UNCHANGED <<lease, breaker, emission, replaying, pass, drain,
                      historyVars, losses, replays>>
      BY <1>2 DEF Delete
    <2>5. QED
      BY <2>2, <2>3, <2>4 DEF TypeInv, TypeOK, ItemInv, historyVars, LeaseTypeOK
  <1>3. CASE Cools(e)
    <2>1. breaker' \in [Endpoint -> Breaker]
      <3>1. breaker \in [Endpoint -> Breaker]
        BY DEF TypeInv, TypeOK
      <3>2. [breaker[e] EXCEPT !.cooled = TRUE] \in Breaker
        BY <3>1 DEF Breaker
      <3>3. breaker' = [breaker EXCEPT ![e] = [breaker[e] EXCEPT !.cooled = TRUE]]
        BY <1>3, Zenon DEF Cools
      <3>4. QED
        BY <3>1, <3>2, <3>3
    <2>2. streak' \in [Endpoint -> Nat]
      BY <1>3 DEF Cools, TypeInv, TypeOK
    <2>3. QED
      BY <1>3, <2>1, <2>2 DEF Cools, TypeInv, TypeOK, ItemInv, LeaseTypeOK
  <1>4. QED
    BY <1>1, <1>2, <1>3

LEMMA EmissionType ==
    ASSUME TypeInv, NEW v \in Event, EmitRead(v) \/ EmitCommit(v) \/ EmitAbort(v)
    PROVE  TypeInv'
  <1> DEFINE E == [step: {"none", "read", "done"}, targets: SUBSET Endpoint]
  <1>1. emission \in [Event -> E]
    BY DEF TypeInv, TypeOK
  <1>2. CASE EmitRead(v)
    <2>1. [step |-> "read",
           targets |-> {e \in Endpoint : endpoint[e] = "ACTIVE"}] \in E
      OBVIOUS
    <2>2. emission' \in [Event -> E]
      BY <1>1, <1>2, <2>1, Zenon DEF EmitRead
    <2>3. QED
      BY <1>2, <2>2 DEF EmitRead, rowVars, historyVars, TypeInv, TypeOK, ItemInv,
                        LeaseTypeOK
  <1>3. CASE EmitCommit(v)
    <2>1. emission' \in [Event -> E]
      BY <1>1, <1>3 DEF EmitCommit
    <2>2. [status |-> "PENDING", attempts |-> 0, due |-> TRUE] \in Row
      BY DEF Row, DeliveryStatus
    <2>3. delivery' \in [Delivery -> Row]
      BY <1>3, <2>2 DEF EmitCommit, TypeInv, TypeOK
    <2>4. QED
      BY <1>3, <2>1, <2>3 DEF EmitCommit, historyVars, TypeInv, TypeOK, ItemInv,
                              LeaseTypeOK
  <1>4. CASE EmitAbort(v)
    <2>1. [step |-> "none", targets |-> {}] \in E
      OBVIOUS
    <2>2. emission' \in [Event -> E]
      BY <1>1, <1>4, <2>1, Zenon DEF EmitAbort
    <2>3. QED
      BY <1>4, <2>2 DEF EmitAbort, rowVars, historyVars, TypeInv, TypeOK, ItemInv,
                        LeaseTypeOK
  <1>5. QED
    BY <1>2, <1>3, <1>4

LEMMA ReplayType ==
    ASSUME TypeInv, NEW r \in Replayer,
           ReplayWrite(r) \/ \E d \in Delivery : ReplayRead(r, d)
    PROVE  TypeInv'
  <1>1. CASE ReplayWrite(r)
    <2>1. replaying[r] \in Delivery
      BY <1>1 DEF ReplayWrite, TypeInv, TypeOK
    <2>2. replaying' \in [Replayer -> Delivery \cup {NULL}]
      BY <1>1 DEF ReplayWrite, TypeInv, TypeOK
    <2>3. [status |-> "PENDING", attempts |-> 0, due |-> TRUE] \in Row
      BY DEF Row, DeliveryStatus
    <2>4. delivery' \in [Delivery -> Row]
      <3>1. \/ delivery' = delivery
            \/ delivery' = [delivery EXCEPT ![replaying[r]] =
                               [status |-> "PENDING", attempts |-> 0, due |-> TRUE]]
        BY <1>1, Zenon DEF ReplayWrite
      <3>2. delivery \in [Delivery -> Row]
        BY DEF TypeInv, TypeOK
      <3>3. QED
        BY <2>1, <2>3, <3>1, <3>2
    <2>5. requests' \in [Delivery -> Nat]
      BY <1>1, <2>1 DEF ReplayWrite, TypeInv, TypeOK
    <2>6. QED
      BY <1>1, <2>2, <2>4, <2>5
      DEF ReplayWrite, TypeInv, TypeOK, ItemInv, LeaseTypeOK
  <1>2. ASSUME NEW d \in Delivery, ReplayRead(r, d) PROVE TypeInv'
    <2>1. replaying' \in [Replayer -> Delivery \cup {NULL}] /\ replays' \in Nat
      BY <1>2, CounterType DEF ReplayRead, TypeInv, TypeOK
    <2>2. QED
      BY <1>2, <2>1 DEF ReplayRead, rowVars, historyVars, TypeInv, TypeOK,
                        ItemInv, LeaseTypeOK
  <1>3. QED
    BY <1>1, <1>2

LEMMA ClockType ==
    ASSUME TypeInv, LeaseLapses \/ \E d \in Delivery : Due(d)
    PROVE  TypeInv'
  <1>1. CASE LeaseLapses
    BY <1>1 DEF LeaseLapses, Lapse, rowVars, historyVars, TypeInv, TypeOK,
                ItemInv, LeaseTypeOK
  <1>2. ASSUME NEW d \in Delivery, Due(d) PROVE TypeInv'
    <2>1. delivery' \in [Delivery -> Row]
      BY <1>2, RowUpdate DEF Due
    <2>2. QED
      BY <1>2, <2>1 DEF Due, historyVars, TypeInv, TypeOK, ItemInv, LeaseTypeOK
  <1>3. QED
    BY <1>1, <1>2

LEMMA LeaseType ==
    ASSUME TypeInv, NEW i \in Instance, Release(i) \/ ReleaseFails
    PROVE  LeaseTypeOK'
  BY DEF Release, ReleaseFails, TypeInv, TypeOK, LeaseTypeOK

LEMMA PassUpdate ==
    ASSUME TypeInv, NEW p \in Pass
    PROVE  /\ pass[p] \in PassState
           /\ IdlePass \in PassState
           /\ \A s \in {"idle", "listing", "running", "rejected"} :
                  [pass EXCEPT ![p].step = s] \in [Pass -> PassState]
           /\ \A r \in PassState :
                  [pass EXCEPT ![p] = r] \in [Pass -> PassState]
  BY DEF TypeInv, TypeOK, PassState, IdlePass

LEMMA ListUpdate ==
    ASSUME TypeInv, NEW p \in Pass, NEW S \in SUBSET DueDeliveries, List(p, S)
    PROVE  /\ DrainOK
           /\ \A q \in Pass : q # p => drain'[q] = drain[q]
           /\ pass' \in [Pass -> PassState]
           /\ pass'[p].step = "running"
           /\ \A q \in Pass : q # p => pass'[q] = pass[q]
           /\ \A e \in Endpoint :
                  /\ drain'[p][e].phase \in {"none", "queued"}
                  /\ drain'[p][e].phase = "queued" =>
                         drain'[p][e].breaker = breaker[e]
                  /\ \A i \in drain'[p][e].todo :
                         /\ drain'[p][e].phase = "queued"
                         /\ <<i.event, e>> \in DueDeliveries
                         /\ i.attempts = delivery[<<i.event, e>>].attempts
  <1> DEFINE groups == {d[2] : d \in S}
             items(e) == {[event |-> d[1], attempts |-> delivery[d].attempts] :
                             d \in {s \in S : s[2] = e}}
             queued(e) == [phase |-> "queued", item |-> NULL,
                           breaker |-> breaker[e], todo |-> items(e)]
             slots == IF Cardinality(groups) < MaxConcurrent
                      THEN Cardinality(groups) ELSE MaxConcurrent
  <1>1. /\ drain' = [drain EXCEPT ![p] =
               [e \in Endpoint |-> IF e \in groups THEN queued(e) ELSE NoDrain]]
        /\ pass' = [pass EXCEPT ![p] = [step |-> "running", slots |-> slots]]
    BY DEF List
  <1>2. S \subseteq Delivery
    BY DEF DueDeliveries
  <1>3. slots \in Nat
    <2>1. groups \subseteq Endpoint
      BY <1>2 DEF Delivery
    <2>2. Cardinality(groups) \in Nat
      BY <2>1, WebhookAssumption, FS_Subset, FS_CardinalityType
    <2>3. MaxConcurrent \in Nat
      BY WebhookAssumption
    <2>4. QED
      BY <2>2, <2>3
  <1>4. \A e \in Endpoint : items(e) \in SUBSET Item
    <2>1. \A d \in Delivery : d[1] \in Event /\ delivery[d].attempts \in Nat
      BY DEF TypeInv, TypeOK, Row, Delivery
    <2>2. QED
      BY <1>2, <2>1 DEF Item
  <1>5. \A e \in Endpoint : \A i \in items(e) :
            /\ <<i.event, e>> \in DueDeliveries
            /\ i.attempts = delivery[<<i.event, e>>].attempts
    BY <1>2 DEF Delivery
  <1> HIDE DEF items, slots
  <1>6. \A e \in Endpoint : queued(e) \in Drain /\ queued(e).phase = "queued"
    BY <1>4 DEF Drain, Phase, TypeInv, TypeOK
  <1>7. drain'[p] \in [Endpoint -> Drain]
    BY <1>1, <1>6, NoDrainType, DrainType
  <1>8. /\ drain' \in [Pass -> [Endpoint -> Drain]]
        /\ \A q \in Pass : q # p => drain'[q] = drain[q]
        /\ \A e \in Endpoint :
               \/ drain'[p][e] = queued(e)
               \/ drain'[p][e] = NoDrain
    BY <1>1, <1>7, DrainType
  <1>9. /\ pass' \in [Pass -> PassState]
        /\ pass'[p].step = "running"
        /\ \A q \in Pass : q # p => pass'[q] = pass[q]
    <2>1. [step |-> "running", slots |-> slots] \in PassState
      BY <1>3 DEF PassState
    <2>2. QED
      BY <1>1, <2>1 DEF TypeInv, TypeOK
  <1>10. ASSUME NEW e \in Endpoint
         PROVE
             /\ drain'[p][e].phase \in {"none", "queued"}
             /\ drain'[p][e].phase = "queued" =>
                    drain'[p][e].breaker = breaker[e]
             /\ \A i \in drain'[p][e].todo :
                    drain'[p][e].phase = "queued" /\ i \in items(e)
    <2>1. CASE drain'[p][e] = queued(e)
      BY <2>1
    <2>2. CASE drain'[p][e] = NoDrain
      BY <2>2 DEF NoDrain
    <2>3. QED
      BY <1>8, <2>1, <2>2
  <1>11. ItemInv'
    BY <1>8, <1>10 DEF ItemInv, TypeInv, Attempting
  <1>12. QED
    BY <1>5, <1>8, <1>9, <1>10, <1>11 DEF DrainOK

LEMMA TickType ==
    ASSUME TypeInv, NEW p \in Pass, Begin(p) \/ Ticking(p)
    PROVE  TypeInv'
  <1>0. InstanceOf[p] \in Instance
    BY WebhookAssumption
  <1>1. CASE Begin(p)
    <2>1. pass' \in [Pass -> PassState]
      BY <1>1, PassUpdate DEF Begin
    <2>2. LeaseTypeOK'
      BY <1>0, <1>1 DEF Begin, Acquire, LeaseTypeOK
    <2>3. QED
      BY <1>1, <2>1, <2>2 DEF Begin, rowVars, historyVars, TypeInv, TypeOK, ItemInv
  <1>2. ASSUME NEW S \in SUBSET DueDeliveries, List(p, S) PROVE TypeInv'
    <2>1. DrainOK /\ pass' \in [Pass -> PassState]
      BY <1>2, ListUpdate
    <2>2. QED
      BY <1>2, <2>1 DEF List, rowVars, historyVars, TypeInv, TypeOK, DrainOK,
                        LeaseTypeOK
  <1>3. CASE Finish(p)
    <2>1. pass' \in [Pass -> PassState]
      BY <1>3, PassUpdate DEF Finish
    <2>2. LeaseTypeOK'
      BY <1>0, <1>3, LeaseType DEF Finish
    <2>3. QED
      BY <1>3, <2>1, <2>2 DEF Finish, rowVars, historyVars, TypeInv, TypeOK, ItemInv
  <1>4. CASE ListFails(p)
    <2>1. pass' \in [Pass -> PassState]
      BY <1>4, PassUpdate DEF ListFails
    <2>2. LeaseTypeOK' /\ losses' \in Nat
      BY <1>0, <1>4, LeaseType, CounterType DEF ListFails
    <2>3. QED
      BY <1>4, <2>1, <2>2
      DEF ListFails, rowVars, historyVars, TypeInv, TypeOK, ItemInv
  <1>5. CASE Settled(p)
    <2>1. pass' \in [Pass -> PassState]
      BY <1>5, PassUpdate DEF Settled
    <2>2. DrainOK
      BY <1>5, NoDrainType, DrainType
      DEF Settled, DrainOK, ItemInv, TypeInv, Attempting
    <2>3. QED
      BY <1>5, <2>1, <2>2 DEF Settled, rowVars, historyVars, TypeInv, TypeOK,
                              DrainOK, LeaseTypeOK
  <1>6. QED
    BY <1>1, <1>2, <1>3, <1>4, <1>5 DEF Ticking

LEMMA CrashType ==
    ASSUME TypeInv, NEW i \in Instance, Crash(i)
    PROVE  TypeInv'
  <1>1. pass' \in [Pass -> PassState] /\ losses' \in Nat
    BY PassUpdate, CounterType DEF Crash, TypeInv, TypeOK
  <1>2. DrainOK
    BY NoDrainType, DrainType DEF Crash, DrainOK, ItemInv, TypeInv, Attempting
  <1>3. QED
    BY <1>1, <1>2 DEF Crash, rowVars, historyVars, TypeInv, TypeOK, DrainOK,
                      LeaseTypeOK

\* The delivery of a coroutine that is past the breaker.
LEMMA AttemptType ==
    ASSUME TypeInv, NEW p \in Pass, NEW e \in Endpoint,
           drain[p][e].phase \in Attempting
    PROVE  /\ drain[p][e].item \in Item
           /\ <<drain[p][e].item.event, e>> \in Delivery
           /\ drain[p][e].item.attempts + 1 \in Nat
  BY DrainType, ItemType

LEMMA ReceiveType ==
    ASSUME TypeInv, NEW p \in Pass, NEW e \in Endpoint, Receive(p, e)
    PROVE  TypeInv'
  <1>1. received' \subseteq Delivery
    BY AttemptType DEF Receive, Attempting, TypeInv, TypeOK
  <1>2. QED
    BY <1>1 DEF Receive, rowVars, TypeInv, TypeOK, ItemInv, LeaseTypeOK

LEMMA RunningType ==
    ASSUME TypeInv, NEW p \in Pass, NEW e \in Endpoint, Running(p, e)
    PROVE  TypeInv'
  <1> USE DEF rowVars, historyVars, DrainOK, LeaseTypeOK
  <1>1. CASE Take(p, e)
    <2>1. DrainOK
      BY <1>1, EnterUpdate DEF Take, Phase, Attempting
    <2>2. pass' \in [Pass -> PassState]
      <3> DEFINE r == [pass[p] EXCEPT !.slots = @ - 1]
      <3>1. pass[p].slots \in Nat /\ pass[p].slots > 0
        BY <1>1, PassUpdate DEF Take, PassState
      <3>2. pass[p].slots - 1 \in Nat
        BY <3>1
      <3>3. r \in PassState
        BY <3>2, PassUpdate, Zenon DEF PassState
      <3>4. pass' = [pass EXCEPT ![p] = r]
        BY <1>1 DEF Take
      <3> HIDE DEF r
      <3>5. QED
        BY <3>3, <3>4, PassUpdate
    <2>3. QED
      BY <1>1, <2>1, <2>2 DEF Take, TypeInv, TypeOK
  <1>2. CASE GroupDone(p, e)
    <2>1. DrainOK /\ pass' \in [Pass -> PassState]
      BY <1>2, LeaveUpdate DEF GroupDone
    <2>2. QED
      BY <1>2, <2>1 DEF GroupDone, TypeInv, TypeOK
  <1>3. ASSUME NEW i \in drain[p][e].todo, Park(p, e, i) PROVE TypeInv'
    <2>1. i \in Item
      BY DrainType
    <2>2. delivery' \in [Delivery -> Row]
      BY <1>3, <2>1, ItemType, RowUpdate DEF Park
    <2>3. DrainOK
      BY <1>3, ParkUpdate
    <2>4. QED
      BY <1>3, <2>2, <2>3 DEF Park, TypeInv, TypeOK
  <1>4. ASSUME NEW i \in drain[p][e].todo, Admit(p, e, i) PROVE TypeInv'
    <2>1. DrainOK
      BY <1>4, AdmitUpdate
    <2>2. breaker' \in [Endpoint -> Breaker]
      BY <1>4, DrainType, BreakerResults DEF Admit, TypeInv, TypeOK
    <2>3. QED
      BY <1>4, <2>1, <2>2 DEF Admit, TypeInv, TypeOK
  <1>5. CASE Unreadable(p, e)
    <2>1. DrainOK
      BY <1>5, DrainType, ResumeUpdate DEF Unreadable
    <2>2. delivery' \in [Delivery -> Row]
      BY <1>5, AttemptType, RowUpdate
      DEF Unreadable, Attempting, DeliveryStatus
    <2>3. QED
      BY <1>5, <2>1, <2>2 DEF Unreadable, TypeInv, TypeOK
  <1>6. CASE Send(p, e)
    <2>1. DrainOK
      BY <1>6, AttemptType, EnterUpdate DEF Send, Phase, Attempting
    <2>2. <<drain[p][e].item.event, e>> \in Delivery
      BY <1>6, AttemptType DEF Send, Attempting
    <2>3. requests' \in [Delivery -> Nat]
      BY <1>6, <2>2 DEF Send, TypeInv, TypeOK
    <2>4. QED
      BY <1>6, <2>1, <2>3 DEF Send, TypeInv, TypeOK
  <1>7. CASE Succeed(p, e)
    <2>1. DrainOK
      BY <1>7, AttemptType, EnterUpdate DEF Succeed, Phase, Attempting
    <2>2. delivery' \in [Delivery -> Row]
      BY <1>7, AttemptType, RowUpdate DEF Succeed, Attempting, DeliveryStatus
    <2>3. streak' \in [Endpoint -> Nat]
      BY <1>7 DEF Succeed, TypeInv, TypeOK
    <2>4. QED
      BY <1>7, <2>1, <2>2, <2>3 DEF Succeed, TypeInv, TypeOK
  <1>8. CASE Close(p, e)
    <2>1. DrainOK
      BY <1>8, BreakerResults, ResumeUpdate DEF Close
    <2>2. breaker' \in [Endpoint -> Breaker]
      BY <1>8, BreakerResults DEF Close, TypeInv, TypeOK
    <2>3. QED
      BY <1>8, <2>1, <2>2 DEF Close, TypeInv, TypeOK
  <1>9. CASE Fail(p, e)
    <2>1. DrainOK
      BY <1>9, AttemptType, EnterUpdate DEF Fail, Phase, Attempting
    <2>2. delivery' \in [Delivery -> Row]
      <3> DEFINE i == drain[p][e].item
                 d == <<i.event, e>>
      <3>1. d \in Delivery /\ i.attempts + 1 \in Nat
        BY <1>9, AttemptType DEF Fail, Attempting
      <3>2. [status |-> "PENDING", attempts |-> i.attempts + 1, due |-> FALSE] \in Row
        BY <3>1 DEF Row, DeliveryStatus
      <3>3. [delivery[d] EXCEPT !.status = "FAILED", !.attempts = i.attempts + 1] \in Row
        BY <3>1, RowUpdate DEF Row, DeliveryStatus
      <3>4. delivery' = [delivery EXCEPT ![d] =
               IF exhausted(i.attempts + 1)
               THEN [delivery[d] EXCEPT !.status = "FAILED", !.attempts = i.attempts + 1]
               ELSE [status |-> "PENDING", attempts |-> i.attempts + 1, due |-> FALSE]]
        BY <1>9 DEF Fail
      <3> HIDE DEF i, d
      <3>5. QED
        BY <3>1, <3>2, <3>3, <3>4, RowUpdate
    <2>3. streak' \in [Endpoint -> Nat]
      BY <1>9 DEF Fail, TypeInv, TypeOK
    <2>4. QED
      BY <1>9, <2>1, <2>2, <2>3 DEF Fail, TypeInv, TypeOK
  <1>10. CASE Trip(p, e)
    <2>1. onFailure(drain[p][e].breaker) \in Breaker
      BY DrainType, BreakerResults
    <2>2. DrainOK
      BY <1>10, <2>1, ResumeUpdate DEF Trip
    <2>3. breaker' \in [Endpoint -> Breaker]
      BY <1>10, <2>1 DEF Trip, TypeInv, TypeOK
    <2>4. QED
      BY <1>10, <2>2, <2>3 DEF Trip, TypeInv, TypeOK
  <1>11. CASE Gone(p, e)
    <2>1. DrainOK
      BY <1>11, AttemptType, EnterUpdate DEF Gone, Phase, Attempting
    <2>2. endpoint' \in [Endpoint -> EndpointStatus]
      BY <1>11 DEF Gone, TypeInv, TypeOK, EndpointStatus
    <2>3. QED
      BY <1>11, <2>1, <2>2 DEF Gone, TypeInv, TypeOK
  <1>12. CASE GoneDelivery(p, e)
    <2>1. DrainOK
      BY <1>12, AttemptType, EnterUpdate DEF GoneDelivery, Phase, Attempting
    <2>2. delivery' \in [Delivery -> Row]
      BY <1>12, AttemptType, RowUpdate
      DEF GoneDelivery, Attempting, DeliveryStatus
    <2>3. QED
      BY <1>12, <2>1, <2>2 DEF GoneDelivery, TypeInv, TypeOK
  <1>13. CASE Purge(p, e)
    <2>1. DrainOK /\ pass' \in [Pass -> PassState]
      BY <1>13, LeaveUpdate DEF Purge
    <2>2. \A d \in Delivery : [delivery[d] EXCEPT !.status = "FAILED"] \in Row
      BY DEF TypeInv, TypeOK, Row, DeliveryStatus
    <2>3. delivery' \in [Delivery -> Row]
      BY <1>13, <2>2 DEF Purge, TypeInv, TypeOK
    <2>4. QED
      BY <1>13, <2>1, <2>3 DEF Purge, TypeInv, TypeOK
  <1>14. CASE Throw(p, e)
    <2>1. DrainOK
      BY <1>14, NoDrainType, DrainUpdate DEF Throw, Attempting
    <2>2. pass' \in [Pass -> PassState]
      BY <1>14, PassUpdate DEF Throw
    <2>3. LeaseTypeOK'
      <3>1. InstanceOf[p] \in Instance
        BY WebhookAssumption
      <3>2. QED
        BY <1>14, <3>1, LeaseType DEF Throw, TypeInv, TypeOK
    <2>4. losses' \in Nat
      BY <1>14, CounterType DEF Throw
    <2>5. QED
      BY <1>14, <2>1, <2>2, <2>3, <2>4 DEF Throw, TypeInv, TypeOK
  <1>15. QED
    BY <1>1, <1>2, <1>3, <1>4, <1>5, <1>6, <1>7, <1>8, <1>9, <1>10, <1>11,
       <1>12, <1>13, <1>14 DEF Running

LEMMA StepType == TypeInv /\ [Next]_vars => TypeInv'
  <1>1. ASSUME TypeInv, Next PROVE TypeInv'
    BY <1>1, EndpointType, EmissionType, ReplayType, ClockType, TickType,
       RunningType, ReceiveType, CrashType DEF Next
  <1>2. ASSUME TypeInv, UNCHANGED vars PROVE TypeInv'
    BY <1>2 DEF vars, rowVars, historyVars, TypeInv, TypeOK, ItemInv, LeaseTypeOK
  <1>3. QED
    BY <1>1, <1>2

\* Every row, lease, tick and coroutine keeps its shape; in particular the
\* number of free runners of a pass never goes below zero.
THEOREM TypeCorrect == Spec => []TypeOK
  <1>1. TypeInv => TypeOK
    BY DEF TypeInv
  <1>2. QED
    BY InitType, StepType, <1>1, PTL DEF Spec

-----------------------------------------------------------------------------
(***************************************************************************)
(* One pass at a time.  The lease names a process and not a pass, so what  *)
(* keeps a second pass of the same process out is that the key is taken    *)
(* until the first has finished: it does not lapse under a working pass,   *)
(* and a pass whose coroutines still run has not released it.              *)
(***************************************************************************)
LeaseHolds == Faults \subseteq {"replays overlap"}

Active(p) == pass[p].step \in {"listing", "running"}

LeaseInv ==
    /\ \A e \in Endpoint : endpoint[e] # "DELETED"
    /\ \A p \in Pass : pass[p].step # "rejected"
    /\ \A p \in Pass : Active(p) => lease = InstanceOf[p]
    /\ \A p, q \in Pass : Active(p) /\ Active(q) => p = q
    /\ \A p \in Pass, e \in Endpoint :
           drain[p][e].phase # "none" => pass[p].step = "running"

\* A step that leaves the lease, the endpoints and the steps of the passes alone.
LEMMA LeaseFrame ==
    ASSUME LeaseInv, UNCHANGED lease,
           \A e \in Endpoint : endpoint'[e] # "DELETED",
           \A p \in Pass : pass'[p].step = pass[p].step,
           \A p \in Pass, e \in Endpoint :
               drain'[p][e].phase # "none" => pass[p].step = "running"
    PROVE  LeaseInv'
  BY DEF LeaseInv, Active

LEMMA InitLease == Init => LeaseInv
  BY DEF Init, LeaseInit, LeaseInv, Active, IdlePass, NoDrain

LEMMA TickLease ==
    ASSUME TypeInv, LeaseInv, LeaseHolds, NEW p \in Pass, Begin(p) \/ Ticking(p)
    PROVE  LeaseInv'
  <1>0. InstanceOf \in [Pass -> Instance] /\ NULL \notin Instance
    BY WebhookAssumption, LeaseAssumption
  <1>1. pass \in [Pass -> PassState]
    BY DEF TypeInv, TypeOK
  <1>2. CASE Begin(p)
    <2>1. \A q \in Pass : ~Active(q)
      BY <1>0, <1>2 DEF Begin, Acquire, LeaseInv
    <2>2. /\ \A q \in Pass : q # p => pass'[q] = pass[q]
          /\ pass'[p].step = "listing"
      BY <1>1, <1>2 DEF Begin, PassState
    <2>3. QED
      BY <1>2, <2>1, <2>2 DEF Begin, Acquire, rowVars, LeaseInv, Active
  <1>3. ASSUME NEW S \in SUBSET DueDeliveries, List(p, S) PROVE LeaseInv'
    <2>1. /\ \A q \in Pass : q # p => pass'[q] = pass[q] /\ drain'[q] = drain[q]
          /\ pass'[p].step = "running"
      BY <1>3, ListUpdate
    <2>2. pass[p].step = "listing"
      BY <1>3 DEF List
    <2>3. QED
      BY <1>3, <2>1, <2>2 DEF List, rowVars, LeaseInv, Active
  <1>4. CASE Finish(p)
    <2>1. \A q \in Pass : q # p => pass'[q] = pass[q] /\ ~Active(q)
      BY <1>1, <1>4 DEF Finish, LeaseInv, Active
    <2>2. pass'[p].step = "idle"
      BY <1>1, <1>4 DEF Finish, IdlePass
    <2>3. QED
      BY <1>4, <2>1, <2>2 DEF Finish, rowVars, LeaseInv, Active
  <1>5. QED
    BY <1>2, <1>3, <1>4 DEF Ticking, ListFails, Settled, LeaseInv, LeaseHolds

LEMMA RunningLease ==
    ASSUME TypeInv, LeaseInv, LeaseHolds, NEW p \in Pass, NEW e \in Endpoint,
           Running(p, e)
    PROVE  LeaseInv'
  <1>1. pass \in [Pass -> PassState]
    BY DEF TypeInv, TypeOK
  <1>2. ~Throw(p, e)
    BY DEF Throw, Writable, LeaseInv, LeaseHolds
  <1>3. drain[p][e].phase # "none"
    BY <1>2, DrainType DEF Running, Take, GroupDone, Park, Admit, Unreadable, Send,
       Succeed, Close, Fail, Trip, Gone, GoneDelivery, Purge
  <1>4. Others(p, e)
    <2>1. CASE Take(p, e) \/ Send(p, e) \/ Succeed(p, e) \/ Fail(p, e)
               \/ Gone(p, e) \/ GoneDelivery(p, e)
      BY <2>1, EnterUpdate, AttemptType
      DEF Take, Send, Succeed, Fail, Gone, GoneDelivery, Phase, Attempting
    <2>2. CASE Unreadable(p, e) \/ Close(p, e) \/ Trip(p, e)
      BY <2>2, ResumeUpdate, DrainType, BreakerResults DEF Unreadable, Close, Trip
    <2>3. CASE GroupDone(p, e) \/ Purge(p, e)
      BY <2>3, LeaveUpdate DEF GroupDone, Purge
    <2>4. QED
      BY <1>2, <2>1, <2>2, <2>3, ParkUpdate, AdmitUpdate DEF Running
  <1>5. \A q \in Pass : pass'[q].step = pass[q].step
    <2>1. CASE Take(p, e)
      BY <1>1, <2>1 DEF Take, PassState
    <2>2. CASE GroupDone(p, e) \/ Purge(p, e)
      BY <2>2, LeaveUpdate DEF GroupDone, Purge
    <2>3. QED
      BY <1>2, <2>1, <2>2 DEF Running, Park, Admit, Unreadable, Send,
         Succeed, Close, Fail, Trip, Gone, GoneDelivery
  <1>6. \A f \in Endpoint : endpoint'[f] # "DELETED"
    BY <1>2 DEF Running, Take, GroupDone, Park, Admit, Unreadable, Send,
       Succeed, Close, Fail, Trip, Gone, GoneDelivery, Purge, LeaseInv, rowVars,
       TypeInv, TypeOK
  <1>7. UNCHANGED lease
    BY <1>2 DEF Running, Take, GroupDone, Park, Admit, Unreadable, Send,
       Succeed, Close, Fail, Trip, Gone, GoneDelivery, Purge
  <1>8. QED
    BY <1>3, <1>4, <1>5, <1>6, <1>7, LeaseFrame DEF Others, LeaseInv

LEMMA StepLease == LeaseHolds /\ TypeInv /\ LeaseInv /\ [Next]_vars => LeaseInv'
  <1> SUFFICES ASSUME LeaseHolds, TypeInv, LeaseInv, [Next]_vars PROVE LeaseInv'
    OBVIOUS
  <1>1. CASE UNCHANGED vars
    BY <1>1 DEF vars, rowVars, LeaseInv, Active
  <1>2. ASSUME NEW e \in Endpoint, Register(e) \/ Delete(e) \/ Cools(e)
        PROVE  LeaseInv'
    <2>1. CASE Register(e)
      BY <2>1 DEF Register, LeaseInv, Active, TypeInv, TypeOK
    <2>2. CASE Cools(e)
      BY <2>2 DEF Cools, LeaseInv, Active
    <2>3. QED
      BY <1>2, <2>1, <2>2 DEF Delete, LeaseHolds
  <1>3. ASSUME NEW v \in Event, EmitRead(v) \/ EmitCommit(v) \/ EmitAbort(v)
        PROVE  LeaseInv'
    BY <1>3 DEF EmitRead, EmitCommit, EmitAbort, rowVars, LeaseInv, Active
  <1>4. ASSUME NEW r \in Replayer,
               ReplayWrite(r) \/ \E d \in Delivery : ReplayRead(r, d)
        PROVE  LeaseInv'
    <2>1. UNCHANGED <<lease, endpoint, pass, drain>>
      BY <1>4 DEF ReplayWrite, ReplayRead, rowVars
    <2>2. QED
      BY <2>1 DEF LeaseInv, Active
  <1>5. ASSUME NEW d \in Delivery, Due(d) PROVE LeaseInv'
    BY <1>5 DEF Due, LeaseInv, Active
  <1>6. CASE LeaseLapses
    <2>1. \A p \in Pass : ~Active(p)
      BY <1>6 DEF LeaseLapses, LeaseInv, Active, LeaseHolds
    <2>2. QED
      BY <1>6, <2>1 DEF LeaseLapses, rowVars, LeaseInv, Active
  <1>7. ASSUME NEW p \in Pass, NEW e \in Endpoint, Receive(p, e) PROVE LeaseInv'
    BY <1>7 DEF Receive, rowVars, LeaseInv, Active
  <1>8. ASSUME NEW i \in Instance, Crash(i) PROVE LeaseInv'
    <2>1. \A p \in Pass : \/ pass'[p] = pass[p] /\ drain'[p] = drain[p]
                          \/ /\ pass'[p].step = "idle"
                             /\ \A e \in Endpoint : drain'[p][e].phase = "none"
      BY <1>8 DEF Crash, IdlePass, NoDrain
    <2>2. QED
      BY <1>8, <2>1 DEF Crash, rowVars, LeaseInv, Active
  <1>9. QED
    BY <1>1, <1>2, <1>3, <1>4, <1>5, <1>6, <1>7, <1>8, TickLease, RunningLease
    DEF Next

\* Two ticks never wait for one endpoint at once, however the passes of
\* several processes, their crashes and the lapses of the lease interleave.
THEOREM OneRequest ==
    ASSUME LeaseHolds
    PROVE  Spec => []OneRequestPerEndpoint
  <1>1. LeaseInv => OneRequestPerEndpoint
    BY DEF LeaseInv, Active, OneRequestPerEndpoint, Sending
  <1>2. TypeInv /\ LeaseInv /\ [Next]_vars => LeaseInv'
    BY StepLease
  <1>3. QED
    BY InitType, StepType, InitLease, <1>1, <1>2, PTL DEF Spec

-----------------------------------------------------------------------------
(***************************************************************************)
(* The breaker.  A failure is written to the delivery first and to the     *)
(* breaker after it, so the breaker's count is behind by the failure of a  *)
(* coroutine that is tripping, and by every one that a crash cut off.  It  *)
(* also is the one thing a pass decides from what it read, so the read     *)
(* copy has to agree with the row for as long as the pass uses it.         *)
(***************************************************************************)
Unrecorded(e) ==
    IF \E p \in Pass : drain[p][e].phase = "tripping" THEN 1 ELSE 0

RowBreaker(e) ==
    /\ breaker[e].state = "CLOSED" =>
           /\ breaker[e].failures < Threshold
           /\ streak[e] <= breaker[e].failures + losses + Unrecorded(e)
    /\ breaker[e].state = "HALF_OPEN" => streak[e] <= losses + Unrecorded(e)
    /\ breaker[e].state = "OPEN" =>
           /\ streak[e] <= Threshold + losses
           /\ breaker[e].cooled => streak[e] <= losses

ReadBreaker(p, e) ==
    drain[p][e].phase # "none" =>
        /\ drain[p][e].breaker.state = breaker[e].state
        /\ drain[p][e].breaker.failures = breaker[e].failures
        /\ drain[p][e].breaker.cooled => breaker[e].cooled
        /\ drain[p][e].phase \in Attempting => breaker[e].state # "OPEN"
        /\ drain[p][e].phase = "closing" => streak[e] = 0

BreakerInv ==
    /\ \A e \in Endpoint : RowBreaker(e)
    /\ \A p \in Pass, e \in Endpoint : ReadBreaker(p, e)

\* A coroutine keeps its copy of the breaker, and does not pass the breaker,
\* nor begin or end to record an answer.
SameCopy(p, e) ==
    /\ drain'[p][e].phase = "tripping" <=> drain[p][e].phase = "tripping"
    /\ drain'[p][e].phase # "none" =>
           /\ drain[p][e].phase # "none"
           /\ drain'[p][e].breaker = drain[p][e].breaker
           /\ drain'[p][e].phase \in Attempting =>
                  drain[p][e].phase \in Attempting
           /\ drain'[p][e].phase = "closing" => drain[p][e].phase = "closing"

LEMMA BreakerFrame ==
    ASSUME BreakerInv, UNCHANGED <<breaker, streak, losses>>,
           \A p \in Pass, e \in Endpoint : SameCopy(p, e)
    PROVE  BreakerInv'
  <1>1. \A e \in Endpoint : Unrecorded(e)' = Unrecorded(e)
    BY DEF Unrecorded, SameCopy
  <1>2. \A e \in Endpoint : RowBreaker(e)'
    BY <1>1 DEF BreakerInv, RowBreaker
  <1>3. \A p \in Pass, e \in Endpoint : ReadBreaker(p, e)'
    BY DEF BreakerInv, ReadBreaker, SameCopy
  <1>4. QED
    BY <1>2, <1>3 DEF BreakerInv

\* The types of what the breaker is compared with.
LEMMA BreakerTypes ==
    ASSUME TypeInv
    PROVE  /\ Threshold \in Nat /\ Threshold > 0
           /\ losses \in Nat
           /\ \A e \in Endpoint :
                  /\ breaker[e] \in Breaker
                  /\ breaker[e].failures \in Nat
                  /\ breaker[e].state \in BreakerState
                  /\ streak[e] \in Nat
                  /\ Unrecorded(e) \in {0, 1}
  <1>1. Threshold \in Nat /\ Threshold > 0
    <2>1. Threshold \in Nat \ {0}
      BY Zenon, WebhookAssumption
    <2>2. QED
      BY <2>1
  <1>2. \A e \in Endpoint : breaker[e] \in Breaker /\ streak[e] \in Nat
    BY Zenon DEF TypeInv, TypeOK
  <1>3. \A b \in Breaker : b.failures \in Nat /\ b.state \in BreakerState
    BY Zenon DEF Breaker
  <1>4. \A e \in Endpoint : Unrecorded(e) \in {0, 1}
    BY DEF Unrecorded
  <1>5. QED
    BY <1>1, <1>2, <1>3, <1>4, CounterType

LEMMA InitBreaker == Init => BreakerInv
  <1> SUFFICES ASSUME Init PROVE BreakerInv
    OBVIOUS
  <1>1. \A e \in Endpoint : RowBreaker(e)
    <2>1. \A e \in Endpoint : breaker[e] = ClosedBreaker /\ streak[e] = 0
      BY DEF Init
    <2>2. losses = 0 /\ \A e \in Endpoint : Unrecorded(e) = 0
      BY DEF Init, Unrecorded, NoDrain
    <2>3. QED
      BY <2>1, <2>2, BreakerTypes, InitType DEF RowBreaker, ClosedBreaker
  <1>2. \A p \in Pass, e \in Endpoint : ReadBreaker(p, e)
    BY DEF Init, ReadBreaker, NoDrain
  <1>3. QED
    BY <1>1, <1>2 DEF BreakerInv

\* Only one pass has coroutines.
LEMMA Alone ==
    ASSUME LeaseInv, NEW p \in Pass, NEW e \in Endpoint,
           drain[p][e].phase # "none"
    PROVE  \A q \in Pass, f \in Endpoint : q # p => drain[q][f].phase = "none"
  BY DEF LeaseInv, Active

\* A step of the coroutine of p for e that writes to its breaker or its streak
\* is judged by what becomes of that endpoint.
LEMMA BreakerStep ==
    ASSUME LeaseInv, BreakerInv, TypeInv, NEW p \in Pass, NEW e \in Endpoint,
           drain[p][e].phase # "none", Others(p, e), UNCHANGED losses,
           \A f \in Endpoint : f # e =>
               breaker'[f] = breaker[f] /\ streak'[f] = streak[f],
           RowBreaker(e)', ReadBreaker(p, e)'
    PROVE  BreakerInv'
  <1>1. \A f \in Endpoint : f # e => Unrecorded(f)' = Unrecorded(f)
    BY DEF Unrecorded, Others
  <1>2. \A f \in Endpoint : RowBreaker(f)'
    BY <1>1 DEF BreakerInv, RowBreaker
  <1>3. ASSUME NEW q \in Pass, NEW f \in Endpoint PROVE ReadBreaker(q, f)'
    <2>1. CASE q = p /\ f = e
      BY <2>1
    <2>2. CASE q # p
      BY <2>2, Alone DEF Others, ReadBreaker
    <2>3. CASE q = p /\ f # e
      BY <2>3 DEF Others, ReadBreaker, BreakerInv
    <2>4. QED
      BY <2>1, <2>2, <2>3
  <1>4. QED
    BY <1>2, <1>3 DEF BreakerInv

LEMMA KeptBreaker ==
    ASSUME BreakerInv, UNCHANGED <<drain, breaker, streak, losses>>
    PROVE  BreakerInv'
  BY BreakerFrame DEF SameCopy

LEMMA CoolsBreaker ==
    ASSUME TypeInv, BreakerInv, NEW e \in Endpoint, Cools(e)
    PROVE  BreakerInv'
  <1>1. /\ UNCHANGED <<drain, losses>>
        /\ \A f \in Endpoint :
               /\ breaker'[f].state = breaker[f].state
               /\ breaker'[f].failures = breaker[f].failures
               /\ breaker[f].cooled => breaker'[f].cooled
               /\ f # e => breaker'[f] = breaker[f] /\ streak'[f] = streak[f]
               /\ streak'[f] = 0 \/ streak'[f] = streak[f]
        /\ streak'[e] = 0
    BY BreakerTypes DEF Cools, TypeInv, TypeOK, Breaker
  <1>2. \A f \in Endpoint : Unrecorded(f)' = Unrecorded(f)
    BY <1>1 DEF Unrecorded
  <1>3. ASSUME NEW f \in Endpoint PROVE RowBreaker(f)'
    BY <1>1, <1>2, BreakerTypes DEF BreakerInv, RowBreaker
  <1>4. \A p \in Pass, f \in Endpoint : ReadBreaker(p, f)'
    BY <1>1 DEF BreakerInv, ReadBreaker
  <1>5. QED
    BY <1>3, <1>4 DEF BreakerInv

LEMMA ListBreaker ==
    ASSUME TypeInv, LeaseInv, BreakerInv, NEW p \in Pass,
           NEW S \in SUBSET DueDeliveries, List(p, S)
    PROVE  BreakerInv'
  <1>1. UNCHANGED <<breaker, streak, losses>>
    BY DEF List, rowVars, historyVars
  <1>2. \A q \in Pass, e \in Endpoint : drain[q][e].phase = "none"
    BY DEF List, LeaseInv, Active
  <1>3. \A q \in Pass, e \in Endpoint :
            /\ drain'[q][e].phase \in {"none", "queued"}
            /\ drain'[q][e].phase = "queued" => drain'[q][e].breaker = breaker[e]
    BY <1>2, ListUpdate
  <1>4. \A e \in Endpoint : Unrecorded(e)' = Unrecorded(e)
    BY <1>2, <1>3 DEF Unrecorded
  <1>5. \A e \in Endpoint : RowBreaker(e)'
    BY <1>1, <1>4 DEF BreakerInv, RowBreaker
  <1>6. \A q \in Pass, e \in Endpoint : ReadBreaker(q, e)'
    BY <1>1, <1>3 DEF ReadBreaker, Attempting
  <1>7. QED
    BY <1>5, <1>6 DEF BreakerInv

LEMMA CrashBreaker ==
    ASSUME TypeInv, BreakerInv, NEW i \in Instance, Crash(i)
    PROVE  BreakerInv'
  <1>1. UNCHANGED <<breaker, streak>> /\ losses' = losses + 1
    BY DEF Crash, rowVars, historyVars
  <1>2. \A p \in Pass, e \in Endpoint :
            drain'[p][e] = drain[p][e] \/ drain'[p][e].phase = "none"
    BY DEF Crash, NoDrain
  <1>3. \A e \in Endpoint : losses + Unrecorded(e) <= losses' + Unrecorded(e)'
    BY <1>1, BreakerTypes DEF Unrecorded
  <1>4. ASSUME NEW e \in Endpoint PROVE RowBreaker(e)'
    <2>1. RowBreaker(e) /\ Unrecorded(e)' \in {0, 1}
      BY DEF BreakerInv, Unrecorded
    <2>2. QED
      BY <1>1, <1>3, <2>1, BreakerTypes DEF RowBreaker
  <1>5. \A p \in Pass, e \in Endpoint : ReadBreaker(p, e)'
    BY <1>1, <1>2 DEF BreakerInv, ReadBreaker
  <1>6. QED
    BY <1>4, <1>5 DEF BreakerInv

LEMMA RunningBreaker ==
    ASSUME TypeInv, LeaseInv, BreakerInv, LeaseHolds,
           NEW p \in Pass, NEW e \in Endpoint, Running(p, e)
    PROVE  BreakerInv'
  <1> DEFINE b == drain[p][e].breaker
  <1>0. /\ b \in Breaker
        /\ drain[p][e].phase # "none" =>
               b.state = breaker[e].state /\ b.failures = breaker[e].failures
    BY DrainType DEF BreakerInv, ReadBreaker
  <1>1. ~Throw(p, e)
    BY DEF Throw, Writable, LeaseInv, LeaseHolds
  <1>2. ASSUME UNCHANGED <<breaker, streak, losses>>, Others(p, e), SameCopy(p, e)
        PROVE  BreakerInv'
    BY <1>2, BreakerFrame DEF Others, SameCopy
  <1>3. CASE Take(p, e) \/ Send(p, e) \/ Gone(p, e) \/ GoneDelivery(p, e)
    <2>1. Others(p, e) /\ SameCopy(p, e)
      BY <1>3, EnterUpdate, AttemptType
      DEF Take, Send, Gone, GoneDelivery, Phase, Attempting, SameCopy
    <2>2. QED
      BY <1>2, <1>3, <2>1
      DEF Take, Send, Gone, GoneDelivery, rowVars, historyVars
  <1>4. CASE GroupDone(p, e) \/ Purge(p, e)
    <2>1. Others(p, e) /\ SameCopy(p, e)
      BY <1>4, LeaveUpdate DEF GroupDone, Purge, SameCopy
    <2>2. QED
      BY <1>2, <1>4, <2>1 DEF GroupDone, Purge, rowVars, historyVars
  <1>5. ASSUME NEW i \in drain[p][e].todo, Park(p, e, i) PROVE BreakerInv'
    <2>1. Others(p, e) /\ SameCopy(p, e)
      BY <1>5, ParkUpdate DEF Park, SameCopy
    <2>2. QED
      BY <1>2, <1>5, <2>1 DEF Park, historyVars
  <1>6. CASE Unreadable(p, e)
    <2>1. Others(p, e) /\ SameCopy(p, e)
      BY <1>6, DrainType, ResumeUpdate DEF Unreadable, SameCopy, Attempting
    <2>2. QED
      BY <1>2, <1>6, <2>1 DEF Unreadable, historyVars
  <1>7. ASSUME NEW i \in drain[p][e].todo, Admit(p, e, i) PROVE BreakerInv'
    <2>1. /\ drain[p][e].phase = "ready"
          /\ b.state = "CLOSED" \/ b.cooled
          /\ breaker' = IF adopted(b).state = b.state THEN breaker
                        ELSE [breaker EXCEPT ![e] = adopted(b)]
          /\ UNCHANGED <<streak, losses>>
      BY <1>7 DEF Admit, admit, historyVars
    <2>2. /\ Others(p, e)
          /\ drain'[p][e].phase = "admitted"
          /\ drain'[p][e].breaker = adopted(b)
      BY <1>7, AdmitUpdate
    <2>3. \/ b.state # "OPEN" /\ adopted(b) = b
          \/ /\ b.state = "OPEN"
             /\ adopted(b).state = "HALF_OPEN"
             /\ adopted(b).failures = b.failures
             /\ adopted(b).cooled = FALSE
      BY <1>0 DEF adopted, admitted, Breaker, BreakerState
    <2>4. /\ breaker'[e].state = adopted(b).state
          /\ breaker'[e].failures = b.failures
          /\ breaker'[e].cooled => breaker[e].cooled
          /\ adopted(b).cooled => breaker'[e].cooled
          /\ \A f \in Endpoint : f # e => breaker'[f] = breaker[f]
      <3> HIDE DEF b
      <3>1. CASE adopted(b).state = b.state
        BY <1>0, <2>1, <2>3, <3>1 DEF BreakerInv, ReadBreaker, b
      <3>2. CASE adopted(b).state # b.state
        BY <1>0, <2>1, <2>3, <3>2 DEF TypeInv, TypeOK
      <3>3. QED
        BY <3>1, <3>2
    <2>5. Unrecorded(e)' = Unrecorded(e)
      BY <2>1, <2>2 DEF Others, Unrecorded
    <2>6. RowBreaker(e)'
      <3>1. RowBreaker(e) /\ (b.cooled => breaker[e].cooled)
        BY <2>1 DEF BreakerInv, ReadBreaker
      <3> HIDE DEF b
      <3>2. QED
        BY <1>0, <2>1, <2>3, <2>4, <2>5, <3>1, BreakerTypes
        DEF RowBreaker, BreakerState
    <2>7. ReadBreaker(p, e)'
      <3>1. adopted(b).state # "OPEN" /\ adopted(b).failures = b.failures
        BY <2>3
      <3> HIDE DEF b
      <3>2. QED
        BY <2>2, <2>4, <3>1 DEF ReadBreaker
    <2>8. QED
      BY <2>1, <2>2, <2>4, <2>6, <2>7, BreakerStep
  <1>8. CASE Succeed(p, e)
    <2>1. /\ Others(p, e)
          /\ drain'[p][e].phase = "closing"
          /\ drain'[p][e].breaker = b
      BY <1>8, EnterUpdate, AttemptType DEF Succeed, Phase, Attempting
    <2>2. /\ UNCHANGED <<breaker, losses>>
          /\ drain[p][e].phase = "sending"
          /\ \A f \in Endpoint : f # e => streak'[f] = streak[f]
          /\ streak'[e] = 0
      BY <1>8 DEF Succeed, TypeInv, TypeOK
    <2>3. RowBreaker(e)'
      <3>1. Unrecorded(e)' \in {0, 1} /\ RowBreaker(e)
        BY DEF Unrecorded, BreakerInv
      <3>2. QED
        BY <2>2, <3>1, BreakerTypes DEF RowBreaker
    <2>4. ReadBreaker(p, e)'
      BY <2>1, <2>2 DEF BreakerInv, ReadBreaker, Attempting
    <2>5. QED
      BY <2>1, <2>2, <2>3, <2>4, BreakerStep
  <1>9. CASE Close(p, e)
    <2>1. /\ Others(p, e)
          /\ drain'[p][e].phase = "ready"
          /\ drain'[p][e].breaker = ClosedBreaker
      BY <1>9, ResumeUpdate, BreakerResults DEF Close
    <2>2. /\ UNCHANGED <<streak, losses>>
          /\ drain[p][e].phase = "closing"
          /\ \A f \in Endpoint : f # e => breaker'[f] = breaker[f]
          /\ breaker'[e] = ClosedBreaker
      BY <1>9 DEF Close, TypeInv, TypeOK, historyVars
    <2>3. RowBreaker(e)'
      <3>1. Unrecorded(e)' \in {0, 1} /\ streak[e] = 0
        BY <2>2 DEF Unrecorded, BreakerInv, ReadBreaker
      <3>2. QED
        BY <2>2, <3>1, BreakerTypes DEF RowBreaker, ClosedBreaker
    <2>4. ReadBreaker(p, e)'
      BY <2>1, <2>2 DEF ReadBreaker, Attempting
    <2>5. QED
      BY <2>1, <2>2, <2>3, <2>4, BreakerStep
  <1>10. CASE Fail(p, e)
    <2>1. /\ Others(p, e)
          /\ drain'[p][e].phase = "tripping"
          /\ drain'[p][e].breaker = b
      BY <1>10, EnterUpdate, AttemptType DEF Fail, Phase, Attempting
    <2>2. /\ UNCHANGED <<breaker, losses>>
          /\ drain[p][e].phase = "sending"
          /\ \A f \in Endpoint : f # e => streak'[f] = streak[f]
          /\ streak'[e] = streak[e] + 1
      BY <1>10 DEF Fail, TypeInv, TypeOK
    <2>3. Unrecorded(e) = 0 /\ Unrecorded(e)' = 1
      BY <2>1, <2>2, Alone DEF Unrecorded
    <2>4. breaker[e].state # "OPEN" /\ RowBreaker(e)
      BY <2>2 DEF BreakerInv, ReadBreaker, Attempting
    <2>5. RowBreaker(e)'
      BY <2>2, <2>3, <2>4, BreakerTypes DEF RowBreaker
    <2>6. ReadBreaker(p, e)'
      BY <2>1, <2>2 DEF BreakerInv, ReadBreaker, Attempting
    <2>7. QED
      BY <2>1, <2>2, <2>5, <2>6, BreakerStep
  <1>11. CASE Trip(p, e)
    <2>1. /\ Others(p, e)
          /\ drain'[p][e].phase = "ready"
          /\ drain'[p][e].breaker = onFailure(b)
      BY <1>0, <1>11, ResumeUpdate, BreakerResults DEF Trip
    <2>2. /\ UNCHANGED <<streak, losses>>
          /\ drain[p][e].phase = "tripping"
          /\ \A f \in Endpoint : f # e => breaker'[f] = breaker[f]
          /\ breaker'[e] = onFailure(b)
      BY <1>11 DEF Trip, TypeInv, TypeOK, historyVars
    <2>3. /\ b.state = breaker[e].state /\ b.failures = breaker[e].failures
          /\ breaker[e].state # "OPEN" /\ RowBreaker(e) /\ Unrecorded(e) = 1
      BY <1>0, <2>2 DEF BreakerInv, ReadBreaker, Attempting, Unrecorded
    <2>4. Unrecorded(e)' \in {0, 1}
      BY DEF Unrecorded
    <2>5. RowBreaker(e)'
      <3>1. streak[e] <= breaker[e].failures + 1 + losses \/ streak[e] <= 1 + losses
        BY <2>3, BreakerTypes DEF RowBreaker, BreakerState
      <3>2. CASE b.state = "HALF_OPEN" \/ b.failures + 1 >= Threshold
        <4>1. breaker'[e].state = "OPEN" /\ breaker'[e].cooled = FALSE
          BY <2>2, <3>2 DEF onFailure
        <4>2. streak[e] <= Threshold + losses
          BY <2>3, BreakerTypes DEF RowBreaker, BreakerState
        <4>3. QED
          BY <2>2, <4>1, <4>2 DEF RowBreaker
      <3>3. CASE ~(b.state = "HALF_OPEN" \/ b.failures + 1 >= Threshold)
        <4>1. breaker'[e].state = "CLOSED" /\ breaker'[e].failures = b.failures + 1
          BY <2>2, <3>3 DEF onFailure
        <4>2. breaker[e].state = "CLOSED"
          BY <2>3, <3>3, BreakerTypes DEF BreakerState
        <4>3. streak[e] <= breaker[e].failures + losses + 1
          BY <2>3, <4>2 DEF RowBreaker
        <4> HIDE DEF b
        <4>4. QED
          BY <2>2, <2>3, <2>4, <3>3, <4>1, <4>3, BreakerTypes DEF RowBreaker
      <3>4. QED
        BY <3>2, <3>3
    <2>6. ReadBreaker(p, e)'
      BY <2>1, <2>2 DEF ReadBreaker, Attempting
    <2>7. QED
      BY <2>1, <2>2, <2>5, <2>6, BreakerStep
  <1>12. QED
    BY <1>1, <1>3, <1>4, <1>5, <1>6, <1>7, <1>8, <1>9, <1>10, <1>11 DEF Running

LEMMA StepBreaker ==
    ASSUME LeaseHolds
    PROVE  TypeInv /\ LeaseInv /\ BreakerInv /\ [Next]_vars => BreakerInv'
  <1> SUFFICES ASSUME TypeInv, LeaseInv, BreakerInv, [Next]_vars PROVE BreakerInv'
    OBVIOUS
  <1>1. CASE UNCHANGED vars
    BY <1>1, KeptBreaker DEF vars, rowVars, historyVars
  <1>2. ASSUME NEW e \in Endpoint, Register(e) \/ Delete(e) \/ Cools(e)
        PROVE  BreakerInv'
    BY <1>2, KeptBreaker, CoolsBreaker DEF Register, Delete, historyVars
  <1>3. ASSUME NEW v \in Event, EmitRead(v) \/ EmitCommit(v) \/ EmitAbort(v)
        PROVE  BreakerInv'
    BY <1>3, KeptBreaker
    DEF EmitRead, EmitCommit, EmitAbort, rowVars, historyVars
  <1>4. ASSUME NEW r \in Replayer,
               ReplayWrite(r) \/ \E d \in Delivery : ReplayRead(r, d)
        PROVE  BreakerInv'
    BY <1>4, KeptBreaker DEF ReplayWrite, ReplayRead, rowVars, historyVars
  <1>5. ASSUME NEW d \in Delivery, Due(d) PROVE BreakerInv'
    BY <1>5, KeptBreaker DEF Due, historyVars
  <1>6. CASE LeaseLapses
    BY <1>6, KeptBreaker DEF LeaseLapses, rowVars, historyVars
  <1>7. ASSUME NEW p \in Pass, Begin(p) \/ Ticking(p) PROVE BreakerInv'
    <2>1. CASE Begin(p) \/ Finish(p)
      BY <2>1, KeptBreaker DEF Begin, Finish, rowVars, historyVars
    <2>2. ~ListFails(p) /\ ~Settled(p)
      BY DEF ListFails, Settled, LeaseInv, LeaseHolds
    <2>3. QED
      BY <1>7, <2>1, <2>2, ListBreaker DEF Ticking
  <1>8. ASSUME NEW p \in Pass, NEW e \in Endpoint, Receive(p, e) PROVE BreakerInv'
    BY <1>8, KeptBreaker DEF Receive, rowVars
  <1>9. QED
    BY <1>1, <1>2, <1>3, <1>4, <1>5, <1>6, <1>7, <1>8, RunningBreaker, CrashBreaker
    DEF Next

LEMMA BreakerBound == TypeInv /\ BreakerInv => BreakerCutsOff
  <1> SUFFICES ASSUME TypeInv, BreakerInv, NEW e \in Endpoint
               PROVE  streak[e] <= Threshold + losses
    BY DEF BreakerCutsOff
  <1>1. RowBreaker(e)
    BY DEF BreakerInv
  <1>2. QED
    BY <1>1, BreakerTypes DEF RowBreaker, BreakerState

\* An endpoint that only fails is asked Threshold times between two cooldowns,
\* and once more for each crash that hid a failure from the breaker.
THEOREM BreakerProtects ==
    ASSUME LeaseHolds
    PROVE  Spec => []BreakerCutsOff
  <1>1. TypeInv /\ LeaseInv /\ [Next]_vars => LeaseInv'
    BY StepLease
  <1>2. TypeInv /\ LeaseInv /\ BreakerInv /\ [Next]_vars => BreakerInv'
    BY StepBreaker
  <1>3. QED
    BY InitType, StepType, InitLease, InitBreaker, BreakerBound, <1>1, <1>2, PTL
    DEF Spec

-----------------------------------------------------------------------------
(***************************************************************************)
(* The queue.  A pass writes attempts + 1 from the attempts it read, and   *)
(* overwrites the status whatever it is by then: that is right because a   *)
(* row a pass has read stays PENDING, with those attempts, until the pass  *)
(* itself answers for it.  The other writers leave it alone: an emission   *)
(* writes rows that are not there yet, a replay rows that have FAILED.     *)
(***************************************************************************)
\* A request has left for d and its row does not count it yet.
AskedBy(p, d) ==
    /\ drain[p][d[2]].phase \in {"sending", "gone"}
    /\ drain[p][d[2]].item.event = d[1]
Asked(d) == IF \E p \in Pass : AskedBy(p, d) THEN 1 ELSE 0

\* The row of an item is as the pass read it.
AsRead(i, e) ==
    /\ delivery[<<i.event, e>>].status = "PENDING"
    /\ delivery[<<i.event, e>>].attempts = i.attempts

RowQueue(d) ==
    /\ requests[d] <= delivery[d].attempts + losses + Asked(d)
    /\ delivery[d].attempts <= MaxAttempts
    /\ delivery[d].status = "PENDING" => delivery[d].attempts < MaxAttempts
    /\ delivery[d].status = "NONE" => requests[d] = 0
    /\ emission[d[1]].step # "done" => delivery[d].status = "NONE"

ReadQueue(p, e) ==
    drain[p][e].phase # "none" =>
        /\ \A i \in drain[p][e].todo : AsRead(i, e)
        /\ drain[p][e].phase \in {"admitted", "sending", "gone"} =>
               /\ AsRead(drain[p][e].item, e)
               /\ \A i \in drain[p][e].todo : i.event # drain[p][e].item.event

ReplayQueue(r) ==
    replaying[r] # NULL =>
        /\ delivery[replaying[r]].status = "FAILED"
        /\ \A q \in Replayer : q # r => replaying[q] # replaying[r]

QueueInv ==
    /\ \A d \in Delivery : RowQueue(d)
    /\ \A p \in Pass, e \in Endpoint : ReadQueue(p, e)
    /\ \A r \in Replayer : ReplayQueue(r)

\* A coroutine attempts nothing new, and nothing it asked is answered.
SameAttempt(p, e) ==
    LET open == {"admitted", "sending", "gone"}
        asked == {"sending", "gone"}
    IN  /\ drain'[p][e].phase \in asked <=> drain[p][e].phase \in asked
        /\ drain'[p][e].phase # "none" =>
               /\ drain[p][e].phase # "none"
               /\ drain'[p][e].todo \subseteq drain[p][e].todo
        /\ drain'[p][e].phase \in open =>
               /\ drain[p][e].phase \in open
               /\ drain'[p][e].item = drain[p][e].item

LEMMA QueueTypes ==
    ASSUME TypeInv
    PROVE  /\ MaxAttempts \in Nat /\ MaxAttempts > 0
           /\ losses \in Nat
           /\ \A d \in Delivery :
                  /\ d = <<d[1], d[2]>> /\ d[1] \in Event /\ d[2] \in Endpoint
                  /\ delivery[d] \in Row
                  /\ delivery[d].attempts \in Nat
                  /\ requests[d] \in Nat
                  /\ Asked(d) \in {0, 1}
  <1>1. MaxAttempts \in Nat /\ MaxAttempts > 0
    <2>1. MaxAttempts \in Nat \ {0}
      BY Zenon, WebhookAssumption
    <2>2. QED
      BY <2>1
  <1>2. \A d \in Delivery : delivery[d] \in Row /\ requests[d] \in Nat
    BY Zenon DEF TypeInv, TypeOK
  <1>3. \A r \in Row : r.attempts \in Nat
    BY Zenon DEF Row
  <1>4. \A d \in Delivery : d = <<d[1], d[2]>> /\ d[1] \in Event /\ d[2] \in Endpoint
    BY DEF Delivery
  <1>5. \A d \in Delivery : Asked(d) \in {0, 1}
    BY DEF Asked
  <1>6. QED
    BY <1>1, <1>2, <1>3, <1>4, <1>5, CounterType

LEMMA QueueFrame ==
    ASSUME TypeInv, QueueInv, UNCHANGED <<requests, losses, replaying>>,
           \A d \in Delivery : /\ delivery'[d].status = delivery[d].status
                               /\ delivery'[d].attempts = delivery[d].attempts,
           \A v \in Event :
               emission'[v].step = "done" <=> emission[v].step = "done",
           \A p \in Pass, e \in Endpoint : SameAttempt(p, e)
    PROVE  QueueInv'
  <1>1. \A d \in Delivery : \A p \in Pass : AskedBy(p, d)' <=> AskedBy(p, d)
    BY QueueTypes DEF AskedBy, SameAttempt
  <1>2. \A d \in Delivery : RowQueue(d)'
    BY <1>1, QueueTypes DEF QueueInv, RowQueue, Asked
  <1>3. ASSUME NEW p \in Pass, NEW e \in Endpoint PROVE ReadQueue(p, e)'
    <2>1. \A i \in Item : AsRead(i, e)' <=> AsRead(i, e)
      BY ItemType DEF AsRead
    <2>2. QED
      BY <2>1, DrainType
      DEF QueueInv, ReadQueue, SameAttempt, Attempting
  <1>4. \A r \in Replayer : ReplayQueue(r)'
    BY DEF QueueInv, ReplayQueue, TypeInv, TypeOK
  <1>5. QED
    BY <1>2, <1>3, <1>4 DEF QueueInv

LEMMA KeptQueue ==
    ASSUME TypeInv, QueueInv,
           UNCHANGED <<delivery, emission, replaying, drain, requests, losses>>
    PROVE  QueueInv'
  BY QueueFrame DEF SameAttempt

LEMMA InitQueue == Init => QueueInv
  <1> SUFFICES ASSUME Init PROVE QueueInv
    OBVIOUS
  <1>1. \A d \in Delivery : RowQueue(d)
    <2>1. \A d \in Delivery : /\ delivery[d].status = "NONE"
                              /\ delivery[d].attempts = 0
                              /\ requests[d] = 0
      BY DEF Init
    <2>2. losses = 0 /\ \A d \in Delivery : Asked(d) = 0
      BY QueueTypes, InitType DEF Init, Asked, AskedBy, NoDrain
    <2>3. QED
      BY <2>1, <2>2, QueueTypes, InitType DEF RowQueue
  <1>2. \A p \in Pass, e \in Endpoint : ReadQueue(p, e)
    BY DEF Init, ReadQueue, NoDrain
  <1>3. \A r \in Replayer : ReplayQueue(r)
    BY DEF Init, ReplayQueue
  <1>4. QED
    BY <1>1, <1>2, <1>3 DEF QueueInv

\* A pass answers for a row it has read: nobody else is at that row.
LEMMA QueueStep ==
    ASSUME TypeInv, LeaseInv, QueueInv, NEW p \in Pass, NEW e \in Endpoint,
           drain[p][e].phase \in {"admitted", "sending", "gone"},
           Others(p, e), UNCHANGED <<losses, emission, replaying>>,
           drain'[p][e].todo = drain[p][e].todo,
           NEW d, d = <<drain[p][e].item.event, e>>,
           \A x \in Delivery : x # d =>
               /\ delivery'[x].status = delivery[x].status
               /\ delivery'[x].attempts = delivery[x].attempts
               /\ requests'[x] = requests[x],
           RowQueue(d)',
           drain'[p][e].phase \in {"admitted", "sending", "gone"} =>
               /\ drain'[p][e].item = drain[p][e].item
               /\ AsRead(drain[p][e].item, e)'
    PROVE  QueueInv'
  <1>0. /\ d \in Delivery /\ d[1] = drain[p][e].item.event /\ d[2] = e
        /\ delivery[d].status = "PENDING"
    BY AttemptType DEF Attempting, QueueInv, ReadQueue, AsRead
  <1>1. ASSUME NEW x \in Delivery, x # d PROVE RowQueue(x)'
    <2>1. ASSUME NEW q \in Pass PROVE AskedBy(q, x)' <=> AskedBy(q, x)
      <3>1. CASE q = p /\ x[2] = e
        <4>1. x[1] # d[1]
          BY <1>0, <1>1, <3>1, QueueTypes
        <4>2. QED
          BY <1>0, <3>1, <4>1 DEF AskedBy
      <3>2. CASE ~(q = p /\ x[2] = e)
        BY <3>2, QueueTypes DEF AskedBy, Others
      <3>3. QED
        BY <3>1, <3>2
    <2>2. QED
      BY <1>1, <2>1, QueueTypes DEF QueueInv, RowQueue, Asked
  <1>2. ASSUME NEW q \in Pass, NEW f \in Endpoint PROVE ReadQueue(q, f)'
    <2>1. CASE q # p
      BY <2>1, Alone DEF Others, ReadQueue
    <2>2. CASE q = p /\ f # e
      <3>1. \A i \in Item : AsRead(i, f)' <=> AsRead(i, f)
        BY <1>0, <2>2, ItemType DEF AsRead
      <3>2. QED
        BY <2>2, <3>1, DrainType DEF Others, ReadQueue, QueueInv, Attempting
    <2>3. CASE q = p /\ f = e
      <3>1. \A i \in drain[p][e].todo :
                /\ i.event # drain[p][e].item.event
                /\ AsRead(i, e)
        BY DEF QueueInv, ReadQueue
      <3>2. \A i \in drain[p][e].todo : AsRead(i, e)'
        BY <1>0, <3>1, DrainType, ItemType DEF AsRead
      <3>3. QED
        BY <2>3, <3>1, <3>2 DEF ReadQueue
    <2>4. QED
      BY <2>1, <2>2, <2>3
  <1>3. ASSUME NEW r \in Replayer PROVE ReplayQueue(r)'
    <2>1. ReplayQueue(r) /\ replaying' = replaying
      BY DEF QueueInv
    <2>2. CASE replaying[r] = d
      <3>1. drain[p][e].item \in Item /\ AsRead(drain[p][e].item, e)
        BY DrainType DEF QueueInv, ReadQueue, Attempting
      <3>2. delivery[d].status = "PENDING"
        BY <3>1 DEF AsRead
      <3>3. replaying[r] = NULL
        BY <2>1, <2>2, <3>2 DEF ReplayQueue
      <3>4. QED
        BY <2>1, <3>3 DEF ReplayQueue
    <2>3. CASE replaying[r] # d
      BY <2>1, <2>3 DEF ReplayQueue, TypeInv, TypeOK
    <2>4. QED
      BY <2>2, <2>3
  <1>4. QED
    BY <1>1, <1>2, <1>3 DEF QueueInv

LEMMA EmissionQueue ==
    ASSUME TypeInv, QueueInv, NEW v \in Event,
           EmitRead(v) \/ EmitCommit(v) \/ EmitAbort(v)
    PROVE  QueueInv'
  <1> DEFINE E == [step: {"none", "read", "done"}, targets: SUBSET Endpoint]
  <1>0. emission \in [Event -> E]
    BY DEF TypeInv, TypeOK
  <1>1. CASE EmitRead(v) \/ EmitAbort(v)
    <2>1. \A w \in Event : emission'[w].step = "done" <=> emission[w].step = "done"
      BY <1>0, <1>1 DEF EmitRead, EmitAbort
    <2>2. QED
      BY <1>1, <2>1, QueueFrame
      DEF EmitRead, EmitAbort, rowVars, historyVars, SameAttempt
  <1>2. CASE EmitCommit(v)
    <2> DEFINE new(d) == d[1] = v /\ d[2] \in emission[v].targets
    <2>1. /\ emission[v].step = "read"
          /\ \A w \in Event : w # v => emission'[w] = emission[w]
          /\ emission'[v].step = "done"
          /\ UNCHANGED <<drain, replaying, requests, losses>>
      BY <1>0, <1>2 DEF EmitCommit, historyVars
    <2>2. \A d \in Delivery :
              /\ new(d) => /\ delivery'[d].status = "PENDING"
                           /\ delivery'[d].attempts = 0
                           /\ delivery[d].status = "NONE"
              /\ ~new(d) => delivery'[d] = delivery[d]
      BY <1>2, <2>1 DEF EmitCommit, QueueInv, RowQueue
    <2>3. \A d \in Delivery : Asked(d)' = Asked(d)
      BY <2>1 DEF Asked, AskedBy
    <2>4. ASSUME NEW d \in Delivery PROVE RowQueue(d)'
      <3>1. RowQueue(d)
        BY DEF QueueInv
      <3>2. CASE new(d)
        BY <2>1, <2>2, <2>3, <3>1, <3>2, QueueTypes DEF RowQueue
      <3>3. CASE ~new(d)
        BY <2>1, <2>2, <2>3, <3>1, <3>3, QueueTypes DEF RowQueue
      <3>4. QED
        BY <3>2, <3>3
    <2> HIDE DEF new
    <2>5. ASSUME NEW p \in Pass, NEW e \in Endpoint PROVE ReadQueue(p, e)'
      <3>1. \A i \in Item : AsRead(i, e) => AsRead(i, e)'
        BY <2>2, ItemType DEF AsRead
      <3>2. QED
        BY <2>1, <3>1, DrainType DEF ReadQueue, QueueInv, Attempting
    <2>6. \A r \in Replayer : ReplayQueue(r)'
      BY <2>1, <2>2 DEF QueueInv, ReplayQueue, TypeInv, TypeOK
    <2>7. QED
      BY <2>4, <2>5, <2>6 DEF QueueInv
  <1>3. QED
    BY <1>1, <1>2

LEMMA ReplayQueueing ==
    ASSUME TypeInv, LeaseInv, QueueInv, Faults = {}, NEW r \in Replayer,
           ReplayWrite(r) \/ \E d \in Delivery : ReplayRead(r, d)
    PROVE  QueueInv'
  <1>1. ASSUME NEW d \in Delivery, ReplayRead(r, d) PROVE QueueInv'
    <2>1. /\ UNCHANGED <<delivery, emission, drain, requests, losses>>
          /\ delivery[d].status = "FAILED"
          /\ \A q \in Replayer : replaying[q] # d
          /\ replaying' = [replaying EXCEPT ![r] = d]
      BY <1>1 DEF ReplayRead, rowVars, historyVars
    <2>2. \A q \in Replayer : ReplayQueue(q)'
      BY <2>1 DEF QueueInv, ReplayQueue, TypeInv, TypeOK
    <2>3. \A x \in Delivery : RowQueue(x)'
      BY <2>1 DEF QueueInv, RowQueue, Asked, AskedBy
    <2>4. \A p \in Pass, e \in Endpoint : ReadQueue(p, e)'
      BY <2>1 DEF QueueInv, ReadQueue, AsRead
    <2>5. QED
      BY <2>2, <2>3, <2>4 DEF QueueInv
  <1>2. CASE ReplayWrite(r)
    <2> DEFINE d == replaying[r]
    <2>1. d \in Delivery /\ delivery[d].status = "FAILED"
      BY <1>2 DEF ReplayWrite, QueueInv, ReplayQueue, TypeInv, TypeOK
    <2>2. /\ UNCHANGED <<emission, drain, losses>>
          /\ replaying' = [replaying EXCEPT ![r] = NULL]
          /\ delivery' = [delivery EXCEPT ![d] =
                 [status |-> "PENDING", attempts |-> 0, due |-> TRUE]]
          /\ requests' = [requests EXCEPT ![d] = 0]
      <3>1. endpoint[d[2]] # "DELETED"
        BY <2>1, QueueTypes DEF LeaseInv
      <3>2. QED
        BY <1>2, <3>1 DEF ReplayWrite
    <2> HIDE DEF d
    <2>3. /\ delivery'[d].status = "PENDING"
          /\ delivery'[d].attempts = 0
          /\ requests'[d] = 0
          /\ \A x \in Delivery : x # d =>
                 delivery'[x] = delivery[x] /\ requests'[x] = requests[x]
      BY <2>1, <2>2 DEF TypeInv, TypeOK
    <2>4. \A x \in Delivery : Asked(x)' = Asked(x)
      BY <2>2 DEF Asked, AskedBy
    <2>5. ASSUME NEW x \in Delivery PROVE RowQueue(x)'
      <3>1. RowQueue(x)
        BY DEF QueueInv
      <3>2. CASE x = d
        BY <2>1, <2>2, <2>3, <2>4, <3>1, <3>2, QueueTypes DEF RowQueue
      <3>3. CASE x # d
        BY <2>2, <2>3, <2>4, <3>1, <3>3 DEF RowQueue
      <3>4. QED
        BY <3>2, <3>3
    <2>6. ASSUME NEW p \in Pass, NEW e \in Endpoint PROVE ReadQueue(p, e)'
      <3>1. \A i \in Item : AsRead(i, e) => AsRead(i, e)'
        BY <2>1, <2>3, ItemType DEF AsRead
      <3>2. QED
        BY <2>2, <3>1, DrainType DEF ReadQueue, QueueInv, Attempting
    <2>7. ASSUME NEW q \in Replayer PROVE ReplayQueue(q)'
      <3>1. CASE q = r
        BY <2>2, <3>1 DEF ReplayQueue, TypeInv, TypeOK
      <3>2. CASE q # r /\ replaying[q] # NULL
        <4>1. replaying[q] \in Delivery /\ replaying[q] # d
          BY <2>1, <3>2, WebhookAssumption
          DEF d, QueueInv, ReplayQueue, TypeInv, TypeOK, Delivery
        <4>2. QED
          BY <2>2, <2>3, <3>2, <4>1, WebhookAssumption
          DEF QueueInv, ReplayQueue, TypeInv, TypeOK, Delivery
      <3>3. CASE q # r /\ replaying[q] = NULL
        BY <2>2, <3>3 DEF ReplayQueue, TypeInv, TypeOK
      <3>4. QED
        BY <3>1, <3>2, <3>3
    <2>8. QED
      BY <2>5, <2>6, <2>7 DEF QueueInv
  <1>3. QED
    BY <1>1, <1>2

LEMMA ListQueue ==
    ASSUME TypeInv, LeaseInv, QueueInv, NEW p \in Pass,
           NEW S \in SUBSET DueDeliveries, List(p, S)
    PROVE  QueueInv'
  <1>1. UNCHANGED <<delivery, emission, replaying, requests, losses>>
    BY DEF List, rowVars, historyVars
  <1>2. \A q \in Pass, e \in Endpoint : drain[q][e].phase = "none"
    BY DEF List, LeaseInv, Active
  <1>3. \A q \in Pass, e \in Endpoint :
            /\ drain'[q][e].phase \in {"none", "queued"}
            /\ drain'[q][e].phase = "queued" =>
                   \A i \in drain'[q][e].todo : AsRead(i, e)
    BY <1>2, ListUpdate DEF AsRead, DueDeliveries
  <1>4. \A d \in Delivery : Asked(d)' = Asked(d)
    BY <1>2, <1>3, QueueTypes DEF Asked, AskedBy
  <1>5. \A d \in Delivery : RowQueue(d)'
    BY <1>1, <1>4 DEF QueueInv, RowQueue
  <1>6. \A q \in Pass, e \in Endpoint : ReadQueue(q, e)'
    BY <1>1, <1>3 DEF ReadQueue, AsRead
  <1>7. \A r \in Replayer : ReplayQueue(r)'
    BY <1>1 DEF QueueInv, ReplayQueue
  <1>8. QED
    BY <1>5, <1>6, <1>7 DEF QueueInv

LEMMA CrashQueue ==
    ASSUME TypeInv, QueueInv, NEW i \in Instance, Crash(i)
    PROVE  QueueInv'
  <1>1. UNCHANGED <<delivery, emission, replaying, requests>> /\ losses' = losses + 1
    BY DEF Crash, rowVars, historyVars
  <1>2. \A p \in Pass, e \in Endpoint :
            drain'[p][e] = drain[p][e] \/ drain'[p][e].phase = "none"
    BY DEF Crash, NoDrain
  <1>3. ASSUME NEW d \in Delivery PROVE RowQueue(d)'
    <2>1. RowQueue(d) /\ Asked(d)' \in {0, 1}
      BY DEF QueueInv, Asked
    <2>2. QED
      BY <1>1, <2>1, QueueTypes DEF RowQueue
  <1>4. \A p \in Pass, e \in Endpoint : ReadQueue(p, e)'
    BY <1>1, <1>2 DEF QueueInv, ReadQueue, AsRead
  <1>5. \A r \in Replayer : ReplayQueue(r)'
    BY <1>1 DEF QueueInv, ReplayQueue
  <1>6. QED
    BY <1>3, <1>4, <1>5 DEF QueueInv

\* Two items read from one row are the same item.
LEMMA OneItemPerRow ==
    ASSUME NEW e, NEW i \in Item, NEW j \in Item, AsRead(i, e), AsRead(j, e),
           i.event = j.event
    PROVE  i = j
  BY DEF AsRead, Item

LEMMA RunningQueue ==
    ASSUME TypeInv, LeaseInv, QueueInv, LeaseHolds,
           NEW p \in Pass, NEW e \in Endpoint, Running(p, e)
    PROVE  QueueInv'
  <1>a. PICK item, d : item = drain[p][e].item /\ d = <<item.event, e>>
    OBVIOUS
  <1>0. /\ delivery \in [Delivery -> Row]
        /\ drain[p][e].phase \in Attempting =>
               d \in Delivery /\ item.attempts + 1 \in Nat
        /\ drain[p][e].phase \in {"admitted", "sending", "gone"} =>
               /\ AsRead(item, e)
               /\ RowQueue(d)
               /\ delivery[d].status = "PENDING"
               /\ delivery[d].attempts = item.attempts
    BY <1>a, AttemptType DEF QueueInv, ReadQueue, AsRead, Attempting, TypeInv, TypeOK
  <1>1. ~Throw(p, e)
    BY DEF Throw, Writable, LeaseInv, LeaseHolds
  <1>2. ASSUME UNCHANGED <<requests, losses, replaying, emission>>,
               \A x \in Delivery : /\ delivery'[x].status = delivery[x].status
                                   /\ delivery'[x].attempts = delivery[x].attempts,
               Others(p, e), SameAttempt(p, e)
        PROVE  QueueInv'
    BY <1>2, QueueFrame DEF Others, SameAttempt
  <1>3. CASE Take(p, e) \/ Gone(p, e)
    <2>1. ASSUME Take(p, e) PROVE Others(p, e) /\ SameAttempt(p, e)
      <3>1. Enter(p, e, "ready") /\ drain[p][e].phase = "queued"
        BY <2>1 DEF Take
      <3>2. /\ Others(p, e) /\ drain'[p][e].phase = "ready"
            /\ drain'[p][e].todo = drain[p][e].todo
        BY <3>1, EnterUpdate DEF Phase, Attempting
      <3>3. QED
        BY <3>1, <3>2 DEF SameAttempt
    <2>2. ASSUME Gone(p, e) PROVE Others(p, e) /\ SameAttempt(p, e)
      <3>1. Enter(p, e, "gone") /\ drain[p][e].phase = "sending"
        BY <2>2 DEF Gone
      <3>2. drain[p][e].item \in Item
        BY <3>1, AttemptType DEF Attempting
      <3>3. /\ Others(p, e) /\ drain'[p][e].phase = "gone"
            /\ drain'[p][e].todo = drain[p][e].todo
            /\ drain'[p][e].item = drain[p][e].item
        BY <3>1, <3>2, EnterUpdate DEF Phase
      <3>4. QED
        BY <3>1, <3>3 DEF SameAttempt
    <2>3. Others(p, e) /\ SameAttempt(p, e)
      BY <1>3, <2>1, <2>2
    <2>4. QED
      BY <1>2, <1>3, <2>3 DEF Take, Gone, rowVars, historyVars
  <1>4. CASE GroupDone(p, e)
    <2>1. Others(p, e) /\ SameAttempt(p, e)
      BY <1>4, LeaveUpdate DEF GroupDone, SameAttempt
    <2>2. UNCHANGED <<requests, losses, replaying, emission, delivery>>
      BY <1>4 DEF GroupDone, rowVars, historyVars
    <2>3. QED
      BY <1>2, <2>1, <2>2
  <1>5. ASSUME NEW i \in drain[p][e].todo, Park(p, e, i) PROVE QueueInv'
    <2>1. Others(p, e) /\ SameAttempt(p, e)
      BY <1>5, ParkUpdate DEF Park, SameAttempt
    <2>2. \A x \in Delivery : /\ delivery'[x].status = delivery[x].status
                              /\ delivery'[x].attempts = delivery[x].attempts
      <3>1. delivery' = [delivery EXCEPT ![<<i.event, e>>].due = FALSE]
        BY <1>5 DEF Park
      <3>2. \A row \in Row : /\ [row EXCEPT !.due = FALSE].status = row.status
                             /\ [row EXCEPT !.due = FALSE].attempts = row.attempts
        BY DEF Row
      <3>3. QED
        BY <1>0, <3>1, <3>2
    <2>3. QED
      BY <1>2, <1>5, <2>1, <2>2 DEF Park, historyVars
  <1>6. CASE Close(p, e) \/ Trip(p, e)
    <2>1. Others(p, e) /\ SameAttempt(p, e)
      BY <1>6, ResumeUpdate, DrainType, BreakerResults DEF Close, Trip, SameAttempt
    <2>2. QED
      BY <1>2, <1>6, <2>1 DEF Close, Trip, historyVars
  <1>7. ASSUME NEW i \in drain[p][e].todo, Admit(p, e, i) PROVE QueueInv'
    <2>1. /\ UNCHANGED <<delivery, emission, replaying, requests, losses>>
          /\ drain[p][e].phase = "ready"
      BY <1>7 DEF Admit, historyVars
    <2>2. /\ Others(p, e)
          /\ drain'[p][e].phase = "admitted"
          /\ drain'[p][e].todo = drain[p][e].todo \ {i}
          /\ drain'[p][e].item = i
      BY <1>7, AdmitUpdate
    <2>3. \A x \in Delivery, q \in Pass : AskedBy(q, x)' <=> AskedBy(q, x)
      BY <2>1, <2>2, QueueTypes DEF AskedBy, Others
    <2>4. \A x \in Delivery : RowQueue(x)'
      BY <2>1, <2>3 DEF QueueInv, RowQueue, Asked
    <2>5. \A q \in Pass, f \in Endpoint : q # p \/ f # e => ReadQueue(q, f)'
      BY <2>1, <2>2 DEF QueueInv, ReadQueue, AsRead, Others
    <2>6. ReadQueue(p, e)'
      <3>1. \A j \in drain[p][e].todo : AsRead(j, e) /\ (j.event = i.event => j = i)
        BY <2>1, DrainType, OneItemPerRow DEF QueueInv, ReadQueue
      <3>2. QED
        BY <2>1, <2>2, <3>1 DEF ReadQueue, AsRead
    <2>7. QED
      BY <2>1, <2>4, <2>5, <2>6 DEF QueueInv, ReplayQueue
  <1>8. CASE Unreadable(p, e)
    <2>1. /\ Others(p, e)
          /\ drain'[p][e].phase = "ready"
          /\ drain'[p][e].todo = drain[p][e].todo
      BY <1>a, <1>8, DrainType, ResumeUpdate DEF Unreadable
    <2>2. /\ drain[p][e].phase = "admitted"
          /\ UNCHANGED <<emission, replaying, requests, losses>>
          /\ delivery' = [delivery EXCEPT ![d].status = "FAILED"]
      BY <1>a, <1>8 DEF Unreadable, historyVars
    <2>3. /\ delivery'[d].status = "FAILED"
          /\ delivery'[d].attempts = delivery[d].attempts
          /\ \A x \in Delivery : x # d => delivery'[x] = delivery[x]
      BY <1>a, <1>0, <2>2 DEF Row, Attempting
    <2>4. Asked(d) = 0 /\ Asked(d)' = 0
      BY <1>a, <2>1, <2>2, Alone DEF Asked, AskedBy, Others
    <2>5. RowQueue(d)'
      BY <1>a, <1>0, <2>2, <2>3, <2>4 DEF RowQueue, Attempting
    <2>6. QED
      BY <1>a, <2>1, <2>2, <2>3, <2>5, QueueStep
  <1>9. CASE Send(p, e)
    <2>1. /\ Others(p, e)
          /\ drain'[p][e].phase = "sending"
          /\ drain'[p][e].todo = drain[p][e].todo
          /\ drain'[p][e].item = item
      BY <1>a, <1>9, AttemptType, EnterUpdate DEF Send, Phase, Attempting
    <2>2. /\ drain[p][e].phase = "admitted"
          /\ UNCHANGED <<delivery, emission, replaying, losses>>
          /\ requests' = [requests EXCEPT ![d] = @ + 1]
      BY <1>a, <1>9 DEF Send, rowVars
    <2>3. /\ requests'[d] = requests[d] + 1
          /\ \A x \in Delivery : x # d => requests'[x] = requests[x]
      BY <1>a, <1>0, <2>2 DEF Attempting, TypeInv, TypeOK
    <2>4. Asked(d) = 0 /\ Asked(d)' = 1
      BY <1>a, <2>1, <2>2, Alone DEF Asked, AskedBy, Others
    <2>5. RowQueue(d)'
      <3>1. d \in Delivery /\ RowQueue(d) /\ delivery[d].status = "PENDING"
        BY <1>0, <2>2 DEF Attempting
      <3>2. /\ losses \in Nat /\ requests[d] \in Nat
            /\ delivery[d].attempts \in Nat
        BY <3>1, QueueTypes
      <3>3. QED
        BY <2>2, <2>3, <2>4, <3>1, <3>2 DEF RowQueue
    <2>6. AsRead(item, e)'
      BY <1>a, <1>0, <2>2 DEF AsRead
    <2>7. QED
      BY <1>a, <2>1, <2>2, <2>3, <2>5, <2>6, QueueStep
  \* The attempt is recorded, with whatever status it leads to.
  <1>10. ASSUME NEW s \in DeliveryStatus \ {"NONE"},
                drain[p][e].phase \in {"sending", "gone"},
                s = "PENDING" => item.attempts + 1 < MaxAttempts,
                UNCHANGED <<emission, replaying, requests, losses>>,
                delivery'[d].status = s,
                delivery'[d].attempts = item.attempts + 1,
                \A x \in Delivery : x # d => delivery'[x] = delivery[x],
                Others(p, e),
                drain'[p][e].phase \in {"closing", "tripping", "purging"},
                drain'[p][e].todo = drain[p][e].todo
         PROVE  QueueInv'
    <2>1. Asked(d) = 1 /\ Asked(d)' = 0
      BY <1>a, <1>10, Alone DEF Asked, AskedBy, Others
    <2>2. RowQueue(d)'
      BY <1>a, <1>0, <1>10, <2>1, QueueTypes DEF RowQueue, Attempting
    <2>3. QED
      BY <1>a, <1>10, <2>2, QueueStep
  <1>11. CASE Succeed(p, e)
    <2>1. /\ Others(p, e)
          /\ drain'[p][e].phase = "closing"
          /\ drain'[p][e].todo = drain[p][e].todo
      BY <1>a, <1>11, AttemptType, EnterUpdate DEF Succeed, Phase, Attempting
    <2>2. /\ delivery'[d].status = "DELIVERED"
          /\ delivery'[d].attempts = item.attempts + 1
          /\ \A x \in Delivery : x # d => delivery'[x] = delivery[x]
      <3>1. delivery' = [delivery EXCEPT ![d].status = "DELIVERED",
                                         ![d].attempts = item.attempts + 1]
        BY <1>a, <1>a, <1>11 DEF Succeed
      <3>2. d \in Delivery
        BY <1>a, <1>a, <1>0, <1>11 DEF Succeed, Attempting
      <3>3. QED
        BY <1>a, <1>a, <1>0, <3>1, <3>2 DEF Row
    <2>3. QED
      BY <1>a, <1>10, <1>11, <2>1, <2>2 DEF Succeed, DeliveryStatus
  <1>12. CASE GoneDelivery(p, e)
    <2>1. /\ Others(p, e)
          /\ drain'[p][e].phase = "purging"
          /\ drain'[p][e].todo = drain[p][e].todo
      BY <1>a, <1>12, AttemptType, EnterUpdate DEF GoneDelivery, Phase, Attempting
    <2>2. /\ delivery'[d].status = "FAILED"
          /\ delivery'[d].attempts = item.attempts + 1
          /\ \A x \in Delivery : x # d => delivery'[x] = delivery[x]
      <3>1. delivery' = [delivery EXCEPT ![d].status = "FAILED",
                                         ![d].attempts = item.attempts + 1]
        BY <1>a, <1>a, <1>12 DEF GoneDelivery
      <3>2. d \in Delivery
        BY <1>a, <1>a, <1>0, <1>12 DEF GoneDelivery, Attempting
      <3>3. QED
        BY <1>a, <1>a, <1>0, <3>1, <3>2 DEF Row
    <2>3. QED
      BY <1>a, <1>10, <1>12, <2>1, <2>2 DEF GoneDelivery, DeliveryStatus, historyVars
  <1>13. CASE Fail(p, e)
    <2>1. /\ Others(p, e)
          /\ drain'[p][e].phase = "tripping"
          /\ drain'[p][e].todo = drain[p][e].todo
      BY <1>a, <1>13, AttemptType, EnterUpdate DEF Fail, Phase, Attempting
    <2>2. /\ UNCHANGED <<emission, replaying, requests, losses>>
          /\ drain[p][e].phase = "sending"
          /\ delivery' = [delivery EXCEPT ![d] =
                IF exhausted(item.attempts + 1)
                THEN [delivery[d] EXCEPT !.status = "FAILED",
                                         !.attempts = item.attempts + 1]
                ELSE [status |-> "PENDING", attempts |-> item.attempts + 1,
                      due |-> FALSE]]
      BY <1>a, <1>13 DEF Fail
    <2>3. d \in Delivery /\ delivery[d] \in Row
      BY <1>a, <1>0, <2>2 DEF Attempting
    <2>4. /\ \A x \in Delivery : x # d => delivery'[x] = delivery[x]
          /\ delivery'[d].attempts = item.attempts + 1
          /\ delivery'[d].status =
                 IF exhausted(item.attempts + 1) THEN "FAILED" ELSE "PENDING"
      BY <1>a, <1>0, <2>2, <2>3 DEF Row
    <2>5. CASE exhausted(item.attempts + 1)
      BY <1>a, <1>10, <2>1, <2>2, <2>4, <2>5 DEF DeliveryStatus
    <2>6. CASE ~exhausted(item.attempts + 1)
      <3>1. item.attempts + 1 < MaxAttempts
        BY <1>a, <1>a, <1>0, <2>2, <2>6, QueueTypes DEF exhausted, Attempting
      <3>2. QED
        BY <1>a, <1>a, <1>10, <2>1, <2>2, <2>4, <2>6, <3>1 DEF DeliveryStatus
    <2>7. QED
      BY <1>a, <2>5, <2>6
  <1>14. CASE Purge(p, e)
    <2>1. Others(p, e) /\ drain'[p][e].phase = "none"
      BY <1>14, LeaveUpdate DEF Purge
    <2>2. /\ UNCHANGED <<emission, replaying, requests, losses>>
          /\ drain[p][e].phase = "purging"
      BY <1>14 DEF Purge, historyVars
    <2>3. \A x \in Delivery :
              /\ delivery'[x].attempts = delivery[x].attempts
              /\ x[2] # e \/ delivery[x].status # "PENDING" =>
                     delivery'[x] = delivery[x]
              /\ x[2] = e /\ delivery[x].status = "PENDING" =>
                     delivery'[x].status = "FAILED"
      BY <1>0, <1>14 DEF Purge, Row
    <2>4. \A x \in Delivery : Asked(x)' = Asked(x)
      BY <2>1, <2>2, QueueTypes DEF Asked, AskedBy, Others
    <2>5. \A x \in Delivery : RowQueue(x)'
      BY <2>2, <2>3, <2>4 DEF QueueInv, RowQueue
    <2>6. ASSUME NEW q \in Pass, NEW f \in Endpoint PROVE ReadQueue(q, f)'
      <3>1. CASE q = p /\ f = e
        BY <2>1, <3>1 DEF ReadQueue
      <3>2. CASE q # p
        BY <2>1, <2>2, <3>2, Alone DEF Others, ReadQueue
      <3>3. CASE q = p /\ f # e
        <4>1. \A i \in Item : AsRead(i, f) => AsRead(i, f)'
          BY <2>3, <3>3, ItemType DEF AsRead
        <4>2. QED
          BY <2>1, <3>3, <4>1, DrainType DEF Others, ReadQueue, QueueInv, Attempting
      <3>4. QED
        BY <3>1, <3>2, <3>3
    <2>7. \A r \in Replayer : ReplayQueue(r)'
      BY <2>2, <2>3 DEF QueueInv, ReplayQueue, TypeInv, TypeOK
    <2>8. QED
      BY <2>5, <2>6, <2>7 DEF QueueInv
  <1>15. QED
    BY <1>1, <1>3, <1>4, <1>5, <1>6, <1>7, <1>8, <1>9, <1>11, <1>12, <1>13, <1>14
    DEF Running

LEMMA StepQueue ==
    ASSUME Faults = {}
    PROVE  TypeInv /\ LeaseInv /\ QueueInv /\ [Next]_vars => QueueInv'
  <1> SUFFICES ASSUME TypeInv, LeaseInv, QueueInv, [Next]_vars PROVE QueueInv'
    OBVIOUS
  <1>0. LeaseHolds
    BY DEF LeaseHolds
  <1>1. CASE UNCHANGED vars
    BY <1>1, KeptQueue DEF vars, rowVars, historyVars
  <1>2. ASSUME NEW e \in Endpoint, Register(e) \/ Delete(e) \/ Cools(e)
        PROVE  QueueInv'
    BY <1>2, KeptQueue DEF Register, Delete, Cools, historyVars
  <1>3. ASSUME NEW d \in Delivery, Due(d) PROVE QueueInv'
    <2>1. \A x \in Delivery : /\ delivery'[x].status = delivery[x].status
                              /\ delivery'[x].attempts = delivery[x].attempts
      BY <1>3 DEF Due, TypeInv, TypeOK, Row
    <2>2. QED
      BY <1>3, <2>1, QueueFrame DEF Due, historyVars, SameAttempt
  <1>4. CASE LeaseLapses
    BY <1>4, KeptQueue DEF LeaseLapses, rowVars, historyVars
  <1>5. ASSUME NEW p \in Pass, Begin(p) \/ Ticking(p) PROVE QueueInv'
    <2>1. CASE Begin(p) \/ Finish(p)
      BY <2>1, KeptQueue DEF Begin, Finish, rowVars, historyVars
    <2>2. ~ListFails(p) /\ ~Settled(p)
      BY DEF ListFails, Settled, LeaseInv
    <2>3. QED
      BY <1>5, <2>1, <2>2, ListQueue DEF Ticking
  <1>6. ASSUME NEW p \in Pass, NEW e \in Endpoint, Receive(p, e) PROVE QueueInv'
    BY <1>6, KeptQueue DEF Receive, rowVars
  <1>7. QED
    BY <1>0, <1>1, <1>2, <1>3, <1>4, <1>5, <1>6, EmissionQueue, ReplayQueueing,
       RunningQueue, CrashQueue DEF Next

LEMMA QueueBound == TypeInv /\ QueueInv => RetriesBounded
  <1> SUFFICES ASSUME TypeInv, QueueInv, NEW d \in Delivery
               PROVE  requests[d] <= MaxAttempts + losses
    BY DEF RetriesBounded
  <1>1. RowQueue(d)
    BY DEF QueueInv
  <1>2. CASE \E p \in Pass : AskedBy(p, d)
    <2>1. PICK p \in Pass : AskedBy(p, d)
      BY <1>2
    <2>2. AsRead(drain[p][d[2]].item, d[2])
      BY <2>1, QueueTypes DEF QueueInv, ReadQueue, AskedBy
    <2>3. delivery[d].status = "PENDING"
      BY <2>1, <2>2, QueueTypes DEF AskedBy, AsRead
    <2>4. QED
      BY <1>1, <2>3, QueueTypes DEF RowQueue
  <1>3. CASE ~\E p \in Pass : AskedBy(p, d)
    <2>1. Asked(d) = 0
      BY <1>3 DEF Asked
    <2>2. QED
      BY <1>1, <2>1, QueueTypes DEF RowQueue
  <1>4. QED
    BY <1>2, <1>3

\* A delivery is asked for at most MaxAttempts times since it was queued, and
\* once more for each crash that kept an attempt from being recorded.
THEOREM RetriesAreBounded ==
    ASSUME Faults = {}
    PROVE  Spec => []RetriesBounded
  <1>0. LeaseHolds
    BY DEF LeaseHolds
  <1>1. TypeInv /\ LeaseInv /\ [Next]_vars => LeaseInv'
    BY <1>0, StepLease
  <1>2. TypeInv /\ LeaseInv /\ QueueInv /\ [Next]_vars => QueueInv'
    BY StepQueue
  <1>3. QED
    BY InitType, StepType, InitLease, InitQueue, QueueBound, <1>1, <1>2, PTL
    DEF Spec

-----------------------------------------------------------------------------
\* The outbox: each step of the worker is a step of EventOutbox or none.

LEMMA OutboxStutter ==
    ASSUME UNCHANGED received,
           \A d \in Delivery : delivery'[d].status = delivery[d].status
    PROVE  UNCHANGED Outbox!outboxVars
  BY DEF Outbox!outboxVars

LEMMA OutboxInit == Init => Outbox!Init
  BY DEF Init, Outbox!Init

LEMMA OutboxRunning ==
    ASSUME TypeInv, LeaseInv, QueueInv, LeaseHolds,
           NEW p \in Pass, NEW e \in Endpoint, Running(p, e)
    PROVE  [Outbox!Next]_Outbox!outboxVars
  <1>a. PICK item, d : item = drain[p][e].item /\ d = <<item.event, e>>
    OBVIOUS
  <1>0. /\ delivery \in [Delivery -> Row]
        /\ drain[p][e].phase \in Attempting => d \in Delivery
        /\ drain[p][e].phase \in {"admitted", "sending", "gone"} =>
               delivery[d].status = "PENDING"
    BY <1>a, AttemptType
    DEF QueueInv, ReadQueue, AsRead, Attempting, TypeInv, TypeOK
  <1>1. ~Throw(p, e)
    BY DEF Throw, Writable, LeaseInv, LeaseHolds
  <1>2. CASE \/ Take(p, e) \/ GroupDone(p, e) \/ Send(p, e) \/ Close(p, e)
             \/ Trip(p, e) \/ Gone(p, e)
             \/ \E i \in drain[p][e].todo : Admit(p, e, i)
    BY <1>2, OutboxStutter
    DEF Take, GroupDone, Send, Close, Trip, Gone, Admit, rowVars, historyVars
  <1>3. ASSUME NEW i \in drain[p][e].todo, Park(p, e, i)
        PROVE  UNCHANGED Outbox!outboxVars
    <2>1. \A x \in Delivery : delivery'[x].status = delivery[x].status
      BY <1>0, <1>3 DEF Park, Row
    <2>2. QED
      BY <1>3, <2>1, OutboxStutter DEF Park, historyVars
  <1>4. ASSUME NEW S \in SUBSET Delivery, UNCHANGED received,
               \A x \in S : /\ delivery[x].status = "PENDING"
                            /\ delivery'[x].status = "FAILED",
               \A x \in Delivery : x \notin S =>
                   delivery'[x].status = delivery[x].status
        PROVE  Outbox!GiveUp
    BY <1>4 DEF Outbox!GiveUp
  <1>b. ASSUME d \in Delivery, delivery[d].status = "PENDING", UNCHANGED received,
               delivery'[d].status = "FAILED",
               \A x \in Delivery : x # d => delivery'[x] = delivery[x]
        PROVE  Outbox!Next
    <2>1. Outbox!GiveUp
      <3> DEFINE S == {d}
      <3>1. S \in SUBSET Delivery
        BY <1>b
      <3>2. \A x \in S : /\ delivery[x].status = "PENDING"
                        /\ delivery'[x].status = "FAILED"
        BY <1>b
      <3>3. \A x \in Delivery : x \notin S =>
                delivery'[x].status = delivery[x].status
        BY <1>b
      <3> HIDE DEF S
      <3>4. QED
        BY <1>b, <1>4, <3>1, <3>2, <3>3
    <2>2. QED
      BY <2>1 DEF Outbox!Next
  <1>5. CASE Unreadable(p, e) \/ GoneDelivery(p, e)
    <2>1. drain[p][e].phase \in {"admitted", "gone"} /\ d \in Delivery
      BY <1>0, <1>5 DEF Unreadable, GoneDelivery, Attempting
    <2>2. /\ delivery'[d].status = "FAILED"
          /\ \A x \in Delivery : x # d => delivery'[x] = delivery[x]
      BY <1>a, <1>0, <1>5, <2>1 DEF Unreadable, GoneDelivery, Row
    <2>3. delivery[d].status = "PENDING" /\ UNCHANGED received
      BY <1>0, <1>5, <2>1 DEF Unreadable, GoneDelivery, historyVars
    <2>4. QED
      BY <1>b, <2>1, <2>2, <2>3
  <1>6. CASE Succeed(p, e)
    <2>1. /\ d \in Delivery /\ d \in received
          /\ delivery[d].status = "PENDING"
          /\ UNCHANGED received
      BY <1>a, <1>0, <1>6 DEF Succeed, Attempting
    <2>2. /\ delivery'[d].status = "DELIVERED"
          /\ \A x \in Delivery : x # d => delivery'[x] = delivery[x]
      BY <1>a, <1>0, <1>6, <2>1 DEF Succeed, Row
    <2>3. Outbox!Deliver(d)
      BY <2>1, <2>2 DEF Outbox!Deliver
    <2>4. QED
      BY <2>1, <2>3 DEF Outbox!Next
  <1>7. CASE Fail(p, e)
    <2>1. /\ d \in Delivery
          /\ delivery[d].status = "PENDING"
          /\ UNCHANGED received
      BY <1>0, <1>7 DEF Fail, Attempting
    <2>2. /\ \A x \in Delivery : x # d => delivery'[x] = delivery[x]
          /\ delivery'[d].status \in {"FAILED", "PENDING"}
      <3>1. delivery' = [delivery EXCEPT ![d] =
               IF exhausted(item.attempts + 1)
               THEN [delivery[d] EXCEPT !.status = "FAILED",
                                        !.attempts = item.attempts + 1]
               ELSE [status |-> "PENDING", attempts |-> item.attempts + 1,
                     due |-> FALSE]]
        BY <1>a, <1>7 DEF Fail
      <3>2. delivery[d] \in Row
        BY <1>0, <2>1
      <3>3. QED
        BY <1>0, <2>1, <3>1, <3>2 DEF Row
    <2>3. CASE delivery'[d].status = "FAILED"
      BY <1>b, <2>1, <2>2, <2>3
    <2>4. CASE delivery'[d].status = "PENDING"
      BY <2>1, <2>2, <2>4, OutboxStutter
    <2>5. QED
      BY <2>2, <2>3, <2>4
  <1>8. CASE Purge(p, e)
    <2> DEFINE S == {x \in Delivery : x[2] = e /\ delivery[x].status = "PENDING"}
    <2>1. /\ \A x \in S : delivery'[x].status = "FAILED"
          /\ \A x \in Delivery : x \notin S => delivery'[x] = delivery[x]
          /\ UNCHANGED received
      BY <1>0, <1>8 DEF Purge, Row, historyVars
    <2>2. Outbox!GiveUp
      BY <1>4, <2>1
    <2>3. QED
      BY <2>2 DEF Outbox!Next
  <1>9. QED
    BY <1>1, <1>2, <1>3, <1>5, <1>6, <1>7, <1>8 DEF Running

LEMMA OutboxStep ==
    ASSUME Faults = {}
    PROVE  TypeInv /\ LeaseInv /\ QueueInv /\ [Next]_vars
               => [Outbox!Next]_Outbox!outboxVars
  <1> SUFFICES ASSUME TypeInv, LeaseInv, QueueInv, [Next]_vars
               PROVE  [Outbox!Next]_Outbox!outboxVars
    OBVIOUS
  <1>0. LeaseHolds /\ delivery \in [Delivery -> Row]
    BY DEF LeaseHolds, TypeInv, TypeOK
  <1>1. CASE UNCHANGED vars
    BY <1>1, OutboxStutter DEF vars, rowVars, historyVars
  <1>2. ASSUME NEW e \in Endpoint, Register(e) \/ Delete(e) \/ Cools(e)
        PROVE  UNCHANGED Outbox!outboxVars
    BY <1>2, OutboxStutter DEF Register, Delete, Cools, historyVars
  <1>3. ASSUME NEW d \in Delivery, Due(d) PROVE UNCHANGED Outbox!outboxVars
    <2>1. \A x \in Delivery : delivery'[x].status = delivery[x].status
      BY <1>0, <1>3 DEF Due, Row
    <2>2. QED
      BY <1>3, <2>1, OutboxStutter DEF Due, historyVars
  <1>4. ASSUME NEW v \in Event, EmitRead(v) \/ EmitAbort(v)
        PROVE  UNCHANGED Outbox!outboxVars
    BY <1>4, OutboxStutter DEF EmitRead, EmitAbort, rowVars, historyVars
  <1>5. ASSUME NEW v \in Event, EmitCommit(v) PROVE Outbox!Owe
    <2> DEFINE S == {d \in Delivery : d[1] = v /\ d[2] \in emission[v].targets}
    <2>1. \A d \in S : delivery[d].status = "NONE" /\ delivery'[d].status = "PENDING"
      BY <1>5 DEF EmitCommit, QueueInv, RowQueue
    <2>2. /\ UNCHANGED received
          /\ \A d \in Delivery : d \notin S => delivery'[d] = delivery[d]
      BY <1>5 DEF EmitCommit, historyVars
    <2>3. QED
      BY <2>1, <2>2 DEF Outbox!Owe
  <1>6. ASSUME NEW r \in Replayer, NEW d \in Delivery, ReplayRead(r, d)
        PROVE  UNCHANGED Outbox!outboxVars
    BY <1>6, OutboxStutter DEF ReplayRead, rowVars, historyVars
  <1>7. ASSUME NEW r \in Replayer, ReplayWrite(r) PROVE Outbox!Next
    <2>a. PICK d : d = replaying[r]
      OBVIOUS
    <2>1. d \in Delivery /\ delivery[d].status = "FAILED"
      BY <1>7, <2>a DEF ReplayWrite, QueueInv, ReplayQueue, TypeInv, TypeOK
    <2>2. endpoint[d[2]] # "DELETED"
      BY <2>1, QueueTypes DEF LeaseInv
    <2>3. /\ UNCHANGED received
          /\ delivery'[d].status = "PENDING"
          /\ \A x \in Delivery : x # d => delivery'[x] = delivery[x]
      BY <1>0, <1>7, <2>a, <2>1, <2>2 DEF ReplayWrite
    <2>4. Outbox!Replay(d)
      BY <2>1, <2>3 DEF Outbox!Replay
    <2>5. QED
      BY <2>1, <2>4 DEF Outbox!Next
  <1>8. CASE LeaseLapses
    BY <1>8, OutboxStutter DEF LeaseLapses, rowVars, historyVars
  <1>9. ASSUME NEW p \in Pass, Begin(p) \/ Ticking(p)
        PROVE  UNCHANGED Outbox!outboxVars
    BY <1>9, OutboxStutter
    DEF Begin, Ticking, List, Finish, ListFails, Settled, rowVars, historyVars
  <1>10. ASSUME NEW p \in Pass, NEW e \in Endpoint, Receive(p, e)
         PROVE  Outbox!Next
    <2>a. PICK d : d = <<drain[p][e].item.event, e>>
      OBVIOUS
    <2>1. /\ d \in Delivery /\ delivery[d].status = "PENDING"
          /\ received' = received \cup {d} /\ UNCHANGED delivery
      BY <1>10, <2>a, AttemptType
      DEF Receive, QueueInv, ReadQueue, AsRead, Attempting, rowVars
    <2>2. Outbox!Receive(d)
      BY <2>1 DEF Outbox!Receive
    <2>3. QED
      BY <2>1, <2>2 DEF Outbox!Next
  <1>11. ASSUME NEW i \in Instance, Crash(i) PROVE UNCHANGED Outbox!outboxVars
    BY <1>11, OutboxStutter DEF Crash, rowVars, historyVars
  <1>12. QED
    BY <1>0, <1>1, <1>2, <1>3, <1>4, <1>5, <1>6, <1>7, <1>8, <1>9, <1>10, <1>11,
       OutboxRunning DEF Next, Outbox!Next

\* The worker implements the outbox: nothing owed is dropped, nothing is called
\* delivered that its endpoint has not got, and only a failure is replayed.
THEOREM ImplementsTheOutbox ==
    ASSUME Faults = {}
    PROVE  Spec => ImplementsOutbox
  <1>0. LeaseHolds
    BY DEF LeaseHolds
  <1>1. TypeInv /\ LeaseInv /\ [Next]_vars => LeaseInv'
    BY <1>0, StepLease
  <1>2. TypeInv /\ LeaseInv /\ QueueInv /\ [Next]_vars => QueueInv'
    BY StepQueue
  <1>3. TypeInv /\ LeaseInv /\ QueueInv /\ [Next]_vars
            => [Outbox!Next]_Outbox!outboxVars
    BY OutboxStep
  <1>4. QED
    BY InitType, StepType, InitLease, InitQueue, OutboxInit, <1>1, <1>2, <1>3, PTL
    DEF Spec, ImplementsOutbox, Outbox!Spec
=============================================================================
