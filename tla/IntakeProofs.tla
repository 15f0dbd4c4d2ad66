----------------------------- MODULE IntakeProofs -----------------------------
(***************************************************************************)
(* Proofs about what feeds the ledger: the orders, for any number of       *)
(* orders, links, affiliates, billing events and overlapping requests, and *)
(* the clicks, for any number of drains, replays and clicks, batch size    *)
(* and bound on the attempts.  Both take turns with other services in      *)
(* MCServices.                                                             *)
(***************************************************************************)
EXTENDS MCServices, SumTheorems

-----------------------------------------------------------------------------
(* The losses are counted by all of them. *)

lossVars == <<component, losses, clickVars, intakeVars, keyVars, importVars,
              noteVars, limiterVars>>

LEMMA ClickLosses ==
    ASSUME Clicks!Next PROVE losses' \in {losses, losses + 1}
  <1>1. ASSUME NEW c \in ClickId, Clicks!Visit(c) \/ Clicks!Produce(c)
        PROVE  losses' \in {losses, losses + 1}
    BY <1>1, Zenon DEF Clicks!Visit, Clicks!Produce
  <1>2. ASSUME NEW v \in {visitor}, Clicks!VisitLost(v) \/ Clicks!WindowCloses(v)
        PROVE  losses' \in {losses, losses + 1}
    BY <1>2, Zenon DEF Clicks!VisitLost, Clicks!WindowCloses
  <1>3. ASSUME NEW w \in Worker, Clicks!Draining(w) \/ Clicks!PopFails(w)
        PROVE  losses' \in {losses, losses + 1}
    <2>1. CASE Clicks!Pop(w) \/ Clicks!Flush(w) \/ Clicks!Commit(w)
               \/ Clicks!DrainDone(w) \/ Clicks!PopFails(w)
      BY <2>1, Zenon
      DEF Clicks!Pop, Clicks!Flush, Clicks!Commit, Clicks!DrainDone, Clicks!PopFails
    <2>2. CASE Clicks!CommitFails(w)
      BY <2>2, Zenon DEF Clicks!CommitFails
    <2>3. CASE Clicks!Bury(w)
      BY <2>3, Zenon DEF Clicks!Bury
    <2>4. QED
      BY <1>3, <2>1, <2>2, <2>3, Zenon DEF Clicks!Draining
  <1>4. ASSUME NEW r \in Replayer, Clicks!ReplayPop(r) \/ Clicks!ReplayPush(r)
        PROVE  losses' \in {losses, losses + 1}
    BY <1>4, Zenon DEF Clicks!ReplayPop, Clicks!ReplayPush
  <1>5. CASE Clicks!Crash
    BY <1>5, Zenon DEF Clicks!Crash
  <1>6. QED
    BY <1>1, <1>2, <1>3, <1>4, <1>5, Zenon DEF Clicks!Next

LEMMA IntakeLosses ==
    ASSUME Next PROVE losses' \in {losses, losses + 1}
  <1>1. ASSUME NEW l \in Link, CountClick(l) PROVE losses' = losses
    BY <1>1, Zenon DEF CountClick
  <1>2. CASE ClickAges \/ EndCampaign
    BY <1>2, Zenon DEF ClickAges, EndCampaign
  <1>3. ASSUME NEW r \in Request, NEW o \in Order, ReportCheck(r, o)
        PROVE  losses' = losses
    BY <1>3, Zenon DEF ReportCheck
  <1>4. ASSUME NEW r \in Request,
               ReportAttribute(r) \/ ReportCommit(r) \/ BillingCommit(r)
        PROVE  losses' = losses
    BY <1>4, Zenon DEF ReportAttribute, ReportCommit, BillingCommit
  <1>5. ASSUME NEW r \in Request, NEW a \in Affiliate, StartSubscription(r, a)
        PROVE  losses' = losses
    BY <1>5, Zenon DEF StartSubscription
  <1>6. ASSUME NEW r \in Request, NEW b \in Billing, BillingRead(r, b)
        PROVE  losses' = losses
    BY <1>6, Zenon DEF BillingRead
  <1>7. ASSUME NEW r \in Request, Abandon(r) PROVE losses' = losses + 1
    BY <1>7, Zenon DEF Abandon
  <1>8. ASSUME NEW o \in Order, Cancel(o) PROVE losses' = losses
    BY <1>8, Zenon DEF Cancel
  <1>9. QED
    BY <1>1, <1>2, <1>3, <1>4, <1>5, <1>6, <1>7, <1>8, Zenon DEF Next

LEMMA KeyLosses ==
    ASSUME Keys!Next PROVE losses' \in {losses, losses + 1}
  <1>1. ASSUME NEW q \in HttpRequest,
               Keys!Claim(q) \/ Keys!Lookup(q) \/ Keys!Handle(q) \/ Keys!Send(q)
        PROVE  losses' = losses
    BY <1>1, Zenon DEF Keys!Claim, Keys!Lookup, Keys!Handle, Keys!Send
  <1>2. ASSUME NEW q \in HttpRequest,
               Keys!Release(q) \/ Keys!Store(q) \/ Keys!SendUnrecorded(q)
               \/ Keys!Crash(q)
        PROVE  losses' \in {losses, losses + 1}
    BY <1>2, Zenon DEF Keys!Release, Keys!Store, Keys!SendUnrecorded, Keys!Crash
  <1>3. ASSUME NEW k \in Key, Keys!Expire(k) PROVE losses' = losses
    BY <1>3, Zenon DEF Keys!Expire
  <1>4. CASE Keys!Sweep
    BY <1>4, Zenon DEF Keys!Sweep
  <1>5. QED
    BY <1>1, <1>2, <1>3, <1>4, Zenon DEF Keys!Next

LEMMA ImportLosses ==
    ASSUME Imports!Next PROVE losses' \in {losses, losses + 1}
  <1>1. ASSUME NEW j \in {mixed, overlapping, headless},
               Imports!Spool(j) \/ Imports!Enqueue(j) \/ Imports!EnqueueFails(j)
        PROVE  losses' \in {losses, losses + 1}
    BY <1>1, Zenon
    DEF Imports!Spool, Imports!Enqueue, Imports!EnqueueFails, Imports!Loses
  <1>2. ASSUME NEW w \in Worker,
               \/ Imports!Find(w) \/ Imports!Claim(w) \/ Imports!Open(w)
               \/ Imports!ReadRow(w) \/ Imports!LastFlush(w) \/ Imports!Flush(w)
               \/ Imports!Insert(w) \/ Imports!FlushDone(w) \/ Imports!Complete(w)
        PROVE  losses' = losses
    BY <1>2, Zenon
    DEF Imports!Find, Imports!Claim, Imports!Open, Imports!ReadRow,
        Imports!LastFlush, Imports!Flush, Imports!Insert, Imports!FlushDone,
        Imports!Complete
  <1>3. ASSUME NEW w \in Worker,
               \/ Imports!InsertFails(w) \/ Imports!ImportFails(w)
               \/ Imports!Fail(w) \/ Imports!Discard(w) \/ Imports!Crash(w)
        PROVE  losses' \in {losses, losses + 1}
    BY <1>3, Zenon
    DEF Imports!InsertFails, Imports!ImportFails, Imports!Fail, Imports!Discard,
        Imports!Crash, Imports!Loses
  <1>4. QED
    BY <1>1, <1>2, <1>3, Zenon DEF Imports!Next

LEMMA NoteLosses ==
    ASSUME Notes!Next PROVE losses' \in {losses, losses + 1}
  <1>1. ASSUME NEW n \in Note,
               \/ Notes!Enqueue(n) \/ Notes!SwitchOff(n) \/ Notes!SwitchOn(n)
               \/ Notes!BackoffEnds(n)
        PROVE  losses' = losses
    BY <1>1, Zenon
    DEF Notes!Enqueue, Notes!SwitchOff, Notes!SwitchOn, Notes!BackoffEnds,
        Notes!faultVars
  <1>2. CASE Notes!LeaseLapses
    BY <1>2, Zenon DEF Notes!LeaseLapses, Notes!Loses, Notes!faultVars
  <1>3. ASSUME NEW i \in Instance,
               \/ Notes!Begin(i) \/ Notes!CheckPreference(i) \/ Notes!Send(i)
               \/ Notes!MarkSent(i) \/ Notes!RecordFailure(i)
        PROVE  losses' = losses
    BY <1>3, Zenon
    DEF Notes!Begin, Notes!CheckPreference, Notes!Send, Notes!MarkSent,
        Notes!RecordFailure, Notes!faultVars
  <1>4. ASSUME NEW i \in Instance,
               Notes!MarkSentFails(i) \/ Notes!End(i) \/ Notes!Crash(i)
        PROVE  losses' \in {losses, losses + 1}
    BY <1>4, Zenon
    DEF Notes!MarkSentFails, Notes!End, Notes!Crash, Notes!Loses
  <1>5. QED
    BY <1>1, <1>2, <1>3, <1>4, Zenon DEF Notes!Next

LEMMA LimiterLosses ==
    ASSUME Limiter!Next PROVE losses' \in {losses, losses + 1}
  <1>1. CASE Limiter!Tick \/ Limiter!Watch
    BY <1>1, Zenon DEF Limiter!Tick, Limiter!Watch
  <1>2. ASSUME NEW now, Limiter!Consume(now) PROVE losses' = losses
    BY <1>2, Zenon DEF Limiter!Consume
  <1>3. CASE Limiter!Unmetered
    BY <1>3, Zenon DEF Limiter!Unmetered
  <1>4. QED
    BY <1>1, <1>2, <1>3, Zenon DEF Limiter!Next

\* Losses only grow.
LEMMA LossesGrow ==
    ASSUME [ServicesNext]_lossVars PROVE losses' \in {losses, losses + 1}
  <1>1. CASE UNCHANGED lossVars
    BY <1>1, Zenon DEF lossVars
  <1>2. CASE ServicesNext
    BY <1>2, ClickLosses, IntakeLosses, KeyLosses, ImportLosses, NoteLosses,
       LimiterLosses, Zenon
    DEF ServicesNext
  <1>3. QED
    BY <1>1, <1>2

-----------------------------------------------------------------------------
(* Orders, their subscriptions and billing events. *)

\* The part of TypeOK that the counters depend on.
ShapeInv ==
    /\ conversion \subseteq OrderId
    /\ subscription \in [Order -> Subscription \cup {NULL}]
    /\ request \in [Request -> Local]

\* PeriodsMatchTheCounter, one period at a time.
MatchInv ==
    \A o \in Order, p \in 2..Months :
        PeriodId(o, p) \in conversion
            <=> subscription[o] # NULL /\ p <= subscription[o].completed

\* What a billing request has read stays true: its period is at most the one
\* after the counter, which only grows.
BillingInv ==
    \A r \in Request :
        request[r].op = "billing" =>
            LET s == subscription[OrderOf[request[r].event]]
            IN  s # NULL /\ request[r].period <= s.completed + 1

CounterInv == ShapeInv /\ MatchInv /\ BillingInv

-----------------------------------------------------------------------------
\* What a request has read, by what it is doing.
LEMMA LocalOfOp ==
    ASSUME ShapeInv, NEW r \in Request
    PROVE  /\ request[r].op = "checked" =>
                 request[r] \in [op : {"checked"}, order : Order]
           /\ request[r].op = "attributed" =>
                 request[r] \in [op : {"attributed"}, order : Order,
                                 links : SUBSET Link]
           /\ request[r].op = "recorded" =>
                 request[r] \in [op : {"recorded"}, order : Order,
                                 earners : SUBSET Affiliate]
           /\ request[r].op = "billing" =>
                 request[r] \in [op : {"billing"}, event : Billing,
                                 period : 2..Months]
  BY DEF ShapeInv, Local, Idle

LEMMA IdleIsLocal == Idle \in Local /\ Idle.op = "idle"
  BY DEF Idle, Local

\* A request that goes on leaves the others alone.
LEMMA BecomeType ==
    ASSUME ShapeInv, NEW r \in Request, NEW l \in Local, Become(r, l)
    PROVE  /\ request' \in [Request -> Local]
           /\ request'[r] = l
           /\ \A q \in Request : q # r => request'[q] = request[q]
  BY DEF ShapeInv, Become

\* Orders, counters and other requests do not change, and the one that does is
\* not billing.
LEMMA RequestStep ==
    ASSUME CounterInv, NEW r \in Request, NEW l \in Local, Become(r, l),
           l.op # "billing", UNCHANGED <<conversion, subscription>>
    PROVE  CounterInv'
  <1>1. ShapeInv
    BY DEF CounterInv
  <1>2. /\ request' \in [Request -> Local]
        /\ request'[r] = l
        /\ \A q \in Request : q # r => request'[q] = request[q]
    BY <1>1, BecomeType
  <1>3. ShapeInv'
    BY <1>1, <1>2 DEF ShapeInv
  <1>4. MatchInv'
    BY DEF CounterInv, MatchInv, PeriodId
  <1>5. BillingInv'
    BY <1>2 DEF CounterInv, BillingInv
  <1>6. QED
    BY <1>3, <1>4, <1>5 DEF CounterInv

\* The links of the clicks are links.
LEMMA AttributeType ==
    ASSUME clicks \in Seq(Link), clicks # <<>>
    PROVE  Attribute \subseteq Link
  <1>1. Len(clicks) \in 1..Len(clicks) /\ 1 \in 1..Len(clicks)
    OBVIOUS
  <1>2. Head(clicks) \in Link /\ Last(clicks) \in Link /\ ToSet(clicks) \subseteq Link
    BY <1>1 DEF Last, ToSet
  <1>3. QED
    BY <1>2 DEF Attribute

-----------------------------------------------------------------------------
LEMMA CounterInit == Init => CounterInv
  <1>1. SUFFICES ASSUME Init PROVE CounterInv
    OBVIOUS
  <1>2. /\ conversion = {}
        /\ subscription = [o \in Order |-> NULL]
        /\ request = [r \in Request |-> Idle]
    BY <1>1 DEF Init
  <1>3. ShapeInv
    BY <1>2, IdleIsLocal DEF ShapeInv
  <1>4. MatchInv
    BY <1>2 DEF MatchInv
  <1>5. BillingInv
    BY <1>2, IdleIsLocal DEF BillingInv
  <1>6. QED
    BY <1>3, <1>4, <1>5 DEF CounterInv

LEMMA BillingReadStep ==
    ASSUME IntakeAssumption, CounterInv,
           NEW r \in Request, NEW b \in Billing, BillingRead(r, b)
    PROVE  CounterInv'
  <1> DEFINE o == OrderOf[b]
  <1>1. o \in Order /\ Months \in Nat
    BY DEF IntakeAssumption
  <1>2. PICK s : s = subscription[o]
    OBVIOUS
  <1>3. s \in Subscription /\ s.completed \in 1..Months
    BY <1>1, <1>2 DEF CounterInv, ShapeInv, BillingRead, Subscription
  <1>4. PICK l : l = [op |-> "billing", event |-> b, period |-> s.completed + 1]
    OBVIOUS
  <1>5. s.completed < Months /\ s.completed + 1 \in 2..Months
    BY <1>1, <1>2, <1>3 DEF BillingRead
  <1>6. l \in Local
    BY <1>4, <1>5 DEF Local
  <1>7. Become(r, l)
    BY <1>2, <1>4 DEF BillingRead
  <1>8. /\ request' \in [Request -> Local]
        /\ request'[r] = l
        /\ \A q \in Request : q # r => request'[q] = request[q]
    BY <1>6, <1>7, BecomeType DEF CounterInv
  <1>9. UNCHANGED <<conversion, subscription>> /\ s # NULL
    BY <1>2 DEF BillingRead
  <1>10. ShapeInv' /\ MatchInv'
    BY <1>8, <1>9 DEF CounterInv, ShapeInv, MatchInv, PeriodId
  <1>11. BillingInv'
    BY <1>2, <1>3, <1>4, <1>8, <1>9 DEF CounterInv, BillingInv
  <1>12. QED
    BY <1>10, <1>11 DEF CounterInv

LEMMA BillingCommitStep ==
    ASSUME IntakeAssumption, CounterInv, NEW r \in Request, BillingCommit(r)
    PROVE  CounterInv'
  <1> DEFINE b == request[r].event
             o == OrderOf[b]
             period == request[r].period
  <1>1. /\ request[r] \in [op : {"billing"}, event : Billing, period : 2..Months]
        /\ b \in Billing /\ o \in Order /\ period \in 2..Months
    BY LocalOfOp DEF CounterInv, BillingCommit, IntakeAssumption
  <1>2. Months \in Nat /\ Become(r, Idle)
    BY DEF IntakeAssumption, BillingCommit
  <1>3. CASE Taken(PeriodId(o, period))
    <2>1. UNCHANGED <<conversion, subscription>>
      BY <1>3 DEF BillingCommit
    <2>2. QED
      BY <1>2, <2>1, IdleIsLocal, RequestStep
  <1>4. CASE ~Taken(PeriodId(o, period))
    <2>1. PICK s : s = subscription[o]
      OBVIOUS
    <2>2. PICK n : n = [s EXCEPT !.completed = period,
                                 !.status = IF period >= Months THEN "COMPLETED"
                                            ELSE "ACTIVE"]
      OBVIOUS
    <2>3. /\ conversion' = conversion \cup {PeriodId(o, period)}
          /\ subscription' = [subscription EXCEPT ![o] = n]
      BY <1>4, <2>1, <2>2 DEF BillingCommit
    <2>4. s # NULL /\ period <= s.completed + 1
      BY <1>1, <2>1 DEF CounterInv, BillingInv, BillingCommit
    <2>5. s \in Subscription /\ s.completed \in 1..Months
      BY <1>1, <2>1, <2>4 DEF CounterInv, ShapeInv, Subscription
    <2>6. n \in Subscription /\ n.completed = period
      <3>1. PICK v \in {"ACTIVE", "COMPLETED"} :
                 n = [s EXCEPT !.completed = period, !.status = v]
        BY <2>2
      <3>2. period \in 1..Months
        BY <1>1, <1>2
      <3>3. QED
        BY <2>5, <3>1, <3>2 DEF Subscription
    <2>7. period = s.completed + 1
      BY <1>1, <1>2, <1>4, <2>1, <2>4, <2>5 DEF CounterInv, MatchInv, Taken
    <2>8. /\ request' \in [Request -> Local]
          /\ request'[r] = Idle
          /\ \A q \in Request : q # r => request'[q] = request[q]
      BY <1>2, BecomeType, IdleIsLocal DEF CounterInv
    <2>9. ShapeInv'
      <3>1. PeriodId(o, period) \in OrderId
        BY <1>1 DEF PeriodId, OrderId
      <3>2. QED
        BY <1>1, <2>3, <2>6, <2>8, <3>1 DEF CounterInv, ShapeInv
    <2>10. MatchInv'
      <3>1. SUFFICES ASSUME NEW x \in Order, NEW p \in 2..Months
                     PROVE  PeriodId(x, p) \in conversion'
                               <=> /\ subscription'[x] # NULL
                                   /\ p <= subscription'[x].completed
        BY DEF MatchInv, PeriodId
      <3>2. PeriodId(x, p) = PeriodId(o, period) <=> x = o /\ p = period
        BY DEF PeriodId
      <3>3. PeriodId(x, p) \in conversion
               <=> subscription[x] # NULL /\ p <= subscription[x].completed
        BY DEF CounterInv, MatchInv
      <3>4. CASE x # o
        BY <2>3, <3>2, <3>3, <3>4 DEF CounterInv, ShapeInv
      <3>5. CASE x = o
        <4>1. subscription'[o] = n /\ n # NULL
          BY <1>1, <2>3, <2>6 DEF CounterInv, ShapeInv, IntakeAssumption
        <4>2. PeriodId(x, p) \in conversion' <=> p <= s.completed \/ p = period
          BY <2>1, <2>3, <2>4, <3>2, <3>3, <3>5
        <4>3. QED
          BY <1>1, <1>2, <2>5, <2>6, <2>7, <3>5, <4>1, <4>2
      <3>6. QED
        BY <3>4, <3>5
    <2>11. BillingInv'
      <3>1. SUFFICES ASSUME NEW q \in Request, request'[q].op = "billing"
                     PROVE  LET t == subscription'[OrderOf[request'[q].event]]
                            IN  /\ t # NULL
                                /\ request'[q].period <= t.completed + 1
        BY DEF BillingInv
      <3>2. q # r /\ request'[q] = request[q]
        BY <2>8, <3>1, IdleIsLocal
      <3>3. /\ request[q].event \in Billing /\ request[q].period \in 2..Months
            /\ OrderOf[request[q].event] \in Order
        BY <3>1, <3>2, LocalOfOp DEF CounterInv, IntakeAssumption
      <3>4. LET t == subscription[OrderOf[request[q].event]]
            IN  t # NULL /\ request[q].period <= t.completed + 1
        BY <3>1, <3>2 DEF CounterInv, BillingInv
      <3>5. subscription'[o] = n /\ n # NULL /\ n.completed = period
        BY <1>1, <2>3, <2>6 DEF CounterInv, ShapeInv, IntakeAssumption
      <3>6. CASE OrderOf[request[q].event] = o
        BY <1>1, <2>1, <2>7, <3>2, <3>3, <3>4, <3>5, <3>6
      <3>7. CASE OrderOf[request[q].event] # o
        BY <2>3, <3>2, <3>3, <3>4, <3>7 DEF CounterInv, ShapeInv
      <3>8. QED
        BY <3>6, <3>7
    <2>12. QED
      BY <2>9, <2>10, <2>11 DEF CounterInv
  <1>5. QED
    BY <1>3, <1>4

LEMMA ReportCommitStep ==
    ASSUME IntakeAssumption, CounterInv, NEW r \in Request, ReportCommit(r)
    PROVE  CounterInv'
  <1> DEFINE o == request[r].order
             links == request[r].links
  <1>1. o \in Order /\ links \subseteq Link
    BY LocalOfOp DEF CounterInv, ReportCommit
  <1>2. PICK earners : earners = {AffiliateOf[l] : l \in links} \cap Recurring
    OBVIOUS
  <1>3. earners \subseteq Affiliate
    BY <1>1, <1>2 DEF Affiliate
  <1>4. PICK next : next = [op |-> "recorded", order |-> o, earners |-> earners]
    OBVIOUS
  <1>5. PICK l \in {Idle, next} : Become(r, l)
    BY <1>2, <1>4 DEF ReportCommit
  <1>6. l \in Local /\ l.op # "billing"
    BY <1>1, <1>3, <1>4, <1>5, IdleIsLocal DEF Local
  <1>7. /\ request' \in [Request -> Local]
        /\ request'[r] = l
        /\ \A q \in Request : q # r => request'[q] = request[q]
    BY <1>5, <1>6, BecomeType DEF CounterInv
  <1>8. subscription' = subscription
    BY DEF ReportCommit
  <1>9. /\ conversion \subseteq conversion'
        /\ \A c \in conversion' \ conversion :
              \E k \in links : c = IdFor(o, links, k)
    <2>1. CASE Insertable(o, links)
      BY <2>1 DEF ReportCommit
    <2>2. CASE ~Insertable(o, links)
      BY <2>2 DEF ReportCommit
    <2>3. QED
      BY <2>1, <2>2
  <1>10. \A k \in links : /\ IdFor(o, links, k) \in OrderId
                          /\ IdFor(o, links, k).part \notin Nat
    BY <1>1 DEF IdFor, OrderId, Affiliate, IntakeAssumption
  <1>11. ShapeInv'
    BY <1>7, <1>8, <1>9, <1>10 DEF CounterInv, ShapeInv
  <1>12. MatchInv'
    <2>1. SUFFICES ASSUME NEW x \in Order, NEW p \in 2..Months
                   PROVE  PeriodId(x, p) \in conversion'
                             <=> PeriodId(x, p) \in conversion
      BY <1>8 DEF CounterInv, MatchInv, PeriodId
    <2>2. PeriodId(x, p).part \in Nat
      BY DEF PeriodId, IntakeAssumption
    <2>3. QED
      BY <1>9, <1>10, <2>2
  <1>13. BillingInv'
    BY <1>6, <1>7, <1>8 DEF CounterInv, BillingInv
  <1>14. QED
    BY <1>11, <1>12, <1>13 DEF CounterInv

LEMMA StartSubscriptionStep ==
    ASSUME IntakeAssumption, CounterInv,
           NEW r \in Request, NEW a \in Affiliate, StartSubscription(r, a)
    PROVE  CounterInv'
  <1> DEFINE o == request[r].order
  <1>1. /\ o \in Order
        /\ request[r] \in [op : {"recorded"}, order : Order,
                           earners : SUBSET Affiliate]
    BY LocalOfOp DEF CounterInv, StartSubscription
  <1>2. PICK more : more = [request[r] EXCEPT !.earners =
                               request[r].earners \ {a}]
    OBVIOUS
  <1>3. more \in Local /\ more.op # "billing"
    <2>1. more \in [op : {"recorded"}, order : Order, earners : SUBSET Affiliate]
      BY <1>1, <1>2
    <2>2. QED
      BY <2>1 DEF Local
  <1>4. PICK l \in {Idle, more} : Become(r, l)
    BY <1>2 DEF StartSubscription
  <1>5. l \in Local /\ l.op # "billing"
    BY <1>3, <1>4, IdleIsLocal
  <1>6. conversion' = conversion
    BY DEF StartSubscription
  <1>7. CASE subscription[o] # NULL
    <2>1. UNCHANGED <<conversion, subscription>>
      BY <1>6, <1>7 DEF StartSubscription
    <2>2. QED
      BY <1>4, <1>5, <2>1, RequestStep
  <1>8. CASE subscription[o] = NULL
    <2>1. PICK n : n = [affiliate |-> a, completed |-> 1,
                        status |-> IF Months = 1 THEN "COMPLETED" ELSE "ACTIVE"]
      OBVIOUS
    <2>2. n \in Subscription /\ n.completed = 1 /\ n # NULL
      BY <2>1 DEF Subscription, IntakeAssumption
    <2>3. subscription' = [subscription EXCEPT ![o] = n]
      BY <1>8, <2>1 DEF StartSubscription
    <2>4. /\ request' \in [Request -> Local]
          /\ request'[r] = l
          /\ \A q \in Request : q # r => request'[q] = request[q]
      BY <1>4, <1>5, BecomeType DEF CounterInv
    <2>5. /\ subscription'[o] = n
          /\ \A x \in Order : x # o => subscription'[x] = subscription[x]
      BY <1>1, <2>3 DEF CounterInv, ShapeInv
    <2>6. ShapeInv'
      BY <1>6, <2>2, <2>3, <2>4 DEF CounterInv, ShapeInv
    <2>7. MatchInv'
      <3>1. SUFFICES ASSUME NEW x \in Order, NEW p \in 2..Months
                     PROVE  PeriodId(x, p) \in conversion
                               <=> /\ subscription'[x] # NULL
                                   /\ p <= subscription'[x].completed
        BY <1>6 DEF MatchInv, PeriodId
      <3>2. PeriodId(x, p) \in conversion
               <=> subscription[x] # NULL /\ p <= subscription[x].completed
        BY DEF CounterInv, MatchInv
      <3>3. ~(p <= 1)
        BY DEF IntakeAssumption
      <3>4. QED
        BY <1>8, <2>2, <2>5, <3>2, <3>3
    <2>8. BillingInv'
      BY <1>1, <1>5, <1>8, <2>4, <2>5, LocalOfOp
      DEF CounterInv, BillingInv, IntakeAssumption
    <2>9. QED
      BY <2>6, <2>7, <2>8 DEF CounterInv
  <1>9. QED
    BY <1>7, <1>8

LEMMA CancelStep ==
    ASSUME IntakeAssumption, CounterInv, NEW o \in Order, Cancel(o)
    PROVE  CounterInv'
  <1>1. PICK s : s = subscription[o]
    OBVIOUS
  <1>2. s # NULL /\ s \in Subscription
    BY <1>1 DEF CounterInv, ShapeInv, Cancel
  <1>3. PICK n : n = [s EXCEPT !.status = "CANCELLED"]
    OBVIOUS
  <1>4. n \in Subscription /\ n.completed = s.completed
    BY <1>2, <1>3 DEF Subscription
  <1>5. /\ subscription' = [subscription EXCEPT ![o] = n]
        /\ UNCHANGED <<conversion, request>>
    BY <1>1, <1>3 DEF Cancel
  <1>6. n # NULL
    BY <1>4 DEF IntakeAssumption
  <1>7. /\ subscription'[o] = n
        /\ \A x \in Order : x # o => subscription'[x] = subscription[x]
    BY <1>5 DEF CounterInv, ShapeInv
  <1>8. ShapeInv'
    BY <1>4, <1>5 DEF CounterInv, ShapeInv
  <1>9. \A x \in Order :
           /\ subscription'[x] = NULL <=> subscription[x] = NULL
           /\ subscription[x] # NULL =>
                 subscription'[x].completed = subscription[x].completed
    BY <1>1, <1>2, <1>4, <1>6, <1>7
  <1>10. MatchInv'
    BY <1>5, <1>9 DEF CounterInv, MatchInv, PeriodId
  <1>11. BillingInv'
    BY <1>5, <1>9, LocalOfOp DEF CounterInv, BillingInv, IntakeAssumption
  <1>12. QED
    BY <1>8, <1>10, <1>11 DEF CounterInv

-----------------------------------------------------------------------------
\* Every attribution finds the links of counted clicks.
AttributionInv == clicks \in Seq(Link)

LEMMA AttributionInit == Init => AttributionInv
  BY DEF Init, AttributionInv

LEMMA AttributionNext == AttributionInv /\ [Next]_vars => AttributionInv'
  <1>1. SUFFICES ASSUME AttributionInv, [Next]_vars PROVE AttributionInv'
    OBVIOUS
  <1>2. CASE \E l \in Link : CountClick(l)
    BY <1>1, <1>2 DEF CountClick, AttributionInv
  <1>3. CASE ClickAges
    BY <1>1, <1>3 DEF ClickAges, AttributionInv
  <1>4. CASE UNCHANGED clicks
    BY <1>1, <1>4 DEF AttributionInv
  <1>5. QED
    BY <1>1, <1>2, <1>3, <1>4
    DEF Next, vars, EndCampaign, ReportCheck, ReportAttribute, ReportCommit,
        StartSubscription, BillingRead, BillingCommit, Abandon, Cancel

LEMMA ReportAttributeStep ==
    ASSUME CounterInv, AttributionInv, NEW r \in Request, ReportAttribute(r)
    PROVE  CounterInv'
  <1>1. PICK next : next = [op |-> "attributed", order |-> request[r].order,
                            links |-> Attribute]
    OBVIOUS
  <1>2. request[r].order \in Order
    BY LocalOfOp DEF CounterInv, ReportAttribute
  <1>3. CASE clicks = <<>>
    <2>1. Become(r, Idle)
      BY <1>3 DEF ReportAttribute
    <2>2. QED
      BY <2>1, IdleIsLocal, RequestStep DEF ReportAttribute
  <1>4. CASE clicks # <<>>
    <2>1. Become(r, next)
      BY <1>1, <1>4 DEF ReportAttribute
    <2>2. Attribute \subseteq Link
      BY <1>4, AttributeType DEF AttributionInv
    <2>3. next \in Local /\ next.op # "billing"
      BY <1>1, <1>2, <2>2 DEF Local
    <2>4. QED
      BY <2>1, <2>3, RequestStep DEF ReportAttribute
  <1>5. QED
    BY <1>3, <1>4

LEMMA CounterNext ==
    ASSUME IntakeAssumption, CounterInv, AttributionInv, [Next]_vars
    PROVE  CounterInv'
  <1>1. CASE UNCHANGED <<conversion, subscription, request>>
    BY <1>1 DEF CounterInv, ShapeInv, MatchInv, BillingInv, PeriodId
  <1>2. ASSUME NEW r \in Request, NEW o \in Order, ReportCheck(r, o)
        PROVE  CounterInv'
    <2>1. PICK l : l = [op |-> "checked", order |-> o]
      OBVIOUS
    <2>2. l \in Local /\ l.op # "billing"
      BY <2>1 DEF Local
    <2>3. QED
      BY <1>2, <2>1, <2>2, RequestStep DEF ReportCheck
  <1>3. ASSUME NEW r \in Request, Abandon(r)
        PROVE  CounterInv'
    BY <1>3, IdleIsLocal, RequestStep DEF Abandon
  <1>4. CASE \E l \in Link : CountClick(l)
    BY <1>1, <1>4 DEF CountClick
  <1>5. CASE ClickAges \/ EndCampaign \/ UNCHANGED vars
    BY <1>1, <1>5 DEF ClickAges, EndCampaign, vars
  <1>6. QED
    BY <1>2, <1>3, <1>4, <1>5, ReportAttributeStep, ReportCommitStep,
       StartSubscriptionStep, BillingReadStep, BillingCommitStep, CancelStep
    DEF Next

-----------------------------------------------------------------------------
LEMMA CounterIsExact ==
    ASSUME IntakeAssumption, CounterInv
    PROVE  PeriodsMatchTheCounter
  <1>1. SUFFICES ASSUME NEW o \in Order
                 PROVE  Periods(o) = IF subscription[o] = NULL THEN {}
                                     ELSE 2..subscription[o].completed
    BY DEF PeriodsMatchTheCounter
  <1>2. \A p \in 2..Months : p \in Periods(o) <=> PeriodId(o, p) \in conversion
    <2>1. SUFFICES ASSUME NEW p \in 2..Months
                   PROVE  p \in Periods(o) <=> PeriodId(o, p) \in conversion
      OBVIOUS
    <2>2. ASSUME NEW c \in conversion, c.order = o, c.part = p
          PROVE  c = PeriodId(o, p)
      BY <2>2 DEF CounterInv, ShapeInv, OrderId, PeriodId
    <2>3. PeriodId(o, p).order = o /\ PeriodId(o, p).part = p
      BY DEF PeriodId
    <2>4. QED
      BY <2>2, <2>3 DEF Periods
  <1>3. Periods(o) \subseteq 2..Months
    BY DEF Periods
  <1>4. subscription[o] # NULL => subscription[o].completed \in 1..Months
    BY DEF CounterInv, ShapeInv, Subscription
  <1>5. \A p \in 2..Months :
           p \in Periods(o)
              <=> subscription[o] # NULL /\ p <= subscription[o].completed
    BY <1>2 DEF CounterInv, MatchInv
  <1>6. CASE subscription[o] = NULL
    BY <1>3, <1>5, <1>6
  <1>7. CASE subscription[o] # NULL
    <2>1. Months \in Nat
      BY DEF IntakeAssumption
    <2>2. PICK n \in 1..Months : n = subscription[o].completed
      BY <1>4, <1>7
    <2>3. \A p \in 2..Months : p \in Periods(o) <=> p \in 2..n
      BY <1>5, <1>7, <2>1, <2>2
    <2>4. 2..n \subseteq 2..Months
      BY <2>1, <2>2
    <2>5. Periods(o) = 2..n
      BY <1>3, <2>3, <2>4
    <2>6. QED
      BY <1>7, <2>2, <2>5
  <1>8. QED
    BY <1>6, <1>7

\* However many billing events of an order are handled at once, and wherever
\* one of them stops, recordBillingPeriod leaves the completed counter of a
\* subscription and the conversions of its periods in agreement.
THEOREM CounterAgrees ==
    ASSUME IntakeAssumption
    PROVE  Spec => []PeriodsMatchTheCounter
  <1>1. Init => CounterInv /\ AttributionInv
    BY CounterInit, AttributionInit
  <1>2. (CounterInv /\ AttributionInv) /\ [Next]_vars => (CounterInv /\ AttributionInv)'
    BY CounterNext, AttributionNext
  <1>3. CounterInv /\ AttributionInv => PeriodsMatchTheCounter
    BY CounterIsExact
  <1>4. QED
    BY <1>1, <1>2, <1>3, PTL DEF Spec

-----------------------------------------------------------------------------
\* The order id of a sale that is not shared.
WholeId(o) == [order |-> o, part |-> NULL]

SaleShapeInv ==
    /\ campaign \in [model : Models, status : {"ACTIVE", "ENDED"}]
    /\ sales \in [Order -> Nat]

\* Unless sales are shared, an attribution names one link, and the reports that
\* committed for an order are those that its conversion stands for.
SaleInv ==
    campaign.model # "LINEAR" =>
        /\ \A o \in Order : sales[o] = IF WholeId(o) \in conversion THEN 1 ELSE 0
        /\ \A r \in Request :
              request[r].op = "attributed" => \E l : request[r].links = {l}

LEMMA SaleInit == Init => SaleShapeInv /\ SaleInv
  <1>1. SUFFICES ASSUME Init PROVE SaleShapeInv /\ SaleInv
    OBVIOUS
  <1>2. SaleShapeInv
    BY <1>1 DEF Init, SaleShapeInv
  <1>3. /\ conversion = {}
        /\ request = [r \in Request |-> Idle]
        /\ sales = [o \in Order |-> 0]
    BY <1>1 DEF Init
  <1>4. SaleInv
    BY <1>3, IdleIsLocal DEF SaleInv
  <1>5. QED
    BY <1>2, <1>4

LEMMA SaleShapeNext == SaleShapeInv /\ [Next]_vars => SaleShapeInv'
  <1>1. SUFFICES ASSUME SaleShapeInv, [Next]_vars PROVE SaleShapeInv'
    OBVIOUS
  <1>2. CASE UNCHANGED <<campaign, sales>>
    BY <1>1, <1>2 DEF SaleShapeInv
  <1>3. CASE EndCampaign
    BY <1>1, <1>3 DEF EndCampaign, SaleShapeInv
  <1>4. ASSUME NEW r \in Request, ReportCommit(r)
        PROVE  SaleShapeInv'
    <2>1. UNCHANGED campaign
      BY <1>4 DEF ReportCommit
    <2>2. \/ sales' = sales
          \/ sales' = [sales EXCEPT ![request[r].order] =
                          sales[request[r].order] + 1]
      BY <1>4 DEF ReportCommit
    <2>3. QED
      BY <1>1, <2>1, <2>2 DEF SaleShapeInv
  <1>5. QED
    BY <1>1, <1>2, <1>3, <1>4
    DEF Next, vars, CountClick, ClickAges, ReportCheck, ReportAttribute,
        StartSubscription, BillingRead, BillingCommit, Abandon, Cancel

\* Reports, whole sales and attributions in progress are not touched.
LEMMA SaleFrame ==
    ASSUME SaleInv, UNCHANGED sales, campaign'.model = campaign.model,
           \A o \in Order : WholeId(o) \in conversion' <=> WholeId(o) \in conversion,
           \A r \in Request :
              request'[r].op = "attributed" => request'[r] = request[r]
    PROVE  SaleInv'
  BY DEF SaleInv, WholeId

LEMMA SaleReportAttribute ==
    ASSUME IntakeAssumption, CounterInv, SaleShapeInv, SaleInv,
           NEW r \in Request, ReportAttribute(r)
    PROVE  SaleInv'
  <1>1. SUFFICES ASSUME campaign.model # "LINEAR",
                        NEW q \in Request, request'[q].op = "attributed"
                 PROVE  \E l : request'[q].links = {l}
    BY DEF SaleInv, WholeId, ReportAttribute
  <1>2. CASE q # r
    BY <1>1, <1>2 DEF SaleInv, ReportAttribute, Become, CounterInv, ShapeInv
  <1>3. CASE q = r /\ clicks = <<>>
    BY <1>1, <1>3, IdleIsLocal
    DEF ReportAttribute, Become, CounterInv, ShapeInv
  <1>4. CASE q = r /\ clicks # <<>>
    <2>1. request'[q].links = Attribute
      BY <1>4 DEF ReportAttribute, Become, CounterInv, ShapeInv
    <2>2. Attribute = {Head(clicks)} \/ Attribute = {Last(clicks)}
      <3>1. campaign.model \in {"FIRST_CLICK", "LAST_CLICK"}
        BY <1>1 DEF SaleShapeInv, IntakeAssumption
      <3>2. QED
        BY <3>1 DEF Attribute
    <2>3. QED
      BY <2>1, <2>2
  <1>5. QED
    BY <1>2, <1>3, <1>4

LEMMA SaleReportCommit ==
    ASSUME CounterInv, SaleShapeInv, SaleInv, NEW r \in Request, ReportCommit(r)
    PROVE  SaleInv'
  <1> DEFINE o == request[r].order
             links == request[r].links
  <1>1. o \in Order
    BY LocalOfOp DEF CounterInv, ReportCommit
  <1>2. \A q \in Request :
           request'[q].op = "attributed" => request'[q] = request[q]
    <2>1. PICK earners : earners = {AffiliateOf[l] : l \in links} \cap Recurring
      OBVIOUS
    <2>2. PICK next : next = [op |-> "recorded", order |-> o, earners |-> earners]
      OBVIOUS
    <2>3. PICK l \in {Idle, next} : request' = [request EXCEPT ![r] = l]
      BY <2>1, <2>2 DEF ReportCommit, Become
    <2>4. l.op # "attributed"
      BY <2>2, <2>3, IdleIsLocal
    <2>5. QED
      BY <2>3, <2>4 DEF CounterInv, ShapeInv
  <1>3. CASE ~Insertable(o, links)
    <2>1. UNCHANGED <<campaign, conversion, sales>>
      BY <1>3 DEF ReportCommit
    <2>2. QED
      BY <1>2, <2>1, SaleFrame DEF WholeId
  <1>4. CASE Insertable(o, links) /\ campaign.model # "LINEAR"
    <2>1. PICK l : links = {l}
      BY <1>4 DEF SaleInv, ReportCommit
    <2>2. IdFor(o, links, l) = WholeId(o)
      <3>1. Cardinality(links) = 1
        BY <2>1, FS_Singleton
      <3>2. QED
        BY <3>1 DEF IdFor, WholeId
    <2>3. /\ conversion' = conversion \cup {WholeId(o)}
          /\ sales' = [sales EXCEPT ![o] = sales[o] + 1]
          /\ campaign' = campaign
      BY <1>4, <2>1, <2>2 DEF ReportCommit
    <2>4. WholeId(o) \notin conversion
      BY <1>4, <2>1, <2>2 DEF Insertable, Taken
    <2>5. \A x \in Order : WholeId(x) = WholeId(o) => x = o
      BY DEF WholeId
    <2>6. \A x \in Order :
             sales'[x] = IF WholeId(x) \in conversion' THEN 1 ELSE 0
      BY <1>1, <1>4, <2>3, <2>4, <2>5 DEF SaleInv, SaleShapeInv
    <2>7. QED
      BY <1>2, <2>3, <2>6 DEF SaleInv, WholeId
  <1>5. CASE campaign.model = "LINEAR"
    BY <1>5 DEF SaleInv, ReportCommit
  <1>6. QED
    BY <1>3, <1>4, <1>5

LEMMA SaleBillingCommit ==
    ASSUME IntakeAssumption, CounterInv, SaleInv,
           NEW r \in Request, BillingCommit(r)
    PROVE  SaleInv'
  <1>1. request[r].period \in Nat
    BY LocalOfOp DEF CounterInv, BillingCommit, IntakeAssumption
  <1>2. \A o \in Order :
           WholeId(o) # PeriodId(OrderOf[request[r].event], request[r].period)
    BY <1>1 DEF WholeId, PeriodId, IntakeAssumption
  <1>3. \A o \in Order : WholeId(o) \in conversion' <=> WholeId(o) \in conversion
    BY <1>2 DEF BillingCommit
  <1>4. \A q \in Request :
           request'[q].op = "attributed" => request'[q] = request[q]
    BY IdleIsLocal DEF BillingCommit, Become, CounterInv, ShapeInv
  <1>5. QED
    BY <1>3, <1>4, SaleFrame DEF BillingCommit

LEMMA SaleNext ==
    ASSUME IntakeAssumption, CounterInv, SaleShapeInv, SaleInv, [Next]_vars
    PROVE  SaleInv'
  <1>1. CASE UNCHANGED <<conversion, request, sales>> /\ campaign'.model = campaign.model
    BY <1>1, SaleFrame DEF WholeId
  <1>2. ASSUME NEW r \in Request, NEW l, Become(r, l), l.op # "attributed",
               UNCHANGED <<campaign, conversion, sales>>
        PROVE  SaleInv'
    <2>1. \A q \in Request :
             request'[q].op = "attributed" => request'[q] = request[q]
      BY <1>2 DEF Become, CounterInv, ShapeInv
    <2>2. QED
      BY <1>2, <2>1, SaleFrame DEF WholeId
  <1>3. ASSUME NEW r \in Request, NEW o \in Order, ReportCheck(r, o)
        PROVE  SaleInv'
    BY <1>2, <1>3 DEF ReportCheck
  <1>4. ASSUME NEW r \in Request, NEW b \in Billing, BillingRead(r, b)
        PROVE  SaleInv'
    BY <1>2, <1>4 DEF BillingRead
  <1>5. ASSUME NEW r \in Request, Abandon(r)
        PROVE  SaleInv'
    BY <1>2, <1>5, IdleIsLocal DEF Abandon
  <1>6. ASSUME NEW r \in Request, NEW a \in Affiliate, StartSubscription(r, a)
        PROVE  SaleInv'
    <2>1. PICK more : more = [request[r] EXCEPT !.earners =
                                 request[r].earners \ {a}]
      OBVIOUS
    <2>2. more.op = "recorded"
      BY <1>6, <2>1, LocalOfOp DEF StartSubscription, CounterInv
    <2>3. PICK l \in {Idle, more} : Become(r, l)
      BY <1>6, <2>1 DEF StartSubscription
    <2>4. l.op # "attributed"
      BY <2>2, <2>3, IdleIsLocal
    <2>5. QED
      BY <1>2, <1>6, <2>3, <2>4 DEF StartSubscription
  <1>7. CASE EndCampaign
    BY <1>1, <1>7 DEF EndCampaign, SaleShapeInv
  <1>8. CASE \/ \E l \in Link : CountClick(l)
             \/ ClickAges
             \/ \E o \in Order : Cancel(o)
             \/ UNCHANGED vars
    BY <1>1, <1>8 DEF CountClick, ClickAges, Cancel, vars
  <1>9. QED
    BY <1>3, <1>4, <1>5, <1>6, <1>7, <1>8, SaleReportAttribute,
       SaleReportCommit, SaleBillingCommit
    DEF Next

\* However many reports of an order are handled at once, conversionService.report
\* commits it once, unless the campaign shares its sales.
THEOREM OrderIsRecordedOnce ==
    ASSUME IntakeAssumption
    PROVE  Spec => []OrderRecordedOnce
  <1> DEFINE IInv == CounterInv /\ AttributionInv /\ SaleShapeInv /\ SaleInv
  <1>1. Init => IInv
    BY CounterInit, AttributionInit, SaleInit
  <1>2. IInv /\ [Next]_vars => IInv'
    <2>1. SUFFICES ASSUME IInv, [Next]_vars PROVE IInv'
      OBVIOUS
    <2>2. CounterInv' /\ AttributionInv' /\ SaleShapeInv'
      BY <2>1, CounterNext, AttributionNext, SaleShapeNext
    <2>3. SaleInv'
      BY <2>1, <2>2, SaleNext
    <2>4. QED
      BY <2>2, <2>3
  <1>3. IInv => OrderRecordedOnce
    BY DEF SaleInv, OrderRecordedOnce
  <1>4. QED
    BY <1>1, <1>2, <1>3, PTL DEF Spec

-----------------------------------------------------------------------------
\* What the counters, the attribution and the sales depend on, and the tallies.
TallyInv == renewals \in [Billing -> Nat] /\ losses \in Nat

IntakeInv == CounterInv /\ AttributionInv /\ SaleShapeInv /\ TallyInv

LEMMA IntakeInit == Init => IntakeInv
  BY CounterInit, AttributionInit, SaleInit DEF IntakeInv, TallyInv, Init

LEMMA TallyNext == TallyInv /\ [Next]_vars => TallyInv'
  <1>1. SUFFICES ASSUME TallyInv, [Next]_vars PROVE TallyInv'
    OBVIOUS
  <1>2. CASE UNCHANGED <<renewals, losses>>
    BY <1>1, <1>2 DEF TallyInv
  <1>3. ASSUME NEW r \in Request, BillingCommit(r)
        PROVE  TallyInv'
    <2>1. \/ renewals' = renewals
          \/ renewals' = [renewals EXCEPT ![request[r].event] =
                             renewals[request[r].event] + 1]
      BY <1>3 DEF BillingCommit
    <2>2. losses' = losses
      BY <1>3 DEF BillingCommit
    <2>3. QED
      BY <1>1, <2>1, <2>2 DEF TallyInv
  <1>4. ASSUME NEW r \in Request, Abandon(r)
        PROVE  TallyInv'
    BY <1>1, <1>4 DEF Abandon, TallyInv
  <1>5. QED
    BY <1>1, <1>2, <1>3, <1>4
    DEF Next, vars, CountClick, ClickAges, EndCampaign, ReportCheck,
        ReportAttribute, ReportCommit, StartSubscription, BillingRead, Cancel

LEMMA IntakeNext ==
    ASSUME IntakeAssumption, IntakeInv, [Next]_vars
    PROVE  IntakeInv'
  BY CounterNext, AttributionNext, SaleShapeNext, TallyNext DEF IntakeInv

LEMMA IntakeTypes == IntakeInv => TypeOK
  BY DEF IntakeInv, CounterInv, ShapeInv, AttributionInv, SaleShapeInv, TallyInv, TypeOK

-----------------------------------------------------------------------------
(* The click pipeline.  What the lists and the memory of drains and        *)
(* replays hold is counted per set of messages: a step moves, adds or      *)
(* loses some, and the invariant (ClickInv of the module) follows from how *)
(* the counts change.                                                      *)

LEMMA ClickParameters ==
    /\ IsFiniteSet(Worker) /\ IsFiniteSet(Replayer)
    /\ NULL \notin Clicks!Message
    /\ BatchMax \in Nat \ {0} /\ MaxAttempts \in Nat \ {0} /\ MaxLosses \in Nat
    /\ Malformed \cup Invalid \cup Orphan \subseteq ClickId
  <1>1. Clicks!ClickAssumption
    BY ServicesAssumption DEF ServicesAssumption
  <1>2. \A S : Clicks!IsFiniteSet(S) <=> IsFiniteSet(S)
    BY Zenon DEF Clicks!IsFiniteSet, IsFiniteSet
  <1> QED
    BY <1>1, <1>2, Zenon DEF Clicks!ClickAssumption

LEMMA ClickCounts ==
    /\ \A S : Clicks!Cardinality(S) = Cardinality(S)
    /\ \A S : Clicks!IsFiniteSet(S) <=> IsFiniteSet(S)
    /\ \A s, B : Clicks!Occurs(s, B) = Occurs(s, B)
    /\ \A w, B : Clicks!OccursIn(w, B) = OccursIn(w, B)
    /\ \A f, S : Clicks!SumFunctionOnSet(f, S) = SumFunctionOnSet(f, S)
  <1>1. \A S : Clicks!Cardinality(S) = Cardinality(S)
    BY Zenon DEF Clicks!Cardinality, Cardinality
  <1>2. \A s, B : Clicks!Occurs(s, B) = Occurs(s, B)
    BY <1>1, Zenon DEF Clicks!Occurs, Occurs
  <1>3. \A f, S : Clicks!SumFunctionOnSet(f, S) = SumFunctionOnSet(f, S)
    BY DEF Clicks!SumFunctionOnSet, Clicks!FoldFunctionOnSet,
           Clicks!MapThenFoldSet, SumFunctionOnSet, FoldFunctionOnSet, MapThenFoldSet
  <1>4. \A w, B : Clicks!OccursIn(w, B) = OccursIn(w, B)
    BY <1>2, <1>3, Zenon DEF Clicks!OccursIn, OccursIn
  <1>5. \A S : Clicks!IsFiniteSet(S) <=> IsFiniteSet(S)
    BY Zenon DEF Clicks!IsFiniteSet, IsFiniteSet
  <1> QED
    BY <1>1, <1>2, <1>3, <1>4, <1>5, Zenon

\* What lists, drains and replays hold, as numbers of their values.
Held(d, B) == Occurs(d.failed, B) + Occurs(d.events, B) + OccursIn(d.work, B)
HeldByAll(dr, B) == SumFunctionOnSet([w \in Worker |-> Held(dr[w], B)], Worker)
FailedOfAll(dr, B) ==
    SumFunctionOnSet([w \in Worker |-> Occurs(dr[w].failed, B)], Worker)
ReplayedOf(rep, B) == Cardinality({r \in Replayer : rep[r] \in B})

Way(q, l, rep, dr, B) == Occurs(q, B) + Occurs(l, B) + ReplayedOf(rep, B) + HeldByAll(dr, B)
Aside(l, p, rep, dr, B) == Occurs(l, B) + Occurs(p, B) + ReplayedOf(rep, B) + FailedOfAll(dr, B)

LEMMA ClickTotals ==
    ASSUME NEW B
    PROVE  /\ Clicks!OnTheWay(B) = Way(queue, dlq, replaying, drain, B)
           /\ Clicks!Unstored(B) = Way(queue, dlq, replaying, drain, B) + Occurs(parked, B)
           /\ Clicks!SetAside(B) = Aside(dlq, parked, replaying, drain, B)
           /\ Clicks!OnTheWay(B)' = Way(queue', dlq', replaying', drain', B)
           /\ Clicks!Unstored(B)' = Way(queue', dlq', replaying', drain', B) + Occurs(parked', B)
           /\ Clicks!SetAside(B)' = Aside(dlq', parked', replaying', drain', B)
  <1>1. \A d : Clicks!HeldIn(d, B) = Held(d, B)
    BY ClickCounts, Zenon DEF Clicks!HeldIn, Held
  <1>2. /\ Clicks!Replayed(B) = ReplayedOf(replaying, B)
        /\ Clicks!Replayed(B)' = ReplayedOf(replaying', B)
    BY ClickCounts, Zenon DEF Clicks!Replayed, ReplayedOf
  <1>3. /\ Clicks!SumFunctionOnSet([w \in Worker |-> Clicks!HeldIn(drain[w], B)], Worker)
               = HeldByAll(drain, B)
        /\ Clicks!SumFunctionOnSet([w \in Worker |-> Clicks!HeldIn(drain[w], B)]', Worker)
               = HeldByAll(drain', B)
    <2>1. /\ [w \in Worker |-> Clicks!HeldIn(drain[w], B)]
                 = [w \in Worker |-> Held(drain[w], B)]
          /\ [w \in Worker |-> Clicks!HeldIn(drain'[w], B)]
                 = [w \in Worker |-> Held(drain'[w], B)]
      BY <1>1, Zenon
    <2> QED BY <2>1, ClickCounts, Zenon DEF HeldByAll
  <1>4. /\ Clicks!SumFunctionOnSet([w \in Worker |-> Clicks!Occurs(drain[w].failed, B)],
                                   Worker) = FailedOfAll(drain, B)
        /\ Clicks!SumFunctionOnSet([w \in Worker |-> Clicks!Occurs(drain'[w].failed, B)],
                                   Worker) = FailedOfAll(drain', B)
    <2>1. /\ [w \in Worker |-> Clicks!Occurs(drain[w].failed, B)]
                 = [w \in Worker |-> Occurs(drain[w].failed, B)]
          /\ [w \in Worker |-> Clicks!Occurs(drain'[w].failed, B)]
                 = [w \in Worker |-> Occurs(drain'[w].failed, B)]
      BY ClickCounts, Zenon
    <2> QED BY <2>1, ClickCounts, Zenon DEF FailedOfAll
  <1>5. /\ Clicks!OnTheWay(B) = Way(queue, dlq, replaying, drain, B)
        /\ Clicks!OnTheWay(B)' = Way(queue', dlq', replaying', drain', B)
    BY <1>2, <1>3, ClickCounts, Zenon DEF Clicks!OnTheWay, Way
  <1>6. /\ Clicks!SetAside(B) = Aside(dlq, parked, replaying, drain, B)
        /\ Clicks!SetAside(B)' = Aside(dlq', parked', replaying', drain', B)
    BY <1>2, <1>4, ClickCounts, Zenon DEF Clicks!SetAside, Aside
  <1>7. /\ Clicks!Unstored(B) = Way(queue, dlq, replaying, drain, B) + Occurs(parked, B)
        /\ Clicks!Unstored(B)' = Way(queue', dlq', replaying', drain', B) + Occurs(parked', B)
    BY <1>5, ClickCounts, Zenon DEF Clicks!Unstored
  <1> QED
    BY <1>5, <1>6, <1>7, Zenon

\* The messages whose envelope tells less, or more, than what was done.
OnTime(count) == {m \in Clicks!Message :
                    m.attempts = count[m.click] /\ m.attempts < MaxAttempts}
InTime(count) == {m \in Clicks!Message :
                    m.attempts = count[m.click] /\ m.attempts = MaxAttempts}

LEMMA ClickAttempts ==
    /\ Clicks!AttemptsAreCarried <=>
          /\ Way(queue, dlq, replaying, drain, Clicks!Message \ OnTime(givenUp)) = 0
          /\ Occurs(parked, Clicks!Message \ InTime(givenUp)) = 0
    /\ Clicks!AttemptsAreCarried' <=>
          /\ Way(queue', dlq', replaying', drain', Clicks!Message \ OnTime(givenUp')) = 0
          /\ Occurs(parked', Clicks!Message \ InTime(givenUp')) = 0
  <1> DEFINE on == {m \in Clicks!Truthful : m.attempts < MaxAttempts}
             in == {m \in Clicks!Truthful : m.attempts = MaxAttempts}
  <1>1. on = OnTime(givenUp) /\ in = InTime(givenUp)
    BY DEF Clicks!Truthful, OnTime, InTime
  <1>2. on' = OnTime(givenUp') /\ in' = InTime(givenUp')
    BY DEF Clicks!Truthful, OnTime, InTime
  <1>3. \A d, B : Clicks!HeldIn(d, B) = Held(d, B)
    BY ClickCounts, Zenon DEF Clicks!HeldIn, Held
  <1> DEFINE a == Clicks!Message \ OnTime(givenUp)
             b == Clicks!Message \ OnTime(givenUp')
  <1>4. Clicks!OnTheWay(Clicks!Message \ on) = Way(queue, dlq, replaying, drain, a)
    <2>1. Clicks!OnTheWay(Clicks!Message \ on) = Clicks!OnTheWay(a)
      BY <1>1, Zenon
    <2> HIDE DEF a
    <2>2. [w \in Worker |-> Clicks!HeldIn(drain[w], a)]
             = [w \in Worker |-> Held(drain[w], a)]
      BY <1>3, Zenon
    <2>3. Clicks!OnTheWay(a) = Way(queue, dlq, replaying, drain, a)
      BY <2>2, ClickCounts, Zenon
      DEF Clicks!OnTheWay, Way, Clicks!Replayed, ReplayedOf, HeldByAll
    <2> QED BY <2>1, <2>3, Zenon
  <1>5. Clicks!OnTheWay(Clicks!Message \ on)' = Way(queue', dlq', replaying', drain', b)
    <2> DEFINE o == Clicks!Message \ on
    <2>1. o' = b
      BY <1>2, Zenon
    <2>2. Clicks!OnTheWay(o)'
             = Clicks!Occurs(queue', o') + Clicks!Occurs(dlq', o')
               + Clicks!Cardinality({r \in Replayer : replaying'[r] \in o'})
               + Clicks!SumFunctionOnSet([w \in Worker |-> Clicks!HeldIn(drain'[w], o')],
                                         Worker)
      <3> HIDE DEF o
      <3> QED BY Zenon DEF Clicks!OnTheWay, Clicks!Replayed
    <2> HIDE DEF o, b
    <2>3. [w \in Worker |-> Clicks!HeldIn(drain'[w], b)]
             = [w \in Worker |-> Held(drain'[w], b)]
      BY <1>3, Zenon
    <2>4. Clicks!OnTheWay(o)' = Way(queue', dlq', replaying', drain', b)
      BY <2>1, <2>2, <2>3, ClickCounts, Zenon DEF Way, ReplayedOf, HeldByAll
    <2> QED BY <2>4 DEF o
  <1>6. /\ Clicks!Occurs(parked, Clicks!Message \ in)
               = Occurs(parked, Clicks!Message \ InTime(givenUp))
        /\ Clicks!Occurs(parked, Clicks!Message \ in)'
               = Occurs(parked', Clicks!Message \ InTime(givenUp'))
    <2>1. \A s, B : Clicks!Occurs(s, B) = Occurs(s, B)
      BY ClickCounts, Zenon
    <2>2. Clicks!Occurs(parked', Clicks!Message \ in')
             = Occurs(parked', Clicks!Message \ InTime(givenUp'))
      BY <1>2, <2>1, Zenon
    <2> QED BY <1>1, <1>2, <2>1, <2>2, Zenon
  <1> QED
    BY <1>4, <1>5, <1>6, Zenon DEF Clicks!AttemptsAreCarried

-----------------------------------------------------------------------------
(* How many messages of a set drains and replays hold. *)

LEMMA DrainFields ==
    ASSUME NEW d \in Clicks!Drain
    PROVE  /\ d.events \in Seq(Clicks!Message) /\ d.failed \in Seq(Clicks!Message)
           /\ d.work \in Seq(Seq(Clicks!Message)) /\ d.pops \in Nat
           /\ d = [step |-> d.step, pops |-> d.pops, events |-> d.events,
                   work |-> d.work, failed |-> d.failed]
  BY DEF Clicks!Drain

LEMMA HeldType ==
    ASSUME NEW d \in Clicks!Drain, NEW B
    PROVE  /\ Occurs(d.failed, B) \in Nat /\ Occurs(d.events, B) \in Nat
           /\ OccursIn(d.work, B) \in Nat /\ Held(d, B) \in Nat
           /\ Occurs(d.failed, B) <= Held(d, B)
  <1>1. Occurs(d.failed, B) \in Nat /\ Occurs(d.events, B) \in Nat
    BY DrainFields, OccursType
  <1>2. OccursIn(d.work, B) \in Nat
    BY DrainFields, OccursInType
  <1> QED
    BY <1>1, <1>2 DEF Held

LEMMA HeldSplit ==
    ASSUME NEW d \in Clicks!Drain, NEW B, NEW U
    PROVE  Held(d, B) = Held(d, B \ U) + Held(d, B \cap U)
  <1> DEFINE M == Clicks!Message
  <1> DEFINE s == d.failed
             t == d.events
             w == d.work
  <1>1. s \in Seq(M) /\ t \in Seq(M) /\ w \in Seq(Seq(M))
    BY DrainFields, Zenon
  <1> HIDE DEF M, s, t, w
  <1>2. \A A, V : Occurs(s, A) = Occurs(s, A \ V) + Occurs(s, A \cap V)
    BY <1>1, OccursSplit
  <1>3. \A A, V : Occurs(t, A) = Occurs(t, A \ V) + Occurs(t, A \cap V)
    BY <1>1, OccursSplit
  <1>4. \A A, V : OccursIn(w, A) = OccursIn(w, A \ V) + OccursIn(w, A \cap V)
    BY <1>1, OccursInSplit
  <1>5. \A A : Occurs(s, A) \in Nat /\ Occurs(t, A) \in Nat /\ OccursIn(w, A) \in Nat
    BY <1>1, OccursType, OccursInType
  <1> DEFINE K(A) == Occurs(s, A) + Occurs(t, A) + OccursIn(w, A)
  <1>6. K(B) = K(B \ U) + K(B \cap U)
    <2> DEFINE C == B \ U
               D == B \cap U
    <2>1. /\ Occurs(s, B) = Occurs(s, C) + Occurs(s, D)
          /\ Occurs(t, B) = Occurs(t, C) + Occurs(t, D)
          /\ OccursIn(w, B) = OccursIn(w, C) + OccursIn(w, D)
      BY <1>2, <1>3, <1>4, Zenon
    <2> HIDE DEF C, D
    <2>2. K(B) = K(C) + K(D)
      BY <1>5, <2>1
    <2> QED BY <2>2 DEF C, D
  <1> QED
    BY <1>6, Zenon DEF Held, s, t, w

LEMMA HeldByAllType ==
    ASSUME NEW dr \in [Worker -> Clicks!Drain], NEW B
    PROVE  /\ HeldByAll(dr, B) \in Nat /\ FailedOfAll(dr, B) \in Nat
  <1> DEFINE f == [w \in Worker |-> Held(dr[w], B)]
             g == [w \in Worker |-> Occurs(dr[w].failed, B)]
  <1>1. \A w \in Worker : f[w] \in Nat /\ g[w] \in Nat
    BY HeldType
  <1>2. IsFiniteSet(Worker)
    BY ClickParameters, Zenon
  <1> HIDE DEF f, g
  <1>3. SumFunctionOnSet(f, Worker) \in Nat /\ SumFunctionOnSet(g, Worker) \in Nat
    BY <1>1, <1>2, SumType
  <1> QED
    BY <1>3, Zenon DEF HeldByAll, FailedOfAll, f, g

LEMMA HeldByAllSplit ==
    ASSUME NEW dr \in [Worker -> Clicks!Drain], NEW B, NEW U
    PROVE  HeldByAll(dr, B) = HeldByAll(dr, B \ U) + HeldByAll(dr, B \cap U)
  <1> DEFINE f == [w \in Worker |-> Held(dr[w], B)]
             g == [w \in Worker |-> Held(dr[w], B \ U)]
             h == [w \in Worker |-> Held(dr[w], B \cap U)]
  <1>1. \A w \in Worker : /\ g[w] \in Nat /\ h[w] \in Nat /\ f[w] = g[w] + h[w]
    <2> TAKE w \in Worker
    <2>1. dr[w] \in Clicks!Drain
      OBVIOUS
    <2>2. \A A : Held(dr[w], A) \in Nat
      BY <2>1, HeldType, Zenon
    <2>3. \A A, V : Held(dr[w], A) = Held(dr[w], A \ V) + Held(dr[w], A \cap V)
      BY <2>1, HeldSplit, Zenon
    <2> QED BY <2>2, <2>3, Zenon
  <1>2. IsFiniteSet(Worker)
    BY ClickParameters, Zenon
  <1> HIDE DEF f, g, h
  <1>3. SumFunctionOnSet(f, Worker) = SumFunctionOnSet(g, Worker) + SumFunctionOnSet(h, Worker)
    BY <1>1, <1>2, SumPlus
  <1> QED
    BY <1>3, Zenon DEF HeldByAll, f, g, h

\* One drain changes.
OneDrain(dr, dn, w, e) ==
    /\ dn \in [Worker -> Clicks!Drain] /\ dn[w] = e
    /\ \A v \in Worker \ {w} : dn[v] = dr[v]

LEMMA OneDrainChanges ==
    ASSUME NEW dr \in [Worker -> Clicks!Drain], NEW w \in Worker,
           NEW e \in Clicks!Drain, NEW dn, OneDrain(dr, dn, w, e), NEW B
    PROVE  /\ HeldByAll(dn, B) = HeldByAll(dr, B) + Held(e, B) - Held(dr[w], B)
           /\ FailedOfAll(dn, B)
                 = FailedOfAll(dr, B) + Occurs(e.failed, B) - Occurs(dr[w].failed, B)
  <1> DEFINE f == [v \in Worker |-> Held(dr[v], B)]
             g == [v \in Worker |-> Held(dn[v], B)]
             h == [v \in Worker |-> Occurs(dr[v].failed, B)]
             k == [v \in Worker |-> Occurs(dn[v].failed, B)]
  <1>1. /\ dn \in [Worker -> Clicks!Drain] /\ dn[w] = e
        /\ \A v \in Worker \ {w} : dn[v] = dr[v]
    BY Zenon DEF OneDrain
  <1>2. /\ \A v \in Worker : f[v] \in Nat /\ g[v] \in Nat
        /\ \A v \in Worker : h[v] \in Nat /\ k[v] \in Nat
        /\ \A v \in Worker \ {w} : g[v] = f[v]
        /\ \A v \in Worker \ {w} : k[v] = h[v]
        /\ g[w] = Held(e, B) /\ f[w] = Held(dr[w], B)
        /\ k[w] = Occurs(e.failed, B) /\ h[w] = Occurs(dr[w].failed, B)
    BY <1>1, HeldType
  <1>3. IsFiniteSet(Worker)
    BY ClickParameters, Zenon
  <1> HIDE DEF f, g, h, k
  <1>4. SumFunctionOnSet(g, Worker) = SumFunctionOnSet(f, Worker) + g[w] - f[w]
    BY <1>2, <1>3, SumChange
  <1>5. SumFunctionOnSet(k, Worker) = SumFunctionOnSet(h, Worker) + k[w] - h[w]
    BY <1>2, <1>3, SumChange
  <1>6. /\ HeldByAll(dn, B) = HeldByAll(dr, B) + Held(e, B) - Held(dr[w], B)
        /\ FailedOfAll(dn, B)
              = FailedOfAll(dr, B) + Occurs(e.failed, B) - Occurs(dr[w].failed, B)
    BY <1>2, <1>4, <1>5, Zenon DEF HeldByAll, FailedOfAll, f, g, h, k
  <1> QED
    BY <1>1, <1>6, Zenon

LEMMA ReplayedType ==
    ASSUME NEW rep \in [Replayer -> Clicks!Message \cup {NULL}], NEW B
    PROVE  /\ IsFiniteSet({r \in Replayer : rep[r] \in B}) /\ ReplayedOf(rep, B) \in Nat
  <1>1. {r \in Replayer : rep[r] \in B} \in SUBSET Replayer
    OBVIOUS
  <1>2. IsFiniteSet({r \in Replayer : rep[r] \in B})
    BY <1>1, ClickParameters, FS_Subset
  <1> QED
    BY <1>2, FS_CardinalityType, Zenon DEF ReplayedOf

LEMMA ReplayedSplit ==
    ASSUME NEW rep \in [Replayer -> Clicks!Message \cup {NULL}], NEW B, NEW U
    PROVE  ReplayedOf(rep, B) = ReplayedOf(rep, B \ U) + ReplayedOf(rep, B \cap U)
  <1> DEFINE I == {r \in Replayer : rep[r] \in B}
             J == {r \in Replayer : rep[r] \in B \ U}
             K == {r \in Replayer : rep[r] \in B \cap U}
  <1>1. IsFiniteSet(J) /\ IsFiniteSet(K)
    BY ReplayedType, Zenon
  <1>2. I = J \cup K /\ J \cap K = {}
    OBVIOUS
  <1> HIDE DEF I, J, K
  <1>3. Cardinality(J \cup K) = Cardinality(J) + Cardinality(K)
    <2>1. Cardinality(J \cup K) = Cardinality(J) + Cardinality(K) - Cardinality(J \cap K)
      BY <1>1, FS_Union, Zenon
    <2>2. Cardinality(J \cap K) = 0 /\ Cardinality(J) \in Nat /\ Cardinality(K) \in Nat
      BY <1>1, <1>2, FS_EmptySet, FS_CardinalityType
    <2> QED BY <2>1, <2>2
  <1> QED
    BY <1>2, <1>3, Zenon DEF ReplayedOf, I, J, K

\* A replay takes a message, or lets it go.
Taking(rep, r, x) == [rep EXCEPT ![r] = x]

LEMMA OneReplayChanges ==
    ASSUME NEW rep \in [Replayer -> Clicks!Message \cup {NULL}], NEW r \in Replayer,
           NEW m \in Clicks!Message, NEW B \in SUBSET Clicks!Message
    PROVE  /\ rep[r] = NULL =>
                  /\ Taking(rep, r, m) \in [Replayer -> Clicks!Message \cup {NULL}]
                  /\ ReplayedOf(Taking(rep, r, m), B)
                        = ReplayedOf(rep, B) + IF m \in B THEN 1 ELSE 0
           /\ rep[r] = m =>
                  /\ Taking(rep, r, NULL) \in [Replayer -> Clicks!Message \cup {NULL}]
                  /\ ReplayedOf(rep, B)
                        = ReplayedOf(Taking(rep, r, NULL), B) + IF m \in B THEN 1 ELSE 0
  <1>0. NULL \notin B
    BY ClickParameters
  <1> DEFINE taken == [rep EXCEPT ![r] = m]
             gone == [rep EXCEPT ![r] = NULL]
             I(f) == {x \in Replayer : f[x] \in B}
  <1>1. /\ taken \in [Replayer -> Clicks!Message \cup {NULL}]
        /\ gone \in [Replayer -> Clicks!Message \cup {NULL}]
    OBVIOUS
  <1>2. /\ \A f \in [Replayer -> Clicks!Message \cup {NULL}] :
              IsFiniteSet(I(f)) /\ ReplayedOf(f, B) = Cardinality(I(f))
                /\ ReplayedOf(f, B) \in Nat
    BY ReplayedType, Zenon DEF ReplayedOf
  <1>3. ASSUME rep[r] = NULL
        PROVE  ReplayedOf(taken, B) = ReplayedOf(rep, B) + IF m \in B THEN 1 ELSE 0
    <2>1. r \notin I(rep)
      BY <1>0, <1>3
    <2>2. I(taken) = IF m \in B THEN I(rep) \cup {r} ELSE I(rep)
      BY <1>0, <1>3
    <2> DEFINE a == I(rep)
               b == I(taken)
    <2>3. r \notin a /\ b = (IF m \in B THEN a \cup {r} ELSE a) /\ IsFiniteSet(a)
          /\ ReplayedOf(rep, B) = Cardinality(a) /\ ReplayedOf(taken, B) = Cardinality(b)
          /\ Cardinality(a) \in Nat
      BY <1>1, <1>2, <2>1, <2>2, Zenon
    <2> HIDE DEF a, b, taken
    <2>4. Cardinality(a \cup {r}) = Cardinality(a) + 1
      BY <2>3, FS_AddElement
    <2> QED BY <2>3, <2>4
  <1>4. ASSUME rep[r] = m
        PROVE  ReplayedOf(rep, B) = ReplayedOf(gone, B) + IF m \in B THEN 1 ELSE 0
    <2>1. r \notin I(gone)
      BY <1>0, <1>4
    <2>2. I(rep) = IF m \in B THEN I(gone) \cup {r} ELSE I(gone)
      BY <1>0, <1>4
    <2> DEFINE a == I(gone)
               b == I(rep)
    <2>3. r \notin a /\ b = (IF m \in B THEN a \cup {r} ELSE a) /\ IsFiniteSet(a)
          /\ ReplayedOf(gone, B) = Cardinality(a) /\ ReplayedOf(rep, B) = Cardinality(b)
          /\ Cardinality(a) \in Nat
      BY <1>1, <1>2, <2>1, <2>2, Zenon
    <2> HIDE DEF a, b, gone
    <2>4. Cardinality(a \cup {r}) = Cardinality(a) + 1
      BY <2>3, FS_AddElement
    <2> QED BY <2>3, <2>4
  <1> QED
    BY <1>1, <1>3, <1>4, Zenon DEF Taking

-----------------------------------------------------------------------------
(* How many there are of them altogether. *)

ListsOK(q, l, p, rep, dr) ==
    /\ q \in Seq(Clicks!Message) /\ l \in Seq(Clicks!Message)
    /\ p \in Seq(Clicks!Message)
    /\ rep \in [Replayer -> Clicks!Message \cup {NULL}]
    /\ dr \in [Worker -> Clicks!Drain]

LEMMA WayType ==
    ASSUME NEW q, NEW l, NEW p, NEW rep, NEW dr, ListsOK(q, l, p, rep, dr), NEW B
    PROVE  /\ Occurs(q, B) \in Nat /\ Occurs(l, B) \in Nat /\ Occurs(p, B) \in Nat
           /\ ReplayedOf(rep, B) \in Nat /\ HeldByAll(dr, B) \in Nat
           /\ FailedOfAll(dr, B) \in Nat
           /\ Way(q, l, rep, dr, B) \in Nat /\ Aside(l, p, rep, dr, B) \in Nat
  <1>1. Occurs(q, B) \in Nat /\ Occurs(l, B) \in Nat /\ Occurs(p, B) \in Nat
    BY OccursType DEF ListsOK
  <1>2. ReplayedOf(rep, B) \in Nat
    BY ReplayedType, Zenon DEF ListsOK
  <1>3. HeldByAll(dr, B) \in Nat /\ FailedOfAll(dr, B) \in Nat
    BY HeldByAllType, Zenon DEF ListsOK
  <1> QED
    BY <1>1, <1>2, <1>3 DEF Way, Aside

\* What is in C or D is in one of them, if they are disjoint.
LEMMA WaySplit ==
    ASSUME NEW q, NEW l, NEW p, NEW rep, NEW dr, ListsOK(q, l, p, rep, dr),
           NEW B, NEW C, NEW D, B \ D = C, B \cap D = D
    PROVE  /\ Way(q, l, rep, dr, B) = Way(q, l, rep, dr, C) + Way(q, l, rep, dr, D)
           /\ Occurs(p, B) = Occurs(p, C) + Occurs(p, D)
  <1> DEFINE M == Clicks!Message
  <1>1. /\ q \in Seq(M) /\ l \in Seq(M) /\ p \in Seq(M)
        /\ rep \in [Replayer -> M \cup {NULL}] /\ dr \in [Worker -> Clicks!Drain]
    BY Zenon DEF ListsOK
  <1>2. /\ Occurs(q, B) = Occurs(q, C) + Occurs(q, D)
        /\ Occurs(l, B) = Occurs(l, C) + Occurs(l, D)
        /\ Occurs(p, B) = Occurs(p, C) + Occurs(p, D)
    <2> HIDE DEF M
    <2>1. \A A, V : Occurs(q, A) = Occurs(q, A \ V) + Occurs(q, A \cap V)
      BY <1>1, OccursSplit
    <2>2. \A A, V : Occurs(l, A) = Occurs(l, A \ V) + Occurs(l, A \cap V)
      BY <1>1, OccursSplit
    <2>3. \A A, V : Occurs(p, A) = Occurs(p, A \ V) + Occurs(p, A \cap V)
      BY <1>1, OccursSplit
    <2>4. Occurs(q, B) = Occurs(q, C) + Occurs(q, D)
      BY <2>1, Zenon
    <2>5. Occurs(l, B) = Occurs(l, C) + Occurs(l, D)
      BY <2>2, Zenon
    <2>6. Occurs(p, B) = Occurs(p, C) + Occurs(p, D)
      BY <2>3, Zenon
    <2> QED BY <2>4, <2>5, <2>6
  <1>3. HeldByAll(dr, B) = HeldByAll(dr, C) + HeldByAll(dr, D)
    <2>1. \A A, V : HeldByAll(dr, A) = HeldByAll(dr, A \ V) + HeldByAll(dr, A \cap V)
      BY <1>1, HeldByAllSplit
    <2> QED BY <2>1, Zenon
  <1>4. ReplayedOf(rep, B) = ReplayedOf(rep, C) + ReplayedOf(rep, D)
    <2>1. \A A, V : ReplayedOf(rep, A) = ReplayedOf(rep, A \ V) + ReplayedOf(rep, A \cap V)
      BY <1>1, ReplayedSplit
    <2> QED BY <2>1, Zenon
  <1>5. \A A : /\ Occurs(q, A) \in Nat /\ Occurs(l, A) \in Nat
               /\ ReplayedOf(rep, A) \in Nat /\ HeldByAll(dr, A) \in Nat
    BY WayType, Zenon
  <1>6. Way(q, l, rep, dr, B) = Way(q, l, rep, dr, C) + Way(q, l, rep, dr, D)
    BY <1>2, <1>3, <1>4, <1>5 DEF Way
  <1> QED
    BY <1>2, <1>6, Zenon

LEMMA WayWithin ==
    ASSUME NEW q, NEW l, NEW p, NEW rep, NEW dr, ListsOK(q, l, p, rep, dr),
           NEW C, NEW B \in SUBSET C
    PROVE  /\ Way(q, l, rep, dr, B) <= Way(q, l, rep, dr, C)
           /\ Occurs(p, B) <= Occurs(p, C)
  <1> DEFINE R == C \ B
  <1>1. C \cap B = B /\ C \ B = R
    OBVIOUS
  <1> HIDE DEF R
  <1>2. /\ Way(q, l, rep, dr, C) = Way(q, l, rep, dr, R) + Way(q, l, rep, dr, B)
        /\ Occurs(p, C) = Occurs(p, R) + Occurs(p, B)
    BY <1>1, WaySplit
  <1>3. /\ Way(q, l, rep, dr, R) \in Nat /\ Way(q, l, rep, dr, B) \in Nat
        /\ Occurs(p, R) \in Nat /\ Occurs(p, B) \in Nat
    BY WayType, Zenon
  <1> DEFINE w == Way(q, l, rep, dr, B)
             x == Way(q, l, rep, dr, R)
             y == Occurs(p, B)
             z == Occurs(p, R)
  <1>4. /\ Way(q, l, rep, dr, C) = x + w /\ Occurs(p, C) = z + y
        /\ w \in Nat /\ x \in Nat /\ y \in Nat /\ z \in Nat
    BY <1>2, <1>3, Zenon
  <1> HIDE DEF w, x, y, z
  <1>5. w <= Way(q, l, rep, dr, C) /\ y <= Occurs(p, C)
    BY <1>4
  <1> QED
    BY <1>5 DEF w, y

\* What is in the lists and in memory now, and after a step.
Here(B) == Way(queue, dlq, replaying, drain, B)
There(B) == Way(queue', dlq', replaying', drain', B)
AsideHere(B) == Aside(dlq, parked, replaying, drain, B)
AsideThere(B) == Aside(dlq', parked', replaying', drain', B)

LEMMA ClickTypes ==
    /\ Clicks!TypeOK =>
          /\ ListsOK(queue, dlq, parked, replaying, drain)
          /\ stored \in [ClickId -> Nat] /\ givenUp \in [ClickId -> Nat]
          /\ pushed \subseteq ClickId
          /\ clickCount \in Nat /\ opened \in Nat /\ losses \in Nat
    /\ Clicks!TypeOK' =>
          /\ ListsOK(queue', dlq', parked', replaying', drain')
          /\ stored' \in [ClickId -> Nat] /\ givenUp' \in [ClickId -> Nat]
          /\ pushed' \subseteq ClickId
          /\ clickCount' \in Nat /\ opened' \in Nat /\ losses' \in Nat
  BY Zenon DEF Clicks!TypeOK, ListsOK

LEMMA ClickCopies ==
    ASSUME NEW c
    PROVE  /\ Clicks!Copies(c) = stored[c] + (Here(Clicks!Of(c)) + Occurs(parked, Clicks!Of(c)))
           /\ Clicks!Copies(c)' = stored'[c] + (There(Clicks!Of(c)) + Occurs(parked', Clicks!Of(c)))
  <1>1. Clicks!Copies(c) = stored[c] + Clicks!Unstored(Clicks!Of(c))
    BY Zenon DEF Clicks!Copies
  <1>2. Clicks!Copies(c)' = stored'[c] + Clicks!Unstored(Clicks!Of(c))'
    BY Zenon DEF Clicks!Copies
  <1>3. \A B : /\ Clicks!Unstored(B) = Here(B) + Occurs(parked, B)
               /\ Clicks!Unstored(B)' = There(B) + Occurs(parked', B)
    BY ClickTotals, Zenon DEF Here, There
  <1> QED
    BY <1>1, <1>2, <1>3, Zenon

-----------------------------------------------------------------------------
(* What keeps the parts of the invariant. *)

LEMMA LossesOfABatch ==
    /\ \A b, n \in Nat : b * n \in Nat
    /\ \A b, n, m \in Nat : n <= m => b * n <= b * m
    /\ \A b, n \in Nat : b * (n + 1) = b * n + b
  <1>1. \A b, n \in Nat : b * n \in Nat
    OBVIOUS
  <1>2. \A b, n, m \in Nat : n <= m => b * n <= b * m
    OBVIOUS
  <1>3. \A b, n \in Nat : b * (n + 1) = b * n + b
    OBVIOUS
  <1> QED BY <1>1, <1>2, <1>3, Zenon

LEMMA CopiesType ==
    /\ Clicks!TypeOK => \A c \in ClickId : Clicks!Copies(c) \in Nat
    /\ Clicks!TypeOK' => \A c \in ClickId : Clicks!Copies(c)' \in Nat
  <1>1. ASSUME Clicks!TypeOK, NEW c \in ClickId PROVE Clicks!Copies(c) \in Nat
    <2>1. ListsOK(queue, dlq, parked, replaying, drain) /\ stored[c] \in Nat
      BY <1>1, ClickTypes
    <2>2. Here(Clicks!Of(c)) \in Nat /\ Occurs(parked, Clicks!Of(c)) \in Nat
      BY <2>1, WayType, Zenon DEF Here
    <2>3. Clicks!Copies(c) = stored[c] + (Here(Clicks!Of(c)) + Occurs(parked, Clicks!Of(c)))
      BY ClickCopies, Zenon
    <2> QED BY <2>1, <2>2, <2>3
  <1>2. ASSUME Clicks!TypeOK', NEW c \in ClickId PROVE Clicks!Copies(c)' \in Nat
    <2>1. ListsOK(queue', dlq', parked', replaying', drain') /\ stored'[c] \in Nat
      BY <1>2, ClickTypes
    <2>2. There(Clicks!Of(c)) \in Nat /\ Occurs(parked', Clicks!Of(c)) \in Nat
      BY <2>1, WayType, Zenon DEF There
    <2>3. Clicks!Copies(c)' = stored'[c] + (There(Clicks!Of(c)) + Occurs(parked', Clicks!Of(c)))
      BY ClickCopies, Zenon
    <2> QED BY <2>1, <2>2, <2>3
  <1> QED
    BY <1>1, <1>2, Zenon

\* NoneDoubled in terms of the module's own counts.
LEMMA DoublesStay ==
    ASSUME Clicks!TypeOK, Clicks!TypeOK', Clicks!NoneDoubled, pushed' = pushed,
           \A c \in ClickId : Clicks!Copies(c)' <= Clicks!Copies(c),
           \A c \in ClickId \ pushed : givenUp'[c] = givenUp[c]
    PROVE  Clicks!NoneDoubled'
  <1>1. /\ IsFiniteSet(pushed)
        /\ \A c \in ClickId : Clicks!Copies(c) <= IF c \in pushed THEN 1 ELSE 0
        /\ \A c \in ClickId \ pushed : givenUp[c] = 0
    BY ClickCounts, Zenon DEF Clicks!NoneDoubled
  <1>2. ASSUME NEW c \in ClickId
        PROVE  Clicks!Copies(c)' <= IF c \in pushed' THEN 1 ELSE 0
    <2> DEFINE a == Clicks!Copies(c)
               b == Clicks!Copies(c)'
    <2>1. a \in Nat /\ b \in Nat
      BY CopiesType, Zenon
    <2>2. b <= a /\ a <= IF c \in pushed THEN 1 ELSE 0
      BY <1>1
    <2> HIDE DEF a, b
    <2>3. b <= IF c \in pushed THEN 1 ELSE 0
      BY <2>1, <2>2
    <2> QED BY <2>3 DEF b
  <1> QED
    BY <1>1, <1>2, ClickCounts, Zenon DEF Clicks!NoneDoubled

LEMMA MissingAre ==
    /\ Clicks!Missing = {c \in pushed \ Malformed : Clicks!Copies(c) = 0}
    /\ Clicks!Missing' = {c \in pushed' \ Malformed : Clicks!Copies(c)' = 0}
  BY Zenon DEF Clicks!Missing

\* Nothing that was there is missing.
LEMMA MissingStay ==
    ASSUME IsFiniteSet(pushed), Clicks!TypeOK, Clicks!TypeOK',
           \A c \in pushed' \ Malformed :
              Clicks!Copies(c)' = 0 => c \in pushed /\ Clicks!Copies(c) = 0,
           losses' >= losses, Cardinality(Clicks!Missing) <= BatchMax * losses
    PROVE  Cardinality(Clicks!Missing') <= BatchMax * losses'
  <1>1. Clicks!Missing' \in SUBSET Clicks!Missing
    BY MissingAre
  <1>2. IsFiniteSet(Clicks!Missing)
    <2>1. Clicks!Missing \in SUBSET pushed
      BY MissingAre
    <2> QED BY <2>1, FS_Subset
  <1> DEFINE A == Clicks!Missing
             B == Clicks!Missing'
             a == Cardinality(A)
             b == Cardinality(B)
             n == BatchMax * losses
             m == BatchMax * losses'
  <1>3. b <= a
    <2> HIDE DEF A, B
    <2> QED BY <1>1, <1>2, FS_Subset DEF A, B
  <1>4. IsFiniteSet(B)
    <2> HIDE DEF A, B
    <2> QED BY <1>1, <1>2, FS_Subset DEF A, B
  <1>5. a \in Nat /\ b \in Nat
    BY <1>2, <1>4, FS_CardinalityType, Zenon
  <1>6. losses \in Nat /\ losses' \in Nat /\ BatchMax \in Nat
    BY ClickTypes, ClickParameters
  <1>7. n \in Nat /\ m \in Nat /\ n <= m
    BY <1>6, LossesOfABatch
  <1>8. a <= n
    OBVIOUS
  <1> HIDE DEF a, b, n, m
  <1>9. b <= m
    BY <1>3, <1>5, <1>7, <1>8
  <1> QED
    BY <1>9 DEF b, m

\* A loss of what nu counts, of a batch at most.
LEMMA MissingGrow ==
    ASSUME IsFiniteSet(pushed), Clicks!TypeOK, Clicks!TypeOK', pushed' = pushed,
           NEW nu, nu[Clicks!Message] <= BatchMax,
           \A B \in SUBSET Clicks!Message : nu[B] \in Nat,
           \A B, U \in SUBSET Clicks!Message : nu[B] = nu[B \ U] + nu[B \cap U],
           \A c \in ClickId :
              Clicks!Copies(c)' = 0 => Clicks!Copies(c) = 0 \/ nu[Clicks!Of(c)] > 0,
           losses' = losses + 1, Cardinality(Clicks!Missing) <= BatchMax * losses
    PROVE  Cardinality(Clicks!Missing') <= BatchMax * losses'
  <1> DEFINE A == Clicks!Missing
             B == Clicks!Missing'
             X == {c \in pushed : nu[Clicks!Of(c)] > 0}
             of == [c \in ClickId |-> Clicks!Of(c)]
  <1>0. pushed \in SUBSET ClickId
    BY ClickTypes
  <1>1. B \in SUBSET (A \cup X)
    BY <1>0, MissingAre
  <1>2. IsFiniteSet(A) /\ IsFiniteSet(X)
    <2>1. A \in SUBSET pushed /\ X \in SUBSET pushed
      BY MissingAre
    <2> HIDE DEF A, X
    <2> QED BY <2>1, FS_Subset
  <1>3. Cardinality(X) <= nu[Clicks!Message]
    <2>1. \A c \in X : of[c] \in SUBSET Clicks!Message /\ nu[of[c]] > 0
      BY <1>0 DEF Clicks!Of, Clicks!Message
    <2>2. \A x, y \in X : x # y => of[x] \cap of[y] = {}
      BY <1>0 DEF Clicks!Of
    <2> HIDE DEF X, of
    <2> QED BY <1>2, <2>1, <2>2, Spread
  <1> HIDE DEF A, B, X
  <1>4. Cardinality(B) <= Cardinality(A \cup X)
    BY <1>1, <1>2, FS_Subset, FS_Union
  <1>5. Cardinality(A \cup X) <= Cardinality(A) + Cardinality(X)
        /\ Cardinality(A \cup X) \in Nat
    <2>1. Cardinality(A \cup X)
             = Cardinality(A) + Cardinality(X) - Cardinality(A \cap X)
          /\ IsFiniteSet(A \cup X)
      BY <1>2, FS_Union, Zenon
    <2>2. IsFiniteSet(A \cap X)
      BY <1>2, FS_Intersection, Zenon
    <2>3. Cardinality(A) \in Nat /\ Cardinality(X) \in Nat /\ Cardinality(A \cap X) \in Nat
          /\ Cardinality(A \cup X) \in Nat
      BY <1>2, <2>1, <2>2, FS_CardinalityType, Zenon
    <2> QED BY <2>1, <2>3
  <1>6. IsFiniteSet(B)
    BY <1>1, <1>2, FS_Subset, FS_Union
  <1>7. Cardinality(A) \in Nat /\ Cardinality(B) \in Nat /\ Cardinality(X) \in Nat
    BY <1>2, <1>6, FS_CardinalityType, Zenon
  <1>8. losses \in Nat /\ BatchMax \in Nat
    BY ClickTypes, ClickParameters
  <1> DEFINE n == BatchMax * losses
             m == BatchMax * losses'
  <1>9. n \in Nat /\ m = n + BatchMax
    BY <1>8, LossesOfABatch
  <1>10. Cardinality(A) <= n
    BY DEF A
  <1> DEFINE a == Cardinality(A)
             b == Cardinality(B)
             x == Cardinality(X)
             u == Cardinality(A \cup X)
             k == nu[Clicks!Message]
  <1>11. /\ b <= u /\ u <= a + x /\ x <= k /\ k <= BatchMax /\ a <= n /\ m = n + BatchMax
         /\ a \in Nat /\ b \in Nat /\ x \in Nat /\ u \in Nat /\ n \in Nat /\ BatchMax \in Nat
         /\ k \in Nat
    BY <1>3, <1>4, <1>5, <1>7, <1>8, <1>9, <1>10
  <1> HIDE DEF a, b, x, u, n, m, k
  <1>12. b <= m
    BY <1>11
  <1> QED
    BY <1>12 DEF b, B, m

\* No message is late if none was, nobody was given up on and none is new.
LEMMA AttemptsStay ==
    ASSUME Clicks!AttemptsAreCarried, Clicks!TypeOK, Clicks!TypeOK', givenUp' = givenUp,
           \A B \in SUBSET Clicks!Message :
              There(B) <= Here(B) /\ Occurs(parked', B) <= Occurs(parked, B)
    PROVE  Clicks!AttemptsAreCarried'
  <1> DEFINE late == Clicks!Message \ OnTime(givenUp)
             over == Clicks!Message \ InTime(givenUp)
  <1>1. Here(late) = 0 /\ Occurs(parked, over) = 0
    BY ClickAttempts, Zenon DEF Here
  <1>2. late \in SUBSET Clicks!Message /\ over \in SUBSET Clicks!Message
    OBVIOUS
  <1>3. /\ Way(queue', dlq', replaying', drain', late) \in Nat
        /\ Occurs(parked', over) \in Nat
    <2> HIDE DEF late, over
    <2> QED BY ClickTypes, WayType
  <1> HIDE DEF late, over
  <1>4. /\ Way(queue', dlq', replaying', drain', late) <= Way(queue, dlq, replaying, drain, late)
        /\ Way(queue, dlq, replaying, drain, late) = 0
        /\ Occurs(parked', over) <= Occurs(parked, over)
    BY <1>1, <1>2, Zenon DEF Here, There
  <1>5. Way(queue', dlq', replaying', drain', late) = 0 /\ Occurs(parked', over) = 0
    BY <1>1, <1>3, <1>4
  <1>6. /\ late = Clicks!Message \ OnTime(givenUp')
        /\ over = Clicks!Message \ InTime(givenUp')
    BY Zenon DEF late, over
  <1> QED
    BY <1>5, <1>6, ClickAttempts, Zenon

Holds(d) ==
    /\ d.step = "idle" => d = Clicks!IdleDrain
    /\ d.step = "popping" => d.work = <<>>
    /\ d.step = "committing" => d.events = <<>>
    /\ Held(d, Clicks!Message) <= d.pops
    /\ d.pops <= BatchMax

LEMMA SameHolds ==
    /\ Clicks!DrainsHold <=> \A w \in Worker : Holds(drain[w])
    /\ Clicks!DrainsHold' <=> \A w \in Worker : Holds(drain'[w])
  <1>1. \A d, B : Clicks!HeldIn(d, B) = Held(d, B)
    BY ClickCounts, Zenon DEF Clicks!HeldIn, Held
  <1> DEFINE K(d) ==
        /\ d.step = "idle" => d = Clicks!IdleDrain
        /\ d.step = "popping" => d.work = <<>>
        /\ d.step = "committing" => d.events = <<>>
        /\ Clicks!HeldIn(d, Clicks!Message) <= d.pops
        /\ d.pops <= BatchMax
  <1>2. \A d : K(d) <=> Holds(d)
    BY <1>1, Zenon DEF Holds
  <1>3. /\ Clicks!DrainsHold <=> \A w \in Worker : K(drain[w])
        /\ Clicks!DrainsHold' <=> \A w \in Worker : K(drain'[w])
    BY Zenon DEF Clicks!DrainsHold
  <1> HIDE DEF K
  <1> QED
    BY <1>2, <1>3, Zenon

LEMMA ClickInvParts ==
    /\ Clicks!ClickInv <=>
          /\ Clicks!TypeOK /\ Clicks!DrainsHold /\ Clicks!NoneDoubled
          /\ Cardinality(Clicks!Missing) <= BatchMax * losses
          /\ AsideHere(Clicks!GoodOnes) <= losses
          /\ Clicks!AttemptsAreCarried
          /\ clickCount + (Here(Clicks!Countable) + Occurs(parked, Clicks!Countable))
                <= opened
    /\ Clicks!ClickInv' <=>
          /\ Clicks!TypeOK' /\ Clicks!DrainsHold' /\ Clicks!NoneDoubled'
          /\ Cardinality(Clicks!Missing') <= BatchMax * losses'
          /\ AsideThere(Clicks!GoodOnes) <= losses'
          /\ Clicks!AttemptsAreCarried'
          /\ clickCount' + (There(Clicks!Countable) + Occurs(parked', Clicks!Countable))
                <= opened'
  <1>1. \A B : /\ Clicks!Unstored(B) = Here(B) + Occurs(parked, B)
               /\ Clicks!Unstored(B)' = There(B) + Occurs(parked', B)
               /\ Clicks!SetAside(B) = AsideHere(B)
               /\ Clicks!SetAside(B)' = AsideThere(B)
    BY ClickTotals, Zenon DEF Here, There, AsideHere, AsideThere
  <1>2. /\ Clicks!Cardinality(Clicks!Missing) = Cardinality(Clicks!Missing)
        /\ Clicks!Cardinality(Clicks!Missing') = Cardinality(Clicks!Missing')
    BY ClickCounts, Zenon
  <1>3. /\ Clicks!CountedOncePerWindow <=>
              clickCount + (Here(Clicks!Countable) + Occurs(parked, Clicks!Countable))
                <= opened
        /\ Clicks!CountedOncePerWindow' <=>
              clickCount' + (There(Clicks!Countable) + Occurs(parked', Clicks!Countable))
                <= opened'
    BY <1>1, Zenon DEF Clicks!CountedOncePerWindow
  <1> QED
    BY <1>1, <1>2, <1>3, Zenon DEF Clicks!ClickInv

\* Nothing new is on its way, and a copy is at most stored.
LEMMA ClickKeeps ==
    ASSUME Clicks!ClickInv, Clicks!TypeOK', Clicks!DrainsHold', pushed' = pushed,
           opened' >= opened, givenUp' = givenUp, losses' >= losses,
           \A B \in SUBSET Clicks!Message :
              There(B) <= Here(B) /\ Occurs(parked', B) <= Occurs(parked, B),
           \A c \in ClickId : Clicks!Copies(c)' <= Clicks!Copies(c),
           \A c \in ClickId \ Malformed : Clicks!Copies(c)' = Clicks!Copies(c),
           clickCount' + (There(Clicks!Countable) + Occurs(parked', Clicks!Countable))
             <= clickCount + (Here(Clicks!Countable) + Occurs(parked, Clicks!Countable)),
           AsideThere(Clicks!GoodOnes) - losses' <= AsideHere(Clicks!GoodOnes) - losses
    PROVE  Clicks!ClickInv'
  <1>1. /\ Clicks!TypeOK /\ Clicks!DrainsHold /\ Clicks!NoneDoubled
        /\ Cardinality(Clicks!Missing) <= BatchMax * losses
        /\ AsideHere(Clicks!GoodOnes) <= losses
        /\ Clicks!AttemptsAreCarried
        /\ clickCount + (Here(Clicks!Countable) + Occurs(parked, Clicks!Countable))
              <= opened
    BY ClickInvParts, Zenon
  <1>2. Clicks!NoneDoubled'
    BY <1>1, DoublesStay
  <1>3. Cardinality(Clicks!Missing') <= BatchMax * losses'
    <2>1. IsFiniteSet(pushed) /\ pushed' \subseteq ClickId
      BY <1>1, ClickCounts, ClickTypes, Zenon DEF Clicks!NoneDoubled
    <2>2. \A c \in pushed' \ Malformed :
              Clicks!Copies(c)' = 0 => c \in pushed /\ Clicks!Copies(c) = 0
      BY <2>1
    <2> QED BY <1>1, <2>1, <2>2, MissingStay
  <1>4. Clicks!AttemptsAreCarried'
    BY <1>1, AttemptsStay
  <1>5. AsideThere(Clicks!GoodOnes) <= losses'
    <2> DEFINE a == AsideThere(Clicks!GoodOnes)
               b == AsideHere(Clicks!GoodOnes)
               n == losses
               m == losses'
    <2>1. a \in Nat /\ b \in Nat
      BY <1>1, ClickTypes, WayType, Zenon DEF AsideThere, AsideHere
    <2>2. n \in Nat /\ m \in Nat
      BY <1>1, ClickTypes
    <2>3. a - m <= b - n /\ b <= n
      BY <1>1
    <2> HIDE DEF a, b, n, m
    <2>4. a <= m
      BY ONLY <2>1, <2>2, <2>3
    <2> QED BY <2>4 DEF a, m
  <1>6. clickCount' + (There(Clicks!Countable) + Occurs(parked', Clicks!Countable))
          <= opened'
    <2> DEFINE a == There(Clicks!Countable) + Occurs(parked', Clicks!Countable)
               b == Here(Clicks!Countable) + Occurs(parked, Clicks!Countable)
               k == clickCount
               l == clickCount'
               n == opened
               m == opened'
    <2>1. a \in Nat /\ b \in Nat
      <3>1. /\ There(Clicks!Countable) \in Nat /\ Occurs(parked', Clicks!Countable) \in Nat
            /\ Here(Clicks!Countable) \in Nat /\ Occurs(parked, Clicks!Countable) \in Nat
        BY <1>1, ClickTypes, WayType, Zenon DEF There, Here
      <3> QED BY <3>1
    <2>2. k \in Nat /\ l \in Nat /\ n \in Nat /\ m \in Nat
      BY <1>1, ClickTypes
    <2>3. l + a <= k + b /\ k + b <= n /\ n <= m
      BY <1>1
    <2> HIDE DEF a, b, k, l, n, m
    <2>4. l + a <= m
      BY ONLY <2>1, <2>2, <2>3
    <2> QED BY <2>4 DEF a, l, m
  <1> QED
    BY <1>2, <1>3, <1>4, <1>5, <1>6, ClickInvParts, Zenon

\* What is on its way moves.
LEMMA ClickMoves ==
    ASSUME Clicks!ClickInv, Clicks!TypeOK', Clicks!DrainsHold', pushed' = pushed,
           opened' >= opened, givenUp' = givenUp, losses' >= losses,
           stored' = stored, clickCount' = clickCount, parked' = parked,
           \A B \in SUBSET Clicks!Message : There(B) = Here(B),
           AsideThere(Clicks!GoodOnes) - losses' <= AsideHere(Clicks!GoodOnes) - losses
    PROVE  Clicks!ClickInv'
  <1>1. Clicks!TypeOK
    BY ClickInvParts, Zenon
  <1>2. ASSUME NEW B \in SUBSET Clicks!Message
        PROVE  There(B) <= Here(B) /\ Occurs(parked', B) <= Occurs(parked, B)
    <2>1. Here(B) \in Nat /\ Occurs(parked, B) \in Nat
      BY <1>1, ClickTypes, WayType, Zenon DEF Here
    <2>2. There(B) = Here(B) /\ Occurs(parked', B) = Occurs(parked, B)
      BY Zenon
    <2> QED BY <2>1, <2>2
  <1>3. ASSUME NEW c \in ClickId PROVE Clicks!Copies(c)' = Clicks!Copies(c)
    <2>1. There(Clicks!Of(c)) = Here(Clicks!Of(c))
      <3>1. Clicks!Of(c) \in SUBSET Clicks!Message
        BY DEF Clicks!Of, Clicks!Message
      <3> QED BY <3>1, Zenon
    <2>2. Clicks!Copies(c) = stored[c] + (Here(Clicks!Of(c)) + Occurs(parked, Clicks!Of(c)))
      BY ClickCopies, Zenon
    <2>3. Clicks!Copies(c)' = stored'[c] + (There(Clicks!Of(c)) + Occurs(parked', Clicks!Of(c)))
      BY ClickCopies, Zenon
    <2> QED BY <2>1, <2>2, <2>3, Zenon
  <1>4. \A c \in ClickId : Clicks!Copies(c)' <= Clicks!Copies(c)
    <2>1. \A c \in ClickId : Clicks!Copies(c) \in Nat
      BY <1>1, CopiesType, Zenon
    <2> QED BY <1>3, <2>1
  <1>5. clickCount' + (There(Clicks!Countable) + Occurs(parked', Clicks!Countable))
             <= clickCount + (Here(Clicks!Countable) + Occurs(parked, Clicks!Countable))
    <2>1. Clicks!Countable \in SUBSET Clicks!Message
      BY DEF Clicks!Countable, Clicks!Message
    <2>2. There(Clicks!Countable) = Here(Clicks!Countable)
      BY <2>1, Zenon
    <2> DEFINE a == Here(Clicks!Countable)
               b == Occurs(parked, Clicks!Countable)
    <2>3. a \in Nat /\ b \in Nat /\ clickCount \in Nat
      BY <1>1, ClickTypes, WayType, Zenon DEF Here
    <2>4. clickCount' + (There(Clicks!Countable) + Occurs(parked', Clicks!Countable))
            = clickCount + (a + b)
      BY <2>2, Zenon
    <2> HIDE DEF a, b
    <2>5. clickCount + (a + b) <= clickCount + (a + b)
      BY <2>3
    <2> QED BY <2>4, <2>5, Zenon DEF a, b
  <1> QED
    BY <1>2, <1>3, <1>4, <1>5, ClickKeeps

\* The types and the drains after a step of one drain.
LEMMA ClickTypesStay ==
    ASSUME Clicks!TypeOK, queue' \in Seq(Clicks!Message), dlq' \in Seq(Clicks!Message),
           parked' \in Seq(Clicks!Message), window' \subseteq {visitor},
           stored' \in [ClickId -> Nat], clickCount' \in Nat,
           drain' \in [Worker -> Clicks!Drain],
           replaying' \in [Replayer -> Clicks!Message \cup {NULL}],
           pushed' \subseteq ClickId, opened' \in Nat, givenUp' \in [ClickId -> Nat],
           losses' \in Nat, replays' \in Nat
    PROVE  Clicks!TypeOK'
  BY Zenon DEF Clicks!TypeOK

LEMMA ClickKnown ==
    ASSUME Clicks!ClickInv
    PROVE  /\ Clicks!TypeOK /\ Clicks!DrainsHold /\ Clicks!NoneDoubled
           /\ ListsOK(queue, dlq, parked, replaying, drain)
           /\ queue \in Seq(Clicks!Message) /\ dlq \in Seq(Clicks!Message)
           /\ parked \in Seq(Clicks!Message) /\ window \subseteq {visitor}
           /\ stored \in [ClickId -> Nat] /\ clickCount \in Nat
           /\ drain \in [Worker -> Clicks!Drain]
           /\ replaying \in [Replayer -> Clicks!Message \cup {NULL}]
           /\ pushed \subseteq ClickId /\ opened \in Nat /\ givenUp \in [ClickId -> Nat]
           /\ losses \in Nat /\ replays \in Nat
           /\ \A w \in Worker : drain[w] \in Clicks!Drain /\ Holds(drain[w])
  <1>1. Clicks!TypeOK /\ Clicks!DrainsHold /\ Clicks!NoneDoubled
    BY ClickInvParts, Zenon
  <1>2. \A w \in Worker : Holds(drain[w])
    BY <1>1, SameHolds, Zenon
  <1>3. ListsOK(queue, dlq, parked, replaying, drain)
    BY <1>1, ClickTypes, Zenon
  <1>4. /\ queue \in Seq(Clicks!Message) /\ dlq \in Seq(Clicks!Message)
        /\ parked \in Seq(Clicks!Message) /\ window \subseteq {visitor}
        /\ stored \in [ClickId -> Nat] /\ clickCount \in Nat
        /\ drain \in [Worker -> Clicks!Drain]
        /\ replaying \in [Replayer -> Clicks!Message \cup {NULL}]
        /\ pushed \subseteq ClickId /\ opened \in Nat /\ givenUp \in [ClickId -> Nat]
        /\ losses \in Nat /\ replays \in Nat
    BY <1>1, Zenon DEF Clicks!TypeOK
  <1>5. \A w \in Worker : drain[w] \in Clicks!Drain
    BY <1>4
  <1> QED
    BY <1>1, <1>2, <1>3, <1>4, <1>5, Zenon

LEMMA HoldsStay ==
    ASSUME Clicks!ClickInv, NEW w \in Worker, NEW e \in Clicks!Drain, Holds(e),
           OneDrain(drain, drain', w, e)
    PROVE  Clicks!DrainsHold' /\ drain' \in [Worker -> Clicks!Drain]
  <1>1. \A v \in Worker : Holds(drain[v])
    BY ClickKnown, Zenon
  <1>2. drain' \in [Worker -> Clicks!Drain] /\ drain'[w] = e
        /\ \A v \in Worker \ {w} : drain'[v] = drain[v]
    BY Zenon DEF OneDrain
  <1>3. ASSUME NEW v \in Worker PROVE Holds(drain'[v])
    <2>1. CASE v = w
      BY <1>2, <2>1, Zenon
    <2>2. CASE v # w
      <3>1. drain'[v] = drain[v]
        BY <1>2, <2>2
      <3> QED BY <1>1, <3>1, Zenon
    <2> QED BY <2>1, <2>2, Zenon
  <1> QED
    BY <1>2, <1>3, SameHolds, Zenon

LEMMA DrainThere ==
    ASSUME Clicks!ClickInv, NEW w \in Worker, NEW e \in Clicks!Drain,
           OneDrain(drain, drain', w, e), dlq' = dlq, parked' = parked,
           replaying' = replaying, queue' \in Seq(Clicks!Message), NEW B
    PROVE  /\ There(B) = Here(B) + Occurs(queue', B) - Occurs(queue, B)
                         + Held(e, B) - Held(drain[w], B)
           /\ AsideThere(B) = AsideHere(B) + Occurs(e.failed, B) - Occurs(drain[w].failed, B)
           /\ There(B) \in Nat /\ Here(B) \in Nat /\ Occurs(queue', B) \in Nat
           /\ Occurs(queue, B) \in Nat /\ Held(e, B) \in Nat /\ Held(drain[w], B) \in Nat
           /\ AsideThere(B) \in Nat /\ AsideHere(B) \in Nat
           /\ Occurs(e.failed, B) \in Nat /\ Occurs(drain[w].failed, B) \in Nat
  <1>1. /\ ListsOK(queue, dlq, parked, replaying, drain) /\ drain[w] \in Clicks!Drain
        /\ drain \in [Worker -> Clicks!Drain]
    BY ClickKnown, Zenon
  <1>2. /\ drain' \in [Worker -> Clicks!Drain]
        /\ HeldByAll(drain', B) = HeldByAll(drain, B) + Held(e, B) - Held(drain[w], B)
        /\ FailedOfAll(drain', B)
                 = FailedOfAll(drain, B) + Occurs(e.failed, B) - Occurs(drain[w].failed, B)
    <2>1. drain' \in [Worker -> Clicks!Drain]
      BY Zenon DEF OneDrain
    <2> QED BY <1>1, <2>1, OneDrainChanges
  <1>3. ListsOK(queue', dlq', parked', replaying', drain')
    BY <1>1, <1>2, Zenon DEF ListsOK
  <1>4. /\ Occurs(queue, B) \in Nat /\ Occurs(dlq, B) \in Nat /\ Occurs(parked, B) \in Nat
        /\ ReplayedOf(replaying, B) \in Nat /\ HeldByAll(drain, B) \in Nat
        /\ FailedOfAll(drain, B) \in Nat
        /\ Here(B) \in Nat /\ AsideHere(B) \in Nat
    BY <1>1, WayType, Zenon DEF Here, AsideHere
  <1>5. /\ Occurs(queue', B) \in Nat /\ HeldByAll(drain', B) \in Nat
        /\ FailedOfAll(drain', B) \in Nat
        /\ There(B) \in Nat /\ AsideThere(B) \in Nat
    BY <1>3, WayType, Zenon DEF There, AsideThere
  <1>6. /\ Held(e, B) \in Nat /\ Held(drain[w], B) \in Nat
        /\ Occurs(e.failed, B) \in Nat /\ Occurs(drain[w].failed, B) \in Nat
    BY <1>1, HeldType
  <1> DEFINE q0 == Occurs(queue, B)
             q1 == Occurs(queue', B)
             l == Occurs(dlq, B)
             p == Occurs(parked, B)
             r == ReplayedOf(replaying, B)
             h0 == HeldByAll(drain, B)
             h1 == HeldByAll(drain', B)
             f0 == FailedOfAll(drain, B)
             f1 == FailedOfAll(drain', B)
             a0 == Held(drain[w], B)
             a1 == Held(e, B)
             b0 == Occurs(drain[w].failed, B)
             b1 == Occurs(e.failed, B)
  <1>7. /\ Here(B) = q0 + l + r + h0 /\ AsideHere(B) = l + p + r + f0
        /\ There(B) = q1 + l + r + h1 /\ AsideThere(B) = l + p + r + f1
    BY Zenon DEF Here, There, AsideHere, AsideThere, Way, Aside
  <1>8. /\ q0 \in Nat /\ q1 \in Nat /\ l \in Nat /\ p \in Nat /\ r \in Nat /\ h0 \in Nat
        /\ h1 \in Nat /\ f0 \in Nat /\ f1 \in Nat /\ a0 \in Nat /\ a1 \in Nat
        /\ b0 \in Nat /\ b1 \in Nat
    BY <1>4, <1>5, <1>6, Zenon
  <1>9. h1 = h0 + a1 - a0 /\ f1 = f0 + b1 - b0
    BY <1>2, Zenon
  <1> HIDE DEF q0, q1, l, p, r, h0, h1, f0, f1, a0, a1, b0, b1
  <1>10. /\ There(B) = Here(B) + q1 - q0 + a1 - a0
         /\ AsideThere(B) = AsideHere(B) + b1 - b0
    BY ONLY <1>7, <1>8, <1>9
  <1> QED
    BY <1>4, <1>5, <1>6, <1>10, Zenon DEF q0, q1, a0, a1, b0, b1

\* A drain takes, cuts or sets aside messages, and none is lost.
LEMMA DrainGoesOn ==
    ASSUME Clicks!ClickInv, NEW w \in Worker, NEW e \in Clicks!Drain, Holds(e),
           OneDrain(drain, drain', w, e), queue' \in Seq(Clicks!Message),
           UNCHANGED <<dlq, parked, window, stored, clickCount, replaying, pushed,
                       opened, givenUp, replays>>,
           losses' \in {losses, losses + 1},
           \A B \in SUBSET Clicks!Message :
              Occurs(queue', B) + Held(e, B) = Occurs(queue, B) + Held(drain[w], B),
           Occurs(e.failed, Clicks!GoodOnes) + losses
              <= Occurs(drain[w].failed, Clicks!GoodOnes) + losses'
    PROVE  Clicks!ClickInv'
  <1>1. Clicks!DrainsHold' /\ drain' \in [Worker -> Clicks!Drain]
    BY HoldsStay
  <1>2. losses \in Nat /\ losses' \in Nat /\ losses' >= losses
        /\ opened' = opened /\ opened \in Nat
    BY ClickKnown
  <1>3. Clicks!TypeOK'
    <2>1. /\ dlq' \in Seq(Clicks!Message) /\ parked' \in Seq(Clicks!Message)
          /\ window' \subseteq {visitor} /\ stored' \in [ClickId -> Nat]
          /\ clickCount' \in Nat
          /\ replaying' \in [Replayer -> Clicks!Message \cup {NULL}]
          /\ pushed' \subseteq ClickId /\ opened' \in Nat
          /\ givenUp' \in [ClickId -> Nat] /\ replays' \in Nat
      BY ClickKnown, Zenon
    <2>2. Clicks!TypeOK
      BY ClickKnown, Zenon
    <2> QED BY <1>1, <1>2, <2>1, <2>2, ClickTypesStay, Zenon
  <1>4. dlq' = dlq /\ parked' = parked /\ replaying' = replaying
        /\ pushed' = pushed /\ givenUp' = givenUp /\ stored' = stored
        /\ clickCount' = clickCount
    BY Zenon
  <1>5. ASSUME NEW B \in SUBSET Clicks!Message PROVE There(B) = Here(B)
    <2> DEFINE q0 == Occurs(queue, B)
               q1 == Occurs(queue', B)
               a0 == Held(drain[w], B)
               a1 == Held(e, B)
    <2>1. /\ There(B) = Here(B) + q1 - q0 + a1 - a0
          /\ Here(B) \in Nat /\ q0 \in Nat /\ q1 \in Nat /\ a0 \in Nat /\ a1 \in Nat
      BY <1>4, DrainThere, Zenon
    <2>2. q1 + a1 = q0 + a0
      BY Zenon
    <2> HIDE DEF q0, q1, a0, a1
    <2> QED BY ONLY <2>1, <2>2
  <1>6. AsideThere(Clicks!GoodOnes) - losses' <= AsideHere(Clicks!GoodOnes) - losses
    <2> DEFINE b0 == Occurs(drain[w].failed, Clicks!GoodOnes)
               b1 == Occurs(e.failed, Clicks!GoodOnes)
               x == AsideHere(Clicks!GoodOnes)
               y == AsideThere(Clicks!GoodOnes)
               n == losses
               m == losses'
    <2>1. y = x + b1 - b0 /\ x \in Nat /\ y \in Nat /\ b0 \in Nat /\ b1 \in Nat
      BY <1>4, DrainThere, Zenon
    <2>2. b1 + n <= b0 + m /\ n \in Nat /\ m \in Nat
      BY <1>2
    <2> HIDE DEF b0, b1, x, y, n, m
    <2>3. y - m <= x - n
      BY ONLY <2>1, <2>2
    <2> QED BY <2>3 DEF x, y, n, m
  <1>7. opened' >= opened
    BY <1>2
  <1> QED
    BY <1>1, <1>2, <1>3, <1>4, <1>5, <1>6, <1>7, ClickMoves

-----------------------------------------------------------------------------
(* drainClickEvents. *)

\* What a drain becomes: each step of drainClickEvents changes a few fields.
Flushed(d) == [d EXCEPT !.step = "committing", !.events = <<>>, !.work = <<d.events>>]
Working(d, k) == [d EXCEPT !.work = k]
Failing(d, k, f) == [d EXCEPT !.work = k, !.failed = f]
Burying(d, f) == [d EXCEPT !.failed = f]

Is(e, s, n, t, k, f) ==
    /\ e \in Clicks!Drain
    /\ e.step = s /\ e.pops = n /\ e.events = t /\ e.work = k /\ e.failed = f

LEMMA DrainBecomes ==
    ASSUME NEW d \in Clicks!Drain, NEW k \in Seq(Seq(Clicks!Message)),
           NEW f \in Seq(Clicks!Message)
    PROVE  /\ Is(Flushed(d), "committing", d.pops, <<>>, <<d.events>>, d.failed)
           /\ Is(Working(d, k), d.step, d.pops, d.events, k, d.failed)
           /\ Is(Failing(d, k, f), d.step, d.pops, d.events, k, f)
           /\ Is(Burying(d, f), d.step, d.pops, d.events, d.work, f)
  <1> DEFINE S == Seq(Clicks!Message)
             SS == Seq(Seq(Clicks!Message))
             D == [step : {"idle", "popping", "committing"}, pops : Nat,
                   events : S, work : SS, failed : S]
  <1>1. Clicks!Drain = D
    BY Zenon DEF Clicks!Drain
  <1>2. d \in D /\ k \in SS /\ f \in S
    BY <1>1
  <1>3. <<>> \in S /\ \A x \in S : <<x>> \in SS
    OBVIOUS
  <1> HIDE DEF S, SS
  <1>4. /\ Flushed(d) \in D /\ Flushed(d).step = "committing" /\ Flushed(d).pops = d.pops
        /\ Flushed(d).events = <<>> /\ Flushed(d).work = <<d.events>>
        /\ Flushed(d).failed = d.failed
    BY <1>2, <1>3 DEF Flushed
  <1>5. /\ Working(d, k) \in D /\ Working(d, k).step = d.step
        /\ Working(d, k).pops = d.pops /\ Working(d, k).events = d.events
        /\ Working(d, k).work = k /\ Working(d, k).failed = d.failed
    BY <1>2, <1>3 DEF Working
  <1>6. /\ Failing(d, k, f) \in D /\ Failing(d, k, f).step = d.step
        /\ Failing(d, k, f).pops = d.pops /\ Failing(d, k, f).events = d.events
        /\ Failing(d, k, f).work = k /\ Failing(d, k, f).failed = f
    BY <1>2, <1>3 DEF Failing
  <1>7. /\ Burying(d, f) \in D /\ Burying(d, f).step = d.step
        /\ Burying(d, f).pops = d.pops /\ Burying(d, f).events = d.events
        /\ Burying(d, f).work = d.work /\ Burying(d, f).failed = f
    BY <1>2, <1>3 DEF Burying
  <1> QED BY <1>1, <1>4, <1>5, <1>6, <1>7, Zenon DEF Is

LEMMA HeldOf ==
    ASSUME NEW e, NEW s, NEW n, NEW t, NEW k, NEW f, Is(e, s, n, t, k, f), NEW B
    PROVE  Held(e, B) = Occurs(f, B) + Occurs(t, B) + OccursIn(k, B)
  BY Zenon DEF Is, Held

LEMMA IdleHolds ==
    /\ Clicks!IdleDrain \in Clicks!Drain /\ Holds(Clicks!IdleDrain)
    /\ Clicks!IdleDrain.failed = <<>>
    /\ \A B : Held(Clicks!IdleDrain, B) = 0 /\ Occurs(Clicks!IdleDrain.failed, B) = 0
  <1> DEFINE d == Clicks!IdleDrain
  <1>1. Is(d, "idle", 0, <<>>, <<>>, <<>>)
    BY DEF Clicks!IdleDrain, Is, Clicks!Drain
  <1>2. d.step = "idle" /\ d.pops = 0 /\ d.failed = <<>> /\ d \in Clicks!Drain
    BY <1>1, Zenon DEF Is
  <1>3. d = Clicks!IdleDrain
    OBVIOUS
  <1> HIDE DEF d
  <1>4. \A B : Held(d, B) = Occurs(<<>>, B) + Occurs(<<>>, B) + OccursIn(<<>>, B)
    BY <1>1, HeldOf
  <1>5. \A B : Occurs(<<>>, B) = 0 /\ OccursIn(<<>>, B) = 0
    BY OccursEmpty, OccursInEmpty, Zenon
  <1>6. \A B : Held(d, B) = 0
    BY <1>4, <1>5
  <1>7. Holds(d)
    <2>1. Held(d, Clicks!Message) <= d.pops /\ d.pops <= BatchMax
      BY <1>2, <1>6, ClickParameters
    <2>2. d.step # "popping" /\ d.step # "committing"
      BY <1>2
    <2> QED BY <1>3, <2>1, <2>2, Zenon DEF Holds
  <1>8. \A B : Occurs(d.failed, B) = 0
    BY <1>2, <1>5, Zenon
  <1> QED BY <1>2, <1>3, <1>6, <1>7, <1>8, Zenon

LEMMA OneDrainIs ==
    ASSUME NEW dr \in [Worker -> Clicks!Drain], NEW w \in Worker, NEW e \in Clicks!Drain,
           NEW dn, dn = [dr EXCEPT ![w] = e]
    PROVE  OneDrain(dr, dn, w, e)
  BY DEF OneDrain

LEMMA ClickDrainDone ==
    ASSUME Clicks!ClickInv, NEW w \in Worker, Clicks!DrainDone(w)
    PROVE  Clicks!ClickInv'
  <1> DEFINE d == drain[w]
             e == Clicks!IdleDrain
  <1>1. /\ d.step = "committing" /\ d.work = <<>> /\ d.failed = <<>>
        /\ drain' = [drain EXCEPT ![w] = e] /\ queue' = queue /\ losses' = losses
        /\ UNCHANGED <<dlq, parked, window, stored, clickCount, replaying, pushed,
                       opened, givenUp, replays>>
    BY Zenon DEF Clicks!DrainDone, Clicks!listVars, Clicks!rowVars
  <1>2. /\ d \in Clicks!Drain /\ Holds(d) /\ queue \in Seq(Clicks!Message)
        /\ losses \in Nat /\ drain \in [Worker -> Clicks!Drain]
    BY ClickKnown, Zenon
  <1>3. d.events = <<>>
    BY <1>1, <1>2, Zenon DEF Holds
  <1>4. \A B : Held(d, B) = 0 /\ Occurs(d.failed, B) = 0
    <2>1. \A B : Occurs(<<>>, B) = 0 /\ OccursIn(<<>>, B) = 0
      BY OccursEmpty, OccursInEmpty, Zenon
    <2>2. \A B : Held(d, B) = Occurs(<<>>, B) + Occurs(<<>>, B) + OccursIn(<<>>, B)
      BY <1>1, <1>3, Zenon DEF Held
    <2> QED BY <1>1, <2>1, <2>2
  <1>5. \A B \in SUBSET Clicks!Message :
              Occurs(queue', B) + Held(e, B) = Occurs(queue, B) + Held(drain[w], B)
    BY <1>1, <1>4, IdleHolds, Zenon
  <1>6. Occurs(e.failed, Clicks!GoodOnes) + losses
              <= Occurs(drain[w].failed, Clicks!GoodOnes) + losses'
    <2>1. /\ Occurs(e.failed, Clicks!GoodOnes) = 0
          /\ Occurs(drain[w].failed, Clicks!GoodOnes) = 0
      BY <1>4, IdleHolds, Zenon
    <2> QED BY <1>1, <1>2, <2>1
  <1>7. e \in Clicks!Drain /\ Holds(e) /\ queue' \in Seq(Clicks!Message)
        /\ losses' \in {losses, losses + 1}
    BY <1>1, <1>2, IdleHolds
  <1>8. OneDrain(drain, drain', w, e)
    BY <1>1, <1>2, <1>7, OneDrainIs
  <1> HIDE DEF d, e
  <1> QED BY <1>1, <1>5, <1>6, <1>7, <1>8, DrainGoesOn

\* RPOP takes the last entry.
LEMMA PopTakes ==
    ASSUME NEW s \in Seq(Clicks!Message), s # <<>>
    PROVE  /\ Clicks!Front(s) \in Seq(Clicks!Message) /\ Clicks!Last(s) \in Clicks!Message
           /\ \A B : Occurs(s, B) = Occurs(Clicks!Front(s), B)
                                    + IF Clicks!Last(s) \in B THEN 1 ELSE 0
  <1> DEFINE M == Clicks!Message
             n == Len(s)
             f == SubSeq(s, 1, n - 1)
             l == s[n]
             g == SubSeq(s, n - 1 + 1, n)
  <1>1. s \in Seq(M)
    OBVIOUS
  <1>2. Clicks!Front(s) = f /\ Clicks!Last(s) = l
    BY Zenon DEF Clicks!Front, Clicks!Last
  <1> HIDE DEF M
  <1>3. n \in Nat /\ n # 0
    BY <1>1
  <1>4. l \in M
    <2>1. n \in 1..Len(s)
      BY <1>3
    <2> QED BY <1>1, <2>1, ElementOfSeq, Zenon
  <1>5. g = <<l>>
    <2> DEFINE h == <<l>>
    <2>1. /\ g \in Seq(M) /\ h \in Seq(M) /\ Len(g) = 1 /\ Len(h) = 1 /\ g[1] = h[1]
      BY <1>1, <1>3, <1>4
    <2> HIDE DEF g, h
    <2>2. Len(g) = Len(h) /\ \A i \in 1..Len(g) : g[i] = h[i]
      BY <2>1
    <2>3. g = h
      BY <2>1, <2>2, SeqEqual
    <2> QED BY <2>3 DEF h
  <1>6. n - 1 \in 0..n
    BY <1>3
  <1>7. ASSUME NEW B
        PROVE  f \in Seq(M) /\ Occurs(s, B) = Occurs(f, B) + Occurs(g, B)
    BY <1>1, <1>6, OccursHalves, Zenon
  <1>8. \A B : Occurs(<<l>>, B) = IF l \in B THEN 1 ELSE 0
    <2> HIDE DEF l
    <2> QED BY <1>4, OccursOne, Zenon
  <1> HIDE DEF n, f, l, g
  <1>9. \A B : Occurs(s, B) = Occurs(f, B) + IF l \in B THEN 1 ELSE 0
    BY <1>5, <1>7, <1>8, Zenon
  <1>10. f \in Seq(M)
    BY <1>7, Zenon
  <1> QED
    BY <1>2, <1>4, <1>9, <1>10, Zenon DEF M

\* How the drains go on: the record a drain becomes, and what it then holds.
LEMMA HoldsIf ==
    ASSUME NEW e, NEW s, NEW n, NEW t, NEW k, NEW f, Is(e, s, n, t, k, f),
           s = "popping" => k = <<>>, s = "committing" => t = <<>>, s # "idle",
           Held(e, Clicks!Message) <= n, n <= BatchMax
    PROVE  Holds(e)
  BY Zenon DEF Is, Holds

LEMMA ClickFlush ==
    ASSUME Clicks!ClickInv, NEW w \in Worker, Clicks!Flush(w)
    PROVE  Clicks!ClickInv'
  <1> DEFINE d == drain[w]
             e == IF d.events = <<>> THEN Clicks!IdleDrain ELSE Flushed(d)
  <1>1. /\ d.step = "popping" /\ d.failed = <<>>
        /\ drain' = [drain EXCEPT ![w] = e] /\ queue' = queue /\ losses' = losses
        /\ UNCHANGED <<dlq, parked, window, stored, clickCount, replaying, pushed,
                       opened, givenUp, replays>>
    BY Zenon DEF Clicks!Flush, Clicks!listVars, Clicks!rowVars, Flushed
  <1>2. /\ d \in Clicks!Drain /\ Holds(d) /\ queue \in Seq(Clicks!Message)
        /\ losses \in Nat /\ drain \in [Worker -> Clicks!Drain]
    BY ClickKnown, Zenon
  <1>3. d.work = <<>> /\ Held(d, Clicks!Message) <= d.pops /\ d.pops <= BatchMax
    BY <1>1, <1>2 DEF Holds
  <1>4. d.events \in Seq(Clicks!Message) /\ d.work \in Seq(Seq(Clicks!Message))
        /\ d.failed \in Seq(Clicks!Message) /\ d.pops \in Nat
    BY <1>2, DrainFields, Zenon
  <1>5. \A B : Occurs(<<>>, B) = 0 /\ OccursIn(<<>>, B) = 0
    BY OccursEmpty, OccursInEmpty, Zenon
  <1>6. \A B : Occurs(d.events, B) \in Nat
    BY <1>4, OccursType, Zenon
  <1>7. \A B : Held(d, B) = Occurs(d.events, B)
    <2>1. \A B : Held(d, B) = Occurs(<<>>, B) + Occurs(d.events, B) + OccursIn(<<>>, B)
      BY <1>1, <1>3, Zenon DEF Held
    <2> QED BY <1>5, <1>6, <2>1
  <1> HIDE DEF d
  <1>8. e \in Clicks!Drain /\ Holds(e) /\ e.failed = <<>> /\ \A B : Held(e, B) = Held(d, B)
    <2>1. CASE d.events = <<>>
      <3>1. e = Clicks!IdleDrain
        BY <2>1
      <3>2. \A B : Held(d, B) = 0
        BY <1>5, <1>7, <2>1, Zenon
      <3> HIDE DEF e
      <3> QED BY <3>1, <3>2, IdleHolds, Zenon
    <2>2. CASE d.events # <<>>
      <3>1. e = Flushed(d)
        BY <2>2
      <3> HIDE DEF e
      <3>2. Is(e, "committing", d.pops, <<>>, <<d.events>>, d.failed)
        BY <1>2, <1>4, <3>1, DrainBecomes, Zenon
      <3>3. \A B : Held(e, B) = Occurs(d.failed, B) + Occurs(<<>>, B) + OccursIn(<<d.events>>, B)
        BY <3>2, HeldOf
      <3>4. \A B : OccursIn(<<d.events>>, B) = Occurs(d.events, B)
        BY <1>4, OccursInOne, Zenon
      <3>5. \A B : Held(e, B) = Held(d, B)
        BY <1>1, <1>5, <1>6, <1>7, <3>3, <3>4
      <3>6. Held(e, Clicks!Message) <= d.pops
        BY <1>3, <3>5
      <3>7. Holds(e)
        BY <1>3, <3>2, <3>6, HoldsIf
      <3>8. e \in Clicks!Drain /\ e.failed = <<>>
        BY <1>1, <3>2, Zenon DEF Is
      <3> QED BY <3>5, <3>7, <3>8, Zenon
    <2> QED BY <2>1, <2>2, Zenon
  <1> HIDE DEF e
  <1>9. \A B \in SUBSET Clicks!Message :
              Occurs(queue', B) + Held(e, B) = Occurs(queue, B) + Held(drain[w], B)
    BY <1>1, <1>8, Zenon DEF d
  <1>10. Occurs(e.failed, Clicks!GoodOnes) + losses
              <= Occurs(drain[w].failed, Clicks!GoodOnes) + losses'
    <2>1. /\ Occurs(e.failed, Clicks!GoodOnes) = 0
          /\ Occurs(drain[w].failed, Clicks!GoodOnes) = 0
      BY <1>1, <1>5, <1>8, Zenon DEF d
    <2> QED BY <1>1, <1>2, <2>1
  <1>11. queue' \in Seq(Clicks!Message) /\ losses' \in {losses, losses + 1}
    BY <1>1, <1>2
  <1>12. OneDrain(drain, drain', w, e)
    BY <1>1, <1>2, <1>8, OneDrainIs
  <1> QED BY <1>1, <1>8, <1>9, <1>10, <1>11, <1>12, DrainGoesOn

LEMMA SingleSlice ==
    ASSUME NEW S, NEW s \in Seq(S), Len(s) = 1
    PROVE  s[1] \in S /\ s = <<s[1]>>
  <1>1. s[1] \in S
    <2>1. 1 \in 1..Len(s)
      OBVIOUS
    <2> QED BY <2>1, ElementOfSeq, Zenon
  <1> DEFINE h == <<s[1]>>
  <1>2. /\ h \in Seq(S) /\ Len(h) = 1 /\ h[1] = s[1]
    BY <1>1
  <1> HIDE DEF h
  <1>3. Len(s) = Len(h) /\ \A i \in 1..Len(s) : s[i] = h[i]
    BY <1>2
  <1>4. s = h
    BY <1>2, <1>3, SeqEqual
  <1> QED BY <1>1, <1>4 DEF h

\* What a drain in the middle of its batch holds.
LEMMA CommittingHolds ==
    ASSUME NEW d \in Clicks!Drain, Holds(d), d.step = "committing"
    PROVE  /\ d.events = <<>> /\ d.failed \in Seq(Clicks!Message)
           /\ d.work \in Seq(Seq(Clicks!Message)) /\ d.pops \in Nat /\ d.pops <= BatchMax
           /\ Held(d, Clicks!Message) <= d.pops
           /\ \A B : /\ Held(d, B) = Occurs(d.failed, B) + OccursIn(d.work, B)
                     /\ Occurs(d.failed, B) \in Nat /\ OccursIn(d.work, B) \in Nat
  <1>1. d.events = <<>> /\ Held(d, Clicks!Message) <= d.pops /\ d.pops <= BatchMax
    BY Zenon DEF Holds
  <1>2. /\ d.failed \in Seq(Clicks!Message) /\ d.work \in Seq(Seq(Clicks!Message))
        /\ d.pops \in Nat
    BY DrainFields, Zenon
  <1>3. \A B : /\ Occurs(d.failed, B) \in Nat /\ OccursIn(d.work, B) \in Nat
               /\ Occurs(<<>>, B) = 0
    BY HeldType, OccursEmpty, Zenon
  <1>4. \A B : Held(d, B) = Occurs(d.failed, B) + Occurs(<<>>, B) + OccursIn(d.work, B)
    BY <1>1, Zenon DEF Held
  <1>5. \A B : Held(d, B) = Occurs(d.failed, B) + OccursIn(d.work, B)
    BY <1>3, <1>4
  <1> QED BY <1>1, <1>2, <1>3, <1>5, Zenon

LEMMA CommittingBecomes ==
    ASSUME NEW d \in Clicks!Drain, Holds(d), d.step = "committing",
           NEW e, NEW k \in Seq(Seq(Clicks!Message)), NEW f \in Seq(Clicks!Message),
           Is(e, d.step, d.pops, d.events, k, f)
    PROVE  /\ \A B : Held(e, B) = Occurs(f, B) + OccursIn(k, B)
           /\ e \in Clicks!Drain /\ e.failed = f
           /\ Held(e, Clicks!Message) <= Held(d, Clicks!Message) => Holds(e)
  <1>1. d.events = <<>> /\ Held(d, Clicks!Message) <= d.pops /\ d.pops <= BatchMax
        /\ d.pops \in Nat /\ BatchMax \in Nat
    BY CommittingHolds, ClickParameters
  <1>2. \A B : Held(e, B) = Occurs(f, B) + Occurs(<<>>, B) + OccursIn(k, B)
    <2>1. \A B : Held(e, B) = Occurs(f, B) + Occurs(d.events, B) + OccursIn(k, B)
      BY HeldOf
    <2> QED BY <1>1, <2>1, Zenon
  <1>3. \A B : Occurs(f, B) \in Nat /\ OccursIn(k, B) \in Nat /\ Occurs(<<>>, B) = 0
    BY OccursType, OccursInType, OccursEmpty, Zenon
  <1>4. \A B : Held(e, B) = Occurs(f, B) + OccursIn(k, B)
    BY <1>2, <1>3
  <1>5. e \in Clicks!Drain /\ e.failed = f
    BY Zenon DEF Is
  <1>6. ASSUME Held(e, Clicks!Message) <= Held(d, Clicks!Message) PROVE Holds(e)
    <2> DEFINE x == Held(e, Clicks!Message)
               y == Held(d, Clicks!Message)
               n == d.pops
    <2>1. x \in Nat /\ y \in Nat
      BY <1>5, HeldType
    <2>2. x <= y /\ y <= n /\ n \in Nat
      BY <1>1, <1>6
    <2>3. Is(e, "committing", n, <<>>, k, f)
      BY <1>1, Zenon
    <2> HIDE DEF x, y, n
    <2>4. x <= n
      BY <2>1, <2>2
    <2>5. n <= BatchMax
      BY <1>1 DEF n
    <2> QED BY <2>3, <2>4, <2>5, HoldsIf DEF x
  <1> QED BY <1>4, <1>5, <1>6, Zenon

LEMMA ClickHalves ==
    ASSUME NEW d \in Clicks!Drain, Holds(d), d.step = "committing", d.work # <<>>,
           Len(Head(d.work)) # 1
    PROVE  /\ Clicks!Bisect(d) \in Clicks!Drain /\ Holds(Clicks!Bisect(d))
           /\ Clicks!Bisect(d).failed = d.failed
           /\ \A B : Held(Clicks!Bisect(d), B) = Held(d, B)
  <1> DEFINE s == Head(d.work)
             half == Len(s) \div 2
             k == <<SubSeq(s, 1, half), SubSeq(s, half + 1, Len(s))>> \o Tail(d.work)
             e == Working(d, k)
             M == Clicks!Message
             v == d.work
  <1>1. Clicks!Bisect(d) = e
    BY Zenon DEF Clicks!Bisect, Clicks!Halves, Working
  <1>2. v \in Seq(Seq(M)) /\ v # <<>> /\ d.failed \in Seq(M)
    BY CommittingHolds, Zenon
  <1>3. half \in 0..Len(s)
    <2> DEFINE n == Len(s)
    <2>1. s \in Seq(M)
      <3> HIDE DEF M
      <3> QED BY <1>2
    <2>2. n \in Nat
      <3> HIDE DEF s, M
      <3> QED BY <2>1
    <2> HIDE DEF n, s
    <2>3. n \div 2 \in 0..n
      BY <2>2
    <2> QED BY <2>3 DEF n
  <1>4. k \in Seq(Seq(M)) /\ \A B : OccursIn(k, B) = OccursIn(v, B)
    <2>1. ASSUME NEW B PROVE k \in Seq(Seq(M)) /\ OccursIn(k, B) = OccursIn(v, B)
      <3> HIDE DEF half, M
      <3> QED BY <1>2, <1>3, OccursInHalves, Zenon
    <2> QED BY <2>1
  <1> HIDE DEF k
  <1>5. Is(e, d.step, d.pops, d.events, k, d.failed)
    BY <1>2, <1>4, DrainBecomes, Zenon
  <1> HIDE DEF e
  <1>6. /\ \A B : Held(e, B) = Occurs(d.failed, B) + OccursIn(k, B)
        /\ e \in Clicks!Drain /\ e.failed = d.failed
        /\ Held(e, Clicks!Message) <= Held(d, Clicks!Message) => Holds(e)
    BY <1>2, <1>4, <1>5, CommittingBecomes
  <1>7. \A B : Held(d, B) = Occurs(d.failed, B) + OccursIn(v, B) /\ Held(d, B) \in Nat
    BY CommittingHolds, HeldType, Zenon
  <1>8. \A B : Held(e, B) = Held(d, B)
    BY <1>4, <1>6, <1>7, Zenon
  <1>9. Held(e, Clicks!Message) <= Held(d, Clicks!Message)
    BY <1>7, <1>8
  <1> QED BY <1>1, <1>6, <1>8, <1>9, Zenon

LEMMA ClickSetsAside ==
    ASSUME NEW d \in Clicks!Drain, Holds(d), d.step = "committing", d.work # <<>>,
           Len(Head(d.work)) = 1
    PROVE  /\ Clicks!Bisect(d) \in Clicks!Drain /\ Holds(Clicks!Bisect(d))
           /\ Head(d.work)[1] \in Clicks!Message /\ Head(d.work) = <<Head(d.work)[1]>>
           /\ \A B : /\ Held(Clicks!Bisect(d), B) = Held(d, B)
                     /\ Occurs(Clicks!Bisect(d).failed, B)
                           = Occurs(d.failed, B) + IF Head(d.work)[1] \in B THEN 1 ELSE 0
  <1> DEFINE s == Head(d.work)
             x == s[1]
             k == Tail(d.work)
             f == Append(d.failed, x)
             e == Failing(d, k, f)
             M == Clicks!Message
             v == d.work
  <1>1. Clicks!Bisect(d) = e
    BY Zenon DEF Clicks!Bisect, Failing
  <1>2. v \in Seq(Seq(M)) /\ v # <<>> /\ d.failed \in Seq(M)
    BY CommittingHolds, Zenon
  <1>3. s \in Seq(M) /\ k \in Seq(Seq(M))
    <2> HIDE DEF M
    <2> QED BY <1>2
  <1>4. x \in M /\ s = <<x>>
    <2>1. Len(s) = 1
      OBVIOUS
    <2> HIDE DEF s, M
    <2> QED BY <1>3, <2>1, SingleSlice
  <1>5. \A B : OccursIn(v, B) = Occurs(s, B) + OccursIn(k, B)
    <2> HIDE DEF M
    <2> QED BY <1>2, OccursInTail, Zenon
  <1>6. \A B : Occurs(s, B) = IF x \in B THEN 1 ELSE 0
    <2>1. \A B : Occurs(<<x>>, B) = IF x \in B THEN 1 ELSE 0
      <3> HIDE DEF x, M
      <3> QED BY <1>4, OccursOne, Zenon
    <2> HIDE DEF x, s
    <2> QED BY <1>4, <2>1, Zenon
  <1> HIDE DEF x, k
  <1>7. f \in Seq(M)
    BY <1>2, <1>4
  <1>8. \A B : Occurs(f, B) = Occurs(d.failed, B) + IF x \in B THEN 1 ELSE 0
    <2> HIDE DEF M
    <2> QED BY <1>2, <1>4, OccursAppend, Zenon
  <1> HIDE DEF f
  <1>9. Is(e, d.step, d.pops, d.events, k, f)
    BY <1>3, <1>7, DrainBecomes, Zenon
  <1> HIDE DEF e
  <1>10. /\ \A B : Held(e, B) = Occurs(f, B) + OccursIn(k, B)
         /\ e \in Clicks!Drain /\ e.failed = f
         /\ Held(e, Clicks!Message) <= Held(d, Clicks!Message) => Holds(e)
    BY <1>3, <1>7, <1>9, CommittingBecomes
  <1>11. \A B : /\ Held(d, B) = Occurs(d.failed, B) + OccursIn(v, B) /\ Held(d, B) \in Nat
                /\ Occurs(d.failed, B) \in Nat
    BY CommittingHolds, HeldType, Zenon
  <1>12. \A B : OccursIn(k, B) \in Nat
    BY <1>3, OccursInType, Zenon
  <1>13. \A B : Held(e, B) = Held(d, B)
    <2> TAKE B
    <2>1. /\ Held(e, B) = Occurs(f, B) + OccursIn(k, B)
          /\ Held(d, B) = Occurs(d.failed, B) + OccursIn(v, B)
          /\ OccursIn(v, B) = Occurs(s, B) + OccursIn(k, B)
          /\ Occurs(s, B) = (IF x \in B THEN 1 ELSE 0)
          /\ Occurs(f, B) = Occurs(d.failed, B) + IF x \in B THEN 1 ELSE 0
      BY <1>5, <1>6, <1>8, <1>10, <1>11, Zenon
    <2>2. OccursIn(k, B) \in Nat /\ Occurs(d.failed, B) \in Nat
      BY <1>11, <1>12, Zenon
    <2> QED BY <2>1, <2>2
  <1>14. Held(e, Clicks!Message) <= Held(d, Clicks!Message)
    BY <1>11, <1>13
  <1>15. e.failed = f /\ e \in Clicks!Drain /\ Holds(e)
    BY <1>10, <1>14, Zenon
  <1> QED BY <1>1, <1>4, <1>8, <1>13, <1>15, Zenon DEF x, s

LEMMA ClickCommitFails ==
    ASSUME Clicks!ClickInv, NEW w \in Worker, Clicks!CommitFails(w)
    PROVE  Clicks!ClickInv'
  <1> DEFINE d == drain[w]
             s == Head(d.work)
             e == Clicks!Bisect(d)
             G == Clicks!GoodOnes
  <1>1. /\ d.step = "committing" /\ d.work # <<>>
        /\ drain' = [drain EXCEPT ![w] = e] /\ queue' = queue
        /\ \/ (\E i \in DOMAIN s : s[i].click \in Orphan) /\ losses' = losses
           \/ losses' = losses + 1
        /\ UNCHANGED <<dlq, parked, window, stored, clickCount, replaying, pushed,
                       opened, givenUp, replays>>
    BY Zenon DEF Clicks!CommitFails, Clicks!listVars, Clicks!rowVars
  <1>2. /\ d \in Clicks!Drain /\ Holds(d) /\ queue \in Seq(Clicks!Message)
        /\ losses \in Nat /\ drain \in [Worker -> Clicks!Drain]
    BY ClickKnown, Zenon
  <1> HIDE DEF d, e
  <1>3. /\ e \in Clicks!Drain /\ Holds(e)
        /\ \A B : Held(e, B) = Held(d, B)
        /\ Occurs(e.failed, G) + losses <= Occurs(d.failed, G) + losses'
    <2>1. Occurs(d.failed, G) \in Nat
      BY <1>2, HeldType, Zenon
    <2>2. CASE Len(s) # 1
      <3>1. /\ e \in Clicks!Drain /\ Holds(e) /\ e.failed = d.failed
            /\ \A B : Held(e, B) = Held(d, B)
        BY <1>1, <1>2, <2>2, ClickHalves, Zenon DEF e
      <3>2. losses <= losses'
        BY <1>1, <1>2
      <3>3. Occurs(e.failed, G) = Occurs(d.failed, G)
        BY <3>1, Zenon
      <3>4. Occurs(e.failed, G) + losses <= Occurs(d.failed, G) + losses'
        BY <1>1, <1>2, <2>1, <3>2, <3>3
      <3> QED BY <3>1, <3>4, Zenon
    <2>3. CASE Len(s) = 1
      <3> DEFINE x == s[1]
      <3>1. /\ e \in Clicks!Drain /\ Holds(e) /\ s = <<x>>
            /\ \A B : /\ Held(e, B) = Held(d, B)
                      /\ Occurs(e.failed, B) = Occurs(d.failed, B) + IF x \in B THEN 1 ELSE 0
        BY <1>1, <1>2, <2>3, ClickSetsAside, Zenon DEF e
      <3>2. losses' = losses => x \notin G
        <4> SUFFICES ASSUME losses' = losses PROVE x \notin G
          OBVIOUS
        <4>1. \E i \in DOMAIN s : s[i].click \in Orphan
          BY <1>1, <1>2
        <4>2. DOMAIN s = {1}
          <5> HIDE DEF s, x
          <5> QED BY <3>1
        <4>3. x.click \in Orphan
          BY <4>1, <4>2
        <4> HIDE DEF x
        <4> QED BY <4>3 DEF Clicks!GoodOnes, Clicks!Good
      <3> DEFINE a == Occurs(e.failed, G)
                 b == Occurs(d.failed, G)
      <3>3. a = b + IF x \in G THEN 1 ELSE 0
        BY <3>1, Zenon
      <3>4. b \in Nat /\ (losses' = losses \/ losses' = losses + 1) /\ losses \in Nat
        BY <1>1, <1>2, <2>1
      <3> HIDE DEF a, b, x, G
      <3>5. a + losses <= b + losses'
        BY <3>2, <3>3, <3>4
      <3> QED BY <3>1, <3>5, Zenon DEF a, b
    <2> QED BY <2>2, <2>3, Zenon
  <1>4. \A B \in SUBSET Clicks!Message :
              Occurs(queue', B) + Held(e, B) = Occurs(queue, B) + Held(drain[w], B)
    BY <1>1, <1>3, Zenon DEF d
  <1>5. Occurs(e.failed, Clicks!GoodOnes) + losses
              <= Occurs(drain[w].failed, Clicks!GoodOnes) + losses'
    BY <1>3, Zenon DEF d
  <1>6. queue' \in Seq(Clicks!Message) /\ losses' \in {losses, losses + 1}
    BY <1>1, <1>2
  <1>7. OneDrain(drain, drain', w, e)
    BY <1>1, <1>2, <1>3, OneDrainIs
  <1>8. e \in Clicks!Drain /\ Holds(e)
    BY <1>3
  <1> QED BY <1>1, <1>4, <1>5, <1>6, <1>7, <1>8, DrainGoesOn

\* The batch a drain collects.
LEMMA PoppingHolds ==
    ASSUME NEW d \in Clicks!Drain, Holds(d), d.step \in {"idle", "popping"},
           d.failed = <<>>, d.pops < BatchMax,
           NEW t \in Seq(Clicks!Message), NEW f \in Seq(Clicks!Message), NEW e,
           e = [step |-> "popping", pops |-> d.pops + 1, events |-> t, work |-> <<>>,
                failed |-> f],
           Occurs(f, Clicks!Message) + Occurs(t, Clicks!Message)
              <= Occurs(d.events, Clicks!Message) + 1
    PROVE  /\ e \in Clicks!Drain /\ Holds(e) /\ e.failed = f
           /\ \A B : Held(e, B) = Occurs(f, B) + Occurs(t, B)
           /\ \A B : Held(d, B) = Occurs(d.events, B)
  <1>1. d.pops \in Nat /\ BatchMax \in Nat /\ d.events \in Seq(Clicks!Message)
    BY DrainFields, ClickParameters
  <1>2. d.work = <<>>
    <2>1. d.step = "idle" => d = Clicks!IdleDrain
      BY Zenon DEF Holds
    <2>2. Clicks!IdleDrain.work = <<>>
      BY DEF Clicks!IdleDrain
    <2>3. d.step = "popping" => d.work = <<>>
      BY Zenon DEF Holds
    <2> QED BY <2>1, <2>2, <2>3
  <1>3. \A B : /\ Occurs(<<>>, B) = 0 /\ OccursIn(<<>>, B) = 0
               /\ Occurs(f, B) \in Nat /\ Occurs(t, B) \in Nat
               /\ Occurs(d.events, B) \in Nat
    BY <1>1, OccursEmpty, OccursInEmpty, OccursType, Zenon
  <1>4. \A B : Held(d, B) = Occurs(d.events, B)
    <2>1. \A B : Held(d, B) = Occurs(<<>>, B) + Occurs(d.events, B) + OccursIn(<<>>, B)
      BY <1>2, Zenon DEF Held
    <2> QED BY <1>3, <2>1
  <1> DEFINE n == d.pops + 1
  <1>5. Is(e, "popping", n, t, <<>>, f)
    <2> DEFINE S == Seq(Clicks!Message)
               SS == Seq(Seq(Clicks!Message))
               D == [step : {"idle", "popping", "committing"}, pops : Nat,
                     events : S, work : SS, failed : S]
    <2>1. Clicks!Drain = D
      BY Zenon DEF Clicks!Drain
    <2>2. n \in Nat /\ t \in S /\ f \in S /\ <<>> \in SS
      BY <1>1
    <2> HIDE DEF n, S, SS
    <2>3. e = [step |-> "popping", pops |-> n, events |-> t, work |-> <<>>, failed |-> f]
      BY Zenon DEF n
    <2>4. /\ e \in D /\ e.step = "popping" /\ e.pops = n /\ e.events = t
          /\ e.work = <<>> /\ e.failed = f
      BY <2>2, <2>3
    <2> QED BY <2>1, <2>4, Zenon DEF Is
  <1>6. n <= BatchMax /\ n \in Nat
    BY <1>1
  <1>7. Held(d, Clicks!Message) <= d.pops
    BY Zenon DEF Holds
  <1>8. \A B : Held(e, B) = Occurs(f, B) + Occurs(t, B)
    <2>1. \A B : Held(e, B) = Occurs(f, B) + Occurs(t, B) + OccursIn(<<>>, B)
      <3> HIDE DEF n
      <3> QED BY <1>5, HeldOf
    <2> QED BY <1>3, <2>1
  <1>9. Held(e, Clicks!Message) <= n
    <2> DEFINE x == Held(e, Clicks!Message)
               y == Occurs(d.events, Clicks!Message)
               z == d.pops
    <2>1. x <= y + 1 /\ y <= z /\ z \in Nat /\ y \in Nat
      BY <1>1, <1>3, <1>4, <1>7, <1>8
    <2>2. x \in Nat
      BY <1>3, <1>8
    <2> HIDE DEF x, y, z
    <2>3. x <= z + 1
      BY <2>1, <2>2
    <2> QED BY <2>3 DEF x, z
  <1>10. Holds(e)
    <2> HIDE DEF n
    <2> QED BY <1>5, <1>6, <1>9, HoldsIf
  <1>11. e \in Clicks!Drain /\ e.failed = f
    <2> HIDE DEF n
    <2> QED BY <1>5, Zenon DEF Is
  <1> QED BY <1>4, <1>8, <1>10, <1>11, Zenon

LEMMA OfType ==
    /\ \A c \in ClickId : Clicks!Of(c) \in SUBSET Clicks!Message
    /\ Clicks!Countable \in SUBSET Clicks!Message
    /\ Clicks!GoodOnes \in SUBSET Clicks!Message
    /\ \A m \in Clicks!Message : /\ m.click \in ClickId
                                 /\ \A c : m \in Clicks!Of(c) <=> m.click = c
                                 /\ m \in Clicks!Countable <=> m.counted
  <1>1. \A c \in ClickId : Clicks!Of(c) \in SUBSET Clicks!Message
    BY DEF Clicks!Of, Clicks!Message
  <1>2. Clicks!Countable \in SUBSET Clicks!Message
    BY DEF Clicks!Countable, Clicks!Message
  <1>3. Clicks!GoodOnes \in SUBSET Clicks!Message
    BY DEF Clicks!GoodOnes, Clicks!Good, Clicks!Message
  <1>4. ASSUME NEW m \in Clicks!Message
        PROVE  /\ m.click \in ClickId
               /\ \A c : m \in Clicks!Of(c) <=> m.click = c
               /\ m \in Clicks!Countable <=> m.counted
    <2>1. m = [click |-> m.click, counted |-> m.counted, attempts |-> m.attempts]
          /\ m.click \in ClickId /\ m.counted \in BOOLEAN /\ m.attempts \in Nat
      BY DEF Clicks!Message
    <2>2. \A c : m \in Clicks!Of(c) <=> m.click = c
      BY <2>1 DEF Clicks!Of
    <2>3. m \in Clicks!Countable <=> m.counted
      BY <2>1 DEF Clicks!Countable
    <2> QED BY <2>1, <2>2, <2>3, Zenon
  <1> QED BY <1>1, <1>2, <1>3, <1>4, Zenon

\* A drain stores what it held, or drops what is not JSON.
LEMMA DrainStores ==
    ASSUME Clicks!ClickInv, NEW w \in Worker, NEW e \in Clicks!Drain, Holds(e),
           OneDrain(drain, drain', w, e), queue' \in Seq(Clicks!Message),
           UNCHANGED <<dlq, parked, window, replaying, pushed, opened, givenUp, losses,
                       replays>>,
           stored' \in [ClickId -> Nat], clickCount' \in Nat,
           \A B \in SUBSET Clicks!Message :
              Occurs(queue', B) + Held(e, B) <= Occurs(queue, B) + Held(drain[w], B),
           \A c \in ClickId :
              stored'[c] + (Occurs(queue', Clicks!Of(c)) + Held(e, Clicks!Of(c)))
                <= stored[c] + (Occurs(queue, Clicks!Of(c)) + Held(drain[w], Clicks!Of(c))),
           \A c \in ClickId \ Malformed :
              stored'[c] + (Occurs(queue', Clicks!Of(c)) + Held(e, Clicks!Of(c)))
                = stored[c] + (Occurs(queue, Clicks!Of(c)) + Held(drain[w], Clicks!Of(c))),
           clickCount' + (Occurs(queue', Clicks!Countable) + Held(e, Clicks!Countable))
             <= clickCount + (Occurs(queue, Clicks!Countable)
                              + Held(drain[w], Clicks!Countable)),
           Occurs(e.failed, Clicks!GoodOnes) <= Occurs(drain[w].failed, Clicks!GoodOnes)
    PROVE  Clicks!ClickInv'
  <1>1. Clicks!DrainsHold' /\ drain' \in [Worker -> Clicks!Drain]
    BY HoldsStay
  <1>2. /\ losses \in Nat /\ losses' = losses /\ opened' = opened /\ opened \in Nat
        /\ clickCount \in Nat /\ clickCount' \in Nat
    BY ClickKnown
  <1>3. Clicks!TypeOK'
    <2>1. /\ dlq' \in Seq(Clicks!Message) /\ parked' \in Seq(Clicks!Message)
          /\ window' \subseteq {visitor} /\ losses' \in Nat
          /\ replaying' \in [Replayer -> Clicks!Message \cup {NULL}]
          /\ pushed' \subseteq ClickId /\ opened' \in Nat
          /\ givenUp' \in [ClickId -> Nat] /\ replays' \in Nat
      BY ClickKnown, Zenon
    <2>2. Clicks!TypeOK
      BY ClickKnown, Zenon
    <2> QED BY <1>1, <2>1, <2>2, ClickTypesStay, Zenon
  <1>4. dlq' = dlq /\ parked' = parked /\ replaying' = replaying
        /\ pushed' = pushed /\ givenUp' = givenUp
    BY Zenon
  <1>5. \A B : /\ There(B) = Here(B) + Occurs(queue', B) - Occurs(queue, B)
                             + Held(e, B) - Held(drain[w], B)
               /\ AsideThere(B) = AsideHere(B) + Occurs(e.failed, B)
                                  - Occurs(drain[w].failed, B)
               /\ There(B) \in Nat /\ Here(B) \in Nat /\ Occurs(queue', B) \in Nat
               /\ Occurs(queue, B) \in Nat /\ Held(e, B) \in Nat
               /\ Held(drain[w], B) \in Nat
               /\ AsideThere(B) \in Nat /\ AsideHere(B) \in Nat
               /\ Occurs(e.failed, B) \in Nat /\ Occurs(drain[w].failed, B) \in Nat
    BY <1>4, DrainThere, Zenon
  <1>6. \A B : Occurs(parked, B) \in Nat
    BY ClickKnown, OccursType, Zenon
  <1>7. ASSUME NEW B \in SUBSET Clicks!Message
        PROVE  There(B) <= Here(B) /\ Occurs(parked', B) <= Occurs(parked, B)
    <2> DEFINE q0 == Occurs(queue, B)
               q1 == Occurs(queue', B)
               a0 == Held(drain[w], B)
               a1 == Held(e, B)
               x == There(B)
               y == Here(B)
    <2>1. /\ x = y + q1 - q0 + a1 - a0 /\ x \in Nat
          /\ y \in Nat /\ q0 \in Nat /\ q1 \in Nat /\ a0 \in Nat /\ a1 \in Nat
      BY <1>5, Zenon
    <2>2. q1 + a1 <= q0 + a0
      BY Zenon
    <2>3. Occurs(parked', B) = Occurs(parked, B) /\ Occurs(parked, B) \in Nat
      BY <1>4, <1>6, Zenon
    <2> HIDE DEF q0, q1, a0, a1, x, y
    <2>4. x <= y
      BY ONLY <2>1, <2>2
    <2>5. Occurs(parked', B) <= Occurs(parked, B)
      BY <2>3
    <2> QED BY <2>4, <2>5, Zenon DEF x, y
  <1>8. ASSUME NEW c \in ClickId
        PROVE  /\ Clicks!Copies(c)' <= Clicks!Copies(c)
               /\ c \notin Malformed => Clicks!Copies(c)' = Clicks!Copies(c)
    <2> DEFINE B == Clicks!Of(c)
               q0 == Occurs(queue, B)
               q1 == Occurs(queue', B)
               a0 == Held(drain[w], B)
               a1 == Held(e, B)
               x == There(B)
               y == Here(B)
               p == Occurs(parked, B)
               n == stored[c]
               m == stored'[c]
    <2>1. /\ x = y + q1 - q0 + a1 - a0 /\ x \in Nat
          /\ y \in Nat /\ q0 \in Nat /\ q1 \in Nat /\ a0 \in Nat /\ a1 \in Nat
      BY <1>5, Zenon
    <2>2. p \in Nat /\ n \in Nat /\ m \in Nat
      <3>1. stored \in [ClickId -> Nat]
        BY ClickKnown, Zenon
      <3> QED BY <1>6, <3>1
    <2>3. /\ m + (q1 + a1) <= n + (q0 + a0)
          /\ c \notin Malformed => m + (q1 + a1) = n + (q0 + a0)
      OBVIOUS
    <2>4. Clicks!Copies(c) = n + (y + p) /\ Clicks!Copies(c)' = m + (x + p)
      <3>1. Clicks!Copies(c)' = m + (x + Occurs(parked', B))
        BY ClickCopies, Zenon
      <3>2. Occurs(parked', B) = p
        BY <1>4, Zenon
      <3>3. Clicks!Copies(c) = n + (y + p)
        BY ClickCopies, Zenon
      <3> QED BY <3>1, <3>2, <3>3, Zenon
    <2> HIDE DEF B, q0, q1, a0, a1, x, y, p, n, m
    <2> DEFINE u == Clicks!Copies(c)
               v == Clicks!Copies(c)'
    <2>5. u = n + (y + p) /\ v = m + (x + p)
      BY <2>4
    <2> DEFINE f == c \notin Malformed
    <2>6. m + (q1 + a1) <= n + (q0 + a0) /\ (f => m + (q1 + a1) = n + (q0 + a0))
      BY <2>3
    <2> HIDE DEF u, v, f
    <2>7. v <= u
      BY ONLY <2>1, <2>2, <2>5, <2>6
    <2>8. f => v = u
      <3> SUFFICES ASSUME f PROVE v = u
        OBVIOUS
      <3>1. m + (q1 + a1) = n + (q0 + a0)
        BY <2>6
      <3> QED BY ONLY <2>1, <2>2, <2>5, <3>1
    <2> QED BY <2>7, <2>8, Zenon DEF u, v, f
  <1>9. clickCount' + (There(Clicks!Countable) + Occurs(parked', Clicks!Countable))
             <= clickCount + (Here(Clicks!Countable) + Occurs(parked, Clicks!Countable))
    <2> DEFINE B == Clicks!Countable
               q0 == Occurs(queue, B)
               q1 == Occurs(queue', B)
               a0 == Held(drain[w], B)
               a1 == Held(e, B)
               x == There(B)
               y == Here(B)
               p == Occurs(parked, B)
               n == clickCount
               m == clickCount'
    <2>1. /\ x = y + q1 - q0 + a1 - a0 /\ x \in Nat
          /\ y \in Nat /\ q0 \in Nat /\ q1 \in Nat /\ a0 \in Nat /\ a1 \in Nat
      BY <1>5, Zenon
    <2>2. p \in Nat /\ n \in Nat /\ m \in Nat
      BY <1>2, <1>6
    <2>3. m + (q1 + a1) <= n + (q0 + a0)
      BY Zenon
    <2>4. Occurs(parked', B) = p
      BY <1>4, Zenon
    <2> HIDE DEF q0, q1, a0, a1, x, y, p, n, m, B
    <2>5. m + (x + p) <= n + (y + p)
      BY ONLY <2>1, <2>2, <2>3
    <2> QED BY <2>4, <2>5, Zenon DEF x, y, p, n, m, B
  <1>10. AsideThere(Clicks!GoodOnes) - losses' <= AsideHere(Clicks!GoodOnes) - losses
    <2> DEFINE b0 == Occurs(drain[w].failed, Clicks!GoodOnes)
               b1 == Occurs(e.failed, Clicks!GoodOnes)
               x == AsideHere(Clicks!GoodOnes)
               y == AsideThere(Clicks!GoodOnes)
               n == losses
    <2>1. y = x + b1 - b0 /\ x \in Nat /\ y \in Nat /\ b0 \in Nat /\ b1 \in Nat
      BY <1>5, Zenon
    <2>2. b1 <= b0 /\ n \in Nat /\ losses' = n
      BY <1>2
    <2> HIDE DEF b0, b1, x, y, n
    <2>3. y - n <= x - n
      BY ONLY <2>1, <2>2
    <2> QED BY <2>2, <2>3 DEF x, y, n
  <1>11. losses' >= losses /\ opened' >= opened
    BY <1>2
  <1>12. \A c \in ClickId : Clicks!Copies(c)' <= Clicks!Copies(c)
    BY <1>8, Zenon
  <1>13. \A c \in ClickId \ Malformed : Clicks!Copies(c)' = Clicks!Copies(c)
    BY <1>8
  <1> QED
    BY <1>1, <1>3, <1>4, <1>7, <1>9, <1>10, <1>11, <1>12, <1>13, ClickKeeps

LEMMA RowsAre ==
    ASSUME NEW s \in Seq(Clicks!Message)
    PROVE  /\ \A c \in ClickId : Clicks!Rows(s, c) = Occurs(s, Clicks!Of(c))
           /\ Clicks!Counted(s) = Occurs(s, Clicks!Countable)
  <1>1. \A i \in DOMAIN s : s[i] \in Clicks!Message
    BY ElementOfSeq
  <1>2. ASSUME NEW c \in ClickId PROVE Clicks!Rows(s, c) = Occurs(s, Clicks!Of(c))
    <2>1. {i \in DOMAIN s : s[i].click = c} = {i \in DOMAIN s : s[i] \in Clicks!Of(c)}
      BY <1>1, OfType
    <2> QED BY <2>1, ClickCounts, Zenon DEF Clicks!Rows, Occurs
  <1>3. Clicks!Counted(s) = Occurs(s, Clicks!Countable)
    <2>1. {i \in DOMAIN s : s[i].counted} = {i \in DOMAIN s : s[i] \in Clicks!Countable}
      BY <1>1, OfType
    <2> QED BY <2>1, ClickCounts, Zenon DEF Clicks!Counted, Occurs
  <1> QED BY <1>2, <1>3, Zenon

LEMMA OneDrainWorks ==
    ASSUME NEW dr \in [Worker -> Clicks!Drain], NEW w \in Worker,
           Working(dr[w], Tail(dr[w].work)) \in Clicks!Drain,
           NEW dn, dn = [dr EXCEPT ![w].work = Tail(@)]
    PROVE  OneDrain(dr, dn, w, Working(dr[w], Tail(dr[w].work)))
  <1>1. dn = [dr EXCEPT ![w] = Working(dr[w], Tail(dr[w].work))]
    BY DEF Working
  <1> QED BY <1>1, OneDrainIs, Zenon

LEMMA ClickCommit ==
    ASSUME Clicks!ClickInv, NEW w \in Worker, Clicks!Commit(w)
    PROVE  Clicks!ClickInv'
  <1> DEFINE d == drain[w]
             s == Head(d.work)
             k == Tail(d.work)
             e == Working(d, k)
             M == Clicks!Message
             v == d.work
  <1>1. /\ d.step = "committing" /\ v # <<>>
        /\ drain' = [drain EXCEPT ![w].work = Tail(@)] /\ queue' = queue
        /\ stored' = [c \in ClickId |-> stored[c] + Clicks!Rows(s, c)]
        /\ clickCount' = clickCount + Clicks!Counted(s)
        /\ UNCHANGED <<dlq, parked, window, replaying, pushed, opened, givenUp, losses,
                       replays>>
    BY Zenon DEF Clicks!Commit, Clicks!Written, Clicks!listVars
  <1>2. /\ d \in Clicks!Drain /\ Holds(d) /\ queue \in Seq(Clicks!Message)
        /\ drain \in [Worker -> Clicks!Drain] /\ stored \in [ClickId -> Nat]
        /\ clickCount \in Nat
    BY ClickKnown, Zenon
  <1>3. v \in Seq(Seq(M)) /\ d.failed \in Seq(M)
    BY <1>1, <1>2, CommittingHolds, Zenon
  <1>4. s \in Seq(M) /\ k \in Seq(Seq(M))
    <2> HIDE DEF M, d
    <2> QED BY <1>1, <1>3
  <1>5. \A B : OccursIn(v, B) = Occurs(s, B) + OccursIn(k, B)
    <2> HIDE DEF M, d
    <2> QED BY <1>1, <1>3, OccursInTail, Zenon
  <1> HIDE DEF d, s, k
  <1>6. Is(e, d.step, d.pops, d.events, k, d.failed)
    BY <1>2, <1>3, <1>4, DrainBecomes, Zenon
  <1>7. OneDrain(drain, drain', w, e)
    <2>1. e \in Clicks!Drain
      BY <1>6, Zenon DEF Is
    <2> QED BY <1>1, <1>2, <2>1, OneDrainWorks DEF d, k
  <1> HIDE DEF e
  <1>8. /\ \A B : Held(e, B) = Occurs(d.failed, B) + OccursIn(k, B)
        /\ e \in Clicks!Drain /\ e.failed = d.failed
        /\ Held(e, M) <= Held(d, M) => Holds(e)
    BY <1>1, <1>2, <1>3, <1>4, <1>6, CommittingBecomes
  <1>9. \A B : /\ Held(d, B) = Occurs(d.failed, B) + OccursIn(v, B)
               /\ Occurs(d.failed, B) \in Nat
    BY <1>1, <1>2, CommittingHolds, Zenon
  <1>10. \A B : Occurs(s, B) \in Nat /\ OccursIn(k, B) \in Nat
    BY <1>4, OccursType, OccursInType, Zenon
  <1>11. \A B : Held(d, B) = Held(e, B) + Occurs(s, B) /\ Held(e, B) \in Nat
    <2> TAKE B
    <2>1. /\ Held(e, B) = Occurs(d.failed, B) + OccursIn(k, B)
          /\ Held(d, B) = Occurs(d.failed, B) + OccursIn(v, B)
          /\ OccursIn(v, B) = Occurs(s, B) + OccursIn(k, B)
      BY <1>5, <1>8, <1>9, Zenon
    <2>2. Occurs(s, B) \in Nat /\ OccursIn(k, B) \in Nat /\ Occurs(d.failed, B) \in Nat
      BY <1>9, <1>10, Zenon
    <2> QED BY <2>1, <2>2
  <1>12. Holds(e)
    <2>1. Held(e, M) <= Held(d, M)
      BY <1>10, <1>11
    <2> QED BY <1>8, <2>1, Zenon
  <1>13. /\ \A c \in ClickId : Clicks!Rows(s, c) = Occurs(s, Clicks!Of(c))
         /\ Clicks!Counted(s) = Occurs(s, Clicks!Countable)
    BY <1>4, RowsAre, Zenon
  <1>14. \A B : Occurs(queue, B) \in Nat
    BY <1>2, OccursType, Zenon
  <1>15. ASSUME NEW c \in ClickId
         PROVE  /\ stored'[c] = stored[c] + Occurs(s, Clicks!Of(c))
                /\ stored[c] \in Nat
    BY <1>1, <1>2, <1>13
  <1>16. stored' \in [ClickId -> Nat] /\ clickCount' \in Nat
    <2>1. stored' = [c \in ClickId |-> stored[c] + Occurs(s, Clicks!Of(c))]
      BY <1>1, <1>13
    <2>2. stored' \in [ClickId -> Nat]
      BY <1>2, <1>10, <2>1
    <2>3. clickCount' \in Nat
      BY <1>1, <1>2, <1>10, <1>13
    <2> QED BY <2>2, <2>3
  <1>17. ASSUME NEW B
         PROVE  /\ Occurs(queue', B) + Held(e, B) <= Occurs(queue, B) + Held(drain[w], B)
                /\ Occurs(queue', B) + Held(e, B) + Occurs(s, B)
                      = Occurs(queue, B) + Held(drain[w], B)
                /\ Occurs(queue', B) \in Nat /\ Held(e, B) \in Nat
                /\ Occurs(s, B) \in Nat /\ Occurs(queue, B) \in Nat
                /\ Held(drain[w], B) \in Nat
    <2>1. /\ Held(drain[w], B) = Held(e, B) + Occurs(s, B) /\ Held(e, B) \in Nat
          /\ Occurs(s, B) \in Nat /\ Occurs(queue, B) \in Nat
      BY <1>10, <1>11, <1>14, Zenon DEF d
    <2>2. Occurs(queue', B) = Occurs(queue, B)
      BY <1>1
    <2> QED BY <2>1, <2>2
  <1>18. ASSUME NEW c \in ClickId
         PROVE  stored'[c] + (Occurs(queue', Clicks!Of(c)) + Held(e, Clicks!Of(c)))
                  = stored[c] + (Occurs(queue, Clicks!Of(c)) + Held(drain[w], Clicks!Of(c)))
    <2> DEFINE B == Clicks!Of(c)
               q0 == Occurs(queue, B)
               q1 == Occurs(queue', B)
               a0 == Held(drain[w], B)
               a1 == Held(e, B)
               n == stored[c]
               m == stored'[c]
               r == Occurs(s, B)
    <2>1. /\ q1 + a1 + r = q0 + a0 /\ q0 \in Nat /\ q1 \in Nat /\ a0 \in Nat
          /\ a1 \in Nat /\ r \in Nat
      BY <1>17, Zenon
    <2>2. m = n + r /\ n \in Nat
      BY <1>15, Zenon
    <2> HIDE DEF B, q0, q1, a0, a1, n, m, r
    <2>3. m + (q1 + a1) = n + (q0 + a0)
      BY ONLY <2>1, <2>2
    <2> QED BY <2>3 DEF B, q0, q1, a0, a1, n, m
  <1>19. ASSUME NEW c \in ClickId
         PROVE  stored'[c] + (Occurs(queue', Clicks!Of(c)) + Held(e, Clicks!Of(c)))
                  <= stored[c] + (Occurs(queue, Clicks!Of(c)) + Held(drain[w], Clicks!Of(c)))
    BY <1>15, <1>17, <1>18
  <1>20. clickCount' + (Occurs(queue', Clicks!Countable) + Held(e, Clicks!Countable))
             <= clickCount + (Occurs(queue, Clicks!Countable)
                              + Held(drain[w], Clicks!Countable))
    <2> DEFINE B == Clicks!Countable
               q0 == Occurs(queue, B)
               q1 == Occurs(queue', B)
               a0 == Held(drain[w], B)
               a1 == Held(e, B)
               n == clickCount
               m == clickCount'
               r == Occurs(s, B)
    <2>1. /\ q1 + a1 + r = q0 + a0 /\ q0 \in Nat /\ q1 \in Nat /\ a0 \in Nat
          /\ a1 \in Nat /\ r \in Nat
      BY <1>17, Zenon
    <2>2. m = n + r /\ n \in Nat
      BY <1>1, <1>2, <1>13
    <2> HIDE DEF B, q0, q1, a0, a1, n, m, r
    <2>3. m + (q1 + a1) <= n + (q0 + a0)
      BY ONLY <2>1, <2>2
    <2> QED BY <2>3 DEF B, q0, q1, a0, a1, n, m
  <1>21. Occurs(e.failed, Clicks!GoodOnes) <= Occurs(drain[w].failed, Clicks!GoodOnes)
    <2>1. Occurs(e.failed, Clicks!GoodOnes) = Occurs(d.failed, Clicks!GoodOnes)
          /\ Occurs(d.failed, Clicks!GoodOnes) \in Nat
      BY <1>8, <1>9, Zenon
    <2>2. Occurs(e.failed, Clicks!GoodOnes) <= Occurs(d.failed, Clicks!GoodOnes)
      BY <2>1
    <2> QED BY <2>2 DEF d
  <1>22. e \in Clicks!Drain /\ queue' \in Seq(Clicks!Message)
    BY <1>1, <1>2, <1>8
  <1>23. UNCHANGED <<dlq, parked, window, replaying, pushed, opened, givenUp, losses,
                     replays>>
    BY <1>1, Zenon
  <1>24. \A B \in SUBSET Clicks!Message :
              Occurs(queue', B) + Held(e, B) <= Occurs(queue, B) + Held(drain[w], B)
    BY <1>17, Zenon
  <1> HIDE DEF M
  <1> QED
    BY ONLY Clicks!ClickInv, w \in Worker, <1>7, <1>12, <1>16, <1>18, <1>19, <1>20, <1>21, <1>22, <1>23, <1>24,
       DrainStores

\* RPOP, whatever becomes of the message: the drain keeps it in t or in f, or it is
\* malformed.
LEMMA PopKeeps ==
    ASSUME Clicks!ClickInv, NEW w \in Worker, queue # <<>>,
           drain[w].step \in {"idle", "popping"}, drain[w].failed = <<>>,
           drain[w].pops < BatchMax,
           NEW t \in Seq(Clicks!Message), NEW f \in Seq(Clicks!Message),
           queue' = Clicks!Front(queue),
           drain' = [drain EXCEPT ![w] =
              [step |-> "popping", pops |-> drain[w].pops + 1, events |-> t,
               work |-> <<>>, failed |-> f]],
           UNCHANGED <<dlq, parked, window, stored, clickCount, replaying, pushed,
                       opened, givenUp, losses, replays>>,
           \/ \A B : Occurs(f, B) + Occurs(t, B)
                        = Occurs(drain[w].events, B)
                          + IF Clicks!Last(queue) \in B THEN 1 ELSE 0
           \/ /\ Clicks!Last(queue).click \in Malformed
              /\ \A B : Occurs(f, B) + Occurs(t, B) = Occurs(drain[w].events, B),
           Occurs(f, Clicks!GoodOnes) = 0
    PROVE  Clicks!ClickInv'
  <1> DEFINE d == drain[w]
             n == d.pops + 1
             e == [step |-> "popping", pops |-> n, events |-> t, work |-> <<>>,
                   failed |-> f]
             m == Clicks!Last(queue)
             M == Clicks!Message
  <1>1. /\ d \in Clicks!Drain /\ Holds(d) /\ queue \in Seq(M) /\ losses \in Nat
        /\ drain \in [Worker -> Clicks!Drain] /\ stored \in [ClickId -> Nat]
        /\ clickCount \in Nat
    BY ClickKnown, Zenon
  <1>2. d.events \in Seq(M)
    BY <1>1, DrainFields, Zenon
  <1>3. /\ queue' \in Seq(M) /\ m \in M
        /\ \A B : Occurs(queue, B) = Occurs(queue', B) + IF m \in B THEN 1 ELSE 0
    BY <1>1, PopTakes, Zenon
  <1>4. \A B : /\ Occurs(queue', B) \in Nat /\ Occurs(d.events, B) \in Nat
               /\ Occurs(f, B) \in Nat /\ Occurs(t, B) \in Nat
    BY <1>2, <1>3, OccursType, Zenon
  <1>5. Occurs(f, M) + Occurs(t, M) <= Occurs(d.events, M) + 1
    BY <1>4
  <1>6. /\ e \in Clicks!Drain /\ Holds(e) /\ e.failed = f
        /\ \A B : Held(e, B) = Occurs(f, B) + Occurs(t, B)
        /\ \A B : Held(d, B) = Occurs(d.events, B)
    <2>1. d.step \in {"idle", "popping"} /\ d.failed = <<>> /\ d.pops < BatchMax
      OBVIOUS
    <2>2. e = [step |-> "popping", pops |-> d.pops + 1, events |-> t, work |-> <<>>,
               failed |-> f]
      OBVIOUS
    <2> HIDE DEF d, e
    <2> QED BY <1>1, <1>5, <2>1, <2>2, PoppingHolds
  <1>7. OneDrain(drain, drain', w, e)
    <2>1. drain' = [drain EXCEPT ![w] = e]
      OBVIOUS
    <2> HIDE DEF e
    <2> QED BY <1>1, <1>6, <2>1, OneDrainIs
  <1>8. \/ \A B : Occurs(f, B) + Occurs(t, B)
                    = Occurs(d.events, B) + IF m \in B THEN 1 ELSE 0
        \/ /\ m.click \in Malformed
           /\ \A B : Occurs(f, B) + Occurs(t, B) = Occurs(d.events, B)
    OBVIOUS
  <1>9. Occurs(e.failed, Clicks!GoodOnes) = 0 /\ Occurs(drain[w].failed, Clicks!GoodOnes) = 0
    BY <1>6, OccursEmpty, Zenon
  <1>10. UNCHANGED <<dlq, parked, window, stored, clickCount, replaying, pushed,
                     opened, givenUp, losses, replays>>
    OBVIOUS
  <1> HIDE DEF d, e, m, M, n
  <1>11. ASSUME \A B : Occurs(f, B) + Occurs(t, B)
                         = Occurs(d.events, B) + IF m \in B THEN 1 ELSE 0
         PROVE  Clicks!ClickInv'
    <2>1. ASSUME NEW B
          PROVE  Occurs(queue', B) + Held(e, B) = Occurs(queue, B) + Held(drain[w], B)
      <3>1. /\ Held(e, B) = Occurs(d.events, B) + (IF m \in B THEN 1 ELSE 0)
            /\ Occurs(queue, B) = Occurs(queue', B) + (IF m \in B THEN 1 ELSE 0)
            /\ Held(drain[w], B) = Occurs(d.events, B)
        BY <1>3, <1>6, <1>11, Zenon DEF d
      <3>2. Occurs(queue', B) \in Nat /\ Occurs(d.events, B) \in Nat
        BY <1>4, Zenon
      <3> QED BY <3>1, <3>2
    <2>2. Occurs(e.failed, Clicks!GoodOnes) + losses
              <= Occurs(drain[w].failed, Clicks!GoodOnes) + losses'
      BY <1>1, <1>9, <1>10
    <2>3. losses' \in {losses, losses + 1} /\ queue' \in Seq(Clicks!Message)
      BY <1>3, <1>10 DEF M
    <2>4. \A B \in SUBSET Clicks!Message :
              Occurs(queue', B) + Held(e, B) = Occurs(queue, B) + Held(drain[w], B)
      BY <2>1, Zenon
    <2>5. e \in Clicks!Drain /\ Holds(e)
      BY <1>6
    <2> QED BY ONLY Clicks!ClickInv, w \in Worker, <1>7, <1>10, <2>2, <2>3, <2>4, <2>5,
               DrainGoesOn
  <1>12. ASSUME m.click \in Malformed,
                \A B : Occurs(f, B) + Occurs(t, B) = Occurs(d.events, B)
         PROVE  Clicks!ClickInv'
    <2>1. ASSUME NEW B
          PROVE  /\ Occurs(queue', B) + Held(e, B) <= Occurs(queue, B) + Held(drain[w], B)
                 /\ m \notin B =>
                      Occurs(queue', B) + Held(e, B) = Occurs(queue, B) + Held(drain[w], B)
                 /\ Occurs(queue', B) + Held(e, B) \in Nat
                 /\ Occurs(queue, B) + Held(drain[w], B) \in Nat
      <3>1. /\ Held(e, B) = Occurs(d.events, B)
            /\ Occurs(queue, B) = Occurs(queue', B) + (IF m \in B THEN 1 ELSE 0)
            /\ Held(drain[w], B) = Occurs(d.events, B)
        BY <1>3, <1>6, <1>12, Zenon DEF d
      <3>2. Occurs(queue', B) \in Nat /\ Occurs(d.events, B) \in Nat
        BY <1>4, Zenon
      <3> QED BY <3>1, <3>2
    <2>2. stored' = stored /\ clickCount' = clickCount
          /\ stored' \in [ClickId -> Nat] /\ clickCount' \in Nat
      BY <1>1, <1>10
    <2>3. ASSUME NEW c \in ClickId
          PROVE  /\ stored'[c] + (Occurs(queue', Clicks!Of(c)) + Held(e, Clicks!Of(c)))
                      <= stored[c] + (Occurs(queue, Clicks!Of(c))
                                      + Held(drain[w], Clicks!Of(c)))
                 /\ c \notin Malformed =>
                    stored'[c] + (Occurs(queue', Clicks!Of(c)) + Held(e, Clicks!Of(c)))
                      = stored[c] + (Occurs(queue, Clicks!Of(c))
                                     + Held(drain[w], Clicks!Of(c)))
      <3> DEFINE a == Occurs(queue', Clicks!Of(c)) + Held(e, Clicks!Of(c))
                 b == Occurs(queue, Clicks!Of(c)) + Held(drain[w], Clicks!Of(c))
                 g == c \notin Malformed
      <3>1. a <= b /\ (m \notin Clicks!Of(c) => a = b) /\ a \in Nat /\ b \in Nat
        BY <2>1, Zenon
      <3>2. g => m \notin Clicks!Of(c)
        BY <1>3, <1>12, OfType, Zenon DEF M
      <3>3. stored'[c] = stored[c] /\ stored[c] \in Nat
        BY <1>1, <2>2
      <3> HIDE DEF a, b, g
      <3>4. stored'[c] + a <= stored[c] + b /\ (g => stored'[c] + a = stored[c] + b)
        BY <3>1, <3>2, <3>3
      <3> QED BY <3>4, Zenon DEF a, b, g
    <2>4. clickCount' + (Occurs(queue', Clicks!Countable) + Held(e, Clicks!Countable))
             <= clickCount + (Occurs(queue, Clicks!Countable)
                              + Held(drain[w], Clicks!Countable))
      <3> DEFINE a == Occurs(queue', Clicks!Countable) + Held(e, Clicks!Countable)
                 b == Occurs(queue, Clicks!Countable) + Held(drain[w], Clicks!Countable)
      <3>1. a <= b /\ a \in Nat /\ b \in Nat
        BY <2>1, Zenon
      <3> HIDE DEF a, b
      <3>2. clickCount' + a <= clickCount + b
        BY <1>1, <2>2, <3>1
      <3> QED BY <3>2 DEF a, b
    <2>5. Occurs(e.failed, Clicks!GoodOnes) <= Occurs(drain[w].failed, Clicks!GoodOnes)
      BY <1>9
    <2>6. /\ e \in Clicks!Drain /\ Holds(e) /\ queue' \in Seq(Clicks!Message)
          /\ UNCHANGED <<dlq, parked, window, replaying, pushed, opened, givenUp, losses,
                         replays>>
      BY <1>3, <1>6, <1>10 DEF M
    <2>7. \A B \in SUBSET Clicks!Message :
              Occurs(queue', B) + Held(e, B) <= Occurs(queue, B) + Held(drain[w], B)
      BY <2>1, Zenon
    <2> QED BY ONLY Clicks!ClickInv, w \in Worker, <1>7, <2>2, <2>3, <2>4, <2>5, <2>6, <2>7,
               DrainStores
  <1> QED BY <1>8, <1>11, <1>12, Zenon

LEMMA ClickPop ==
    ASSUME Clicks!ClickInv, NEW w \in Worker, Clicks!Pop(w)
    PROVE  Clicks!ClickInv'
  <1> DEFINE d == drain[w]
             m == Clicks!Last(queue)
             M == Clicks!Message
             t == IF m.click \in Malformed \cup Invalid THEN d.events ELSE Append(d.events, m)
             f == IF m.click \in Invalid THEN <<m>> ELSE <<>>
  <1>1. /\ d.step \in {"idle", "popping"} /\ d.failed = <<>> /\ d.pops < BatchMax
        /\ queue # <<>> /\ queue' = Clicks!Front(queue)
        /\ drain' = [drain EXCEPT ![w] =
              [step |-> "popping", pops |-> d.pops + 1, events |-> t, work |-> <<>>,
               failed |-> f]]
        /\ UNCHANGED <<dlq, parked, window, stored, clickCount, replaying, pushed,
                       opened, givenUp, losses, replays>>
    BY Zenon DEF Clicks!Pop, Clicks!rowVars
  <1>2. d \in Clicks!Drain /\ queue \in Seq(M)
    BY ClickKnown, Zenon
  <1>3. d.events \in Seq(M) /\ m \in M
    BY <1>1, <1>2, DrainFields, PopTakes, Zenon
  <1> HIDE DEF d, m, M
  <1>4. t \in Seq(M) /\ f \in Seq(M)
    BY <1>3
  <1>5. \A B : Occurs(d.events, B) \in Nat /\ Occurs(<<>>, B) = 0
    BY <1>3, OccursType, OccursEmpty, Zenon
  <1>6. \A B : /\ Occurs(<<m>>, B) = IF m \in B THEN 1 ELSE 0
               /\ Occurs(Append(d.events, m), B)
                     = Occurs(d.events, B) + IF m \in B THEN 1 ELSE 0
    BY <1>3, OccursOne, OccursAppend, Zenon
  <1>7. \/ \A B : Occurs(f, B) + Occurs(t, B)
                    = Occurs(d.events, B) + IF m \in B THEN 1 ELSE 0
        \/ /\ m.click \in Malformed
           /\ \A B : Occurs(f, B) + Occurs(t, B) = Occurs(d.events, B)
    <2>1. CASE m.click \in Invalid
      <3>1. f = <<m>> /\ t = d.events
        BY <2>1
      <3> HIDE DEF f, t
      <3>2. \A B : Occurs(f, B) + Occurs(t, B)
                     = Occurs(d.events, B) + IF m \in B THEN 1 ELSE 0
        BY <1>5, <1>6, <3>1
      <3> QED BY <3>2, Zenon
    <2>2. CASE m.click \notin Invalid /\ m.click \in Malformed
      <3>1. f = <<>> /\ t = d.events
        BY <2>2
      <3> HIDE DEF f, t
      <3>2. \A B : Occurs(f, B) + Occurs(t, B) = Occurs(d.events, B)
        BY <1>5, <3>1
      <3> QED BY <2>2, <3>2, Zenon
    <2>3. CASE m.click \notin Invalid /\ m.click \notin Malformed
      <3>1. f = <<>> /\ t = Append(d.events, m)
        BY <2>3
      <3> HIDE DEF f, t
      <3>2. \A B : Occurs(f, B) + Occurs(t, B)
                     = Occurs(d.events, B) + IF m \in B THEN 1 ELSE 0
        BY <1>5, <1>6, <3>1
      <3> QED BY <3>2, Zenon
    <2> QED BY <2>1, <2>2, <2>3, Zenon
  <1>8. Occurs(f, Clicks!GoodOnes) = 0
    <2>1. CASE m.click \in Invalid
      <3>1. m \notin Clicks!GoodOnes
        BY <2>1 DEF Clicks!GoodOnes, Clicks!Good
      <3>2. f = <<m>>
        BY <2>1
      <3> HIDE DEF f, t
      <3> QED BY <1>6, <3>1, <3>2, Zenon
    <2>2. CASE m.click \notin Invalid
      <3>1. f = <<>>
        BY <2>2
      <3> HIDE DEF f, t
      <3> QED BY <1>5, <3>1, Zenon
    <2> QED BY <2>1, <2>2, Zenon
  <1> HIDE DEF t, f
  <1>9. t \in Seq(Clicks!Message) /\ f \in Seq(Clicks!Message)
    BY <1>4 DEF M
  <1> QED BY <1>1, <1>7, <1>8, <1>9, PopKeeps, Zenon DEF d, m

-----------------------------------------------------------------------------
(* replayDeadLetters. *)

\* A message in a list, in a drain or in a replay is counted there.
LEMMA EachCounts ==
    ASSUME Clicks!ClickInv, NEW B \in SUBSET Clicks!Message
    PROVE  /\ Occurs(queue, B) <= Here(B) /\ Occurs(dlq, B) <= Here(B)
           /\ \A w \in Worker : Held(drain[w], B) <= Here(B)
           /\ \A r \in Replayer : replaying[r] \in B => Here(B) > 0
           /\ Here(B) \in Nat
  <1>1. /\ ListsOK(queue, dlq, parked, replaying, drain)
        /\ drain \in [Worker -> Clicks!Drain]
        /\ replaying \in [Replayer -> Clicks!Message \cup {NULL}]
    BY ClickKnown, Zenon
  <1>2. /\ Occurs(queue, B) \in Nat /\ Occurs(dlq, B) \in Nat
        /\ ReplayedOf(replaying, B) \in Nat /\ HeldByAll(drain, B) \in Nat
        /\ Here(B) \in Nat
    BY <1>1, WayType, Zenon DEF Here
  <1>3. Here(B) = Occurs(queue, B) + Occurs(dlq, B) + ReplayedOf(replaying, B)
                  + HeldByAll(drain, B)
    BY Zenon DEF Here, Way
  <1>4. ASSUME NEW w \in Worker PROVE Held(drain[w], B) <= HeldByAll(drain, B)
    <2> DEFINE f == [v \in Worker |-> Held(drain[v], B)]
    <2>1. \A v \in Worker : f[v] \in Nat
      <3>1. \A v \in Worker : drain[v] \in Clicks!Drain
        BY <1>1
      <3>2. \A v \in Worker : Held(drain[v], B) \in Nat
        BY <3>1, HeldType, Zenon
      <3> QED BY <3>2
    <2>2. IsFiniteSet(Worker)
      BY ClickParameters, Zenon
    <2>3. f[w] = Held(drain[w], B) /\ HeldByAll(drain, B) = SumFunctionOnSet(f, Worker)
      BY Zenon DEF HeldByAll
    <2> HIDE DEF f
    <2>4. SumFunctionOnSet(f, Worker) = f[w] + SumFunctionOnSet(f, Worker \ {w})
      BY <2>1, <2>2, SumAdd
    <2>5. SumFunctionOnSet(f, Worker \ {w}) \in Nat
      <3>1. IsFiniteSet(Worker \ {w})
        BY <2>2, FS_Subset
      <3> QED BY <2>1, <3>1, SumType
    <2>6. f[w] <= SumFunctionOnSet(f, Worker)
      BY <2>1, <2>4, <2>5
    <2> QED BY <2>3, <2>6, Zenon
  <1>5. ASSUME NEW r \in Replayer, replaying[r] \in B PROVE ReplayedOf(replaying, B) > 0
    <2> DEFINE I == {x \in Replayer : replaying[x] \in B}
    <2>1. r \in I /\ IsFiniteSet(I)
      BY <1>1, <1>5, ReplayedType
    <2> HIDE DEF I
    <2>2. Cardinality(I) # 0 /\ Cardinality(I) \in Nat
      BY <2>1, FS_EmptySet, FS_CardinalityType
    <2>3. ReplayedOf(replaying, B) = Cardinality(I)
      BY Zenon DEF ReplayedOf, I
    <2> QED BY <2>2, <2>3
  <1> DEFINE a == Occurs(queue, B)
             b == Occurs(dlq, B)
             c == ReplayedOf(replaying, B)
             d == HeldByAll(drain, B)
  <1>6. /\ a \in Nat /\ b \in Nat /\ c \in Nat /\ d \in Nat /\ Here(B) = a + b + c + d
    BY <1>2, <1>3, Zenon
  <1>7. \A w \in Worker : Held(drain[w], B) <= d
    BY <1>4, Zenon
  <1>8. \A w \in Worker : Held(drain[w], B) \in Nat
    <2>1. \A v \in Worker : drain[v] \in Clicks!Drain
      BY <1>1
    <2> QED BY <2>1, HeldType, Zenon
  <1>9. \A r \in Replayer : replaying[r] \in B => c > 0
    BY <1>5, Zenon
  <1> HIDE DEF a, b, c, d
  <1>10. a <= Here(B) /\ b <= Here(B) /\ d <= Here(B) /\ (c > 0 => Here(B) > 0)
    BY <1>6
  <1>11. \A w \in Worker : Held(drain[w], B) <= Here(B)
    <2> TAKE w \in Worker
    <2> DEFINE h == Held(drain[w], B)
    <2>1. h <= d /\ h \in Nat /\ d <= Here(B) /\ d \in Nat /\ Here(B) \in Nat
      BY <1>2, <1>6, <1>7, <1>8, <1>10, Zenon
    <2> HIDE DEF h
    <2>2. h <= Here(B)
      BY ONLY <2>1
    <2> QED BY <2>2 DEF h
  <1> QED BY <1>2, <1>9, <1>10, <1>11, Zenon DEF a, b, c

\* A message on its way carries its attempts, and is not parked yet.
LEMMA CarriesAttempts ==
    ASSUME Clicks!ClickInv, NEW m \in Clicks!Message,
           \/ Occurs(queue, {m}) > 0
           \/ Occurs(dlq, {m}) > 0
           \/ \E r \in Replayer : replaying[r] = m
           \/ \E w \in Worker : Occurs(drain[w].failed, {m}) > 0
    PROVE  m.attempts = givenUp[m.click] /\ m.attempts < MaxAttempts
  <1> DEFINE late == Clicks!Message \ OnTime(givenUp)
  <1>1. Here(late) = 0
    <2>1. Clicks!AttemptsAreCarried
      BY ClickInvParts, Zenon
    <2> QED BY <2>1, ClickAttempts, Zenon DEF Here
  <1>2. SUFFICES ASSUME m \in late PROVE FALSE
    BY DEF OnTime
  <1>3. {m} \in SUBSET Clicks!Message /\ late \in SUBSET Clicks!Message
    OBVIOUS
  <1>4. {m} \in SUBSET late
    BY <1>2
  <1> HIDE DEF late
  <1>5. Here({m}) <= Here(late)
    BY <1>4, ClickKnown, WayWithin, Zenon DEF Here
  <1>6. Here({m}) = 0
    <2>1. Here({m}) \in Nat
      BY <1>3, EachCounts, Zenon
    <2> QED BY <1>1, <1>5, <2>1
  <1>7. /\ Occurs(queue, {m}) <= Here({m}) /\ Occurs(dlq, {m}) <= Here({m})
        /\ \A w \in Worker : Held(drain[w], {m}) <= Here({m})
        /\ \A r \in Replayer : replaying[r] \in {m} => Here({m}) > 0
    BY <1>3, EachCounts, Zenon
  <1>8. Occurs(queue, {m}) \in Nat /\ Occurs(dlq, {m}) \in Nat
    BY ClickKnown, OccursType, Zenon
  <1>9. \A w \in Worker : /\ Occurs(drain[w].failed, {m}) \in Nat
                          /\ Held(drain[w], {m}) \in Nat
                          /\ Occurs(drain[w].failed, {m}) <= Held(drain[w], {m})
    <2>1. \A v \in Worker : drain[v] \in Clicks!Drain
      BY ClickKnown, Zenon
    <2> QED BY <2>1, HeldType, Zenon
  <1>10. ASSUME NEW w \in Worker PROVE ~(Occurs(drain[w].failed, {m}) > 0)
    <2> DEFINE x == Occurs(drain[w].failed, {m})
               y == Held(drain[w], {m})
    <2>1. x \in Nat /\ y \in Nat /\ x <= y /\ y <= 0
      BY <1>6, <1>7, <1>9, Zenon
    <2> HIDE DEF x, y
    <2>2. ~(x > 0)
      BY <2>1
    <2> QED BY <2>2 DEF x
  <1>11. ASSUME NEW r \in Replayer PROVE replaying[r] # m
    BY <1>6, <1>7
  <1>12. ~(Occurs(queue, {m}) > 0) /\ ~(Occurs(dlq, {m}) > 0)
    BY <1>6, <1>7, <1>8
  <1> QED BY <1>10, <1>11, <1>12, Zenon

LEMMA DrainsRest ==
    ASSUME Clicks!ClickInv, drain' = drain
    PROVE  Clicks!DrainsHold' /\ drain' \in [Worker -> Clicks!Drain]
  <1>1. \A v \in Worker : Holds(drain[v])
    BY ClickKnown, Zenon
  <1>2. drain \in [Worker -> Clicks!Drain]
    BY ClickKnown, Zenon
  <1> QED BY <1>1, <1>2, SameHolds

LEMMA ClickReplayPop ==
    ASSUME Clicks!ClickInv, NEW r \in Replayer, Clicks!ReplayPop(r)
    PROVE  Clicks!ClickInv'
  <1> DEFINE m == Clicks!Last(dlq)
             M == Clicks!Message
  <1>1. /\ replaying[r] = NULL /\ dlq # <<>> /\ replays' = replays + 1
        /\ replaying' = [replaying EXCEPT ![r] = m] /\ dlq' = Clicks!Front(dlq)
        /\ UNCHANGED <<queue, parked, window, stored, clickCount, drain, pushed, opened,
                       givenUp, losses>>
    BY Zenon DEF Clicks!ReplayPop, Clicks!rowVars
  <1>2. /\ dlq \in Seq(M) /\ replaying \in [Replayer -> M \cup {NULL}] /\ losses \in Nat
        /\ ListsOK(queue, dlq, parked, replaying, drain) /\ replays \in Nat /\ opened \in Nat
    BY ClickKnown, Zenon
  <1>3. /\ dlq' \in Seq(M) /\ m \in M
        /\ \A B : Occurs(dlq, B) = Occurs(dlq', B) + IF m \in B THEN 1 ELSE 0
    BY <1>1, <1>2, PopTakes, Zenon
  <1> HIDE DEF m
  <1>4. /\ replaying' \in [Replayer -> M \cup {NULL}]
        /\ \A B \in SUBSET M :
              ReplayedOf(replaying', B)
                = ReplayedOf(replaying, B) + IF m \in B THEN 1 ELSE 0
    <2> DEFINE new == Taking(replaying, r, m)
    <2>1. ASSUME NEW B \in SUBSET M
          PROVE  /\ new \in [Replayer -> M \cup {NULL}]
                 /\ ReplayedOf(new, B)
                      = ReplayedOf(replaying, B) + IF m \in B THEN 1 ELSE 0
      <3>1. replaying[r] = NULL /\ replaying \in [Replayer -> M \cup {NULL}] /\ m \in M
        BY <1>1, <1>2, <1>3
      <3> HIDE DEF M
      <3>2. \A x \in M : \A C \in SUBSET M : replaying[r] = NULL =>
               /\ Taking(replaying, r, x) \in [Replayer -> M \cup {NULL}]
               /\ ReplayedOf(Taking(replaying, r, x), C)
                    = ReplayedOf(replaying, C) + IF x \in C THEN 1 ELSE 0
        BY <3>1, OneReplayChanges DEF M
      <3> QED BY <3>1, <3>2, Zenon
    <2>2. {} \in SUBSET M
      OBVIOUS
    <2>3. replaying' = new
      BY <1>1, Zenon DEF Taking
    <2> HIDE DEF new
    <2> QED BY <2>1, <2>2, <2>3, Zenon
  <1>5. Clicks!DrainsHold' /\ drain' \in [Worker -> Clicks!Drain]
    BY <1>1, DrainsRest, Zenon
  <1>6. Clicks!TypeOK'
    <2>1. /\ queue' \in Seq(M) /\ parked' \in Seq(M)
          /\ window' \subseteq {visitor} /\ stored' \in [ClickId -> Nat]
          /\ clickCount' \in Nat /\ pushed' \subseteq ClickId /\ opened' \in Nat
          /\ givenUp' \in [ClickId -> Nat] /\ losses' \in Nat
      BY <1>1, ClickKnown, Zenon
    <2>2. Clicks!TypeOK
      BY ClickKnown, Zenon
    <2>3. replays' \in Nat
      BY <1>1, <1>2
    <2> QED BY <1>3, <1>4, <1>5, <2>1, <2>2, <2>3, ClickTypesStay, Zenon
  <1>7. ASSUME NEW B \in SUBSET M
        PROVE  There(B) = Here(B) /\ AsideThere(B) = AsideHere(B) /\ AsideHere(B) \in Nat
    <2>1. /\ Occurs(queue, B) \in Nat /\ Occurs(dlq, B) \in Nat /\ Occurs(parked, B) \in Nat
          /\ ReplayedOf(replaying, B) \in Nat /\ HeldByAll(drain, B) \in Nat
          /\ FailedOfAll(drain, B) \in Nat /\ AsideHere(B) \in Nat
      BY <1>2, WayType, Zenon DEF AsideHere
    <2>2. Occurs(dlq', B) \in Nat
      BY <1>3, OccursType, Zenon
    <2> DEFINE q == Occurs(queue, B)
               l0 == Occurs(dlq, B)
               l1 == Occurs(dlq', B)
               p == Occurs(parked, B)
               r0 == ReplayedOf(replaying, B)
               r1 == ReplayedOf(replaying', B)
               h == HeldByAll(drain, B)
               f == FailedOfAll(drain, B)
    <2>3. /\ Here(B) = q + l0 + r0 + h /\ AsideHere(B) = l0 + p + r0 + f
      BY Zenon DEF Here, AsideHere, Way, Aside
    <2>4. /\ There(B) = q + l1 + r1 + h /\ AsideThere(B) = l1 + p + r1 + f
      <3>1. queue' = queue /\ parked' = parked /\ drain' = drain
        BY <1>1, Zenon
      <3> QED BY <3>1, Zenon DEF There, AsideThere, Way, Aside
    <2>5. r1 = r0 + (IF m \in B THEN 1 ELSE 0) /\ l0 = l1 + (IF m \in B THEN 1 ELSE 0)
      BY <1>3, <1>4, Zenon
    <2>6. /\ q \in Nat /\ l0 \in Nat /\ l1 \in Nat /\ p \in Nat /\ r0 \in Nat /\ h \in Nat
          /\ f \in Nat
      BY <2>1, <2>2, Zenon
    <2> HIDE DEF q, l0, l1, p, r0, r1, h, f
    <2>7. There(B) = Here(B) /\ AsideThere(B) = AsideHere(B)
      BY ONLY <2>3, <2>4, <2>5, <2>6
    <2> QED BY <2>1, <2>7, Zenon
  <1>8. AsideThere(Clicks!GoodOnes) - losses' <= AsideHere(Clicks!GoodOnes) - losses
    <2>1. /\ AsideThere(Clicks!GoodOnes) = AsideHere(Clicks!GoodOnes)
          /\ AsideHere(Clicks!GoodOnes) \in Nat
      BY <1>7, OfType, Zenon
    <2>2. losses' = losses
      BY <1>1, Zenon
    <2> QED BY <1>2, <2>1, <2>2
  <1>9. \A B \in SUBSET Clicks!Message : There(B) = Here(B)
    BY <1>7, Zenon
  <1>10. /\ pushed' = pushed /\ givenUp' = givenUp /\ stored' = stored
         /\ clickCount' = clickCount /\ parked' = parked
    BY <1>1, Zenon
  <1>11. opened' >= opened /\ losses' >= losses
    BY <1>1, <1>2
  <1> QED BY ONLY Clicks!ClickInv, <1>5, <1>6, <1>8, <1>9, <1>10, <1>11, ClickMoves

\* A replay lets go of its message.
LEMMA ReplayLetsGo ==
    ASSUME Clicks!ClickInv, NEW r \in Replayer, NEW m \in Clicks!Message,
           replaying[r] = m
    PROVE  /\ Taking(replaying, r, NULL) \in [Replayer -> Clicks!Message \cup {NULL}]
           /\ \A B \in SUBSET Clicks!Message :
                ReplayedOf(replaying, B)
                  = ReplayedOf(Taking(replaying, r, NULL), B) + IF m \in B THEN 1 ELSE 0
  <1> DEFINE M == Clicks!Message
  <1>1. replaying[r] = m /\ replaying \in [Replayer -> M \cup {NULL}]
    BY ClickKnown, Zenon
  <1> HIDE DEF M
  <1>2. \A C \in SUBSET M :
               /\ Taking(replaying, r, NULL) \in [Replayer -> M \cup {NULL}]
               /\ ReplayedOf(replaying, C)
                    = ReplayedOf(Taking(replaying, r, NULL), C) + IF m \in C THEN 1 ELSE 0
    BY <1>1, OneReplayChanges DEF M
  <1>3. {} \in SUBSET M
    OBVIOUS
  <1> QED BY <1>2, <1>3, Zenon DEF M

LEMMA ClickReplayPush ==
    ASSUME Clicks!ClickInv, NEW r \in Replayer, Clicks!ReplayPush(r)
    PROVE  Clicks!ClickInv'
  <1> DEFINE m == replaying[r]
             M == Clicks!Message
             new == Taking(replaying, r, NULL)
  <1>1. /\ m # NULL /\ replaying' = new
        /\ IF m.attempts >= MaxAttempts
           THEN parked' = <<m>> \o parked /\ queue' = queue
           ELSE queue' = <<m>> \o queue /\ parked' = parked
        /\ UNCHANGED <<dlq, window, stored, clickCount, drain, pushed, opened,
                       givenUp, losses, replays>>
    BY Zenon DEF Clicks!ReplayPush, Clicks!rowVars, Clicks!LPush, Taking
  <1>2. /\ queue \in Seq(M) /\ replaying \in [Replayer -> M \cup {NULL}] /\ losses \in Nat
        /\ ListsOK(queue, dlq, parked, replaying, drain) /\ opened \in Nat
    BY ClickKnown, Zenon
  <1>3. m \in M
    BY <1>1, <1>2
  <1>4. queue' = <<m>> \o queue /\ parked' = parked
    <2>1. m.attempts < MaxAttempts
      BY <1>3, CarriesAttempts
    <2>2. m.attempts \in Nat /\ MaxAttempts \in Nat
      BY <1>3, ClickParameters DEF Clicks!Message
    <2>3. ~(m.attempts >= MaxAttempts)
      BY <2>1, <2>2
    <2> QED BY <1>1, <2>3, Zenon
  <1>5. /\ new \in [Replayer -> M \cup {NULL}]
        /\ \A B \in SUBSET M :
                ReplayedOf(replaying, B) = ReplayedOf(new, B) + IF m \in B THEN 1 ELSE 0
    BY <1>3, ReplayLetsGo
  <1> HIDE DEF m, new
  <1>6. /\ queue' \in Seq(M)
        /\ \A B : Occurs(queue', B) = Occurs(queue, B) + IF m \in B THEN 1 ELSE 0
    <2>1. \A B : Occurs(<<m>> \o queue, B) = Occurs(queue, B) + IF m \in B THEN 1 ELSE 0
      BY <1>2, <1>3, OccursPush, Zenon
    <2>2. <<m>> \o queue \in Seq(M)
      <3> HIDE DEF M
      <3> QED BY <1>2, <1>3
    <2> QED BY <1>4, <2>1, <2>2, Zenon
  <1>7. Clicks!DrainsHold' /\ drain' \in [Worker -> Clicks!Drain]
    BY <1>1, DrainsRest, Zenon
  <1>8. Clicks!TypeOK'
    <2>1. /\ dlq' \in Seq(M) /\ parked' \in Seq(M)
          /\ window' \subseteq {visitor} /\ stored' \in [ClickId -> Nat]
          /\ clickCount' \in Nat /\ pushed' \subseteq ClickId /\ opened' \in Nat
          /\ givenUp' \in [ClickId -> Nat] /\ losses' \in Nat /\ replays' \in Nat
      BY <1>1, <1>4, ClickKnown, Zenon
    <2>2. Clicks!TypeOK
      BY ClickKnown, Zenon
    <2>3. replaying' \in [Replayer -> M \cup {NULL}]
      BY <1>1, <1>5, Zenon
    <2> QED BY <1>6, <1>7, <2>1, <2>2, <2>3, ClickTypesStay, Zenon
  <1>9. ASSUME NEW B \in SUBSET M
        PROVE  /\ There(B) = Here(B) /\ AsideThere(B) <= AsideHere(B)
               /\ AsideHere(B) \in Nat /\ AsideThere(B) \in Nat
    <2>1. /\ Occurs(queue, B) \in Nat /\ Occurs(dlq, B) \in Nat /\ Occurs(parked, B) \in Nat
          /\ ReplayedOf(replaying, B) \in Nat /\ HeldByAll(drain, B) \in Nat
          /\ FailedOfAll(drain, B) \in Nat /\ AsideHere(B) \in Nat
      BY <1>2, WayType, Zenon DEF AsideHere
    <2>2. ReplayedOf(new, B) \in Nat
      BY <1>5, ReplayedType, Zenon
    <2> DEFINE q0 == Occurs(queue, B)
               q1 == Occurs(queue', B)
               l == Occurs(dlq, B)
               p == Occurs(parked, B)
               r0 == ReplayedOf(replaying, B)
               r1 == ReplayedOf(new, B)
               h == HeldByAll(drain, B)
               f == FailedOfAll(drain, B)
    <2>3. /\ Here(B) = q0 + l + r0 + h /\ AsideHere(B) = l + p + r0 + f
      BY Zenon DEF Here, AsideHere, Way, Aside
    <2>4. /\ There(B) = q1 + l + r1 + h /\ AsideThere(B) = l + p + r1 + f
      <3>1. dlq' = dlq /\ parked' = parked /\ drain' = drain /\ replaying' = new
        BY <1>1, <1>4, Zenon
      <3> QED BY <3>1, Zenon DEF There, AsideThere, Way, Aside
    <2>5. r0 = r1 + (IF m \in B THEN 1 ELSE 0) /\ q1 = q0 + (IF m \in B THEN 1 ELSE 0)
      BY <1>5, <1>6, Zenon
    <2>6. /\ q0 \in Nat /\ l \in Nat /\ p \in Nat /\ r0 \in Nat /\ r1 \in Nat /\ h \in Nat
          /\ f \in Nat
      BY <2>1, <2>2, Zenon
    <2> HIDE DEF q0, q1, l, p, r0, r1, h, f
    <2>7. There(B) = Here(B) /\ AsideThere(B) <= AsideHere(B) /\ AsideThere(B) \in Nat
      BY ONLY <2>3, <2>4, <2>5, <2>6
    <2> QED BY <2>1, <2>7, Zenon
  <1>10. AsideThere(Clicks!GoodOnes) - losses' <= AsideHere(Clicks!GoodOnes) - losses
    <2>1. /\ AsideThere(Clicks!GoodOnes) <= AsideHere(Clicks!GoodOnes)
          /\ AsideHere(Clicks!GoodOnes) \in Nat /\ AsideThere(Clicks!GoodOnes) \in Nat
      BY <1>9, OfType, Zenon
    <2>2. losses' = losses
      BY <1>1, Zenon
    <2> QED BY <1>2, <2>1, <2>2
  <1>11. \A B \in SUBSET Clicks!Message : There(B) = Here(B)
    BY <1>9, Zenon
  <1>12. /\ pushed' = pushed /\ givenUp' = givenUp /\ stored' = stored
         /\ clickCount' = clickCount /\ parked' = parked
    BY <1>1, <1>4, Zenon
  <1>13. opened' >= opened /\ losses' >= losses
    BY <1>1, <1>2
  <1> QED BY ONLY Clicks!ClickInv, <1>7, <1>8, <1>10, <1>11, <1>12, <1>13, ClickMoves

\* Nothing but the window and the counts of history moves.
LEMMA ClickQuiet ==
    ASSUME Clicks!ClickInv, window' \subseteq {visitor},
           opened' \in Nat, opened' >= opened, losses' \in Nat, losses' >= losses,
           UNCHANGED <<queue, dlq, parked, stored, clickCount, drain, replaying, pushed,
                       givenUp, replays>>
    PROVE  Clicks!ClickInv'
  <1>1. Clicks!DrainsHold' /\ drain' \in [Worker -> Clicks!Drain]
    BY DrainsRest, Zenon
  <1>2. Clicks!TypeOK'
    <2>1. /\ queue' \in Seq(Clicks!Message) /\ dlq' \in Seq(Clicks!Message)
          /\ parked' \in Seq(Clicks!Message) /\ stored' \in [ClickId -> Nat]
          /\ clickCount' \in Nat /\ pushed' \subseteq ClickId
          /\ replaying' \in [Replayer -> Clicks!Message \cup {NULL}]
          /\ givenUp' \in [ClickId -> Nat] /\ replays' \in Nat
      BY ClickKnown, Zenon
    <2>2. Clicks!TypeOK
      BY ClickKnown, Zenon
    <2> QED BY <1>1, <2>1, <2>2, ClickTypesStay, Zenon
  <1>3. \A B : There(B) = Here(B) /\ AsideThere(B) = AsideHere(B)
    BY Zenon DEF There, Here, AsideThere, AsideHere
  <1>4. AsideThere(Clicks!GoodOnes) - losses' <= AsideHere(Clicks!GoodOnes) - losses
    <2>1. AsideHere(Clicks!GoodOnes) \in Nat
      BY ClickKnown, WayType, Zenon DEF AsideHere
    <2>2. losses \in Nat
      BY ClickKnown
    <2>3. AsideThere(Clicks!GoodOnes) = AsideHere(Clicks!GoodOnes)
      BY <1>3, Zenon
    <2> QED BY <2>1, <2>2, <2>3
  <1>5. \A B \in SUBSET Clicks!Message : There(B) = Here(B)
    BY <1>3, Zenon
  <1>6. /\ pushed' = pushed /\ givenUp' = givenUp /\ stored' = stored
        /\ clickCount' = clickCount /\ parked' = parked
    BY Zenon
  <1> QED BY <1>1, <1>2, <1>4, <1>5, <1>6, ClickMoves

LEMMA ClickWindow ==
    ASSUME Clicks!ClickInv, NEW v \in {visitor},
           Clicks!VisitLost(v) \/ Clicks!WindowCloses(v)
    PROVE  Clicks!ClickInv'
  <1>1. window \subseteq {visitor} /\ opened \in Nat /\ losses \in Nat
    BY ClickKnown
  <1>2. CASE Clicks!VisitLost(v)
    <2>1. /\ losses' = losses + 1 /\ window' = window \cup {v}
          /\ opened' = IF v \in window THEN opened ELSE opened + 1
          /\ UNCHANGED <<queue, dlq, parked, stored, clickCount, drain, replaying, pushed,
                         givenUp, replays>>
      BY <1>2, Zenon DEF Clicks!VisitLost, Clicks!listVars, Clicks!rowVars
    <2>2. /\ window' \subseteq {visitor} /\ opened' \in Nat /\ opened' >= opened
          /\ losses' \in Nat /\ losses' >= losses
      BY <1>1, <2>1
    <2> QED BY ONLY Clicks!ClickInv, <2>1, <2>2, ClickQuiet
  <1>3. CASE Clicks!WindowCloses(v)
    <2>1. /\ losses' = losses /\ window' = window \ {v} /\ opened' = opened
          /\ UNCHANGED <<queue, dlq, parked, stored, clickCount, drain, replaying, pushed,
                         givenUp, replays>>
      BY <1>3, Zenon DEF Clicks!WindowCloses, Clicks!listVars, Clicks!rowVars
    <2>2. /\ window' \subseteq {visitor} /\ opened' \in Nat /\ opened' >= opened
          /\ losses' \in Nat /\ losses' >= losses
      BY <1>1, <2>1
    <2> QED BY ONLY Clicks!ClickInv, <2>1, <2>2, ClickQuiet
  <1> QED BY <1>2, <1>3, Zenon

-----------------------------------------------------------------------------
(* The redirect. *)

\* A click is pushed for the first time.
LEMMA ClickPushed ==
    ASSUME Clicks!ClickInv, NEW c \in ClickId, c \notin pushed, NEW b \in BOOLEAN,
           NEW m \in Clicks!Message, m.click = c, m.counted = b, m.attempts = 0,
           queue' = <<m>> \o queue, pushed' = pushed \cup {c},
           window' \subseteq {visitor}, opened' \in Nat,
           opened' >= opened + (IF b THEN 1 ELSE 0),
           UNCHANGED <<dlq, parked, stored, clickCount, drain, replaying, givenUp,
                       losses, replays>>
    PROVE  Clicks!ClickInv'
  <1> DEFINE M == Clicks!Message
  <1>1. /\ Clicks!TypeOK /\ Clicks!DrainsHold /\ Clicks!NoneDoubled
        /\ Cardinality(Clicks!Missing) <= BatchMax * losses
        /\ AsideHere(Clicks!GoodOnes) <= losses
        /\ Clicks!AttemptsAreCarried
        /\ clickCount + (Here(Clicks!Countable) + Occurs(parked, Clicks!Countable))
              <= opened
    BY ClickInvParts, Zenon
  <1>2. /\ queue \in Seq(M) /\ losses \in Nat /\ pushed \subseteq ClickId
        /\ ListsOK(queue, dlq, parked, replaying, drain) /\ opened \in Nat
        /\ clickCount \in Nat /\ stored \in [ClickId -> Nat]
    BY ClickKnown, Zenon
  <1>3. m \in M /\ m.click = c /\ m.counted = b /\ m.attempts = 0
    OBVIOUS
  <1>4. /\ IsFiniteSet(pushed)
        /\ \A x \in ClickId : Clicks!Copies(x) <= IF x \in pushed THEN 1 ELSE 0
        /\ \A x \in ClickId \ pushed : givenUp[x] = 0
    BY <1>1, ClickCounts, Zenon DEF Clicks!NoneDoubled
  <1>5. /\ queue' \in Seq(M)
        /\ \A B : Occurs(queue', B) = Occurs(queue, B) + IF m \in B THEN 1 ELSE 0
    <2>1. \A B : Occurs(<<m>> \o queue, B) = Occurs(queue, B) + IF m \in B THEN 1 ELSE 0
      BY <1>2, <1>3, OccursPush, Zenon
    <2>2. <<m>> \o queue \in Seq(M)
      <3>1. queue \in Seq(M) /\ m \in M
        BY <1>2, <1>3
      <3> HIDE DEF M
      <3> QED BY ONLY <3>1
    <2>3. queue' = <<m>> \o queue
      OBVIOUS
    <2> QED BY ONLY <2>1, <2>2, <2>3, Zenon
  <1>6. Clicks!DrainsHold' /\ drain' \in [Worker -> Clicks!Drain]
    BY DrainsRest, Zenon
  <1>7. Clicks!TypeOK'
    <2>1. /\ dlq' \in Seq(M) /\ parked' \in Seq(M) /\ stored' \in [ClickId -> Nat]
          /\ clickCount' \in Nat /\ replaying' \in [Replayer -> M \cup {NULL}]
          /\ givenUp' \in [ClickId -> Nat] /\ losses' \in Nat /\ replays' \in Nat
      BY ClickKnown, Zenon
    <2>2. pushed' \subseteq ClickId
      BY <1>2
    <2> QED BY <1>1, <1>5, <1>6, <2>1, <2>2, ClickTypesStay, Zenon
  <1>8. parked' = parked /\ losses' = losses /\ stored' = stored /\ givenUp' = givenUp
        /\ clickCount' = clickCount
    BY Zenon
  <1>9. ASSUME NEW B
        PROVE  /\ There(B) = Here(B) + (IF m \in B THEN 1 ELSE 0)
               /\ Here(B) \in Nat /\ Occurs(parked, B) \in Nat
               /\ AsideThere(B) = AsideHere(B)
    <2>1. /\ Occurs(queue, B) \in Nat /\ Occurs(dlq, B) \in Nat /\ Occurs(parked, B) \in Nat
          /\ ReplayedOf(replaying, B) \in Nat /\ HeldByAll(drain, B) \in Nat
      BY <1>2, WayType, Zenon
    <2> DEFINE q0 == Occurs(queue, B)
               q1 == Occurs(queue', B)
               l == Occurs(dlq, B)
               r == ReplayedOf(replaying, B)
               h == HeldByAll(drain, B)
    <2>2. Here(B) = q0 + l + r + h /\ There(B) = q1 + l + r + h
      <3>1. dlq' = dlq /\ drain' = drain /\ replaying' = replaying
        BY Zenon
      <3> QED BY <3>1, Zenon DEF Here, There, Way
    <2>3. q1 = q0 + (IF m \in B THEN 1 ELSE 0)
      BY <1>5, Zenon
    <2>4. q0 \in Nat /\ l \in Nat /\ r \in Nat /\ h \in Nat
      BY <2>1, Zenon
    <2> HIDE DEF q0, q1, l, r, h
    <2>5. There(B) = Here(B) + (IF m \in B THEN 1 ELSE 0) /\ Here(B) \in Nat
      BY ONLY <2>2, <2>3, <2>4
    <2>6. AsideThere(B) = AsideHere(B)
      BY Zenon DEF AsideThere, AsideHere
    <2> QED BY <2>1, <2>5, <2>6, Zenon
  <1>10. ASSUME NEW x \in ClickId
         PROVE  /\ Clicks!Copies(x)' = Clicks!Copies(x) + (IF x = c THEN 1 ELSE 0)
                /\ Clicks!Copies(x) \in Nat
    <2> DEFINE B == Clicks!Of(x)
               h == Here(B)
               t == There(B)
               p == Occurs(parked, B)
               n == stored[x]
               u == Clicks!Copies(x)
               v == Clicks!Copies(x)'
    <2>1. m \in B <=> x = c
      <3>1. m \in B <=> m.click = x
        BY <1>3, OfType, Zenon
      <3> QED BY <1>3, <3>1
    <2>2. t = h + (IF m \in B THEN 1 ELSE 0) /\ h \in Nat /\ p \in Nat
      BY <1>9, Zenon
    <2>3. n \in Nat
      BY <1>2
    <2>4. u = n + (h + p)
      BY ClickCopies, Zenon
    <2>5. v = n + (t + p)
      <3>1. v = stored'[x] + (There(B) + Occurs(parked', B))
        BY ClickCopies, Zenon
      <3> QED BY <1>8, <3>1, Zenon
    <2> HIDE DEF B, h, t, p, n, u, v
    <2>6. v = u + (IF x = c THEN 1 ELSE 0) /\ u \in Nat
      BY ONLY <2>1, <2>2, <2>3, <2>4, <2>5
    <2> QED BY <2>6 DEF u, v
  <1>11. Clicks!NoneDoubled'
    <2>1. IsFiniteSet(pushed')
      BY <1>4, FS_AddElement
    <2>2. ASSUME NEW x \in ClickId
          PROVE  Clicks!Copies(x)' <= IF x \in pushed' THEN 1 ELSE 0
      <3> DEFINE u == Clicks!Copies(x)
                 v == Clicks!Copies(x)'
      <3>1. v = u + (IF x = c THEN 1 ELSE 0) /\ u \in Nat
            /\ u <= IF x \in pushed THEN 1 ELSE 0
        BY <1>4, <1>10, Zenon
      <3> HIDE DEF u, v
      <3>2. v <= IF x \in pushed' THEN 1 ELSE 0
        BY <3>1
      <3> QED BY <3>2 DEF v
    <2>3. \A x \in ClickId \ pushed' : givenUp'[x] = 0
      BY <1>4, <1>8
    <2> QED BY <2>1, <2>2, <2>3, ClickCounts, Zenon DEF Clicks!NoneDoubled
  <1>12. Cardinality(Clicks!Missing') <= BatchMax * losses'
    <2>1. ASSUME NEW x \in pushed' \ Malformed, Clicks!Copies(x)' = 0
          PROVE  x \in pushed /\ Clicks!Copies(x) = 0
      <3>1. x \in ClickId
        BY <1>2
      <3> DEFINE u == Clicks!Copies(x)
                 v == Clicks!Copies(x)'
      <3>2. v = u + (IF x = c THEN 1 ELSE 0) /\ u \in Nat /\ v = 0
        BY <1>10, <2>1, <3>1, Zenon
      <3> HIDE DEF u, v
      <3>3. x # c /\ u = 0
        BY <3>2
      <3> QED BY <3>3 DEF u
    <2>2. losses' >= losses
      BY <1>2, <1>8
    <2> QED BY <1>1, <1>4, <1>7, <2>1, <2>2, MissingStay
  <1>13. Clicks!AttemptsAreCarried'
    <2> DEFINE late == Clicks!Message \ OnTime(givenUp)
    <2>1. m \notin late
      <3>1. givenUp[m.click] = 0
        BY <1>3, <1>4
      <3>2. m.attempts < MaxAttempts
        BY <1>3, ClickParameters
      <3> QED BY <1>3, <3>1, <3>2 DEF OnTime
    <2>2. /\ Way(queue, dlq, replaying, drain, late) = 0
          /\ Occurs(parked, Clicks!Message \ InTime(givenUp)) = 0
      BY <1>1, ClickAttempts, Zenon
    <2> HIDE DEF late
    <2>3. There(late) = 0
      <3>1. Here(late) = 0
        BY <2>2, Zenon DEF Here
      <3>2. There(late) = Here(late) + (IF m \in late THEN 1 ELSE 0)
        BY <1>9, Zenon
      <3> QED BY <2>1, <3>1, <3>2
    <2>4. Way(queue', dlq', replaying', drain', Clicks!Message \ OnTime(givenUp')) = 0
      BY <1>8, <2>3, Zenon DEF There, late
    <2> QED BY <1>8, <2>2, <2>4, ClickAttempts, Zenon
  <1>14. AsideThere(Clicks!GoodOnes) <= losses'
    BY <1>1, <1>8, <1>9, Zenon
  <1>15. clickCount' + (There(Clicks!Countable) + Occurs(parked', Clicks!Countable))
           <= opened'
    <2> DEFINE B == Clicks!Countable
               h == Here(B)
               t == There(B)
               p == Occurs(parked, B)
               n == clickCount
               o == opened
               s == opened'
    <2>1. m \in B <=> b
      BY <1>3, OfType
    <2>2. t = h + (IF m \in B THEN 1 ELSE 0) /\ h \in Nat /\ p \in Nat
      BY <1>9, Zenon
    <2>3. n + (h + p) <= o /\ n \in Nat /\ o \in Nat
      BY <1>1, <1>2
    <2>4. s \in Nat /\ s >= o + (IF b THEN 1 ELSE 0)
      OBVIOUS
    <2>5. clickCount' = n /\ Occurs(parked', B) = p
      BY <1>8, Zenon
    <2> HIDE DEF B, h, t, p, n, o, s
    <2>6. n + (t + p) <= s
      BY ONLY <2>1, <2>2, <2>3, <2>4
    <2> QED BY <2>5, <2>6, Zenon DEF t, p, n, s, B
  <1> QED
    BY <1>6, <1>7, <1>11, <1>12, <1>13, <1>14, <1>15, ClickInvParts, Zenon

LEMMA ClickVisit ==
    ASSUME Clicks!ClickInv, NEW c \in ClickId, Clicks!Visit(c)
    PROVE  Clicks!ClickInv'
  <1> DEFINE b == visitor \notin window
             m == [click |-> c, counted |-> b, attempts |-> 0]
  <1>0. [x \in ClickId |-> visitor][c] = visitor
    OBVIOUS
  <1>1. /\ c \notin pushed \cup Malformed \cup Invalid
        /\ queue' = <<m>> \o queue
        /\ window' = window \cup {visitor}
        /\ opened' = (IF visitor \in window THEN opened ELSE opened + 1)
        /\ pushed' = pushed \cup {c}
        /\ UNCHANGED <<dlq, parked, stored, clickCount, drain, replaying, givenUp,
                       losses, replays>>
    BY <1>0, Zenon DEF Clicks!Visit, Clicks!rowVars, Clicks!LPush
  <1>2. opened \in Nat /\ window \subseteq {visitor}
    BY ClickKnown
  <1>3. b \in BOOLEAN /\ c \notin pushed
    BY <1>1
  <1>4. window' \subseteq {visitor} /\ opened' \in Nat
        /\ opened' >= opened + (IF b THEN 1 ELSE 0)
    BY <1>1, <1>2
  <1> HIDE DEF b
  <1>5. m \in Clicks!Message /\ m.click = c /\ m.counted = b /\ m.attempts = 0
    BY <1>3 DEF Clicks!Message
  <1> HIDE DEF m
  <1> QED BY <1>1, <1>3, <1>4, <1>5, ClickPushed

LEMMA ClickProduce ==
    ASSUME Clicks!ClickInv, NEW c \in ClickId, Clicks!Produce(c)
    PROVE  Clicks!ClickInv'
  <1> DEFINE m == [click |-> c, counted |-> FALSE, attempts |-> 0]
  <1>1. /\ c \in (Malformed \cup Invalid) \ pushed
        /\ queue' = <<m>> \o queue /\ pushed' = pushed \cup {c}
        /\ UNCHANGED <<dlq, parked, window, stored, clickCount, drain, replaying, opened,
                       givenUp, losses, replays>>
    BY Zenon DEF Clicks!Produce, Clicks!rowVars, Clicks!LPush
  <1>2. opened \in Nat /\ window \subseteq {visitor}
    BY ClickKnown
  <1>3. c \notin pushed /\ FALSE \in BOOLEAN
    BY <1>1
  <1>4. window' \subseteq {visitor} /\ opened' \in Nat
        /\ opened' >= opened + (IF FALSE THEN 1 ELSE 0)
    BY <1>1, <1>2
  <1>5. m \in Clicks!Message /\ m.click = c /\ m.counted = FALSE /\ m.attempts = 0
    BY <1>3 DEF Clicks!Message
  <1> HIDE DEF m
  <1> QED BY <1>1, <1>3, <1>4, <1>5, ClickPushed

-----------------------------------------------------------------------------
(* Crashes and commands that fail. *)

\* What nu counts, a batch at most, is lost.
LEMMA ClicksVanish ==
    ASSUME Clicks!ClickInv, Clicks!TypeOK', Clicks!DrainsHold', losses' = losses + 1,
           UNCHANGED <<parked, stored, clickCount, pushed, opened, givenUp>>,
           NEW nu, nu[Clicks!Message] <= BatchMax,
           \A B \in SUBSET Clicks!Message : nu[B] \in Nat,
           \A B, U \in SUBSET Clicks!Message : nu[B] = nu[B \ U] + nu[B \cap U],
           \A B \in SUBSET Clicks!Message : There(B) + nu[B] = Here(B),
           AsideThere(Clicks!GoodOnes) <= AsideHere(Clicks!GoodOnes)
    PROVE  Clicks!ClickInv'
  <1>1. /\ Clicks!TypeOK /\ Clicks!DrainsHold /\ Clicks!NoneDoubled
        /\ Cardinality(Clicks!Missing) <= BatchMax * losses
        /\ AsideHere(Clicks!GoodOnes) <= losses
        /\ Clicks!AttemptsAreCarried
        /\ clickCount + (Here(Clicks!Countable) + Occurs(parked, Clicks!Countable))
              <= opened
    BY ClickInvParts, Zenon
  <1>2. /\ ListsOK(queue, dlq, parked, replaying, drain)
        /\ ListsOK(queue', dlq', parked', replaying', drain')
        /\ losses \in Nat /\ clickCount \in Nat /\ opened \in Nat
        /\ stored \in [ClickId -> Nat]
    BY <1>1, ClickTypes, Zenon
  <1>3. /\ parked' = parked /\ stored' = stored /\ clickCount' = clickCount
        /\ pushed' = pushed /\ opened' = opened /\ givenUp' = givenUp
    BY Zenon
  <1>4. ASSUME NEW B \in SUBSET Clicks!Message
        PROVE  /\ There(B) <= Here(B) /\ There(B) \in Nat /\ Here(B) \in Nat
               /\ Occurs(parked', B) = Occurs(parked, B) /\ Occurs(parked, B) \in Nat
               /\ There(B) + nu[B] = Here(B) /\ nu[B] \in Nat
    <2> DEFINE a == There(B)
               b == Here(B)
               n == nu[B]
    <2>1. a \in Nat /\ b \in Nat /\ Occurs(parked, B) \in Nat
      BY <1>2, WayType, Zenon DEF Here, There
    <2>2. a + n = b /\ n \in Nat
      BY Zenon
    <2> HIDE DEF a, b, n
    <2>3. a <= b
      BY ONLY <2>1, <2>2
    <2> QED BY <1>3, <2>1, <2>2, <2>3, Zenon DEF a, b, n
  <1>5. ASSUME NEW c \in ClickId
        PROVE  /\ Clicks!Copies(c)' <= Clicks!Copies(c)
               /\ Clicks!Copies(c)' = 0 => Clicks!Copies(c) = 0 \/ nu[Clicks!Of(c)] > 0
    <2> DEFINE B == Clicks!Of(c)
               a == There(B)
               b == Here(B)
               n == nu[B]
               p == Occurs(parked, B)
               s == stored[c]
               u == Clicks!Copies(c)
               v == Clicks!Copies(c)'
    <2>1. a + n = b /\ a \in Nat /\ b \in Nat /\ n \in Nat /\ p \in Nat
      BY <1>4, OfType, Zenon
    <2>2. s \in Nat
      BY <1>2
    <2>3. u = s + (b + p)
      BY ClickCopies, Zenon
    <2>4. v = s + (a + p)
      <3>1. v = stored'[c] + (There(B) + Occurs(parked', B))
        BY ClickCopies, Zenon
      <3> QED BY <1>3, <3>1, Zenon
    <2> HIDE DEF B, a, b, n, p, s, u, v
    <2>5. v <= u /\ (v = 0 => u = 0 \/ n > 0)
      BY ONLY <2>1, <2>2, <2>3, <2>4
    <2> QED BY <2>5, Zenon DEF n, B, u, v
  <1>6. Clicks!NoneDoubled'
    BY <1>1, <1>3, <1>5, DoublesStay
  <1>7. Cardinality(Clicks!Missing') <= BatchMax * losses'
    <2>1. IsFiniteSet(pushed)
      BY <1>1, ClickCounts, Zenon DEF Clicks!NoneDoubled
    <2> QED BY <1>1, <1>3, <1>5, <2>1, MissingGrow
  <1>8. Clicks!AttemptsAreCarried'
    <2>1. ASSUME NEW B \in SUBSET Clicks!Message
          PROVE  There(B) <= Here(B) /\ Occurs(parked', B) <= Occurs(parked, B)
      BY <1>4
    <2> QED BY <1>1, <1>3, <2>1, AttemptsStay
  <1>9. AsideThere(Clicks!GoodOnes) <= losses'
    <2> DEFINE a == AsideThere(Clicks!GoodOnes)
               b == AsideHere(Clicks!GoodOnes)
               n == losses
               m == losses'
    <2>1. a \in Nat /\ b \in Nat
      BY <1>2, WayType, Zenon DEF AsideThere, AsideHere
    <2>2. n \in Nat /\ m = n + 1 /\ a <= b /\ b <= n
      BY <1>1, <1>2
    <2> HIDE DEF a, b, n, m
    <2>3. a <= m
      BY ONLY <2>1, <2>2
    <2> QED BY <2>3 DEF a, m
  <1>10. clickCount' + (There(Clicks!Countable) + Occurs(parked', Clicks!Countable))
           <= opened'
    <2> DEFINE B == Clicks!Countable
               a == There(B)
               b == Here(B)
               p == Occurs(parked, B)
               n == clickCount
               o == opened
    <2>1. a <= b /\ a \in Nat /\ b \in Nat /\ p \in Nat /\ Occurs(parked', B) = p
      BY <1>4, OfType, Zenon
    <2>2. n + (b + p) <= o /\ n \in Nat /\ o \in Nat
      BY <1>1, <1>2
    <2>3. clickCount' = n /\ opened' = o
      BY <1>3, Zenon
    <2> HIDE DEF B, a, b, p, n, o
    <2>4. n + (a + p) <= o
      BY ONLY <2>1, <2>2
    <2> QED BY <2>1, <2>3, <2>4, Zenon DEF B, a, b, p, n, o
  <1> QED
    BY <1>6, <1>7, <1>8, <1>9, <1>10, ClickInvParts, Zenon

\* A drain is lost with what it holds.
LEMMA ClickDrainLost ==
    ASSUME Clicks!ClickInv, NEW w \in Worker,
           drain' = [drain EXCEPT ![w] = Clicks!IdleDrain], losses' = losses + 1,
           UNCHANGED <<queue, dlq, parked, window, stored, clickCount, replaying, pushed,
                       opened, givenUp, replays>>
    PROVE  Clicks!ClickInv'
  <1> DEFINE d == drain[w]
             e == Clicks!IdleDrain
             M == Clicks!Message
             nu == [B \in SUBSET M |-> Held(d, B)]
  <1>1. /\ d \in Clicks!Drain /\ Holds(d) /\ queue \in Seq(M)
        /\ losses \in Nat /\ drain \in [Worker -> Clicks!Drain]
    BY ClickKnown, Zenon
  <1>2. e \in Clicks!Drain /\ Holds(e)
    BY IdleHolds, Zenon
  <1>3. OneDrain(drain, drain', w, e)
    BY <1>1, <1>2, OneDrainIs
  <1>4. Clicks!DrainsHold' /\ drain' \in [Worker -> Clicks!Drain]
    BY <1>2, <1>3, HoldsStay
  <1>5. /\ dlq' = dlq /\ parked' = parked /\ replaying' = replaying /\ queue' = queue
    BY Zenon
  <1>6. Clicks!TypeOK'
    <2>1. /\ queue' \in Seq(M) /\ dlq' \in Seq(M) /\ parked' \in Seq(M)
          /\ window' \subseteq {visitor} /\ stored' \in [ClickId -> Nat]
          /\ clickCount' \in Nat
          /\ replaying' \in [Replayer -> M \cup {NULL}]
          /\ pushed' \subseteq ClickId /\ opened' \in Nat
          /\ givenUp' \in [ClickId -> Nat] /\ replays' \in Nat
      BY ClickKnown, Zenon
    <2>2. Clicks!TypeOK
      BY ClickKnown, Zenon
    <2>3. losses' \in Nat
      BY <1>1
    <2> QED BY <1>4, <2>1, <2>2, <2>3, ClickTypesStay, Zenon
  <1> HIDE DEF e, d
  <1>7. \A B : /\ There(B) + Held(d, B) = Here(B)
               /\ AsideThere(B) <= AsideHere(B)
    <2> SUFFICES ASSUME NEW B
                 PROVE  /\ There(B) + Held(d, B) = Here(B)
                        /\ AsideThere(B) <= AsideHere(B)
      OBVIOUS
    <2>0. queue' \in Seq(M)
      BY <1>1, <1>5, Zenon
    <2> DEFINE q0 == Occurs(queue, B)
               q1 == Occurs(queue', B)
               a0 == Held(d, B)
               a1 == Held(e, B)
               b0 == Occurs(d.failed, B)
               b1 == Occurs(e.failed, B)
    <2>1. /\ There(B) = Here(B) + q1 - q0 + a1 - a0
          /\ AsideThere(B) = AsideHere(B) + b1 - b0
          /\ Here(B) \in Nat /\ q0 \in Nat /\ q1 \in Nat /\ a0 \in Nat
          /\ AsideHere(B) \in Nat /\ b0 \in Nat
      BY <1>2, <1>3, <1>5, <2>0, DrainThere, Zenon DEF d
    <2>2. a1 = 0 /\ b1 = 0
      BY IdleHolds, Zenon DEF e
    <2>3. q1 = q0
      BY <1>5, Zenon
    <2> HIDE DEF q0, q1, a0, a1, b0, b1
    <2>4. There(B) + a0 = Here(B) /\ AsideThere(B) <= AsideHere(B)
      BY ONLY <2>1, <2>2, <2>3
    <2> QED BY <2>4 DEF a0
  <1>8. Held(d, M) <= BatchMax
    <2>1. Held(d, M) <= d.pops /\ d.pops <= BatchMax
      BY <1>1, Zenon DEF Holds
    <2>2. Held(d, M) \in Nat /\ d.pops \in Nat /\ BatchMax \in Nat
      BY <1>1, HeldType, DrainFields, ClickParameters
    <2> QED BY <2>1, <2>2
  <1>9. /\ \A B \in SUBSET M : nu[B] = Held(d, B) /\ nu[B] \in Nat
    BY <1>1, HeldType
  <1>10. \A B, U \in SUBSET M : nu[B] = nu[B \ U] + nu[B \cap U]
    <2>0. \A A, V : Held(d, A) = Held(d, A \ V) + Held(d, A \cap V)
      BY <1>1, HeldSplit
    <2> TAKE B, U \in SUBSET M
    <2>1. Held(d, B) = Held(d, B \ U) + Held(d, B \cap U)
      BY <2>0, Zenon
    <2>2. B \ U \in SUBSET M /\ B \cap U \in SUBSET M
      OBVIOUS
    <2> HIDE DEF nu
    <2> QED BY <1>9, <2>1, <2>2, Zenon
  <1>11. nu[M] <= BatchMax
    <2>1. M \in SUBSET M
      OBVIOUS
    <2> HIDE DEF nu
    <2> QED BY <1>8, <1>9, <2>1
  <1> HIDE DEF nu
  <1>12. \A B \in SUBSET M : There(B) + nu[B] = Here(B)
    BY <1>7, <1>9, Zenon
  <1>13. /\ \A B \in SUBSET M : nu[B] \in Nat
         /\ AsideThere(Clicks!GoodOnes) <= AsideHere(Clicks!GoodOnes)
         /\ UNCHANGED <<parked, stored, clickCount, pushed, opened, givenUp>>
    BY <1>7, <1>9, Zenon
  <1> QED
    BY ONLY Clicks!ClickInv, losses' = losses + 1, <1>4, <1>6, <1>10, <1>11, <1>12, <1>13,
       ClicksVanish

\* How many there are of a single message in a set.
One(m, B) == IF m \in B THEN 1 ELSE 0

LEMMA OneType ==
    ASSUME NEW m, NEW B, NEW U
    PROVE  /\ One(m, B) \in Nat /\ One(m, B) <= 1
           /\ One(m, B) = One(m, B \ U) + One(m, B \cap U)
  BY DEF One

\* A replay is lost with the message it holds.
LEMMA ClickReplayLost ==
    ASSUME Clicks!ClickInv, NEW r \in Replayer, replaying[r] # NULL,
           replaying' = [replaying EXCEPT ![r] = NULL], losses' = losses + 1,
           UNCHANGED <<queue, dlq, parked, window, stored, clickCount, drain, pushed,
                       opened, givenUp, replays>>
    PROVE  Clicks!ClickInv'
  <1> DEFINE m == replaying[r]
             M == Clicks!Message
             nu == [B \in SUBSET M |-> One(m, B)]
             new == Taking(replaying, r, NULL)
  <1>1. /\ ListsOK(queue, dlq, parked, replaying, drain)
        /\ losses \in Nat /\ replaying \in [Replayer -> M \cup {NULL}]
    BY ClickKnown, Zenon
  <1>2. m \in M
    BY <1>1
  <1>3. /\ new \in [Replayer -> M \cup {NULL}]
        /\ \A B \in SUBSET M : ReplayedOf(replaying, B) = ReplayedOf(new, B) + One(m, B)
    BY <1>2, ReplayLetsGo DEF One
  <1>4. Clicks!DrainsHold' /\ drain' \in [Worker -> Clicks!Drain]
    BY DrainsRest, Zenon
  <1>5. /\ replaying' = new
        /\ dlq' = dlq /\ parked' = parked /\ drain' = drain /\ queue' = queue
    BY Zenon DEF Taking
  <1>6. Clicks!TypeOK'
    <2>1. /\ queue' \in Seq(M) /\ dlq' \in Seq(M) /\ parked' \in Seq(M)
          /\ window' \subseteq {visitor} /\ stored' \in [ClickId -> Nat]
          /\ clickCount' \in Nat /\ pushed' \subseteq ClickId /\ opened' \in Nat
          /\ givenUp' \in [ClickId -> Nat] /\ replays' \in Nat
      BY ClickKnown, Zenon
    <2>2. Clicks!TypeOK
      BY ClickKnown, Zenon
    <2>3. losses' \in Nat
      BY <1>1
    <2>4. replaying' \in [Replayer -> M \cup {NULL}]
      BY <1>3, <1>5, Zenon
    <2> QED BY <1>4, <2>1, <2>2, <2>3, <2>4, ClickTypesStay, Zenon
  <1> HIDE DEF m, new
  <1>7. ASSUME NEW B \in SUBSET M
        PROVE  There(B) + One(m, B) = Here(B) /\ AsideThere(B) <= AsideHere(B)
    <2> DEFINE q == Occurs(queue, B)
               l == Occurs(dlq, B)
               p == Occurs(parked, B)
               r0 == ReplayedOf(replaying, B)
               r1 == ReplayedOf(new, B)
               h == HeldByAll(drain, B)
               f == FailedOfAll(drain, B)
               n == One(m, B)
    <2>1. /\ q \in Nat /\ l \in Nat /\ p \in Nat /\ r0 \in Nat /\ h \in Nat /\ f \in Nat
      BY <1>1, WayType, Zenon
    <2>2. r1 \in Nat
      BY <1>3, ReplayedType, Zenon
    <2>3. /\ Here(B) = q + l + r0 + h /\ AsideHere(B) = l + p + r0 + f
      BY Zenon DEF Here, AsideHere, Way, Aside
    <2>4. /\ There(B) = q + l + r1 + h /\ AsideThere(B) = l + p + r1 + f
      BY <1>5, Zenon DEF There, AsideThere, Way, Aside
    <2>5. r0 = r1 + n /\ n \in Nat
      BY <1>3, OneType, Zenon
    <2> HIDE DEF q, l, p, r0, r1, h, f, n
    <2>6. There(B) + n = Here(B) /\ AsideThere(B) <= AsideHere(B)
      BY ONLY <2>1, <2>2, <2>3, <2>4, <2>5
    <2> QED BY <2>6, Zenon DEF n
  <1>8. \A B \in SUBSET M : nu[B] = One(m, B) /\ nu[B] \in Nat
    BY OneType
  <1>9. \A B, U \in SUBSET M : nu[B] = nu[B \ U] + nu[B \cap U]
    <2>0. \A A, V : One(m, A) = One(m, A \ V) + One(m, A \cap V)
      BY DEF One
    <2> TAKE B, U \in SUBSET M
    <2>1. One(m, B) = One(m, B \ U) + One(m, B \cap U)
      BY <2>0, Zenon
    <2>2. B \ U \in SUBSET M /\ B \cap U \in SUBSET M
      OBVIOUS
    <2> HIDE DEF nu
    <2> QED BY <1>8, <2>1, <2>2, Zenon
  <1>10. nu[M] <= BatchMax
    <2>1. M \in SUBSET M
      OBVIOUS
    <2>2. One(m, M) \in Nat /\ One(m, M) <= 1 /\ BatchMax \in Nat \ {0}
      BY OneType, ClickParameters, Zenon
    <2> HIDE DEF nu
    <2> QED BY <1>8, <2>1, <2>2
  <1> HIDE DEF nu
  <1>11. \A B \in SUBSET M : There(B) + nu[B] = Here(B)
    BY <1>7, <1>8, Zenon
  <1>12. /\ \A B \in SUBSET M : nu[B] \in Nat
         /\ AsideThere(Clicks!GoodOnes) <= AsideHere(Clicks!GoodOnes)
         /\ UNCHANGED <<parked, stored, clickCount, pushed, opened, givenUp>>
    BY <1>7, <1>8, OfType, Zenon
  <1> QED
    BY ONLY Clicks!ClickInv, losses' = losses + 1, <1>4, <1>6, <1>9, <1>10, <1>11, <1>12,
       ClicksVanish

LEMMA ClickPopFails ==
    ASSUME Clicks!ClickInv, NEW w \in Worker, Clicks!PopFails(w)
    PROVE  Clicks!ClickInv'
  <1>1. /\ drain' = [drain EXCEPT ![w] = Clicks!IdleDrain] /\ losses' = losses + 1
        /\ UNCHANGED <<queue, dlq, parked, window, stored, clickCount, replaying, pushed,
                       opened, givenUp, replays>>
    BY Zenon DEF Clicks!PopFails, Clicks!listVars, Clicks!rowVars
  <1> QED BY <1>1, ClickDrainLost, Zenon

LEMMA ClickCrash ==
    ASSUME Clicks!ClickInv, Clicks!Crash
    PROVE  Clicks!ClickInv'
  <1>1. /\ losses' = losses + 1
        /\ UNCHANGED <<queue, dlq, parked, window, stored, clickCount, pushed, opened,
                       givenUp, replays>>
    BY Zenon DEF Clicks!Crash, Clicks!listVars, Clicks!rowVars
  <1>2. ASSUME NEW w \in Worker, drain' = [drain EXCEPT ![w] = Clicks!IdleDrain],
               UNCHANGED replaying
        PROVE  Clicks!ClickInv'
    <2>1. UNCHANGED <<queue, dlq, parked, window, stored, clickCount, replaying, pushed,
                       opened, givenUp, replays>>
      BY <1>1, <1>2, Zenon
    <2> QED BY <1>1, <1>2, <2>1, ClickDrainLost, Zenon
  <1>3. ASSUME NEW r \in Replayer, replaying[r] # NULL,
               replaying' = [replaying EXCEPT ![r] = NULL], UNCHANGED drain
        PROVE  Clicks!ClickInv'
    <2>1. UNCHANGED <<queue, dlq, parked, window, stored, clickCount, drain, pushed,
                       opened, givenUp, replays>>
      BY <1>1, <1>3, Zenon
    <2> QED BY <1>1, <1>3, <2>1, ClickReplayLost, Zenon
  <1> QED BY <1>2, <1>3, Zenon DEF Clicks!Crash

-----------------------------------------------------------------------------
(* deadLetter. *)

LEMMA OneDrainBuries ==
    ASSUME NEW dr \in [Worker -> Clicks!Drain], NEW w \in Worker,
           Burying(dr[w], Tail(dr[w].failed)) \in Clicks!Drain,
           NEW dn, dn = [dr EXCEPT ![w].failed = Tail(@)]
    PROVE  OneDrain(dr, dn, w, Burying(dr[w], Tail(dr[w].failed)))
  <1>1. dn = [dr EXCEPT ![w] = Burying(dr[w], Tail(dr[w].failed))]
    BY DEF Burying
  <1> QED BY <1>1, OneDrainIs, Zenon

\* The first message that failed leaves its drain.
LEMMA BuryTakes ==
    ASSUME Clicks!ClickInv, NEW w \in Worker, drain[w].failed # <<>>,
           drain' = [drain EXCEPT ![w].failed = Tail(@)]
    PROVE  /\ Head(drain[w].failed) \in Clicks!Message
           /\ Occurs(drain[w].failed, {Head(drain[w].failed)}) > 0
           /\ \E e \in Clicks!Drain :
                /\ Holds(e) /\ OneDrain(drain, drain', w, e)
                /\ \A B : /\ Held(drain[w], B) = Held(e, B) + One(Head(drain[w].failed), B)
                          /\ Occurs(drain[w].failed, B)
                                = Occurs(e.failed, B) + One(Head(drain[w].failed), B)
  <1> DEFINE d == drain[w]
             x == d.failed
             m == Head(x)
             f == Tail(x)
             e == Burying(d, f)
             M == Clicks!Message
  <1>1. /\ d \in Clicks!Drain /\ Holds(d) /\ drain \in [Worker -> Clicks!Drain]
    BY ClickKnown, Zenon
  <1>2. x \in Seq(M) /\ x # <<>> /\ d.events \in Seq(M) /\ d.work \in Seq(Seq(M))
        /\ d.pops \in Nat
    BY <1>1, DrainFields, Zenon
  <1>3. m \in M /\ f \in Seq(M)
    <2> HIDE DEF M, x
    <2> QED BY <1>2
  <1>4. \A B : Occurs(x, B) = Occurs(f, B) + One(m, B)
    <2> HIDE DEF M, x
    <2> QED BY <1>2, OccursTail, Zenon DEF One
  <1>5. OneDrain(drain, drain', w, e) /\ Is(e, d.step, d.pops, d.events, d.work, f)
    <2>1. Is(e, d.step, d.pops, d.events, d.work, f)
      <3> HIDE DEF f, d
      <3> QED BY <1>1, <1>2, <1>3, DrainBecomes, Zenon
    <2>2. e \in Clicks!Drain
      BY <2>1, Zenon DEF Is
    <2> QED BY <1>1, <2>1, <2>2, OneDrainBuries
  <1> HIDE DEF e, f, m
  <1>6. \A B : Held(e, B) = Occurs(f, B) + Occurs(d.events, B) + OccursIn(d.work, B)
    BY <1>5, HeldOf
  <1>7. \A B : Held(d, B) = Occurs(x, B) + Occurs(d.events, B) + OccursIn(d.work, B)
    BY Zenon DEF Held
  <1>8. \A B : /\ Occurs(f, B) \in Nat /\ Occurs(d.events, B) \in Nat
               /\ OccursIn(d.work, B) \in Nat /\ One(m, B) \in Nat
    BY <1>2, <1>3, OccursType, OccursInType, OneType, Zenon
  <1>9. ASSUME NEW B
        PROVE  Held(d, B) = Held(e, B) + One(m, B) /\ Held(e, B) \in Nat /\ Held(d, B) \in Nat
    <2> DEFINE a == Occurs(x, B)
               b == Occurs(f, B)
               i == Occurs(d.events, B)
               k == OccursIn(d.work, B)
               n == One(m, B)
               u == Held(d, B)
               v == Held(e, B)
    <2>1. a = b + n /\ u = a + i + k /\ v = b + i + k
      BY <1>4, <1>6, <1>7, Zenon
    <2>2. b \in Nat /\ i \in Nat /\ k \in Nat /\ n \in Nat
      BY <1>8, Zenon
    <2> HIDE DEF a, b, i, k, n, u, v
    <2>3. u = v + n /\ v \in Nat /\ u \in Nat
      BY ONLY <2>1, <2>2
    <2> QED BY <2>3 DEF u, v, n
  <1>10. e \in Clicks!Drain /\ e.failed = f /\ e.step = d.step /\ e.pops = d.pops
         /\ e.events = d.events /\ e.work = d.work
    BY <1>5, Zenon DEF Is
  <1>11. Holds(e)
    <2>1. d.step # "idle"
      <3>1. SUFFICES ASSUME d = Clicks!IdleDrain PROVE FALSE
        BY <1>1, Zenon DEF Holds
      <3> QED BY <1>2, <3>1, IdleHolds, Zenon
    <2>2. Held(e, M) <= d.pops
      <3> DEFINE u == Held(d, M)
                 v == Held(e, M)
                 n == One(m, M)
      <3>1. u = v + n /\ u \in Nat /\ v \in Nat /\ n \in Nat /\ u <= d.pops
        BY <1>1, <1>8, <1>9, Zenon DEF Holds
      <3> HIDE DEF u, v, n, d
      <3>2. v <= d.pops
        BY <1>2, <3>1
      <3> QED BY <3>2 DEF v
    <2>3. /\ d.step = "popping" => d.work = <<>>
          /\ d.step = "committing" => d.events = <<>>
          /\ d.pops <= BatchMax
      BY <1>1, Zenon DEF Holds
    <2> QED BY <1>10, <2>1, <2>2, <2>3, Zenon DEF Holds
  <1>12. Occurs(x, {m}) > 0
    <2>1. One(m, {m}) = 1
      BY DEF One
    <2>2. Occurs(x, {m}) = Occurs(f, {m}) + One(m, {m}) /\ Occurs(f, {m}) \in Nat
      BY <1>4, <1>8, Zenon
    <2> QED BY <2>1, <2>2
  <1>13. \A B : Occurs(x, B) = Occurs(e.failed, B) + One(m, B)
    BY <1>4, <1>10, Zenon
  <1>14. \E y \in Clicks!Drain :
                /\ Holds(y) /\ OneDrain(drain, drain', w, y)
                /\ \A B : /\ Held(d, B) = Held(y, B) + One(m, B)
                          /\ Occurs(x, B) = Occurs(y.failed, B) + One(m, B)
    BY <1>5, <1>9, <1>10, <1>11, <1>13, Zenon
  <1> QED BY <1>3, <1>12, <1>14, Zenon DEF m

\* What deadLetter makes of a message.
LEMMA BuriedMessage ==
    ASSUME Clicks!ClickInv, NEW m \in Clicks!Message,
           m.attempts = givenUp[m.click], m.attempts < MaxAttempts,
           givenUp' = [givenUp EXCEPT ![Clicks!Envelope(m).click] = @ + 1]
    PROVE  /\ Clicks!Envelope(m) \in Clicks!Message
           /\ Clicks!Envelope(m).click = m.click
           /\ Clicks!Envelope(m).counted = m.counted
           /\ Clicks!Envelope(m).attempts = givenUp'[m.click]
           /\ givenUp'[m.click] = givenUp[m.click] + 1
           /\ Clicks!Envelope(m).attempts <= MaxAttempts
           /\ \A c \in ClickId \ {m.click} : givenUp'[c] = givenUp[c]
           /\ givenUp' \in [ClickId -> Nat]
  <1> DEFINE n == Clicks!Envelope(m)
  <1>1. /\ n \in Clicks!Message /\ n.click = m.click /\ n.counted = m.counted
        /\ n.attempts = m.attempts + 1 /\ m.click \in ClickId /\ m.attempts \in Nat
    BY DEF Clicks!Envelope, Clicks!Message
  <1>2. givenUp \in [ClickId -> Nat] /\ MaxAttempts \in Nat
    BY ClickKnown, ClickParameters
  <1>3. givenUp' = [givenUp EXCEPT ![m.click] = @ + 1]
    BY <1>1, Zenon
  <1> HIDE DEF n
  <1>4. /\ givenUp'[m.click] = givenUp[m.click] + 1
        /\ \A c \in ClickId \ {m.click} : givenUp'[c] = givenUp[c]
        /\ givenUp' \in [ClickId -> Nat]
    BY <1>1, <1>2, <1>3
  <1>5. n.attempts = givenUp'[m.click] /\ n.attempts <= MaxAttempts
    BY <1>1, <1>2, <1>4
  <1> QED BY <1>1, <1>4, <1>5, Zenon DEF n

\* A message is pushed or it is not.
MayPush(s, n, b) == IF b THEN <<n>> \o s ELSE s
Perhaps(b, x) == IF b THEN x ELSE 0

LEMMA MaybePushed ==
    ASSUME NEW s \in Seq(Clicks!Message), NEW n \in Clicks!Message, NEW b \in BOOLEAN
    PROVE  /\ MayPush(s, n, b) \in Seq(Clicks!Message)
           /\ \A B : Occurs(MayPush(s, n, b), B) = Occurs(s, B) + Perhaps(b, One(n, B))
  <1> DEFINE M == Clicks!Message
             t == MayPush(s, n, b)
  <1>1. s \in Seq(M) /\ n \in M
    OBVIOUS
  <1>2. <<n>> \o s \in Seq(M)
    <2> HIDE DEF M
    <2> QED BY <1>1
  <1>3. \A B : Occurs(<<n>> \o s, B) = Occurs(s, B) + One(n, B)
    <2> HIDE DEF M
    <2> QED BY <1>1, OccursPush, Zenon DEF One
  <1>4. CASE b
    BY <1>2, <1>3, <1>4, Zenon DEF MayPush, Perhaps
  <1>5. CASE ~b
    <2>1. t = s
      BY <1>5, Zenon DEF MayPush
    <2>2. \A B : Occurs(s, B) \in Nat
      BY OccursType
    <2>3. \A B : Occurs(s, B) = Occurs(s, B) + 0
      BY <2>2
    <2>4. \A B : Occurs(t, B) = Occurs(s, B) + 0
      BY <2>1, <2>3, Zenon
    <2> HIDE DEF t
    <2>5. \A B : Occurs(t, B) = Occurs(s, B) + Perhaps(b, One(n, B))
      BY <1>5, <2>4, Zenon DEF Perhaps
    <2> QED BY <2>1, <2>5, Zenon DEF t
  <1> QED BY <1>4, <1>5, Zenon

\* m leaves a drain, and n is set aside in its place if kept or put.
LEMMA BuryMoves ==
    ASSUME Clicks!ClickInv, NEW w \in Worker, NEW e \in Clicks!Drain,
           OneDrain(drain, drain', w, e),
           NEW m \in Clicks!Message, NEW n \in Clicks!Message,
           \A B : /\ Held(drain[w], B) = Held(e, B) + One(m, B)
                  /\ Occurs(drain[w].failed, B) = Occurs(e.failed, B) + One(m, B),
           NEW kept \in BOOLEAN, NEW put \in BOOLEAN,
           dlq' = MayPush(dlq, n, kept),
           parked' = MayPush(parked, n, put),
           queue' = queue, replaying' = replaying
    PROVE  /\ dlq' \in Seq(Clicks!Message) /\ parked' \in Seq(Clicks!Message)
           /\ \A B : /\ There(B) + One(m, B) = Here(B) + Perhaps(kept, One(n, B))
                     /\ Occurs(parked', B) = Occurs(parked, B) + Perhaps(put, One(n, B))
                     /\ AsideThere(B) + One(m, B)
                           = AsideHere(B) + Perhaps(kept, One(n, B))
                                          + Perhaps(put, One(n, B))
                     /\ There(B) \in Nat /\ AsideThere(B) \in Nat /\ Occurs(parked', B) \in Nat
  <1> DEFINE M == Clicks!Message
             d == drain[w]
  <1>1. /\ ListsOK(queue, dlq, parked, replaying, drain) /\ d \in Clicks!Drain
        /\ drain \in [Worker -> Clicks!Drain]
        /\ dlq \in Seq(M) /\ parked \in Seq(M) /\ queue \in Seq(M)
        /\ replaying \in [Replayer -> M \cup {NULL}]
    BY ClickKnown, Zenon
  <1>2. /\ dlq' \in Seq(M)
        /\ \A B : Occurs(dlq', B) = Occurs(dlq, B) + Perhaps(kept, One(n, B))
    <2>1. /\ MayPush(dlq, n, kept) \in Seq(Clicks!Message)
          /\ \A B : Occurs(MayPush(dlq, n, kept), B) = Occurs(dlq, B) + Perhaps(kept, One(n, B))
      <3>1. dlq \in Seq(Clicks!Message) /\ n \in Clicks!Message /\ kept \in BOOLEAN
        BY <1>1, Zenon
      <3> QED BY ONLY <3>1, MaybePushed
    <2>2. dlq' = MayPush(dlq, n, kept)
      OBVIOUS
    <2> QED BY ONLY <2>1, <2>2, Zenon DEF M
  <1>3. /\ parked' \in Seq(M)
        /\ \A B : Occurs(parked', B) = Occurs(parked, B) + Perhaps(put, One(n, B))
    <2>1. /\ MayPush(parked, n, put) \in Seq(Clicks!Message)
          /\ \A B : Occurs(MayPush(parked, n, put), B) = Occurs(parked, B) + Perhaps(put, One(n, B))
      <3>1. parked \in Seq(Clicks!Message) /\ n \in Clicks!Message /\ put \in BOOLEAN
        BY <1>1, Zenon
      <3> QED BY ONLY <3>1, MaybePushed
    <2>2. parked' = MayPush(parked, n, put)
      OBVIOUS
    <2> QED BY ONLY <2>1, <2>2, Zenon DEF M
  <1>4. drain' \in [Worker -> Clicks!Drain]
    BY Zenon DEF OneDrain
  <1>5. \A B : /\ HeldByAll(drain', B) = HeldByAll(drain, B) + Held(e, B) - Held(d, B)
               /\ FailedOfAll(drain', B)
                    = FailedOfAll(drain, B) + Occurs(e.failed, B) - Occurs(d.failed, B)
    BY <1>1, OneDrainChanges
  <1>6. ListsOK(queue', dlq', parked', replaying', drain')
    BY <1>1, <1>2, <1>3, <1>4, Zenon DEF ListsOK
  <1>7. ASSUME NEW B
        PROVE  /\ There(B) + One(m, B) = Here(B) + Perhaps(kept, One(n, B))
               /\ AsideThere(B) + One(m, B)
                     = AsideHere(B) + Perhaps(kept, One(n, B))
                                    + Perhaps(put, One(n, B))
               /\ There(B) \in Nat /\ AsideThere(B) \in Nat /\ Occurs(parked', B) \in Nat
    <2> DEFINE q == Occurs(queue, B)
               l0 == Occurs(dlq, B)
               l1 == Occurs(dlq', B)
               p0 == Occurs(parked, B)
               p1 == Occurs(parked', B)
               r == ReplayedOf(replaying, B)
               h0 == HeldByAll(drain, B)
               h1 == HeldByAll(drain', B)
               f0 == FailedOfAll(drain, B)
               f1 == FailedOfAll(drain', B)
               a0 == Held(d, B)
               a1 == Held(e, B)
               b0 == Occurs(d.failed, B)
               b1 == Occurs(e.failed, B)
               k == Perhaps(kept, One(n, B))
               u == Perhaps(put, One(n, B))
               o == One(m, B)
    <2>1. /\ q \in Nat /\ l0 \in Nat /\ p0 \in Nat /\ r \in Nat /\ h0 \in Nat /\ f0 \in Nat
      BY <1>1, WayType, Zenon
    <2>2. /\ l1 \in Nat /\ p1 \in Nat /\ h1 \in Nat /\ f1 \in Nat
          /\ There(B) \in Nat /\ AsideThere(B) \in Nat
      BY <1>6, WayType, Zenon DEF There, AsideThere
    <2>3. a0 \in Nat /\ a1 \in Nat /\ b0 \in Nat /\ b1 \in Nat
      BY <1>1, HeldType, Zenon
    <2>4. k \in Nat /\ u \in Nat /\ o \in Nat
      <3>1. One(n, B) \in Nat /\ One(m, B) \in Nat
        BY OneType
      <3> QED BY <3>1 DEF Perhaps
    <2>5. /\ Here(B) = q + l0 + r + h0 /\ AsideHere(B) = l0 + p0 + r + f0
      BY Zenon DEF Here, AsideHere, Way, Aside
    <2>6. /\ There(B) = q + l1 + r + h1 /\ AsideThere(B) = l1 + p1 + r + f1
      BY Zenon DEF There, AsideThere, Way, Aside
    <2>7. /\ l1 = l0 + k /\ p1 = p0 + u
          /\ h1 = h0 + a1 - a0 /\ f1 = f0 + b1 - b0
          /\ a0 = a1 + o /\ b0 = b1 + o
      BY <1>2, <1>3, <1>5, Zenon
    <2> HIDE DEF q, l0, l1, p0, p1, r, h0, h1, f0, f1, a0, a1, b0, b1, k, u, o
    <2>8. There(B) + o = Here(B) + k /\ AsideThere(B) + o = AsideHere(B) + k + u
      BY ONLY <2>1, <2>2, <2>3, <2>4, <2>5, <2>6, <2>7
    <2> QED BY <2>2, <2>8 DEF o, k, u, p1
  <1> QED BY <1>2, <1>3, <1>7, Zenon

\* A click that was given up on once more is on its way once.
LEMMA BuryLands ==
    ASSUME Clicks!ClickInv, Clicks!TypeOK', Clicks!DrainsHold',
           NEW m \in Clicks!Message, NEW n \in Clicks!Message,
           n.click = m.click, n.counted = m.counted,
           m.attempts = givenUp[m.click], n.attempts = givenUp'[m.click],
           givenUp'[m.click] = givenUp[m.click] + 1,
           \A c \in ClickId \ {m.click} : givenUp'[c] = givenUp[c],
           Here(Clicks!Of(m.click)) > 0,
           NEW kept \in BOOLEAN, NEW put \in BOOLEAN,
           kept => n.attempts < MaxAttempts, put => n.attempts = MaxAttempts,
           \/ (kept \/ put) /\ ~(kept /\ put) /\ losses' = losses
           \/ ~kept /\ ~put /\ losses' = losses + 1,
           \A B : /\ There(B) + One(m, B) = Here(B) + Perhaps(kept, One(n, B))
                  /\ Occurs(parked', B) = Occurs(parked, B) + Perhaps(put, One(n, B))
                  /\ AsideThere(B) + One(m, B)
                        = AsideHere(B) + Perhaps(kept, One(n, B)) + Perhaps(put, One(n, B))
                  /\ There(B) \in Nat /\ AsideThere(B) \in Nat /\ Occurs(parked', B) \in Nat,
           UNCHANGED <<stored, clickCount, pushed, opened>>
    PROVE  Clicks!ClickInv'
  <1> DEFINE M == Clicks!Message
             c == m.click
  <1>1. /\ Clicks!TypeOK /\ Clicks!DrainsHold /\ Clicks!NoneDoubled
        /\ Cardinality(Clicks!Missing) <= BatchMax * losses
        /\ AsideHere(Clicks!GoodOnes) <= losses
        /\ Clicks!AttemptsAreCarried
        /\ clickCount + (Here(Clicks!Countable) + Occurs(parked, Clicks!Countable))
              <= opened
    BY ClickInvParts, Zenon
  <1>2. /\ ListsOK(queue, dlq, parked, replaying, drain)
        /\ losses \in Nat /\ clickCount \in Nat /\ opened \in Nat
        /\ stored \in [ClickId -> Nat] /\ givenUp \in [ClickId -> Nat]
        /\ pushed \subseteq ClickId
    BY ClickKnown, Zenon
  <1>3. /\ stored' = stored /\ clickCount' = clickCount
        /\ pushed' = pushed /\ opened' = opened
    BY Zenon
  <1>4. /\ IsFiniteSet(pushed)
        /\ \A x \in ClickId : Clicks!Copies(x) <= IF x \in pushed THEN 1 ELSE 0
    BY <1>1, ClickCounts, Zenon DEF Clicks!NoneDoubled
  <1>5. \A B : /\ Here(B) \in Nat /\ AsideHere(B) \in Nat /\ Occurs(parked, B) \in Nat
    BY <1>2, WayType, Zenon DEF Here, AsideHere
  <1>6. c \in ClickId
    BY OfType, Zenon
  \* m and n count the same wherever only the click and the counting matter
  <1>7. /\ \A x \in ClickId : /\ One(n, Clicks!Of(x)) = One(m, Clicks!Of(x))
                              /\ One(m, Clicks!Of(x)) = IF x = c THEN 1 ELSE 0
        /\ One(n, Clicks!Countable) = One(m, Clicks!Countable)
        /\ One(n, Clicks!GoodOnes) = One(m, Clicks!GoodOnes)
    <2>1. \A x : (m \in Clicks!Of(x) <=> x = c) /\ (n \in Clicks!Of(x) <=> x = c)
      <3>1. \A x : (m \in Clicks!Of(x) <=> m.click = x) /\ (n \in Clicks!Of(x) <=> n.click = x)
        BY OfType, Zenon
      <3>2. n.click = c
        OBVIOUS
      <3> HIDE DEF c
      <3>3. m.click = c
        BY DEF c
      <3> QED BY ONLY <3>1, <3>2, <3>3
    <2>2. n \in Clicks!Countable <=> m \in Clicks!Countable
      BY OfType, Zenon
    <2>3. n \in Clicks!GoodOnes <=> m \in Clicks!GoodOnes
      BY DEF Clicks!GoodOnes, Clicks!Message
    <2> QED BY <2>1, <2>2, <2>3, Zenon DEF One
  <1>8. ASSUME NEW B
        PROVE  /\ There(B) + One(m, B) = Here(B) + Perhaps(kept, One(n, B))
               /\ Occurs(parked', B) = Occurs(parked, B) + Perhaps(put, One(n, B))
               /\ AsideThere(B) + One(m, B)
                     = AsideHere(B) + Perhaps(kept, One(n, B)) + Perhaps(put, One(n, B))
               /\ There(B) \in Nat /\ AsideThere(B) \in Nat /\ Occurs(parked', B) \in Nat
               /\ Here(B) \in Nat /\ AsideHere(B) \in Nat /\ Occurs(parked, B) \in Nat
               /\ One(m, B) \in Nat /\ One(n, B) \in Nat
    BY <1>5, OneType, Zenon
  <1>9. /\ kept => ~put /\ losses' = losses
        /\ put => ~kept /\ losses' = losses
        /\ ~kept /\ ~put => losses' = losses + 1
    OBVIOUS
  \* the four numbers of a set in which m and n count the same
  <1>10. ASSUME NEW B, One(n, B) = One(m, B)
         PROVE  /\ There(B) + Occurs(parked', B) + One(m, B)
                     = Here(B) + Occurs(parked, B)
                       + IF kept \/ put THEN One(m, B) ELSE 0
                /\ AsideThere(B) <= AsideHere(B)
    <2> DEFINE t == There(B)
               h == Here(B)
               p1 == Occurs(parked', B)
               p0 == Occurs(parked, B)
               a1 == AsideThere(B)
               a0 == AsideHere(B)
               o == One(m, B)
               k == Perhaps(kept, o)
               u == Perhaps(put, o)
    <2>1. /\ t + o = h + k /\ p1 = p0 + u /\ a1 + o = a0 + k + u
          /\ t \in Nat /\ h \in Nat /\ p1 \in Nat /\ p0 \in Nat /\ a1 \in Nat /\ a0 \in Nat
          /\ o \in Nat
      BY <1>8, <1>10, Zenon
    <2>2. k + u = (IF kept \/ put THEN o ELSE 0) /\ k \in Nat /\ u \in Nat
      <3>1. o \in Nat
        BY <2>1
      <3> HIDE DEF o
      <3> QED BY <1>9, <3>1 DEF Perhaps
    <2>3. (IF kept \/ put THEN o ELSE 0) \in Nat /\ (IF kept \/ put THEN o ELSE 0) <= o
      <3>1. o \in Nat
        BY <2>1
      <3> HIDE DEF o
      <3> QED BY <3>1
    <2> DEFINE z == IF kept \/ put THEN o ELSE 0
    <2> HIDE DEF t, h, p1, p0, a1, a0, k, u, z, o
    <2>4. t + p1 + o = h + p0 + z /\ a1 <= a0
      <3>1. k + u = z /\ z <= o /\ z \in Nat
        BY <2>2, <2>3 DEF z
      <3> QED BY ONLY <2>1, <2>2, <3>1
    <2> QED BY <2>4 DEF t, h, p1, p0, a1, a0, o, z
  <1>11. ASSUME NEW x \in ClickId
         PROVE  /\ Clicks!Copies(x)' <= Clicks!Copies(x)
                /\ Clicks!Copies(x)' = 0
                     => Clicks!Copies(x) = 0 \/ (~kept /\ ~put /\ One(m, Clicks!Of(x)) > 0)
    <2> DEFINE B == Clicks!Of(x)
               t == There(B)
               h == Here(B)
               p1 == Occurs(parked', B)
               p0 == Occurs(parked, B)
               o == One(m, B)
               z == IF kept \/ put THEN o ELSE 0
               s == stored[x]
               u == Clicks!Copies(x)
               v == Clicks!Copies(x)'
    <2>1. t + p1 + o = h + p0 + z /\ t \in Nat /\ h \in Nat /\ p1 \in Nat /\ p0 \in Nat
          /\ o \in Nat
      <3>1. One(n, B) = One(m, B)
        BY <1>7, Zenon
      <3> QED BY <1>8, <1>10, <3>1, Zenon
    <2>2. s \in Nat
      BY <1>2
    <2>3. u = s + (h + p0)
      BY ClickCopies, Zenon
    <2>4. v = s + (t + p1)
      <3>1. v = stored'[x] + (There(B) + Occurs(parked', B))
        BY ClickCopies, Zenon
      <3> QED BY <1>3, <3>1, Zenon
    <2>5. z \in Nat /\ z <= o /\ (kept \/ put => z = o) /\ (z < o => o > 0)
      <3>1. o \in Nat
        BY <2>1
      <3> HIDE DEF o
      <3> QED BY <3>1
    <2> HIDE DEF B, t, h, p1, p0, o, z, s, u, v
    <2>6. v <= u /\ (v = 0 => u = 0 \/ (~kept /\ ~put /\ o > 0))
      BY ONLY <2>1, <2>2, <2>3, <2>4, <2>5
    <2> QED BY <2>6, Zenon DEF o, B, u, v
  <1>12. Clicks!Copies(c) = 1 /\ c \in pushed /\ Here(Clicks!Of(c)) = 1
         /\ Occurs(parked, Clicks!Of(c)) = 0
    <2> DEFINE B == Clicks!Of(c)
               h == Here(B)
               p == Occurs(parked, B)
               s == stored[c]
               u == Clicks!Copies(c)
    <2>1. u = s + (h + p) /\ h \in Nat /\ p \in Nat
      BY <1>5, ClickCopies, Zenon
    <2>2. s \in Nat
      BY <1>2, <1>6
    <2>3. h > 0
      OBVIOUS
    <2>4. u <= IF c \in pushed THEN 1 ELSE 0
      BY <1>4, <1>6, Zenon
    <2> HIDE DEF B, h, p, s, u, c
    <2>5. u = 1 /\ c \in pushed /\ h = 1 /\ p = 0
      BY ONLY <2>1, <2>2, <2>3, <2>4
    <2> QED BY <2>5 DEF u, h, p, B
  <1>13. Clicks!NoneDoubled'
    <2>1. \A x \in ClickId \ pushed : givenUp'[x] = givenUp[x]
      BY <1>12
    <2>2. \A x \in ClickId : Clicks!Copies(x)' <= Clicks!Copies(x)
      BY <1>11, Zenon
    <2> QED BY <1>1, <1>3, <2>1, <2>2, DoublesStay, Zenon
  <1>14. AsideThere(Clicks!GoodOnes) <= losses'
    <2> DEFINE a == AsideThere(Clicks!GoodOnes)
               b == AsideHere(Clicks!GoodOnes)
               k == losses
               l == losses'
    <2>1. a <= b /\ a \in Nat /\ b \in Nat
      BY <1>7, <1>8, <1>10, Zenon
    <2>2. b <= k /\ k \in Nat /\ (l = k \/ l = k + 1)
      BY <1>1, <1>2, <1>9
    <2> HIDE DEF a, b, k, l
    <2>3. a <= l
      BY ONLY <2>1, <2>2
    <2> QED BY <2>3 DEF a, l
  <1>15. clickCount' + (There(Clicks!Countable) + Occurs(parked', Clicks!Countable))
           <= opened'
    <2> DEFINE B == Clicks!Countable
               t == There(B)
               h == Here(B)
               p1 == Occurs(parked', B)
               p0 == Occurs(parked, B)
               o == One(m, B)
               z == IF kept \/ put THEN o ELSE 0
               k == clickCount
               l == opened
    <2>1. t + p1 + o = h + p0 + z /\ t \in Nat /\ h \in Nat /\ p1 \in Nat /\ p0 \in Nat
          /\ o \in Nat
      BY <1>7, <1>8, <1>10, Zenon
    <2>2. z \in Nat /\ z <= o
      <3>1. o \in Nat
        BY <2>1
      <3> HIDE DEF o
      <3> QED BY <3>1
    <2>3. k + (h + p0) <= l /\ k \in Nat /\ l \in Nat
      BY <1>1, <1>2
    <2>4. clickCount' = k /\ opened' = l
      BY <1>3, Zenon
    <2> HIDE DEF B, t, h, p1, p0, o, z, k, l
    <2>5. k + (t + p1) <= l
      BY ONLY <2>1, <2>2, <2>3
    <2> QED BY <2>4, <2>5, Zenon DEF B, t, p1, k, l
  <1>16. Cardinality(Clicks!Missing') <= BatchMax * losses'
    <2>1. CASE kept \/ put
      <3>1. losses' >= losses
        BY <1>2, <1>9, <2>1
      <3>2. \A x \in pushed' \ Malformed :
              Clicks!Copies(x)' = 0 => x \in pushed /\ Clicks!Copies(x) = 0
        <4>1. \A x \in ClickId : Clicks!Copies(x)' = 0 => Clicks!Copies(x) = 0
          BY <1>11, <2>1, Zenon
        <4> QED BY <1>2, <1>3, <4>1
      <3> QED BY <1>1, <1>4, <3>1, <3>2, MissingStay
    <2>2. CASE ~kept /\ ~put
      <3> DEFINE nu == [B \in SUBSET M |-> One(m, B)]
      <3>1. \A B \in SUBSET M : nu[B] = One(m, B) /\ nu[B] \in Nat
        BY OneType
      <3>2. \A B, U \in SUBSET M : nu[B] = nu[B \ U] + nu[B \cap U]
        <4>0. \A A, V : One(m, A) = One(m, A \ V) + One(m, A \cap V)
          BY DEF One
        <4> TAKE B, U \in SUBSET M
        <4>1. One(m, B) = One(m, B \ U) + One(m, B \cap U)
          BY <4>0, Zenon
        <4>2. B \ U \in SUBSET M /\ B \cap U \in SUBSET M
          OBVIOUS
        <4> HIDE DEF nu
        <4> QED BY <3>1, <4>1, <4>2, Zenon
      <3>3. nu[M] <= BatchMax
        <4>1. M \in SUBSET M
          OBVIOUS
        <4>2. One(m, M) \in Nat /\ One(m, M) <= 1 /\ BatchMax \in Nat \ {0}
          BY OneType, ClickParameters, Zenon
        <4> HIDE DEF nu
        <4> QED BY <3>1, <4>1, <4>2
      <3>4. \A x \in ClickId :
              Clicks!Copies(x)' = 0 => Clicks!Copies(x) = 0 \/ nu[Clicks!Of(x)] > 0
        <4>1. \A x \in ClickId : nu[Clicks!Of(x)] = One(m, Clicks!Of(x))
          <5> HIDE DEF nu
          <5> QED BY <3>1, OfType, Zenon
        <4> HIDE DEF nu
        <4> QED BY <1>11, <4>1, Zenon
      <3>5. losses' = losses + 1 /\ pushed' = pushed
        BY <1>3, <1>9, <2>2, Zenon
      <3> HIDE DEF nu
      <3>6. \A B \in SUBSET M : nu[B] \in Nat
        BY <3>1, Zenon
      <3> QED BY ONLY Clicks!TypeOK', <1>1, <1>4, <3>2, <3>3, <3>4, <3>5, <3>6, MissingGrow
    <2> QED BY <2>1, <2>2, Zenon
  <1>17. Clicks!AttemptsAreCarried'
    <2> DEFINE late0 == M \ OnTime(givenUp)
               late1 == M \ OnTime(givenUp')
               over0 == M \ InTime(givenUp)
               over1 == M \ InTime(givenUp')
               B == Clicks!Of(c)
    <2>1. Here(late0) = 0 /\ Occurs(parked, over0) = 0
      BY <1>1, ClickAttempts, Zenon DEF Here
    <2>2. /\ late0 \in SUBSET M /\ late1 \in SUBSET M /\ over0 \in SUBSET M
          /\ over1 \in SUBSET M /\ B \in SUBSET M
      <3>1. B \in SUBSET M
        BY <1>6, OfType, Zenon
      <3> QED BY <3>1
    \* only messages of c are late for the first time
    <2>3. late1 \ B \in SUBSET late0 /\ over1 \ B \in SUBSET over0
      <3>1. ASSUME NEW y \in M, y \notin B PROVE givenUp'[y.click] = givenUp[y.click]
        <4>1. y.click # c
          BY <3>1, OfType, Zenon
        <4>2. y.click \in ClickId
          BY OfType, Zenon
        <4> QED BY <4>1, <4>2
      <3>2. \A y \in M : y \notin B => (y \in OnTime(givenUp') <=> y \in OnTime(givenUp))
                                    /\ (y \in InTime(givenUp') <=> y \in InTime(givenUp))
        <4> HIDE DEF B
        <4> QED BY <3>1, Zenon DEF OnTime, InTime
      <3> HIDE DEF B
      <3> QED BY <3>2
    <2>4. m \in late1
      <3>1. m.attempts # givenUp'[m.click]
        <4>1. m.attempts \in Nat
          BY DEF Clicks!Message
        <4> QED BY <4>1
      <3> QED BY <3>1 DEF OnTime
    <2>5. kept => n \notin late1
      BY DEF OnTime
    <2>6. put => n \notin over1
      BY DEF InTime
    <2> DEFINE X == late1 \ B
               Y == late1 \cap B
               V == over1 \ B
               W == over1 \cap B
    <2>7. Here(late1) = Here(X) + Here(Y) /\ Occurs(parked, over1) = Occurs(parked, V) + Occurs(parked, W)
      <3>1. late1 \ Y = X /\ late1 \cap Y = Y /\ over1 \ W = V /\ over1 \cap W = W
        OBVIOUS
      <3> HIDE DEF X, Y, V, W, late1, over1
      <3>0. ListsOK(queue, dlq, parked, replaying, drain)
        BY <1>2, Zenon
      <3>2. Here(late1) = Here(X) + Here(Y)
        BY ONLY <3>0, <3>1, WaySplit DEF Here
      <3>3. Occurs(parked, over1) = Occurs(parked, V) + Occurs(parked, W)
        BY ONLY <3>0, <3>1, WaySplit
      <3> QED BY <3>2, <3>3
    <2>8. X \in SUBSET late0 /\ Y \in SUBSET B /\ V \in SUBSET over0 /\ W \in SUBSET B
      <3>1. X \in SUBSET late0 /\ V \in SUBSET over0
        BY <2>3
      <3> HIDE DEF B, late1, over1
      <3>2. Y \in SUBSET B /\ W \in SUBSET B
        OBVIOUS
      <3> QED BY <3>1, <3>2, Zenon
    <2> HIDE DEF X, Y, V, W, late0, late1, over0, over1, B
    <2>9. /\ Here(X) <= Here(late0) /\ Here(Y) <= Here(B)
          /\ Occurs(parked, V) <= Occurs(parked, over0)
          /\ Occurs(parked, W) <= Occurs(parked, B)
      BY <1>2, <2>8, WayWithin, Zenon DEF Here
    <2>10. Here(late1) <= 1 /\ Occurs(parked, over1) = 0 /\ Here(late1) \in Nat
      <3>1. /\ Here(X) \in Nat /\ Here(Y) \in Nat /\ Occurs(parked, V) \in Nat
            /\ Occurs(parked, W) \in Nat
        BY <1>5, Zenon
      <3>2. Here(B) = 1 /\ Occurs(parked, B) = 0
        BY <1>12, Zenon DEF B
      <3> QED BY <2>1, <2>7, <2>9, <3>1, <3>2
    <2>11. There(late1) = 0
      <3>1. Perhaps(kept, One(n, late1)) = 0 /\ One(m, late1) = 1
        BY <2>4, <2>5 DEF Perhaps, One
      <3>2. There(late1) + One(m, late1) = Here(late1) + Perhaps(kept, One(n, late1))
            /\ There(late1) \in Nat
        BY <1>8, Zenon
      <3> QED BY <2>10, <3>1, <3>2
    <2>12. Occurs(parked', over1) = 0
      <3>1. Perhaps(put, One(n, over1)) = 0
        BY <2>6 DEF Perhaps, One
      <3>2. Occurs(parked', over1) = Occurs(parked, over1) + Perhaps(put, One(n, over1))
        BY <1>8, Zenon
      <3> QED BY <2>10, <3>1, <3>2
    <2> QED BY <2>11, <2>12, ClickAttempts, Zenon DEF There, late1, over1
  <1> QED
    BY <1>13, <1>14, <1>15, <1>16, <1>17, ClickInvParts, Zenon

LEMMA ClickBury ==
    ASSUME Clicks!ClickInv, NEW w \in Worker, Clicks!Bury(w)
    PROVE  Clicks!ClickInv'
  <1> DEFINE M == Clicks!Message
             m == Head(drain[w].failed)
             n == Clicks!Envelope(m)
  <1>1. /\ drain[w].failed # <<>>
        /\ drain' = [drain EXCEPT ![w].failed = Tail(@)]
        /\ givenUp' = [givenUp EXCEPT ![n.click] = @ + 1]
        /\ \/ /\ IF n.attempts >= MaxAttempts
                 THEN parked' = <<n>> \o parked /\ dlq' = dlq
                 ELSE dlq' = <<n>> \o dlq /\ parked' = parked
              /\ losses' = losses
           \/ losses' = losses + 1 /\ dlq' = dlq /\ parked' = parked
        /\ queue' = queue /\ replaying' = replaying
        /\ UNCHANGED <<window, stored, clickCount, pushed, opened, replays>>
    BY Zenon DEF Clicks!Bury, Clicks!rowVars, Clicks!LPush
  <1>2. /\ m \in M /\ Occurs(drain[w].failed, {m}) > 0
        /\ \E e \in Clicks!Drain :
                /\ Holds(e) /\ OneDrain(drain, drain', w, e)
                /\ \A B : /\ Held(drain[w], B) = Held(e, B) + One(m, B)
                          /\ Occurs(drain[w].failed, B) = Occurs(e.failed, B) + One(m, B)
    BY <1>1, BuryTakes, Zenon
  <1>3. PICK e \in Clicks!Drain :
                /\ Holds(e) /\ OneDrain(drain, drain', w, e)
                /\ \A B : /\ Held(drain[w], B) = Held(e, B) + One(m, B)
                          /\ Occurs(drain[w].failed, B) = Occurs(e.failed, B) + One(m, B)
    BY <1>2
  <1>4. m.attempts = givenUp[m.click] /\ m.attempts < MaxAttempts
    BY <1>2, CarriesAttempts, Zenon
  <1> HIDE DEF m
  <1>5. /\ n \in M /\ n.click = m.click /\ n.counted = m.counted
        /\ n.attempts = givenUp'[m.click] /\ givenUp'[m.click] = givenUp[m.click] + 1
        /\ n.attempts <= MaxAttempts
        /\ \A c \in ClickId \ {m.click} : givenUp'[c] = givenUp[c]
        /\ givenUp' \in [ClickId -> Nat]
    BY <1>1, <1>2, <1>4, BuriedMessage
  <1> HIDE DEF n
  <1>6. /\ n.attempts \in Nat /\ MaxAttempts \in Nat /\ losses \in Nat
    BY <1>5, ClickKnown, ClickParameters DEF Clicks!Message
  <1>7. \E kept, put \in BOOLEAN :
           /\ dlq' = MayPush(dlq, n, kept) /\ parked' = MayPush(parked, n, put)
           /\ kept => n.attempts < MaxAttempts
           /\ put => n.attempts = MaxAttempts
           /\ \/ (kept \/ put) /\ ~(kept /\ put) /\ losses' = losses
              \/ ~kept /\ ~put /\ losses' = losses + 1
    <2>0. \A s : MayPush(s, n, TRUE) = <<n>> \o s /\ MayPush(s, n, FALSE) = s
      BY Zenon DEF MayPush
    <2>1. CASE dlq' = <<n>> \o dlq /\ parked' = parked /\ losses' = losses
               /\ ~(n.attempts >= MaxAttempts)
      <3>1. n.attempts < MaxAttempts
        BY <1>6, <2>1
      <3>2. dlq' = MayPush(dlq, n, TRUE) /\ parked' = MayPush(parked, n, FALSE)
        BY <2>0, <2>1, Zenon
      <3> QED BY <2>1, <3>1, <3>2, Zenon
    <2>2. CASE parked' = <<n>> \o parked /\ dlq' = dlq /\ losses' = losses
               /\ n.attempts >= MaxAttempts
      <3>1. n.attempts = MaxAttempts
        BY <1>5, <1>6, <2>2
      <3>2. dlq' = MayPush(dlq, n, FALSE) /\ parked' = MayPush(parked, n, TRUE)
        BY <2>0, <2>2, Zenon
      <3> QED BY <2>2, <3>1, <3>2, Zenon
    <2>3. CASE losses' = losses + 1 /\ dlq' = dlq /\ parked' = parked
      <3>2. dlq' = MayPush(dlq, n, FALSE) /\ parked' = MayPush(parked, n, FALSE)
        BY <2>0, <2>3, Zenon
      <3> QED BY <2>3, <3>2, Zenon
    <2> QED BY <1>1, <2>1, <2>2, <2>3, Zenon
  <1>8. PICK kept \in BOOLEAN, put \in BOOLEAN :
           /\ dlq' = MayPush(dlq, n, kept) /\ parked' = MayPush(parked, n, put)
           /\ kept => n.attempts < MaxAttempts
           /\ put => n.attempts = MaxAttempts
           /\ \/ (kept \/ put) /\ ~(kept /\ put) /\ losses' = losses
              \/ ~kept /\ ~put /\ losses' = losses + 1
    BY <1>7
  <1>9. queue' = queue /\ replaying' = replaying
    BY <1>1, Zenon
  <1>10. /\ dlq' \in Seq(M) /\ parked' \in Seq(M)
         /\ \A B : /\ There(B) + One(m, B) = Here(B) + Perhaps(kept, One(n, B))
                   /\ Occurs(parked', B) = Occurs(parked, B) + Perhaps(put, One(n, B))
                   /\ AsideThere(B) + One(m, B)
                        = AsideHere(B) + Perhaps(kept, One(n, B)) + Perhaps(put, One(n, B))
                   /\ There(B) \in Nat /\ AsideThere(B) \in Nat /\ Occurs(parked', B) \in Nat
    <2>1. /\ OneDrain(drain, drain', w, e) /\ m \in M /\ n \in M
          /\ dlq' = MayPush(dlq, n, kept) /\ parked' = MayPush(parked, n, put)
          /\ \A B : /\ Held(drain[w], B) = Held(e, B) + One(m, B)
                    /\ Occurs(drain[w].failed, B) = Occurs(e.failed, B) + One(m, B)
      BY <1>2, <1>3, <1>5, <1>8, Zenon
    <2> QED BY ONLY Clicks!ClickInv, <1>9, <2>1, BuryMoves DEF M
  <1>11. Clicks!DrainsHold' /\ drain' \in [Worker -> Clicks!Drain]
    BY <1>3, HoldsStay, Zenon
  <1>12. Clicks!TypeOK'
    <2>1. /\ queue' \in Seq(M) /\ window' \subseteq {visitor} /\ stored' \in [ClickId -> Nat]
          /\ clickCount' \in Nat /\ pushed' \subseteq ClickId /\ opened' \in Nat
          /\ replays' \in Nat /\ replaying' \in [Replayer -> M \cup {NULL}]
      BY <1>1, ClickKnown, Zenon
    <2>2. Clicks!TypeOK
      BY ClickKnown, Zenon
    <2>3. losses' \in Nat
      BY <1>6, <1>8
    <2> QED BY <1>5, <1>10, <1>11, <2>1, <2>2, <2>3, ClickTypesStay, Zenon
  <1>13. Here(Clicks!Of(m.click)) > 0
    <2> DEFINE B == Clicks!Of(m.click)
               x == Held(drain[w], B)
               y == Held(e, B)
               h == Here(B)
    <2>1. One(m, B) = 1 /\ B \in SUBSET M
      <3>1. m.click \in ClickId /\ m \in B
        BY <1>2, OfType, Zenon
      <3>2. B \in SUBSET M
        BY <3>1, OfType, Zenon
      <3> QED BY <3>1, <3>2, Zenon DEF One
    <2>2. x = y + One(m, B)
      BY <1>3, Zenon
    <2>3. x <= h /\ h \in Nat
      BY <2>1, EachCounts, Zenon
    <2>4. x \in Nat /\ y \in Nat
      <3>1. drain[w] \in Clicks!Drain /\ e \in Clicks!Drain
        BY <1>3, ClickKnown, Zenon
      <3> QED BY <3>1, HeldType, Zenon
    <2>5. x = y + 1
      BY <2>1, <2>2, Zenon
    <2> HIDE DEF B, x, y, h
    <2>6. h > 0
      BY ONLY <2>3, <2>4, <2>5
    <2> QED BY <2>6 DEF h, B
  <1>14. /\ kept => n.attempts < MaxAttempts
         /\ put => n.attempts = MaxAttempts
         /\ \/ (kept \/ put) /\ ~(kept /\ put) /\ losses' = losses
            \/ ~kept /\ ~put /\ losses' = losses + 1
    BY <1>8, Zenon
  <1>15. /\ m \in M /\ n \in M /\ kept \in BOOLEAN /\ put \in BOOLEAN
         /\ UNCHANGED <<stored, clickCount, pushed, opened>>
    BY <1>1, <1>2, <1>5, Zenon
  <1>16. /\ Clicks!ClickInv /\ Clicks!TypeOK' /\ Clicks!DrainsHold'
         /\ m \in M /\ n \in M
         /\ n.click = m.click /\ n.counted = m.counted
         /\ m.attempts = givenUp[m.click] /\ n.attempts = givenUp'[m.click]
         /\ givenUp'[m.click] = givenUp[m.click] + 1
         /\ \A c \in ClickId \ {m.click} : givenUp'[c] = givenUp[c]
         /\ Here(Clicks!Of(m.click)) > 0
    BY <1>4, <1>5, <1>11, <1>12, <1>13, <1>15, Zenon
  <1>17. /\ kept => n.attempts < MaxAttempts
         /\ put => n.attempts = MaxAttempts
         /\ \/ (kept \/ put) /\ ~(kept /\ put) /\ losses' = losses
            \/ ~kept /\ ~put /\ losses' = losses + 1
         /\ kept \in BOOLEAN /\ put \in BOOLEAN
         /\ UNCHANGED <<stored, clickCount, pushed, opened>>
    BY <1>14, <1>15, Zenon
  <1>18. \A B : /\ There(B) + One(m, B) = Here(B) + Perhaps(kept, One(n, B))
                /\ Occurs(parked', B) = Occurs(parked, B) + Perhaps(put, One(n, B))
                /\ AsideThere(B) + One(m, B)
                     = AsideHere(B) + Perhaps(kept, One(n, B)) + Perhaps(put, One(n, B))
                /\ There(B) \in Nat /\ AsideThere(B) \in Nat /\ Occurs(parked', B) \in Nat
    BY <1>10, Zenon
  <1> QED
    BY ONLY <1>16, <1>17, <1>18, BuryLands DEF M

-----------------------------------------------------------------------------
(* The pipeline. *)

LEMMA ClickInit ==
    ASSUME Clicks!Init
    PROVE  Clicks!ClickInv
  <1> DEFINE M == Clicks!Message
  <1>1. /\ queue = <<>> /\ dlq = <<>> /\ parked = <<>> /\ window = {}
        /\ stored = [c \in ClickId |-> 0] /\ clickCount = 0
        /\ drain = [w \in Worker |-> Clicks!IdleDrain]
        /\ replaying = [r \in Replayer |-> NULL]
        /\ pushed = {} /\ opened = 0 /\ givenUp = [c \in ClickId |-> 0]
        /\ losses = 0 /\ replays = 0
    BY Zenon DEF Clicks!Init
  <1>2. \A w \in Worker : drain[w] = Clicks!IdleDrain
    BY <1>1
  <1>3. drain \in [Worker -> Clicks!Drain]
    BY <1>1, <1>2, IdleHolds
  <1>4. Clicks!TypeOK
    <2>1. <<>> \in Seq(M)
      OBVIOUS
    <2>2. queue \in Seq(M) /\ dlq \in Seq(M) /\ parked \in Seq(M)
      BY <1>1, <2>1, Zenon
    <2>3. /\ window \subseteq {visitor} /\ stored \in [ClickId -> Nat] /\ clickCount \in Nat
          /\ pushed \subseteq ClickId /\ opened \in Nat /\ givenUp \in [ClickId -> Nat]
          /\ losses \in Nat /\ replays \in Nat
      BY <1>1
    <2>4. replaying \in [Replayer -> M \cup {NULL}]
      BY <1>1
    <2> QED BY <1>3, <2>2, <2>3, <2>4, Zenon DEF Clicks!TypeOK
  <1>5. Clicks!DrainsHold
    <2>1. \A w \in Worker : Holds(drain[w])
      BY <1>2, IdleHolds, Zenon
    <2> QED BY <2>1, SameHolds, Zenon
  <1>6. \A B \in SUBSET M :
           Here(B) = 0 /\ AsideHere(B) = 0 /\ Occurs(parked, B) = 0
    <2> TAKE B \in SUBSET M
    <2>1. Occurs(queue, B) = 0 /\ Occurs(dlq, B) = 0 /\ Occurs(parked, B) = 0
      BY <1>1, OccursEmpty, Zenon
    <2>2. ReplayedOf(replaying, B) = 0
      <3>1. NULL \notin B
        BY ClickParameters
      <3>2. {r \in Replayer : replaying[r] \in B} = {}
        BY <1>1, <3>1
      <3> QED BY <3>2, FS_EmptySet, Zenon DEF ReplayedOf
    <2>3. HeldByAll(drain, B) = 0 /\ FailedOfAll(drain, B) = 0
      <3> DEFINE f == [w \in Worker |-> Held(drain[w], B)]
                 g == [w \in Worker |-> Occurs(drain[w].failed, B)]
      <3>1. \A w \in Worker : f[w] = 0 /\ g[w] = 0
        <4>1. \A w \in Worker : f[w] = Held(drain[w], B) /\ g[w] = Occurs(drain[w].failed, B)
          OBVIOUS
        <4> HIDE DEF f, g
        <4> QED BY <1>2, <4>1, IdleHolds, Zenon
      <3>2. IsFiniteSet(Worker)
        BY ClickParameters, Zenon
      <3> HIDE DEF f, g
      <3>3. SumFunctionOnSet(f, Worker) = 0 /\ SumFunctionOnSet(g, Worker) = 0
        BY <3>1, <3>2, SumZero
      <3> QED BY <3>3, Zenon DEF HeldByAll, FailedOfAll, f, g
    <2> QED BY <2>1, <2>2, <2>3 DEF Here, AsideHere, Way, Aside
  <1>7. Clicks!NoneDoubled
    <2>1. \A c \in ClickId : Clicks!Copies(c) = 0
      <3> TAKE c \in ClickId
      <3>1. Here(Clicks!Of(c)) = 0 /\ Occurs(parked, Clicks!Of(c)) = 0
        BY <1>6, OfType, Zenon
      <3>2. stored[c] = 0
        BY <1>1
      <3>3. Clicks!Copies(c) = stored[c] + (Here(Clicks!Of(c)) + Occurs(parked, Clicks!Of(c)))
        BY ClickCopies, Zenon
      <3> QED BY <3>1, <3>2, <3>3
    <2>2. IsFiniteSet(pushed)
      BY <1>1, FS_EmptySet, Zenon
    <2>3. \A c \in ClickId : Clicks!Copies(c) <= IF c \in pushed THEN 1 ELSE 0
      BY <1>1, <2>1
    <2>4. \A c \in ClickId \ pushed : givenUp[c] = 0
      BY <1>1
    <2> QED BY <2>2, <2>3, <2>4, ClickCounts, Zenon DEF Clicks!NoneDoubled
  <1>8. Cardinality(Clicks!Missing) <= BatchMax * losses
    <2>1. Clicks!Missing = {}
      BY <1>1, MissingAre
    <2>2. Cardinality(Clicks!Missing) = 0
      BY <2>1, FS_EmptySet, Zenon
    <2>3. BatchMax * losses = 0
      BY <1>1, ClickParameters
    <2> QED BY <2>2, <2>3
  <1>9. AsideHere(Clicks!GoodOnes) <= losses
    <2>1. AsideHere(Clicks!GoodOnes) = 0
      BY <1>6, OfType, Zenon
    <2> QED BY <1>1, <2>1
  <1>10. Clicks!AttemptsAreCarried
    <2>1. Here(M \ OnTime(givenUp)) = 0 /\ Occurs(parked, M \ InTime(givenUp)) = 0
      <3>1. M \ OnTime(givenUp) \in SUBSET M /\ M \ InTime(givenUp) \in SUBSET M
        OBVIOUS
      <3> QED BY <1>6, <3>1, Zenon
    <2> QED BY <2>1, ClickAttempts, Zenon DEF Here
  <1>11. clickCount + (Here(Clicks!Countable) + Occurs(parked, Clicks!Countable)) <= opened
    <2>1. Here(Clicks!Countable) = 0 /\ Occurs(parked, Clicks!Countable) = 0
      BY <1>6, OfType, Zenon
    <2> QED BY <1>1, <2>1
  <1> QED
    BY <1>4, <1>5, <1>7, <1>8, <1>9, <1>10, <1>11, ClickInvParts, Zenon

LEMMA ClickNext ==
    ASSUME Clicks!ClickInv, Clicks!Next
    PROVE  Clicks!ClickInv'
  <1>1. ASSUME NEW c \in ClickId, Clicks!Visit(c) \/ Clicks!Produce(c)
        PROVE  Clicks!ClickInv'
    BY <1>1, ClickVisit, ClickProduce
  <1>2. ASSUME NEW v \in {visitor}, Clicks!VisitLost(v) \/ Clicks!WindowCloses(v)
        PROVE  Clicks!ClickInv'
    BY <1>2, ClickWindow
  <1>3. ASSUME NEW w \in Worker, Clicks!Draining(w) \/ Clicks!PopFails(w)
        PROVE  Clicks!ClickInv'
    BY <1>3, ClickPop, ClickFlush, ClickCommit, ClickCommitFails, ClickBury,
       ClickDrainDone, ClickPopFails DEF Clicks!Draining
  <1>4. ASSUME NEW r \in Replayer, Clicks!ReplayPop(r) \/ Clicks!ReplayPush(r)
        PROVE  Clicks!ClickInv'
    BY <1>4, ClickReplayPop, ClickReplayPush
  <1>5. ASSUME Clicks!Crash PROVE Clicks!ClickInv'
    BY <1>5, ClickCrash
  <1> QED
    BY <1>1, <1>2, <1>3, <1>4, <1>5, Zenon DEF Clicks!Next

\* Nobody else writes the lists and the rows.
LEMMA ClicksAlone ==
    ASSUME [ServicesNext]_lossVars
    PROVE  Clicks!Next \/ UNCHANGED clickVars
  BY Zenon DEF ServicesNext, lossVars

LEMMA ClickStep ==
    ASSUME Clicks!ClickInv, [ServicesNext]_lossVars
    PROVE  Clicks!ClickInv'
  <1>1. CASE Clicks!Next
    BY <1>1, ClickNext
  <1>2. CASE UNCHANGED clickVars
    <2>1. UNCHANGED <<queue, dlq, parked, stored, clickCount, drain, replaying, pushed,
                      givenUp, replays>> /\ window' = window /\ opened' = opened
      BY <1>2, Zenon DEF clickVars
    <2>2. /\ window' \subseteq {visitor} /\ opened' \in Nat /\ opened' >= opened
          /\ losses' \in Nat /\ losses' >= losses
      <3>1. losses' \in {losses, losses + 1}
        BY LossesGrow
      <3> QED BY <2>1, <3>1, ClickKnown
    <2> QED BY ONLY Clicks!ClickInv, <2>1, <2>2, ClickQuiet
  <1> QED
    BY <1>1, <1>2, ClicksAlone

\* A click in a list was pushed, and the list holds its message.
LEMMA ClickListed ==
    ASSUME Clicks!ClickInv, NEW s \in Seq(Clicks!Message),
           s = queue \/ s = dlq \/ s = parked,
           NEW c \in ClickId, Clicks!Rows(s, c) > 0
    PROVE  /\ c \in pushed
           /\ \E m \in Clicks!Message : m.click = c /\ Occurs(s, {m}) > 0
  <1> DEFINE M == Clicks!Message
             B == Clicks!Of(c)
  <1>1. Occurs(s, B) > 0
    BY RowsAre
  <1>2. PICK i \in 1..Len(s) : s[i] \in B
    BY <1>1, OccursFound
  <1>3. s[i] \in M /\ Occurs(s, {s[i]}) > 0
    <2>1. s[i] \in M
      BY ElementOfSeq
    <2>2. s[i] \in {s[i]}
      OBVIOUS
    <2> QED BY <2>1, <2>2, OccursSome
  <1>4. s[i].click = c
    BY <1>2, <1>3, OfType, Zenon
  <1>5. c \in pushed
    <2> DEFINE h == Here(B)
               p == Occurs(parked, B)
               n == stored[c]
               u == Clicks!Copies(c)
               x == Occurs(s, B)
    <2>1. u = n + (h + p)
      BY ClickCopies, Zenon
    <2>2. n \in Nat
      BY ClickKnown
    <2>3. B \in SUBSET M
      BY OfType, Zenon
    <2>4. h \in Nat /\ p \in Nat /\ Occurs(queue, B) <= h /\ Occurs(dlq, B) <= h
      <3>1. ListsOK(queue, dlq, parked, replaying, drain)
        BY ClickKnown, Zenon
      <3> QED BY <2>3, <3>1, EachCounts, WayType, Zenon
    <2>5. x <= h \/ x = p
      BY <2>4, Zenon
    <2>6. u <= IF c \in pushed THEN 1 ELSE 0
      BY ClickKnown, Zenon DEF Clicks!NoneDoubled
    <2>7. x \in Nat /\ x > 0
      BY <1>1, OccursType
    <2> HIDE DEF h, p, n, u, x
    <2> QED BY ONLY <2>1, <2>2, <2>4, <2>5, <2>6, <2>7
  <1> QED BY <1>3, <1>4, <1>5

LEMMA PoisonAside ==
    ASSUME Clicks!ClickInv
    PROVE  Clicks!PoisonIsIsolated
  <1> DEFINE G == Clicks!GoodOnes
             X == {c \in Clicks!Good : Clicks!Rows(dlq, c) + Clicks!Rows(parked, c) > 0}
             nu == [B \in SUBSET G |-> Occurs(dlq, B) + Occurs(parked, B)]
             of == [c \in ClickId |-> Clicks!Of(c)]
  <1>1. dlq \in Seq(Clicks!Message) /\ parked \in Seq(Clicks!Message) /\ losses \in Nat
    BY ClickKnown, Zenon
  <1>2. \A B : Occurs(dlq, B) \in Nat /\ Occurs(parked, B) \in Nat
    BY <1>1, OccursType
  <1>3. X \in SUBSET pushed
    <2> SUFFICES ASSUME NEW c \in X PROVE c \in pushed
      OBVIOUS
    <2>1. c \in ClickId /\ Clicks!Rows(dlq, c) + Clicks!Rows(parked, c) > 0
      BY DEF Clicks!Good
    <2>2. Clicks!Rows(dlq, c) \in Nat /\ Clicks!Rows(parked, c) \in Nat
      <3>1. /\ Clicks!Rows(dlq, c) = Occurs(dlq, Clicks!Of(c))
            /\ Clicks!Rows(parked, c) = Occurs(parked, Clicks!Of(c))
        BY <1>1, <2>1, RowsAre, Zenon
      <3> QED BY <1>2, <3>1, Zenon
    <2>3. Clicks!Rows(dlq, c) > 0 \/ Clicks!Rows(parked, c) > 0
      BY <2>1, <2>2
    <2> HIDE DEF X
    <2> QED BY <1>1, <2>1, <2>3, ClickListed, Zenon
  <1>4. IsFiniteSet(X)
    <2>1. IsFiniteSet(pushed)
      BY ClickKnown, ClickCounts, Zenon DEF Clicks!NoneDoubled
    <2> HIDE DEF X
    <2> QED BY <1>3, <2>1, FS_Subset
  <1>5. \A B \in SUBSET G : nu[B] = Occurs(dlq, B) + Occurs(parked, B) /\ nu[B] \in Nat
    BY <1>2
  <1>6. \A B, U \in SUBSET G : nu[B] = nu[B \ U] + nu[B \cap U]
    <2>1. \A A, V : Occurs(dlq, A) = Occurs(dlq, A \ V) + Occurs(dlq, A \cap V)
      BY <1>1, OccursSplit
    <2>2. \A A, V : Occurs(parked, A) = Occurs(parked, A \ V) + Occurs(parked, A \cap V)
      BY <1>1, OccursSplit
    <2> TAKE B, U \in SUBSET G
    <2> DEFINE C == B \ U
               D == B \cap U
    <2>3. B \in SUBSET G /\ C \in SUBSET G /\ D \in SUBSET G
      OBVIOUS
    <2>4. /\ Occurs(dlq, B) = Occurs(dlq, C) + Occurs(dlq, D)
          /\ Occurs(parked, B) = Occurs(parked, C) + Occurs(parked, D)
      BY <2>1, <2>2, Zenon
    <2> HIDE DEF nu, C, D, G
    <2>5. nu[B] = nu[C] + nu[D]
      BY <1>2, <1>5, <2>3, <2>4
    <2> QED BY <2>5 DEF C, D
  <1>7. \A x \in X : of[x] \in SUBSET G /\ nu[of[x]] > 0
    <2> TAKE x \in X
    <2>1. x \in ClickId /\ x \in Clicks!Good
          /\ Clicks!Rows(dlq, x) + Clicks!Rows(parked, x) > 0
      BY DEF Clicks!Good
    <2>2. of[x] = Clicks!Of(x)
      BY <2>1
    <2>3. Clicks!Of(x) \in SUBSET G
      BY <2>1 DEF Clicks!Of, Clicks!GoodOnes
    <2>4. /\ Clicks!Rows(dlq, x) = Occurs(dlq, Clicks!Of(x))
          /\ Clicks!Rows(parked, x) = Occurs(parked, Clicks!Of(x))
      BY <1>1, <2>1, RowsAre, Zenon
    <2> HIDE DEF nu, of, X, G
    <2>5. nu[of[x]] = Occurs(dlq, Clicks!Of(x)) + Occurs(parked, Clicks!Of(x))
      BY <1>5, <2>2, <2>3, Zenon
    <2>6. nu[of[x]] = Clicks!Rows(dlq, x) + Clicks!Rows(parked, x)
      BY <2>4, <2>5, Zenon
    <2>7. nu[of[x]] > 0
      BY ONLY <2>1, <2>6
    <2> QED BY <2>2, <2>3, <2>7, Zenon
  <1>8. \A x, y \in X : x # y => of[x] \cap of[y] = {}
    BY DEF Clicks!Of, Clicks!Good
  <1>9. nu[G] <= losses
    <2>1. AsideHere(G) <= losses
      BY ClickInvParts, Zenon
    <2>2. nu[G] = Occurs(dlq, G) + Occurs(parked, G)
      BY <1>5
    <2>3. ReplayedOf(replaying, G) \in Nat /\ FailedOfAll(drain, G) \in Nat
      BY ClickKnown, WayType, Zenon
    <2>4. AsideHere(G) = Occurs(dlq, G) + Occurs(parked, G) + ReplayedOf(replaying, G)
                           + FailedOfAll(drain, G)
      BY Zenon DEF AsideHere, Aside
    <2> HIDE DEF nu, G
    <2> QED BY <1>1, <1>2, <2>1, <2>2, <2>3, <2>4
  <1> HIDE DEF nu, of, X, G
  <1>10. Cardinality(X) <= nu[G]
    <2>1. \A B \in SUBSET G : nu[B] \in Nat
      BY <1>5, Zenon
    <2> QED BY ONLY <2>1, <1>4, <1>6, <1>7, <1>8, Spread
  <1>11. Cardinality(X) <= losses
    <2>1. nu[G] \in Nat
      <3>1. G \in SUBSET G
        OBVIOUS
      <3> QED BY <1>5, <3>1, Zenon
    <2>2. Cardinality(X) \in Nat
      BY <1>4, FS_CardinalityType, Zenon
    <2> QED BY <1>1, <1>9, <1>10, <2>1, <2>2
  <1>12. Clicks!Cardinality(X) <= losses
    BY <1>11, ClickCounts, Zenon
  <1> QED
    BY <1>12, Zenon DEF Clicks!PoisonIsIsolated, X

LEMMA TriedInTime ==
    ASSUME Clicks!ClickInv
    PROVE  Clicks!GivenUpInTime
  <1> DEFINE M == Clicks!Message
  <1>1. queue \in Seq(M) /\ dlq \in Seq(M) /\ parked \in Seq(M)
    BY ClickKnown, Zenon
  <1>2. ASSUME NEW c \in ClickId, Clicks!Rows(queue, c) > 0 \/ Clicks!Rows(dlq, c) > 0
        PROVE  givenUp[c] < MaxAttempts
    <2>1. \E m \in M : m.click = c /\ (Occurs(queue, {m}) > 0 \/ Occurs(dlq, {m}) > 0)
      BY <1>1, <1>2, ClickListed, Zenon
    <2>2. PICK m \in M : m.click = c /\ (Occurs(queue, {m}) > 0 \/ Occurs(dlq, {m}) > 0)
      BY <2>1
    <2>3. m.attempts = givenUp[m.click] /\ m.attempts < MaxAttempts
      BY <2>2, CarriesAttempts, Zenon
    <2> QED BY <2>2, <2>3
  <1>3. ASSUME NEW c \in ClickId, Clicks!Rows(parked, c) > 0
        PROVE  givenUp[c] = MaxAttempts
    <2>1. \E m \in M : m.click = c /\ Occurs(parked, {m}) > 0
      BY <1>1, <1>3, ClickListed, Zenon
    <2>2. PICK m \in M : m.click = c /\ Occurs(parked, {m}) > 0
      BY <2>1
    <2> DEFINE over == M \ InTime(givenUp)
    <2>3. Occurs(parked, over) = 0
      <3>1. Clicks!AttemptsAreCarried
        BY ClickInvParts, Zenon
      <3> QED BY <3>1, ClickAttempts, Zenon
    <2>4. m \in InTime(givenUp)
      <3>1. SUFFICES ASSUME m \notin InTime(givenUp) PROVE FALSE
        OBVIOUS
      <3>2. {m} \in SUBSET over
        BY <3>1
      <3> HIDE DEF over
      <3>3. Occurs(parked, {m}) <= Occurs(parked, over)
        BY <1>1, <3>2, OccursWithin
      <3>4. Occurs(parked, {m}) \in Nat
        BY <1>1, OccursType
      <3> QED BY <2>2, <2>3, <3>3, <3>4
    <2> QED BY <2>2, <2>4 DEF InTime
  <1>4. ASSUME NEW c \in ClickId, Clicks!Rows(queue, c) + Clicks!Rows(dlq, c) > 0
        PROVE  Clicks!Rows(queue, c) > 0 \/ Clicks!Rows(dlq, c) > 0
    <2>1. /\ Clicks!Rows(dlq, c) = Occurs(dlq, Clicks!Of(c))
          /\ Clicks!Rows(queue, c) = Occurs(queue, Clicks!Of(c))
      BY <1>1, RowsAre, Zenon
    <2>2. Occurs(dlq, Clicks!Of(c)) \in Nat /\ Occurs(queue, Clicks!Of(c)) \in Nat
      BY <1>1, OccursType
    <2> QED BY <1>4, <2>1, <2>2
  <1> QED
    BY <1>2, <1>3, <1>4, Zenon DEF Clicks!GivenUpInTime

LEMMA NoClickVanishes ==
    ASSUME Clicks!ClickInv
    PROVE  ClicksAccountedFor
  <1>1. \A c \in ClickId : Clicks!Copies(c) <= 1
    <2>1. Clicks!NoneDoubled /\ Clicks!TypeOK
      BY ClickKnown, Zenon
    <2> TAKE c \in ClickId
    <2> DEFINE u == Clicks!Copies(c)
    <2>2. u \in Nat /\ u <= IF c \in pushed THEN 1 ELSE 0
      BY <2>1, CopiesType, Zenon DEF Clicks!NoneDoubled
    <2> HIDE DEF u
    <2>3. u <= 1
      BY <2>2
    <2> QED BY <2>3 DEF u
  <1>2. Clicks!ClicksAccountedFor
    BY <1>1, Zenon DEF Clicks!ClicksAccountedFor, Clicks!ClickInv
  <1>3. Clicks!CountedOncePerWindow
    BY Zenon DEF Clicks!ClickInv
  <1> QED
    BY <1>2, <1>3, PoisonAside, TriedInTime, Zenon DEF ClicksAccountedFor

\* However many drains share the queue, and whatever fails or crashes, a click is
\* stored, on its way or set aside once; only a loss makes one vanish, and at
\* most a batch of them; poison is set aside alone and parked in time; and a
\* visitor counts once in a window (services/click-queue.ts).
THEOREM ClicksAreAccounted == ServicesSpec => []ClicksAccountedFor
  <1>1. ServicesInit => Clicks!ClickInv
    BY ClickInit DEF ServicesInit
  <1>2. Clicks!ClickInv /\ [ServicesNext]_lossVars => Clicks!ClickInv'
    BY ClickStep
  <1>3. Clicks!ClickInv => ClicksAccountedFor
    BY NoClickVanishes
  <1> QED
    BY <1>1, <1>2, <1>3, PTL DEF ServicesSpec, lossVars
===============================================================================
