-------------------------- MODULE CommissionLedger --------------------------
(***************************************************************************)
(* The money path of the platform: a reported conversion and the           *)
(* commission it earns, the brand's review and reversal, the fraud         *)
(* decision, the lock-expiry worker, payout requests and payout            *)
(* transitions, and the balance adjustments that claw back paid money.     *)
(*                                                                         *)
(* PostgreSQL runs these at READ COMMITTED, so the unit of interleaving is *)
(* not the handler.  A handler is split wherever it reads something,       *)
(* lets other requests run, and later writes on the strength of what it    *)
(* read; what it read is kept in request[r] (or tick[w]).  The writes of   *)
(* one database transaction are one step: they become visible together at  *)
(* the commit.  MaxInFlight = 1 is the system serving one request at a     *)
(* time, a larger value lets requests overlap.                             *)
(*                                                                         *)
(* A conversion has exactly one commission, so both are indexed by the     *)
(* conversion.  An amount is the commission of the conversion in whole     *)
(* units and a refund is a number of those units: the proportional         *)
(* rounding of calculateRefund and the fee split are not modelled here.    *)
(***************************************************************************)
EXTENDS Integers, FiniteSets, Sequences, FiniteSetsExt

CONSTANTS
    Conversion,     \* conversions (and their commissions) that may be reported
    Affiliate,
    AffiliateOf,    \* the affiliate whose click each conversion is attributed to
    Amounts,        \* the commission amounts a report may compute
    FraudScores,    \* what fraud.evaluate may conclude: no review, or its decision
    Payout,         \* identifiers of the payouts that may be created
    Adjustment,     \* identifiers of the balance adjustments that may be created
    MinPayout,      \* MINIMUM_PAYOUT_AMOUNT
    Batch,          \* BATCH of the lock-expiry worker
    Request,        \* HTTP requests that can be in progress at once
    Worker,         \* lock-expiry ticks that can be in progress at once
    MaxInFlight,    \* bound on requests and ticks in progress together
    NULL

ASSUME LedgerAssumption ==
    /\ AffiliateOf \in [Conversion -> Affiliate]
    /\ Amounts \subseteq Nat \ {0}
    /\ FraudScores \subseteq {"NONE", "PENDING", "FLAGGED"}
    /\ MinPayout \in Nat
    /\ Batch \in Nat \ {0}
    /\ MaxInFlight \in Nat \ {0}
    /\ NULL \notin Payout \cup Affiliate \cup Conversion

VARIABLES
    conversion,     \* status of each conversion
    value,          \* Conversion.commissionAmount, reduced by partial refunds
    approvedAt,     \* conversions whose approvedAt is set
    notices,        \* review notifications enqueued for each conversion
    fraudDecision,  \* decision of the conversion's fraud review, if it has one
    commission,     \* status of each conversion's commission
    amount,         \* Commission.amount
    payoutId,       \* Commission.payoutId
    lockExpired,    \* conversions whose lockExpiresAt has passed
    payout,         \* status, affiliate and claimed items of each payout
    paidAt,         \* payouts whose paidAt is set
    failureReason,  \* payouts whose failureReason is set
    adjustment,     \* balance adjustments
    request,        \* what each request in progress has read
    tick,           \* what each lock-expiry tick in progress has read
    earned          \* history: the commission each report computed

conversionVars == <<conversion, value, approvedAt, notices>>
commissionVars == <<commission, amount, payoutId>>
payoutVars == <<payout, paidAt, failureReason>>
vars == <<conversionVars, fraudDecision, commissionVars, lockExpired,
          payoutVars, adjustment, request, tick, earned>>

-----------------------------------------------------------------------------
\* Statuses, as the database enumerates them; "NONE" is a row not created yet.

ConversionStatus == {"NONE", "PENDING", "APPROVED", "REJECTED"}
CommissionStatus == {"NONE", "LOCKED", "APPROVED", "INCLUDED_IN_PAYOUT",
                     "PAID", "REJECTED", "CLAWED_BACK"}
PayoutStatus == {"NONE", "PENDING", "PROCESSING", "PAID", "FAILED", "CANCELLED"}
FraudDecision == {"NONE", "PENDING", "FLAGGED", "CLEARED", "BLOCKED"}

Open == {"PENDING", "PROCESSING"}

canTransitionPayout(from, to) ==
    \/ from = "PENDING" /\ to \in {"PROCESSING", "FAILED", "CANCELLED"}
    \/ from = "PROCESSING" /\ to \in {"PAID", "FAILED"}
    \/ from = "FAILED" /\ to = "PROCESSING"

releasesCommissionsUnlessFailed(to) == to = "CANCELLED"     \* mutant
releasesCommissions(to) == to \in {"FAILED", "CANCELLED"}
settlesCommissions(to) == to = "PAID"


\* A commission a payout request has read, with the amount it had then.
Item == [conversion: Conversion, amount: Nat]

Idle == [kind |-> "idle"]

ReportOp == [kind: {"report"}, conversion: Conversion]
ReviewOp == [kind: {"review"}, conversion: Conversion,
             decision: {"APPROVED", "REJECTED"}]
BlockOp == [kind: {"block"}, conversion: Conversion]
ReverseOp == [kind: {"reverse"}, conversion: Conversion, remaining: Nat,
              clawback: Nat, commission: CommissionStatus \cup {NULL}]
PayoutOp == [kind: {"request"}, affiliate: Affiliate, items: SUBSET Item,
             adjustments: SUBSET Adjustment]
TransitionOp == [kind: {"transition"}, payout: Payout,
                 to: PayoutStatus \ {"NONE", "PENDING"}]

Operation == {Idle} \cup ReportOp \cup ReviewOp \cup BlockOp \cup ReverseOp
                    \cup PayoutOp \cup TransitionOp

Tick == [step: {"idle", "selected", "filtered"}, batch: SUBSET Conversion]

PayoutRow == [status: PayoutStatus, affiliate: Affiliate \cup {NULL},
              items: SUBSET Item]

AdjustmentRow == [conversion: Conversion \cup {NULL}, amount: Nat,
                  settled: Payout \cup {NULL}]

\* Each variable ranges over the values the code can store in it.
TypeOK ==
    /\ conversion \in [Conversion -> ConversionStatus]
    /\ value \in [Conversion -> Nat]
    /\ approvedAt \subseteq Conversion
    /\ notices \in [Conversion -> Seq({"APPROVED", "REJECTED"})]
    /\ fraudDecision \in [Conversion -> FraudDecision]
    /\ commission \in [Conversion -> CommissionStatus]
    /\ amount \in [Conversion -> Nat]
    /\ payoutId \in [Conversion -> Payout \cup {NULL}]
    /\ lockExpired \subseteq Conversion
    /\ payout \in [Payout -> PayoutRow]
    /\ paidAt \subseteq Payout
    /\ failureReason \subseteq Payout
    /\ adjustment \in [Adjustment -> AdjustmentRow]
    /\ request \in [Request -> Operation]
    /\ tick \in [Worker -> Tick]
    /\ earned \in [Conversion -> Nat]

Init ==
    /\ conversion = [c \in Conversion |-> "NONE"]
    /\ value = [c \in Conversion |-> 0]
    /\ approvedAt = {}
    /\ notices = [c \in Conversion |-> <<>>]
    /\ fraudDecision = [c \in Conversion |-> "NONE"]
    /\ commission = [c \in Conversion |-> "NONE"]
    /\ amount = [c \in Conversion |-> 0]
    /\ payoutId = [c \in Conversion |-> NULL]
    /\ lockExpired = {}
    /\ payout = [p \in Payout |->
                    [status |-> "NONE", affiliate |-> NULL, items |-> {}]]
    /\ paidAt = {}
    /\ failureReason = {}
    /\ adjustment = [a \in Adjustment |->
                        [conversion |-> NULL, amount |-> 0, settled |-> NULL]]
    /\ request = [r \in Request |-> Idle]
    /\ tick = [w \in Worker |-> [step |-> "idle", batch |-> {}]]
    /\ earned = [c \in Conversion |-> 0]

-----------------------------------------------------------------------------
\* Requests in progress.

InFlight ==
    Cardinality({r \in Request : request[r] # Idle})
    + Cardinality({w \in Worker : tick[w].step # "idle"})

\* Request r, not in progress, begins; what it has read is op.
Begin(r, op) ==
    /\ request[r] = Idle
    /\ InFlight < MaxInFlight
    /\ request' = [request EXCEPT ![r] = op]

Finish(r) == request' = [request EXCEPT ![r] = Idle]

\* pg_advisory_xact_lock: held from the read that takes it to the commit.
PayoutLocked(a) ==
    \E r \in Request : request[r].kind = "request" /\ request[r].affiliate = a
ReverseNeverLocked(c) == FALSE      \* mutant: no advisory lock
ReverseLocked(c) ==
    \E r \in Request : request[r].kind = "reverse" /\ request[r].conversion = c

\* A request that throws, or whose process dies, before its commit: the
\* transaction rolls back and its advisory lock is released.
Abandon(r) ==
    /\ request[r] # Idle
    /\ Finish(r)
    /\ UNCHANGED <<conversionVars, fraudDecision, commissionVars, lockExpired,
                   payoutVars, adjustment, tick, earned>>

-----------------------------------------------------------------------------
\* Reporting a conversion.

\* The transaction of report: the conversion, its commission, the counters.
Report(r, c, a) ==
    /\ conversion[c] = "NONE"
    /\ Begin(r, [kind |-> "report", conversion |-> c])
    /\ conversion' = [conversion EXCEPT ![c] = "PENDING"]
    /\ value' = [value EXCEPT ![c] = a]
    /\ commission' = [commission EXCEPT ![c] = "LOCKED"]
    /\ amount' = [amount EXCEPT ![c] = a]
    /\ earned' = [earned EXCEPT ![c] = a]
    /\ UNCHANGED <<approvedAt, notices, fraudDecision, payoutId, lockExpired,
                   payoutVars, adjustment, tick>>

\* fraud.evaluate, after that transaction has committed: a review is created
\* when a rule fired, FLAGGED at HIGH_RISK_THRESHOLD.
Evaluate(r, d) ==
    /\ request[r].kind = "report"
    /\ fraudDecision' = [fraudDecision EXCEPT ![request[r].conversion] = d]
    /\ Finish(r)
    /\ UNCHANGED <<conversionVars, commissionVars, lockExpired, payoutVars,
                   adjustment, tick, earned>>

\* The clock reaches lockExpiresAt.
LockExpires(c) ==
    /\ conversion[c] # "NONE"
    /\ c \notin lockExpired
    /\ lockExpired' = lockExpired \cup {c}
    /\ UNCHANGED <<conversionVars, fraudDecision, commissionVars, payoutVars,
                   adjustment, request, tick, earned>>

-----------------------------------------------------------------------------
\* The brand's review.

\* review checks the status before its transaction.
ReviewRead(r, c, d) ==
    /\ conversion[c] = "PENDING"
    /\ Begin(r, [kind |-> "review", conversion |-> c, decision |-> d])
    /\ UNCHANGED <<conversionVars, fraudDecision, commissionVars, lockExpired,
                   payoutVars, adjustment, tick, earned>>

\* Mutant: the conversion is updated by id, not claimed while PENDING.
ReviewCommitById(r) ==
    LET c == request[r].conversion
        d == request[r].decision
    IN
    /\ request[r].kind = "review"
    /\ conversion' = [conversion EXCEPT ![c] = d]
    /\ approvedAt' = IF d = "APPROVED" THEN approvedAt \cup {c} ELSE approvedAt
    /\ commission' = IF d = "REJECTED" \/ c \in lockExpired
                     THEN [commission EXCEPT ![c] = d]
                     ELSE commission
    /\ notices' = [notices EXCEPT ![c] = Append(@, d)]
    /\ Finish(r)
    /\ UNCHANGED <<value, fraudDecision, amount, payoutId, lockExpired,
                   payoutVars, adjustment, tick, earned>>

\* The transaction claims the conversion while it is still PENDING, moves the
\* commission and enqueues the notification.
ReviewCommit(r) ==
    LET c == request[r].conversion
        d == request[r].decision
    IN
    /\ request[r].kind = "review"
    /\ conversion[c] = "PENDING"
    /\ conversion' = [conversion EXCEPT ![c] = d]
    /\ approvedAt' = IF d = "APPROVED" THEN approvedAt \cup {c} ELSE approvedAt
    /\ commission' = IF d = "REJECTED" \/ c \in lockExpired
                     THEN [commission EXCEPT ![c] = d]
                     ELSE commission
    /\ notices' = [notices EXCEPT ![c] = Append(@, d)]
    /\ Finish(r)
    /\ UNCHANGED <<value, fraudDecision, amount, payoutId, lockExpired,
                   payoutVars, adjustment, tick, earned>>

-----------------------------------------------------------------------------
\* The admin's fraud decision.

\* The first write of the route, on its own: the decision.
Decide(c, d) ==
    /\ fraudDecision[c] # "NONE"
    /\ fraudDecision' = [fraudDecision EXCEPT ![c] = d]

DecideOnly(r, c, d) ==
    /\ Decide(c, d)
    /\ Begin(r, Idle)
    /\ UNCHANGED <<conversionVars, commissionVars, lockExpired, payoutVars,
                   adjustment, tick, earned>>

DecideBlocked(r, c) ==
    /\ Decide(c, "BLOCKED")
    /\ Begin(r, [kind |-> "block", conversion |-> c])
    /\ UNCHANGED <<conversionVars, commissionVars, lockExpired, payoutVars,
                   adjustment, tick, earned>>

\* Mutant: commissions are clawed back whatever their status.
BlockAnyCommission(r) ==
    LET c == request[r].conversion
    IN
    /\ request[r].kind = "block"
    /\ conversion' = [conversion EXCEPT ![c] = "REJECTED"]
    /\ commission' = [commission EXCEPT ![c] = "CLAWED_BACK"]
    /\ Finish(r)
    /\ UNCHANGED <<value, approvedAt, notices, fraudDecision, amount, payoutId,
                   lockExpired, payoutVars, adjustment, tick, earned>>

\* The transaction that follows a BLOCKED decision.
Block(r) ==
    LET c == request[r].conversion
    IN
    /\ request[r].kind = "block"
    /\ conversion' = [conversion EXCEPT ![c] = "REJECTED"]
    /\ commission' = [commission EXCEPT ![c] =
                         IF @ = "LOCKED" THEN "CLAWED_BACK" ELSE @]
    /\ Finish(r)
    /\ UNCHANGED <<value, approvedAt, notices, fraudDecision, amount, payoutId,
                   lockExpired, payoutVars, adjustment, tick, earned>>

-----------------------------------------------------------------------------
\* Reversal of an approved conversion, by n units of commission.

\* Mutant: calculateRefund does not bound the refund by what remains.
ReverseReadAnyRefund(r, c, n) ==
    /\ ~ReverseLocked(c)
    /\ conversion[c] = "APPROVED"
    /\ Begin(r, [kind |-> "reverse", conversion |-> c,
                 remaining |-> value[c] - n, clawback |-> n,
                 commission |-> NULL])
    /\ UNCHANGED <<conversionVars, fraudDecision, commissionVars, lockExpired,
                   payoutVars, adjustment, tick, earned>>

\* The transaction takes the conversion's lock, re-reads the conversion and
\* computes the refund, which it refuses when it exceeds what remains.
ReverseRead(r, c, n) ==
    /\ ~ReverseLocked(c)
    /\ conversion[c] = "APPROVED"
    /\ n <= value[c]
    /\ Begin(r, [kind |-> "reverse", conversion |-> c,
                 remaining |-> value[c] - n, clawback |-> n,
                 commission |-> NULL])
    /\ UNCHANGED <<conversionVars, fraudDecision, commissionVars, lockExpired,
                   payoutVars, adjustment, tick, earned>>

\* Mutant: a commission in an unsettled payout is not refused.
ReverseReadAnyCommission(r) ==
    /\ request[r].kind = "reverse"
    /\ request[r].commission = NULL
    /\ request' = [request EXCEPT ![r].commission =
                      commission[request[r].conversion]]
    /\ UNCHANGED <<conversionVars, fraudDecision, commissionVars, lockExpired,
                   payoutVars, adjustment, tick, earned>>

\* It reads the commission and refuses one that is in an unsettled payout.
ReverseReadCommission(r) ==
    /\ request[r].kind = "reverse"
    /\ request[r].commission = NULL
    /\ LET s == commission[request[r].conversion]
       IN  IF s = "INCLUDED_IN_PAYOUT"
           THEN Finish(r)
           ELSE request' = [request EXCEPT ![r].commission = s]
    /\ UNCHANGED <<conversionVars, fraudDecision, commissionVars, lockExpired,
                   payoutVars, adjustment, tick, earned>>

\* Its writes, all by id: the conversion, then a balance adjustment when the
\* commission was read as PAID, and the commission itself otherwise.
ReverseCommit(r) ==
    LET op == request[r]
        c == op.conversion
        full == op.remaining = 0
    IN
    /\ op.kind = "reverse"
    /\ op.commission # NULL
    /\ IF full
       THEN /\ conversion' = [conversion EXCEPT ![c] = "REJECTED"]
            /\ value' = value
       ELSE /\ conversion' = conversion
            /\ value' = [value EXCEPT ![c] = op.remaining]
    /\ IF op.commission = "PAID"
       THEN /\ \E a \in Adjustment :
                 /\ adjustment[a].conversion = NULL
                 /\ adjustment' = [adjustment EXCEPT ![a] =
                       [conversion |-> c, amount |-> op.clawback,
                        settled |-> NULL]]
            /\ UNCHANGED <<commission, amount>>
       ELSE /\ commission' = IF full
                             THEN [commission EXCEPT ![c] = "CLAWED_BACK"]
                             ELSE commission
            /\ amount' = IF full
                         THEN amount
                         ELSE [amount EXCEPT ![c] = op.remaining]
            /\ adjustment' = adjustment
    /\ Finish(r)
    /\ UNCHANGED <<approvedAt, notices, fraudDecision, payoutId, lockExpired,
                   payoutVars, tick, earned>>

-----------------------------------------------------------------------------
\* Payout requests.

SumOf(items) == MapThenSumSet(LAMBDA i : i.amount, items)
Deductions(ids) ==
    SumFunctionOnSet([j \in Adjustment |-> adjustment[j].amount], ids)

\* max(0, commissionTotal + adjustmentTotal), adjustments being negative.
Gross(items, ids) ==
    IF SumOf(items) > Deductions(ids) THEN SumOf(items) - Deductions(ids) ELSE 0

\* The transaction takes the affiliate's lock and looks for an open payout.
PayoutRequest(r, a) ==
    /\ ~PayoutLocked(a)
    /\ ~\E p \in Payout : payout[p].affiliate = a /\ payout[p].status \in Open
    /\ Begin(r, [kind |-> "request", affiliate |-> a, items |-> {},
                 adjustments |-> {}])
    /\ UNCHANGED <<conversionVars, fraudDecision, commissionVars, lockExpired,
                   payoutVars, adjustment, tick, earned>>

\* Mutant: adjustments are not filtered by settledPayoutId = null.
AllAdjustments(a) ==
    {j \in Adjustment : /\ adjustment[j].conversion # NULL
                        /\ AffiliateOf[adjustment[j].conversion] = a}

Unsettled(a) ==
    {j \in Adjustment : /\ adjustment[j].conversion # NULL
                        /\ AffiliateOf[adjustment[j].conversion] = a
                        /\ adjustment[j].settled = NULL}

\* It reads the approved commissions and the unsettled adjustments, and gives
\* up when there are none or too little remains.
PayoutReadBalance(r) ==
    LET a == request[r].affiliate
        approved == {c \in Conversion : /\ AffiliateOf[c] = a
                                        /\ commission[c] = "APPROVED"}
        items == {[conversion |-> c, amount |-> amount[c]] : c \in approved}
    IN
    /\ request[r].kind = "request"
    /\ request[r].items = {}
    /\ IF approved = {} \/ Gross(items, Unsettled(a)) < MinPayout
       THEN Finish(r)
       ELSE request' = [request EXCEPT ![r] =
               [kind |-> "request", affiliate |-> a, items |-> items,
                adjustments |-> Unsettled(a)]]
    /\ UNCHANGED <<conversionVars, fraudDecision, commissionVars, lockExpired,
                   payoutVars, adjustment, tick, earned>>

\* It creates the payout, claims the commissions it read and settles the
\* adjustments; a commission that is not APPROVED any more rolls it all back.
PayoutCommit(r, p) ==
    LET op == request[r]
        claimed == {i.conversion : i \in op.items}
    IN
    /\ op.kind = "request"
    /\ op.items # {}
    /\ \A c \in claimed : commission[c] = "APPROVED"
    /\ payout[p].status = "NONE"
    /\ payout' = [payout EXCEPT ![p] =
          [status |-> "PENDING", affiliate |-> op.affiliate,
           items |-> op.items]]
    /\ commission' = [c \in Conversion |->
          IF c \in claimed THEN "INCLUDED_IN_PAYOUT" ELSE commission[c]]
    /\ payoutId' = [c \in Conversion |->
          IF c \in claimed THEN p ELSE payoutId[c]]
    /\ adjustment' = [j \in Adjustment |->
          IF j \in op.adjustments
          THEN [adjustment[j] EXCEPT !.settled = p]
          ELSE adjustment[j]]
    /\ Finish(r)
    /\ UNCHANGED <<conversionVars, fraudDecision, amount, lockExpired, paidAt,
                   failureReason, tick, earned>>

-----------------------------------------------------------------------------
\* Payout transitions, by an admin.

\* transition checks the state machine before its transaction.
TransitionRead(r, p, to) ==
    /\ canTransitionPayout(payout[p].status, to)
    /\ Begin(r, [kind |-> "transition", payout |-> p, to |-> to])
    /\ UNCHANGED <<conversionVars, fraudDecision, commissionVars, lockExpired,
                   payoutVars, adjustment, tick, earned>>

\* Mutant: commissions are settled when the payout starts PROCESSING, before
\* the transfer is recorded.
TransitionCommitEarly(r) ==
    LET p == request[r].payout
        to == request[r].to
        included == {c \in Conversion : /\ payoutId[c] = p
                                        /\ commission[c] = "INCLUDED_IN_PAYOUT"}
    IN
    /\ request[r].kind = "transition"
    /\ payout' = [payout EXCEPT ![p].status = to]
    /\ paidAt' = IF settlesCommissions(to) THEN paidAt \cup {p} ELSE paidAt
    /\ failureReason' = IF to = "FAILED"
                        THEN failureReason \cup {p} ELSE failureReason
    /\ commission' = [c \in Conversion |->
          IF c \in included /\ to = "PROCESSING" THEN "PAID"
          ELSE IF c \in included /\ releasesCommissions(to) THEN "APPROVED"
          ELSE commission[c]]
    /\ payoutId' = [c \in Conversion |->
          IF c \in included /\ releasesCommissions(to) THEN NULL
          ELSE payoutId[c]]
    /\ Finish(r)
    /\ UNCHANGED <<conversionVars, fraudDecision, amount, lockExpired,
                   adjustment, tick, earned>>

\* The transaction writes the payout by id, then the commissions that are
\* still included in it.
TransitionCommit(r) ==
    LET p == request[r].payout
        to == request[r].to
        included == {c \in Conversion : /\ payoutId[c] = p
                                        /\ commission[c] = "INCLUDED_IN_PAYOUT"}
    IN
    /\ request[r].kind = "transition"
    /\ payout' = [payout EXCEPT ![p].status = to]
    /\ paidAt' = IF settlesCommissions(to) THEN paidAt \cup {p} ELSE paidAt
    /\ failureReason' = IF to = "FAILED"
                        THEN failureReason \cup {p} ELSE failureReason
    /\ commission' = [c \in Conversion |->
          IF c \in included /\ settlesCommissions(to) THEN "PAID"
          ELSE IF c \in included /\ releasesCommissions(to) THEN "APPROVED"
          ELSE commission[c]]
    /\ payoutId' = [c \in Conversion |->
          IF c \in included /\ releasesCommissions(to) THEN NULL
          ELSE payoutId[c]]
    /\ Finish(r)
    /\ UNCHANGED <<conversionVars, fraudDecision, amount, lockExpired,
                   adjustment, tick, earned>>

-----------------------------------------------------------------------------
\* The lock-expiry worker.

ExpiredLocks == {c \in Conversion : commission[c] = "LOCKED" /\ c \in lockExpired}

\* Mutant: a tick waits for a full batch.
TickSelectFull(w, S) ==
    /\ tick[w].step = "idle"
    /\ InFlight < MaxInFlight
    /\ S \subseteq ExpiredLocks
    /\ Cardinality(S) = Batch
    /\ tick' = [tick EXCEPT ![w] = [step |-> "selected", batch |-> S]]
    /\ UNCHANGED <<conversionVars, fraudDecision, commissionVars, lockExpired,
                   payoutVars, adjustment, request, earned>>

\* A tick selects up to Batch expired LOCKED commissions, in no stated order.
TickSelect(w, S) ==
    /\ tick[w].step = "idle"
    /\ InFlight < MaxInFlight
    /\ S \subseteq ExpiredLocks
    /\ S # {}
    /\ Cardinality(S) <= Batch
    /\ Cardinality(S) = Batch \/ S = ExpiredLocks
    /\ tick' = [tick EXCEPT ![w] = [step |-> "selected", batch |-> S]]
    /\ UNCHANGED <<conversionVars, fraudDecision, commissionVars, lockExpired,
                   payoutVars, adjustment, request, earned>>

\* Mutant: it does not look at the conversions.
TickKeepsAll(w) ==
    /\ tick[w].step = "selected"
    /\ tick' = [tick EXCEPT ![w].step = "filtered"]
    /\ UNCHANGED <<conversionVars, fraudDecision, commissionVars, lockExpired,
                   payoutVars, adjustment, request, earned>>

\* It reads their conversions and keeps the approved ones.
TickFilter(w) ==
    /\ tick[w].step = "selected"
    /\ LET toApprove == {c \in tick[w].batch : conversion[c] = "APPROVED"}
       IN  tick' = [tick EXCEPT ![w] =
              [step |-> IF toApprove = {} THEN "idle" ELSE "filtered",
               batch |-> toApprove]]
    /\ UNCHANGED <<conversionVars, fraudDecision, commissionVars, lockExpired,
                   payoutVars, adjustment, request, earned>>

\* It promotes them by id, whatever their status is by now.
TickPromote(w) ==
    /\ tick[w].step = "filtered"
    /\ commission' = [c \in Conversion |->
          IF c \in tick[w].batch THEN "APPROVED" ELSE commission[c]]
    /\ tick' = [tick EXCEPT ![w] = [step |-> "idle", batch |-> {}]]
    /\ UNCHANGED <<conversionVars, fraudDecision, amount, payoutId, lockExpired,
                   payoutVars, adjustment, request, earned>>

\* A query fails or the instance dies: the next tick starts over.
TickFails(w) ==
    /\ tick[w].step # "idle"
    /\ tick' = [tick EXCEPT ![w] = [step |-> "idle", batch |-> {}]]
    /\ UNCHANGED <<conversionVars, fraudDecision, commissionVars, lockExpired,
                   payoutVars, adjustment, request, earned>>

-----------------------------------------------------------------------------
RequestStep(r) ==
    \/ Abandon(r)
    \/ \E c \in Conversion, a \in Amounts : Report(r, c, a)
    \/ \E d \in FraudScores : Evaluate(r, d)
    \/ \E c \in Conversion, d \in {"APPROVED", "REJECTED"} : ReviewRead(r, c, d)
    \/ ReviewCommit(r)
    \/ \E c \in Conversion, d \in {"CLEARED", "FLAGGED"} : DecideOnly(r, c, d)
    \/ \E c \in Conversion : DecideBlocked(r, c)
    \/ Block(r)
    \/ \E c \in Conversion : \E n \in 1..earned[c] : ReverseRead(r, c, n)
    \/ ReverseReadCommission(r)
    \/ ReverseCommit(r)
    \/ \E a \in Affiliate : PayoutRequest(r, a)
    \/ PayoutReadBalance(r)
    \/ \E p \in Payout : PayoutCommit(r, p)
    \/ \E p \in Payout, to \in PayoutStatus : TransitionRead(r, p, to)
    \/ TransitionCommit(r)

TickStep(w) ==
    \/ \E S \in SUBSET ExpiredLocks : TickSelect(w, S)
    \/ TickFilter(w)
    \/ TickPromote(w)
    \/ TickFails(w)

Next ==
    \/ \E r \in Request : RequestStep(r)
    \/ \E w \in Worker : TickStep(w)
    \/ \E c \in Conversion : LockExpires(c)

Spec == Init /\ [][Next]_vars

\* setInterval keeps starting ticks, and a tick that keeps being possible is
\* not failed by the database every single time.  Requests are not fair:
\* nobody has to send one.
WorkerFairness ==
    \A w \in Worker :
        /\ WF_vars(\E S \in SUBSET ExpiredLocks : TickSelect(w, S))
        /\ SF_vars(TickFilter(w))
        /\ SF_vars(TickPromote(w))

FairSpec == Spec /\ WorkerFairness

-----------------------------------------------------------------------------
(***************************************************************************)
(* What holds however requests overlap.                                    *)
(***************************************************************************)

\* A commission marked INCLUDED_IN_PAYOUT belongs to a payout of its own
\* affiliate that is still open: settling, failing or cancelling a payout
\* never strands a commission, even when transitions race.
IncludedIsInOpenPayout ==
    \A c \in Conversion : commission[c] = "INCLUDED_IN_PAYOUT" =>
        /\ payoutId[c] # NULL
        /\ payout[payoutId[c]].status \in Open
        /\ payout[payoutId[c]].affiliate = AffiliateOf[c]

\* A commission is PAID only through a payout whose transfer was recorded.
PaidThroughPaidPayout ==
    \A c \in Conversion : commission[c] = "PAID" =>
        payoutId[c] # NULL /\ payoutId[c] \in paidAt

\* No commission becomes payable before the brand approved its conversion and
\* its lock period ran out, whether review or the worker promotes it.
PayableIsVetted ==
    \A c \in Conversion :
        commission[c] \in {"APPROVED", "INCLUDED_IN_PAYOUT", "PAID"} =>
            c \in approvedAt /\ c \in lockExpired

\* The advisory lock of requestPayout: racing requests of one affiliate leave
\* at most one payout PENDING.
OnePendingPayout ==
    \A p, q \in Payout :
        /\ payout[p].status = "PENDING"
        /\ payout[q].status = "PENDING"
        /\ payout[p].affiliate = payout[q].affiliate
        => p = q

\* Two reviews of one conversion never both take effect: the affiliate is told
\* one decision, once.
ReviewedOnce ==
    \A c \in Conversion : Len(notices[c]) <= 1

Clawbacks(c) ==
    Deductions({j \in Adjustment : adjustment[j].conversion = c})

\* The lock of reverse: concurrent and repeated refunds of one conversion never
\* claw back more than the commission it earned, counting what is left of it.
ClawbackBounded ==
    \A c \in Conversion :
        Clawbacks(c) + (IF conversion[c] = "APPROVED" THEN value[c] ELSE 0)
            <= earned[c]

\* An adjustment is settled by one payout: once netted off, no later payout
\* deducts it again.
SettledOnce ==
    [][\A j \in Adjustment : adjustment[j].settled # NULL =>
          adjustment'[j] = adjustment[j]]_vars

\* A commission the brand rejected is never brought back, whatever a worker
\* tick or a reversal had read before.
RejectionIsFinal ==
    [][\A c \in Conversion : commission[c] = "REJECTED" =>
          commission'[c] = "REJECTED"]_vars

\* An approved conversion whose lock ran out does not stay locked: the worker
\* gets to it, or the commission leaves LOCKED some other way.
LocksArePromoted ==
    \A c \in Conversion :
        (c \in ExpiredLocks /\ conversion[c] = "APPROVED")
            ~> commission[c] # "LOCKED"

-----------------------------------------------------------------------------
(***************************************************************************)
(* Why it holds: what each request in progress has read that is still true *)
(* when it writes.  The invariants below are inductive together with       *)
(* TypeOK; CommissionLedgerProofs proves them.                             *)
(***************************************************************************)

\* Review's claim succeeds once and before any notice; a conversion that was
\* reversed, and a tick's batch when it promotes, had been approved before.
VettingInv ==
    /\ PayableIsVetted
    /\ ReviewedOnce
    /\ \A c \in Conversion :
        /\ conversion[c] = "APPROVED" => c \in approvedAt
        /\ conversion[c] \in {"NONE", "PENDING"} =>
               notices[c] = <<>> /\ c \notin approvedAt
        /\ commission[c] = "REJECTED" =>
               conversion[c] = "REJECTED" /\ c \notin approvedAt
    /\ \A r \in Request : request[r].kind = "reverse" =>
           request[r].conversion \in approvedAt
    /\ \A w \in Worker :
        /\ tick[w].batch \subseteq lockExpired
        /\ tick[w].step = "filtered" => tick[w].batch \subseteq approvedAt

\* A payout request is alone with its affiliate: no other request of hers is
\* past the lock and none of her payouts is PENDING.
PayoutInv ==
    /\ IncludedIsInOpenPayout
    /\ PaidThroughPaidPayout
    /\ OnePendingPayout
    /\ \A r \in Request : request[r].kind = "request" =>
        /\ \A p \in Payout : payout[p].affiliate = request[r].affiliate =>
               payout[p].status # "PENDING"
        /\ \A i \in request[r].items :
               AffiliateOf[i.conversion] = request[r].affiliate
        /\ \A q \in Request :
               /\ request[q].kind = "request"
               /\ request[q].affiliate = request[r].affiliate
               => q = r

\* The adjustments a payout request has read are its affiliate's, and are not
\* settled behind its back.
SettlementInv ==
    /\ \A j \in Adjustment :
           adjustment[j].conversion = NULL => adjustment[j].settled = NULL
    /\ \A r \in Request : request[r].kind = "request" =>
           \A j \in request[r].adjustments :
               /\ adjustment[j].conversion # NULL
               /\ AffiliateOf[adjustment[j].conversion] = request[r].affiliate
               /\ adjustment[j].settled = NULL

\* A reversal is alone with its conversion, and leaves room for what it claws
\* back: neither earlier clawbacks nor the remaining value can have grown since
\* it read them.
ClawbackInv ==
    /\ IsFiniteSet({j \in Adjustment : adjustment[j].conversion # NULL})
    /\ \A c \in Conversion :
        /\ conversion[c] = "NONE" => earned[c] = 0
        /\ Clawbacks(c)
               + (IF conversion[c] \in {"PENDING", "APPROVED"} THEN value[c] ELSE 0)
               <= earned[c]
    /\ \A r \in Request : request[r].kind = "reverse" =>
        /\ conversion[request[r].conversion] # "NONE"
        /\ Clawbacks(request[r].conversion) + request[r].remaining
               + request[r].clawback <= earned[request[r].conversion]
        /\ \A q \in Request :
               /\ request[q].kind = "reverse"
               /\ request[q].conversion = request[r].conversion
               => q = r

-----------------------------------------------------------------------------
(***************************************************************************)
(* What holds while requests do not overlap (MaxInFlight = 1).             *)
(***************************************************************************)

\* A payout that has not failed or been cancelled describes exactly the
\* commissions attached to it, at the amounts they have now.
PayoutOwnsItsItems ==
    \A p \in Payout :
        /\ payout[p].status \in Open \cup {"PAID"}
        /\ p \notin failureReason
        => payout[p].items =
               {[conversion |-> c, amount |-> amount[c]] :
                   c \in {d \in Conversion : payoutId[d] = p}}

\* Why it holds: one request or tick is in progress, and what it has read is
\* still so when it writes.
AloneInProgress ==
    /\ \A r, q \in Request : request[r] # Idle /\ request[q] # Idle => r = q
    /\ \A w, v \in Worker :
           tick[w].step # "idle" /\ tick[v].step # "idle" => w = v
    /\ \A r \in Request, w \in Worker : request[r] = Idle \/ tick[w].step = "idle"

StillTrue(op) ==
    /\ op.kind = "request" => \A i \in op.items :
           commission[i.conversion] = "APPROVED" /\ amount[i.conversion] = i.amount
    /\ op.kind = "reverse" /\ op.commission # NULL =>
           /\ commission[op.conversion] = op.commission
           /\ op.commission # "INCLUDED_IN_PAYOUT"
    /\ op.kind = "transition" => canTransitionPayout(payout[op.payout].status, op.to)

\* A commission is attached to a payout exactly while it is included or paid.
AttachedInv ==
    /\ PayoutOwnsItsItems
    /\ \A c \in Conversion :
        /\ payoutId[c] # NULL <=> commission[c] \in {"INCLUDED_IN_PAYOUT", "PAID"}
        /\ payoutId[c] # NULL => payout[payoutId[c]].status # "NONE"
    /\ \A p \in Payout : payout[p].status = "FAILED" => p \in failureReason

OwnershipInv ==
    /\ AloneInProgress
    /\ AttachedInv
    /\ \A r \in Request : StillTrue(request[r])
    /\ \A w \in Worker : \A c \in tick[w].batch :
           tick[w].step # "idle" /\ commission[c] = "LOCKED"

\* Why commissions move as CommissionLifecycle says: one that was earned waits
\* for its conversion's review, a reversal finds its conversion as approved as
\* it read it, and a payout request has read all that its affiliate is owed.
EarnedWaits ==
    \A c \in Conversion :
        /\ conversion[c] = "NONE" => commission[c] = "NONE"
        /\ conversion[c] = "PENDING" => commission[c] = "LOCKED"
        /\ conversion[c] = "APPROVED" =>
               commission[c] \in {"LOCKED", "APPROVED", "INCLUDED_IN_PAYOUT", "PAID"}

UpToDate(op) ==
    /\ op.kind = "reverse" => conversion[op.conversion] = "APPROVED"
    /\ op.kind = "request" /\ op.items # {} =>
           \A c \in Conversion :
               AffiliateOf[c] = op.affiliate /\ commission[c] = "APPROVED"
                   => \E i \in op.items : i.conversion = c

EarnedInv == EarnedWaits /\ \A r \in Request : UpToDate(request[r])

\* The commissions and payouts move as CommissionLifecycle says.
Lifecycle == INSTANCE CommissionLifecycle WITH
    status  <- commission,
    owner   <- payoutId,
    created <- {p \in Payout : payout[p].status # "NONE"}
ImplementsLifecycle == Lifecycle!Spec

-----------------------------------------------------------------------------
(***************************************************************************)
(* What the repository says and the code does not keep.                    *)
(***************************************************************************)

\* payout-concurrency.test.ts: the bug to prevent is an affiliate paid twice
\* for the same work.
NoCommissionPaidTwice ==
    \A p, q \in paidAt : \A i \in payout[p].items, j \in payout[q].items :
        i.conversion = j.conversion => p = q

\* requestPayout: "a clawback is netted off exactly once".  One that was
\* settled by a payout whose money never left has not been netted off.
NettedOffOnce ==
    \A j \in Adjustment : adjustment[j].settled # NULL =>
        payout[adjustment[j].settled].status \notin {"FAILED", "CANCELLED"}

\* reverse: a commission committed to an unsettled payout is not edited.
IncludedIsNotEdited ==
    [][\A c \in Conversion : commission[c] = "INCLUDED_IN_PAYOUT" =>
          /\ amount'[c] = amount[c]
          /\ commission'[c] # "CLAWED_BACK"]_vars
=============================================================================
