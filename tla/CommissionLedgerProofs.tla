----------------------- MODULE CommissionLedgerProofs -----------------------
(***************************************************************************)
(* Proofs about CommissionLedger, for any number of conversions,           *)
(* affiliates, payouts, overlapping requests and overlapping worker ticks. *)
(*                                                                         *)
(* None of the properties is inductive by itself: each depends on what a   *)
(* request in progress has read and whether that can have changed since.   *)
(* The conjuncts below say, for each kind of request, which part of what   *)
(* it read is still true when it writes.                                   *)
(*                                                                         *)
(* Then the money: however refunds of a conversion overlap or repeat, they *)
(* claw back no more than it earned.  The clawbacks are a sum over the     *)
(* balance adjustments, so the proof rests on the lemmas of SumTheorems.   *)
(* Last, of requests served one at a time: payouts own what they list, and *)
(* the ledger implements CommissionLifecycle.                              *)
(***************************************************************************)
EXTENDS CommissionLedger, SumTheorems

USE LedgerAssumption

-----------------------------------------------------------------------------
\* Type correctness.

LEMMA InitType == Init => TypeOK
  BY DEF Init, TypeOK, ConversionStatus, CommissionStatus, PayoutStatus,
         FraudDecision, Operation, Idle, Tick, PayoutRow, AdjustmentRow

\* The kind of a request in progress determines the fields it has read.
LEMMA OperationOfKind ==
  ASSUME TypeOK, NEW r \in Request
  PROVE  /\ request[r].kind = "report" => request[r] \in ReportOp
         /\ request[r].kind = "review" => request[r] \in ReviewOp
         /\ request[r].kind = "block" => request[r] \in BlockOp
         /\ request[r].kind = "reverse" => request[r] \in ReverseOp
         /\ request[r].kind = "request" => request[r] \in PayoutOp
         /\ request[r].kind = "transition" => request[r] \in TransitionOp
  BY DEF TypeOK, Operation, Idle, ReportOp, ReviewOp, BlockOp, ReverseOp,
         PayoutOp, TransitionOp

\* Beginning or finishing a request keeps the requests well formed.
LEMMA RequestType ==
  ASSUME TypeOK, NEW r \in Request
  PROVE  /\ Finish(r) => request' \in [Request -> Operation]
         /\ \A op \in Operation :
                Begin(r, op) => request' \in [Request -> Operation]
  <1>1. request \in [Request -> Operation] /\ Idle \in Operation
    BY DEF TypeOK, Operation
  <1>2. \A op \in Operation :
            [request EXCEPT ![r] = op] \in [Request -> Operation]
    BY <1>1
  <1>3. QED
    BY <1>1, <1>2, Zenon DEF Finish, Begin

\* Every step leaves each variable in the values the code can store.
LEMMA StepType == TypeOK /\ [Next]_vars => TypeOK'
  <1> SUFFICES ASSUME TypeOK, [Next]_vars PROVE TypeOK'
    OBVIOUS
  <1> USE DEF TypeOK
  <1>1. ASSUME NEW r \in Request, Abandon(r) PROVE TypeOK'
    BY <1>1, RequestType DEF Abandon, conversionVars, commissionVars, payoutVars
  <1>2. ASSUME NEW r \in Request, NEW c \in Conversion, NEW a \in Amounts,
               Report(r, c, a)
        PROVE TypeOK'
    <2>1. [kind |-> "report", conversion |-> c] \in Operation
      BY DEF Operation, ReportOp
    <2>2. QED
      BY <1>2, <2>1, RequestType
         DEF Report, ConversionStatus, CommissionStatus, payoutVars
  <1>3. ASSUME NEW r \in Request, NEW d \in FraudScores, Evaluate(r, d)
        PROVE TypeOK'
    BY <1>3, RequestType
       DEF Evaluate, FraudDecision, conversionVars, commissionVars, payoutVars
  <1>4. ASSUME NEW r \in Request, NEW c \in Conversion,
               NEW d \in {"APPROVED", "REJECTED"}, ReviewRead(r, c, d)
        PROVE TypeOK'
    <2>1. [kind |-> "review", conversion |-> c, decision |-> d] \in Operation
      BY DEF Operation, ReviewOp
    <2>2. QED
      BY <1>4, <2>1, RequestType
         DEF ReviewRead, conversionVars, commissionVars, payoutVars
  <1>5. ASSUME NEW r \in Request, ReviewCommit(r) PROVE TypeOK'
    <2>1. /\ request[r].conversion \in Conversion
          /\ request[r].decision \in {"APPROVED", "REJECTED"}
      BY <1>5, OperationOfKind DEF ReviewCommit, ReviewOp
    <2>2. /\ conversion' \in [Conversion -> ConversionStatus]
          /\ commission' \in [Conversion -> CommissionStatus]
          /\ approvedAt' \subseteq Conversion
      BY <1>5, <2>1 DEF ReviewCommit, ConversionStatus, CommissionStatus
    <2>3. notices' \in [Conversion -> Seq({"APPROVED", "REJECTED"})]
      BY <1>5, <2>1 DEF ReviewCommit
    <2>4. QED
      BY <1>5, <2>2, <2>3, RequestType DEF ReviewCommit, payoutVars
  <1>6. ASSUME NEW r \in Request, NEW c \in Conversion,
               NEW d \in {"CLEARED", "FLAGGED"}, DecideOnly(r, c, d)
        PROVE TypeOK'
    <2>1. Idle \in Operation
      BY DEF Operation
    <2>2. QED
      BY <1>6, <2>1, RequestType DEF DecideOnly, Decide, FraudDecision,
         conversionVars, commissionVars, payoutVars
  <1>7. ASSUME NEW r \in Request, NEW c \in Conversion, DecideBlocked(r, c)
        PROVE TypeOK'
    <2>1. [kind |-> "block", conversion |-> c] \in Operation
      BY DEF Operation, BlockOp
    <2>2. QED
      BY <1>7, <2>1, RequestType DEF DecideBlocked, Decide, FraudDecision,
         conversionVars, commissionVars, payoutVars
  <1>8. ASSUME NEW r \in Request, Block(r) PROVE TypeOK'
    BY <1>8, RequestType DEF Block, ConversionStatus, CommissionStatus, payoutVars
  <1>9. ASSUME NEW r \in Request, NEW c \in Conversion, NEW n \in 1..earned[c],
               ReverseRead(r, c, n)
        PROVE TypeOK'
    <2>1. [kind |-> "reverse", conversion |-> c, remaining |-> value[c] - n,
           clawback |-> n, commission |-> NULL] \in Operation
      BY <1>9 DEF ReverseRead, Operation, ReverseOp
    <2>2. QED
      BY <1>9, <2>1, RequestType
         DEF ReverseRead, conversionVars, commissionVars, payoutVars
  <1>10. ASSUME NEW r \in Request, ReverseReadCommission(r) PROVE TypeOK'
    <2>1. request[r] \in ReverseOp
      BY <1>10, OperationOfKind DEF ReverseReadCommission
    <2> DEFINE s == commission[request[r].conversion]
    <2>2. s \in CommissionStatus
      BY <2>1 DEF ReverseOp
    <2>3. [request[r] EXCEPT !.commission = s] \in ReverseOp
      BY <2>1, <2>2, Zenon DEF ReverseOp
    <2>4. request' \in [Request -> Operation]
      <3>1. CASE s = "INCLUDED_IN_PAYOUT"
        BY <1>10, <3>1, RequestType DEF ReverseReadCommission
      <3>2. CASE s # "INCLUDED_IN_PAYOUT"
        <4>1. request' = [request EXCEPT ![r] =
                             [request[r] EXCEPT !.commission = s]]
          BY <1>10, <3>2, Zenon DEF ReverseReadCommission
        <4>2. QED
          BY <4>1, <2>3, Zenon DEF Operation
      <3>3. QED
        BY <3>1, <3>2
    <2>5. QED
      BY <1>10, <2>4
         DEF ReverseReadCommission, conversionVars, commissionVars, payoutVars
  <1>11. ASSUME NEW r \in Request, ReverseCommit(r) PROVE TypeOK'
    <2>1. request[r] \in ReverseOp
      BY <1>11, OperationOfKind DEF ReverseCommit
    <2>2. /\ request[r].conversion \in Conversion
          /\ request[r].remaining \in Nat
          /\ request[r].clawback \in Nat
      BY <2>1 DEF ReverseOp
    <2>3. /\ conversion' \in [Conversion -> ConversionStatus]
          /\ value' \in [Conversion -> Nat]
          /\ commission' \in [Conversion -> CommissionStatus]
          /\ amount' \in [Conversion -> Nat]
      BY <1>11, <2>2 DEF ReverseCommit, ConversionStatus, CommissionStatus
    <2>4. adjustment' \in [Adjustment -> AdjustmentRow]
      <3>1. [conversion |-> request[r].conversion,
             amount |-> request[r].clawback, settled |-> NULL] \in AdjustmentRow
        BY <2>2 DEF AdjustmentRow
      <3>2. \/ adjustment' = adjustment
            \/ \E j \in Adjustment, new \in AdjustmentRow :
                   adjustment' = [adjustment EXCEPT ![j] = new]
        BY <1>11, <3>1, Zenon DEF ReverseCommit
      <3>3. adjustment \in [Adjustment -> AdjustmentRow]
        OBVIOUS
      <3>4. QED
        BY <3>2, <3>3
    <2>5. QED
      BY <1>11, <2>3, <2>4, RequestType DEF ReverseCommit, payoutVars
  <1>12. ASSUME NEW r \in Request, NEW a \in Affiliate, PayoutRequest(r, a)
         PROVE TypeOK'
    <2>1. [kind |-> "request", affiliate |-> a, items |-> {},
           adjustments |-> {}] \in Operation
      BY DEF Operation, PayoutOp
    <2>2. QED
      BY <1>12, <2>1, RequestType
         DEF PayoutRequest, conversionVars, commissionVars, payoutVars
  <1>13. ASSUME NEW r \in Request, PayoutReadBalance(r) PROVE TypeOK'
    <2>1. request[r] \in PayoutOp
      BY <1>13, OperationOfKind DEF PayoutReadBalance
    <2>2. ASSUME NEW S \in SUBSET Conversion, NEW J \in SUBSET Adjustment
          PROVE  [kind |-> "request", affiliate |-> request[r].affiliate,
                  items |-> {[conversion |-> c, amount |-> amount[c]] : c \in S},
                  adjustments |-> J] \in Operation
      BY <2>1 DEF Operation, PayoutOp, Item
    <2>3. Finish(r) \/ \E op \in Operation : request' = [request EXCEPT ![r] = op]
      BY <1>13, <2>2 DEF PayoutReadBalance, Unsettled
    <2>4. request' \in [Request -> Operation]
      BY <2>3, RequestType
    <2>5. QED
      BY <1>13, <2>4
         DEF PayoutReadBalance, conversionVars, commissionVars, payoutVars
  <1>14. ASSUME NEW r \in Request, NEW p \in Payout, PayoutCommit(r, p)
         PROVE TypeOK'
    <2>1. request[r] \in PayoutOp
      BY <1>14, OperationOfKind DEF PayoutCommit
    <2>2. request[r].affiliate \in Affiliate /\ request[r].items \subseteq Item
      BY <2>1 DEF PayoutOp
    <2>3. payout' \in [Payout -> PayoutRow]
      BY <1>14, <2>2 DEF PayoutCommit, PayoutStatus, PayoutRow
    <2>4. /\ commission' \in [Conversion -> CommissionStatus]
          /\ payoutId' \in [Conversion -> Payout \cup {NULL}]
      BY <1>14 DEF PayoutCommit, CommissionStatus
    <2>5. adjustment' \in [Adjustment -> AdjustmentRow]
      <3>1. ASSUME NEW j \in Adjustment
            PROVE  [adjustment[j] EXCEPT !.settled = p] \in AdjustmentRow
        <4>1. adjustment[j] \in AdjustmentRow
          OBVIOUS
        <4>2. QED
          BY <4>1, Zenon DEF AdjustmentRow
      <3>2. QED
        BY <1>14, <3>1, Zenon DEF PayoutCommit
    <2>6. QED
      BY <1>14, <2>3, <2>4, <2>5, RequestType DEF PayoutCommit, conversionVars
  <1>15. ASSUME NEW r \in Request, NEW p \in Payout, NEW to \in PayoutStatus,
                TransitionRead(r, p, to)
         PROVE TypeOK'
    <2>1. to \in PayoutStatus \ {"NONE", "PENDING"}
      BY <1>15 DEF TransitionRead, canTransitionPayout, PayoutStatus
    <2>2. [kind |-> "transition", payout |-> p, to |-> to] \in Operation
      BY <2>1 DEF Operation, TransitionOp
    <2>3. QED
      BY <1>15, <2>2, RequestType
         DEF TransitionRead, conversionVars, commissionVars, payoutVars
  <1>16. ASSUME NEW r \in Request, TransitionCommit(r) PROVE TypeOK'
    <2>1. request[r] \in TransitionOp
      BY <1>16, OperationOfKind DEF TransitionCommit
    <2>2. request[r].payout \in Payout /\ request[r].to \in PayoutStatus
      BY <2>1 DEF TransitionOp
    <2>3. [payout[request[r].payout] EXCEPT !.status = request[r].to] \in
             PayoutRow
      <3>1. payout[request[r].payout] \in PayoutRow
        BY <2>2
      <3>2. QED
        BY <2>2, <3>1, Zenon DEF PayoutRow
    <2>4. payout' \in [Payout -> PayoutRow]
      BY <1>16, <2>2, <2>3, Zenon DEF TransitionCommit
    <2>5. /\ commission' \in [Conversion -> CommissionStatus]
          /\ payoutId' \in [Conversion -> Payout \cup {NULL}]
          /\ paidAt' \subseteq Payout
          /\ failureReason' \subseteq Payout
      BY <1>16, <2>2 DEF TransitionCommit, CommissionStatus
    <2>6. QED
      BY <1>16, <2>4, <2>5, RequestType DEF TransitionCommit, conversionVars
  <1>17. ASSUME NEW w \in Worker, TickStep(w) PROVE TypeOK'
    <2>1. tick' \in [Worker -> Tick]
      <3>1. \A S \in SUBSET Conversion, step \in {"idle", "selected", "filtered"} :
                [step |-> step, batch |-> S] \in Tick
        BY DEF Tick
      <3>2. tick[w].batch \in SUBSET Conversion
        BY DEF Tick
      <3>3. \E t \in Tick : tick' = [tick EXCEPT ![w] = t]
        BY <1>17, <3>1, <3>2 DEF TickStep, TickSelect, TickFilter, TickPromote,
           TickFails, ExpiredLocks
      <3>4. QED
        BY <3>3
    <2>2. commission' \in [Conversion -> CommissionStatus]
      BY <1>17 DEF TickStep, TickSelect, TickFilter, TickPromote, TickFails,
                   CommissionStatus, commissionVars
    <2>3. UNCHANGED <<conversionVars, fraudDecision, amount, payoutId, lockExpired,
                      payoutVars, adjustment, request, earned>>
      BY <1>17, Zenon DEF TickStep, TickSelect, TickFilter, TickPromote,
         TickFails, commissionVars
    <2>4. QED
      BY <2>1, <2>2, <2>3 DEF conversionVars, payoutVars
  <1>18. ASSUME NEW c \in Conversion, LockExpires(c) PROVE TypeOK'
    BY <1>18 DEF LockExpires, conversionVars, commissionVars, payoutVars
  <1>19. CASE UNCHANGED vars
    BY <1>19 DEF vars, conversionVars, commissionVars, payoutVars
  <1>20. ASSUME NEW r \in Request, RequestStep(r) PROVE TypeOK'
    <2> HIDE DEF TypeOK
    <2>1. ASSUME \/ Abandon(r)
                 \/ \E c \in Conversion, a \in Amounts : Report(r, c, a)
                 \/ \E d \in FraudScores : Evaluate(r, d)
                 \/ \E c \in Conversion, d \in {"APPROVED", "REJECTED"} :
                        ReviewRead(r, c, d)
                 \/ ReviewCommit(r)
                 \/ \E c \in Conversion, d \in {"CLEARED", "FLAGGED"} :
                        DecideOnly(r, c, d)
                 \/ \E c \in Conversion : DecideBlocked(r, c)
                 \/ Block(r)
          PROVE  TypeOK'
      BY <2>1, <1>1, <1>2, <1>3, <1>4, <1>5, <1>6, <1>7, <1>8
    <2>2. ASSUME \/ \E c \in Conversion : \E n \in 1..earned[c] :
                        ReverseRead(r, c, n)
                 \/ ReverseReadCommission(r)
                 \/ ReverseCommit(r)
                 \/ \E a \in Affiliate : PayoutRequest(r, a)
                 \/ PayoutReadBalance(r)
                 \/ \E p \in Payout : PayoutCommit(r, p)
                 \/ \E p \in Payout, to \in PayoutStatus : TransitionRead(r, p, to)
                 \/ TransitionCommit(r)
          PROVE  TypeOK'
      BY <2>2, <1>9, <1>10, <1>11, <1>12, <1>13, <1>14, <1>15, <1>16
    <2>3. QED
      BY <1>20, <2>1, <2>2, Zenon DEF RequestStep
  <1>21. QED
    BY <1>17, <1>18, <1>19, <1>20, Zenon DEF Next

\* CommissionLedger is type correct.
THEOREM TypeCorrect == Spec => []TypeOK
  BY InitType, StepType, PTL DEF Spec

-----------------------------------------------------------------------------
\* Vetting: review, reversal, fraud decisions and the worker.

LEMMA InitVetting == Init => VettingInv
  BY DEF Init, VettingInv, PayableIsVetted, ReviewedOnce, Idle

LEMMA StepVetting == TypeOK /\ VettingInv /\ [Next]_vars => VettingInv'
  <1> SUFFICES ASSUME TypeOK, VettingInv, [Next]_vars PROVE VettingInv'
    OBVIOUS
  <1> USE DEF TypeOK, VettingInv, PayableIsVetted, ReviewedOnce
  <1>1. ASSUME NEW r \in Request, Abandon(r) PROVE VettingInv'
    BY <1>1 DEF Abandon, Finish, Idle, conversionVars, commissionVars, payoutVars
  <1>2. ASSUME NEW r \in Request, NEW c \in Conversion, NEW a \in Amounts,
               Report(r, c, a)
        PROVE VettingInv'
    BY <1>2 DEF Report, Begin, payoutVars
  <1>3. ASSUME NEW r \in Request, NEW d \in FraudScores, Evaluate(r, d)
        PROVE VettingInv'
    BY <1>3 DEF Evaluate, Finish, Idle, conversionVars, commissionVars
  <1>4. ASSUME NEW r \in Request, NEW c \in Conversion,
               NEW d \in {"APPROVED", "REJECTED"}, ReviewRead(r, c, d)
        PROVE VettingInv'
    BY <1>4 DEF ReviewRead, Begin, conversionVars, commissionVars
  <1>5. ASSUME NEW r \in Request, ReviewCommit(r) PROVE VettingInv'
    <2>1. request[r] \in ReviewOp
      BY <1>5, OperationOfKind DEF ReviewCommit
    <2>2. /\ request[r].conversion \in Conversion
          /\ request[r].decision \in {"APPROVED", "REJECTED"}
      BY <2>1 DEF ReviewOp
    <2>3. ReviewedOnce'
      BY <1>5, <2>2 DEF ReviewCommit
    <2>4. QED
      BY <1>5, <2>2, <2>3 DEF ReviewCommit, Finish, Idle
  <1>6. ASSUME NEW r \in Request, NEW c \in Conversion,
               NEW d \in {"CLEARED", "FLAGGED"}, DecideOnly(r, c, d)
        PROVE VettingInv'
    BY <1>6 DEF DecideOnly, Begin, Idle, conversionVars, commissionVars
  <1>7. ASSUME NEW r \in Request, NEW c \in Conversion, DecideBlocked(r, c)
        PROVE VettingInv'
    BY <1>7 DEF DecideBlocked, Begin, conversionVars, commissionVars
  <1>8. ASSUME NEW r \in Request, Block(r) PROVE VettingInv'
    BY <1>8 DEF Block, Finish, Idle
  <1>9. ASSUME NEW r \in Request, NEW c \in Conversion, NEW n \in 1..earned[c],
               ReverseRead(r, c, n)
        PROVE VettingInv'
    BY <1>9 DEF ReverseRead, Begin, conversionVars, commissionVars
  <1>10. ASSUME NEW r \in Request, ReverseReadCommission(r) PROVE VettingInv'
    <2>1. request[r] \in ReverseOp
      BY <1>10, OperationOfKind DEF ReverseReadCommission
    <2>2. \A q \in Request : request'[q].kind = "reverse" =>
             /\ request[q].kind = "reverse"
             /\ request'[q].conversion = request[q].conversion
      <3> DEFINE s == commission[request[r].conversion]
      <3>1. CASE s = "INCLUDED_IN_PAYOUT"
        <4>1. request' = [request EXCEPT ![r] = Idle]
          BY <1>10, <3>1, Zenon DEF ReverseReadCommission, Finish
        <4>2. QED
          BY <4>1 DEF Idle
      <3>2. CASE s # "INCLUDED_IN_PAYOUT"
        <4> DEFINE op == [request[r] EXCEPT !.commission = s]
        <4>1. request' = [request EXCEPT ![r] = op]
          BY <1>10, <3>2, Zenon DEF ReverseReadCommission
        <4>2. op.kind = request[r].kind /\ op.conversion = request[r].conversion
          BY <2>1 DEF ReverseOp
        <4>3. QED
          BY <4>1, <4>2
      <3>3. QED
        BY <3>1, <3>2
    <2>3. QED
      BY <1>10, <2>2 DEF ReverseReadCommission, conversionVars, commissionVars
  <1>11. ASSUME NEW r \in Request, ReverseCommit(r) PROVE VettingInv'
    <2>1. request[r] \in ReverseOp
      BY <1>11, OperationOfKind DEF ReverseCommit
    <2>2. request[r].conversion \in Conversion
      BY <2>1 DEF ReverseOp
    <2>3. request[r].conversion \in approvedAt
      BY <1>11 DEF ReverseCommit
    <2>4. UNCHANGED <<approvedAt, notices, lockExpired, tick>>
      BY <1>11, Zenon DEF ReverseCommit
    <2>5. \A q \in Request : request'[q].kind = "reverse" =>
             request[q].kind = "reverse" /\ request'[q] = request[q]
      <3>1. request' = [request EXCEPT ![r] = Idle]
        BY <1>11, Zenon DEF ReverseCommit, Finish
      <3>2. QED
        BY <3>1 DEF Idle
    <2>6. ASSUME NEW c \in Conversion
          PROVE  /\ \/ conversion'[c] = conversion[c]
                    \/ conversion'[c] = "REJECTED" /\ c \in approvedAt
                 /\ \/ commission'[c] = commission[c]
                    \/ commission'[c] = "CLAWED_BACK"
      <3>1. /\ \/ conversion' = conversion
               \/ conversion' = [conversion EXCEPT ![request[r].conversion] = "REJECTED"]
            /\ \/ commission' = commission
               \/ commission' = [commission EXCEPT
                                    ![request[r].conversion] = "CLAWED_BACK"]
        BY <1>11, Zenon DEF ReverseCommit
      <3>2. QED
        BY <2>3, <3>1
    <2>7. QED
      BY <2>4, <2>5, <2>6
  <1>12. ASSUME NEW r \in Request, NEW a \in Affiliate, PayoutRequest(r, a)
         PROVE VettingInv'
    BY <1>12 DEF PayoutRequest, Begin, conversionVars, commissionVars
  <1>13. ASSUME NEW r \in Request, PayoutReadBalance(r) PROVE VettingInv'
    <2>1. \E op : op.kind # "reverse" /\ request' = [request EXCEPT ![r] = op]
      BY <1>13 DEF PayoutReadBalance, Finish, Idle
    <2>2. \A q \in Request : request'[q].kind = "reverse" =>
             request'[q] = request[q]
      BY <2>1
    <2>3. QED
      BY <1>13, <2>2 DEF PayoutReadBalance, conversionVars, commissionVars
  <1>14. ASSUME NEW r \in Request, NEW p \in Payout, PayoutCommit(r, p)
         PROVE VettingInv'
    BY <1>14 DEF PayoutCommit, Finish, Idle, conversionVars
  <1>15. ASSUME NEW r \in Request, NEW p \in Payout, NEW to \in PayoutStatus,
                TransitionRead(r, p, to)
         PROVE VettingInv'
    BY <1>15 DEF TransitionRead, Begin, conversionVars, commissionVars
  <1>16. ASSUME NEW r \in Request, TransitionCommit(r) PROVE VettingInv'
    BY <1>16 DEF TransitionCommit, Finish, Idle, conversionVars
  <1>17. ASSUME NEW w \in Worker, TickStep(w) PROVE VettingInv'
    <2>1. CASE \E S \in SUBSET ExpiredLocks : TickSelect(w, S)
      BY <2>1 DEF TickSelect, ExpiredLocks, conversionVars, commissionVars
    <2>2. CASE TickFilter(w)
      BY <2>2 DEF TickFilter, Tick, conversionVars, commissionVars
    <2>3. CASE TickPromote(w)
      BY <2>3 DEF TickPromote, conversionVars
    <2>4. CASE TickFails(w)
      BY <2>4 DEF TickFails, conversionVars, commissionVars
    <2>5. QED
      BY <1>17, <2>1, <2>2, <2>3, <2>4 DEF TickStep
  <1>18. ASSUME NEW c \in Conversion, LockExpires(c) PROVE VettingInv'
    BY <1>18 DEF LockExpires, conversionVars, commissionVars
  <1>19. CASE UNCHANGED vars
    BY <1>19 DEF vars, conversionVars, commissionVars
  <1>20. ASSUME NEW r \in Request, RequestStep(r) PROVE VettingInv'
    BY <1>20, <1>1, <1>2, <1>3, <1>4, <1>5, <1>6, <1>7, <1>8, <1>9, <1>10,
       <1>11, <1>12, <1>13, <1>14, <1>15, <1>16 DEF RequestStep
  <1>21. QED
    BY <1>17, <1>18, <1>19, <1>20, Zenon DEF Next

LEMMA VettingInvariant == Spec => [](TypeOK /\ VettingInv)
  BY InitType, StepType, InitVetting, StepVetting, PTL DEF Spec

\* However requests and ticks overlap, no commission becomes payable before
\* review approved its conversion and its lock ran out.
THEOREM PayableVetted == Spec => []PayableIsVetted
  <1>1. VettingInv => PayableIsVetted
    BY DEF VettingInv
  <1>2. QED
    BY <1>1, VettingInvariant, PTL

\* Of any number of concurrent reviews of a conversion at most one takes effect.
THEOREM ReviewOnce == Spec => []ReviewedOnce
  <1>1. VettingInv => ReviewedOnce
    BY DEF VettingInv
  <1>2. QED
    BY <1>1, VettingInvariant, PTL

\* Nothing a tick, a reversal or a fraud decision has read brings back a
\* commission the brand rejected.
THEOREM RejectionFinal == Spec => RejectionIsFinal
  <1> DEFINE A == \A c \in Conversion : commission[c] = "REJECTED" =>
                     commission'[c] = "REJECTED"
  <1>1. TypeOK /\ VettingInv /\ [Next]_vars => [A]_vars
    <2> SUFFICES ASSUME TypeOK, VettingInv, Next, NEW c \in Conversion,
                        commission[c] = "REJECTED"
                 PROVE  commission'[c] = "REJECTED"
      OBVIOUS
    <2> USE DEF TypeOK, commissionVars
    <2>1. conversion[c] = "REJECTED" /\ c \notin approvedAt
      BY DEF VettingInv
    <2>2. ASSUME NEW r \in Request, ReverseCommit(r)
          PROVE  commission'[c] = "REJECTED"
      <3>1. request[r].kind = "reverse"
        BY <2>2 DEF ReverseCommit
      <3>2. request[r].conversion # c
        BY <2>1, <3>1 DEF VettingInv
      <3>3. commission' = commission
            \/ commission' = [commission EXCEPT
                                 ![request[r].conversion] = "CLAWED_BACK"]
        BY <2>2, Zenon DEF ReverseCommit
      <3>4. QED
        BY <3>2, <3>3
    <2>3. ASSUME NEW r \in Request, RequestStep(r), ~ReverseCommit(r)
          PROVE  commission'[c] = "REJECTED"
      <3>1. CASE \E d \in Conversion, a \in Amounts : Report(r, d, a)
        BY <2>1, <3>1 DEF Report
      <3>2. CASE ReviewCommit(r)
        BY <2>1, <3>2 DEF ReviewCommit
      <3>3. CASE Block(r)
        BY <3>3 DEF Block
      <3>4. CASE \E p \in Payout : PayoutCommit(r, p)
        BY <3>4 DEF PayoutCommit
      <3>5. CASE TransitionCommit(r)
        BY <3>5 DEF TransitionCommit
      <3>6. CASE UNCHANGED commission
        BY <3>6
      <3>7. QED
        BY <2>3, <3>1, <3>2, <3>3, <3>4, <3>5, <3>6, Zenon
           DEF RequestStep, Abandon, Evaluate, ReviewRead, DecideOnly,
               DecideBlocked, ReverseRead, ReverseReadCommission,
               PayoutRequest, PayoutReadBalance, TransitionRead
    <2>4. ASSUME NEW w \in Worker, TickStep(w) PROVE commission'[c] = "REJECTED"
      BY <2>1, <2>4 DEF TickStep, TickSelect, TickFilter, TickPromote,
         TickFails, VettingInv
    <2>5. ASSUME NEW d \in Conversion, LockExpires(d)
          PROVE  commission'[c] = "REJECTED"
      BY <2>5 DEF LockExpires
    <2>6. QED
      BY <2>2, <2>3, <2>4, <2>5, Zenon DEF Next
  <1>2. QED
    BY <1>1, VettingInvariant, PTL DEF Spec, RejectionIsFinal

-----------------------------------------------------------------------------
\* Payouts.

\* What a step that neither creates nor moves a payout may do to the state that
\* the payout invariants speak of: at most move commissions out of payouts,
\* create an adjustment and end requests.
PayoutFrame ==
  /\ UNCHANGED <<payout, paidAt, payoutId>>
  /\ \A c \in Conversion : commission'[c] \in {"INCLUDED_IN_PAYOUT", "PAID"} =>
         commission'[c] = commission[c]
  /\ \A j \in Adjustment : adjustment'[j] # adjustment[j] =>
         /\ adjustment[j].conversion = NULL
         /\ adjustment'[j].conversion # NULL
         /\ adjustment'[j].settled = NULL
  /\ \A q \in Request : request'[q].kind = "request" => request'[q] = request[q]

\* A request of another kind takes the place of whatever request r was.
LEMMA OtherRequest ==
  ASSUME TypeOK, NEW r \in Request, NEW op, op.kind # "request",
         request' = [request EXCEPT ![r] = op]
  PROVE  \A q \in Request : request'[q].kind = "request" =>
             request'[q] = request[q]
  BY DEF TypeOK

LEMMA StepFrame ==
  ASSUME TypeOK, Next
  PROVE  \/ PayoutFrame
         \/ \E r \in Request :
               \/ \E a \in Affiliate : PayoutRequest(r, a)
               \/ PayoutReadBalance(r)
               \/ \E p \in Payout : PayoutCommit(r, p)
               \/ TransitionCommit(r)
  <1> USE DEF TypeOK, commissionVars, payoutVars
  <1>1. ASSUME NEW r \in Request,
               \/ Abandon(r)
               \/ \E d \in FraudScores : Evaluate(r, d)
        PROVE  PayoutFrame
    <2>1. Idle.kind # "request" /\ request' = [request EXCEPT ![r] = Idle]
      BY <1>1 DEF Abandon, Evaluate, Finish, Idle
    <2>2. UNCHANGED <<payout, paidAt, payoutId, commission, adjustment>>
      BY <1>1 DEF Abandon, Evaluate
    <2>3. QED
      BY <2>1, <2>2, OtherRequest DEF PayoutFrame
  <1>2. ASSUME NEW r \in Request, NEW c \in Conversion, NEW a \in Amounts,
               Report(r, c, a)
        PROVE  PayoutFrame
    <2> DEFINE op == [kind |-> "report", conversion |-> c]
    <2>1. op.kind # "request" /\ request' = [request EXCEPT ![r] = op]
      BY <1>2 DEF Report, Begin
    <2>2. QED
      BY <1>2, <2>1, OtherRequest DEF PayoutFrame, Report
  <1>3. ASSUME NEW r \in Request, NEW c \in Conversion,
               NEW d \in {"APPROVED", "REJECTED"}, ReviewRead(r, c, d)
        PROVE  PayoutFrame
    <2> DEFINE op == [kind |-> "review", conversion |-> c, decision |-> d]
    <2>1. op.kind # "request" /\ request' = [request EXCEPT ![r] = op]
      BY <1>3 DEF ReviewRead, Begin
    <2>2. QED
      BY <1>3, <2>1, OtherRequest DEF PayoutFrame, ReviewRead
  <1>4. ASSUME NEW r \in Request, ReviewCommit(r) PROVE PayoutFrame
    <2>1. Idle.kind # "request" /\ request' = [request EXCEPT ![r] = Idle]
      BY <1>4 DEF ReviewCommit, Finish, Idle
    <2>2. request[r].decision \in {"APPROVED", "REJECTED"}
      BY <1>4, OperationOfKind DEF ReviewCommit, ReviewOp
    <2>3. QED
      BY <1>4, <2>1, <2>2, OtherRequest DEF PayoutFrame, ReviewCommit
  <1>5. ASSUME NEW r \in Request, NEW c \in Conversion,
               NEW d \in {"CLEARED", "FLAGGED"}, DecideOnly(r, c, d)
        PROVE  PayoutFrame
    <2>1. Idle.kind # "request" /\ request' = [request EXCEPT ![r] = Idle]
      BY <1>5 DEF DecideOnly, Begin, Idle
    <2>2. QED
      BY <1>5, <2>1, OtherRequest DEF PayoutFrame, DecideOnly
  <1>6. ASSUME NEW r \in Request, NEW c \in Conversion, DecideBlocked(r, c)
        PROVE  PayoutFrame
    <2> DEFINE op == [kind |-> "block", conversion |-> c]
    <2>1. op.kind # "request" /\ request' = [request EXCEPT ![r] = op]
      BY <1>6 DEF DecideBlocked, Begin
    <2>2. QED
      BY <1>6, <2>1, OtherRequest DEF PayoutFrame, DecideBlocked
  <1>7. ASSUME NEW r \in Request, Block(r) PROVE PayoutFrame
    <2>1. Idle.kind # "request" /\ request' = [request EXCEPT ![r] = Idle]
      BY <1>7 DEF Block, Finish, Idle
    <2>2. QED
      BY <1>7, <2>1, OtherRequest DEF PayoutFrame, Block
  <1>8. ASSUME NEW r \in Request, NEW c \in Conversion, NEW n \in 1..earned[c],
               ReverseRead(r, c, n)
        PROVE  PayoutFrame
    <2> DEFINE op == [kind |-> "reverse", conversion |-> c,
                      remaining |-> value[c] - n, clawback |-> n,
                      commission |-> NULL]
    <2>1. op.kind # "request" /\ request' = [request EXCEPT ![r] = op]
      BY <1>8 DEF ReverseRead, Begin
    <2>2. QED
      BY <1>8, <2>1, OtherRequest DEF PayoutFrame, ReverseRead
  <1>9. ASSUME NEW r \in Request, ReverseReadCommission(r) PROVE PayoutFrame
    <2>1. request[r] \in ReverseOp
      BY <1>9, OperationOfKind DEF ReverseReadCommission
    <2> DEFINE op == [request[r] EXCEPT
                         !.commission = commission[request[r].conversion]]
    <2>2. op.kind # "request" /\ Idle.kind # "request"
      BY <2>1 DEF ReverseOp, Idle
    <2>3. \/ request' = [request EXCEPT ![r] = Idle]
          \/ request' = [request EXCEPT ![r] = op]
      BY <1>9, Zenon DEF ReverseReadCommission, Finish
    <2>4. \A q \in Request : request'[q].kind = "request" =>
              request'[q] = request[q]
      BY <2>2, <2>3, OtherRequest
    <2>5. QED
      BY <1>9, <2>4 DEF PayoutFrame, ReverseReadCommission
  <1>10. ASSUME NEW r \in Request, ReverseCommit(r) PROVE PayoutFrame
    <2>1. Idle.kind # "request" /\ request' = [request EXCEPT ![r] = Idle]
      BY <1>10 DEF ReverseCommit, Finish, Idle
    <2>2. request[r].conversion \in Conversion
      BY <1>10, OperationOfKind DEF ReverseCommit, ReverseOp
    <2>3. \/ commission' = commission
          \/ commission' = [commission EXCEPT
                               ![request[r].conversion] = "CLAWED_BACK"]
      BY <1>10, Zenon DEF ReverseCommit
    <2>4. \/ adjustment' = adjustment
          \/ \E a \in Adjustment :
                /\ adjustment[a].conversion = NULL
                /\ adjustment' = [adjustment EXCEPT ![a] =
                      [conversion |-> request[r].conversion,
                       amount |-> request[r].clawback, settled |-> NULL]]
      BY <1>10, Zenon DEF ReverseCommit
    <2>5. \A j \in Adjustment : adjustment'[j] # adjustment[j] =>
             /\ adjustment[j].conversion = NULL
             /\ adjustment'[j].conversion # NULL
             /\ adjustment'[j].settled = NULL
      BY <2>2, <2>4
    <2>6. UNCHANGED <<payout, paidAt, payoutId>>
      BY <1>10 DEF ReverseCommit
    <2>7. QED
      BY <2>1, <2>3, <2>5, <2>6, OtherRequest DEF PayoutFrame
  <1>11. ASSUME NEW r \in Request, NEW p \in Payout, NEW to \in PayoutStatus,
                TransitionRead(r, p, to)
         PROVE  PayoutFrame
    <2> DEFINE op == [kind |-> "transition", payout |-> p, to |-> to]
    <2>1. op.kind # "request" /\ request' = [request EXCEPT ![r] = op]
      BY <1>11 DEF TransitionRead, Begin
    <2>2. QED
      BY <1>11, <2>1, OtherRequest DEF PayoutFrame, TransitionRead
  <1>12. ASSUME NEW w \in Worker, TickStep(w) PROVE PayoutFrame
    BY <1>12 DEF PayoutFrame, TickStep, TickSelect, TickFilter, TickPromote,
       TickFails
  <1>13. ASSUME NEW c \in Conversion, LockExpires(c) PROVE PayoutFrame
    BY <1>13 DEF PayoutFrame, LockExpires
  <1>14. QED
    BY <1>1, <1>2, <1>3, <1>4, <1>5, <1>6, <1>7, <1>8, <1>9, <1>10, <1>11,
       <1>12, <1>13 DEF Next, RequestStep

LEMMA InitPayout == Init => PayoutInv /\ SettlementInv
  BY DEF Init, PayoutInv, SettlementInv, IncludedIsInOpenPayout,
         PaidThroughPaidPayout, OnePendingPayout, Idle

LEMMA StepPayout == TypeOK /\ PayoutInv /\ [Next]_vars => PayoutInv'
  <1> SUFFICES ASSUME TypeOK, PayoutInv, [Next]_vars PROVE PayoutInv'
    OBVIOUS
  <1> USE DEF TypeOK, PayoutInv, IncludedIsInOpenPayout, PaidThroughPaidPayout,
              OnePendingPayout
  <1>1. CASE PayoutFrame
    BY <1>1 DEF PayoutFrame
  <1>2. ASSUME NEW r \in Request, NEW a \in Affiliate, PayoutRequest(r, a)
        PROVE  PayoutInv'
    <2> DEFINE op == [kind |-> "request", affiliate |-> a, items |-> {},
                      adjustments |-> {}]
    <2>1. /\ request' = [request EXCEPT ![r] = op]
          /\ UNCHANGED <<commission, payout, paidAt, payoutId>>
      BY <1>2 DEF PayoutRequest, Begin, commissionVars, payoutVars
    <2>2. /\ \A p \in Payout : payout[p].affiliate = a =>
                 payout[p].status # "PENDING"
          /\ \A q \in Request : request[q].kind = "request" =>
                 request[q].affiliate # a
      BY <1>2 DEF PayoutRequest, PayoutLocked, Open
    <2>3. request'[r] = op /\ \A q \in Request \ {r} : request'[q] = request[q]
      BY <2>1
    <2>4. QED
      BY <2>1, <2>2, <2>3
  <1>3. ASSUME NEW r \in Request, PayoutReadBalance(r) PROVE PayoutInv'
    <2> DEFINE a == request[r].affiliate
    <2>1. UNCHANGED <<commission, payout, paidAt, payoutId>>
      BY <1>3 DEF PayoutReadBalance, commissionVars, payoutVars
    <2>2. request[r].kind = "request"
      BY <1>3 DEF PayoutReadBalance
    <2>3. request'[r].kind = "request" =>
             /\ request'[r].affiliate = a
             /\ \A i \in request'[r].items : AffiliateOf[i.conversion] = a
      BY <1>3 DEF PayoutReadBalance, Finish, Idle
    <2>4. \A q \in Request \ {r} : request'[q] = request[q]
      BY <1>3 DEF PayoutReadBalance, Finish
    <2>5. (IncludedIsInOpenPayout /\ PaidThroughPaidPayout /\ OnePendingPayout)'
      BY <2>1
    <2>6. \A q \in Request : request'[q].kind = "request" =>
             /\ request[q].kind = "request"
             /\ request'[q].affiliate = request[q].affiliate
             /\ \A i \in request'[q].items :
                    AffiliateOf[i.conversion] = request'[q].affiliate
      <3>1. ASSUME NEW q \in Request \ {r}, request'[q].kind = "request"
            PROVE  /\ request[q].kind = "request"
                   /\ request'[q].affiliate = request[q].affiliate
                   /\ \A i \in request'[q].items :
                          AffiliateOf[i.conversion] = request'[q].affiliate
        BY <2>4, <3>1
      <3>2. QED
        BY <2>2, <2>3, <3>1, Zenon
    <2>7. payout' = payout
      BY <2>1
    <2>8. QED
      BY <2>5, <2>6, <2>7
  <1>4. ASSUME NEW r \in Request, NEW p \in Payout, PayoutCommit(r, p)
        PROVE  PayoutInv'
    <2> DEFINE a == request[r].affiliate
               claimed == {i.conversion : i \in request[r].items}
    <2>1. /\ request'[r].kind = "idle"
          /\ \A q \in Request \ {r} : request'[q] = request[q]
      BY <1>4 DEF PayoutCommit, Finish, Idle
    <2>2. /\ request[r].kind = "request"
          /\ payout[p].status = "NONE"
          /\ paidAt' = paidAt
          /\ \A c \in claimed : commission[c] = "APPROVED"
      BY <1>4 DEF PayoutCommit
    <2>3. /\ payout'[p].status = "PENDING"
          /\ payout'[p].affiliate = a
          /\ \A q \in Payout \ {p} : payout'[q] = payout[q]
      BY <1>4 DEF PayoutCommit
    <2>4. \A c \in claimed : AffiliateOf[c] = a
      BY <2>2
    <2>5. \A c \in Conversion :
             /\ c \in claimed => /\ commission'[c] = "INCLUDED_IN_PAYOUT"
                                 /\ payoutId'[c] = p
             /\ c \notin claimed => /\ commission'[c] = commission[c]
                                    /\ payoutId'[c] = payoutId[c]
      BY <1>4 DEF PayoutCommit
    <2>6. IncludedIsInOpenPayout'
      <3> SUFFICES ASSUME NEW c \in Conversion,
                          commission'[c] = "INCLUDED_IN_PAYOUT"
                   PROVE  /\ payoutId'[c] # NULL
                          /\ payout'[payoutId'[c]].status \in Open
                          /\ payout'[payoutId'[c]].affiliate = AffiliateOf[c]
        OBVIOUS
      <3>1. CASE c \in claimed
        <4>1. payoutId'[c] = p
          BY <2>5, <3>1
        <4>2. AffiliateOf[c] = a
          BY <2>4, <3>1
        <4>3. QED
          BY <2>3, <4>1, <4>2 DEF Open
      <3>2. CASE c \notin claimed
        <4>1. /\ commission[c] = "INCLUDED_IN_PAYOUT"
              /\ payoutId'[c] = payoutId[c]
          BY <2>5, <3>2
        <4>2. /\ payoutId[c] \in Payout
              /\ payout[payoutId[c]].status \in Open
              /\ payout[payoutId[c]].affiliate = AffiliateOf[c]
          BY <4>1
        <4>3. payoutId[c] # p
          BY <2>2, <4>2 DEF Open
        <4>4. QED
          BY <2>3, <4>1, <4>2, <4>3
      <3>3. QED
        BY <3>1, <3>2
    <2>7. PaidThroughPaidPayout'
      BY <2>2, <2>5
    <2>8. \A q \in Payout : payout[q].affiliate = a => payout[q].status # "PENDING"
      BY <2>2
    <2>9. OnePendingPayout'
      <3>1. \A q \in Payout : /\ payout'[q].status = "PENDING"
                              /\ payout'[q].affiliate = a
                              => q = p
        BY <2>3, <2>8
      <3>2. \A q \in Payout : payout'[q].affiliate # a => payout'[q] = payout[q]
        BY <2>3
      <3>3. ASSUME NEW q1 \in Payout, NEW q2 \in Payout,
                   payout'[q1].status = "PENDING",
                   payout'[q2].status = "PENDING",
                   payout'[q1].affiliate = payout'[q2].affiliate
            PROVE  q1 = q2
        <4>1. CASE payout'[q1].affiliate = a
          BY <3>1, <3>3, <4>1
        <4>2. CASE payout'[q1].affiliate # a
          <5>1. payout'[q1] = payout[q1] /\ payout'[q2] = payout[q2]
            BY <3>2, <3>3, <4>2
          <5>2. QED
            BY <3>3, <5>1
        <4>3. QED
          BY <4>1, <4>2
      <3>4. QED
        BY <3>3
    <2>10. \A q \in Request : request'[q].kind = "request" =>
              /\ request'[q] = request[q]
              /\ request[q].kind = "request"
              /\ request[q].affiliate # a
      BY <2>1, <2>2
    <2>11. \A q \in Payout : payout'[q].affiliate # a => payout'[q] = payout[q]
      BY <2>3
    <2>12. QED
      BY <2>6, <2>7, <2>9, <2>10, <2>11
  <1>5. ASSUME NEW r \in Request, TransitionCommit(r) PROVE PayoutInv'
    <2> DEFINE p == request[r].payout
               to == request[r].to
               included == {c \in Conversion :
                              /\ payoutId[c] = p
                              /\ commission[c] = "INCLUDED_IN_PAYOUT"}
    <2>1. p \in Payout /\ to \in PayoutStatus \ {"NONE", "PENDING"}
      BY <1>5, OperationOfKind DEF TransitionCommit, TransitionOp
    <2>2. /\ request'[r].kind = "idle"
          /\ \A q \in Request \ {r} : request'[q] = request[q]
      BY <1>5 DEF TransitionCommit, Finish, Idle
    <2>3. /\ payout'[p].status = to
          /\ payout'[p].affiliate = payout[p].affiliate
          /\ \A q \in Payout \ {p} : payout'[q] = payout[q]
      <3>1. payout[p] \in PayoutRow
        BY <2>1
      <3>2. payout' = [payout EXCEPT ![p] = [payout[p] EXCEPT !.status = to]]
        BY <1>5, Zenon DEF TransitionCommit
      <3>3. /\ [payout[p] EXCEPT !.status = to].status = to
            /\ [payout[p] EXCEPT !.status = to].affiliate = payout[p].affiliate
        BY <3>1 DEF PayoutRow
      <3>4. QED
        BY <2>1, <3>2, <3>3
    <2>4. paidAt \subseteq paidAt' /\ (settlesCommissions(to) => p \in paidAt')
      BY <1>5 DEF TransitionCommit
    <2>5. \A c \in Conversion :
             /\ c \notin included => /\ commission'[c] = commission[c]
                                     /\ payoutId'[c] = payoutId[c]
             /\ c \in included /\ to = "PAID" =>
                   commission'[c] = "PAID" /\ payoutId'[c] = p
             /\ c \in included /\ to \in {"FAILED", "CANCELLED"} =>
                   commission'[c] = "APPROVED"
             /\ c \in included /\ to = "PROCESSING" =>
                   commission'[c] = commission[c] /\ payoutId'[c] = p
      BY <1>5 DEF TransitionCommit, settlesCommissions, releasesCommissions
    <2>6. IncludedIsInOpenPayout'
      <3> SUFFICES ASSUME NEW c \in Conversion,
                          commission'[c] = "INCLUDED_IN_PAYOUT"
                   PROVE  /\ payoutId'[c] # NULL
                          /\ payout'[payoutId'[c]].status \in Open
                          /\ payout'[payoutId'[c]].affiliate = AffiliateOf[c]
        OBVIOUS
      <3>1. CASE c \in included
        <4>1. to = "PROCESSING"
          BY <2>1, <2>5, <3>1 DEF PayoutStatus
        <4>2. payoutId'[c] = p /\ payout[p].affiliate = AffiliateOf[c]
          BY <2>5, <3>1, <4>1
        <4>3. QED
          BY <2>1, <2>3, <4>1, <4>2 DEF Open
      <3>2. CASE c \notin included
        <4>1. /\ commission[c] = "INCLUDED_IN_PAYOUT"
              /\ payoutId'[c] = payoutId[c]
          BY <2>5, <3>2
        <4>2. payoutId[c] \in Payout \ {p}
          BY <3>2, <4>1
        <4>3. QED
          BY <2>3, <4>1, <4>2
      <3>3. QED
        BY <3>1, <3>2
    <2>7. PaidThroughPaidPayout'
      <3> SUFFICES ASSUME NEW c \in Conversion, commission'[c] = "PAID"
                   PROVE  payoutId'[c] # NULL /\ payoutId'[c] \in paidAt'
        OBVIOUS
      <3>1. CASE c \in included
        <4>1. to = "PAID"
          BY <2>1, <2>5, <3>1 DEF PayoutStatus
        <4>2. QED
          BY <2>1, <2>4, <2>5, <3>1, <4>1 DEF settlesCommissions
      <3>2. CASE c \notin included
        BY <2>4, <2>5, <3>2
      <3>3. QED
        BY <3>1, <3>2
    <2>8. \A q \in Payout : payout'[q].status = "PENDING" =>
             payout'[q] = payout[q]
      <3>1. payout'[p].status # "PENDING"
        BY <2>1, <2>3
      <3>2. \A q \in Payout \ {p} : payout'[q] = payout[q]
        BY <2>3
      <3>3. QED
        BY <3>1, <3>2
    <2>9. OnePendingPayout'
      BY <2>8
    <2>10. \A q \in Request : request'[q].kind = "request" =>
              request'[q] = request[q]
      BY <2>2
    <2>11. \A q \in Payout : payout'[q].affiliate = payout[q].affiliate
      BY <2>3
    <2>12. QED
      BY <2>6, <2>7, <2>8, <2>9, <2>10, <2>11
  <1>6. CASE UNCHANGED vars
    BY <1>6 DEF vars, commissionVars, payoutVars
  <1>7. QED
    BY <1>1, <1>2, <1>3, <1>4, <1>5, <1>6, StepFrame

LEMMA StepSettlement ==
  TypeOK /\ PayoutInv /\ SettlementInv /\ [Next]_vars => SettlementInv'
  <1> SUFFICES ASSUME TypeOK, PayoutInv, SettlementInv, [Next]_vars
               PROVE  SettlementInv'
    OBVIOUS
  <1> USE DEF TypeOK, SettlementInv
  <1>1. CASE PayoutFrame
    <2>1. \A j \in Adjustment : adjustment'[j].conversion = NULL =>
             adjustment'[j].settled = NULL
      BY <1>1 DEF PayoutFrame
    <2>2. \A q \in Request : request'[q].kind = "request" =>
             /\ request'[q] = request[q]
             /\ request[q].adjustments \subseteq Adjustment
      BY <1>1, OperationOfKind DEF PayoutFrame, PayoutOp
    <2>3. \A j \in Adjustment : adjustment[j].conversion # NULL =>
             adjustment'[j] = adjustment[j]
      BY <1>1 DEF PayoutFrame
    <2>4. QED
      BY <2>1, <2>2, <2>3
  <1>2. ASSUME NEW r \in Request, NEW a \in Affiliate, PayoutRequest(r, a)
        PROVE  SettlementInv'
    BY <1>2 DEF PayoutRequest, Begin
  <1>3. ASSUME NEW r \in Request, PayoutReadBalance(r) PROVE SettlementInv'
    <2>1. adjustment' = adjustment
      BY <1>3 DEF PayoutReadBalance
    <2>2. request'[r].kind = "request" =>
             \A j \in request'[r].adjustments :
                /\ j \in Adjustment
                /\ adjustment[j].conversion # NULL
                /\ AffiliateOf[adjustment[j].conversion] = request'[r].affiliate
                /\ adjustment[j].settled = NULL
      BY <1>3 DEF PayoutReadBalance, Unsettled, Finish, Idle
    <2>3. \A q \in Request \ {r} : request'[q] = request[q]
      BY <1>3 DEF PayoutReadBalance, Finish
    <2>4. \A q \in Request : request'[q].kind = "request" =>
             \A j \in request'[q].adjustments :
                /\ adjustment[j].conversion # NULL
                /\ AffiliateOf[adjustment[j].conversion] = request'[q].affiliate
                /\ adjustment[j].settled = NULL
      <3>1. ASSUME NEW q \in Request \ {r}, request'[q].kind = "request"
            PROVE  \A j \in request'[q].adjustments :
                      /\ adjustment[j].conversion # NULL
                      /\ AffiliateOf[adjustment[j].conversion] =
                            request'[q].affiliate
                      /\ adjustment[j].settled = NULL
        BY <2>3, <3>1
      <3>2. QED
        BY <2>2, <3>1, Zenon
    <2>5. QED
      BY <2>1, <2>4
  <1>4. ASSUME NEW r \in Request, NEW p \in Payout, PayoutCommit(r, p)
        PROVE  SettlementInv'
    <2>1. /\ request[r].kind = "request"
          /\ request[r].adjustments \subseteq Adjustment
      BY <1>4, OperationOfKind DEF PayoutCommit, PayoutOp
    <2>2. /\ request'[r].kind = "idle"
          /\ \A q \in Request \ {r} : request'[q] = request[q]
      BY <1>4 DEF PayoutCommit, Finish, Idle
    <2>3. \A j \in Adjustment :
             /\ j \notin request[r].adjustments => adjustment'[j] = adjustment[j]
             /\ adjustment'[j].conversion = adjustment[j].conversion
      <3>1. \A j \in Adjustment : [adjustment[j] EXCEPT !.settled = p].conversion
                                     = adjustment[j].conversion
        BY DEF AdjustmentRow
      <3>2. QED
        BY <1>4, <3>1, Zenon DEF PayoutCommit
    <2>4. \A q \in Request : request'[q].kind = "request" =>
             /\ request'[q] = request[q]
             /\ request[q].adjustments \subseteq Adjustment
             /\ request[q].affiliate # request[r].affiliate
      BY <2>1, <2>2, OperationOfKind DEF PayoutInv, PayoutOp
    <2>5. \A q \in Request : request'[q].kind = "request" =>
             request[q].adjustments \cap request[r].adjustments = {}
      BY <2>1, <2>4
    <2>6. \A j \in Adjustment : adjustment'[j].conversion = NULL =>
             adjustment'[j].settled = NULL
      BY <2>1, <2>3
    <2>7. \A q \in Request : request'[q].kind = "request" =>
             \A j \in request'[q].adjustments :
                 request[q].kind = "request" /\ adjustment'[j] = adjustment[j]
      BY <2>3, <2>4, <2>5
    <2>8. QED
      BY <2>4, <2>6, <2>7
  <1>5. ASSUME NEW r \in Request, TransitionCommit(r) PROVE SettlementInv'
    BY <1>5 DEF TransitionCommit, Finish, Idle
  <1>6. CASE UNCHANGED vars
    BY <1>6 DEF vars
  <1>7. QED
    BY <1>1, <1>2, <1>3, <1>4, <1>5, <1>6, StepFrame

LEMMA PayoutInvariant == Spec => [](TypeOK /\ PayoutInv /\ SettlementInv)
  BY InitType, StepType, InitPayout, StepPayout, StepSettlement, PTL DEF Spec

\* A commission that is committed to a payout is in an open payout of its own
\* affiliate, whatever transitions race on that payout.
THEOREM NoStrandedCommission == Spec => []IncludedIsInOpenPayout
  <1>1. PayoutInv => IncludedIsInOpenPayout
    BY DEF PayoutInv
  <1>2. QED
    BY <1>1, PayoutInvariant, PTL

\* Every PAID commission is attached to a payout whose transfer was recorded.
THEOREM PaidThroughPayout == Spec => []PaidThroughPaidPayout
  <1>1. PayoutInv => PaidThroughPaidPayout
    BY DEF PayoutInv
  <1>2. QED
    BY <1>1, PayoutInvariant, PTL

\* Racing requests of an affiliate leave at most one payout PENDING.
THEOREM PendingPayoutIsUnique == Spec => []OnePendingPayout
  <1>1. PayoutInv => OnePendingPayout
    BY DEF PayoutInv
  <1>2. QED
    BY <1>1, PayoutInvariant, PTL

\* No payout deducts an adjustment that another payout has settled.
THEOREM SettlementOnce == Spec => SettledOnce
  <1> DEFINE A == \A j \in Adjustment : adjustment[j].settled # NULL =>
                     adjustment'[j] = adjustment[j]
  <1>1. TypeOK /\ PayoutInv /\ SettlementInv /\ [Next]_vars => [A]_vars
    <2> SUFFICES ASSUME TypeOK, SettlementInv, Next, NEW j \in Adjustment,
                        adjustment[j].settled # NULL
                 PROVE  adjustment'[j] = adjustment[j]
      OBVIOUS
    <2>1. adjustment[j].conversion # NULL
      BY DEF SettlementInv
    <2>2. CASE PayoutFrame
      BY <2>1, <2>2 DEF PayoutFrame
    <2>3. ASSUME NEW r \in Request, NEW p \in Payout, PayoutCommit(r, p)
          PROVE  adjustment'[j] = adjustment[j]
      <3>1. request[r].kind = "request"
        BY <2>3 DEF PayoutCommit
      <3>2. j \notin request[r].adjustments
        BY <3>1 DEF SettlementInv
      <3>3. QED
        BY <2>3, <3>2 DEF PayoutCommit
    <2>4. QED
      BY <2>2, <2>3, StepFrame
         DEF PayoutRequest, PayoutReadBalance, TransitionCommit
  <1>2. QED
    BY <1>1, PayoutInvariant, PTL DEF Spec, SettledOnce

-----------------------------------------------------------------------------
\* What the adjustments adj claw back from conversion c.

Amount(adj) == [j \in Adjustment |-> adj[j].amount]
Created(adj) == {j \in Adjustment : adj[j].conversion # NULL}
Against(adj, c) == {j \in Adjustment : adj[j].conversion = c}
Owed(adj, c) == SumFunctionOnSet(Amount(adj), Against(adj, c))

LEMMA ClawbacksOwed ==
    ASSUME NEW c
    PROVE  Clawbacks(c) = Owed(adjustment, c) /\ Clawbacks(c)' = Owed(adjustment', c)
BY DEF Clawbacks, Deductions, Owed, Amount, Against

\* Only created adjustments are against a conversion.
LEMMA AgainstFinite ==
    ASSUME NEW adj \in [Adjustment -> AdjustmentRow], NEW c \in Conversion,
           IsFiniteSet(Created(adj))
    PROVE  IsFiniteSet(Against(adj, c))
<1>1. Against(adj, c) \subseteq Created(adj)
  BY DEF Against, Created
<1> QED
  BY <1>1, FS_Subset

LEMMA OwedType ==
    ASSUME NEW adj \in [Adjustment -> AdjustmentRow], NEW c \in Conversion,
           IsFiniteSet(Created(adj))
    PROVE  Owed(adj, c) \in Nat
<1>1. IsFiniteSet(Against(adj, c))
  BY AgainstFinite
<1>2. \A j \in Against(adj, c) : Amount(adj)[j] \in Nat
  BY DEF Against, Amount, AdjustmentRow
<1> QED
  BY <1>1, <1>2, SumType DEF Owed

\* A new adjustment against c adds its amount to what is owed for c, and
\* nothing to what is owed for another conversion.
LEMMA OwedGrows ==
    ASSUME NEW adj \in [Adjustment -> AdjustmentRow], NEW k \in Adjustment,
           NEW c \in Conversion, NEW n \in Nat,
           NEW new \in [Adjustment -> AdjustmentRow],
           adj[k].conversion = NULL, new[k].conversion = c, new[k].amount = n,
           \A j \in Adjustment \ {k} : new[j] = adj[j],
           IsFiniteSet(Created(adj))
    PROVE  /\ IsFiniteSet(Created(new))
           /\ Owed(new, c) = Owed(adj, c) + n
           /\ \A d \in Conversion \ {c} : Owed(new, d) = Owed(adj, d)
<1>1. IsFiniteSet(Created(new))
  <2>1. Created(new) = Created(adj) \cup {k}
    BY DEF Created
  <2> QED BY <2>1, FS_AddElement
<1>2. Owed(new, c) = Owed(adj, c) + n
  <2> DEFINE A == Against(new, c)
  <2>1. k \in A /\ A \ {k} = Against(adj, c)
    BY DEF Against
  <2>2. IsFiniteSet(A)
    BY <1>1, AgainstFinite
  <2>3. \A j \in A : Amount(new)[j] \in Nat
    BY DEF Against, Amount, AdjustmentRow
  <2>4. Amount(new)[k] = n
    BY DEF Amount
  <2> HIDE DEF A
  <2>5. SumFunctionOnSet(Amount(new), A) =
            n + SumFunctionOnSet(Amount(new), Against(adj, c))
    <3> DEFINE f == Amount(new)
    <3>1. k \in A /\ \A j \in A : f[j] \in Nat
      BY <2>1, <2>3
    <3> HIDE DEF f
    <3>2. SumFunctionOnSet(f, A) = f[k] + SumFunctionOnSet(f, A \ {k})
      BY <2>2, <3>1, SumAdd
    <3> QED BY <2>1, <2>4, <3>2 DEF f
  <2>6. SumFunctionOnSet(Amount(new), Against(adj, c)) = Owed(adj, c)
    <3>1. \A j \in Against(adj, c) : Amount(new)[j] = Amount(adj)[j]
      BY DEF Against, Amount
    <3>2. IsFiniteSet(Against(adj, c))
      BY AgainstFinite
    <3>3. SumFunctionOnSet(Amount(new), Against(adj, c)) =
              SumFunctionOnSet(Amount(adj), Against(adj, c))
      <4> DEFINE f == Amount(new)
                 g == Amount(adj)
                 S == Against(adj, c)
      <4>1. IsFiniteSet(S) /\ \A j \in S : f[j] = g[j]
        BY <3>1, <3>2
      <4> HIDE DEF f, g, S
      <4>2. SumFunctionOnSet(f, S) = SumFunctionOnSet(g, S)
        BY <4>1, SumSame
      <4> QED BY <4>2 DEF f, g, S
    <3> QED BY <3>3 DEF Owed
  <2>7. Owed(new, c) = SumFunctionOnSet(Amount(new), A)
    BY DEF Owed, A
  <2>8. Owed(adj, c) \in Nat
    BY OwedType
  <2> QED BY <2>5, <2>6, <2>7, <2>8
<1>3. ASSUME NEW d \in Conversion \ {c} PROVE Owed(new, d) = Owed(adj, d)
  <2>1. Against(new, d) = Against(adj, d)
    BY DEF Against
  <2>2. \A j \in Against(adj, d) : Amount(new)[j] = Amount(adj)[j]
    BY DEF Against, Amount
  <2>3. IsFiniteSet(Against(adj, d))
    BY AgainstFinite
  <2>4. SumFunctionOnSet(Amount(new), Against(adj, d)) =
            SumFunctionOnSet(Amount(adj), Against(adj, d))
    <3> DEFINE f == Amount(new)
               g == Amount(adj)
               S == Against(adj, d)
    <3>1. IsFiniteSet(S) /\ \A j \in S : f[j] = g[j]
      BY <2>2, <2>3
    <3> HIDE DEF f, g, S
    <3>2. SumFunctionOnSet(f, S) = SumFunctionOnSet(g, S)
      BY <3>1, SumSame
    <3> QED BY <3>2 DEF f, g, S
  <2> QED BY <2>1, <2>4 DEF Owed
<1> QED
  BY <1>1, <1>2, <1>3

\* Settling adjustments changes nothing that is owed.
LEMMA OwedSame ==
    ASSUME NEW adj \in [Adjustment -> AdjustmentRow], NEW new,
           \A j \in Adjustment : /\ new[j].conversion = adj[j].conversion
                                 /\ new[j].amount = adj[j].amount,
           NEW c
    PROVE  Owed(new, c) = Owed(adj, c)
<1>1. Against(new, c) = Against(adj, c)
  BY DEF Against
<1>2. Amount(new) = Amount(adj)
  BY DEF Amount
<1> QED
  BY <1>1, <1>2 DEF Owed

-----------------------------------------------------------------------------
\* What a step that neither reports nor reverses a conversion may do to the
\* state that ClawbackInv speaks of.
ClawbackFrame ==
    /\ UNCHANGED <<earned, value>>
    /\ \A c \in Conversion :
        /\ conversion'[c] = "NONE" => conversion[c] = "NONE"
        /\ conversion'[c] \in {"PENDING", "APPROVED"} =>
               conversion[c] \in {"PENDING", "APPROVED"}
    /\ \A j \in Adjustment :
        /\ adjustment'[j].conversion = adjustment[j].conversion
        /\ adjustment'[j].amount = adjustment[j].amount
    /\ \A q \in Request : request'[q].kind = "reverse" =>
        /\ request[q].kind = "reverse"
        /\ request'[q].conversion = request[q].conversion
        /\ request'[q].remaining = request[q].remaining
        /\ request'[q].clawback = request[q].clawback

\* A request of another kind takes the place of whatever request r was.
LEMMA OtherReversal ==
  ASSUME TypeOK, NEW r \in Request, NEW op, op.kind # "reverse",
         request' = [request EXCEPT ![r] = op]
  PROVE  \A q \in Request : request'[q].kind = "reverse" =>
             request'[q] = request[q]
  BY DEF TypeOK

LEMMA StepClawbackFrame ==
  ASSUME TypeOK, Next
  PROVE  \/ ClawbackFrame
         \/ \E r \in Request :
               \/ \E c \in Conversion, a \in Amounts : Report(r, c, a)
               \/ \E c \in Conversion : \E n \in 1..earned[c] : ReverseRead(r, c, n)
               \/ ReverseCommit(r)
  <1> USE DEF TypeOK, conversionVars
  <1>1. ASSUME NEW r \in Request,
               \/ Abandon(r)
               \/ \E d \in FraudScores : Evaluate(r, d)
        PROVE  ClawbackFrame
    <2>1. Idle.kind # "reverse" /\ request' = [request EXCEPT ![r] = Idle]
      BY <1>1 DEF Abandon, Evaluate, Finish, Idle
    <2>2. UNCHANGED <<earned, value, conversion, adjustment>>
      BY <1>1 DEF Abandon, Evaluate
    <2>3. QED
      BY <2>1, <2>2, OtherReversal DEF ClawbackFrame
  <1>2. ASSUME NEW r \in Request, NEW c \in Conversion,
               NEW d \in {"APPROVED", "REJECTED"}, ReviewRead(r, c, d)
        PROVE  ClawbackFrame
    <2> DEFINE op == [kind |-> "review", conversion |-> c, decision |-> d]
    <2>1. op.kind # "reverse" /\ request' = [request EXCEPT ![r] = op]
      BY <1>2 DEF ReviewRead, Begin
    <2>2. UNCHANGED <<earned, value, conversion, adjustment>>
      BY <1>2 DEF ReviewRead
    <2>3. QED
      BY <2>1, <2>2, OtherReversal DEF ClawbackFrame
  <1>3. ASSUME NEW r \in Request, ReviewCommit(r) PROVE ClawbackFrame
    <2>1. Idle.kind # "reverse" /\ request' = [request EXCEPT ![r] = Idle]
      BY <1>3 DEF ReviewCommit, Finish, Idle
    <2>2. UNCHANGED <<earned, value, adjustment>>
      BY <1>3 DEF ReviewCommit
    <2>3. /\ request[r].conversion \in Conversion
          /\ request[r].decision \in {"APPROVED", "REJECTED"}
      BY <1>3, OperationOfKind DEF ReviewCommit, ReviewOp
    <2>4. /\ conversion[request[r].conversion] = "PENDING"
          /\ conversion' = [conversion EXCEPT
                               ![request[r].conversion] = request[r].decision]
      BY <1>3 DEF ReviewCommit
    <2>5. QED
      BY <2>1, <2>2, <2>3, <2>4, OtherReversal DEF ClawbackFrame
  <1>4. ASSUME NEW r \in Request, NEW c \in Conversion,
               \/ \E d \in {"CLEARED", "FLAGGED"} : DecideOnly(r, c, d)
               \/ DecideBlocked(r, c)
        PROVE  ClawbackFrame
    <2> DEFINE op == [kind |-> "block", conversion |-> c]
    <2>1. /\ op.kind # "reverse" /\ Idle.kind # "reverse"
          /\ request' = [request EXCEPT ![r] = Idle]
             \/ request' = [request EXCEPT ![r] = op]
      BY <1>4 DEF DecideOnly, DecideBlocked, Begin, Idle
    <2>2. UNCHANGED <<earned, value, conversion, adjustment>>
      BY <1>4 DEF DecideOnly, DecideBlocked
    <2>3. \A q \in Request : request'[q].kind = "reverse" =>
             request'[q] = request[q]
      BY <2>1, OtherReversal
    <2>4. QED
      BY <2>2, <2>3 DEF ClawbackFrame
  <1>5. ASSUME NEW r \in Request, Block(r) PROVE ClawbackFrame
    <2>1. Idle.kind # "reverse" /\ request' = [request EXCEPT ![r] = Idle]
      BY <1>5 DEF Block, Finish, Idle
    <2>2. /\ UNCHANGED <<earned, value, adjustment>>
          /\ conversion' = [conversion EXCEPT ![request[r].conversion] = "REJECTED"]
      BY <1>5 DEF Block
    <2>3. QED
      BY <2>1, <2>2, OtherReversal DEF ClawbackFrame
  <1>6. ASSUME NEW r \in Request, ReverseReadCommission(r) PROVE ClawbackFrame
    <2>1. request[r] \in ReverseOp /\ Idle.kind # "reverse"
      BY <1>6, OperationOfKind DEF ReverseReadCommission, Idle
    <2> DEFINE s == commission[request[r].conversion]
    <2>2. \/ request' = [request EXCEPT ![r] = Idle]
          \/ request' = [request EXCEPT ![r].commission = s]
      BY <1>6, Zenon DEF ReverseReadCommission, Finish
    <2>3. UNCHANGED <<earned, value, conversion, adjustment>>
      BY <1>6 DEF ReverseReadCommission
    <2>4. \A q \in Request : request'[q].kind = "reverse" =>
            /\ request[q].kind = "reverse"
            /\ request'[q].conversion = request[q].conversion
            /\ request'[q].remaining = request[q].remaining
            /\ request'[q].clawback = request[q].clawback
      <3>1. CASE request' = [request EXCEPT ![r] = Idle]
        BY <2>1, <3>1, OtherReversal
      <3>2. CASE request' = [request EXCEPT ![r].commission = s]
        BY <2>1, <3>2 DEF ReverseOp
      <3>3. QED BY <2>2, <3>1, <3>2
    <2>5. QED
      BY <2>3, <2>4 DEF ClawbackFrame
  <1>7. ASSUME NEW r \in Request, NEW a \in Affiliate, PayoutRequest(r, a)
        PROVE  ClawbackFrame
    <2> DEFINE op == [kind |-> "request", affiliate |-> a, items |-> {},
                      adjustments |-> {}]
    <2>1. op.kind # "reverse" /\ request' = [request EXCEPT ![r] = op]
      BY <1>7 DEF PayoutRequest, Begin
    <2>2. UNCHANGED <<earned, value, conversion, adjustment>>
      BY <1>7 DEF PayoutRequest
    <2>3. QED
      BY <2>1, <2>2, OtherReversal DEF ClawbackFrame
  <1>8. ASSUME NEW r \in Request, PayoutReadBalance(r) PROVE ClawbackFrame
    <2>1. \E op : op.kind # "reverse" /\ request' = [request EXCEPT ![r] = op]
      BY <1>8 DEF PayoutReadBalance, Finish, Idle
    <2>2. UNCHANGED <<earned, value, conversion, adjustment>>
      BY <1>8 DEF PayoutReadBalance
    <2>3. QED
      BY <2>1, <2>2, OtherReversal DEF ClawbackFrame
  <1>9. ASSUME NEW r \in Request, NEW p \in Payout, PayoutCommit(r, p)
        PROVE  ClawbackFrame
    <2>1. Idle.kind # "reverse" /\ request' = [request EXCEPT ![r] = Idle]
      BY <1>9 DEF PayoutCommit, Finish, Idle
    <2>2. /\ UNCHANGED <<earned, value, conversion>>
          /\ adjustment' = [j \in Adjustment |->
                IF j \in request[r].adjustments
                THEN [adjustment[j] EXCEPT !.settled = p]
                ELSE adjustment[j]]
      BY <1>9 DEF PayoutCommit
    <2>3. \A j \in Adjustment :
             /\ adjustment'[j].conversion = adjustment[j].conversion
             /\ adjustment'[j].amount = adjustment[j].amount
      BY <2>2 DEF AdjustmentRow
    <2>4. QED
      BY <2>1, <2>2, <2>3, OtherReversal DEF ClawbackFrame
  <1>10. ASSUME NEW r \in Request, NEW p \in Payout, NEW to \in PayoutStatus,
                TransitionRead(r, p, to)
         PROVE  ClawbackFrame
    <2> DEFINE op == [kind |-> "transition", payout |-> p, to |-> to]
    <2>1. op.kind # "reverse" /\ request' = [request EXCEPT ![r] = op]
      BY <1>10 DEF TransitionRead, Begin
    <2>2. UNCHANGED <<earned, value, conversion, adjustment>>
      BY <1>10 DEF TransitionRead
    <2>3. QED
      BY <2>1, <2>2, OtherReversal DEF ClawbackFrame
  <1>11. ASSUME NEW r \in Request, TransitionCommit(r) PROVE ClawbackFrame
    <2>1. Idle.kind # "reverse" /\ request' = [request EXCEPT ![r] = Idle]
      BY <1>11 DEF TransitionCommit, Finish, Idle
    <2>2. UNCHANGED <<earned, value, conversion, adjustment>>
      BY <1>11 DEF TransitionCommit
    <2>3. QED
      BY <2>1, <2>2, OtherReversal DEF ClawbackFrame
  <1>12. ASSUME NEW w \in Worker, TickStep(w) PROVE ClawbackFrame
    <2>1. UNCHANGED <<earned, value, conversion, adjustment, request>>
      BY <1>12 DEF TickStep, TickSelect, TickFilter, TickPromote, TickFails
    <2>2. QED
      BY <2>1 DEF ClawbackFrame
  <1>13. ASSUME NEW c \in Conversion, LockExpires(c) PROVE ClawbackFrame
    <2>1. UNCHANGED <<earned, value, conversion, adjustment, request>>
      BY <1>13 DEF LockExpires
    <2>2. QED
      BY <2>1 DEF ClawbackFrame
  <1>14. ASSUME NEW r \in Request, RequestStep(r)
         PROVE  \/ ClawbackFrame
                \/ \E c \in Conversion, a \in Amounts : Report(r, c, a)
                \/ \E c \in Conversion : \E n \in 1..earned[c] : ReverseRead(r, c, n)
                \/ ReverseCommit(r)
    BY <1>1, <1>2, <1>3, <1>4, <1>5, <1>6, <1>7, <1>8, <1>9, <1>10, <1>11,
       <1>14 DEF RequestStep
  <1>15. QED
    BY <1>12, <1>13, <1>14 DEF Next

-----------------------------------------------------------------------------
\* The remaining value a conversion still counts with.
Live(conv, val, c) == IF conv[c] \in {"PENDING", "APPROVED"} THEN val[c] ELSE 0

\* ClawbackInv, over the values of the variables before or after a step.
Covered(adj, conv, val, earn) ==
    /\ IsFiniteSet(Created(adj))
    /\ \A c \in Conversion :
        /\ conv[c] = "NONE" => earn[c] = 0
        /\ Owed(adj, c) + Live(conv, val, c) <= earn[c]
Alone(adj, conv, earn, req, r) ==
    /\ conv[req[r].conversion] # "NONE"
    /\ Owed(adj, req[r].conversion) + req[r].remaining + req[r].clawback
           <= earn[req[r].conversion]
    /\ \A q \in Request :
           /\ req[q].kind = "reverse"
           /\ req[q].conversion = req[r].conversion
           => q = r

LEMMA ClawbackNow ==
    ClawbackInv <=>
        /\ Covered(adjustment, conversion, value, earned)
        /\ \A r \in Request : request[r].kind = "reverse" =>
               Alone(adjustment, conversion, earned, request, r)
BY ClawbacksOwed DEF ClawbackInv, Covered, Alone, Live, Created

LEMMA ClawbackNext ==
    ClawbackInv' <=>
        /\ Covered(adjustment', conversion', value', earned')
        /\ \A r \in Request : request'[r].kind = "reverse" =>
               Alone(adjustment', conversion', earned', request', r)
BY ClawbacksOwed DEF ClawbackInv, Covered, Alone, Live, Created

LEMMA InitClawback == Init => ClawbackInv
<1> SUFFICES ASSUME Init PROVE ClawbackInv
  OBVIOUS
<1>1. Created(adjustment) = {}
  BY DEF Init, Created
<1>2. \A c \in Conversion : Against(adjustment, c) = {}
  BY DEF Init, Against
<1>3. \A c \in Conversion : Owed(adjustment, c) = 0
  BY <1>2, SumEmpty DEF Owed
<1>4. Covered(adjustment, conversion, value, earned)
  <2>1. IsFiniteSet(Created(adjustment))
    BY <1>1, FS_EmptySet
  <2>2. \A c \in Conversion : conversion[c] = "NONE" /\ earned[c] = 0
    BY DEF Init
  <2> QED BY <1>3, <2>1, <2>2 DEF Covered, Live
<1>5. \A r \in Request : request[r].kind # "reverse"
  BY DEF Init, Idle
<1> QED
  BY <1>4, <1>5, ClawbackNow

\* A step that leaves the clawbacks alone keeps room for them.
LEMMA FrameClawback ==
    ASSUME TypeOK, ClawbackInv, ClawbackFrame
    PROVE  ClawbackInv'
<1>1. adjustment \in [Adjustment -> AdjustmentRow]
  BY DEF TypeOK
<1>2. \A c : Owed(adjustment', c) = Owed(adjustment, c)
  BY <1>1, OwedSame DEF ClawbackFrame
<1>3. Created(adjustment') = Created(adjustment)
  BY DEF ClawbackFrame, Created
<1>4. Covered(adjustment, conversion, value, earned)
  BY ClawbackNow
<1>5. Covered(adjustment', conversion', value', earned')
  <2>1. ASSUME NEW c \in Conversion
        PROVE  /\ conversion'[c] = "NONE" => earned'[c] = 0
               /\ Owed(adjustment', c) + Live(conversion', value', c) <= earned'[c]
    <3>1. /\ Owed(adjustment, c) \in Nat /\ value[c] \in Nat /\ earned[c] \in Nat
          /\ earned'[c] = earned[c] /\ value'[c] = value[c]
      BY <1>1, <1>4, OwedType DEF Covered, TypeOK, ClawbackFrame
    <3>2. /\ conversion'[c] = "NONE" => conversion[c] = "NONE"
          /\ conversion'[c] \in {"PENDING", "APPROVED"} =>
                 conversion[c] \in {"PENDING", "APPROVED"}
      BY DEF ClawbackFrame
    <3> QED BY <1>2, <1>4, <3>1, <3>2 DEF Covered, Live
  <2> QED BY <1>3, <1>4, <2>1 DEF Covered
<1>6. ASSUME NEW r \in Request, request'[r].kind = "reverse"
      PROVE  Alone(adjustment', conversion', earned', request', r)
  <2>1. request[r].kind = "reverse" /\ Alone(adjustment, conversion, earned, request, r)
    BY <1>6, ClawbackNow DEF ClawbackFrame
  <2>2. /\ request'[r].conversion = request[r].conversion
        /\ request'[r].remaining = request[r].remaining
        /\ request'[r].clawback = request[r].clawback
        /\ earned' = earned
        /\ request[r].conversion \in Conversion
    BY <1>6, <2>1, OperationOfKind DEF ClawbackFrame, ReverseOp
  <2>3. conversion'[request[r].conversion] # "NONE"
    BY <2>1, <2>2 DEF Alone, ClawbackFrame
  <2>4. \A q \in Request :
           /\ request'[q].kind = "reverse"
           /\ request'[q].conversion = request'[r].conversion
           => q = r
    BY <2>1, <2>2 DEF Alone, ClawbackFrame
  <2> QED BY <1>2, <2>1, <2>2, <2>3, <2>4 DEF Alone
<1> QED
  BY <1>5, <1>6, ClawbackNext

LEMMA ReportClawback ==
    ASSUME TypeOK, ClawbackInv, NEW r \in Request, NEW c \in Conversion,
           NEW a \in Amounts, Report(r, c, a)
    PROVE  ClawbackInv'
<1>1. /\ conversion[c] = "NONE" /\ adjustment' = adjustment
      /\ conversion' = [conversion EXCEPT ![c] = "PENDING"]
      /\ value' = [value EXCEPT ![c] = a]
      /\ earned' = [earned EXCEPT ![c] = a]
      /\ request' = [request EXCEPT ![r] = [kind |-> "report", conversion |-> c]]
  BY DEF Report, Begin
<1>2. Covered(adjustment, conversion, value, earned)
  BY ClawbackNow
<1>3. /\ adjustment \in [Adjustment -> AdjustmentRow] /\ a \in Nat
      /\ conversion \in [Conversion -> ConversionStatus]
      /\ value \in [Conversion -> Nat] /\ earned \in [Conversion -> Nat]
      /\ request \in [Request -> Operation]
  BY DEF TypeOK
<1>4. Covered(adjustment', conversion', value', earned')
  <2>1. ASSUME NEW d \in Conversion
        PROVE  /\ conversion'[d] = "NONE" => earned'[d] = 0
               /\ Owed(adjustment', d) + Live(conversion', value', d) <= earned'[d]
    <3>1. Owed(adjustment, d) \in Nat
      BY <1>2, <1>3, OwedType DEF Covered
    <3>2. Owed(adjustment, d) + Live(conversion, value, d) <= earned[d]
      BY <1>2 DEF Covered
    <3>3. CASE d = c
      <4>1. Owed(adjustment, c) = 0
        BY <1>1, <1>2, <3>1, <3>2, <3>3 DEF Covered, Live
      <4>2. conversion'[c] = "PENDING" /\ value'[c] = a /\ earned'[c] = a
        BY <1>1, <1>3
      <4> QED BY <1>1, <1>3, <3>3, <4>1, <4>2 DEF Live
    <3>4. CASE d # c
      <4>1. /\ conversion'[d] = conversion[d] /\ value'[d] = value[d]
            /\ earned'[d] = earned[d]
        BY <1>1, <1>3, <3>4
      <4> QED BY <1>1, <1>2, <3>2, <4>1 DEF Live, Covered
    <3> QED BY <3>3, <3>4
  <2> QED BY <1>1, <1>2, <2>1 DEF Covered
<1>5. ASSUME NEW q \in Request, request'[q].kind = "reverse"
      PROVE  Alone(adjustment', conversion', earned', request', q)
  <2>1. \A p \in Request : request'[p].kind = "reverse" => request'[p] = request[p]
    <3>1. [kind |-> "report", conversion |-> c].kind # "reverse"
      OBVIOUS
    <3> QED BY <1>1, <3>1, OtherReversal
  <2>2. /\ request'[q] = request[q] /\ request[q].conversion \in Conversion
        /\ Alone(adjustment, conversion, earned, request, q)
    BY <1>5, <2>1, ClawbackNow, OperationOfKind DEF ReverseOp
  <2>3. request[q].conversion # c
    BY <1>1, <2>2 DEF Alone
  <2>4. /\ earned'[request[q].conversion] = earned[request[q].conversion]
        /\ conversion'[request[q].conversion] = conversion[request[q].conversion]
    BY <1>1, <1>3, <2>2, <2>3
  <2>5. \A p \in Request :
           /\ request'[p].kind = "reverse"
           /\ request'[p].conversion = request'[q].conversion
           => p = q
    BY <2>1, <2>2 DEF Alone
  <2> QED BY <1>1, <2>2, <2>4, <2>5 DEF Alone
<1> QED
  BY <1>4, <1>5, ClawbackNext

LEMMA ReverseReadClawback ==
    ASSUME TypeOK, ClawbackInv, NEW r \in Request, NEW c \in Conversion,
           NEW n \in 1..earned[c], ReverseRead(r, c, n)
    PROVE  ClawbackInv'
<1> DEFINE op == [kind |-> "reverse", conversion |-> c,
                  remaining |-> value[c] - n, clawback |-> n, commission |-> NULL]
<1>1. /\ conversion[c] = "APPROVED" /\ n <= value[c]
      /\ request' = [request EXCEPT ![r] = op]
      /\ \A q \in Request :
             ~(request[q].kind = "reverse" /\ request[q].conversion = c)
      /\ UNCHANGED <<adjustment, conversion, value, earned>>
  BY DEF ReverseRead, Begin, ReverseLocked, conversionVars
<1>2. /\ Covered(adjustment, conversion, value, earned)
      /\ \A q \in Request : request[q].kind = "reverse" =>
             Alone(adjustment, conversion, earned, request, q)
  BY ClawbackNow
<1>3. /\ value[c] \in Nat /\ earned[c] \in Nat /\ n \in Nat
      /\ request \in [Request -> Operation]
      /\ op.kind = "reverse" /\ op.conversion = c /\ op.clawback = n
      /\ op.remaining = value[c] - n
  BY DEF TypeOK
<1>4. Owed(adjustment, c) \in Nat
  BY <1>2, OwedType DEF Covered, TypeOK
<1>5. Owed(adjustment, c) + value[c] <= earned[c]
  BY <1>1, <1>2 DEF Covered, Live
<1> HIDE DEF op
<1>6. request'[r] = op /\ \A q \in Request \ {r} : request'[q] = request[q]
  BY <1>1, <1>3
<1>7. ASSUME NEW q \in Request, request'[q].kind = "reverse"
      PROVE  Alone(adjustment, conversion, earned, request', q)
  <2>1. CASE q = r
    <3>1. \A p \in Request :
             /\ request'[p].kind = "reverse"
             /\ request'[p].conversion = request'[q].conversion
             => p = q
      BY <1>1, <1>3, <1>6, <2>1
    <3>2. Owed(adjustment, c) + op.remaining + op.clawback <= earned[c]
      BY <1>3, <1>4, <1>5
    <3> QED BY <1>1, <1>3, <1>6, <2>1, <3>1, <3>2 DEF Alone
  <2>2. CASE q # r
    <3>1. request'[q] = request[q] /\ Alone(adjustment, conversion, earned, request, q)
      BY <1>2, <1>6, <1>7, <2>2
    <3>2. request[q].conversion # c
      BY <1>1, <1>7, <3>1
    <3>3. \A p \in Request :
             /\ request'[p].kind = "reverse"
             /\ request'[p].conversion = request'[q].conversion
             => p = q
      BY <1>3, <1>6, <3>1, <3>2 DEF Alone
    <3> QED BY <3>1, <3>3 DEF Alone
  <2> QED BY <2>1, <2>2
<1> QED
  BY <1>1, <1>2, <1>7, ClawbackNext

LEMMA ReverseCommitClawback ==
    ASSUME TypeOK, ClawbackInv, NEW r \in Request, ReverseCommit(r)
    PROVE  ClawbackInv'
<1> DEFINE op == request[r]
           c == op.conversion
<1>1. /\ op.kind = "reverse" /\ c \in Conversion
      /\ op.remaining \in Nat /\ op.clawback \in Nat
      /\ Alone(adjustment, conversion, earned, request, r)
      /\ Covered(adjustment, conversion, value, earned)
  BY OperationOfKind, ClawbackNow DEF ReverseCommit, ReverseOp
<1>2. /\ adjustment \in [Adjustment -> AdjustmentRow]
      /\ conversion \in [Conversion -> ConversionStatus]
      /\ value \in [Conversion -> Nat] /\ earned \in [Conversion -> Nat]
      /\ request \in [Request -> Operation]
  BY DEF TypeOK
<1>3. earned' = earned /\ request' = [request EXCEPT ![r] = Idle]
  BY DEF ReverseCommit, Finish
<1>4. \/ /\ conversion' = [conversion EXCEPT ![c] = "REJECTED"]
         /\ value' = value
      \/ /\ conversion' = conversion
         /\ value' = [value EXCEPT ![c] = op.remaining]
  BY Zenon DEF ReverseCommit
<1>5. \/ adjustment' = adjustment
      \/ \E k \in Adjustment :
            /\ adjustment[k].conversion = NULL
            /\ adjustment' = [adjustment EXCEPT ![k] =
                  [conversion |-> c, amount |-> op.clawback, settled |-> NULL]]
  BY Zenon DEF ReverseCommit
<1>6. /\ c \in Conversion /\ Owed(adjustment, c) + op.remaining + op.clawback <= earned[c]
      /\ conversion[c] # "NONE"
      /\ \A q \in Request : request[q].kind = "reverse" /\ request[q].conversion = c
            => q = r
  BY <1>1 DEF Alone
<1> HIDE DEF c, op
<1>7. /\ IsFiniteSet(Created(adjustment'))
      /\ Owed(adjustment', c) \in {Owed(adjustment, c), Owed(adjustment, c) + op.clawback}
      /\ \A d \in Conversion \ {c} : Owed(adjustment', d) = Owed(adjustment, d)
  <2>1. CASE adjustment' = adjustment
    BY <1>1, <2>1 DEF Covered
  <2>2. ASSUME NEW k \in Adjustment, adjustment[k].conversion = NULL,
               adjustment' = [adjustment EXCEPT ![k] =
                  [conversion |-> c, amount |-> op.clawback, settled |-> NULL]]
        PROVE  /\ IsFiniteSet(Created(adjustment'))
               /\ Owed(adjustment', c) = Owed(adjustment, c) + op.clawback
               /\ \A d \in Conversion \ {c} : Owed(adjustment', d) = Owed(adjustment, d)
    <3> DEFINE new == adjustment'
    <3>1. [conversion |-> c, amount |-> op.clawback, settled |-> NULL] \in AdjustmentRow
      BY <1>1 DEF AdjustmentRow
    <3>2. /\ new \in [Adjustment -> AdjustmentRow]
          /\ new[k] = [conversion |-> c, amount |-> op.clawback, settled |-> NULL]
          /\ \A j \in Adjustment \ {k} : new[j] = adjustment[j]
      BY <1>2, <2>2, <3>1
    <3>3. new[k].conversion = c /\ new[k].amount = op.clawback
      BY <3>2
    <3>4. IsFiniteSet(Created(adjustment))
      BY <1>1 DEF Covered
    <3> HIDE DEF new
    <3>5. /\ IsFiniteSet(Created(new))
          /\ Owed(new, c) = Owed(adjustment, c) + op.clawback
          /\ \A d \in Conversion \ {c} : Owed(new, d) = Owed(adjustment, d)
      <4>1. adjustment[k].conversion = NULL /\ op.clawback \in Nat /\ c \in Conversion
        BY <1>1, <2>2
      <4> DEFINE n == op.clawback
      <4>2. n \in Nat /\ new[k].amount = n
        BY <3>3, <4>1
      <4>3. /\ adjustment \in [Adjustment -> AdjustmentRow]
            /\ new \in [Adjustment -> AdjustmentRow]
            /\ new[k].conversion = c
            /\ \A j \in Adjustment \ {k} : new[j] = adjustment[j]
        BY <1>2, <3>2, <3>3
      <4> HIDE DEF n
      <4>4. /\ IsFiniteSet(Created(new))
            /\ Owed(new, c) = Owed(adjustment, c) + n
            /\ \A d \in Conversion \ {c} : Owed(new, d) = Owed(adjustment, d)
        BY <3>4, <4>1, <4>2, <4>3, OwedGrows
      <4> QED BY <4>4 DEF n
    <3> QED BY <3>5 DEF new
  <2> QED BY <1>5, <2>1, <2>2
<1>8. Covered(adjustment', conversion', value', earned')
  <2>1. ASSUME NEW d \in Conversion
        PROVE  /\ conversion'[d] = "NONE" => earned'[d] = 0
               /\ Owed(adjustment', d) + Live(conversion', value', d) <= earned'[d]
    <3>1. Owed(adjustment, d) \in Nat /\ earned[d] \in Nat /\ value[d] \in Nat
      BY <1>1, <1>2, OwedType DEF Covered
    <3>2. CASE d = c
      <4>1. conversion'[c] # "NONE"
        BY <1>2, <1>4, <1>6
      <4>2. Live(conversion', value', c) \in {0, op.remaining}
        BY <1>2, <1>4, <1>6 DEF Live
      <4> QED BY <1>1, <1>3, <1>6, <1>7, <3>1, <3>2, <4>1, <4>2
    <3>3. CASE d # c
      <4>1. conversion'[d] = conversion[d] /\ value'[d] = value[d]
        BY <1>2, <1>4, <3>3
      <4>2. Live(conversion', value', d) = Live(conversion, value, d)
        BY <4>1 DEF Live
      <4> QED BY <1>1, <1>3, <1>7, <3>3, <4>1, <4>2 DEF Covered
    <3> QED BY <3>2, <3>3
  <2> QED BY <1>7, <2>1 DEF Covered
<1>9. ASSUME NEW q \in Request, request'[q].kind = "reverse"
      PROVE  Alone(adjustment', conversion', earned', request', q)
  <2>1. \A p \in Request : request'[p].kind = "reverse" =>
            p # r /\ request'[p] = request[p]
    BY <1>2, <1>3 DEF Idle
  <2>2. /\ request'[q] = request[q] /\ request[q].conversion \in Conversion
        /\ Alone(adjustment, conversion, earned, request, q)
    BY <1>9, <2>1, ClawbackNow, OperationOfKind DEF ReverseOp
  <2>3. request[q].conversion # c
    BY <1>6, <1>9, <2>1
  <2>4. conversion'[request[q].conversion] = conversion[request[q].conversion]
    BY <1>2, <1>4, <2>2, <2>3
  <2>5. Owed(adjustment', request[q].conversion) = Owed(adjustment, request[q].conversion)
    BY <1>7, <2>2, <2>3
  <2>6. \A p \in Request :
           /\ request'[p].kind = "reverse"
           /\ request'[p].conversion = request'[q].conversion
           => p = q
    BY <2>1, <2>2 DEF Alone
  <2> QED BY <1>3, <2>2, <2>4, <2>5, <2>6 DEF Alone
<1> QED
  BY <1>8, <1>9, ClawbackNext

LEMMA StepClawback == TypeOK /\ ClawbackInv /\ [Next]_vars => ClawbackInv'
<1> SUFFICES ASSUME TypeOK, ClawbackInv, [Next]_vars PROVE ClawbackInv'
  OBVIOUS
<1>1. CASE UNCHANGED vars
  <2>1. ClawbackFrame
    BY <1>1 DEF ClawbackFrame, vars, conversionVars
  <2> QED BY <2>1, FrameClawback
<1>2. CASE Next
  BY <1>2, StepClawbackFrame, FrameClawback, ReportClawback,
     ReverseReadClawback, ReverseCommitClawback
<1> QED
  BY <1>1, <1>2

\* However refunds of a conversion overlap, repeat, fail or race a fraud
\* decision, what they claw back and what is left of the conversion never
\* exceed the commission it earned.
THEOREM ClawbacksBounded == Spec => []ClawbackBounded
<1>1. TypeOK /\ ClawbackInv => ClawbackBounded
  <2> SUFFICES ASSUME TypeOK, ClawbackInv, NEW c \in Conversion
               PROVE  Clawbacks(c) + (IF conversion[c] = "APPROVED" THEN value[c] ELSE 0)
                          <= earned[c]
    BY DEF ClawbackBounded
  <2>1. Covered(adjustment, conversion, value, earned)
    BY ClawbackNow
  <2>2. /\ Owed(adjustment, c) \in Nat /\ value[c] \in Nat /\ earned[c] \in Nat
        /\ Clawbacks(c) = Owed(adjustment, c)
    BY <2>1, OwedType, ClawbacksOwed DEF Covered, TypeOK
  <2>3. Owed(adjustment, c) + Live(conversion, value, c) <= earned[c]
    BY <2>1 DEF Covered
  <2> QED BY <2>2, <2>3 DEF Live
<1>2. Init => ClawbackInv
  BY InitClawback
<1>3. TypeOK /\ ClawbackInv /\ [Next]_vars => ClawbackInv'
  BY StepClawback
<1> QED
  BY <1>1, <1>2, <1>3, TypeCorrect, PTL DEF Spec

-----------------------------------------------------------------------------
(***************************************************************************)
(* What a payout owns, while requests and ticks do not overlap.  The       *)
(* hypothesis MaxInFlight = 1 is that; there are finitely many requests    *)
(* and ticks at any time, so that they can be counted.                     *)
(***************************************************************************)

\* When another request or tick may begin, none is in progress.
LEMMA NothingInProgress ==
    ASSUME MaxInFlight = 1, IsFiniteSet(Request), IsFiniteSet(Worker),
           InFlight < MaxInFlight
    PROVE  /\ \A q \in Request : request[q] = Idle
           /\ \A w \in Worker : tick[w].step = "idle"
<1> DEFINE R == {r \in Request : request[r] # Idle}
           W == {w \in Worker : tick[w].step # "idle"}
<1>1. IsFiniteSet(R) /\ IsFiniteSet(W)
  BY FS_Subset
<1>2. Cardinality(R) + Cardinality(W) < 1
  BY DEF InFlight
<1> HIDE DEF R, W
<1>3. Cardinality(R) \in Nat /\ Cardinality(W) \in Nat
  BY <1>1, FS_CardinalityType
<1>4. Cardinality(R) = 0 /\ Cardinality(W) = 0
  BY <1>2, <1>3
<1>5. R = {} /\ W = {}
  BY <1>1, <1>4, FS_EmptySet
<1> QED
  BY <1>5 DEF R, W

\* Nothing else is in progress beside a request that is or that begins.
LEMMA RequestIsAlone ==
    ASSUME MaxInFlight = 1, IsFiniteSet(Request), IsFiniteSet(Worker),
           AloneInProgress, NEW r \in Request,
           request[r] # Idle \/ InFlight < MaxInFlight
    PROVE  /\ \A q \in Request \ {r} : request[q] = Idle
           /\ \A w \in Worker : tick[w].step = "idle"
<1>1. CASE request[r] # Idle
  BY <1>1 DEF AloneInProgress
<1>2. CASE InFlight < MaxInFlight
  BY <1>2, NothingInProgress
<1> QED
  BY <1>1, <1>2

\* A step of a request that is alone need only answer for itself.
LEMMA LoneRequest ==
    ASSUME OwnershipInv, NEW r \in Request,
           \A q \in Request \ {r} : request[q] = Idle /\ request'[q] = Idle,
           \A w \in Worker : tick[w].step = "idle",
           tick' = tick, AttachedInv', StillTrue(request[r])'
    PROVE  OwnershipInv'
<1>1. AloneInProgress'
  BY DEF AloneInProgress
<1>2. \A q \in Request \ {r} : StillTrue(request[q])'
  BY DEF StillTrue, Idle
<1>3. \A w \in Worker : \A c \in tick'[w].batch :
         tick'[w].step # "idle" /\ commission'[c] = "LOCKED"
  BY DEF OwnershipInv
<1> QED
  BY <1>1, <1>2, <1>3 DEF OwnershipInv

\* A step that moves only commissions that are attached to no payout.
LEMMA UnattachedMove ==
    ASSUME AttachedInv, UNCHANGED <<payout, failureReason, payoutId>>,
           \A c \in Conversion :
               \/ commission'[c] = commission[c] /\ amount'[c] = amount[c]
               \/ {commission[c], commission'[c]}
                      \cap {"INCLUDED_IN_PAYOUT", "PAID"} = {}
    PROVE  AttachedInv'
<1>1. \A c \in Conversion : payoutId[c] # NULL => amount'[c] = amount[c]
  BY DEF AttachedInv
<1>2. PayoutOwnsItsItems'
  <2> SUFFICES ASSUME NEW p \in Payout,
                      payout[p].status \in Open \cup {"PAID"},
                      p \notin failureReason
               PROVE  payout[p].items =
                          {[conversion |-> c, amount |-> amount'[c]] :
                              c \in {d \in Conversion : payoutId[d] = p}}
    BY DEF PayoutOwnsItsItems
  <2>1. payout[p].items =
            {[conversion |-> c, amount |-> amount[c]] :
                c \in {d \in Conversion : payoutId[d] = p}}
    BY DEF AttachedInv, PayoutOwnsItsItems
  <2>2. \A c \in {d \in Conversion : payoutId[d] = p} : amount'[c] = amount[c]
    BY <1>1
  <2> QED
    BY <2>1, <2>2
<1>3. \A c \in Conversion :
         /\ payoutId'[c] # NULL <=> commission'[c] \in {"INCLUDED_IN_PAYOUT", "PAID"}
         /\ payoutId'[c] # NULL => payout'[payoutId'[c]].status # "NONE"
  BY DEF AttachedInv
<1> QED
  BY <1>2, <1>3 DEF AttachedInv

\* What requests that only read leave alone.
OwnershipFrame == UNCHANGED <<commission, amount, payoutId, payout, failureReason>>

LEMMA FrameAttached == AttachedInv /\ OwnershipFrame => AttachedInv'
BY UnattachedMove DEF OwnershipFrame

\* A step that reads keeps the invariant if what it has read is so.
LEMMA ReadOwnership ==
    ASSUME MaxInFlight = 1, IsFiniteSet(Request), IsFiniteSet(Worker),
           TypeOK, OwnershipInv, NEW r \in Request, NEW op,
           request[r] # Idle \/ InFlight < MaxInFlight,
           request' = [request EXCEPT ![r] = op], tick' = tick,
           OwnershipFrame, StillTrue(request[r])'
    PROVE  OwnershipInv'
<1>1. /\ \A q \in Request \ {r} : request[q] = Idle
      /\ \A w \in Worker : tick[w].step = "idle"
  BY RequestIsAlone DEF OwnershipInv
<1>2. \A q \in Request \ {r} : request'[q] = Idle
  BY <1>1 DEF TypeOK
<1>3. AttachedInv'
  BY FrameAttached DEF OwnershipInv
<1> QED
  BY <1>1, <1>2, <1>3, LoneRequest

\* A step that writes and ends its request need only answer for what it wrote.
LEMMA CommitOwnership ==
    ASSUME MaxInFlight = 1, IsFiniteSet(Request), IsFiniteSet(Worker),
           TypeOK, OwnershipInv, NEW r \in Request,
           request[r] # Idle, Finish(r), tick' = tick, AttachedInv'
    PROVE  OwnershipInv'
<1>1. /\ \A q \in Request \ {r} : request[q] = Idle
      /\ \A w \in Worker : tick[w].step = "idle"
  BY RequestIsAlone DEF OwnershipInv
<1>2. \A q \in Request : request'[q] = Idle
  BY <1>1 DEF TypeOK, Finish
<1>3. StillTrue(request[r])'
  BY <1>2 DEF StillTrue, Idle
<1> QED
  BY <1>1, <1>2, <1>3, LoneRequest

\* A conversion that was never approved has its commission in no payout.
LEMMA UnapprovedUnattached ==
    ASSUME VettingInv, NEW c \in Conversion, conversion[c] \in {"NONE", "PENDING"}
    PROVE  commission[c] \notin {"INCLUDED_IN_PAYOUT", "PAID"}
BY DEF VettingInv, PayableIsVetted

LEMMA ReadingSteps ==
    ASSUME MaxInFlight = 1, IsFiniteSet(Request), IsFiniteSet(Worker),
           TypeOK, OwnershipInv, NEW r \in Request,
           \/ Abandon(r)
           \/ \E d \in FraudScores : Evaluate(r, d)
           \/ \E c \in Conversion, d \in {"APPROVED", "REJECTED"} : ReviewRead(r, c, d)
           \/ \E c \in Conversion, d \in {"CLEARED", "FLAGGED"} : DecideOnly(r, c, d)
           \/ \E c \in Conversion : DecideBlocked(r, c)
           \/ \E c \in Conversion : \E n \in 1..earned[c] : ReverseRead(r, c, n)
           \/ ReverseReadCommission(r)
           \/ \E a \in Affiliate : PayoutRequest(r, a)
           \/ PayoutReadBalance(r)
           \/ \E p \in Payout, to \in PayoutStatus : TransitionRead(r, p, to)
    PROVE  OwnershipInv'
<1> USE DEF commissionVars, payoutVars
<1>1. request \in [Request -> Operation]
  BY DEF TypeOK
<1>2. CASE \/ Abandon(r)
           \/ \E d \in FraudScores : Evaluate(r, d)
  <2>1. /\ request' = [request EXCEPT ![r] = Idle] /\ request[r] # Idle
        /\ OwnershipFrame /\ tick' = tick
    BY <1>2 DEF Abandon, Evaluate, Finish, OwnershipFrame, Idle
  <2>2. StillTrue(request[r])'
    BY <1>1, <2>1 DEF StillTrue, Idle
  <2> QED
    BY <2>1, <2>2, ReadOwnership
<1>3. ASSUME NEW c \in Conversion, NEW d \in {"APPROVED", "REJECTED"},
             ReviewRead(r, c, d)
      PROVE  OwnershipInv'
  <2> DEFINE op == [kind |-> "review", conversion |-> c, decision |-> d]
  <2>1. /\ request' = [request EXCEPT ![r] = op] /\ InFlight < MaxInFlight
        /\ OwnershipFrame /\ tick' = tick
    BY <1>3 DEF ReviewRead, Begin, OwnershipFrame
  <2>2. StillTrue(request[r])'
    BY <1>1, <2>1 DEF StillTrue
  <2> QED
    BY <2>1, <2>2, ReadOwnership
<1>4. ASSUME NEW c \in Conversion, NEW d \in {"CLEARED", "FLAGGED"},
             DecideOnly(r, c, d)
      PROVE  OwnershipInv'
  <2>1. /\ request' = [request EXCEPT ![r] = Idle] /\ InFlight < MaxInFlight
        /\ OwnershipFrame /\ tick' = tick
    BY <1>4 DEF DecideOnly, Begin, OwnershipFrame
  <2>2. StillTrue(request[r])'
    BY <1>1, <2>1 DEF StillTrue, Idle
  <2> QED
    BY <2>1, <2>2, ReadOwnership
<1>5. ASSUME NEW c \in Conversion, DecideBlocked(r, c)
      PROVE  OwnershipInv'
  <2> DEFINE op == [kind |-> "block", conversion |-> c]
  <2>1. /\ request' = [request EXCEPT ![r] = op] /\ InFlight < MaxInFlight
        /\ OwnershipFrame /\ tick' = tick
    BY <1>5 DEF DecideBlocked, Begin, OwnershipFrame
  <2>2. StillTrue(request[r])'
    BY <1>1, <2>1 DEF StillTrue
  <2> QED
    BY <2>1, <2>2, ReadOwnership
<1>6. ASSUME NEW c \in Conversion, NEW n \in 1..earned[c], ReverseRead(r, c, n)
      PROVE  OwnershipInv'
  <2> DEFINE op == [kind |-> "reverse", conversion |-> c,
                    remaining |-> value[c] - n, clawback |-> n,
                    commission |-> NULL]
  <2>1. /\ request' = [request EXCEPT ![r] = op] /\ InFlight < MaxInFlight
        /\ OwnershipFrame /\ tick' = tick
    BY <1>6 DEF ReverseRead, Begin, OwnershipFrame
  <2>2. StillTrue(request[r])'
    BY <1>1, <2>1 DEF StillTrue
  <2> QED
    BY <2>1, <2>2, ReadOwnership
<1>7. CASE ReverseReadCommission(r)
  <2> DEFINE s == commission[request[r].conversion]
             op == [request[r] EXCEPT !.commission = s]
  <2>1. request[r] \in ReverseOp /\ request[r] # Idle
    BY <1>7, OperationOfKind DEF ReverseReadCommission, Idle, ReverseOp
  <2>2. OwnershipFrame /\ tick' = tick
    BY <1>7 DEF ReverseReadCommission, OwnershipFrame
  <2>3. CASE s = "INCLUDED_IN_PAYOUT"
    <3>1. request' = [request EXCEPT ![r] = Idle]
      BY <1>7, <2>3 DEF ReverseReadCommission, Finish
    <3>2. StillTrue(request[r])'
      BY <1>1, <3>1 DEF StillTrue, Idle
    <3> QED
      BY <2>1, <2>2, <3>1, <3>2, ReadOwnership
  <2>4. CASE s # "INCLUDED_IN_PAYOUT"
    <3>1. request' = [request EXCEPT ![r] = op]
      BY <1>7, <2>4, Zenon DEF ReverseReadCommission
    <3>2. /\ request'[r].kind = "reverse" /\ request'[r].commission = s
          /\ request'[r].conversion = request[r].conversion
      BY <1>1, <2>1, <3>1 DEF ReverseOp
    <3>3. StillTrue(request[r])'
      BY <2>2, <2>4, <3>2 DEF StillTrue, OwnershipFrame
    <3> QED
      BY <2>1, <2>2, <3>1, <3>3, ReadOwnership
  <2> QED
    BY <2>3, <2>4
<1>8. ASSUME NEW a \in Affiliate, PayoutRequest(r, a) PROVE OwnershipInv'
  <2> DEFINE op == [kind |-> "request", affiliate |-> a, items |-> {},
                    adjustments |-> {}]
  <2>1. /\ request' = [request EXCEPT ![r] = op] /\ InFlight < MaxInFlight
        /\ OwnershipFrame /\ tick' = tick
    BY <1>8 DEF PayoutRequest, Begin, OwnershipFrame
  <2>2. StillTrue(request[r])'
    BY <1>1, <2>1 DEF StillTrue
  <2> QED
    BY <2>1, <2>2, ReadOwnership
<1>9. CASE PayoutReadBalance(r)
  <2> DEFINE a == request[r].affiliate
             approved == {c \in Conversion : /\ AffiliateOf[c] = a
                                             /\ commission[c] = "APPROVED"}
             items == {[conversion |-> c, amount |-> amount[c]] : c \in approved}
             op == [kind |-> "request", affiliate |-> a, items |-> items,
                    adjustments |-> Unsettled(a)]
  <2>1. /\ request[r] # Idle /\ OwnershipFrame /\ tick' = tick
        /\ \/ request' = [request EXCEPT ![r] = Idle]
           \/ request' = [request EXCEPT ![r] = op]
    BY <1>9 DEF PayoutReadBalance, Finish, OwnershipFrame, Idle
  <2>2. CASE request' = [request EXCEPT ![r] = Idle]
    <3>1. StillTrue(request[r])'
      BY <1>1, <2>2 DEF StillTrue, Idle
    <3> QED
      BY <2>1, <2>2, <3>1, ReadOwnership
  <2>3. CASE request' = [request EXCEPT ![r] = op]
    <3>1. \A i \in items : commission[i.conversion] = "APPROVED"
                           /\ amount[i.conversion] = i.amount
      OBVIOUS
    <3>2. request'[r].kind = "request" /\ request'[r].items = items
      BY <1>1, <2>3
    <3>3. StillTrue(request[r])'
      <4> HIDE DEF items
      <4> QED BY <2>1, <3>1, <3>2 DEF StillTrue, OwnershipFrame
    <3> HIDE DEF op
    <3> QED
      BY <2>1, <2>3, <3>3, ReadOwnership
  <2> QED
    BY <2>1, <2>2, <2>3
<1>10. ASSUME NEW p \in Payout, NEW to \in PayoutStatus, TransitionRead(r, p, to)
       PROVE  OwnershipInv'
  <2> DEFINE op == [kind |-> "transition", payout |-> p, to |-> to]
  <2>1. /\ request' = [request EXCEPT ![r] = op] /\ InFlight < MaxInFlight
        /\ OwnershipFrame /\ tick' = tick
        /\ canTransitionPayout(payout[p].status, to)
    BY <1>10 DEF TransitionRead, Begin, OwnershipFrame
  <2>2. StillTrue(request[r])'
    BY <1>1, <2>1 DEF StillTrue, OwnershipFrame
  <2> QED
    BY <2>1, <2>2, ReadOwnership
<1> QED
  BY <1>2, <1>3, <1>4, <1>5, <1>6, <1>7, <1>8, <1>9, <1>10

LEMMA WritingSteps ==
    ASSUME MaxInFlight = 1, IsFiniteSet(Request), IsFiniteSet(Worker),
           TypeOK, VettingInv, OwnershipInv, NEW r \in Request,
           \/ \E c \in Conversion, a \in Amounts : Report(r, c, a)
           \/ ReviewCommit(r)
           \/ Block(r)
           \/ ReverseCommit(r)
    PROVE  OwnershipInv'
<1> USE DEF payoutVars
<1>1. /\ commission \in [Conversion -> CommissionStatus]
      /\ amount \in [Conversion -> Nat] /\ request \in [Request -> Operation]
  BY DEF TypeOK
<1>2. ASSUME NEW c \in Conversion, NEW a \in Amounts, Report(r, c, a)
      PROVE  OwnershipInv'
  <2>1. /\ conversion[c] = "NONE"
        /\ commission' = [commission EXCEPT ![c] = "LOCKED"]
        /\ amount' = [amount EXCEPT ![c] = a]
        /\ UNCHANGED <<payout, failureReason, payoutId, tick>>
        /\ request' = [request EXCEPT ![r] = [kind |-> "report", conversion |-> c]]
        /\ InFlight < MaxInFlight
    BY <1>2 DEF Report, Begin
  <2>2. AttachedInv'
    <3>1. commission[c] \notin {"INCLUDED_IN_PAYOUT", "PAID"}
      BY <2>1, UnapprovedUnattached
    <3> QED
      BY <1>1, <2>1, <3>1, UnattachedMove DEF OwnershipInv
  <2>3. /\ \A q \in Request \ {r} : request[q] = Idle
        /\ \A w \in Worker : tick[w].step = "idle"
    BY <2>1, RequestIsAlone DEF OwnershipInv
  <2>4. \A q \in Request \ {r} : request[q] = Idle /\ request'[q] = Idle
    BY <1>1, <2>1, <2>3
  <2>5. StillTrue(request[r])'
    BY <1>1, <2>1 DEF StillTrue
  <2> QED
    BY <2>1, <2>2, <2>3, <2>4, <2>5, LoneRequest
<1>3. CASE ReviewCommit(r)
  <2> DEFINE c == request[r].conversion
             d == request[r].decision
  <2>1. c \in Conversion /\ d \in {"APPROVED", "REJECTED"} /\ request[r] # Idle
    BY <1>3, OperationOfKind DEF ReviewCommit, ReviewOp, Idle
  <2>2. /\ conversion[c] = "PENDING" /\ Finish(r)
        /\ commission' = commission \/ commission' = [commission EXCEPT ![c] = d]
        /\ UNCHANGED <<payout, failureReason, payoutId, tick, amount>>
    BY <1>3 DEF ReviewCommit
  <2> HIDE DEF c, d
  <2>3. AttachedInv'
    <3>1. commission[c] \notin {"INCLUDED_IN_PAYOUT", "PAID"}
      BY <2>1, <2>2, UnapprovedUnattached
    <3> QED
      BY <1>1, <2>1, <2>2, <3>1, UnattachedMove DEF OwnershipInv
  <2> QED
    BY <2>1, <2>2, <2>3, CommitOwnership
<1>4. CASE Block(r)
  <2> DEFINE c == request[r].conversion
  <2>1. c \in Conversion /\ request[r] # Idle
    BY <1>4, OperationOfKind DEF Block, BlockOp, Idle
  <2>2. /\ Finish(r)
        /\ commission' = [commission EXCEPT ![c] =
                             IF @ = "LOCKED" THEN "CLAWED_BACK" ELSE @]
        /\ UNCHANGED <<payout, failureReason, payoutId, tick, amount>>
    BY <1>4 DEF Block
  <2> HIDE DEF c
  <2>3. AttachedInv'
    BY <1>1, <2>1, <2>2, UnattachedMove DEF OwnershipInv
  <2> QED
    BY <2>1, <2>2, <2>3, CommitOwnership
<1>5. CASE ReverseCommit(r)
  <2> DEFINE op == request[r]
             c == op.conversion
  <2>1. c \in Conversion /\ op # Idle /\ op.kind = "reverse" /\ op.commission # NULL
    BY <1>5, OperationOfKind DEF ReverseCommit, ReverseOp, Idle
  <2>2. /\ Finish(r)
        /\ UNCHANGED <<payout, failureReason, payoutId, tick>>
        /\ IF op.commission = "PAID"
           THEN UNCHANGED <<commission, amount>>
           ELSE /\ commission' = [commission EXCEPT ![c] = "CLAWED_BACK"]
                   \/ commission' = commission
                /\ amount' = [amount EXCEPT ![c] = op.remaining]
                   \/ amount' = amount
    BY <1>5, Zenon DEF ReverseCommit
  <2>3. commission[c] = op.commission /\ commission[c] # "INCLUDED_IN_PAYOUT"
    BY <2>1 DEF OwnershipInv, StillTrue
  <2> HIDE DEF c, op
  <2>4. AttachedInv'
    <3>1. CASE op.commission = "PAID"
      BY <2>2, <3>1, UnattachedMove DEF OwnershipInv
    <3>2. CASE op.commission # "PAID"
      <4>1. commission'[c] \notin {"INCLUDED_IN_PAYOUT", "PAID"}
        BY <1>1, <2>1, <2>2, <2>3, <3>2
      <4>2. \A d \in Conversion \ {c} :
               commission'[d] = commission[d] /\ amount'[d] = amount[d]
        BY <1>1, <2>2, <3>2
      <4>3. \A d \in Conversion :
               \/ commission'[d] = commission[d] /\ amount'[d] = amount[d]
               \/ {commission[d], commission'[d]}
                      \cap {"INCLUDED_IN_PAYOUT", "PAID"} = {}
        BY <2>3, <3>2, <4>1, <4>2
      <4> QED
        BY <2>2, <4>3, UnattachedMove DEF OwnershipInv
    <3> QED
      BY <3>1, <3>2
  <2>5. request[r] # Idle
    BY <2>1 DEF op
  <2> QED
    BY <2>2, <2>4, <2>5, CommitOwnership
<1> QED
  BY <1>2, <1>3, <1>4, <1>5

\* A new payout owns the commissions it claims, and no other payout did.
LEMMA CreationOwnership ==
    ASSUME MaxInFlight = 1, IsFiniteSet(Request), IsFiniteSet(Worker),
           TypeOK, OwnershipInv, NEW r \in Request, NEW p \in Payout,
           PayoutCommit(r, p)
    PROVE  OwnershipInv'
<1> DEFINE op == request[r]
           claimed == {i.conversion : i \in op.items}
<1>1. /\ op \in PayoutOp /\ op # Idle /\ Finish(r) /\ tick' = tick
      /\ payout[p].status = "NONE"
      /\ payout' = [payout EXCEPT ![p] =
            [status |-> "PENDING", affiliate |-> op.affiliate,
             items |-> op.items]]
      /\ commission' = [c \in Conversion |->
            IF c \in claimed THEN "INCLUDED_IN_PAYOUT" ELSE commission[c]]
      /\ payoutId' = [c \in Conversion |->
            IF c \in claimed THEN p ELSE payoutId[c]]
      /\ amount' = amount /\ failureReason' = failureReason
  BY OperationOfKind DEF PayoutCommit, Idle
<1>2. \A c \in claimed : commission[c] = "APPROVED"
  BY DEF PayoutCommit
<1>3. op.items \subseteq Item
  BY <1>1 DEF PayoutOp
<1>4. \A i \in op.items : amount[i.conversion] = i.amount
  BY <1>1 DEF OwnershipInv, StillTrue, PayoutOp
<1>5. claimed \subseteq Conversion
  BY <1>3 DEF Item
<1>6. op.items = {[conversion |-> c, amount |-> amount[c]] : c \in claimed}
  <2>1. \A i \in op.items : i = [conversion |-> i.conversion, amount |-> i.amount]
    BY <1>3 DEF Item
  <2> QED
    BY <1>4, <2>1
<1> HIDE DEF op, claimed
<1>7. /\ \A c \in Conversion :
          /\ payoutId[c] # NULL <=> commission[c] \in {"INCLUDED_IN_PAYOUT", "PAID"}
          /\ payoutId[c] # NULL => payout[payoutId[c]].status # "NONE"
      /\ PayoutOwnsItsItems
  BY DEF OwnershipInv, AttachedInv
<1>8. \A c \in Conversion : payoutId[c] \in Payout \cup {NULL}
  BY DEF TypeOK
<1>9. /\ payout'[p].items = op.items /\ payout'[p].status = "PENDING"
      /\ \A q \in Payout \ {p} : payout'[q] = payout[q]
  BY <1>1 DEF TypeOK
<1>10. PayoutOwnsItsItems'
  <2>1. {d \in Conversion : payoutId'[d] = p} = claimed
    BY <1>1, <1>5, <1>7
  <2>2. \A q \in Payout \ {p} :
           {d \in Conversion : payoutId'[d] = q} = {d \in Conversion : payoutId[d] = q}
    BY <1>1, <1>2, <1>5, <1>7
  <2>3. ASSUME NEW q \in Payout \ {p},
               payout'[q].status \in Open \cup {"PAID"}, q \notin failureReason'
        PROVE  payout'[q].items =
                   {[conversion |-> c, amount |-> amount'[c]] :
                       c \in {d \in Conversion : payoutId'[d] = q}}
    <3>1. payout[q].items =
              {[conversion |-> c, amount |-> amount[c]] :
                  c \in {d \in Conversion : payoutId[d] = q}}
      BY <1>1, <1>7, <1>9, <2>3 DEF PayoutOwnsItsItems
    <3>2. amount' = amount /\ payout'[q] = payout[q]
      BY <1>1, <1>9
    <3> DEFINE owned == {d \in Conversion : payoutId[d] = q}
               after == {d \in Conversion : payoutId'[d] = q}
    <3>3. after = owned /\ payout'[q].items = payout[q].items
      BY <2>2, <3>2
    <3>4. payout[q].items = {[conversion |-> c, amount |-> amount[c]] : c \in owned}
      BY <3>1
    <3> HIDE DEF owned, after
    <3>5. payout'[q].items = {[conversion |-> c, amount |-> amount'[c]] : c \in after}
      BY <3>2, <3>3, <3>4
    <3> QED
      BY <3>5 DEF after
  <2>4. payout'[p].items =
            {[conversion |-> c, amount |-> amount'[c]] :
                c \in {d \in Conversion : payoutId'[d] = p}}
    <3>1. amount' = amount /\ payout'[p].items = op.items
      BY <1>1, <1>9
    <3> QED
      BY <1>6, <2>1, <3>1, Zenon
  <2> QED
    BY <2>3, <2>4 DEF PayoutOwnsItsItems
<1>11. \A c \in Conversion :
         /\ payoutId'[c] # NULL <=> commission'[c] \in {"INCLUDED_IN_PAYOUT", "PAID"}
         /\ payoutId'[c] # NULL => payout'[payoutId'[c]].status # "NONE"
  <2> TAKE c \in Conversion
  <2>1. CASE c \in claimed
    BY <1>1, <1>9, <2>1
  <2>2. CASE c \notin claimed
    <3>1. payoutId'[c] = payoutId[c] /\ commission'[c] = commission[c]
      BY <1>1, <2>2
    <3>2. payoutId[c] # NULL => payout'[payoutId[c]].status # "NONE"
      BY <1>7, <1>8, <1>9
    <3> QED
      BY <1>7, <3>1, <3>2
  <2> QED
    BY <2>1, <2>2
<1>12. \A q \in Payout : payout'[q].status = "FAILED" => q \in failureReason'
  BY <1>1, <1>9 DEF OwnershipInv, AttachedInv
<1>13. AttachedInv'
  BY <1>10, <1>11, <1>12 DEF AttachedInv
<1> QED
  BY <1>1, <1>13, CommitOwnership DEF op

\* A transition settles or releases exactly what the payout owns.
LEMMA TransitionOwnership ==
    ASSUME MaxInFlight = 1, IsFiniteSet(Request), IsFiniteSet(Worker),
           TypeOK, OwnershipInv, NEW r \in Request, TransitionCommit(r)
    PROVE  OwnershipInv'
<1> DEFINE p == request[r].payout
           to == request[r].to
           included == {c \in Conversion : /\ payoutId[c] = p
                                           /\ commission[c] = "INCLUDED_IN_PAYOUT"}
<1>1. /\ p \in Payout /\ to \in PayoutStatus \ {"NONE", "PENDING"}
      /\ request[r] # Idle /\ request[r].kind = "transition"
      /\ Finish(r) /\ tick' = tick
      /\ payout' = [payout EXCEPT ![p].status = to]
      /\ failureReason' = IF to = "FAILED"
                          THEN failureReason \cup {p} ELSE failureReason
      /\ commission' = [c \in Conversion |->
            IF c \in included /\ settlesCommissions(to) THEN "PAID"
            ELSE IF c \in included /\ releasesCommissions(to) THEN "APPROVED"
            ELSE commission[c]]
      /\ payoutId' = [c \in Conversion |->
            IF c \in included /\ releasesCommissions(to) THEN NULL
            ELSE payoutId[c]]
      /\ amount' = amount
  BY OperationOfKind DEF TransitionCommit, TransitionOp, Idle
<1>2. canTransitionPayout(payout[p].status, to)
  BY <1>1 DEF OwnershipInv, StillTrue
<1> HIDE DEF p, to
<1>3. /\ \A c \in Conversion :
          /\ payoutId[c] # NULL <=> commission[c] \in {"INCLUDED_IN_PAYOUT", "PAID"}
          /\ payoutId[c] # NULL => payout[payoutId[c]].status # "NONE"
      /\ PayoutOwnsItsItems
      /\ \A q \in Payout : payout[q].status = "FAILED" => q \in failureReason
  BY DEF OwnershipInv, AttachedInv
<1>4. \A c \in Conversion : payoutId[c] \in Payout \cup {NULL}
  BY DEF TypeOK
<1>5. /\ payout'[p].items = payout[p].items /\ payout'[p].status = to
      /\ \A q \in Payout \ {p} : payout'[q] = payout[q]
  BY <1>1 DEF TypeOK, PayoutRow
<1>6. PayoutOwnsItsItems'
  <2>1. ASSUME NEW q \in Payout, payout'[q].status \in Open \cup {"PAID"},
               q \notin failureReason'
        PROVE  /\ payout[q].status \in Open \cup {"PAID"}
               /\ q \notin failureReason
               /\ payout'[q].items = payout[q].items
               /\ {d \in Conversion : payoutId'[d] = q} =
                      {d \in Conversion : payoutId[d] = q}
    <3>1. q \notin failureReason
      BY <1>1, <2>1
    <3>2. CASE q = p
      <4>1. to \in {"PROCESSING", "PAID"}
        BY <1>1, <1>5, <2>1, <3>2 DEF Open
      <4>2. payout[p].status \in Open
        BY <1>2, <1>3, <3>1, <3>2, <4>1 DEF canTransitionPayout, Open
      <4>3. payoutId' = [c \in Conversion |-> payoutId[c]]
        BY <1>1, <4>1 DEF releasesCommissions
      <4> QED
        BY <1>5, <3>1, <3>2, <4>2, <4>3
    <3>3. CASE q # p
      <4>1. NULL \notin Payout
        BY LedgerAssumption
      <4>2. \A d \in Conversion : payoutId'[d] = q <=> payoutId[d] = q
        BY <1>1, <3>3, <4>1
      <4> QED
        BY <1>5, <2>1, <3>1, <3>3, <4>2
    <3> QED
      BY <3>2, <3>3
  <2>2. ASSUME NEW q \in Payout, payout'[q].status \in Open \cup {"PAID"},
               q \notin failureReason'
        PROVE  payout'[q].items =
                   {[conversion |-> c, amount |-> amount'[c]] :
                       c \in {d \in Conversion : payoutId'[d] = q}}
    <3>1. payout[q].items =
              {[conversion |-> c, amount |-> amount[c]] :
                  c \in {d \in Conversion : payoutId[d] = q}}
      BY <1>3, <2>1, <2>2 DEF PayoutOwnsItsItems
    <3>2. amount' = amount
      BY <1>1
    <3> DEFINE owned == {d \in Conversion : payoutId[d] = q}
               after == {d \in Conversion : payoutId'[d] = q}
    <3>3. after = owned /\ payout'[q].items = payout[q].items
      BY <2>1, <2>2
    <3>4. payout[q].items = {[conversion |-> c, amount |-> amount[c]] : c \in owned}
      BY <3>1
    <3> HIDE DEF owned, after
    <3>5. payout'[q].items = {[conversion |-> c, amount |-> amount'[c]] : c \in after}
      BY <3>2, <3>3, <3>4
    <3> QED
      BY <3>5 DEF after
  <2> QED
    BY <2>2 DEF PayoutOwnsItsItems
<1>7. \A c \in Conversion :
         /\ payoutId'[c] # NULL <=> commission'[c] \in {"INCLUDED_IN_PAYOUT", "PAID"}
         /\ payoutId'[c] # NULL => payout'[payoutId'[c]].status # "NONE"
  <2> TAKE c \in Conversion
  <2>1. ~(settlesCommissions(to) /\ releasesCommissions(to))
    BY DEF settlesCommissions, releasesCommissions
  <2>2. payoutId'[c] # NULL <=> commission'[c] \in {"INCLUDED_IN_PAYOUT", "PAID"}
    BY <1>1, <1>3, <2>1
  <2>3. payoutId'[c] # NULL => payoutId'[c] = payoutId[c]
    BY <1>1
  <2>4. payoutId[c] # NULL => payout'[payoutId[c]].status # "NONE"
    BY <1>1, <1>3, <1>4, <1>5
  <2> QED
    BY <2>2, <2>3, <2>4
<1>8. \A q \in Payout : payout'[q].status = "FAILED" => q \in failureReason'
  BY <1>1, <1>3, <1>5
<1>9. AttachedInv'
  BY <1>6, <1>7, <1>8 DEF AttachedInv
<1> QED
  BY <1>1, <1>9, CommitOwnership

\* A tick that is alone promotes commissions that are still locked.
LEMMA TickOwnership ==
    ASSUME MaxInFlight = 1, IsFiniteSet(Request), IsFiniteSet(Worker),
           TypeOK, OwnershipInv, NEW w \in Worker, TickStep(w)
    PROVE  OwnershipInv'
<1> USE DEF commissionVars, payoutVars
<1>1. tick \in [Worker -> Tick]
  BY DEF TypeOK
<1>2. /\ \A r \in Request : request[r] = Idle
      /\ \A v \in Worker \ {w} : tick[v].step = "idle"
  <2>1. tick[w].step # "idle" \/ InFlight < MaxInFlight
    BY DEF TickStep, TickSelect, TickFilter, TickPromote, TickFails
  <2>2. CASE tick[w].step # "idle"
    BY <2>2 DEF OwnershipInv, AloneInProgress
  <2>3. CASE InFlight < MaxInFlight
    BY <2>3, NothingInProgress
  <2> QED
    BY <2>1, <2>2, <2>3
<1>3. request' = request
  BY DEF TickStep, TickSelect, TickFilter, TickPromote, TickFails
<1>4. PICK t : tick' = [tick EXCEPT ![w] = t]
  BY DEF TickStep, TickSelect, TickFilter, TickPromote, TickFails
<1>5. AloneInProgress'
  BY <1>1, <1>2, <1>3, <1>4 DEF AloneInProgress
<1>6. \A r \in Request : StillTrue(request[r])'
  BY <1>2, <1>3 DEF StillTrue, Idle
<1>7. \A v \in Worker \ {w} : tick'[v] = tick[v] /\ tick[v].batch = {}
  <2>1. \A v \in Worker \ {w} : tick[v].batch = {}
    BY <1>2 DEF OwnershipInv
  <2> QED
    BY <1>1, <1>4, <2>1
<1>8. /\ \A c \in tick'[w].batch :
            tick'[w].step # "idle" /\ commission'[c] = "LOCKED"
      /\ AttachedInv'
  <2>1. ASSUME NEW S \in SUBSET ExpiredLocks, TickSelect(w, S)
        PROVE  /\ \A c \in tick'[w].batch :
                     tick'[w].step # "idle" /\ commission'[c] = "LOCKED"
               /\ AttachedInv'
    <3>1. /\ tick'[w] = [step |-> "selected", batch |-> S] /\ OwnershipFrame
      BY <1>1, <2>1 DEF TickSelect, OwnershipFrame
    <3>2. \A c \in S : commission[c] = "LOCKED"
      BY DEF ExpiredLocks
    <3> QED
      BY <3>1, <3>2, FrameAttached DEF OwnershipInv, OwnershipFrame
  <2>2. CASE TickFilter(w)
    <3> DEFINE toApprove == {c \in tick[w].batch : conversion[c] = "APPROVED"}
    <3>1. /\ tick'[w] = [step |-> IF toApprove = {} THEN "idle" ELSE "filtered",
                         batch |-> toApprove]
          /\ OwnershipFrame
      BY <1>1, <2>2 DEF TickFilter, OwnershipFrame
    <3>2. \A c \in toApprove : commission[c] = "LOCKED"
      BY DEF OwnershipInv
    <3> HIDE DEF toApprove
    <3> QED
      BY <3>1, <3>2, FrameAttached DEF OwnershipInv, OwnershipFrame
  <2>3. CASE TickPromote(w)
    <3>1. /\ tick'[w].batch = {}
          /\ commission' = [c \in Conversion |->
                IF c \in tick[w].batch THEN "APPROVED" ELSE commission[c]]
          /\ UNCHANGED <<payout, failureReason, payoutId, amount>>
      BY <1>1, <2>3 DEF TickPromote
    <3>2. \A c \in tick[w].batch : commission[c] = "LOCKED"
      BY DEF OwnershipInv
    <3>3. AttachedInv'
      BY <3>1, <3>2, UnattachedMove DEF OwnershipInv
    <3> QED
      BY <3>1, <3>3
  <2>4. CASE TickFails(w)
    <3>1. tick'[w].batch = {} /\ OwnershipFrame
      BY <1>1, <2>4 DEF TickFails, OwnershipFrame
    <3> QED
      BY <3>1, FrameAttached DEF OwnershipInv
  <2> QED
    BY <2>1, <2>2, <2>3, <2>4 DEF TickStep
<1>9. \A v \in Worker : \A c \in tick'[v].batch :
         tick'[v].step # "idle" /\ commission'[c] = "LOCKED"
  BY <1>7, <1>8
<1> QED
  BY <1>5, <1>6, <1>8, <1>9 DEF OwnershipInv

LEMMA InitOwnership == Init => OwnershipInv
<1> SUFFICES ASSUME Init PROVE OwnershipInv
  OBVIOUS
<1>1. PayoutOwnsItsItems
  BY DEF Init, PayoutOwnsItsItems, Open
<1>2. AttachedInv
  BY <1>1 DEF Init, AttachedInv
<1>3. AloneInProgress /\ \A r \in Request : StillTrue(request[r])
  BY DEF Init, AloneInProgress, StillTrue, Idle
<1>4. \A w \in Worker : tick[w].batch = {}
  BY DEF Init
<1> QED
  BY <1>2, <1>3, <1>4 DEF OwnershipInv

LEMMA StepOwnership ==
    ASSUME MaxInFlight = 1, IsFiniteSet(Request), IsFiniteSet(Worker),
           TypeOK, VettingInv, OwnershipInv, [Next]_vars
    PROVE  OwnershipInv'
<1>1. ASSUME OwnershipFrame, UNCHANGED <<request, tick>> PROVE OwnershipInv'
  <2>1. AttachedInv'
    BY <1>1, FrameAttached DEF OwnershipInv
  <2>2. AloneInProgress'
    BY <1>1 DEF OwnershipInv, AloneInProgress
  <2>3. \A r \in Request : StillTrue(request[r])'
    BY <1>1 DEF OwnershipInv, StillTrue, OwnershipFrame
  <2>4. \A w \in Worker : \A c \in tick'[w].batch :
           tick'[w].step # "idle" /\ commission'[c] = "LOCKED"
    BY <1>1 DEF OwnershipInv, OwnershipFrame
  <2> QED
    BY <2>1, <2>2, <2>3, <2>4 DEF OwnershipInv
<1>2. ASSUME NEW r \in Request, RequestStep(r) PROVE OwnershipInv'
  <2>1. CASE \/ Abandon(r)
             \/ \E d \in FraudScores : Evaluate(r, d)
             \/ \E c \in Conversion, d \in {"APPROVED", "REJECTED"} : ReviewRead(r, c, d)
             \/ \E c \in Conversion, d \in {"CLEARED", "FLAGGED"} : DecideOnly(r, c, d)
             \/ \E c \in Conversion : DecideBlocked(r, c)
             \/ \E c \in Conversion : \E n \in 1..earned[c] : ReverseRead(r, c, n)
             \/ ReverseReadCommission(r)
             \/ \E a \in Affiliate : PayoutRequest(r, a)
             \/ PayoutReadBalance(r)
             \/ \E p \in Payout, to \in PayoutStatus : TransitionRead(r, p, to)
    BY <2>1, ReadingSteps
  <2>2. CASE \/ \E c \in Conversion, a \in Amounts : Report(r, c, a)
             \/ ReviewCommit(r)
             \/ Block(r)
             \/ ReverseCommit(r)
    BY <2>2, WritingSteps
  <2>3. CASE \/ \E p \in Payout : PayoutCommit(r, p)
             \/ TransitionCommit(r)
    BY <2>3, CreationOwnership, TransitionOwnership
  <2> QED
    BY <1>2, <2>1, <2>2, <2>3 DEF RequestStep
<1>3. ASSUME NEW w \in Worker, TickStep(w) PROVE OwnershipInv'
  BY <1>3, TickOwnership
<1>4. ASSUME NEW c \in Conversion, LockExpires(c) PROVE OwnershipInv'
  BY <1>1, <1>4 DEF LockExpires, OwnershipFrame, commissionVars, payoutVars
<1>5. CASE UNCHANGED vars
  BY <1>1, <1>5 DEF vars, OwnershipFrame, commissionVars, payoutVars
<1> QED
  BY <1>2, <1>3, <1>4, <1>5 DEF Next

\* Served one request at a time, a payout that has not failed or been
\* cancelled lists exactly the commissions attached to it, at the amounts they
\* have: what is paid out is what the affiliate is shown.
THEOREM PayoutOwnsItems ==
    ASSUME MaxInFlight = 1, IsFiniteSet(Request), IsFiniteSet(Worker)
    PROVE  Spec => []PayoutOwnsItsItems
<1>1. Init => OwnershipInv
  BY InitOwnership
<1>2. TypeOK /\ VettingInv /\ OwnershipInv /\ [Next]_vars => OwnershipInv'
  BY StepOwnership
<1>3. OwnershipInv => PayoutOwnsItsItems
  BY DEF OwnershipInv, AttachedInv
<1> QED
  BY <1>1, <1>2, <1>3, VettingInvariant, PTL DEF Spec

-----------------------------------------------------------------------------
\* The refinement of CommissionLifecycle, while requests do not overlap.

\* A step that reads keeps what commissions wait for.
LEMMA ReadEarned ==
    ASSUME TypeOK, EarnedInv, NEW r \in Request, NEW op,
           UNCHANGED <<conversion, commission>>,
           request' = [request EXCEPT ![r] = op], UpToDate(op)
    PROVE  EarnedInv'
<1>1. EarnedWaits'
  BY DEF EarnedInv, EarnedWaits
<1>2. ASSUME NEW q \in Request PROVE UpToDate(request[q])'
  <2>1. request'[q] = IF q = r THEN op ELSE request[q]
    BY DEF TypeOK
  <2>2. UpToDate(request'[q])
    BY <2>1 DEF EarnedInv
  <2> QED
    BY <2>2 DEF UpToDate
<1> QED
  BY <1>1, <1>2 DEF EarnedInv

\* A step after which nothing has read anything need only answer for the rows.
LEMMA WriteEarned ==
    ASSUME EarnedWaits', NEW r \in Request,
           \A q \in Request \ {r} : request'[q] = Idle,
           request'[r].kind \notin {"request", "reverse"}
    PROVE  EarnedInv'
<1>1. \A q \in Request : request'[q].kind \notin {"request", "reverse"}
  BY DEF Idle
<1> QED
  BY <1>1 DEF EarnedInv, UpToDate

LEMMA CommitEarned ==
    ASSUME MaxInFlight = 1, IsFiniteSet(Request), IsFiniteSet(Worker),
           TypeOK, OwnershipInv, NEW r \in Request,
           request[r] # Idle, Finish(r), EarnedWaits'
    PROVE  EarnedInv'
<1>1. \A q \in Request \ {r} : request[q] = Idle
  BY RequestIsAlone DEF OwnershipInv
<1>2. /\ \A q \in Request \ {r} : request'[q] = Idle
      /\ request'[r] = Idle
  BY <1>1 DEF TypeOK, Finish
<1> QED
  BY <1>2, WriteEarned DEF Idle

LEMMA ReadingEarned ==
    ASSUME TypeOK, OwnershipInv, EarnedInv, NEW r \in Request,
           \/ Abandon(r)
           \/ \E d \in FraudScores : Evaluate(r, d)
           \/ \E c \in Conversion, d \in {"APPROVED", "REJECTED"} : ReviewRead(r, c, d)
           \/ \E c \in Conversion, d \in {"CLEARED", "FLAGGED"} : DecideOnly(r, c, d)
           \/ \E c \in Conversion : DecideBlocked(r, c)
           \/ \E c \in Conversion : \E n \in 1..earned[c] : ReverseRead(r, c, n)
           \/ ReverseReadCommission(r)
           \/ \E a \in Affiliate : PayoutRequest(r, a)
           \/ PayoutReadBalance(r)
           \/ \E p \in Payout, to \in PayoutStatus : TransitionRead(r, p, to)
    PROVE  EarnedInv'
<1> USE DEF commissionVars, conversionVars
<1>1. UpToDate(Idle)
  BY DEF UpToDate, Idle
<1>2. CASE \/ Abandon(r)
           \/ \E d \in FraudScores : Evaluate(r, d)
           \/ \E c \in Conversion, d \in {"CLEARED", "FLAGGED"} : DecideOnly(r, c, d)
  <2>1. request' = [request EXCEPT ![r] = Idle] /\ UNCHANGED <<conversion, commission>>
    BY <1>2 DEF Abandon, Evaluate, DecideOnly, Begin, Finish
  <2> QED
    BY <1>1, <2>1, ReadEarned
<1>3. ASSUME NEW op, op.kind \notin {"request", "reverse"},
             request' = [request EXCEPT ![r] = op],
             UNCHANGED <<conversion, commission>>
      PROVE  EarnedInv'
  <2>1. UpToDate(op)
    BY <1>3 DEF UpToDate
  <2> QED
    BY <1>3, <2>1, ReadEarned
<1>4. ASSUME NEW c \in Conversion, NEW d \in {"APPROVED", "REJECTED"},
             ReviewRead(r, c, d)
      PROVE  EarnedInv'
  BY <1>3, <1>4 DEF ReviewRead, Begin
<1>5. ASSUME NEW c \in Conversion, DecideBlocked(r, c) PROVE EarnedInv'
  BY <1>3, <1>5 DEF DecideBlocked, Begin
<1>6. ASSUME NEW p \in Payout, NEW to \in PayoutStatus, TransitionRead(r, p, to)
      PROVE  EarnedInv'
  BY <1>3, <1>6 DEF TransitionRead, Begin
<1>7. ASSUME NEW c \in Conversion, NEW n \in 1..earned[c], ReverseRead(r, c, n)
      PROVE  EarnedInv'
  <2> DEFINE op == [kind |-> "reverse", conversion |-> c,
                    remaining |-> value[c] - n, clawback |-> n,
                    commission |-> NULL]
  <2>1. /\ request' = [request EXCEPT ![r] = op] /\ conversion[c] = "APPROVED"
        /\ UNCHANGED <<conversion, commission>>
    BY <1>7 DEF ReverseRead, Begin
  <2>2. UpToDate(op)
    BY <2>1 DEF UpToDate
  <2> HIDE DEF op
  <2> QED
    BY <2>1, <2>2, ReadEarned
<1>8. CASE ReverseReadCommission(r)
  <2> DEFINE op == [request[r] EXCEPT !.commission = commission[request[r].conversion]]
  <2>1. /\ request[r] \in ReverseOp /\ request[r].kind = "reverse"
        /\ UNCHANGED <<conversion, commission>>
        /\ \/ request' = [request EXCEPT ![r] = Idle]
           \/ request' = [request EXCEPT ![r] = op]
    BY <1>8, OperationOfKind DEF ReverseReadCommission, Finish
  <2>2. op.kind = "reverse" /\ op.conversion = request[r].conversion
    BY <2>1 DEF ReverseOp
  <2>3. UpToDate(op)
    <3>1. conversion[request[r].conversion] = "APPROVED"
      BY <2>1 DEF EarnedInv, UpToDate
    <3> HIDE DEF op
    <3> QED
      BY <2>2, <3>1 DEF UpToDate
  <2> HIDE DEF op
  <2> QED
    BY <1>1, <2>1, <2>3, ReadEarned
<1>9. ASSUME NEW a \in Affiliate, PayoutRequest(r, a) PROVE EarnedInv'
  <2> DEFINE op == [kind |-> "request", affiliate |-> a, items |-> {},
                    adjustments |-> {}]
  <2>1. request' = [request EXCEPT ![r] = op] /\ UNCHANGED <<conversion, commission>>
    BY <1>9 DEF PayoutRequest, Begin
  <2>2. UpToDate(op)
    BY DEF UpToDate
  <2> HIDE DEF op
  <2> QED
    BY <2>1, <2>2, ReadEarned
<1>10. CASE PayoutReadBalance(r)
  <2> DEFINE a == request[r].affiliate
             approved == {c \in Conversion : /\ AffiliateOf[c] = a
                                             /\ commission[c] = "APPROVED"}
             items == {[conversion |-> c, amount |-> amount[c]] : c \in approved}
             op == [kind |-> "request", affiliate |-> a, items |-> items,
                    adjustments |-> Unsettled(a)]
  <2>1. /\ UNCHANGED <<conversion, commission>>
        /\ \/ request' = [request EXCEPT ![r] = Idle]
           \/ request' = [request EXCEPT ![r] = op]
    BY <1>10 DEF PayoutReadBalance, Finish
  <2>2. UpToDate(op)
    <3>1. op.kind = "request" /\ op.items = items /\ op.affiliate = a
      OBVIOUS
    <3>2. \A c \in Conversion : AffiliateOf[c] = a /\ commission[c] = "APPROVED"
             => \E i \in items : i.conversion = c
      <4> SUFFICES ASSUME NEW c \in Conversion, AffiliateOf[c] = a,
                          commission[c] = "APPROVED"
                   PROVE  \E i \in items : i.conversion = c
        OBVIOUS
      <4>1. [conversion |-> c, amount |-> amount[c]] \in items
        OBVIOUS
      <4> QED
        BY <4>1
    <3> HIDE DEF op, items, approved
    <3> QED
      BY <3>1, <3>2 DEF UpToDate
  <2> HIDE DEF op
  <2> QED
    BY <1>1, <2>1, <2>2, ReadEarned
<1> QED
  BY <1>2, <1>4, <1>5, <1>6, <1>7, <1>8, <1>9, <1>10

LEMMA WritingEarned ==
    ASSUME MaxInFlight = 1, IsFiniteSet(Request), IsFiniteSet(Worker),
           TypeOK, VettingInv, OwnershipInv, EarnedInv, NEW r \in Request,
           \/ \E c \in Conversion, a \in Amounts : Report(r, c, a)
           \/ ReviewCommit(r)
           \/ Block(r)
           \/ ReverseCommit(r)
           \/ \E p \in Payout : PayoutCommit(r, p)
           \/ TransitionCommit(r)
    PROVE  EarnedInv'
<1>1. /\ commission \in [Conversion -> CommissionStatus]
      /\ conversion \in [Conversion -> ConversionStatus]
      /\ request \in [Request -> Operation] /\ EarnedWaits
  BY DEF TypeOK, EarnedInv
<1>2. ASSUME NEW c \in Conversion, NEW a \in Amounts, Report(r, c, a)
      PROVE  EarnedInv'
  <2>1. /\ conversion' = [conversion EXCEPT ![c] = "PENDING"]
        /\ commission' = [commission EXCEPT ![c] = "LOCKED"]
        /\ request' = [request EXCEPT ![r] = [kind |-> "report", conversion |-> c]]
        /\ InFlight < MaxInFlight
    BY <1>2 DEF Report, Begin
  <2>2. EarnedWaits'
    BY <1>1, <2>1 DEF EarnedWaits
  <2>3. \A q \in Request \ {r} : request[q] = Idle
    BY <2>1, RequestIsAlone DEF OwnershipInv
  <2>4. /\ \A q \in Request \ {r} : request'[q] = Idle
        /\ request'[r].kind = "report"
    BY <1>1, <2>1, <2>3
  <2> QED
    BY <2>2, <2>4, WriteEarned
<1>3. CASE ReviewCommit(r)
  <2> DEFINE c == request[r].conversion
             d == request[r].decision
  <2>1. c \in Conversion /\ d \in {"APPROVED", "REJECTED"} /\ request[r] # Idle
    BY <1>3, OperationOfKind DEF ReviewCommit, ReviewOp, Idle
  <2>2. /\ conversion[c] = "PENDING" /\ Finish(r)
        /\ conversion' = [conversion EXCEPT ![c] = d]
        /\ commission' = commission \/ commission' = [commission EXCEPT ![c] = d]
    BY <1>3 DEF ReviewCommit
  <2> HIDE DEF c, d
  <2>3. EarnedWaits'
    BY <1>1, <2>1, <2>2 DEF EarnedWaits
  <2> QED
    BY <2>1, <2>2, <2>3, CommitEarned
<1>4. CASE Block(r)
  <2> DEFINE c == request[r].conversion
  <2>1. c \in Conversion /\ request[r] # Idle
    BY <1>4, OperationOfKind DEF Block, BlockOp, Idle
  <2>2. /\ Finish(r) /\ conversion' = [conversion EXCEPT ![c] = "REJECTED"]
        /\ commission' = [commission EXCEPT ![c] =
                             IF @ = "LOCKED" THEN "CLAWED_BACK" ELSE @]
    BY <1>4 DEF Block
  <2> HIDE DEF c
  <2>3. EarnedWaits'
    BY <1>1, <2>1, <2>2 DEF EarnedWaits
  <2> QED
    BY <2>1, <2>2, <2>3, CommitEarned
<1>5. CASE ReverseCommit(r)
  <2> DEFINE c == request[r].conversion
             full == request[r].remaining = 0
  <2>1. c \in Conversion /\ request[r] # Idle /\ request[r].kind = "reverse"
    BY <1>5, OperationOfKind DEF ReverseCommit, ReverseOp, Idle
  <2>2. /\ Finish(r)
        /\ conversion' = IF full THEN [conversion EXCEPT ![c] = "REJECTED"]
                         ELSE conversion
        /\ \/ commission' = commission
           \/ full /\ commission' = [commission EXCEPT ![c] = "CLAWED_BACK"]
    BY <1>5, Zenon DEF ReverseCommit
  <2> HIDE DEF c, full
  <2>3. EarnedWaits'
    <3>1. CASE full
      BY <1>1, <2>1, <2>2, <3>1 DEF EarnedWaits
    <3>2. CASE ~full
      BY <1>1, <2>2, <3>2 DEF EarnedWaits
    <3> QED
      BY <3>1, <3>2
  <2> QED
    BY <2>1, <2>2, <2>3, CommitEarned
<1>6. ASSUME NEW p \in Payout, PayoutCommit(r, p) PROVE EarnedInv'
  <2>1. /\ request[r] # Idle /\ Finish(r) /\ conversion' = conversion
        /\ \A c \in Conversion :
               \/ commission'[c] = commission[c]
               \/ /\ commission[c] = "APPROVED"
                  /\ commission'[c] = "INCLUDED_IN_PAYOUT"
    BY <1>6 DEF PayoutCommit, Idle, conversionVars
  <2>2. EarnedWaits'
    BY <1>1, <2>1 DEF EarnedWaits
  <2> QED
    BY <2>1, <2>2, CommitEarned
<1>7. CASE TransitionCommit(r)
  <2>1. /\ request[r] # Idle /\ Finish(r) /\ conversion' = conversion
        /\ \A c \in Conversion :
               \/ commission'[c] = commission[c]
               \/ /\ commission[c] = "INCLUDED_IN_PAYOUT"
                  /\ commission'[c] \in {"PAID", "APPROVED"}
    BY <1>7 DEF TransitionCommit, Idle, conversionVars
  <2>2. EarnedWaits'
    BY <1>1, <2>1 DEF EarnedWaits
  <2> QED
    BY <2>1, <2>2, CommitEarned
<1> QED
  BY <1>2, <1>3, <1>4, <1>5, <1>6, <1>7

LEMMA InitEarned == Init => EarnedInv
BY DEF Init, EarnedInv, EarnedWaits, UpToDate, Idle

LEMMA TickEarned ==
    ASSUME MaxInFlight = 1, IsFiniteSet(Request), IsFiniteSet(Worker),
           TypeOK, VettingInv, OwnershipInv, EarnedInv, NEW w \in Worker,
           TickStep(w)
    PROVE  EarnedInv'
<1> USE DEF conversionVars, commissionVars
<1>1. request' = request /\ conversion' = conversion
  BY DEF TickStep, TickSelect, TickFilter, TickPromote, TickFails
<1>2. CASE TickPromote(w)
  <2>1. /\ tick[w].step = "filtered"
        /\ commission' = [c \in Conversion |->
              IF c \in tick[w].batch THEN "APPROVED" ELSE commission[c]]
    BY <1>2 DEF TickPromote
  <2>2. \A r \in Request : request'[r] = Idle
    BY <1>1, <2>1 DEF OwnershipInv, AloneInProgress
  <2>3. \A c \in tick[w].batch : c \in Conversion => conversion[c] \notin {"NONE", "PENDING"}
    BY <2>1 DEF VettingInv
  <2>4. EarnedWaits'
    BY <1>1, <2>1, <2>3 DEF EarnedInv, EarnedWaits
  <2> QED
    BY <2>2, <2>4 DEF EarnedInv, UpToDate, Idle
<1>3. CASE ~TickPromote(w)
  <2>1. commission' = commission
    BY <1>3 DEF TickStep, TickSelect, TickFilter, TickFails
  <2> QED
    BY <1>1, <2>1 DEF EarnedInv, EarnedWaits, UpToDate
<1> QED
  BY <1>2, <1>3

LEMMA StepEarned ==
    ASSUME MaxInFlight = 1, IsFiniteSet(Request), IsFiniteSet(Worker),
           TypeOK, VettingInv, OwnershipInv, EarnedInv, [Next]_vars
    PROVE  EarnedInv'
<1>1. ASSUME UNCHANGED <<conversion, commission, request>> PROVE EarnedInv'
  BY <1>1 DEF EarnedInv, EarnedWaits, UpToDate
<1>2. ASSUME NEW r \in Request, RequestStep(r) PROVE EarnedInv'
  <2>1. CASE \/ Abandon(r)
             \/ \E d \in FraudScores : Evaluate(r, d)
             \/ \E c \in Conversion, d \in {"APPROVED", "REJECTED"} : ReviewRead(r, c, d)
             \/ \E c \in Conversion, d \in {"CLEARED", "FLAGGED"} : DecideOnly(r, c, d)
             \/ \E c \in Conversion : DecideBlocked(r, c)
             \/ \E c \in Conversion : \E n \in 1..earned[c] : ReverseRead(r, c, n)
             \/ ReverseReadCommission(r)
             \/ \E a \in Affiliate : PayoutRequest(r, a)
             \/ PayoutReadBalance(r)
             \/ \E p \in Payout, to \in PayoutStatus : TransitionRead(r, p, to)
    BY <2>1, ReadingEarned
  <2>2. CASE \/ \E c \in Conversion, a \in Amounts : Report(r, c, a)
             \/ ReviewCommit(r)
             \/ Block(r)
             \/ ReverseCommit(r)
             \/ \E p \in Payout : PayoutCommit(r, p)
             \/ TransitionCommit(r)
    BY <2>2, WritingEarned
  <2> QED
    BY <1>2, <2>1, <2>2, Zenon DEF RequestStep
<1>3. ASSUME NEW w \in Worker, TickStep(w) PROVE EarnedInv'
  BY <1>3, TickEarned
<1>4. ASSUME NEW c \in Conversion, LockExpires(c) PROVE EarnedInv'
  BY <1>1, <1>4 DEF LockExpires, commissionVars, conversionVars
<1>5. CASE UNCHANGED vars
  BY <1>1, <1>5 DEF vars, commissionVars, conversionVars
<1> QED
  BY <1>2, <1>3, <1>4, <1>5 DEF Next

-----------------------------------------------------------------------------
\* Every step is one of CommissionLifecycle's, or none of its business.
SerialInv == TypeOK /\ VettingInv /\ PayoutInv /\ OwnershipInv /\ EarnedInv

LEMMA Stutters ==
    ASSUME UNCHANGED <<commission, payoutId, payout>>
    PROVE  UNCHANGED Lifecycle!vars
BY DEF Lifecycle!vars

\* The commission of c moves, and nothing else does.
LEMMA OneMoves ==
    ASSUME TypeOK, NEW c \in Conversion, NEW s,
           commission' = [commission EXCEPT ![c] = s],
           UNCHANGED <<payoutId, payout>>
    PROVE  /\ Lifecycle!Move({c}, s)
           /\ UNCHANGED <<payoutId, {p \in Payout : payout[p].status # "NONE"}>>
BY DEF TypeOK, Lifecycle!Move

LEMMA ReadingStutters ==
    ASSUME NEW r \in Request,
           \/ Abandon(r)
           \/ \E d \in FraudScores : Evaluate(r, d)
           \/ \E c \in Conversion, d \in {"APPROVED", "REJECTED"} : ReviewRead(r, c, d)
           \/ \E c \in Conversion, d \in {"CLEARED", "FLAGGED"} : DecideOnly(r, c, d)
           \/ \E c \in Conversion : DecideBlocked(r, c)
           \/ \E c \in Conversion : \E n \in 1..earned[c] : ReverseRead(r, c, n)
           \/ ReverseReadCommission(r)
           \/ \E a \in Affiliate : PayoutRequest(r, a)
           \/ PayoutReadBalance(r)
           \/ \E p \in Payout, to \in PayoutStatus : TransitionRead(r, p, to)
    PROVE  UNCHANGED Lifecycle!vars
<1>1. UNCHANGED <<commission, payoutId, payout>>
  BY DEF Abandon, Evaluate, ReviewRead, DecideOnly, DecideBlocked, ReverseRead,
         ReverseReadCommission, PayoutRequest, PayoutReadBalance, TransitionRead,
         commissionVars, payoutVars
<1> QED
  BY <1>1, Stutters

LEMMA ConversionMoves ==
    ASSUME SerialInv, NEW r \in Request,
           \/ \E c \in Conversion, a \in Amounts : Report(r, c, a)
           \/ ReviewCommit(r)
           \/ Block(r)
           \/ ReverseCommit(r)
    PROVE  [Lifecycle!Next]_(Lifecycle!vars)
<1> USE DEF SerialInv
<1>0. UNCHANGED <<payoutId, payout>>
  BY DEF Report, ReviewCommit, Block, ReverseCommit, payoutVars
<1>1. ASSUME commission' = commission PROVE [Lifecycle!Next]_(Lifecycle!vars)
  BY <1>0, <1>1, Stutters
<1>2. ASSUME NEW c \in Conversion, NEW s,
             commission' = [commission EXCEPT ![c] = s],
             \/ s = "LOCKED" /\ commission[c] = "NONE"
             \/ s \in {"APPROVED", "REJECTED"} /\ commission[c] = "LOCKED"
             \/ s = "CLAWED_BACK" /\ commission[c] \in {"LOCKED", "APPROVED"}
      PROVE  Lifecycle!Next
  <2>1. /\ Lifecycle!Move({c}, s)
        /\ UNCHANGED <<payoutId, {p \in Payout : payout[p].status # "NONE"}>>
    BY <1>0, <1>2, OneMoves
  <2>2. CASE s = "LOCKED" /\ commission[c] = "NONE"
    BY <2>1, <2>2, Zenon DEF Lifecycle!Next, Lifecycle!Earn
  <2>3. CASE s = "REJECTED" /\ commission[c] = "LOCKED"
    BY <2>1, <2>3, Zenon DEF Lifecycle!Next, Lifecycle!Reject
  <2>4. CASE s = "APPROVED" /\ commission[c] = "LOCKED"
    <3>1. Lifecycle!Unlock({c})
      BY <2>1, <2>4 DEF Lifecycle!Unlock
    <3> QED
      BY <3>1, Zenon DEF Lifecycle!Next
  <2>5. CASE s = "CLAWED_BACK" /\ commission[c] \in {"LOCKED", "APPROVED"}
    BY <2>1, <2>5, Zenon DEF Lifecycle!Next, Lifecycle!ClawBack
  <2> QED
    BY <1>2, <2>2, <2>3, <2>4, <2>5
<1>3. ASSUME NEW c \in Conversion, NEW a \in Amounts, Report(r, c, a)
      PROVE  Lifecycle!Next
  BY <1>2, <1>3 DEF Report, EarnedInv, EarnedWaits
<1>4. CASE ReviewCommit(r)
  <2> DEFINE c == request[r].conversion
             d == request[r].decision
  <2>1. c \in Conversion /\ d \in {"APPROVED", "REJECTED"}
    BY <1>4, OperationOfKind DEF ReviewCommit, ReviewOp
  <2>2. /\ conversion[c] = "PENDING"
        /\ commission' = commission \/ commission' = [commission EXCEPT ![c] = d]
    BY <1>4 DEF ReviewCommit
  <2>3. commission[c] = "LOCKED"
    BY <2>1, <2>2 DEF EarnedInv, EarnedWaits
  <2> QED
    BY <1>1, <1>2, <2>1, <2>2, <2>3
<1>5. CASE Block(r)
  <2> DEFINE c == request[r].conversion
  <2>1. c \in Conversion
    BY <1>5, OperationOfKind DEF Block, BlockOp
  <2>2. commission' = [commission EXCEPT ![c] =
                          IF @ = "LOCKED" THEN "CLAWED_BACK" ELSE @]
    BY <1>5 DEF Block
  <2>3. CASE commission[c] = "LOCKED"
    BY <1>2, <2>1, <2>2, <2>3
  <2>4. CASE commission[c] # "LOCKED"
    BY <1>1, <2>2, <2>4 DEF TypeOK
  <2> QED
    BY <2>3, <2>4
<1>6. CASE ReverseCommit(r)
  <2> DEFINE op == request[r]
             c == op.conversion
  <2>1. c \in Conversion /\ op.kind = "reverse"
    BY <1>6, OperationOfKind DEF ReverseCommit, ReverseOp
  <2>2. /\ op.commission # NULL
        /\ \/ commission' = commission
           \/ /\ op.commission # "PAID"
              /\ commission' = [commission EXCEPT ![c] = "CLAWED_BACK"]
    BY <1>6, Zenon DEF ReverseCommit
  <2>3. /\ commission[c] = op.commission /\ op.commission # "INCLUDED_IN_PAYOUT"
        /\ conversion[c] = "APPROVED"
    BY <2>1, <2>2 DEF OwnershipInv, StillTrue, EarnedInv, UpToDate
  <2>4. commission[c] \in {"LOCKED", "APPROVED", "PAID"}
    BY <2>1, <2>3 DEF EarnedInv, EarnedWaits
  <2> QED
    BY <1>1, <1>2, <2>1, <2>2, <2>3, <2>4
<1> QED
  BY <1>3, <1>4, <1>5, <1>6

\* A payout takes what its request has read, which is all its affiliate is owed.
LEMMA CreationMoves ==
    ASSUME SerialInv, NEW r \in Request, NEW p \in Payout, PayoutCommit(r, p)
    PROVE  Lifecycle!Next
<1> USE DEF SerialInv
<1> DEFINE op == request[r]
           claimed == {i.conversion : i \in op.items}
<1>1. /\ op.kind = "request" /\ op.items # {}
      /\ \A c \in claimed : commission[c] = "APPROVED"
      /\ payout[p].status = "NONE"
      /\ payout' = [payout EXCEPT ![p] = [status |-> "PENDING", affiliate |-> op.affiliate,
                                          items |-> op.items]]
      /\ commission' = [c \in Conversion |->
            IF c \in claimed THEN "INCLUDED_IN_PAYOUT" ELSE commission[c]]
      /\ payoutId' = [c \in Conversion |-> IF c \in claimed THEN p ELSE payoutId[c]]
  BY DEF PayoutCommit
<1>2. op.affiliate \in Affiliate /\ op.items \subseteq Item
  BY <1>1, OperationOfKind DEF PayoutOp
<1>. PICK a \in Affiliate : op.affiliate = a
  BY <1>2
<1>. DEFINE owed == {c \in Conversion : AffiliateOf[c] = a /\ commission[c] = "APPROVED"}
<1>3. claimed = owed /\ owed # {}
  <2>1. claimed \subseteq Conversion /\ claimed # {}
    BY <1>1, <1>2 DEF Item
  <2>2. \A i \in op.items : AffiliateOf[i.conversion] = a
    BY <1>1 DEF PayoutInv
  <2>3. \A c \in Conversion : AffiliateOf[c] = a /\ commission[c] = "APPROVED"
                                => \E i \in op.items : i.conversion = c
    BY <1>1 DEF EarnedInv, UpToDate
  <2> QED
    BY <1>1, <2>1, <2>2, <2>3
<1>4. /\ p \notin {q \in Payout : payout[q].status # "NONE"}
      /\ {q \in Payout : payout'[q].status # "NONE"}
             = {q \in Payout : payout[q].status # "NONE"} \cup {p}
  BY <1>1 DEF TypeOK
<1>5. Lifecycle!Move(owed, "INCLUDED_IN_PAYOUT") /\ Lifecycle!Attach(owed, p)
  BY <1>1, <1>3 DEF Lifecycle!Move, Lifecycle!Attach
<1>6. Lifecycle!Include(p, a)
  BY <1>3, <1>4, <1>5, Zenon DEF Lifecycle!Include
<1> QED
  BY <1>6, Zenon DEF Lifecycle!Next

LEMMA TransitionMoves ==
    ASSUME SerialInv, NEW r \in Request, TransitionCommit(r)
    PROVE  [Lifecycle!Next]_(Lifecycle!vars)
<1> USE DEF SerialInv
<1>1. request[r].kind = "transition" /\ request[r] \in TransitionOp
  BY OperationOfKind DEF TransitionCommit
<1>. PICK p \in Payout, to \in PayoutStatus :
         request[r].payout = p /\ request[r].to = to
  BY <1>1 DEF TransitionOp
<1> DEFINE included == {c \in Conversion : /\ payoutId[c] = p
                                           /\ commission[c] = "INCLUDED_IN_PAYOUT"}
           created == {q \in Payout : payout[q].status # "NONE"}
<1>2. /\ payout' = [payout EXCEPT ![p].status = to]
      /\ commission' = [c \in Conversion |->
            IF c \in included /\ settlesCommissions(to) THEN "PAID"
            ELSE IF c \in included /\ releasesCommissions(to) THEN "APPROVED"
            ELSE commission[c]]
      /\ payoutId' = [c \in Conversion |->
            IF c \in included /\ releasesCommissions(to) THEN NULL ELSE payoutId[c]]
  BY DEF TransitionCommit
<1>3. canTransitionPayout(payout[p].status, to)
  BY <1>1 DEF OwnershipInv, StillTrue
<1>4. created' = created
  <2>1. payout[p].status # "NONE" /\ to # "NONE"
    BY <1>3 DEF canTransitionPayout
  <2>2. \A q \in Payout : payout'[q].status = IF q = p THEN to ELSE payout[q].status
    <3>1. payout \in [Payout -> PayoutRow]
      BY DEF TypeOK
    <3> QED
      BY <1>2, <3>1 DEF PayoutRow
  <2> QED
    BY <2>1, <2>2
<1>5. included = Lifecycle!Included(p)
  BY DEF Lifecycle!Included
<1>6. /\ commission = [c \in Conversion |-> commission[c]]
      /\ payoutId = [c \in Conversion |-> payoutId[c]]
  BY DEF TypeOK
<1> HIDE DEF included
<1>7. CASE to = "PAID"
  <2>1. /\ commission' = [c \in Conversion |-> IF c \in included THEN "PAID" ELSE commission[c]]
        /\ payoutId' = payoutId
    BY <1>2, <1>6, <1>7 DEF settlesCommissions, releasesCommissions
  <2>2. Lifecycle!Settle(p)
    BY <1>4, <1>5, <2>1 DEF Lifecycle!Settle, Lifecycle!Move
  <2> QED
    BY <2>2, Zenon DEF Lifecycle!Next
<1>8. CASE to \in {"FAILED", "CANCELLED"}
  <2>1. /\ commission' = [c \in Conversion |->
               IF c \in included THEN "APPROVED" ELSE commission[c]]
        /\ payoutId' = [c \in Conversion |-> IF c \in included THEN NULL ELSE payoutId[c]]
    BY <1>2, <1>8 DEF settlesCommissions, releasesCommissions
  <2>2. Lifecycle!Release(p)
    BY <1>4, <1>5, <2>1 DEF Lifecycle!Release, Lifecycle!Move, Lifecycle!Attach
  <2> QED
    BY <2>2, Zenon DEF Lifecycle!Next
<1>9. CASE to = "PROCESSING"
  <2>1. commission' = commission /\ payoutId' = payoutId
    BY <1>2, <1>6, <1>9 DEF settlesCommissions, releasesCommissions
  <2> QED
    BY <1>4, <2>1 DEF Lifecycle!vars
<1> QED
  BY <1>3, <1>7, <1>8, <1>9 DEF canTransitionPayout

LEMMA TickMoves ==
    ASSUME SerialInv, NEW w \in Worker, TickStep(w)
    PROVE  [Lifecycle!Next]_(Lifecycle!vars)
<1> USE DEF commissionVars, payoutVars, SerialInv
<1>1. CASE TickPromote(w)
  <2>1. /\ UNCHANGED <<payoutId, payout>>
        /\ commission' = [c \in Conversion |->
              IF c \in tick[w].batch THEN "APPROVED" ELSE commission[c]]
    BY <1>1 DEF TickPromote
  <2>2. \A c \in tick[w].batch : commission[c] = "LOCKED"
    BY DEF OwnershipInv
  <2>3. tick[w].batch \in SUBSET Conversion
    BY DEF TypeOK, Tick
  <2>4. Lifecycle!Unlock(tick[w].batch)
    BY <2>1, <2>2 DEF Lifecycle!Unlock, Lifecycle!Move
  <2> QED
    BY <2>3, <2>4, Zenon DEF Lifecycle!Next
<1>2. CASE ~TickPromote(w)
  BY <1>2, Stutters DEF TickStep, TickSelect, TickFilter, TickFails
<1> QED
  BY <1>1, <1>2

LEMMA StepLifecycle ==
    ASSUME SerialInv, [Next]_vars
    PROVE  [Lifecycle!Next]_(Lifecycle!vars)
<1>1. ASSUME NEW r \in Request, RequestStep(r)
      PROVE  [Lifecycle!Next]_(Lifecycle!vars)
  <2>1. CASE \/ Abandon(r)
             \/ \E d \in FraudScores : Evaluate(r, d)
             \/ \E c \in Conversion, d \in {"APPROVED", "REJECTED"} : ReviewRead(r, c, d)
             \/ \E c \in Conversion, d \in {"CLEARED", "FLAGGED"} : DecideOnly(r, c, d)
             \/ \E c \in Conversion : DecideBlocked(r, c)
             \/ \E c \in Conversion : \E n \in 1..earned[c] : ReverseRead(r, c, n)
             \/ ReverseReadCommission(r)
             \/ \E a \in Affiliate : PayoutRequest(r, a)
             \/ PayoutReadBalance(r)
             \/ \E p \in Payout, to \in PayoutStatus : TransitionRead(r, p, to)
    BY <2>1, ReadingStutters
  <2>2. CASE \/ \E c \in Conversion, a \in Amounts : Report(r, c, a)
             \/ ReviewCommit(r)
             \/ Block(r)
             \/ ReverseCommit(r)
    BY <2>2, ConversionMoves
  <2>3. CASE \/ \E p \in Payout : PayoutCommit(r, p)
             \/ TransitionCommit(r)
    BY <2>3, CreationMoves, TransitionMoves
  <2> QED
    BY <1>1, <2>1, <2>2, <2>3, Zenon DEF RequestStep
<1>2. ASSUME NEW w \in Worker, TickStep(w) PROVE [Lifecycle!Next]_(Lifecycle!vars)
  BY <1>2, TickMoves
<1>3. ASSUME NEW c \in Conversion, LockExpires(c) PROVE UNCHANGED Lifecycle!vars
  BY <1>3, Stutters DEF LockExpires, commissionVars, payoutVars
<1>4. CASE UNCHANGED vars
  BY <1>4, Stutters DEF vars, commissionVars, payoutVars
<1> QED
  BY <1>1, <1>2, <1>3, <1>4 DEF Next

LEMMA InitLifecycle == Init => Lifecycle!Init
<1> SUFFICES ASSUME Init PROVE Lifecycle!Init
  OBVIOUS
<1>1. {p \in Payout : payout[p].status # "NONE"} = {}
  BY DEF Init
<1> QED
  BY <1>1 DEF Init, Lifecycle!Init

\* Served one request at a time, the ledger does to commissions what
\* CommissionLifecycle promises and nothing else: each step of a request, a
\* review or a tick is one promised move or none.
THEOREM ImplementsTheLifecycle ==
    ASSUME MaxInFlight = 1, IsFiniteSet(Request), IsFiniteSet(Worker)
    PROVE  Spec => ImplementsLifecycle
<1>1. Init => SerialInv
  BY InitType, InitVetting, InitPayout, InitOwnership, InitEarned DEF SerialInv
<1>2. SerialInv /\ [Next]_vars => SerialInv'
  BY StepType, StepVetting, StepPayout, StepOwnership, StepEarned DEF SerialInv
<1>3. SerialInv /\ [Next]_vars => [Lifecycle!Next]_(Lifecycle!vars)
  BY StepLifecycle
<1> QED
  BY <1>1, <1>2, <1>3, InitLifecycle, PTL
  DEF Spec, ImplementsLifecycle, Lifecycle!Spec
=============================================================================
