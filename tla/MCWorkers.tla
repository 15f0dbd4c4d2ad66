------------------------------ MODULE MCWorkers ------------------------------
(***************************************************************************)
(* What the scheduled workers and the link cache must eventually come to,  *)
(* one component at a time: the initial state chooses the component that   *)
(* runs, and the others stay as they are, so that their states add up      *)
(* instead of multiplying.                                                 *)
(***************************************************************************)
EXTENDS Integers, FiniteSets

CONSTANTS
    Conversion, Affiliate, partner, Amounts, FraudScores, Payout, Adjustment,
    MinPayout, Batch, Request, Worker, MaxInFlight,
    Event, Endpoint, Replayer, Instance, MaxAttempts, Threshold, BatchSize,
    MaxConcurrent, Faults, MaxLosses, MaxReplays,
    Resolver, Toggler, CacheFaults, MaxChanges,
    NULL

VARIABLES
    component,
    conversion, value, approvedAt, notices, fraudDecision, commission, amount,
    payoutId, lockExpired, payout, paidAt, failureReason, adjustment, request,
    tick, earned,
    lease, endpoint, breaker, delivery, emission, replaying, pass, drain,
    received, requests, streak, losses, replays,
    link, program, entry, fill, edit, creation, changes

ledgerVars ==
    <<conversion, value, approvedAt, notices, fraudDecision, commission, amount,
      payoutId, lockExpired, payout, paidAt, failureReason, adjustment, request,
      tick, earned>>
webhookVars ==
    <<lease, endpoint, breaker, delivery, emission, replaying, pass, drain,
      received, requests, streak, losses, replays>>
linkVars == <<link, program, entry, fill, edit, creation, changes>>

Ledger == INSTANCE CommissionLedger WITH
    AffiliateOf <- [c \in Conversion |-> partner]

Webhooks == INSTANCE WebhookDelivery WITH
    Pass <- Instance,
    InstanceOf <- [i \in Instance |-> i]

Links == INSTANCE LinkCache WITH Faults <- CacheFaults

ASSUME WorkersAssumption == Links!LinkAssumption

Init ==
    /\ component \in {"ledger", "webhooks", "links"}
    /\ Ledger!Init
    /\ Webhooks!Init
    /\ Links!Init

Next ==
    \/ /\ component = "ledger"
       /\ Ledger!Next
       /\ UNCHANGED <<component, webhookVars, linkVars>>
    \/ /\ component = "webhooks"
       /\ Webhooks!Next
       /\ UNCHANGED <<component, ledgerVars, linkVars>>
    \/ /\ component = "links"
       /\ Links!Next
       /\ UNCHANGED <<component, ledgerVars, webhookVars>>

\* In a component that does not run only the start of a webhook tick would be
\* enabled: the other fair actions wait for something that never happens.
FairSpec ==
    /\ Init
    /\ [][Next]_<<component, ledgerVars, webhookVars, linkVars>>
    /\ Ledger!WorkerFairness
    /\ WF_webhookVars(component = "webhooks"
                          /\ \E i \in Instance : Webhooks!Begin(i))
    /\ Webhooks!PassFairness
    /\ Links!Fairness

LocksArePromoted == Ledger!LocksArePromoted
EventuallySettled == Webhooks!EventuallySettled
CacheCatchesUp == Links!CacheCatchesUp
InvalidatedOnWrite == Links!InvalidatedOnWrite
=============================================================================
