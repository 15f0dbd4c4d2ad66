-------------------------- MODULE CampaignLifecycle --------------------------
(***************************************************************************)
(* The campaign state machine of packages/analytics (campaign-lifecycle).  *)
(***************************************************************************)

Statuses == {"DRAFT", "ACTIVE", "PAUSED", "ENDED"}

\* CAMPAIGN_TRANSITIONS: ENDED is terminal and nothing returns to DRAFT.
Transitions ==
    [DRAFT |-> {"ACTIVE"}, ACTIVE |-> {"PAUSED", "ENDED"},
     PAUSED |-> {"ACTIVE", "ENDED"}, ENDED |-> {}]

CanTransition(from, to) == to \in Transitions[from]

\* Only an ACTIVE campaign takes new partners and new links ...
AcceptsNewAffiliates(status) == status = "ACTIVE"

\* ... but the links of one that is not ENDED keep redirecting.
ServesTraffic(status) == status # "ENDED"
=============================================================================
