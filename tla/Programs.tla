------------------------------- MODULE Programs -------------------------------
(***************************************************************************)
(* A campaign, its partners and their links: campaign.service.ts,          *)
(* relationship.service.ts and the creation of links in                    *)
(* tracking.service.ts. A request reads what it decides on, and writes by  *)
(* id in a later statement: between the two, others read and write.        *)
(***************************************************************************)
EXTENDS Naturals, Sequences, CampaignLifecycle

CONSTANTS
    Request,        \* requests that may overlap
    Affiliate,
    Rate,           \* custom commissions a brand may set
    LinkLimit,      \* MAX_TRACKING_LINKS_PER_AFFILIATE_PER_CAMPAIGN
    MaxEdits,       \* bound: edits of the commercial terms, rates per partner
    NULL

ProgramAssumption ==
    /\ LinkLimit \in Nat \ {0}
    /\ MaxEdits \in Nat
    /\ NULL \notin Rate

VARIABLES
    campaign,   \* status, terms (how often edited), past (its end date), open
    relation,   \* per affiliate: RelationshipStatus, NULL before applying
    custom,     \* per affiliate: customCommission, NULL for the default
    history,    \* per affiliate: its CommissionOverrideEvents
    links,      \* per affiliate: the terms published as each link was made
    told,       \* per affiliate: the last notification of a review
    late,       \* terms were written by an edit that found a DRAFT, on none
    op          \* per request: what it does and what it read

vars == <<campaign, relation, custom, history, links, told, late, op>>

-----------------------------------------------------------------------------
Idle == [pc |-> "idle", who |-> NULL, seen |-> NULL]

Begin(q, pc, who, seen) ==
    /\ op[q] = Idle
    /\ op' = [op EXCEPT ![q] = [pc |-> pc, who |-> who, seen |-> seen]]

Finish(q) == op' = [op EXCEPT ![q] = Idle]

Init ==
    /\ campaign \in [status : {"DRAFT"}, terms : {0}, past : {FALSE},
                     open : BOOLEAN]
    /\ relation = [a \in Affiliate |-> NULL]
    /\ custom = [a \in Affiliate |-> NULL]
    /\ history = [a \in Affiliate |-> <<>>]
    /\ links = [a \in Affiliate |-> <<>>]
    /\ told = [a \in Affiliate |-> NULL]
    /\ late = FALSE
    /\ op = [q \in Request |-> Idle]

-----------------------------------------------------------------------------
EditTermsAnytime(q) ==
    /\ Begin(q, "editing", NULL, campaign.status)
    /\ UNCHANGED <<campaign, relation, custom, history, links, told, late>>

\* update: locked fields are refused unless the campaign read is a DRAFT.
EditTerms(q) ==
    /\ campaign.status = "DRAFT"
    /\ Begin(q, "editing", NULL, campaign.status)
    /\ UNCHANGED <<campaign, relation, custom, history, links, told, late>>

TermsWritten(q) ==
    /\ op[q].pc = "editing"
    /\ campaign.terms < MaxEdits
    /\ campaign' = [campaign EXCEPT !.terms = @ + 1]
    /\ late' = (late \/ (op[q].seen = "DRAFT" /\ campaign.status # "DRAFT"))
    /\ Finish(q)
    /\ UNCHANGED <<relation, custom, history, links, told>>

\* update: the end date, which also passes by itself, and isOpen are no locked
\* fields.
EditFreely ==
    /\ \/ campaign' = [campaign EXCEPT !.past = ~@]
       \/ campaign' = [campaign EXCEPT !.open = ~@]
    /\ UNCHANGED <<relation, custom, history, links, told, late, op>>

\* transition: the state machine is asked about the campaign that was read.
Transition(q) ==
    /\ \E to \in Statuses :
           /\ CanTransition(campaign.status, to)
           /\ to = "ACTIVE" => ~campaign.past
           /\ Begin(q, "moving", NULL, to)
    /\ UNCHANGED <<campaign, relation, custom, history, links, told, late>>

StatusWritten(q) ==
    /\ op[q].pc = "moving"
    /\ campaign' = [campaign EXCEPT !.status = op[q].seen]
    /\ Finish(q)
    /\ UNCHANGED <<relation, custom, history, links, told, late>>

-----------------------------------------------------------------------------
\* apply: the campaign must be ACTIVE, and no relation may exist yet.
Apply(q, a) ==
    /\ AcceptsNewAffiliates(campaign.status)
    /\ relation[a] = NULL
    /\ Begin(q, "applying", a, campaign.open)
    /\ UNCHANGED <<campaign, relation, custom, history, links, told, late>>

\* The row is unique: the second of two applications fails.
Applied(q) ==
    /\ op[q].pc = "applying"
    /\ LET a == op[q].who IN
           IF relation[a] = NULL
           THEN /\ relation' = [relation EXCEPT ![a] = "PENDING"]
                /\ IF op[q].seen
                   THEN op' = [op EXCEPT ![q].pc = "approving"]
                   ELSE Finish(q)
           ELSE Finish(q) /\ UNCHANGED relation
    /\ UNCHANGED <<campaign, custom, history, links, told, late>>

\* An open program approves by a second statement, by id.
AutoApproved(q) ==
    /\ op[q].pc = "approving"
    /\ relation' = [relation EXCEPT ![op[q].who] = "APPROVED"]
    /\ Finish(q)
    /\ UNCHANGED <<campaign, custom, history, links, told, late>>

\* review: in one transaction, whatever the status; two of its three
\* outcomes notify the affiliate.
Review(a) ==
    /\ relation[a] # NULL
    /\ \E status \in {"APPROVED", "REJECTED", "DEACTIVATED"} :
           /\ relation' = [relation EXCEPT ![a] = status]
           /\ told' = IF status = "DEACTIVATED" THEN told
                      ELSE [told EXCEPT ![a] = status]
    /\ UNCHANGED <<campaign, custom, history, links, late, op>>

\* setCustomCommission: the relation is read, approved, with its rate ...
SetRate(q, a) ==
    /\ relation[a] = "APPROVED"
    /\ \E rate \in Rate \cup {NULL} :
           Begin(q, "rating", a, [was |-> custom[a], now |-> rate])
    /\ UNCHANGED <<campaign, relation, custom, history, links, told, late>>

\* ... and the rate and its event are written in one transaction.
Recorded(events, change) == Append(events, change)

RateWritten(q) ==
    /\ op[q].pc = "rating"
    /\ LET a == op[q].who IN
           /\ Len(history[a]) < MaxEdits
           /\ custom' = [custom EXCEPT ![a] = op[q].seen.now]
           /\ history' = [history EXCEPT ![a] = Recorded(@, op[q].seen)]
    /\ Finish(q)
    /\ UNCHANGED <<campaign, relation, links, told, late>>

\* tracking create: an ACTIVE campaign, an approved partner, a free place.
CreateLink(q, a) ==
    /\ AcceptsNewAffiliates(campaign.status)
    /\ relation[a] = "APPROVED"
    /\ Len(links[a]) < LinkLimit
    /\ Begin(q, "linking", a, NULL)
    /\ UNCHANGED <<campaign, relation, custom, history, links, told, late>>

LinkCreated(q) ==
    /\ op[q].pc = "linking"
    /\ LET a == op[q].who IN links' = [links EXCEPT ![a] = Append(@, campaign.terms)]
    /\ Finish(q)
    /\ UNCHANGED <<campaign, relation, custom, history, told, late>>

-----------------------------------------------------------------------------
Next ==
    \/ \E q \in Request :
           \/ EditTerms(q) \/ TermsWritten(q) \/ Transition(q) \/ StatusWritten(q)
           \/ Applied(q) \/ AutoApproved(q) \/ RateWritten(q) \/ LinkCreated(q)
           \/ \E a \in Affiliate : Apply(q, a) \/ SetRate(q, a) \/ CreateLink(q, a)
    \/ EditFreely
    \/ \E a \in Affiliate : Review(a)

Spec == Init /\ [][Next]_vars

-----------------------------------------------------------------------------
Changes == [was : Rate \cup {NULL}, now : Rate \cup {NULL}]

TypeOK ==
    /\ campaign \in [status : Statuses, terms : 0 .. MaxEdits, past : BOOLEAN,
                    open : BOOLEAN]
    /\ relation \in [Affiliate -> {"PENDING", "APPROVED", "REJECTED",
                                   "DEACTIVATED", NULL}]
    /\ custom \in [Affiliate -> Rate \cup {NULL}]
    /\ history \in [Affiliate -> Seq(Changes)]
    /\ links \in [Affiliate -> Seq(0 .. MaxEdits)]
    /\ told \in [Affiliate -> {"APPROVED", "REJECTED", NULL}]
    /\ late \in BOOLEAN
    /\ \A q \in Request :
           /\ op[q].pc \in {"idle", "editing", "moving", "applying",
                            "approving", "rating", "linking"}
           /\ op[q].who \in Affiliate \cup {NULL}

\* "They keep their terms" (campaign-lifecycle.ts): the terms a link was made
\* under stay the campaign's, but for one hole: an edit that found a DRAFT and
\* was written after the activation.
LinksKeepTheirTerms ==
    \A a \in Affiliate : \A k \in DOMAIN links[a] :
        links[a][k] = campaign.terms \/ late

\* "A crash cannot leave a new rate with no record of who set it"
\* (relationship.service.ts): the rate in force is the one of the newest
\* event, however two changes of it overlap.
RateIsOnRecord ==
    \A a \in Affiliate :
        custom[a] = IF history[a] = <<>> THEN NULL
                    ELSE history[a][Len(history[a])].now

\* "ENDED is terminal" (campaign-lifecycle.ts).
EndedIsFinal ==
    [][campaign.status = "ENDED" => campaign'.status = "ENDED"]_campaign

\* "Rejected" is the last word an affiliate who may build links has heard of:
\* the approval of an open program is written by id, after whatever review.
ApprovedWereNotRejected ==
    \A a \in Affiliate : relation[a] = "APPROVED" => told[a] # "REJECTED"

-----------------------------------------------------------------------------
\* What the proof of these two carries along: there is no link, and nobody
\* about to make one, while the campaign is a DRAFT; nothing returns to it;
\* and whoever writes terms found one.
CampaignInv ==
    /\ campaign = [status |-> campaign.status, terms |-> campaign.terms,
                   past |-> campaign.past, open |-> campaign.open]
    /\ campaign.status \in Statuses /\ campaign.terms \in Nat
    /\ campaign.status = "DRAFT" => \A a \in Affiliate : links[a] = <<>>

OpInv ==
    /\ \A q \in Request :
           /\ op[q].pc \in {"rating", "linking"} => op[q].who \in Affiliate
           /\ op[q].pc = "editing" => op[q].seen = "DRAFT"
           /\ op[q].pc = "moving" => op[q].seen \in Statuses \ {"DRAFT"}
           /\ op[q].pc = "rating" => op[q].seen \in Changes
           /\ op[q].pc = "linking" => campaign.status # "DRAFT"
    /\ op = [q \in Request |-> [pc |-> op[q].pc, who |-> op[q].who,
                                seen |-> op[q].seen]]

ProgramInv ==
    /\ CampaignInv
    /\ OpInv
    /\ custom \in [Affiliate -> Rate \cup {NULL}]
    /\ history \in [Affiliate -> Seq(Changes)]
    /\ links \in [Affiliate -> Seq(Nat)]
    /\ LinksKeepTheirTerms
    /\ RateIsOnRecord
=============================================================================
