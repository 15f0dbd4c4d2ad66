----------------------------- MODULE OrderIntake -----------------------------
(***************************************************************************)
(* How sales enter the platform: a storefront reports an order, which is   *)
(* attributed to the clicks of its customer and recorded once per share,   *)
(* and bills the further periods of a recurring one until it cancels.      *)
(* Every handler reads before its transaction; what keeps two of them      *)
(* apart is the unique order id of a conversion.                           *)
(***************************************************************************)
EXTENDS Integers, FiniteSets, SequencesExt

CONSTANTS
    Order,          \* order ids of the storefront
    Link,           \* tracking links of the campaign
    AffiliateOf,    \* who owns each link
    Recurring,      \* affiliates on a recurring commission
    Months,         \* recurringMonths
    Models,         \* attribution models considered
    Billing,        \* billing events of the storefront
    OrderOf,        \* the order each one renews
    Request,        \* requests that may be in progress
    MaxClicks,      \* bound on the clicks in the window
    MaxLosses,      \* bound on crashes and failing statements
    NULL

Affiliate == {AffiliateOf[l] : l \in Link}

\* externalOrderId: the order, its share of an affiliate, or one of its periods.
OrderId == [order : Order, part : {NULL} \cup Affiliate \cup 2..Months]

Subscription ==
    [affiliate : Affiliate, completed : 1..Months,
     status : {"ACTIVE", "COMPLETED", "CANCELLED"}]

IntakeAssumption ==
    /\ NULL \notin Subscription
    /\ ({NULL} \cup Affiliate) \cap Nat = {}
    /\ Models \subseteq {"FIRST_CLICK", "LAST_CLICK", "LINEAR"}
    /\ Months \in Nat \ {0}
    /\ OrderOf \in [Billing -> Order]
    /\ MaxClicks \in Nat
    /\ MaxLosses \in Nat

VARIABLES
    campaign,       \* attributionModel and status
    clicks,         \* counted clicks in the attribution window, oldest first
    conversion,     \* the order ids of the Conversion rows
    subscription,   \* the Subscription row of each order
    request,        \* what each request has read
    sales,          \* history: reports of each order that committed
    renewals,       \* history: periods that each billing event recorded
    losses

vars == <<campaign, clicks, conversion, subscription, request, sales, renewals,
          losses>>

Idle == [op |-> "idle"]
Local ==
    {Idle}
    \cup [op : {"checked"}, order : Order]
    \cup [op : {"attributed"}, order : Order, links : SUBSET Link]
    \cup [op : {"recorded"}, order : Order, earners : SUBSET Affiliate]
    \cup [op : {"billing"}, event : Billing, period : 2..Months]

TypeOK ==
    /\ campaign \in [model : Models, status : {"ACTIVE", "ENDED"}]
    /\ clicks \in Seq(Link)
    /\ conversion \subseteq OrderId
    /\ subscription \in [Order -> Subscription \cup {NULL}]
    /\ request \in [Request -> Local]
    /\ sales \in [Order -> Nat]
    /\ renewals \in [Billing -> Nat]
    /\ losses \in Nat

Init ==
    /\ campaign \in [model : Models, status : {"ACTIVE"}]
    /\ clicks = <<>>
    /\ conversion = {}
    /\ subscription = [o \in Order |-> NULL]
    /\ request = [r \in Request |-> Idle]
    /\ sales = [o \in Order |-> 0]
    /\ renewals = [b \in Billing |-> 0]
    /\ losses = 0

Become(r, local) == request' = [request EXCEPT ![r] = local]

-----------------------------------------------------------------------------
CountClick(l) ==
    /\ Len(clicks) < MaxClicks
    /\ clicks' = Append(clicks, l)
    /\ UNCHANGED <<campaign, conversion, subscription, request, sales, renewals,
                   losses>>

\* The oldest click falls out of the attribution window.
ClickAges ==
    /\ clicks # <<>>
    /\ clicks' = Tail(clicks)
    /\ UNCHANGED <<campaign, conversion, subscription, request, sales, renewals,
                   losses>>

EndCampaign ==
    /\ campaign.status = "ACTIVE"
    /\ campaign' = [campaign EXCEPT !.status = "ENDED"]
    /\ UNCHANGED <<clicks, conversion, subscription, request, sales, renewals,
                   losses>>

-----------------------------------------------------------------------------
\* conversionService.report.

\* The campaign accepts conversions, and no conversion has the order's id or
\* one that extends it.
ReportCheck(r, o) ==
    /\ request[r] = Idle
    /\ campaign.status # "ENDED"
    /\ \A c \in conversion : c.order # o
    /\ Become(r, [op |-> "checked", order |-> o])
    /\ UNCHANGED <<campaign, clicks, conversion, subscription, sales, renewals,
                   losses>>

\* attribute: the links that share the sale.
Attribute ==
    CASE campaign.model = "FIRST_CLICK" -> {Head(clicks)}
      [] campaign.model = "LAST_CLICK"  -> {Last(clicks)}
      [] OTHER                          -> ToSet(clicks)

\* Without a click the report is refused.
ReportAttribute(r) ==
    /\ request[r].op = "checked"
    /\ Become(r, IF clicks = <<>> THEN Idle
                 ELSE [op |-> "attributed", order |-> request[r].order,
                       links |-> Attribute])
    /\ UNCHANGED <<campaign, clicks, conversion, subscription, sales, renewals,
                   losses>>

\* The order id is suffixed when the sale is shared.
IdFor(o, links, l) ==
    [order |-> o,
     part |-> IF Cardinality(links) > 1 THEN AffiliateOf[l] ELSE NULL]

\* Mutant: the order id of a campaign's conversion is not unique.
NeverTaken(id) == FALSE

Taken(id) == id \in conversion

\* No two rows of one transaction have the same id, none has one that exists.
Insertable(o, links) ==
    /\ \A l \in links : ~Taken(IdFor(o, links, l))
    /\ \A l, k \in links : IdFor(o, links, l) = IdFor(o, links, k) => l = k

\* The transaction inserts a conversion for each share, or none.
ReportCommit(r) ==
    LET o == request[r].order
        links == request[r].links
        earners == {AffiliateOf[l] : l \in links} \cap Recurring
    IN
    /\ request[r].op = "attributed"
    /\ IF Insertable(o, links)
       THEN /\ conversion' = conversion \cup {IdFor(o, links, l) : l \in links}
            /\ sales' = [sales EXCEPT ![o] = @ + 1]
            /\ Become(r, IF earners = {} THEN Idle
                         ELSE [op |-> "recorded", order |-> o,
                               earners |-> earners])
       ELSE Become(r, Idle) /\ UNCHANGED <<conversion, sales>>
    /\ UNCHANGED <<campaign, clicks, subscription, renewals, losses>>

\* startIfRecurring, once for each share: the first one of an order gets the
\* subscription, the others violate its unique reference, which is logged.
StartSubscription(r, a) ==
    LET o == request[r].order
        rest == request[r].earners \ {a}
    IN
    /\ request[r].op = "recorded"
    /\ a \in request[r].earners
    /\ subscription' =
          IF subscription[o] # NULL THEN subscription
          ELSE [subscription EXCEPT ![o] =
                   [affiliate |-> a, completed |-> 1,
                    status |-> IF Months = 1 THEN "COMPLETED" ELSE "ACTIVE"]]
    /\ Become(r, IF rest = {} THEN Idle
                 ELSE [request[r] EXCEPT !.earners = rest])
    /\ UNCHANGED <<campaign, clicks, conversion, sales, renewals, losses>>

-----------------------------------------------------------------------------
\* subscriptionService.

PeriodId(o, period) == [order |-> o, part |-> period]

\* recordBillingPeriod reads the subscription; one that is cancelled or whose
\* term is over, which is COMPLETED already, is skipped.  The campaign's status
\* does not matter.
BillingRead(r, b) ==
    LET o == OrderOf[b]
        s == subscription[o]
    IN
    /\ request[r] = Idle
    /\ s # NULL
    /\ s.status # "CANCELLED"
    /\ s.completed < Months
    /\ PeriodId(o, s.completed + 1) \notin conversion
    /\ Become(r, [op |-> "billing", event |-> b, period |-> s.completed + 1])
    /\ UNCHANGED <<campaign, clicks, conversion, subscription, sales, renewals,
                   losses>>

\* The conversion, and the subscription by id with the period that was read.
BillingCommit(r) ==
    LET b == request[r].event
        o == OrderOf[b]
        period == request[r].period
    IN
    /\ request[r].op = "billing"
    /\ Become(r, Idle)
    /\ IF Taken(PeriodId(o, period))
       THEN UNCHANGED <<conversion, subscription, renewals>>
       ELSE /\ conversion' = conversion \cup {PeriodId(o, period)}
            /\ subscription' = [subscription EXCEPT
                  ![o].completed = period,
                  ![o].status = IF period >= Months THEN "COMPLETED"
                                ELSE "ACTIVE"]
            /\ renewals' = [renewals EXCEPT ![b] = @ + 1]
    /\ UNCHANGED <<campaign, clicks, sales, losses>>

Cancel(o) ==
    /\ subscription[o] # NULL
    /\ subscription[o].status # "CANCELLED"
    /\ subscription' = [subscription EXCEPT ![o].status = "CANCELLED"]
    /\ UNCHANGED <<campaign, clicks, conversion, request, sales, renewals,
                   losses>>

\* A request dies, or a statement of it fails: what it committed stays.
Abandon(r) ==
    /\ request[r] # Idle
    /\ losses < MaxLosses
    /\ losses' = losses + 1
    /\ Become(r, Idle)
    /\ UNCHANGED <<campaign, clicks, conversion, subscription, sales, renewals>>

-----------------------------------------------------------------------------
Next ==
    \/ \E l \in Link : CountClick(l)
    \/ ClickAges
    \/ EndCampaign
    \/ \E r \in Request :
          \/ \E o \in Order : ReportCheck(r, o)
          \/ ReportAttribute(r)
          \/ ReportCommit(r)
          \/ \E a \in Affiliate : StartSubscription(r, a)
          \/ \E b \in Billing : BillingRead(r, b)
          \/ BillingCommit(r)
          \/ Abandon(r)
    \/ \E o \in Order : Cancel(o)

Spec == Init /\ [][Next]_vars

-----------------------------------------------------------------------------
Periods(o) == {c.part : c \in {d \in conversion : d.order = o}} \cap 2..Months

\* The counter of a subscription and the conversions of its periods agree,
\* however many billing events are handled at once: each period is recorded
\* once, none is skipped, and none is recorded past the term.
PeriodsMatchTheCounter ==
    \A o \in Order :
        Periods(o) = IF subscription[o] = NULL THEN {}
                     ELSE 2..subscription[o].completed

\* When the whole sale goes to one click, an order that is reported twice, at
\* the same time or later, is recorded once.
OrderRecordedOnce ==
    campaign.model # "LINEAR" => \A o \in Order : sales[o] <= 1

\* What the comment on the duplicate check says: "A billing webhook that
\* retries must not pay twice."  A storefront may deliver an event again, be it
\* that the first delivery was recorded and the answer was lost.
BillingEventPaysOnce == \A b \in Billing : renewals[b] <= 1

\* cancel "stops future commissions": a subscription that was cancelled stays so.
\* It does not: a billing request that read it before the cancellation writes
\* ACTIVE after it, and the next events pay again.
CancelIsFinal ==
    [][\A o \in Order :
          subscription[o] # NULL /\ subscription[o].status = "CANCELLED" =>
              subscription'[o].status = "CANCELLED"]_vars
=============================================================================
