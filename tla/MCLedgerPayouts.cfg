SPECIFICATION Spec
CONSTANTS
    Conversion = {c1, c2}
    Affiliate = {partner}
    partner = partner
    AffiliateOf <- OnePartner
    Amounts = {2}
    FraudScores = {"NONE"}
    Payout = {p1, p2}
    Adjustment = {a1}
    MinPayout = 1
    Batch = 2
    Request = {r1, r2}
    Worker = {}
    MaxInFlight = 2
    NULL = NULL
SYMMETRY Symmetry
INVARIANTS IncludedIsInOpenPayout PaidThroughPaidPayout
CHECK_DEADLOCK FALSE
