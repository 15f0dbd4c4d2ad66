SPECIFICATION Spec
CONSTANTS
    Conversion = {c1, c2}
    Affiliate = {partner}
    partner = partner
    AffiliateOf <- OnePartner
    Amounts = {2}
    FraudScores = {"NONE", "FLAGGED"}
    Payout = {p1, p2, p3}
    Adjustment = {a1}
    MinPayout = 1
    Batch = 2
    Request = {r1}
    Worker = {w1}
    MaxInFlight = 1
    NULL = NULL
SYMMETRY Symmetry
CONSTRAINT OneFraudReview
INVARIANTS PayoutOwnsItsItems
PROPERTIES SettledOnce ImplementsLifecycle
CHECK_DEADLOCK FALSE
