SPECIFICATION Spec
CONSTANTS
    Conversion = {c1}
    Affiliate = {partner}
    partner = partner
    AffiliateOf <- OnePartner
    Amounts = {2}
    FraudScores = {"NONE", "FLAGGED"}
    Payout = {p1, p2}
    Adjustment = {a1, a2}
    MinPayout = 1
    Batch = 2
    Request = {r1, r2}
    Worker = {w1}
    MaxInFlight = 2
    NULL = NULL
SYMMETRY Symmetry
INVARIANTS TypeOK PayableIsVetted ReviewedOnce ClawbackBounded
PROPERTIES RejectionIsFinal
CHECK_DEADLOCK FALSE
