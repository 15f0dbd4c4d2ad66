SPECIFICATION FairSpec
CONSTANTS
    Conversion = {c1, c2}
    Affiliate = {partner}
    partner = partner
    Amounts = {1}
    FraudScores = {"NONE"}
    Payout = {p1}
    Adjustment = {a1}
    MinPayout = 1
    Batch = 2
    Request = {r1}
    Worker = {w1}
    MaxInFlight = 2
    Event = {v1, v2}
    Endpoint = {e1}
    Replayer = {x1}
    Instance = {i1, i2}
    MaxAttempts = 2
    Threshold = 2
    BatchSize = 2
    MaxConcurrent = 2
    Faults = {}
    MaxLosses = 1
    MaxReplays = 0
    Resolver = {s1, s2}
    Toggler = {t1, t2}
    CacheFaults = {"redis", "api"}
    MaxChanges = 3
    NULL = NULL
PROPERTIES LocksArePromoted EventuallySettled CacheCatchesUp
CHECK_DEADLOCK FALSE
