SPECIFICATION ServicesSpec
CONSTANTS
    ClickId = {g1, o1, v1, m1}
    Malformed = {m1}
    Invalid = {v1}
    Orphan = {o1}
    visitor = visitor
    Worker = {d1, d2}
    Replayer = {x1}
    BatchMax = 2
    Faults = {"read fails", "write fails", "commit fails"}
    MaxReplays = 1
    Order = {order}
    AffiliateOf <- OwnerOf
    Recurring = {alice, bob}
    Billing = {renewal}
    OrderOf <- RenewedBy
    aliceLink = l1
    Link = {l1, l2, l3}
    alice = alice
    bob = bob
    Months = 3
    Models = {"FIRST_CLICK", "LAST_CLICK", "LINEAR"}
    Request = {r1, r2}
    MaxClicks = 2
    HttpRequest = {q1, q2, q3}
    key = key
    body = body
    otherBody = otherBody
    Key = {key}
    KeyOf <- OneKey
    Body = {body, otherBody}
    BodyOf <- OddBody
    oddRequest = q3
    mixed = mixed
    overlapping = overlapping
    headless = headless
    good = good
    again = again
    poison = poison
    badLine = badLine
    unlinked = unlinked
    fresh = fresh
    BatchSize = 2
    ProgressEvery = 1
    Note = {n1, n2}
    Optional = {n2}
    Limit = 1
    Capacity = 2
    PerMinute = 2
    Minute = 3
    MaxSkew = 1
    Slack = 2
    MaxTime = 8
    Instance = {i1, i2}
    MaxAttempts = 2
    MaxLosses = 1
    NULL = NULL
INVARIANTS ServicesTypeOK ClicksAccountedFor PeriodsMatchTheCounter OrderRecordedOnce RetryIsReplay ImportsAccountedFor NotesReceived LimitIsKept
PROPERTIES ClicksAreStored
CHECK_DEADLOCK FALSE
