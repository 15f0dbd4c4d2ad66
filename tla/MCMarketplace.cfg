SPECIFICATION MarketplaceSpec
CONSTANTS
    Tab = {t1, t2}
    MaxTokens = 3
    MaxLogins = 1
    MaxVersion = 1
    Faults = {"lost"}
    alice = alice
    bob = bob
    Request = {q1, q2}
    Affiliate = {alice}
    Rate = {rate}
    LinkLimit = 2
    MaxEdits = 1
    Order = {o1, o2}
    Values = {10}
    Refunds = {3, 5}
    FeePercent = 5
    MinPayout = 2
    MaxRefunds = 2
    Id = {1, 2, 3, 4}
    Moment = {1, 2}
    PageSize = 2
    MaxReviews = 1
    Quote = quote
    Comma = comma
    LF = lf
    CR = cr
    BOM = bom
    Apostrophe = apostrophe
    plus = plus
    Width = 2
    Length = 2
    MaxChunk = 2
    acme = acme
    bolt = bolt
    shoes = shoes
    lamps = lamps
    shoesLink = shoesLink
    lampsLink = lampsLink
    tag = tag
    Click = {c1, c2}
    sale = sale
    MaxTime = 1
    DefaultDays = 1
    MaxRange = 1
    RowLimit = 2
    BannerKey = {k1, k2}
    Sale = {s1, s2}
    Browser = {browser}
    Sharer = {alice, bob}
    DayLength = 1
    MaxTicks = 2
    MaxScored = 2
    \* At both sides of each boundary.
    Latency = {4999, 5000, 60000}
    HIGH_RISK_THRESHOLD = 60
    ApiKey = {apiKey}
    Payload = {p1, p2}
    Handler = {h1, h2}
    Tolerance = 1
    MaxClock = 3
    MaxSent = 1
    Mailbox = {m1, m2}
    User = {alice, bob}
    Bio = {bio}
    Switch = {shoesLink, lampsLink}
    Toggle = {x1, x2}
    Listed = {l1, l2}
    Mutation = {u1, u2}
    Price = 2
    Typed = {1}
    MaxPresses = 2
    NULL = NULL
INVARIANTS MarketplaceTypeOK OneTokenPerFamily PromisesAreKept MoneyAddsUp ExportsAreWhole  BannersAccountedFor DuplicateIsSeen AcceptedAsSigned 
CHECK_DEADLOCK FALSE
