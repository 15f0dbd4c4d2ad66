SPECIFICATION OutboundSpec
CONSTANTS
    Event = {v1, v2}
    Endpoint = {e1}
    Replayer = {r1}
    Instance = {i1, i2}
    Pass = {i1, i2}
    InstanceOf <- OwnInstance
    MaxAttempts = 2
    Threshold = 2
    BatchSize = 2
    MaxConcurrent = 2
    Faults = {}
    MaxLosses = 0
    MaxReplays = 0
    Worker = {worker}
    Leased = {worker}
    Caller = {y1, y2}
    Interval <- EachTick
    MinTtl = 4
    CacheFor = 2
    QueueDegraded = 1
    QueueDown = 2
    MaxCheck = 1
    Timeout = 2
    Route = {route, other}
    Status = {200}
    Seconds = {0, 4}
    Buckets <- TwoBuckets
    MaxSeries = 1
    Scraper = {z1, z2}
    MaxLength = 1
    MaxResponses = 2
    MaxErrors = 1
    Address = {public, second, private}
    Private = {private}
    Code = {200, 503}
    MaxBody = 1
    MaxLookup = 3
    NULL = NULL
INVARIANTS DisabledHasNoBacklog
CHECK_DEADLOCK FALSE
