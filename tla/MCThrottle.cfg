SPECIFICATION FairThrottleSpec
CONSTANTS
    r1 = r1
    r2 = r2
    r3 = r3
    Request = {r1, r2, r3}
    MinInterval = 2
    MaxLate = 1
    MaxRetries = 2
    Backoff = 1
    RetryAfter = {0, 3}
    Status = {200, 304, 404, 429}
INVARIANTS
    ThrottleTypeOK
    NoNeedlessWait
    RetriesUsedUp
PROPERTIES
    SendsSpaced
    CallsEnd
