SPECIFICATION Spec
CONSTANTS
    s1 = s1
    s2 = s2
    s3 = s3
    k1 = k1
    k2 = k2
    web = web
    standalone = standalone
    Submission = {s1, s2, s3}
    Key = {k1, k2}
    KeyOf <- ReplayedKeys
    Bytes <- TwoSizes
    Limit <- TwoThree
    MaxActive = 2
    Process = {web}
    Web = web
    Enforce = TRUE
    LastDay = 1
    MaxRetries = 0
    CounterFaults = FALSE
    ClaimFaults = TRUE
    StoreFaults = FALSE
    Crashes = FALSE
INVARIANTS LimitHolds Balanced
CHECK_DEADLOCK FALSE
