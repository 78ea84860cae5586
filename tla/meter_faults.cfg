SPECIFICATION Spec
CONSTANTS
    s1 = s1
    s2 = s2
    s3 = s3
    k1 = k1
    k2 = k2
    web = web
    standalone = standalone
    Submission = {s1, s2}
    Key = {k1, k2}
    KeyOf <- OwnKeys
    Bytes <- TwoSizes
    Limit <- TwoSlots
    MaxActive = 2
    Process = {web, standalone}
    Web = web
    Enforce = TRUE
    LastDay = 2
    MaxRetries = 1
    CounterFaults = TRUE
    ClaimFaults = FALSE
    StoreFaults = TRUE
    Crashes = TRUE
INVARIANTS NeverMints RefundedOnce
CHECK_DEADLOCK FALSE
