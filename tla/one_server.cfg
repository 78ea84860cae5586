SPECIFICATION FairSpec
CONSTANTS
    first = first
    second = second
    Nobody = Nobody
    Process = {first, second}
    Ttl = 5
    Grace = 1
    Heartbeat = 2
    Latency = 1
    Misses = 1
    MaxCalls = 2
INVARIANTS TypeOK ServerOwnsRow
PROPERTIES StandbyTakesOver
CHECK_DEADLOCK FALSE
