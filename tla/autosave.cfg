SPECIFICATION Spec
CONSTANTS
    Devices = {d1, d2}
    Requests = {r1, r2}
    NoDraft = NoDraft
    Torn = Torn
    MaxReceived = 4
    MaxFaults = 1
SYMMETRY Alike
CHECK_DEADLOCK FALSE
INVARIANTS SnapshotIntact NothingOrphaned
PROPERTIES SavesAreChained RecoveredIsCurrent
