CONSTANTS
    Kinds = {"guest", "workspace"}
    NoFlight = NoFlight
    NoAsk = NoAsk
    NoPublish = NoPublish
    MaxSessions = 2
    MaxRevision = 2
    MaxRetries = 1
    Tolerated = 1
    MaxEvents = 2
SPECIFICATION Spec
CHECK_DEADLOCK FALSE
PROPERTIES ConflictStands
