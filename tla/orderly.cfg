SPECIFICATION FairSpec
CONSTANTS
    web = web
    web2 = web2
    alone = alone
    websweep = websweep
    alonesweep = alonesweep
    user = user
    Worker = {web, alone}
    InProcess = {web}
    Sweeper = {alonesweep}
    WebSweeper = {}
    Request = {user}
    Commands = {"cancel"}
    MaxAttempts = 2
    MaxReady = 1
    SlowLeases = FALSE
    HandoffFaults = FALSE
    StoreFaults = FALSE
    Crashes = TRUE
PROPERTIES AttemptsNeverFall KeepsContract QueuedJobEnds
INVARIANTS TypeOK AtMostOneRun RunsWithinBudget PublishedOutputIsStored
CHECK_DEADLOCK FALSE
