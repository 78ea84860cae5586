SPECIFICATION Spec
CONSTANTS
    web = web
    web2 = web2
    alone = alone
    websweep = websweep
    alonesweep = alonesweep
    user = user
    Worker = {web, web2}
    InProcess = {web, web2}
    Sweeper = {websweep}
    WebSweeper = {websweep}
    Request = {user}
    Commands = {"retry"}
    MaxAttempts = 3
    MaxReady = 2
    SlowLeases = TRUE
    HandoffFaults = FALSE
    StoreFaults = FALSE
    Crashes = FALSE
INVARIANTS NoOrphanOutput KeptMeansPublished
CHECK_DEADLOCK FALSE
