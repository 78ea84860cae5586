SPECIFICATION Spec
CONSTANTS
    web = web
    web2 = web2
    alone = alone
    websweep = websweep
    alonesweep = alonesweep
    user = user
    Worker = {web, web2}
    InProcess = {web, web2}
    Sweeper = {websweep}
    WebSweeper = {websweep}
    Request = {user}
    Commands = {"cancel"}
    MaxAttempts = 3
    MaxReady = 2
    SlowLeases = FALSE
    HandoffFaults = TRUE
    StoreFaults = TRUE
    Crashes = TRUE
INVARIANTS LicenceInv
CHECK_DEADLOCK FALSE
