SPECIFICATION Spec
CONSTANTS
    Docs = {d1, d2}
    Tabs = {t1, t2}
    a = a
    Assets = {a}
    Source <- Shared
    None = None
    Locks = TRUE
    SweepsOverlap = FALSE
    MaxRevision = 2
    MaxGeneration = 4
    MaxFaults = 2
SYMMETRY Alike
CHECK_DEADLOCK FALSE
INVARIANTS DraftsIntact
PROPERTIES DurableIsFound SwapsWhatItCompared ShelfKept
