SPECIFICATION Spec
CONSTANTS
    r1 = r1
    r2 = r2
    r3 = r3
    r4 = r4
    k = k
    Requests = {r1, r2, r3, r4}
    Keys = {k}
    None = None
    Key <- KeyOf
    Meaning <- MeaningOf
    Workers = {w1}
    Sweeper = sweeper
    Casts <- CastsOf
    Editors = {e1, e2}
    e1 = e1
    e2 = e2
    SlowSaves = FALSE
    LostReplies = FALSE
    MaxFaults = 1
SYMMETRY Alike
CHECK_DEADLOCK FALSE
INVARIANTS TypeOK OneDocumentPerIntention AnsweredIsKept BytesAreKept
PROPERTIES ReplacesWhatItSaw
