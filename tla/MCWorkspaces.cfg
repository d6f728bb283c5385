SPECIFICATION FairSpec
CONSTANTS
    w1 = w1   w2 = w2   w3 = w3   A = A   B = B
    Names = {w1, w2, w3}
    Outputs = {A, B}
    Configured = {w1, w2}
    Default = Default
    Absent = Absent
    HomeOf <- MCHomeOf
    MovesAllowed = TRUE
    HiddenReported = TRUE
    AllocMayFail = TRUE
    MaxChanges = 3
    MaxOutputEvents = 2
INVARIANTS
    TypeOK
    ReplyPrefix
    SwitchesAreFlagged
    EveryOutputInSync
    OneEntryPerOutput
PROPERTIES
    ReplyIsExact
    OutputsSettle
