SPECIFICATION FairSpec
CONSTANTS
    Run = {timer, manual}
    Nobody = Nobody
    Uid = {old, new}
    MaxHook = 2
    MaxEdit = 1
    MaxMishap = 1
INVARIANTS
    TypeOK
    NeverCut
    ClosedBetweenRuns
PROPERTIES
    RunApplies
    EventuallyApplied
