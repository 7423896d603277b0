SPECIFICATION FairSpec
CONSTANTS
    r1 = r1  r2 = r2
    Requests = {r1, r2}
    NoRequest = NoRequest
    Limit = 2
    Events = 2
    MaxBatches = 3
    MaxTimeouts = 2
    MaxRollbacks = 1
INVARIANTS
    TypeOK
    NothingIsLost
    RepublishNeedsRollback
PROPERTIES
    DeliversAtLeastOnce
    StuckIsForever
    FirstRowsAreStored
