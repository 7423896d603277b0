SPECIFICATION FairSpec
CONSTANTS
    a1 = a1  a2 = a2  n1 = n1  r1 = r1  r2 = r2
    Agents = {a1, a2}
    NodeUids = {n1}
    UidOf <- DefaultUid
    Requests = {r1, r2}
    NoAgent = NoAgent
    NoRequest = NoRequest
    MaxFaults = 1
INVARIANTS
    TypeOK
    OneIdentity
    OrphansNeedFaults
PROPERTIES
    DeadEndsAreForever
    WorksUnlessDoomed
