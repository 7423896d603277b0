SPECIFICATION FairSpec
CONSTANTS
    n1 = n1  n2 = n2  r1 = r1  r2 = r2  sampler = sampler
    Nodes = {n1}
    LocalNode = n1
    NoNode = NoNode
    Requests = {r1, r2}
    Sampler = sampler
    Sessions = {r1, r2, sampler}
    NoRequest = NoRequest
    Reported = {"online"}
    AllowRemote = TRUE
    TTL = 1
    LockWait = 0
    MaxLag = 1
    Modes = {"manual", "assisted"}
    DefaultMode = "manual"
    CacheTTL = 1
INVARIANTS
    TypeOK
    OneSampler
PROPERTY AnswersCatchUp
