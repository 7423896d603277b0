SPECIFICATION RegistrySpec
CONSTANTS
    n1 = n1  n2 = n2  s1 = s1  s2 = s2
    Nodes = {n1, n2}
    LocalNode = n1
    Sessions = {s1, s2}
    NoNode = NoNode
    Reported = {"online", "offline"}
    AllowRemote = TRUE
    TTL = 2
    LockWait = 1
    MaxLag = 2
SYMMETRY Threads
INVARIANTS
    OfflineNeedsOverlap
    OnlineIsFresh
