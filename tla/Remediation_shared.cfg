SPECIFICATION FairSpec
CONSTANTS
    a1 = a1  a2 = a2  n1 = n1  n2 = n2  t1 = t1  t2 = t2  r1 = r1  r2 = r2  r3 = r3
    Agents = {a1, a2}
    NodeOf <- Shared
    Nodes = {n1}
    Actions = {t1}
    Diagnostics = {t1}
    Requests = {r1, r2}
    NoAgent = NoAgent  NoNode = NoNode  NoAction = NoAction  NoRequest = NoRequest
    MaxAsked = 2
    MaxFaults = 1
PROPERTIES ActionsHaveTheirLife EveryActionIsOver
