SPECIFICATION FairSpec
CONSTANTS
    w1 = w1  w2 = w2
    Workers = {w1, w2}
    Deployments <- OneOrTwo
    Count = 2
    MaxMessages = 3
    MaxFaults = 2
INVARIANTS
    TypeOK
    AckedIsRecorded
    OneActivePerKey
    AnnouncedIncidents
PROPERTIES
    AbandonedIsForever
    HeadIsAcked
CHECK_DEADLOCK FALSE
