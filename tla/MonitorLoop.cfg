SPECIFICATION Spec
CONSTANTS
    k1 = k1
    Keys = {k1}
    Kinds <- KillThenClear
    Confirmed = {}
    DryRun = FALSE
    Webhooks = FALSE
    Cooldown = 2
    MaxActions = 1
    Modes = {"assisted", "autonomous"}
    MaxPasses = 3
    MaxFaults = 1
INVARIANTS
    TypeOK
    OneActionPerCooldown
    FeedbackIsKept
    PassSettlesIncidents
PROPERTY ClosedInHealth
