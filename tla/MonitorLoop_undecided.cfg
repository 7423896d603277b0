SPECIFICATION Spec
CONSTANTS
    k1 = k1
    Keys = {k1}
    Kinds <- KillThenClear
    Confirmed = {}
    DryRun = FALSE
    Webhooks = FALSE
    Cooldown = 2
    MaxActions = 1
    Modes = {"manual", "assisted", "autonomous"}
    MaxPasses = 1
    MaxFaults = 0
INVARIANT ActedWasDecided
