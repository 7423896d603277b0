SPECIFICATION Spec
CONSTANTS
    k1 = k1
    Keys = {k1}
    Kinds <- NoKinds
    Confirmed = {}
    DryRun = FALSE
    Webhooks = FALSE
    Cooldown = 2
    MaxActions = 1
    Modes = {"assisted", "autonomous"}
    MaxPasses = 3
    MaxFaults = 0
INVARIANT AlertHasIncident
