CONSTANTS
    n1 = n1
    c1 = c1
    f1 = f1
    Networks = {n1}
    Channels = {}
    Files = {f1}
    StateFile <- OneFile
    Skip = {}
    Reconnect = {}
    OpChannels <- NoOps
    Cooldown = 1
    DryRuns = {FALSE, TRUE}
    MaxFaults = 0
SPECIFICATION Spec
PROPERTY
    DryRunSendsNoAlert
