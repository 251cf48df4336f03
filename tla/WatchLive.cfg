CONSTANTS
    n1 = n1
    c1 = c1
    f1 = f1
    Networks = {n1}
    Channels = {}
    Files = {f1}
    StateFile <- OneFile
    Skip = {}
    Reconnect = {}
    OpChannels <- NoOps
    Cooldown = 2
    DryRuns = {FALSE}
    MaxFaults = 1
SPECIFICATION FairSpec
INVARIANT
    EscalationPaced
PROPERTIES
    EscalationInOrder
    ZombieCleared
    NeverGivesUp
