CONSTANTS
    n1 = n1
    c1 = c1
    f1 = f1
    Networks = {n1}
    Channels = {c1}
    Files = {f1}
    StateFile <- OneFile
    Skip = {}
    Reconnect = {n1}
    OpChannels <- OneOp
    Cooldown = 2
    DryRuns = {FALSE, TRUE}
    MaxFaults = 2
SPECIFICATION Spec
INVARIANTS
    TypeOK
    EscalationPaced
    OpPaced
PROPERTIES
    RepairNeedsTwoSilent
    DryRunChangesNothing
