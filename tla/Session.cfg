CONSTANTS
    r1 = r1
    r2 = r2
    s1 = s1
    Reaper = Reaper
    Nobody = Nobody
    Requests = {r1, r2}
    Sessions = {s1}
    Kinds = {"page", "admin", "logout"}
    IdleTicks = 1
SPECIFICATION FairSpec
INVARIANTS
    TypeOK
    OneConnection
    RunOnce
    ClosedWithSession
PROPERTIES
    RequestsEnd
    RoundsEnd
    AbandonedReaped
