CONSTANTS
    r1 = r1
    r2 = r2
    s1 = s1
    Reaper = Reaper
    Nobody = Nobody
    Requests = {r1}
    Sessions = {s1}
    Kinds = {"page", "plain", "admin", "logout"}
    IdleTicks = 1
SPECIFICATION Spec
PROPERTY
    ReapedOnlyIdle
