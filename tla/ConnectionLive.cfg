CONSTANTS
    a = a
    b = b
    Nobody = Nobody
    Callers = {a}
    Kinds = {"serv"}
    Noises = {"ping", "notice"}
    Cap = 1
    MaxCalls = 2
    MaxNoise = 1
SPECIFICATION ConnFairSpec
CHECK_DEADLOCK FALSE
INVARIANTS
    ConnTypeOK
    PasswordOnRequest
    RegisteredBeforeUse
PROPERTIES
    AdminIsAdmin
    DialEnds
    CallsEnd
    PingsAnswered
