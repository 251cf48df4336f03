CONSTANTS
    a = a
    b = b
    Nobody = Nobody
    Callers = {a, b}
    Kinds = {"serv", "add", "change", "names"}
    Noises = {"other", "ping"}
    Cap = 2
    MaxCalls = 2
    MaxNoise = 1
SPECIFICATION Spec
CHECK_DEADLOCK FALSE
INVARIANTS
    TypeOK
    OpVerdictOfItsChannel
PROPERTIES
    VerdictFaithful
    ImplementsRpc
