CONSTANTS
    a = a
    b = b
    Nobody = Nobody
    Callers = {a}
    Kinds = {"serv"}
    Noises = {}
    Cap = 4
    MaxCalls = 2
    MaxNoise = 0
SPECIFICATION Spec
CHECK_DEADLOCK FALSE
INVARIANT
    SuccessIsSuccess
