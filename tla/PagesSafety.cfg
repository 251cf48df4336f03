CONSTANTS
    t1 = t1
    t2 = t2
    s1 = s1
    s2 = s2
    Tabs = {t1, t2}
    Sessions = {s1}
    SessionOf <- OneSession
    Ids = {1, 2, 3}
    Names = {"", "a"}
    Hosts = {"a", "h"}
    FirstNets <- TwoNets
    FirstIds = {1, 2}
    Watched = {1}
    NewNets <- Another
    Deeds = {"update", "delete", "enable", "reconnect", "quote", "create", "sasl", "ask"}
    Edited = {"name", "pass"}
    MaxPosts = 2
    MaxFaults = 1
    MaxElsewhere = 1
SPECIFICATION Spec
CHECK_DEADLOCK FALSE
SYMMETRY Symmetric
INVARIANT
    TypeOK
PROPERTIES
    ActsOnItsNetwork
    EditsKept
    OutcomeTold
