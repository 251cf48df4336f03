CONSTANTS
    a1 = a1
    a2 = a2
    Nets = {"n1", "n2"}
    Values = {"", "a", "b", "yes"}
    Own <- OwnOps
    Admins = {a1, a2}
    FirstTexts <- AllTexts
    PageTexts <- PostedTexts
    Forms <- AllForms
    Modes = {"once", "forever"}
    MaxSaves = 2
    MaxFaults = 1
SPECIFICATION Spec
CHECK_DEADLOCK FALSE
SYMMETRY Symmetric
INVARIANTS
    TypeOK
    FileValid
    FormInEffect
    OthersKept
    ResaveHarmless
