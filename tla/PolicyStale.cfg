CONSTANTS
    a1 = a1
    a2 = a2
    Nets = {"n1", "n2"}
    Values = {"", "a", "b", "yes"}
    Own <- OwnOps
    Admins = {a1}
    FirstTexts <- FewTexts
    PageTexts <- PostedTexts
    Forms <- OneForm
    Modes = {"forever"}
    MaxSaves = 1
    MaxFaults = 0
SPECIFICATION Spec
PROPERTY
    PassReadsSaved
