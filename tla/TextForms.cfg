CONSTANTS
    Tags = {"en", "en-US", "it", "pt", "pt-BR"}
    Base <- BaseOf
    Catalogs = {"en", "it", "pt-BR"}
    Weights = {0, 1, 2}
    Letters <- Signs
    MaxText = 4
    MaxHeader = 3
    LogMaxBytes = 6
    MaxLog = 9
SPECIFICATION Spec
CHECK_DEADLOCK FALSE
INVARIANTS
    CommandCarried
    FieldsSurvive
    LanguageChosen
    LogTailKept
