SPECIFICATION Spec
CONSTANTS
    Secrets = {s1, s2}
    Clis = {get}
    Timeout = 2
    Sources <- TheSources
    Caches <- TheCaches
    Masters = {"m1"}
    MaxSyncs = 2
    Reports = 2
    Capacity = 1
    WorldSet <- TheWorlds
    MaxCopies = 3
INVARIANTS
    TypeOK
    NothingMissing
    AcceptedOnce
PROPERTIES
    OnlySecretsCleared
    SecretsLeave
    RightAnswersOpen
    SyncEnds
    PhaseForward
CHECK_DEADLOCK FALSE
