SPECIFICATION Spec
CONSTANTS
    Names = {"work", "home"}
    OldCaches = {"work"}
    Configs <- TheConfigs
    MaxOps = 2
INVARIANTS
    TypeOK
    ConfigLoads
    LockAgrees
    
PROPERTIES
    RestLeftVerbatim
    MasterKept
