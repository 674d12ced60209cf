SPECIFICATION Spec
CONSTANTS
    None = None
    MaxId = 4
    MaxRuns = 2
INVARIANTS
    TypeOK
    TargetDecodes
    ValuesReadable
    LostOnlyInFlight
    BackedUpFirst
    OneBackupPerRun
PROPERTY
    ReplacesAsAWhole
CHECK_DEADLOCK FALSE
