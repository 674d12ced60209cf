SPECIFICATION Spec
CONSTANTS
    Folders = {"f", "nf"}
    Entries = {"a", "b", "ne"}
    Root = "src"
    Start <- TheStart
    Hits <- TheHits
    Files <- TheFiles
    NewNames = {1}
    MaxChanges = 2
    MaxForeign = 1
INVARIANTS
    TypeOK
    KeysGoWhereShown
PROPERTIES
    ArrangementKept
CHECK_DEADLOCK FALSE
