SPECIFICATION Spec
CONSTANTS
    Sources <- TwoSources
    MaxChanges = 2
    Writers = {w}
INVARIANTS
    TypeOK
    WrittenOnce
    NothingForgotten
    ReviewedOnly
    AskedBeforeOverwriting
CHECK_DEADLOCK FALSE
