SPECIFICATION Spec
CONSTANTS
    Sources <- TwoSources
    MaxChanges = 2
    Writers = {w}
INVARIANTS
    NeverOverwritesUnasked
CHECK_DEADLOCK FALSE
