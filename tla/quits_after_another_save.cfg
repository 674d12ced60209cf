SPECIFICATION Spec
CONSTANTS
    Sources <- TwoSources
    MaxChanges = 2
    Writers = {w}
INVARIANTS
    QuitsAfterTheSaveItWasAskedFor
CHECK_DEADLOCK FALSE
