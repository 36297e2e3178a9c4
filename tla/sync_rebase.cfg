SPECIFICATION Spec
CONSTANTS
    e1 = e1
    e2 = e2
    x1 = x1
    None = None
    Edits <- TwoEdits
    Additions <- OneAddition
    MaxRevisions = 1
    Budget <- RebaseBudget
CHECK_DEADLOCK FALSE
INVARIANTS
    AdditionsSurvive
