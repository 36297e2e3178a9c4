SPECIFICATION Spec
CONSTANTS
    l1 = l1
    l2 = l2
    k1 = k1
    n1 = n1
    None = None
    Unset = Unset
    Undone <- SecondLayer
    Layers <- TwoLayers
    Controls <- OneControl
    Notes <- OneNote
    SourceOf <- BoundToFirst
    Budget <- CallBudget
CHECK_DEADLOCK FALSE
INVARIANTS
    ShowsDraft
