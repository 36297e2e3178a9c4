SPECIFICATION Spec
CONSTANTS
    d1 = d1
    d2 = d2
    l1 = l1
    l2 = l2
    s1 = s1
    None = None
    Drafts <- OneDraft
    Existing <- OneDraft
    Layers <- TwoLayers
    Styles <- OneStyle
    Budget <- ConflictBudget
CHECK_DEADLOCK FALSE
PROPERTIES
    ConflictBlocksWrites
