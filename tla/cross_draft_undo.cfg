SPECIFICATION Spec
CONSTANTS
    d1 = d1
    d2 = d2
    l1 = l1
    l2 = l2
    s1 = s1
    None = None
    Drafts <- TwoDrafts
    Existing <- TwoDrafts
    Layers <- OneLayer
    Styles <- OneStyle
    Budget <- CrossDraftBudget
CHECK_DEADLOCK FALSE
INVARIANTS
    NoForeignContent
