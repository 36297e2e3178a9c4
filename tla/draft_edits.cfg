SPECIFICATION Spec
CONSTANTS
    d1 = d1
    d2 = d2
    l1 = l1
    l2 = l2
    s1 = s1
    None = None
    Drafts <- TwoDrafts
    Existing <- OneDraft
    Layers <- OneLayer
    Styles <- OneStyle
    Budget <- EditBudget
CHECK_DEADLOCK FALSE
INVARIANTS
    OnlyCurrentAuthority
    ObservedOrInConflict
    OneLineage
PROPERTIES
    UnsavedFormKeepsDraft
