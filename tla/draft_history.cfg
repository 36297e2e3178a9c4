SPECIFICATION FairSpec
CONSTANTS
    d1 = d1
    d2 = d2
    l1 = l1
    l2 = l2
    s1 = s1
    None = None
    Drafts <- OneDraft
    Existing <- OneDraft
    Layers <- OneLayer
    Styles <- OneStyle
    Budget <- HistoryBudget
CHECK_DEADLOCK FALSE
PROPERTIES
    HistoryIsExact
    TurnSeesOwnWrites
    EveryoneReturns
