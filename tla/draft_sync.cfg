SPECIFICATION FairSpec
CONSTANTS
    e1 = e1
    e2 = e2
    x1 = x1
    None = None
    Edits <- TwoEdits
    Additions <- OneAddition
    MaxRevisions = 2
    Budget <- SyncBudget
CHECK_DEADLOCK FALSE
INVARIANTS
    HoldsServedDraft
PROPERTIES
    Implements
    LatestIntentSaved
    EverySyncSettles
