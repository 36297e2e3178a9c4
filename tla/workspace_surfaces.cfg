SPECIFICATION SurfacesSpec
CONSTANTS
    None = None
    c1 = c1
    c2 = c2
    c3 = c3
    p1 = p1
    q1 = q1
    l1 = l1
    l2 = l2
    l3 = l3
    Adapters = {c1, c2, c3}
    Kind <- CookieKind
    Principal <- LeasePrincipal
    LongLeases = {c2}
    Requests = {r1}
    MaxEvents = 3
    CatalogLayers = {l1, l2, l3, l4}
    FirstListed <- ThreeLayers
    PageSize = 2
    MaxPages = 3
    Families = {"map", "gp"}
    States = {"", "draft"}
    Searches = {"", "parks"}
    LastPage = 1
    MaxReads = 4
    PanelItems = {i1, j1}
    PanelDrafts = 3
    PanelVersions = 5
    MaxActs = 4
    Calls = {k1, k2, k3}
    Items = {m1, m2}
    Inputs = {n1, n2}
    MaxVersions = 2
    MaxDrafts = 3
    MaxDisturbances = 1
    Sources = {s1, s2}
    MaxLocator = 2
    MaxSubmissions = 2
    MaxMoves = 6
    Texts = {a1, b1}
    First = a1
    MaxRevision = 3
    MaxCommands = 3
    MaxUpsets = 6
    Tabs = {t1, t2}
    Scopes = {w1, w2}
    Artifacts = {x1, y1}
    MaxUploads = 3
    MaxTrouble = 4
    Packages = {g1, h1}
    Authored = g1
    Members = {x1, y1}
    MaxGen = 3
    MaxGpActs = 4
    Notes = {n1}
    Hosted = {2}
    ApiSends = TRUE
    MaxTurns = 2
    TurnEvents = 1
    MaxSwitches = 2
    MaxEntries = 3
    MaxImports = 3
CHECK_DEADLOCK FALSE
INVARIANTS
    ScreensAgree
    WritesOnce
    HeldAsServed
    SubmittedOnce
    RemoteWorkIsRetained
    RecordsFollowTurns
PROPERTIES
    OnlyOverTheOriginalMap
    LateStaysOut
