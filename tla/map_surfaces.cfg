SPECIFICATION SurfacesSpec
CONSTANTS
    a1 = a1
    b1 = b1
    s1 = s1
    y1 = y1
    w1 = w1
    c1 = c1
    i1 = i1
    g1 = g1
    x1 = x1
    d1 = d1
    e1 = e1
    p1 = p1
    q1 = q1
    f1 = f1
    l1 = l1
    k1 = k1
    t1 = t1
    v1 = v1
    m1 = m1
    dd = dd
    box = box
    World = World
    Somewhere = Somewhere
    Map = Map
    None = None
    Absent = Absent
    LayerIds <- TwoLayers
    Sources <- TwoSources
    SharedStyles <- OneStyle
    WidgetIds <- OneWidget
    ControlIds <- OneControl
    InteractionIds <- OneInteraction
    RegionIds <- OneRegion
    Extras <- OneExtra
    MaxCommands = 3
CHECK_DEADLOCK FALSE
INVARIANTS
    StylesWhole
    MapShowsComposition
    CameraFollows
    ReadersSeeTheirOwn
    SiblingsSurvive
    CardsShowComposition
    DismissedStaysAway
PROPERTIES
    PinsProtect
    ReferencesStay
    ToolsMirror
    ChangesAreAsShown
