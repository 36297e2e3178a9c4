SPECIFICATION ServicesSpec
CONSTANTS
    t1 = t1
    t2 = t2
    p1 = p1
    p2 = p2
    g1 = g1
    g2 = g2
    l1 = l1
    None = None
    EmptyGraph = g1
    Tabs <- TwoTabs
    Principals <- TwoPrincipals
    Graphs <- TwoGraphs
    Budget <- RunsBudget
    Commands = {k1}
    Inputs = {x1, y1}
    Actors = {a1, b1}
    Absent = Absent
    PageSize = 1
    MaxDrafts = 4
    MaxOps = 3
    Drafts = {d1}
    Outputs = {o1, o2}
    Result = Result
    Gone = Gone
    MaxSubmits = 2
    MaxAnswers = 5
    Tasks <- SmallTasks
    Layers = {l1, m1}
    MaxCalls = 2
    MaxTrouble = 2
    Sessions = {s1, s2}
    Reads = {r1}
    Fields = {f1}
    MaxStyleEvents = 4
    Calls = {c1, c2, c3}
    MaxSessions = 3
    MaxFailures = 3
CHECK_DEADLOCK FALSE
INVARIANTS
    ShownIsOwn
    OneUnrecordedRun
    HarnessAgrees
    NothingIsSkipped
    OneSessionEach
PROPERTIES
    ActionsEnd
    WhatEndedStaysEnded
