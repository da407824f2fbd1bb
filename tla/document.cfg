\* Every kind of operation on a document.
CONSTANTS
    k1 = k1  n1 = n1  n2 = n2  l1 = l1  l2 = l2  l3 = l3
    v1 = v1  v2 = v2  null = null  empty = empty  sid = sid
    MetaKeys = {k1}
    Nodes = {n1, n2}
    Lines = {l1, l2, l3}
    Values = {v1, v2, empty, sid}
    Null = null
    Empty = empty
    SceneId = sid
    Operations <- EveryOperation
    InitialScenes <- Scenes
    MaxHistory = 2
    MaxClock = 5
SPECIFICATION DocSpec
INVARIANTS TypeOK ClockDominates HistoryExact RoundTrip
PROPERTIES VersionCountsChanges ImplementsSceneStore
