\* A reader that catches up from the log, and clients that send again.
CONSTANTS
    k1 = k1  n1 = n1  n2 = n2  l1 = l1  l2 = l2  l3 = l3
    v1 = v1  v2 = v2  null = null  empty = empty  sid = sid
    MetaKeys = {k1}
    Nodes = {n1, n2}
    Lines = {l1, l2, l3}
    Values = {v1, v2, empty, sid}
    Null = null
    Empty = empty
    SceneId = sid
    Operations <- MixedOperations
    InitialScenes <- OneScene
    MaxHistory = 2
    MaxClock = 7
SPECIFICATION ReaderSpec
INVARIANTS CatchUpExact RecentOperationsKnown
