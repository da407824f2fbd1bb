\* Two clients, two scenes, two nodes.
CONSTANTS
    n1 = n1  n2 = n2  v1 = v1
    Clients = {"a", "b"}
    Scenes = {"scene", "other"}
    Plain = "scene"
    Nodes = {n1, n2}
    Values = {v1}
    None = none
    Files <- SomeFiles
    MaxEvents = 4
    Busy = {"a"}
SPECIFICATION LiveClientSpec
INVARIANTS ClientsSound 
PROPERTIES OnlyOwnEdits ComesBack
CHECK_DEADLOCK FALSE
