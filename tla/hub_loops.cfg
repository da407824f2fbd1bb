\* Two connections to one scene and one to another; broadcasts fail.
CONSTANTS
    Conns = {"c1", "c2", "c3"}
    Requests = {}
    Scenes = {"s1", "s2"}
    SceneOf <- TwoScenes
    Clients = {"c1", "c2", "c3"}
    ClientOf <- OwnIds
    MaxRooms = 3
    MaxEdits = 2
SPECIFICATION LoopsSpec
INVARIANTS NothingForgotten NothingAbandoned
