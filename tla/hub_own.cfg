\* Every connection has an id of its own; REST, and saves that raise.
CONSTANTS
    Conns = {"c1", "c2"}
    Requests = {"r1"}
    Scenes = {"s1"}
    SceneOf <- OneScene
    Clients = {"c1", "c2", "r1"}
    ClientOf <- OwnIds
    MaxRooms = 2
    MaxEdits = 1
SPECIFICATION LiveHubSpec
INVARIANTS OneRoomPerScene
PROPERTIES ConnectionsProceed
