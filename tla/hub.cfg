\* Two connections of one client and another, REST and every fault.
CONSTANTS
    Conns = {"c1", "c2"}
    Requests = {"r1"}
    Scenes = {"s1"}
    SceneOf <- OneScene
    Clients = {"c1", "c2", "r1"}
    ClientOf <- SameClient
    MaxRooms = 3
    MaxEdits = 2
SPECIFICATION FaultySpec
INVARIANTS RegistrySound
