\* The soft lock: three clients, one of which may have two sockets.
CONSTANTS
    a = a  b = b  c = c
    Clients = {a, b, c}
    NoClient = nobody
    DefaultTtl = 2
    Ttls <- AskedTtls
    MaxSockets <- Reconnecting
SPECIFICATION LiveControlSpec
INVARIANTS LockSound
PROPERTIES
    FirstComeFirstServed LeaseRespected NobodyStarves
