\* Two paths and three contents, room for two entries and two bytes.
CONSTANTS
    p1 = p1
    p2 = p2
    small = small
    big = big
    other = other
    Paths = {p1, p2}
    Digests = {small, big, other}
    SizeOf <- OneIsBig
    MaxEntries = 2
    MaxBytes = 2
    MaxRefs = 2
    MaxMoves = 1
SYMMETRY Alike
SPECIFICATION CacheSpec
INVARIANTS CacheSound
PROPERTIES PinnedIsKept OldestGoFirst
