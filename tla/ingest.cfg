\* Three files of two contents, a place that callers may name, room for one unpinned entry, one restart.
CONSTANTS
    x = x
    d1 = d1
    d2 = d2
    Digests = {d1, d2}
    Dests = {x}
    MaxFiles = 3
    Paths <- Files
    SizeOf <- AllSmall
    MaxEntries = 1
    MaxBytes = 9
    MaxRestarts = 1
SPECIFICATION IngestSpec
SYMMETRY Alike
INVARIANTS RecordsSound NothingLost StagedIsPinned PinsDrop
CHECK_DEADLOCK FALSE
