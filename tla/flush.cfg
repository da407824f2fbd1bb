\* Three loops, REST edits and POST /flush.
CONSTANTS
    w1 = w1  w2 = w2  w3 = w3  f1 = f1
    Writers = {w1, w2, w3}
    Flushers = {f1}
    MaxVersion = 3
SPECIFICATION LiveFlushSpec
INVARIANTS FlushesSound QuietEditsSurvive
PROPERTIES DiskNeverRegresses FlushReturns
