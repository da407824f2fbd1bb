--------------------------- MODULE MCIngestQueue ---------------------------
(* Small instances of IngestQueue. *)
EXTENDS IngestQueue, TLC

CONSTANTS d1, d2, x

Files == 1..MaxFiles
Alike == Permutations(Digests)
AllSmall == [d \in Digests |-> 1]
=============================================================================
