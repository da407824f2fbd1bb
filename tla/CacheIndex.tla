----------------------------- MODULE CacheIndex -----------------------------
(***************************************************************************)
(* CacheManager of comfyvn/cache/cache_manager.py with the callers that    *)
(* register and release paths, and with restarts.  The index is written to *)
(* disk inside every call, in place: the process that starts next reads    *)
(* what was last written, or nothing if the write was cut short.           *)
(***************************************************************************)
EXTENDS DedupCache

CONSTANTS
    MaxRefs,     \* bound: how often a path is registered and not released
    MaxMoves     \* bound: how often a path is registered with another content

ASSUME CacheBounds == MaxRefs \in Nat /\ MaxMoves \in Nat

VARIABLES
    cache,     \* _entries and _path_index, in memory and on disk
    owed,      \* of each path, how many registrations were not released yet
    moves      \* how often a path was registered with another content

cacheVars == << cache, owed, moves >>

steady == moves = 0

CacheInit == /\ cache = Empty
             /\ owed = [p \in Paths |-> 0]
             /\ moves = 0

IsElsewhere(p, d) == \E f \in Entries(cache) \ {d} : p \in PathsOf(cache, f)

Register(p, d, pin) ==
    /\ owed[p] < MaxRefs
    /\ cache' \in Registered(cache, p, d, pin)
    /\ owed' = [owed EXCEPT ![p] = @ + 1]
    /\ moves' = IF IsElsewhere(p, d) THEN moves + 1 ELSE moves
    /\ moves' <= MaxMoves

Release(p) ==
    /\ owed[p] > 0
    /\ cache' = Released(cache, p)
    /\ owed' = [owed EXCEPT ![p] = @ - 1]
    /\ UNCHANGED moves

Touch(p) == /\ p \in Indexed(cache)
            /\ cache' = Touched(cache, p)
            /\ UNCHANGED << owed, moves >>

(* KeyError for a path that is not in the index. *)
Pin(p) == /\ p \in Indexed(cache)
          /\ cache' = WithPin(cache, p, TRUE)
          /\ UNCHANGED << owed, moves >>

Unpin(p) == /\ p \in Indexed(cache)
            /\ cache' = WithPin(cache, p, FALSE)
            /\ UNCHANGED << owed, moves >>

(* rebuild_from_files: every file counts once, with the content it has now  *)
(* and with the pin that its path had.  It does not look at the limits.     *)
Rebuild(content) ==
    LET files == DOMAIN content
        pinned(p) == p \in Indexed(cache) /\ cache.entries[cache.index[p]][p].pinned
        found == {content[p] : p \in files}
    IN  /\ cache' = [entries |-> [d \in found |->
                        [p \in {f \in files : content[f] = d} |->
                            [pinned |-> pinned(p), refs |-> 1]]],
                     index |-> content,
                     last |-> [d \in found |-> 0]]
        /\ owed' = [p \in Paths |-> IF p \in files THEN 1 ELSE 0]
        /\ moves' = 0

(* The process starts again: _load. *)
Restart == /\ cache' \in Loaded(cache)
           /\ UNCHANGED << owed, moves >>

(* It went down while it wrote the file: _load finds nothing that it can    *)
(* read, and starts with an empty index.                                    *)
TornRestart == /\ cache' = Empty
               /\ UNCHANGED << owed, moves >>

CacheNext ==
    \/ \E p \in Paths, d \in Digests, pin \in BOOLEAN : Register(p, d, pin)
    \/ \E p \in Paths : Release(p) \/ Touch(p) \/ Pin(p) \/ Unpin(p)
    \/ \E S \in SUBSET Paths : \E content \in [S -> Digests] : Rebuild(content)
    \/ Restart \/ TornRestart

CacheSpec == CacheInit /\ [][CacheNext]_cacheVars

-----------------------------------------------------------------------------
TypeOK ==
    /\ cache = [entries |-> cache.entries, index |-> cache.index, last |-> cache.last]
    /\ Entries(cache) \subseteq Digests
    /\ \A d \in Entries(cache) : /\ PathsOf(cache, d) \subseteq Paths
                                 /\ \A p \in PathsOf(cache, d) :
                                        cache.entries[d][p] \in PathRecord
    /\ cache.last \in [Entries(cache) -> Nat]
    /\ \E T \in SUBSET Paths : cache.index \in [T -> Digests]
    /\ owed \in [Paths -> Nat]
    /\ moves \in 0..MaxMoves

(* The path index never leads to an entry that is gone, or that does not    *)
(* know the path: touch, pin, unpin and release find the record that they   *)
(* look up, whatever was evicted, registered again or read from disk.       *)
IndexIsBacked == \A p \in Indexed(cache) : Has(cache, cache.index[p], p)

(* As long as paths keep their content, a path is in one entry at most, and *)
(* the index knows it: what was registered can be released and unpinned.    *)
HeldIsIndexed ==
    steady => \A d \in Entries(cache) : \A p \in PathsOf(cache, d) :
                  p \in Indexed(cache) /\ cache.index[p] = d

(* ... and an entry never counts more holders than there are: when all have *)
(* released it, path and pin are gone, and the entry with the last of them. *)
CountsAreOwed ==
    /\ steady => \A d \in Entries(cache) : \A p \in PathsOf(cache, d) :
                     cache.entries[d][p].refs <= owed[p]
    /\ \A d \in Entries(cache) : PathsOf(cache, d) # {}

(* Entries and path index agree, in both directions and in their counts,    *)
(* after every registration, release, eviction, rebuild and restart.        *)
CacheSound == TypeOK /\ IndexIsBacked /\ HeldIsIndexed /\ CountsAreOwed

(* To make room never costs a pinned entry, ... *)
PinnedIsKept ==
    [][\A p \in Paths, d \in Digests, pin \in BOOLEAN : Register(p, d, pin) =>
         \A f \in Entries(cache) : IsPinned(cache, f) =>
             f \in Entries(cache') /\ PathsOf(cache, f) \subseteq PathsOf(cache', f)]_cacheVars

(* ... nor an entry that was used after one that stays, unless that one is  *)
(* pinned; and the limits hold again unless all that is left is pinned.     *)
OldestGoFirst ==
    [][\A p \in Paths, d \in Digests, pin \in BOOLEAN : Register(p, d, pin) =>
         LET gone == (Entries(cache) \cup {d}) \ Entries(cache')
             left == {f \in Entries(cache') : ~IsPinned(cache', f)}
         IN  /\ left # {} => /\ Fits(Entries(cache'))
                             /\ d \notin gone
                             /\ \A g \in gone, f \in left \ {d} : cache.last[g] <= cache.last[f]
             /\ gone # {} => \E g \in gone : ~Fits(Entries(cache') \cup {g})]_cacheVars
=============================================================================
