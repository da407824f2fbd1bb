----------------------------- MODULE DedupCache -----------------------------
(***************************************************************************)
(* The index of comfyvn/cache/cache_manager.py as a value, and what the    *)
(* methods of CacheManager make of it.  An entry stands for one content    *)
(* (digest) and records the paths that hold it, each with a count and a    *)
(* pin; the path index leads from a path to its digest; last says in which *)
(* order the entries were used.                                            *)
(*                                                                         *)
(* Times are kept as ranks: entries with equal rank were used at the same  *)
(* time, and which of them is evicted first is left open.                  *)
(***************************************************************************)
EXTENDS FiniteSets, FiniteSetsExt, Functions, Naturals

CONSTANTS
    Paths,        \* canonical paths of files
    Digests,      \* digests of contents
    SizeOf,       \* the size of the file with a digest
    MaxEntries,   \* max_entries
    MaxBytes      \* max_bytes

ASSUME CacheAssumption ==
    /\ IsFiniteSet(Digests)
    /\ SizeOf \in [Digests -> Nat]
    /\ MaxEntries \in Nat /\ MaxBytes \in Nat

PathRecord == [pinned : BOOLEAN, refs : Nat \ {0}]

Empty == [entries |-> [d \in {} |-> 0], index |-> [p \in {} |-> 0],
          last |-> [d \in {} |-> 0]]

Entries(c) == DOMAIN c.entries
PathsOf(c, d) == DOMAIN c.entries[d]
Indexed(c) == DOMAIN c.index
Has(c, d, p) == d \in Entries(c) /\ p \in PathsOf(c, d)

Put(f, x, y) == [z \in DOMAIN f \cup {x} |-> IF z = x THEN y ELSE f[z]]

IsPinned(c, d) == \E p \in PathsOf(c, d) : c.entries[d][p].pinned

(* last_access = now: the entry is newer than all others. *)
Dense(a) == [d \in DOMAIN a |->
               Cardinality({a[f] : f \in {g \in DOMAIN a : a[g] < a[d]}})]
UsedNow(last, d) == Dense(Put(last, d, Cardinality(Digests)))

Bump(paths, p, pin) ==
    Put(paths, p, [pinned |-> pin \/ (p \in DOMAIN paths /\ paths[p].pinned),
                   refs |-> IF p \in DOMAIN paths THEN paths[p].refs + 1 ELSE 1])

EntryPaths(c, d) == IF d \in Entries(c) THEN c.entries[d] ELSE [p \in {} |-> 0]

Attach(c, p, d, pin) ==
    [entries |-> Put(c.entries, d, Bump(EntryPaths(c, d), p, pin)),
     index |-> Put(c.index, p, d),
     last |-> UsedNow(c.last, d)]

-----------------------------------------------------------------------------
(* Eviction *)

Fits(S) == /\ Cardinality(S) <= MaxEntries
           /\ MapThenSumSet(LAMBDA d : SizeOf[d], S) <= MaxBytes

(* Mutant: pinned entries are evicted too. *)
Candidates_Pinned(c) == {d \in Entries(c) : PathsOf(c, d) # {}}

Candidates(c) == {d \in Entries(c) : PathsOf(c, d) # {} /\ ~IsPinned(c, d)}

(* Mutant: the newest is evicted first. *)
Older_Newest(c, d, f) == c.last[d] > c.last[f]

Older(c, d, f) == c.last[d] < c.last[f]

(* What _enforce_limits may evict: of the candidates the oldest, and no more *)
(* of them than it takes, or all if that is not enough.                     *)
Evictions(c) ==
    {X \in SUBSET Candidates(c) :
        /\ Fits(Entries(c) \ X) \/ X = Candidates(c)
        /\ \A d \in X : \A f \in Candidates(c) \ X : ~Older(c, f, d)
        /\ X # {} => \E d \in X : /\ ~Fits(Entries(c) \ (X \ {d}))
                                  /\ \A f \in X : ~Older(c, d, f)}

(* Mutant: the paths of an evicted entry stay in the index. *)
Evict_KeepsIndex(c, X) ==
    [entries |-> Restrict(c.entries, Entries(c) \ X),
     index |-> c.index,
     last |-> Restrict(c.last, Entries(c) \ X)]

(* An evicted entry takes its paths out of the index, wherever that leads.  *)
Evict(c, X) ==
    [entries |-> Restrict(c.entries, Entries(c) \ X),
     index |-> Restrict(c.index, {p \in Indexed(c) : \A d \in X : ~Has(c, d, p)}),
     last |-> Restrict(c.last, Entries(c) \ X)]

(* register_path: the indexes that it may leave. *)
Registered(c, p, d, pin) ==
    LET a == Attach(c, p, d, pin) IN {Evict(a, X) : X \in Evictions(a)}

-----------------------------------------------------------------------------
(* release_path: of the entry the index leads to, the path's count goes down *)
(* by one; with the last count goes the path, with the last path the entry. *)
Released(c, p) ==
    LET d == c.index[p]
        one == c.entries[d][p].refs = 1
        rest == IF one THEN Restrict(c.entries[d], PathsOf(c, d) \ {p})
                ELSE [c.entries[d] EXCEPT ![p].refs = @ - 1]
    IN  IF p \notin Indexed(c) THEN c
        ELSE [entries |-> IF DOMAIN rest = {}
                          THEN Restrict(c.entries, Entries(c) \ {d})
                          ELSE [c.entries EXCEPT ![d] = rest],
              index |-> IF one THEN Restrict(c.index, Indexed(c) \ {p}) ELSE c.index,
              last |-> IF DOMAIN rest = {}
                       THEN Restrict(c.last, Entries(c) \ {d}) ELSE c.last]

(* pin and unpin *)
WithPin(c, p, b) ==
    [c EXCEPT !.entries = [c.entries EXCEPT ![c.index[p]] =
                              [c.entries[c.index[p]] EXCEPT ![p].pinned = b]]]

Touched(c, p) == [c EXCEPT !.last = UsedNow(c.last, c.index[p])]

(* _load: every path that an entry records is indexed again; if two entries *)
(* record it, the one whose digest is last in the file gets it.             *)
Loaded(c) ==
    {[c EXCEPT !.index = i] : i \in
        {j \in [{p \in Paths : \E d \in Entries(c) : p \in PathsOf(c, d)} -> Digests] :
            \A p \in DOMAIN j : Has(c, j[p], p)}}
=============================================================================
