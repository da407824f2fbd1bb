--------------------------- MODULE CacheIndex_proofs ---------------------------
(***************************************************************************)
(* Theorems about CacheIndex, for any paths, digests, sizes and limits.    *)
(*                                                                         *)
(* The conjuncts of CacheSound are inductive together; DedupCache_proofs   *)
(* says why, method by method.  Which entries go first is a matter of      *)
(* their ranks: RankedInv adds that these stay below the number of digests,*)
(* so that the entry used now can be ranked above all others.              *)
(***************************************************************************)
EXTENDS CacheIndex, DedupCache_proofs

(* An index is Sound in any case, and more as long as paths keep their      *)
(* content.                                                                 *)
Inv == /\ Sound(cache) /\ owed \in [Paths -> Nat] /\ moves \in 0..MaxMoves
       /\ steady => Held(cache) /\ Counted(cache, owed)

-----------------------------------------------------------------------------
(* A rebuilt index knows every file once. *)
LEMMA RebuildSound ==
    ASSUME NEW S \in SUBSET Paths, NEW content \in [S -> Digests], Rebuild(content),
           Sound(cache)
    PROVE  Inv'
<1> DEFINE found == {content[p] : p \in S}
           files(d) == {f \in S : content[f] = d}
           pinned(p) == p \in Indexed(cache) /\ cache.entries[cache.index[p]][p].pinned
           rec(p) == [pinned |-> pinned(p), refs |-> 1]
<1>1. /\ cache' = [entries |-> [d \in found |-> [p \in files(d) |-> rec(p)]],
                   index |-> content, last |-> [d \in found |-> 0]]
      /\ owed' = [p \in Paths |-> IF p \in S THEN 1 ELSE 0]
      /\ moves' = 0
  <2>1. DOMAIN content = S
    OBVIOUS
  <2> QED BY <2>1 DEF Rebuild
<1>2. /\ cache'.entries = [d \in found |-> [p \in files(d) |-> rec(p)]]
      /\ cache'.index = content /\ cache'.last = [d \in found |-> 0]
      /\ Shaped(cache)'
  BY <1>1 DEF Shaped
<1>3. ASSUME NEW p \in S PROVE rec(p) \in PathRecord /\ rec(p).refs = 1
  <2>1. ASSUME p \in Indexed(cache)
        PROVE  cache.entries[cache.index[p]][p] \in PathRecord
    BY <2>1 DEF Sound, IndexOK, EntriesOK, Has
  <2>2. pinned(p) \in BOOLEAN
    <3>1. CASE p \in Indexed(cache)
      BY <2>1, <3>1 DEF PathRecord
    <3>2. CASE p \notin Indexed(cache)
      BY <3>2
    <3> QED BY <3>1, <3>2
  <2> HIDE DEF pinned
  <2> QED BY <2>2 DEF PathRecord
<1> HIDE DEF rec
<1>4. /\ Entries(cache)' = found /\ Indexed(cache)' = S
      /\ \A d \in found : PathsOf(cache', d) = files(d)
      /\ \A d \in found : \A p \in files(d) : cache'.entries[d][p] = rec(p)
  BY <1>2 DEF Entries, Indexed, PathsOf
<1>5. EntriesOK(cache)'
  <2>1. ASSUME NEW d \in found
        PROVE  /\ d \in Digests /\ files(d) \subseteq Paths /\ files(d) # {}
               /\ \A p \in files(d) : cache'.entries[d][p] \in PathRecord
    <3>1. \A p \in files(d) : p \in S
      OBVIOUS
    <3>2. \A p \in files(d) : cache'.entries[d][p] \in PathRecord
      BY <1>3, <1>4, <3>1
    <3> QED BY <3>2
  <2> QED BY <1>4, <2>1 DEF EntriesOK, Entries, PathsOf
<1>6. LastOK(cache)' /\ IndexOK(cache)' /\ Held(cache)'
  BY <1>2, <1>4 DEF LastOK, IndexOK, Held, Has, Entries, PathsOf, Indexed
<1>7. Counted(cache, owed)'
  <2>1. ASSUME NEW d \in found, NEW p \in files(d)
        PROVE  cache'.entries[d][p].refs <= owed'[p]
    BY <1>1, <1>3, <1>4
  <2> QED BY <1>4, <2>1 DEF Counted, Entries, PathsOf
<1>8. owed' \in [Paths -> Nat] /\ moves' \in 0..MaxMoves
  BY <1>1, CacheBounds
<1> QED BY <1>2, <1>5, <1>6, <1>7, <1>8 DEF Inv, Sound

LEMMA RegisterInv ==
    ASSUME Inv, NEW p \in Paths, NEW d \in Digests, NEW pin \in BOOLEAN, Register(p, d, pin)
    PROVE  Inv'
<1>1. /\ Sound(cache) /\ owed \in [Paths -> Nat] /\ moves \in 0..MaxMoves
      /\ cache' \in Registered(cache, p, d, pin)
      /\ owed' = [owed EXCEPT ![p] = @ + 1]
      /\ moves' = IF IsElsewhere(p, d) THEN moves + 1 ELSE moves
      /\ moves' <= MaxMoves
  BY DEF Inv, Register
<1>2. /\ \A q \in Paths : owed[q] \in Nat
      /\ owed'[p] = owed[p] + 1 /\ \A q \in Paths \ {p} : owed'[q] = owed[q]
      /\ owed' \in [Paths -> Nat] /\ moves' \in 0..MaxMoves
  BY <1>1, CacheBounds
<1> DEFINE Alone == \A f \in Entries(cache) \ {d} : p \notin PathsOf(cache, f)
<1>3. /\ Sound(cache')
      /\ Held(cache) /\ Alone => Held(cache')
      /\ Held(cache) /\ Alone /\ Counted(cache, owed) => Counted(cache', owed')
  <2>1. /\ Sound(cache) /\ cache' \in Registered(cache, p, d, pin)
        /\ \A q \in Paths : owed[q] \in Nat
        /\ owed'[p] = owed[p] + 1 /\ \A q \in Paths \ {p} : owed'[q] = owed[q]
    BY <1>1, <1>2
  <2> QED BY <2>1, RegisteredSound
<1>4. ASSUME steady' PROVE Held(cache') /\ Counted(cache', owed')
  <2>1. steady /\ ~IsElsewhere(p, d)
    BY <1>1, <1>4, CacheBounds DEF steady
  <2> QED BY <1>3, <2>1 DEF Inv, IsElsewhere
<1> QED BY <1>2, <1>3, <1>4 DEF Inv

LEMMA NextInv == Inv /\ [CacheNext]_cacheVars => Inv'
<1> SUFFICES ASSUME Inv, [CacheNext]_cacheVars PROVE Inv'
  OBVIOUS
<1>1. ASSUME NEW p \in Paths, NEW d \in Digests, NEW pin \in BOOLEAN, Register(p, d, pin)
      PROVE  Inv'
  BY <1>1, RegisterInv
<1>2. ASSUME NEW p \in Paths, Release(p) PROVE Inv'
  <2>1. /\ cache' = Released(cache, p) /\ owed[p] > 0
        /\ owed' = [owed EXCEPT ![p] = @ - 1] /\ moves' = moves
        /\ Sound(cache) /\ owed \in [Paths -> Nat]
    BY <1>2 DEF Release, Inv
  <2>2. /\ \A q \in Paths : owed[q] \in Nat
        /\ owed'[p] = owed[p] - 1 /\ \A q \in Paths \ {p} : owed'[q] = owed[q]
        /\ owed' \in [Paths -> Nat]
    BY <2>1
  <2>3. /\ Sound(cache')
        /\ Held(cache) => Held(cache')
        /\ Held(cache) /\ Counted(cache, owed) => Counted(cache', owed')
    <3>1. /\ Sound(cache) /\ cache' = Released(cache, p) /\ owed[p] > 0
          /\ \A q \in Paths : owed[q] \in Nat
          /\ owed'[p] = owed[p] - 1 /\ \A q \in Paths \ {p} : owed'[q] = owed[q]
      BY <2>1, <2>2
    <3> QED BY <3>1, ReleasedSound
  <2> QED BY <2>1, <2>2, <2>3 DEF Inv, steady
<1>3. ASSUME NEW p \in Paths, Touch(p) PROVE Inv'
  <2>1. /\ p \in Indexed(cache) /\ cache' = Touched(cache, p) /\ Sound(cache)
        /\ owed' = owed /\ moves' = moves
    BY <1>3 DEF Touch, Inv
  <2> QED BY <2>1, TouchedSound DEF Inv, steady
<1>4. ASSUME NEW p \in Paths, Pin(p) \/ Unpin(p) PROVE Inv'
  <2>1. PICK b \in BOOLEAN :
           /\ p \in Indexed(cache) /\ cache' = WithPin(cache, p, b) /\ Sound(cache)
           /\ owed' = owed /\ moves' = moves
    BY <1>4 DEF Pin, Unpin, Inv
  <2> QED BY <2>1, WithPinSound DEF Inv, steady
<1>5. ASSUME NEW S \in SUBSET Paths, NEW content \in [S -> Digests], Rebuild(content)
      PROVE  Inv'
  BY <1>5, RebuildSound DEF Inv
<1>6. CASE Restart
  <2>1. cache' \in Loaded(cache) /\ Sound(cache) /\ owed' = owed /\ moves' = moves
    BY <1>6 DEF Restart, Inv
  <2> QED BY <2>1, LoadedSound DEF Inv, steady
<1>7. CASE TornRestart
  BY <1>7, EmptySound DEF TornRestart, Inv, steady
<1>8. CASE UNCHANGED cacheVars
  BY <1>8 DEF cacheVars, Inv, steady
<1> QED BY <1>1, <1>2, <1>3, <1>4, <1>5, <1>6, <1>7, <1>8 DEF CacheNext

LEMMA InitInv == CacheInit => Inv
BY EmptySound, CacheBounds DEF CacheInit, Inv

LEMMA AlwaysInv == CacheSpec => []Inv
BY InitInv, NextInv, PTL DEF CacheSpec

LEMMA InvSound == Inv => CacheSound
<1> SUFFICES ASSUME Inv PROVE CacheSound
  OBVIOUS
<1>1. TypeOK
  <2>1. \E T \in SUBSET Paths : cache.index \in [T -> Digests]
    <3>1. /\ Indexed(cache) \in SUBSET Paths
          /\ cache.index \in [Indexed(cache) -> Digests]
      BY DEF Inv, Sound, IndexOK
    <3> QED BY <3>1
  <2>2. /\ cache = [entries |-> cache.entries, index |-> cache.index, last |-> cache.last]
        /\ cache.last \in [Entries(cache) -> Nat]
    BY DEF Inv, Sound, Shaped, LastOK
  <2>3. /\ Entries(cache) \subseteq Digests
        /\ \A d \in Entries(cache) : /\ PathsOf(cache, d) \subseteq Paths
                                      /\ \A p \in PathsOf(cache, d) :
                                            cache.entries[d][p] \in PathRecord
    BY DEF Inv, Sound, EntriesOK
  <2> QED BY <2>1, <2>2, <2>3 DEF TypeOK, Inv
<1>2. IndexIsBacked
  BY DEF IndexIsBacked, Inv, Sound, IndexOK
<1>3. HeldIsIndexed
  BY DEF HeldIsIndexed, Inv, Held
<1>4. CountsAreOwed
  BY DEF CountsAreOwed, Inv, Counted, Sound, EntriesOK
<1> QED BY <1>1, <1>2, <1>3, <1>4 DEF CacheSound

(* Whatever is registered, released, evicted, rebuilt and read back: the    *)
(* index leads only to entries that know the path, and while paths keep     *)
(* their content no entry is out of its reach or counts too many holders.   *)
THEOREM CacheAlwaysSound == CacheSpec => []CacheSound
BY AlwaysInv, InvSound, PTL

(* No registration, however full the cache is, loses a pinned entry. *)
THEOREM PinnedHolds == CacheSpec => PinnedIsKept
<1>1. Inv /\ [CacheNext]_cacheVars =>
        [\A p \in Paths, d \in Digests, pin \in BOOLEAN : Register(p, d, pin) =>
           \A f \in Entries(cache) : IsPinned(cache, f) =>
             f \in Entries(cache') /\ PathsOf(cache, f) \subseteq PathsOf(cache', f)]_cacheVars
  <2> SUFFICES ASSUME Inv, NEW p \in Paths, NEW d \in Digests, NEW pin \in BOOLEAN,
                      Register(p, d, pin)
               PROVE  \A f \in Entries(cache) : IsPinned(cache, f) =>
                        f \in Entries(cache') /\ PathsOf(cache, f) \subseteq PathsOf(cache', f)
    OBVIOUS
  <2>1. /\ Sound(cache) /\ cache' \in Registered(cache, p, d, pin)
        /\ \A q \in Paths : owed[q] \in Nat
        /\ owed'[p] = owed[p] + 1 /\ \A q \in Paths \ {p} : owed'[q] = owed[q]
    BY DEF Inv, Register
  <2> QED BY <2>1, RegisteredSound
<1> QED BY <1>1, AlwaysInv, PTL DEF CacheSpec, PinnedIsKept

-----------------------------------------------------------------------------
RankedInv == Inv /\ Ranked(cache)

LEMMA NextRanked == RankedInv /\ [CacheNext]_cacheVars => RankedInv'
<1> SUFFICES ASSUME Inv, Ranked(cache), [CacheNext]_cacheVars PROVE Ranked(cache')
  BY NextInv DEF RankedInv
<1>0. /\ Sound(cache) /\ Cardinality(Digests) \in Nat
      /\ Digests # {} => Cardinality(Digests) > 0
  BY CacheAssumption, FS_CardinalityType, FS_EmptySet DEF Inv
<1>1. ASSUME NEW p \in Paths, NEW d \in Digests, NEW pin \in BOOLEAN, Register(p, d, pin)
      PROVE  Ranked(cache')
  BY <1>0, <1>1, RegisteredRanked DEF Register
<1>2. ASSUME NEW p \in Paths, Release(p) PROVE Ranked(cache')
  <2> DEFINE d == cache.index[p]
             one == cache.entries[d][p].refs = 1
             rest == IF one THEN Restrict(cache.entries[d], PathsOf(cache, d) \ {p})
                     ELSE [cache.entries[d] EXCEPT ![p].refs = @ - 1]
  <2>1. CASE p \notin Indexed(cache)
    BY <1>2, <2>1 DEF Release, Released
  <2>2. CASE p \in Indexed(cache)
    <3>1. /\ cache'.entries = IF DOMAIN rest = {} THEN Restrict(cache.entries, Entries(cache) \ {d})
                              ELSE [cache.entries EXCEPT ![d] = rest]
          /\ cache'.last = IF DOMAIN rest = {} THEN Restrict(cache.last, Entries(cache) \ {d})
                           ELSE cache.last
      BY <1>2, <2>2 DEF Release, Released
    <3> HIDE DEF rest, d
    <3>2. /\ Entries(cache') \subseteq Entries(cache)
          /\ \A f \in Entries(cache') : cache'.last[f] = cache.last[f]
      BY <3>1 DEF Entries, Restrict
    <3> QED BY <3>2 DEF Ranked
  <2> QED BY <2>1, <2>2
<1>3. ASSUME NEW p \in Paths, Touch(p) PROVE Ranked(cache')
  <2>1. /\ cache.index[p] \in Entries(cache) /\ cache.index[p] \in Digests
        /\ Entries(cache) \in SUBSET Digests /\ cache.last \in [Entries(cache) -> Nat]
        /\ \A f \in Entries(cache) : cache.last[f] < Cardinality(Digests)
    BY <1>0, <1>3 DEF Touch, Sound, IndexOK, Has, EntriesOK, LastOK, Ranked
  <2>2. cache = [entries |-> cache.entries, index |-> cache.index, last |-> cache.last]
    BY <1>0 DEF Sound, Shaped
  <2>3. cache'.entries = cache.entries /\ cache'.last = UsedNow(cache.last, cache.index[p])
    BY <1>3, <2>2 DEF Touch, Touched
  <2>4. \A f \in Entries(cache) \cup {cache.index[p]} : cache'.last[f] < Cardinality(Digests)
    BY <2>1, <2>3, UsedNowRanks
  <2> QED BY <2>3, <2>4 DEF Ranked, Entries
<1>4. ASSUME NEW p \in Paths, Pin(p) \/ Unpin(p) PROVE Ranked(cache')
  <2>1. PICK b \in BOOLEAN : p \in Indexed(cache) /\ cache' = WithPin(cache, p, b)
    BY <1>4 DEF Pin, Unpin
  <2>2. cache = [entries |-> cache.entries, index |-> cache.index, last |-> cache.last]
    BY <1>0 DEF Sound, Shaped
  <2>3. Entries(cache') = Entries(cache) /\ cache'.last = cache.last
    BY <2>1, <2>2 DEF WithPin, Entries
  <2> QED BY <2>3 DEF Ranked
<1>5. ASSUME NEW S \in SUBSET Paths, NEW content \in [S -> Digests], Rebuild(content)
      PROVE  Ranked(cache')
  <2> DEFINE found == {content[p] : p \in S}
  <2>1. Entries(cache') = found /\ cache'.last = [d \in found |-> 0]
    BY <1>5 DEF Rebuild, Entries
  <2>2. found \subseteq Digests
    OBVIOUS
  <2> QED BY <1>0, <2>1, <2>2 DEF Ranked
<1>6. CASE Restart
  <2>1. cache = [entries |-> cache.entries, index |-> cache.index, last |-> cache.last]
    BY <1>0 DEF Sound, Shaped
  <2>2. Entries(cache') = Entries(cache) /\ cache'.last = cache.last
    BY <1>6, <2>1 DEF Restart, Loaded, Entries
  <2> QED BY <2>2 DEF Ranked
<1>7. CASE TornRestart
  BY <1>7 DEF TornRestart, Empty, Ranked, Entries
<1>8. CASE UNCHANGED cacheVars
  BY <1>8 DEF cacheVars
<1> QED BY <1>1, <1>2, <1>3, <1>4, <1>5, <1>6, <1>7, <1>8 DEF CacheNext

LEMMA AlwaysRanked == CacheSpec => []RankedInv
<1>1. CacheInit => RankedInv
  BY InitInv DEF CacheInit, Empty, RankedInv, Ranked, Entries
<1> QED BY <1>1, NextRanked, PTL DEF CacheSpec

(* What a registration evicts is no newer than any entry that it could have *)
(* evicted and kept, is never the one just registered while another could   *)
(* go, and is not more than the limits take.                                *)
THEOREM OldestGoesFirst == CacheSpec => OldestGoFirst
<1>1. RankedInv /\ [CacheNext]_cacheVars =>
        [\A p \in Paths, d \in Digests, pin \in BOOLEAN : Register(p, d, pin) =>
           LET gone == (Entries(cache) \cup {d}) \ Entries(cache')
               left == {f \in Entries(cache') : ~IsPinned(cache', f)}
           IN  /\ left # {} => /\ Fits(Entries(cache'))
                               /\ d \notin gone
                               /\ \A g \in gone, f \in left \ {d} : cache.last[g] <= cache.last[f]
               /\ gone # {} => \E g \in gone : ~Fits(Entries(cache') \cup {g})]_cacheVars
  <2> DEFINE Gone(d) == (Entries(cache) \cup {d}) \ Entries(cache')
             Left == {f \in Entries(cache') : ~IsPinned(cache', f)}
  <2> SUFFICES ASSUME RankedInv, NEW p \in Paths, NEW d \in Digests, NEW pin \in BOOLEAN,
                      Register(p, d, pin)
               PROVE  /\ Left # {} => /\ Fits(Entries(cache'))
                                      /\ d \notin Gone(d)
                                      /\ \A g \in Gone(d), f \in Left \ {d} :
                                            cache.last[g] <= cache.last[f]
                      /\ Gone(d) # {} => \E g \in Gone(d) : ~Fits(Entries(cache') \cup {g})
    OBVIOUS
  <2>1. PICK c, e : c = cache /\ e = cache'
    OBVIOUS
  <2>2. Sound(c) /\ Ranked(c) /\ e \in Registered(c, p, d, pin)
    BY <2>1 DEF RankedInv, Inv, Register
  <2>3. /\ \A f \in Entries(e) : ~IsPinned(e, f) => Fits(Entries(e)) /\ d \in Entries(e)
        /\ \A g \in (Entries(c) \cup {d}) \ Entries(e), f \in Entries(e) \ {d} :
              ~IsPinned(e, f) => c.last[g] <= c.last[f]
        /\ (Entries(c) \cup {d}) \ Entries(e) # {} =>
              \E g \in (Entries(c) \cup {d}) \ Entries(e) : ~Fits(Entries(e) \cup {g})
    BY <2>2, RegisteredInOrder
  <2>4. /\ Gone(d) = (Entries(c) \cup {d}) \ Entries(e)
        /\ \A f : f \in Left <=> f \in Entries(e) /\ ~IsPinned(e, f)
    BY <2>1
  <2> HIDE DEF Gone, Left
  <2> QED BY <2>1, <2>3, <2>4
<1> QED BY <1>1, AlwaysRanked, PTL DEF CacheSpec, OldestGoFirst

-----------------------------------------------------------------------------
(* Whatever the index holds, a registration has an answer: the limits never *)
(* keep register_path from returning.                                       *)
THEOREM RegistrationAnswers ==
    CacheSpec => [](\A p \in Paths, d \in Digests, pin \in BOOLEAN :
                       Registered(cache, p, d, pin) # {})
<1>1. ASSUME Inv, NEW p \in Paths, NEW d \in Digests, NEW pin \in BOOLEAN
      PROVE  Registered(cache, p, d, pin) # {}
  <2>1. PICK a : a = Attach(cache, p, d, pin)
    OBVIOUS
  <2>2. Sound(a)
    BY <1>1, <2>1, AttachSound DEF Inv
  <2>3. Evictions(a) # {}
    BY <2>2, RoomCanBeMade
  <2> QED BY <2>1, <2>3 DEF Registered
<1>2. Inv => \A p \in Paths, d \in Digests, pin \in BOOLEAN : Registered(cache, p, d, pin) # {}
  BY <1>1
<1> QED BY <1>2, AlwaysInv, PTL
=============================================================================
