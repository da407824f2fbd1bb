--------------------------- MODULE DedupCache_proofs ---------------------------
(***************************************************************************)
(* What the methods of CacheManager make of an index, for any paths,       *)
(* digests, sizes and limits: one lemma for each operator of DedupCache,   *)
(* for the proofs about those who call them.                               *)
(*                                                                         *)
(* Eviction takes out of the index every path of an evicted entry, which   *)
(* is right because a path that is held is in the entry that the index     *)
(* leads to; and reading the file back finds for every path the only entry *)
(* that has it.                                                            *)
(***************************************************************************)
EXTENDS DedupCache, FiniteSetTheorems, NaturalsInduction, WellFoundedInduction, TLAPS

Shaped(c) == c = [entries |-> c.entries, index |-> c.index, last |-> c.last]

EntriesOK(c) ==
    /\ Entries(c) \subseteq Digests
    /\ \A d \in Entries(c) : /\ PathsOf(c, d) \subseteq Paths /\ PathsOf(c, d) # {}
                             /\ \A p \in PathsOf(c, d) : c.entries[d][p] \in PathRecord

LastOK(c) == c.last \in [Entries(c) -> Nat]

IndexOK(c) == /\ Indexed(c) \subseteq Paths /\ c.index = [p \in Indexed(c) |-> c.index[p]]
              /\ \A p \in Indexed(c) : c.index[p] \in Digests /\ Has(c, c.index[p], p)

(* What holds of an index in any case, ... *)
Sound(c) == Shaped(c) /\ EntriesOK(c) /\ LastOK(c) /\ IndexOK(c)

(* ... as long as paths keep their content, ... *)
Held(c) == \A d \in Entries(c) : \A p \in PathsOf(c, d) :
              p \in Indexed(c) /\ c.index[p] = d

(* ... and if o[p] registrations of p were not released yet. *)
Counted(c, o) == \A d \in Entries(c) : \A p \in PathsOf(c, d) :
                    c.entries[d][p].refs <= o[p]

-----------------------------------------------------------------------------
LEMMA EmptySound ==
    ASSUME NEW o PROVE Sound(Empty) /\ Held(Empty) /\ Counted(Empty, o)
<1>1. /\ Entries(Empty) = {} /\ Indexed(Empty) = {}
      /\ Empty.index = [p \in {} |-> 0] /\ Empty.last = [d \in {} |-> 0]
  BY DEF Empty, Entries, Indexed
<1>2. Shaped(Empty)
  BY DEF Empty, Shaped
<1>3. Empty.last \in [{} -> Nat] /\ Empty.index = [p \in {} |-> Empty.index[p]]
  BY <1>1
<1> QED BY <1>1, <1>2, <1>3 DEF Sound, EntriesOK, LastOK, IndexOK, Held, Counted

(* Ranks are natural numbers. *)
LEMMA UsedNowTyped ==
    ASSUME NEW S \in SUBSET Digests, NEW last \in [S -> Nat], NEW d \in Digests
    PROVE  UsedNow(last, d) \in [S \cup {d} -> Nat]
<1> DEFINE a == Put(last, d, Cardinality(Digests))
           older(e) == {g \in DOMAIN a : a[g] < a[e]}
<1>1. DOMAIN a = S \cup {d}
  BY DEF Put
<1>2. UsedNow(last, d) = [e \in DOMAIN a |-> Cardinality({a[f] : f \in older(e)})]
  BY DEF UsedNow, Dense
<1>3. ASSUME NEW e \in DOMAIN a PROVE Cardinality({a[f] : f \in older(e)}) \in Nat
  <2>1. older(e) \subseteq Digests
    BY <1>1
  <2>2. IsFiniteSet(older(e))
    BY <2>1, CacheAssumption, FS_Subset
  <2> HIDE DEF older, a
  <2>3. IsFiniteSet({a[f] : f \in older(e)})
    <3> DEFINE T == {a[f] : f \in older(e)}
               s == [f \in older(e) |-> a[f]]
    <3>1. s \in Surjection(older(e), T)
      BY DEF Surjection
    <3> HIDE DEF T, s
    <3>2. IsFiniteSet(T)
      BY <2>2, <3>1, FS_Surjection
    <3> QED BY <3>2 DEF T
  <2> QED BY <2>3, FS_CardinalityType
<1> HIDE DEF a, older
<1> QED BY <1>1, <1>2, <1>3

(* Registering without making room. *)
LEMMA AttachSound ==
    ASSUME NEW c, Sound(c), NEW p \in Paths, NEW d \in Digests, NEW pin \in BOOLEAN,
           NEW a, a = Attach(c, p, d, pin)
    PROVE  /\ Sound(a)
           /\ Entries(a) = Entries(c) \cup {d}
           /\ PathsOf(a, d) = {p} \cup (IF d \in Entries(c) THEN PathsOf(c, d) ELSE {})
           /\ \A f \in Entries(c) \ {d} : a.entries[f] = c.entries[f]
           /\ Indexed(a) = Indexed(c) \cup {p} /\ a.index[p] = d
           /\ \A q \in Indexed(c) \ {p} : a.index[q] = c.index[q]
           /\ \A q \in PathsOf(a, d) \ {p} : a.entries[d][q] = c.entries[d][q]
           /\ Has(c, d, p) => /\ a.entries[d][p].refs = c.entries[d][p].refs + 1
                              /\ c.entries[d][p].pinned => a.entries[d][p].pinned
           /\ ~Has(c, d, p) => a.entries[d][p].refs = 1
           /\ pin => a.entries[d][p].pinned
<1> DEFINE old == EntryPaths(c, d)
           had == p \in DOMAIN old
           new == [pinned |-> pin \/ (had /\ old[p].pinned),
                   refs |-> IF had THEN old[p].refs + 1 ELSE 1]
<1>1. /\ DOMAIN old = IF d \in Entries(c) THEN PathsOf(c, d) ELSE {}
      /\ d \in Entries(c) => old = c.entries[d]
      /\ had <=> Has(c, d, p)
  BY DEF EntryPaths, PathsOf, Has
<1>2. \A q \in DOMAIN old : old[q] \in PathRecord /\ q \in Paths
  BY <1>1 DEF Sound, EntriesOK
<1>3. new \in PathRecord
  <2>1. had => old[p].refs \in Nat \ {0} /\ old[p].pinned \in BOOLEAN
    BY <1>2 DEF PathRecord
  <2>2. (IF had THEN old[p].refs + 1 ELSE 1) \in Nat \ {0}
    BY <2>1
  <2>3. (pin \/ (had /\ old[p].pinned)) \in BOOLEAN
    OBVIOUS
  <2> HIDE DEF had, old
  <2> QED BY <2>2, <2>3 DEF PathRecord
<1>4. /\ a = [entries |-> Put(c.entries, d, Put(old, p, new)),
              index |-> Put(c.index, p, d), last |-> UsedNow(c.last, d)]
  BY DEF Attach, Bump
<1>5. /\ new.refs = (IF had THEN old[p].refs + 1 ELSE 1)
      /\ new.pinned = (pin \/ (had /\ old[p].pinned))
  OBVIOUS
<1> HIDE DEF old, new, had
<1>6. /\ a.entries = Put(c.entries, d, Put(old, p, new))
      /\ a.index = Put(c.index, p, d) /\ a.last = UsedNow(c.last, d)
      /\ Shaped(a)
  BY <1>4 DEF Shaped
<1>7. /\ Entries(a) = Entries(c) \cup {d}
      /\ a.entries[d] = Put(old, p, new)
      /\ \A f \in Entries(c) \ {d} : a.entries[f] = c.entries[f]
  BY <1>6 DEF Entries, Put
<1>8. /\ PathsOf(a, d) = DOMAIN old \cup {p}
      /\ a.entries[d][p] = new
      /\ \A q \in DOMAIN old \ {p} : a.entries[d][q] = old[q]
  BY <1>7 DEF PathsOf, Put
<1>9. /\ Indexed(a) = Indexed(c) \cup {p} /\ a.index[p] = d
      /\ \A q \in Indexed(c) \ {p} : a.index[q] = c.index[q]
      /\ a.index = [q \in Indexed(a) |-> a.index[q]]
  BY <1>6 DEF Indexed, Put
<1>10. EntriesOK(a)
  <2>1. ASSUME NEW f \in Entries(a)
        PROVE  /\ PathsOf(a, f) \subseteq Paths /\ PathsOf(a, f) # {}
               /\ \A q \in PathsOf(a, f) : a.entries[f][q] \in PathRecord
    <3>1. CASE f = d
      <4>1. \A q \in PathsOf(a, d) : a.entries[d][q] \in PathRecord
        BY <1>2, <1>3, <1>8
      <4> QED BY <1>2, <1>8, <3>1, <4>1
    <3>2. CASE f # d
      <4>1. f \in Entries(c) /\ a.entries[f] = c.entries[f] /\ PathsOf(a, f) = PathsOf(c, f)
        BY <1>7, <3>2 DEF PathsOf
      <4> QED BY <4>1 DEF Sound, EntriesOK
    <3> QED BY <3>1, <3>2
  <2> QED BY <1>7, <2>1 DEF EntriesOK, Sound
<1>11. LastOK(a)
  <2>1. Entries(c) \in SUBSET Digests /\ c.last \in [Entries(c) -> Nat]
    BY DEF Sound, EntriesOK, LastOK
  <2>2. UsedNow(c.last, d) \in [Entries(c) \cup {d} -> Nat]
    BY <2>1, UsedNowTyped
  <2> QED BY <1>6, <1>7, <2>2 DEF LastOK
<1>12. IndexOK(a)
  <2>1. ASSUME NEW q \in Indexed(a) PROVE a.index[q] \in Digests /\ Has(a, a.index[q], q)
    <3>1. CASE q = p
      BY <1>7, <1>8, <1>9, <3>1 DEF Has
    <3>2. CASE q # p
      <4>1. /\ q \in Indexed(c) /\ a.index[q] = c.index[q]
            /\ c.index[q] \in Digests /\ Has(c, c.index[q], q)
        BY <1>9, <3>2 DEF Sound, IndexOK
      <4>2. CASE c.index[q] = d
        BY <1>1, <1>7, <1>8, <4>1, <4>2 DEF Has
      <4>3. CASE c.index[q] # d
        BY <1>7, <4>1, <4>3 DEF Has, PathsOf
      <4> QED BY <4>1, <4>2, <4>3
    <3> QED BY <3>1, <3>2
  <2> QED BY <1>9, <2>1 DEF IndexOK, Sound
<1>13. \A q \in PathsOf(a, d) \ {p} : a.entries[d][q] = c.entries[d][q]
  BY <1>1, <1>8
<1>14. Has(c, d, p) => /\ a.entries[d][p].refs = c.entries[d][p].refs + 1
                       /\ c.entries[d][p].pinned => a.entries[d][p].pinned
  BY <1>1, <1>5, <1>8 DEF Has
<1>15. ~Has(c, d, p) => a.entries[d][p].refs = 1
  BY <1>1, <1>5, <1>8
<1>16. pin => a.entries[d][p].pinned
  BY <1>5, <1>8
<1> QED BY <1>1, <1>6, <1>7, <1>8, <1>9, <1>10, <1>11, <1>12, <1>13, <1>14, <1>15, <1>16
        DEF Sound

(* Making room, in an index in which every path that is held is found. *)
LEMMA EvictSound ==
    ASSUME NEW c, Sound(c), NEW X, X \subseteq Entries(c), NEW e, e = Evict(c, X)
    PROVE  /\ Sound(e)
           /\ Entries(e) = Entries(c) \ X
           /\ \A d \in Entries(e) : e.entries[d] = c.entries[d]
           /\ \A o : Counted(c, o) => Counted(e, o)
           /\ Held(c) => Held(e)
<1> DEFINE left == {p \in Indexed(c) : \A d \in X : ~Has(c, d, p)}
<1>1. /\ e.entries = Restrict(c.entries, Entries(c) \ X)
      /\ e.index = Restrict(c.index, left)
      /\ e.last = Restrict(c.last, Entries(c) \ X)
      /\ Shaped(e)
  BY DEF Evict, Shaped
<1>2. /\ Entries(e) = Entries(c) \ X
      /\ \A d \in Entries(e) : e.entries[d] = c.entries[d]
      /\ \A d \in Entries(e) : PathsOf(e, d) = PathsOf(c, d)
  BY <1>1 DEF Entries, PathsOf, Restrict
<1>3. /\ Indexed(e) = left
      /\ e.index = [p \in Indexed(e) |-> e.index[p]]
      /\ \A p \in left : e.index[p] = c.index[p]
  BY <1>1 DEF Indexed, Restrict
<1>4. EntriesOK(e)
  BY <1>2 DEF Sound, EntriesOK
<1>5. LastOK(e)
  <2>1. c.last \in [Entries(c) -> Nat]
    BY DEF Sound, LastOK
  <2>2. e.last \in [Entries(c) \ X -> Nat]
    BY <1>1, <2>1 DEF Restrict
  <2> QED BY <1>2, <2>2 DEF LastOK
<1>6. IndexOK(e)
  <2>1. ASSUME NEW p \in Indexed(e) PROVE e.index[p] \in Digests /\ Has(e, e.index[p], p)
    <3>1. /\ p \in Indexed(c) /\ e.index[p] = c.index[p]
          /\ \A d \in X : ~Has(c, d, p)
      BY <1>3
    <3>2. c.index[p] \in Digests /\ Has(c, c.index[p], p)
      BY <3>1 DEF Sound, IndexOK
    <3> QED BY <1>2, <3>1, <3>2 DEF Has
  <2>2. Indexed(e) \subseteq Paths
    BY <1>3 DEF Sound, IndexOK
  <2> QED BY <1>3, <2>1, <2>2 DEF IndexOK
<1>7. \A o : Counted(c, o) => Counted(e, o)
  BY <1>2 DEF Counted
<1>8. ASSUME Held(c) PROVE Held(e)
  <2> SUFFICES ASSUME NEW d \in Entries(e), NEW p \in PathsOf(e, d)
               PROVE  p \in Indexed(e) /\ e.index[p] = d
    BY DEF Held
  <2>1. d \in Entries(c) \ X /\ p \in PathsOf(c, d)
    BY <1>2
  <2>2. p \in Indexed(c) /\ c.index[p] = d
    BY <1>8, <2>1 DEF Held
  <2>3. ASSUME NEW f \in X, Has(c, f, p) PROVE FALSE
    BY <1>8, <2>1, <2>2, <2>3 DEF Held, Has
  <2> QED BY <1>3, <2>2, <2>3
<1> QED BY <1>1, <1>2, <1>4, <1>5, <1>6, <1>7, <1>8 DEF Sound

LEMMA ReleasedSound ==
    ASSUME NEW c, Sound(c), NEW p \in Paths, NEW r, r = Released(c, p),
           NEW o, NEW w, \A q \in Paths : o[q] \in Nat,
           o[p] > 0, w[p] = o[p] - 1, \A q \in Paths \ {p} : w[q] = o[q]
    PROVE  /\ Sound(r)
           /\ Held(c) => Held(r)
           /\ Held(c) /\ Counted(c, o) => Counted(r, w)
           /\ \A f \in Entries(r) : \A q \in PathsOf(r, f) : Has(c, f, q)
           /\ \A f, q : Has(c, f, q) /\ q # p =>
                 Has(r, f, q) /\ r.entries[f][q] = c.entries[f][q]
<1>1. CASE p \notin Indexed(c)
  <2>1. r = c
    BY <1>1 DEF Released
  <2>2. ASSUME Held(c), Counted(c, o) PROVE Counted(c, w)
    <3>1. \A d \in Entries(c) : \A q \in PathsOf(c, d) : q # p /\ q \in Paths
      BY <1>1, <2>2 DEF Held, Sound, EntriesOK
    <3> QED BY <2>2, <3>1 DEF Counted
  <2> QED BY <2>1, <2>2 DEF Has
<1>2. CASE p \in Indexed(c)
  <2> DEFINE d == c.index[p]
             one == c.entries[d][p].refs = 1
             rest == IF one THEN Restrict(c.entries[d], PathsOf(c, d) \ {p})
                     ELSE [c.entries[d] EXCEPT ![p].refs = @ - 1]
  <2>1. d \in Entries(c) /\ p \in PathsOf(c, d) /\ d \in Digests
    BY <1>2 DEF Sound, IndexOK, Has
  <2>2. c.entries[d][p] \in PathRecord
    BY <2>1 DEF Sound, EntriesOK
  <2>3. r = [entries |-> IF DOMAIN rest = {} THEN Restrict(c.entries, Entries(c) \ {d})
                         ELSE [c.entries EXCEPT ![d] = rest],
             index |-> IF one THEN Restrict(c.index, Indexed(c) \ {p}) ELSE c.index,
             last |-> IF DOMAIN rest = {} THEN Restrict(c.last, Entries(c) \ {d})
                      ELSE c.last]
    BY <1>2 DEF Released
  <2>4. /\ DOMAIN rest = IF one THEN PathsOf(c, d) \ {p} ELSE PathsOf(c, d)
        /\ \A q \in PathsOf(c, d) \ {p} : rest[q] = c.entries[d][q]
        /\ ~one => /\ rest[p] \in PathRecord
                   /\ rest[p].refs = c.entries[d][p].refs - 1
    <3>1. CASE one
      BY <3>1 DEF Restrict, PathsOf
    <3>2. CASE ~one
      <4>1. rest = [c.entries[d] EXCEPT ![p] = [c.entries[d][p] EXCEPT !.refs = @ - 1]]
        BY <3>2
      <4>2. /\ [c.entries[d][p] EXCEPT !.refs = @ - 1] \in PathRecord
            /\ [c.entries[d][p] EXCEPT !.refs = @ - 1].refs = c.entries[d][p].refs - 1
        BY <2>2, <3>2 DEF PathRecord
      <4> QED BY <2>1, <3>2, <4>1, <4>2 DEF PathsOf
    <3> QED BY <3>1, <3>2
  <2> HIDE DEF rest, one
  <2>5. /\ r.entries = IF DOMAIN rest = {} THEN Restrict(c.entries, Entries(c) \ {d})
                       ELSE [c.entries EXCEPT ![d] = rest]
        /\ r.index = IF one THEN Restrict(c.index, Indexed(c) \ {p}) ELSE c.index
        /\ r.last = IF DOMAIN rest = {} THEN Restrict(c.last, Entries(c) \ {d}) ELSE c.last
        /\ Shaped(r)
    BY <2>3 DEF Shaped
  <2>6. /\ Entries(r) = IF DOMAIN rest = {} THEN Entries(c) \ {d} ELSE Entries(c)
        /\ DOMAIN rest # {} => r.entries[d] = rest
        /\ \A f \in Entries(c) \ {d} : r.entries[f] = c.entries[f]
    BY <2>1, <2>5 DEF Entries, Restrict
  <2>7. /\ Indexed(r) = IF one THEN Indexed(c) \ {p} ELSE Indexed(c)
        /\ \A q \in Indexed(r) : r.index[q] = c.index[q]
        /\ r.index = [q \in Indexed(r) |-> r.index[q]]
    BY <2>5 DEF Indexed, Restrict, Sound, IndexOK
  <2>8. /\ DOMAIN rest # {} => PathsOf(r, d) = DOMAIN rest
        /\ \A f \in Entries(c) \ {d} : PathsOf(r, f) = PathsOf(c, f)
    BY <2>6 DEF PathsOf
  <2>9. EntriesOK(r)
    <3>1. ASSUME NEW f \in Entries(r)
          PROVE  /\ PathsOf(r, f) \subseteq Paths /\ PathsOf(r, f) # {}
                 /\ \A q \in PathsOf(r, f) : r.entries[f][q] \in PathRecord
      <4>1. CASE f = d
        <5>1. DOMAIN rest # {} /\ r.entries[d] = rest /\ PathsOf(r, d) = DOMAIN rest
          BY <2>6, <2>8, <4>1
        <5>2. DOMAIN rest \subseteq PathsOf(c, d) /\ PathsOf(c, d) \subseteq Paths
          BY <2>1, <2>4 DEF Sound, EntriesOK
        <5>3. \A q \in DOMAIN rest : rest[q] \in PathRecord
          BY <2>1, <2>4 DEF Sound, EntriesOK
        <5> QED BY <4>1, <5>1, <5>2, <5>3
      <4>2. CASE f # d
        BY <2>6, <2>8, <4>2 DEF Sound, EntriesOK
      <4> QED BY <4>1, <4>2
    <3> QED BY <2>6, <3>1 DEF EntriesOK, Sound
  <2>10. LastOK(r)
    <3>1. c.last \in [Entries(c) -> Nat]
      BY DEF Sound, LastOK
    <3> QED BY <2>5, <2>6, <3>1 DEF LastOK, Restrict
  <2>11. IndexOK(r)
    <3>1. ASSUME NEW q \in Indexed(r) PROVE r.index[q] \in Digests /\ Has(r, r.index[q], q)
      <4>1. /\ r.index[q] = c.index[q] /\ c.index[q] \in Digests /\ q \in Indexed(c)
            /\ c.index[q] \in Entries(c) /\ q \in PathsOf(c, c.index[q])
            /\ one => q # p
        BY <2>7 DEF Sound, IndexOK, Has
      <4>2. CASE c.index[q] = d
        BY <2>4, <2>6, <2>8, <4>1, <4>2 DEF Has
      <4>3. CASE c.index[q] # d
        BY <2>6, <2>8, <4>1, <4>3 DEF Has
      <4> QED BY <4>1, <4>2, <4>3
    <3> QED BY <2>7, <3>1 DEF IndexOK, Sound
  <2>12. ASSUME Held(c) PROVE Held(r)
    <3> SUFFICES ASSUME NEW f \in Entries(r), NEW q \in PathsOf(r, f)
                 PROVE  q \in Indexed(r) /\ r.index[q] = f
      BY DEF Held
    <3>1. f \in Entries(c) /\ q \in PathsOf(c, f)
      BY <2>4, <2>6, <2>8
    <3>2. q \in Indexed(c) /\ c.index[q] = f
      BY <2>12, <3>1 DEF Held
    <3>3. one => q # p
      BY <2>4, <2>6, <2>8, <3>2
    <3> QED BY <2>7, <3>2, <3>3
  <2>13. ASSUME Held(c), Counted(c, o) PROVE Counted(r, w)
    <3> SUFFICES ASSUME NEW f \in Entries(r), NEW q \in PathsOf(r, f)
                 PROVE  r.entries[f][q].refs <= w[q]
      BY DEF Counted
    <3>1. f \in Entries(c) /\ q \in PathsOf(c, f) /\ q \in Paths
      BY <2>4, <2>6, <2>8 DEF Sound, EntriesOK
    <3>2. c.entries[f][q].refs <= o[q] /\ c.entries[f][q] \in PathRecord
      BY <2>13, <3>1 DEF Counted, Sound, EntriesOK
    <3>3. CASE q # p
      <4>1. r.entries[f][q] = c.entries[f][q]
        BY <2>4, <2>6, <2>8, <3>1, <3>3
      <4> QED BY <3>1, <3>2, <3>3, <4>1
    <3>4. CASE q = p
      <4>1. f = d
        BY <2>13, <3>1, <3>4 DEF Held
      <4>2. ~one /\ r.entries[d][p].refs = c.entries[d][p].refs - 1
        BY <2>4, <2>6, <2>8, <3>4, <4>1
      <4>3. c.entries[d][p].refs \in Nat /\ o[p] \in Nat
        BY <2>2 DEF PathRecord
      <4> QED BY <3>2, <3>4, <4>1, <4>2, <4>3
    <3> QED BY <3>3, <3>4
  <2>14. \A f \in Entries(r) : \A q \in PathsOf(r, f) : Has(c, f, q)
    BY <2>4, <2>6, <2>8 DEF Has
  <2>15. ASSUME NEW f, NEW q, Has(c, f, q), q # p
         PROVE  Has(r, f, q) /\ r.entries[f][q] = c.entries[f][q]
    <3>1. CASE f = d
      BY <2>4, <2>6, <2>8, <2>15, <3>1 DEF Has
    <3>2. CASE f # d
      BY <2>6, <2>8, <2>15, <3>2 DEF Has
    <3> QED BY <3>1, <3>2
  <2> HIDE DEF d
  <2> QED BY <2>5, <2>9, <2>10, <2>11, <2>12, <2>13, <2>14, <2>15 DEF Sound
<1> QED BY <1>1, <1>2

(* Registering and making room: what is pinned stays. *)
LEMMA RegisteredSound ==
    ASSUME NEW c, Sound(c), NEW p \in Paths, NEW d \in Digests, NEW pin \in BOOLEAN,
           NEW e \in Registered(c, p, d, pin),
           NEW o, NEW w, \A q \in Paths : o[q] \in Nat,
           w[p] = o[p] + 1, \A q \in Paths \ {p} : w[q] = o[q]
    PROVE  /\ Sound(e)
           /\ Held(c) /\ (\A f \in Entries(c) \ {d} : p \notin PathsOf(c, f)) =>
                Held(e) /\ (Counted(c, o) => Counted(e, w))
           /\ \A f \in Entries(c) : IsPinned(c, f) =>
                f \in Entries(e) /\ PathsOf(c, f) \subseteq PathsOf(e, f)
           /\ \A f \in Entries(e) : \A q \in PathsOf(e, f) : (f = d /\ q = p) \/ Has(c, f, q)
           /\ \A f, q : Has(c, f, q) /\ c.entries[f][q].pinned =>
                 Has(e, f, q) /\ e.entries[f][q].pinned
           /\ pin => Has(e, d, p) /\ e.entries[d][p].pinned
<1> DEFINE a == Attach(c, p, d, pin)
<1>1. PICK X \in Evictions(a) : e = Evict(a, X)
  BY DEF Registered
<1> HIDE DEF a
<1>2. /\ Sound(a)
      /\ Entries(a) = Entries(c) \cup {d}
      /\ PathsOf(a, d) = {p} \cup (IF d \in Entries(c) THEN PathsOf(c, d) ELSE {})
      /\ \A f \in Entries(c) \ {d} : a.entries[f] = c.entries[f]
      /\ Indexed(a) = Indexed(c) \cup {p} /\ a.index[p] = d
      /\ \A q \in Indexed(c) \ {p} : a.index[q] = c.index[q]
      /\ \A q \in PathsOf(a, d) \ {p} : a.entries[d][q] = c.entries[d][q]
      /\ Has(c, d, p) => /\ a.entries[d][p].refs = c.entries[d][p].refs + 1
                         /\ c.entries[d][p].pinned => a.entries[d][p].pinned
      /\ ~Has(c, d, p) => a.entries[d][p].refs = 1
      /\ pin => a.entries[d][p].pinned
  BY AttachSound DEF a
<1>3. X \subseteq Entries(a) /\ \A f \in X : ~IsPinned(a, f)
  BY DEF Evictions, Candidates
<1>4. /\ Sound(e)
      /\ Entries(e) = Entries(a) \ X
      /\ \A f \in Entries(e) : e.entries[f] = a.entries[f]
      /\ Counted(a, w) => Counted(e, w)
      /\ Held(a) => Held(e)
  BY <1>1, <1>2, <1>3, EvictSound
<1>5. ASSUME Held(c), \A f \in Entries(c) \ {d} : p \notin PathsOf(c, f) PROVE Held(a)
  <2> SUFFICES ASSUME NEW f \in Entries(a), NEW q \in PathsOf(a, f)
               PROVE  q \in Indexed(a) /\ a.index[q] = f
    BY DEF Held
  <2>1. CASE f = d
    BY <1>2, <1>5, <2>1 DEF Held
  <2>2. CASE f # d
    <3>1. f \in Entries(c) /\ q \in PathsOf(c, f) /\ q # p
      BY <1>2, <1>5, <2>2 DEF PathsOf
    <3> QED BY <1>2, <1>5, <3>1 DEF Held
  <2> QED BY <2>1, <2>2
<1>6. ASSUME \A f \in Entries(c) \ {d} : p \notin PathsOf(c, f), Counted(c, o)
      PROVE  Counted(a, w)
  <2> SUFFICES ASSUME NEW f \in Entries(a), NEW q \in PathsOf(a, f)
               PROVE  a.entries[f][q].refs <= w[q]
    BY DEF Counted
  <2>1. CASE f = d /\ q = p
    <3>1. CASE Has(c, d, p)
      <4>1. c.entries[d][p].refs <= o[p] /\ c.entries[d][p] \in PathRecord
        BY <1>6, <3>1 DEF Counted, Has, Sound, EntriesOK
      <4>2. c.entries[d][p].refs \in Nat
        BY <4>1 DEF PathRecord
      <4> QED BY <1>2, <2>1, <3>1, <4>1, <4>2
    <3>2. CASE ~Has(c, d, p)
      BY <1>2, <2>1, <3>2
    <3> QED BY <3>1, <3>2
  <2>2. CASE f = d /\ q # p
    <3>1. d \in Entries(c) /\ q \in PathsOf(c, d) /\ q \in Paths
      BY <1>2, <2>2 DEF Sound, EntriesOK
    <3> QED BY <1>2, <1>6, <2>2, <3>1 DEF Counted
  <2>3. CASE f # d
    <3>1. f \in Entries(c) /\ q \in PathsOf(c, f) /\ a.entries[f] = c.entries[f]
      BY <1>2, <2>3 DEF PathsOf
    <3>2. q # p /\ q \in Paths
      BY <1>6, <2>3, <3>1 DEF Sound, EntriesOK
    <3> QED BY <1>6, <3>1, <3>2 DEF Counted
  <2> QED BY <2>1, <2>2, <2>3
<1>7. ASSUME NEW f \in Entries(c), IsPinned(c, f)
      PROVE  f \in Entries(e) /\ PathsOf(c, f) \subseteq PathsOf(e, f)
  <2>1. PICK q \in PathsOf(c, f) : c.entries[f][q].pinned
    BY <1>7 DEF IsPinned
  <2>2. f \in Entries(a) /\ PathsOf(c, f) \subseteq PathsOf(a, f)
    <3>1. CASE f = d
      BY <1>2, <3>1
    <3>2. CASE f # d
      BY <1>2, <3>2 DEF PathsOf
    <3> QED BY <3>1, <3>2
  <2>3. a.entries[f][q].pinned
    <3>1. CASE f # d
      BY <1>2, <2>1, <3>1
    <3>2. CASE f = d /\ q # p
      BY <1>2, <2>1, <2>2, <3>2
    <3>3. CASE f = d /\ q = p
      BY <1>2, <2>1, <3>3 DEF Has
    <3> QED BY <3>1, <3>2, <3>3
  <2>4. IsPinned(a, f)
    BY <2>1, <2>2, <2>3 DEF IsPinned
  <2>5. f \in Entries(e) /\ PathsOf(e, f) = PathsOf(a, f)
    BY <1>3, <1>4, <2>2, <2>4 DEF PathsOf
  <2> QED BY <2>2, <2>5
<1>8. ASSUME NEW f \in Entries(e), NEW q \in PathsOf(e, f)
      PROVE  (f = d /\ q = p) \/ Has(c, f, q)
  <2>1. f \in Entries(a) /\ q \in PathsOf(a, f)
    BY <1>4 DEF PathsOf
  <2>2. CASE f = d
    BY <1>2, <2>1, <2>2 DEF Has
  <2>3. CASE f # d
    BY <1>2, <2>1, <2>3 DEF Has, PathsOf
  <2> QED BY <2>2, <2>3
<1>9. ASSUME NEW f \in Entries(a), NEW q \in PathsOf(a, f), a.entries[f][q].pinned
      PROVE  Has(e, f, q) /\ e.entries[f][q].pinned
  <2>1. IsPinned(a, f)
    BY <1>9 DEF IsPinned
  <2>2. f \in Entries(e) /\ e.entries[f] = a.entries[f]
    BY <1>3, <1>4, <2>1
  <2> QED BY <1>9, <2>2 DEF Has, PathsOf
<1>10. ASSUME NEW f, NEW q, Has(c, f, q), c.entries[f][q].pinned
       PROVE  Has(e, f, q) /\ e.entries[f][q].pinned
  <2>1. f \in Entries(a) /\ q \in PathsOf(a, f) /\ a.entries[f][q].pinned
    <3>1. CASE f # d
      BY <1>2, <1>10, <3>1 DEF Has, PathsOf
    <3>2. CASE f = d /\ q # p
      BY <1>2, <1>10, <3>2 DEF Has
    <3>3. CASE f = d /\ q = p
      BY <1>2, <1>10, <3>3 DEF Has
    <3> QED BY <3>1, <3>2, <3>3
  <2> QED BY <1>9, <2>1
<1>11. pin => Has(e, d, p) /\ e.entries[d][p].pinned
  BY <1>2, <1>9
<1> QED BY <1>4, <1>5, <1>6, <1>7, <1>8, <1>10, <1>11

(* Pinning and unpinning. *)
LEMMA WithPinSound ==
    ASSUME NEW c, Sound(c), NEW p \in Indexed(c), NEW b \in BOOLEAN,
           NEW e, e = WithPin(c, p, b), NEW o
    PROVE  Sound(e) /\ (Held(c) => Held(e)) /\ (Counted(c, o) => Counted(e, o))
<1> DEFINE d == c.index[p]
<1>1. /\ d \in Entries(c) /\ p \in PathsOf(c, d) /\ Shaped(c)
      /\ c.entries[d][p] \in PathRecord
  BY DEF Sound, IndexOK, EntriesOK, Has
<1> HIDE DEF d
<1>2. e = [entries |-> [c.entries EXCEPT ![d] =
                          [c.entries[d] EXCEPT ![p] = [c.entries[d][p] EXCEPT !.pinned = b]]],
           index |-> c.index, last |-> c.last]
  <2>1. c = [entries |-> c.entries, index |-> c.index, last |-> c.last]
    BY <1>1 DEF Shaped
  <2>2. e = [c EXCEPT !.entries = [c.entries EXCEPT ![d] =
                          [c.entries[d] EXCEPT ![p].pinned = b]]]
    BY DEF WithPin, d
  <2> QED BY <2>1, <2>2
<1> DEFINE rec == [c.entries[d][p] EXCEPT !.pinned = b]
<1>3. rec \in PathRecord /\ rec.refs = c.entries[d][p].refs
  BY <1>1 DEF PathRecord
<1>4. /\ e.entries = [c.entries EXCEPT ![d] = [c.entries[d] EXCEPT ![p] = rec]]
      /\ e.index = c.index /\ e.last = c.last /\ Shaped(e)
  BY <1>2 DEF Shaped
<1> HIDE DEF rec
<1>5. /\ Entries(e) = Entries(c) /\ Indexed(e) = Indexed(c)
      /\ \A f \in Entries(c) : PathsOf(e, f) = PathsOf(c, f)
      /\ \A f \in Entries(c) : \A q \in PathsOf(c, f) :
            \/ e.entries[f][q] = c.entries[f][q]
            \/ f = d /\ q = p /\ e.entries[f][q] = rec
  BY <1>1, <1>4 DEF Entries, Indexed, PathsOf
<1>6. /\ EntriesOK(e) /\ LastOK(e) /\ IndexOK(e)
  BY <1>3, <1>4, <1>5 DEF EntriesOK, LastOK, IndexOK, Has, Sound
<1>7. Held(c) => Held(e)
  BY <1>4, <1>5 DEF Held
<1>8. Counted(c, o) => Counted(e, o)
  BY <1>3, <1>5 DEF Counted
<1> QED BY <1>4, <1>6, <1>7, <1>8 DEF Sound

LEMMA TouchedSound ==
    ASSUME NEW c, Sound(c), NEW p \in Indexed(c), NEW e, e = Touched(c, p), NEW o
    PROVE  Sound(e) /\ (Held(c) => Held(e)) /\ (Counted(c, o) => Counted(e, o))
<1>1. c = [entries |-> c.entries, index |-> c.index, last |-> c.last]
  BY DEF Sound, Shaped
<1>2. /\ e.entries = c.entries /\ e.index = c.index
      /\ e.last = UsedNow(c.last, c.index[p]) /\ Shaped(e)
  BY <1>1 DEF Touched, Shaped
<1>3. c.index[p] \in Entries(c) /\ c.index[p] \in Digests /\ Entries(c) \in SUBSET Digests
  BY DEF Sound, IndexOK, Has, EntriesOK
<1>4. UsedNow(c.last, c.index[p]) \in [Entries(c) \cup {c.index[p]} -> Nat]
  BY <1>3, UsedNowTyped DEF Sound, LastOK
<1>5. LastOK(e)
  <2>1. Entries(c) \cup {c.index[p]} = Entries(c)
    BY <1>3
  <2> QED BY <1>2, <1>4, <2>1 DEF LastOK, Entries
<1>6. EntriesOK(e) /\ IndexOK(e) /\ (Held(c) => Held(e)) /\ (Counted(c, o) => Counted(e, o))
  BY <1>2 DEF Sound, EntriesOK, IndexOK, Held, Counted, Entries, PathsOf, Indexed, Has
<1> QED BY <1>2, <1>5, <1>6 DEF Sound

(* Reading the file: a path that is held in one entry is found there. *)
LEMMA LoadedSound ==
    ASSUME NEW c, Sound(c), NEW e \in Loaded(c), NEW o
    PROVE  Sound(e) /\ (Held(c) => Held(e)) /\ (Counted(c, o) => Counted(e, o))
<1> DEFINE held == {p \in Paths : \E d \in Entries(c) : p \in PathsOf(c, d)}
<1>1. PICK j \in [held -> Digests] : /\ \A p \in DOMAIN j : Has(c, j[p], p)
                                     /\ e = [c EXCEPT !.index = j]
  BY DEF Loaded
<1>2. c = [entries |-> c.entries, index |-> c.index, last |-> c.last]
  BY DEF Sound, Shaped
<1>3. e.entries = c.entries /\ e.index = j /\ e.last = c.last /\ Shaped(e)
  BY <1>1, <1>2 DEF Shaped
<1>4. EntriesOK(e) /\ LastOK(e) /\ (Counted(c, o) => Counted(e, o))
  BY <1>3 DEF Sound, EntriesOK, LastOK, Counted, Entries, PathsOf
<1>5. IndexOK(e)
  BY <1>1, <1>3 DEF IndexOK, Indexed, Has, Entries, PathsOf
<1>6. ASSUME Held(c) PROVE Held(e)
  <2> SUFFICES ASSUME NEW f \in Entries(e), NEW q \in PathsOf(e, f)
               PROVE  q \in Indexed(e) /\ e.index[q] = f
    BY DEF Held
  <2>1. f \in Entries(c) /\ q \in PathsOf(c, f)
    BY <1>3 DEF Entries, PathsOf
  <2>2. q \in held /\ c.index[q] = f
    BY <1>6, <2>1 DEF Held, Sound, EntriesOK
  <2>3. Has(c, j[q], q) /\ q \in Indexed(e) /\ e.index[q] = j[q]
    BY <1>1, <1>3, <2>2 DEF Indexed
  <2>4. c.index[q] = j[q]
    BY <1>6, <2>3 DEF Held, Has
  <2> QED BY <2>2, <2>3, <2>4
<1> QED BY <1>3, <1>4, <1>5, <1>6 DEF Sound

-----------------------------------------------------------------------------
(* Ranks.  The rank of an entry counts the times before its own: ranking    *)
(* again keeps the order, and no rank reaches the number of the digests.    *)

Earlier(a, d) == {g \in DOMAIN a : a[g] < a[d]}
Times(a, d) == {a[f] : f \in Earlier(a, d)}

LEMMA TimesCounted ==
    ASSUME NEW S \in SUBSET Digests, NEW a \in [S -> Nat], NEW d \in S
    PROVE  /\ IsFiniteSet(Times(a, d))
           /\ Cardinality(Times(a, d)) \in Nat
           /\ Cardinality(Times(a, d)) < Cardinality(Digests)
<1>1. /\ IsFiniteSet(Digests \ {d}) /\ Cardinality(Digests) \in Nat
      /\ Cardinality(Digests \ {d}) = Cardinality(Digests) - 1
  BY CacheAssumption, FS_RemoveElement, FS_CardinalityType
<1>2. Earlier(a, d) \in SUBSET (Digests \ {d})
  BY DEF Earlier
<1>3. /\ IsFiniteSet(Earlier(a, d)) /\ Cardinality(Earlier(a, d)) \in Nat
      /\ Cardinality(Earlier(a, d)) <= Cardinality(Digests) - 1
  <2>1. /\ IsFiniteSet(Earlier(a, d))
        /\ Cardinality(Earlier(a, d)) <= Cardinality(Digests \ {d})
    BY <1>1, <1>2, FS_Subset
  <2> QED BY <1>1, <2>1, FS_CardinalityType
<1> DEFINE s == [f \in Earlier(a, d) |-> a[f]]
<1>4. s \in Surjection(Earlier(a, d), Times(a, d))
  BY DEF Surjection, Times
<1> HIDE DEF s
<1>5. /\ IsFiniteSet(Times(a, d))
      /\ Cardinality(Times(a, d)) <= Cardinality(Earlier(a, d))
  BY <1>3, <1>4, FS_Surjection
<1>6. Cardinality(Times(a, d)) \in Nat
  BY <1>5, FS_CardinalityType
<1> QED BY <1>1, <1>3, <1>5, <1>6

LEMMA Ranks ==
    ASSUME NEW S \in SUBSET Digests, NEW a \in [S -> Nat]
    PROVE  /\ Dense(a) \in [S -> Nat]
           /\ \A d \in S : Dense(a)[d] < Cardinality(Digests)
           /\ \A d, f \in S : a[f] < a[d] => Dense(a)[f] < Dense(a)[d]
<1>1. Dense(a) = [d \in S |-> Cardinality(Times(a, d))]
  BY DEF Dense, Times, Earlier
<1>2. ASSUME NEW d \in S
      PROVE  /\ Cardinality(Times(a, d)) \in Nat
             /\ Cardinality(Times(a, d)) < Cardinality(Digests)
  BY TimesCounted
<1>3. ASSUME NEW d \in S, NEW f \in S, a[f] < a[d]
      PROVE  Cardinality(Times(a, f)) < Cardinality(Times(a, d))
  <2>1. Times(a, f) \in SUBSET Times(a, d)
    <3>1. Earlier(a, f) \subseteq Earlier(a, d)
      BY <1>3 DEF Earlier
    <3> QED BY <3>1 DEF Times
  <2>2. a[f] \in Times(a, d) /\ a[f] \notin Times(a, f)
    <3>1. f \in Earlier(a, d)
      BY <1>3 DEF Earlier
    <3>2. \A g \in Earlier(a, f) : a[g] # a[f]
      BY DEF Earlier
    <3> QED BY <3>1, <3>2 DEF Times
  <2>3. /\ IsFiniteSet(Times(a, d)) /\ Cardinality(Times(a, d)) \in Nat
        /\ Cardinality(Times(a, f)) \in Nat
    BY TimesCounted
  <2>4. /\ Cardinality(Times(a, f)) <= Cardinality(Times(a, d))
        /\ Cardinality(Times(a, d)) = Cardinality(Times(a, f)) => Times(a, d) = Times(a, f)
    BY <2>1, <2>3, FS_Subset
  <2> QED BY <2>2, <2>3, <2>4
<1> QED BY <1>1, <1>2, <1>3

(* The entry that is used now is newer than all others, and the others stay *)
(* in their order.                                                          *)
LEMMA UsedNowRanks ==
    ASSUME NEW S \in SUBSET Digests, NEW last \in [S -> Nat], NEW d \in Digests,
           \A f \in S : last[f] < Cardinality(Digests),
           NEW u, u = UsedNow(last, d)
    PROVE  /\ \A f \in S \cup {d} : u[f] \in Nat /\ u[f] < Cardinality(Digests)
           /\ \A f \in S \ {d} : u[f] < u[d]
           /\ \A f, g \in S \ {d} : last[f] < last[g] => u[f] < u[g]
<1> DEFINE a == Put(last, d, Cardinality(Digests))
<1>1. Cardinality(Digests) \in Nat
  BY CacheAssumption, FS_CardinalityType
<1>2. /\ a \in [S \cup {d} -> Nat] /\ a[d] = Cardinality(Digests)
      /\ \A f \in S \ {d} : a[f] = last[f]
  BY <1>1 DEF Put
<1>3. u = Dense(a)
  BY DEF UsedNow
<1> HIDE DEF a
<1>4. S \cup {d} \in SUBSET Digests
  OBVIOUS
<1>5. /\ u \in [S \cup {d} -> Nat]
      /\ \A f \in S \cup {d} : u[f] < Cardinality(Digests)
      /\ \A f, g \in S \cup {d} : a[g] < a[f] => u[g] < u[f]
  BY <1>2, <1>3, <1>4, Ranks
<1> QED BY <1>2, <1>5

Ranked(c) == \A f \in Entries(c) : c.last[f] < Cardinality(Digests)

LEMMA AttachRanks ==
    ASSUME NEW c, Sound(c), Ranked(c), NEW p, NEW d \in Digests, NEW pin,
           NEW a, a = Attach(c, p, d, pin)
    PROVE  /\ \A f \in Entries(c) \cup {d} : a.last[f] \in Nat /\ a.last[f] < Cardinality(Digests)
           /\ \A f \in Entries(c) \ {d} : a.last[f] < a.last[d]
           /\ \A f, g \in Entries(c) \ {d} : c.last[f] < c.last[g] => a.last[f] < a.last[g]
<1>1. a.last = UsedNow(c.last, d)
  BY DEF Attach
<1>2. /\ Entries(c) \in SUBSET Digests /\ c.last \in [Entries(c) -> Nat]
      /\ \A f \in Entries(c) : c.last[f] < Cardinality(Digests)
  BY DEF Sound, EntriesOK, LastOK, Ranked
<1> QED BY <1>1, <1>2, UsedNowRanks

LEMMA RegisteredRanked ==
    ASSUME NEW c, Sound(c), Ranked(c), NEW p \in Paths, NEW d \in Digests, NEW pin \in BOOLEAN,
           NEW e \in Registered(c, p, d, pin)
    PROVE  Ranked(e)
<1> DEFINE a == Attach(c, p, d, pin)
<1>1. PICK X \in Evictions(a) : e = Evict(a, X)
  BY DEF Registered
<1>2. /\ Sound(a) /\ Entries(a) = Entries(c) \cup {d}
      /\ \A f \in Entries(c) \cup {d} : a.last[f] < Cardinality(Digests)
  <2>1. a = Attach(c, p, d, pin)
    OBVIOUS
  <2> HIDE DEF a
  <2>2. Sound(a) /\ Entries(a) = Entries(c) \cup {d}
    BY <2>1, AttachSound
  <2> QED BY <2>1, <2>2, AttachRanks
<1> HIDE DEF a
<1>3. /\ Entries(e) = Entries(a) \ X /\ e.last = Restrict(a.last, Entries(a) \ X)
  <2>1. X \subseteq Entries(a)
    BY DEF Evictions, Candidates
  <2>2. Entries(e) = Entries(a) \ X
    BY <1>1, <1>2, <2>1, EvictSound
  <2> QED BY <1>1, <2>2 DEF Evict
<1> QED BY <1>2, <1>3 DEF Ranked, Restrict

(* What a registration evicts, and what it leaves. *)
LEMMA RegisteredInOrder ==
    ASSUME NEW c, Sound(c), Ranked(c), NEW p \in Paths, NEW d \in Digests, NEW pin \in BOOLEAN,
           NEW e \in Registered(c, p, d, pin)
    PROVE  /\ \A f \in Entries(e) : ~IsPinned(e, f) => Fits(Entries(e)) /\ d \in Entries(e)
           /\ \A g \in (Entries(c) \cup {d}) \ Entries(e), f \in Entries(e) \ {d} :
                 ~IsPinned(e, f) => c.last[g] <= c.last[f]
           /\ (Entries(c) \cup {d}) \ Entries(e) # {} =>
                 \E g \in (Entries(c) \cup {d}) \ Entries(e) : ~Fits(Entries(e) \cup {g})
<1> DEFINE gone == (Entries(c) \cup {d}) \ Entries(e)
           left == {f \in Entries(e) : ~IsPinned(e, f)}
<1> DEFINE a == Attach(c, p, d, pin)
<1>1. PICK X \in Evictions(a) : e = Evict(a, X)
  BY DEF Registered
<1>2. /\ Sound(a) /\ Entries(a) = Entries(c) \cup {d}
      /\ \A f \in Entries(c) \cup {d} : a.last[f] \in Nat
      /\ \A f \in Entries(c) \ {d} : a.last[f] < a.last[d]
      /\ \A f, g \in Entries(c) \ {d} : c.last[f] < c.last[g] => a.last[f] < a.last[g]
  <2>1. a = Attach(c, p, d, pin)
    OBVIOUS
  <2> HIDE DEF a
  <2>2. Sound(a) /\ Entries(a) = Entries(c) \cup {d}
    BY <2>1, AttachSound
  <2> QED BY <2>1, <2>2, AttachRanks
<1> HIDE DEF a
<1>3. /\ X \subseteq Candidates(a) /\ X \subseteq Entries(a)
      /\ Fits(Entries(a) \ X) \/ X = Candidates(a)
      /\ \A g \in X : \A f \in Candidates(a) \ X : ~(a.last[f] < a.last[g])
      /\ X # {} => \E g \in X : ~Fits(Entries(a) \ (X \ {g}))
  BY DEF Evictions, Candidates, Older
<1>4. /\ Entries(e) = Entries(a) \ X
      /\ \A f \in Entries(e) : e.entries[f] = a.entries[f]
  BY <1>1, <1>2, <1>3, EvictSound
<1>5. gone = X
  BY <1>2, <1>3, <1>4
<1>6. left = Candidates(a) \ X
  <2>1. \A f \in Entries(a) : PathsOf(a, f) # {}
    BY <1>2 DEF Sound, EntriesOK
  <2>2. \A f \in Entries(e) : IsPinned(e, f) <=> IsPinned(a, f)
    BY <1>4 DEF IsPinned, PathsOf
  <2> QED BY <1>4, <2>1, <2>2 DEF Candidates
<1>7. ASSUME left # {} PROVE Fits(Entries(e))
  BY <1>3, <1>4, <1>6, <1>7
<1>8. ASSUME left # {} PROVE d \notin gone
  <2>1. PICK f \in left : TRUE
    BY <1>8
  <2>2. f \in Entries(a) /\ f \notin X /\ f \in Candidates(a) \ X
    BY <1>6 DEF Candidates
  <2>3. CASE f = d
    BY <1>5, <2>2, <2>3
  <2>4. CASE f # d
    BY <1>2, <1>3, <1>5, <2>2, <2>4
  <2> QED BY <2>3, <2>4
<1>9. ASSUME NEW g \in gone, NEW f \in left \ {d} PROVE c.last[g] <= c.last[f]
  <2>1. /\ g \in X /\ g # d /\ f \in Candidates(a) \ X /\ f \in Entries(a) /\ g \in Entries(a)
    BY <1>3, <1>5, <1>6, <1>8 DEF Candidates
  <2>2. /\ f \in Entries(c) \ {d} /\ g \in Entries(c) \ {d}
        /\ c.last[f] \in Nat /\ c.last[g] \in Nat
    BY <1>2, <2>1 DEF Sound, LastOK
  <2>3. ~(a.last[f] < a.last[g])
    BY <1>3, <2>1
  <2> QED BY <1>2, <2>2, <2>3
<1>10. ASSUME gone # {} PROVE \E g \in gone : ~Fits(Entries(e) \cup {g})
  <2>1. PICK g \in X : ~Fits(Entries(a) \ (X \ {g}))
    BY <1>3, <1>5, <1>10
  <2>2. Entries(a) \ (X \ {g}) = Entries(e) \cup {g}
    BY <1>3, <1>4
  <2> QED BY <1>5, <2>1, <2>2
<1>11. \A f : f \in left <=> f \in Entries(e) /\ ~IsPinned(e, f)
  OBVIOUS
<1> HIDE DEF left
<1> QED BY <1>7, <1>8, <1>9, <1>10, <1>11

-----------------------------------------------------------------------------
(* Evictions says what the loop of _enforce_limits may take, not how.  That *)
(* it never asks for the impossible: of the sets of candidates that leave   *)
(* none older behind and after which the limits hold, a smallest will do.   *)

LEMMA LeastOf ==
    ASSUME NEW S \in SUBSET Nat, S # {}
    PROVE  \E n \in S : \A m \in S : n <= m
<1> DEFINE R == OpToRel(<, Nat)
<1>1. IsWellFoundedOn(R, Nat)
  BY NatLessThanWellFounded, Zenon
<1> HIDE DEF R
<1>2. PICK n \in S : \A m \in S : ~ (<< m, n >> \in R)
  BY <1>1, WFMin
<1>3. \A m \in S : ~ (m < n)
  BY <1>2 DEF R, OpToRel
<1> QED BY <1>3

LEMMA NewestOf ==
    ASSUME NEW X, IsFiniteSet(X), X # {}, NEW rank, \A d \in X : rank[d] \in Nat
    PROVE  \E d \in X : \A f \in X : rank[f] <= rank[d]
<1> DEFINE above(d) == {f \in X : rank[d] < rank[f]}
           sizes == {Cardinality(above(d)) : d \in X}
<1>1. \A d \in X : IsFiniteSet(above(d)) /\ Cardinality(above(d)) \in Nat
  BY FS_Subset, FS_CardinalityType
<1>2. sizes \subseteq Nat /\ sizes # {}
  BY <1>1
<1>3. PICK n \in sizes : \A m \in sizes : n <= m
  <2> HIDE DEF sizes
  <2> QED BY <1>2, LeastOf
<1>4. PICK d \in X : \A f \in X : Cardinality(above(d)) <= Cardinality(above(f))
  BY <1>3
<1>5. ASSUME NEW f \in X, rank[d] < rank[f] PROVE FALSE
  <2>1. above(f) \in SUBSET above(d) /\ f \in above(d) /\ f \notin above(f)
    BY <1>5
  <2> HIDE DEF above
  <2>2. /\ Cardinality(above(f)) <= Cardinality(above(d))
        /\ Cardinality(above(d)) = Cardinality(above(f)) => above(d) = above(f)
    BY <1>1, <2>1, FS_Subset
  <2>3. Cardinality(above(d)) <= Cardinality(above(f))
    BY <1>4
  <2>4. Cardinality(above(d)) \in Nat /\ Cardinality(above(f)) \in Nat
    BY <1>1
  <2> QED BY <2>1, <2>2, <2>3, <2>4
<1>6. \A f \in X : rank[f] <= rank[d]
  BY <1>5
<1> QED BY <1>6

LEMMA RoomCanBeMade ==
    ASSUME NEW c, Sound(c)
    PROVE  Evictions(c) # {}
<1> DEFINE C == Candidates(c)
           Oldest(X) == \A d \in X : \A f \in C \ X : ~Older(c, f, d)
           Enough == {X \in SUBSET C : Oldest(X) /\ (Fits(Entries(c) \ X) \/ X = C)}
           sizes == {Cardinality(X) : X \in Enough}
<1>1. /\ IsFiniteSet(C)
      /\ \A d \in C : d \in Entries(c) /\ c.last[d] \in Nat
  <2>1. C \in SUBSET Digests /\ \A d \in C : d \in Entries(c)
    BY DEF Candidates, Sound, EntriesOK
  <2>2. c.last \in [Entries(c) -> Nat]
    BY DEF Sound, LastOK
  <2> QED BY <2>1, <2>2, CacheAssumption, FS_Subset
<1>2. \A X \in SUBSET C : IsFiniteSet(X) /\ Cardinality(X) \in Nat
  BY <1>1, FS_Subset, FS_CardinalityType
<1>3. C \in Enough
  OBVIOUS
<1>4. sizes \subseteq Nat /\ sizes # {}
  BY <1>2, <1>3
<1>5. PICK n \in sizes : \A m \in sizes : n <= m
  <2> HIDE DEF sizes
  <2> QED BY <1>4, LeastOf
<1>6. PICK X \in Enough : \A Y \in Enough : Cardinality(X) <= Cardinality(Y)
  BY <1>5
<1>7. /\ X \in SUBSET C /\ Oldest(X) /\ (Fits(Entries(c) \ X) \/ X = C)
      /\ IsFiniteSet(X) /\ Cardinality(X) \in Nat
  BY <1>2, <1>6
<1>8. ASSUME X # {}
      PROVE  \E d \in X : ~Fits(Entries(c) \ (X \ {d})) /\ \A f \in X : ~Older(c, d, f)
  <2>1. PICK d \in X : \A f \in X : c.last[f] <= c.last[d]
    <3>1. \A f \in X : c.last[f] \in Nat
      BY <1>1, <1>7
    <3> HIDE DEF Enough
    <3> QED BY <1>7, <1>8, <3>1, NewestOf
  <2>2. \A f \in X : ~Older(c, d, f)
    BY <1>1, <1>7, <2>1 DEF Older
  <2>3. Oldest(X \ {d})
    <3> SUFFICES ASSUME NEW g \in X \ {d}, NEW f \in C \ (X \ {d}) PROVE ~Older(c, f, g)
      OBVIOUS
    <3>1. CASE f = d
      BY <2>2, <3>1
    <3>2. CASE f # d
      BY <1>7, <3>2
    <3> QED BY <3>1, <3>2
  <2>4. Cardinality(X \ {d}) = Cardinality(X) - 1
    BY <1>7, FS_RemoveElement
  <2>5. X \ {d} \notin Enough
    BY <1>6, <1>7, <2>4
  <2>6. ~Fits(Entries(c) \ (X \ {d}))
    BY <1>7, <2>3, <2>5
  <2> QED BY <2>2, <2>6
<1>9. X \in Evictions(c)
  BY <1>7, <1>8 DEF Evictions
<1> QED BY <1>9
=============================================================================
