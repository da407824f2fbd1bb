--------------------------- MODULE IngestQueue_proofs ---------------------------
(***************************************************************************)
(* Theorems about IngestQueue, for any contents, sizes and limits of the   *)
(* cache, and any number of files and restarts.                            *)
(*                                                                         *)
(* The index decides what is a duplicate.  Found says that it leads from   *)
(* the digest of a staged record to that record, unless another record     *)
(* took it out; this is why a content is staged once, and why there is a   *)
(* copy of whatever a duplicate was refused for.                           *)
(*                                                                         *)
(* CacheInv adds what holds between the records and the cache, from the    *)
(* lemmas about single methods in DedupCache_proofs: every path in it is a *)
(* file under the digest of its record, so that a registration never finds *)
(* its path in another entry.                                              *)
(***************************************************************************)
EXTENDS IngestQueue, DedupCache_proofs

Typed ==
    /\ Ids \subseteq 1..used /\ used \in 0..MaxFiles
    /\ records = [i \in Ids |-> records[i]] /\ \A i \in Ids : records[i] \in Record
    /\ DOMAIN index \subseteq Digests
    /\ index = [d \in DOMAIN index |-> index[d]] /\ \A d \in DOMAIN index : index[d] \in Ids
    /\ files \subseteq 1..used
    /\ registry \subseteq Digests /\ strays \subseteq Digests /\ dropped \subseteq Digests
    /\ restarts \in 0..MaxRestarts

Unsettled == \A d \in DOMAIN index : /\ records[index[d]].digest = d
                                     /\ records[index[d]].status \in {"staged", "failed"}

Found == \A i \in Ids : Staged(i) /\ Digest(i) \notin strays =>
            Digest(i) \in DOMAIN index /\ index[Digest(i)] = i

(* There is a row or a copy; of the row's content, see Shelved. *)
Known(d) == d \in registry \/ Copies(d) # {}

Accounted == \A i \in Ids : records[i].status # "released" =>
                Known(Digest(i)) \/ Digest(i) \in dropped

IngestInv == Typed /\ Unsettled /\ Found /\ Accounted

-----------------------------------------------------------------------------
(* The greatest of a set of files is one of them. *)
LEMMA MaxIsIn ==
    ASSUME NEW n \in Nat, NEW S \in SUBSET (1..n), S # {}
    PROVE  Max(S) \in S
<1> DEFINE above(x) == {y \in S : y >= x}
           T == {above(x) : x \in S}
<1>1. IsFiniteSet(S)
  <2>1. IsFiniteSet(1..n)
    BY FS_Interval
  <2> QED BY <2>1, FS_Subset
<1>0. S \subseteq Nat
  OBVIOUS
<1>2. IsWellFoundedOn(StrictSubsetOrdering(S), SUBSET S)
  BY <1>1, FS_StrictSubsetOrderingWellFounded, FS_FiniteSubsetsOfFinite
<1>3. T \subseteq SUBSET S /\ T # {}
  OBVIOUS
<1> HIDE DEF T
<1>4. PICK A \in T : \A B \in T : ~(<<B, A>> \in StrictSubsetOrdering(S))
  BY <1>2, <1>3, WFMin
<1>5. PICK x \in S : A = above(x)
  BY <1>4 DEF T
<1>6. ASSUME NEW y \in S PROVE x >= y
  <2> SUFFICES ASSUME y > x PROVE FALSE
    BY <1>0
  <2>0. above(y) \subseteq above(x) /\ x \in above(x) /\ x \notin above(y)
    <3>1. x \in Nat /\ y \in Nat /\ y > x /\ x >= x /\ ~(x >= y)
      BY <1>0
    <3>2. \A z \in S : z >= y => z >= x
      BY <1>0, <3>1
    <3> QED BY <3>1, <3>2
  <2>1. above(y) \in T /\ above(y) \subseteq above(x) /\ x \in above(x) /\ x \notin above(y)
    BY <2>0 DEF T
  <2>2. <<above(y), A>> \in StrictSubsetOrdering(S)
    BY <1>3, <1>5, <2>1 DEF StrictSubsetOrdering
  <2> QED BY <1>4, <2>1, <2>2
<1>7. \E z \in S : \A y \in S : z >= y
  BY <1>6
<1> QED BY <1>7 DEF Max

-----------------------------------------------------------------------------
(* A step that changes no digests and brings no record back loses nothing   *)
(* as long as every content that was there stays.                           *)
LEMMA LosesNothing ==
    ASSUME IngestInv, Ids' = Ids,
           \A i \in Ids : /\ records'[i].digest = records[i].digest
                          /\ records'[i].status # "released" => records[i].status # "released",
           \A d \in Digests : Known(d) \/ d \in dropped => Known(d)' \/ d \in dropped'
    PROVE  Accounted'
<1> SUFFICES ASSUME NEW i \in Ids', records'[i].status # "released"
             PROVE  Known(Digest(i))' \/ Digest(i)' \in dropped'
  BY DEF Accounted
<1>1. /\ i \in Ids /\ records[i].status # "released" /\ records[i].digest \in Digests
      /\ records'[i].digest = records[i].digest
  <2>1. i \in Ids
    OBVIOUS
  <2>2. records[i].digest \in Digests
    BY <2>1 DEF IngestInv, Typed, Record
  <2> QED BY <2>1, <2>2
<1>2. Known(records[i].digest) \/ records[i].digest \in dropped
  BY <1>1 DEF IngestInv, Accounted, Digest
<1>3. Digest(i)' = records[i].digest
  BY <1>1 DEF Digest
<1> QED BY <1>1, <1>2, <1>3 DEF Known, Copies

LEMMA NextName ==
    ASSUME IngestInv, used < MaxFiles, used' = used + 1 PROVE used' \in Paths
BY IngestAssumption DEF IngestInv, Typed

(* A new record: the others are as they were. *)
LEMMA NewRecord ==
    ASSUME IngestInv, used < MaxFiles, used' = used + 1, NEW r \in Record,
           records' = Put(records, used', r)
    PROVE  /\ used' \notin Ids /\ used' \notin files /\ used' \in 1..used' /\ used' \in 0..MaxFiles
           /\ Ids' = Ids \cup {used'} /\ Ids' \subseteq 1..used'
           /\ records'[used'] = r /\ \A i \in Ids : records'[i] = records[i]
           /\ records' = [i \in Ids' |-> records'[i]] /\ \A i \in Ids' : records'[i] \in Record
<1>1. used \in Nat /\ used \in 0..MaxFiles /\ Ids \subseteq 1..used /\ files \subseteq 1..used
  BY IngestAssumption DEF IngestInv, Typed
<1>2. used' \notin 1..used /\ used' \in 1..used' /\ used' \in 0..MaxFiles /\ 1..used \subseteq 1..used'
  BY <1>1, IngestAssumption
<1>3. /\ Ids' = Ids \cup {used'} /\ records' = [i \in Ids' |-> records'[i]]
      /\ records'[used'] = r /\ \A i \in Ids \ {used'} : records'[i] = records[i]
  BY DEF Ids, Put
<1>4. \A i \in Ids' : records'[i] \in Record
  BY <1>1, <1>2, <1>3 DEF IngestInv, Typed
<1> QED BY <1>1, <1>2, <1>3, <1>4

LEMMA EnqueueDuplicateInv ==
    ASSUME IngestInv, NEW d \in Digests, EnqueueDuplicate(d) PROVE IngestInv'
<1> DEFINE r == [status |-> "duplicate", digest |-> d, staged |-> FALSE, pinned |-> FALSE,
                 dest |-> used']
<1>0. r \in Record /\ r.status = "duplicate" /\ r.digest = d /\ r.staged = FALSE
  <2>1. used' \in Paths
    BY NextName DEF EnqueueDuplicate
  <2> QED BY <2>1 DEF Record
<1> HIDE DEF r
<1>1. /\ used < MaxFiles /\ used' = used + 1 /\ records' = Put(records, used', r)
      /\ index' = index /\ files' = files /\ registry' = registry
      /\ strays' = strays /\ dropped' = dropped /\ restarts' = restarts /\ IsDuplicate(d)
  BY DEF EnqueueDuplicate, r
<1>2. /\ used' \notin Ids /\ used' \notin files /\ used' \in 1..used' /\ used' \in 0..MaxFiles
      /\ Ids' = Ids \cup {used'} /\ Ids' \subseteq 1..used'
      /\ records'[used'] = r /\ \A i \in Ids : records'[i] = records[i]
      /\ records' = [i \in Ids' |-> records'[i]] /\ \A i \in Ids' : records'[i] \in Record
  BY <1>0, <1>1, NewRecord
<1>3. files \subseteq 1..used'
  BY <1>1, IngestAssumption DEF IngestInv, Typed
<1>4. Typed'
  BY <1>1, <1>2, <1>3 DEF IngestInv, Typed
<1>5. Unsettled'
  <2>1. \A e \in DOMAIN index : index[e] \in Ids /\ index'[e] = index[e] /\ DOMAIN index' = DOMAIN index
    BY <1>1 DEF IngestInv, Typed
  <2> QED BY <1>1, <1>2, <2>1 DEF IngestInv, Unsettled
<1>6. Found'
  BY <1>0, <1>1, <1>2 DEF IngestInv, Found, Staged, Digest
<1>7. \A e \in Digests : Copies(e)' = Copies(e)
  BY <1>0, <1>1, <1>2 DEF Copies, HasFile
<1>8. Known(d)' \/ d \in dropped'
  <2>1. CASE d \in DOMAIN index
    <3>1. index[d] \in Ids /\ records[index[d]].digest = d
          /\ records[index[d]].status # "released"
      BY <2>1 DEF IngestInv, Typed, Unsettled
    <3>2. Known(d) \/ d \in dropped
      BY <3>1 DEF IngestInv, Accounted, Digest
    <3> QED BY <1>1, <1>7, <3>2 DEF Known
  <2>2. CASE d \in registry
    BY <1>1, <2>2 DEF Known
  <2> QED BY <1>1, <2>1, <2>2 DEF IsDuplicate
<1>9. Accounted'
  <2> SUFFICES ASSUME NEW i \in Ids', records'[i].status # "released"
               PROVE  Known(Digest(i))' \/ Digest(i)' \in dropped'
    BY DEF Accounted
  <2>1. CASE i = used'
    BY <1>0, <1>2, <1>8, <2>1 DEF Digest
  <2>2. CASE i # used'
    <3>1. i \in Ids /\ records'[i] = records[i] /\ records[i].digest \in Digests
      BY <1>2, <2>2 DEF IngestInv, Typed, Record
    <3>2. Known(records[i].digest) \/ records[i].digest \in dropped
      BY <3>1 DEF IngestInv, Accounted, Digest
    <3> QED BY <1>1, <1>7, <3>1, <3>2 DEF Known, Digest
  <2> QED BY <2>1, <2>2
<1> QED BY <1>4, <1>5, <1>6, <1>9 DEF IngestInv

LEMMA EnqueueMissingInv ==
    ASSUME IngestInv, NEW d \in Digests, EnqueueMissing(d) PROVE IngestInv'
<1> DEFINE r == [status |-> "failed", digest |-> d, staged |-> FALSE, pinned |-> FALSE,
                 dest |-> used']
<1>0. r \in Record /\ r.status = "failed" /\ r.digest = d /\ r.staged = FALSE
  <2>1. used' \in Paths
    BY NextName DEF EnqueueMissing
  <2> QED BY <2>1 DEF Record
<1> HIDE DEF r
<1>1. /\ used < MaxFiles /\ used' = used + 1 /\ records' = Put(records, used', r)
      /\ index' = index /\ files' = files /\ registry' = registry
      /\ strays' = strays /\ dropped' = dropped \cup {d} /\ restarts' = restarts
  BY DEF EnqueueMissing, r
<1>2. /\ used' \notin Ids /\ used' \notin files /\ used' \in 1..used' /\ used' \in 0..MaxFiles
      /\ Ids' = Ids \cup {used'} /\ Ids' \subseteq 1..used'
      /\ records'[used'] = r /\ \A i \in Ids : records'[i] = records[i]
      /\ records' = [i \in Ids' |-> records'[i]] /\ \A i \in Ids' : records'[i] \in Record
  BY <1>0, <1>1, NewRecord
<1>3. files \subseteq 1..used'
  BY <1>1, IngestAssumption DEF IngestInv, Typed
<1>4. Typed'
  BY <1>1, <1>2, <1>3 DEF IngestInv, Typed
<1>5. Unsettled'
  <2>1. \A e \in DOMAIN index : index[e] \in Ids /\ index'[e] = index[e] /\ DOMAIN index' = DOMAIN index
    BY <1>1 DEF IngestInv, Typed
  <2> QED BY <1>1, <1>2, <2>1 DEF IngestInv, Unsettled
<1>6. Found'
  BY <1>0, <1>1, <1>2 DEF IngestInv, Found, Staged, Digest
<1>7. \A e \in Digests : Copies(e)' = Copies(e)
  BY <1>0, <1>1, <1>2 DEF Copies, HasFile
<1>9. Accounted'
  <2> SUFFICES ASSUME NEW i \in Ids', records'[i].status # "released"
               PROVE  Known(Digest(i))' \/ Digest(i)' \in dropped'
    BY DEF Accounted
  <2>1. CASE i = used'
    BY <1>0, <1>1, <1>2, <2>1 DEF Digest
  <2>2. CASE i # used'
    <3>1. i \in Ids /\ records'[i] = records[i] /\ records[i].digest \in Digests
      BY <1>2, <2>2 DEF IngestInv, Typed, Record
    <3>2. Known(records[i].digest) \/ records[i].digest \in dropped
      BY <3>1 DEF IngestInv, Accounted, Digest
    <3> QED BY <1>1, <1>7, <3>1, <3>2 DEF Known, Digest
  <2> QED BY <2>1, <2>2
<1> QED BY <1>4, <1>5, <1>6, <1>9 DEF IngestInv

LEMMA EnqueueNewInv ==
    ASSUME IngestInv, NEW d \in Digests, NEW pin \in BOOLEAN,
           NEW dest \in Dests \cup {used + 1}, EnqueueNew(d, pin, dest)
    PROVE  IngestInv'
<1> DEFINE r == [status |-> "staged", digest |-> d, staged |-> TRUE, pinned |-> pin,
                 dest |-> dest]
<1>0. r \in Record /\ r.status = "staged" /\ r.digest = d /\ r.staged = TRUE
  <2>1. dest \in Dests \cup Paths
    BY NextName DEF EnqueueNew
  <2> QED BY <2>1 DEF Record
<1> HIDE DEF r
<1>1. /\ used < MaxFiles /\ used' = used + 1 /\ records' = Put(records, used', r)
      /\ index' = Put(index, d, used') /\ files' = files \cup {used'} /\ registry' = registry
      /\ strays' = strays /\ dropped' = dropped \ {d} /\ restarts' = restarts
      /\ ~IsDuplicate(d)
  BY DEF EnqueueNew, r
<1>2. /\ used' \notin Ids /\ used' \notin files /\ used' \in 1..used' /\ used' \in 0..MaxFiles
      /\ Ids' = Ids \cup {used'} /\ Ids' \subseteq 1..used'
      /\ records'[used'] = r /\ \A i \in Ids : records'[i] = records[i]
      /\ records' = [i \in Ids' |-> records'[i]] /\ \A i \in Ids' : records'[i] \in Record
  BY <1>0, <1>1, NewRecord
<1>3. files' \subseteq 1..used'
  BY <1>1, <1>2, IngestAssumption DEF IngestInv, Typed
<1>4. /\ DOMAIN index' = DOMAIN index \cup {d} /\ index'[d] = used'
      /\ \A e \in DOMAIN index \ {d} : index'[e] = index[e]
      /\ index' = [e \in DOMAIN index' |-> index'[e]]
  BY <1>1 DEF Put
<1>5. Typed'
  BY <1>1, <1>2, <1>3, <1>4 DEF IngestInv, Typed
<1>6. Unsettled'
  BY <1>0, <1>1, <1>2, <1>4 DEF IngestInv, Typed, Unsettled
<1>7. Found'
  <2> SUFFICES ASSUME NEW i \in Ids', Staged(i)', records'[i].digest \notin strays
               PROVE  /\ records'[i].digest \in DOMAIN index'
                      /\ index'[records'[i].digest] = i
    BY <1>1 DEF Found, Digest
  <2>1. CASE i = used'
    BY <1>0, <1>2, <1>4, <2>1
  <2>2. CASE i # used'
    <3>1. i \in Ids /\ records'[i] = records[i] /\ Staged(i)
      BY <1>2, <2>2 DEF Staged
    <3>2. records[i].digest \in DOMAIN index /\ index[records[i].digest] = i
      BY <3>1 DEF IngestInv, Found, Digest
    <3>3. records[i].digest # d
      BY <1>1, <3>2 DEF IsDuplicate
    <3> QED BY <1>4, <3>1, <3>2, <3>3
  <2> QED BY <2>1, <2>2
<1>8. /\ \A e \in Digests : Copies(e) \subseteq Copies(e)'
      /\ used' \in Copies(d)'
  BY <1>0, <1>1, <1>2 DEF Copies, HasFile
<1>9. Accounted'
  <2> SUFFICES ASSUME NEW i \in Ids', records'[i].status # "released"
               PROVE  Known(Digest(i))' \/ Digest(i)' \in dropped'
    BY DEF Accounted
  <2>1. CASE records'[i].digest = d
    BY <1>8, <2>1 DEF Digest, Known
  <2>2. CASE records'[i].digest # d
    <3>1. i \in Ids /\ records'[i] = records[i] /\ records[i].digest \in Digests
      BY <1>0, <1>2, <2>2 DEF IngestInv, Typed, Record
    <3>2. Known(records[i].digest) \/ records[i].digest \in dropped
      BY <3>1 DEF IngestInv, Accounted, Digest
    <3> QED BY <1>1, <1>8, <2>2, <3>1, <3>2 DEF Known, Digest
  <2> QED BY <2>1, <2>2
<1> QED BY <1>5, <1>6, <1>7, <1>9 DEF IngestInv

-----------------------------------------------------------------------------
(* A content whose last copy goes is in the registry, or was dropped.       *)
LEMMA CopiesLeft ==
    ASSUME IngestInv, NEW i \in Ids, NEW d \in Digests,
           files' = files \ {i}, registry' = registry, Ids' = Ids,
           \A j \in Ids \ {i} : records'[j] = records[j],
           dropped' = IF HasFile(i) /\ Copies(Digest(i)) = {i}
                      THEN dropped \cup {Digest(i)} ELSE dropped,
           Known(d) \/ d \in dropped
    PROVE  Known(d)' \/ d \in dropped'
<1>1. CASE d \in dropped \/ d \in registry
  BY <1>1 DEF Known
<1>2. CASE d \notin dropped /\ d \notin registry
  <2>1. PICK j \in Ids : records[j].digest = d /\ HasFile(j)
    BY <1>2 DEF Known, Copies
  <2>2. ASSUME NEW k \in Ids, k # i, records[k].digest = d, HasFile(k) PROVE k \in Copies(d)'
    BY <2>2 DEF Copies, HasFile
  <2>3. CASE \E k \in Ids : k # i /\ records[k].digest = d /\ HasFile(k)
    BY <2>2, <2>3 DEF Known
  <2>4. CASE ~\E k \in Ids : k # i /\ records[k].digest = d /\ HasFile(k)
    <3>1. j = i /\ HasFile(i) /\ Digest(i) = d
      BY <2>1, <2>4 DEF Digest
    <3>2. Copies(d) = {i}
      BY <2>1, <2>4, <3>1 DEF Copies
    <3> QED BY <3>1, <3>2
  <2> QED BY <2>3, <2>4
<1> QED BY <1>1, <1>2

LEMMA ReleaseInv ==
    ASSUME IngestInv, NEW i \in Ids, Release(i) PROVE IngestInv'
<1> DEFINE r == [records[i] EXCEPT !.status = "released", !.staged = FALSE, !.pinned = FALSE]
<1>0. records[i] \in Record
  BY DEF IngestInv, Typed
<1>1. /\ r \in Record /\ r.status = "released" /\ r.digest = records[i].digest
      /\ r.staged = FALSE
  BY <1>0 DEF Record
<1>2. /\ records' = [records EXCEPT ![i] = r]
      /\ files' = IF records[i].staged THEN files \ {i} ELSE files
      /\ index' = Pop(index, {Digest(i)})
      /\ strays' = IF Digest(i) \in DOMAIN index /\ index[Digest(i)] # i
                   THEN strays \cup {Digest(i)} ELSE strays
      /\ dropped' = IF HasFile(i) /\ Copies(Digest(i)) = {i}
                    THEN dropped \cup {Digest(i)} ELSE dropped
      /\ registry' = registry /\ used' = used /\ restarts' = restarts
      /\ Releasable(i)
  BY DEF Release
<1> HIDE DEF r
<1>3. /\ Ids' = Ids /\ records'[i] = r /\ \A j \in Ids \ {i} : records'[j] = records[j]
      /\ records' = [j \in Ids |-> records'[j]]
      /\ records[i].digest \in Digests
  BY <1>0, <1>2 DEF Ids, Record
<1>4. /\ DOMAIN index' = DOMAIN index \ {Digest(i)}
      /\ \A d \in DOMAIN index' : index'[d] = index[d]
      /\ index' = [d \in DOMAIN index' |-> index'[d]]
  BY <1>2 DEF Pop, Restrict
<1>5. \A j \in Ids : records'[j].digest = records[j].digest
  BY <1>1, <1>3
<1>6. Typed'
  BY <1>1, <1>2, <1>3, <1>4 DEF IngestInv, Typed, Digest
<1>7. Unsettled'
  <2> SUFFICES ASSUME NEW d \in DOMAIN index'
               PROVE  /\ records'[index'[d]].digest = d
                      /\ records'[index'[d]].status \in {"staged", "failed"}
    BY DEF Unsettled
  <2>1. /\ d \in DOMAIN index /\ d # Digest(i) /\ index'[d] = index[d] /\ index[d] \in Ids
        /\ records[index[d]].digest = d /\ records[index[d]].status \in {"staged", "failed"}
    BY <1>4 DEF IngestInv, Typed, Unsettled
  <2>2. index[d] # i
    BY <2>1 DEF Digest
  <2> QED BY <1>3, <2>1, <2>2
<1>8. Found'
  <2> SUFFICES ASSUME NEW j \in Ids', Staged(j)', records'[j].digest \notin strays'
               PROVE  /\ records'[j].digest \in DOMAIN index'
                      /\ index'[records'[j].digest] = j
    BY DEF Found, Digest
  <2>1. j \in Ids /\ j # i /\ records'[j] = records[j] /\ Staged(j)
    BY <1>1, <1>3 DEF Staged
  <2>2. records[j].digest \notin strays
    BY <1>2, <2>1
  <2>3. records[j].digest \in DOMAIN index /\ index[records[j].digest] = j
    BY <2>1, <2>2 DEF IngestInv, Found, Digest
  <2>4. records[j].digest # records[i].digest
    BY <1>2, <2>1, <2>3 DEF Digest
  <2> QED BY <1>4, <2>1, <2>3, <2>4 DEF Digest
<1>9. ASSUME NEW d \in Digests, Known(d) \/ d \in dropped PROVE Known(d)' \/ d \in dropped'
  <2>1. CASE i \in files /\ records[i].staged
    BY <1>2, <1>3, <1>9, <2>1, CopiesLeft
  <2>2. CASE ~records[i].staged
    <3>1. \A e \in Digests : Copies(e) = Copies(e)'
      BY <1>1, <1>2, <1>3, <1>5, <2>2 DEF Copies, HasFile
    <3> QED BY <1>2, <1>9, <3>1 DEF Known
  <2>3. CASE i \notin files
    <3>1. \A e \in Digests : Copies(e) = Copies(e)'
      BY <1>1, <1>2, <1>3, <1>5, <2>3 DEF Copies, HasFile
    <3> QED BY <1>2, <1>9, <3>1 DEF Known
  <2> QED BY <2>1, <2>2, <2>3
<1>10. Accounted'
  BY <1>1, <1>3, <1>5, <1>9, LosesNothing
<1> QED BY <1>6, <1>7, <1>8, <1>10 DEF IngestInv

LEMMA RemovedInv ==
    ASSUME IngestInv, NEW i \in files, Removed(i) PROVE IngestInv'
<1>1. /\ files' = files \ {i}
      /\ dropped' = IF HasFile(i) /\ Copies(Digest(i)) = {i}
                    THEN dropped \cup {Digest(i)} ELSE dropped
      /\ records' = records /\ index' = index /\ registry' = registry /\ used' = used
      /\ restarts' = restarts /\ strays' = strays /\ Ids' = Ids
  BY DEF Removed, Ids
<1>2. Typed'
  <2>1. HasFile(i) => Digest(i) \in Digests
    BY DEF HasFile, Digest, IngestInv, Typed, Record
  <2> QED BY <1>1, <2>1 DEF IngestInv, Typed
<1>3. Unsettled' /\ Found'
  BY <1>1 DEF IngestInv, Unsettled, Found, Staged, Digest
<1>4. ASSUME NEW d \in Digests, Known(d) \/ d \in dropped PROVE Known(d)' \/ d \in dropped'
  <2>1. CASE i \in Ids
    BY <1>1, <1>4, <2>1, CopiesLeft
  <2>2. CASE i \notin Ids
    <3>1. Copies(d)' = Copies(d)
      BY <1>1, <2>2 DEF Copies, HasFile
    <3>2. ~HasFile(i)
      BY <2>2 DEF HasFile
    <3> QED BY <1>1, <1>4, <3>1, <3>2 DEF Known
  <2> QED BY <2>1, <2>2
<1>5. Accounted'
  BY <1>1, <1>4, LosesNothing
<1> QED BY <1>2, <1>3, <1>5 DEF IngestInv

(* Settled records keep their digests. *)
LEMMA SettleEach ==
    ASSUME IngestInv, NEW S, NEW accepted, records' = Settle(S, accepted), NEW i \in Ids
    PROVE  /\ records'[i] \in Record /\ records'[i].digest = records[i].digest
           /\ i \in accepted => records'[i].status = "applied"
           /\ i \notin accepted => /\ records'[i].staged = records[i].staged
                                 /\ \/ records'[i] = records[i]
                                    \/ /\ records'[i].status = "failed"
                                       /\ Staged(i)
<1>1. records[i] \in Record
  BY DEF IngestInv, Typed
<1>2. records'[i] = IF i \in accepted
                    THEN [records[i] EXCEPT !.status = "applied",
                                            !.staged = FALSE, !.pinned = FALSE]
                    ELSE IF i \in S /\ Staged(i) /\ records[i].staged
                    THEN [records[i] EXCEPT !.status = "failed"]
                    ELSE records[i]
  BY DEF Settle
<1>3. CASE i \in accepted
  BY <1>1, <1>2, <1>3 DEF Record
<1>4. CASE i \notin accepted /\ i \in S /\ Staged(i) /\ records[i].staged
  BY <1>1, <1>2, <1>4 DEF Record
<1>5. CASE i \notin accepted /\ ~(i \in S /\ Staged(i) /\ records[i].staged)
  BY <1>1, <1>2, <1>5
<1> QED BY <1>3, <1>4, <1>5

(* What has left a file is registered. *)
LEMMA ApplyInv ==
    ASSUME IngestInv, NEW S \in SUBSET Ids, NEW accepted \in SUBSET Ready(S),
           NEW rows \in SUBSET Ready(S), NEW loose, NEW last,
           Apply(S, accepted, rows, loose, last)
    PROVE  IngestInv'
<1>1. /\ records' = Settle(S, accepted)
      /\ registry' = registry \cup DigestsOf(rows) /\ DigestsOf(accepted) \subseteq registry'
      /\ files' = files \ accepted
      /\ index' = Pop(index, DigestsOf(accepted))
      /\ strays' = strays \cup {d \in DOMAIN index \cap DigestsOf(accepted) :
                                   index[d] \notin accepted}
      /\ used' = used /\ restarts' = restarts /\ dropped' = dropped
  BY DEF Apply, Register
<1>2. \A i \in accepted \cup rows : i \in S /\ i \in Ids /\ Staged(i) /\ HasFile(i)
  BY DEF Ready
<1>3. \A i \in Ids :
         /\ records'[i] \in Record /\ records'[i].digest = records[i].digest
         /\ i \in accepted => records'[i].status = "applied"
         /\ i \notin accepted => /\ records'[i].staged = records[i].staged
                               /\ \/ records'[i] = records[i]
                                  \/ /\ records'[i].status = "failed"
                                     /\ Staged(i)
  BY <1>1, SettleEach
<1>4. Ids' = Ids /\ records' = [i \in Ids' |-> records'[i]]
  BY <1>1 DEF Ids, Settle
<1>5. DigestsOf(rows) \subseteq Digests
  <2>1. ASSUME NEW i \in rows PROVE records[i].digest \in Digests
    BY <1>2 DEF IngestInv, Typed, Record
  <2> QED BY <2>1 DEF DigestsOf, Digest
<1>6. /\ DOMAIN index' = DOMAIN index \ DigestsOf(accepted)
      /\ \A d \in DOMAIN index' : index'[d] = index[d]
      /\ index' = [d \in DOMAIN index' |-> index'[d]]
  BY <1>1 DEF Pop, Restrict
<1>7. Typed'
  BY <1>1, <1>3, <1>4, <1>5, <1>6 DEF IngestInv, Typed
<1>8. Unsettled'
  <2> SUFFICES ASSUME NEW d \in DOMAIN index'
               PROVE  /\ records'[index'[d]].digest = d
                      /\ records'[index'[d]].status \in {"staged", "failed"}
    BY DEF Unsettled
  <2>1. /\ d \notin DigestsOf(accepted) /\ index'[d] = index[d] /\ index[d] \in Ids
        /\ records[index[d]].digest = d /\ records[index[d]].status \in {"staged", "failed"}
    BY <1>6 DEF IngestInv, Typed, Unsettled
  <2>2. index[d] \notin accepted
    BY <2>1 DEF DigestsOf, Digest
  <2> QED BY <1>3, <2>1, <2>2
<1>9. Found'
  <2> SUFFICES ASSUME NEW j \in Ids', Staged(j)', records'[j].digest \notin strays'
               PROVE  /\ records'[j].digest \in DOMAIN index'
                      /\ index'[records'[j].digest] = j
    BY DEF Found, Digest
  <2>1. /\ j \in Ids /\ j \notin accepted /\ records'[j] = records[j] /\ Staged(j)
    BY <1>3, <1>4 DEF Staged
  <2>2. records[j].digest \in DOMAIN index /\ index[records[j].digest] = j
    BY <1>1, <2>1 DEF IngestInv, Found, Digest
  <2>3. records[j].digest \notin DigestsOf(accepted)
    BY <1>1, <2>1, <2>2
  <2> QED BY <1>6, <2>1, <2>2, <2>3
<1>10. ASSUME NEW d \in Digests, Known(d) \/ d \in dropped PROVE Known(d)' \/ d \in dropped'
  <2>1. CASE d \in dropped \/ d \in registry
    BY <1>1, <2>1 DEF Known
  <2>2. CASE \E j \in Ids : records[j].digest = d /\ HasFile(j)
    <3>1. PICK j \in Ids : records[j].digest = d /\ HasFile(j)
      BY <2>2
    <3>2. CASE j \in accepted
      BY <1>1, <3>1, <3>2 DEF Known, DigestsOf, Digest
    <3>3. CASE j \notin accepted
      <4>1. j \in Copies(d)'
        BY <1>1, <1>3, <1>4, <3>1, <3>3 DEF Copies, HasFile
      <4> QED BY <4>1 DEF Known
    <3> QED BY <3>2, <3>3
  <2> QED BY <1>10, <2>1, <2>2 DEF Known, Copies
<1>11. Accounted'
  <2>1. \A i \in Ids : /\ records'[i].digest = records[i].digest
                       /\ records'[i].status # "released" => records[i].status # "released"
    BY <1>2, <1>3 DEF Staged
  <2> QED BY <1>4, <1>10, <2>1, LosesNothing
<1> QED BY <1>7, <1>8, <1>9, <1>11 DEF IngestInv

-----------------------------------------------------------------------------
(* A record is read back with its digest and its status. *)
LEMMA ReloadEach ==
    ASSUME IngestInv, NEW left, records' = Reload(records, left), NEW i \in Ids
    PROVE  /\ records'[i] \in Record /\ records'[i].digest = records[i].digest
           /\ records'[i].status = records[i].status
           /\ i \in left => records'[i].staged = records[i].staged
<1>1. records[i] \in Record
  BY DEF IngestInv, Typed
<1>2. records'[i] = IF records[i].status = "staged" /\ records[i].staged /\ i \notin left
                    THEN [records[i] EXCEPT !.staged = FALSE, !.pinned = FALSE]
                    ELSE records[i]
  BY DEF Ids, Reload
<1>3. CASE records[i].status = "staged" /\ records[i].staged /\ i \notin left
  <2>1. records'[i] = [records[i] EXCEPT !.staged = FALSE, !.pinned = FALSE]
    BY <1>2, <1>3
  <2>2. /\ records'[i] \in Record /\ records'[i].digest = records[i].digest
        /\ records'[i].status = records[i].status
    BY <1>1, <2>1 DEF Record
  <2> QED BY <1>3, <2>2
<1>4. CASE ~(records[i].status = "staged" /\ records[i].staged /\ i \notin left)
  BY <1>1, <1>2, <1>4
<1> QED BY <1>3, <1>4

(* A start, from the files that a crash has left. *)
LEMMA StartAgainInv ==
    ASSUME IngestInv, NEW left, NEW c, StartAgain(left, c),
           used' \in 0..MaxFiles, used <= used', left \subseteq 1..used',
           registry' \subseteq Digests, dropped' \subseteq Digests,
           \A d \in Digests : Known(d) \/ d \in dropped =>
              \/ d \in registry' \/ d \in dropped'
              \/ \E i \in Ids : records[i].digest = d /\ records[i].staged /\ i \in left
    PROVE  IngestInv'
<1>1. /\ restarts' \in 0..MaxRestarts /\ files' = left
      /\ records' = Reload(records, left) /\ index' = IndexOf(records') /\ strays' = strays
  BY IngestAssumption DEF StartAgain, IngestInv, Typed
<1>2. Ids' = Ids /\ records' = [i \in Ids' |-> records'[i]]
  BY <1>1 DEF Ids, Reload
<1>3. \A i \in Ids : /\ records'[i] \in Record /\ records'[i].digest = records[i].digest
                     /\ records'[i].status = records[i].status
                     /\ i \in left => records'[i].staged = records[i].staged
  BY <1>1, ReloadEach
<1>4. Ids' \subseteq 1..used' /\ Ids' \subseteq 1..used /\ used \in Nat
  BY <1>2, IngestAssumption DEF IngestInv, Typed
<1> DEFINE staged(d) == {i \in Ids : records'[i].status = "staged" /\ records'[i].digest = d}
<1>5. /\ DOMAIN index' = {d \in Digests : staged(d) # {}}
      /\ \A d \in DOMAIN index' : index'[d] = Max(staged(d))
      /\ index' = [d \in DOMAIN index' |-> index'[d]]
  <2>1. index' = [d \in {e \in Digests : staged(e) # {}} |-> Max(staged(d))]
    BY <1>1, <1>2 DEF IndexOf, Ids
  <2> QED BY <2>1
<1>6. ASSUME NEW d \in DOMAIN index' PROVE index'[d] \in staged(d)
  <2>1. staged(d) \in SUBSET (1..used) /\ staged(d) # {}
    BY <1>2, <1>4, <1>5
  <2> HIDE DEF staged
  <2> QED BY <1>4, <1>5, <2>1, MaxIsIn
<1>7. Typed'
  <2>1. \A d \in DOMAIN index' : index'[d] \in Ids'
    BY <1>2, <1>6
  <2> HIDE DEF staged
  <2>2. DOMAIN index' \subseteq Digests
    BY <1>5
  <2>3. \A i \in Ids' : records'[i] \in Record
    BY <1>2, <1>3
  <2> QED BY <1>1, <1>2, <1>4, <1>5, <2>1, <2>2, <2>3 DEF IngestInv, Typed
<1>8. Unsettled'
  BY <1>6 DEF Unsettled
<1>9. Found'
  <2> SUFFICES ASSUME NEW j \in Ids', Staged(j)', records'[j].digest \notin strays'
               PROVE  /\ records'[j].digest \in DOMAIN index'
                      /\ index'[records'[j].digest] = j
    BY DEF Found, Digest
  <2>1. j \in Ids /\ j \in staged(records'[j].digest) /\ records'[j].digest \in Digests
    <3>1. j \in Ids /\ records'[j].status = "staged"
      BY <1>2 DEF Staged
    <3>2. records'[j] \in Record
      BY <1>3, <3>1
    <3>3. records'[j].digest \in Digests
      BY <3>2 DEF Record
    <3> QED BY <3>1, <3>3
  <2>2. records'[j].digest \in DOMAIN index'
    BY <1>5, <2>1
  <2>3. ASSUME NEW k \in staged(records'[j].digest) PROVE k = index[records'[j].digest]
    <3>1. k \in Ids /\ Staged(k) /\ Digest(k) = records'[j].digest
      BY <1>3, <2>3 DEF Staged, Digest
    <3> QED BY <1>1, <3>1 DEF IngestInv, Found
  <2> QED BY <1>6, <2>1, <2>2, <2>3
<1>10. ASSUME NEW d \in Digests, Known(d) \/ d \in dropped PROVE Known(d)' \/ d \in dropped'
  <2>1. CASE \E i \in Ids : records[i].digest = d /\ records[i].staged /\ i \in left
    <3>1. PICK i \in Ids : records[i].digest = d /\ records[i].staged /\ i \in left
      BY <2>1
    <3>2. i \in Copies(d)'
      BY <1>1, <1>2, <1>3, <3>1 DEF Copies, HasFile
    <3> QED BY <3>2 DEF Known
  <2> QED BY <1>10, <2>1 DEF Known
<1>11. Accounted'
  <2>1. \A i \in Ids : /\ records'[i].digest = records[i].digest
                       /\ records'[i].status # "released" => records[i].status # "released"
    BY <1>3
  <2> HIDE DEF staged
  <2> QED BY <1>2, <1>10, <2>1, LosesNothing
<1> QED BY <1>7, <1>8, <1>9, <1>11 DEF IngestInv

LEMMA CrashInApplyInv ==
    ASSUME IngestInv, NEW rows \in SUBSET Ready(Ids), NEW loose, NEW last,
           NEW registered \in SUBSET Ready(Ids), NEW released, NEW unlinked,
           CrashInApply(rows, loose, last, registered, released, unlinked)
    PROVE  IngestInv'
<1>1. PICK c : StartAgain(files \ unlinked, c)
  BY DEF CrashInApply
<1>2. /\ unlinked \subseteq registered
      /\ registry' = registry \cup DigestsOf(rows) /\ DigestsOf(registered) \subseteq registry'
      /\ used' = used /\ dropped' = dropped
  BY DEF CrashInApply, Register
<1>3. DigestsOf(rows) \subseteq Digests
  <2>1. ASSUME NEW i \in rows PROVE records[i].digest \in Digests
    <3>1. i \in Ids
      BY DEF Ready
    <3>2. records[i] \in Record
      BY <3>1 DEF IngestInv, Typed
    <3> QED BY <3>2 DEF Record
  <2> QED BY <2>1 DEF DigestsOf, Digest
<1>4. ASSUME NEW d \in Digests, Known(d) \/ d \in dropped
      PROVE  \/ d \in registry' \/ d \in dropped'
             \/ \E i \in Ids : records[i].digest = d /\ records[i].staged /\ i \in files \ unlinked
  <2>1. CASE d \in dropped \/ d \in registry
    BY <1>2, <2>1
  <2>2. CASE \E j \in Ids : records[j].digest = d /\ HasFile(j)
    <3>1. PICK j \in Ids : records[j].digest = d /\ HasFile(j)
      BY <2>2
    <3>2. CASE j \in unlinked
      BY <1>2, <3>1, <3>2 DEF DigestsOf, Digest
    <3>3. CASE j \notin unlinked
      BY <3>1, <3>3 DEF HasFile
    <3> QED BY <3>2, <3>3
  <2> QED BY <1>4, <2>1, <2>2 DEF Known, Copies
<1>5. /\ used' \in 0..MaxFiles /\ used <= used' /\ files \ unlinked \subseteq 1..used'
      /\ registry' \subseteq Digests /\ dropped' \subseteq Digests
  BY <1>2, <1>3, IngestAssumption DEF IngestInv, Typed
<1> QED BY <1>1, <1>4, <1>5, StartAgainInv

LEMMA CrashInEnqueueInv ==
    ASSUME IngestInv, NEW d \in Digests, NEW pin \in BOOLEAN, CrashInEnqueue(d, pin)
    PROVE  IngestInv'
<1>1. PICK c : StartAgain(files \cup {used'}, c)
  BY DEF CrashInEnqueue
<1>2. used < MaxFiles /\ used' = used + 1 /\ registry' = registry /\ dropped' = dropped
  BY DEF CrashInEnqueue
<1>3. \A e \in Digests : Known(e) \/ e \in dropped =>
              \/ e \in registry' \/ e \in dropped'
              \/ \E i \in Ids : /\ records[i].digest = e /\ records[i].staged
                               /\ i \in files \cup {used'}
  BY <1>2 DEF Known, Copies, HasFile
<1>4. /\ used' \in 0..MaxFiles /\ used <= used' /\ files \cup {used'} \subseteq 1..used'
      /\ registry' \subseteq Digests /\ dropped' \subseteq Digests
  BY <1>2, IngestAssumption DEF IngestInv, Typed
<1> QED BY <1>1, <1>3, <1>4, StartAgainInv

LEMMA CrashInReleaseInv ==
    ASSUME IngestInv, NEW i \in Ids, NEW unlinked \in BOOLEAN, CrashInRelease(i, unlinked)
    PROVE  IngestInv'
<1> DEFINE left == IF unlinked THEN files \ {i} ELSE files
<1>1. PICK c : StartAgain(left, c)
  BY DEF CrashInRelease
<1>2. /\ registry' = registry /\ used' = used
      /\ dropped' = IF unlinked /\ HasFile(i) /\ Copies(Digest(i)) = {i}
                    THEN dropped \cup {Digest(i)} ELSE dropped
  BY DEF CrashInRelease
<1>3. records[i].digest \in Digests
  BY DEF IngestInv, Typed, Record
<1>4. ASSUME NEW d \in Digests, Known(d) \/ d \in dropped
      PROVE  \/ d \in registry' \/ d \in dropped'
             \/ \E j \in Ids : records[j].digest = d /\ records[j].staged /\ j \in left
  <2>1. CASE d \in dropped \/ d \in registry
    BY <1>2, <2>1
  <2>2. CASE \E j \in Ids : j # i /\ records[j].digest = d /\ HasFile(j)
    BY <2>2 DEF HasFile
  <2>3. CASE /\ ~\E j \in Ids : j # i /\ records[j].digest = d /\ HasFile(j)
             /\ d \notin dropped /\ d \notin registry
    <3>1. Copies(d) = {i} /\ records[i].digest = d /\ HasFile(i)
      BY <1>4, <2>3 DEF Known, Copies
    <3>2. CASE unlinked
      BY <1>2, <3>1, <3>2 DEF Digest
    <3>3. CASE ~unlinked
      BY <3>1, <3>3 DEF HasFile
    <3> QED BY <3>2, <3>3
  <2> QED BY <2>1, <2>2, <2>3
<1>5. /\ used' \in 0..MaxFiles /\ used <= used' /\ left \subseteq 1..used'
      /\ registry' \subseteq Digests /\ dropped' \subseteq Digests
  BY <1>2, <1>3, IngestAssumption DEF IngestInv, Typed, Digest
<1> HIDE DEF left
<1> QED BY <1>1, <1>4, <1>5, StartAgainInv

LEMMA RestartInv == ASSUME IngestInv, Restart PROVE IngestInv'
<1>1. StartAgain(files, cache) /\ registry' = registry /\ used' = used /\ dropped' = dropped
  BY DEF Restart
<1>2. \A d \in Digests : Known(d) \/ d \in dropped =>
              \/ d \in registry' \/ d \in dropped'
              \/ \E i \in Ids : records[i].digest = d /\ records[i].staged /\ i \in files
  BY <1>1 DEF Known, Copies, HasFile
<1>3. /\ used' \in 0..MaxFiles /\ used <= used' /\ files \subseteq 1..used'
      /\ registry' \subseteq Digests /\ dropped' \subseteq Digests
  BY <1>1, IngestAssumption DEF IngestInv, Typed
<1> QED BY <1>1, <1>2, <1>3, StartAgainInv

-----------------------------------------------------------------------------
LEMMA InitInv == IngestInit => IngestInv
<1> SUFFICES ASSUME IngestInit PROVE IngestInv
  OBVIOUS
<1>1. /\ Ids = {} /\ DOMAIN index = {} /\ used = 0 /\ restarts = 0 /\ files = {}
      /\ registry = {} /\ strays = {} /\ dropped = {}
      /\ records = [i \in {} |-> records[i]] /\ index = [d \in {} |-> index[d]]
  BY DEF IngestInit, Ids
<1>2. 0 \in 0..MaxFiles /\ 0 \in 0..MaxRestarts
  BY IngestAssumption
<1> QED BY <1>1, <1>2 DEF IngestInv, Typed, Unsettled, Found, Accounted

LEMMA NextInv == IngestInv /\ [IngestNext]_ingestVars => IngestInv'
<1> SUFFICES ASSUME IngestInv, [IngestNext]_ingestVars PROVE IngestInv'
  OBVIOUS
<1>1. ASSUME NEW d \in Digests, EnqueueDuplicate(d) \/ EnqueueMissing(d) PROVE IngestInv'
  BY <1>1, EnqueueDuplicateInv, EnqueueMissingInv
<1>2. ASSUME NEW d \in Digests, NEW pin \in BOOLEAN,
             \/ CrashInEnqueue(d, pin)
             \/ \E dest \in Dests \cup {used + 1} : EnqueueNew(d, pin, dest)
      PROVE  IngestInv'
  BY <1>2, EnqueueNewInv, CrashInEnqueueInv
<1>3. ASSUME NEW S \in SUBSET Ids, NEW r \in SUBSET Fresh(S), NEW o, NEW l,
             NEW a \in SUBSET (Ready(S) \ o), Apply(S, a, r, o, l)
      PROVE  IngestInv'
  BY <1>3, ApplyInv DEF Fresh
<1>4. ASSUME NEW i \in Ids, Release(i) PROVE IngestInv'
  BY <1>4, ReleaseInv
<1>5. ASSUME NEW i \in Ids, NEW b \in BOOLEAN, CrashInRelease(i, b) PROVE IngestInv'
  BY <1>5, CrashInReleaseInv
<1>6. ASSUME NEW i \in files, Removed(i) PROVE IngestInv'
  BY <1>6, RemovedInv
<1>7. CASE Restart
  BY <1>7, RestartInv
<1>8. ASSUME NEW r \in SUBSET Fresh(Ids), NEW o, NEW l, NEW a \in SUBSET (Ready(Ids) \ o),
             NEW b, NEW u, CrashInApply(r, o, l, a, b, u)
      PROVE  IngestInv'
  BY <1>8, CrashInApplyInv DEF Fresh
<1>9. CASE UNCHANGED ingestVars
  BY <1>9 DEF ingestVars, IngestInv, Typed, Unsettled, Found, Accounted, Ids, Staged,
              Digest, Known, Copies, HasFile
<1> QED BY <1>1, <1>2, <1>3, <1>4, <1>5, <1>6, <1>7, <1>8, <1>9 DEF IngestNext

LEMMA AlwaysInv == IngestSpec => []IngestInv
BY InitInv, NextInv, PTL DEF IngestSpec

-----------------------------------------------------------------------------
(* The assets.  A row is entered once the file was copied to its place; what *)
(* is copied over it later is another content, of a record with that place. *)

Shelved ==
    /\ assets = [p \in DOMAIN assets |-> assets[p]]
    /\ \A p \in DOMAIN assets : \E i \in Ids : Place(i) = p /\ Digest(i) = assets[p]
    /\ \A i \in Ids : Place(i) \in Dests \cup {i}
    /\ \A d \in registry : d \in Range(assets) \/ Displaced(d)

LEMMA ShelvedTyped ==
    ASSUME IngestInv, Shelved
    PROVE  DOMAIN assets \in SUBSET (Dests \cup Paths) /\ assets \in [DOMAIN assets -> Digests]
<1>1. ASSUME NEW p \in DOMAIN assets PROVE p \in Dests \cup Paths /\ assets[p] \in Digests
  <2>1. PICK i \in Ids : Place(i) = p /\ Digest(i) = assets[p]
    BY DEF Shelved
  <2>2. records[i] \in Record
    BY DEF IngestInv, Typed
  <2> QED BY <2>1, <2>2 DEF Record, Place, Digest
<1> QED BY <1>1 DEF Shelved

(* Records that keep digest and place, and assets that are left alone. *)
LEMMA ShelvedKept ==
    ASSUME Shelved, assets' = assets, registry' = registry, Ids \subseteq Ids',
           \A i \in Ids : /\ records'[i].digest = records[i].digest
                          /\ records'[i].dest = records[i].dest,
           \A i \in Ids' \ Ids : records'[i].dest \in Dests \cup {i}
    PROVE  Shelved'
<1>1. ASSUME NEW i \in Ids PROVE /\ i \in Ids' /\ Place(i)' = Place(i) /\ Digest(i)' = Digest(i)
  BY DEF Place, Digest
<1>2. \A p \in DOMAIN assets : \E i \in Ids' : Place(i)' = p /\ Digest(i)' = assets[p]
  BY <1>1 DEF Shelved
<1>3. \A i \in Ids' : Place(i)' \in Dests \cup {i}
  <2>1. ASSUME NEW i \in Ids' PROVE Place(i)' \in Dests \cup {i}
    <3>1. CASE i \in Ids
      BY <1>1, <3>1 DEF Shelved
    <3>2. CASE i \notin Ids
      BY <3>2 DEF Place
    <3> QED BY <3>1, <3>2
  <2> QED BY <2>1
<1>4. \A d : Displaced(d) => Displaced(d)'
  BY <1>1 DEF Displaced, Place
<1> QED BY <1>2, <1>3, <1>4 DEF Shelved, Range

(* register_file: what loses its place, does so to a record of another content. *)
LEMMA RegisterShelved ==
    ASSUME Shelved, NEW S \in SUBSET Ids, NEW rows, NEW loose, NEW last,
           Register(S, rows, loose, last), Ids' = Ids,
           \A i \in Ids : /\ records'[i].digest = records[i].digest
                          /\ records'[i].dest = records[i].dest
    PROVE  Shelved'
<1>1. \A i \in rows \cup loose : i \in Ids /\ Digest(i) \notin registry
  BY DEF Register, Ready
<1>2. /\ last \subseteq rows \cup loose
      /\ \A i, j \in last : Place(i) = Place(j) => i = j
      /\ \A i \in rows \cup loose : \E k \in last : Place(k) = Place(i)
      /\ \A i \in rows, k \in last : Digest(i) = Digest(k) /\ Place(i) = Place(k) => i = k
      /\ registry' = registry \cup DigestsOf(rows)
      /\ assets' = [p \in (DOMAIN assets \ PlacesOf(last)) \cup PlacesOf(last \cap rows) |->
                       IF p \in PlacesOf(last)
                       THEN Digest(CHOOSE i \in last : Place(i) = p) ELSE assets[p]]
  <2>1. PlacesOf(last) = PlacesOf(rows \cup loose)
    BY DEF Register
  <2>2. \A i \in rows \cup loose : Place(i) \in PlacesOf(last)
    BY <2>1 DEF PlacesOf
  <2>3. \A i \in rows \cup loose : \E k \in last : Place(k) = Place(i)
    BY <2>2 DEF PlacesOf
  <2> QED BY <2>3 DEF Register
<1>3. ASSUME NEW k \in last PROVE (CHOOSE i \in last : Place(i) = Place(k)) = k
  BY <1>2
<1>4. ASSUME NEW p \in DOMAIN assets, p \notin PlacesOf(last)
      PROVE  p \in DOMAIN assets' /\ assets'[p] = assets[p]
  BY <1>2, <1>4
<1>5. ASSUME NEW k \in last, k \in rows
      PROVE  Place(k) \in DOMAIN assets' /\ assets'[Place(k)] = Digest(k)
  <2>1. Place(k) \in PlacesOf(last) /\ Place(k) \in PlacesOf(last \cap rows)
    BY <1>5 DEF PlacesOf
  <2> QED BY <1>2, <1>3, <2>1
<1>6. ASSUME NEW p \in DOMAIN assets'
      PROVE  \/ p \in DOMAIN assets /\ assets'[p] = assets[p]
             \/ \E k \in last : k \in rows /\ p = Place(k)
  <2>1. CASE p \in PlacesOf(last \cap rows)
    BY <2>1 DEF PlacesOf
  <2>2. CASE p \notin PlacesOf(last \cap rows)
    BY <1>2, <1>6, <2>2
  <2> QED BY <2>1, <2>2
<1>7. ASSUME NEW i \in Ids
      PROVE  i \in Ids' /\ Place(i)' = Place(i) /\ Digest(i)' = Digest(i)
  BY DEF Place, Digest
<1>8. \A p \in DOMAIN assets' : \E i \in Ids' : Place(i)' = p /\ Digest(i)' = assets'[p]
  <2> SUFFICES ASSUME NEW p \in DOMAIN assets'
               PROVE  \E i \in Ids' : Place(i)' = p /\ Digest(i)' = assets'[p]
    OBVIOUS
  <2>1. CASE p \in DOMAIN assets /\ assets'[p] = assets[p]
    BY <1>7, <2>1 DEF Shelved
  <2>2. CASE \E k \in last : k \in rows /\ p = Place(k)
    <3>1. PICK k \in last : k \in rows /\ p = Place(k)
      BY <2>2
    <3> QED BY <1>1, <1>5, <1>7, <3>1
  <2> QED BY <1>6, <2>1, <2>2
<1>9. \A i \in Ids' : Place(i)' \in Dests \cup {i}
  BY <1>7 DEF Shelved
<1>10. \A d : d \in registry' /\ Displaced(d) => Displaced(d)'
  <2>1. registry \subseteq registry'
    BY <1>2
  <2> QED BY <1>7, <2>1 DEF Displaced, Place
<1>11. ASSUME NEW i \in Ids, NEW j \in Ids, Place(i) = Place(j), Digest(j) # Digest(i),
              NEW d \in registry', Digest(i) = d
       PROVE  Displaced(d)'
  <2>1. Place(i) \in Dests
    BY <1>11 DEF Shelved
  <2> QED BY <1>7, <1>11, <2>1 DEF Displaced, Place
<1>12. ASSUME NEW d \in registry' PROVE d \in Range(assets') \/ Displaced(d)'
  <2>1. CASE d \in registry /\ Displaced(d)
    BY <1>10, <2>1
  <2>2. CASE d \in registry /\ d \in Range(assets)
    <3>1. PICK p \in DOMAIN assets : assets[p] = d
      BY <2>2 DEF Range
    <3>2. CASE p \notin PlacesOf(last)
      BY <1>4, <3>1, <3>2 DEF Range
    <3>3. CASE p \in PlacesOf(last)
      <4>1. PICK k \in last : Place(k) = p
        BY <3>3 DEF PlacesOf
      <4>2. k \in Ids /\ Digest(k) # d
        BY <1>1, <1>2, <2>2
      <4>3. PICK i \in Ids : Place(i) = p /\ Digest(i) = d
        BY <3>1 DEF Shelved
      <4> QED BY <1>11, <4>1, <4>2, <4>3
    <3> QED BY <3>2, <3>3
  <2>3. CASE d \notin registry
    <3>1. PICK i \in rows : Digest(i) = d
      BY <1>2, <2>3 DEF DigestsOf
    <3>2. PICK k \in last : Place(k) = Place(i)
      BY <1>2
    <3>3. CASE Digest(k) = d
      <4>1. k = i
        BY <1>2, <3>1, <3>2, <3>3
      <4> QED BY <1>5, <3>1, <4>1 DEF Range
    <3>4. CASE Digest(k) # d
      <4>1. i \in Ids /\ k \in Ids
        BY <1>1, <1>2
      <4> QED BY <1>11, <3>1, <3>2, <3>4, <4>1
    <3> QED BY <3>3, <3>4
  <2> QED BY <2>1, <2>2, <2>3 DEF Shelved
<1>13. assets' = [p \in DOMAIN assets' |-> assets'[p]]
  BY <1>2
<1> QED BY <1>8, <1>9, <1>12, <1>13 DEF Shelved

LEMMA ShelvedNext == IngestInv /\ Shelved /\ [IngestNext]_ingestVars => Shelved'
<1> SUFFICES ASSUME IngestInv, Shelved, [IngestNext]_ingestVars PROVE Shelved'
  OBVIOUS
<1> DEFINE Alone == assets' = assets /\ registry' = registry
           Same == Ids' = Ids /\ \A i \in Ids : /\ records'[i].digest = records[i].digest
                                               /\ records'[i].dest = records[i].dest
           Added(r) == used < MaxFiles /\ used' = used + 1 /\ records' = Put(records, used', r)
<1>1. ASSUME Alone, Same PROVE Shelved'
  BY <1>1, ShelvedKept
<1>2. ASSUME NEW r \in Record, Alone, Added(r), r.dest \in Dests \cup {used'} PROVE Shelved'
  <2>1. /\ Ids' = Ids \cup {used'} /\ records'[used'] = r
        /\ \A i \in Ids : records'[i] = records[i]
    BY <1>2, NewRecord
  <2> QED BY <1>2, <2>1, ShelvedKept
<1>3. ASSUME NEW left, NEW c, StartAgain(left, c) PROVE Same
  <2>1. records' = Reload(records, left)
    BY <1>3 DEF StartAgain
  <2>2. Ids' = Ids
    BY <2>1 DEF Ids, Reload
  <2>3. ASSUME NEW i \in Ids
        PROVE  records'[i].digest = records[i].digest /\ records'[i].dest = records[i].dest
    <3>1. records[i] \in Record
      BY DEF IngestInv, Typed
    <3>2. \/ records'[i] = [records[i] EXCEPT !.staged = FALSE, !.pinned = FALSE]
          \/ records'[i] = records[i]
      BY <2>1 DEF Ids, Reload
    <3> QED BY <3>1, <3>2 DEF Record
  <2> QED BY <2>2, <2>3
<1>4. ASSUME NEW d \in Digests, EnqueueDuplicate(d) PROVE Shelved'
  <2> DEFINE r == [status |-> "duplicate", digest |-> d, staged |-> FALSE, pinned |-> FALSE,
                   dest |-> used']
  <2>1. used' \in Paths /\ Alone /\ Added(r)
    BY <1>4, NextName DEF EnqueueDuplicate
  <2>2. r \in Record /\ r.dest \in Dests \cup {used'}
    BY <2>1 DEF Record
  <2> HIDE DEF r, Added, Alone
  <2> QED BY <1>2, <2>1, <2>2
<1>5. ASSUME NEW d \in Digests, EnqueueMissing(d) PROVE Shelved'
  <2> DEFINE r == [status |-> "failed", digest |-> d, staged |-> FALSE, pinned |-> FALSE,
                   dest |-> used']
  <2>1. used' \in Paths /\ Alone /\ Added(r)
    BY <1>5, NextName DEF EnqueueMissing
  <2>2. r \in Record /\ r.dest \in Dests \cup {used'}
    BY <2>1 DEF Record
  <2> HIDE DEF r, Added, Alone
  <2> QED BY <1>2, <2>1, <2>2
<1>6. ASSUME NEW d \in Digests, NEW pin \in BOOLEAN, NEW dest \in Dests \cup {used + 1},
             EnqueueNew(d, pin, dest)
      PROVE  Shelved'
  <2> DEFINE r == [status |-> "staged", digest |-> d, staged |-> TRUE, pinned |-> pin,
                   dest |-> dest]
  <2>1. used' \in Paths /\ Alone /\ Added(r)
    BY <1>6, NextName DEF EnqueueNew
  <2>2. r \in Record /\ r.dest \in Dests \cup {used'}
    BY <1>6, <2>1 DEF Record, EnqueueNew
  <2> HIDE DEF r, Added, Alone
  <2> QED BY <1>2, <2>1, <2>2
<1>7. ASSUME NEW d \in Digests, NEW pin \in BOOLEAN, CrashInEnqueue(d, pin) PROVE Shelved'
  <2>1. PICK left, c : StartAgain(left, c)
    BY <1>7 DEF CrashInEnqueue
  <2> QED BY <1>1, <1>3, <1>7, <2>1 DEF CrashInEnqueue
<1>8. ASSUME NEW S \in SUBSET Ids, NEW r, NEW o, NEW l, NEW a, Apply(S, a, r, o, l)
      PROVE  Shelved'
  <2>1. records' = Settle(S, a) /\ Register(S, r, o, l)
    BY <1>8 DEF Apply
  <2>2. Ids' = Ids
    BY <2>1 DEF Ids, Settle
  <2>3. ASSUME NEW i \in Ids
        PROVE  records'[i].digest = records[i].digest /\ records'[i].dest = records[i].dest
    <3>1. records[i] \in Record
      BY DEF IngestInv, Typed
    <3>2. \/ records'[i] = [records[i] EXCEPT !.status = "applied",
                                              !.staged = FALSE, !.pinned = FALSE]
          \/ records'[i] = [records[i] EXCEPT !.status = "failed"]
          \/ records'[i] = records[i]
      BY <2>1 DEF Settle
    <3> QED BY <3>1, <3>2 DEF Record
  <2> QED BY <2>1, <2>2, <2>3, RegisterShelved
<1>9. ASSUME NEW i \in Ids, Release(i) PROVE Shelved'
  <2>1. /\ Alone
        /\ records' = [records EXCEPT ![i] = [@ EXCEPT !.status = "released",
                                                       !.staged = FALSE, !.pinned = FALSE]]
    BY <1>9 DEF Release
  <2>2. records[i] \in Record
    BY DEF IngestInv, Typed
  <2>3. Same
    BY <2>1, <2>2 DEF Ids, Record
  <2> QED BY <1>1, <2>1, <2>3
<1>10. ASSUME NEW i \in Ids, NEW b \in BOOLEAN, CrashInRelease(i, b) PROVE Shelved'
  <2>1. PICK left, c : StartAgain(left, c)
    BY <1>10 DEF CrashInRelease
  <2> QED BY <1>1, <1>3, <1>10, <2>1 DEF CrashInRelease
<1>11. ASSUME NEW i \in files, Removed(i) PROVE Shelved'
  BY <1>1, <1>11 DEF Removed, Ids
<1>12. CASE Restart
  BY <1>1, <1>3, <1>12 DEF Restart
<1>13. ASSUME NEW r, NEW o, NEW l, NEW a, NEW b, NEW u, CrashInApply(r, o, l, a, b, u)
       PROVE  Shelved'
  <2>1. PICK left, c : StartAgain(left, c)
    BY <1>13 DEF CrashInApply
  <2>2. Same /\ Register(Ids, r, o, l)
    BY <1>3, <1>13, <2>1 DEF CrashInApply
  <2> QED BY <2>2, RegisterShelved
<1>14. CASE UNCHANGED ingestVars
  BY <1>1, <1>14 DEF ingestVars, Ids
<1> HIDE DEF Alone, Same, Added
<1> QED BY <1>4, <1>5, <1>6, <1>7, <1>8, <1>9, <1>10, <1>11, <1>12, <1>13, <1>14 DEF IngestNext

LEMMA AlwaysShelved == IngestSpec => []Shelved
<1>1. IngestInit => Shelved
  BY DEF IngestInit, Shelved, Ids
<1> QED BY <1>1, ShelvedNext, AlwaysInv, PTL DEF IngestSpec

LEMMA InvSound == IngestInv /\ Shelved => RecordsSound
<1> SUFFICES ASSUME IngestInv, Shelved PROVE RecordsSound
  OBVIOUS
<1>1. TypeOK
  <2>1. /\ Ids \in SUBSET (1..used) /\ records \in [Ids -> Record]
        /\ DOMAIN index \in SUBSET Digests /\ index \in [DOMAIN index -> Ids]
    BY DEF IngestInv, Typed
  <2>2. DOMAIN assets \in SUBSET (Dests \cup Paths) /\ assets \in [DOMAIN assets -> Digests]
    BY ShelvedTyped
  <2> QED BY <2>1, <2>2 DEF TypeOK, IngestInv, Typed
<1>2. IndexIsTrue
  BY DEF IndexIsTrue, IngestInv, Unsettled, Found
<1>3. OneStagedPerDigest
  BY DEF OneStagedPerDigest, IngestInv, Found
<1> QED BY <1>1, <1>2, <1>3 DEF RecordsSound

(* Records and digest index agree through every call and every crash, and   *)
(* a content is staged once unless another record took it out of the index. *)
THEOREM RecordsAlwaysSound == IngestSpec => []RecordsSound
BY AlwaysInv, AlwaysShelved, InvSound, PTL

(* No content that was accepted is lost, wherever a call is cut short, but  *)
(* by release, by hand, or for another content at the place of its asset.   *)
THEOREM NothingIsLost == IngestSpec => []NothingLost
<1>1. IngestInv /\ Shelved => NothingLost
  <2> SUFFICES ASSUME IngestInv, Shelved, NEW i \in Ids, records[i].status # "released",
                      Digest(i) \notin dropped, ~Displaced(Digest(i))
               PROVE  Kept(Digest(i))
    BY DEF NothingLost
  <2>1. Digest(i) \in registry \/ Copies(Digest(i)) # {}
    BY DEF IngestInv, Accounted, Known
  <2> QED BY <2>1 DEF Shelved, Kept
<1> QED BY <1>1, AlwaysInv, AlwaysShelved, PTL

-----------------------------------------------------------------------------
(* The cache.  Every path in it is a file that was staged once, under the   *)
(* digest of its record; and until the process starts again, a path counts  *)
(* once, so that one release takes it out.                                  *)

Ones == [p \in Paths |-> 1]

Placed(c, r, u) == \A d \in Entries(c) : \A p \in PathsOf(c, d) :
                      p \in 1..u /\ (p \in DOMAIN r => r[p].digest = d)

Pins(c, d, i) == Has(c, d, i) /\ c.entries[d][i].pinned

(* The records in S that ask for a pin have it. *)
PinnedOf(c, r, S) ==
    \A i \in S \cap DOMAIN r : r[i].status = "staged" /\ r[i].staged /\ r[i].pinned =>
        Pins(c, r[i].digest, i)

LEMMA RegisterInSound ==
    ASSUME NEW c, Sound(c), Held(c), NEW p \in Paths, NEW d \in Digests, NEW pin \in BOOLEAN,
           \A f \in Entries(c) \ {d} : p \notin PathsOf(c, f),
           NEW e, e = RegisterIn(c, p, d, pin)
    PROVE  /\ Sound(e) /\ Held(e)
           /\ \A f \in Entries(e) : \A q \in PathsOf(e, f) : (f = d /\ q = p) \/ Has(c, f, q)
           /\ \A f, q : Pins(c, f, q) => Pins(e, f, q)
           /\ pin => Pins(e, d, p)
           /\ Counted(c, Ones) /\ p \notin Indexed(c) => Counted(e, Ones)
<1> DEFINE o == [q \in Paths |-> IF q = p THEN 0 ELSE 1]
<1>1. e \in Registered(c, p, d, pin)
  <2>1. PICK a : a = Attach(c, p, d, pin)
    OBVIOUS
  <2>2. Sound(a)
    BY <2>1, AttachSound
  <2>3. Evictions(a) # {}
    BY <2>2, RoomCanBeMade
  <2>4. Registered(c, p, d, pin) # {}
    BY <2>1, <2>3 DEF Registered
  <2> QED BY <2>4 DEF RegisterIn
<1>2. /\ \A q \in Paths : o[q] \in Nat
      /\ Ones[p] = o[p] + 1 /\ \A q \in Paths \ {p} : Ones[q] = o[q]
  BY DEF Ones
<1>3. ASSUME Counted(c, Ones), p \notin Indexed(c) PROVE Counted(c, o)
  <2> SUFFICES ASSUME NEW f \in Entries(c), NEW q \in PathsOf(c, f)
               PROVE  c.entries[f][q].refs <= o[q]
    BY DEF Counted
  <2>1. q # p /\ q \in Paths
    BY <1>3 DEF Held, Sound, EntriesOK
  <2>2. c.entries[f][q].refs <= Ones[q]
    BY <1>3 DEF Counted
  <2> QED BY <1>2, <2>1, <2>2
<1> HIDE DEF o
<1>4. /\ Sound(e)
      /\ Held(e) /\ (Counted(c, o) => Counted(e, Ones))
      /\ \A f \in Entries(e) : \A q \in PathsOf(e, f) : (f = d /\ q = p) \/ Has(c, f, q)
      /\ \A f, q : Has(c, f, q) /\ c.entries[f][q].pinned =>
            Has(e, f, q) /\ e.entries[f][q].pinned
      /\ pin => Has(e, d, p) /\ e.entries[d][p].pinned
  BY <1>1, <1>2, RegisteredSound
<1> QED BY <1>3, <1>4 DEF Pins

LEMMA ReleasedOnce ==
    ASSUME NEW c, Sound(c), Held(c), NEW p \in Paths, NEW r, r = Released(c, p)
    PROVE  /\ Sound(r) /\ Held(r)
           /\ \A f \in Entries(r) : \A q \in PathsOf(r, f) : Has(c, f, q)
           /\ \A f, q : Pins(c, f, q) /\ q # p => Pins(r, f, q)
           /\ Counted(c, Ones) => Counted(r, Ones) /\ p \notin Indexed(r)
<1> DEFINE w == [q \in Paths |-> IF q = p THEN 0 ELSE 1]
<1>1. /\ \A q \in Paths : Ones[q] \in Nat
      /\ Ones[p] > 0 /\ w[p] = Ones[p] - 1 /\ \A q \in Paths \ {p} : w[q] = Ones[q]
      /\ w[p] = 0 /\ \A q \in Paths : w[q] <= Ones[q]
  BY DEF Ones
<1> HIDE DEF w
<1>2. /\ Sound(r) /\ Held(r) /\ (Counted(c, Ones) => Counted(r, w))
      /\ \A f \in Entries(r) : \A q \in PathsOf(r, f) : Has(c, f, q)
      /\ \A f, q : Has(c, f, q) /\ q # p => Has(r, f, q) /\ r.entries[f][q] = c.entries[f][q]
  BY <1>1, ReleasedSound
<1>3. ASSUME Counted(r, w) PROVE Counted(r, Ones) /\ p \notin Indexed(r)
  <2>1. ASSUME NEW f \in Entries(r), NEW q \in PathsOf(r, f)
        PROVE  r.entries[f][q].refs <= Ones[q] /\ q # p
    <3>1. q \in Paths /\ r.entries[f][q] \in PathRecord
      BY <1>2 DEF Sound, EntriesOK
    <3>2. r.entries[f][q].refs \in Nat \ {0}
      BY <3>1 DEF PathRecord
    <3>3. r.entries[f][q].refs <= w[q]
      BY <1>3 DEF Counted
    <3>4. q # p
      BY <1>1, <3>2, <3>3
    <3> QED BY <1>1, <3>1, <3>2, <3>3, <3>4
  <2>2. p \notin Indexed(r)
    <3> SUFFICES ASSUME p \in Indexed(r) PROVE FALSE
      OBVIOUS
    <3>1. Has(r, r.index[p], p)
      BY <1>2 DEF Sound, IndexOK
    <3> QED BY <2>1, <3>1 DEF Has
  <2> QED BY <2>1, <2>2 DEF Counted
<1> QED BY <1>2, <1>3 DEF Pins

(* What is read back is what was written. *)
LEMMA LoadedBack ==
    ASSUME NEW c, Sound(c), Held(c), NEW e, e = CHOOSE l \in Loaded(c) : TRUE
    PROVE  Sound(e) /\ Held(e) /\ e.entries = c.entries
<1> DEFINE held == {p \in Paths : \E d \in Entries(c) : p \in PathsOf(c, d)}
           j == [p \in held |-> c.index[p]]
<1>1. j \in [held -> Digests]
  BY DEF Held, Sound, EntriesOK
<1>2. \A p \in DOMAIN j : Has(c, j[p], p)
  BY DEF Held, Has
<1>3. Loaded(c) # {}
  BY <1>1, <1>2 DEF Loaded
<1>4. e \in Loaded(c)
  BY <1>3
<1>5. PICK k : e = [c EXCEPT !.index = k]
  BY <1>4 DEF Loaded
<1>6. e.entries = c.entries
  BY <1>5 DEF Sound, Shaped
<1> QED BY <1>4, <1>6, LoadedSound

-----------------------------------------------------------------------------
(* The functions that go through the records one after the other exist, and *)
(* are what their definition says.                                          *)

LEMMA ReleaseInSteps ==
    ASSUME NEW c, NEW S
    PROVE  \E g : /\ g[0] = c /\ ReleaseIn(c, S) = g[MaxFiles]
                  /\ \A n \in 1..MaxFiles :
                        g[n] = IF n \in S THEN Released(g[n - 1], n) ELSE g[n - 1]
<1> DEFINE Next1(g, n) == IF n = 0 THEN c
                          ELSE IF n \in S THEN Released(g[n - 1], n) ELSE g[n - 1]
           Has1(m) == \E g : g = [n \in 0..m |-> Next1(g, n)]
           none == {m \in Nat : ~Has1(m)}
<1>1. Has1(0)
  <2> DEFINE g == [n \in 0..0 |-> c]
  <2>1. g = [n \in 0..0 |-> Next1(g, n)]
    OBVIOUS
  <2> QED BY <2>1
<1>2. ASSUME NEW m \in Nat, m # 0, Has1(m - 1) PROVE Has1(m)
  <2>1. PICK h : h = [n \in 0..(m - 1) |-> Next1(h, n)]
    BY <1>2
  <2> DEFINE g == [n \in 0..m |-> IF n < m THEN h[n] ELSE Next1(h, m)]
  <2>2. ASSUME NEW n \in 0..m PROVE g[n] = Next1(g, n)
    <3>1. CASE n = 0
      BY <1>2, <2>1, <3>1
    <3>2. CASE n # 0
      <4>1. n - 1 \in 0..m /\ n - 1 < m /\ n \in Nat
        BY <1>2, <3>2
      <4>2. g[n - 1] = h[n - 1]
        BY <4>1
      <4>3. g[n] = Next1(h, n)
        <5>1. CASE n < m
          <6>1. n \in 0..(m - 1)
            BY <1>2, <5>1
          <6>2. h[n] = Next1(h, n)
            BY <2>1, <6>1
          <6> QED BY <5>1, <6>2
        <5>2. CASE ~(n < m)
          <6>1. n = m
            BY <1>2, <5>2
          <6> QED BY <6>1, <1>2
        <5> QED BY <5>1, <5>2
      <4> HIDE DEF g
      <4> QED BY <4>2, <4>3
    <3> QED BY <3>1, <3>2
  <2>3. g = [n \in 0..m |-> g[n]]
    OBVIOUS
  <2> HIDE DEF g
  <2>4. g = [n \in 0..m |-> Next1(g, n)]
    BY <2>2, <2>3
  <2> QED BY <2>4
<1> HIDE DEF Has1
<1>3. none = {}
  <2> SUFFICES ASSUME none # {} PROVE FALSE
    OBVIOUS
  <2>1. none \in SUBSET Nat
    OBVIOUS
  <2>2. PICK m \in none : \A k \in none : m <= k
    BY <2>1, LeastOf
  <2>3. m \in Nat /\ ~Has1(m) /\ m # 0 /\ m - 1 \in Nat
    BY <1>1
  <2>4. m - 1 \notin none
    BY <2>2, <2>3
  <2>5. Has1(m - 1)
    BY <2>3, <2>4
  <2> QED BY <1>2, <2>3, <2>5
<1>4. Has1(MaxFiles)
  BY <1>3, IngestAssumption
<1> DEFINE g == CHOOSE f : f = [n \in 0..MaxFiles |-> Next1(f, n)]
<1>5. g = [n \in 0..MaxFiles |-> Next1(g, n)]
  BY <1>4 DEF Has1
<1>6. ReleaseIn(c, S) = g[MaxFiles]
  BY DEF ReleaseIn
<1> HIDE DEF g
<1>7. \A n \in 0..MaxFiles : g[n] = Next1(g, n)
  BY <1>5
<1>8. g[0] = c
  BY <1>7, IngestAssumption
<1>9. \A n \in 1..MaxFiles : g[n] = IF n \in S THEN Released(g[n - 1], n) ELSE g[n - 1]
  <2> SUFFICES ASSUME NEW n \in 1..MaxFiles
               PROVE  g[n] = IF n \in S THEN Released(g[n - 1], n) ELSE g[n - 1]
    OBVIOUS
  <2>1. n \in 0..MaxFiles /\ n # 0
    BY IngestAssumption
  <2>2. g[n] = Next1(g, n)
    BY <1>7, <2>1
  <2> QED BY <2>1, <2>2
<1> QED BY <1>6, <1>8, <1>9

LEMMA CacheOfSteps ==
    ASSUME NEW c, NEW r
    PROVE  \E g : /\ g[0] = (CHOOSE l \in Loaded(c) : TRUE) /\ CacheOf(r, c) = g[MaxFiles]
                  /\ \A n \in 1..MaxFiles :
                        g[n] = IF n \in DOMAIN r /\ r[n].status = "staged" /\ r[n].staged
                               THEN RegisterIn(g[n - 1], n, r[n].digest, r[n].pinned)
                               ELSE g[n - 1]
<1> DEFINE Next1(g, n) == IF n = 0 THEN CHOOSE l \in Loaded(c) : TRUE
                          ELSE IF n \in DOMAIN r /\ r[n].status = "staged" /\ r[n].staged
                          THEN RegisterIn(g[n - 1], n, r[n].digest, r[n].pinned)
                          ELSE g[n - 1]
           Has1(m) == \E g : g = [n \in 0..m |-> Next1(g, n)]
           none == {m \in Nat : ~Has1(m)}
<1>1. Has1(0)
  <2> DEFINE g == [n \in 0..0 |-> CHOOSE l \in Loaded(c) : TRUE]
  <2>1. g = [n \in 0..0 |-> Next1(g, n)]
    OBVIOUS
  <2> QED BY <2>1
<1>2. ASSUME NEW m \in Nat, m # 0, Has1(m - 1) PROVE Has1(m)
  <2>1. PICK h : h = [n \in 0..(m - 1) |-> Next1(h, n)]
    BY <1>2
  <2> DEFINE g == [n \in 0..m |-> IF n < m THEN h[n] ELSE Next1(h, m)]
  <2>2. ASSUME NEW n \in 0..m PROVE g[n] = Next1(g, n)
    <3>1. CASE n = 0
      BY <1>2, <2>1, <3>1
    <3>2. CASE n # 0
      <4>1. n - 1 \in 0..m /\ n - 1 < m /\ n \in Nat
        BY <1>2, <3>2
      <4>2. g[n - 1] = h[n - 1]
        BY <4>1
      <4>3. g[n] = Next1(h, n)
        <5>1. CASE n < m
          <6>1. n \in 0..(m - 1)
            BY <1>2, <5>1
          <6>2. h[n] = Next1(h, n)
            BY <2>1, <6>1
          <6> QED BY <5>1, <6>2
        <5>2. CASE ~(n < m)
          <6>1. n = m
            BY <1>2, <5>2
          <6> QED BY <6>1, <1>2
        <5> QED BY <5>1, <5>2
      <4> HIDE DEF g
      <4> QED BY <4>2, <4>3
    <3> QED BY <3>1, <3>2
  <2>3. g = [n \in 0..m |-> g[n]]
    OBVIOUS
  <2> HIDE DEF g
  <2>4. g = [n \in 0..m |-> Next1(g, n)]
    BY <2>2, <2>3
  <2> QED BY <2>4
<1> HIDE DEF Has1
<1>3. none = {}
  <2> SUFFICES ASSUME none # {} PROVE FALSE
    OBVIOUS
  <2>1. none \in SUBSET Nat
    OBVIOUS
  <2>2. PICK m \in none : \A k \in none : m <= k
    BY <2>1, LeastOf
  <2>3. m \in Nat /\ ~Has1(m) /\ m # 0 /\ m - 1 \in Nat
    BY <1>1
  <2>4. m - 1 \notin none
    BY <2>2, <2>3
  <2>5. Has1(m - 1)
    BY <2>3, <2>4
  <2> QED BY <1>2, <2>3, <2>5
<1>4. Has1(MaxFiles)
  BY <1>3, IngestAssumption
<1> DEFINE g == CHOOSE f : f = [n \in 0..MaxFiles |-> Next1(f, n)]
<1>5. g = [n \in 0..MaxFiles |-> Next1(g, n)]
  BY <1>4 DEF Has1
<1>6. CacheOf(r, c) = g[MaxFiles]
  BY DEF CacheOf
<1> HIDE DEF g
<1>7. \A n \in 0..MaxFiles : g[n] = Next1(g, n)
  BY <1>5
<1>8. g[0] = CHOOSE l \in Loaded(c) : TRUE
  BY <1>7, IngestAssumption
<1>9. \A n \in 1..MaxFiles : g[n] = IF n \in DOMAIN r /\ r[n].status = "staged" /\ r[n].staged
                              THEN RegisterIn(g[n - 1], n, r[n].digest, r[n].pinned)
                              ELSE g[n - 1]
  <2> SUFFICES ASSUME NEW n \in 1..MaxFiles
               PROVE  g[n] = IF n \in DOMAIN r /\ r[n].status = "staged" /\ r[n].staged
                              THEN RegisterIn(g[n - 1], n, r[n].digest, r[n].pinned)
                              ELSE g[n - 1]
    OBVIOUS
  <2>1. n \in 0..MaxFiles /\ n # 0
    BY IngestAssumption
  <2>2. g[n] = Next1(g, n)
    BY <1>7, <2>1
  <2> QED BY <2>1, <2>2
<1> QED BY <1>6, <1>8, <1>9

-----------------------------------------------------------------------------
(* Releasing some files leaves the others' pins, and reading the cache back *)
(* and registering what is staged sets every pin that a record asks for.    *)

LEMMA ReleaseInSound ==
    ASSUME NEW c, Sound(c), Held(c), NEW S, NEW e, e = ReleaseIn(c, S)
    PROVE  /\ Sound(e) /\ Held(e)
           /\ \A f \in Entries(e) : \A q \in PathsOf(e, f) : Has(c, f, q)
           /\ \A f, q : Pins(c, f, q) /\ q \notin S => Pins(e, f, q)
           /\ Counted(c, Ones) => Counted(e, Ones) /\ Indexed(e) \cap S = {}
<1>1. PICK g : /\ g[0] = c /\ e = g[MaxFiles]
               /\ \A n \in 1..MaxFiles :
                     g[n] = IF n \in S THEN Released(g[n - 1], n) ELSE g[n - 1]
  BY ReleaseInSteps
<1> DEFINE Good(n) == /\ Sound(g[n]) /\ Held(g[n])
                      /\ \A f \in Entries(g[n]) : \A q \in PathsOf(g[n], f) : Has(c, f, q)
                      /\ \A f, q : Pins(c, f, q) /\ q \notin S => Pins(g[n], f, q)
                      /\ Counted(c, Ones) => /\ Counted(g[n], Ones)
                                             /\ \A q \in Indexed(g[n]) \cap S : q > n
           bad == {n \in 0..MaxFiles : ~Good(n)}
<1>2. Good(0)
  <2>1. \A q \in Indexed(c) : q \in Nat /\ q > 0
    BY IngestAssumption DEF Sound, IndexOK
  <2> QED BY <1>1, <2>1 DEF Has
<1>3. ASSUME NEW n \in 1..MaxFiles, Good(n - 1) PROVE Good(n)
  <2>0. n \in Paths
    BY IngestAssumption
  <2>1. CASE n \notin S
    <3>1. g[n] = g[n - 1]
      BY <1>1, <2>1
    <3>2. ASSUME NEW q \in Indexed(g[n]) \cap S, q > n - 1 PROVE q > n
      <4>1. q \in Paths
        BY <1>3, <3>1 DEF Sound, IndexOK
      <4>2. q \in Nat /\ q # n
        BY <2>1, <4>1, IngestAssumption
      <4> QED BY <3>2, <4>2
    <3> QED BY <1>3, <3>1, <3>2
  <2>2. CASE n \in S
    <3>1. g[n] = Released(g[n - 1], n)
      BY <1>1, <2>2
    <3>2. PICK b : b = g[n - 1]
      OBVIOUS
    <3>3. PICK a : a = g[n]
      OBVIOUS
    <3>4. /\ Sound(b) /\ Held(b)
          /\ \A f \in Entries(b) : \A q \in PathsOf(b, f) : Has(c, f, q)
          /\ \A f, q : Pins(c, f, q) /\ q \notin S => Pins(b, f, q)
          /\ Counted(c, Ones) => Counted(b, Ones) /\ \A q \in Indexed(b) \cap S : q > n - 1
      BY <1>3, <3>2
    <3>5. /\ Sound(a) /\ Held(a)
          /\ \A f \in Entries(a) : \A q \in PathsOf(a, f) : Has(b, f, q)
          /\ \A f, q : Pins(b, f, q) /\ q # n => Pins(a, f, q)
          /\ Counted(b, Ones) => Counted(a, Ones) /\ n \notin Indexed(a)
      BY <2>0, <3>1, <3>2, <3>3, <3>4, ReleasedOnce
    <3>6. \A f \in Entries(a) : \A q \in PathsOf(a, f) : Has(c, f, q)
      BY <3>4, <3>5 DEF Has
    <3>7. \A f, q : Pins(c, f, q) /\ q \notin S => Pins(a, f, q)
      BY <2>2, <3>4, <3>5
    <3>8. ASSUME Counted(c, Ones), NEW q \in Indexed(a) \cap S PROVE q > n
      <4>1. q \in Paths /\ Has(a, a.index[q], q)
        BY <3>5 DEF Sound, IndexOK
      <4>2. Has(b, a.index[q], q)
        BY <3>5, <4>1 DEF Has
      <4>3. q \in Indexed(b)
        BY <3>4, <4>2 DEF Held, Has
      <4>4. q # n /\ q \in Nat /\ q > n - 1
        BY <3>4, <3>5, <3>8, <4>1, <4>3, IngestAssumption
      <4> QED BY <4>4
    <3> QED BY <3>3, <3>4, <3>5, <3>6, <3>7, <3>8
  <2> QED BY <2>1, <2>2
<1> HIDE DEF Good
<1>4. bad = {}
  <2> SUFFICES ASSUME bad # {} PROVE FALSE
    OBVIOUS
  <2>1. bad \in SUBSET Nat
    OBVIOUS
  <2>2. PICK n \in bad : \A k \in bad : n <= k
    BY <2>1, LeastOf
  <2>3. n \in 1..MaxFiles /\ ~Good(n)
    BY <1>2, IngestAssumption
  <2>4. n - 1 \in 0..MaxFiles /\ n - 1 \notin bad
    BY <2>2, <2>3, IngestAssumption
  <2>5. Good(n - 1)
    BY <2>4
  <2> QED BY <1>3, <2>3, <2>5
<1>5. Good(MaxFiles)
  BY <1>4, IngestAssumption
<1>6. \A q \in Indexed(e) : q \in 1..MaxFiles
  BY <1>1, <1>5, IngestAssumption DEF Good, Sound, IndexOK
<1>7. Counted(c, Ones) => Counted(e, Ones) /\ Indexed(e) \cap S = {}
  BY <1>1, <1>5, <1>6, IngestAssumption DEF Good
<1> QED BY <1>1, <1>5, <1>7 DEF Good

LEMMA CacheOfSound ==
    ASSUME NEW c, Sound(c), Held(c), NEW u \in 0..MaxFiles, NEW r, DOMAIN r \subseteq 1..u,
           \A i \in DOMAIN r : r[i] \in Record,
           Placed(c, r, u), NEW e, e = CacheOf(r, c)
    PROVE  Sound(e) /\ Held(e) /\ Placed(e, r, u) /\ PinnedOf(e, r, DOMAIN r)
<1>1. PICK g : /\ g[0] = (CHOOSE l \in Loaded(c) : TRUE) /\ e = g[MaxFiles]
               /\ \A n \in 1..MaxFiles :
                     g[n] = IF n \in DOMAIN r /\ r[n].status = "staged" /\ r[n].staged
                            THEN RegisterIn(g[n - 1], n, r[n].digest, r[n].pinned)
                            ELSE g[n - 1]
  BY CacheOfSteps
<1> DEFINE Good(n) == /\ Sound(g[n]) /\ Held(g[n]) /\ Placed(g[n], r, u)
                      /\ PinnedOf(g[n], r, 1..n)
           bad == {n \in 0..MaxFiles : ~Good(n)}
<1>2. Good(0)
  <2>1. PICK a : a = g[0]
    OBVIOUS
  <2>2. Sound(a) /\ Held(a) /\ a.entries = c.entries
    BY <1>1, <2>1, LoadedBack
  <2>3. Placed(a, r, u)
    BY <2>2 DEF Placed, Entries, PathsOf
  <2>4. PinnedOf(a, r, 1..0)
    BY DEF PinnedOf
  <2> QED BY <2>1, <2>2, <2>3, <2>4
<1>3. ASSUME NEW n \in 1..MaxFiles, Good(n - 1) PROVE Good(n)
  <2>0. n \in Paths /\ n \in 1..n /\ 1..n = (1..(n - 1)) \cup {n}
    BY IngestAssumption
  <2>1. PICK b : b = g[n - 1]
    OBVIOUS
  <2>2. PICK a : a = g[n]
    OBVIOUS
  <2>3. Sound(b) /\ Held(b) /\ Placed(b, r, u) /\ PinnedOf(b, r, 1..(n - 1))
    BY <1>3, <2>1
  <2>4. CASE ~(n \in DOMAIN r /\ r[n].status = "staged" /\ r[n].staged)
    <3>1. a = b
      BY <1>1, <2>1, <2>2, <2>4
    <3>2. PinnedOf(b, r, 1..n)
      BY <2>0, <2>3, <2>4 DEF PinnedOf
    <3> QED BY <2>2, <2>3, <3>1, <3>2
  <2>5. CASE n \in DOMAIN r /\ r[n].status = "staged" /\ r[n].staged
    <3>1. a = RegisterIn(b, n, r[n].digest, r[n].pinned)
      BY <1>1, <2>1, <2>2, <2>5
    <3>2. PICK d \in Digests : d = r[n].digest
      BY <2>5 DEF Record
    <3>3. PICK pin \in BOOLEAN : pin = r[n].pinned
      BY <2>5 DEF Record
    <3>4. \A f \in Entries(b) \ {d} : n \notin PathsOf(b, f)
      BY <2>3, <2>5, <3>2 DEF Placed
    <3>5. a = RegisterIn(b, n, d, pin)
      BY <3>1, <3>2, <3>3
    <3>6. /\ Sound(a) /\ Held(a)
          /\ \A f \in Entries(a) : \A q \in PathsOf(a, f) : (f = d /\ q = n) \/ Has(b, f, q)
          /\ \A f, q : Pins(b, f, q) => Pins(a, f, q)
          /\ pin => Pins(a, d, n)
      BY <2>0, <2>3, <3>4, <3>5, RegisterInSound
    <3>7. Placed(a, r, u)
      <4> SUFFICES ASSUME NEW f \in Entries(a), NEW q \in PathsOf(a, f)
                   PROVE  q \in 1..u /\ (q \in DOMAIN r => r[q].digest = f)
        BY DEF Placed
      <4>1. CASE f = d /\ q = n
        BY <2>5, <3>2, <4>1
      <4>2. CASE Has(b, f, q)
        BY <2>3, <4>2 DEF Placed, Has
      <4> QED BY <3>6, <4>1, <4>2
    <3>8. PinnedOf(a, r, 1..n)
      <4> SUFFICES ASSUME NEW i \in (1..n) \cap DOMAIN r,
                          r[i].status = "staged" /\ r[i].staged /\ r[i].pinned
                   PROVE  Pins(a, r[i].digest, i)
        BY DEF PinnedOf
      <4>1. CASE i = n
        BY <3>2, <3>3, <3>6, <4>1
      <4>2. CASE i \in 1..(n - 1)
        BY <2>3, <3>6, <4>2 DEF PinnedOf
      <4> QED BY <2>0, <4>1, <4>2
    <3> QED BY <2>2, <3>6, <3>7, <3>8
  <2> QED BY <2>4, <2>5
<1> HIDE DEF Good
<1>4. bad = {}
  <2> SUFFICES ASSUME bad # {} PROVE FALSE
    OBVIOUS
  <2>1. bad \in SUBSET Nat
    OBVIOUS
  <2>2. PICK n \in bad : \A k \in bad : n <= k
    BY <2>1, LeastOf
  <2>3. n \in 1..MaxFiles /\ ~Good(n)
    BY <1>2, IngestAssumption
  <2>4. n - 1 \in 0..MaxFiles /\ n - 1 \notin bad
    BY <2>2, <2>3, IngestAssumption
  <2>5. Good(n - 1)
    BY <2>4
  <2> QED BY <1>3, <2>3, <2>5
<1>5. Good(MaxFiles)
  BY <1>4, IngestAssumption
<1>6. DOMAIN r \subseteq 1..MaxFiles
  BY IngestAssumption
<1> QED BY <1>1, <1>5, <1>6 DEF Good, PinnedOf

-----------------------------------------------------------------------------
(* What holds between the records and the cache: as long as the process has *)
(* not started again, the cache knows just the files that wait, once each.  *)

CacheInv == /\ Sound(cache) /\ Held(cache) /\ Placed(cache, records, used)
            /\ PinnedOf(cache, records, Ids)
            /\ restarts = 0 => Counted(cache, Ones)
            /\ PinsDrop

(* The cache may only have lost paths, and the records that still ask for a *)
(* pin are as they were.                                                    *)
LEMMA CacheShrinks ==
    ASSUME IngestInv, CacheInv, Ids' = Ids, used' = used, restarts' = restarts,
           \A i \in Ids : /\ records'[i].digest = records[i].digest
                          /\ \/ records'[i] = records[i]
                             \/ records'[i].status # "staged",
           NEW S, NEW c, c = cache', Sound(c), Held(c),
           \A f \in Entries(c) : \A q \in PathsOf(c, f) : Has(cache, f, q),
           \A f, q : Pins(cache, f, q) /\ q \notin S => Pins(c, f, q),
           \A i \in S : records'[i].status # "staged",
           Counted(cache, Ones) => Counted(c, Ones) /\ Indexed(c) \cap S = {},
           \A i \in Ids \ S : /\ records'[i].staged = records[i].staged
                              /\ records'[i].status = records[i].status
                                 \/ records'[i].status \in {"staged", "failed"}
    PROVE  CacheInv'
<1>1. ASSUME NEW f \in Entries(c), NEW q \in PathsOf(c, f)
      PROVE  q \in 1..used /\ (q \in Ids => records'[q].digest = f)
  BY DEF CacheInv, Placed, Has, Ids
<1>2. Placed(cache', records', used')
  BY <1>1 DEF Placed, Ids
<1>3. PinnedOf(cache', records', Ids')
  <2> SUFFICES ASSUME NEW i \in Ids, records'[i].status = "staged",
                      records'[i].staged /\ records'[i].pinned
               PROVE  Pins(c, records'[i].digest, i)
    BY DEF PinnedOf
  <2>1. records'[i] = records[i] /\ i \notin S
    OBVIOUS
  <2>2. Pins(cache, records[i].digest, i)
    BY <2>1 DEF CacheInv, PinnedOf, Ids
  <2> QED BY <2>1, <2>2
<1>4. ASSUME restarts = 0, NEW q \in Indexed(c)
      PROVE  q \in Ids /\ records'[q].staged /\ records'[q].status \in {"staged", "failed"}
  <2>1. Has(c, c.index[q], q)
    BY DEF Sound, IndexOK
  <2>2. Has(cache, c.index[q], q)
    BY <2>1 DEF Has
  <2>3. q \in Indexed(cache)
    BY <2>2 DEF CacheInv, Held, Has
  <2>4. q \in Ids /\ records[q].staged /\ records[q].status \in {"staged", "failed"}
    BY <1>4, <2>3 DEF CacheInv, PinsDrop
  <2>5. q \notin S
    BY <1>4 DEF CacheInv
  <2> QED BY <2>4, <2>5
<1>5. PinsDrop'
  BY <1>4 DEF PinsDrop
<1>6. restarts' = 0 => Counted(cache', Ones)
  BY DEF CacheInv
<1>7. Sound(cache') /\ Held(cache')
  OBVIOUS
<1> QED BY <1>2, <1>3, <1>5, <1>6, <1>7 DEF CacheInv

LEMMA EnqueueRefusedCache ==
    ASSUME IngestInv, CacheInv, NEW d \in Digests, EnqueueDuplicate(d) \/ EnqueueMissing(d)
    PROVE  CacheInv'
<1>1. PICK r \in Record : /\ used < MaxFiles /\ used' = used + 1
                          /\ records' = Put(records, used', r) /\ r.status # "staged"
                          /\ cache' = cache /\ restarts' = restarts
  <2> DEFINE r1 == [status |-> "duplicate", digest |-> d, staged |-> FALSE, pinned |-> FALSE,
                    dest |-> used']
             r2 == [status |-> "failed", digest |-> d, staged |-> FALSE, pinned |-> FALSE,
                    dest |-> used']
  <2>1. r1 \in Record /\ r1.status # "staged" /\ r2 \in Record /\ r2.status # "staged"
    <3>1. used' \in Paths
      BY NextName DEF EnqueueDuplicate, EnqueueMissing
    <3> QED BY <3>1 DEF Record
  <2>2. CASE EnqueueDuplicate(d)
    <3>1. /\ used < MaxFiles /\ used' = used + 1 /\ records' = Put(records, used', r1)
          /\ cache' = cache /\ restarts' = restarts
      BY <2>2 DEF EnqueueDuplicate
    <3> HIDE DEF r1
    <3> QED BY <2>1, <3>1
  <2>3. CASE EnqueueMissing(d)
    <3>1. /\ used < MaxFiles /\ used' = used + 1 /\ records' = Put(records, used', r2)
          /\ cache' = cache /\ restarts' = restarts
      BY <2>3 DEF EnqueueMissing
    <3> HIDE DEF r2
    <3> QED BY <2>1, <3>1
  <2> QED BY <2>2, <2>3
<1>2. /\ used' \notin Ids /\ Ids' = Ids \cup {used'} /\ records'[used'] = r
      /\ \A i \in Ids : records'[i] = records[i]
  BY <1>1, NewRecord
<1>3. used \in Nat /\ 1..used \subseteq 1..used' /\ used' \notin 1..used
  BY <1>1, IngestAssumption DEF IngestInv, Typed
<1>4. Placed(cache', records', used')
  <2> SUFFICES ASSUME NEW f \in Entries(cache), NEW q \in PathsOf(cache, f)
               PROVE  q \in 1..used' /\ (q \in Ids' => records'[q].digest = f)
    BY <1>1 DEF Placed, Ids
  <2>1. q \in 1..used /\ (q \in Ids => records[q].digest = f)
    BY DEF CacheInv, Placed, Ids
  <2> QED BY <1>2, <1>3, <2>1
<1>5. PinnedOf(cache', records', Ids')
  <2> SUFFICES ASSUME NEW i \in Ids', records'[i].status = "staged",
                      records'[i].staged /\ records'[i].pinned
               PROVE  Pins(cache, records'[i].digest, i)
    BY <1>1 DEF PinnedOf
  <2>1. i \in Ids /\ records'[i] = records[i]
    BY <1>1, <1>2
  <2> QED BY <2>1 DEF CacheInv, PinnedOf, Ids
<1>6. PinsDrop'
  BY <1>1, <1>2 DEF CacheInv, PinsDrop
<1> QED BY <1>1, <1>4, <1>5, <1>6 DEF CacheInv

LEMMA EnqueueNewCache ==
    ASSUME IngestInv, CacheInv, NEW d \in Digests, NEW pin \in BOOLEAN,
           NEW dest \in Dests \cup {used + 1}, EnqueueNew(d, pin, dest)
    PROVE  CacheInv'
<1> DEFINE rec == [status |-> "staged", digest |-> d, staged |-> TRUE, pinned |-> pin,
                   dest |-> dest]
<1>0. /\ rec \in Record /\ rec.status = "staged" /\ rec.digest = d
      /\ rec.staged = TRUE /\ rec.pinned = pin
  <2>1. dest \in Dests \cup Paths
    BY NextName DEF EnqueueNew
  <2> QED BY <2>1 DEF Record
<1> HIDE DEF rec
<1>1. /\ used < MaxFiles /\ used' = used + 1 /\ records' = Put(records, used', rec)
      /\ cache' = RegisterIn(cache, used', d, pin) /\ restarts' = restarts
  BY DEF EnqueueNew, rec
<1>2. /\ used' \notin Ids /\ Ids' = Ids \cup {used'} /\ records'[used'] = rec
      /\ \A i \in Ids : records'[i] = records[i]
  BY <1>0, <1>1, NewRecord
<1>3. used \in Nat /\ 1..used \subseteq 1..used' /\ used' \notin 1..used /\ used' \in 1..used'
  BY <1>1, IngestAssumption DEF IngestInv, Typed
<1>4. PICK p \in Paths : p = used'
  BY <1>1, <1>3, IngestAssumption
<1>5. PICK c : c = cache
  OBVIOUS
<1>6. PICK e : e = cache'
  OBVIOUS
<1>7. /\ Sound(c) /\ Held(c) /\ e = RegisterIn(c, p, d, pin)
      /\ \A f \in Entries(c) : \A q \in PathsOf(c, f) :
            q \in 1..used /\ q # p /\ (q \in Ids => records[q].digest = f)
  <2>1. \A f \in Entries(cache) : \A q \in PathsOf(cache, f) :
            q \in 1..used /\ (q \in Ids => records[q].digest = f)
    BY DEF CacheInv, Placed, Ids
  <2> QED BY <1>1, <1>3, <1>4, <1>5, <1>6, <2>1 DEF CacheInv
<1>8. p \notin Indexed(c)
  BY <1>7 DEF Sound, IndexOK, Has
<1>9. /\ Sound(e) /\ Held(e)
      /\ \A f \in Entries(e) : \A q \in PathsOf(e, f) : (f = d /\ q = p) \/ Has(c, f, q)
      /\ \A f, q : Pins(c, f, q) => Pins(e, f, q)
      /\ pin => Pins(e, d, p)
      /\ Counted(c, Ones) => Counted(e, Ones)
  BY <1>7, <1>8, RegisterInSound
<1>10. Placed(e, records', used')
  <2> SUFFICES ASSUME NEW f \in Entries(e), NEW q \in PathsOf(e, f)
               PROVE  q \in 1..used' /\ (q \in Ids' => records'[q].digest = f)
    BY DEF Placed, Ids
  <2>1. CASE f = d /\ q = p
    BY <1>0, <1>2, <1>3, <1>4, <2>1
  <2>2. CASE Has(c, f, q)
    <3>1. q \in 1..used /\ q # p /\ (q \in Ids => records[q].digest = f)
      BY <1>7, <2>2 DEF Has
    <3> QED BY <1>2, <1>3, <1>4, <3>1
  <2> QED BY <1>9, <2>1, <2>2
<1>11. PinnedOf(e, records', Ids')
  <2> SUFFICES ASSUME NEW i \in Ids', records'[i].status = "staged",
                      records'[i].staged /\ records'[i].pinned
               PROVE  Pins(e, records'[i].digest, i)
    BY DEF PinnedOf
  <2>1. CASE i = p
    BY <1>0, <1>2, <1>4, <1>9, <2>1
  <2>2. CASE i # p
    <3>1. i \in Ids /\ records'[i] = records[i]
      BY <1>2, <1>4, <2>2
    <3>2. Pins(c, records[i].digest, i)
      BY <1>5, <3>1 DEF CacheInv, PinnedOf, Ids
    <3> QED BY <1>9, <3>1, <3>2
  <2> QED BY <2>1, <2>2
<1>12. ASSUME restarts = 0, NEW q \in Indexed(e)
       PROVE  q \in Ids' /\ records'[q].staged /\ records'[q].status \in {"staged", "failed"}
  <2>1. Has(e, e.index[q], q)
    BY <1>9 DEF Sound, IndexOK
  <2>2. CASE q = p
    BY <1>0, <1>2, <1>4, <2>2
  <2>3. CASE q # p
    <3>1. Has(c, e.index[q], q)
      BY <1>9, <2>1, <2>3 DEF Has
    <3>2. q \in Indexed(cache)
      BY <1>5, <1>7, <3>1 DEF Held, Has
    <3>3. q \in Ids /\ records[q].staged /\ records[q].status \in {"staged", "failed"}
      BY <1>12, <3>2 DEF CacheInv, PinsDrop
    <3> QED BY <1>2, <3>3
  <2> QED BY <2>2, <2>3
<1>13. PinsDrop'
  BY <1>1, <1>6, <1>12 DEF PinsDrop
<1>14. restarts' = 0 => Counted(e, Ones)
  BY <1>1, <1>5, <1>9 DEF CacheInv
<1> QED BY <1>6, <1>9, <1>10, <1>11, <1>13, <1>14 DEF CacheInv

LEMMA ReleaseCache ==
    ASSUME IngestInv, CacheInv, NEW i \in Ids, Release(i)
    PROVE  CacheInv'
<1> DEFINE r == [records[i] EXCEPT !.status = "released", !.staged = FALSE, !.pinned = FALSE]
<1>1. records[i] \in Record
  BY DEF IngestInv, Typed
<1>2. r.status = "released" /\ r.digest = records[i].digest
  BY <1>1 DEF Record
<1>3. /\ records' = [records EXCEPT ![i] = r]
      /\ cache' = IF records[i].staged THEN Released(cache, i) ELSE cache
      /\ used' = used /\ restarts' = restarts
  BY DEF Release
<1> HIDE DEF r
<1>4. Ids' = Ids /\ records'[i] = r /\ \A j \in Ids \ {i} : records'[j] = records[j]
  BY <1>3 DEF Ids
<1>5. PICK c : c = cache
  OBVIOUS
<1>6. PICK e : e = cache'
  OBVIOUS
<1>7. i \in Paths
  BY IngestAssumption DEF IngestInv, Typed
<1>8. Sound(c) /\ Held(c)
  BY <1>5 DEF CacheInv
<1>9. /\ Sound(e) /\ Held(e)
      /\ \A f \in Entries(e) : \A q \in PathsOf(e, f) : Has(c, f, q)
      /\ \A f, q : Pins(c, f, q) /\ q # i => Pins(e, f, q)
      /\ Counted(c, Ones) => Counted(e, Ones)
      /\ Counted(c, Ones) /\ records[i].staged => i \notin Indexed(e)
  <2>1. CASE records[i].staged
    BY <1>3, <1>5, <1>6, <1>7, <1>8, <2>1, ReleasedOnce
  <2>2. CASE ~records[i].staged
    <3>1. e = c
      BY <1>3, <1>5, <1>6, <2>2
    <3> QED BY <1>8, <2>2, <3>1 DEF Has
  <2> QED BY <2>1, <2>2
<1>10. ASSUME restarts = 0 PROVE i \notin Indexed(e)
  <2>1. Counted(c, Ones)
    BY <1>5, <1>10 DEF CacheInv
  <2>2. CASE records[i].staged
    BY <1>9, <2>1, <2>2
  <2>3. CASE ~records[i].staged
    <3>1. e = cache
      BY <1>3, <1>6, <2>3
    <3> QED BY <1>10, <2>3, <3>1 DEF CacheInv, PinsDrop
  <2> QED BY <2>2, <2>3
<1>11. Placed(e, records', used')
  <2> SUFFICES ASSUME NEW f \in Entries(e), NEW q \in PathsOf(e, f)
               PROVE  q \in 1..used /\ (q \in Ids => records'[q].digest = f)
    BY <1>3, <1>4 DEF Placed, Ids
  <2>1. Has(cache, f, q)
    BY <1>5, <1>9
  <2>2. q \in 1..used /\ (q \in Ids => records[q].digest = f)
    BY <2>1 DEF CacheInv, Placed, Has, Ids
  <2> QED BY <1>2, <1>4, <2>2
<1>12. PinnedOf(e, records', Ids')
  <2> SUFFICES ASSUME NEW j \in Ids', records'[j].status = "staged",
                      records'[j].staged /\ records'[j].pinned
               PROVE  Pins(e, records'[j].digest, j)
    BY DEF PinnedOf, Ids
  <2>1. j \in Ids /\ j # i /\ records'[j] = records[j]
    BY <1>2, <1>4
  <2>2. Pins(c, records[j].digest, j)
    BY <1>5, <2>1 DEF CacheInv, PinnedOf, Ids
  <2> QED BY <1>9, <2>1, <2>2
<1>13. ASSUME restarts = 0, NEW q \in Indexed(e)
       PROVE  q \in Ids' /\ records'[q].staged /\ records'[q].status \in {"staged", "failed"}
  <2>1. Has(e, e.index[q], q)
    BY <1>9 DEF Sound, IndexOK
  <2>2. Has(c, e.index[q], q)
    BY <1>9, <2>1 DEF Has
  <2>3. q \in Indexed(cache) /\ q # i
    BY <1>5, <1>8, <1>10, <1>13, <2>2 DEF Held, Has
  <2>4. q \in Ids /\ records[q].staged /\ records[q].status \in {"staged", "failed"}
    BY <1>13, <2>3 DEF CacheInv, PinsDrop
  <2> QED BY <1>4, <2>3, <2>4
<1>14. PinsDrop'
  BY <1>3, <1>6, <1>13 DEF PinsDrop
<1>15. restarts' = 0 => Counted(e, Ones)
  BY <1>3, <1>5, <1>9 DEF CacheInv
<1> QED BY <1>6, <1>9, <1>11, <1>12, <1>14, <1>15 DEF CacheInv

LEMMA ApplyCache ==
    ASSUME IngestInv, CacheInv, NEW S \in SUBSET Ids, NEW accepted \in SUBSET Ready(S),
           NEW rows \in SUBSET Ready(S), NEW loose, NEW last,
           Apply(S, accepted, rows, loose, last)
    PROVE  CacheInv'
<1>1. /\ records' = Settle(S, accepted) /\ cache' = ReleaseIn(cache, accepted)
      /\ used' = used /\ restarts' = restarts
  BY DEF Apply
<1>2. \A i \in Ids :
         /\ records'[i] \in Record /\ records'[i].digest = records[i].digest
         /\ i \in accepted => records'[i].status = "applied"
         /\ i \notin accepted => /\ records'[i].staged = records[i].staged
                               /\ \/ records'[i] = records[i]
                                  \/ /\ records'[i].status = "failed"
                                     /\ Staged(i)
  BY <1>1, SettleEach
<1>3. Ids' = Ids
  BY <1>1 DEF Ids, Settle
<1>4. PICK c : c = cache'
  OBVIOUS
<1>5. PICK b : b = cache
  OBVIOUS
<1>6. /\ Sound(c) /\ Held(c)
      /\ \A f \in Entries(c) : \A q \in PathsOf(c, f) : Has(b, f, q)
      /\ \A f, q : Pins(b, f, q) /\ q \notin accepted => Pins(c, f, q)
      /\ Counted(b, Ones) => Counted(c, Ones) /\ Indexed(c) \cap accepted = {}
  <2>1. Sound(b) /\ Held(b) /\ c = ReleaseIn(b, accepted)
    BY <1>1, <1>4, <1>5 DEF CacheInv
  <2> QED BY <2>1, ReleaseInSound
<1>7. accepted \subseteq Ids
  BY DEF Ready
<1>8. \A i \in Ids : /\ records'[i].digest = records[i].digest
                     /\ records'[i] = records[i] \/ records'[i].status # "staged"
  BY <1>2
<1>9. \A i \in accepted : records'[i].status # "staged"
  BY <1>2, <1>7
<1>10. \A i \in Ids \ accepted :
          /\ records'[i].staged = records[i].staged
          /\ records'[i].status = records[i].status \/ records'[i].status \in {"staged", "failed"}
  BY <1>2
<1>11. /\ \A f \in Entries(c) : \A q \in PathsOf(c, f) : Has(cache, f, q)
       /\ \A f, q : Pins(cache, f, q) /\ q \notin accepted => Pins(c, f, q)
       /\ Counted(cache, Ones) => Counted(c, Ones) /\ Indexed(c) \cap accepted = {}
  BY <1>5, <1>6
<1> QED BY <1>1, <1>3, <1>4, <1>6, <1>8, <1>9, <1>10, <1>11, CacheShrinks

LEMMA RemovedCache ==
    ASSUME IngestInv, CacheInv, NEW i \in files, Removed(i)
    PROVE  CacheInv'
BY DEF Removed, CacheInv, Placed, PinnedOf, PinsDrop, Ids

-----------------------------------------------------------------------------
(* A start, from a cache that was written. *)

LEMMA StartAgainCache ==
    ASSUME IngestInv, CacheInv, NEW left, NEW c, Sound(c), Held(c),
           used' \in 0..MaxFiles, used <= used', Placed(c, records, used'),
           StartAgain(left, c)
    PROVE  CacheInv'
<1>1. /\ restarts' = restarts + 1 /\ restarts \in Nat
      /\ records' = Reload(records, left) /\ cache' = CacheOf(records', c)
  BY IngestAssumption DEF StartAgain, IngestInv, Typed
<1>2. Ids' = Ids
  BY <1>1 DEF Ids, Reload
<1>3. \A i \in Ids : records'[i] \in Record /\ records'[i].digest = records[i].digest
  BY <1>1, ReloadEach
<1>4. PICK r : r = records'
  OBVIOUS
<1>5. PICK e : e = cache'
  OBVIOUS
<1>6. PICK u \in 0..MaxFiles : u = used'
  OBVIOUS
<1>7. DOMAIN r = Ids /\ DOMAIN r \subseteq 1..u /\ \A i \in DOMAIN r : r[i] \in Record
  <2>1. Ids \subseteq 1..used /\ used \in Nat
    BY IngestAssumption DEF IngestInv, Typed
  <2>2. 1..used \subseteq 1..u
    BY <1>6, <2>1, IngestAssumption
  <2> QED BY <1>2, <1>3, <1>4, <2>1, <2>2 DEF Ids
<1>8. Placed(c, r, u)
  BY <1>3, <1>4, <1>6, <1>7 DEF Placed, Ids
<1>9. e = CacheOf(r, c)
  BY <1>1, <1>4, <1>5
<1>10. Sound(e) /\ Held(e) /\ Placed(e, r, u) /\ PinnedOf(e, r, DOMAIN r)
  BY <1>7, <1>8, <1>9, CacheOfSound
<1>11. restarts' # 0
  BY <1>1
<1> QED BY <1>2, <1>4, <1>5, <1>6, <1>7, <1>10, <1>11 DEF CacheInv, PinsDrop

LEMMA WrittenSound ==
    ASSUME NEW b, Sound(b), Held(b), NEW r, NEW u, Placed(b, r, u), NEW c \in Written(b)
    PROVE  Sound(c) /\ Held(c) /\ Placed(c, r, u)
<1>1. CASE c = b
  BY <1>1
<1>2. CASE c = Empty
  <2>1. Sound(c) /\ Held(c)
    BY <1>2, EmptySound
  <2>2. Entries(c) = {}
    BY <1>2 DEF Empty, Entries
  <2> QED BY <2>1, <2>2 DEF Placed
<1> QED BY <1>1, <1>2 DEF Written

LEMMA RestartCache ==
    ASSUME IngestInv, CacheInv, Restart
    PROVE  CacheInv'
<1>1. StartAgain(files, cache) /\ used' = used
  BY DEF Restart
<1>2. PICK c : c = cache
  OBVIOUS
<1>3. Sound(c) /\ Held(c) /\ Placed(c, records, used') /\ StartAgain(files, c)
  BY <1>1, <1>2 DEF CacheInv
<1>4. used' \in 0..MaxFiles /\ used <= used'
  BY <1>1, IngestAssumption DEF IngestInv, Typed
<1> QED BY <1>3, <1>4, StartAgainCache

LEMMA CrashInApplyCache ==
    ASSUME IngestInv, CacheInv, NEW rows, NEW loose, NEW last,
           NEW registered \in SUBSET Ready(Ids), NEW released, NEW unlinked,
           CrashInApply(rows, loose, last, registered, released, unlinked)
    PROVE  CacheInv'
<1>1. PICK c \in Written(ReleaseIn(cache, released)) : StartAgain(files \ unlinked, c)
  BY DEF CrashInApply
<1>2. used' = used /\ used' \in 0..MaxFiles /\ used <= used'
  BY IngestAssumption DEF CrashInApply, IngestInv, Typed
<1>3. PICK b : b = ReleaseIn(cache, released)
  OBVIOUS
<1>4. PICK a : a = cache
  OBVIOUS
<1>5. /\ Sound(b) /\ Held(b)
      /\ \A f \in Entries(b) : \A q \in PathsOf(b, f) : Has(a, f, q)
  <2>1. Sound(a) /\ Held(a) /\ b = ReleaseIn(a, released)
    BY <1>3, <1>4 DEF CacheInv
  <2> QED BY <2>1, ReleaseInSound
<1>6. Placed(b, records, used)
  <2>1. Placed(a, records, used)
    BY <1>4 DEF CacheInv
  <2> QED BY <1>5, <2>1 DEF Placed, Has
<1>7. PICK r : r = records
  OBVIOUS
<1>8. PICK u : u = used
  OBVIOUS
<1>9. Sound(c) /\ Held(c) /\ Placed(c, r, u)
  BY <1>1, <1>3, <1>5, <1>6, <1>7, <1>8, WrittenSound
<1>10. Placed(c, records, used')
  BY <1>2, <1>7, <1>8, <1>9
<1> QED BY <1>1, <1>2, <1>9, <1>10, StartAgainCache

LEMMA CrashInReleaseCache ==
    ASSUME IngestInv, CacheInv, NEW i \in Ids, NEW unlinked \in BOOLEAN,
           CrashInRelease(i, unlinked)
    PROVE  CacheInv'
<1>1. PICK c, left : c \in Written(Released(cache, i)) /\ StartAgain(left, c)
  BY DEF CrashInRelease
<1>2. used' = used /\ used' \in 0..MaxFiles /\ used <= used'
  BY IngestAssumption DEF CrashInRelease, IngestInv, Typed
<1>3. PICK b : b = Released(cache, i)
  OBVIOUS
<1>4. PICK a : a = cache
  OBVIOUS
<1>5. /\ Sound(b) /\ Held(b)
      /\ \A f \in Entries(b) : \A q \in PathsOf(b, f) : Has(a, f, q)
  <2>1. Sound(a) /\ Held(a) /\ b = Released(a, i)
    BY <1>3, <1>4 DEF CacheInv
  <2>2. i \in Paths
    BY IngestAssumption DEF IngestInv, Typed
  <2> QED BY <2>1, <2>2, ReleasedOnce
<1>6. Placed(b, records, used)
  <2>1. Placed(a, records, used)
    BY <1>4 DEF CacheInv
  <2> QED BY <1>5, <2>1 DEF Placed, Has
<1>7. PICK r : r = records
  OBVIOUS
<1>8. PICK u : u = used
  OBVIOUS
<1>9. Sound(c) /\ Held(c) /\ Placed(c, r, u)
  BY <1>1, <1>3, <1>5, <1>6, <1>7, <1>8, WrittenSound
<1>10. Placed(c, records, used')
  BY <1>2, <1>7, <1>8, <1>9
<1> QED BY <1>1, <1>2, <1>9, <1>10, StartAgainCache

LEMMA CrashInEnqueueCache ==
    ASSUME IngestInv, CacheInv, NEW d \in Digests, NEW pin \in BOOLEAN, CrashInEnqueue(d, pin)
    PROVE  CacheInv'
<1>1. PICK c \in Written(cache) \cup Written(RegisterIn(cache, used', d, pin)) :
         StartAgain(files \cup {used'}, c)
  BY DEF CrashInEnqueue
<1>2. used < MaxFiles /\ used' = used + 1
  BY DEF CrashInEnqueue
<1>3. /\ used \in Nat /\ used' \in 0..MaxFiles /\ used <= used' /\ 1..used \subseteq 1..used'
      /\ used' \in 1..used' /\ used' \notin 1..used /\ used' \in 1..MaxFiles
      /\ Ids \subseteq 1..used
  BY <1>2, IngestAssumption DEF IngestInv, Typed
<1>4. PICK a : a = cache
  OBVIOUS
<1>5. PICK p \in Paths : p = used'
  BY <1>3, IngestAssumption
<1>6. PICK b : b = RegisterIn(a, p, d, pin)
  OBVIOUS
<1>7. /\ Sound(a) /\ Held(a)
      /\ \A f \in Entries(a) : \A q \in PathsOf(a, f) :
            q \in 1..p /\ q # p /\ (q \in Ids => records[q].digest = f)
  <2>1. \A f \in Entries(cache) : \A q \in PathsOf(cache, f) :
            q \in 1..used /\ (q \in Ids => records[q].digest = f)
    BY DEF CacheInv, Placed, Ids
  <2> QED BY <1>3, <1>4, <1>5, <2>1 DEF CacheInv
<1>8. /\ Sound(b) /\ Held(b)
      /\ \A f \in Entries(b) : \A q \in PathsOf(b, f) : (f = d /\ q = p) \/ Has(a, f, q)
  BY <1>6, <1>7, RegisterInSound
<1>9. PICK r : r = records
  OBVIOUS
<1>10. Placed(a, r, p)
  BY <1>7, <1>9 DEF Placed, Ids
<1>11. Placed(b, r, p)
  <2> SUFFICES ASSUME NEW f \in Entries(b), NEW q \in PathsOf(b, f)
               PROVE  q \in 1..p /\ (q \in DOMAIN r => r[q].digest = f)
    BY DEF Placed
  <2>1. CASE f = d /\ q = p
    BY <1>3, <1>5, <1>9, <2>1 DEF Ids
  <2>2. CASE Has(a, f, q)
    BY <1>10, <2>2 DEF Placed, Has
  <2> QED BY <1>8, <2>1, <2>2
<1>12. c \in Written(a) \cup Written(b)
  BY <1>1, <1>4, <1>5, <1>6
<1>13. Sound(c) /\ Held(c) /\ Placed(c, r, p)
  BY <1>7, <1>8, <1>10, <1>11, <1>12, WrittenSound
<1>14. Placed(c, records, used')
  BY <1>5, <1>9, <1>13
<1> QED BY <1>1, <1>3, <1>13, <1>14, StartAgainCache

-----------------------------------------------------------------------------
LEMMA InitCache == IngestInit => CacheInv
<1> SUFFICES ASSUME IngestInit PROVE CacheInv
  OBVIOUS
<1>1. cache = Empty /\ Ids = {} /\ Entries(Empty) = {} /\ Indexed(Empty) = {}
  BY DEF IngestInit, Ids, Empty, Entries, Indexed
<1>2. Sound(Empty) /\ Held(Empty) /\ Counted(Empty, Ones)
  BY EmptySound
<1> QED BY <1>1, <1>2 DEF CacheInv, Placed, PinnedOf, PinsDrop

LEMMA NextCache == IngestInv /\ CacheInv /\ [IngestNext]_ingestVars => CacheInv'
<1> SUFFICES ASSUME IngestInv, CacheInv, [IngestNext]_ingestVars PROVE CacheInv'
  OBVIOUS
<1>1. ASSUME NEW d \in Digests, EnqueueDuplicate(d) \/ EnqueueMissing(d) PROVE CacheInv'
  BY <1>1, EnqueueRefusedCache
<1>2. ASSUME NEW d \in Digests, NEW pin \in BOOLEAN,
             \/ CrashInEnqueue(d, pin)
             \/ \E dest \in Dests \cup {used + 1} : EnqueueNew(d, pin, dest)
      PROVE  CacheInv'
  BY <1>2, EnqueueNewCache, CrashInEnqueueCache
<1>3. ASSUME NEW S \in SUBSET Ids, NEW r \in SUBSET Fresh(S), NEW o, NEW l,
             NEW a \in SUBSET (Ready(S) \ o), Apply(S, a, r, o, l)
      PROVE  CacheInv'
  BY <1>3, ApplyCache DEF Fresh
<1>4. ASSUME NEW i \in Ids, Release(i) PROVE CacheInv'
  BY <1>4, ReleaseCache
<1>5. ASSUME NEW i \in Ids, NEW b \in BOOLEAN, CrashInRelease(i, b) PROVE CacheInv'
  BY <1>5, CrashInReleaseCache
<1>6. ASSUME NEW i \in files, Removed(i) PROVE CacheInv'
  BY <1>6, RemovedCache
<1>7. CASE Restart
  BY <1>7, RestartCache
<1>8. ASSUME NEW r \in SUBSET Fresh(Ids), NEW o, NEW l, NEW a \in SUBSET (Ready(Ids) \ o),
             NEW b, NEW u, CrashInApply(r, o, l, a, b, u)
      PROVE  CacheInv'
  BY <1>8, CrashInApplyCache DEF Fresh
<1>9. CASE UNCHANGED ingestVars
  BY <1>9 DEF ingestVars, CacheInv, Placed, PinnedOf, PinsDrop, Ids
<1> QED BY <1>1, <1>2, <1>3, <1>4, <1>5, <1>6, <1>7, <1>8, <1>9 DEF IngestNext

LEMMA AlwaysCache == IngestSpec => []CacheInv
BY InitCache, NextCache, AlwaysInv, PTL DEF IngestSpec

(* A record that waits with a pin has it in the cache, whatever was evicted *)
(* or released since, and also after a start from a cache that is gone.     *)
THEOREM PinsHold == IngestSpec => []StagedIsPinned
<1>1. CacheInv => StagedIsPinned
  <2> SUFFICES ASSUME CacheInv, NEW i \in Ids, Staged(i), records[i].staged, records[i].pinned
               PROVE  Has(cache, Digest(i), i) /\ cache.entries[Digest(i)][i].pinned
    BY DEF StagedIsPinned
  <2>1. PinnedOf(cache, records, Ids)
    BY DEF CacheInv
  <2>2. Pins(cache, records[i].digest, i)
    BY <2>1 DEF PinnedOf, Staged, Ids
  <2> QED BY <2>2 DEF Pins, Digest
<1> QED BY <1>1, AlwaysCache, PTL

(* Until the process starts again, the cache holds just what waits: a path  *)
(* goes, and its pin with it, when the record is applied or released.       *)
THEOREM PinsGo == IngestSpec => []PinsDrop
<1>1. CacheInv => PinsDrop
  BY DEF CacheInv
<1> QED BY <1>1, AlwaysCache, PTL
=============================================================================
