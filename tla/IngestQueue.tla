---------------------------- MODULE IngestQueue ----------------------------
(***************************************************************************)
(* The asset ingest queue of comfyvn/ingest/queue.py with the cache index  *)
(* that it keeps (DedupCache), the staging directory, and the registry of  *)
(* assets: its rows, of which only the digests matter, and what lies at    *)
(* the places that they name.  The routes call the queue from one event    *)
(* loop and wait for nothing in between: calls do not overlap, but the     *)
(* process may go down between any two of their writes.                    *)
(*                                                                         *)
(* A staged file has a name of its own, so that record n stages file n.    *)
(* An asset is put at the place that the caller names, as others may too,  *)
(* or else under the name of its staged file, which is place n.            *)
(* The table of records is replaced on disk at the end of every call; what *)
(* a crash leaves is the table from before the call, and the files, cache  *)
(* and registry as far as the call got.                                    *)
(***************************************************************************)
EXTENDS DedupCache

CONSTANTS
    Dests,          \* the places in dest_relative that callers name
    MaxFiles,       \* bound: files that are ever staged
    MaxRestarts     \* bound: how often the process starts again

ASSUME IngestAssumption == /\ MaxFiles \in Nat /\ MaxRestarts \in Nat
                           /\ Paths = 1..MaxFiles /\ Dests \cap Paths = {}

VARIABLES
    records,     \* _records, from the number of the record
    index,       \* _digest_index: from a digest to a record
    cache,       \* the dedup cache
    files,       \* the staging directory
    registry,    \* digests of the rows of the registry of assets
    assets,      \* from a place of the assets to the registered content there
    used,        \* how many names of staging files are in use
    restarts,    \* how often the process has started again
    strays,      \* digests whose entry in the index another record took out
    dropped      \* digests whose only copy was released or removed by hand

ingestVars == << records, index, cache, files, registry, assets, used,
                 restarts, strays, dropped >>

Record == [status : {"staged", "duplicate", "failed", "applied", "released"},
           digest : Digests, staged : BOOLEAN, pinned : BOOLEAN,
           dest : Dests \cup Paths]

Ids == DOMAIN records
Staged(i) == i \in Ids /\ records[i].status = "staged"

(* Files of records, as opposed to what a crash has left behind. *)
HasFile(i) == i \in Ids /\ records[i].staged /\ i \in files
Copies(d) == {i \in Ids : records[i].digest = d /\ HasFile(i)}
Kept(d) == d \in Range(assets) \/ Copies(d) # {}

Pop(f, S) == Restrict(f, DOMAIN f \ S)

IngestInit ==
    /\ records = [i \in {} |-> 0] /\ index = [d \in {} |-> 0]
    /\ cache = Empty /\ files = {} /\ registry = {} /\ assets = [p \in {} |-> 0]
    /\ used = 0 /\ restarts = 0 /\ strays = {} /\ dropped = {}

(* The only index that register_path can leave here: no two entries were    *)
(* used at the same time.                                                   *)
RegisterIn(c, i, d, pin) == CHOOSE r \in Registered(c, i, d, pin) : TRUE

-----------------------------------------------------------------------------
(* Mutant: staged copies are not looked for. *)
IsDuplicate_Registry(d) == d \in registry

IsDuplicate(d) == d \in DOMAIN index \/ d \in registry

(* A copy of a content that waits or is registered is thrown away again. *)
EnqueueDuplicate(d) ==
    /\ used < MaxFiles /\ IsDuplicate(d)
    /\ used' = used + 1
    /\ records' = Put(records, used', [status |-> "duplicate", digest |-> d,
                                       staged |-> FALSE, pinned |-> FALSE,
                                       dest |-> used'])
    /\ UNCHANGED << index, cache, files, registry, assets, restarts, strays, dropped >>

EnqueueNew(d, pin, dest) ==
    /\ used < MaxFiles /\ ~IsDuplicate(d)
    /\ used' = used + 1
    /\ files' = files \cup {used'}
    /\ cache' = RegisterIn(cache, used', d, pin)
    /\ index' = Put(index, d, used')
    /\ records' = Put(records, used', [status |-> "staged", digest |-> d,
                                       staged |-> TRUE, pinned |-> pin,
                                       dest |-> dest])
    /\ dropped' = dropped \ {d}
    /\ UNCHANGED << registry, assets, restarts, strays >>

(* The staged file has gone before it could be registered in the cache. *)
EnqueueMissing(d) ==
    /\ used < MaxFiles /\ ~IsDuplicate(d)
    /\ used' = used + 1
    /\ records' = Put(records, used', [status |-> "failed", digest |-> d,
                                       staged |-> FALSE, pinned |-> FALSE,
                                       dest |-> used'])
    /\ dropped' = dropped \cup {d}
    /\ UNCHANGED << index, cache, files, registry, assets, restarts, strays >>

-----------------------------------------------------------------------------
Digest(i) == records[i].digest
DigestsOf(S) == {Digest(i) : i \in S}

(* _cleanup_staging, for the cache. *)
ReleaseIn(c, S) ==
    LET after[n \in 0..MaxFiles] ==
            IF n = 0 THEN c
            ELSE IF n \in S THEN Released(after[n - 1], n) ELSE after[n - 1]
    IN  after[MaxFiles]

(* Those of S that apply neither skips nor finds without their file. *)
Ready(S) == {i \in S : Staged(i) /\ HasFile(i)}

(* Mutant: the file is removed whether or not it was registered. *)
Settle_Removes(S, accepted) ==
    [i \in Ids |-> IF i \in accepted
                   THEN [records[i] EXCEPT !.status = "applied",
                                           !.staged = FALSE, !.pinned = FALSE]
                   ELSE IF i \in S /\ Staged(i) /\ records[i].staged
                   THEN [records[i] EXCEPT !.status = "failed", !.staged = FALSE]
                   ELSE records[i]]

Settle(S, accepted) ==
    [i \in Ids |-> IF i \in accepted
                   THEN [records[i] EXCEPT !.status = "applied",
                                           !.staged = FALSE, !.pinned = FALSE]
                   ELSE IF i \in S /\ Staged(i) /\ records[i].staged
                   THEN [records[i] EXCEPT !.status = "failed"]
                   ELSE records[i]]

Place(i) == records[i].dest
PlacesOf(S) == {Place(i) : i \in S}

(* What register_file does to the assets for those of S whose digest has no *)
(* row yet, one after the other: `rows` are copied to their places, whatever *)
(* lies there, and entered in the registry; `loose` are copied, perhaps not *)
(* to the end, and not entered; `last` are those that nobody copied over.   *)
(* Once a digest has a row it is not copied again.                          *)
Register(S, rows, loose, last) ==
    /\ rows \cap loose = {}
    /\ \A i \in rows \cup loose : i \in Ready(S) /\ Digest(i) \notin registry
    /\ last \subseteq rows \cup loose /\ PlacesOf(last) = PlacesOf(rows \cup loose)
    /\ \A i, j \in last : Place(i) = Place(j) => i = j
    /\ \A i \in rows, j \in rows \cup last :
           Digest(i) = Digest(j) /\ (j \in rows \/ Place(i) = Place(j)) => i = j
    /\ registry' = registry \cup DigestsOf(rows)
    /\ assets' = [p \in (DOMAIN assets \ PlacesOf(last)) \cup PlacesOf(last \cap rows) |->
                     IF p \in PlacesOf(last)
                     THEN Digest(CHOOSE i \in last : Place(i) = p) ELSE assets[p]]

(* apply: the registry accepts some of what is ready; of what it refuses,   *)
(* it may have written something before it raised.  Failed records keep     *)
(* their file and their digest in the index.                                *)
Apply(S, accepted, rows, loose, last) ==
    /\ accepted \subseteq Ready(S) \ loose
    /\ Register(S, rows, loose, last) /\ DigestsOf(accepted) \subseteq registry'
    /\ records' = Settle(S, accepted)
    /\ cache' = ReleaseIn(cache, accepted)
    /\ files' = files \ accepted
    /\ index' = Pop(index, DigestsOf(accepted))
    /\ strays' = strays \cup {d \in DOMAIN index \cap DigestsOf(accepted) :
                                 index[d] \notin accepted}
    /\ UNCHANGED << used, restarts, dropped >>

Releasable(i) == i \in Ids /\ records[i].status \in {"staged", "duplicate", "failed"}

(* Mutant: the cache is not told. *)
Release_LeavesPin(i) ==
    /\ Releasable(i)
    /\ files' = IF records[i].staged THEN files \ {i} ELSE files
    /\ records' = [records EXCEPT ![i] = [@ EXCEPT !.status = "released",
                                                   !.staged = FALSE, !.pinned = FALSE]]
    /\ index' = Pop(index, {Digest(i)})
    /\ dropped' = IF HasFile(i) /\ Copies(Digest(i)) = {i}
                  THEN dropped \cup {Digest(i)} ELSE dropped
    /\ UNCHANGED << cache, registry, assets, used, restarts, strays >>

(* The digest leaves the index even if it leads to another record. *)
Release(i) ==
    /\ Releasable(i)
    /\ cache' = IF records[i].staged THEN Released(cache, i) ELSE cache
    /\ files' = IF records[i].staged THEN files \ {i} ELSE files
    /\ records' = [records EXCEPT ![i] = [@ EXCEPT !.status = "released",
                                                   !.staged = FALSE, !.pinned = FALSE]]
    /\ index' = Pop(index, {Digest(i)})
    /\ strays' = IF Digest(i) \in DOMAIN index /\ index[Digest(i)] # i
                 THEN strays \cup {Digest(i)} ELSE strays
    /\ dropped' = IF HasFile(i) /\ Copies(Digest(i)) = {i}
                  THEN dropped \cup {Digest(i)} ELSE dropped
    /\ UNCHANGED << registry, assets, used, restarts >>

(* Somebody tidies the staging directory. *)
Removed(i) ==
    /\ i \in files
    /\ files' = files \ {i}
    /\ dropped' = IF HasFile(i) /\ Copies(Digest(i)) = {i}
                  THEN dropped \cup {Digest(i)} ELSE dropped
    /\ UNCHANGED << records, index, cache, registry, assets, used, restarts, strays >>

-----------------------------------------------------------------------------
(* Start again, from the files that are left and the cache that was written *)
(* last: staged records are registered in the cache once more, and the last *)
(* of those with the same digest gets it in the index.                      *)

Reload(r, left) ==
    [i \in DOMAIN r |->
        IF r[i].status = "staged" /\ r[i].staged /\ i \notin left
        THEN [r[i] EXCEPT !.staged = FALSE, !.pinned = FALSE] ELSE r[i]]

IndexOf(r) ==
    LET staged(d) == {i \in DOMAIN r : r[i].status = "staged" /\ r[i].digest = d}
    IN  [d \in {e \in Digests : staged(e) # {}} |-> Max(staged(d))]

(* Mutant: the cache is left as it was read. *)
CacheOf_AsRead(r, c) == CHOOSE l \in Loaded(c) : TRUE

CacheOf(r, c) ==
    LET after[n \in 0..MaxFiles] ==
            IF n = 0 THEN CHOOSE l \in Loaded(c) : TRUE
            ELSE IF n \in DOMAIN r /\ r[n].status = "staged" /\ r[n].staged
            THEN RegisterIn(after[n - 1], n, r[n].digest, r[n].pinned)
            ELSE after[n - 1]
    IN  after[MaxFiles]

StartAgain(left, c) ==
    /\ restarts < MaxRestarts
    /\ restarts' = restarts + 1
    /\ files' = left
    /\ records' = Reload(records, left)
    /\ index' = IndexOf(records')
    /\ cache' = CacheOf(records', c)
    /\ UNCHANGED strays

Restart == /\ StartAgain(files, cache)
           /\ UNCHANGED << registry, assets, used, dropped >>

(* The file of the cache may be cut short by the crash. *)
Written(c) == {c, Empty}

(* A crash in enqueue: the copy is there, and perhaps its cache entry. *)
CrashInEnqueue(d, pin) ==
    /\ used < MaxFiles
    /\ used' = used + 1
    /\ \E c \in Written(cache) \cup
               (IF IsDuplicate(d) THEN {} ELSE Written(RegisterIn(cache, used', d, pin))) :
           StartAgain(files \cup {used'}, c)
    /\ UNCHANGED << registry, assets, dropped >>

(* A crash in apply: some were registered, some of these released in the    *)
(* cache, and all of those but the one in work have lost their file.        *)
CrashInApply(rows, loose, last, registered, released, unlinked) ==
    /\ unlinked \subseteq released /\ released \subseteq registered
    /\ registered \subseteq Ready(Ids) \ loose
    /\ Cardinality(released \ unlinked) <= 1
    /\ Register(Ids, rows, loose, last) /\ DigestsOf(registered) \subseteq registry'
    /\ \E c \in Written(ReleaseIn(cache, released)) : StartAgain(files \ unlinked, c)
    /\ UNCHANGED << used, dropped >>

CrashInRelease(i, unlinked) ==
    /\ Releasable(i) /\ records[i].staged
    /\ \E c \in Written(Released(cache, i)) :
           StartAgain(IF unlinked THEN files \ {i} ELSE files, c)
    /\ dropped' = IF unlinked /\ HasFile(i) /\ Copies(Digest(i)) = {i}
                  THEN dropped \cup {Digest(i)} ELSE dropped
    /\ UNCHANGED << registry, assets, used >>

(* Those of S that may be copied. *)
Fresh(S) == {i \in Ready(S) : Digest(i) \notin registry}

IngestNext ==
    \/ \E d \in Digests : EnqueueDuplicate(d) \/ EnqueueMissing(d)
    \/ \E d \in Digests, pin \in BOOLEAN :
           \/ CrashInEnqueue(d, pin)
           \/ \E dest \in Dests \cup {used + 1} : EnqueueNew(d, pin, dest)
    \/ \E S \in SUBSET Ids : \E r \in SUBSET Fresh(S) : \E o \in SUBSET (Fresh(S) \ r) :
           \E l \in SUBSET (r \cup o), a \in SUBSET (Ready(S) \ o) : Apply(S, a, r, o, l)
    \/ \E i \in Ids : Release(i) \/ \E b \in BOOLEAN : CrashInRelease(i, b)
    \/ \E i \in files : Removed(i)
    \/ Restart
    \/ \E r \in SUBSET Fresh(Ids) : \E o \in SUBSET (Fresh(Ids) \ r) :
           \E l \in SUBSET (r \cup o), a \in SUBSET (Ready(Ids) \ o) :
              \E b \in SUBSET a : \E u \in SUBSET b : CrashInApply(r, o, l, a, b, u)

IngestSpec == IngestInit /\ [][IngestNext]_ingestVars

-----------------------------------------------------------------------------
TypeOK ==
    /\ \E S \in SUBSET (1..used) : records \in [S -> Record]
    /\ \E S \in SUBSET Digests : index \in [S -> Ids]
    /\ files \subseteq 1..used /\ used \in 0..MaxFiles
    /\ \E S \in SUBSET (Dests \cup Paths) : assets \in [S -> Digests]
    /\ registry \subseteq Digests /\ strays \subseteq Digests /\ dropped \subseteq Digests
    /\ restarts \in 0..MaxRestarts

(* The index leads from a digest to a record that has it and is not settled, *)
(* and every staged record that nobody has pushed out is found there.       *)
IndexIsTrue ==
    /\ \A d \in DOMAIN index : /\ records[index[d]].digest = d
                               /\ records[index[d]].status \in {"staged", "failed"}
    /\ \A i \in Ids : Staged(i) /\ Digest(i) \notin strays =>
           Digest(i) \in DOMAIN index

(* A content is staged once, unless its digest was taken out of the index   *)
(* by a record that the index did not lead to.                              *)
OneStagedPerDigest ==
    \A i, j \in Ids : Staged(i) /\ Staged(j) /\ Digest(i) = Digest(j)
                      /\ Digest(i) \notin strays => i = j

(* Records and digest index agree, also after a crash between any two writes *)
(* and the index that the next start makes again.                            *)
RecordsSound == TypeOK /\ IndexIsTrue /\ OneStagedPerDigest

(* A registered content whose place was named for another content as well.  *)
Displaced(d) == /\ d \in registry
                /\ \E i, j \in Ids : /\ Digest(i) = d /\ Digest(j) # d
                                      /\ records[i].dest = records[j].dest
                                      /\ records[i].dest \in Dests

(* Whatever was accepted, as a copy or as a duplicate of one, is an asset   *)
(* at its place or lies in a staged file, through every crash; unless       *)
(* somebody asked for the release of the last copy, or removed it by hand,  *)
(* or it was registered at a place that was given to another content too.   *)
NothingLost ==
    \A i \in Ids : records[i].status # "released" =>
        \/ Kept(Digest(i)) \/ Digest(i) \in dropped
        \/ Displaced(Digest(i))

(* A file that is staged to be pinned is pinned in the cache, also after    *)
(* the process has started again from a cache that was cut short.           *)
StagedIsPinned ==
    \A i \in Ids : Staged(i) /\ records[i].staged /\ records[i].pinned =>
        Has(cache, Digest(i), i) /\ cache.entries[Digest(i)][i].pinned

(* Pins drop when a record is applied or released, as long as the process   *)
(* has not been started again.                                              *)
PinsDrop ==
    restarts = 0 => \A i \in Indexed(cache) :
        i \in Ids /\ records[i].staged /\ records[i].status \in {"staged", "failed"}
=============================================================================
