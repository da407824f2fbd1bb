# A TLA+ model of ComfyVN

ComfyVN is a studio for visual novels: a FastAPI server, a Qt desktop client and
many tools around them.  This directory holds TLA+ specifications of the parts
in which several actors share state, the configurations with which TLC checks
them, and theorems about them that TLAPS proves for every value of the constants.

Paths below are relative to `src/comfyvn/` unless they start with `src/`.
`PROJECT.json` lists, for every definition, the lines it models.

1. [The system](#1-the-system)
2. [The modules](#2-the-modules)
3. [Runs](#3-runs)
4. [Fairness](#4-fairness)
5. [Proofs](#5-proofs)
6. [Known divergences](#6-known-divergences)
7. [What the models leave out](#7-what-the-models-leave-out)
8. [Plan](#8-plan)

## 1. The system

The core is collaborative editing of a scene.  Every client holds a WebSocket
(`/api/collab/ws`), whose loop on the server finds the room of its scene in the
hub, applies the operations it receives to the room's document, broadcasts the
results, and saves the scene.  REST routes do the same for clients without a
socket.  Everything on the server runs in one asyncio event loop, so that a
handler is atomic between two of its `await`s; loads and saves of files run in
threads, under `asyncio.Lock`s.

| component | code | state | operations | driven by | hard behaviour | what makes it correct | modelled |
|---|---|---|---|---|---|---|---|
| document | `collab/crdt.py` | registers, line order, Lamport clock, version, bounded log and index | bootstrap, snapshot, apply_operation, operations_since | rooms | order of clocks, duplicates, log overflow | accepted operations take effect in order; the version names the state | yes |
| presence, soft lock | `collab/room.py` | members, owner, lease, queue | join, leave, request, release, presence | WebSocket loops, REST | reconnections, expiry without a timer, failed broadcasts | one owner, first come first served, no owner that is gone | yes |
| persistence | `collab/room.py` | dirty flag, persisted version, persist lock | apply_operations, flush | WebSocket loops, REST, `POST /flush` | edits during a save, saves that raise | the file never regresses and is what was edited | yes |
| hub | `collab/room.py` | rooms by scene | room, flush_all, discard_empty | every handler | loads that overlap, discards that take no lock | one room per scene; nothing unsaved is abandoned | yes |
| WebSocket and REST API | `server/modules/collab_api.py`, `server/routes/collab.py` | one loop per connection | the messages of `src/docs/COLLAB_EDITING.md` | clients | a connection ends anywhere | as its parts | with its parts |
| scene storage | `server/core/storage.py` | a JSON file per scene | scene_load, scene_save | hub, other routes | writes in place | | as an atomic file |
| Qt client | `gui/services/collab_client.py`, `gui/editors/node_editor.py` | its scene, the base of the next difference, socket, counter | edit, import, connect, reconnect, snapshot | the editor | edits and snapshots that cross, edits while offline, operation ids used again | its copy becomes the room's scene; it sends what its user did and no more | yes |
| compute jobs | `compute/scheduler.py`, `server/routes/schedule.py` | job table, heaps, active set | enqueue, claim, requeue, complete, fail | REST, workers | heap entries that are stale, a requeued job with two workers | no queued job is forgotten; one line by priority and arrival | yes |
| asset ingest | `ingest/queue.py` | records, digest index, staging files | enqueue, apply, release | REST | crashes between the writes of a call, restarts | what was accepted is lost only by release, by hand or to another content at its place; a content is staged once | yes |
| cache index | `cache/cache_manager.py` | entries by digest, digest by path | register, touch, pin, release, evict, rebuild, load | ingest, other caches | paths that change content, pins, a file cut short | the two maps agree; pinned contents stay | yes |
| budgets | `perf/budgets.py`, `server/jobs_api.py`, `server/routes/perf.py` | queued, delayed, running jobs; assets by use | register, start, finish, refresh; load, touch, evict | REST, threads | registration twice, polls that overtake each other | a job is where its status says; delayed jobs are promoted | yes |
| secret store | `security/secrets_store.py` | key file, ciphertext file | load, write, update, rotate | REST, providers | a crash in a rotation | the files on disk belong together | planned |
| event buses | `core/modder_hooks.py`, `core/event_hub.py`, `server/core/event_stream.py` | subscribers, bounded queues | subscribe, publish | everything | slow subscribers | the newest events are kept, in order | planned |
| cloud sync | `sync/cloud/*.py` | local and remote manifest | plan, apply | REST | operations that fail one by one | the remote manifest is true | planned |
| server jobs, renders, cron | `server/core/job_manager.py`, `render_manager.py`, `scheduler.py` | heaps, tables, a schedule | enqueue, retry, tick | nothing: no instance is made in the repository | | | no |

The rest (user interface, importers and exporters, provider clients, market
packages, scenario runner, savepoints) is sequential code over text and files;
`PROJECT.json` lists each with the reason it is not modelled.

How the parts interact: a WebSocket loop asks the hub for its room
(`CollabHub.room`, which loads the scene through `scene_load` when it is new),
joins it, and from then on calls the room's document, lock and `flush` directly.
When it ends it leaves, flushes and calls `discard_empty`, which drops every room
without members.  Rooms save through `scene_save`.  The desktop client answers
what the loops broadcast by replacing the scene in its editor.  The ingest queue
registers what it stages in the cache index and pins it there.  `jobs_api`
registers its jobs with the budgets and keeps a list of its own beside them.

## 2. The modules

| module | what it is |
|---|---|
| `SceneOps` | the content of a scene and the effect of an operation on it, without clocks |
| `SceneStore` | abstract specification: one scene, to which operations are applied one at a time |
| `CollabDocument` | `CRDTDocument`; `ImplementsSceneStore` is the refinement |
| `CollabReader` | the recovery protocol over a document: replay of the history, operations sent again |
| `CollabControl` | membership and soft lock of one room, with sockets, REST callers and broadcasts |
| `CollabFlush` | persistence of one room: edits, flushes, the persist lock, the saving thread |
| `CollabHub` | the registry of rooms, with the members and flushes of every room and the loops and routes that use them |
| `CollabClient` | the desktop clients with their connections, and as much of the server as answers them |
| `PriorityLine` | abstract specification: one line of waiting jobs per queue, by priority and arrival |
| `JobScheduler` | the compute scheduler with its heaps; `ImplementsPriorityLine` is the refinement |
| `DedupCache` | the index of the cache as a value, and what each method makes of it |
| `CacheIndex` | the cache manager with its callers and restarts |
| `IngestQueue` | the ingest queue composed with the cache index, the staging directory and the registry |
| `Budgets` | the budget manager with the list of `jobs_api`, its polls, and lazy assets |
| `MC...`, `MCScenes` | constants of the small instances |
| `..._proofs` | theorems and their proofs |

`CollabFlush` is the detailed model of what `CollabHub` does in each of its
rooms; `CollabHub` records which edits a room holds instead of counting them.
`CollabClient` in turn takes the end of a loop and the joining of a room as one
step each, whose own steps are in `CollabHub`.

**CollabDocument.**  `store.reg` holds the registers of the fields, meta entries,
nodes and lines in one function, `store.order` the order register, and
`store.seen` the keys of `_lines` in the order they were created, since
`snapshot` lists lines that the order lacks in that order.  Each `_op_...` handler is an operator that returns the new
registers and whether anything changed; `Accept` and `Duplicate` are the two ways
through `apply_operation`.  A value, an id and a name are model values; operation
ids are numbers, since `LWWRegister.update` compares them.  None and the empty
string are two values, as they are for `LWWRegister.update`.  An upsert that names no
node or line is performed under an id that nothing has yet (`Completed`, for
`uuid4`), and logged as it came.  `Bootstrap` and
`Snapshot` are the conversions from and to the file, including what happens to an
empty title, to a start that is None and to repeated lines.

**CollabReader** adds a reader's copy and the ids accepted so far, and either
sends an operation for the first time, sends one again, or pulls a snapshot.

**CollabControl.**  `lock` is `[owner, lease, queue]`; a lease is the number of
ticks left, and `Tick` lets time pass.  A client has any number of sockets, may be
a member through a socket or through REST (`headless`), and leaves in one of the
four ways of the code: its socket disconnects, `POST /room/leave`, or a broadcast
could not reach it, which happens in two steps (`SendFails`, `LeaveFailed`)
because `_broadcast` removes the failed clients after it has tried all.

**CollabFlush.**  `flushes` is the first-in first-out queue of the persist lock,
each element a task with the payload it took before it waited; the head has the
lock.  `version` stands for the scene, `disk` for the version in the file, and
`calm` records the last edit that was made while nothing was being saved.

**CollabHub.**  `hubQueue` is the queue of the hub's lock; its head may be in the
thread that loads a scene.  A room is a record with its own flush queue.  Rooms
that were discarded live on until no loop and no flush has them (`Unused`), as
objects do, and can still write their scene's file.  A scene is the set of the
edits made to it, so that a lost edit shows.

**CollabClient.**  `client[c]` is the editor (`id`, `nodes`), the adapter (`base`,
from which the next difference is taken; `place`, the scene it is connected to;
`counter`) and the socket.  Every connection has a queue of messages in each
direction; when it breaks, the client reads no more and the server may still read
what is there.  `skipping` holds the editors whose `_skip_changed` is set: after a
snapshot or a file is loaded, until a zero timer fires (`SkipEnds`), an edit changes
the editor and is told to nobody (`Skipped`).  `silent`, `returned` and `refused` are
history variables: the nodes that were loaded from a file or edited like that, and
not told of since; who has left a scene and come back; and whose operations were
taken for duplicates.  The properties say that what goes wrong, which it does, goes
wrong in these cases only.

**JobScheduler.**  `heap[q]` is the set of a heap's entries; they stay when their
job changes, and `Claim` pops them until one is of a queued job.  `holds` is what
the workers believe they work on.  `careful` turns false when a caller ends or
requeues a job that a worker holds, requeues one with an entry left over, or uses
an id again: the scheduler does not defend itself against that, and
`PriorityLine` promises nothing from then on; `BoardSound` and `QueuedIsServed`
do not depend on it, but for the part of `BoardIsTrue` that says so.  `complete`
stores any status it is given, and stores it before it converts the byte counts,
which may raise: `EndsAstray`.  Such a job is `astray` until it is enqueued, ended,
put back or claimed.  Until then it may be queued without an entry, or running
and not on the board; the properties are about all other jobs.

**DedupCache, CacheIndex.**  Times of use are ranks, so that entries of one time
may be evicted in any order.  The index is written inside every call, so that the
state on disk is the state; `TornRestart` is the write that was cut short.
`moves` counts registrations of a path with another content: what fails with them
is stated only without.  The `persist` argument is always true in the code's own
calls.  When two entries hold a path, `_load` may index either of them, where the
code takes the later in the file.  `Rebuild` reads the pins in the same step,
where the code reads them before it takes the lock.

**IngestQueue.**  A staged file has a name of its own, so that record `n` stages
file `n`.  The calls do not overlap, but each has a variant that crashes between
two of its writes (`CrashInEnqueue`, `CrashInApply`, `CrashInRelease`) and starts
again from the old table, the files and the cache as far as the call got.
`strays` holds the digests that a record took out of the index although it led to
another, and `dropped` those whose last copy somebody released or removed.  Callers
may name the place where an asset goes (`dest_relative`), and two may name the same
(`Dests`): `assets` is what lies where a row of the registry says.  `Register` is
`register_file` of the asset registry, which copies over whatever is there, before
it enters the row.  Other writers of the registry are left out.

**Budgets.**  Nothing reads the order of the two queues, so each is a count per
job.  The manager's methods are atomic, under its lock; `submit` and `poll` of
`jobs_api` write their list after it is gone (`Listed`, `PollWrites`).  `recent`
says that the last evaluation is younger than the interval; `recency` is the order
of use of the assets.

Definitions named `X_...` above a definition `X` are variants with a plausible
bug; each checked property is shown to fail under one of them (`"mutants"`).
Where a module's type invariant and the agreement of its parts are one question,
they are the conjuncts of one property (`LockSound`, `CacheSound`, ...), the type
invariant first.

## 3. Runs

| run | module | checks | bounds |
|---|---|---|---|
| `document` | MCCollabDocument | `TypeOK`, `ClockDominates`, `HistoryExact`, `RoundTrip`, `VersionCountsChanges`, `ImplementsSceneStore` | 19 operations of all kinds, 2 nodes, 3 lines, 2 initial scenes, log of 2, clock to 5 |
| `reader` | MCCollabReader | `CatchUpExact`, `RecentOperationsKnown` | 9 operations, one of a node without an id, log of 2, clock to 7 |
| `control` | MCCollabControl | `LockSound`, `FirstComeFirstServed`, `LeaseRespected`, `NobodyStarves` | 3 clients, one with up to 2 sockets, leases of 1 and 2 ticks |
| `flush` | MCCollabFlush | `FlushesSound`, `QuietEditsSurvive`, `DiskNeverRegresses`, `FlushReturns` | 3 loops, 1 `POST /flush`, 3 edits |
| `hub` | MCCollabHub | `RegistrySound` | 2 connections with one client id, 1 REST caller, 3 rooms, 2 edits, every fault |
| `hub_own` | MCCollabHub | `OneRoomPerScene`, `ConnectionsProceed` | 2 connections with ids of their own, 1 REST caller, saves that raise |
| `hub_loops` | MCCollabHub | `NothingForgotten`, `NothingAbandoned` | 2 connections in one scene, 1 alone in another, 2 edits, broadcasts that fail |
| `client` | MCCollabClient | `ClientsSound`, `InSync`, `OnlyOwnEdits`, `ComesBack` | 2 clients, 2 scenes, 2 nodes; 4 events, where all but the edits and moves of one client count as 2; the other client edits only |
| `scheduler` | MCJobScheduler | `BoardSound`, `QueuedIsServed`, `ImplementsPriorityLine` | 2 jobs, 2 queues, 2 priorities, 2 workers, one of them with a device, 3 places in line |
| `cache` | MCCacheIndex | `CacheSound`, `PinnedIsKept`, `OldestGoFirst` | 2 paths, 3 contents, one of them big; room for 2; each path held twice, one path that changes content |
| `ingest` | MCIngestQueue | `RecordsSound`, `NothingLost`, `StagedIsPinned`, `PinsDrop` | 3 files of 2 contents, a place for each and 1 that callers name, room for 1 unpinned entry, 1 restart |
| `budgets` | MCBudgets | `QueuesSound`, `QueueWithinCapacity`, `EvictsOldestUntilFreed`, `PromotedWhenCalm` | 2 jobs, one of them registered twice; 3 assets, 1 resource, 2 limits, 2 polls |

What they show:

* `document`: although registers are last-writer-wins, an operation the server
  accepts never loses to an earlier one and takes effect completely, whatever
  clock its client sent; the version moves exactly when a value or the order of the
  lines does; what is written to the file is read back as the same scene.
* `reader`: replaying the log is exact as far as the log reaches and names what it
  writes, and a client may safely repeat any of the last `max_history` operations.
* `control`: three clients are enough for an owner, a client that is promoted and
  one that it could overtake; two sockets for a client that is back before its
  old connection is known to be gone.
* `flush`: three loops and a `POST /flush` make queues in which a task waits behind
  one that saves and one that will skip.  Three edits let each save miss one.
* `hub`, `hub_own`, `hub_loops`: two tasks suffice to have the load of one overlap
  with the arrival or the end of the other; the REST caller joins and leaves rooms
  in between, and three rooms allow a scene to be discarded twice while old rooms
  are still saving.  Two edits are one before and one during a save, or one before
  and one after an editor has come back.
* `client`: edits of two clients cross with the snapshots they cause; the busy one
  moves to the other scene and back, or loses its connection and returns before
  the server has noticed.  A client that is in its room and has nothing under way
  shows what the room holds, but for the nodes its editor has changed silently, and
  an edit sends at most these with it.  Four events are enough to leave a scene, come back
  and edit again with a counter that starts from the beginning, or to edit right
  after a snapshot and once more later.
* `scheduler`: three places in line let a job be requeued into a heap that still has
  its old entry, and its id be used again.  No queued job is out of reach in any
  of them, but for those that `complete` was told are queued; careful callers see
  one line.
* `cache`: three contents with room for two make every registration evict, and the
  big one evict two; a path that changes content leaves the old entry behind.
* `ingest`: three files are a copy, a duplicate of it and one that is staged after
  either was released.  The process goes down between any two writes, and starts
  from whatever that left.  Callers may name one place for both contents: a content
  is lost from it only to the other one.
* `budgets`: a job that is registered twice meets one that is registered once;
  two polls overtake each other; three assets leave a choice of what to evict.
  Jobs and assets share no state but the metrics, so that a behaviour has either
  (`Together` is false).

The bounds: `MaxHistory` is 512 in the code and 2 in the runs, where it overflows
after three operations; `MaxClock`, `MaxVersion`, `MaxEdits`, `MaxRooms`,
`MaxEvents`, `MaxSeq`, `MaxRefs`, `MaxMoves`, `MaxFiles`, `MaxRestarts` and
`MaxTimes` stop the callers, not what is under way.  Deadlock is checked in all
runs but `client`, `scheduler` and `ingest`, which stop when the bounded events, places
or files are used up.  `cache` and `ingest` use the symmetry of their paths or digests;
they have no liveness properties.

## 4. Fairness

* `LiveControlSpec`: weak fairness of `Tick`, since time passes, and of `Presence`.
  The second is a demand on the clients of the room, which nothing in the code
  makes them meet: whenever a lease is over, somebody in the end reads the presence,
  over `GET /presence` or by a `presence.update`, a control message, a join or a
  departure over REST.  There is no timer, and a room in which clients only edit
  and ping does not read it: `doc.apply` broadcasts the document alone.  The desktop
  client sends its presence when it connects and when another node is selected.
  `NobodyStarves` supposes the demand met, and that owners stop renewing their
  leases at some time; the code lets an owner renew for ever.
* `FlushFairness`: weak fairness of the task at the head of the lock, of the
  thread, and of a loop that has applied an edit.  The event loop runs every task
  that is ready and a thread ends, by returning or by raising.  Clients need not
  do anything.
* `HubFairness`: the same for the hub's lock and each room, and for the end of a loop.
* `LiveClientSpec`: weak fairness of `LoopStep`, what the event loops of clients and
  server do when something is ready, the single-shot timers of a lost connection and
  of a loaded editor included.  Attempts to connect fail a bounded number of times.
* `LiveSchedSpec`: a worker that has a job ends it or is lost (weak), and each queue
  is served again and again by somebody who can (strong, since workers come and
  go and are busy in between).  It is a demand on the workers, which are other
  programs.
* `LiveBudgetsSpec`: time passes and somebody goes on polling (weak).  The code
  promotes nobody by itself.

## 5. Proofs

| theorem | says | argument |
|---|---|---|
| `ClocksDominated`, `VersionExact`, `Implementation`, `HistoryAlwaysExact` (`CollabDocument_proofs`) | `ClockDominates`, `VersionCountsChanges`, `ImplementsSceneStore`, `HistoryExact` | `ClockInv`: no register's clock is ahead of the document's.  The clock an operation is stamped with is greater, so every register it touches takes its value (`UpdateWins`); one lemma per handler then says that it has exactly the effect `SceneOps` defines and reports a change exactly when there is one.  The step of the abstract store follows, a duplicate being a stutter. |
| `RecentKnown`, `CatchUpAlwaysExact` (`CollabDocument_proofs`) | `RecentOperationsKnown`, `CatchUpExact` | `ReaderInv`: the log is exactly the end of what was accepted.  `CatchUpAlwaysExact` needs what a replay computes.  While no record newer than the copy has been trimmed, replaying the newer part of the log from the copy gives the scene; a record that is appended is replayed last (`ReplayAppend`), and one that is trimmed was in the copy already, or leaves a gap (`ExactTail`).  `operations_since` then returns all of that newer part in one answer (`PullExact`). |
| `DocumentTyped`, `RoundTripExact` (`CollabDocument_proofs`) | `TypeOK`, `RoundTrip` | `Neat`: no line is listed or remembered twice, and every line that has a value is remembered.  So the lines a document shows are the listed ones in order and then the others in the order they were first seen, each once (`VisibleIsValued`); a scene made of them, once loaded, lists exactly these (`AgainLines`), and every register has its value again (`AgainValue`), a title but for an empty one, a start but for None.  Taking out doubles and what is not shown are folds, of which `OnlyInIds` and `DeduplicatedIds` say what is left. |
| `LockAlwaysSound`, `LeaseKept`, `LongestWaitServed` (`CollabRoom_proofs`) | `LockSound`, `LeaseRespected`, `FirstComeFirstServed` | `Sound` locks have no duplicates and not the owner in the queue.  Every operation on locks keeps that, and a lemma bounds whom it can add to the holders; `leave` removes its client, which needs `Sound`, as it looks for an owner in the owner field only.  A lock that changes hands goes to the first of the queue that is a member, for each way that `promote` is reached. |
| `FlushesAlwaysSound`, `DiskMonotone`, `QuietEditsReachDisk` (`CollabRoom_proofs`) | `FlushesSound`, `DiskNeverRegresses`, `QuietEditsSurvive` | `FlushInv`: payloads in the queue lie between the file and the document, in order; none is older than the last edit that met no flush; a room that is not dirty has that edit on disk. |
| `RegistryAlwaysSound`, `OneRoom` (`CollabHub_proofs`) | `RegistrySound`, `OneRoomPerScene` | `Found`: while a scene is being loaded it has no room, which is what the hub's lock protects, hence a new room replaces none; a discarded room has no members.  `Present`: a connection in its loop is a member of its room, if client ids are not shared and broadcasts arrive. |
| `NothingIsForgotten`, `NothingIsAbandoned` (`CollabHub_proofs`) | `NothingForgotten`, `NothingAbandoned` | `LoopsInv`, which speaks of loops and not of members, so that failed broadcasts leave it alone.  `Attended`: a room with something left to flush is dirty, and some connection in it is still broadcasting or flushing its edit.  `OneQueue`: a connection stands in one queue, once, of the room it is in.  `Kept`: a scene with one editor has one room in use, the registered one or the discarded one its editor is still in; every edit is there or, when there is none, on disk, and what is read or saved meanwhile is as new. |
| `ClientsStaySound`, `CopiesInSync`, `SendsOwnEdits` (`CollabClient_proofs`) | `ClientsSound`, `InSync`, `OnlyOwnEdits` | `ClientInv`.  `Numbered`: while a client has not come back, a number it gave is on its way once, or is known to one room, and is no greater than its counter.  `Following`: the last snapshot on its way to a member is what its room holds, and when there is none, the base of its copy differs from the room only where an edit that is on its way up makes up for it (which needs `OnceEach`: no message has a node twice).  `Noted`: the editor differs from that base only at nodes that were imported, or edited while it skipped changes; so it shows the room's value everywhere else.  `Linked` and `Socketed` tie rooms, connections and clients together.  Clients that have come back are left out where the code fails them, which is what `RefusedOnlyAfterReturn` and `DetachedOnlyAfterReconnect` say. |
| `BoardAlwaysSound`, `LineImplemented`, `StickyHolds` (`Jobs_proofs`) | `BoardSound`, `ImplementsPriorityLine`, `StickyStays` | Entries are pushed with a sequence number that is new, and a queued job has an entry with its queue and priority: what `Claim` pops and throws away is of jobs that are not queued.  While callers are careful a queued job has one entry, so that the order of the heap is the order of the line, and a worker's job is running and has none. |
| `QueuesAlwaysSound`, `CapacityHolds` (`Jobs_proofs`) | `QueuesSound`, `QueueWithinCapacity` | `JobInv` says where one job may be, given its status and how often it was registered; `PollInv`, that what a poll or a submission has still to write was true when it was read and can only have become late in one direction.  For `QueueWithinCapacity` the places of all jobs have to be added up: registering finds room for one more, and a promotion moves places it has counted.  The sums are over finite sets, by induction on their subsets (`SubsetInduction`). |
| `OldestEvicted` (`Jobs_proofs`) | `EvictsOldestUntilFreed` | `AssetInv`: the list of uses has every asset once, the loaded ones among them.  What is loaded, in order of use, is a fold that keeps their order (`OnlyInOrder`), and eviction a fold over that: the evicted ones are the beginning of the list that is just long enough for its sizes to add up to the target, or all of it (`EvictedBegins`). |
| `CacheAlwaysSound`, `PinnedHolds` (`CacheIndex_proofs`) | `CacheSound`, `PinnedIsKept` | One lemma for each method of `DedupCache`, in `DedupCache_proofs`, which the next two rows and the ingest queue use as well.  Eviction takes every path of an entry out of the index wherever it leads; the index remains right because every path that is left is in the entry that the index leads to, which no evicted entry is.  A pinned entry is still pinned when room is made for the new one, and is no candidate. |
| `OldestGoesFirst`, `RegistrationAnswers` (`CacheIndex_proofs`) | `OldestGoFirst` | `RankedInv`: the times of last use are ranks below the number of digests, so that ranking them again keeps their order.  The loop that makes room runs through the entries in that order; the state of the cache is followed from one eviction to the next.  It ends with the limits kept or with all that is left pinned. |
| `RecordsAlwaysSound`, `NothingIsLost` (`IngestQueue_proofs`) | `RecordsSound`, `NothingLost` | `Found`: the index leads from the digest of a staged record to that record, unless another record took it out.  A duplicate is thus refused for a record that has not been released, and by induction that one's content is kept.  `Shelved`: what has a row lies at its place, or a record of another content was given the same place.  A crash leaves a file or a row for whatever had either; the digest index of the next start picks one of the staged records (`MaxIsIn`). |
| `PinsHold`, `PinsGo` (`IngestQueue_proofs`) | `StagedIsPinned`, `PinsDrop` | `CacheInv`: a path of an entry is a path the queue has given out, and if it has a record, the record has that digest; until the first restart no path is held more than once.  Releasing one path leaves the others; a start registers each staged file, and a file that is registered keeps its pin whatever is registered after it. |

They hold for any number of clients, loops, scenes, operations, jobs, workers,
paths, files and restarts, any bound and any lengths of log and lease, from the
assumptions named `...Assumption` and `...Bounds` in the modules: bounds are
natural numbers, the jobs of the budgets are finitely many, sizes are natural
numbers, ids differ from `None`, the registers of a document (fields, meta keys, nodes
and lines) are told apart by their keys, operations and the scenes on disk carry
values of the right sort, connections and REST callers are different tasks, and each connection asks
for a scene.  `OneRoom` assumes in addition that no two tasks give the same client
id, which it needs: the end of the older of two connections takes the newer out of
the room.  `NothingIsForgotten` and `NothingIsAbandoned` need no such assumption, but
are about connections alone (`LoopsSpec`): an edit over REST leaves no loop behind
that would flush it.

Where a proof is about a fold or a recursive function (the sums of the budgets, what
an eviction takes, the lines a document shows, the replay of a log, the index that a start puts together), the function is first shown to
exist, by extending it step by step, and to satisfy its equation; a smallest
counterexample (`LeastNumber`) or a largest subset (`SubsetInduction`) takes the place of
induction, since the library's induction theorems take an operator as a parameter
and cannot be used here.

Only model-checked is everything under fairness (`NobodyStarves`,
`FlushReturns`, `ConnectionsProceed`, `ComesBack`, `QueuedIsServed`,
`PromotedWhenCalm`), which is out of the prover's reach.

## 6. Known divergences

Where the models show the code to do other than a reader of the documentation
would expect.  The properties are stated so that they hold of the code; each says
in its comment what it leaves out.

`src/docs/COLLAB_EDITING.md` and the code of the rooms:

* "replay missing operations" (line 146): the answer of `operations_since` has a
  gap when the log has overflowed, and nothing tells the reader.  `CatchUpExact` is
  about readers within the log.
* "deterministic state reconstruction" from `history_since` (line 137): a node or
  line that comes without an id is given a fresh one when it is applied
  (`crdt.py:157`, `165-168`), which its record does not carry; whoever replays the
  record, or applies the operation that was broadcast, names it anew.
  `CatchUpExact` is about records that name what they write (`NamedSince`), and fails
  without that condition.
* The version also moves when a start goes from None to the empty string, which no
  snapshot tells apart (`crdt.py:119`, `296`).
* The same `op_id` does not "mutate state" (line 64): after `max_history` further
  operations the id is forgotten and the operation is applied again.
  `RecentOperationsKnown` is about the last `max_history`.
* "automatic promotion when owners disconnect or expire" (lines 57-58): expiry is noticed
  only when somebody asks for the lock or reads the presence, which edits and pings
  do not.  A client may wait for ever behind an owner whose lease is over;
  `NobodyStarves` supposes that somebody looks.
* The flush (line 59) notes the version the document has after the save, not the
  one it saved; an edit made in between by another client is taken for saved.
  `QuietEditsSurvive` is about edits that met no save.
* A client that drops resumes (lines 214-215): the end of its old loop removes its
  new connection from the room, and may discard the room under it.
  `OneRoomPerScene` supposes ids that are not shared, and
  `DetachedOnlyAfterReconnect` says that there is no other way out of the room.
* REST edits (`server/routes/collab.py:277`) are neither flushed nor sent to the
  sockets of the room.  With a REST caller in `hub_loops`, `NothingForgotten` fails.
* `NothingForgotten` and `NothingAbandoned` hold of saves that do not raise: the last
  loop of a room swallows the failure and discards the room.
* A broadcast that fails removes its receiver from the room although its loop runs on
  (`collab_api.py:93-98`), even the editor that is broadcasting its own edit.  The end
  of any other loop may then discard the room before it is flushed (246-247).  The
  loop flushes the discarded room (`NothingAbandoned`), and a single editor that comes
  back after that finds its edits (`NothingForgotten`).  A client that comes back
  before, while the loop of its dead socket is still to flush, is given the older
  file, and the two rooms then write over each other: this is two connections of one
  scene, of which `NothingForgotten` says nothing, and `OneRoomPerScene` supposes
  broadcasts that arrive.

The desktop client:

* Snapshots have a `scene_id` and no `id`, so that the editor is in the scene
  "scene" from then on: the next edit in any other scene connects to that one
  and is not sent.
* The counter of operation ids starts again when a client returns to a scene; the
  room drops the edits as duplicates until the counter has caught up, although
  operation ids are meant to be unique.  `RefusedOnlyAfterReturn` confines this to
  clients that returned.
* What is edited while the connection is down is never sent, and the snapshot of
  the next connection replaces it.
* After every snapshot, which is after every edit of anybody, the editor swallows the
  changes of its user until the next turn of the event loop (`node_editor.py:356`,
  `414`, `915`): they show in the editor and in no other, until the user's next edit
  sends them too or the next snapshot replaces them.  `InSync` and `OnlyOwnEdits`
  leave these nodes out, and say that there are no others but imported ones.

Ingest (`src/docs/dev_notes_asset_ingest.md`) and cache:

* A failed asset is to be queued again, but its record keeps the digest in the
  index: the new copy is taken for a duplicate and deleted.  The failed record still
  has its file, so that `NothingLost` holds.
* Of a duplicate of the registry the notes say that one may alias the asset
  "instead of re-importing" (line 63).  But two contents may be applied to the same
  `dest_relative`: `register_file` copies over the file of the first
  (`asset_registry.py:594`), `apply` has deleted its staged copy, and its row still
  makes new copies duplicates, which are deleted.  `NothingLost` excepts contents
  for whose place another was staged (`Displaced`), and fails without that.
* Pins drop after apply or release, but every start registers the staged files
  once more, so that a later release leaves one count and the pin.  `PinsDrop` is
  about a process that has not been started again.
* Releasing a duplicate, or a record whose digest another has taken, takes the
  digest of the staged original out of the index: the next copy is staged again.
  `OneStagedPerDigest` leaves these digests out.
* A path registered with another content stays in its old entry, and is taken out
  of the index when that is evicted.  `HeldIsIndexed` supposes paths that keep
  their content.

Budgets (`src/docs/development/perf_budgets_profiler.md`) and scheduler:

* `POST /budgets/jobs/refresh` is to "force a re-evaluation" (line 24), but inside
  the interval nothing is evaluated.
* Refreshing counts the job it evaluates: at capacity a delayed job is never
  promoted, even if nothing runs.  `PromotedWhenCalm` leaves that case out.
* `max_running_jobs` is looked at when a job is registered or refreshed, not when
  it is started.
* The list of `jobs_api` shows "delayed" for ever if the refresh route, or a poll
  that was overtaken, saw the promotion.  `ListedQueuedIsNotDelayed` is the direction
  that holds.
* A job that is registered again while it runs has a place left when it has
  finished, and the next refresh brings it back.  `WhereItsStatusSays` is about
  jobs that are registered once, `PlacesAreOwed` about all.
* `complete` takes any status and stores it (`compute/scheduler.py:216`): a job that
  is completed as "queued" is in no heap, and `requeue` refuses it; and a byte count
  that is not a number raises after the status is stored (`:224`), so that an ended job
  stays on the board.  `QueuedIsReachable` and `BoardIsTrue` leave these jobs out.
* Jobs of a low priority starve while jobs of higher priority keep coming.
  `QueuedIsServed` says that a job waits for ever only if it is overtaken again
  and again.
* `mark_finished` (`perf/budgets.py:286`) stores any string as the status; the model
  has the three that `src/docs/development/perf_budgets_profiler.md:23` names.
* A job that is requeued while its worker goes on is ended by that worker, whoever
  runs it by then; the line of `PriorityLine` is promised to careful callers.

## 7. What the models leave out

* Cursors, selections, typing marks and heartbeat times: they change nothing else.
* The content of values, and the limits on the size and number of operations,
  which only refuse requests.
* A lock that is found free is taken when the task is served, in a later step than
  its arrival; the task does nothing in between, so the order is the same.
* Half-written scenes: `scene_save` writes in place and `scene_load` takes no lock,
  but `Save` and `Load` are atomic.  Half-written cache files are modelled.
* Negative leases, which a WebSocket may ask for, and which are over at once.
* Promotion of clients that wait without being members: the code drops them when
  their turn comes, as the model does, but `NobodyStarves` speaks of members.
* Cancellation of tasks at the shutdown of the server.
* In the client: titles, start nodes, presence and control messages, and the order
  of the Qt signals of one event.  `QWebSocket.ConnectedState`, as the code calls
  it, is taken to mean that the socket is connected.
* In the scheduler: the history, costs and byte counts.  In the ingest queue:
  downloads, rate limits, metadata and routes that overlap, which they do not in
  one event loop.  In the budgets: feature flags, which are on, hooks, and unload
  handlers that change state of the manager.

## 8. Plan

Done: the collaboration stack from the document to the desktop client, the compute
scheduler, cache and ingest, budgets.  Open, in order of importance:

1. `SecretStore`: key and ciphertext on disk, crashes between the two writes of a
   rotation, concurrent updates; the files on disk always decrypt to the old or
   the new secrets.
2. `CloudSync`: uploads and deletes that fail one by one, with the manifest last; the remote
   manifest never names what is not there.
3. `EventHub`: bounded queues of subscribers that drop the oldest event; a
   subscriber sees a subsequence in order, and the newest.

Every safety property that a run checks is proved; theorems to come are about what
this list adds.

`server/core/job_manager.py`, `render_manager.py` and `scheduler.py` will not be
modelled: nothing in the repository makes an instance of their classes, so that
there are no callers from which to translate behaviours.
