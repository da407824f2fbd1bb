----------------------------- MODULE CollabFlush -----------------------------
(***************************************************************************)
(* Writing a room's document to disk: CollabRoom.apply_operations, dirty   *)
(* and flush of comfyvn/collab/room.py, as the tasks of the server use     *)
(* them.  A WebSocket loop applies an edit, awaits the broadcast, then     *)
(* awaits flush if the room is dirty, and takes its next message only      *)
(* after that; when it ends it flushes once more.  POST /room/apply edits  *)
(* and does not flush; POST /flush flushes only.                           *)
(*                                                                         *)
(* flush takes its payload before it waits for _persist_lock, a first-in   *)
(* first-out lock, and the file is written by a thread, so everything that *)
(* awaits is a step of its own.                                            *)
(*                                                                         *)
(* A room's document only moves forward, by one version per change         *)
(* (VersionCountsChanges of CollabDocument), so that a payload is known by *)
(* its version and the file by the version it holds.                       *)
(***************************************************************************)
EXTENDS Naturals, Sequences

CONSTANTS
    Writers,     \* WebSocket loops
    Flushers,    \* tasks of POST /flush
    MaxVersion   \* bound: no edit beyond this version

Tasks == Writers \cup Flushers

ASSUME FlushAssumption == MaxVersion \in Nat

VARIABLES
    version,     \* document.version
    persisted,   \* self._persisted_version
    dirtyFlag,   \* self._dirty
    flushes,     \* the tasks inside flush past its first test, in the order
                 \* they reached the lock: who, the payload, how far
    disk,        \* the version in the scene's file
    pc,          \* where each task is
    calm         \* history: the last version an edit reached while no flush
                 \* was under way

flushVars == << version, persisted, dirtyFlag, flushes, disk, pc, calm >>

(* The property dirty *)
Dirty == dirtyFlag /\ version # persisted

Flush(t, payload, stage) == [by |-> t, payload |-> payload, stage |-> stage]

-----------------------------------------------------------------------------
(* apply_operations with something to change *)
Edit == /\ version < MaxVersion
        /\ version' = version + 1
        /\ dirtyFlag' = TRUE
        /\ calm' = IF flushes = <<>> THEN version + 1 ELSE calm

(* doc.apply up to the first send of the broadcast; it may change nothing. *)
ApplyEdit(w) ==
    /\ pc[w] = "receiving"
    /\ Edit
    /\ pc' = [pc EXCEPT ![w] = "broadcasting"]
    /\ UNCHANGED << persisted, flushes, disk >>

ApplyNothing(w) ==
    /\ pc[w] = "receiving"
    /\ pc' = [pc EXCEPT ![w] = "broadcasting"]
    /\ UNCHANGED << version, persisted, dirtyFlag, flushes, disk, calm >>

(* POST /room/apply *)
RestEdit == /\ Edit
            /\ UNCHANGED << persisted, flushes, disk, pc >>

(* Mutant: the lock serves the last task to arrive first. *)
StartFlush_LastFirst(t, waitingAs) ==
    /\ Dirty
    /\ flushes' = IF flushes = <<>> THEN << Flush(t, version, "saving") >>
                  ELSE << Head(flushes), Flush(t, version, "waiting") >>
                       \o Tail(flushes)
    /\ pc' = [pc EXCEPT ![t] = waitingAs]
    /\ UNCHANGED << version, persisted, dirtyFlag, disk, calm >>

(* flush up to where it awaits: the thread, when the lock is free (the test *)
(* under the lock cannot fail then, the room is dirty), or else the lock.   *)
StartFlush(t, waitingAs) ==
    /\ Dirty
    /\ flushes' = Append(flushes,
                     Flush(t, version,
                           IF flushes = <<>> THEN "saving" ELSE "waiting"))
    /\ pc' = [pc EXCEPT ![t] = waitingAs]
    /\ UNCHANGED << version, persisted, dirtyFlag, disk, calm >>

SkipFlush(t, next) ==
    /\ ~Dirty
    /\ pc' = [pc EXCEPT ![t] = next]
    /\ UNCHANGED << version, persisted, dirtyFlag, flushes, disk, calm >>

(* if room.dirty: await room.flush() *)
FlushAfterApply(w) ==
    /\ pc[w] = "broadcasting"
    /\ StartFlush(w, "flushing") \/ SkipFlush(w, "receiving")

(* The loop has ended, by a disconnection or because flush raised. *)
FlushOnClose(w) ==
    /\ pc[w] \in {"receiving", "failed"}
    /\ StartFlush(w, "closing") \/ SkipFlush(w, "closed")

(* POST /flush *)
FlushAll(t) ==
    /\ pc[t] = "receiving"
    /\ StartFlush(t, "flushing")

(* The client of a loop that has ended comes back. *)
Reconnect(w) ==
    /\ pc[w] = "closed"
    /\ pc' = [pc EXCEPT ![w] = "receiving"]
    /\ UNCHANGED << version, persisted, dirtyFlag, flushes, disk, calm >>

-----------------------------------------------------------------------------
(* The rest of flush, for the task at the head of the lock's queue. *)

HeadIs(stage) == flushes # <<>> /\ Head(flushes).stage = stage

SetHead(stage) == [flushes EXCEPT ![1].stage = stage]

(* Mutant: the lock is not released when the save raises. *)
Leaves_Stuck(raised) ==
    LET t == Head(flushes).by
    IN  /\ flushes' = IF raised THEN SetHead("raised") ELSE Tail(flushes)
        /\ pc' = [pc EXCEPT ![t] = CASE pc[t] = "closing" -> "closed"
                                     [] pc[t] # "closing" /\ raised
                                          /\ t \in Writers -> "failed"
                                     [] OTHER -> "receiving"]

(* flush is over: the lock goes to the next task in the queue; an exception *)
(* ends a loop, unless it is already ending, and POST /flush ignores it.    *)
Leaves(raised) ==
    LET t == Head(flushes).by
    IN  /\ flushes' = Tail(flushes)
        /\ pc' = [pc EXCEPT ![t] = CASE pc[t] = "closing" -> "closed"
                                     [] pc[t] # "closing" /\ raised
                                          /\ t \in Writers -> "failed"
                                     [] OTHER -> "receiving"]

(* The lock was awaited: the version is compared, not the payload. *)
AcquireAndSkip ==
    /\ HeadIs("waiting")
    /\ version = persisted
    /\ dirtyFlag' = FALSE
    /\ Leaves(FALSE)
    /\ UNCHANGED << version, persisted, disk, calm >>

AcquireAndSave ==
    /\ HeadIs("waiting")
    /\ version # persisted
    /\ flushes' = SetHead("saving")
    /\ UNCHANGED << version, persisted, dirtyFlag, disk, pc, calm >>

(* Mutant: any task in the queue may save. *)
Save_Unordered ==
    /\ HeadIs("saving")
    /\ \E i \in DOMAIN flushes : disk' = flushes[i].payload
    /\ flushes' = SetHead("saved")
    /\ UNCHANGED << version, persisted, dirtyFlag, pc, calm >>

(* scene_save in its thread *)
Save == /\ HeadIs("saving")
        /\ disk' = Head(flushes).payload
        /\ flushes' = SetHead("saved")
        /\ UNCHANGED << version, persisted, dirtyFlag, pc, calm >>

SaveRaises == /\ HeadIs("saving")
              /\ flushes' = SetHead("raised")
              /\ UNCHANGED << version, persisted, dirtyFlag, disk, pc, calm >>

(* Mutant: the room is marked clean before the save, whatever comes of it. *)
AfterRaise_Clean ==
    /\ HeadIs("raised")
    /\ persisted' = version
    /\ dirtyFlag' = FALSE
    /\ Leaves(TRUE)
    /\ UNCHANGED << version, disk, calm >>

AfterRaise ==
    /\ HeadIs("raised")
    /\ Leaves(TRUE)
    /\ UNCHANGED << version, persisted, dirtyFlag, disk, calm >>

(* What is noted as persisted is the version the document has by now. *)
AfterSave ==
    /\ HeadIs("saved")
    /\ persisted' = version
    /\ dirtyFlag' = FALSE
    /\ Leaves(FALSE)
    /\ UNCHANGED << version, disk, calm >>

FlushStep == AcquireAndSkip \/ AcquireAndSave \/ AfterSave \/ AfterRaise

ThreadStep == Save \/ SaveRaises

-----------------------------------------------------------------------------
FlushInit ==
    /\ version = 0 /\ persisted = 0 /\ disk = 0 /\ calm = 0
    /\ dirtyFlag = FALSE
    /\ flushes = <<>>
    /\ pc = [t \in Tasks |-> "receiving"]

LoopStep(w) == \/ ApplyEdit(w) \/ ApplyNothing(w)
               \/ FlushAfterApply(w) \/ FlushOnClose(w) \/ Reconnect(w)

(* WebSocket loops only. *)
LoopsNext == (\E w \in Writers : LoopStep(w)) \/ FlushStep \/ ThreadStep

(* And the REST routes. *)
FlushNext == LoopsNext \/ RestEdit \/ \E t \in Flushers : FlushAll(t)

FlushSpec == FlushInit /\ [][FlushNext]_flushVars

(* The event loop runs every task that can run, and threads finish. *)
FlushFairness ==
    /\ WF_flushVars(FlushStep) /\ WF_flushVars(ThreadStep)
    /\ \A w \in Writers : WF_flushVars(FlushAfterApply(w))

LiveFlushSpec == FlushSpec /\ FlushFairness

-----------------------------------------------------------------------------
(* Properties *)

Stages == {"waiting", "saving", "saved", "raised"}
Places == {"receiving", "broadcasting", "flushing", "closing", "failed", "closed"}

(* Type correctness; a task in the queue is in flush, and only its head has *)
(* got the lock.                                                            *)
FlushTypeOK ==
    /\ version \in 0..MaxVersion /\ persisted \in 0..version
    /\ calm \in 0..version /\ disk \in 0..version
    /\ dirtyFlag \in BOOLEAN
    /\ flushes \in Seq([by : Tasks, payload : 0..version, stage : Stages])
    /\ pc \in [Tasks -> Places]
    /\ \A i \in DOMAIN flushes : i > 1 => flushes[i].stage = "waiting"

(* Saves are queued in the order their payloads were taken, and none of     *)
(* them is older than the file.                                             *)
SavesInOrder ==
    /\ \A i \in DOMAIN flushes : disk <= flushes[i].payload
    /\ \A i, j \in DOMAIN flushes :
           i <= j => flushes[i].payload <= flushes[j].payload

(* The queue of the persist lock, with who is in it and what it will write. *)
FlushesSound == FlushTypeOK /\ SavesInOrder

(* However many tasks flush at a time, and although each took its payload   *)
(* before it waited, the file of a room never goes back to an older scene.  *)
DiskNeverRegresses == [][disk' >= disk]_flushVars

(* When a room has nothing to flush, every edit applied while no flush was  *)
(* under way is in the file, whatever the saves that raised meanwhile.      *)
QuietEditsSurvive == flushes = <<>> /\ ~Dirty => disk >= calm

(* Every flush returns, whether its save succeeds, raises or is skipped,    *)
(* and the loop takes its next message or ends.                             *)
FlushReturns ==
    \A t \in Tasks :
        pc[t] \in {"flushing", "closing"} ~> pc[t] \notin {"flushing", "closing"}
=============================================================================
