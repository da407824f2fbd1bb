------------------------------ MODULE CollabHub ------------------------------
(***************************************************************************)
(* The registry of rooms: CollabHub of comfyvn/collab/room.py, with the    *)
(* WebSocket loops of server/modules/collab_api.py and the REST routes     *)
(* that find, fill, empty and discard its rooms.                           *)
(*                                                                         *)
(* room() holds a first-in first-out lock while a thread loads the scene;  *)
(* discard_empty() takes no lock.  A discarded room lives on for the loops *)
(* and flushes that still have it.  A scene is the set of the edits it     *)
(* holds, and a file is a set of edits too.  Flushes are those of          *)
(* CollabFlush, one queue in each room.                                    *)
(***************************************************************************)
EXTENDS Naturals, Sequences, FiniteSets

CONSTANTS
    Conns,     \* WebSocket connections; each may come back
    Requests,  \* REST callers
    Scenes,
    SceneOf,   \* the scene a connection asks for
    Clients,
    ClientOf,  \* the client id a connection or a caller gives
    MaxRooms,  \* bound: rooms in memory at a time
    MaxEdits   \* bound: edits made

NoRoom == 0

Tasks == Conns \cup Requests

Edits == 1..MaxEdits

ASSUME HubAssumption ==
    /\ MaxRooms \in Nat /\ MaxEdits \in Nat
    /\ Conns \cap Requests = {} /\ Scenes # {}
    /\ SceneOf \in [Conns -> Scenes]
    /\ ClientOf \in [Tasks -> Clients]

VARIABLES
    rooms,     \* the rooms in memory
    registry,  \* self._rooms
    hubQueue,  \* the tasks in room() and flush_all(), in the order they
               \* reached the hub's lock
    disk,      \* the edits in each scene's file
    conn,      \* where each connection is, and its room
    made       \* history: the edits made to each scene

hubVars == << rooms, registry, hubQueue, disk, conn, made >>

-----------------------------------------------------------------------------
(* Rooms *)

NewRoom(scene, content) ==
    [scene |-> scene, doc |-> content, noted |-> content, dirty |-> FALSE,
     clients |-> {}, flushes |-> <<>>]

Dirty(room) == room.dirty /\ room.doc # room.noted

Joined(room, client) == [room EXCEPT !.clients = @ \cup {client}]

Left(room, client) == [room EXCEPT !.clients = @ \ {client}]

(* Mutant: the flag is not set. *)
Edited_NotDirty(room, e) == [room EXCEPT !.doc = @ \cup {e}]

Edited(room, e) == [room EXCEPT !.doc = @ \cup {e}, !.dirty = TRUE]

NextEdit == Cardinality(UNION {made[s] : s \in Scenes}) + 1

Record(scene, e) == made' = [made EXCEPT ![scene] = @ \cup {e}]

(* flush, up to where it awaits *)
Flushed(room, t) ==
    IF ~ Dirty(room) THEN room
    ELSE LET stage == IF room.flushes = <<>> THEN "saving" ELSE "waiting"
         IN  [room EXCEPT !.flushes =
                 Append(@, [by |-> t, payload |-> room.doc, stage |-> stage])]

AtHead(r, stage) ==
    rooms[r].flushes # <<>> /\ Head(rooms[r].flushes).stage = stage

(* The task at the head of the room's queue returns from flush. *)
Return(r, room, raised) ==
    LET t == Head(room.flushes).by
    IN  /\ rooms' = [rooms EXCEPT ![r] = [room EXCEPT !.flushes = Tail(@)]]
        /\ conn' = IF t \notin Conns THEN conn
                   ELSE [conn EXCEPT ![t].pc =
                            CASE @ = "closing" -> "leaving"
                              [] @ = "flushing" -> IF raised THEN "failed"
                                                   ELSE "receiving"
                              [] OTHER -> @]

(* The persist lock was awaited. *)
Acquire(r) ==
    /\ AtHead(r, "waiting")
    /\ IF rooms[r].doc = rooms[r].noted
       THEN Return(r, [rooms[r] EXCEPT !.dirty = FALSE], FALSE)
       ELSE /\ rooms' = [rooms EXCEPT ![r].flushes[1].stage = "saving"]
            /\ UNCHANGED conn
    /\ UNCHANGED << registry, hubQueue, disk, made >>

Save(r) ==
    /\ AtHead(r, "saving")
    /\ disk' = [disk EXCEPT ![rooms[r].scene] = Head(rooms[r].flushes).payload]
    /\ rooms' = [rooms EXCEPT ![r].flushes[1].stage = "saved"]
    /\ UNCHANGED << registry, hubQueue, conn, made >>

SaveRaises(r) ==
    /\ AtHead(r, "saving")
    /\ rooms' = [rooms EXCEPT ![r].flushes[1].stage = "raised"]
    /\ UNCHANGED << registry, hubQueue, disk, conn, made >>

AfterSave(r) ==
    /\ AtHead(r, "saved")
    /\ Return(r, [rooms[r] EXCEPT !.noted = rooms[r].doc, !.dirty = FALSE], FALSE)
    /\ UNCHANGED << registry, hubQueue, disk, made >>

AfterRaise(r) ==
    /\ AtHead(r, "raised")
    /\ Return(r, rooms[r], TRUE)
    /\ UNCHANGED << registry, hubQueue, disk, made >>

-----------------------------------------------------------------------------
(* The hub's lock *)

(* Mutant: the lock serves the last task to arrive first. *)
Queued_LastFirst(t, scene, asks) ==
    LET h == [by |-> t, scene |-> scene, asks |-> asks,
              stage |-> "waiting", content |-> {}]
    IN  hubQueue' = IF hubQueue = <<>> THEN << h >>
                    ELSE << Head(hubQueue), h >> \o Tail(hubQueue)

(* A task reaches the lock.  Until it is served it has done nothing, so     *)
(* that a lock found free is a queue of one.                                *)
Queued(t, scene, asks) ==
    hubQueue' = Append(hubQueue, [by |-> t, scene |-> scene, asks |-> asks,
                                  stage |-> "waiting", content |-> {}])

HubHead(stage) == hubQueue # <<>> /\ Head(hubQueue).stage = stage

(* room() returns room r to the task that asked, and the task goes on with  *)
(* it before it awaits anything: a connection joins; a REST route joins,    *)
(* leaves, applies an edit or only looks.                                   *)
Enter(h, r, known) ==
    LET room == known[r]
        client == ClientOf[h.by]
        edits == h.asks = "apply" /\ NextEdit \in Edits
    IN  /\ rooms' = [known EXCEPT ![r] =
                        CASE h.asks \in {"ws", "join"} -> Joined(room, client)
                          [] h.asks = "leave" -> Left(room, client)
                          [] edits -> Edited(room, NextEdit)
                          [] OTHER -> room]
        /\ IF edits THEN Record(h.scene, NextEdit) ELSE UNCHANGED made
        /\ conn' = IF h.asks # "ws" THEN conn
                   ELSE [conn EXCEPT ![h.by] = [pc |-> "receiving", room |-> r]]
        /\ hubQueue' = Tail(hubQueue)

ServeKnown ==
    /\ HubHead("waiting")
    /\ LET h == Head(hubQueue)
       IN  /\ h.asks # "flush" /\ registry[h.scene] # NoRoom
           /\ Enter(h, registry[h.scene], rooms)
    /\ UNCHANGED << registry, disk >>

(* Mutant: the lock is not held while the scene is loaded. *)
ServeUnknown_Unlocked ==
    /\ HubHead("waiting")
    /\ LET h == Head(hubQueue)
       IN  /\ h.asks # "flush" /\ registry[h.scene] = NoRoom
           /\ hubQueue' = Append(Tail(hubQueue), [h EXCEPT !.stage = "reading"])
    /\ UNCHANGED << rooms, registry, disk, conn, made >>

ServeUnknown ==
    /\ HubHead("waiting")
    /\ LET h == Head(hubQueue)
       IN  h.asks # "flush" /\ registry[h.scene] = NoRoom
    /\ hubQueue' = [hubQueue EXCEPT ![1].stage = "reading"]
    /\ UNCHANGED << rooms, registry, disk, conn, made >>

(* flush_all: every room of the registry is flushed. *)
ServeFlush ==
    /\ HubHead("waiting") /\ Head(hubQueue).asks = "flush"
    /\ rooms' = [r \in DOMAIN rooms |->
                    IF \E s \in Scenes : registry[s] = r
                    THEN Flushed(rooms[r], Head(hubQueue).by) ELSE rooms[r]]
    /\ hubQueue' = Tail(hubQueue)
    /\ UNCHANGED << registry, disk, conn, made >>

(* scene_load in its thread *)
Load ==
    /\ HubHead("reading")
    /\ hubQueue' = [hubQueue EXCEPT ![1].stage = "read",
                                    ![1].content = disk[Head(hubQueue).scene]]
    /\ UNCHANGED << rooms, registry, disk, conn, made >>

(* The rooms nobody has any more. *)
Unused(r) == /\ \A s \in Scenes : registry[s] # r
             /\ \A c \in Conns : conn[c].room # r
             /\ rooms[r].flushes = <<>>

Create ==
    /\ HubHead("read")
    /\ LET h == Head(hubQueue)
       IN  \E r \in DOMAIN rooms :
              /\ Unused(r) /\ \A q \in DOMAIN rooms : Unused(q) => r <= q
              /\ registry' = [registry EXCEPT ![h.scene] = r]
              /\ Enter(h, r, [rooms EXCEPT ![r] = NewRoom(h.scene, h.content)])
    /\ UNCHANGED disk

-----------------------------------------------------------------------------
(* Connections *)

RoomOf(c) == conn[c].room

Connect(c) ==
    /\ conn[c].pc = "away"
    /\ conn' = [conn EXCEPT ![c].pc = "asking"]
    /\ Queued(c, SceneOf[c], "ws")
    /\ UNCHANGED << rooms, registry, disk, made >>

(* doc.apply up to the broadcast; it may change nothing. *)
Apply(c) ==
    /\ conn[c].pc = "receiving"
    /\ \/ /\ NextEdit \in Edits /\ Record(SceneOf[c], NextEdit)
          /\ rooms' = [rooms EXCEPT ![RoomOf(c)] = Edited(@, NextEdit)]
       \/ UNCHANGED << rooms, made >>
    /\ conn' = [conn EXCEPT ![c].pc = "broadcasting"]
    /\ UNCHANGED << registry, hubQueue, disk >>

(* Mutant: edits are only flushed when the loop ends. *)
FlushAfterApply_Never(c) ==
    /\ conn[c].pc = "broadcasting"
    /\ conn' = [conn EXCEPT ![c].pc = "receiving"]
    /\ UNCHANGED << rooms, registry, hubQueue, disk, made >>

(* if room.dirty: await room.flush() *)
FlushAfterApply(c) ==
    /\ conn[c].pc = "broadcasting"
    /\ rooms' = [rooms EXCEPT ![RoomOf(c)] = Flushed(@, c)]
    /\ conn' = [conn EXCEPT ![c].pc =
                   IF Dirty(rooms[RoomOf(c)]) THEN "flushing" ELSE "receiving"]
    /\ UNCHANGED << registry, hubQueue, disk, made >>

(* The loop has ended: leave(client_id), then flush. *)
Close(c) ==
    /\ conn[c].pc \in {"receiving", "failed"}
    /\ rooms' = [rooms EXCEPT ![RoomOf(c)] = Flushed(Left(@, ClientOf[c]), c)]
    /\ conn' = [conn EXCEPT ![c].pc =
                   IF Dirty(rooms[RoomOf(c)]) THEN "closing" ELSE "leaving"]
    /\ UNCHANGED << registry, hubQueue, disk, made >>

(* Mutant: the room of the loop that ends is discarded, empty or not. *)
DiscardEmpty_Own(c) ==
    /\ conn[c].pc = "leaving"
    /\ registry' = [registry EXCEPT ![SceneOf[c]] = NoRoom]
    /\ conn' = [conn EXCEPT ![c] = [pc |-> "away", room |-> NoRoom]]
    /\ UNCHANGED << rooms, hubQueue, disk, made >>

(* discard_empty, once the others have been told *)
DiscardEmpty(c) ==
    /\ conn[c].pc = "leaving"
    /\ registry' = [s \in Scenes |->
                       IF registry[s] # NoRoom /\ rooms[registry[s]].clients = {}
                       THEN NoRoom ELSE registry[s]]
    /\ conn' = [conn EXCEPT ![c] = [pc |-> "away", room |-> NoRoom]]
    /\ UNCHANGED << rooms, hubQueue, disk, made >>

(* A broadcast could not reach the connection of a member. *)
SendFails(r) ==
    /\ \E c \in Conns : /\ ClientOf[c] \in rooms[r].clients
                        /\ rooms' = [rooms EXCEPT ![r] = Left(@, ClientOf[c])]
    /\ UNCHANGED << registry, hubQueue, disk, conn, made >>

Waiting(t) == \/ \E i \in DOMAIN hubQueue : hubQueue[i].by = t
              \/ \E r \in DOMAIN rooms : \E i \in DOMAIN rooms[r].flushes :
                     rooms[r].flushes[i].by = t

(* A REST route or POST /flush; a caller makes one request at a time. *)
Ask(t) ==
    /\ ~ Waiting(t)
    /\ \E scene \in Scenes, asks \in {"join", "leave", "apply", "look", "flush"} :
           Queued(t, scene, asks)
    /\ UNCHANGED << rooms, registry, disk, conn, made >>

-----------------------------------------------------------------------------
HubInit ==
    /\ rooms = [r \in 1..MaxRooms |-> NewRoom(CHOOSE s \in Scenes : TRUE, {})]
    /\ registry = [s \in Scenes |-> NoRoom]
    /\ hubQueue = <<>>
    /\ disk = [s \in Scenes |-> {}]
    /\ conn = [c \in Conns |-> [pc |-> "away", room |-> NoRoom]]
    /\ made = [s \in Scenes |-> {}]

HubStep == ServeKnown \/ ServeUnknown \/ ServeFlush \/ Load \/ Create

RoomStep(r) == Acquire(r) \/ Save(r) \/ AfterSave(r) \/ AfterRaise(r)

LoopStep(c) == \/ Connect(c) \/ Apply(c) \/ FlushAfterApply(c)
               \/ Close(c) \/ DiscardEmpty(c)

(* WebSocket connections alone *)
LoopsNext == \/ HubStep
             \/ \E r \in DOMAIN rooms : RoomStep(r)
             \/ \E c \in Conns : LoopStep(c)

(* and broadcasts that fail *)
UnreachedNext == LoopsNext \/ \E r \in DOMAIN rooms : SendFails(r)

LoopsSpec == HubInit /\ [][UnreachedNext]_hubVars

(* Or: and REST callers, and saves that raise *)
HubNext == \/ LoopsNext
           \/ \E t \in Requests : Ask(t)
           \/ \E r \in DOMAIN rooms : SaveRaises(r)

HubSpec == HubInit /\ [][HubNext]_hubVars

(* and broadcasts that fail as well *)
FaultyNext == HubNext \/ \E r \in DOMAIN rooms : SendFails(r)

FaultySpec == HubInit /\ [][FaultyNext]_hubVars

(* The event loop runs every task that can run, and threads finish. *)
HubFairness ==
    /\ WF_hubVars(HubStep)
    /\ \A r \in 1..MaxRooms : WF_hubVars(RoomStep(r))
    /\ \A c \in Conns : WF_hubVars(FlushAfterApply(c)) /\ WF_hubVars(DiscardEmpty(c))

LiveHubSpec == HubSpec /\ HubFairness

-----------------------------------------------------------------------------
(* Properties *)

InLoop == {"receiving", "broadcasting", "flushing", "failed"}

Serving(c) == conn[c].pc \in InLoop

(* Type correctness; past the first, whoever is in a queue waits, and a     *)
(* connection in its loop has a room of the scene it asked for.             *)
TypeOK ==
    /\ registry \in [Scenes -> 0..MaxRooms]
    /\ disk \in [Scenes -> SUBSET Edits] /\ made \in [Scenes -> SUBSET Edits]
    /\ conn \in [Conns -> [pc : InLoop \cup {"away", "asking", "closing", "leaving"},
                           room : 0..MaxRooms]]
    /\ \A r \in 1..MaxRooms :
          /\ rooms[r].scene \in Scenes /\ rooms[r].clients \subseteq Clients
          /\ rooms[r].noted \subseteq Edits /\ rooms[r].doc \subseteq Edits
          /\ \A i \in DOMAIN rooms[r].flushes :
                i > 1 => rooms[r].flushes[i].stage = "waiting"
    /\ \A i \in DOMAIN hubQueue : i > 1 => hubQueue[i].stage = "waiting"
    /\ \A c \in Conns : Serving(c) => rooms[RoomOf(c)].scene = SceneOf[c]

(* A room that has members is the one its scene's next client will get,     *)
(* although discard_empty takes no lock, client ids may be shared, and      *)
(* broadcasts and leaves remove members at any time.                        *)
MembersAreFound ==
    \A r \in DOMAIN rooms :
        rooms[r].clients # {} => registry[rooms[r].scene] = r

(* The rooms, the registry and the queues of the locks belong together.     *)
RegistrySound == TypeOK /\ MembersAreFound

(* The clients of a scene edit one document: while a connection is in its   *)
(* loop, its room is the one that others are given.  It holds if every      *)
(* connection has a client id of its own and broadcasts reach it.           *)
OneRoomPerScene == \A c \in Conns : Serving(c) => registry[SceneOf[c]] = RoomOf(c)

(* The document of a scene that has a single editor holds every edit ever   *)
(* made to it, although that editor comes and goes, a failed broadcast may  *)
(* remove it in the middle of an edit, and the loops of other scenes then   *)
(* discard its room.  It comes back when its loop has ended: a client that  *)
(* is back while the loop of its old socket still runs is a second editor.  *)
Alone(s) == \A c, d \in Conns : SceneOf[c] = s /\ SceneOf[d] = s => c = d

NothingForgotten ==
    \A s \in Scenes : Alone(s) /\ registry[s] # NoRoom
                       => made[s] \subseteq rooms[registry[s]].doc

(* A loop in the room is between an edit and the end of its flush. *)
FlushDue(r) == \E c \in Conns : /\ conn[c].pc \in {"broadcasting", "flushing"}
                                /\ RoomOf(c) = r

(* Connections alone abandon no edit, although discard_empty looks at       *)
(* members only and a failed broadcast takes away a member that edits: any  *)
(* room, the discarded ones too, that has something left to flush, or is in *)
(* the middle of a save, has a loop in it still that flushes it.            *)
NothingAbandoned ==
    \A r \in DOMAIN rooms :
        Dirty(rooms[r]) \/ AtHead(r, "saving") \/ AtHead(r, "saved") => FlushDue(r)

(* Every connection that asks for a room gets one, and every loop that has  *)
(* ended gets through its last flush.                                       *)
ConnectionsProceed ==
    \A c \in Conns : /\ conn[c].pc = "asking" ~> Serving(c)
                     /\ conn[c].pc = "closing" ~> conn[c].pc = "away"
=============================================================================
