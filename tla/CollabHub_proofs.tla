-------------------------- MODULE CollabHub_proofs --------------------------
(***************************************************************************)
(* Theorems about CollabHub, for any number of scenes, connections and     *)
(* REST callers.                                                           *)
(*                                                                         *)
(* Found strengthens MembersAreFound by what the hub's lock protects:      *)
(* while a scene is being loaded, it has no room, so that the one created  *)
(* replaces none.  OneRoomPerScene follows from it when every connection   *)
(* in its loop is a member of its room (Present), which takes client ids   *)
(* that are not shared and broadcasts that arrive.  LoopsInv adds who      *)
(* waits where (OneQueue), who will flush what (Attended) and what is in   *)
(* the files (Kept); it takes neither, as it speaks of loops and not of    *)
(* members: what connections alone discard has been saved or is yet to be, *)
(* and a single editor loses nothing.                                      *)
(***************************************************************************)
EXTENDS CollabHub, TLAPS

FlushType == [by : Tasks, payload : SUBSET Edits,
              stage : {"waiting", "saving", "saved", "raised"}]

RoomType == [scene : Scenes, doc : SUBSET Edits, noted : SUBSET Edits,
             dirty : BOOLEAN, clients : SUBSET Clients, flushes : Seq(FlushType)]

AskType == [by : Tasks, scene : Scenes,
            asks : {"ws", "join", "leave", "apply", "look", "flush"},
            stage : {"waiting", "reading", "read"}, content : SUBSET Edits]

ConnType == [pc : InLoop \cup {"away", "asking", "closing", "leaving"},
             room : 0..MaxRooms]

Waits(q) == \A i \in DOMAIN q : i > 1 => q[i].stage = "waiting"

Typed ==
    /\ registry \in [Scenes -> 0..MaxRooms]
    /\ disk \in [Scenes -> SUBSET Edits] /\ made \in [Scenes -> SUBSET Edits]
    /\ conn \in [Conns -> ConnType]
    /\ rooms \in [1..MaxRooms -> RoomType]
    /\ hubQueue \in Seq(AskType)
    /\ \A r \in 1..MaxRooms : Waits(rooms[r].flushes)
    /\ Waits(hubQueue)

(* What a task in the queue of the hub's lock asks for, it may ask for. *)
Rightful(h) ==
    /\ h.asks = "ws" => h.by \in Conns /\ h.scene = SceneOf[h.by]
    /\ h.asks \in {"join", "leave"} => h.by \in Requests

Found ==
    /\ \A s \in Scenes : registry[s] # NoRoom => rooms[registry[s]].scene = s
    /\ MembersAreFound
    /\ HubHead("reading") \/ HubHead("read") =>
          registry[Head(hubQueue).scene] = NoRoom /\ Head(hubQueue).asks # "flush"
    /\ \A i \in DOMAIN hubQueue : Rightful(hubQueue[i])
    /\ \A c \in Conns : Serving(c) => /\ RoomOf(c) \in 1..MaxRooms
                                      /\ rooms[RoomOf(c)].scene = SceneOf[c]

Present == \A c \in Conns : Serving(c) => ClientOf[c] \in rooms[RoomOf(c)].clients

OwnIds == \A t, u \in Tasks : ClientOf[t] = ClientOf[u] => t = u

KeepsPresent == OwnIds /\ Present => Present'

-----------------------------------------------------------------------------
(* Queues *)

LEMMA TailOf ==
    ASSUME NEW S, NEW q \in Seq(S), q # <<>>
    PROVE  /\ Tail(q) \in Seq(S) /\ Head(q) = q[1] /\ 1 \in DOMAIN q /\ Head(q) \in S
           /\ \A i \in DOMAIN Tail(q) : i + 1 \in DOMAIN q /\ i + 1 > 1
                                        /\ Tail(q)[i] = q[i + 1]
  OBVIOUS

LEMMA HeadOf ==
    ASSUME NEW S, NEW q \in Seq(S), q # <<>>, NEW x \in S,
           NEW t, t = [q EXCEPT ![1] = x]
    PROVE  /\ t \in Seq(S) /\ t # <<>> /\ Head(t) = x /\ t[1] = x
           /\ DOMAIN t = DOMAIN q /\ 1 \in DOMAIN q
           /\ \A i \in DOMAIN q : i > 1 => t[i] = q[i]
           /\ \A i \in DOMAIN q : i = 1 \/ i > 1
<1>1. /\ t \in Seq(S) /\ DOMAIN t = DOMAIN q /\ t[1] = x /\ Len(t) = Len(q)
      /\ 1 \in DOMAIN q
      /\ \A i \in DOMAIN q : i > 1 => t[i] = q[i]
  OBVIOUS
<1>2. \A i \in DOMAIN q : i = 1 \/ i > 1
  OBVIOUS
<1>3. t # <<>>
  BY <1>1
<1>4. Head(t) = x
  BY <1>1, <1>3
<1> QED BY <1>1, <1>2, <1>3, <1>4

LEMMA AppendOf ==
    ASSUME NEW S, NEW q \in Seq(S), NEW x \in S, NEW t, t = Append(q, x)
    PROVE  /\ t \in Seq(S) /\ t # <<>>
           /\ Head(t) = IF q = <<>> THEN x ELSE Head(q)
           /\ \A i \in DOMAIN t : \/ i \in DOMAIN q /\ t[i] = q[i]
                                  \/ i = Len(q) + 1 /\ t[i] = x
           /\ q = <<>> => \A i \in DOMAIN t : ~ (i > 1)
<1>1. /\ t \in Seq(S) /\ Len(t) = Len(q) + 1 /\ t[Len(q) + 1] = x
      /\ \A i \in 1..Len(q) : t[i] = q[i]
      /\ DOMAIN t = 1..(Len(q) + 1) /\ DOMAIN q = 1..Len(q) /\ Len(q) \in Nat
  OBVIOUS
<1>2. t # <<>> /\ Head(t) = t[1]
  BY <1>1
<1>3. CASE q = <<>>
  BY <1>1, <1>2, <1>3
<1>4. CASE q # <<>>
  <2>1. 1 \in 1..Len(q) /\ Head(q) = q[1]
    BY <1>4
  <2>2. \A i \in 1..(Len(q) + 1) : i \in 1..Len(q) \/ i = Len(q) + 1
    BY <1>1
  <2> QED BY <1>1, <1>2, <1>4, <2>1, <2>2
<1> QED BY <1>3, <1>4

LEMMA WaitsTail ==
    ASSUME NEW S, NEW q \in Seq(S), q # <<>>, Waits(q)
    PROVE  \A i \in DOMAIN Tail(q) : Tail(q)[i].stage = "waiting"
  BY TailOf DEF Waits

LEMMA WaitsHead ==
    ASSUME NEW S, NEW q \in Seq(S), q # <<>>, Waits(q), NEW x \in S
    PROVE  Waits([q EXCEPT ![1] = x])
  BY HeadOf DEF Waits

LEMMA WaitsAppend ==
    ASSUME NEW S, NEW q \in Seq(S), Waits(q), NEW x \in S,
           q # <<>> => x.stage = "waiting"
    PROVE  Waits(Append(q, x))
  BY AppendOf DEF Waits

-----------------------------------------------------------------------------
(* Rooms *)

LEMMA FlushedOK ==
    ASSUME NEW room \in RoomType, Waits(room.flushes), NEW t \in Tasks
    PROVE  /\ Flushed(room, t) \in RoomType /\ Waits(Flushed(room, t).flushes)
           /\ Flushed(room, t).scene = room.scene
           /\ Flushed(room, t).clients = room.clients
<1>1. CASE ~ Dirty(room)
  BY <1>1 DEF Flushed
<1>2. CASE Dirty(room)
  <2> DEFINE f == [by |-> t, payload |-> room.doc,
                   stage |-> IF room.flushes = <<>> THEN "saving" ELSE "waiting"]
             q == room.flushes
  <2>1. f \in FlushType /\ q \in Seq(FlushType)
        /\ (q # <<>> => f.stage = "waiting")
    BY DEF FlushType, RoomType
  <2>2. Flushed(room, t) = [room EXCEPT !.flushes = Append(q, f)]
    BY <1>2 DEF Flushed
  <2> HIDE DEF f
  <2>3. Append(q, f) \in Seq(FlushType) /\ Waits(Append(q, f))
    BY <2>1, AppendOf, WaitsAppend
  <2> HIDE DEF q
  <2> QED BY <2>2, <2>3 DEF RoomType
<1> QED BY <1>1, <1>2

(* A room whose head moves on to another stage. *)
LEMMA StagedOK ==
    ASSUME NEW room \in RoomType, Waits(room.flushes), room.flushes # <<>>,
           NEW stage \in {"saving", "saved", "raised"},
           NEW x, x = [room EXCEPT !.flushes[1].stage = stage]
    PROVE  /\ x \in RoomType /\ Waits(x.flushes)
           /\ x.scene = room.scene /\ x.clients = room.clients
<1> DEFINE q == room.flushes
           f == [q[1] EXCEPT !.stage = stage]
           p == [q EXCEPT ![1] = f]
<1>1. q \in Seq(FlushType) /\ q # <<>>
  BY DEF RoomType
<1>2. q[1] \in FlushType
  <2> HIDE DEF q
  <2> QED BY <1>1, TailOf
<1>3. f \in FlushType
  BY <1>2 DEF FlushType
<1>4. x = [room EXCEPT !.flushes = p]
  OBVIOUS
<1> HIDE DEF f, q
<1>5. p \in Seq(FlushType) /\ Waits(p)
  BY <1>1, <1>3, HeadOf, WaitsHead DEF q
<1> HIDE DEF p
<1> QED BY <1>4, <1>5 DEF RoomType

(* A room whose head has returned. *)
LEMMA ReturnedOK ==
    ASSUME NEW room \in RoomType, Waits(room.flushes), room.flushes # <<>>,
           NEW x, x = [room EXCEPT !.flushes = Tail(@)]
    PROVE  /\ x \in RoomType /\ Waits(x.flushes)
           /\ x.scene = room.scene /\ x.clients = room.clients
<1> DEFINE q == Tail(room.flushes)
<1>1. room.flushes \in Seq(FlushType)
  BY DEF RoomType
<1>2. q \in Seq(FlushType) /\ Waits(q)
  BY <1>1, TailOf, WaitsTail DEF Waits
<1>3. x = [room EXCEPT !.flushes = q]
  OBVIOUS
<1> HIDE DEF q
<1> QED BY <1>2, <1>3 DEF RoomType

(* A step of one room, in which it keeps its scene and gets no new member,  *)
(* and no connection enters a loop.                                         *)
LEMMA RoomStepOK ==
    ASSUME Typed, Found, NEW r \in 1..MaxRooms, NEW x \in RoomType, Waits(x.flushes),
           x.scene = rooms[r].scene, x.clients \subseteq rooms[r].clients,
           rooms' = [rooms EXCEPT ![r] = x],
           conn' \in [Conns -> ConnType],
           \A c \in Conns : Serving(c)' => Serving(c) /\ RoomOf(c)' = RoomOf(c),
           UNCHANGED << registry, hubQueue >>,
           disk' \in [Scenes -> SUBSET Edits], made' \in [Scenes -> SUBSET Edits]
    PROVE  /\ Typed' /\ Found'
           /\ (\A c \in Conns : Serving(c)' /\ OwnIds /\ ClientOf[c] \in rooms[r].clients
                                 => ClientOf[c] \in x.clients) => KeepsPresent
<1>1. /\ rooms' \in [1..MaxRooms -> RoomType]
      /\ \A p \in 1..MaxRooms : /\ rooms'[p].scene = rooms[p].scene
                                /\ rooms'[p].clients \subseteq rooms[p].clients
                                /\ Waits(rooms'[p].flushes)
  BY DEF Typed
<1>2. Typed'
  BY <1>1 DEF Typed
<1>3. \A s \in Scenes : registry[s] # NoRoom => registry[s] \in 1..MaxRooms
  BY DEF Typed, NoRoom
<1>4. DOMAIN rooms = 1..MaxRooms /\ DOMAIN rooms' = 1..MaxRooms
  BY <1>1 DEF Typed
<1>5. MembersAreFound'
  BY <1>1, <1>4 DEF Found, MembersAreFound
<1>6. \A s \in Scenes : registry'[s] # NoRoom => rooms'[registry'[s]].scene = s
  BY <1>1, <1>3 DEF Found
<1>7. \A c \in Conns : Serving(c)' => /\ RoomOf(c)' \in 1..MaxRooms
                                      /\ rooms'[RoomOf(c)'].scene = SceneOf[c]
  BY <1>1 DEF Found
<1>8. HubHead("reading")' \/ HubHead("read")' =>
          registry'[Head(hubQueue').scene] = NoRoom /\ Head(hubQueue').asks # "flush"
  BY DEF Found, HubHead
<1>9. \A i \in DOMAIN hubQueue' : Rightful(hubQueue'[i])
  BY DEF Found
<1>10. ASSUME OwnIds, Present,
              \A c \in Conns : Serving(c)' /\ ClientOf[c] \in rooms[r].clients
                                => ClientOf[c] \in x.clients
       PROVE  Present'
  <2>1. rooms'[r] = x /\ \A p \in 1..MaxRooms : p # r => rooms'[p] = rooms[p]
    BY DEF Typed
  <2> SUFFICES ASSUME NEW c \in Conns, Serving(c)'
               PROVE  ClientOf[c] \in rooms'[RoomOf(c)'].clients
    BY DEF Present
  <2>2. /\ RoomOf(c)' = RoomOf(c) /\ RoomOf(c) \in 1..MaxRooms
        /\ ClientOf[c] \in rooms[RoomOf(c)].clients
    BY <1>10 DEF Found, Present
  <2> QED BY <1>10, <2>1, <2>2
<1> QED BY <1>2, <1>5, <1>6, <1>7, <1>8, <1>9, <1>10 DEF Found, KeepsPresent

(* The task at the head of a room's queue returns: it is in its loop after  *)
(* only if it was before.                                                   *)
LEMMA ReturnOK ==
    ASSUME Typed, Found, NEW r \in 1..MaxRooms, NEW room \in RoomType,
           room.flushes = rooms[r].flushes, room.flushes # <<>>,
           room.scene = rooms[r].scene, room.clients = rooms[r].clients,
           NEW raised \in BOOLEAN, Return(r, room, raised),
           UNCHANGED << registry, hubQueue, disk, made >>
    PROVE  Typed' /\ Found' /\ KeepsPresent
<1> DEFINE x == [room EXCEPT !.flushes = Tail(@)]
           t == Head(room.flushes).by
<1>1. Waits(room.flushes)
  BY DEF Typed
<1>2. x \in RoomType /\ Waits(x.flushes) /\ x.scene = room.scene
      /\ x.clients = room.clients
  BY <1>1, ReturnedOK
<1>3. rooms' = [rooms EXCEPT ![r] = x]
  BY DEF Return
<1> HIDE DEF x
<1>4. /\ conn' \in [Conns -> ConnType]
      /\ \A c \in Conns : Serving(c)' => Serving(c) /\ RoomOf(c)' = RoomOf(c)
  <2>1. CASE t \notin Conns
    <3>1. conn' = conn
      BY <2>1 DEF Return
    <3> QED BY <3>1 DEF Typed, Serving, RoomOf
  <2>2. CASE t \in Conns
    <3> DEFINE v == CASE conn[t].pc = "closing" -> "leaving"
                      [] conn[t].pc = "flushing" -> IF raised THEN "failed"
                                                    ELSE "receiving"
                      [] OTHER -> conn[t].pc
    <3>1. conn' = [conn EXCEPT ![t].pc = v]
      BY <2>2 DEF Return
    <3>2. conn[t] \in ConnType
      BY <2>2 DEF Typed
    <3>3. v \in InLoop \cup {"away", "asking", "closing", "leaving"}
          /\ (v \in InLoop => conn[t].pc \in InLoop)
      BY <3>2 DEF ConnType, InLoop
    <3> HIDE DEF v
    <3>4. [conn[t] EXCEPT !.pc = v] \in ConnType
      BY <3>2, <3>3 DEF ConnType
    <3>5. conn' \in [Conns -> ConnType]
      BY <3>1, <3>4 DEF Typed
    <3>6. \A c \in Conns : conn'[c] = IF c = t THEN [conn[t] EXCEPT !.pc = v]
                                      ELSE conn[c]
      BY <3>1 DEF Typed
    <3>7. conn'[t].pc = v /\ conn'[t].room = conn[t].room
      BY <2>2, <3>2, <3>6 DEF ConnType
    <3> QED BY <3>3, <3>5, <3>6, <3>7 DEF Serving, RoomOf
  <2> QED BY <2>1, <2>2
<1>5. x.scene = rooms[r].scene /\ x.clients = rooms[r].clients
      /\ disk' \in [Scenes -> SUBSET Edits] /\ made' \in [Scenes -> SUBSET Edits]
  BY <1>2 DEF Typed
<1> QED BY <1>2, <1>3, <1>4, <1>5, RoomStepOK

(* The steps of a flush. *)
LEMMA FlushStepsOK ==
    ASSUME Typed, Found, NEW r \in 1..MaxRooms, RoomStep(r) \/ SaveRaises(r)
    PROVE  Typed' /\ Found' /\ KeepsPresent
<1>1. rooms[r] \in RoomType /\ Waits(rooms[r].flushes)
      /\ disk \in [Scenes -> SUBSET Edits] /\ made \in [Scenes -> SUBSET Edits]
      /\ conn \in [Conns -> ConnType]
  BY DEF Typed
<1>2. ASSUME NEW stage \in {"saving", "saved", "raised"}, rooms[r].flushes # <<>>,
             rooms' = [rooms EXCEPT ![r].flushes[1].stage = stage],
             UNCHANGED << registry, hubQueue, conn, made >>,
             disk' \in [Scenes -> SUBSET Edits]
      PROVE  Typed' /\ Found' /\ KeepsPresent
  <2> DEFINE x == [rooms[r] EXCEPT !.flushes[1].stage = stage]
  <2>1. x \in RoomType /\ Waits(x.flushes) /\ x.scene = rooms[r].scene
        /\ x.clients = rooms[r].clients
    BY <1>1, <1>2, StagedOK
  <2>2. rooms' = [rooms EXCEPT ![r] = x]
    BY <1>2
  <2> HIDE DEF x
  <2>3. \A c \in Conns : Serving(c)' => Serving(c) /\ RoomOf(c)' = RoomOf(c)
    BY <1>2 DEF Serving, RoomOf
  <2>4. x.clients \subseteq rooms[r].clients
    BY <2>1
  <2>5. conn' \in [Conns -> ConnType] /\ made' \in [Scenes -> SUBSET Edits]
    BY <1>1, <1>2
  <2> QED BY <1>2, <2>1, <2>2, <2>3, <2>4, <2>5, RoomStepOK
<1>3. ASSUME NEW room \in RoomType,
             room.flushes = rooms[r].flushes, rooms[r].flushes # <<>>,
             room.scene = rooms[r].scene, room.clients = rooms[r].clients,
             NEW raised \in BOOLEAN, Return(r, room, raised),
             UNCHANGED << registry, hubQueue, disk, made >>
      PROVE  Typed' /\ Found' /\ KeepsPresent
  BY <1>3, ReturnOK
<1>4. ASSUME NEW d \in BOOLEAN, NEW n \in SUBSET Edits
      PROVE  LET room == [rooms[r] EXCEPT !.noted = n, !.dirty = d]
             IN  /\ room \in RoomType /\ room.flushes = rooms[r].flushes
                 /\ room.scene = rooms[r].scene /\ room.clients = rooms[r].clients
  BY <1>1 DEF RoomType
<1>5. [rooms[r] EXCEPT !.dirty = FALSE] \in RoomType
      /\ [rooms[r] EXCEPT !.dirty = FALSE].flushes = rooms[r].flushes
      /\ [rooms[r] EXCEPT !.dirty = FALSE].scene = rooms[r].scene
      /\ [rooms[r] EXCEPT !.dirty = FALSE].clients = rooms[r].clients
  BY <1>1 DEF RoomType
<1>6. CASE Acquire(r)
  <2>1. CASE rooms[r].doc = rooms[r].noted
    BY <1>3, <1>5, <1>6, <2>1 DEF Acquire, AtHead
  <2>2. CASE rooms[r].doc # rooms[r].noted
    BY <1>1, <1>2, <1>6, <2>2 DEF Acquire, AtHead
  <2> QED BY <2>1, <2>2
<1>7. CASE Save(r)
  <2>1. Head(rooms[r].flushes).payload \in SUBSET Edits
    <3>1. rooms[r].flushes \in Seq(FlushType) /\ rooms[r].flushes # <<>>
      BY <1>1, <1>7 DEF RoomType, Save, AtHead
    <3>2. Head(rooms[r].flushes) \in FlushType
      BY <3>1, TailOf
    <3> QED BY <3>2 DEF FlushType
  <2>2. disk' \in [Scenes -> SUBSET Edits]
    BY <1>1, <1>7, <2>1 DEF Save
  <2> QED BY <1>2, <1>7, <2>2 DEF Save, AtHead
<1>8. CASE SaveRaises(r)
  BY <1>1, <1>2, <1>8 DEF SaveRaises, AtHead
<1>9. CASE AfterSave(r)
  <2>1. rooms[r].doc \in SUBSET Edits
    BY <1>1 DEF RoomType
  <2> QED BY <1>3, <1>4, <1>9, <2>1 DEF AfterSave, AtHead
<1>10. CASE AfterRaise(r)
  BY <1>1, <1>3, <1>10 DEF AfterRaise, AtHead
<1> QED BY <1>6, <1>7, <1>8, <1>9, <1>10 DEF RoomStep

(* A step of a connection in its loop, in the room it has. *)
LEMMA ConnStepOK ==
    ASSUME Typed, Found, NEW c \in Conns,
           Apply(c) \/ FlushAfterApply(c) \/ Close(c)
    PROVE  Typed' /\ Found' /\ KeepsPresent
<1> DEFINE r == RoomOf(c)
<1>1. r \in 1..MaxRooms /\ conn[c].pc \in InLoop
  BY DEF Apply, FlushAfterApply, Close, Found, Serving, InLoop
<1>2. /\ rooms[r] \in RoomType /\ Waits(rooms[r].flushes)
      /\ disk \in [Scenes -> SUBSET Edits] /\ made \in [Scenes -> SUBSET Edits]
      /\ conn[c] \in ConnType /\ c \in Tasks
  BY <1>1 DEF Typed, Tasks
<1> HIDE DEF r
<1>3. ASSUME NEW v \in InLoop \cup {"closing", "leaving"},
             conn' = [conn EXCEPT ![c].pc = v]
      PROVE  /\ conn' \in [Conns -> ConnType] /\ conn'[c].pc = v
             /\ \A d \in Conns : Serving(d)' => Serving(d) /\ RoomOf(d)' = RoomOf(d)
  <2>1. [conn[c] EXCEPT !.pc = v] \in ConnType
    BY <1>2 DEF ConnType
  <2>2. conn' \in [Conns -> ConnType]
    BY <1>3, <2>1 DEF Typed
  <2>3. \A d \in Conns : conn'[d] = IF d = c THEN [conn[c] EXCEPT !.pc = v]
                                    ELSE conn[d]
    BY <1>3 DEF Typed
  <2>4. conn'[c].room = conn[c].room /\ conn'[c].pc = v
    BY <1>2, <2>3 DEF ConnType
  <2> QED BY <1>1, <2>2, <2>3, <2>4 DEF Serving, RoomOf
<1>4. ASSUME NEW x \in RoomType, Waits(x.flushes), x.scene = rooms[r].scene,
             x.clients \subseteq rooms[r].clients, rooms' = [rooms EXCEPT ![r] = x],
             rooms[r].clients \ {ClientOf[c]} \subseteq x.clients,
             NEW v \in InLoop \cup {"closing", "leaving"},
             v \in InLoop => x.clients = rooms[r].clients,
             conn' = [conn EXCEPT ![c].pc = v],
             UNCHANGED << registry, hubQueue, disk >>,
             made' \in [Scenes -> SUBSET Edits]
      PROVE  Typed' /\ Found' /\ KeepsPresent
  <2>1. ASSUME NEW d \in Conns, Serving(d)', OwnIds, ClientOf[d] \in rooms[r].clients
        PROVE  ClientOf[d] \in x.clients
    <3>1. CASE d = c
      BY <1>3, <1>4, <2>1, <3>1 DEF Serving
    <3>2. CASE d # c
      BY <1>4, <2>1, <3>2 DEF OwnIds, Tasks
    <3> QED BY <3>1, <3>2
  <2> QED BY <1>1, <1>2, <1>3, <1>4, <2>1, RoomStepOK
<1>5. CASE Apply(c)
  <2>1. CASE NextEdit \in Edits /\ Record(SceneOf[c], NextEdit)
             /\ rooms' = [rooms EXCEPT ![RoomOf(c)] = Edited(@, NextEdit)]
    <3> DEFINE x == Edited(rooms[r], NextEdit)
    <3>1. x \in RoomType /\ x.flushes = rooms[r].flushes
          /\ x.scene = rooms[r].scene /\ x.clients = rooms[r].clients
      BY <1>2, <2>1 DEF RoomType, Edited
    <3>2. made' \in [Scenes -> SUBSET Edits]
      BY <1>2, <2>1 DEF Record
    <3>3. rooms' = [rooms EXCEPT ![r] = x]
      BY <2>1 DEF r
    <3> HIDE DEF x
    <3> QED BY <1>2, <1>4, <1>5, <3>1, <3>2, <3>3 DEF Apply, InLoop
  <2>2. CASE UNCHANGED << rooms, made >>
    <3>1. rooms' = [rooms EXCEPT ![r] = rooms[r]]
      BY <1>1, <2>2 DEF Typed
    <3> QED BY <1>2, <1>4, <1>5, <2>2, <3>1 DEF Apply, InLoop
  <2> QED BY <1>5, <2>1, <2>2 DEF Apply
<1>6. CASE FlushAfterApply(c)
  <2> DEFINE x == Flushed(rooms[r], c)
             v == IF Dirty(rooms[r]) THEN "flushing" ELSE "receiving"
  <2>1. rooms' = [rooms EXCEPT ![r] = x] /\ conn' = [conn EXCEPT ![c].pc = v]
    BY <1>6 DEF FlushAfterApply, r
  <2>2. /\ x \in RoomType /\ Waits(x.flushes) /\ x.scene = rooms[r].scene
        /\ x.clients = rooms[r].clients
    BY <1>2, FlushedOK
  <2>3. v \in InLoop
    BY DEF InLoop
  <2>4. made' \in [Scenes -> SUBSET Edits] /\ UNCHANGED << registry, hubQueue, disk >>
    BY <1>2, <1>6 DEF FlushAfterApply
  <2> HIDE DEF x, v
  <2> QED BY <1>4, <2>1, <2>2, <2>3, <2>4
<1>7. CASE Close(c)
  <2> DEFINE y == Left(rooms[r], ClientOf[c])
  <2>1. y \in RoomType /\ y.flushes = rooms[r].flushes /\ y.scene = rooms[r].scene
        /\ y.clients = rooms[r].clients \ {ClientOf[c]}
    BY <1>2 DEF RoomType, Left
  <2>2. rooms' = [rooms EXCEPT ![r] = Flushed(y, c)]
    BY <1>7 DEF Close, r
  <2> HIDE DEF y
  <2>3. /\ Flushed(y, c) \in RoomType /\ Waits(Flushed(y, c).flushes)
        /\ Flushed(y, c).scene = rooms[r].scene
        /\ Flushed(y, c).clients = rooms[r].clients \ {ClientOf[c]}
    BY <1>2, <2>1, FlushedOK
  <2> QED BY <1>2, <1>4, <1>7, <2>2, <2>3 DEF Close, InLoop
<1> QED BY <1>5, <1>6, <1>7

LEMMA SendFailsOK ==
    ASSUME Typed, Found, NEW r \in 1..MaxRooms, SendFails(r)
    PROVE  Typed' /\ Found'
<1>1. PICK c \in Conns : rooms' = [rooms EXCEPT ![r] = Left(@, ClientOf[c])]
  BY DEF SendFails
<1> DEFINE y == Left(rooms[r], ClientOf[c])
<1>2. rooms[r] \in RoomType /\ Waits(rooms[r].flushes)
  BY DEF Typed
<1>3. y \in RoomType /\ y.flushes = rooms[r].flushes /\ y.scene = rooms[r].scene
      /\ y.clients \subseteq rooms[r].clients
  BY <1>2 DEF RoomType, Left
<1>4. rooms' = [rooms EXCEPT ![r] = y]
  BY <1>1
<1> HIDE DEF y
<1>5. /\ conn' \in [Conns -> ConnType]
      /\ disk' \in [Scenes -> SUBSET Edits] /\ made' \in [Scenes -> SUBSET Edits]
      /\ UNCHANGED << registry, hubQueue >>
      /\ \A d \in Conns : Serving(d)' => Serving(d) /\ RoomOf(d)' = RoomOf(d)
  BY DEF SendFails, Typed, Serving, RoomOf
<1> QED BY <1>2, <1>3, <1>4, <1>5, RoomStepOK

-----------------------------------------------------------------------------
(* The hub's lock *)

(* A task reaches the lock, and no connection enters a loop. *)
LEMMA QueuedOK ==
    ASSUME Typed, Found, NEW t \in Tasks, NEW scene \in Scenes,
           NEW asks \in {"ws", "join", "leave", "apply", "look", "flush"},
           asks = "ws" => t \in Conns /\ scene = SceneOf[t],
           asks \in {"join", "leave"} => t \in Requests,
           Queued(t, scene, asks), UNCHANGED << rooms, registry, disk, made >>,
           conn' \in [Conns -> ConnType],
           \A c \in Conns : Serving(c)' => Serving(c) /\ RoomOf(c)' = RoomOf(c)
    PROVE  Typed' /\ Found' /\ KeepsPresent
<1> DEFINE h == [by |-> t, scene |-> scene, asks |-> asks,
                 stage |-> "waiting", content |-> {}]
<1>1. h \in AskType /\ h.stage = "waiting" /\ Rightful(h)
  BY DEF AskType, Rightful
<1>2. hubQueue' = Append(hubQueue, h) /\ hubQueue \in Seq(AskType) /\ Waits(hubQueue)
  BY DEF Queued, Typed
<1> HIDE DEF h
<1>3. /\ hubQueue' \in Seq(AskType) /\ Waits(hubQueue')
      /\ Head(hubQueue') = IF hubQueue = <<>> THEN h ELSE Head(hubQueue)
      /\ \A i \in DOMAIN hubQueue' : \/ i \in DOMAIN hubQueue /\ hubQueue'[i] = hubQueue[i]
                                     \/ hubQueue'[i] = h
  BY <1>1, <1>2, AppendOf, WaitsAppend
<1>4. Typed'
  BY <1>3 DEF Typed
<1>5. HubHead("reading")' \/ HubHead("read")' =>
          registry'[Head(hubQueue').scene] = NoRoom /\ Head(hubQueue').asks # "flush"
  <2>1. CASE hubQueue = <<>>
    BY <1>1, <1>3, <2>1 DEF HubHead
  <2>2. CASE hubQueue # <<>>
    BY <1>3, <2>2 DEF HubHead, Found
  <2> QED BY <2>1, <2>2
<1>6. \A i \in DOMAIN hubQueue' : Rightful(hubQueue'[i])
  BY <1>1, <1>3 DEF Found
<1>7. MembersAreFound'
  BY DEF Found, MembersAreFound
<1>8. \A c \in Conns : Serving(c)' => /\ RoomOf(c)' \in 1..MaxRooms
                                      /\ rooms'[RoomOf(c)'].scene = SceneOf[c]
  BY DEF Found
<1>9. \A s \in Scenes : registry'[s] # NoRoom => rooms'[registry'[s]].scene = s
  BY DEF Found
<1>10. KeepsPresent
  BY DEF Present, KeepsPresent
<1> QED BY <1>4, <1>5, <1>6, <1>7, <1>8, <1>9, <1>10 DEF Found

(* What is left in the queue once its head is served. *)
LEMMA ServedOK ==
    ASSUME Typed, Found, hubQueue # <<>>, hubQueue' = Tail(hubQueue)
    PROVE  /\ hubQueue' \in Seq(AskType) /\ Waits(hubQueue')
           /\ ~ HubHead("reading")' /\ ~ HubHead("read")'
           /\ \A i \in DOMAIN hubQueue' : Rightful(hubQueue'[i])
<1>1. hubQueue \in Seq(AskType) /\ Waits(hubQueue)
  BY DEF Typed
<1>2. /\ hubQueue' \in Seq(AskType)
      /\ \A i \in DOMAIN hubQueue' : i + 1 \in DOMAIN hubQueue
                                      /\ hubQueue'[i] = hubQueue[i + 1]
  BY <1>1, TailOf
<1>3. \A i \in DOMAIN hubQueue' : hubQueue'[i].stage = "waiting"
  BY <1>1, WaitsTail
<1>4. ~ HubHead("reading")' /\ ~ HubHead("read")'
  <2>1. CASE hubQueue' = <<>>
    BY <2>1 DEF HubHead
  <2>2. CASE hubQueue' # <<>>
    <3>1. Head(hubQueue') = hubQueue'[1] /\ 1 \in DOMAIN hubQueue'
      BY <1>2, <2>2, TailOf
    <3> QED BY <1>3, <3>1 DEF HubHead
  <2> QED BY <2>1, <2>2
<1>5. \A i \in DOMAIN hubQueue' : Rightful(hubQueue'[i])
  BY <1>2 DEF Found
<1> QED BY <1>2, <1>3, <1>4, <1>5 DEF Waits

(* The head moves on to another stage of the load of an unknown scene. *)
LEMMA LoadingOK ==
    ASSUME Typed, Found, hubQueue # <<>>,
           NEW x \in AskType, x.by = Head(hubQueue).by,
           x.scene = Head(hubQueue).scene, x.asks = Head(hubQueue).asks,
           x.asks # "flush", registry[x.scene] = NoRoom,
           hubQueue' = [hubQueue EXCEPT ![1] = x],
           UNCHANGED << rooms, registry, disk, conn, made >>
    PROVE  Typed' /\ Found' /\ KeepsPresent
<1>1. hubQueue \in Seq(AskType) /\ Waits(hubQueue)
  BY DEF Typed
<1>2. /\ hubQueue' \in Seq(AskType) /\ Head(hubQueue') = x
      /\ hubQueue'[1] = x /\ 1 \in DOMAIN hubQueue
      /\ DOMAIN hubQueue' = DOMAIN hubQueue
      /\ \A i \in DOMAIN hubQueue : i > 1 => hubQueue'[i] = hubQueue[i]
      /\ \A i \in DOMAIN hubQueue : i = 1 \/ i > 1
  BY <1>1, HeadOf
<1>3. Head(hubQueue) = hubQueue[1]
  BY <1>1, TailOf
<1>4. Typed'
  <2>1. Waits(hubQueue')
    BY <1>1, WaitsHead
  <2> QED BY <1>2, <2>1 DEF Typed
<1>5. \A i \in DOMAIN hubQueue' : Rightful(hubQueue'[i])
  <2>1. Rightful(x)
    BY <1>2, <1>3 DEF Found, Rightful
  <2> QED BY <1>2, <2>1 DEF Found
<1>6. MembersAreFound'
  BY DEF Found, MembersAreFound
<1>7. \A c \in Conns : Serving(c)' => /\ RoomOf(c)' \in 1..MaxRooms
                                      /\ rooms'[RoomOf(c)'].scene = SceneOf[c]
  BY DEF Found, Serving, RoomOf
<1>8. \A s \in Scenes : registry'[s] # NoRoom => rooms'[registry'[s]].scene = s
  BY DEF Found
<1>9. registry'[Head(hubQueue').scene] = NoRoom /\ Head(hubQueue').asks # "flush"
  BY <1>2
<1>10. KeepsPresent
  BY DEF Present, KeepsPresent, Serving, RoomOf
<1> QED BY <1>4, <1>5, <1>6, <1>7, <1>8, <1>9, <1>10 DEF Found

(* The room that room() returns, as the task leaves it before it awaits     *)
(* anything.                                                                *)
Entered(h, room) ==
    CASE h.asks \in {"ws", "join"} -> Joined(room, ClientOf[h.by])
      [] h.asks = "leave" -> Left(room, ClientOf[h.by])
      [] h.asks = "apply" /\ NextEdit \in Edits -> Edited(room, NextEdit)
      [] OTHER -> room

LEMMA EnteredOK ==
    ASSUME NEW room \in RoomType, NEW h \in AskType
    PROVE  /\ Entered(h, room) \in RoomType
           /\ Entered(h, room).scene = room.scene
           /\ Entered(h, room).flushes = room.flushes
           /\ h.asks = "ws" => Entered(h, room).clients = room.clients \cup {ClientOf[h.by]}
           /\ h.asks # "leave" => room.clients \subseteq Entered(h, room).clients
           /\ room.clients \ {ClientOf[h.by]} \subseteq Entered(h, room).clients
<1>1. ClientOf[h.by] \in Clients
  BY HubAssumption DEF AskType
<1>2. CASE h.asks \in {"ws", "join"}
  BY <1>1, <1>2 DEF Entered, Joined, RoomType
<1>3. CASE h.asks = "leave"
  BY <1>1, <1>3 DEF Entered, Left, RoomType
<1>4. CASE h.asks = "apply" /\ NextEdit \in Edits
  BY <1>4 DEF Entered, Edited, RoomType
<1>5. CASE /\ h.asks \notin {"ws", "join", "leave"}
           /\ ~ (h.asks = "apply" /\ NextEdit \in Edits)
  <2>1. Entered(h, room) = room
    BY <1>5 DEF Entered
  <2> QED BY <1>5, <2>1
<1> QED BY <1>2, <1>3, <1>4, <1>5

LEMMA EnterOK ==
    ASSUME Typed, Found, hubQueue # <<>>, NEW r \in 1..MaxRooms,
           NEW known \in [1..MaxRooms -> RoomType],
           \A p \in 1..MaxRooms : Waits(known[p].flushes),
           \A p \in 1..MaxRooms : p # r => known[p] = rooms[p],
           known[r].scene = Head(hubQueue).scene,
           registry[Head(hubQueue).scene] \in {NoRoom, r},
           registry' = [registry EXCEPT ![Head(hubQueue).scene] = r],
           \A s \in Scenes : s # Head(hubQueue).scene => registry[s] # r,
           \A c \in Conns : Serving(c) /\ RoomOf(c) = r => known[r].scene = SceneOf[c],
           \A c \in Conns : Serving(c) /\ RoomOf(c) = r
                               => known[r].clients = rooms[r].clients,
           Enter(Head(hubQueue), r, known), UNCHANGED disk
    PROVE  Typed' /\ Found' /\ KeepsPresent
<1> DEFINE h == Head(hubQueue)
           x == Entered(h, known[r])
<1>1. h \in AskType /\ Rightful(h)
  <2>1. hubQueue \in Seq(AskType)
    BY DEF Typed
  <2>2. h \in AskType /\ h = hubQueue[1] /\ 1 \in DOMAIN hubQueue
    BY <2>1, TailOf
  <2> QED BY <2>2 DEF Found
<1>2. rooms' = [known EXCEPT ![r] = x] /\ hubQueue' = Tail(hubQueue)
  <2>1. rooms' = [known EXCEPT ![r] = x]
    <3>1. CASE h.asks \in {"ws", "join"}
      BY <3>1 DEF Enter, Entered
    <3>2. CASE h.asks = "leave"
      BY <3>2 DEF Enter, Entered
    <3>3. CASE h.asks = "apply" /\ NextEdit \in Edits
      BY <3>3 DEF Enter, Entered
    <3>4. CASE /\ h.asks \notin {"ws", "join", "leave"}
               /\ ~ (h.asks = "apply" /\ NextEdit \in Edits)
      BY <3>4 DEF Enter, Entered
    <3> QED BY <3>1, <3>2, <3>3, <3>4
  <2>2. hubQueue' = Tail(hubQueue)
    BY DEF Enter
  <2> QED BY <2>1, <2>2
<1>3. x \in RoomType /\ x.scene = h.scene /\ x.flushes = known[r].flushes
  BY <1>1, EnteredOK
<1>4. conn' = IF h.asks # "ws" THEN conn
              ELSE [conn EXCEPT ![h.by] = [pc |-> "receiving", room |-> r]]
  BY DEF Enter
<1>5. made' \in [Scenes -> SUBSET Edits]
  <2>1. made \in [Scenes -> SUBSET Edits] /\ h.scene \in Scenes
    BY <1>1 DEF Typed, AskType
  <2>2. CASE UNCHANGED made
    BY <2>1, <2>2
  <2>3. CASE NextEdit \in Edits /\ Record(h.scene, NextEdit)
    BY <2>1, <2>3 DEF Record
  <2> QED BY <2>2, <2>3 DEF Enter
<1>6. h.scene \in Scenes /\ r \in 0..MaxRooms /\ r # NoRoom
  BY <1>1, HubAssumption DEF AskType, NoRoom
<1> HIDE DEF x
<1>7. /\ rooms' \in [1..MaxRooms -> RoomType] /\ rooms'[r] = x
      /\ \A p \in 1..MaxRooms : /\ Waits(rooms'[p].flushes)
                                /\ p # r => rooms'[p] = rooms[p]
  BY <1>2, <1>3
<1>8. conn' \in [Conns -> ConnType]
  BY <1>1, <1>4, <1>6 DEF Typed, ConnType, InLoop, Rightful
<1> HIDE DEF h
<1>9. /\ hubQueue' \in Seq(AskType) /\ Waits(hubQueue')
      /\ ~ HubHead("reading")' /\ ~ HubHead("read")'
      /\ \A i \in DOMAIN hubQueue' : Rightful(hubQueue'[i])
  BY <1>2, ServedOK
<1>10. /\ registry' \in [Scenes -> 0..MaxRooms] /\ registry'[h.scene] = r
       /\ \A s \in Scenes : s # h.scene => registry'[s] = registry[s]
  BY <1>6 DEF Typed, h
<1>11. Typed'
  BY <1>5, <1>7, <1>8, <1>9, <1>10 DEF Typed
<1>12. \A s \in Scenes : registry'[s] # NoRoom => rooms'[registry'[s]].scene = s
  <2> SUFFICES ASSUME NEW s \in Scenes, registry'[s] # NoRoom
               PROVE  rooms'[registry'[s]].scene = s
    OBVIOUS
  <2>1. CASE s = h.scene
    BY <1>3, <1>7, <1>10, <2>1
  <2>2. CASE s # h.scene
    <3>1. registry'[s] = registry[s] /\ registry[s] \in 1..MaxRooms /\ registry[s] # r
      BY <1>10, <2>2 DEF Typed, NoRoom, h
    <3> QED BY <1>7, <3>1 DEF Found
  <2> QED BY <2>1, <2>2
<1>13. MembersAreFound'
  <2> SUFFICES ASSUME NEW p \in 1..MaxRooms, rooms'[p].clients # {}
               PROVE  registry'[rooms'[p].scene] = p
    BY <1>7 DEF MembersAreFound
  <2>1. CASE p = r
    BY <1>3, <1>7, <1>10, <2>1
  <2>2. CASE p # r
    <3>1. rooms'[p] = rooms[p] /\ rooms[p].scene \in Scenes /\ DOMAIN rooms = 1..MaxRooms
      BY <1>7, <2>2 DEF Typed, RoomType
    <3>2. registry[rooms[p].scene] = p
      BY <3>1 DEF Found, MembersAreFound
    <3>3. rooms[p].scene # h.scene
      BY <2>2, <3>2 DEF NoRoom, h
    <3> QED BY <1>10, <3>1, <3>2, <3>3
  <2> QED BY <2>1, <2>2
<1>14. \A c \in Conns : Serving(c)' => /\ RoomOf(c)' \in 1..MaxRooms
                                       /\ rooms'[RoomOf(c)'].scene = SceneOf[c]
  <2> SUFFICES ASSUME NEW c \in Conns, Serving(c)'
               PROVE  /\ RoomOf(c)' \in 1..MaxRooms
                      /\ rooms'[RoomOf(c)'].scene = SceneOf[c]
    OBVIOUS
  <2>1. CASE h.asks = "ws" /\ h.by = c
    <3>1. RoomOf(c)' = r
      BY <1>4, <2>1 DEF Typed, RoomOf
    <3> QED BY <1>1, <1>3, <1>7, <2>1, <3>1 DEF Rightful
  <2>2. CASE ~ (h.asks = "ws" /\ h.by = c)
    <3>1. conn'[c] = conn[c]
      BY <1>4, <2>2 DEF Typed
    <3>2. /\ Serving(c) /\ RoomOf(c)' = RoomOf(c) /\ RoomOf(c) \in 1..MaxRooms
          /\ rooms[RoomOf(c)].scene = SceneOf[c]
      BY <3>1 DEF Serving, RoomOf, Found
    <3>3. CASE RoomOf(c) = r
      BY <1>3, <1>7, <3>2, <3>3 DEF h
    <3>4. CASE RoomOf(c) # r
      BY <1>7, <3>2, <3>4
    <3> QED BY <3>3, <3>4
  <2> QED BY <2>1, <2>2
<1>15. ASSUME OwnIds, Present, NEW c \in Conns, Serving(c)'
       PROVE  ClientOf[c] \in rooms'[RoomOf(c)'].clients
  <2>1. CASE h.asks = "ws" /\ h.by = c
    <3>1. RoomOf(c)' = r
      BY <1>4, <2>1 DEF Typed, RoomOf
    <3>2. x.clients = known[r].clients \cup {ClientOf[c]}
      BY <1>1, <2>1, EnteredOK DEF x
    <3> QED BY <1>7, <3>1, <3>2
  <2>2. CASE ~ (h.asks = "ws" /\ h.by = c)
    <3>1. conn'[c] = conn[c]
      BY <1>4, <2>2 DEF Typed
    <3>2. /\ Serving(c) /\ RoomOf(c)' = RoomOf(c) /\ RoomOf(c) \in 1..MaxRooms
          /\ ClientOf[c] \in rooms[RoomOf(c)].clients
      BY <1>15, <3>1 DEF Serving, RoomOf, Found, Present
    <3>3. CASE RoomOf(c) = r
      <4>1. ClientOf[c] \in known[r].clients
        BY <3>2, <3>3
      <4>2. CASE h.asks = "leave"
        <5>1. ClientOf[h.by] # ClientOf[c]
          BY <1>1, <1>15, <4>2, HubAssumption DEF OwnIds, Tasks, Rightful
        <5>2. known[r].clients \ {ClientOf[h.by]} \subseteq x.clients
          BY <1>1, EnteredOK DEF x
        <5> QED BY <1>7, <3>2, <3>3, <4>1, <5>1, <5>2
      <4>3. CASE h.asks # "leave"
        <5>1. known[r].clients \subseteq x.clients
          BY <1>1, <4>3, EnteredOK DEF x
        <5> QED BY <1>7, <3>2, <3>3, <4>1, <5>1
      <4> QED BY <4>2, <4>3
    <3>4. CASE RoomOf(c) # r
      BY <1>7, <3>2, <3>4
    <3> QED BY <3>3, <3>4
  <2> QED BY <2>1, <2>2
<1> QED BY <1>9, <1>11, <1>12, <1>13, <1>14, <1>15 DEF Found, Present, KeepsPresent

LEMMA NewRoomOK ==
    ASSUME NEW scene \in Scenes, NEW content \in SUBSET Edits
    PROVE  NewRoom(scene, content) \in RoomType /\ Waits(NewRoom(scene, content).flushes)
  BY DEF NewRoom, RoomType, Waits

LEMMA ServeKnownOK ==
    ASSUME Typed, Found, ServeKnown
    PROVE  Typed' /\ Found' /\ KeepsPresent
<1> DEFINE h == Head(hubQueue)
           r == registry[h.scene]
<1>1. hubQueue # <<>> /\ r # NoRoom /\ Enter(h, r, rooms) /\ UNCHANGED << registry, disk >>
  BY DEF ServeKnown, HubHead
<1>2. h.scene \in Scenes
  <2>1. h \in AskType
    BY <1>1, TailOf DEF Typed
  <2> QED BY <2>1 DEF AskType
<1>3. r \in 1..MaxRooms /\ rooms[r].scene = h.scene
  BY <1>1, <1>2 DEF Typed, NoRoom, Found
<1>4. registry' = [registry EXCEPT ![h.scene] = r]
  BY <1>1, <1>2 DEF Typed
<1>5. \A s \in Scenes : s # h.scene => registry[s] # r
  BY <1>1, <1>3 DEF Found
<1>6. \A c \in Conns : Serving(c) /\ RoomOf(c) = r => rooms[r].scene = SceneOf[c]
  BY DEF Found
<1>7. rooms \in [1..MaxRooms -> RoomType] /\ \A p \in 1..MaxRooms : Waits(rooms[p].flushes)
  BY DEF Typed
<1> QED BY <1>1, <1>3, <1>4, <1>5, <1>6, <1>7, EnterOK

LEMMA ServeUnknownOK ==
    ASSUME Typed, Found, ServeUnknown \/ Load
    PROVE  Typed' /\ Found' /\ KeepsPresent
<1> DEFINE h == Head(hubQueue)
<1>1. hubQueue # <<>> /\ hubQueue \in Seq(AskType) /\ UNCHANGED << rooms, registry, disk, conn, made >>
  BY DEF ServeUnknown, Load, HubHead, Typed
<1>2. h \in AskType /\ hubQueue[1] = h
  BY <1>1, TailOf
<1>3. CASE ServeUnknown
  <2> DEFINE x == [h EXCEPT !.stage = "reading"]
  <2>1. x \in AskType /\ x.by = h.by /\ x.scene = h.scene /\ x.asks = h.asks
    BY <1>2 DEF AskType
  <2>2. hubQueue' = [hubQueue EXCEPT ![1] = x]
    BY <1>2, <1>3 DEF ServeUnknown
  <2>3. h.asks # "flush" /\ registry[h.scene] = NoRoom
    BY <1>3 DEF ServeUnknown
  <2> HIDE DEF x
  <2> QED BY <1>1, <2>1, <2>2, <2>3, LoadingOK
<1>4. CASE Load
  <2> DEFINE x == [h EXCEPT !.stage = "read", !.content = disk[h.scene]]
  <2>1. disk[h.scene] \in SUBSET Edits
    BY <1>2 DEF Typed, AskType
  <2>2. x \in AskType /\ x.by = h.by /\ x.scene = h.scene /\ x.asks = h.asks
    BY <1>2, <2>1 DEF AskType
  <2>3. hubQueue' = [hubQueue EXCEPT ![1] = x]
    BY <1>1, <1>2, <1>4 DEF Load
  <2>4. h.asks # "flush" /\ registry[h.scene] = NoRoom
    BY <1>4 DEF Load, Found
  <2> HIDE DEF x
  <2> QED BY <1>1, <2>2, <2>3, <2>4, LoadingOK
<1> QED BY <1>3, <1>4

LEMMA CreateOK ==
    ASSUME Typed, Found, Create
    PROVE  Typed' /\ Found' /\ KeepsPresent
<1> DEFINE h == Head(hubQueue)
<1>1. hubQueue # <<>> /\ registry[h.scene] = NoRoom /\ UNCHANGED disk
  BY DEF Create, HubHead, Found
<1>2. h \in AskType
  BY <1>1, TailOf DEF Typed
<1>3. PICK r \in 1..MaxRooms :
          /\ Unused(r)
          /\ registry' = [registry EXCEPT ![h.scene] = r]
          /\ Enter(h, r, [rooms EXCEPT ![r] = NewRoom(h.scene, h.content)])
  BY DEF Create, Typed
<1> DEFINE n == NewRoom(h.scene, h.content)
           known == [rooms EXCEPT ![r] = n]
<1>4. n \in RoomType /\ Waits(n.flushes) /\ n.scene = h.scene
  <2>1. h.scene \in Scenes /\ h.content \in SUBSET Edits
    BY <1>2 DEF AskType
  <2>2. NewRoom(h.scene, h.content).scene = h.scene
    BY DEF NewRoom
  <2> QED BY <2>1, <2>2, NewRoomOK
<1> HIDE DEF n
<1>5. /\ known \in [1..MaxRooms -> RoomType] /\ known[r] = n
      /\ \A p \in 1..MaxRooms : p # r => known[p] = rooms[p]
  BY <1>4 DEF Typed
<1>6. \A p \in 1..MaxRooms : Waits(known[p].flushes)
  BY <1>4, <1>5 DEF Typed
<1>7. (\A s \in Scenes : registry[s] # r) /\ (\A c \in Conns : RoomOf(c) # r)
  BY <1>3 DEF Unused, RoomOf
<1>8. Enter(h, r, known)
  BY <1>3 DEF n
<1> HIDE DEF known
<1> QED BY <1>1, <1>3, <1>4, <1>5, <1>6, <1>7, <1>8, EnterOK

LEMMA ServeFlushOK ==
    ASSUME Typed, Found, ServeFlush
    PROVE  Typed' /\ Found' /\ KeepsPresent
<1> DEFINE h == Head(hubQueue)
<1>1. hubQueue # <<>> /\ hubQueue' = Tail(hubQueue) /\ UNCHANGED << registry, disk, conn, made >>
  BY DEF ServeFlush, HubHead
<1>2. h.by \in Tasks
  <2>1. h \in AskType
    BY <1>1, TailOf DEF Typed
  <2> QED BY <2>1 DEF AskType
<1>3. /\ rooms \in [1..MaxRooms -> RoomType]
      /\ \A p \in 1..MaxRooms : Waits(rooms[p].flushes)
  BY DEF Typed
<1>4. /\ DOMAIN rooms' = 1..MaxRooms
      /\ \A p \in 1..MaxRooms : rooms'[p] \in {rooms[p], Flushed(rooms[p], h.by)}
      /\ rooms' = [p \in 1..MaxRooms |-> rooms'[p]]
  BY <1>3 DEF ServeFlush
<1>5. \A p \in 1..MaxRooms : /\ rooms'[p] \in RoomType /\ Waits(rooms'[p].flushes)
                             /\ rooms'[p].scene = rooms[p].scene
                             /\ rooms'[p].clients = rooms[p].clients
  BY <1>2, <1>3, <1>4, FlushedOK
<1>6. rooms' \in [1..MaxRooms -> RoomType]
  BY <1>4, <1>5
<1>7. /\ hubQueue' \in Seq(AskType) /\ Waits(hubQueue')
      /\ ~ HubHead("reading")' /\ ~ HubHead("read")'
      /\ \A i \in DOMAIN hubQueue' : Rightful(hubQueue'[i])
  BY <1>1, ServedOK
<1>8. Typed'
  BY <1>1, <1>5, <1>6, <1>7 DEF Typed
<1>9. MembersAreFound'
  BY <1>1, <1>3, <1>4, <1>5 DEF MembersAreFound, Found
<1>10. \A s \in Scenes : registry'[s] # NoRoom => rooms'[registry'[s]].scene = s
  BY <1>1, <1>5 DEF Found, Typed, NoRoom
<1>11. \A c \in Conns : Serving(c)' => /\ RoomOf(c)' \in 1..MaxRooms
                                       /\ rooms'[RoomOf(c)'].scene = SceneOf[c]
  BY <1>1, <1>5 DEF Found, Serving, RoomOf
<1>12. KeepsPresent
  BY <1>1, <1>5 DEF Present, KeepsPresent, Serving, RoomOf, Found
<1> QED BY <1>7, <1>8, <1>9, <1>10, <1>11, <1>12 DEF Found

(* Only rooms that nobody is in leave the registry. *)
LEMMA DiscardOK ==
    ASSUME Typed, Found, NEW c \in Conns, DiscardEmpty(c)
    PROVE  Typed' /\ Found' /\ KeepsPresent
<1>1. /\ registry' \in [Scenes -> 0..MaxRooms]
      /\ \A s \in Scenes : registry'[s] \in {NoRoom, registry[s]}
      /\ \A s \in Scenes : registry[s] # NoRoom /\ rooms[registry[s]].clients # {}
                               => registry'[s] = registry[s]
  BY HubAssumption DEF DiscardEmpty, Typed, NoRoom
<1>2. UNCHANGED << rooms, hubQueue, disk, made >>
  BY DEF DiscardEmpty
<1>3. /\ conn' \in [Conns -> ConnType]
      /\ \A d \in Conns : Serving(d)' => Serving(d) /\ RoomOf(d)' = RoomOf(d)
  <2>1. conn' = [conn EXCEPT ![c] = [pc |-> "away", room |-> NoRoom]]
    BY DEF DiscardEmpty
  <2>2. [pc |-> "away", room |-> NoRoom] \in ConnType
    BY HubAssumption DEF ConnType, NoRoom
  <2> QED BY <2>1, <2>2 DEF Typed, Serving, RoomOf, InLoop
<1>4. Typed'
  BY <1>1, <1>2, <1>3 DEF Typed
<1>5. MembersAreFound'
  <2> SUFFICES ASSUME NEW p \in 1..MaxRooms, rooms[p].clients # {}
               PROVE  registry'[rooms[p].scene] = p
    BY <1>2 DEF MembersAreFound, Typed
  <2>1. registry[rooms[p].scene] = p /\ rooms[p].scene \in Scenes /\ p # NoRoom
    BY DEF Found, MembersAreFound, Typed, RoomType, NoRoom
  <2> QED BY <1>1, <2>1
<1>6. \A s \in Scenes : registry'[s] # NoRoom => rooms'[registry'[s]].scene = s
  BY <1>1, <1>2 DEF Found
<1>7. \A d \in Conns : Serving(d)' => /\ RoomOf(d)' \in 1..MaxRooms
                                      /\ rooms'[RoomOf(d)'].scene = SceneOf[d]
  BY <1>2, <1>3 DEF Found
<1>8. HubHead("reading")' \/ HubHead("read")' =>
          registry'[Head(hubQueue').scene] = NoRoom /\ Head(hubQueue').asks # "flush"
  <2> SUFFICES ASSUME HubHead("reading") \/ HubHead("read")
               PROVE  registry'[Head(hubQueue).scene] = NoRoom /\ Head(hubQueue).asks # "flush"
    BY <1>2 DEF HubHead
  <2>1. Head(hubQueue) \in AskType
    BY TailOf DEF Typed, HubHead
  <2>2. Head(hubQueue).scene \in Scenes
    BY <2>1 DEF AskType
  <2> QED BY <1>1, <2>2 DEF Found
<1>9. \A i \in DOMAIN hubQueue' : Rightful(hubQueue'[i])
  BY <1>2 DEF Found
<1>10. KeepsPresent
  BY <1>2, <1>3 DEF Present, KeepsPresent
<1> QED BY <1>4, <1>5, <1>6, <1>7, <1>8, <1>9, <1>10 DEF Found

-----------------------------------------------------------------------------
(* The theorems *)

LEMMA InitOK == HubInit => Typed /\ Found /\ Present
<1> SUFFICES ASSUME HubInit PROVE Typed /\ Found /\ Present
  OBVIOUS
<1>1. (CHOOSE s \in Scenes : TRUE) \in Scenes
  BY HubAssumption
<1>2. /\ rooms \in [1..MaxRooms -> RoomType]
      /\ \A r \in 1..MaxRooms : Waits(rooms[r].flushes) /\ rooms[r].clients = {}
  BY <1>1, NewRoomOK DEF HubInit, NewRoom
<1>3. /\ conn \in [Conns -> ConnType] /\ hubQueue = <<>>
      /\ registry \in [Scenes -> 0..MaxRooms]
      /\ disk \in [Scenes -> SUBSET Edits] /\ made \in [Scenes -> SUBSET Edits]
  BY HubAssumption DEF HubInit, ConnType, NoRoom
<1>4. Typed
  BY <1>2, <1>3 DEF Typed, Waits
<1>5. Found
  BY <1>2, <1>3 DEF HubInit, Found, MembersAreFound, HubHead, Serving, InLoop
<1>6. Present
  BY DEF HubInit, Present, Serving, InLoop
<1> QED BY <1>4, <1>5, <1>6

LEMMA HubStepOK ==
    ASSUME Typed, Found, HubStep
    PROVE  Typed' /\ Found' /\ KeepsPresent
  BY ServeKnownOK, ServeUnknownOK, ServeFlushOK, CreateOK DEF HubStep

LEMMA ConnectOK ==
    ASSUME Typed, Found, NEW c \in Conns, Connect(c)
    PROVE  Typed' /\ Found' /\ KeepsPresent
<1>1. conn' = [conn EXCEPT ![c].pc = "asking"] /\ conn[c] \in ConnType
  BY DEF Connect, Typed
<1>2. [conn[c] EXCEPT !.pc = "asking"] \in ConnType
  BY <1>1 DEF ConnType
<1>3. conn' \in [Conns -> ConnType]
  BY <1>1, <1>2 DEF Typed
<1>4. \A d \in Conns : Serving(d)' => Serving(d) /\ RoomOf(d)' = RoomOf(d)
  <2>1. \A d \in Conns : conn'[d] = IF d = c THEN [conn[c] EXCEPT !.pc = "asking"]
                                    ELSE conn[d]
    BY <1>1 DEF Typed
  <2>2. conn'[c].pc = "asking"
    BY <1>1, <2>1 DEF ConnType
  <2> QED BY <2>1, <2>2 DEF Serving, RoomOf, InLoop
<1>5. /\ c \in Tasks /\ SceneOf[c] \in Scenes /\ Queued(c, SceneOf[c], "ws")
      /\ UNCHANGED << rooms, registry, disk, made >>
  BY HubAssumption DEF Connect, Tasks
<1> QED BY <1>3, <1>4, <1>5, QueuedOK

LEMMA AskOK ==
    ASSUME Typed, Found, NEW t \in Requests, Ask(t)
    PROVE  Typed' /\ Found' /\ KeepsPresent
<1>1. PICK scene \in Scenes, asks \in {"join", "leave", "apply", "look", "flush"} :
          Queued(t, scene, asks)
  BY DEF Ask
<1>2. /\ t \in Tasks /\ conn' \in [Conns -> ConnType]
      /\ UNCHANGED << rooms, registry, disk, made >>
      /\ \A c \in Conns : Serving(c)' => Serving(c) /\ RoomOf(c)' = RoomOf(c)
  BY DEF Ask, Tasks, Typed, Serving, RoomOf
<1> QED BY <1>1, <1>2, QueuedOK

LEMMA HubNextOK ==
    ASSUME Typed, Found, HubNext
    PROVE  Typed' /\ Found' /\ KeepsPresent
<1>1. DOMAIN rooms = 1..MaxRooms
  BY DEF Typed
<1>2. CASE HubStep
  BY <1>2, HubStepOK
<1>3. ASSUME NEW r \in DOMAIN rooms, RoomStep(r) \/ SaveRaises(r)
      PROVE  Typed' /\ Found' /\ KeepsPresent
  BY <1>1, <1>3, FlushStepsOK
<1>4. ASSUME NEW c \in Conns, LoopStep(c)
      PROVE  Typed' /\ Found' /\ KeepsPresent
  BY <1>4, ConnectOK, ConnStepOK, DiscardOK DEF LoopStep
<1>5. ASSUME NEW t \in Requests, Ask(t)
      PROVE  Typed' /\ Found' /\ KeepsPresent
  BY <1>5, AskOK
<1> QED BY <1>2, <1>3, <1>4, <1>5 DEF HubNext, LoopsNext

LEMMA StutterOK ==
    ASSUME Typed, Found, UNCHANGED hubVars
    PROVE  Typed' /\ Found' /\ KeepsPresent
<1> USE DEF hubVars
<1>1. Typed'
  BY DEF Typed
<1>2. Found'
  BY DEF Found, MembersAreFound, HubHead, Serving, RoomOf
<1>3. KeepsPresent
  BY DEF KeepsPresent, Present, Serving, RoomOf
<1> QED BY <1>1, <1>2, <1>3

LEMMA FaultyStepOK == Typed /\ Found /\ [FaultyNext]_hubVars => (Typed /\ Found)'
<1> SUFFICES ASSUME Typed, Found, [FaultyNext]_hubVars PROVE Typed' /\ Found'
  OBVIOUS
<1>1. CASE HubNext
  BY <1>1, HubNextOK
<1>2. ASSUME NEW r \in DOMAIN rooms, SendFails(r) PROVE Typed' /\ Found'
  BY <1>2, SendFailsOK DEF Typed
<1>3. CASE UNCHANGED hubVars
  BY <1>3, StutterOK
<1> QED BY <1>1, <1>2, <1>3 DEF FaultyNext

LEMMA TypedImplies == Typed /\ Found => TypeOK
<1> SUFFICES ASSUME Typed, Found PROVE TypeOK
  OBVIOUS
<1>1. \A r \in 1..MaxRooms :
          /\ rooms[r].scene \in Scenes /\ rooms[r].clients \subseteq Clients
          /\ rooms[r].noted \subseteq Edits /\ rooms[r].doc \subseteq Edits
  BY DEF Typed, RoomType
<1>2. conn \in [Conns -> [pc : InLoop \cup {"away", "asking", "closing", "leaving"},
                          room : 0..MaxRooms]]
  BY DEF Typed, ConnType
<1> QED BY <1>1, <1>2 DEF Typed, Found, TypeOK, Waits

(* Type correctness, of connections, REST callers, saves that raise and     *)
(* broadcasts that fail.                                                    *)
THEOREM HubTyped == FaultySpec => []TypeOK
<1>1. FaultySpec => [](Typed /\ Found)
  BY InitOK, FaultyStepOK, PTL DEF FaultySpec
<1> QED BY <1>1, TypedImplies, PTL

(* A room with members is never replaced and never discarded: the next      *)
(* client of its scene gets it, however requests, loads and disconnects     *)
(* interleave.                                                              *)
THEOREM MembersFound == FaultySpec => []MembersAreFound
<1>1. FaultySpec => [](Typed /\ Found)
  BY InitOK, FaultyStepOK, PTL DEF FaultySpec
<1>2. Found => MembersAreFound
  BY DEF Found
<1> QED BY <1>1, <1>2, PTL

(* Both together, which is what the run checks.                             *)
THEOREM RegistryAlwaysSound == FaultySpec => []RegistrySound
  BY HubTyped, MembersFound, PTL DEF RegistrySound

(* If every connection and caller has a client id of its own, and           *)
(* broadcasts reach their connections, the connections that edit a scene    *)
(* all edit in its one room.                                                *)
THEOREM OneRoom == ASSUME OwnIds PROVE HubSpec => []OneRoomPerScene
<1>1. Typed /\ Found /\ Present /\ [HubNext]_hubVars => (Typed /\ Found /\ Present)'
  BY HubNextOK, StutterOK DEF KeepsPresent
<1>2. Typed /\ Found /\ Present => OneRoomPerScene
  <2> SUFFICES ASSUME Typed, Found, Present, NEW c \in Conns, Serving(c)
               PROVE  registry[SceneOf[c]] = RoomOf(c)
    BY DEF OneRoomPerScene
  <2>1. /\ RoomOf(c) \in DOMAIN rooms /\ rooms[RoomOf(c)].scene = SceneOf[c]
        /\ ClientOf[c] \in rooms[RoomOf(c)].clients
    BY DEF Typed, Found, Present
  <2> QED BY <2>1 DEF Found, MembersAreFound
<1> QED BY <1>1, <1>2, InitOK, PTL DEF HubSpec

-----------------------------------------------------------------------------
(* Connections alone, with broadcasts that fail.  Whoever has made an edit  *)
(* that no flush has taken up is in its loop, in that room, whether still a *)
(* member or not; this is why a room without members may be discarded.      *)
Busy(c) == conn[c].pc \in {"broadcasting", "flushing"}

(* Everybody is in one queue at most, and it is the queue of its room.      *)
OneQueue ==
    /\ \A i \in DOMAIN hubQueue :
          /\ hubQueue[i].asks = "ws" /\ hubQueue[i].by \in Conns
          /\ conn[hubQueue[i].by].pc = "asking"
          /\ \A j \in DOMAIN hubQueue : hubQueue[j].by = hubQueue[i].by => i = j
    /\ \A r \in 1..MaxRooms : \A i \in DOMAIN rooms[r].flushes :
          /\ rooms[r].flushes[i].by \in Conns /\ rooms[r].flushes[i].stage # "raised"
          /\ conn[rooms[r].flushes[i].by].pc \in {"flushing", "closing"}
          /\ RoomOf(rooms[r].flushes[i].by) = r
          /\ \A j \in DOMAIN rooms[r].flushes :
                rooms[r].flushes[j].by = rooms[r].flushes[i].by => i = j
    /\ \A c \in Conns : RoomOf(c) # NoRoom => rooms[RoomOf(c)].scene = SceneOf[c]

Attended ==
    \A r \in 1..MaxRooms :
        /\ rooms[r].noted \subseteq rooms[r].doc
        /\ AtHead(r, "saving") \/ AtHead(r, "saved") => rooms[r].doc # rooms[r].noted
        /\ rooms[r].doc # rooms[r].noted =>
              rooms[r].dirty /\ \E c \in Conns : Busy(c) /\ RoomOf(c) = r

Away(c) == conn[c].pc \in {"away", "asking"}

(* Room r is the scene's: it is registered, or its editor is in it.         *)
InUse(s, r) == \/ registry[s] = r
               \/ \E c \in Conns : SceneOf[c] = s /\ ~ Away(c) /\ RoomOf(c) = r

(* The file of a scene with one editor: what its room has noted is there,   *)
(* and all of its edits while it has no room.  Its editor may be in a room  *)
(* that was discarded, and is then in no other.                             *)
OnDisk(s) ==
    /\ (\A r \in 1..MaxRooms : ~ InUse(s, r)) => made[s] \subseteq disk[s]
    /\ \A r \in 1..MaxRooms : InUse(s, r) => /\ made[s] \subseteq rooms[r].doc
                                             /\ rooms[r].noted \subseteq disk[s]
    /\ \A q \in 1..MaxRooms : \A r \in 1..MaxRooms :
          InUse(s, q) /\ InUse(s, r) => q = r
    /\ HubHead("read") /\ Head(hubQueue).scene = s => Head(hubQueue).content = disk[s]
    /\ \A r \in 1..MaxRooms : rooms[r].scene = s =>
          \A i \in DOMAIN rooms[r].flushes :
              /\ conn[rooms[r].flushes[i].by].pc = "flushing"
              /\ rooms[r].flushes[i].payload = rooms[r].doc
              /\ rooms[r].flushes[i].stage = "saved" => disk[s] = rooms[r].doc

Kept == \A s \in Scenes : Alone(s) => OnDisk(s)

LoopsInv == Typed /\ Found /\ OneQueue /\ Attended /\ Kept

LEMMA LoopsInitInv == HubInit => OneQueue /\ Attended /\ Kept
<1> SUFFICES ASSUME HubInit PROVE OneQueue /\ Attended /\ Kept
  OBVIOUS
<1>1. /\ \A r \in 1..MaxRooms : rooms[r].flushes = <<>> /\ rooms[r].noted = rooms[r].doc
      /\ hubQueue = <<>> /\ \A c \in Conns : RoomOf(c) = NoRoom
      /\ \A s \in Scenes : registry[s] = NoRoom /\ made[s] = {}
  BY DEF HubInit, NewRoom, RoomOf
<1>2. OneQueue
  BY <1>1 DEF OneQueue
<1>3. Attended
  BY <1>1 DEF Attended, AtHead
<1>4. Kept
  <2>1. \A s \in Scenes : \A r \in 1..MaxRooms : ~ InUse(s, r)
    BY <1>1 DEF InUse, NoRoom
  <2> QED BY <1>1, <2>1 DEF Kept, OnDisk, HubHead
<1> QED BY <1>2, <1>3, <1>4

(* What a step writes to one room, and to the place of one connection.      *)
LEMMA RoomPut ==
    ASSUME Typed, NEW r \in 1..MaxRooms, NEW x, rooms' = [rooms EXCEPT ![r] = x]
    PROVE  rooms'[r] = x /\ \A q \in 1..MaxRooms : q # r => rooms'[q] = rooms[q]
  BY DEF Typed

LEMMA ConnPut ==
    ASSUME Typed, NEW c \in Conns, NEW v, conn' = [conn EXCEPT ![c].pc = v]
    PROVE  /\ conn'[c].pc = v /\ RoomOf(c)' = RoomOf(c)
           /\ \A d \in Conns : d # c => conn'[d] = conn[d]
           /\ \A d \in Conns : RoomOf(d)' = RoomOf(d)
<1>1. conn[c] \in ConnType
  BY DEF Typed
<1>2. conn'[c] = [conn[c] EXCEPT !.pc = v] /\ \A d \in Conns : d # c => conn'[d] = conn[d]
  BY DEF Typed
<1>3. conn'[c].pc = v /\ conn'[c].room = conn[c].room
  BY <1>1, <1>2 DEF ConnType
<1> QED BY <1>2, <1>3 DEF RoomOf

(* A step that registers, discards and enters no room of a scene leaves its *)
(* rooms in use.                                                            *)
LEMMA SameUse ==
    ASSUME NEW s, registry'[s] = registry[s],
           \A c \in Conns : SceneOf[c] = s =>
               RoomOf(c)' = RoomOf(c) /\ (Away(c)' <=> Away(c))
    PROVE  \A r \in 1..MaxRooms : InUse(s, r)' <=> InUse(s, r)
  BY DEF InUse

(* A room in use is of its scene. *)
LEMMA UsedScene ==
    ASSUME LoopsInv, NEW s \in Scenes, NEW r \in 1..MaxRooms, InUse(s, r)
    PROVE  rooms[r].scene = s
<1>1. r # NoRoom
  BY DEF NoRoom
<1>2. CASE registry[s] = r
  BY <1>1, <1>2 DEF LoopsInv, Found
<1>3. ASSUME NEW c \in Conns, SceneOf[c] = s, RoomOf(c) = r PROVE rooms[r].scene = s
  BY <1>1, <1>3 DEF LoopsInv, OneQueue
<1> QED BY <1>2, <1>3 DEF InUse

(* While a scene with one editor is flushed, that editor is in its loop and *)
(* awaits this flush, the only one of the scene.                            *)
LEMMA AloneFlush ==
    ASSUME LoopsInv, NEW r \in 1..MaxRooms, Alone(rooms[r].scene),
           NEW i \in DOMAIN rooms[r].flushes
    PROVE  /\ InUse(rooms[r].scene, r)
           /\ ~ (HubHead("read") /\ Head(hubQueue).scene = rooms[r].scene)
           /\ \A j \in DOMAIN rooms[r].flushes : i = j
           /\ rooms[r].scene \in Scenes
<1> DEFINE s == rooms[r].scene
           c == rooms[r].flushes[i].by
<1>1. s \in Scenes /\ DOMAIN rooms = 1..MaxRooms
  BY DEF LoopsInv, Typed, RoomType
<1>2. c \in Conns /\ RoomOf(c) = r /\ conn[c].pc = "flushing"
  BY <1>1 DEF LoopsInv, OneQueue, Kept, OnDisk
<1>3. SceneOf[c] = s
  BY <1>2 DEF LoopsInv, OneQueue, NoRoom
<1>4. InUse(s, r)
  BY <1>2, <1>3 DEF InUse, Away
<1>6. ~ (HubHead("read") /\ Head(hubQueue).scene = s)
  <2> SUFFICES ASSUME hubQueue # <<>>, Head(hubQueue).scene = s PROVE FALSE
    BY DEF HubHead
  <2>1. 1 \in DOMAIN hubQueue /\ Head(hubQueue) = hubQueue[1]
    BY TailOf DEF LoopsInv, Typed
  <2>2. /\ hubQueue[1].asks = "ws" /\ hubQueue[1].by \in Conns
        /\ conn[hubQueue[1].by].pc = "asking" /\ Rightful(hubQueue[1])
    BY <2>1 DEF LoopsInv, OneQueue, Found
  <2>3. SceneOf[hubQueue[1].by] = s
    BY <2>1, <2>2 DEF Rightful
  <2>4. hubQueue[1].by = c
    BY <1>2, <1>3, <2>2, <2>3 DEF Alone
  <2> QED BY <1>2, <2>2, <2>4
<1>5. ASSUME NEW j \in DOMAIN rooms[r].flushes PROVE i = j
  <2>1. rooms[r].flushes[j].by \in Conns /\ RoomOf(rooms[r].flushes[j].by) = r
    BY DEF LoopsInv, OneQueue
  <2>2. SceneOf[c] = s /\ SceneOf[rooms[r].flushes[j].by] = s
    BY <1>2, <2>1 DEF LoopsInv, OneQueue, NoRoom
  <2>3. rooms[r].flushes[j].by = c
    BY <1>2, <2>1, <2>2 DEF Alone
  <2> QED BY <2>3 DEF LoopsInv, OneQueue
<1> QED BY <1>1, <1>4, <1>5, <1>6

-----------------------------------------------------------------------------
(* The hub's lock *)

(* The first in the queue has got its room and goes on with it. *)
LEMMA LoopsServed ==
    ASSUME LoopsInv, Typed', hubQueue # <<>>, hubQueue' = Tail(hubQueue),
           NEW r \in 1..MaxRooms, rooms'[r].scene = Head(hubQueue).scene,
           \A q \in 1..MaxRooms : q # r => rooms'[q] = rooms[q],
           rooms'[r].flushes = rooms[r].flushes \/ rooms'[r].flushes = <<>>,
           rooms'[r].scene = rooms[r].scene \/ \A c \in Conns : RoomOf(c) # r,
           Head(hubQueue).asks = "ws" =>
              conn' = [conn EXCEPT ![Head(hubQueue).by] = [pc |-> "receiving", room |-> r]]
    PROVE  /\ OneQueue' /\ ~ HubHead("read")'
           /\ Head(hubQueue).by \in Conns /\ Head(hubQueue).asks = "ws"
           /\ SceneOf[Head(hubQueue).by] = Head(hubQueue).scene
           /\ conn[Head(hubQueue).by].pc = "asking"
           /\ conn'[Head(hubQueue).by] = [pc |-> "receiving", room |-> r]
           /\ \A c \in Conns : c # Head(hubQueue).by => conn'[c] = conn[c]
           /\ \A c \in Conns : Busy(c) => conn'[c] = conn[c]
           /\ \A q \in 1..MaxRooms : \A i \in DOMAIN rooms[q].flushes :
                 conn'[rooms[q].flushes[i].by] = conn[rooms[q].flushes[i].by]
<1> DEFINE h == Head(hubQueue)
<1>1. hubQueue \in Seq(AskType) /\ Typed /\ Found /\ OneQueue
  BY DEF LoopsInv, Typed
<1>2. /\ h = hubQueue[1] /\ 1 \in DOMAIN hubQueue /\ h \in AskType
      /\ \A i \in DOMAIN hubQueue' : /\ i + 1 \in DOMAIN hubQueue /\ i + 1 > 1
                                     /\ hubQueue'[i] = hubQueue[i + 1]
  BY <1>1, TailOf
<1>3. ~ HubHead("read")'
  BY <1>1, ServedOK
<1>4. h.asks = "ws" /\ h.by \in Conns /\ conn[h.by].pc = "asking" /\ Rightful(h)
  BY <1>1, <1>2 DEF OneQueue, Found
<1> HIDE DEF h
<1>5. /\ conn'[h.by] = [pc |-> "receiving", room |-> r]
      /\ \A c \in Conns : c # h.by => conn'[c] = conn[c]
  BY <1>1, <1>4 DEF Typed, h
<1>6. /\ \A c \in Conns : Busy(c) => conn'[c] = conn[c]
      /\ \A q \in 1..MaxRooms : \A i \in DOMAIN rooms[q].flushes :
                 conn'[rooms[q].flushes[i].by] = conn[rooms[q].flushes[i].by]
  BY <1>1, <1>4, <1>5 DEF Busy, OneQueue
<1>7. ASSUME NEW i \in DOMAIN hubQueue'
      PROVE  /\ hubQueue'[i].asks = "ws" /\ hubQueue'[i].by \in Conns
             /\ conn'[hubQueue'[i].by].pc = "asking"
             /\ \A j \in DOMAIN hubQueue' : hubQueue'[j].by = hubQueue'[i].by => i = j
  <2>1. hubQueue'[i].by # h.by
    <3>1. i + 1 \in DOMAIN hubQueue /\ i + 1 # 1 /\ hubQueue'[i] = hubQueue[i + 1]
      BY <1>2
    <3> QED BY <1>1, <1>2, <3>1 DEF OneQueue
  <2>2. /\ hubQueue'[i].asks = "ws" /\ hubQueue'[i].by \in Conns
        /\ conn[hubQueue'[i].by].pc = "asking"
    BY <1>1, <1>2 DEF OneQueue
  <2>3. ASSUME NEW j \in DOMAIN hubQueue', hubQueue'[j].by = hubQueue'[i].by PROVE i = j
    <3>1. i + 1 = j + 1
      BY <1>1, <1>2, <2>3 DEF OneQueue
    <3>2. i \in Nat /\ j \in Nat
      BY DEF Typed
    <3> QED BY <3>1, <3>2
  <2> QED BY <1>5, <2>1, <2>2, <2>3
<1>8. ASSUME NEW q \in 1..MaxRooms, NEW i \in DOMAIN rooms'[q].flushes
      PROVE  /\ rooms'[q].flushes[i].by \in Conns /\ rooms'[q].flushes[i].stage # "raised"
             /\ conn'[rooms'[q].flushes[i].by].pc \in {"flushing", "closing"}
             /\ conn'[rooms'[q].flushes[i].by].room = q
             /\ \A j \in DOMAIN rooms'[q].flushes :
                   rooms'[q].flushes[j].by = rooms'[q].flushes[i].by => i = j
  <2>1. rooms'[q].flushes = rooms[q].flushes
    <3>1. CASE q # r
      BY <3>1
    <3>2. CASE q = r /\ rooms'[r].flushes = <<>>
      BY <3>2
    <3> QED BY <3>1, <3>2
  <2>2. conn'[rooms[q].flushes[i].by] = conn[rooms[q].flushes[i].by]
    BY <1>6, <2>1
  <2> QED BY <1>1, <2>1, <2>2 DEF OneQueue, RoomOf
<1>9. ASSUME NEW c \in Conns, RoomOf(c)' # NoRoom PROVE rooms'[RoomOf(c)'].scene = SceneOf[c]
  <2>1. CASE c = h.by
    <3>1. h.scene = SceneOf[c]
      BY <1>4, <2>1 DEF Rightful
    <3> QED BY <1>5, <2>1, <3>1 DEF RoomOf, h
  <2>2. CASE c # h.by
    <3>1. RoomOf(c)' = RoomOf(c) /\ rooms[RoomOf(c)].scene = SceneOf[c]
      BY <1>1, <1>5, <1>9, <2>2 DEF RoomOf, OneQueue
    <3>2. RoomOf(c) \in 1..MaxRooms
      BY <1>1, <1>9, <3>1 DEF Typed, ConnType, RoomOf, NoRoom
    <3> QED BY <3>1, <3>2
  <2> QED BY <2>1, <2>2
<1>10. OneQueue'
  BY <1>7, <1>8, <1>9 DEF OneQueue, RoomOf
<1>11. SceneOf[h.by] = h.scene
  BY <1>4 DEF Rightful
<1> QED BY <1>3, <1>4, <1>5, <1>6, <1>10, <1>11 DEF h

LEMMA LoopsServeKnown ==
    ASSUME LoopsInv, Typed', ServeKnown
    PROVE  OneQueue' /\ Attended' /\ Kept'
<1> DEFINE h == Head(hubQueue)
           r == registry[h.scene]
           x == Joined(rooms[r], ClientOf[h.by])
<1>1. /\ hubQueue # <<>> /\ r # NoRoom /\ Enter(h, r, rooms) /\ UNCHANGED << registry, disk >>
  BY DEF ServeKnown, HubHead
<1>2. h \in AskType /\ h = hubQueue[1] /\ 1 \in DOMAIN hubQueue
  BY <1>1, TailOf DEF LoopsInv, Typed
<1>3. h.asks = "ws" /\ h.scene \in Scenes
  BY <1>2 DEF LoopsInv, OneQueue, AskType
<1>4. r \in 1..MaxRooms /\ rooms[r].scene = h.scene /\ rooms[r] \in RoomType
  BY <1>1, <1>3 DEF LoopsInv, Typed, NoRoom, Found
<1>5. /\ hubQueue' = Tail(hubQueue) /\ rooms' = [rooms EXCEPT ![r] = x] /\ made' = made
      /\ conn' = [conn EXCEPT ![h.by] = [pc |-> "receiving", room |-> r]]
  BY <1>1, <1>3 DEF Enter
<1>6. /\ x.scene = h.scene /\ x.flushes = rooms[r].flushes /\ x.doc = rooms[r].doc
      /\ x.noted = rooms[r].noted /\ x.dirty = rooms[r].dirty
  BY <1>4 DEF Joined, RoomType
<1> HIDE DEF x, h, r
<1>7. rooms'[r] = x /\ \A q \in 1..MaxRooms : q # r => rooms'[q] = rooms[q]
  BY <1>4, <1>5, RoomPut DEF LoopsInv
<1>8. /\ OneQueue' /\ ~ HubHead("read")'
      /\ h.by \in Conns /\ SceneOf[h.by] = h.scene
      /\ conn'[h.by] = [pc |-> "receiving", room |-> r]
      /\ \A c \in Conns : c # h.by => conn'[c] = conn[c]
      /\ \A c \in Conns : Busy(c) => conn'[c] = conn[c]
      /\ \A q \in 1..MaxRooms : \A i \in DOMAIN rooms[q].flushes :
                 conn'[rooms[q].flushes[i].by] = conn[rooms[q].flushes[i].by]
  BY <1>1, <1>4, <1>5, <1>6, <1>7, LoopsServed DEF h
<1>9. \A q \in 1..MaxRooms :
          /\ rooms'[q].scene = rooms[q].scene /\ rooms'[q].flushes = rooms[q].flushes
          /\ rooms'[q].doc = rooms[q].doc /\ rooms'[q].noted = rooms[q].noted
          /\ rooms'[q].dirty = rooms[q].dirty
  BY <1>4, <1>6, <1>7
<1>10. Attended'
  BY <1>8, <1>9 DEF LoopsInv, Attended, AtHead, Busy, RoomOf
<1>11. Kept'
  <2> SUFFICES ASSUME NEW s \in Scenes, Alone(s) PROVE OnDisk(s)'
    BY DEF Kept, Alone
  <2>1. OnDisk(s)
    BY DEF LoopsInv, Kept
  <2>2. /\ \A q \in 1..MaxRooms : InUse(s, q)' => InUse(s, q)
        /\ (\A q \in 1..MaxRooms : ~ InUse(s, q)') => \A q \in 1..MaxRooms : ~ InUse(s, q)
    <3>1. CASE s = h.scene
      <4> PICK p \in 1..MaxRooms : p = r
        BY <1>4
      <4>1. registry[s] = p /\ registry'[s] = p
        BY <1>1, <3>1 DEF r
      <4>2. \A c \in Conns : SceneOf[c] = s => conn'[c].room = p
        <5>1. \A c \in Conns : SceneOf[c] = s => c = h.by
          BY <1>8, <3>1 DEF Alone
        <5>2. conn'[h.by].room = p
          BY <1>8
        <5> QED BY <5>1, <5>2
      <4>3. \A q \in 1..MaxRooms : InUse(s, q)' => q = p
        BY <4>1, <4>2 DEF InUse, RoomOf
      <4>4. InUse(s, p) /\ InUse(s, p)'
        BY <4>1 DEF InUse
      <4> QED BY <4>3, <4>4
    <3>2. CASE s # h.scene
      <4>1. \A c \in Conns : SceneOf[c] = s => conn'[c] = conn[c]
        BY <1>8, <3>2
      <4>2. /\ registry'[s] = registry[s]
            /\ \A c \in Conns : SceneOf[c] = s => RoomOf(c)' = RoomOf(c) /\ (Away(c)' <=> Away(c))
        BY <1>1, <4>1 DEF RoomOf, Away
      <4> QED BY <4>2, SameUse
    <3> QED BY <3>1, <3>2
  <2>3. /\ (\A q \in 1..MaxRooms : ~ InUse(s, q)') => made'[s] \subseteq disk'[s]
        /\ \A q \in 1..MaxRooms : InUse(s, q)' => /\ made'[s] \subseteq rooms'[q].doc
                                                  /\ rooms'[q].noted \subseteq disk'[s]
        /\ \A p \in 1..MaxRooms : \A q \in 1..MaxRooms :
              InUse(s, p)' /\ InUse(s, q)' => p = q
    BY <1>1, <1>5, <1>9, <2>1, <2>2 DEF OnDisk
  <2>4. \A q \in 1..MaxRooms : rooms'[q].scene = s =>
          \A i \in DOMAIN rooms'[q].flushes :
              /\ conn'[rooms'[q].flushes[i].by].pc = "flushing"
              /\ rooms'[q].flushes[i].payload = rooms'[q].doc
              /\ rooms'[q].flushes[i].stage = "saved" => disk'[s] = rooms'[q].doc
    BY <1>1, <1>8, <1>9, <2>1 DEF OnDisk
  <2> QED BY <1>8, <2>3, <2>4 DEF OnDisk
<1> QED BY <1>8, <1>10, <1>11

LEMMA LoopsCreate ==
    ASSUME LoopsInv, Typed', Create
    PROVE  OneQueue' /\ Attended' /\ Kept'
<1> DEFINE h == Head(hubQueue)
<1>1. hubQueue # <<>> /\ HubHead("read") /\ UNCHANGED disk
  BY DEF Create, HubHead
<1>2. h \in AskType /\ h = hubQueue[1] /\ 1 \in DOMAIN hubQueue
  BY <1>1, TailOf DEF LoopsInv, Typed
<1>3. h.asks = "ws" /\ h.scene \in Scenes /\ registry[h.scene] = NoRoom
  BY <1>1, <1>2 DEF LoopsInv, OneQueue, AskType, Found
<1>4. PICK r \in 1..MaxRooms :
          /\ Unused(r)
          /\ registry' = [registry EXCEPT ![h.scene] = r]
          /\ Enter(h, r, [rooms EXCEPT ![r] = NewRoom(h.scene, h.content)])
  BY DEF Create, LoopsInv, Typed
<1> DEFINE x == Joined(NewRoom(h.scene, h.content), ClientOf[h.by])
<1>5. /\ hubQueue' = Tail(hubQueue) /\ made' = made
      /\ conn' = [conn EXCEPT ![h.by] = [pc |-> "receiving", room |-> r]]
      /\ rooms' = [rooms EXCEPT ![r] = x]
  <2>1. rooms' = [[rooms EXCEPT ![r] = NewRoom(h.scene, h.content)] EXCEPT
                     ![r] = Joined([rooms EXCEPT ![r] = NewRoom(h.scene, h.content)][r],
                                   ClientOf[h.by])]
    BY <1>3, <1>4 DEF Enter
  <2>2. [rooms EXCEPT ![r] = NewRoom(h.scene, h.content)][r] = NewRoom(h.scene, h.content)
    BY DEF LoopsInv, Typed
  <2> QED BY <1>3, <1>4, <2>1, <2>2 DEF Enter
<1>6. /\ x.scene = h.scene /\ x.flushes = <<>> /\ x.doc = h.content /\ x.noted = h.content
  BY DEF Joined, NewRoom
<1> HIDE DEF x, h
<1>7. rooms'[r] = x /\ \A q \in 1..MaxRooms : q # r => rooms'[q] = rooms[q]
  BY <1>5, RoomPut DEF LoopsInv
<1>8. /\ \A s \in Scenes : registry[s] # r
      /\ \A c \in Conns : RoomOf(c) # r
  BY <1>4 DEF Unused, RoomOf
<1>9. /\ OneQueue' /\ ~ HubHead("read")'
      /\ h.by \in Conns /\ SceneOf[h.by] = h.scene
      /\ conn[h.by].pc = "asking" /\ conn'[h.by] = [pc |-> "receiving", room |-> r]
      /\ \A c \in Conns : c # h.by => conn'[c] = conn[c]
      /\ \A c \in Conns : Busy(c) => conn'[c] = conn[c]
      /\ \A q \in 1..MaxRooms : \A i \in DOMAIN rooms[q].flushes :
                 conn'[rooms[q].flushes[i].by] = conn[rooms[q].flushes[i].by]
  BY <1>1, <1>5, <1>6, <1>7, <1>8, LoopsServed DEF h
<1>10. Attended'
  <2> SUFFICES ASSUME NEW q \in 1..MaxRooms
               PROVE  /\ rooms'[q].noted \subseteq rooms'[q].doc
                      /\ AtHead(q, "saving")' \/ AtHead(q, "saved")'
                            => rooms'[q].doc # rooms'[q].noted
                      /\ rooms'[q].doc # rooms'[q].noted =>
                            rooms'[q].dirty /\ \E c \in Conns : Busy(c)' /\ RoomOf(c)' = q
    BY DEF Attended
  <2>1. CASE q = r
    BY <1>6, <1>7, <2>1 DEF AtHead
  <2>2. CASE q # r
    BY <1>7, <1>9, <2>2 DEF LoopsInv, Attended, AtHead, Busy, RoomOf
  <2> QED BY <2>1, <2>2
<1>11. ASSUME NEW s \in Scenes, Alone(s) PROVE OnDisk(s)'
  <2>1. OnDisk(s)
    BY <1>11 DEF LoopsInv, Kept
  <2>2. ~ InUse(s, r)
    BY <1>8, <1>11 DEF InUse
  <2>3. \A q \in 1..MaxRooms : rooms'[q].scene = s =>
          \A i \in DOMAIN rooms'[q].flushes :
              /\ conn'[rooms'[q].flushes[i].by].pc = "flushing"
              /\ rooms'[q].flushes[i].payload = rooms'[q].doc
              /\ rooms'[q].flushes[i].stage = "saved" => disk'[s] = rooms'[q].doc
    <3> SUFFICES ASSUME NEW q \in 1..MaxRooms, rooms'[q].scene = s,
                        NEW i \in DOMAIN rooms'[q].flushes
                 PROVE  /\ conn'[rooms'[q].flushes[i].by].pc = "flushing"
                        /\ rooms'[q].flushes[i].payload = rooms'[q].doc
                        /\ rooms'[q].flushes[i].stage = "saved" => disk'[s] = rooms'[q].doc
      OBVIOUS
    <3>1. q # r
      BY <1>6, <1>7
    <3> QED BY <1>1, <1>7, <1>9, <2>1, <3>1 DEF OnDisk
  <2>4. CASE s = h.scene
    <3>1. \A c \in Conns : SceneOf[c] = s => c = h.by
      BY <1>9, <1>11, <2>4 DEF Alone
    <3>2. \A q \in 1..MaxRooms : ~ InUse(s, q)
      <4>1. \A c \in Conns : SceneOf[c] = s => Away(c)
        BY <1>9, <3>1 DEF Away
      <4> QED BY <1>3, <2>4, <4>1 DEF InUse, NoRoom
    <3>3. registry'[s] = r /\ made[s] \subseteq disk[s] /\ h.content = disk[s]
      <4>1. registry'[s] = r
        BY <1>3, <1>4, <2>4 DEF LoopsInv, Typed
      <4> QED BY <1>1, <2>1, <2>4, <3>2, <4>1 DEF OnDisk, h
    <3>4. \A q \in 1..MaxRooms : InUse(s, q)' <=> q = r
      <4>1. \A c \in Conns : SceneOf[c] = s => RoomOf(c)' = r
        BY <1>9, <3>1 DEF RoomOf
      <4> QED BY <3>3, <4>1 DEF InUse
    <3>5. made'[s] \subseteq rooms'[r].doc /\ rooms'[r].noted \subseteq disk'[s]
      BY <1>1, <1>5, <1>6, <1>7, <3>3
    <3> QED BY <1>9, <2>3, <3>4, <3>5 DEF OnDisk
  <2>5. CASE s # h.scene
    <3>1. registry'[s] = registry[s]
      BY <1>4, <2>5 DEF LoopsInv, Typed
    <3>2. \A c \in Conns : SceneOf[c] = s => RoomOf(c)' = RoomOf(c) /\ (Away(c)' <=> Away(c))
      <4>1. \A c \in Conns : SceneOf[c] = s => conn'[c] = conn[c]
        BY <1>9, <2>5
      <4> QED BY <4>1 DEF RoomOf, Away
    <3>3. \A q \in 1..MaxRooms : InUse(s, q)' <=> InUse(s, q)
      BY <3>1, <3>2, SameUse
    <3>4. \A q \in 1..MaxRooms : InUse(s, q) => rooms'[q] = rooms[q]
      BY <1>7, <2>2
    <3> QED BY <1>1, <1>5, <1>9, <2>1, <2>3, <3>3, <3>4 DEF OnDisk
  <2> QED BY <2>4, <2>5
<1>12. Kept'
  BY <1>11 DEF Kept, Alone
<1> QED BY <1>9, <1>10, <1>12

LEMMA LoopsLoading ==
    ASSUME LoopsInv, Typed', ServeUnknown \/ Load
    PROVE  OneQueue' /\ Attended' /\ Kept'
<1> DEFINE h == Head(hubQueue)
<1>1. hubQueue # <<>> /\ UNCHANGED << rooms, registry, disk, conn, made >>
  BY DEF ServeUnknown, Load, HubHead
<1>2. h \in AskType /\ h = hubQueue[1] /\ 1 \in DOMAIN hubQueue /\ hubQueue \in Seq(AskType)
  BY <1>1, TailOf DEF LoopsInv, Typed
<1>3. PICK x \in AskType :
         /\ hubQueue' = [hubQueue EXCEPT ![1] = x]
         /\ x.by = h.by /\ x.asks = h.asks /\ x.scene = h.scene
         /\ x.stage = "read" => x.content = disk[x.scene]
  <2>1. CASE ServeUnknown
    <3> DEFINE x == [h EXCEPT !.stage = "reading"]
    <3>1. /\ x \in AskType /\ x.by = h.by /\ x.asks = h.asks /\ x.scene = h.scene
          /\ x.stage # "read"
      BY <1>2 DEF AskType
    <3>2. hubQueue' = [hubQueue EXCEPT ![1] = x]
      BY <1>2, <2>1 DEF ServeUnknown
    <3> QED BY <3>1, <3>2
  <2>2. CASE Load
    <3> DEFINE x == [h EXCEPT !.stage = "read", !.content = disk[h.scene]]
    <3>1. disk[h.scene] \in SUBSET Edits
      BY <1>2 DEF LoopsInv, Typed, AskType
    <3>2. /\ x \in AskType /\ x.by = h.by /\ x.asks = h.asks /\ x.scene = h.scene
          /\ x.content = disk[x.scene]
      BY <1>2, <3>1 DEF AskType
    <3>3. hubQueue' = [hubQueue EXCEPT ![1] = x]
      BY <1>2, <2>2 DEF Load
    <3> QED BY <3>2, <3>3
  <2> QED BY <2>1, <2>2
<1>4. /\ DOMAIN hubQueue' = DOMAIN hubQueue /\ Head(hubQueue') = x
      /\ \A i \in DOMAIN hubQueue : hubQueue'[i].by = hubQueue[i].by
                                    /\ hubQueue'[i].asks = hubQueue[i].asks
  <2>1. /\ Head(hubQueue') = x /\ hubQueue'[1] = x /\ DOMAIN hubQueue' = DOMAIN hubQueue
        /\ \A i \in DOMAIN hubQueue : i > 1 => hubQueue'[i] = hubQueue[i]
        /\ \A i \in DOMAIN hubQueue : i = 1 \/ i > 1
    BY <1>1, <1>2, <1>3, HeadOf
  <2> QED BY <1>2, <1>3, <2>1
<1>5. OneQueue'
  BY <1>1, <1>4 DEF LoopsInv, OneQueue, RoomOf
<1>6. Attended'
  BY <1>1 DEF LoopsInv, Attended, AtHead, Busy, RoomOf
<1>7. Kept'
  <2> SUFFICES ASSUME NEW s \in Scenes, Alone(s) PROVE OnDisk(s)'
    BY DEF Kept, Alone
  <2>1. OnDisk(s)
    BY DEF LoopsInv, Kept
  <2>2. \A q \in 1..MaxRooms : InUse(s, q)' <=> InUse(s, q)
    BY <1>1 DEF InUse, RoomOf, Away
  <2> QED BY <1>1, <1>3, <1>4, <2>1, <2>2 DEF OnDisk, HubHead
<1> QED BY <1>5, <1>6, <1>7

-----------------------------------------------------------------------------
(* Flushes *)

LEMMA LoopsStaged ==
    ASSUME LoopsInv, NEW r \in 1..MaxRooms, NEW stage \in {"saving", "saved"},
           rooms[r].flushes # <<>>, rooms' = [rooms EXCEPT ![r].flushes[1].stage = stage],
           UNCHANGED << hubQueue, conn >>
    PROVE  /\ OneQueue'
           /\ \A q \in 1..MaxRooms :
                 /\ rooms'[q].scene = rooms[q].scene /\ rooms'[q].doc = rooms[q].doc
                 /\ rooms'[q].noted = rooms[q].noted /\ rooms'[q].dirty = rooms[q].dirty
                 /\ DOMAIN rooms'[q].flushes = DOMAIN rooms[q].flushes
                 /\ \A i \in DOMAIN rooms[q].flushes :
                       /\ rooms'[q].flushes[i].by = rooms[q].flushes[i].by
                       /\ rooms'[q].flushes[i].payload = rooms[q].flushes[i].payload
                       /\ q # r \/ i > 1 =>
                             rooms'[q].flushes[i].stage = rooms[q].flushes[i].stage
                 /\ q # r => rooms'[q] = rooms[q]
           /\ rooms'[r].flushes[1].stage = stage /\ AtHead(r, stage)'
<1> DEFINE f == [rooms[r].flushes[1] EXCEPT !.stage = stage]
           p == [rooms[r].flushes EXCEPT ![1] = f]
           x == [rooms[r] EXCEPT !.flushes = p]
<1>1. rooms[r] \in RoomType /\ rooms[r].flushes \in Seq(FlushType)
  BY DEF LoopsInv, Typed, RoomType
<1>2. rooms[r].flushes[1] \in FlushType
  BY <1>1, TailOf
<1>3. /\ f \in FlushType /\ f.by = rooms[r].flushes[1].by /\ f.stage = stage
      /\ f.payload = rooms[r].flushes[1].payload
  BY <1>2 DEF FlushType
<1>4. rooms' = [rooms EXCEPT ![r] = x]
  OBVIOUS
<1> HIDE DEF f
<1>5. /\ p \in Seq(FlushType) /\ p # <<>> /\ Head(p) = f /\ p[1] = f
      /\ DOMAIN p = DOMAIN rooms[r].flushes
      /\ \A i \in DOMAIN rooms[r].flushes : i > 1 => p[i] = rooms[r].flushes[i]
      /\ \A i \in DOMAIN rooms[r].flushes : i = 1 \/ i > 1
  BY <1>1, <1>3, HeadOf
<1> HIDE DEF p
<1>6. /\ x.flushes = p /\ x.scene = rooms[r].scene /\ x.doc = rooms[r].doc
      /\ x.noted = rooms[r].noted /\ x.dirty = rooms[r].dirty
  BY <1>1 DEF RoomType
<1> HIDE DEF x
<1>7. rooms'[r] = x /\ \A q \in 1..MaxRooms : q # r => rooms'[q] = rooms[q]
  BY <1>4, RoomPut DEF LoopsInv
<1>8. \A q \in 1..MaxRooms :
         /\ rooms'[q].scene = rooms[q].scene /\ rooms'[q].doc = rooms[q].doc
         /\ rooms'[q].noted = rooms[q].noted /\ rooms'[q].dirty = rooms[q].dirty
         /\ DOMAIN rooms'[q].flushes = DOMAIN rooms[q].flushes
         /\ \A i \in DOMAIN rooms[q].flushes :
               /\ rooms'[q].flushes[i].by = rooms[q].flushes[i].by
               /\ rooms'[q].flushes[i].payload = rooms[q].flushes[i].payload
               /\ q # r \/ i > 1 =>
                     rooms'[q].flushes[i].stage = rooms[q].flushes[i].stage
         /\ q # r => rooms'[q] = rooms[q]
  BY <1>3, <1>5, <1>6, <1>7
<1>9. rooms'[r].flushes[1].stage = stage /\ AtHead(r, stage)'
  BY <1>3, <1>5, <1>6, <1>7 DEF AtHead
<1>10. \A q \in 1..MaxRooms : \A i \in DOMAIN rooms'[q].flushes :
            rooms'[q].flushes[i].stage # "raised"
  <2> SUFFICES ASSUME NEW q \in 1..MaxRooms, NEW i \in DOMAIN rooms'[q].flushes
               PROVE  rooms'[q].flushes[i].stage # "raised"
    OBVIOUS
  <2>1. i \in DOMAIN rooms[q].flushes /\ rooms[q].flushes[i].stage # "raised"
    BY <1>8 DEF LoopsInv, OneQueue
  <2>2. CASE q = r /\ i = 1
    BY <1>9, <2>2
  <2>3. CASE q # r \/ i > 1
    BY <1>8, <2>1, <2>3
  <2> QED BY <1>5, <2>1, <2>2, <2>3
<1>11. OneQueue'
  <2>1. \A q \in 1..MaxRooms : \A i \in DOMAIN rooms'[q].flushes :
          /\ rooms'[q].flushes[i].by \in Conns /\ rooms'[q].flushes[i].stage # "raised"
          /\ conn'[rooms'[q].flushes[i].by].pc \in {"flushing", "closing"}
          /\ conn'[rooms'[q].flushes[i].by].room = q
          /\ \A j \in DOMAIN rooms'[q].flushes :
                rooms'[q].flushes[j].by = rooms'[q].flushes[i].by => i = j
    BY <1>8, <1>10 DEF LoopsInv, OneQueue, RoomOf
  <2>2. \A c \in Conns : RoomOf(c)' # NoRoom => rooms'[RoomOf(c)'].scene = SceneOf[c]
    <3> SUFFICES ASSUME NEW c \in Conns, RoomOf(c) # NoRoom
                 PROVE  rooms'[RoomOf(c)].scene = SceneOf[c]
      BY DEF RoomOf
    <3>1. RoomOf(c) \in 1..MaxRooms
      BY DEF LoopsInv, Typed, ConnType, RoomOf, NoRoom
    <3> QED BY <1>8, <3>1 DEF LoopsInv, OneQueue
  <2> QED BY <2>1, <2>2 DEF LoopsInv, OneQueue, RoomOf
<1> QED BY <1>8, <1>9, <1>11

(* The head of the queue returns, and what is behind it waits. *)
LEMMA LoopsReturned ==
    ASSUME LoopsInv, NEW r \in 1..MaxRooms, NEW room \in RoomType,
           room.flushes = rooms[r].flushes, room.flushes # <<>>,
           room.scene = rooms[r].scene,
           Return(r, room, FALSE), UNCHANGED hubQueue
    PROVE  /\ OneQueue'
           /\ rooms'[r].scene = room.scene /\ rooms'[r].doc = room.doc
           /\ rooms'[r].noted = room.noted /\ rooms'[r].dirty = room.dirty
           /\ \A q \in 1..MaxRooms : q # r => rooms'[q] = rooms[q]
           /\ ~ AtHead(r, "saving")' /\ ~ AtHead(r, "saved")'
           /\ \A i \in DOMAIN rooms'[r].flushes :
                 /\ i + 1 \in DOMAIN rooms[r].flushes /\ i + 1 # 1
                 /\ rooms'[r].flushes[i] = rooms[r].flushes[i + 1]
           /\ \A c \in Conns : conn'[c] = conn[c] \/ (RoomOf(c) = r /\ RoomOf(c)' = RoomOf(c))
           /\ \A c \in Conns : RoomOf(c)' = RoomOf(c) /\ (Away(c)' <=> Away(c))
           /\ \A q \in 1..MaxRooms : \A i \in DOMAIN rooms'[q].flushes :
                 conn'[rooms'[q].flushes[i].by] = conn[rooms'[q].flushes[i].by]
<1> DEFINE x == [room EXCEPT !.flushes = Tail(@)]
           t == Head(room.flushes).by
<1>1. room.flushes \in Seq(FlushType) /\ Waits(room.flushes)
  BY DEF LoopsInv, Typed, RoomType
<1>2. /\ Head(room.flushes) = room.flushes[1] /\ 1 \in DOMAIN room.flushes
      /\ \A i \in DOMAIN Tail(room.flushes) :
             /\ i + 1 \in DOMAIN room.flushes /\ i + 1 > 1
             /\ Tail(room.flushes)[i] = room.flushes[i + 1]
             /\ Tail(room.flushes)[i].stage = "waiting"
  BY <1>1, TailOf, WaitsTail
<1>3. t \in Conns /\ conn[t].pc \in {"flushing", "closing"} /\ RoomOf(t) = r
  BY <1>2 DEF LoopsInv, OneQueue
<1>4. /\ x.flushes = Tail(room.flushes) /\ x.scene = room.scene /\ x.doc = room.doc
      /\ x.noted = room.noted /\ x.dirty = room.dirty
  BY DEF RoomType
<1>5. rooms' = [rooms EXCEPT ![r] = x]
  BY DEF Return
<1>6. \E v \in {"leaving", "receiving"} : conn' = [conn EXCEPT ![t].pc = v]
  BY <1>3 DEF Return
<1> HIDE DEF x, t
<1>7. rooms'[r] = x /\ \A q \in 1..MaxRooms : q # r => rooms'[q] = rooms[q]
  BY <1>5, RoomPut DEF LoopsInv
<1>8. /\ \A c \in Conns : c # t => conn'[c] = conn[c]
      /\ \A c \in Conns : RoomOf(c)' = RoomOf(c)
  BY <1>3, <1>6, ConnPut DEF LoopsInv
<1>9. ~ AtHead(r, "saving")' /\ ~ AtHead(r, "saved")'
  <2> SUFFICES ASSUME rooms'[r].flushes # <<>>
               PROVE  Head(rooms'[r].flushes).stage = "waiting"
    BY DEF AtHead
  <2>1. Tail(room.flushes) \in Seq(FlushType)
    BY <1>1, TailOf
  <2>2. Head(Tail(room.flushes)) = Tail(room.flushes)[1] /\ 1 \in DOMAIN Tail(room.flushes)
    BY <1>4, <1>7, <2>1, TailOf
  <2> QED BY <1>2, <1>4, <1>7, <2>2
<1>10. \A i \in DOMAIN rooms'[r].flushes :
            /\ i + 1 \in DOMAIN rooms[r].flushes /\ i + 1 # 1
            /\ rooms'[r].flushes[i] = rooms[r].flushes[i + 1]
            /\ rooms'[r].flushes[i].by # t
  <2> SUFFICES ASSUME NEW i \in DOMAIN rooms'[r].flushes
               PROVE  /\ i + 1 \in DOMAIN rooms[r].flushes /\ i + 1 # 1
                      /\ rooms'[r].flushes[i] = rooms[r].flushes[i + 1]
                      /\ rooms'[r].flushes[i].by # t
    OBVIOUS
  <2>1. /\ i + 1 \in DOMAIN rooms[r].flushes /\ i + 1 # 1
        /\ rooms'[r].flushes[i] = rooms[r].flushes[i + 1]
    <3>1. i \in DOMAIN Tail(room.flushes) /\ rooms'[r].flushes = Tail(room.flushes)
      BY <1>4, <1>7
    <3>2. i + 1 \in DOMAIN room.flushes /\ i + 1 > 1 /\ Tail(room.flushes)[i] = room.flushes[i + 1]
      BY <1>2, <3>1
    <3> QED BY <3>1, <3>2
  <2>2. rooms[r].flushes[i + 1].by # t
    BY <1>2, <2>1 DEF LoopsInv, OneQueue, t
  <2> QED BY <2>1, <2>2
<1>11. \A q \in 1..MaxRooms : \A i \in DOMAIN rooms'[q].flushes :
           /\ rooms'[q].flushes[i].by \in Conns
           /\ conn'[rooms'[q].flushes[i].by] = conn[rooms'[q].flushes[i].by]
  <2> SUFFICES ASSUME NEW q \in 1..MaxRooms, NEW i \in DOMAIN rooms'[q].flushes
               PROVE  /\ rooms'[q].flushes[i].by \in Conns
                      /\ conn'[rooms'[q].flushes[i].by] = conn[rooms'[q].flushes[i].by]
    OBVIOUS
  <2>1. rooms'[q].flushes[i].by \in Conns /\ rooms'[q].flushes[i].by # t
    <3>1. CASE q = r
      BY <1>10, <3>1 DEF LoopsInv, OneQueue
    <3>2. CASE q # r
      BY <1>3, <1>7, <3>2 DEF LoopsInv, OneQueue
    <3> QED BY <3>1, <3>2
  <2> QED BY <1>8, <2>1
<1>12. OneQueue'
  <2>1. \A q \in 1..MaxRooms : \A i \in DOMAIN rooms'[q].flushes :
          /\ rooms'[q].flushes[i].by \in Conns /\ rooms'[q].flushes[i].stage # "raised"
          /\ conn'[rooms'[q].flushes[i].by].pc \in {"flushing", "closing"}
          /\ conn'[rooms'[q].flushes[i].by].room = q
          /\ \A j \in DOMAIN rooms'[q].flushes :
                rooms'[q].flushes[j].by = rooms'[q].flushes[i].by => i = j
    <3> SUFFICES ASSUME NEW q \in 1..MaxRooms, NEW i \in DOMAIN rooms'[q].flushes
                 PROVE  /\ rooms'[q].flushes[i].by \in Conns
                        /\ rooms'[q].flushes[i].stage # "raised"
                        /\ conn'[rooms'[q].flushes[i].by].pc \in {"flushing", "closing"}
                        /\ conn'[rooms'[q].flushes[i].by].room = q
                        /\ \A j \in DOMAIN rooms'[q].flushes :
                              rooms'[q].flushes[j].by = rooms'[q].flushes[i].by => i = j
      OBVIOUS
    <3>1. CASE q # r
      BY <1>7, <1>11, <3>1 DEF LoopsInv, OneQueue, RoomOf
    <3>2. CASE q = r
      <4>1. ASSUME NEW j \in DOMAIN rooms'[q].flushes,
                   rooms'[q].flushes[j].by = rooms'[q].flushes[i].by
            PROVE  i = j
        <5>1. i + 1 = j + 1
          BY <1>10, <3>2, <4>1 DEF LoopsInv, OneQueue
        <5>2. rooms'[q].flushes \in Seq(FlushType)
          BY <1>1, <1>4, <1>7, <3>2, TailOf
        <5>3. i \in Nat /\ j \in Nat
          BY <5>2
        <5> QED BY <5>1, <5>3
      <4>2. rooms'[q].flushes[i] = rooms[r].flushes[i + 1] /\ i + 1 \in DOMAIN rooms[r].flushes
        BY <1>10, <3>2
      <4> QED BY <1>11, <3>2, <4>1, <4>2 DEF LoopsInv, OneQueue, RoomOf
    <3> QED BY <3>1, <3>2
  <2>2. \A c \in Conns : RoomOf(c)' # NoRoom => rooms'[RoomOf(c)'].scene = SceneOf[c]
    <3> SUFFICES ASSUME NEW c \in Conns, RoomOf(c) # NoRoom
                 PROVE  rooms'[RoomOf(c)].scene = SceneOf[c]
      BY <1>8
    <3>1. RoomOf(c) \in 1..MaxRooms
      BY DEF LoopsInv, Typed, ConnType, RoomOf, NoRoom
    <3> QED BY <1>4, <1>7, <3>1 DEF LoopsInv, OneQueue
  <2>3. \A i \in DOMAIN hubQueue :
          /\ hubQueue[i].asks = "ws" /\ hubQueue[i].by \in Conns
          /\ conn'[hubQueue[i].by].pc = "asking"
          /\ \A j \in DOMAIN hubQueue : hubQueue[j].by = hubQueue[i].by => i = j
    BY <1>3, <1>8 DEF LoopsInv, OneQueue
  <2> QED BY <2>1, <2>2, <2>3 DEF OneQueue, RoomOf
<1>13. \A c \in Conns : Away(c)' <=> Away(c)
  <2>1. ~ Away(t) /\ ~ Away(t)'
    BY <1>3, <1>6, ConnPut DEF LoopsInv, Away
  <2> QED BY <1>8, <2>1 DEF Away
<1> QED BY <1>3, <1>4, <1>7, <1>8, <1>9, <1>10, <1>11, <1>12, <1>13

(* A flush that returns leaves its room clean. *)
LEMMA LoopsClean ==
    ASSUME LoopsInv, NEW r \in 1..MaxRooms, NEW room \in RoomType,
           room.flushes = rooms[r].flushes, room.flushes # <<>>,
           room.scene = rooms[r].scene, room.doc = rooms[r].doc, room.noted = room.doc,
           Return(r, room, FALSE), UNCHANGED << registry, hubQueue, disk, made >>,
           Alone(rooms[r].scene) => room.noted \subseteq disk[rooms[r].scene]
    PROVE  OneQueue' /\ Attended' /\ Kept'
<1>1. /\ OneQueue'
      /\ rooms'[r].scene = rooms[r].scene /\ rooms'[r].doc = rooms[r].doc
      /\ rooms'[r].noted = rooms[r].doc
      /\ \A q \in 1..MaxRooms : q # r => rooms'[q] = rooms[q]
      /\ ~ AtHead(r, "saving")' /\ ~ AtHead(r, "saved")'
      /\ \A i \in DOMAIN rooms'[r].flushes :
            /\ i + 1 \in DOMAIN rooms[r].flushes /\ i + 1 # 1
      /\ \A c \in Conns : conn'[c] = conn[c] \/ (RoomOf(c) = r /\ RoomOf(c)' = RoomOf(c))
      /\ \A c \in Conns : RoomOf(c)' = RoomOf(c) /\ (Away(c)' <=> Away(c))
      /\ \A q \in 1..MaxRooms : \A i \in DOMAIN rooms'[q].flushes :
            conn'[rooms'[q].flushes[i].by] = conn[rooms'[q].flushes[i].by]
  BY LoopsReturned
<1>2. Attended'
  <2> SUFFICES ASSUME NEW q \in 1..MaxRooms
               PROVE  /\ rooms'[q].noted \subseteq rooms'[q].doc
                      /\ AtHead(q, "saving")' \/ AtHead(q, "saved")'
                            => rooms'[q].doc # rooms'[q].noted
                      /\ rooms'[q].doc # rooms'[q].noted =>
                            rooms'[q].dirty /\ \E c \in Conns : Busy(c)' /\ RoomOf(c)' = q
    BY DEF Attended
  <2>1. CASE q = r
    BY <1>1, <2>1
  <2>2. CASE q # r
    <3>1. rooms'[q] = rooms[q]
      BY <1>1, <2>2
    <3>2. \A c \in Conns : Busy(c) /\ RoomOf(c) = q => Busy(c)' /\ RoomOf(c)' = q
      BY <1>1, <2>2 DEF Busy, RoomOf
    <3> QED BY <3>1, <3>2 DEF LoopsInv, Attended, AtHead
  <2> QED BY <2>1, <2>2
<1>3. ASSUME NEW s \in Scenes, Alone(s) PROVE OnDisk(s)'
  <2>1. OnDisk(s)
    BY <1>3 DEF LoopsInv, Kept
  <2>2. ASSUME NEW q \in 1..MaxRooms, InUse(s, q)
        PROVE  /\ made[s] \subseteq rooms'[q].doc
               /\ rooms'[q].noted \subseteq disk[s]
    <3>1. rooms[q].scene = s /\ made[s] \subseteq rooms[q].doc /\ rooms[q].noted \subseteq disk[s]
      BY <2>1, <2>2, UsedScene DEF OnDisk
    <3>2. CASE q = r
      BY <1>1, <1>3, <3>1, <3>2
    <3>3. CASE q # r
      BY <1>1, <3>1, <3>3
    <3> QED BY <3>2, <3>3
  <2>4. \A q \in 1..MaxRooms : InUse(s, q)' <=> InUse(s, q)
    BY <1>1, SameUse
  <2>3. ASSUME NEW q \in 1..MaxRooms, rooms'[q].scene = s,
               NEW i \in DOMAIN rooms'[q].flushes
        PROVE  /\ conn'[rooms'[q].flushes[i].by].pc = "flushing"
               /\ rooms'[q].flushes[i].payload = rooms'[q].doc
               /\ rooms'[q].flushes[i].stage = "saved" => disk[s] = rooms'[q].doc
    <3>1. q # r
      <4> SUFFICES ASSUME q = r PROVE FALSE
        OBVIOUS
      <4>1. rooms[r].scene = s /\ i + 1 \in DOMAIN rooms[r].flushes /\ i + 1 # 1
        BY <1>1, <2>3
      <4>2. 1 \in DOMAIN rooms[r].flushes
        <5>1. rooms[r].flushes \in Seq(FlushType)
          BY DEF LoopsInv, Typed, RoomType
        <5> QED BY <5>1, TailOf
      <4> QED BY <1>3, <4>1, <4>2, AloneFlush
    <3>2. /\ rooms'[q] = rooms[q]
          /\ conn'[rooms'[q].flushes[i].by] = conn[rooms'[q].flushes[i].by]
      BY <1>1, <2>3, <3>1
    <3> QED BY <2>1, <2>3, <3>2 DEF OnDisk
  <2> QED BY <2>1, <2>2, <2>3, <2>4 DEF OnDisk, HubHead
<1> QED BY <1>1, <1>2, <1>3 DEF Kept, Alone

LEMMA LoopsAcquire ==
    ASSUME LoopsInv, NEW r \in 1..MaxRooms, Acquire(r)
    PROVE  OneQueue' /\ Attended' /\ Kept'
<1>1. /\ AtHead(r, "waiting") /\ rooms[r].flushes # <<>>
      /\ UNCHANGED << registry, hubQueue, disk, made >>
  BY DEF Acquire, AtHead
<1>2. rooms[r] \in RoomType /\ rooms[r].flushes \in Seq(FlushType)
  BY DEF LoopsInv, Typed, RoomType
<1>3. 1 \in DOMAIN rooms[r].flushes /\ Head(rooms[r].flushes) = rooms[r].flushes[1]
  BY <1>1, <1>2, TailOf
<1>4. CASE rooms[r].doc = rooms[r].noted
  <2> DEFINE x == [rooms[r] EXCEPT !.dirty = FALSE]
  <2>1. /\ x \in RoomType /\ x.flushes = rooms[r].flushes /\ x.scene = rooms[r].scene
        /\ x.doc = rooms[r].doc /\ x.noted = rooms[r].noted
    BY <1>2 DEF RoomType
  <2>2. Return(r, x, FALSE)
    BY <1>4 DEF Acquire
  <2> HIDE DEF x
  <2>3. ASSUME Alone(rooms[r].scene)
        PROVE  rooms[r].noted \subseteq disk[rooms[r].scene]
    <3>1. InUse(rooms[r].scene, r) /\ rooms[r].scene \in Scenes
      BY <1>3, <2>3, AloneFlush
    <3> QED BY <2>3, <3>1 DEF LoopsInv, Kept, OnDisk
  <2> QED BY <1>1, <1>4, <2>1, <2>2, <2>3, LoopsClean
<1>5. CASE rooms[r].doc # rooms[r].noted
  <2>1. rooms' = [rooms EXCEPT ![r].flushes[1].stage = "saving"] /\ UNCHANGED conn
    BY <1>5 DEF Acquire
  <2>2. /\ OneQueue'
        /\ \A q \in 1..MaxRooms :
                 /\ rooms'[q].scene = rooms[q].scene /\ rooms'[q].doc = rooms[q].doc
                 /\ rooms'[q].noted = rooms[q].noted /\ rooms'[q].dirty = rooms[q].dirty
                 /\ DOMAIN rooms'[q].flushes = DOMAIN rooms[q].flushes
                 /\ \A i \in DOMAIN rooms[q].flushes :
                       /\ rooms'[q].flushes[i].by = rooms[q].flushes[i].by
                       /\ rooms'[q].flushes[i].payload = rooms[q].flushes[i].payload
                       /\ q # r \/ i > 1 =>
                             rooms'[q].flushes[i].stage = rooms[q].flushes[i].stage
                 /\ q # r => rooms'[q] = rooms[q]
        /\ rooms'[r].flushes[1].stage = "saving"
    BY <1>1, <2>1, LoopsStaged
  <2>3. Attended'
    <3> SUFFICES ASSUME NEW q \in 1..MaxRooms
                 PROVE  /\ rooms'[q].noted \subseteq rooms'[q].doc
                        /\ AtHead(q, "saving")' \/ AtHead(q, "saved")'
                              => rooms'[q].doc # rooms'[q].noted
                        /\ rooms'[q].doc # rooms'[q].noted =>
                              rooms'[q].dirty /\ \E c \in Conns : Busy(c)' /\ RoomOf(c)' = q
      BY DEF Attended
    <3>1. q # r => rooms'[q] = rooms[q]
      BY <2>2
    <3> QED BY <1>5, <2>1, <2>2, <3>1 DEF LoopsInv, Attended, AtHead, Busy, RoomOf
  <2>4. ASSUME NEW s \in Scenes, Alone(s) PROVE OnDisk(s)'
    <3>1. OnDisk(s) /\ \A q \in 1..MaxRooms : InUse(s, q)' <=> InUse(s, q)
      BY <1>1, <2>1, <2>4 DEF LoopsInv, Kept, InUse, RoomOf, Away
    <3>2. \A q \in 1..MaxRooms : \A i \in DOMAIN rooms[q].flushes :
              rooms'[q].flushes[i].stage = "saved" => rooms[q].flushes[i].stage = "saved"
      <4> SUFFICES ASSUME NEW q \in 1..MaxRooms, NEW i \in DOMAIN rooms[q].flushes,
                          rooms'[q].flushes[i].stage = "saved"
                   PROVE  rooms[q].flushes[i].stage = "saved"
        OBVIOUS
      <4>1. i = 1 \/ i > 1
        <5>1. rooms[q].flushes \in Seq(FlushType)
          BY DEF LoopsInv, Typed, RoomType
        <5> QED BY <5>1
      <4> QED BY <2>2, <4>1
    <3> QED BY <1>1, <2>1, <2>2, <3>1, <3>2 DEF OnDisk, HubHead
  <2> QED BY <2>2, <2>3, <2>4 DEF Kept, Alone
<1> QED BY <1>4, <1>5

LEMMA LoopsSave ==
    ASSUME LoopsInv, NEW r \in 1..MaxRooms, Save(r)
    PROVE  OneQueue' /\ Attended' /\ Kept'
<1>1. /\ AtHead(r, "saving") /\ rooms[r].flushes # <<>>
      /\ disk' = [disk EXCEPT ![rooms[r].scene] = Head(rooms[r].flushes).payload]
      /\ rooms' = [rooms EXCEPT ![r].flushes[1].stage = "saved"]
      /\ UNCHANGED << registry, hubQueue, conn, made >>
  BY DEF Save, AtHead
<1>2. rooms[r] \in RoomType /\ rooms[r].flushes \in Seq(FlushType) /\ rooms[r].scene \in Scenes
  BY DEF LoopsInv, Typed, RoomType
<1>3. 1 \in DOMAIN rooms[r].flushes /\ Head(rooms[r].flushes) = rooms[r].flushes[1]
  BY <1>1, <1>2, TailOf
<1>4. /\ OneQueue'
      /\ \A q \in 1..MaxRooms :
               /\ rooms'[q].scene = rooms[q].scene /\ rooms'[q].doc = rooms[q].doc
               /\ rooms'[q].noted = rooms[q].noted /\ rooms'[q].dirty = rooms[q].dirty
               /\ DOMAIN rooms'[q].flushes = DOMAIN rooms[q].flushes
               /\ \A i \in DOMAIN rooms[q].flushes :
                     /\ rooms'[q].flushes[i].by = rooms[q].flushes[i].by
                     /\ rooms'[q].flushes[i].payload = rooms[q].flushes[i].payload
               /\ q # r => rooms'[q] = rooms[q]
  <2>1. rooms' = [rooms EXCEPT ![r].flushes[1].stage = "saved"]
    BY <1>1
  <2>2. UNCHANGED << hubQueue, conn >>
    BY <1>1
  <2> QED BY <1>1, <2>1, <2>2, LoopsStaged
<1>5. Attended'
  <2> SUFFICES ASSUME NEW q \in 1..MaxRooms
               PROVE  /\ rooms'[q].noted \subseteq rooms'[q].doc
                      /\ AtHead(q, "saving")' \/ AtHead(q, "saved")'
                            => rooms'[q].doc # rooms'[q].noted
                      /\ rooms'[q].doc # rooms'[q].noted =>
                            rooms'[q].dirty /\ \E c \in Conns : Busy(c)' /\ RoomOf(c)' = q
    BY DEF Attended
  <2>1. q # r => rooms'[q] = rooms[q]
    BY <1>4
  <2> QED BY <1>1, <1>4, <2>1 DEF LoopsInv, Attended, AtHead, Busy, RoomOf
<1>6. ASSUME NEW s \in Scenes, Alone(s), s # rooms[r].scene PROVE OnDisk(s)'
  <2>1. OnDisk(s) /\ \A q \in 1..MaxRooms : InUse(s, q)' <=> InUse(s, q)
    BY <1>1, <1>6 DEF LoopsInv, Kept, InUse, RoomOf, Away
  <2>2. disk'[s] = disk[s]
    BY <1>1, <1>6 DEF LoopsInv, Typed
  <2>3. \A q \in 1..MaxRooms : rooms[q].scene = s => rooms'[q] = rooms[q]
    BY <1>4, <1>6
  <2>4. \A q \in 1..MaxRooms : rooms'[q].scene = s =>
            \A i \in DOMAIN rooms'[q].flushes :
                /\ conn'[rooms'[q].flushes[i].by].pc = "flushing"
                /\ rooms'[q].flushes[i].payload = rooms'[q].doc
                /\ rooms'[q].flushes[i].stage = "saved" => disk'[s] = rooms'[q].doc
    <3> SUFFICES ASSUME NEW q \in 1..MaxRooms, rooms'[q].scene = s
                 PROVE  \A i \in DOMAIN rooms'[q].flushes :
                            /\ conn'[rooms'[q].flushes[i].by].pc = "flushing"
                            /\ rooms'[q].flushes[i].payload = rooms'[q].doc
                            /\ rooms'[q].flushes[i].stage = "saved" => disk'[s] = rooms'[q].doc
      OBVIOUS
    <3>1. rooms[q].scene = s /\ rooms'[q] = rooms[q]
      BY <1>4, <2>3
    <3>2. conn' = conn
      BY <1>1
    <3> QED BY <2>1, <2>2, <3>1, <3>2 DEF OnDisk
  <2>5. /\ (\A q \in 1..MaxRooms : ~ InUse(s, q)') => made'[s] \subseteq disk'[s]
        /\ \A q \in 1..MaxRooms : InUse(s, q)' => /\ made'[s] \subseteq rooms'[q].doc
                                                  /\ rooms'[q].noted \subseteq disk'[s]
        /\ \A p \in 1..MaxRooms : \A q \in 1..MaxRooms :
              InUse(s, p)' /\ InUse(s, q)' => p = q
    BY <1>1, <1>4, <2>1, <2>2 DEF OnDisk
  <2> QED BY <1>1, <2>1, <2>2, <2>4, <2>5 DEF OnDisk, HubHead
<1>7. ASSUME NEW s \in Scenes, Alone(s), s = rooms[r].scene PROVE OnDisk(s)'
  <2>1. /\ InUse(s, r) /\ \A j \in DOMAIN rooms[r].flushes : j = 1
        /\ ~ (HubHead("read") /\ Head(hubQueue).scene = s)
    BY <1>3, <1>7, AloneFlush
  <2>2. OnDisk(s) /\ \A q \in 1..MaxRooms : InUse(s, q)' <=> InUse(s, q)
    BY <1>1, <1>2, <1>7 DEF LoopsInv, Kept, InUse, RoomOf, Away
  <2>3. rooms[r].flushes[1].payload = rooms[r].doc
    BY <1>3, <1>7, <2>2 DEF OnDisk
  <2>4. disk'[s] = rooms[r].doc
    BY <1>1, <1>2, <1>3, <1>7, <2>3 DEF LoopsInv, Typed
  <2>5. rooms[r].noted \subseteq rooms[r].doc
    BY DEF LoopsInv, Attended
  <2>7. ASSUME NEW q \in 1..MaxRooms, rooms'[q].scene = s,
               NEW i \in DOMAIN rooms'[q].flushes
        PROVE  /\ conn'[rooms'[q].flushes[i].by].pc = "flushing"
               /\ rooms'[q].flushes[i].payload = rooms'[q].doc
               /\ rooms'[q].flushes[i].stage = "saved" => disk'[s] = rooms'[q].doc
    <3>1. rooms[q].scene = s /\ i \in DOMAIN rooms[q].flushes
      BY <1>4, <2>7
    <3>2. q = r
      <4>1. InUse(rooms[q].scene, q)
        BY <1>7, <3>1, AloneFlush DEF Alone
      <4> QED BY <2>1, <2>2, <3>1, <4>1 DEF OnDisk
    <3> QED BY <1>1, <1>4, <2>2, <2>4, <3>1, <3>2 DEF OnDisk
  <2>8. /\ \A q \in 1..MaxRooms : InUse(s, q)' <=> q = r
        /\ made' = made /\ rooms'[r].doc = rooms[r].doc
        /\ rooms'[r].noted = rooms[r].noted /\ made[s] \subseteq rooms[r].doc
    BY <1>1, <1>4, <2>1, <2>2 DEF OnDisk
  <2>9. ~ (HubHead("read")' /\ Head(hubQueue').scene = s)
    BY <1>1, <2>1 DEF HubHead
  <2>10. \A q \in 1..MaxRooms : rooms'[q].scene = s =>
            \A i \in DOMAIN rooms'[q].flushes :
                /\ conn'[rooms'[q].flushes[i].by].pc = "flushing"
                /\ rooms'[q].flushes[i].payload = rooms'[q].doc
                /\ rooms'[q].flushes[i].stage = "saved" => disk'[s] = rooms'[q].doc
    BY <2>7
  <2>11. made'[s] \subseteq rooms'[r].doc /\ rooms'[r].noted \subseteq disk'[s]
    BY <2>4, <2>5, <2>8
  <2> QED BY <2>8, <2>9, <2>10, <2>11 DEF OnDisk, HubHead
<1> QED BY <1>4, <1>5, <1>6, <1>7 DEF Kept, Alone

LEMMA LoopsAfterSave ==
    ASSUME LoopsInv, NEW r \in 1..MaxRooms, AfterSave(r)
    PROVE  OneQueue' /\ Attended' /\ Kept'
<1> DEFINE x == [rooms[r] EXCEPT !.noted = rooms[r].doc, !.dirty = FALSE]
<1>1. /\ AtHead(r, "saved") /\ rooms[r].flushes # <<>> /\ Return(r, x, FALSE)
      /\ UNCHANGED << registry, hubQueue, disk, made >>
  BY DEF AfterSave, AtHead
<1>2. rooms[r] \in RoomType /\ rooms[r].flushes \in Seq(FlushType)
  BY DEF LoopsInv, Typed, RoomType
<1>3. /\ 1 \in DOMAIN rooms[r].flushes /\ rooms[r].flushes[1].stage = "saved"
  BY <1>1, <1>2, TailOf DEF AtHead
<1>4. /\ x \in RoomType /\ x.flushes = rooms[r].flushes /\ x.scene = rooms[r].scene
      /\ x.doc = rooms[r].doc /\ x.noted = rooms[r].doc
  BY <1>2 DEF RoomType
<1> HIDE DEF x
<1>5. ASSUME Alone(rooms[r].scene)
      PROVE  rooms[r].doc \subseteq disk[rooms[r].scene]
  <2>1. rooms[r].scene \in Scenes
    BY <1>3, <1>5, AloneFlush
  <2> QED BY <1>3, <1>5, <2>1 DEF LoopsInv, Kept, OnDisk
<1> QED BY <1>1, <1>4, <1>5, LoopsClean

-----------------------------------------------------------------------------
(* Connections *)

(* A connection that is in no queue reaches the hub's lock. *)
LEMMA LoopsConnect ==
    ASSUME LoopsInv, NEW c \in Conns, Connect(c)
    PROVE  OneQueue' /\ Attended' /\ Kept'
<1> DEFINE h == [by |-> c, scene |-> SceneOf[c], asks |-> "ws",
                 stage |-> "waiting", content |-> {}]
<1>1. /\ conn[c].pc = "away" /\ conn' = [conn EXCEPT ![c].pc = "asking"]
      /\ hubQueue' = Append(hubQueue, h)
      /\ UNCHANGED << rooms, registry, disk, made >>
  BY DEF Connect, Queued
<1>2. h \in AskType
  BY HubAssumption DEF AskType, Tasks
<1>3. h.by = c /\ h.asks = "ws" /\ h.stage = "waiting"
  OBVIOUS
<1> HIDE DEF h
<1>4. hubQueue \in Seq(AskType)
  BY DEF LoopsInv, Typed
<1>5. /\ Head(hubQueue') = IF hubQueue = <<>> THEN h ELSE Head(hubQueue)
      /\ \A i \in DOMAIN hubQueue' : \/ i \in DOMAIN hubQueue /\ hubQueue'[i] = hubQueue[i]
                                     \/ i = Len(hubQueue) + 1 /\ hubQueue'[i] = h
  BY <1>1, <1>2, <1>4, AppendOf
<1>6. /\ conn'[c].pc = "asking" /\ \A d \in Conns : RoomOf(d)' = RoomOf(d)
      /\ \A d \in Conns : d # c => conn'[d] = conn[d]
  BY <1>1, ConnPut DEF LoopsInv
<1>7. \A i \in DOMAIN hubQueue : hubQueue[i].by # c
  BY <1>1 DEF LoopsInv, OneQueue
<1>8. \A q \in 1..MaxRooms : \A i \in DOMAIN rooms[q].flushes :
          conn'[rooms[q].flushes[i].by] = conn[rooms[q].flushes[i].by]
  BY <1>1, <1>6 DEF LoopsInv, OneQueue
<1>9. OneQueue'
  <2>1. \A i \in DOMAIN hubQueue' :
            /\ hubQueue'[i].asks = "ws" /\ hubQueue'[i].by \in Conns
            /\ conn'[hubQueue'[i].by].pc = "asking"
            /\ \A j \in DOMAIN hubQueue' : hubQueue'[j].by = hubQueue'[i].by => i = j
    <3> SUFFICES ASSUME NEW i \in DOMAIN hubQueue'
                 PROVE  /\ hubQueue'[i].asks = "ws" /\ hubQueue'[i].by \in Conns
                        /\ conn'[hubQueue'[i].by].pc = "asking"
                        /\ \A j \in DOMAIN hubQueue' :
                              hubQueue'[j].by = hubQueue'[i].by => i = j
      OBVIOUS
    <3>1. CASE i \in DOMAIN hubQueue /\ hubQueue'[i] = hubQueue[i]
      BY <1>3, <1>5, <1>6, <1>7, <3>1 DEF LoopsInv, OneQueue
    <3>2. CASE i = Len(hubQueue) + 1 /\ hubQueue'[i] = h
      BY <1>3, <1>5, <1>6, <1>7, <3>2
    <3> QED BY <1>5, <3>1, <3>2
  <2>2. \A q \in 1..MaxRooms : \A i \in DOMAIN rooms'[q].flushes :
          /\ rooms'[q].flushes[i].by \in Conns /\ rooms'[q].flushes[i].stage # "raised"
          /\ conn'[rooms'[q].flushes[i].by].pc \in {"flushing", "closing"}
          /\ conn'[rooms'[q].flushes[i].by].room = q
          /\ \A j \in DOMAIN rooms'[q].flushes :
                rooms'[q].flushes[j].by = rooms'[q].flushes[i].by => i = j
    BY <1>1, <1>8 DEF LoopsInv, OneQueue, RoomOf
  <2>3. \A d \in Conns : RoomOf(d)' # NoRoom => rooms'[RoomOf(d)'].scene = SceneOf[d]
    BY <1>1, <1>6 DEF LoopsInv, OneQueue
  <2> QED BY <2>1, <2>2, <2>3 DEF OneQueue, RoomOf
<1>10. Attended'
  <2>1. \A d \in Conns : Busy(d) => Busy(d)' /\ RoomOf(d)' = RoomOf(d)
    BY <1>1, <1>6 DEF Busy
  <2> QED BY <1>1, <2>1 DEF LoopsInv, Attended, AtHead
<1>11. ASSUME NEW s \in Scenes, Alone(s) PROVE OnDisk(s)'
  <2>1. OnDisk(s)
    BY <1>11 DEF LoopsInv, Kept
  <2>2. HubHead("read")' => HubHead("read") /\ Head(hubQueue') = Head(hubQueue)
    BY <1>3, <1>5 DEF HubHead
  <2>3. \A q \in 1..MaxRooms : InUse(s, q)' <=> InUse(s, q)
    <3>1. \A d \in Conns : RoomOf(d)' = RoomOf(d) /\ (Away(d)' <=> Away(d))
      BY <1>1, <1>6 DEF Away
    <3> QED BY <1>1, <3>1, SameUse
  <2> QED BY <1>1, <1>8, <2>1, <2>2, <2>3 DEF OnDisk
<1> QED BY <1>9, <1>10, <1>11 DEF Kept, Alone

(* A connection in its loop that awaits nothing has a room of its scene,    *)
(* and if it is the scene's only one, no flush of the scene is under way.       *)
LEMMA AloneIdle ==
    ASSUME LoopsInv, NEW c \in Conns,
           conn[c].pc \in {"receiving", "broadcasting", "failed"}
    PROVE  /\ RoomOf(c) \in 1..MaxRooms /\ rooms[RoomOf(c)].scene = SceneOf[c]
           /\ InUse(SceneOf[c], RoomOf(c)) /\ SceneOf[c] \in Scenes
           /\ Alone(SceneOf[c]) =>
                 \A q \in 1..MaxRooms : rooms[q].scene = SceneOf[c] =>
                     \A i \in DOMAIN rooms[q].flushes : FALSE
<1>1. Serving(c)
  BY DEF Serving, InLoop
<1>2. RoomOf(c) \in 1..MaxRooms /\ rooms[RoomOf(c)].scene = SceneOf[c]
  BY <1>1 DEF LoopsInv, Found
<1>3. InUse(SceneOf[c], RoomOf(c))
  BY DEF InUse, Away
<1>4. SceneOf[c] \in Scenes
  BY HubAssumption
<1>5. ASSUME Alone(SceneOf[c]), NEW q \in 1..MaxRooms, rooms[q].scene = SceneOf[c],
             NEW i \in DOMAIN rooms[q].flushes
      PROVE  FALSE
  <2> DEFINE d == rooms[q].flushes[i].by
  <2>1. d \in Conns /\ RoomOf(d) = q /\ conn[d].pc \in {"flushing", "closing"}
    BY DEF LoopsInv, OneQueue
  <2>2. SceneOf[d] = SceneOf[c]
    BY <1>5, <2>1 DEF LoopsInv, OneQueue, NoRoom
  <2>3. d = c
    BY <1>5, <2>1, <2>2 DEF Alone
  <2> QED BY <2>1, <2>3
<1> QED BY <1>2, <1>3, <1>4, <1>5

(* A connection that is not in a queue joins it. *)
LEMMA JoinsQueue ==
    ASSUME NEW q \in Seq(FlushType), NEW f \in FlushType,
           \A i \in DOMAIN q : q[i].by # f.by,
           \A i, j \in DOMAIN q : q[i].by = q[j].by => i = j
    PROVE  /\ \A i \in DOMAIN Append(q, f) :
                 (i \in DOMAIN q /\ Append(q, f)[i] = q[i]) \/ Append(q, f)[i] = f
           /\ \A i, j \in DOMAIN Append(q, f) :
                 Append(q, f)[i].by = Append(q, f)[j].by => i = j
<1>1. \A i \in DOMAIN Append(q, f) : \/ i \in DOMAIN q /\ Append(q, f)[i] = q[i]
                                     \/ i = Len(q) + 1 /\ Append(q, f)[i] = f
  BY AppendOf
<1> QED BY <1>1

(* A connection in its loop moves on, and may queue for its room's flush:   *)
(* the others are left alone.                                               *)
LEMMA LoopsMoved ==
    ASSUME LoopsInv, NEW c \in Conns, NEW r \in 1..MaxRooms, RoomOf(c) = r,
           conn[c].pc \in {"receiving", "broadcasting", "failed"},
           NEW v, conn'[c].pc = v, v \notin {"away", "asking"},
           \A d \in Conns : d # c => conn'[d] = conn[d],
           \A d \in Conns : RoomOf(d)' = RoomOf(d),
           NEW x, rooms'[r] = x, x.scene = SceneOf[c],
           \A q \in 1..MaxRooms : q # r => rooms'[q] = rooms[q],
           \/ x.flushes = rooms[r].flushes
           \/ /\ v \in {"flushing", "closing"}
              /\ \E f \in FlushType : /\ f.by = c /\ f.stage # "raised"
                                      /\ x.flushes = Append(rooms[r].flushes, f),
           registry' = registry, hubQueue' = hubQueue, disk' = disk,
           \A s \in Scenes : s # SceneOf[c] => made'[s] = made[s]
    PROVE  /\ OneQueue'
           /\ \A s \in Scenes : s # SceneOf[c] /\ Alone(s) => OnDisk(s)'
<1>1. rooms[r].scene = SceneOf[c]
  BY AloneIdle
<1>2. rooms'[r] = x /\ \A q \in 1..MaxRooms : q # r => rooms'[q] = rooms[q]
  OBVIOUS
<1>3. /\ conn'[c].pc = v
      /\ \A d \in Conns : d # c => conn'[d] = conn[d]
      /\ \A d \in Conns : RoomOf(d)' = RoomOf(d)
  OBVIOUS
<1>4. \A q \in 1..MaxRooms : \A i \in DOMAIN rooms[q].flushes :
          /\ rooms[q].flushes[i].by \in Conns /\ rooms[q].flushes[i].by # c
          /\ conn'[rooms[q].flushes[i].by] = conn[rooms[q].flushes[i].by]
  BY <1>3 DEF LoopsInv, OneQueue
<1>5. \A q \in 1..MaxRooms : \A i \in DOMAIN rooms[q].flushes :
          /\ rooms[q].flushes[i].stage # "raised"
          /\ conn'[rooms[q].flushes[i].by].pc \in {"flushing", "closing"}
          /\ conn'[rooms[q].flushes[i].by].room = q
          /\ \A j \in DOMAIN rooms[q].flushes :
                 rooms[q].flushes[j].by = rooms[q].flushes[i].by => i = j
  BY <1>4 DEF LoopsInv, OneQueue, RoomOf
<1>6. ASSUME NEW q \in 1..MaxRooms, NEW i \in DOMAIN rooms'[q].flushes
      PROVE  /\ rooms'[q].flushes[i].by \in Conns /\ rooms'[q].flushes[i].stage # "raised"
             /\ conn'[rooms'[q].flushes[i].by].pc \in {"flushing", "closing"}
             /\ conn'[rooms'[q].flushes[i].by].room = q
             /\ \A j \in DOMAIN rooms'[q].flushes :
                   rooms'[q].flushes[j].by = rooms'[q].flushes[i].by => i = j
  <2>1. CASE rooms'[q].flushes = rooms[q].flushes
    BY <1>4, <1>5, <2>1
  <2>2. CASE rooms'[q].flushes # rooms[q].flushes
    <3>1. q = r /\ x.flushes # rooms[r].flushes
      BY <1>2, <2>2
    <3>2. PICK f \in FlushType : /\ f.by = c /\ f.stage # "raised"
                                 /\ rooms'[q].flushes = Append(rooms[q].flushes, f)
                                 /\ v \in {"flushing", "closing"}
      BY <1>2, <3>1
    <3>3. rooms[q].flushes \in Seq(FlushType)
      BY DEF LoopsInv, Typed, RoomType
    <3>4. \A j \in DOMAIN rooms[q].flushes : rooms[q].flushes[j].by # f.by
      BY <1>4, <3>2
    <3>5. \A j, k \in DOMAIN rooms[q].flushes :
              rooms[q].flushes[j].by = rooms[q].flushes[k].by => j = k
      BY <1>5
    <3>6. /\ \/ i \in DOMAIN rooms[q].flushes /\ rooms'[q].flushes[i] = rooms[q].flushes[i]
             \/ rooms'[q].flushes[i] = f
          /\ \A j \in DOMAIN rooms'[q].flushes :
                   rooms'[q].flushes[j].by = rooms'[q].flushes[i].by => i = j
      <4> DEFINE a == Append(rooms[q].flushes, f)
      <4>1. /\ \A j \in DOMAIN a :
                   (j \in DOMAIN rooms[q].flushes /\ a[j] = rooms[q].flushes[j]) \/ a[j] = f
            /\ \A j, k \in DOMAIN a : a[j].by = a[k].by => j = k
        BY <3>3, <3>4, <3>5, JoinsQueue
      <4>2. rooms'[q].flushes = a
        BY <3>2
      <4> HIDE DEF a
      <4> QED BY <4>1, <4>2
    <3>7. conn'[c].room = r
      BY <1>3 DEF RoomOf
    <3>8. CASE i \in DOMAIN rooms[q].flushes /\ rooms'[q].flushes[i] = rooms[q].flushes[i]
      BY <1>4, <1>5, <3>6, <3>8
    <3>9. CASE rooms'[q].flushes[i] = f
      BY <1>3, <3>1, <3>2, <3>6, <3>7, <3>9
    <3> QED BY <3>6, <3>8, <3>9
  <2> QED BY <2>1, <2>2
<1>7. OneQueue'
  <2>1. \A i \in DOMAIN hubQueue' :
          /\ hubQueue'[i].asks = "ws" /\ hubQueue'[i].by \in Conns
          /\ conn'[hubQueue'[i].by].pc = "asking"
          /\ \A j \in DOMAIN hubQueue' : hubQueue'[j].by = hubQueue'[i].by => i = j
    BY <1>3 DEF LoopsInv, OneQueue
  <2>2. ASSUME NEW d \in Conns, RoomOf(d)' # NoRoom
        PROVE  rooms'[RoomOf(d)'].scene = SceneOf[d]
    <3>1. RoomOf(d) \in 1..MaxRooms /\ rooms[RoomOf(d)].scene = SceneOf[d]
      BY <1>3, <2>2 DEF LoopsInv, Typed, ConnType, RoomOf, NoRoom, OneQueue
    <3> QED BY <1>1, <1>2, <1>3, <3>1
  <2> QED BY <1>6, <2>1, <2>2 DEF OneQueue, RoomOf
<1>8. ASSUME NEW s \in Scenes, s # SceneOf[c], Alone(s) PROVE OnDisk(s)'
  <2>1. OnDisk(s)
    BY <1>8 DEF LoopsInv, Kept
  <2>2. \A q \in 1..MaxRooms : rooms'[q].scene = s => rooms[q].scene = s /\ rooms'[q] = rooms[q]
    BY <1>2, <1>8
  <2>3. \A q \in 1..MaxRooms : InUse(s, q) => rooms'[q] = rooms[q]
    <3> SUFFICES ASSUME NEW q \in 1..MaxRooms, InUse(s, q) PROVE rooms'[q] = rooms[q]
      OBVIOUS
    <3>1. rooms[q].scene = s
      BY UsedScene
    <3> QED BY <1>1, <1>2, <1>8, <3>1
  <2>5. \A q \in 1..MaxRooms : InUse(s, q)' <=> InUse(s, q)
    <3>1. \A d \in Conns : SceneOf[d] = s => RoomOf(d)' = RoomOf(d) /\ (Away(d)' <=> Away(d))
      BY <1>3, <1>8 DEF Away
    <3> QED BY <3>1, SameUse
  <2>4. \A q \in 1..MaxRooms : rooms'[q].scene = s =>
          \A i \in DOMAIN rooms'[q].flushes :
              /\ conn'[rooms'[q].flushes[i].by].pc = "flushing"
              /\ rooms'[q].flushes[i].payload = rooms'[q].doc
              /\ rooms'[q].flushes[i].stage = "saved" => disk'[s] = rooms'[q].doc
    BY <1>4, <2>1, <2>2 DEF OnDisk
  <2> QED BY <1>8, <2>1, <2>3, <2>4, <2>5 DEF OnDisk, HubHead
<1> QED BY <1>7, <1>8

LEMMA LoopsApply ==
    ASSUME LoopsInv, NEW c \in Conns, Apply(c)
    PROVE  OneQueue' /\ Attended' /\ Kept'
<1> DEFINE s == SceneOf[c]
<1>0. conn[c].pc = "receiving"
  BY DEF Apply
<1> PICK r \in 1..MaxRooms : r = RoomOf(c)
  BY <1>0, AloneIdle
<1>1. /\ conn[c].pc = "receiving" /\ conn' = [conn EXCEPT ![c].pc = "broadcasting"]
      /\ UNCHANGED << registry, hubQueue, disk >>
  BY DEF Apply
<1>2. /\ rooms[r].scene = s /\ InUse(s, r) /\ s \in Scenes
      /\ Alone(s) => \A q \in 1..MaxRooms : rooms[q].scene = s =>
                         \A i \in DOMAIN rooms[q].flushes : FALSE
  BY <1>1, AloneIdle
<1>3. rooms[r] \in RoomType /\ made \in [Scenes -> SUBSET Edits]
  BY <1>2 DEF LoopsInv, Typed
<1>4. PICK x, n :
         /\ rooms' = [rooms EXCEPT ![r] = x]
         /\ x.scene = s /\ x.flushes = rooms[r].flushes /\ x.noted = rooms[r].noted
         /\ x.doc = rooms[r].doc \cup n
         /\ n = {} => x.dirty = rooms[r].dirty
         /\ n # {} => x.dirty
         /\ made' = [made EXCEPT ![s] = @ \cup n]
  <2>1. CASE UNCHANGED << rooms, made >>
    <3>1. rooms' = [rooms EXCEPT ![r] = rooms[r]]
      BY <1>2, <2>1 DEF LoopsInv, Typed
    <3>2. made' = [made EXCEPT ![s] = made[s] \cup {}]
      BY <1>3, <2>1
    <3> QED BY <1>2, <3>1, <3>2
  <2>2. CASE Record(s, NextEdit) /\ rooms' = [rooms EXCEPT ![r] = Edited(@, NextEdit)]
    <3> DEFINE x == Edited(rooms[r], NextEdit)
    <3>1. /\ x.scene = s /\ x.flushes = rooms[r].flushes /\ x.noted = rooms[r].noted
          /\ x.doc = rooms[r].doc \cup {NextEdit} /\ x.dirty
      BY <1>2, <1>3 DEF Edited, RoomType
    <3>2. rooms' = [rooms EXCEPT ![r] = x] /\ made' = [made EXCEPT ![s] = @ \cup {NextEdit}]
      BY <2>2 DEF Record
    <3> HIDE DEF x
    <3> QED BY <3>1, <3>2
  <2> QED BY <2>1, <2>2 DEF Apply
<1>5. \A t \in Scenes : t # s => made'[t] = made[t]
  BY <1>3, <1>4
<1>6. made'[s] = made[s] \cup n
  BY <1>2, <1>3, <1>4
<1>7. /\ OneQueue'
      /\ \A t \in Scenes : t # s /\ Alone(t) => OnDisk(t)'
      /\ rooms'[r] = x
      /\ \A q \in 1..MaxRooms : q # r => rooms'[q] = rooms[q]
      /\ conn'[c].pc = "broadcasting"
      /\ \A d \in Conns : d # c => conn'[d] = conn[d]
      /\ \A d \in Conns : RoomOf(d)' = RoomOf(d)
  <2>1. conn[c].pc \in {"receiving", "broadcasting", "failed"} /\ RoomOf(c) = r
    BY <1>1
  <2>2. conn' = [conn EXCEPT ![c].pc = "broadcasting"] /\ UNCHANGED << registry, hubQueue, disk >>
    BY <1>1
  <2>3. rooms' = [rooms EXCEPT ![r] = x] /\ x.scene = SceneOf[c] /\ x.flushes = rooms[r].flushes
    BY <1>4
  <2> HIDE DEF s
  <2>4. \A t \in Scenes : t # SceneOf[c] => made'[t] = made[t]
    BY <1>5 DEF s
  <2>5. rooms'[r] = x /\ \A q \in 1..MaxRooms : q # r => rooms'[q] = rooms[q]
    BY <2>3, RoomPut DEF LoopsInv
  <2>6. /\ conn'[c].pc = "broadcasting"
        /\ \A d \in Conns : d # c => conn'[d] = conn[d]
        /\ \A d \in Conns : RoomOf(d)' = RoomOf(d)
    BY <2>2, ConnPut DEF LoopsInv
  <2> QED BY <2>1, <2>2, <2>3, <2>4, <2>5, <2>6, LoopsMoved DEF s
<1> HIDE DEF s
<1>8. Attended'
  <2> SUFFICES ASSUME NEW q \in 1..MaxRooms
               PROVE  /\ rooms'[q].noted \subseteq rooms'[q].doc
                      /\ AtHead(q, "saving")' \/ AtHead(q, "saved")'
                            => rooms'[q].doc # rooms'[q].noted
                      /\ rooms'[q].doc # rooms'[q].noted =>
                            rooms'[q].dirty /\ \E d \in Conns : Busy(d)' /\ RoomOf(d)' = q
    BY DEF Attended
  <2>1. \A d \in Conns : Busy(d) => Busy(d)' /\ RoomOf(d)' = RoomOf(d)
    BY <1>1, <1>7 DEF Busy
  <2>2. CASE q = r
    <3>1. /\ rooms[r].noted \subseteq rooms[r].doc
          /\ AtHead(r, "saving") \/ AtHead(r, "saved") => rooms[r].doc # rooms[r].noted
          /\ rooms[r].doc # rooms[r].noted => rooms[r].dirty
      BY <1>2 DEF LoopsInv, Attended
    <3>2. \A stage : AtHead(r, stage)' => AtHead(r, stage)
      BY <1>4, <1>7 DEF AtHead
    <3>3. Busy(c)' /\ RoomOf(c)' = r
      BY <1>7 DEF Busy
    <3>4. x.doc # x.noted => x.dirty
      BY <1>4, <3>1
    <3>5. rooms[r].doc # rooms[r].noted => x.doc # x.noted
      BY <1>4, <3>1
    <3>6. x.noted \subseteq x.doc
      BY <1>4, <3>1
    <3> QED BY <1>7, <2>2, <3>1, <3>2, <3>3, <3>4, <3>5, <3>6
  <2>3. CASE q # r
    BY <1>7, <2>1, <2>3 DEF LoopsInv, Attended, AtHead
  <2> QED BY <2>2, <2>3
<1>9. ASSUME Alone(s), NEW t \in Scenes, t = s PROVE OnDisk(t)'
  <2>1. OnDisk(t)
    BY <1>9 DEF LoopsInv, Kept
  <2>2. \A q \in 1..MaxRooms : InUse(t, q)' <=> q = r
    <3>1. \A q \in 1..MaxRooms : InUse(t, q)' <=> InUse(t, q)
      <4>1. \A d \in Conns : RoomOf(d)' = RoomOf(d) /\ (Away(d)' <=> Away(d))
        BY <1>1, <1>7 DEF Away
      <4> QED BY <1>1, <4>1, SameUse
    <3> QED BY <1>2, <1>9, <2>1, <3>1 DEF OnDisk
  <2>3. /\ made'[t] \subseteq rooms'[r].doc
        /\ rooms'[r].noted \subseteq disk[t]
    BY <1>2, <1>4, <1>6, <1>7, <1>9, <2>1 DEF OnDisk
  <2>4. ASSUME NEW q \in 1..MaxRooms, rooms'[q].scene = t,
               NEW i \in DOMAIN rooms'[q].flushes
        PROVE  FALSE
    <3>1. rooms[q].scene = s /\ rooms'[q].flushes = rooms[q].flushes
      BY <1>2, <1>4, <1>7, <1>9, <2>4
    <3> QED BY <1>2, <1>9, <2>4, <3>1
  <2> QED BY <1>1, <1>2, <1>9, <2>1, <2>2, <2>3, <2>4 DEF OnDisk, HubHead
<1> QED BY <1>7, <1>8, <1>9 DEF Kept, Alone

(* What flush does before it awaits. *)
LEMMA FlushedBy ==
    ASSUME NEW room \in RoomType, NEW c \in Tasks
    PROVE  LET x == Flushed(room, c)
           IN  /\ x.scene = room.scene /\ x.doc = room.doc
               /\ x.noted = room.noted /\ x.dirty = room.dirty
               /\ ~ Dirty(room) => x.flushes = room.flushes
               /\ Dirty(room) =>
                     \E f \in FlushType : /\ f.by = c /\ f.payload = room.doc
                                          /\ f.stage \in {"saving", "waiting"}
                                          /\ x.flushes = Append(room.flushes, f)
<1>1. CASE ~ Dirty(room)
  BY <1>1 DEF Flushed
<1>2. CASE Dirty(room)
  <2> DEFINE f == [by |-> c, payload |-> room.doc,
                   stage |-> IF room.flushes = <<>> THEN "saving" ELSE "waiting"]
             q == Append(room.flushes, f)
  <2>1. /\ f \in FlushType /\ f.by = c /\ f.payload = room.doc
        /\ f.stage \in {"saving", "waiting"}
    BY DEF FlushType, RoomType
  <2>2. Flushed(room, c) = [room EXCEPT !.flushes = q]
    BY <1>2 DEF Flushed
  <2> HIDE DEF q
  <2>3. /\ Flushed(room, c).scene = room.scene /\ Flushed(room, c).doc = room.doc
        /\ Flushed(room, c).noted = room.noted /\ Flushed(room, c).dirty = room.dirty
        /\ Flushed(room, c).flushes = q
    BY <2>2 DEF RoomType
  <2> HIDE DEF f
  <2> QED BY <1>2, <2>1, <2>3 DEF q
<1> QED BY <1>1, <1>2

(* A connection in its loop, or at the end of it, flushes its room. *)
LEMMA LoopsFlushed ==
    ASSUME LoopsInv, NEW c \in Conns, NEW r \in 1..MaxRooms, RoomOf(c) = r,
           conn[c].pc \in {"receiving", "broadcasting", "failed"},
           NEW room \in RoomType,
           room.scene = rooms[r].scene, room.doc = rooms[r].doc,
           room.noted = rooms[r].noted, room.dirty = rooms[r].dirty,
           room.flushes = rooms[r].flushes,
           rooms' = [rooms EXCEPT ![r] = Flushed(room, c)],
           NEW v \in {"flushing", "closing", "receiving", "leaving"},
           Dirty(room) => v \in {"flushing", "closing"},
           Dirty(room) /\ conn[c].pc = "broadcasting" => v = "flushing",
           conn' = [conn EXCEPT ![c].pc = v],
           UNCHANGED << registry, hubQueue, disk, made >>
    PROVE  OneQueue' /\ Attended' /\ Kept'
<1> PICK x : x = Flushed(room, c)
  OBVIOUS
<1>1. /\ x.scene = rooms[r].scene /\ x.doc = rooms[r].doc
      /\ x.noted = rooms[r].noted /\ x.dirty = rooms[r].dirty
      /\ ~ Dirty(room) => x.flushes = rooms[r].flushes
      /\ Dirty(room) =>
             \E f \in FlushType : /\ f.by = c /\ f.payload = rooms[r].doc
                                  /\ f.stage \in {"saving", "waiting"}
                                  /\ x.flushes = Append(rooms[r].flushes, f)
  <2>1. c \in Tasks
    BY DEF Tasks
  <2> QED BY <2>1, FlushedBy
<1>2. rooms' = [rooms EXCEPT ![r] = x]
  OBVIOUS
<1>3. /\ rooms[r].scene = SceneOf[c] /\ SceneOf[c] \in Scenes
      /\ Alone(SceneOf[c]) => \A q \in 1..MaxRooms : rooms[q].scene = SceneOf[c] =>
                                  \A i \in DOMAIN rooms[q].flushes : FALSE
  BY AloneIdle
<1>4. /\ OneQueue'
      /\ \A t \in Scenes : t # SceneOf[c] /\ Alone(t) => OnDisk(t)'
      /\ rooms'[r] = x
      /\ \A q \in 1..MaxRooms : q # r => rooms'[q] = rooms[q]
      /\ conn'[c].pc = v
      /\ \A d \in Conns : d # c => conn'[d] = conn[d]
      /\ \A d \in Conns : RoomOf(d)' = RoomOf(d)
  <2>1. x.scene = SceneOf[c] /\ UNCHANGED << registry, hubQueue, disk >>
    BY <1>1, <1>3
  <2>2. \/ x.flushes = rooms[r].flushes
        \/ /\ v \in {"flushing", "closing"}
           /\ \E f \in FlushType : /\ f.by = c /\ f.stage # "raised"
                                   /\ x.flushes = Append(rooms[r].flushes, f)
    <3>1. CASE ~ Dirty(room)
      BY <1>1, <3>1
    <3>2. CASE Dirty(room)
      <4>1. v \in {"flushing", "closing"}
        BY <3>2
      <4>2. PICK f \in FlushType : /\ f.by = c /\ f.stage \in {"saving", "waiting"}
                                   /\ x.flushes = Append(rooms[r].flushes, f)
        BY <1>1, <3>2
      <4>3. f.stage # "raised"
        BY <4>2
      <4> QED BY <4>1, <4>2, <4>3
    <3> QED BY <3>1, <3>2
  <2>3. \A s \in Scenes : s # SceneOf[c] => made'[s] = made[s]
    OBVIOUS
  <2>4. rooms'[r] = x /\ \A q \in 1..MaxRooms : q # r => rooms'[q] = rooms[q]
    BY <1>2, RoomPut DEF LoopsInv
  <2>5. /\ conn'[c].pc = v
        /\ \A d \in Conns : d # c => conn'[d] = conn[d]
        /\ \A d \in Conns : RoomOf(d)' = RoomOf(d)
    BY ConnPut DEF LoopsInv
  <2> QED BY <2>1, <2>2, <2>3, <2>4, <2>5, LoopsMoved
<1>5. Dirty(room) <=> rooms[r].dirty /\ rooms[r].doc # rooms[r].noted
  BY DEF Dirty
<1>6. Attended'
  <2> SUFFICES ASSUME NEW q \in 1..MaxRooms
               PROVE  /\ rooms'[q].noted \subseteq rooms'[q].doc
                      /\ AtHead(q, "saving")' \/ AtHead(q, "saved")'
                            => rooms'[q].doc # rooms'[q].noted
                      /\ rooms'[q].doc # rooms'[q].noted =>
                            rooms'[q].dirty /\ \E d \in Conns : Busy(d)' /\ RoomOf(d)' = q
    BY DEF Attended
  <2>1. CASE q = r
    <3>1. /\ rooms[r].noted \subseteq rooms[r].doc
          /\ AtHead(r, "saving") \/ AtHead(r, "saved") => rooms[r].doc # rooms[r].noted
          /\ rooms[r].doc # rooms[r].noted =>
                rooms[r].dirty /\ \E d \in Conns : Busy(d) /\ RoomOf(d) = r
      BY DEF LoopsInv, Attended
    <3>2. CASE ~ Dirty(room)
      <4>1. x.doc = x.noted /\ x.noted \subseteq x.doc
        BY <1>1, <1>5, <3>1, <3>2
      <4>2. ~ AtHead(r, "saving")' /\ ~ AtHead(r, "saved")'
        BY <1>1, <1>4, <1>5, <3>1, <3>2 DEF AtHead
      <4> QED BY <1>4, <2>1, <4>1, <4>2
    <3>3. CASE Dirty(room)
      <4>1. PICK d \in Conns : Busy(d) /\ RoomOf(d) = r
        BY <1>5, <3>1, <3>3
      <4>2. Busy(d)' /\ RoomOf(d)' = r
        BY <1>4, <3>3, <4>1 DEF Busy
      <4>3. x.dirty /\ x.doc # x.noted /\ x.noted \subseteq x.doc
        BY <1>1, <1>5, <3>1, <3>3
      <4> QED BY <1>4, <2>1, <4>2, <4>3
    <3> QED BY <3>2, <3>3
  <2>2. CASE q # r
    <3>1. \A d \in Conns : Busy(d) /\ RoomOf(d) = q => Busy(d)' /\ RoomOf(d)' = q
      BY <1>4, <2>2 DEF Busy
    <3> QED BY <1>4, <2>2, <3>1 DEF LoopsInv, Attended, AtHead
  <2> QED BY <2>1, <2>2
<1>7. ASSUME Alone(SceneOf[c]), NEW s \in Scenes, s = SceneOf[c] PROVE OnDisk(s)'
  <2>1. OnDisk(s)
    BY <1>7 DEF LoopsInv, Kept
  <2>2. /\ (\A q \in 1..MaxRooms : ~ InUse(s, q)') => made'[s] \subseteq disk'[s]
        /\ \A q \in 1..MaxRooms : InUse(s, q)' => /\ made'[s] \subseteq rooms'[q].doc
                                                  /\ rooms'[q].noted \subseteq disk'[s]
        /\ \A p \in 1..MaxRooms : \A q \in 1..MaxRooms :
              InUse(s, p)' /\ InUse(s, q)' => p = q
    <3>1. \A q \in 1..MaxRooms : InUse(s, q)' <=> InUse(s, q)
      <4>1. \A d \in Conns : RoomOf(d)' = RoomOf(d) /\ (Away(d)' <=> Away(d))
        BY <1>4 DEF Away
      <4> QED BY <4>1, SameUse
    <3>2. \A q \in 1..MaxRooms : rooms'[q].doc = rooms[q].doc /\ rooms'[q].noted = rooms[q].noted
      BY <1>1, <1>4
    <3> QED BY <2>1, <3>1, <3>2 DEF OnDisk
  <2>3. ASSUME NEW q \in 1..MaxRooms, rooms'[q].scene = s,
               NEW i \in DOMAIN rooms'[q].flushes
        PROVE  /\ conn'[rooms'[q].flushes[i].by].pc = "flushing"
               /\ rooms'[q].flushes[i].payload = rooms'[q].doc
               /\ rooms'[q].flushes[i].stage = "saved" => disk'[s] = rooms'[q].doc
    <3>1. rooms[q].scene = s /\ \A j \in DOMAIN rooms[q].flushes : FALSE
      BY <1>1, <1>3, <1>4, <1>7, <2>3
    <3>2. q = r /\ Dirty(room)
      BY <1>1, <1>4, <2>3, <3>1
    <3>3. PICK f \in FlushType : /\ f.by = c /\ f.payload = rooms[r].doc
                                 /\ f.stage \in {"saving", "waiting"}
                                 /\ x.flushes = Append(rooms[r].flushes, f)
      BY <1>1, <3>2
    <3>4. rooms'[q].flushes[i] = f
      <4>1. rooms[r].flushes \in Seq(FlushType)
        BY DEF LoopsInv, Typed, RoomType
      <4>2. \A j \in DOMAIN x.flushes : \/ j \in DOMAIN rooms[r].flushes
                                        \/ x.flushes[j] = f
        BY <3>3, <4>1, AppendOf
      <4> QED BY <1>4, <2>3, <3>1, <3>2, <4>2
    <3>5. conn[c].pc = "broadcasting"
      <4>1. PICK d \in Conns : Busy(d) /\ RoomOf(d) = r
        BY <1>5, <3>2 DEF LoopsInv, Attended
      <4>2. SceneOf[d] = s
        BY <1>3, <1>7, <4>1 DEF LoopsInv, OneQueue, NoRoom
      <4>3. d = c
        BY <1>7, <4>2 DEF Alone
      <4> QED BY <4>1, <4>3 DEF Busy
    <3>6. v = "flushing"
      BY <3>2, <3>5
    <3> QED BY <1>1, <1>4, <3>2, <3>3, <3>4, <3>6
  <2> QED BY <2>1, <2>2, <2>3 DEF OnDisk, HubHead
<1> QED BY <1>4, <1>6, <1>7 DEF Kept, Alone

LEMMA LoopsFlushAfterApply ==
    ASSUME LoopsInv, NEW c \in Conns, FlushAfterApply(c)
    PROVE  OneQueue' /\ Attended' /\ Kept'
<1>1. conn[c].pc = "broadcasting"
  BY DEF FlushAfterApply
<1>2. PICK r \in 1..MaxRooms : r = RoomOf(c)
  BY <1>1, AloneIdle
<1> DEFINE room == rooms[r]
           v == IF Dirty(room) THEN "flushing" ELSE "receiving"
<1>3. room \in RoomType
  BY DEF LoopsInv, Typed
<1>4. /\ rooms' = [rooms EXCEPT ![r] = Flushed(room, c)]
      /\ conn' = [conn EXCEPT ![c].pc = v]
      /\ UNCHANGED << registry, hubQueue, disk, made >>
  BY <1>2 DEF FlushAfterApply
<1>5. /\ Dirty(room) => v = "flushing"
      /\ v \in {"flushing", "closing", "receiving", "leaving"}
  OBVIOUS
<1> HIDE DEF v
<1> QED BY <1>1, <1>2, <1>3, <1>4, <1>5, LoopsFlushed

LEMMA LoopsClose ==
    ASSUME LoopsInv, NEW c \in Conns, Close(c)
    PROVE  OneQueue' /\ Attended' /\ Kept'
<1>1. conn[c].pc \in {"receiving", "failed"}
  BY DEF Close
<1>2. PICK r \in 1..MaxRooms : r = RoomOf(c)
  BY <1>1, AloneIdle
<1> DEFINE room == Left(rooms[r], ClientOf[c])
           v == IF Dirty(rooms[r]) THEN "closing" ELSE "leaving"
<1>3. rooms[r] \in RoomType
  BY DEF LoopsInv, Typed
<1>4. /\ room \in RoomType
      /\ room.scene = rooms[r].scene /\ room.doc = rooms[r].doc
      /\ room.noted = rooms[r].noted /\ room.dirty = rooms[r].dirty
      /\ room.flushes = rooms[r].flushes
  BY <1>3 DEF Left, RoomType
<1>5. /\ rooms' = [rooms EXCEPT ![r] = Flushed(room, c)]
      /\ conn' = [conn EXCEPT ![c].pc = v]
      /\ UNCHANGED << registry, hubQueue, disk, made >>
  BY <1>2 DEF Close
<1> HIDE DEF room
<1>6. /\ Dirty(room) => v = "closing"
      /\ v \in {"flushing", "closing", "receiving", "leaving"}
  BY <1>4 DEF Dirty
<1> HIDE DEF v
<1> QED BY <1>1, <1>2, <1>4, <1>5, <1>6, LoopsFlushed

LEMMA LoopsDiscard ==
    ASSUME LoopsInv, NEW c \in Conns, DiscardEmpty(c)
    PROVE  OneQueue' /\ Attended' /\ Kept'
<1>1. /\ conn[c].pc = "leaving"
      /\ conn' = [conn EXCEPT ![c] = [pc |-> "away", room |-> NoRoom]]
      /\ UNCHANGED << rooms, hubQueue, disk, made >>
  BY DEF DiscardEmpty
<1>2. \A s \in Scenes :
          registry'[s] = IF registry[s] # NoRoom /\ rooms[registry[s]].clients = {}
                         THEN NoRoom ELSE registry[s]
  BY DEF DiscardEmpty
<1>3. /\ conn'[c].room = NoRoom
      /\ \A d \in Conns : d # c => conn'[d] = conn[d]
  BY <1>1 DEF LoopsInv, Typed
<1>8. conn'[c].pc = "away"
  BY <1>1 DEF LoopsInv, Typed
<1>4. \A q \in 1..MaxRooms : \A i \in DOMAIN rooms[q].flushes :
          conn'[rooms[q].flushes[i].by] = conn[rooms[q].flushes[i].by]
  BY <1>1, <1>3 DEF LoopsInv, OneQueue
<1>5. OneQueue'
  <2>1. \A i \in DOMAIN hubQueue :
          /\ hubQueue[i].asks = "ws" /\ hubQueue[i].by \in Conns
          /\ conn'[hubQueue[i].by].pc = "asking"
          /\ \A j \in DOMAIN hubQueue : hubQueue[j].by = hubQueue[i].by => i = j
    BY <1>1, <1>3 DEF LoopsInv, OneQueue
  <2>2. \A q \in 1..MaxRooms : \A i \in DOMAIN rooms[q].flushes :
          /\ rooms[q].flushes[i].by \in Conns /\ rooms[q].flushes[i].stage # "raised"
          /\ conn'[rooms[q].flushes[i].by].pc \in {"flushing", "closing"}
          /\ conn'[rooms[q].flushes[i].by].room = q
          /\ \A j \in DOMAIN rooms[q].flushes :
                rooms[q].flushes[j].by = rooms[q].flushes[i].by => i = j
    BY <1>4 DEF LoopsInv, OneQueue, RoomOf
  <2>3. \A d \in Conns : conn'[d].room # NoRoom => rooms[conn'[d].room].scene = SceneOf[d]
    BY <1>3 DEF LoopsInv, OneQueue, RoomOf
  <2> QED BY <1>1, <2>1, <2>2, <2>3 DEF OneQueue, RoomOf
<1>6. Attended'
  <2>1. \A d \in Conns : Busy(d) => Busy(d)' /\ RoomOf(d)' = RoomOf(d)
    BY <1>1, <1>3 DEF Busy, RoomOf
  <2> QED BY <1>1, <2>1 DEF LoopsInv, Attended, AtHead
<1>7. ASSUME NEW s \in Scenes, Alone(s) PROVE OnDisk(s)'
  <2>1. OnDisk(s)
    BY <1>7 DEF LoopsInv, Kept
  <2>2. \A q \in 1..MaxRooms : InUse(s, q)' => InUse(s, q)
    <3>1. registry'[s] \in {NoRoom, registry[s]}
      BY <1>2
    <3>2. \A d \in Conns : ~ Away(d)' => ~ Away(d) /\ RoomOf(d)' = RoomOf(d)
      BY <1>1, <1>3, <1>8 DEF Away, RoomOf
    <3> QED BY <3>1, <3>2 DEF InUse, NoRoom
  <2>3. ASSUME \A q \in 1..MaxRooms : ~ InUse(s, q)' PROVE made[s] \subseteq disk[s]
    <3>1. ASSUME NEW q \in 1..MaxRooms, InUse(s, q) PROVE made[s] \subseteq disk[s]
      <4>1. ASSUME NEW d \in Conns, Busy(d), RoomOf(d) = q PROVE FALSE
        <5>1. SceneOf[d] = s
          BY <3>1, <4>1, UsedScene DEF LoopsInv, OneQueue, NoRoom
        <5>2. d # c /\ conn'[d] = conn[d]
          BY <1>1, <1>3, <4>1 DEF Busy
        <5>3. InUse(s, q)'
          BY <4>1, <5>1, <5>2 DEF InUse, Away, RoomOf, Busy
        <5> QED BY <2>3, <5>3
      <4>2. rooms[q].doc = rooms[q].noted
        BY <4>1 DEF LoopsInv, Attended
      <4> QED BY <2>1, <3>1, <4>2 DEF OnDisk
    <3> QED BY <2>1, <3>1 DEF OnDisk
  <2>5. \A q \in 1..MaxRooms : rooms[q].scene = s =>
          \A i \in DOMAIN rooms[q].flushes :
              /\ conn'[rooms[q].flushes[i].by].pc = "flushing"
              /\ rooms[q].flushes[i].payload = rooms[q].doc
              /\ rooms[q].flushes[i].stage = "saved" => disk[s] = rooms[q].doc
    BY <1>4, <2>1 DEF OnDisk
  <2> QED BY <1>1, <2>1, <2>2, <2>3, <2>5 DEF OnDisk, HubHead
<1> QED BY <1>5, <1>6, <1>7 DEF Kept, Alone

(* A broadcast that fails concerns the members of a room only. *)
LEMMA LoopsSendFails ==
    ASSUME LoopsInv, NEW r \in 1..MaxRooms, SendFails(r)
    PROVE  OneQueue' /\ Attended' /\ Kept'
<1>1. PICK c \in Conns : rooms' = [rooms EXCEPT ![r] = Left(@, ClientOf[c])]
  BY DEF SendFails
<1>2. UNCHANGED << registry, hubQueue, disk, conn, made >>
  BY DEF SendFails
<1>3. \A q \in 1..MaxRooms :
          /\ rooms'[q].scene = rooms[q].scene /\ rooms'[q].flushes = rooms[q].flushes
          /\ rooms'[q].doc = rooms[q].doc /\ rooms'[q].noted = rooms[q].noted
          /\ rooms'[q].dirty = rooms[q].dirty
  <2>1. \A q \in 1..MaxRooms : rooms[q] \in RoomType
    BY DEF LoopsInv, Typed
  <2>2. \A q \in 1..MaxRooms :
            rooms'[q] = IF q = r THEN Left(rooms[r], ClientOf[c]) ELSE rooms[q]
    BY <1>1 DEF LoopsInv, Typed
  <2> QED BY <2>1, <2>2 DEF Left, RoomType
<1>4. OneQueue'
  <2>1. ASSUME NEW d \in Conns, RoomOf(d)' # NoRoom PROVE rooms'[RoomOf(d)'].scene = SceneOf[d]
    <3>1. RoomOf(d)' = RoomOf(d) /\ RoomOf(d) \in 1..MaxRooms
      BY <1>2, <2>1 DEF LoopsInv, Typed, ConnType, RoomOf, NoRoom
    <3> QED BY <1>3, <2>1, <3>1 DEF LoopsInv, OneQueue
  <2> QED BY <1>2, <1>3, <2>1 DEF LoopsInv, OneQueue, RoomOf
<1>5. Attended'
  BY <1>2, <1>3 DEF LoopsInv, Attended, AtHead, Busy, RoomOf
<1>6. ASSUME NEW s \in Scenes, Alone(s) PROVE OnDisk(s)'
  <2>1. OnDisk(s)
    BY <1>6 DEF LoopsInv, Kept
  <2>2. \A q \in 1..MaxRooms : InUse(s, q)' <=> InUse(s, q)
    BY <1>2 DEF InUse, Away, RoomOf
  <2> QED BY <1>2, <1>3, <2>1, <2>2 DEF OnDisk, HubHead
<1> QED BY <1>4, <1>5, <1>6 DEF Kept, Alone

-----------------------------------------------------------------------------
LEMMA LoopsNextInv ==
    ASSUME LoopsInv, UnreachedNext
    PROVE  LoopsInv'
<1>0. Typed /\ Found
  BY DEF LoopsInv
<1>1. Typed' /\ Found'
  BY <1>0, FaultyStepOK DEF UnreachedNext, FaultyNext, HubNext
<1>2. CASE HubStep
  <2>1. ~ ServeFlush
    <3> SUFFICES ASSUME ServeFlush PROVE FALSE
      OBVIOUS
    <3>1. hubQueue # <<>> /\ Head(hubQueue).asks = "flush"
      BY DEF ServeFlush, HubHead
    <3>2. 1 \in DOMAIN hubQueue /\ Head(hubQueue) = hubQueue[1]
      BY <3>1, TailOf DEF LoopsInv, Typed
    <3> QED BY <3>1, <3>2 DEF LoopsInv, OneQueue
  <2> QED BY <1>1, <1>2, <2>1, LoopsServeKnown, LoopsLoading, LoopsCreate DEF HubStep, LoopsInv
<1>3. ASSUME NEW r \in DOMAIN rooms, RoomStep(r) PROVE LoopsInv'
  <2>1. r \in 1..MaxRooms
    BY DEF LoopsInv, Typed
  <2>2. ~ AfterRaise(r)
    <3> SUFFICES ASSUME AfterRaise(r) PROVE FALSE
      OBVIOUS
    <3>1. rooms[r].flushes # <<>> /\ Head(rooms[r].flushes).stage = "raised"
      BY DEF AfterRaise, AtHead
    <3>2. rooms[r].flushes \in Seq(FlushType)
      BY <2>1 DEF LoopsInv, Typed, RoomType
    <3>3. 1 \in DOMAIN rooms[r].flushes /\ Head(rooms[r].flushes) = rooms[r].flushes[1]
      BY <3>1, <3>2, TailOf
    <3> QED BY <2>1, <3>1, <3>3 DEF LoopsInv, OneQueue
  <2> QED BY <1>1, <1>3, <2>1, <2>2, LoopsAcquire, LoopsSave, LoopsAfterSave
          DEF RoomStep, LoopsInv
<1>4. ASSUME NEW c \in Conns, LoopStep(c) PROVE LoopsInv'
  BY <1>1, <1>4, LoopsConnect, LoopsApply, LoopsFlushAfterApply, LoopsClose, LoopsDiscard
     DEF LoopStep, LoopsInv
<1>5. ASSUME NEW r \in DOMAIN rooms, SendFails(r) PROVE LoopsInv'
  <2>1. r \in 1..MaxRooms
    BY <1>0 DEF Typed
  <2> QED BY <1>1, <1>5, <2>1, LoopsSendFails DEF LoopsInv
<1> QED BY <1>1, <1>2, <1>3, <1>4, <1>5 DEF UnreachedNext, LoopsNext

LEMMA LoopsStutter == LoopsInv /\ UNCHANGED hubVars => LoopsInv'
<1> SUFFICES ASSUME LoopsInv, UNCHANGED hubVars PROVE LoopsInv'
  OBVIOUS
<1> USE DEF hubVars
<1>1. Typed' /\ Found'
  BY StutterOK DEF LoopsInv
<1>2. OneQueue'
  BY DEF LoopsInv, OneQueue, RoomOf
<1>3. Attended'
  BY DEF LoopsInv, Attended, AtHead, Busy, RoomOf
<1>4. Kept'
  BY DEF LoopsInv, Kept, OnDisk, HubHead, Alone, InUse, Away, RoomOf
<1> QED BY <1>1, <1>2, <1>3, <1>4 DEF LoopsInv

LEMMA LoopsAlways == LoopsSpec => []LoopsInv
<1>1. HubInit => LoopsInv
  BY InitOK, LoopsInitInv DEF LoopsInv
<1>2. LoopsInv /\ [UnreachedNext]_hubVars => LoopsInv'
  BY LoopsNextInv, LoopsStutter
<1> QED BY <1>1, <1>2, PTL DEF LoopsSpec

(* Connections alone never lose an edit of a scene with one editor, however *)
(* often it comes and goes, and although broadcasts fail; their client ids  *)
(* may be shared.                                                           *)
THEOREM NothingIsForgotten == LoopsSpec => []NothingForgotten
<1>1. LoopsInv => NothingForgotten
  <2> SUFFICES ASSUME LoopsInv, NEW s \in Scenes, Alone(s), registry[s] # NoRoom
               PROVE  made[s] \subseteq rooms[registry[s]].doc
    BY DEF NothingForgotten
  <2>1. registry[s] \in 1..MaxRooms /\ InUse(s, registry[s])
    BY DEF LoopsInv, Typed, NoRoom, InUse
  <2> QED BY <2>1 DEF LoopsInv, Kept, OnDisk
<1> QED BY <1>1, LoopsAlways, PTL

(* Nor do they abandon a room with anything left to flush, of any scene,    *)
(* with any number of editors: a loop in it is to flush it.                 *)
THEOREM NothingIsAbandoned == LoopsSpec => []NothingAbandoned
<1>1. LoopsInv => NothingAbandoned
  BY DEF LoopsInv, Typed, Attended, NothingAbandoned, Dirty, FlushDue, Busy
<1> QED BY <1>1, LoopsAlways, PTL
=============================================================================
