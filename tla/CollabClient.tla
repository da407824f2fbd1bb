---------------------------- MODULE CollabClient ----------------------------
(***************************************************************************)
(* The desktop client of gui/services/collab_client.py with the node       *)
(* editor it follows, the connections it opens one after the other, and as *)
(* much of the server as answers them: loops, rooms and their broadcasts.  *)
(*                                                                         *)
(* A scene is what its nodes are, None for a node that it lacks.  Saves    *)
(* succeed and take no time, see CollabFlush; a connection is accepted and *)
(* its room joined in one step, and so is the end of a loop, see CollabHub *)
(* for the steps.  Messages on a connection arrive in order; when it       *)
(* breaks, the client gets no more of them and the server may still read   *)
(* some.                                                                   *)
(***************************************************************************)
EXTENDS FiniteSets, Functions, Naturals, Sequences, SequencesExt

CONSTANTS
    Clients,
    Scenes,
    Plain,        \* "scene", the id that load_scene gives to what has no "id"
    Nodes,
    Values,
    None,
    Files,        \* scenes that may be silent into an editor
    MaxEvents,    \* bound: changes of the busy, and twice whatever else happens
    Busy          \* bound: who does more than edit the first scene

Contents == [Nodes -> Values \cup {None}]

ASSUME ClientAssumption ==
    /\ Plain \in Scenes
    /\ None \notin Values /\ IsFiniteSet(Nodes)
    /\ Files \subseteq [id : Scenes, nodes : Contents]
    /\ MaxEvents \in Nat /\ Busy \subseteq Clients

VARIABLES
    client,    \* editor, adapter and socket of every client
    conns,     \* every connection that was accepted, with the loop behind it
    rooms,     \* every room that was made
    hub,       \* the rooms that the hub knows, by scene
    disk,      \* the files of the scenes
    events,
    silent,    \* nodes changed in an editor that its adapter was not told of
    skipping,  \* whose editor has loaded a scene and tells of no change yet
    returned,  \* who has left a scene for another and come back
    refused    \* whose edits were taken for duplicates since their last snapshot

clientVars == << client, conns, rooms, hub, disk, events,
                 silent, skipping, returned, refused >>

Ops == [id : Nat, node : Nodes, value : Values \cup {None}]

Empty == [n \in Nodes |-> None]

(* The first change in every editor, in a scene that is still empty, has *)
(* asked for a connection.                                               *)
ClientInit ==
    /\ client = [c \in Clients |->
                   [id |-> Plain, nodes |-> Empty, base |-> Empty, place |-> Plain,
                    state |-> "connecting", socket |-> 0, counter |-> 0]]
    /\ conns = << >> /\ rooms = << >>
    /\ hub = [s \in {} |-> 0]
    /\ disk = [s \in Scenes |-> Empty]
    /\ events = 0
    /\ silent = [c \in Clients |-> {}]
    /\ skipping = {}
    /\ returned = {} /\ refused = {}

-----------------------------------------------------------------------------
(* The client *)

(* The connection of c is given up: it reads nothing more from it. *)
Closed(c) == [n \in DOMAIN conns |->
                IF n = client[c].socket THEN [conns[n] EXCEPT !.live = FALSE, !.down = << >>]
                ELSE conns[n]]

(* _diff_scenes and apply_operations *)
Operations(old, new, counter) ==
    LET nodes == SetToSeq({n \in Nodes : old[n] # new[n]})
    IN  [i \in DOMAIN nodes |-> [id |-> counter + i, node |-> nodes[i],
                                 value |-> new[nodes[i]]]]

Send(c, ops) ==
    IF ops = << >> THEN conns
    ELSE [conns EXCEPT ![client[c].socket].up = Append(@, ops)]

(* _on_scene_changed in a scene that the adapter is not in: _connect. *)
Moves(c, ed) ==
    /\ ed.id # client[c].place
    /\ client' = [client EXCEPT ![c] = [@ EXCEPT
                    !.id = ed.id, !.nodes = ed.nodes, !.base = ed.nodes,
                    !.place = ed.id, !.state = "connecting",
                    !.socket = 0, !.counter = 0]]
    /\ conns' = Closed(c)
    /\ returned' = IF \E n \in DOMAIN conns : conns[n].client = c /\ conns[n].scene = ed.id
                   THEN returned \cup {c} ELSE returned
    /\ refused' = refused \ {c}

(* Mutant: what is edited offline is not noted. *)
KeepsToItself_Unnoted(c, ed) ==
    /\ ed.id = client[c].place
    /\ client[c].state # "connected"
    /\ client' = [client EXCEPT ![c].nodes = ed.nodes]
    /\ UNCHANGED << conns, returned, refused >>

(* ... without a connection: only the base of the next difference moves. *)
KeepsToItself(c, ed) ==
    /\ ed.id = client[c].place
    /\ client[c].state # "connected"
    /\ client' = [client EXCEPT ![c].nodes = ed.nodes, ![c].base = ed.nodes]
    /\ UNCHANGED << conns, returned, refused >>

Sends(c, ed) ==
    /\ ed.id = client[c].place
    /\ client[c].state = "connected"
    /\ LET ops == Operations(client[c].base, ed.nodes, client[c].counter)
       IN  /\ conns' = Send(c, ops)
           /\ client' = [client EXCEPT ![c].nodes = ed.nodes, ![c].base = ed.nodes,
                                       ![c].counter = @ + Len(ops)]
    /\ UNCHANGED << returned, refused >>

Event(weight) == events' = events + weight /\ events' <= MaxEvents

Change(c) == Event(IF c \in Busy THEN 1 ELSE 2)

SceneChanged(c, ed) == /\ c \notin skipping
                       /\ Change(c)
                       /\ Moves(c, ed) \/ KeepsToItself(c, ed) \/ Sends(c, ed)
                       /\ silent' = [silent EXCEPT ![c] = {}]

(* _emit_scene_changed soon after a scene was loaded: nobody is told. *)
Skipped(c, n, v) ==
    /\ c \in skipping
    /\ Change(c)
    /\ client' = [client EXCEPT ![c].nodes = [@ EXCEPT ![n] = v]]
    /\ silent' = [silent EXCEPT ![c] = @ \cup {n}]
    /\ UNCHANGED << conns, returned, refused >>

Edit(c, n, v) ==
    /\ client[c].nodes[n] # v
    /\ \/ Skipped(c, n, v)
       \/ SceneChanged(c, [id |-> client[c].id,
                           nodes |-> [client[c].nodes EXCEPT ![n] = v]])
    /\ UNCHANGED << rooms, hub, disk, skipping >>

(* The user types another scene id, which the editor ignores while it skips. *)
Rename(c, s) ==
    /\ client[c].id # s
    /\ SceneChanged(c, [id |-> s, nodes |-> client[c].nodes])
    /\ UNCHANGED << rooms, hub, disk, skipping >>

(* load_scene from a file tells nobody; its user may then give it any id. *)
Import(c, f) ==
    /\ Event(2)
    /\ client' = [client EXCEPT ![c].id = f.id, ![c].nodes = f.nodes]
    /\ silent' = [silent EXCEPT ![c] = {n \in Nodes : f.nodes[n] # client[c].base[n]}]
    /\ skipping' = skipping \cup {c}
    /\ UNCHANGED << conns, rooms, hub, disk, returned, refused >>

(* _clear_skip_flag, by the zero timer that load_scene has started *)
SkipEnds(c) ==
    /\ c \in skipping
    /\ skipping' = skipping \ {c}
    /\ UNCHANGED << client, conns, rooms, hub, disk, events, silent, returned, refused >>

(* The attempt fails, or the connection breaks: the timer starts. *)
NotConnected(c) ==
    /\ Event(2) /\ client[c].state = "connecting"
    /\ client' = [client EXCEPT ![c].state = "lost"]
    /\ UNCHANGED << conns, rooms, hub, disk, silent, skipping, returned, refused >>

Disconnected(c) ==
    /\ Event(2) /\ client[c].state = "connected"
    /\ client' = [client EXCEPT ![c].state = "lost", ![c].socket = 0]
    /\ conns' = Closed(c)
    /\ UNCHANGED << rooms, hub, disk, silent, skipping, returned, refused >>

(* Mutant: the timer is not started. *)
Reopen_Never(c) == FALSE /\ UNCHANGED clientVars

Reopen(c) ==
    /\ client[c].state = "lost"
    /\ client' = [client EXCEPT ![c].state = "connecting"]
    /\ UNCHANGED << conns, rooms, hub, disk, events, silent, skipping,
                    returned, refused >>

Waiting(c) == client[c].socket # 0 /\ conns[client[c].socket].down # << >>

(* _on_snapshot: the editor loads the scene, which has a "scene_id" and no  *)
(* "id", so that the editor forgets where it is.  Until the timer that      *)
(* load_scene starts has fired, SkipEnds, it tells of no change.            *)
Receive(c) ==
    /\ Waiting(c)
    /\ LET scene == Head(conns[client[c].socket].down)
       IN  client' = [client EXCEPT ![c].id = Plain, ![c].nodes = scene, ![c].base = scene]
    /\ conns' = [conns EXCEPT ![client[c].socket].down = Tail(@)]
    /\ refused' = refused \ {c}
    /\ silent' = [silent EXCEPT ![c] = {}]
    /\ skipping' = skipping \cup {c}
    /\ UNCHANGED << rooms, hub, disk, events, returned >>

-----------------------------------------------------------------------------
(* The server *)

ClientOf(n) == conns[n].client

NewRoom(nodes) == [nodes |-> nodes, ids |-> {}, members |-> [c \in {} |-> 0]]

(* The socket is open: the server has accepted, found or made the room and *)
(* joined it, and sends the scene (room.joined).                            *)
Connected(c) ==
    /\ client[c].state = "connecting"
    /\ LET s == client[c].place
           n == Len(conns) + 1
           known == s \in DOMAIN hub
           all == IF known THEN rooms ELSE Append(rooms, NewRoom(disk[s]))
           k == IF known THEN hub[s] ELSE Len(all)
       IN  /\ rooms' = [all EXCEPT ![k].members =
                          [d \in DOMAIN @ \cup {c} |-> IF d = c THEN n ELSE @[d]]]
           /\ hub' = [t \in DOMAIN hub \cup {s} |-> IF t = s THEN k ELSE hub[t]]
           /\ conns' = Append(conns, [client |-> c, scene |-> s, room |-> k, over |-> FALSE,
                         live |-> TRUE, up |-> << >>, down |-> << all[k].nodes >>])
           /\ client' = [client EXCEPT ![c].state = "connected", ![c].socket = n]
    /\ UNCHANGED << disk, events, silent, skipping, returned, refused >>

Known(k, c, op) == << c, op.id >> \in rooms[k].ids

(* apply_operations: what is new takes effect. *)
Applied(k, c, ops) ==
    LET new == {i \in DOMAIN ops : ~Known(k, c, ops[i])}
        At(n) == {i \in new : ops[i].node = n}
    IN  [rooms[k] EXCEPT
           !.ids = @ \cup {<< c, ops[i].id >> : i \in new},
           !.nodes = [n \in Nodes |-> IF At(n) = {} THEN rooms[k].nodes[n]
                                      ELSE ops[CHOOSE i \in At(n) : TRUE].value]]

(* Mutant: the sender is left out. *)
Hears_NotSender(k, n) == {m \in Range(rooms[k].members) : conns[m].live /\ m # n}

Hears(k, n) == {m \in Range(rooms[k].members) : conns[m].live}
Deaf(k) == {c \in DOMAIN rooms[k].members : ~conns[rooms[k].members[c]].live}

(* doc.apply: a snapshot goes to all members if anything has changed.  Those *)
(* that it cannot be sent to leave, if the server notices.                   *)
Serve(n, failed) ==
    /\ ~conns[n].over /\ conns[n].up # << >>
    /\ LET k == conns[n].room
           ops == Head(conns[n].up)
           after == Applied(k, ClientOf(n), ops)
           changed == after.nodes # rooms[k].nodes
           rest == [conns EXCEPT ![n].up = Tail(@)]
       IN  /\ failed \subseteq Deaf(k)
           /\ conns' = IF ~changed THEN rest
                       ELSE [m \in DOMAIN rest |->
                               IF m \in Hears(k, n)
                               THEN [rest[m] EXCEPT !.down = Append(@, after.nodes)]
                               ELSE rest[m]]
           /\ rooms' = [rooms EXCEPT ![k] =
                          [after EXCEPT !.members = Restrict(@, DOMAIN @ \ failed)]]
           /\ disk' = IF changed THEN [disk EXCEPT ![conns[n].scene] = after.nodes] ELSE disk
           /\ refused' = IF conns[n].live /\ \E i \in DOMAIN ops : Known(k, ClientOf(n), ops[i])
                         THEN refused \cup {ClientOf(n)} ELSE refused
    /\ UNCHANGED << client, hub, events, silent, skipping, returned >>

(* Mutant: the room goes with the loop. *)
Discarded_Own(k, all) == Restrict(hub, {s \in DOMAIN hub : hub[s] # k})

Discarded(k, all) == Restrict(hub, {s \in DOMAIN hub : DOMAIN all[hub[s]].members # {}})

(* A room that neither the hub nor a loop has is gone. *)
InUse(k) == \/ k \in Range(hub')
            \/ \E m \in DOMAIN conns' : ~conns'[m].over /\ conns'[m].room = k

(* The loop of a connection that has broken ends: leave, by the client's id, *)
(* and discard_empty.                                                        *)
Ends(n) ==
    /\ ~conns[n].over /\ ~conns[n].live
    /\ conns' = [conns EXCEPT ![n].over = TRUE, ![n].up = << >>]
    /\ LET all == [rooms EXCEPT ![conns[n].room].members =
                      Restrict(@, DOMAIN @ \ {ClientOf(n)})]
       IN  /\ hub' = Discarded(conns[n].room, all)
           /\ rooms' = [k \in DOMAIN all |-> IF InUse(k) THEN all[k] ELSE NewRoom(Empty)]
    /\ UNCHANGED << client, disk, events, silent, skipping, returned, refused >>

-----------------------------------------------------------------------------
UserStep(c) ==
    \/ \E n \in Nodes, v \in Values \cup {None} : Edit(c, n, v)
    \/ c \in Busy /\ \/ \E s \in Scenes : Rename(c, s)
                     \/ \E f \in Files : Import(c, f)

NetworkFails(c) == c \in Busy /\ (NotConnected(c) \/ Disconnected(c))

(* What the event loops of the clients and of the server do when it is ready. *)
LoopStep ==
    \/ \E c \in Clients : Connected(c) \/ Reopen(c) \/ Receive(c) \/ SkipEnds(c)
    \/ \E n \in DOMAIN conns : \/ \E failed \in SUBSET Clients : Serve(n, failed)
                              \/ Ends(n)

ClientNext == LoopStep \/ \E c \in Clients : UserStep(c) \/ NetworkFails(c)

ClientSpec == ClientInit /\ [][ClientNext]_clientVars

(* The event loops do not stop while something is ready, and the network    *)
(* lets an attempt through in the end.                                      *)
LiveClientSpec == ClientSpec /\ WF_clientVars(LoopStep)

-----------------------------------------------------------------------------
TypeOK ==
    /\ client \in [Clients -> [id : Scenes, nodes : Contents, base : Contents,
                               place : Scenes,
                               state : {"connecting", "connected", "lost"},
                               socket : 0..Len(conns), counter : Nat]]
    /\ \A c \in Clients : client[c].socket # 0 <=> client[c].state = "connected"
    /\ \A n \in DOMAIN conns :
          /\ conns[n].scene \in Scenes /\ conns[n].room \in DOMAIN rooms
          /\ conns[n].up \in Seq(Seq(Ops)) /\ conns[n].down \in Seq(Contents)
    /\ \A k \in DOMAIN rooms :
          /\ rooms[k].nodes \in Contents
          /\ \A c \in DOMAIN rooms[k].members : ClientOf(rooms[k].members[c]) = c
    /\ \A s \in DOMAIN hub : hub[s] \in DOMAIN rooms
    /\ disk \in [Scenes -> Contents]
    /\ skipping \subseteq Clients

MyRoom(c) == conns[client[c].socket].room

(* c is in the room that others find, on the connection that it listens to. *)
Attached(c) ==
    /\ client[c].state = "connected" /\ client[c].place \in DOMAIN hub
    /\ hub[client[c].place] = MyRoom(c)
    /\ c \in DOMAIN rooms[MyRoom(c)].members
    /\ rooms[MyRoom(c)].members[c] = client[c].socket

Quiet(c) == /\ conns[client[c].socket].up = << >>
            /\ conns[client[c].socket].down = << >>

(* The editor of c shows what the room holds, but for the nodes that were    *)
(* imported or edited without a word to the adapter.                         *)
Shows(c) == \A n \in Nodes \ silent[c] :
                client[c].nodes[n] = rooms[MyRoom(c)].nodes[n]

(* A client that is in its room and has no messages under way shows what    *)
(* the room holds, whatever edits and snapshots have crossed on their way;  *)
(* unless the server took its last edits for duplicates.                    *)
InSync ==
    \A c \in Clients : Attached(c) /\ Quiet(c) /\ c \notin refused => Shows(c)

(* The nodes that c sends in this step, to the scene that it is in. *)
Sent(c) ==
    IF client'[c].counter > client[c].counter
    THEN {op.node : op \in Range(Last(conns'[client[c].socket].up))} ELSE {}

(* An edit sends the node that was edited, and at most what the editor has   *)
(* imported or edited before without telling, as it does right after it has  *)
(* loaded a snapshot: what others did, what was made elsewhere and what was  *)
(* made offline is never sent as an edit of this user.                       *)
OnlyOwnEdits ==
    [][\A c \in Clients, n \in Nodes, v \in Values \cup {None} : Edit(c, n, v) =>
         Sent(c) \subseteq {n} \cup silent[c]]_clientVars

(* An edit is taken for a duplicate only of a client that has left a scene  *)
(* for another and come back, when its counter starts again; never because  *)
(* a connection was lost.                                                   *)
RefusedOnlyAfterReturn == refused \subseteq returned

(* A client that is connected stays in the room that others find, unless it *)
(* had been connected to the scene before: the end of that connection takes *)
(* it out of the room.                                                      *)
DetachedOnlyAfterReconnect ==
    \A c \in Clients :
        client[c].state = "connected" =>
            Attached(c) \/ \E m \in 1..(client[c].socket - 1) :
                               /\ conns[m].client = c
                               /\ conns[m].scene = client[c].place

(* The copies, the sockets and the rooms belong together; what goes wrong    *)
(* between them comes of returning to a scene.                               *)
ClientsSound == TypeOK /\ RefusedOnlyAfterReturn /\ DetachedOnlyAfterReconnect

(* Whoever loses the connection, or asks for one, gets the scene in the end; *)
(* or is not heard of any more, in the two cases above.                      *)
ComesBack ==
    \A c \in Busy :
        client[c].state \in {"lost", "connecting"} ~>
            /\ client[c].state = "connected" /\ Quiet(c)
            /\ Attached(c) => c \in refused \/ Shows(c)
=============================================================================
