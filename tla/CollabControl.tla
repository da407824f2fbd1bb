---------------------------- MODULE CollabControl ----------------------------
(***************************************************************************)
(* The soft lock of a collaboration room: CollabRoom.request_control,      *)
(* release_control, presence, join and leave of comfyvn/collab/room.py, as *)
(* the WebSocket loop (server/modules/collab_api.py) and the REST routes   *)
(* (server/routes/collab.py) call them.                                    *)
(*                                                                         *)
(* Room methods do not await, so each is one step; a REST handler calls    *)
(* several of them without awaiting in between and is one step too.        *)
(*                                                                         *)
(* Time is the lease that is left: the code's control_expires is now +     *)
(* lease, and Tick shortens it.  A lock is only found to have expired when *)
(* a client asks for control or somebody reads the presence.               *)
(***************************************************************************)
EXTENDS Naturals, Sequences, SequencesExt

CONSTANTS
    Clients,      \* client ids
    NoClient,     \* None
    DefaultTtl,   \* control_ttl (30 seconds in the code)
    Ttls,         \* the ttl values clients ask for; 0 stands for none given
    MaxSockets    \* connections each client id may have at a time

ASSUME ControlAssumption ==
    /\ NoClient \notin Clients
    /\ DefaultTtl \in Nat \ {0}
    /\ Ttls \subseteq Nat
    /\ MaxSockets \in [Clients -> Nat]

VARIABLES
    sockets,    \* running WebSocket loops per client id: a client that
                \* reconnects has two until the server notices
    clients,    \* the ids in self.clients
    headless,   \* those whose transport is the REST shim: it never fails
    failures,   \* ids in the failures list of a broadcast that is still sending
    lock        \* control_owner, the lease left, control_queue

transports == << sockets, headless, failures >>
controlVars == << transports, clients, lock >>

Free(q) == [owner |-> NoClient, lease |-> 0, queue |-> q]

Held(c, lease, q) == [owner |-> c, lease |-> lease, queue |-> q]

-----------------------------------------------------------------------------
(* _promote_next_owner: ids that are not in the room are dropped. *)
Promote(queue, members) ==
    LET present == {i \in DOMAIN queue : queue[i] \in members}
        first   == CHOOSE i \in present : \A j \in present : i <= j
    IN  IF present = {} THEN Free(<<>>)
        ELSE Held(queue[first], DefaultTtl, SubSeq(queue, first + 1, Len(queue)))

(* _expire_control_if_needed *)
Expired(l) == l.owner # NoClient /\ l.lease = 0

Expire(l, members) == IF Expired(l) THEN Promote(l.queue, members) ELSE l

(* float(ttl or self.control_ttl): a ttl of zero means the default. *)
Lease(ttl) == IF ttl = 0 THEN DefaultTtl ELSE ttl

(* Mutant: whoever finds the lock expired takes it. *)
RequestControl_Grabs(l, c, ttl, members) ==
    IF Expired(l) \/ l.owner \in {NoClient, c}
    THEN Held(c, Lease(ttl), RemoveFirst(l.queue, c))
    ELSE IF Contains(l.queue, c) THEN l
    ELSE [l EXCEPT !.queue = Append(@, c)]

(* Mutant: the last to ask is the first to be promoted. *)
RequestControl_Stack(l, c, ttl, members) ==
    LET e == Expire(l, members)
    IN  IF e.owner \in {NoClient, c}
        THEN Held(c, Lease(ttl), RemoveFirst(e.queue, c))
        ELSE IF Contains(e.queue, c) THEN e
        ELSE [e EXCEPT !.queue = << c >> \o @]

(* request_control(client_id, ttl) *)
RequestControl(l, c, ttl, members) ==
    LET e == Expire(l, members)
    IN  IF e.owner \in {NoClient, c}
        THEN Held(c, Lease(ttl), RemoveFirst(e.queue, c))
        ELSE IF Contains(e.queue, c) THEN e
        ELSE [e EXCEPT !.queue = Append(@, c)]

(* Mutant: any client can release the lock. *)
ReleaseControl_Anyone(l, c, members) ==
    IF l.owner # NoClient THEN Promote(l.queue, members)
    ELSE [l EXCEPT !.queue = RemoveFirst(@, c)]

(* release_control(client_id) *)
ReleaseControl(l, c, members) ==
    IF l.owner = c THEN Promote(l.queue, members)
    ELSE [l EXCEPT !.queue = RemoveFirst(@, c)]

(* Mutant: leave looks for the owner only. *)
LeaveControl_OwnerOnly(l, c, members) ==
    IF l.owner = c THEN Promote(l.queue, members) ELSE l

(* What leave(client_id) does to the lock; members are those who remain. *)
LeaveControl(l, c, members) ==
    IF l.owner = c THEN Promote(l.queue, members)
    ELSE [l EXCEPT !.queue = RemoveFirst(@, c)]

-----------------------------------------------------------------------------
(* collab_ws up to its first message: join, then presence() in the reply. *)
WsJoin(c) ==
    /\ sockets[c] < MaxSockets[c]
    /\ sockets' = [sockets EXCEPT ![c] = @ + 1]
    /\ clients' = clients \cup {c}
    /\ headless' = headless \ {c}
    /\ lock' = Expire(lock, clients')
    /\ UNCHANGED failures

Leave(c) ==
    /\ clients' = clients \ {c}
    /\ headless' = headless \ {c}
    /\ lock' = LeaveControl(lock, c, clients')

(* collab_ws after the loop: leave, by id, whatever state that id has now. *)
WsDisconnect(c) ==
    /\ sockets[c] > 0
    /\ sockets' = [sockets EXCEPT ![c] = @ - 1]
    /\ Leave(c)
    /\ UNCHANGED failures

(* _broadcast could not send to c: it goes on sending to the others ... *)
SendFails(c) ==
    /\ c \in clients \ headless
    /\ failures' = failures \cup {c}
    /\ UNCHANGED << sockets, clients, headless, lock >>

(* ... and then makes c leave, although c may have come back since. *)
LeaveFailed(c) ==
    /\ c \in failures
    /\ failures' = failures \ {c}
    /\ Leave(c)
    /\ UNCHANGED sockets

(* control.request and control.release: no one checks that c is a member. *)
Request(c, ttl) ==
    /\ sockets[c] > 0
    /\ lock' = RequestControl(lock, c, ttl, clients)
    /\ UNCHANGED << transports, clients >>

Release(c) ==
    /\ sockets[c] > 0
    /\ lock' = ReleaseControl(lock, c, clients)
    /\ UNCHANGED << transports, clients >>

(* register_headless_client: an id that is there keeps its transport. *)
Register(c) ==
    /\ clients' = clients \cup {c}
    /\ headless' = IF c \in clients THEN headless ELSE headless \cup {c}
    /\ UNCHANGED << sockets, failures >>

(* POST /room/join: register, request control if asked, read the presence. *)
RestJoin(c) ==
    /\ Register(c)
    /\ lock' = Expire(lock, clients')

RestJoinRequesting(c, ttl) ==
    /\ Register(c)
    /\ lock' = Expire(RequestControl(lock, c, ttl, clients'), clients')

(* POST /room/leave: release if asked, leave, read the presence. *)
RestLeave(c, releasing) ==
    LET l == IF releasing THEN ReleaseControl(lock, c, clients) ELSE lock
    IN  /\ clients' = clients \ {c}
        /\ headless' = headless \ {c}
        /\ lock' = Expire(LeaveControl(l, c, clients'), clients')
        /\ UNCHANGED << sockets, failures >>

(* presence(): GET /presence and every presence broadcast. *)
Presence ==
    /\ lock' = Expire(lock, clients)
    /\ UNCHANGED << transports, clients >>

Tick ==
    /\ lock.owner # NoClient /\ lock.lease > 0
    /\ lock' = [lock EXCEPT !.lease = @ - 1]
    /\ UNCHANGED << transports, clients >>

-----------------------------------------------------------------------------
ControlInit ==
    /\ sockets = [c \in Clients |-> 0]
    /\ clients = {}
    /\ headless = {}
    /\ failures = {}
    /\ lock = Free(<<>>)

Departure(c) ==
    WsDisconnect(c) \/ LeaveFailed(c) \/ \E r \in BOOLEAN : RestLeave(c, r)

ClientStep(c) ==
    \/ WsJoin(c) \/ SendFails(c) \/ Release(c) \/ RestJoin(c)
    \/ \E ttl \in Ttls : Request(c, ttl) \/ RestJoinRequesting(c, ttl)
    \/ Departure(c)

ControlNext == (\E c \in Clients : ClientStep(c)) \/ Presence \/ Tick

ControlSpec == ControlInit /\ [][ControlNext]_controlVars

(* Time passes. *)
ClockFairness == WF_controlVars(Tick)

(* A demand on the clients, which the code does not make for them: that the *)
(* presence of a room in which a lease is over be read, by GET /presence, a *)
(* presence.update, a control message or a join.  There is no timer, and    *)
(* edits (doc.apply) and pings do not read it: they are no steps here.      *)
PresenceFairness == WF_controlVars(Presence)

LiveControlSpec == ControlSpec /\ ClockFairness /\ PresenceFairness

-----------------------------------------------------------------------------
(* Properties *)

LockType == [owner : Clients \cup {NoClient}, lease : Nat, queue : Seq(Clients)]

(* Type correctness; a client with a socket transport has a loop running. *)
TypeOK ==
    /\ sockets \in [Clients -> Nat] /\ \A c \in Clients : sockets[c] <= MaxSockets[c]
    /\ clients \subseteq Clients /\ headless \subseteq clients
    /\ \A c \in clients \ headless : sockets[c] > 0
    /\ failures \subseteq Clients
    /\ lock \in LockType

Served == {c \in Clients : c \in clients \/ sockets[c] > 0}

(* Nobody waits twice, nobody waits for a lock it holds, and nobody waits   *)
(* for a free lock.  leave relies on the second: it looks for an owner in   *)
(* the owner field only (room.py:272).                                      *)
QueueSound ==
    /\ \A i, j \in DOMAIN lock.queue : lock.queue[i] = lock.queue[j] => i = j
    /\ \A i \in DOMAIN lock.queue : lock.queue[i] # lock.owner
    /\ lock.owner = NoClient => lock.queue = <<>> /\ lock.lease = 0

(* Whoever holds or awaits the lock is in the room or has a socket open,    *)
(* so that some later leave gives the lock back even if it never expires.   *)
NoOrphan ==
    /\ lock.owner # NoClient => lock.owner \in Served
    /\ \A i \in DOMAIN lock.queue : lock.queue[i] \in Served

(* The lock and its queue agree with each other and with the room, whatever *)
(* requests, departures, expiries and failed broadcasts have been through.  *)
LockSound == TypeOK /\ QueueSound /\ NoOrphan

(* A lock that changes hands goes to the waiting client that has waited     *)
(* longest, among those still in the room; a newcomer never overtakes, not  *)
(* even one whose request finds the lock expired.                           *)
Inherits(c) ==
    \E i \in DOMAIN lock.queue :
        /\ lock.queue[i] = c
        /\ \A j \in 1..(i-1) : lock.queue[j] \notin clients'

FirstComeFirstServed ==
    [][ (/\ lock'.owner \notin {NoClient, lock.owner}
         /\ \E i \in DOMAIN lock.queue : lock.queue[i] \in clients')
        => Inherits(lock'.owner) ]_controlVars

(* An owner whose lease runs loses the lock only by releasing it or by      *)
(* leaving the room, whatever the other clients do.                         *)
LeaseRespected ==
    [][ \A c \in Clients :
          (lock.owner = c /\ lock.lease > 0 /\ lock'.owner # c)
          => Release(c) \/ Departure(c) ]_controlVars

(* If owners sooner or later stop renewing their lease, and the clients     *)
(* keep reading the presence (PresenceFairness), every client in the room   *)
(* that waits for the lock stops waiting: it gets the lock, gives up or     *)
(* leaves.  (A client that waits without being in the room, as Request   *)
(* allows, is sent to the end of the queue each time it asks again.)        *)
Waiting(c) == Contains(lock.queue, c) /\ c \in clients

Renewal == lock'.owner = lock.owner /\ lock'.lease > lock.lease

NobodyStarves ==
    <>[][~Renewal]_controlVars => \A c \in Clients : (Waiting(c) ~> ~Waiting(c))
=============================================================================
