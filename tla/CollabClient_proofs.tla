-------------------------- MODULE CollabClient_proofs --------------------------
(***************************************************************************)
(* Theorems about CollabClient, for any clients, scenes, nodes and values, *)
(* any files and any bound on the events.                                  *)
(***************************************************************************)
EXTENDS CollabClient, FiniteSetTheorems, SequenceTheorems, TLAPS

States == {"connecting", "connected", "lost"}

ClientType == [id : Scenes, nodes : Contents, base : Contents, place : Scenes,
               state : States, socket : Nat, counter : Nat]

ConnType == [client : Clients, scene : Scenes, room : Nat, over : BOOLEAN,
             live : BOOLEAN, up : Seq(Seq(Ops)), down : Seq(Contents)]

Memberships == UNION {[D -> Nat] : D \in SUBSET Clients}

RoomType == [nodes : Contents, ids : SUBSET (Clients \X Nat), members : Memberships]

Typed == /\ client \in [Clients -> ClientType]
         /\ conns \in Seq(ConnType)
         /\ rooms \in Seq(RoomType)
         /\ DOMAIN hub \subseteq Scenes
         /\ disk \in [Scenes -> Contents]
         /\ silent \in [Clients -> SUBSET Nodes]
         /\ returned \subseteq Clients /\ refused \subseteq Clients

-----------------------------------------------------------------------------
(* Sequences and memberships *)

LEMMA FunctionIsSeq ==
    ASSUME NEW T, NEW N \in Nat, NEW f \in [1..N -> T]
    PROVE  f \in Seq(T) /\ Len(f) = N /\ DOMAIN f = 1..N
<1>1. f \in Seq(T)
  BY SeqDef
<1> QED BY <1>1, LenProperties

LEMMA MembershipIs ==
    ASSUME NEW f
    PROVE  f \in Memberships <=> DOMAIN f \subseteq Clients /\ f \in [DOMAIN f -> Nat]
  BY DEF Memberships

LEMMA RestrictedMembership ==
    ASSUME NEW f \in Memberships, NEW D
    PROVE  /\ Restrict(f, DOMAIN f \ D) \in Memberships
           /\ DOMAIN Restrict(f, DOMAIN f \ D) = DOMAIN f \ D
           /\ \A c \in DOMAIN f \ D : Restrict(f, DOMAIN f \ D)[c] = f[c]
<1> DEFINE g == Restrict(f, DOMAIN f \ D)
<1>1. g = [c \in DOMAIN f \ D |-> f[c]]
  BY DEF Restrict
<1>2. f \in [DOMAIN f -> Nat] /\ DOMAIN f \subseteq Clients
  BY MembershipIs
<1>3. /\ DOMAIN g = DOMAIN f \ D /\ \A c \in DOMAIN f \ D : g[c] = f[c]
      /\ g \in [DOMAIN g -> Nat] /\ DOMAIN g \subseteq Clients
  BY <1>1, <1>2
<1> HIDE DEF g
<1>4. g \in Memberships
  BY <1>3, MembershipIs
<1> QED BY <1>3, <1>4 DEF g

LEMMA NewRoomTyped ==
    ASSUME NEW nodes \in Contents
    PROVE  /\ NewRoom(nodes) \in RoomType /\ NewRoom(nodes).nodes = nodes
           /\ NewRoom(nodes).ids = {} /\ DOMAIN NewRoom(nodes).members = {}
<1> DEFINE none == [c \in {} |-> 0]
<1>1. none \in Memberships /\ DOMAIN none = {}
  <2>1. none \in [{} -> Nat] /\ {} \in SUBSET Clients
    OBVIOUS
  <2> QED BY <2>1 DEF Memberships
<1> HIDE DEF none
<1>2. NewRoom(nodes) = [nodes |-> nodes, ids |-> {}, members |-> none]
  BY DEF NewRoom, none
<1> QED BY <1>1, <1>2 DEF RoomType

LEMMA EmptyContents == Empty \in Contents
  BY DEF Empty, Contents

(* What the client sends for a change: each node that differs, once, under  *)
(* the next numbers.                                                        *)
LEMMA OperationsFacts ==
    ASSUME NEW old \in Contents, NEW new \in Contents, NEW counter \in Nat,
           NEW ops, ops = Operations(old, new, counter)
    PROVE  /\ ops \in Seq(Ops)
           /\ \A i \in DOMAIN ops : /\ i \in Nat /\ i <= Len(ops)
                                    /\ ops[i].id = counter + i
                                    /\ old[ops[i].node] # new[ops[i].node]
                                    /\ ops[i].value = new[ops[i].node]
           /\ \A i, j \in DOMAIN ops : ops[i].node = ops[j].node => i = j
           /\ \A n \in Nodes : old[n] # new[n] => \E i \in DOMAIN ops : ops[i].node = n
<1> DEFINE S == {n \in Nodes : old[n] # new[n]}
           N == Cardinality(S)
           nodes == SetToSeq(S)
<1>1. IsFiniteSet(S) /\ N \in Nat
  BY ClientAssumption, FS_Subset, FS_CardinalityType
<1>2. /\ nodes \in [1..N -> S] /\ \A i, j \in 1..N : nodes[i] = nodes[j] => i = j
  <2>1. PICK f : f \in Bijection(1..N, S)
    BY <1>1, FS_CardinalityType DEF ExistsBijection
  <2>2. f \in [1..N -> S] /\ IsInjective(f)
    BY <2>1 DEF Bijection, Injection
  <2>3. nodes \in [1..N -> S] /\ IsInjective(nodes)
    <3> HIDE DEF S, N
    <3>1. \E g \in [1..N -> S] : IsInjective(g)
      BY <2>2
    <3> QED BY <3>1 DEF SetToSeq, N
  <2> HIDE DEF nodes, S, N
  <2> QED BY <2>3 DEF IsInjective
<1> HIDE DEF nodes
<1>3. \A n \in S : \E i \in 1..N : nodes[i] = n
  <2>1. nodes \in Injection(1..N, S)
    BY <1>2 DEF Injection, IsInjective
  <2>2. Cardinality(1..N) = N
    BY <1>1, FS_Interval
  <2> HIDE DEF S
  <2>3. nodes \in Surjection(1..N, S)
    BY <1>1, <2>1, <2>2, FS_Injection
  <2> QED BY <2>3 DEF Surjection
<1>4. /\ DOMAIN nodes = 1..N
      /\ \A i \in 1..N : nodes[i] \in Nodes /\ old[nodes[i]] # new[nodes[i]]
  BY <1>2
<1>5. ops = [i \in 1..N |-> [id |-> counter + i, node |-> nodes[i], value |-> new[nodes[i]]]]
  <2>1. ops = [i \in DOMAIN nodes |-> [id |-> counter + i, node |-> nodes[i],
                                       value |-> new[nodes[i]]]]
    BY DEF Operations, nodes
  <2> QED BY <1>4, <2>1
<1> HIDE DEF N
<1>6. ops \in [1..N -> Ops]
  <2>1. \A i \in 1..N : /\ counter + i \in Nat /\ nodes[i] \in Nodes
                        /\ new[nodes[i]] \in Values \cup {None}
    BY <1>1, <1>4 DEF Contents
  <2> QED BY <1>5, <2>1 DEF Ops
<1>7. ops \in Seq(Ops) /\ Len(ops) = N /\ DOMAIN ops = 1..N
  BY <1>1, <1>6, FunctionIsSeq
<1>8. \A i \in 1..N : /\ ops[i].id = counter + i /\ ops[i].node = nodes[i]
                      /\ ops[i].value = new[nodes[i]]
  BY <1>5
<1>9. \A i, j \in DOMAIN ops : ops[i].node = ops[j].node => i = j
  BY <1>2, <1>7, <1>8
<1>10. \A n \in Nodes : old[n] # new[n] => \E i \in DOMAIN ops : ops[i].node = n
  BY <1>3, <1>7, <1>8
<1> QED BY <1>1, <1>4, <1>7, <1>8, <1>9, <1>10

-----------------------------------------------------------------------------
(* What a step does, of each kind *)

LEMMA SameDomainIsSeq ==
    ASSUME NEW T, NEW s \in Seq(T), NEW f, DOMAIN f = DOMAIN s,
           f = [i \in DOMAIN f |-> f[i]], \A i \in DOMAIN s : f[i] \in T
    PROVE  f \in Seq(T) /\ Len(f) = Len(s)
<1>1. DOMAIN s = 1..Len(s) /\ Len(s) \in Nat
  BY LenProperties
<1>2. f \in [1..Len(s) -> T]
  BY <1>1
<1> QED BY <1>1, <1>2, FunctionIsSeq

(* Every step but that of a new connection: connections stay whose they are, *)
(* and rooms lose members.                                                   *)
Shrinks ==
    /\ DOMAIN conns' = DOMAIN conns
    /\ \A m \in DOMAIN conns : /\ conns'[m].client = conns[m].client
                               /\ conns'[m].scene = conns[m].scene
                               /\ conns'[m].room = conns[m].room
    /\ DOMAIN rooms' = DOMAIN rooms
    /\ \A k \in DOMAIN rooms : \A d \in DOMAIN rooms'[k].members :
          /\ d \in DOMAIN rooms[k].members
          /\ rooms'[k].members[d] = rooms[k].members[d]
    /\ \A s \in DOMAIN hub' : s \in DOMAIN hub /\ hub'[s] = hub[s]

(* Every step in which no client gets or loses its connection. *)
StaysOn ==
    /\ \A m \in DOMAIN conns :
          /\ conns'[m].live = conns[m].live
          /\ conns'[m].over => conns[m].over \/ ~conns[m].live
    /\ \A d \in Clients :
          /\ client'[d].place = client[d].place /\ client'[d].socket = client[d].socket
          /\ client'[d].state = "connected" <=> client[d].state = "connected"

OthersSame(c) == \A d \in Clients : d # c => client'[d] = client[d]

(* KeepsToItself, Skipped, SkipEnds, Import, NotConnected and Reopen *)
LocalStep(c) ==
    /\ conns' = conns /\ rooms' = rooms /\ hub' = hub
    /\ returned' = returned /\ refused' = refused
    /\ OthersSame(c)
    /\ client'[c].place = client[c].place /\ client'[c].socket = client[c].socket
    /\ client'[c].counter = client[c].counter
    /\ client'[c].state = "connected" <=> client[c].state = "connected"
    /\ client[c].state = "connected" => client'[c].base = client[c].base

(* Moves and Disconnected *)
DropStep(c) ==
    /\ rooms' = rooms /\ hub' = hub /\ DOMAIN conns' = DOMAIN conns
    /\ OthersSame(c)
    /\ client'[c].state # "connected" /\ client'[c].socket = 0
    /\ \A m \in DOMAIN conns :
          /\ conns'[m].client = conns[m].client /\ conns'[m].scene = conns[m].scene
          /\ conns'[m].room = conns[m].room /\ conns'[m].over = conns[m].over
          /\ conns'[m].up = conns[m].up
          /\ m # client[c].socket => conns'[m] = conns[m]
          /\ m = client[c].socket => ~conns'[m].live
    /\ refused' \subseteq refused /\ refused \ {c} \subseteq refused'
    /\ returned \subseteq returned' /\ returned' \subseteq returned \cup {c}
    /\ \/ client'[c].place = client[c].place /\ client'[c].counter = client[c].counter
       \/ c \notin returned' => \A m \in DOMAIN conns :
             conns[m].client = c => conns[m].scene # client'[c].place

SendStep(c, ops) ==
    /\ rooms' = rooms /\ hub' = hub /\ returned' = returned /\ refused' = refused
    /\ OthersSame(c)
    /\ client[c].state = "connected" /\ client'[c].state = "connected"
    /\ client'[c].place = client[c].place /\ client'[c].socket = client[c].socket
    /\ client'[c].counter = client[c].counter + Len(ops)
    /\ DOMAIN conns' = DOMAIN conns
    /\ \A m \in DOMAIN conns :
          /\ m # client[c].socket => conns'[m] = conns[m]
          /\ m = client[c].socket =>
                /\ conns'[m].client = conns[m].client /\ conns'[m].scene = conns[m].scene
                /\ conns'[m].room = conns[m].room /\ conns'[m].over = conns[m].over
                /\ conns'[m].live = conns[m].live /\ conns'[m].down = conns[m].down
                /\ ops = << >> => conns'[m].up = conns[m].up
                /\ ops # << >> => conns'[m].up = Append(conns[m].up, ops)

Differences(old, new, counter, ops) ==
    /\ ops \in Seq(Ops)
    /\ \A i \in DOMAIN ops : /\ i \in Nat /\ 1 <= i /\ i <= Len(ops)
                             /\ ops[i].id = counter + i
                             /\ old[ops[i].node] # new[ops[i].node]
                             /\ ops[i].value = new[ops[i].node]
    /\ \A i, j \in DOMAIN ops : ops[i].node = ops[j].node => i = j
    /\ \A n \in Nodes : old[n] # new[n] => \E i \in DOMAIN ops : ops[i].node = n

ReceiveStep(c) ==
    /\ rooms' = rooms /\ hub' = hub /\ returned' = returned /\ refused' = refused \ {c}
    /\ OthersSame(c)
    /\ client[c].socket \in DOMAIN conns /\ conns[client[c].socket].down # << >>
    /\ client'[c].state = client[c].state /\ client'[c].counter = client[c].counter
    /\ client'[c].place = client[c].place /\ client'[c].socket = client[c].socket
    /\ client'[c].base = Head(conns[client[c].socket].down)
    /\ DOMAIN conns' = DOMAIN conns
    /\ \A m \in DOMAIN conns :
          /\ m # client[c].socket => conns'[m] = conns[m]
          /\ m = client[c].socket =>
                /\ conns'[m].client = conns[m].client /\ conns'[m].scene = conns[m].scene
                /\ conns'[m].room = conns[m].room /\ conns'[m].over = conns[m].over
                /\ conns'[m].live = conns[m].live /\ conns'[m].up = conns[m].up
                /\ conns'[m].down = Tail(conns[m].down)

(* n is the new connection, s the scene and k the room. *)
ConnectStep(c, n, s, k) ==
    /\ returned' = returned /\ refused' = refused
    /\ OthersSame(c)
    /\ client[c].state = "connecting" /\ client'[c].state = "connected"
    /\ client'[c].counter = client[c].counter
    /\ client[c].place = s /\ client'[c].place = s /\ client'[c].socket = n
    /\ n \in Nat /\ n # 0 /\ n \notin DOMAIN conns /\ DOMAIN conns' = DOMAIN conns \cup {n}
    /\ \A m \in DOMAIN conns : conns'[m] = conns[m] /\ m < n
    /\ conns'[n].client = c /\ conns'[n].scene = s /\ conns'[n].room = k
    /\ conns'[n].live /\ ~conns'[n].over /\ conns'[n].up = << >>
    /\ DOMAIN hub' = DOMAIN hub \cup {s} /\ hub'[s] = k
    /\ \A t \in DOMAIN hub : hub'[t] = hub[t]
    /\ k \in DOMAIN rooms' /\ DOMAIN rooms' = DOMAIN rooms \cup {k}
    /\ s \notin DOMAIN hub => /\ k \notin DOMAIN rooms
                             /\ rooms'[k].ids = {} /\ DOMAIN rooms'[k].members = {c}
    /\ \A j \in DOMAIN rooms :
          /\ rooms'[j].ids = rooms[j].ids /\ rooms'[j].nodes = rooms[j].nodes
          /\ DOMAIN rooms'[j].members = DOMAIN rooms[j].members \cup
                                        (IF j = k THEN {c} ELSE {})
          /\ \A d \in DOMAIN rooms[j].members :
                d # c \/ j # k => rooms'[j].members[d] = rooms[j].members[d]
    /\ rooms'[k].members[c] = n
    /\ conns'[n].down = << rooms'[k].nodes >>

(* The first batch ops, which came on the connection n of c, changes room k. *)
ServeStep(n, c, k, ops) ==
    /\ n \in DOMAIN conns /\ ~conns[n].over /\ conns[n].up # << >>
    /\ conns[n].client = c /\ conns[n].room = k /\ ops = Head(conns[n].up)
    /\ client' = client /\ hub' = hub /\ returned' = returned
    /\ refused \subseteq refused' /\ refused' \subseteq refused \cup {c}
    /\ conns[n].live /\ (\E i \in DOMAIN ops : Known(k, c, ops[i])) => c \in refused'
    /\ c \in refused' => c \in refused \/ (/\ conns[n].live
                                           /\ \E i \in DOMAIN ops : Known(k, c, ops[i]))
    /\ DOMAIN conns' = DOMAIN conns
    /\ \A m \in DOMAIN conns :
          /\ conns'[m].client = conns[m].client /\ conns'[m].scene = conns[m].scene
          /\ conns'[m].room = conns[m].room /\ conns'[m].over = conns[m].over
          /\ conns'[m].live = conns[m].live
          /\ m # n => conns'[m].up = conns[m].up
          /\ m = n => conns'[m].up = Tail(conns[m].up)
          /\ rooms'[k].nodes # rooms[k].nodes /\ m \in Hears(k, n) =>
                conns'[m].down = Append(conns[m].down, rooms'[k].nodes)
          /\ rooms'[k].nodes = rooms[k].nodes \/ m \notin Hears(k, n) =>
                conns'[m].down = conns[m].down
    /\ k \in DOMAIN rooms /\ DOMAIN rooms' = DOMAIN rooms
    /\ \A j \in DOMAIN rooms : j # k => rooms'[j] = rooms[j]
    /\ \A r \in rooms'[k].ids :
          r \in rooms[k].ids \/ \E i \in DOMAIN ops : r = << c, ops[i].id >>
    /\ \A d \in DOMAIN rooms'[k].members :
          /\ d \in DOMAIN rooms[k].members
          /\ rooms'[k].members[d] = rooms[k].members[d]
    /\ \A d \in DOMAIN rooms[k].members :
          d \in DOMAIN rooms'[k].members \/ ~conns[rooms[k].members[d]].live
    /\ (\A i \in DOMAIN ops : ~Known(k, c, ops[i])) =>
          \A i \in DOMAIN ops : \E j \in DOMAIN ops :
             ops[j].node = ops[i].node /\ rooms'[k].nodes[ops[i].node] = ops[j].value

EndStep(n, c, k) ==
    /\ n \in DOMAIN conns /\ conns[n].client = c /\ conns[n].room = k /\ ~conns[n].live
    /\ client' = client /\ returned' = returned /\ refused' = refused
    /\ DOMAIN conns' = DOMAIN conns
    /\ \A m \in DOMAIN conns :
          /\ m # n => conns'[m] = conns[m]
          /\ m = n => /\ conns'[m].client = conns[m].client
                      /\ conns'[m].scene = conns[m].scene
                      /\ conns'[m].room = conns[m].room
                      /\ conns'[m].live = conns[m].live
                      /\ conns'[m].over /\ conns'[m].up = << >>
    /\ DOMAIN rooms' = DOMAIN rooms
    /\ \A j \in DOMAIN rooms :
          /\ rooms'[j].ids \subseteq rooms[j].ids
          /\ \A d \in DOMAIN rooms'[j].members :
                /\ d \in DOMAIN rooms[j].members
                /\ rooms'[j].members[d] = rooms[j].members[d]
    /\ \A j \in DOMAIN rooms : \A m \in DOMAIN conns :
          ~conns'[m].over /\ conns[m].room = j =>
             /\ rooms'[j].nodes = rooms[j].nodes
             /\ \A d \in DOMAIN rooms[j].members :
                   j # k \/ d # c => d \in DOMAIN rooms'[j].members
    /\ \A s \in DOMAIN hub' : s \in DOMAIN hub /\ hub'[s] = hub[s]
    /\ \A s \in DOMAIN hub :
          (\E d \in DOMAIN rooms[hub[s]].members : hub[s] # k \/ d # c)
             => s \in DOMAIN hub'

LEMMA KeepsToItselfStep ==
    ASSUME Typed, NEW c \in Clients, NEW id \in Scenes, NEW nodes \in Contents,
           KeepsToItself(c, [id |-> id, nodes |-> nodes]), UNCHANGED << rooms, hub, disk >>,
           silent' = [silent EXCEPT ![c] = {}]
    PROVE  /\ Typed' /\ LocalStep(c)
           /\ client'[c].nodes = client'[c].base /\ client'[c].counter = client[c].counter
<1>1. /\ client' = [client EXCEPT ![c].nodes = nodes, ![c].base = nodes]
      /\ client[c].state # "connected"
      /\ conns' = conns /\ returned' = returned /\ refused' = refused
  BY DEF KeepsToItself
<1>2. client \in [Clients -> ClientType]
  BY DEF Typed
<1>3. /\ client' \in [Clients -> ClientType]
      /\ OthersSame(c)
      /\ client'[c].place = client[c].place /\ client'[c].socket = client[c].socket
      /\ client'[c].counter = client[c].counter
      /\ client'[c].state = client[c].state
      /\ client'[c].nodes = nodes /\ client'[c].base = nodes
  BY <1>1, <1>2 DEF ClientType, OthersSame
<1>4. silent' \in [Clients -> SUBSET Nodes]
  BY DEF Typed
<1>5. Typed'
  BY <1>1, <1>3, <1>4 DEF Typed
<1>6. LocalStep(c)
  BY <1>1, <1>3 DEF LocalStep
<1> QED BY <1>3, <1>5, <1>6

LEMMA ImportStep ==
    ASSUME Typed, NEW c \in Clients, NEW f \in Files, Import(c, f)
    PROVE  /\ Typed' /\ LocalStep(c)
           /\ client'[c].base = client[c].base
           /\ \A n \in Nodes : client'[c].nodes[n] # client'[c].base[n] => n \in silent'[c]
           /\ \A d \in Clients : d # c => silent'[d] = silent[d]
<1>1. /\ client' = [client EXCEPT ![c].id = f.id, ![c].nodes = f.nodes]
      /\ silent' = [silent EXCEPT ![c] = {n \in Nodes : f.nodes[n] # client[c].base[n]}]
      /\ conns' = conns /\ rooms' = rooms /\ hub' = hub /\ disk' = disk
      /\ returned' = returned /\ refused' = refused
  BY DEF Import
<1>2. client \in [Clients -> ClientType] /\ silent \in [Clients -> SUBSET Nodes]
  BY DEF Typed
<1>3. f.id \in Scenes /\ f.nodes \in Contents
  BY ClientAssumption
<1>4. /\ client' \in [Clients -> ClientType]
      /\ OthersSame(c)
      /\ client'[c].place = client[c].place /\ client'[c].socket = client[c].socket
      /\ client'[c].counter = client[c].counter
      /\ client'[c].state = client[c].state
      /\ client'[c].nodes = f.nodes /\ client'[c].base = client[c].base
  BY <1>1, <1>2, <1>3 DEF ClientType, OthersSame
<1>5. /\ silent' \in [Clients -> SUBSET Nodes]
      /\ silent'[c] = {n \in Nodes : f.nodes[n] # client[c].base[n]}
      /\ \A d \in Clients : d # c => silent'[d] = silent[d]
  BY <1>1, <1>2
<1>6. Typed'
  BY <1>1, <1>4, <1>5 DEF Typed
<1>7. LocalStep(c)
  BY <1>1, <1>4 DEF LocalStep
<1> QED BY <1>4, <1>5, <1>6, <1>7

(* NotConnected and Reopen *)
LEMMA TimerStep ==
    ASSUME Typed, NEW c \in Clients, NotConnected(c) \/ Reopen(c)
    PROVE  /\ Typed' /\ LocalStep(c)
           /\ \A d \in Clients : /\ client'[d].nodes = client[d].nodes
                                 /\ client'[d].base = client[d].base
           /\ silent' = silent
<1>1. PICK s \in {"lost", "connecting"} :
         /\ client' = [client EXCEPT ![c].state = s]
         /\ client[c].state # "connected"
  BY DEF NotConnected, Reopen
<1>2. /\ conns' = conns /\ rooms' = rooms /\ hub' = hub /\ disk' = disk
      /\ silent' = silent /\ returned' = returned /\ refused' = refused
  BY DEF NotConnected, Reopen
<1>3. client \in [Clients -> ClientType]
  BY DEF Typed
<1>4. /\ client' \in [Clients -> ClientType]
      /\ OthersSame(c)
      /\ client'[c].place = client[c].place /\ client'[c].socket = client[c].socket
      /\ client'[c].counter = client[c].counter
      /\ client'[c].state # "connected"
      /\ client'[c].nodes = client[c].nodes /\ client'[c].base = client[c].base
  BY <1>1, <1>3 DEF ClientType, OthersSame, States
<1>5. Typed'
  BY <1>2, <1>4 DEF Typed
<1>6. LocalStep(c)
  BY <1>1, <1>2, <1>4 DEF LocalStep
<1>7. \A d \in Clients : /\ client'[d].nodes = client[d].nodes
                         /\ client'[d].base = client[d].base
  BY <1>4 DEF OthersSame
<1> QED BY <1>2, <1>5, <1>6, <1>7

(* The connection of c is given up. *)
LEMMA ClosedFacts ==
    ASSUME Typed, NEW c \in Clients, conns' = Closed(c)
    PROVE  /\ conns' \in Seq(ConnType) /\ DOMAIN conns' = DOMAIN conns
           /\ \A m \in DOMAIN conns :
                 /\ conns'[m].client = conns[m].client /\ conns'[m].scene = conns[m].scene
                 /\ conns'[m].room = conns[m].room /\ conns'[m].over = conns[m].over
                 /\ conns'[m].up = conns[m].up
                 /\ m # client[c].socket => conns'[m] = conns[m]
                 /\ m = client[c].socket => ~conns'[m].live
<1>1. conns \in Seq(ConnType)
  BY DEF Typed
<1>2. /\ DOMAIN conns' = DOMAIN conns
      /\ conns' = [m \in DOMAIN conns' |-> conns'[m]]
      /\ \A m \in DOMAIN conns :
            conns'[m] = IF m = client[c].socket
                        THEN [conns[m] EXCEPT !.live = FALSE, !.down = << >>] ELSE conns[m]
  BY DEF Closed
<1>3. \A m \in DOMAIN conns : conns[m] \in ConnType
  BY <1>1, ElementOfSeq, LenProperties
<1>4. << >> \in Seq(Contents)
  BY EmptySeq
<1>5. ASSUME NEW m \in DOMAIN conns
      PROVE  /\ conns'[m] \in ConnType
             /\ conns'[m].client = conns[m].client /\ conns'[m].scene = conns[m].scene
             /\ conns'[m].room = conns[m].room /\ conns'[m].over = conns[m].over
             /\ conns'[m].up = conns[m].up
             /\ m # client[c].socket => conns'[m] = conns[m]
             /\ m = client[c].socket => ~conns'[m].live
  <2>1. CASE m # client[c].socket
    BY <1>2, <1>3, <2>1
  <2>2. CASE m = client[c].socket
    <3>1. conns'[m] = [conns[m] EXCEPT !.live = FALSE, !.down = << >>]
      BY <1>2, <2>2
    <3> QED BY <1>3, <1>4, <2>2, <3>1 DEF ConnType
  <2> QED BY <2>1, <2>2
<1>6. conns' \in Seq(ConnType)
  <2>1. \A m \in DOMAIN conns : conns'[m] \in ConnType
    BY <1>5
  <2> QED BY <1>1, <1>2, <2>1, SameDomainIsSeq
<1> QED BY <1>2, <1>5, <1>6

LEMMA MovesStep ==
    ASSUME Typed, NEW c \in Clients, NEW id \in Scenes, NEW nodes \in Contents,
           Moves(c, [id |-> id, nodes |-> nodes]), UNCHANGED << rooms, hub, disk >>,
           silent' = [silent EXCEPT ![c] = {}]
    PROVE  /\ Typed' /\ DropStep(c)
           /\ client'[c].nodes = client'[c].base /\ client'[c].counter = 0
<1>1. /\ client' = [client EXCEPT ![c] = [@ EXCEPT
                      !.id = id, !.nodes = nodes, !.base = nodes,
                      !.place = id, !.state = "connecting", !.socket = 0, !.counter = 0]]
      /\ conns' = Closed(c)
      /\ returned' = IF \E n \in DOMAIN conns : conns[n].client = c /\ conns[n].scene = id
                     THEN returned \cup {c} ELSE returned
      /\ refused' = refused \ {c}
  BY DEF Moves
<1>2. client \in [Clients -> ClientType]
  BY DEF Typed
<1>3. /\ client' \in [Clients -> ClientType]
      /\ OthersSame(c)
      /\ client'[c].place = id /\ client'[c].socket = 0 /\ client'[c].counter = 0
      /\ client'[c].state = "connecting"
      /\ client'[c].nodes = nodes /\ client'[c].base = nodes
  BY <1>1, <1>2 DEF ClientType, OthersSame, States
<1>4. silent' \in [Clients -> SUBSET Nodes]
  BY DEF Typed
<1>5. returned \subseteq returned' /\ returned' \subseteq returned \cup {c}
  BY <1>1
<1>6. c \notin returned' => \A m \in DOMAIN conns :
         conns[m].client = c => conns[m].scene # client'[c].place
  BY <1>1, <1>3
<1>7. rooms' = rooms /\ hub' = hub /\ disk' = disk
  OBVIOUS
<1>8. Typed'
  BY <1>1, <1>3, <1>4, <1>5, <1>7, ClosedFacts DEF Typed
<1>9. DropStep(c)
  <2>1. refused' \subseteq refused /\ refused \ {c} \subseteq refused'
    BY <1>1
  <2>2. client'[c].state # "connected"
    BY <1>3
  <2> QED BY <1>1, <1>3, <1>5, <1>6, <1>7, <2>1, <2>2, ClosedFacts DEF DropStep
<1> QED BY <1>3, <1>8, <1>9

LEMMA DisconnectedStep ==
    ASSUME Typed, NEW c \in Clients, Disconnected(c)
    PROVE  /\ Typed' /\ DropStep(c)
           /\ \A d \in Clients : /\ client'[d].nodes = client[d].nodes
                                 /\ client'[d].base = client[d].base
           /\ silent' = silent
<1>1. /\ client' = [client EXCEPT ![c].state = "lost", ![c].socket = 0]
      /\ conns' = Closed(c)
      /\ rooms' = rooms /\ hub' = hub /\ disk' = disk
      /\ silent' = silent /\ returned' = returned /\ refused' = refused
  BY DEF Disconnected
<1>2. client \in [Clients -> ClientType]
  BY DEF Typed
<1>3. /\ client' \in [Clients -> ClientType]
      /\ OthersSame(c)
      /\ client'[c].place = client[c].place /\ client'[c].socket = 0
      /\ client'[c].counter = client[c].counter
      /\ client'[c].state = "lost"
      /\ client'[c].nodes = client[c].nodes /\ client'[c].base = client[c].base
  BY <1>1, <1>2 DEF ClientType, OthersSame, States
<1>4. Typed'
  BY <1>1, <1>3, ClosedFacts DEF Typed
<1>5. DropStep(c)
  <2>1. refused' \subseteq refused /\ refused \ {c} \subseteq refused'
    BY <1>1
  <2>2. client'[c].state # "connected"
    BY <1>3
  <2>3. returned \subseteq returned' /\ returned' \subseteq returned \cup {c}
    BY <1>1
  <2> QED BY <1>1, <1>3, <2>1, <2>2, <2>3, ClosedFacts DEF DropStep
<1>6. \A d \in Clients : /\ client'[d].nodes = client[d].nodes
                         /\ client'[d].base = client[d].base
  BY <1>3 DEF OthersSame
<1> QED BY <1>1, <1>4, <1>5, <1>6

LEMMA OperationsDiffer ==
    ASSUME NEW old \in Contents, NEW new \in Contents, NEW counter \in Nat
    PROVE  Differences(old, new, counter, Operations(old, new, counter))
<1>1. PICK ops : ops = Operations(old, new, counter)
  OBVIOUS
<1>2. /\ ops \in Seq(Ops)
      /\ \A i \in DOMAIN ops : /\ i \in Nat /\ i <= Len(ops)
                               /\ ops[i].id = counter + i
                               /\ old[ops[i].node] # new[ops[i].node]
                               /\ ops[i].value = new[ops[i].node]
      /\ \A i, j \in DOMAIN ops : ops[i].node = ops[j].node => i = j
      /\ \A n \in Nodes : old[n] # new[n] => \E i \in DOMAIN ops : ops[i].node = n
  BY <1>1, OperationsFacts
<1>3. \A i \in DOMAIN ops : 1 <= i
  BY <1>2, LenProperties
<1>4. Differences(old, new, counter, ops)
  BY <1>2, <1>3 DEF Differences
<1> QED BY <1>1, <1>4

LEMMA SendsStep ==
    ASSUME Typed, NEW c \in Clients, NEW id \in Scenes, NEW nodes \in Contents,
           Sends(c, [id |-> id, nodes |-> nodes]), UNCHANGED << rooms, hub, disk >>,
           silent' = [silent EXCEPT ![c] = {}], client[c].socket \in DOMAIN conns
    PROVE  /\ Typed'
           /\ \E ops : /\ SendStep(c, ops)
                       /\ Differences(client[c].base, nodes, client[c].counter, ops)
           /\ client'[c].nodes = nodes /\ client'[c].base = nodes
<1> DEFINE ops == Operations(client[c].base, nodes, client[c].counter)
           s == client[c].socket
<1>1. /\ client[c].state = "connected"
      /\ conns' = Send(c, ops)
      /\ client' = [client EXCEPT ![c].nodes = nodes, ![c].base = nodes,
                                  ![c].counter = @ + Len(ops)]
      /\ returned' = returned /\ refused' = refused
  BY DEF Sends
<1>2. /\ client \in [Clients -> ClientType] /\ conns \in Seq(ConnType)
      /\ silent' \in [Clients -> SUBSET Nodes]
  BY DEF Typed
<1>3. client[c].base \in Contents /\ client[c].counter \in Nat
  BY <1>2 DEF ClientType
<1>4. Differences(client[c].base, nodes, client[c].counter, ops)
  BY <1>3, OperationsDiffer
<1> HIDE DEF ops
<1>5. ops \in Seq(Ops) /\ Len(ops) \in Nat
  BY <1>4, LenProperties DEF Differences
<1>6. /\ client' \in [Clients -> ClientType]
      /\ OthersSame(c)
      /\ client'[c].place = client[c].place /\ client'[c].socket = s
      /\ client'[c].counter = client[c].counter + Len(ops)
      /\ client'[c].state = "connected"
      /\ client'[c].nodes = nodes /\ client'[c].base = nodes
  <2>1. PICK more \in Nat : more = client[c].counter + Len(ops)
    BY <1>3, <1>5
  <2>2. client' = [client EXCEPT ![c].nodes = nodes, ![c].base = nodes, ![c].counter = more]
    BY <1>1, <2>1
  <2>3. /\ client[c].counter + Len(ops) = more /\ client[c].state = "connected"
    BY <1>1, <2>1
  <2> QED BY <1>2, <2>2, <2>3 DEF ClientType, OthersSame, States
<1>7. \A m \in DOMAIN conns : conns[m] \in ConnType
  BY <1>2, ElementOfSeq, LenProperties
<1>8. conns[s].up \in Seq(Seq(Ops))
  BY <1>7 DEF ConnType
<1>9. Append(conns[s].up, ops) \in Seq(Seq(Ops))
  BY <1>5, <1>8, AppendProperties
<1>10. /\ conns' \in Seq(ConnType) /\ DOMAIN conns' = DOMAIN conns
       /\ \A m \in DOMAIN conns :
             /\ m # s => conns'[m] = conns[m]
             /\ m = s =>
                   /\ conns'[m].client = conns[m].client /\ conns'[m].scene = conns[m].scene
                   /\ conns'[m].room = conns[m].room /\ conns'[m].over = conns[m].over
                   /\ conns'[m].live = conns[m].live /\ conns'[m].down = conns[m].down
                   /\ ops = << >> => conns'[m].up = conns[m].up
                   /\ ops # << >> => conns'[m].up = Append(conns[m].up, ops)
  <2>1. CASE ops = << >>
    <3>1. conns' = conns
      BY <1>1, <2>1 DEF Send
    <3> QED BY <1>2, <2>1, <3>1
  <2>2. CASE ops # << >>
    <3> DEFINE more == Append(conns[s].up, ops)
    <3>1. conns' = [conns EXCEPT ![s].up = more]
      BY <1>1, <2>2 DEF Send
    <3> HIDE DEF more
    <3>2. /\ DOMAIN conns' = DOMAIN conns /\ conns' = [m \in DOMAIN conns' |-> conns'[m]]
          /\ \A m \in DOMAIN conns : m # s => conns'[m] = conns[m]
          /\ conns'[s] = [conns[s] EXCEPT !.up = more]
      <4>1. conns = [m \in DOMAIN conns |-> conns[m]]
        BY <1>2
      <4> QED BY <3>1, <4>1
    <3>3. /\ conns'[s] \in ConnType
          /\ conns'[s].client = conns[s].client /\ conns'[s].scene = conns[s].scene
          /\ conns'[s].room = conns[s].room /\ conns'[s].over = conns[s].over
          /\ conns'[s].live = conns[s].live /\ conns'[s].down = conns[s].down
          /\ conns'[s].up = more
      <4>1. more \in Seq(Seq(Ops))
        BY <1>9 DEF more
      <4> QED BY <1>7, <3>2, <4>1 DEF ConnType
    <3>4. \A m \in DOMAIN conns : conns'[m] \in ConnType
      BY <1>7, <3>2, <3>3
    <3>5. conns' \in Seq(ConnType)
      BY <1>2, <3>2, <3>4, SameDomainIsSeq
    <3> QED BY <2>2, <3>2, <3>3, <3>5 DEF more
  <2> QED BY <2>1, <2>2
<1>11. Typed'
  BY <1>1, <1>2, <1>6, <1>10 DEF Typed
<1>12. SendStep(c, ops)
  BY <1>1, <1>6, <1>10 DEF SendStep
<1> QED BY <1>4, <1>6, <1>11, <1>12

LEMMA ReceiveEffect ==
    ASSUME Typed, NEW c \in Clients, Receive(c), client[c].socket # 0 => client[c].socket \in DOMAIN conns
    PROVE  /\ Typed' /\ ReceiveStep(c)
           /\ client'[c].nodes = client'[c].base
           /\ silent' = [silent EXCEPT ![c] = {}]
<1> DEFINE s == client[c].socket
           scene == Head(conns[s].down)
           less == Tail(conns[s].down)
<1>1. /\ client' = [client EXCEPT ![c].id = Plain, ![c].nodes = scene, ![c].base = scene]
      /\ conns' = [conns EXCEPT ![s].down = less]
      /\ refused' = refused \ {c} /\ returned' = returned
      /\ silent' = [silent EXCEPT ![c] = {}]
      /\ rooms' = rooms /\ hub' = hub /\ disk' = disk
  BY DEF Receive
<1>2. /\ client \in [Clients -> ClientType] /\ conns \in Seq(ConnType)
      /\ silent' \in [Clients -> SUBSET Nodes]
  BY <1>1 DEF Typed
<1>3. s \in DOMAIN conns /\ conns[s].down # << >>
  BY DEF Receive, Waiting
<1>4. \A m \in DOMAIN conns : conns[m] \in ConnType
  BY <1>2, ElementOfSeq, LenProperties
<1>5. conns[s].down \in Seq(Contents)
  BY <1>3, <1>4 DEF ConnType
<1>6. scene \in Contents /\ less \in Seq(Contents)
  BY <1>3, <1>5, HeadTailProperties
<1> HIDE DEF scene, less
<1>7. /\ client' \in [Clients -> ClientType]
      /\ OthersSame(c)
      /\ client'[c].place = client[c].place /\ client'[c].socket = s
      /\ client'[c].counter = client[c].counter
      /\ client'[c].state = client[c].state
      /\ client'[c].nodes = scene /\ client'[c].base = scene
  BY <1>1, <1>2, <1>6, ClientAssumption DEF ClientType, OthersSame
<1>8. /\ DOMAIN conns' = DOMAIN conns /\ conns' = [m \in DOMAIN conns' |-> conns'[m]]
      /\ \A m \in DOMAIN conns : m # s => conns'[m] = conns[m]
      /\ conns'[s] = [conns[s] EXCEPT !.down = less]
  <2>1. conns = [m \in DOMAIN conns |-> conns[m]]
    BY <1>2
  <2> QED BY <1>1, <1>3, <2>1
<1>9. /\ conns'[s] \in ConnType
      /\ conns'[s].client = conns[s].client /\ conns'[s].scene = conns[s].scene
      /\ conns'[s].room = conns[s].room /\ conns'[s].over = conns[s].over
      /\ conns'[s].live = conns[s].live /\ conns'[s].up = conns[s].up
      /\ conns'[s].down = less
  BY <1>3, <1>4, <1>6, <1>8 DEF ConnType
<1>10. conns' \in Seq(ConnType)
  <2>1. \A m \in DOMAIN conns : conns'[m] \in ConnType
    BY <1>4, <1>8, <1>9
  <2> QED BY <1>2, <1>8, <2>1, SameDomainIsSeq
<1>11. Typed'
  <2>1. refused' \subseteq Clients
    BY <1>1 DEF Typed
  <2> QED BY <1>1, <1>2, <1>7, <1>10, <2>1 DEF Typed
<1>12. ReceiveStep(c)
  BY <1>1, <1>3, <1>7, <1>8, <1>9 DEF ReceiveStep, scene, less
<1> QED BY <1>1, <1>7, <1>11, <1>12

-----------------------------------------------------------------------------
(* Rooms, hub and connections belong together: all connections of a room    *)
(* and its entry in the hub are of one scene, no two scenes share a room,   *)
(* and a member of a room points to its own connection to that room.        *)
Linked ==
    /\ \A m \in DOMAIN conns : conns[m].room \in DOMAIN rooms
    /\ \A m, o \in DOMAIN conns :
          conns[m].room = conns[o].room => conns[m].scene = conns[o].scene
    /\ \A s \in DOMAIN hub :
          /\ hub[s] \in DOMAIN rooms
          /\ \A m \in DOMAIN conns : conns[m].room = hub[s] => conns[m].scene = s
    /\ \A s, t \in DOMAIN hub : hub[s] = hub[t] => s = t
    /\ \A k \in DOMAIN rooms : \A c \in DOMAIN rooms[k].members :
          /\ rooms[k].members[c] \in DOMAIN conns
          /\ conns[rooms[k].members[c]].client = c
          /\ conns[rooms[k].members[c]].room = k

LEMMA JoinedMembership ==
    ASSUME NEW f \in Memberships, NEW c \in Clients, NEW n \in Nat
    PROVE  LET g == [d \in DOMAIN f \cup {c} |-> IF d = c THEN n ELSE f[d]]
           IN  /\ g \in Memberships /\ DOMAIN g = DOMAIN f \cup {c}
               /\ g[c] = n /\ \A d \in DOMAIN f : d # c => g[d] = f[d]
<1> DEFINE g == [d \in DOMAIN f \cup {c} |-> IF d = c THEN n ELSE f[d]]
<1>1. f \in [DOMAIN f -> Nat] /\ DOMAIN f \subseteq Clients
  BY MembershipIs
<1>2. /\ DOMAIN g = DOMAIN f \cup {c} /\ g \in [DOMAIN g -> Nat] /\ DOMAIN g \subseteq Clients
      /\ g[c] = n /\ \A d \in DOMAIN f : d # c => g[d] = f[d]
  BY <1>1
<1> HIDE DEF g
<1>3. g \in Memberships
  BY <1>2, MembershipIs
<1> QED BY <1>2, <1>3 DEF g

LEMMA ConnectedStep ==
    ASSUME Typed, Linked, NEW c \in Clients, Connected(c)
    PROVE  /\ Typed' /\ \E n, s, k : ConnectStep(c, n, s, k)
           /\ \A d \in Clients : /\ client'[d].nodes = client[d].nodes
                                 /\ client'[d].base = client[d].base
           /\ silent' = silent
<1> DEFINE s == client[c].place
           n == Len(conns) + 1
           known == s \in DOMAIN hub
           all == IF known THEN rooms ELSE Append(rooms, NewRoom(disk[s]))
           k == IF known THEN hub[s] ELSE Len(all)
           new == [client |-> c, scene |-> s, room |-> k, over |-> FALSE,
                   live |-> TRUE, up |-> << >>, down |-> << all[k].nodes >>]
           joined == [d \in DOMAIN all[k].members \cup {c} |->
                        IF d = c THEN n ELSE all[k].members[d]]
<1>1. /\ client[c].state = "connecting"
      /\ rooms' = [all EXCEPT ![k].members =
                     [d \in DOMAIN @ \cup {c} |-> IF d = c THEN n ELSE @[d]]]
      /\ hub' = [t \in DOMAIN hub \cup {s} |-> IF t = s THEN k ELSE hub[t]]
      /\ conns' = Append(conns, new)
      /\ client' = [client EXCEPT ![c].state = "connected", ![c].socket = n]
      /\ disk' = disk /\ silent' = silent
      /\ returned' = returned /\ refused' = refused
  BY DEF Connected
<1>2. /\ client \in [Clients -> ClientType] /\ conns \in Seq(ConnType)
      /\ rooms \in Seq(RoomType) /\ DOMAIN hub \subseteq Scenes
      /\ disk \in [Scenes -> Contents]
  BY DEF Typed
<1>3. s \in Scenes /\ n \in Nat /\ n # 0 /\ n \notin DOMAIN conns /\ \A m \in DOMAIN conns : m < n
  <2>1. Len(conns) \in Nat /\ DOMAIN conns = 1..Len(conns)
    BY <1>2, LenProperties
  <2>2. s \in Scenes
    BY <1>2 DEF ClientType
  <2> QED BY <2>1, <2>2
<1>4. /\ all \in Seq(RoomType) /\ k \in DOMAIN all /\ k \in Nat
      /\ DOMAIN all = DOMAIN rooms \cup {k}
      /\ \A j \in DOMAIN rooms : all[j] = rooms[j]
      /\ known => k = hub[s]
      /\ ~known => k \notin DOMAIN rooms /\ all[k].ids = {} /\ DOMAIN all[k].members = {}
  <2>1. CASE known
    <3>1. all = rooms /\ k = hub[s]
      BY <2>1
    <3>2. k \in DOMAIN rooms
      BY <2>1, <3>1 DEF Linked
    <3>3. k \in Nat
      BY <1>2, <3>2, LenProperties
    <3> HIDE DEF all, k, s
    <3> QED BY <1>2, <2>1, <3>1, <3>2, <3>3
  <2>2. CASE ~known
    <3>1. PICK r : r = NewRoom(disk[s])
      OBVIOUS
    <3>2. disk[s] \in Contents
      BY <1>2, <1>3
    <3>3. r \in RoomType /\ r.ids = {} /\ DOMAIN r.members = {}
      BY <3>1, <3>2, NewRoomTyped
    <3>4. all = Append(rooms, r) /\ k = Len(all)
      BY <2>2, <3>1
    <3>5. /\ all \in Seq(RoomType) /\ Len(all) = Len(rooms) + 1
          /\ \A j \in 1..Len(rooms) : all[j] = rooms[j]
          /\ all[Len(rooms) + 1] = r
      <4> HIDE DEF all
      <4> QED BY <1>2, <3>3, <3>4, AppendProperties
    <3>6. /\ DOMAIN rooms = 1..Len(rooms) /\ Len(rooms) \in Nat /\ DOMAIN all = 1..Len(all)
      <4> HIDE DEF all
      <4> QED BY <1>2, <3>5, LenProperties
    <3> HIDE DEF all, k
    <3>7. /\ k = Len(rooms) + 1 /\ k \in Nat /\ k \notin DOMAIN rooms
          /\ DOMAIN all = DOMAIN rooms \cup {k}
      BY <3>4, <3>5, <3>6
    <3>8. all[k] = r
      BY <3>5, <3>7
    <3>9. k \in DOMAIN all /\ \A j \in DOMAIN rooms : all[j] = rooms[j]
      BY <3>5, <3>6, <3>7
    <3> QED BY <2>2, <3>3, <3>5, <3>7, <3>8, <3>9
  <2> QED BY <2>1, <2>2
<1>5. \A j \in DOMAIN all : all[j] \in RoomType
  <2> HIDE DEF all, k
  <2>1. all \in Seq(RoomType)
    BY <1>4
  <2> QED BY <2>1, ElementOfSeq, LenProperties
<1> HIDE DEF all, k, n, s
<1>6. all[k].members \in Memberships /\ all[k].nodes \in Contents
  BY <1>4, <1>5 DEF RoomType
<1>7. /\ joined \in Memberships /\ DOMAIN joined = DOMAIN all[k].members \cup {c}
      /\ joined[c] = n
      /\ \A d \in DOMAIN all[k].members : d # c => joined[d] = all[k].members[d]
  <2>1. PICK f : f = all[k].members
    OBVIOUS
  <2>2. PICK g : g = [d \in DOMAIN f \cup {c} |-> IF d = c THEN n ELSE f[d]]
    OBVIOUS
  <2>3. f \in Memberships
    BY <1>6, <2>1
  <2>4. /\ g \in Memberships /\ DOMAIN g = DOMAIN f \cup {c}
        /\ g[c] = n /\ \A d \in DOMAIN f : d # c => g[d] = f[d]
    BY <1>3, <2>2, <2>3, JoinedMembership
  <2>5. joined = g
    BY <2>1, <2>2
  <2> QED BY <2>1, <2>4, <2>5
<1>8. rooms' = [all EXCEPT ![k].members = joined]
  BY <1>1
<1>9. hub' = [t \in DOMAIN hub \cup {s} |-> IF t = s THEN k ELSE hub[t]]
  BY <1>1
<1> HIDE DEF joined
<1>10. /\ DOMAIN rooms' = DOMAIN all /\ rooms' = [j \in DOMAIN rooms' |-> rooms'[j]]
       /\ \A j \in DOMAIN all : j # k => rooms'[j] = all[j]
       /\ rooms'[k] = [all[k] EXCEPT !.members = joined]
  <2>1. all = [j \in DOMAIN all |-> all[j]]
    BY <1>4
  <2> QED BY <1>4, <1>8, <2>1
<1>11. /\ rooms'[k] \in RoomType /\ rooms'[k].nodes = all[k].nodes
       /\ rooms'[k].ids = all[k].ids /\ rooms'[k].members = joined
  BY <1>4, <1>5, <1>7, <1>10 DEF RoomType
<1>12. rooms' \in Seq(RoomType)
  <2>1. \A j \in DOMAIN all : rooms'[j] \in RoomType
    BY <1>5, <1>10, <1>11
  <2> QED BY <1>4, <1>10, <2>1, SameDomainIsSeq
<1>13. new \in ConnType
  <2>1. << all[k].nodes >> \in Seq(Contents)
    BY <1>6
  <2>2. << >> \in Seq(Seq(Ops))
    OBVIOUS
  <2> QED BY <1>3, <1>4, <2>1, <2>2 DEF ConnType
<1>14. /\ new.client = c /\ new.scene = s /\ new.room = k /\ ~new.over /\ new.live
       /\ new.up = << >> /\ new.down = << all[k].nodes >>
  OBVIOUS
<1>15. conns' = Append(conns, new)
  BY <1>1
<1> HIDE DEF new
<1>16. /\ conns' \in Seq(ConnType) /\ DOMAIN conns' = DOMAIN conns \cup {n}
       /\ \A m \in DOMAIN conns : conns'[m] = conns[m]
       /\ conns'[n] = new
  <2>1. /\ conns' \in Seq(ConnType) /\ Len(conns') = Len(conns) + 1
        /\ \A m \in 1..Len(conns) : conns'[m] = conns[m]
        /\ conns'[Len(conns) + 1] = new
    BY <1>2, <1>13, <1>15, AppendProperties
  <2>2. /\ DOMAIN conns = 1..Len(conns) /\ Len(conns) \in Nat /\ DOMAIN conns' = 1..Len(conns')
    BY <1>2, <2>1, LenProperties
  <2> QED BY <2>1, <2>2 DEF n
<1>17. /\ client' \in [Clients -> ClientType]
       /\ OthersSame(c)
       /\ client'[c].place = s /\ client'[c].socket = n
       /\ client'[c].counter = client[c].counter
       /\ client'[c].state = "connected"
       /\ client'[c].nodes = client[c].nodes /\ client'[c].base = client[c].base
  <2>1. client' = [client EXCEPT ![c].state = "connected", ![c].socket = n]
    BY <1>1
  <2> QED BY <1>2, <1>3, <2>1 DEF ClientType, OthersSame, States, s
<1>18. DOMAIN hub' \subseteq Scenes
  BY <1>2, <1>3, <1>9
<1>19. Typed'
  BY <1>1, <1>2, <1>12, <1>16, <1>17, <1>18 DEF Typed
<1>20. /\ DOMAIN hub' = DOMAIN hub \cup {s} /\ hub'[s] = k
       /\ \A t \in DOMAIN hub : hub'[t] = hub[t]
  BY <1>4, <1>9
<1>21. ConnectStep(c, n, s, k)
  <2>1. conns'[n].room = k
    BY <1>14, <1>16
  <2>2. \A j \in DOMAIN rooms :
          /\ rooms'[j].ids = rooms[j].ids /\ rooms'[j].nodes = rooms[j].nodes
          /\ DOMAIN rooms'[j].members = DOMAIN rooms[j].members \cup (IF j = k THEN {c} ELSE {})
          /\ \A d \in DOMAIN rooms[j].members :
                d # c \/ j # k => rooms'[j].members[d] = rooms[j].members[d]
    <3> TAKE j \in DOMAIN rooms
    <3>1. CASE j # k
      <4>1. rooms'[j] = rooms[j]
        BY <1>4, <1>10, <3>1
      <4> QED BY <3>1, <4>1
    <3>2. CASE j = k
      <4>1. all[k] = rooms[k]
        BY <1>4, <3>2
      <4> QED BY <1>7, <1>11, <3>2, <4>1
    <3> QED BY <3>1, <3>2
  <2>3. s \notin DOMAIN hub => /\ k \notin DOMAIN rooms
                               /\ rooms'[k].ids = {} /\ DOMAIN rooms'[k].members = {c}
    BY <1>4, <1>7, <1>11
  <2>4. rooms'[k].members[c] = n
    BY <1>7, <1>11
  <2>5. conns'[n].down = << rooms'[k].nodes >>
    BY <1>11, <1>14, <1>16
  <2>6. k \in DOMAIN rooms' /\ DOMAIN rooms' = DOMAIN rooms \cup {k}
    BY <1>4, <1>10
  <2>7. /\ conns'[n].client = c /\ conns'[n].scene = s /\ conns'[n].live /\ ~conns'[n].over
        /\ conns'[n].up = << >>
    BY <1>14, <1>16
  <2>8. client[c].state = "connecting" /\ returned' = returned /\ refused' = refused
    BY <1>1
  <2>9. n = Len(conns) + 1 /\ s = client[c].place
    BY DEF n, s
  <2> HIDE DEF known
  <2> QED BY <1>3, <1>16, <1>17, <1>20, <2>1, <2>2, <2>3, <2>4, <2>5, <2>6, <2>7, <2>8, <2>9
          DEF ConnectStep
<1>22. \A d \in Clients : /\ client'[d].nodes = client[d].nodes
                          /\ client'[d].base = client[d].base
  BY <1>17 DEF OthersSame
<1> QED BY <1>1, <1>19, <1>21, <1>22

(* apply_operations: who is in the room stays, what was known stays, and a  *)
(* batch of new operations leaves each of its nodes with a value of its own. *)
LEMMA AppliedFacts ==
    ASSUME Typed, NEW k \in DOMAIN rooms, NEW c \in Clients, NEW ops \in Seq(Ops)
    PROVE  /\ Applied(k, c, ops) \in RoomType
           /\ Applied(k, c, ops).members = rooms[k].members
           /\ \A r \in Applied(k, c, ops).ids :
                 r \in rooms[k].ids \/ \E i \in DOMAIN ops : r = << c, ops[i].id >>
           /\ (\A i \in DOMAIN ops : ~Known(k, c, ops[i])) =>
                 \A i \in DOMAIN ops : \E j \in DOMAIN ops :
                    /\ ops[j].node = ops[i].node
                    /\ Applied(k, c, ops).nodes[ops[i].node] = ops[j].value
<1> DEFINE new == {i \in DOMAIN ops : ~Known(k, c, ops[i])}
           At(n) == {i \in new : ops[i].node = n}
           more == rooms[k].ids \cup {<< c, ops[i].id >> : i \in new}
           nodes == [n \in Nodes |-> IF At(n) = {} THEN rooms[k].nodes[n]
                                     ELSE ops[CHOOSE i \in At(n) : TRUE].value]
<1>1. Applied(k, c, ops) = [rooms[k] EXCEPT !.ids = more, !.nodes = nodes]
  BY DEF Applied
<1>2. rooms[k] \in RoomType
  <2>1. rooms \in Seq(RoomType)
    BY DEF Typed
  <2> QED BY <2>1, ElementOfSeq, LenProperties
<1>3. \A i \in DOMAIN ops : ops[i] \in Ops
  BY ElementOfSeq, LenProperties
<1>4. more \in SUBSET (Clients \X Nat)
  BY <1>2, <1>3 DEF RoomType, Ops
<1>5. \A n : At(n) # {} => (CHOOSE i \in At(n) : TRUE) \in At(n)
  OBVIOUS
<1>6. \A n \in Nodes : nodes[n] \in Values \cup {None}
  <2> TAKE n \in Nodes
  <2>1. CASE At(n) = {}
    <3>1. rooms[k].nodes \in Contents
      BY <1>2 DEF RoomType
    <3>2. nodes[n] = rooms[k].nodes[n]
      BY <2>1
    <3> QED BY <3>1, <3>2 DEF Contents
  <2>2. CASE At(n) # {}
    <3>1. PICK i \in At(n) : nodes[n] = ops[i].value
      BY <1>5, <2>2
    <3>2. i \in DOMAIN ops
      OBVIOUS
    <3> QED BY <1>3, <3>1, <3>2 DEF Ops
  <2> QED BY <2>1, <2>2
<1>7. nodes \in Contents
  <2>1. nodes = [n \in DOMAIN nodes |-> nodes[n]] /\ DOMAIN nodes = Nodes
    OBVIOUS
  <2> HIDE DEF nodes
  <2> QED BY <1>6, <2>1 DEF Contents
<1>8. ASSUME \A i \in DOMAIN ops : ~Known(k, c, ops[i])
      PROVE  \A i \in DOMAIN ops : \E j \in DOMAIN ops :
                ops[j].node = ops[i].node /\ nodes[ops[i].node] = ops[j].value
  <2> TAKE i \in DOMAIN ops
  <2>1. PICK n \in Nodes : n = ops[i].node
    BY <1>3 DEF Ops
  <2>2. i \in At(n)
    BY <1>8, <2>1
  <2>3. PICK j \in At(n) : nodes[n] = ops[j].value
    BY <1>5, <2>2
  <2>4. j \in DOMAIN ops /\ ops[j].node = n
    OBVIOUS
  <2> QED BY <2>1, <2>3, <2>4
<1>9. \A r \in more : r \in rooms[k].ids \/ \E i \in DOMAIN ops : r = << c, ops[i].id >>
  OBVIOUS
<1> HIDE DEF nodes, more
<1>10. /\ Applied(k, c, ops) \in RoomType /\ Applied(k, c, ops).members = rooms[k].members
       /\ Applied(k, c, ops).ids = more /\ Applied(k, c, ops).nodes = nodes
  BY <1>1, <1>2, <1>4, <1>7 DEF RoomType
<1> QED BY <1>8, <1>9, <1>10

(* The connections after the first batch of n is served, when the members in *)
(* H hear of it.                                                            *)
Read(cs, n) == [cs EXCEPT ![n].up = Tail(@)]
Served(cs, n, H, v) ==
    [m \in DOMAIN Read(cs, n) |->
        IF m \in H THEN [Read(cs, n)[m] EXCEPT !.down = Append(@, v)] ELSE Read(cs, n)[m]]

LEMMA ReadConns ==
    ASSUME NEW cs \in Seq(ConnType), NEW n \in DOMAIN cs, cs[n].up # << >>
    PROVE  /\ Read(cs, n) \in Seq(ConnType) /\ DOMAIN Read(cs, n) = DOMAIN cs
           /\ \A m \in DOMAIN cs :
                 /\ m # n => Read(cs, n)[m] = cs[m]
                 /\ Read(cs, n)[m].client = cs[m].client /\ Read(cs, n)[m].scene = cs[m].scene
                 /\ Read(cs, n)[m].room = cs[m].room /\ Read(cs, n)[m].over = cs[m].over
                 /\ Read(cs, n)[m].live = cs[m].live /\ Read(cs, n)[m].down = cs[m].down
                 /\ m = n => Read(cs, n)[m].up = Tail(cs[m].up)
<1>1. \A m \in DOMAIN cs : cs[m] \in ConnType
  BY ElementOfSeq, LenProperties
<1>2. cs[n].up \in Seq(Seq(Ops))
  BY <1>1 DEF ConnType
<1>3. PICK less \in Seq(Seq(Ops)) : less = Tail(cs[n].up)
  BY <1>2, HeadTailProperties
<1>4. PICK rest : rest = Read(cs, n)
  OBVIOUS
<1>5. /\ DOMAIN rest = DOMAIN cs /\ rest = [m \in DOMAIN rest |-> rest[m]]
      /\ \A m \in DOMAIN cs : m # n => rest[m] = cs[m]
      /\ rest[n] = [cs[n] EXCEPT !.up = less]
  <2>1. cs = [m \in DOMAIN cs |-> cs[m]]
    OBVIOUS
  <2>2. rest = [cs EXCEPT ![n].up = less]
    BY <1>3, <1>4 DEF Read
  <2> QED BY <2>1, <2>2
<1>6. /\ rest[n] \in ConnType
      /\ rest[n].client = cs[n].client /\ rest[n].scene = cs[n].scene
      /\ rest[n].room = cs[n].room /\ rest[n].over = cs[n].over
      /\ rest[n].live = cs[n].live /\ rest[n].down = cs[n].down
      /\ rest[n].up = less
  <2>1. cs[n] \in ConnType
    BY <1>1
  <2> QED BY <2>1, <1>5 DEF ConnType
<1>7. rest \in Seq(ConnType)
  <2>1. \A m \in DOMAIN cs : rest[m] \in ConnType
    BY <1>1, <1>5, <1>6
  <2> QED BY <1>5, <2>1, SameDomainIsSeq
<1> QED BY <1>3, <1>4, <1>5, <1>6, <1>7

LEMMA ServedConns ==
    ASSUME NEW cs \in Seq(ConnType), NEW n \in DOMAIN cs, cs[n].up # << >>,
           NEW H, NEW v \in Contents, NEW f, f = Served(cs, n, H, v)
    PROVE  /\ f \in Seq(ConnType) /\ DOMAIN f = DOMAIN cs
           /\ \A m \in DOMAIN cs :
                 /\ f[m].client = cs[m].client /\ f[m].scene = cs[m].scene
                 /\ f[m].room = cs[m].room /\ f[m].over = cs[m].over
                 /\ f[m].live = cs[m].live
                 /\ m # n => f[m].up = cs[m].up
                 /\ m = n => f[m].up = Tail(cs[m].up)
                 /\ m \in H => f[m].down = Append(cs[m].down, v)
                 /\ m \notin H => f[m].down = cs[m].down
<1>1. f = Served(cs, n, H, v)
  OBVIOUS
<1>2. PICK rest : rest = Read(cs, n)
  OBVIOUS
<1>3. /\ rest \in Seq(ConnType) /\ DOMAIN rest = DOMAIN cs
      /\ \A m \in DOMAIN cs :
            /\ m # n => rest[m] = cs[m]
            /\ rest[m].client = cs[m].client /\ rest[m].scene = cs[m].scene
            /\ rest[m].room = cs[m].room /\ rest[m].over = cs[m].over
            /\ rest[m].live = cs[m].live /\ rest[m].down = cs[m].down
            /\ m = n => rest[m].up = Tail(cs[m].up)
  BY <1>2, ReadConns
<1>4. \A m \in DOMAIN cs : rest[m] \in ConnType
  BY <1>3, ElementOfSeq, LenProperties
<1>5. /\ DOMAIN f = DOMAIN cs /\ f = [m \in DOMAIN f |-> f[m]]
      /\ \A m \in DOMAIN cs :
            /\ m \notin H => f[m] = rest[m]
            /\ m \in H => f[m] = [rest[m] EXCEPT !.down = Append(rest[m].down, v)]
  <2>1. f = [m \in DOMAIN rest |-> IF m \in H THEN [rest[m] EXCEPT !.down = Append(rest[m].down, v)]
                                   ELSE rest[m]]
    BY <1>1, <1>2 DEF Served
  <2>2. DOMAIN rest = DOMAIN cs
    BY <1>3
  <2> QED BY <2>1, <2>2
<1>6. ASSUME NEW m \in DOMAIN cs, m \in H
      PROVE  /\ f[m] \in ConnType
             /\ f[m].client = rest[m].client /\ f[m].scene = rest[m].scene
             /\ f[m].room = rest[m].room /\ f[m].over = rest[m].over
             /\ f[m].live = rest[m].live /\ f[m].up = rest[m].up
             /\ f[m].down = Append(rest[m].down, v)
  <2>1. rest[m] \in ConnType /\ rest[m].down \in Seq(Contents)
    BY <1>4 DEF ConnType
  <2>2. PICK d \in Seq(Contents) : d = Append(rest[m].down, v)
    BY <2>1, AppendProperties
  <2>3. f[m] = [rest[m] EXCEPT !.down = d]
    BY <1>5, <1>6, <2>2
  <2>4. /\ f[m] \in ConnType
        /\ f[m].client = rest[m].client /\ f[m].scene = rest[m].scene
        /\ f[m].room = rest[m].room /\ f[m].over = rest[m].over
        /\ f[m].live = rest[m].live /\ f[m].up = rest[m].up
        /\ f[m].down = d
    BY <2>1, <2>3 DEF ConnType
  <2> QED BY <2>2, <2>4
<1>7. \A m \in DOMAIN cs : f[m] \in ConnType
  BY <1>4, <1>5, <1>6
<1>8. f \in Seq(ConnType)
  BY <1>5, <1>7, SameDomainIsSeq
<1>9. ASSUME NEW m \in DOMAIN cs
      PROVE  /\ f[m].client = cs[m].client /\ f[m].scene = cs[m].scene
             /\ f[m].room = cs[m].room /\ f[m].over = cs[m].over
             /\ f[m].live = cs[m].live
             /\ m # n => f[m].up = cs[m].up
             /\ m = n => f[m].up = Tail(cs[m].up)
             /\ m \in H => f[m].down = Append(cs[m].down, v)
             /\ m \notin H => f[m].down = cs[m].down
  <2>1. CASE m \in H
    <3>1. /\ f[m].client = rest[m].client /\ f[m].scene = rest[m].scene
          /\ f[m].room = rest[m].room /\ f[m].over = rest[m].over
          /\ f[m].live = rest[m].live /\ f[m].up = rest[m].up
          /\ f[m].down = Append(rest[m].down, v)
      BY <1>6, <2>1
    <3>2. m # n => rest[m].up = cs[m].up
      BY <1>3
    <3> QED BY <1>3, <2>1, <3>1, <3>2
  <2>2. CASE m \notin H
    <3>1. f[m] = rest[m]
      BY <1>5, <2>2
    <3>2. m # n => rest[m].up = cs[m].up
      BY <1>3
    <3> QED BY <1>3, <2>2, <3>1, <3>2
  <2> QED BY <2>1, <2>2
<1> QED BY <1>1, <1>5, <1>8, <1>9

LEMMA ServeEffect ==
    ASSUME Typed, Linked, NEW n \in DOMAIN conns, NEW failed \in SUBSET Clients, Serve(n, failed)
    PROVE  /\ Typed' /\ \E c \in Clients : \E k, ops : ServeStep(n, c, k, ops)
           /\ silent' = silent
<1> DEFINE k == conns[n].room
           c == conns[n].client
           ops == Head(conns[n].up)
<1>1. PICK after : after = Applied(k, c, ops)
  OBVIOUS
<1>2. PICK H : /\ after.nodes # rooms[k].nodes => H = Hears(k, n)
               /\ after.nodes = rooms[k].nodes => H = {}
  BY Zenon
<1> DEFINE left == Restrict(after.members, DOMAIN after.members \ failed)
<1>3. /\ ~conns[n].over /\ conns[n].up # << >>
      /\ failed \subseteq Deaf(k)
      /\ rooms' = [rooms EXCEPT ![k] = [after EXCEPT !.members = left]]
      /\ disk' = IF after.nodes # rooms[k].nodes THEN [disk EXCEPT ![conns[n].scene] = after.nodes] ELSE disk
      /\ client' = client /\ hub' = hub /\ silent' = silent /\ returned' = returned
  BY <1>1 DEF Serve, ClientOf
<1>4. refused' = IF conns[n].live /\ \E i \in DOMAIN ops : Known(k, c, ops[i])
                 THEN refused \cup {c} ELSE refused
  BY DEF Serve, ClientOf
<1>5. /\ conns \in Seq(ConnType) /\ rooms \in Seq(RoomType) /\ disk \in [Scenes -> Contents]
      /\ client \in [Clients -> ClientType] /\ silent \in [Clients -> SUBSET Nodes]
      /\ DOMAIN hub \subseteq Scenes /\ returned \subseteq Clients /\ refused \subseteq Clients
  BY DEF Typed
<1>6. /\ conns[n] \in ConnType
      /\ \A j \in DOMAIN rooms : rooms[j] \in RoomType
  BY <1>5, ElementOfSeq, LenProperties
<1>7. k \in DOMAIN rooms
  BY DEF Linked
<1>8. c \in Clients /\ conns[n].scene \in Scenes /\ conns[n].up \in Seq(Seq(Ops))
  BY <1>6 DEF ConnType
<1>9. ops \in Seq(Ops)
  BY <1>3, <1>8, HeadTailProperties
<1> HIDE DEF ops, k, c
<1>10. /\ after \in RoomType /\ after.members = rooms[k].members
       /\ \A r \in after.ids : r \in rooms[k].ids \/ \E i \in DOMAIN ops : r = << c, ops[i].id >>
       /\ (\A i \in DOMAIN ops : ~Known(k, c, ops[i])) =>
             \A i \in DOMAIN ops : \E j \in DOMAIN ops :
                ops[j].node = ops[i].node /\ after.nodes[ops[i].node] = ops[j].value
  BY <1>1, <1>7, <1>8, <1>9, AppliedFacts
<1>11. after.members \in Memberships /\ after.nodes \in Contents
  BY <1>10 DEF RoomType
<1>12. /\ left \in Memberships /\ DOMAIN left = DOMAIN after.members \ failed
       /\ \A d \in DOMAIN left : left[d] = after.members[d]
  <2>1. PICK f : f = after.members
    OBVIOUS
  <2>2. f \in Memberships
    BY <1>11, <2>1
  <2>3. /\ Restrict(f, DOMAIN f \ failed) \in Memberships
        /\ DOMAIN Restrict(f, DOMAIN f \ failed) = DOMAIN f \ failed
        /\ \A d \in DOMAIN f \ failed : Restrict(f, DOMAIN f \ failed)[d] = f[d]
    BY <2>2, RestrictedMembership
  <2> QED BY <2>1, <2>3
<1> HIDE DEF left
<1>13. /\ DOMAIN rooms' = DOMAIN rooms /\ rooms' = [j \in DOMAIN rooms' |-> rooms'[j]]
       /\ \A j \in DOMAIN rooms : j # k => rooms'[j] = rooms[j]
       /\ rooms'[k] = [after EXCEPT !.members = left]
  <2>1. rooms = [j \in DOMAIN rooms |-> rooms[j]]
    BY <1>5
  <2> QED BY <1>3, <1>7, <2>1
<1>14. /\ rooms'[k] \in RoomType /\ rooms'[k].members = left
       /\ rooms'[k].ids = after.ids /\ rooms'[k].nodes = after.nodes
  BY <1>10, <1>12, <1>13 DEF RoomType
<1>15. rooms' \in Seq(RoomType)
  <2>1. \A j \in DOMAIN rooms : rooms'[j] \in RoomType
    BY <1>6, <1>13, <1>14
  <2> QED BY <1>5, <1>13, <2>1, SameDomainIsSeq
<1>16. /\ conns' \in Seq(ConnType) /\ DOMAIN conns' = DOMAIN conns
       /\ \A m \in DOMAIN conns :
             /\ conns'[m].client = conns[m].client /\ conns'[m].scene = conns[m].scene
             /\ conns'[m].room = conns[m].room /\ conns'[m].over = conns[m].over
             /\ conns'[m].live = conns[m].live
             /\ m # n => conns'[m].up = conns[m].up
             /\ m = n => conns'[m].up = Tail(conns[m].up)
             /\ m \in H => conns'[m].down = Append(conns[m].down, after.nodes)
             /\ m \notin H => conns'[m].down = conns[m].down
  <2>1. conns' = Served(conns, n, H, after.nodes)
    <3>1. PICK rest : rest = Read(conns, n)
      OBVIOUS
    <3>2. /\ after.nodes = rooms[k].nodes => conns' = rest
          /\ after.nodes # rooms[k].nodes =>
                conns' = [m \in DOMAIN rest |->
                            IF m \in Hears(k, n)
                            THEN [rest[m] EXCEPT !.down = Append(@, after.nodes)] ELSE rest[m]]
      BY <1>1, <3>1, Zenon DEF Serve, ClientOf, Read, k, c, ops
    <3>3. rest = [m \in DOMAIN rest |-> rest[m]]
      BY <1>3, <1>5, <3>1, ReadConns
    <3>4. CASE after.nodes = rooms[k].nodes
      BY <1>2, <3>1, <3>2, <3>3, <3>4 DEF Served
    <3>5. CASE after.nodes # rooms[k].nodes
      BY <1>2, <3>1, <3>2, <3>5 DEF Served
    <3> QED BY <3>4, <3>5
  <2> QED BY <1>3, <1>5, <1>11, <2>1, ServedConns
<1>17. disk' \in [Scenes -> Contents]
  <2>1. disk' = [disk EXCEPT ![conns[n].scene] = after.nodes] \/ disk' = disk
    BY <1>3, Zenon
  <2> QED BY <1>5, <1>8, <1>11, <2>1
<1>18. refused' \subseteq Clients
  <2>1. refused' = refused \cup {c} \/ refused' = refused
    BY <1>4, Zenon
  <2> QED BY <1>5, <1>8, <2>1
<1>19. Typed'
  BY <1>3, <1>5, <1>15, <1>16, <1>17, <1>18 DEF Typed
<1>20. ServeStep(n, c, k, ops)
  <2>1. /\ n \in DOMAIN conns /\ ~conns[n].over /\ conns[n].up # << >>
        /\ conns[n].client = c /\ conns[n].room = k /\ ops = Head(conns[n].up)
        /\ client' = client /\ hub' = hub /\ returned' = returned
    BY <1>3 DEF c, k, ops
  <2>2. /\ refused \subseteq refused' /\ refused' \subseteq refused \cup {c}
        /\ conns[n].live /\ (\E i \in DOMAIN ops : Known(k, c, ops[i])) => c \in refused'
        /\ c \in refused' => c \in refused \/ (/\ conns[n].live
                                               /\ \E i \in DOMAIN ops : Known(k, c, ops[i]))
    <3>1. PICK fresh \in BOOLEAN :
             fresh <=> conns[n].live /\ \E i \in DOMAIN ops : Known(k, c, ops[i])
      OBVIOUS
    <3>2. refused' = IF fresh THEN refused \cup {c} ELSE refused
      BY <1>4, <3>1
    <3>3. /\ refused \subseteq refused' /\ refused' \subseteq refused \cup {c}
          /\ fresh => c \in refused'
          /\ c \in refused' => c \in refused \/ fresh
      BY <3>2
    <3> QED BY <3>1, <3>3, Zenon
  <2>3. /\ k \in DOMAIN rooms /\ DOMAIN rooms' = DOMAIN rooms
        /\ \A j \in DOMAIN rooms : j # k => rooms'[j] = rooms[j]
        /\ \A r \in rooms'[k].ids :
              r \in rooms[k].ids \/ \E i \in DOMAIN ops : r = << c, ops[i].id >>
    BY <1>7, <1>10, <1>13, <1>14
  <2>4. \A d \in DOMAIN rooms'[k].members :
           /\ d \in DOMAIN rooms[k].members
           /\ rooms'[k].members[d] = rooms[k].members[d]
    BY <1>10, <1>12, <1>14
  <2>5. \A d \in DOMAIN rooms[k].members :
           d \in DOMAIN rooms'[k].members \/ ~conns[rooms[k].members[d]].live
    BY <1>3, <1>10, <1>12, <1>14 DEF Deaf
  <2>6. (\A i \in DOMAIN ops : ~Known(k, c, ops[i])) =>
           \A i \in DOMAIN ops : \E j \in DOMAIN ops :
              ops[j].node = ops[i].node /\ rooms'[k].nodes[ops[i].node] = ops[j].value
    BY <1>10, <1>14
  <2>7. DOMAIN conns' = DOMAIN conns
    BY <1>16
  <2>8. \A m \in DOMAIN conns :
          /\ conns'[m].client = conns[m].client /\ conns'[m].scene = conns[m].scene
          /\ conns'[m].room = conns[m].room /\ conns'[m].over = conns[m].over
          /\ conns'[m].live = conns[m].live
          /\ m # n => conns'[m].up = conns[m].up
          /\ m = n => conns'[m].up = Tail(conns[m].up)
          /\ rooms'[k].nodes # rooms[k].nodes /\ m \in Hears(k, n) =>
                conns'[m].down = Append(conns[m].down, rooms'[k].nodes)
          /\ rooms'[k].nodes = rooms[k].nodes \/ m \notin Hears(k, n) =>
                conns'[m].down = conns[m].down
    <3>1. /\ rooms'[k].nodes # rooms[k].nodes => H = Hears(k, n)
          /\ rooms'[k].nodes = rooms[k].nodes => H = {}
      BY <1>2, <1>14
    <3> QED BY <1>14, <1>16, <3>1
  <2> QED BY <2>1, <2>2, <2>3, <2>4, <2>5, <2>6, <2>7, <2>8 DEF ServeStep
<1> QED BY <1>3, <1>8, <1>19, <1>20

LEMMA EndsEffect ==
    ASSUME Typed, Linked, NEW n \in DOMAIN conns, Ends(n)
    PROVE  /\ Typed' /\ \E c \in Clients : \E k : EndStep(n, c, k)
           /\ silent' = silent
<1> DEFINE k == conns[n].room
           c == conns[n].client
           left == Restrict(rooms[k].members, DOMAIN rooms[k].members \ {c})
<1>1. PICK all : all = [rooms EXCEPT ![k].members = left]
  OBVIOUS
<1>2. /\ ~conns[n].live
      /\ conns' = [conns EXCEPT ![n].over = TRUE, ![n].up = << >>]
      /\ hub' = Discarded(k, all)
      /\ rooms' = [j \in DOMAIN all |-> IF InUse(j) THEN all[j] ELSE NewRoom(Empty)]
      /\ client' = client /\ disk' = disk /\ silent' = silent
      /\ returned' = returned /\ refused' = refused
  BY <1>1 DEF Ends, ClientOf
<1>3. /\ conns \in Seq(ConnType) /\ rooms \in Seq(RoomType) /\ disk \in [Scenes -> Contents]
      /\ client \in [Clients -> ClientType] /\ silent \in [Clients -> SUBSET Nodes]
      /\ DOMAIN hub \subseteq Scenes /\ returned \subseteq Clients /\ refused \subseteq Clients
  BY DEF Typed
<1>4. /\ \A m \in DOMAIN conns : conns[m] \in ConnType
      /\ \A j \in DOMAIN rooms : rooms[j] \in RoomType
  BY <1>3, ElementOfSeq, LenProperties
<1>5. k \in DOMAIN rooms /\ c \in Clients
  BY <1>4 DEF Linked, ConnType
<1> HIDE DEF k, c
<1>6. /\ left \in Memberships /\ DOMAIN left = DOMAIN rooms[k].members \ {c}
      /\ \A d \in DOMAIN left : left[d] = rooms[k].members[d]
  <2>1. PICK f : f = rooms[k].members
    OBVIOUS
  <2>2. f \in Memberships
    BY <1>4, <1>5, <2>1 DEF RoomType
  <2>3. PICK D : D = {c}
    OBVIOUS
  <2>4. /\ Restrict(f, DOMAIN f \ D) \in Memberships
        /\ DOMAIN Restrict(f, DOMAIN f \ D) = DOMAIN f \ D
        /\ \A d \in DOMAIN f \ D : Restrict(f, DOMAIN f \ D)[d] = f[d]
    BY <2>2, RestrictedMembership
  <2> QED BY <2>1, <2>3, <2>4
<1> HIDE DEF left
<1>7. /\ DOMAIN all = DOMAIN rooms
      /\ \A j \in DOMAIN rooms : j # k => all[j] = rooms[j]
      /\ all[k] = [rooms[k] EXCEPT !.members = left]
  BY <1>1, <1>3, <1>5
<1>8. /\ all[k] \in RoomType /\ all[k].members = left
      /\ all[k].ids = rooms[k].ids /\ all[k].nodes = rooms[k].nodes
  BY <1>4, <1>5, <1>6, <1>7 DEF RoomType
<1>9. \A j \in DOMAIN rooms :
         /\ all[j] \in RoomType /\ all[j].ids = rooms[j].ids /\ all[j].nodes = rooms[j].nodes
         /\ \A d \in DOMAIN all[j].members :
               d \in DOMAIN rooms[j].members /\ all[j].members[d] = rooms[j].members[d]
         /\ \A d \in DOMAIN rooms[j].members : j # k \/ d # c => d \in DOMAIN all[j].members
  <2> TAKE j \in DOMAIN rooms
  <2>1. CASE j # k
    BY <1>4, <1>7, <2>1
  <2>2. CASE j = k
    BY <1>6, <1>8, <2>2
  <2> QED BY <2>1, <2>2
<1>10. PICK none : /\ none = NewRoom(Empty) /\ none \in RoomType /\ none.ids = {}
                   /\ DOMAIN none.members = {}
  BY NewRoomTyped, EmptyContents
<1>11. /\ DOMAIN rooms' = DOMAIN rooms /\ rooms' = [j \in DOMAIN rooms' |-> rooms'[j]]
       /\ \A j \in DOMAIN rooms : /\ InUse(j) => rooms'[j] = all[j]
                                  /\ ~InUse(j) => rooms'[j] = none
  <2>1. rooms' = [j \in DOMAIN rooms |-> IF InUse(j) THEN all[j] ELSE none]
    BY <1>2, <1>7, <1>10
  <2> HIDE DEF InUse
  <2> QED BY <2>1
<1>12. /\ DOMAIN conns' = DOMAIN conns /\ conns' = [m \in DOMAIN conns' |-> conns'[m]]
       /\ \A m \in DOMAIN conns : m # n => conns'[m] = conns[m]
       /\ conns'[n] = [conns[n] EXCEPT !.over = TRUE, !.up = << >>]
  <2>1. conns = [m \in DOMAIN conns |-> conns[m]]
    BY <1>3
  <2> QED BY <1>2, <2>1
<1>13. /\ conns'[n] \in ConnType
       /\ conns'[n].client = conns[n].client /\ conns'[n].scene = conns[n].scene
       /\ conns'[n].room = conns[n].room /\ conns'[n].live = conns[n].live
       /\ conns'[n].over /\ conns'[n].up = << >>
  <2>1. << >> \in Seq(Seq(Ops)) /\ conns[n] \in ConnType
    BY <1>4
  <2> QED BY <1>12, <2>1 DEF ConnType
<1>14. conns' \in Seq(ConnType)
  <2>1. \A m \in DOMAIN conns : conns'[m] \in ConnType
    BY <1>4, <1>12, <1>13
  <2> QED BY <1>3, <1>12, <2>1, SameDomainIsSeq
<1>15. \A j \in DOMAIN rooms : rooms'[j] = all[j] \/ rooms'[j] = none
  BY <1>11, Zenon
<1>16. rooms' \in Seq(RoomType)
  <2>1. \A j \in DOMAIN rooms : rooms'[j] \in RoomType
    BY <1>9, <1>10, <1>15
  <2> QED BY <1>3, <1>11, <2>1, SameDomainIsSeq
<1>17. /\ \A s \in DOMAIN hub' : s \in DOMAIN hub /\ hub'[s] = hub[s]
       /\ \A s \in DOMAIN hub : DOMAIN all[hub[s]].members # {} => s \in DOMAIN hub'
  BY <1>2 DEF Discarded, Restrict
<1>18. Typed'
  BY <1>2, <1>3, <1>14, <1>16, <1>17 DEF Typed
<1>19. EndStep(n, c, k)
  <2>1. /\ n \in DOMAIN conns /\ conns[n].client = c /\ conns[n].room = k /\ ~conns[n].live
        /\ client' = client /\ returned' = returned /\ refused' = refused
    BY <1>2 DEF c, k
  <2>2. /\ DOMAIN conns' = DOMAIN conns
        /\ \A m \in DOMAIN conns :
              /\ m # n => conns'[m] = conns[m]
              /\ m = n => /\ conns'[m].client = conns[m].client
                          /\ conns'[m].scene = conns[m].scene
                          /\ conns'[m].room = conns[m].room
                          /\ conns'[m].live = conns[m].live
                          /\ conns'[m].over /\ conns'[m].up = << >>
    BY <1>12, <1>13
  <2>3. /\ DOMAIN rooms' = DOMAIN rooms
        /\ \A j \in DOMAIN rooms :
              /\ rooms'[j].ids \subseteq rooms[j].ids
              /\ \A d \in DOMAIN rooms'[j].members :
                    /\ d \in DOMAIN rooms[j].members
                    /\ rooms'[j].members[d] = rooms[j].members[d]
    BY <1>9, <1>10, <1>11, <1>15
  <2>4. \A j \in DOMAIN rooms : \A m \in DOMAIN conns :
          ~conns'[m].over /\ conns[m].room = j =>
             /\ rooms'[j].nodes = rooms[j].nodes
             /\ \A d \in DOMAIN rooms[j].members :
                   j # k \/ d # c => d \in DOMAIN rooms'[j].members
    <3> SUFFICES ASSUME NEW j \in DOMAIN rooms, NEW m \in DOMAIN conns,
                        ~conns'[m].over, conns[m].room = j
                 PROVE  rooms'[j] = all[j]
      BY <1>9
    <3>1. conns'[m].room = j
      BY <2>2
    <3>2. InUse(j)
      BY <1>12, <3>1 DEF InUse
    <3> QED BY <1>11, <3>2, Zenon
  <2>5. /\ \A s \in DOMAIN hub' : s \in DOMAIN hub /\ hub'[s] = hub[s]
        /\ \A s \in DOMAIN hub :
              (\E d \in DOMAIN rooms[hub[s]].members : hub[s] # k \/ d # c)
                 => s \in DOMAIN hub'
    <3>1. \A s \in DOMAIN hub : hub[s] \in DOMAIN rooms
      BY DEF Linked
    <3> QED BY <1>9, <1>17, <3>1
  <2> QED BY <2>1, <2>2, <2>3, <2>4, <2>5 DEF EndStep
<1> QED BY <1>2, <1>5, <1>18, <1>19

(* A client that is connected has the last of its connections, to the scene *)
(* that it is in, and that one is live; no other of them is.                *)
Socketed ==
    \A c \in Clients :
       /\ client[c].socket # 0 <=> client[c].state = "connected"
       /\ client[c].state = "connected" =>
             /\ client[c].socket \in DOMAIN conns
             /\ conns[client[c].socket].client = c
             /\ conns[client[c].socket].scene = client[c].place
             /\ conns[client[c].socket].live /\ ~conns[client[c].socket].over
             /\ \A n \in DOMAIN conns : conns[n].client = c => n <= client[c].socket
       /\ \A n \in DOMAIN conns : conns[n].client = c /\ conns[n].live => n = client[c].socket

-----------------------------------------------------------------------------
(* Every step but that of a new connection shrinks the rooms; all but that  *)
(* and the loss of a connection leave the clients on theirs.                *)

LEMMA Domains ==
    ASSUME Typed
    PROVE  /\ \A m \in DOMAIN conns : m \in Nat /\ m # 0 /\ m <= Len(conns) /\ conns[m] \in ConnType
           /\ \A m \in Nat : m # 0 /\ m <= Len(conns) => m \in DOMAIN conns
           /\ \A k \in DOMAIN rooms : rooms[k] \in RoomType
           /\ Len(conns) \in Nat
<1>1. conns \in Seq(ConnType) /\ rooms \in Seq(RoomType)
  BY DEF Typed
<1>2. /\ DOMAIN conns = 1..Len(conns) /\ Len(conns) \in Nat
      /\ \A m \in DOMAIN conns : conns[m] \in ConnType
      /\ \A k \in DOMAIN rooms : rooms[k] \in RoomType
  BY <1>1, ElementOfSeq, LenProperties
<1> QED BY <1>2

LEMMA LocalShrinks ==
    ASSUME NEW c \in Clients, LocalStep(c)
    PROVE  Shrinks /\ StaysOn
  BY DEF LocalStep, Shrinks, StaysOn, OthersSame

LEMMA DropShrinks ==
    ASSUME NEW c \in Clients, DropStep(c)
    PROVE  Shrinks
  BY DEF DropStep, Shrinks

LEMMA SendShrinks ==
    ASSUME NEW c \in Clients, NEW ops, SendStep(c, ops)
    PROVE  Shrinks /\ StaysOn
  BY DEF SendStep, Shrinks, StaysOn, OthersSame

LEMMA ReceiveShrinks ==
    ASSUME NEW c \in Clients, ReceiveStep(c)
    PROVE  Shrinks /\ StaysOn
  BY DEF ReceiveStep, Shrinks, StaysOn, OthersSame

LEMMA ServeShrinks ==
    ASSUME NEW n, NEW c, NEW k, NEW ops, ServeStep(n, c, k, ops)
    PROVE  Shrinks /\ StaysOn
<1>1. \A j \in DOMAIN rooms : \A d \in DOMAIN rooms'[j].members :
         /\ d \in DOMAIN rooms[j].members
         /\ rooms'[j].members[d] = rooms[j].members[d]
  <2> TAKE j \in DOMAIN rooms
  <2>1. CASE j = k
    BY <2>1 DEF ServeStep
  <2>2. CASE j # k
    BY <2>2 DEF ServeStep
  <2> QED BY <2>1, <2>2
<1> QED BY <1>1 DEF ServeStep, Shrinks, StaysOn

LEMMA EndShrinks ==
    ASSUME NEW n, NEW c, NEW k, EndStep(n, c, k)
    PROVE  Shrinks /\ StaysOn
<1>1. ASSUME NEW m \in DOMAIN conns
      PROVE  /\ conns'[m].client = conns[m].client /\ conns'[m].scene = conns[m].scene
             /\ conns'[m].room = conns[m].room /\ conns'[m].live = conns[m].live
             /\ conns'[m].over => conns[m].over \/ ~conns[m].live
  <2>1. CASE m = n
    BY <2>1 DEF EndStep
  <2>2. CASE m # n
    BY <2>2 DEF EndStep
  <2> QED BY <2>1, <2>2
<1> QED BY <1>1 DEF EndStep, Shrinks, StaysOn

LEMMA LinkedShrinks ==
    ASSUME Linked, Shrinks
    PROVE  Linked'
<1>1. \A m \in DOMAIN conns' : conns'[m].room \in DOMAIN rooms'
  BY DEF Linked, Shrinks
<1>2. \A m, o \in DOMAIN conns' :
         conns'[m].room = conns'[o].room => conns'[m].scene = conns'[o].scene
  BY DEF Linked, Shrinks
<1>3. \A s \in DOMAIN hub' :
         /\ hub'[s] \in DOMAIN rooms'
         /\ \A m \in DOMAIN conns' : conns'[m].room = hub'[s] => conns'[m].scene = s
  BY DEF Linked, Shrinks
<1>4. \A s, t \in DOMAIN hub' : hub'[s] = hub'[t] => s = t
  BY DEF Linked, Shrinks
<1>5. \A k \in DOMAIN rooms' : \A c \in DOMAIN rooms'[k].members :
         /\ rooms'[k].members[c] \in DOMAIN conns'
         /\ conns'[rooms'[k].members[c]].client = c
         /\ conns'[rooms'[k].members[c]].room = k
  BY DEF Linked, Shrinks
<1> QED BY <1>1, <1>2, <1>3, <1>4, <1>5 DEF Linked

(* A scene that the hub does not know gets a room that nobody has. *)
LEMMA LinkedConnects ==
    ASSUME Typed, Linked, NEW c \in Clients, NEW n, NEW s, NEW k, ConnectStep(c, n, s, k)
    PROVE  Linked'
<1>1. /\ DOMAIN conns' = DOMAIN conns \cup {n} /\ n \notin DOMAIN conns
      /\ \A m \in DOMAIN conns : conns'[m] = conns[m]
      /\ conns'[n].room = k /\ conns'[n].scene = s /\ conns'[n].client = c
      /\ DOMAIN rooms' = DOMAIN rooms \cup {k}
      /\ DOMAIN hub' = DOMAIN hub \cup {s} /\ hub'[s] = k
      /\ \A t \in DOMAIN hub : hub'[t] = hub[t]
      /\ s \notin DOMAIN hub => k \notin DOMAIN rooms /\ DOMAIN rooms'[k].members = {c}
      /\ rooms'[k].members[c] = n
  BY DEF ConnectStep
<1>2. \A m \in DOMAIN conns : conns[m].room = k => conns[m].scene = s
  <2>1. CASE s \in DOMAIN hub
    BY <1>1, <2>1 DEF Linked
  <2>2. CASE s \notin DOMAIN hub
    BY <1>1, <2>2 DEF Linked
  <2> QED BY <2>1, <2>2
<1>3. \A t \in DOMAIN hub : hub[t] = k => t = s
  <2>1. CASE s \in DOMAIN hub
    BY <1>1, <2>1 DEF Linked
  <2>2. CASE s \notin DOMAIN hub
    BY <1>1, <2>2 DEF Linked
  <2> QED BY <2>1, <2>2
<1>4. \A m \in DOMAIN conns' : conns'[m].room \in DOMAIN rooms'
  BY <1>1 DEF Linked
<1>5. \A m, o \in DOMAIN conns' :
         conns'[m].room = conns'[o].room => conns'[m].scene = conns'[o].scene
  BY <1>1, <1>2 DEF Linked
<1>6. \A t \in DOMAIN hub' :
         /\ hub'[t] \in DOMAIN rooms'
         /\ \A m \in DOMAIN conns' : conns'[m].room = hub'[t] => conns'[m].scene = t
  <2> TAKE t \in DOMAIN hub'
  <2>1. CASE t = s
    BY <1>1, <1>2, <2>1
  <2>2. CASE t # s
    <3>1. t \in DOMAIN hub /\ hub'[t] = hub[t] /\ hub[t] # k
      BY <1>1, <1>3, <2>2
    <3> QED BY <1>1, <3>1 DEF Linked
  <2> QED BY <2>1, <2>2
<1>7. \A t, u \in DOMAIN hub' : hub'[t] = hub'[u] => t = u
  BY <1>1, <1>3 DEF Linked
<1>8. \A j \in DOMAIN rooms' : \A d \in DOMAIN rooms'[j].members :
         /\ rooms'[j].members[d] \in DOMAIN conns'
         /\ conns'[rooms'[j].members[d]].client = d
         /\ conns'[rooms'[j].members[d]].room = j
  <2> TAKE j \in DOMAIN rooms'
  <2> TAKE d \in DOMAIN rooms'[j].members
  <2>1. CASE j = k /\ d = c
    BY <1>1, <2>1
  <2>2. CASE j # k \/ d # c
    <3>1. j \in DOMAIN rooms
      <4>1. s \in DOMAIN hub => k \in DOMAIN rooms
        BY <1>1 DEF Linked
      <4>2. j = k /\ s \notin DOMAIN hub => d = c
        BY <1>1
      <4> QED BY <1>1, <2>2, <4>1, <4>2
    <3>2. /\ DOMAIN rooms'[j].members = DOMAIN rooms[j].members \cup (IF j = k THEN {c} ELSE {})
          /\ \A e \in DOMAIN rooms[j].members :
                e # c \/ j # k => rooms'[j].members[e] = rooms[j].members[e]
      BY <3>1 DEF ConnectStep
    <3>3. d \in DOMAIN rooms[j].members
      BY <2>2, <3>2
    <3>4. rooms'[j].members[d] = rooms[j].members[d]
      BY <2>2, <3>2, <3>3
    <3> QED BY <1>1, <3>1, <3>3, <3>4 DEF Linked
  <2> QED BY <2>1, <2>2
<1> QED BY <1>4, <1>5, <1>6, <1>7, <1>8 DEF Linked

LEMMA SocketedStays ==
    ASSUME Socketed, Shrinks, StaysOn
    PROVE  Socketed'
<1> SUFFICES ASSUME NEW c \in Clients
             PROVE  /\ client'[c].socket # 0 <=> client'[c].state = "connected"
                    /\ client'[c].state = "connected" =>
                          /\ client'[c].socket \in DOMAIN conns'
                          /\ conns'[client'[c].socket].client = c
                          /\ conns'[client'[c].socket].scene = client'[c].place
                          /\ conns'[client'[c].socket].live /\ ~conns'[client'[c].socket].over
                          /\ \A n \in DOMAIN conns' : conns'[n].client = c => n <= client'[c].socket
                    /\ \A n \in DOMAIN conns' :
                          conns'[n].client = c /\ conns'[n].live => n = client'[c].socket
  BY Zenon DEF Socketed
<1>1. /\ client[c].socket # 0 <=> client[c].state = "connected"
      /\ client[c].state = "connected" =>
            /\ client[c].socket \in DOMAIN conns
            /\ conns[client[c].socket].client = c
            /\ conns[client[c].socket].scene = client[c].place
            /\ conns[client[c].socket].live /\ ~conns[client[c].socket].over
            /\ \A n \in DOMAIN conns : conns[n].client = c => n <= client[c].socket
      /\ \A n \in DOMAIN conns : conns[n].client = c /\ conns[n].live => n = client[c].socket
  BY Zenon DEF Socketed
<1> QED BY <1>1 DEF Shrinks, StaysOn

LEMMA SocketedDrops ==
    ASSUME Typed, Socketed, NEW c \in Clients, DropStep(c)
    PROVE  Socketed'
<1> SUFFICES ASSUME NEW d \in Clients
             PROVE  /\ client'[d].socket # 0 <=> client'[d].state = "connected"
                    /\ client'[d].state = "connected" =>
                          /\ client'[d].socket \in DOMAIN conns'
                          /\ conns'[client'[d].socket].client = d
                          /\ conns'[client'[d].socket].scene = client'[d].place
                          /\ conns'[client'[d].socket].live /\ ~conns'[client'[d].socket].over
                          /\ \A n \in DOMAIN conns' : conns'[n].client = d => n <= client'[d].socket
                    /\ \A n \in DOMAIN conns' :
                          conns'[n].client = d /\ conns'[n].live => n = client'[d].socket
  BY Zenon DEF Socketed
<1>1. \A e \in {c, d} :
      /\ client[e].socket # 0 <=> client[e].state = "connected"
      /\ client[e].state = "connected" =>
            /\ client[e].socket \in DOMAIN conns
            /\ conns[client[e].socket].client = e
            /\ conns[client[e].socket].scene = client[e].place
            /\ conns[client[e].socket].live /\ ~conns[client[e].socket].over
            /\ \A n \in DOMAIN conns : conns[n].client = e => n <= client[e].socket
      /\ \A n \in DOMAIN conns : conns[n].client = e /\ conns[n].live => n = client[e].socket
  BY DEF Socketed
<1>2. CASE d = c
  BY <1>1, <1>2 DEF DropStep
<1>3. CASE d # c
  <2>1. client'[d] = client[d]
    BY <1>3 DEF DropStep, OthersSame
  <2>2. \A n \in DOMAIN conns : conns[n].client = d => n # client[c].socket
    <3> SUFFICES ASSUME NEW n \in DOMAIN conns, n = client[c].socket
                 PROVE  conns[n].client = c
      BY <1>3
    <3>1. n # 0
      BY Domains
    <3> QED BY <1>1, <3>1
  <2>3. \A n \in DOMAIN conns : conns[n].client = d => conns'[n] = conns[n]
    BY <2>2 DEF DropStep
  <2>4. DOMAIN conns' = DOMAIN conns /\ \A n \in DOMAIN conns : conns'[n].client = conns[n].client
    BY DEF DropStep
  <2> QED BY <1>1, <2>1, <2>3, <2>4
<1> QED BY <1>2, <1>3

LEMMA SocketedConnects ==
    ASSUME Typed, Socketed, NEW c \in Clients, NEW n, NEW s, NEW k, ConnectStep(c, n, s, k)
    PROVE  Socketed'
<1> SUFFICES ASSUME NEW d \in Clients
             PROVE  /\ client'[d].socket # 0 <=> client'[d].state = "connected"
                    /\ client'[d].state = "connected" =>
                          /\ client'[d].socket \in DOMAIN conns'
                          /\ conns'[client'[d].socket].client = d
                          /\ conns'[client'[d].socket].scene = client'[d].place
                          /\ conns'[client'[d].socket].live /\ ~conns'[client'[d].socket].over
                          /\ \A m \in DOMAIN conns' : conns'[m].client = d => m <= client'[d].socket
                    /\ \A m \in DOMAIN conns' :
                          conns'[m].client = d /\ conns'[m].live => m = client'[d].socket
  BY Zenon DEF Socketed
<1>1. /\ client[d].socket # 0 <=> client[d].state = "connected"
      /\ client[d].state = "connected" =>
            /\ client[d].socket \in DOMAIN conns
            /\ conns[client[d].socket].client = d
            /\ conns[client[d].socket].scene = client[d].place
            /\ conns[client[d].socket].live /\ ~conns[client[d].socket].over
            /\ \A m \in DOMAIN conns : conns[m].client = d => m <= client[d].socket
      /\ \A m \in DOMAIN conns : conns[m].client = d /\ conns[m].live => m = client[d].socket
  BY Zenon DEF Socketed
<1>2. \A m \in DOMAIN conns : m # 0 /\ m \in Nat
  BY Domains
<1>3. /\ DOMAIN conns' = DOMAIN conns \cup {n} /\ n \notin DOMAIN conns /\ n # 0 /\ n \in Nat
      /\ \A m \in DOMAIN conns : conns'[m] = conns[m] /\ m < n
      /\ conns'[n].client = c /\ conns'[n].scene = s
      /\ conns'[n].live /\ ~conns'[n].over
      /\ client[c].state = "connecting" /\ client'[c].state = "connected"
      /\ client'[c].place = s /\ client'[c].socket = n
      /\ \A e \in Clients : e # c => client'[e] = client[e]
  BY DEF ConnectStep, OthersSame
<1>4. CASE d = c
  <2>1. \A m \in DOMAIN conns : conns[m].client = c => ~conns[m].live
    BY <1>1, <1>2, <1>3, <1>4
  <2>2. \A m \in DOMAIN conns' : m <= n
    BY <1>2, <1>3
  <2>3. \A m \in DOMAIN conns' : conns'[m].client = c /\ conns'[m].live => m = n
    BY <1>3, <2>1
  <2> QED BY <1>3, <1>4, <2>2, <2>3
<1>5. CASE d # c
  <2>1. client'[d] = client[d]
    BY <1>3, <1>5
  <2>2. \A m \in DOMAIN conns' : conns'[m].client = d => m \in DOMAIN conns
    BY <1>3, <1>5
  <2> QED BY <1>1, <1>3, <2>1, <2>2
<1> QED BY <1>4, <1>5

-----------------------------------------------------------------------------
(* Who is connected is in its room, or had been there on an earlier         *)
(* connection.                                                              *)

Before(c, n, s) == \E m \in 1..(n - 1) : conns[m].client = c /\ conns[m].scene = s

LEMMA AttachedOrBefore ==
    DetachedOnlyAfterReconnect <=>
       \A c \in Clients : client[c].state = "connected" =>
          Attached(c) \/ Before(c, client[c].socket, client[c].place)
  BY DEF DetachedOnlyAfterReconnect, Before

LEMMA BeforeStays ==
    ASSUME Typed, Shrinks, NEW c, NEW n \in DOMAIN conns, NEW s, Before(c, n, s)
    PROVE  Before(c, n, s)'
<1>1. PICK m \in 1..(n - 1) : conns[m].client = c /\ conns[m].scene = s
  BY DEF Before
<1>2. n \in Nat /\ n <= Len(conns) /\ Len(conns) \in Nat
  BY Domains
<1>3. m \in DOMAIN conns
  BY <1>2, Domains
<1>4. conns'[m].client = c /\ conns'[m].scene = s
  BY <1>1, <1>3 DEF Shrinks
<1> QED BY <1>4 DEF Before

(* A step in which the rooms and the hub stay as they are. *)
LEMMA AttachedStays ==
    ASSUME Typed, Socketed, DetachedOnlyAfterReconnect, Shrinks, rooms' = rooms, hub' = hub,
           \A d \in Clients : client'[d].state = "connected" =>
              /\ client[d].state = "connected"
              /\ client'[d].place = client[d].place /\ client'[d].socket = client[d].socket
    PROVE  DetachedOnlyAfterReconnect'
<1> SUFFICES ASSUME NEW c \in Clients, client'[c].state = "connected",
                    NEW x, x = client'[c].socket, NEW p, p = client'[c].place
             PROVE  Attached(c)' \/ Before(c, x, p)'
  BY DEF DetachedOnlyAfterReconnect, Before
<1>1. /\ client[c].state = "connected"
      /\ client'[c].place = client[c].place /\ client'[c].socket = client[c].socket
  OBVIOUS
<1>2. client[c].socket \in DOMAIN conns
  BY <1>1 DEF Socketed
<1>3. conns'[client[c].socket].room = conns[client[c].socket].room
  BY <1>2 DEF Shrinks
<1>4. CASE Attached(c)
  BY <1>1, <1>3, <1>4 DEF Attached, MyRoom
<1>5. CASE Before(c, x, p)
  BY <1>1, <1>2, <1>5, BeforeStays
<1> QED BY <1>1, <1>4, <1>5, AttachedOrBefore

LEMMA AttachedServes ==
    ASSUME Typed, Linked, Socketed, DetachedOnlyAfterReconnect,
           NEW n, NEW d, NEW k, NEW ops, ServeStep(n, d, k, ops)
    PROVE  DetachedOnlyAfterReconnect'
<1>1. Shrinks /\ client' = client /\ hub' = hub
  <2>1. Shrinks
    BY ServeShrinks
  <2> QED BY <2>1 DEF ServeStep
<1> SUFFICES ASSUME NEW c \in Clients, client[c].state = "connected",
                    NEW x, x = client[c].socket, NEW p, p = client[c].place
             PROVE  Attached(c)' \/ Before(c, x, p)'
  BY <1>1 DEF DetachedOnlyAfterReconnect, Before
<1>2. client[c].socket \in DOMAIN conns /\ conns[client[c].socket].live
  BY DEF Socketed
<1>3. conns'[client[c].socket].room = conns[client[c].socket].room
  BY <1>1, <1>2 DEF Shrinks
<1>4. CASE Attached(c)
  <2> DEFINE r == conns[client[c].socket].room
  <2>1. /\ client[c].place \in DOMAIN hub /\ hub[client[c].place] = r
        /\ c \in DOMAIN rooms[r].members /\ rooms[r].members[c] = client[c].socket
    BY <1>4 DEF Attached, MyRoom
  <2>2. r \in DOMAIN rooms
    BY <1>2 DEF Linked
  <2> HIDE DEF r
  <2>3. c \in DOMAIN rooms'[r].members
    <3>1. CASE r = k
      BY <1>2, <2>1, <3>1 DEF ServeStep
    <3>2. CASE r # k
      BY <2>1, <2>2, <3>2 DEF ServeStep
    <3> QED BY <3>1, <3>2
  <2>4. rooms'[r].members[c] = client[c].socket
    BY <1>1, <2>1, <2>2, <2>3 DEF Shrinks
  <2>5. conns'[client[c].socket].room = r
    BY <1>3 DEF r
  <2> QED BY <1>1, <2>1, <2>3, <2>4, <2>5 DEF Attached, MyRoom
<1>5. CASE Before(c, x, p)
  BY <1>1, <1>2, <1>5, BeforeStays
<1> QED BY <1>4, <1>5, AttachedOrBefore

(* The end of a loop takes its client out of the room, whatever connection *)
(* the client has to it by now.                                            *)
LEMMA AttachedEnds ==
    ASSUME Typed, Linked, Socketed, DetachedOnlyAfterReconnect,
           NEW n, NEW d, NEW k, EndStep(n, d, k)
    PROVE  DetachedOnlyAfterReconnect'
<1>1. Shrinks /\ client' = client
  BY EndShrinks DEF EndStep
<1> SUFFICES ASSUME NEW c \in Clients, client[c].state = "connected",
                    NEW x, x = client[c].socket, NEW p, p = client[c].place
             PROVE  Attached(c)' \/ Before(c, x, p)'
  BY <1>1 DEF DetachedOnlyAfterReconnect, Before
<1> DEFINE s == client[c].socket
           r == conns[s].room
<1>2. /\ s \in DOMAIN conns /\ conns[s].live /\ ~conns[s].over /\ conns[s].client = c
      /\ conns[s].scene = client[c].place
      /\ \A m \in DOMAIN conns : conns[m].client = c => m <= s
  BY DEF Socketed
<1>3. r \in DOMAIN rooms
  BY <1>2 DEF Linked
<1>4. conns'[s].room = r /\ ~conns'[s].over
  <2>1. n # s
    BY <1>2 DEF EndStep
  <2> QED BY <1>2, <2>1 DEF EndStep
<1> HIDE DEF r, s
<1>5. CASE Attached(c)
  <2>1. /\ client[c].place \in DOMAIN hub /\ hub[client[c].place] = r
        /\ c \in DOMAIN rooms[r].members /\ rooms[r].members[c] = s
    BY <1>5 DEF Attached, MyRoom, r, s
  <2>2. CASE r = k /\ c = d
    <3>1. n \in DOMAIN conns /\ conns[n].client = c /\ conns[n].room = r /\ ~conns[n].live
      BY <2>2 DEF EndStep
    <3>2. conns[n].scene = client[c].place
      <4>1. conns[n].room = conns[s].room
        BY <3>1 DEF r
      <4> QED BY <1>2, <3>1, <4>1 DEF Linked
    <3>3. n \in 1..(s - 1)
      <4>1. n <= s /\ n # s
        BY <1>2, <3>1
      <4> QED BY <1>2, <3>1, <4>1, Domains
    <3>4. Before(c, x, p)
      BY <3>1, <3>2, <3>3 DEF Before, s
    <3>5. x \in DOMAIN conns
      BY <1>2 DEF s
    <3> QED BY <1>1, <3>4, <3>5, BeforeStays
  <2>3. CASE r # k \/ c # d
    <3>1. c \in DOMAIN rooms'[r].members
      BY <1>2, <1>3, <1>4, <2>1, <2>3 DEF EndStep, r
    <3>2. rooms'[r].members[c] = s
      BY <1>1, <1>3, <2>1, <3>1 DEF Shrinks
    <3>3. client[c].place \in DOMAIN hub'
      BY <2>1, <2>3 DEF EndStep
    <3>4. hub'[client[c].place] = r
      BY <1>1, <2>1, <3>3 DEF Shrinks
    <3> QED BY <1>1, <1>4, <3>1, <3>2, <3>3, <3>4 DEF Attached, MyRoom, s
  <2> QED BY <2>2, <2>3
<1>6. CASE Before(c, x, p)
  BY <1>1, <1>2, <1>6, BeforeStays DEF s
<1> QED BY <1>5, <1>6, AttachedOrBefore

LEMMA AttachedConnects ==
    ASSUME Typed, Linked, Socketed, DetachedOnlyAfterReconnect,
           NEW d \in Clients, NEW n, NEW s, NEW k, ConnectStep(d, n, s, k)
    PROVE  DetachedOnlyAfterReconnect'
<1> SUFFICES ASSUME NEW c \in Clients, client'[c].state = "connected",
                    NEW x, x = client'[c].socket, NEW p, p = client'[c].place
             PROVE  Attached(c)' \/ Before(c, x, p)'
  BY DEF DetachedOnlyAfterReconnect, Before
<1>1. /\ DOMAIN conns' = DOMAIN conns \cup {n} /\ n \notin DOMAIN conns
      /\ \A m \in DOMAIN conns : conns'[m] = conns[m]
      /\ conns'[n].room = k
      /\ DOMAIN rooms' = DOMAIN rooms \cup {k} /\ k \in DOMAIN rooms'
      /\ DOMAIN hub' = DOMAIN hub \cup {s} /\ hub'[s] = k
      /\ \A t \in DOMAIN hub : hub'[t] = hub[t]
      /\ rooms'[k].members[d] = n
      /\ client'[d].place = s /\ client'[d].socket = n
      /\ \A e \in Clients : e # d => client'[e] = client[e]
  BY DEF ConnectStep, OthersSame
<1>2. s \notin DOMAIN hub => k \notin DOMAIN rooms /\ DOMAIN rooms'[k].members = {d}
  BY DEF ConnectStep
<1>3. \A j \in DOMAIN rooms :
        /\ DOMAIN rooms'[j].members = DOMAIN rooms[j].members \cup (IF j = k THEN {d} ELSE {})
        /\ \A e \in DOMAIN rooms[j].members :
              e # d \/ j # k => rooms'[j].members[e] = rooms[j].members[e]
  BY DEF ConnectStep
<1>4. CASE c = d
  <2>1. d \in DOMAIN rooms'[k].members
    <3>1. CASE s \in DOMAIN hub
      <4>1. k \in DOMAIN rooms
        BY <1>1, <3>1 DEF Linked
      <4> QED BY <1>3, <4>1
    <3>2. CASE s \notin DOMAIN hub
      BY <1>2, <3>2
    <3> QED BY <3>1, <3>2
  <2> QED BY <1>1, <1>4, <2>1 DEF Attached, MyRoom
<1>5. CASE c # d
  <2>1. client'[c] = client[c] /\ client[c].state = "connected"
    BY <1>1, <1>5
  <2>2. client[c].socket \in DOMAIN conns
    BY <2>1 DEF Socketed
  <2>3. conns'[client[c].socket] = conns[client[c].socket]
    BY <1>1, <2>2
  <2>4. CASE Attached(c)
    <3> DEFINE r == conns[client[c].socket].room
    <3>1. /\ client[c].place \in DOMAIN hub /\ hub[client[c].place] = r
          /\ c \in DOMAIN rooms[r].members /\ rooms[r].members[c] = client[c].socket
      BY <2>4 DEF Attached, MyRoom
    <3>2. r \in DOMAIN rooms
      BY <2>2 DEF Linked
    <3> HIDE DEF r
    <3>3. c \in DOMAIN rooms'[r].members /\ rooms'[r].members[c] = client[c].socket
      BY <1>3, <1>5, <3>1, <3>2
    <3>4. conns'[client[c].socket].room = r
      BY <2>3 DEF r
    <3> QED BY <1>1, <2>1, <3>1, <3>3, <3>4 DEF Attached, MyRoom
  <2>5. CASE Before(c, x, p)
    <3>1. PICK m \in 1..(x - 1) : conns[m].client = c /\ conns[m].scene = p
      BY <2>5 DEF Before
    <3>2. m \in DOMAIN conns
      <4>1. x \in Nat /\ x <= Len(conns) /\ Len(conns) \in Nat
        BY <2>1, <2>2, Domains
      <4> QED BY <3>1, <4>1, Domains
    <3>3. conns'[m] = conns[m]
      BY <1>1, <3>2
    <3> QED BY <3>1, <3>3 DEF Before
  <2> QED BY <2>1, <2>4, <2>5, AttachedOrBefore
<1> QED BY <1>4, <1>5

-----------------------------------------------------------------------------
(* Operations are new to the room that they go to: a client that has not    *)
(* come back to a scene has counted on since it is there, so that what it   *)
(* has under way was never sent before.                                     *)

Mine(c) == {m \in DOMAIN conns : conns[m].client = c /\ conns[m].scene = client[c].place}

(* x is the number of operation i in batch a on connection m. *)
Pending(c, m, a, i, x) == /\ m \in Mine(c) /\ a \in DOMAIN conns[m].up
                          /\ i \in DOMAIN conns[m].up[a] /\ x = conns[m].up[a][i].id

Fresh(c) ==
    /\ \A m \in Mine(c) : \A r \in rooms[conns[m].room].ids : r[1] = c => r[2] <= client[c].counter
    /\ \A m, a, i, x : Pending(c, m, a, i, x) =>
          x <= client[c].counter /\ << c, x >> \notin rooms[conns[m].room].ids
    /\ \A m, a, i, o, b, j, x : Pending(c, m, a, i, x) /\ Pending(c, o, b, j, x) =>
          m = o /\ a = b /\ i = j

(* What a room knows was sent to it on some connection of the client. *)
Sourced == \A k \in DOMAIN rooms : \A r \in rooms[k].ids :
              \E m \in DOMAIN conns : conns[m].client = r[1] /\ conns[m].room = k

Numbered == Sourced /\ \A c \in Clients \ returned : Fresh(c)

LEMMA Counts ==
    ASSUME Typed
    PROVE  /\ \A c \in Clients : client[c].counter \in Nat
           /\ \A k \in DOMAIN rooms : \A r \in rooms[k].ids : r = << r[1], r[2] >> /\ r[2] \in Nat
           /\ \A c, m, a, i, x : Pending(c, m, a, i, x) => x \in Nat /\ a \in Nat /\ i \in Nat /\ a # 0
           /\ \A m \in DOMAIN conns : conns[m].up \in Seq(Seq(Ops))
<1>1. \A c \in Clients : client[c].counter \in Nat
  BY DEF Typed, ClientType
<1>2. \A k \in DOMAIN rooms : rooms[k].ids \subseteq Clients \X Nat
  BY Domains DEF RoomType
<1>3. \A k \in DOMAIN rooms : \A r \in rooms[k].ids : r = << r[1], r[2] >> /\ r[2] \in Nat
  BY <1>2
<1>4. \A m \in DOMAIN conns : conns[m].up \in Seq(Seq(Ops))
  BY Domains DEF ConnType
<1>5. ASSUME NEW c, NEW m, NEW a, NEW i, NEW x, Pending(c, m, a, i, x)
      PROVE  x \in Nat /\ a \in Nat /\ i \in Nat /\ a # 0
  <2>1. m \in DOMAIN conns /\ a \in DOMAIN conns[m].up
        /\ i \in DOMAIN conns[m].up[a] /\ x = conns[m].up[a][i].id
    BY <1>5 DEF Pending, Mine
  <2>2. conns[m].up \in Seq(Seq(Ops))
    BY <1>4, <2>1
  <2>3. a \in 1..Len(conns[m].up) /\ Len(conns[m].up) \in Nat
    BY <2>1, <2>2, LenProperties
  <2>4. conns[m].up[a] \in Seq(Ops)
    BY <2>2, <2>3, ElementOfSeq
  <2>5. i \in 1..Len(conns[m].up[a]) /\ Len(conns[m].up[a]) \in Nat
    BY <2>1, <2>4, LenProperties
  <2>6. conns[m].up[a][i] \in Ops
    BY <2>4, <2>5, ElementOfSeq
  <2> QED BY <2>1, <2>3, <2>5, <2>6 DEF Ops
<1> QED BY <1>1, <1>3, <1>4, <1>5

LEMMA FreshKept ==
    ASSUME Typed, Shrinks, NEW c \in Clients, Fresh(c),
           client'[c].place = client[c].place,
           client'[c].counter \in Nat, client[c].counter <= client'[c].counter,
           \A m \in Mine(c) :
              /\ conns'[m].up = conns[m].up \/ conns'[m].up = << >>
              /\ \A r \in rooms'[conns[m].room].ids : r[1] = c => r \in rooms[conns[m].room].ids,
           \A m \in Mine(c) : conns[m].room \in DOMAIN rooms
    PROVE  Fresh(c)'
<1>1. Mine(c)' = Mine(c)
  BY DEF Mine, Shrinks
<1>2. \A m \in Mine(c) : conns'[m].room = conns[m].room
  BY DEF Mine, Shrinks
<1>3. \A m, a, i, x : Pending(c, m, a, i, x)' => Pending(c, m, a, i, x)
  <2> SUFFICES ASSUME NEW m, NEW a, NEW i, NEW x, Pending(c, m, a, i, x)'
               PROVE  Pending(c, m, a, i, x)
    OBVIOUS
  <2>1. /\ m \in Mine(c) /\ a \in DOMAIN conns'[m].up
        /\ i \in DOMAIN conns'[m].up[a] /\ x = conns'[m].up[a][i].id
    BY <1>1 DEF Pending
  <2>2. conns'[m].up = conns[m].up
    <3>1. conns'[m].up # << >>
      <4>1. DOMAIN << >> = {}
        OBVIOUS
      <4> QED BY <2>1, <4>1
    <3> QED BY <2>1, <3>1
  <2> QED BY <2>1, <2>2 DEF Pending
<1>4. \A m \in Mine(c)' : \A r \in rooms'[conns'[m].room].ids : r[1] = c => r[2] <= client'[c].counter
  <2> SUFFICES ASSUME NEW m \in Mine(c), NEW r \in rooms'[conns[m].room].ids, r[1] = c
               PROVE  r[2] <= client'[c].counter
    BY <1>1, <1>2
  <2>1. r \in rooms[conns[m].room].ids
    OBVIOUS
  <2>2. r[2] <= client[c].counter /\ r[2] \in Nat /\ client[c].counter \in Nat
    BY <2>1, Counts DEF Fresh
  <2> QED BY <2>2
<1>5. \A m, a, i, x : Pending(c, m, a, i, x)' =>
         x <= client'[c].counter /\ << c, x >> \notin rooms'[conns'[m].room].ids
  <2> SUFFICES ASSUME NEW m, NEW a, NEW i, NEW x, Pending(c, m, a, i, x)
               PROVE  x <= client'[c].counter /\ << c, x >> \notin rooms'[conns'[m].room].ids
    BY <1>3
  <2>1. m \in Mine(c)
    BY DEF Pending
  <2>2. x <= client[c].counter /\ << c, x >> \notin rooms[conns[m].room].ids
    BY DEF Fresh
  <2>3. << c, x >> \notin rooms'[conns[m].room].ids
    BY <2>1, <2>2
  <2>4. x \in Nat /\ client[c].counter \in Nat
    BY Counts
  <2>5. x <= client'[c].counter
    BY <2>2, <2>4
  <2> QED BY <1>2, <2>1, <2>3, <2>5
<1>6. \A m, a, i, o, b, j, x : Pending(c, m, a, i, x)' /\ Pending(c, o, b, j, x)' =>
         m = o /\ a = b /\ i = j
  BY <1>3 DEF Fresh
<1> QED BY <1>4, <1>5, <1>6 DEF Fresh

(* What c sends next is numbered from its counter on. *)
LEMMA FreshSends ==
    ASSUME Typed, Linked, Socketed, NEW c \in Clients, NEW ops, NEW old, NEW new, SendStep(c, ops),
           Differences(old, new, client[c].counter, ops), Fresh(c), client'[c].counter \in Nat
    PROVE  Fresh(c)'
<1> DEFINE s == client[c].socket
           N == Len(conns[s].up)
<1>1. /\ Shrinks /\ rooms' = rooms /\ client'[c].place = client[c].place
      /\ client'[c].counter = client[c].counter + Len(ops)
      /\ \A m \in DOMAIN conns :
            /\ m # s => conns'[m] = conns[m]
            /\ m = s => /\ ops = << >> => conns'[m].up = conns[m].up
                        /\ ops # << >> => conns'[m].up = Append(conns[m].up, ops)
  BY SendShrinks DEF SendStep
<1>2. s \in Mine(c)
  BY DEF SendStep, Socketed, Mine
<1>3. conns[s].up \in Seq(Seq(Ops)) /\ ops \in Seq(Ops)
  BY <1>2, Counts DEF Mine, Differences
<1>4. /\ N \in Nat /\ DOMAIN conns[s].up = 1..N /\ Len(ops) \in Nat
      /\ client[c].counter \in Nat
  BY <1>3, LenProperties, Counts
<1>5. /\ Len(Append(conns[s].up, ops)) = N + 1
      /\ DOMAIN Append(conns[s].up, ops) = 1..(N + 1)
      /\ \A a \in 1..N : Append(conns[s].up, ops)[a] = conns[s].up[a]
      /\ Append(conns[s].up, ops)[N + 1] = ops
  <2>1. /\ Append(conns[s].up, ops) \in Seq(Seq(Ops)) /\ Len(Append(conns[s].up, ops)) = N + 1
        /\ \A a \in 1..N : Append(conns[s].up, ops)[a] = conns[s].up[a]
        /\ Append(conns[s].up, ops)[N + 1] = ops
    BY <1>3, AppendProperties
  <2>2. DOMAIN Append(conns[s].up, ops) = 1..Len(Append(conns[s].up, ops))
    BY <2>1, LenProperties
  <2> QED BY <2>1, <2>2
<1>6. Mine(c)' = Mine(c) /\ \A m \in Mine(c) : conns'[m].room = conns[m].room
  BY <1>1 DEF Mine, Shrinks
<1> HIDE DEF s, N
<1>7. \A m, a, i, x : Pending(c, m, a, i, x)' =>
         \/ Pending(c, m, a, i, x)
         \/ m = s /\ a = N + 1 /\ i \in DOMAIN ops /\ x = client[c].counter + i
  <2> SUFFICES ASSUME NEW m, NEW a, NEW i, NEW x, Pending(c, m, a, i, x)'
               PROVE  \/ Pending(c, m, a, i, x)
                      \/ m = s /\ a = N + 1 /\ i \in DOMAIN ops /\ x = client[c].counter + i
    OBVIOUS
  <2>1. /\ m \in Mine(c) /\ a \in DOMAIN conns'[m].up
        /\ i \in DOMAIN conns'[m].up[a] /\ x = conns'[m].up[a][i].id
    BY <1>6 DEF Pending
  <2>2. m \in DOMAIN conns
    BY <2>1 DEF Mine
  <2>3. CASE conns'[m].up = conns[m].up
    BY <2>1, <2>3 DEF Pending
  <2>4. CASE conns'[m].up # conns[m].up
    <3>1. m = s /\ conns'[m].up = Append(conns[s].up, ops)
      BY <1>1, <2>2, <2>4
    <3>2. a \in 1..(N + 1)
      BY <1>5, <2>1, <3>1
    <3>3. CASE a = N + 1
      <4>1. conns'[m].up[a] = ops
        BY <1>5, <3>1, <3>3
      <4> QED BY <2>1, <3>1, <3>3, <4>1 DEF Differences
    <3>4. CASE a # N + 1
      <4>1. a \in 1..N
        BY <1>4, <3>2, <3>4
      <4>2. conns'[m].up[a] = conns[m].up[a]
        BY <1>5, <3>1, <4>1
      <4> QED BY <1>4, <2>1, <3>1, <4>1, <4>2 DEF Pending
    <3> QED BY <3>3, <3>4
  <2> QED BY <2>3, <2>4
<1>8. \A i \in DOMAIN ops : i \in Nat /\ 1 <= i /\ i <= Len(ops)
  BY DEF Differences
<1>9. \A m \in Mine(c)' : \A r \in rooms'[conns'[m].room].ids : r[1] = c => r[2] <= client'[c].counter
  <2> SUFFICES ASSUME NEW m \in Mine(c), NEW r \in rooms[conns[m].room].ids, r[1] = c
               PROVE  r[2] <= client'[c].counter
    BY <1>1, <1>6
  <2>1. r[2] \in Nat
    BY Counts DEF Linked, Mine
  <2>2. r[2] <= client[c].counter
    BY DEF Fresh
  <2> QED BY <1>1, <1>4, <2>1, <2>2
<1>10. \A m, a, i, x : Pending(c, m, a, i, x)' =>
         x <= client'[c].counter /\ << c, x >> \notin rooms'[conns'[m].room].ids
  <2> SUFFICES ASSUME NEW m, NEW a, NEW i, NEW x, Pending(c, m, a, i, x)'
               PROVE  x <= client'[c].counter /\ << c, x >> \notin rooms[conns[m].room].ids
    BY <1>1, <1>6 DEF Pending
  <2>1. CASE Pending(c, m, a, i, x)
    <3>1. x <= client[c].counter /\ << c, x >> \notin rooms[conns[m].room].ids
      BY <2>1 DEF Fresh
    <3>2. x \in Nat
      BY <2>1, Counts
    <3> QED BY <1>1, <1>4, <3>1, <3>2
  <2>2. CASE m = s /\ i \in DOMAIN ops /\ x = client[c].counter + i
    <3>1. x \in Nat /\ x <= client'[c].counter /\ ~(x <= client[c].counter)
      BY <1>1, <1>4, <1>8, <2>2
    <3>2. << c, x >> \notin rooms[conns[m].room].ids
      <4> SUFFICES ASSUME << c, x >> \in rooms[conns[m].room].ids
                   PROVE  FALSE
        OBVIOUS
      <4>1. << c, x >>[1] = c /\ << c, x >>[2] = x
        OBVIOUS
      <4> QED BY <1>2, <2>2, <3>1, <4>1 DEF Fresh
    <3> QED BY <3>1, <3>2
  <2> QED BY <1>7, <2>1, <2>2
<1>11. \A m, a, i, o, b, j, x : Pending(c, m, a, i, x)' /\ Pending(c, o, b, j, x)' =>
         m = o /\ a = b /\ i = j
  <2> SUFFICES ASSUME NEW m, NEW a, NEW i, NEW o, NEW b, NEW j, NEW x,
                      Pending(c, m, a, i, x)', Pending(c, o, b, j, x)'
               PROVE  m = o /\ a = b /\ i = j
    BY Zenon
  <2>1. \A e, f, h : Pending(c, e, f, h, x) => x <= client[c].counter /\ x \in Nat
    BY Counts DEF Fresh
  <2>2. \A h \in DOMAIN ops : x = client[c].counter + h => ~(x <= client[c].counter)
    BY <1>4, <1>8
  <2>3. CASE Pending(c, m, a, i, x)
    <3>1. Pending(c, o, b, j, x)
      BY <1>7, <2>1, <2>2, <2>3
    <3> QED BY <2>3, <3>1 DEF Fresh
  <2>4. CASE m = s /\ a = N + 1 /\ i \in DOMAIN ops /\ x = client[c].counter + i
    <3>1. o = s /\ b = N + 1 /\ j \in DOMAIN ops /\ x = client[c].counter + j
      BY <1>7, <2>1, <2>2, <2>4
    <3>2. i = j
      BY <1>4, <1>8, <2>4, <3>1
    <3> QED BY <2>4, <3>1, <3>2
  <2> QED BY <1>7, <2>3, <2>4
<1> QED BY <1>9, <1>10, <1>11 DEF Fresh

LEMMA TailFacts ==
    ASSUME NEW T, NEW s \in Seq(T), s # << >>
    PROVE  /\ Tail(s) \in Seq(T) /\ Len(s) \in Nat /\ Len(s) > 0 /\ DOMAIN s = 1..Len(s)
           /\ DOMAIN Tail(s) = 1..(Len(s) - 1) /\ Head(s) = s[1]
           /\ \A a \in DOMAIN Tail(s) : a + 1 \in DOMAIN s /\ Tail(s)[a] = s[a + 1]
<1>1. /\ Tail(s) \in Seq(T) /\ Len(Tail(s)) = Len(s) - 1 /\ Head(s) = s[1]
      /\ \A a \in 1..Len(Tail(s)) : Tail(s)[a] = s[a + 1]
  BY HeadTailProperties
<1>2. /\ Len(s) \in Nat /\ DOMAIN s = 1..Len(s) /\ DOMAIN Tail(s) = 1..Len(Tail(s))
      /\ Len(s) # 0
  BY <1>1, LenProperties, EmptySeq
<1> QED BY <1>1, <1>2

(* The server takes the oldest batch of c, and its room then knows it. *)
LEMMA FreshServed ==
    ASSUME Typed, Linked, NEW c \in Clients, NEW n, NEW k, NEW ops, ServeStep(n, c, k, ops),
           Fresh(c)
    PROVE  Fresh(c)'
<1>1. /\ n \in DOMAIN conns /\ conns[n].up # << >>
      /\ conns[n].client = c /\ conns[n].room = k /\ ops = Head(conns[n].up)
      /\ client' = client /\ k \in DOMAIN rooms
      /\ \A m \in DOMAIN conns : /\ m # n => conns'[m].up = conns[m].up
                                 /\ m = n => conns'[m].up = Tail(conns[m].up)
      /\ \A j \in DOMAIN rooms : j # k => rooms'[j] = rooms[j]
      /\ \A r \in rooms'[k].ids :
            r \in rooms[k].ids \/ \E i \in DOMAIN ops : r = << c, ops[i].id >>
  BY DEF ServeStep
<1>2. Shrinks
  BY ServeShrinks
<1>3. \A m \in Mine(c) : m \in DOMAIN conns /\ conns[m].room \in DOMAIN rooms
  BY DEF Mine, Linked
<1>4. client[c].counter \in Nat
  BY Counts
<1>5. CASE n \notin Mine(c)
  <2>1. \A m \in Mine(c) : conns[m].room # k /\ m # n
    BY <1>1, <1>5 DEF Mine, Linked
  <2>2. \A m \in Mine(c) : conns'[m].up = conns[m].up
    BY <1>1, <1>3, <2>1
  <2>3. \A m \in Mine(c) : rooms'[conns[m].room].ids = rooms[conns[m].room].ids
    BY <1>1, <1>3, <2>1
  <2> QED BY <1>1, <1>2, <1>3, <1>4, <2>2, <2>3, FreshKept
<1>6. CASE n \in Mine(c)
  <2>1. conns[n].up \in Seq(Seq(Ops))
    BY <1>1, Counts
  <2>2. /\ 1 \in DOMAIN conns[n].up /\ ops = conns[n].up[1]
        /\ \A a \in DOMAIN Tail(conns[n].up) :
              a \in Nat /\ a + 1 \in DOMAIN conns[n].up /\ Tail(conns[n].up)[a] = conns[n].up[a + 1]
    BY <1>1, <2>1, TailFacts
  <2>3. \A i \in DOMAIN ops : Pending(c, n, 1, i, ops[i].id)
    BY <1>6, <2>2 DEF Pending
  <2>4. Mine(c)' = Mine(c) /\ \A m \in Mine(c) : conns'[m].room = conns[m].room
    BY <1>1, <1>2 DEF Mine, Shrinks
  <2>5. \A m, a, i, x : Pending(c, m, a, i, x)' =>
           \/ m # n /\ Pending(c, m, a, i, x)
           \/ m = n /\ a \in Nat /\ a # 0 /\ Pending(c, m, a + 1, i, x)
    <3> SUFFICES ASSUME NEW m, NEW a, NEW i, NEW x, Pending(c, m, a, i, x)'
                 PROVE  \/ m # n /\ Pending(c, m, a, i, x)
                        \/ m = n /\ a \in Nat /\ a # 0 /\ Pending(c, m, a + 1, i, x)
      BY Zenon
    <3>1. /\ m \in Mine(c) /\ a \in DOMAIN conns'[m].up
          /\ i \in DOMAIN conns'[m].up[a] /\ x = conns'[m].up[a][i].id
      BY <2>4 DEF Pending
    <3>2. CASE m # n
      <4>1. conns'[m].up = conns[m].up
        BY <1>1, <1>3, <3>1, <3>2
      <4> QED BY <3>1, <3>2, <4>1 DEF Pending
    <3>3. CASE m = n
      <4>1. conns'[m].up = Tail(conns[n].up)
        BY <1>1, <3>3
      <4>2. a \in DOMAIN Tail(conns[n].up)
        BY <3>1, <4>1
      <4>3. /\ a \in Nat /\ a + 1 \in DOMAIN conns[n].up
            /\ conns'[m].up[a] = conns[n].up[a + 1]
        BY <2>2, <4>1, <4>2
      <4>4. a # 0
        BY <1>1, <2>1, <4>2, TailFacts
      <4>5. PICK e : e = a + 1
        OBVIOUS
      <4>6. Pending(c, m, e, i, x)
        BY <3>1, <3>3, <4>3, <4>5 DEF Pending
      <4> QED BY <3>3, <4>3, <4>4, <4>5, <4>6
    <3> QED BY <3>2, <3>3
  <2>6. \A m \in Mine(c) : \A r \in rooms'[conns[m].room].ids : r[1] = c =>
           r \in rooms[conns[m].room].ids \/ \E i \in DOMAIN ops : r = << c, ops[i].id >>
    <3> SUFFICES ASSUME NEW m \in Mine(c), NEW r \in rooms'[conns[m].room].ids
                 PROVE  r \in rooms[conns[m].room].ids \/ \E i \in DOMAIN ops : r = << c, ops[i].id >>
      OBVIOUS
    <3>1. CASE conns[m].room = k
      BY <1>1, <3>1
    <3>2. CASE conns[m].room # k
      BY <1>1, <1>3, <3>2
    <3> QED BY <3>1, <3>2
  <2>7. \A m \in Mine(c)' : \A r \in rooms'[conns'[m].room].ids : r[1] = c => r[2] <= client'[c].counter
    <3> SUFFICES ASSUME NEW m \in Mine(c), NEW r \in rooms'[conns[m].room].ids, r[1] = c
                 PROVE  r[2] <= client[c].counter
      BY <1>1, <2>4
    <3>1. CASE r \in rooms[conns[m].room].ids
      BY <3>1 DEF Fresh
    <3>2. CASE \E i \in DOMAIN ops : r = << c, ops[i].id >>
      <4>1. PICK i \in DOMAIN ops : r = << c, ops[i].id >>
        BY <3>2
      <4>2. ops[i].id <= client[c].counter
        BY <2>3 DEF Fresh
      <4> QED BY <4>1, <4>2
    <3> QED BY <2>6, <3>1, <3>2
  <2>8. \A m, a, i, x : Pending(c, m, a, i, x)' =>
           x <= client'[c].counter /\ << c, x >> \notin rooms'[conns'[m].room].ids
    <3> SUFFICES ASSUME NEW m, NEW a, NEW i, NEW x, Pending(c, m, a, i, x)'
                 PROVE  x <= client[c].counter /\ << c, x >> \notin rooms'[conns[m].room].ids
      BY <1>1, <2>4 DEF Pending
    <3>1. PICK e : /\ Pending(c, m, e, i, x)
                   /\ m = n => e # 1
      <4>1. CASE m # n /\ Pending(c, m, a, i, x)
        BY <4>1
      <4>2. CASE m = n /\ a \in Nat /\ a # 0 /\ Pending(c, m, a + 1, i, x)
        <5>1. a + 1 # 1
          BY <4>2
        <5> QED BY <4>2, <5>1
      <4> QED BY <2>5, <4>1, <4>2
    <3>2. m \in Mine(c) /\ x <= client[c].counter /\ << c, x >> \notin rooms[conns[m].room].ids
      BY <3>1 DEF Fresh, Pending
    <3>3. \A h \in DOMAIN ops : << c, x >> # << c, ops[h].id >>
      <4> SUFFICES ASSUME NEW h \in DOMAIN ops, x = ops[h].id
                   PROVE  FALSE
        OBVIOUS
      <4>1. Pending(c, n, 1, h, x)
        BY <2>3
      <4> QED BY <3>1, <4>1 DEF Fresh
    <3>4. << c, x >>[1] = c
      OBVIOUS
    <3> QED BY <2>6, <3>2, <3>3, <3>4
  <2>9. \A m, a, i, o, b, j, x : Pending(c, m, a, i, x)' /\ Pending(c, o, b, j, x)' =>
           m = o /\ a = b /\ i = j
    <3> SUFFICES ASSUME NEW m, NEW a, NEW i, NEW o, NEW b, NEW j, NEW x,
                        Pending(c, m, a, i, x)', Pending(c, o, b, j, x)'
                 PROVE  m = o /\ a = b /\ i = j
      BY Zenon
    <3>1. CASE m # n /\ Pending(c, m, a, i, x)
      BY <2>5, <3>1 DEF Fresh
    <3>2. CASE m = n /\ a \in Nat /\ a # 0 /\ Pending(c, m, a + 1, i, x)
      <4>1. o = n /\ b \in Nat /\ Pending(c, o, b + 1, j, x)
        BY <2>5, <3>2 DEF Fresh
      <4>2. a + 1 = b + 1 /\ i = j
        BY <3>2, <4>1 DEF Fresh
      <4> QED BY <3>2, <4>1, <4>2
    <3> QED BY <2>5, <3>1, <3>2
  <2> QED BY <2>7, <2>8, <2>9 DEF Fresh
<1> QED BY <1>5, <1>6

LEMMA FreshConnects ==
    ASSUME Typed, Linked, Sourced, NEW d \in Clients, NEW n, NEW s, NEW k, ConnectStep(d, n, s, k),
           NEW c \in Clients, Fresh(c)
    PROVE  Fresh(c)'
<1>1. /\ DOMAIN conns' = DOMAIN conns \cup {n} /\ n \notin DOMAIN conns
      /\ \A m \in DOMAIN conns : conns'[m] = conns[m]
      /\ conns'[n].client = d /\ conns'[n].scene = s /\ conns'[n].room = k /\ conns'[n].up = << >>
      /\ hub'[s] = k
      /\ s \notin DOMAIN hub => rooms'[k].ids = {}
      /\ \A j \in DOMAIN rooms : rooms'[j].ids = rooms[j].ids
      /\ client[d].place = s
      /\ \A t \in DOMAIN hub : hub'[t] = hub[t]
  BY DEF ConnectStep
<1>2. client'[c].place = client[c].place /\ client'[c].counter = client[c].counter
  BY DEF ConnectStep, OthersSame
<1>3. \A m \in Mine(c)' : m \in Mine(c) \/ (m = n /\ c = d)
  BY <1>1, <1>2 DEF Mine
<1>4. \A m \in Mine(c) : m \in DOMAIN conns /\ conns'[m] = conns[m]
                         /\ rooms'[conns[m].room].ids = rooms[conns[m].room].ids
  BY <1>1 DEF Mine, Linked
<1>5. \A m, a, i, x : Pending(c, m, a, i, x)' => Pending(c, m, a, i, x)
  <2> SUFFICES ASSUME NEW m, NEW a, NEW i, NEW x, Pending(c, m, a, i, x)'
               PROVE  Pending(c, m, a, i, x)
    OBVIOUS
  <2>1. /\ m \in Mine(c)' /\ a \in DOMAIN conns'[m].up
        /\ i \in DOMAIN conns'[m].up[a] /\ x = conns'[m].up[a][i].id
    BY DEF Pending
  <2>2. m # n
    <3>1. DOMAIN << >> = {}
      OBVIOUS
    <3> QED BY <1>1, <2>1, <3>1
  <2>3. m \in Mine(c)
    BY <1>3, <2>1, <2>2
  <2> QED BY <1>4, <2>1, <2>3 DEF Pending
<1>6. \A m \in Mine(c)' : \A r \in rooms'[conns'[m].room].ids : r[1] = c => r[2] <= client'[c].counter
  <2> SUFFICES ASSUME NEW m \in Mine(c)', NEW r \in rooms'[conns'[m].room].ids, r[1] = c
               PROVE  r[2] <= client[c].counter
    BY <1>2
  <2>1. CASE m \in Mine(c)
    BY <1>4, <2>1 DEF Fresh
  <2>2. CASE m = n /\ c = d
    <3>1. s \in DOMAIN hub /\ r \in rooms'[k].ids
      BY <1>1, <2>2
    <3>2. k = hub[s] /\ k \in DOMAIN rooms
      BY <1>1, <3>1 DEF Linked
    <3>3. r \in rooms[k].ids
      BY <1>1, <3>1, <3>2
    <3>4. PICK o \in DOMAIN conns : conns[o].client = c /\ conns[o].room = k
      BY <3>2, <3>3 DEF Sourced
    <3>5. conns[o].scene = s
      BY <3>1, <3>2, <3>4 DEF Linked
    <3>6. o \in Mine(c)
      BY <1>1, <2>2, <3>4, <3>5 DEF Mine
    <3> QED BY <3>3, <3>4, <3>6 DEF Fresh
  <2> QED BY <1>3, <2>1, <2>2
<1>7. \A m, a, i, x : Pending(c, m, a, i, x)' =>
         x <= client'[c].counter /\ << c, x >> \notin rooms'[conns'[m].room].ids
  <2> SUFFICES ASSUME NEW m, NEW a, NEW i, NEW x, Pending(c, m, a, i, x)
               PROVE  x <= client'[c].counter /\ << c, x >> \notin rooms'[conns'[m].room].ids
    BY <1>5
  <2>1. m \in Mine(c)
    BY DEF Pending
  <2> QED BY <1>2, <1>4, <2>1 DEF Fresh
<1>8. \A m, a, i, o, b, j, x : Pending(c, m, a, i, x)' /\ Pending(c, o, b, j, x)' =>
         m = o /\ a = b /\ i = j
  BY <1>5 DEF Fresh
<1> QED BY <1>6, <1>7, <1>8 DEF Fresh

(* Nothing is under way to a scene that c was never connected to. *)
LEMMA FreshMoves ==
    ASSUME NEW c \in Clients, Shrinks,
           \A m \in DOMAIN conns : conns[m].client = c => conns[m].scene # client'[c].place
    PROVE  Fresh(c)'
<1>1. Mine(c)' = {}
  BY DEF Mine, Shrinks
<1> QED BY <1>1 DEF Fresh, Pending

LEMMA SourcedShrinks ==
    ASSUME Sourced, Shrinks, \A k \in DOMAIN rooms : rooms'[k].ids \subseteq rooms[k].ids
    PROVE  Sourced'
  BY DEF Sourced, Shrinks

LEMMA SourcedServes ==
    ASSUME Sourced, NEW n, NEW c, NEW k, NEW ops, ServeStep(n, c, k, ops)
    PROVE  Sourced'
<1>1. Shrinks
  BY ServeShrinks
<1> SUFFICES ASSUME NEW j \in DOMAIN rooms, NEW r \in rooms'[j].ids
             PROVE  \E m \in DOMAIN conns : conns[m].client = r[1] /\ conns[m].room = j
  BY <1>1 DEF Sourced, Shrinks
<1>2. CASE r \in rooms[j].ids
  BY <1>2 DEF Sourced
<1>3. CASE r \notin rooms[j].ids
  <2>1. j = k
    BY <1>3 DEF ServeStep
  <2>2. PICK i : r = << c, ops[i].id >>
    BY <1>3, <2>1 DEF ServeStep
  <2>3. r[1] = c
    BY <2>2
  <2>4. n \in DOMAIN conns /\ conns[n].client = c /\ conns[n].room = k
    BY DEF ServeStep
  <2> QED BY <2>1, <2>3, <2>4
<1> QED BY <1>2, <1>3

LEMMA SourcedConnects ==
    ASSUME Sourced, NEW c \in Clients, NEW n, NEW s, NEW k, ConnectStep(c, n, s, k), Linked
    PROVE  Sourced'
<1>1. /\ DOMAIN conns' = DOMAIN conns \cup {n}
      /\ \A m \in DOMAIN conns : conns'[m] = conns[m]
      /\ DOMAIN rooms' = DOMAIN rooms \cup {k}
      /\ s \notin DOMAIN hub => k \notin DOMAIN rooms /\ rooms'[k].ids = {}
      /\ \A j \in DOMAIN rooms : rooms'[j].ids = rooms[j].ids
      /\ \A t \in DOMAIN hub : hub'[t] = hub[t]
      /\ hub'[s] = k
  BY DEF ConnectStep
<1>2. s \in DOMAIN hub => k \in DOMAIN rooms
  BY <1>1 DEF Linked
<1>3. \A j \in DOMAIN rooms' : j \in DOMAIN rooms \/ rooms'[j].ids = {}
  BY <1>1, <1>2
<1> SUFFICES ASSUME NEW j \in DOMAIN rooms', NEW r \in rooms'[j].ids
             PROVE  \E m \in DOMAIN conns' : conns'[m].client = r[1] /\ conns'[m].room = j
  BY DEF Sourced
<1>4. j \in DOMAIN rooms /\ r \in rooms[j].ids
  BY <1>1, <1>3
<1>5. PICK m \in DOMAIN conns : conns[m].client = r[1] /\ conns[m].room = j
  BY <1>4 DEF Sourced
<1> QED BY <1>1, <1>5

-----------------------------------------------------------------------------
(* An edit is refused only of a client that has come back. *)

LEMMA MineInRooms ==
    ASSUME Linked, NEW c
    PROVE  \A m \in Mine(c) : m \in DOMAIN conns /\ conns[m].room \in DOMAIN rooms
  BY DEF Linked, Mine

LEMMA NumberedLocal ==
    ASSUME Typed, Typed', Linked, Numbered, NEW c \in Clients, LocalStep(c)
    PROVE  Numbered'
<1>1. Shrinks /\ returned' = returned /\ rooms' = rooms /\ conns' = conns
  BY LocalShrinks DEF LocalStep
<1>2. Sourced'
  BY <1>1 DEF Numbered, Sourced
<1>3. ASSUME NEW d \in Clients \ returned
      PROVE  Fresh(d)'
  <2>1. client'[d].place = client[d].place /\ client'[d].counter = client[d].counter
    BY DEF LocalStep, OthersSame
  <2>2. client[d].counter \in Nat
    BY Counts
  <2>3. Fresh(d)
    BY DEF Numbered
  <2> QED BY <1>1, <2>1, <2>2, <2>3, MineInRooms, FreshKept
<1> QED BY <1>1, <1>2, <1>3 DEF Numbered

LEMMA NumberedReceives ==
    ASSUME Typed, Linked, Numbered, NEW c \in Clients, ReceiveStep(c)
    PROVE  Numbered'
<1>1. /\ Shrinks /\ returned' = returned /\ rooms' = rooms
      /\ \A m \in DOMAIN conns : conns'[m].up = conns[m].up
  BY ReceiveShrinks DEF ReceiveStep
<1>2. Sourced'
  BY <1>1, SourcedShrinks DEF Numbered
<1>3. ASSUME NEW d \in Clients \ returned
      PROVE  Fresh(d)'
  <2>1. client'[d].place = client[d].place /\ client'[d].counter = client[d].counter
    BY DEF ReceiveStep, OthersSame
  <2>2. client[d].counter \in Nat
    BY Counts
  <2>3. Fresh(d)
    BY DEF Numbered
  <2> QED BY <1>1, <2>1, <2>2, <2>3, MineInRooms, FreshKept
<1> QED BY <1>1, <1>2, <1>3 DEF Numbered

LEMMA NumberedDrops ==
    ASSUME Typed, Linked, Numbered, NEW c \in Clients, DropStep(c)
    PROVE  Numbered'
<1>1. /\ Shrinks /\ rooms' = rooms /\ returned \subseteq returned'
      /\ \A m \in DOMAIN conns : conns'[m].up = conns[m].up
  BY DropShrinks DEF DropStep
<1>2. Sourced'
  BY <1>1, SourcedShrinks DEF Numbered
<1>3. ASSUME NEW d \in Clients \ returned'
      PROVE  Fresh(d)'
  <2>1. Fresh(d)
    BY <1>1 DEF Numbered
  <2>2. client[d].counter \in Nat
    BY Counts
  <2>3. CASE client'[d].place = client[d].place /\ client'[d].counter = client[d].counter
    BY <1>1, <2>1, <2>2, <2>3, MineInRooms, FreshKept
  <2>4. CASE ~(client'[d].place = client[d].place /\ client'[d].counter = client[d].counter)
    <3>1. d = c
      BY <2>4 DEF DropStep, OthersSame
    <3>2. \A m \in DOMAIN conns : conns[m].client = c => conns[m].scene # client'[c].place
      BY <2>4, <3>1 DEF DropStep
    <3> QED BY <1>1, <3>1, <3>2, FreshMoves
  <2> QED BY <2>3, <2>4
<1> QED BY <1>2, <1>3 DEF Numbered

LEMMA NumberedSends ==
    ASSUME Typed, Typed', Linked, Socketed, Numbered, NEW c \in Clients, NEW ops, NEW old, NEW new,
           SendStep(c, ops), Differences(old, new, client[c].counter, ops)
    PROVE  Numbered'
<1>1. Shrinks /\ rooms' = rooms /\ returned' = returned
  BY SendShrinks DEF SendStep
<1>2. Sourced'
  BY <1>1, SourcedShrinks DEF Numbered
<1>3. ASSUME NEW d \in Clients \ returned
      PROVE  Fresh(d)'
  <2>1. Fresh(d)
    BY DEF Numbered
  <2>2. client[d].counter \in Nat /\ client'[d].counter \in Nat
    BY DEF Typed, ClientType
  <2>3. CASE d = c
    BY <2>1, <2>2, <2>3, FreshSends
  <2>4. CASE d # c
    <3>1. client'[d] = client[d]
      BY <2>4 DEF SendStep, OthersSame
    <3>2. \A m \in Mine(d) : m \in DOMAIN conns /\ m # client[c].socket
      BY <2>4 DEF Mine, Socketed, SendStep
    <3>3. \A m \in Mine(d) : conns'[m].up = conns[m].up
      BY <3>2 DEF SendStep
    <3> QED BY <1>1, <2>1, <2>2, <3>1, <3>3, MineInRooms, FreshKept
  <2> QED BY <2>3, <2>4
<1> QED BY <1>1, <1>2, <1>3 DEF Numbered

LEMMA NumberedConnects ==
    ASSUME Typed, Linked, Numbered, NEW c \in Clients, NEW n, NEW s, NEW k, ConnectStep(c, n, s, k)
    PROVE  Numbered'
<1>1. returned' = returned
  BY DEF ConnectStep
<1>2. Sourced'
  BY SourcedConnects DEF Numbered
<1>3. ASSUME NEW d \in Clients \ returned
      PROVE  Fresh(d)'
  BY FreshConnects DEF Numbered
<1> QED BY <1>1, <1>2, <1>3 DEF Numbered

LEMMA NumberedServes ==
    ASSUME Typed, Linked, Numbered, NEW n, NEW c \in Clients, NEW k, NEW ops, ServeStep(n, c, k, ops)
    PROVE  Numbered'
<1>1. Shrinks
  BY ServeShrinks
<1>2. returned' = returned /\ client' = client
  BY DEF ServeStep
<1>3. Sourced'
  BY SourcedServes DEF Numbered
<1>4. ASSUME NEW d \in Clients \ returned
      PROVE  Fresh(d)'
  <2>1. Fresh(d)
    BY DEF Numbered
  <2>2. client[d].counter \in Nat
    BY Counts
  <2>3. CASE d = c
    BY <2>1, <2>3, FreshServed
  <2>4. CASE d # c
    <3>1. \A m \in Mine(d) : conns'[m].up = conns[m].up
      BY <2>4 DEF Mine, ServeStep
    <3>2. \A m \in Mine(d) : \A r \in rooms'[conns[m].room].ids :
             r[1] = d => r \in rooms[conns[m].room].ids
      <4> SUFFICES ASSUME NEW j \in DOMAIN rooms, NEW r \in rooms'[j].ids, r[1] = d
                   PROVE  r \in rooms[j].ids
        BY MineInRooms
      <4>1. CASE j = k
        <5>1. r \in rooms[k].ids \/ \E i \in DOMAIN ops : r = << c, ops[i].id >>
          BY <4>1 DEF ServeStep
        <5>2. \A i \in DOMAIN ops : << c, ops[i].id >>[1] = c
          OBVIOUS
        <5> QED BY <2>4, <4>1, <5>1, <5>2
      <4>2. CASE j # k
        BY <4>2 DEF ServeStep
      <4> QED BY <4>1, <4>2
    <3> QED BY <1>1, <1>2, <2>1, <2>2, <3>1, <3>2, MineInRooms, FreshKept
  <2> QED BY <2>3, <2>4
<1> QED BY <1>2, <1>3, <1>4 DEF Numbered

LEMMA NumberedEnds ==
    ASSUME Typed, Linked, Numbered, NEW n, NEW c, NEW k, EndStep(n, c, k)
    PROVE  Numbered'
<1>1. Shrinks
  BY EndShrinks
<1>2. /\ returned' = returned /\ client' = client
      /\ \A j \in DOMAIN rooms : rooms'[j].ids \subseteq rooms[j].ids
      /\ \A m \in DOMAIN conns : conns'[m].up = conns[m].up \/ conns'[m].up = << >>
  BY DEF EndStep
<1>3. Sourced'
  BY <1>1, <1>2, SourcedShrinks DEF Numbered
<1>4. ASSUME NEW d \in Clients \ returned
      PROVE  Fresh(d)'
  <2>1. Fresh(d)
    BY DEF Numbered
  <2>2. client[d].counter \in Nat
    BY Counts
  <2>3. \A m \in Mine(d) :
           /\ conns'[m].up = conns[m].up \/ conns'[m].up = << >>
           /\ \A r \in rooms'[conns[m].room].ids : r[1] = d => r \in rooms[conns[m].room].ids
    BY <1>2, MineInRooms
  <2> QED BY <1>1, <1>2, <2>1, <2>2, <2>3, MineInRooms, FreshKept
<1> QED BY <1>2, <1>3, <1>4 DEF Numbered

LEMMA RefusedServes ==
    ASSUME Typed, Linked, Socketed, Numbered, RefusedOnlyAfterReturn,
           NEW n, NEW c \in Clients, NEW k, NEW ops, ServeStep(n, c, k, ops)
    PROVE  RefusedOnlyAfterReturn'
<1> SUFFICES ASSUME c \in refused', c \notin refused, c \notin returned
             PROVE  FALSE
  BY DEF RefusedOnlyAfterReturn, ServeStep
<1>1. /\ n \in DOMAIN conns /\ conns[n].client = c /\ conns[n].room = k
      /\ conns[n].up # << >> /\ ops = Head(conns[n].up) /\ conns[n].live
  BY DEF ServeStep
<1>2. PICK i \in DOMAIN ops : Known(k, c, ops[i])
  BY DEF ServeStep
<1>3. n \in Mine(c)
  <2>1. n = client[c].socket /\ n # 0
    BY <1>1, Domains DEF Socketed
  <2> QED BY <1>1, <2>1 DEF Socketed, Mine
<1>4. conns[n].up \in Seq(Seq(Ops))
  BY <1>1, Counts
<1>5. 1 \in DOMAIN conns[n].up /\ ops = conns[n].up[1]
  BY <1>1, <1>4, TailFacts
<1>6. Pending(c, n, 1, i, ops[i].id)
  BY <1>3, <1>5 DEF Pending
<1>7. << c, ops[i].id >> \notin rooms[k].ids
  BY <1>1, <1>6 DEF Numbered, Fresh
<1> QED BY <1>2, <1>7 DEF Known

-----------------------------------------------------------------------------
(* A member of a room shows what the room holds once it has read what it    *)
(* was sent, and once the server has read what it sent.                     *)

Member(c) == /\ client[c].state = "connected"
             /\ c \in DOMAIN rooms[MyRoom(c)].members
             /\ rooms[MyRoom(c)].members[c] = client[c].socket

Up(c) == conns[client[c].socket].up
Down(c) == conns[client[c].socket].down
Here(c) == rooms[MyRoom(c)].nodes

(* A batch in up has the value v for n, and no later one is about n. *)
Comes(up, n, v) ==
    \E a \in DOMAIN up :
       /\ \E i \in DOMAIN up[a] : up[a][i].node = n /\ up[a][i].value = v
       /\ \A b \in DOMAIN up : b > a => \A i \in DOMAIN up[b] : up[b][i].node # n

Follows(c) ==
    Member(c) =>
       /\ Down(c) # << >> => Down(c)[Len(Down(c))] = Here(c)
       /\ Down(c) = << >> /\ c \notin refused =>
             \A n \in Nodes : \/ client[c].base[n] = Here(c)[n]
                              \/ Comes(Up(c), n, client[c].base[n])

Following == \A c \in Clients : Follows(c)

(* A batch is about a node at most once. *)
OnceEach == \A m \in DOMAIN conns : \A a \in DOMAIN conns[m].up :
               \A i, j \in DOMAIN conns[m].up[a] :
                  conns[m].up[a][i].node = conns[m].up[a][j].node => i = j

LEMMA FollowKept ==
    ASSUME NEW c, Follows(c),
           Member(c)' => /\ Member(c) /\ client'[c].base = client[c].base
                         /\ Down(c)' = Down(c) /\ Up(c)' = Up(c) /\ Here(c)' = Here(c),
           c \in refused => c \in refused'
    PROVE  Follows(c)'
<1> SUFFICES ASSUME Member(c)'
             PROVE  /\ Down(c)' # << >> => Down(c)'[Len(Down(c)')] = Here(c)'
                    /\ Down(c)' = << >> /\ c \notin refused' =>
                          \A n \in Nodes : \/ client'[c].base[n] = Here(c)'[n]
                                           \/ Comes(Up(c)', n, client'[c].base[n])
  BY DEF Follows
<1>1. /\ Member(c) /\ client'[c].base = client[c].base
      /\ Down(c)' = Down(c) /\ Up(c)' = Up(c) /\ Here(c)' = Here(c)
  OBVIOUS
<1>2. /\ Down(c) # << >> => Down(c)[Len(Down(c))] = Here(c)
      /\ Down(c) = << >> /\ c \notin refused =>
            \A n \in Nodes : \/ client[c].base[n] = Here(c)[n]
                             \/ Comes(Up(c), n, client[c].base[n])
  BY <1>1 DEF Follows
<1> QED BY <1>1, <1>2

LEMMA MemberStays ==
    ASSUME Linked, Socketed, Shrinks, NEW c \in Clients, client[c].state = "connected",
           client'[c].socket = client[c].socket, Member(c)'
    PROVE  /\ Member(c) /\ MyRoom(c)' = MyRoom(c) /\ MyRoom(c) \in DOMAIN rooms
           /\ client[c].socket \in DOMAIN conns
<1>1. client[c].socket \in DOMAIN conns
  BY DEF Socketed
<1>2. MyRoom(c)' = MyRoom(c) /\ MyRoom(c) \in DOMAIN rooms
  BY <1>1 DEF MyRoom, Shrinks, Linked
<1>3. /\ c \in DOMAIN rooms'[MyRoom(c)].members
      /\ rooms'[MyRoom(c)].members[c] = client[c].socket
  BY <1>2 DEF Member
<1> HIDE DEF MyRoom
<1>4. c \in DOMAIN rooms[MyRoom(c)].members /\ rooms[MyRoom(c)].members[c] = client[c].socket
  BY <1>2, <1>3 DEF Shrinks
<1> QED BY <1>1, <1>2, <1>4 DEF Member

(* Two clients are not on the same connection. *)
LEMMA SocketsDiffer ==
    ASSUME Typed, Socketed, NEW c \in Clients, NEW d \in Clients, c # d,
           client[d].state = "connected"
    PROVE  client[d].socket # client[c].socket /\ client[d].socket \in DOMAIN conns
<1>1. client[d].socket \in DOMAIN conns /\ conns[client[d].socket].client = d
  BY DEF Socketed
<1>2. client[d].socket # 0
  BY <1>1, Domains
<1>3. client[c].socket # 0 => conns[client[c].socket].client = c
  BY DEF Socketed
<1> QED BY <1>1, <1>2, <1>3

LEMMA FollowingLocal ==
    ASSUME Linked, Socketed, Following, NEW c \in Clients, LocalStep(c)
    PROVE  Following'
<1>1. Shrinks /\ conns' = conns /\ rooms' = rooms /\ refused' = refused
  BY LocalShrinks DEF LocalStep
<1> SUFFICES ASSUME NEW d \in Clients
             PROVE  Follows(d)'
  BY DEF Following
<1>2. ASSUME Member(d)'
      PROVE  /\ Member(d) /\ client'[d].base = client[d].base
             /\ Down(d)' = Down(d) /\ Up(d)' = Up(d) /\ Here(d)' = Here(d)
  <2>1. client[d].state = "connected" /\ client'[d].socket = client[d].socket
        /\ client'[d].base = client[d].base
    BY <1>2 DEF Member, LocalStep, OthersSame
  <2>2. Member(d) /\ MyRoom(d)' = MyRoom(d)
    BY <1>1, <1>2, <2>1, MemberStays
  <2> QED BY <1>1, <2>1, <2>2 DEF Down, Up, Here
<1>3. Follows(d)
  BY DEF Following
<1> QED BY <1>1, <1>2, <1>3, FollowKept

(* In the steps of another client, what concerns d stays. *)
LEMMA FollowsOther ==
    ASSUME Linked, Socketed, Shrinks, Following, NEW d \in Clients, client'[d] = client[d],
           rooms' = rooms, d \in refused => d \in refused',
           client[d].state = "connected" => conns'[client[d].socket] = conns[client[d].socket]
    PROVE  Follows(d)'
<1>1. ASSUME Member(d)'
      PROVE  /\ Member(d) /\ client'[d].base = client[d].base
             /\ Down(d)' = Down(d) /\ Up(d)' = Up(d) /\ Here(d)' = Here(d)
  <2>1. client[d].state = "connected"
    BY <1>1 DEF Member
  <2>2. Member(d) /\ MyRoom(d)' = MyRoom(d)
    BY <1>1, <2>1, MemberStays
  <2> QED BY <2>1, <2>2 DEF Down, Up, Here
<1>2. Follows(d)
  BY DEF Following
<1> QED BY <1>1, <1>2, FollowKept

LEMMA FollowingDrops ==
    ASSUME Typed, Linked, Socketed, Following, NEW c \in Clients, DropStep(c)
    PROVE  Following'
<1>1. Shrinks
  BY DropShrinks
<1> SUFFICES ASSUME NEW d \in Clients
             PROVE  Follows(d)'
  BY DEF Following
<1>2. CASE d = c
  BY <1>2 DEF Follows, Member, DropStep
<1>3. CASE d # c
  <2>1. client[d].state = "connected" => conns'[client[d].socket] = conns[client[d].socket]
    BY <1>3, SocketsDiffer DEF DropStep
  <2>2. client'[d] = client[d] /\ rooms' = rooms /\ (d \in refused => d \in refused')
    BY <1>3 DEF DropStep, OthersSame
  <2> QED BY <1>1, <2>1, <2>2, FollowsOther
<1> QED BY <1>2, <1>3

LEMMA FollowingReceives ==
    ASSUME Typed, Linked, Socketed, Following, NEW c \in Clients, ReceiveStep(c)
    PROVE  Following'
<1>1. Shrinks
  BY ReceiveShrinks
<1> SUFFICES ASSUME NEW d \in Clients
             PROVE  Follows(d)'
  BY DEF Following
<1>2. CASE d = c
  <2> SUFFICES ASSUME Member(c)'
               PROVE  /\ Down(c)' # << >> => Down(c)'[Len(Down(c)')] = Here(c)'
                      /\ Down(c)' = << >> => client'[c].base = Here(c)'
    BY <1>2 DEF Follows
  <2>1. client[c].state = "connected" /\ client'[c].socket = client[c].socket
    BY DEF Member, ReceiveStep
  <2>2. Member(c) /\ MyRoom(c)' = MyRoom(c) /\ client[c].socket \in DOMAIN conns
    BY <1>1, <2>1, MemberStays
  <2>3. Here(c)' = Here(c)
    BY <2>2 DEF Here, ReceiveStep
  <2>4. /\ Down(c) # << >> /\ Down(c)' = Tail(Down(c)) /\ client'[c].base = Head(Down(c))
    BY <2>1, <2>2 DEF Down, ReceiveStep
  <2>5. Down(c) \in Seq(Contents)
    BY <2>2, Domains DEF Down, ConnType
  <2>6. Down(c)[Len(Down(c))] = Here(c)
    BY <1>2, <2>2, <2>4 DEF Following, Follows
  <2>7. PICK down \in Seq(Contents) : down = Down(c)
    BY <2>5
  <2>8. /\ down # << >> /\ Down(c)' = Tail(down) /\ client'[c].base = Head(down)
        /\ down[Len(down)] = Here(c)'
    BY <2>3, <2>4, <2>6, <2>7
  <2>9. PICK t : t = Tail(down)
    OBVIOUS
  <2>10. PICK L, N : L = Len(down) /\ N = Len(t)
    OBVIOUS
  <2>11. /\ t \in Seq(Contents) /\ N = L - 1 /\ Head(down) = down[1]
         /\ \A a \in 1..N : t[a] = down[a + 1]
    BY <2>8, <2>9, <2>10, HeadTailProperties
  <2>12. L \in Nat /\ L # 0 /\ (t = << >> <=> N = 0)
    BY <2>8, <2>10, <2>11, LenProperties, EmptySeq
  <2>13. t # << >> => t[N] = down[L]
    <3> SUFFICES ASSUME t # << >>
                 PROVE  N \in 1..N /\ N + 1 = L
      BY <2>11
    <3>1. N # 0
      BY <2>12
    <3> QED BY <2>11, <2>12, <3>1
  <2>14. t = << >> => L = 1
    BY <2>11, <2>12
  <2>15. t = << >> => client'[c].base = Here(c)'
    BY <2>8, <2>10, <2>11, <2>14
  <2> QED BY <2>8, <2>9, <2>10, <2>13, <2>15
<1>3. CASE d # c
  <2>1. client[d].state = "connected" => conns'[client[d].socket] = conns[client[d].socket]
    BY <1>3, SocketsDiffer DEF ReceiveStep
  <2>2. client'[d] = client[d] /\ rooms' = rooms /\ (d \in refused => d \in refused')
    BY <1>3 DEF ReceiveStep, OthersSame
  <2> QED BY <1>1, <2>1, <2>2, FollowsOther
<1> QED BY <1>2, <1>3

LEMMA AppendFacts ==
    ASSUME NEW T, NEW s \in Seq(T), NEW e \in T
    PROVE  /\ Append(s, e) \in Seq(T) /\ Append(s, e) # << >>
           /\ Len(Append(s, e)) = Len(s) + 1 /\ Append(s, e)[Len(Append(s, e))] = e
           /\ Len(s) \in Nat /\ DOMAIN s = 1..Len(s)
           /\ DOMAIN Append(s, e) = 1..(Len(s) + 1)
           /\ \A a \in 1..Len(s) : Append(s, e)[a] = s[a]
<1>1. PICK t : t = Append(s, e)
  OBVIOUS
<1>2. /\ t \in Seq(T) /\ Len(t) = Len(s) + 1 /\ t[Len(s) + 1] = e
      /\ \A a \in 1..Len(s) : t[a] = s[a]
  BY <1>1, AppendProperties
<1>3. Len(s) \in Nat /\ DOMAIN s = 1..Len(s) /\ DOMAIN t = 1..Len(t)
  BY <1>2, LenProperties
<1>4. t # << >>
  <2>1. Len(t) # 0
    BY <1>2, <1>3
  <2> QED BY <1>2, <2>1, EmptySeq
<1> QED BY <1>1, <1>2, <1>3, <1>4

(* What is sent next is about what the new contents change. *)
LEMMA ComesNext ==
    ASSUME NEW up \in Seq(Seq(Ops)), NEW old, NEW new, NEW counter, NEW ops,
           Differences(old, new, counter, ops), NEW here,
           \A n \in Nodes : old[n] = here[n] \/ Comes(up, n, old[n])
    PROVE  \A n \in Nodes : new[n] = here[n] \/ Comes(Append(up, ops), n, new[n])
<1>1. PICK more : more = Append(up, ops)
  OBVIOUS
<1>2. ops \in Seq(Ops)
  BY DEF Differences
<1>3. PICK N \in Nat : /\ DOMAIN up = 1..N /\ DOMAIN more = 1..(N + 1)
                       /\ more[N + 1] = ops
                       /\ \A a \in 1..N : more[a] = up[a]
  BY <1>1, <1>2, AppendFacts
<1> SUFFICES ASSUME NEW n \in Nodes
             PROVE  new[n] = here[n] \/ Comes(more, n, new[n])
  BY <1>1
<1>4. CASE old[n] # new[n]
  <2>1. PICK i \in DOMAIN ops : ops[i].node = n
    BY <1>4 DEF Differences
  <2>2. ops[i].value = new[n]
    BY <2>1 DEF Differences
  <2>3. N + 1 \in DOMAIN more /\ \A b \in DOMAIN more : ~(b > N + 1)
    BY <1>3
  <2> QED BY <1>3, <2>1, <2>2, <2>3 DEF Comes
<1>5. CASE old[n] = new[n]
  <2>1. \A i \in DOMAIN ops : ops[i].node # n
    BY <1>5 DEF Differences
  <2>2. CASE Comes(up, n, old[n])
    <3>1. PICK a \in DOMAIN up :
            /\ \E i \in DOMAIN up[a] : up[a][i].node = n /\ up[a][i].value = old[n]
            /\ \A b \in DOMAIN up : b > a => \A i \in DOMAIN up[b] : up[b][i].node # n
      BY <2>2 DEF Comes
    <3>2. a \in DOMAIN more /\ more[a] = up[a]
      BY <1>3
    <3>3. ASSUME NEW b \in DOMAIN more, b > a
          PROVE  \A i \in DOMAIN more[b] : more[b][i].node # n
      <4>1. CASE b = N + 1
        BY <1>3, <2>1, <4>1
      <4>2. CASE b # N + 1
        <5>1. b \in DOMAIN up /\ more[b] = up[b]
          BY <1>3, <4>2
        <5> QED BY <3>1, <3>3, <5>1
      <4> QED BY <4>1, <4>2
    <3>4. \E i \in DOMAIN more[a] : more[a][i].node = n /\ more[a][i].value = new[n]
      BY <1>5, <3>1, <3>2
    <3>5. Comes(more, n, new[n])
      BY <3>2, <3>3, <3>4, Zenon DEF Comes
    <3> QED BY <3>5
  <2>3. CASE old[n] = here[n]
    BY <1>5, <2>3
  <2> QED BY <2>2, <2>3
<1> QED BY <1>4, <1>5

LEMMA FollowingSends ==
    ASSUME Typed, Linked, Socketed, Following, NEW c \in Clients, NEW ops, NEW new \in Contents,
           SendStep(c, ops), Differences(client[c].base, new, client[c].counter, ops),
           client'[c].base = new
    PROVE  Following'
<1>1. Shrinks
  BY SendShrinks
<1> SUFFICES ASSUME NEW d \in Clients
             PROVE  Follows(d)'
  BY DEF Following
<1>2. CASE d = c
  <2> SUFFICES ASSUME Member(c)'
               PROVE  /\ Down(c)' # << >> => Down(c)'[Len(Down(c)')] = Here(c)'
                      /\ Down(c)' = << >> /\ c \notin refused' =>
                            \A n \in Nodes : \/ client'[c].base[n] = Here(c)'[n]
                                             \/ Comes(Up(c)', n, client'[c].base[n])
    BY <1>2 DEF Follows
  <2>1. client[c].state = "connected" /\ client'[c].socket = client[c].socket
    BY DEF Member, SendStep
  <2>2. Member(c) /\ MyRoom(c)' = MyRoom(c) /\ client[c].socket \in DOMAIN conns
    BY <1>1, <2>1, MemberStays
  <2>3. Here(c)' = Here(c) /\ Down(c)' = Down(c) /\ refused' = refused
    BY <2>1, <2>2 DEF Here, Down, SendStep
  <2>4. Follows(c)
    BY DEF Following
  <2>5. Up(c) \in Seq(Seq(Ops))
    BY <2>2, Counts DEF Up
  <2>6. ASSUME Down(c) = << >>, c \notin refused
        PROVE  \A n \in Nodes : new[n] = Here(c)[n] \/ Comes(Up(c)', n, new[n])
    <3>1. \A n \in Nodes : \/ client[c].base[n] = Here(c)[n]
                           \/ Comes(Up(c), n, client[c].base[n])
      BY <2>2, <2>4, <2>6 DEF Follows
    <3>2. CASE ops = << >>
      <4>1. \A n \in Nodes : client[c].base[n] = new[n]
        <5>1. DOMAIN ops = {}
          BY <3>2
        <5> QED BY <5>1 DEF Differences
      <4>2. Up(c)' = Up(c)
        BY <2>1, <2>2, <3>2 DEF Up, SendStep
      <4> QED BY <3>1, <4>1, <4>2
    <3>3. CASE ops # << >>
      <4>1. Up(c)' = Append(Up(c), ops)
        BY <2>1, <2>2, <3>3 DEF Up, SendStep
      <4>2. PICK up \in Seq(Seq(Ops)) : up = Up(c)
        BY <2>5
      <4>3. PICK here : here = Here(c)
        OBVIOUS
      <4>4. PICK old : old = client[c].base
        OBVIOUS
      <4>5. \A n \in Nodes : old[n] = here[n] \/ Comes(up, n, old[n])
        BY <3>1, <4>2, <4>3, <4>4
      <4>6. \A n \in Nodes : new[n] = here[n] \/ Comes(Append(up, ops), n, new[n])
        BY <4>4, <4>5, ComesNext
      <4> QED BY <4>1, <4>2, <4>3, <4>6
    <3> QED BY <3>2, <3>3
  <2>7. Down(c) # << >> => Down(c)[Len(Down(c))] = Here(c)
    BY <2>2, <2>4 DEF Follows
  <2> QED BY <2>3, <2>6, <2>7
<1>3. CASE d # c
  <2>1. client[d].state = "connected" => conns'[client[d].socket] = conns[client[d].socket]
    BY <1>3, SocketsDiffer DEF SendStep
  <2>2. client'[d] = client[d] /\ rooms' = rooms /\ (d \in refused => d \in refused')
    BY <1>3 DEF SendStep, OthersSame
  <2> QED BY <1>1, <2>1, <2>2, FollowsOther
<1> QED BY <1>2, <1>3

LEMMA FollowingConnects ==
    ASSUME Typed, Linked, Socketed, Following,
           NEW c \in Clients, NEW n, NEW s, NEW k, ConnectStep(c, n, s, k)
    PROVE  Following'
<1>1. /\ \A m \in DOMAIN conns : conns'[m] = conns[m]
      /\ conns'[n].room = k /\ client'[c].socket = n
      /\ \A j \in DOMAIN rooms :
            /\ rooms'[j].nodes = rooms[j].nodes
            /\ DOMAIN rooms'[j].members = DOMAIN rooms[j].members \cup (IF j = k THEN {c} ELSE {})
            /\ \A e \in DOMAIN rooms[j].members :
                  e # c \/ j # k => rooms'[j].members[e] = rooms[j].members[e]
      /\ conns'[n].down = << rooms'[k].nodes >> /\ refused' = refused
  BY DEF ConnectStep
<1> SUFFICES ASSUME NEW d \in Clients
             PROVE  Follows(d)'
  BY DEF Following
<1>2. CASE d = c
  <2>1. Down(c)' = << Here(c)' >>
    BY <1>1 DEF Down, Here, MyRoom
  <2>2. PICK here : here = Here(c)'
    OBVIOUS
  <2>3. << here >> # << >> /\ << here >>[Len(<< here >>)] = here
    OBVIOUS
  <2>4. Down(c)' # << >> /\ Down(c)'[Len(Down(c)')] = Here(c)'
    BY <2>1, <2>2, <2>3
  <2> QED BY <1>2, <2>4 DEF Follows
<1>3. CASE d # c
  <2>1. client'[d] = client[d]
    BY <1>3 DEF ConnectStep, OthersSame
  <2>2. ASSUME Member(d)'
        PROVE  /\ Member(d) /\ client'[d].base = client[d].base
               /\ Down(d)' = Down(d) /\ Up(d)' = Up(d) /\ Here(d)' = Here(d)
    <3>1. client[d].state = "connected"
      BY <2>1, <2>2 DEF Member
    <3>2. client[d].socket \in DOMAIN conns
      BY <3>1 DEF Socketed
    <3>3. conns'[client[d].socket] = conns[client[d].socket] /\ MyRoom(d) \in DOMAIN rooms
      BY <1>1, <3>2 DEF Linked, MyRoom
    <3>4. MyRoom(d)' = MyRoom(d)
      BY <2>1, <3>3 DEF MyRoom
    <3>5. PICK j \in DOMAIN rooms : j = MyRoom(d)
      BY <3>3
    <3>6. d \in DOMAIN rooms'[j].members /\ rooms'[j].members[d] = client[d].socket
      BY <2>1, <2>2, <3>4, <3>5 DEF Member
    <3>7. d \in DOMAIN rooms[j].members
      BY <1>1, <1>3, <3>6
    <3>8. rooms[j].members[d] = client[d].socket
      BY <1>1, <1>3, <3>6, <3>7
    <3>9. Member(d)
      BY <3>1, <3>5, <3>7, <3>8 DEF Member
    <3>10. Here(d)' = Here(d)
      BY <1>1, <3>3, <3>4 DEF Here
    <3> QED BY <2>1, <3>3, <3>9, <3>10 DEF Down, Up
  <2>3. Follows(d)
    BY DEF Following
  <2> QED BY <1>1, <2>2, <2>3, FollowKept
<1> QED BY <1>2, <1>3

LEMMA FollowingEnds ==
    ASSUME Typed, Linked, Socketed, Following, NEW n, NEW c, NEW k, EndStep(n, c, k)
    PROVE  Following'
<1>1. Shrinks /\ client' = client /\ refused' = refused /\ n \in DOMAIN conns /\ ~conns[n].live
  <2>1. Shrinks
    BY EndShrinks
  <2> QED BY <2>1 DEF EndStep
<1> SUFFICES ASSUME NEW d \in Clients
             PROVE  Follows(d)'
  BY DEF Following
<1>2. ASSUME Member(d)'
      PROVE  /\ Member(d) /\ client'[d].base = client[d].base
             /\ Down(d)' = Down(d) /\ Up(d)' = Up(d) /\ Here(d)' = Here(d)
  <2>1. client[d].state = "connected"
    BY <1>1, <1>2 DEF Member
  <2>2. /\ Member(d) /\ MyRoom(d)' = MyRoom(d) /\ MyRoom(d) \in DOMAIN rooms
        /\ client[d].socket \in DOMAIN conns
    BY <1>1, <1>2, <2>1, MemberStays
  <2>3. conns[client[d].socket].live /\ ~conns[client[d].socket].over
    BY <2>1 DEF Socketed
  <2>4. client[d].socket # n
    BY <1>1, <2>3
  <2>5. conns'[client[d].socket] = conns[client[d].socket]
    BY <2>2, <2>4 DEF EndStep
  <2>6. rooms'[MyRoom(d)].nodes = rooms[MyRoom(d)].nodes
    <3>1. ~conns'[client[d].socket].over /\ conns[client[d].socket].room = MyRoom(d)
      BY <2>3, <2>5 DEF MyRoom
    <3> QED BY <2>2, <3>1 DEF EndStep
  <2> QED BY <1>1, <2>2, <2>5, <2>6 DEF Down, Up, Here
<1>3. Follows(d)
  BY DEF Following
<1> QED BY <1>1, <1>2, <1>3, FollowKept

(* The batch that the server has read came first: unless it was the last    *)
(* word on n, that is still under way.                                      *)
LEMMA ComesLater ==
    ASSUME NEW up \in Seq(Seq(Ops)), up # << >>, NEW n, NEW v, Comes(up, n, v)
    PROVE  \/ Comes(Tail(up), n, v)
           \/ \E i \in DOMAIN Head(up) : Head(up)[i].node = n /\ Head(up)[i].value = v
<1>1. PICK less : less = Tail(up)
  OBVIOUS
<1>2. PICK N \in Nat : /\ DOMAIN up = 1..N /\ DOMAIN less = 1..(N - 1) /\ Head(up) = up[1]
                       /\ \A a \in DOMAIN less : less[a] = up[a + 1]
  BY <1>1, TailFacts
<1>3. PICK a \in DOMAIN up :
         /\ \E i \in DOMAIN up[a] : up[a][i].node = n /\ up[a][i].value = v
         /\ \A b \in DOMAIN up : b > a => \A i \in DOMAIN up[b] : up[b][i].node # n
  BY DEF Comes
<1>4. CASE a = 1
  BY <1>2, <1>3, <1>4
<1>5. CASE a # 1
  <2>1. PICK e \in DOMAIN less : e + 1 = a /\ less[e] = up[a]
    <3>1. a - 1 \in DOMAIN less /\ (a - 1) + 1 = a
      BY <1>2, <1>5
    <3>2. less[a - 1] = up[a]
      BY <1>2, <3>1
    <3> QED BY <3>1, <3>2
  <2>2. ASSUME NEW b \in DOMAIN less, b > e
        PROVE  \A i \in DOMAIN less[b] : less[b][i].node # n
    <3>1. b + 1 \in DOMAIN up /\ b + 1 > a /\ less[b] = up[b + 1]
      BY <1>2, <2>1, <2>2
    <3> QED BY <1>3, <3>1
  <2>3. \E i \in DOMAIN less[e] : less[e][i].node = n /\ less[e][i].value = v
    BY <1>3, <2>1
  <2>4. Comes(less, n, v)
    BY <2>2, <2>3, Zenon DEF Comes
  <2> QED BY <1>1, <2>4
<1> QED BY <1>4, <1>5

LEMMA FollowingServes ==
    ASSUME Typed, Typed', Linked, Socketed, Following, OnceEach,
           NEW n, NEW c \in Clients, NEW k, NEW ops, ServeStep(n, c, k, ops)
    PROVE  Following'
<1>1. Shrinks
  BY ServeShrinks
<1>2. /\ client' = client /\ refused \subseteq refused' /\ n \in DOMAIN conns
      /\ conns[n].client = c /\ conns[n].room = k /\ conns[n].up # << >>
      /\ ops = Head(conns[n].up) /\ k \in DOMAIN rooms
  BY DEF ServeStep
<1> SUFFICES ASSUME NEW d \in Clients
             PROVE  Follows(d)'
  BY DEF Following
<1> DEFINE s == client[d].socket
<1>3. Follows(d)
  BY DEF Following
<1>4. ASSUME Member(d)'
      PROVE  /\ Member(d) /\ MyRoom(d)' = MyRoom(d) /\ MyRoom(d) \in DOMAIN rooms
             /\ s \in DOMAIN conns /\ conns[s].live /\ conns[s].room = MyRoom(d)
             /\ conns[s].client = d
  <2>1. client[d].state = "connected" /\ client'[d].socket = client[d].socket
    BY <1>2, <1>4 DEF Member
  <2>2. /\ Member(d) /\ MyRoom(d)' = MyRoom(d) /\ MyRoom(d) \in DOMAIN rooms
        /\ s \in DOMAIN conns
    BY <1>1, <1>4, <2>1, MemberStays
  <2>3. conns[s].live /\ conns[s].client = d
    BY <2>1 DEF Socketed
  <2> QED BY <2>2, <2>3 DEF MyRoom
<1> SUFFICES ASSUME Member(d)'
             PROVE  Follows(d)'
  BY DEF Follows
<1>5. /\ Member(d) /\ MyRoom(d)' = MyRoom(d) /\ MyRoom(d) \in DOMAIN rooms
      /\ s \in DOMAIN conns /\ conns[s].live /\ conns[s].room = MyRoom(d)
      /\ conns[s].client = d
  BY <1>4
<1>6. /\ Down(d)' = conns'[s].down /\ Up(d)' = conns'[s].up
      /\ Down(d) = conns[s].down /\ Up(d) = conns[s].up
      /\ Here(d)' = rooms'[MyRoom(d)].nodes
  BY <1>2, <1>5 DEF Down, Up, Here
<1> HIDE DEF s
<1>7. CASE MyRoom(d) # k
  <2>1. s # n
    BY <1>2, <1>5, <1>7
  <2>2. s \notin Hears(k, n)
    <3> SUFFICES ASSUME s \in Hears(k, n)
                 PROVE  FALSE
      OBVIOUS
    <3>1. PICK e \in DOMAIN rooms[k].members : s = rooms[k].members[e]
      BY DEF Hears, Range
    <3>2. conns[s].room = k
      BY <1>2, <3>1 DEF Linked
    <3> QED BY <1>5, <1>7, <3>2
  <2>3. conns'[s].down = conns[s].down /\ conns'[s].up = conns[s].up
    BY <1>5, <2>1, <2>2 DEF ServeStep
  <2>4. Here(d)' = Here(d)
    BY <1>5, <1>6, <1>7 DEF Here, ServeStep
  <2>5. /\ Member(d) /\ client'[d].base = client[d].base
        /\ Down(d)' = Down(d) /\ Up(d)' = Up(d) /\ Here(d)' = Here(d)
    BY <1>2, <1>5, <1>6, <2>3, <2>4
  <2> QED BY <1>2, <1>3, <2>5, FollowKept
<1>8. CASE MyRoom(d) = k /\ rooms'[k].nodes # rooms[k].nodes
  <2>1. s \in Hears(k, n)
    BY <1>5, <1>8 DEF Hears, Range, Member, s
  <2>2. conns'[s].down = Append(conns[s].down, rooms'[k].nodes)
    BY <1>5, <1>8, <2>1 DEF ServeStep
  <2>3. conns[s].down \in Seq(Contents)
    BY <1>5, Domains DEF ConnType
  <2>4. rooms'[k].nodes \in Contents
    <3>1. rooms' \in Seq(RoomType)
      BY DEF Typed
    <3>2. k \in DOMAIN rooms'
      BY <1>1, <1>2 DEF Shrinks
    <3>3. rooms'[k] \in RoomType
      BY <3>1, <3>2, ElementOfSeq, LenProperties
    <3> QED BY <3>3 DEF RoomType
  <2>5. PICK down \in Seq(Contents), here \in Contents : down = conns[s].down /\ here = rooms'[k].nodes
    BY <2>3, <2>4
  <2>6. Append(down, here) # << >> /\ Append(down, here)[Len(Append(down, here))] = here
    BY AppendFacts
  <2>7. Down(d)' = Append(down, here) /\ Here(d)' = here
    BY <1>6, <1>8, <2>2, <2>5
  <2> QED BY <2>6, <2>7 DEF Follows
<1>9. CASE MyRoom(d) = k /\ rooms'[k].nodes = rooms[k].nodes
  <2>1. Down(d)' = Down(d)
    BY <1>5, <1>6, <1>9 DEF ServeStep
  <2>2. Here(d)' = Here(d) /\ Here(d) = rooms[k].nodes
    BY <1>6, <1>9 DEF Here
  <2>3. client'[d].base = client[d].base
    BY <1>2
  <2>4. CASE s # n
    <3>1. Up(d)' = Up(d)
      BY <1>5, <1>6, <2>4 DEF ServeStep
    <3> QED BY <1>2, <1>3, <1>5, <2>1, <2>2, <2>3, <3>1, FollowKept
  <2>5. CASE s = n
    <3>1. d = c /\ Up(d) # << >> /\ ops = Head(Up(d)) /\ Up(d)' = Tail(Up(d))
      BY <1>2, <1>5, <1>6, <2>5 DEF ServeStep
    <3>2. Up(d) \in Seq(Seq(Ops))
      BY <1>5, <1>6, Counts
    <3>3. ASSUME Down(d) = << >>, c \notin refused'
          PROVE  \A v \in Nodes : \/ client[d].base[v] = Here(d)[v]
                                  \/ Comes(Up(d)', v, client[d].base[v])
      <4> SUFFICES ASSUME NEW v \in Nodes
                   PROVE  \/ client[d].base[v] = Here(d)[v]
                          \/ Comes(Up(d)', v, client[d].base[v])
        OBVIOUS
      <4>1. d \notin refused
        BY <1>2, <3>1, <3>3
      <4>2. client[d].base[v] = Here(d)[v] \/ Comes(Up(d), v, client[d].base[v])
        BY <1>3, <1>5, <3>3, <4>1 DEF Follows
      <4>3. CASE client[d].base[v] = Here(d)[v]
        BY <4>3
      <4>4. CASE Comes(Up(d), v, client[d].base[v])
        <5>1. PICK up \in Seq(Seq(Ops)) : up = Up(d)
          BY <3>2
        <5>2. PICK w : w = client[d].base[v]
          OBVIOUS
        <5>3. up # << >> /\ Comes(up, v, w)
          BY <3>1, <4>4, <5>1, <5>2
        <5>4. CASE Comes(Tail(up), v, w)
          BY <3>1, <5>1, <5>2, <5>4
        <5>5. CASE \E i \in DOMAIN Head(up) : Head(up)[i].node = v /\ Head(up)[i].value = w
          <6>1. PICK i \in DOMAIN ops : ops[i].node = v /\ ops[i].value = w
            BY <3>1, <5>1, <5>5
          <6>2. \A h \in DOMAIN ops : ~Known(k, c, ops[h])
            BY <1>5, <2>5, <3>3 DEF ServeStep
          <6>3. PICK j \in DOMAIN ops : ops[j].node = v /\ rooms'[k].nodes[v] = ops[j].value
            BY <6>1, <6>2 DEF ServeStep
          <6>4. i = j
            <7>1. 1 \in DOMAIN up /\ Head(up) = up[1]
              BY <5>3, TailFacts
            <7>2. 1 \in DOMAIN conns[n].up /\ ops = conns[n].up[1]
              BY <1>6, <2>5, <3>1, <5>1, <7>1
            <7> QED BY <1>2, <6>1, <6>3, <7>2 DEF OnceEach
          <6> QED BY <1>9, <2>2, <5>2, <6>1, <6>3, <6>4
        <5> QED BY <5>3, <5>4, <5>5, ComesLater
      <4> QED BY <4>2, <4>3, <4>4
    <3>4. Down(d) # << >> => Down(d)[Len(Down(d))] = Here(d)
      BY <1>3, <1>5 DEF Follows
    <3>5. /\ Down(d)' # << >> => Down(d)'[Len(Down(d)')] = Here(d)'
          /\ Down(d)' = << >> /\ d \notin refused' =>
                \A v \in Nodes : \/ client'[d].base[v] = Here(d)'[v]
                                 \/ Comes(Up(d)', v, client'[d].base[v])
      BY <2>1, <2>2, <2>3, <3>1, <3>3, <3>4
    <3> QED BY <3>5 DEF Follows
  <2> QED BY <2>4, <2>5
<1> QED BY <1>7, <1>8, <1>9

LEMMA OnceEachKept ==
    ASSUME OnceEach, DOMAIN conns' = DOMAIN conns,
           \A m \in DOMAIN conns : \A a \in DOMAIN conns'[m].up :
              \/ \E b \in DOMAIN conns[m].up : conns'[m].up[a] = conns[m].up[b]
              \/ \A i, j \in DOMAIN conns'[m].up[a] :
                    conns'[m].up[a][i].node = conns'[m].up[a][j].node => i = j
    PROVE  OnceEach'
<1> SUFFICES ASSUME NEW m \in DOMAIN conns, NEW a \in DOMAIN conns'[m].up
             PROVE  \A i, j \in DOMAIN conns'[m].up[a] :
                       conns'[m].up[a][i].node = conns'[m].up[a][j].node => i = j
  BY DEF OnceEach
<1>1. CASE \E b \in DOMAIN conns[m].up : conns'[m].up[a] = conns[m].up[b]
  BY <1>1 DEF OnceEach
<1>2. CASE \A i, j \in DOMAIN conns'[m].up[a] :
             conns'[m].up[a][i].node = conns'[m].up[a][j].node => i = j
  BY <1>2
<1> QED BY <1>1, <1>2

LEMMA OnceEachSends ==
    ASSUME Typed, OnceEach, NEW c \in Clients, NEW ops, NEW old, NEW new, NEW counter,
           SendStep(c, ops), Differences(old, new, counter, ops)
    PROVE  OnceEach'
<1>1. ops \in Seq(Ops) /\ \A i, j \in DOMAIN ops : ops[i].node = ops[j].node => i = j
  BY DEF Differences
<1>2. DOMAIN conns' = DOMAIN conns
  BY DEF SendStep
<1>3. ASSUME NEW m \in DOMAIN conns, NEW a \in DOMAIN conns'[m].up
      PROVE  \/ \E b \in DOMAIN conns[m].up : conns'[m].up[a] = conns[m].up[b]
             \/ \A i, j \in DOMAIN conns'[m].up[a] :
                   conns'[m].up[a][i].node = conns'[m].up[a][j].node => i = j
  <2>1. CASE conns'[m].up = conns[m].up
    BY <2>1
  <2>2. CASE conns'[m].up # conns[m].up
    <3>1. conns'[m].up = Append(conns[m].up, ops)
      BY <2>2 DEF SendStep
    <3>2. PICK up \in Seq(Seq(Ops)) : up = conns[m].up
      BY Counts
    <3>3. PICK more : more = Append(up, ops)
      OBVIOUS
    <3>4. PICK N \in Nat : /\ DOMAIN up = 1..N /\ DOMAIN more = 1..(N + 1) /\ more[N + 1] = ops
                           /\ \A b \in 1..N : more[b] = up[b]
      <4>1. /\ Len(more) = Len(up) + 1 /\ more[Len(more)] = ops
            /\ Len(up) \in Nat /\ DOMAIN up = 1..Len(up) /\ DOMAIN more = 1..(Len(up) + 1)
            /\ \A b \in 1..Len(up) : more[b] = up[b]
        BY <1>1, <3>3, AppendFacts
      <4> QED BY <4>1
    <3>5. conns'[m].up = more
      BY <3>1, <3>2, <3>3
    <3>6. CASE a = N + 1
      <4>1. conns'[m].up[a] = ops
        BY <3>4, <3>5, <3>6
      <4> QED BY <1>1, <4>1
    <3>7. CASE a # N + 1
      <4>1. a \in 1..N
        BY <3>4, <3>5, <3>7
      <4>2. conns'[m].up[a] = conns[m].up[a] /\ a \in DOMAIN conns[m].up
        BY <3>2, <3>4, <3>5, <4>1
      <4> QED BY <4>2
    <3> QED BY <3>6, <3>7
  <2> QED BY <2>1, <2>2
<1> QED BY <1>2, <1>3, OnceEachKept

LEMMA OnceEachServes ==
    ASSUME Typed, OnceEach, NEW n, NEW c, NEW k, NEW ops, ServeStep(n, c, k, ops)
    PROVE  OnceEach'
<1>1. /\ DOMAIN conns' = DOMAIN conns /\ conns[n].up # << >> /\ n \in DOMAIN conns
      /\ \A m \in DOMAIN conns : /\ m # n => conns'[m].up = conns[m].up
                                 /\ m = n => conns'[m].up = Tail(conns[m].up)
  BY DEF ServeStep
<1>2. conns[n].up \in Seq(Seq(Ops))
  BY <1>1, Counts
<1>3. ASSUME NEW m \in DOMAIN conns, NEW a \in DOMAIN conns'[m].up
      PROVE  \E b \in DOMAIN conns[m].up : conns'[m].up[a] = conns[m].up[b]
  <2>1. CASE m # n
    BY <1>1, <2>1
  <2>2. CASE m = n
    <3>1. /\ conns'[m].up = Tail(conns[n].up)
          /\ \A e \in DOMAIN Tail(conns[n].up) :
                e + 1 \in DOMAIN conns[n].up /\ Tail(conns[n].up)[e] = conns[n].up[e + 1]
      BY <1>1, <1>2, <2>2, TailFacts
    <3> QED BY <2>2, <3>1
  <2> QED BY <2>1, <2>2
<1> QED BY <1>1, <1>3, OnceEachKept

LEMMA OnceEachSame ==
    ASSUME OnceEach, DOMAIN conns' = DOMAIN conns,
           \A m \in DOMAIN conns : conns'[m].up = conns[m].up \/ conns'[m].up = << >>
    PROVE  OnceEach'
<1>1. DOMAIN << >> = {}
  OBVIOUS
<1>2. ASSUME NEW m \in DOMAIN conns, NEW a \in DOMAIN conns'[m].up
      PROVE  \E b \in DOMAIN conns[m].up : conns'[m].up[a] = conns[m].up[b]
  BY <1>1
<1> QED BY <1>2, OnceEachKept

LEMMA OnceEachConnects ==
    ASSUME OnceEach, NEW c, NEW n, NEW s, NEW k, ConnectStep(c, n, s, k)
    PROVE  OnceEach'
<1>1. /\ DOMAIN conns' = DOMAIN conns \cup {n} /\ conns'[n].up = << >>
      /\ \A m \in DOMAIN conns : conns'[m] = conns[m]
  BY DEF ConnectStep
<1>2. DOMAIN << >> = {}
  OBVIOUS
<1>3. DOMAIN conns'[n].up = {}
  BY <1>1, <1>2
<1>4. ASSUME NEW m \in DOMAIN conns', NEW a \in DOMAIN conns'[m].up
      PROVE  m \in DOMAIN conns /\ conns'[m] = conns[m]
  <2>1. m # n
    BY <1>3
  <2> QED BY <1>1, <2>1
<1> QED BY <1>4 DEF OnceEach

-----------------------------------------------------------------------------
(* Every step is of one of these kinds, and what it puts into an editor and *)
(* not into the base is noted as silent.                                  *)

Noted == \A c \in Clients : \A n \in Nodes :
            client[c].nodes[n] # client[c].base[n] => n \in silent[c]

NotedStep ==
    \A d \in Clients :
       \/ /\ client'[d].nodes = client[d].nodes /\ client'[d].base = client[d].base
          /\ silent'[d] = silent[d]
       \/ client'[d].nodes = client'[d].base
       \/ \A n \in Nodes : client'[d].nodes[n] # client'[d].base[n] => n \in silent'[d]

ClientStep ==
    \/ \E c \in Clients : LocalStep(c) \/ DropStep(c) \/ ReceiveStep(c)
    \/ \E c \in Clients, new \in Contents : \E ops :
          /\ SendStep(c, ops) /\ client'[c].base = new
          /\ Differences(client[c].base, new, client[c].counter, ops)
    \/ \E c \in Clients : \E n, s, k : ConnectStep(c, n, s, k)
    \/ \E c \in Clients : \E n, k, ops : ServeStep(n, c, k, ops)
    \/ \E c \in Clients : \E n, k : EndStep(n, c, k)

LEMMA NotedKept ==
    ASSUME Noted, NotedStep
    PROVE  Noted'
  BY DEF Noted, NotedStep

LEMMA SceneChangedStep ==
    ASSUME Typed, Socketed, NEW c \in Clients, NEW id \in Scenes, NEW nodes \in Contents,
           SceneChanged(c, [id |-> id, nodes |-> nodes]), UNCHANGED << rooms, hub, disk >>
    PROVE  Typed' /\ ClientStep /\ NotedStep
<1>1. silent' = [silent EXCEPT ![c] = {}]
  BY DEF SceneChanged
<1>2. \A d \in Clients : d # c => silent'[d] = silent[d]
  BY <1>1 DEF Typed
<1>3. ASSUME OthersSame(c), client'[c].nodes = client'[c].base
      PROVE  NotedStep
  BY <1>2, <1>3 DEF NotedStep, OthersSame
<1>4. CASE Moves(c, [id |-> id, nodes |-> nodes])
  <2>1. Typed' /\ DropStep(c) /\ client'[c].nodes = client'[c].base
    BY <1>1, <1>4, MovesStep
  <2> QED BY <1>3, <2>1 DEF ClientStep, DropStep
<1>5. CASE KeepsToItself(c, [id |-> id, nodes |-> nodes])
  <2>1. Typed' /\ LocalStep(c) /\ client'[c].nodes = client'[c].base
    BY <1>1, <1>5, KeepsToItselfStep
  <2> QED BY <1>3, <2>1 DEF ClientStep, LocalStep
<1>6. CASE Sends(c, [id |-> id, nodes |-> nodes])
  <2>1. client[c].socket \in DOMAIN conns
    BY <1>6 DEF Sends, Socketed
  <2>2. /\ Typed' /\ client'[c].nodes = nodes /\ client'[c].base = nodes
        /\ \E ops : /\ SendStep(c, ops)
                    /\ Differences(client[c].base, nodes, client[c].counter, ops)
    BY <1>1, <1>6, <2>1, SendsStep
  <2>3. OthersSame(c)
    BY <2>2 DEF SendStep
  <2>4. ClientStep
    BY <2>2 DEF ClientStep
  <2> QED BY <1>3, <2>2, <2>3, <2>4
<1> QED BY <1>4, <1>5, <1>6 DEF SceneChanged

LEMMA SkippedStep ==
    ASSUME Typed, Noted, NEW c \in Clients, NEW n \in Nodes, NEW v \in Values \cup {None},
           Skipped(c, n, v), UNCHANGED << rooms, hub, disk >>
    PROVE  Typed' /\ LocalStep(c) /\ ClientStep /\ NotedStep
<1>1. /\ client' = [client EXCEPT ![c].nodes = [@ EXCEPT ![n] = v]]
      /\ silent' = [silent EXCEPT ![c] = @ \cup {n}]
      /\ conns' = conns /\ returned' = returned /\ refused' = refused
  BY DEF Skipped
<1>2. client \in [Clients -> ClientType] /\ silent \in [Clients -> SUBSET Nodes]
  BY DEF Typed
<1>3. PICK nodes \in Contents : /\ nodes = [client[c].nodes EXCEPT ![n] = v]
                                /\ \A m \in Nodes : m # n => nodes[m] = client[c].nodes[m]
  <2>1. client[c].nodes \in Contents
    BY <1>2 DEF ClientType
  <2> QED BY <2>1 DEF Contents
<1>4. /\ client' \in [Clients -> ClientType]
      /\ OthersSame(c)
      /\ client'[c].place = client[c].place /\ client'[c].socket = client[c].socket
      /\ client'[c].counter = client[c].counter
      /\ client'[c].state = client[c].state
      /\ client'[c].nodes = nodes /\ client'[c].base = client[c].base
  BY <1>1, <1>2, <1>3 DEF ClientType, OthersSame
<1>5. /\ silent' \in [Clients -> SUBSET Nodes]
      /\ silent'[c] = silent[c] \cup {n}
      /\ \A d \in Clients : d # c => silent'[d] = silent[d]
  BY <1>1, <1>2
<1>6. Typed'
  BY <1>1, <1>4, <1>5 DEF Typed
<1>7. LocalStep(c)
  BY <1>1, <1>4 DEF LocalStep
<1>8. \A m \in Nodes : client'[c].nodes[m] # client'[c].base[m] => m \in silent'[c]
  BY <1>3, <1>4, <1>5 DEF Noted
<1>9. NotedStep
  BY <1>4, <1>5, <1>8 DEF NotedStep, OthersSame
<1> QED BY <1>6, <1>7, <1>9 DEF ClientStep

LEMMA SkipEndsStep ==
    ASSUME Typed, NEW c \in Clients, SkipEnds(c)
    PROVE  Typed' /\ ClientStep /\ NotedStep
<1>1. /\ client' = client /\ conns' = conns /\ rooms' = rooms /\ hub' = hub
      /\ disk' = disk /\ silent' = silent /\ returned' = returned /\ refused' = refused
  BY DEF SkipEnds
<1>2. Typed'
  BY <1>1 DEF Typed
<1>3. LocalStep(c)
  BY <1>1 DEF LocalStep, OthersSame
<1>4. NotedStep
  BY <1>1 DEF NotedStep
<1> QED BY <1>2, <1>3, <1>4 DEF ClientStep

LEMMA SkippingKept ==
    ASSUME skipping \subseteq Clients, ClientNext
    PROVE  skipping' \subseteq Clients
<1>1. ASSUME NEW c \in Clients, UserStep(c)
      PROVE  skipping' \subseteq Clients
  BY <1>1 DEF UserStep, Edit, Rename, Import
<1>2. ASSUME NEW c \in Clients, NetworkFails(c)
      PROVE  skipping' \subseteq Clients
  BY <1>2 DEF NetworkFails, NotConnected, Disconnected
<1>3. ASSUME NEW c \in Clients, Connected(c) \/ Reopen(c) \/ Receive(c) \/ SkipEnds(c)
      PROVE  skipping' \subseteq Clients
  BY <1>3 DEF Connected, Reopen, Receive, SkipEnds
<1>4. ASSUME NEW n \in DOMAIN conns, NEW failed \in SUBSET Clients,
             Serve(n, failed) \/ Ends(n)
      PROVE  skipping' \subseteq Clients
  BY <1>4 DEF Serve, Ends
<1> QED BY <1>1, <1>2, <1>3, <1>4 DEF ClientNext, LoopStep

LEMMA EveryStep ==
    ASSUME Typed, Linked, Socketed, Noted, ClientNext
    PROVE  Typed' /\ ClientStep /\ NotedStep
<1>1. \A c \in Clients : client[c].id \in Scenes /\ client[c].nodes \in Contents
  BY DEF Typed, ClientType
<1>2. ASSUME NEW c \in Clients, NEW n \in Nodes, NEW v \in Values \cup {None}, Edit(c, n, v)
      PROVE  Typed' /\ ClientStep /\ NotedStep
  <2>1. [client[c].nodes EXCEPT ![n] = v] \in Contents
    BY <1>1 DEF Contents
  <2>2. CASE Skipped(c, n, v)
    BY <1>2, <2>2, SkippedStep DEF Edit
  <2>3. CASE SceneChanged(c, [id |-> client[c].id,
                              nodes |-> [client[c].nodes EXCEPT ![n] = v]])
    BY <1>1, <1>2, <2>1, <2>3, SceneChangedStep DEF Edit
  <2> QED BY <1>2, <2>2, <2>3 DEF Edit
<1>3. ASSUME NEW c \in Clients, NEW s \in Scenes, Rename(c, s)
      PROVE  Typed' /\ ClientStep /\ NotedStep
  BY <1>1, <1>3, SceneChangedStep DEF Rename
<1>4. ASSUME NEW c \in Clients, NEW f \in Files, Import(c, f)
      PROVE  Typed' /\ ClientStep /\ NotedStep
  <2>1. /\ Typed' /\ LocalStep(c)
        /\ \A n \in Nodes : client'[c].nodes[n] # client'[c].base[n] => n \in silent'[c]
        /\ \A d \in Clients : d # c => silent'[d] = silent[d]
    BY <1>4, ImportStep
  <2>2. NotedStep
    BY <2>1 DEF NotedStep, LocalStep, OthersSame
  <2> QED BY <2>1, <2>2 DEF ClientStep
<1>5. ASSUME NEW c \in Clients, NotConnected(c) \/ Reopen(c)
      PROVE  Typed' /\ ClientStep /\ NotedStep
  <2>1. /\ Typed' /\ LocalStep(c) /\ silent' = silent
        /\ \A d \in Clients : /\ client'[d].nodes = client[d].nodes
                              /\ client'[d].base = client[d].base
    BY <1>5, TimerStep
  <2> QED BY <2>1 DEF NotedStep, ClientStep
<1>6. ASSUME NEW c \in Clients, Disconnected(c)
      PROVE  Typed' /\ ClientStep /\ NotedStep
  <2>1. /\ Typed' /\ DropStep(c) /\ silent' = silent
        /\ \A d \in Clients : /\ client'[d].nodes = client[d].nodes
                              /\ client'[d].base = client[d].base
    BY <1>6, DisconnectedStep
  <2> QED BY <2>1 DEF NotedStep, ClientStep
<1>7. ASSUME NEW c \in Clients, Receive(c)
      PROVE  Typed' /\ ClientStep /\ NotedStep
  <2>1. client[c].socket # 0 => client[c].socket \in DOMAIN conns
    BY DEF Socketed
  <2>2. /\ Typed' /\ ReceiveStep(c) /\ client'[c].nodes = client'[c].base
        /\ silent' = [silent EXCEPT ![c] = {}]
    BY <1>7, <2>1, ReceiveEffect
  <2>3. \A d \in Clients : d # c => silent'[d] = silent[d]
    BY <2>2 DEF Typed
  <2>4. NotedStep
    BY <2>2, <2>3 DEF NotedStep, ReceiveStep, OthersSame
  <2> QED BY <2>2, <2>4 DEF ClientStep
<1>8. ASSUME NEW c \in Clients, Connected(c)
      PROVE  Typed' /\ ClientStep /\ NotedStep
  <2>1. /\ Typed' /\ \E n, s, k : ConnectStep(c, n, s, k)
        /\ \A d \in Clients : /\ client'[d].nodes = client[d].nodes
                              /\ client'[d].base = client[d].base
        /\ silent' = silent
    BY <1>8, ConnectedStep
  <2> QED BY <2>1 DEF NotedStep, ClientStep
<1>9. ASSUME NEW n \in DOMAIN conns, NEW failed \in SUBSET Clients, Serve(n, failed)
      PROVE  Typed' /\ ClientStep /\ NotedStep
  <2>1. /\ Typed' /\ \E c \in Clients : \E k, ops : ServeStep(n, c, k, ops)
        /\ silent' = silent
    BY <1>9, ServeEffect
  <2>2. client' = client
    BY <2>1 DEF ServeStep
  <2> QED BY <2>1, <2>2 DEF NotedStep, ClientStep
<1>10. ASSUME NEW n \in DOMAIN conns, Ends(n)
       PROVE  Typed' /\ ClientStep /\ NotedStep
  <2>1. /\ Typed' /\ \E c \in Clients : \E k : EndStep(n, c, k)
        /\ silent' = silent
    BY <1>10, EndsEffect
  <2>2. client' = client
    BY <2>1 DEF EndStep
  <2> QED BY <2>1, <2>2 DEF NotedStep, ClientStep
<1>11. ASSUME NEW c \in Clients, SkipEnds(c)
       PROVE  Typed' /\ ClientStep /\ NotedStep
  BY <1>11, SkipEndsStep
<1> QED BY <1>2, <1>3, <1>4, <1>5, <1>6, <1>7, <1>8, <1>9, <1>10, <1>11
        DEF ClientNext, LoopStep, UserStep, NetworkFails

-----------------------------------------------------------------------------
(* The inductive invariant *)

ClientInv == /\ Typed /\ Linked /\ Socketed /\ Numbered /\ OnceEach
             /\ Following /\ Noted /\ skipping \subseteq Clients
             /\ RefusedOnlyAfterReturn /\ DetachedOnlyAfterReconnect

LEMMA ClientInvInit == ClientInit => ClientInv
<1> SUFFICES ASSUME ClientInit
             PROVE  ClientInv
  OBVIOUS
<1>1. /\ conns = << >> /\ rooms = << >> /\ DOMAIN hub = {}
      /\ DOMAIN conns = {} /\ DOMAIN rooms = {}
  BY DEF ClientInit
<1>2. \A c \in Clients : /\ client[c].socket = 0 /\ client[c].state = "connecting"
                         /\ client[c].nodes = client[c].base
  BY DEF ClientInit
<1>3. Typed
  <2>1. Empty \in Contents /\ Plain \in Scenes
    BY EmptyContents, ClientAssumption
  <2>2. client \in [Clients -> ClientType]
    BY <2>1 DEF ClientInit, ClientType, States
  <2>3. conns \in Seq(ConnType) /\ rooms \in Seq(RoomType)
    BY <1>1, EmptySeq
  <2>4. /\ disk \in [Scenes -> Contents] /\ silent \in [Clients -> SUBSET Nodes]
        /\ returned \subseteq Clients /\ refused \subseteq Clients
    BY <2>1 DEF ClientInit
  <2> QED BY <1>1, <2>2, <2>3, <2>4 DEF Typed
<1>4. Linked
  BY <1>1 DEF Linked
<1>5. Socketed
  BY <1>1, <1>2 DEF Socketed
<1>6. Numbered
  <2>1. \A c : Mine(c) = {}
    BY <1>1 DEF Mine
  <2> QED BY <1>1, <2>1 DEF Numbered, Sourced, Fresh, Pending
<1>7. OnceEach
  BY <1>1 DEF OnceEach
<1>8. Following /\ DetachedOnlyAfterReconnect
  BY <1>2 DEF Following, Follows, Member, DetachedOnlyAfterReconnect
<1>9. Noted
  BY <1>2 DEF Noted
<1>10. RefusedOnlyAfterReturn /\ skipping \subseteq Clients
  BY DEF RefusedOnlyAfterReturn, ClientInit
<1> QED BY <1>3, <1>4, <1>5, <1>6, <1>7, <1>8, <1>9, <1>10 DEF ClientInv

LEMMA ClientInvStutter ==
    ASSUME ClientInv, UNCHANGED clientVars
    PROVE  ClientInv'
<1>1. /\ client' = client /\ conns' = conns /\ rooms' = rooms /\ hub' = hub /\ disk' = disk
      /\ events' = events /\ silent' = silent /\ skipping' = skipping
      /\ returned' = returned /\ refused' = refused
  BY DEF clientVars
<1>2. Typed' /\ Noted' /\ RefusedOnlyAfterReturn' /\ skipping' \subseteq Clients
  BY <1>1 DEF ClientInv, Typed, Noted, RefusedOnlyAfterReturn
<1>3. Linked' /\ Socketed' /\ OnceEach'
  BY <1>1 DEF ClientInv, Linked, Socketed, OnceEach
<1>4. Numbered'
  BY <1>1 DEF ClientInv, Numbered, Sourced, Fresh, Pending, Mine
<1>5. Following'
  BY <1>1 DEF ClientInv, Following, Follows, Member, MyRoom, Up, Down, Here
<1>6. DetachedOnlyAfterReconnect'
  BY <1>1 DEF ClientInv, DetachedOnlyAfterReconnect, Attached, MyRoom
<1> QED BY <1>2, <1>3, <1>4, <1>5, <1>6 DEF ClientInv

LEMMA ClientInvStep ==
    ASSUME ClientInv, ClientNext
    PROVE  ClientInv'
<1>1. /\ Typed /\ Linked /\ Socketed /\ Numbered /\ OnceEach
      /\ Following /\ Noted /\ RefusedOnlyAfterReturn /\ DetachedOnlyAfterReconnect
  BY DEF ClientInv
<1>2. Typed' /\ ClientStep /\ NotedStep
  BY <1>1, EveryStep
<1>3. Noted' /\ skipping' \subseteq Clients
  BY <1>1, <1>2, NotedKept, SkippingKept DEF ClientInv
<1>4. ASSUME NEW c \in Clients, LocalStep(c)
      PROVE  ClientInv'
  <2>1. Shrinks /\ StaysOn
    BY <1>4, LocalShrinks
  <2>2. /\ conns' = conns /\ rooms' = rooms /\ hub' = hub
        /\ refused' = refused /\ returned' = returned
    BY <1>4 DEF LocalStep
  <2>3. Linked' /\ Socketed' /\ Numbered' /\ Following'
    BY <1>1, <1>2, <1>4, <2>1, LinkedShrinks, SocketedStays, NumberedLocal, FollowingLocal
  <2>4. OnceEach' /\ RefusedOnlyAfterReturn'
    BY <1>1, <2>2 DEF OnceEach, RefusedOnlyAfterReturn
  <2>5. DetachedOnlyAfterReconnect'
    BY <1>1, <2>1, <2>2, AttachedStays DEF StaysOn
  <2> QED BY <1>2, <1>3, <2>3, <2>4, <2>5 DEF ClientInv
<1>5. ASSUME NEW c \in Clients, DropStep(c)
      PROVE  ClientInv'
  <2>1. Shrinks
    BY <1>5, DropShrinks
  <2>2. /\ rooms' = rooms /\ hub' = hub /\ DOMAIN conns' = DOMAIN conns
        /\ \A m \in DOMAIN conns : conns'[m].up = conns[m].up
        /\ refused' \subseteq refused /\ returned \subseteq returned'
    BY <1>5 DEF DropStep
  <2>3. Linked' /\ Socketed' /\ Numbered' /\ Following'
    BY <1>1, <1>5, <2>1, LinkedShrinks, SocketedDrops, NumberedDrops, FollowingDrops
  <2>4. OnceEach'
    BY <1>1, <2>2, OnceEachSame
  <2>5. RefusedOnlyAfterReturn'
    BY <1>1, <2>2 DEF RefusedOnlyAfterReturn
  <2>6. \A d \in Clients : client'[d].state = "connected" =>
           /\ client[d].state = "connected"
           /\ client'[d].place = client[d].place /\ client'[d].socket = client[d].socket
    BY <1>5 DEF DropStep, OthersSame
  <2>7. DetachedOnlyAfterReconnect'
    BY <1>1, <2>1, <2>2, <2>6, AttachedStays
  <2> QED BY <1>2, <1>3, <2>3, <2>4, <2>5, <2>7 DEF ClientInv
<1>6. ASSUME NEW c \in Clients, ReceiveStep(c)
      PROVE  ClientInv'
  <2>1. Shrinks /\ StaysOn
    BY <1>6, ReceiveShrinks
  <2>2. /\ rooms' = rooms /\ hub' = hub /\ DOMAIN conns' = DOMAIN conns
        /\ \A m \in DOMAIN conns : conns'[m].up = conns[m].up
        /\ refused' \subseteq refused /\ returned' = returned
    BY <1>6 DEF ReceiveStep
  <2>3. Linked' /\ Socketed' /\ Numbered' /\ Following'
    BY <1>1, <1>6, <2>1, LinkedShrinks, SocketedStays, NumberedReceives, FollowingReceives
  <2>4. OnceEach'
    BY <1>1, <2>2, OnceEachSame
  <2>5. RefusedOnlyAfterReturn'
    BY <1>1, <2>2 DEF RefusedOnlyAfterReturn
  <2>6. DetachedOnlyAfterReconnect'
    BY <1>1, <2>1, <2>2, AttachedStays DEF StaysOn
  <2> QED BY <1>2, <1>3, <2>3, <2>4, <2>5, <2>6 DEF ClientInv
<1>7. ASSUME NEW c \in Clients, NEW new \in Contents, NEW ops, SendStep(c, ops),
             client'[c].base = new, Differences(client[c].base, new, client[c].counter, ops)
      PROVE  ClientInv'
  <2>1. Shrinks /\ StaysOn
    BY <1>7, SendShrinks
  <2>2. /\ rooms' = rooms /\ hub' = hub
        /\ refused' = refused /\ returned' = returned
    BY <1>7 DEF SendStep
  <2>3. Linked' /\ Socketed' /\ Following'
    BY <1>1, <1>7, <2>1, LinkedShrinks, SocketedStays, FollowingSends
  <2>4. Numbered' /\ OnceEach'
    BY <1>1, <1>2, <1>7, NumberedSends, OnceEachSends
  <2>5. RefusedOnlyAfterReturn'
    BY <1>1, <2>2 DEF RefusedOnlyAfterReturn
  <2>6. DetachedOnlyAfterReconnect'
    BY <1>1, <2>1, <2>2, AttachedStays DEF StaysOn
  <2> QED BY <1>2, <1>3, <2>3, <2>4, <2>5, <2>6 DEF ClientInv
<1>8. ASSUME NEW c \in Clients, NEW n, NEW s, NEW k, ConnectStep(c, n, s, k)
      PROVE  ClientInv'
  <2>1. Linked' /\ Socketed' /\ DetachedOnlyAfterReconnect'
    BY <1>1, <1>8, LinkedConnects, SocketedConnects, AttachedConnects
  <2>2. Numbered' /\ OnceEach' /\ Following'
    BY <1>1, <1>8, NumberedConnects, OnceEachConnects, FollowingConnects
  <2>3. RefusedOnlyAfterReturn'
    BY <1>1, <1>8 DEF RefusedOnlyAfterReturn, ConnectStep
  <2> QED BY <1>2, <1>3, <2>1, <2>2, <2>3 DEF ClientInv
<1>9. ASSUME NEW c \in Clients, NEW n, NEW k, NEW ops, ServeStep(n, c, k, ops)
      PROVE  ClientInv'
  <2>1. Shrinks /\ StaysOn
    BY <1>9, ServeShrinks
  <2>2. Linked' /\ Socketed' /\ DetachedOnlyAfterReconnect'
    BY <1>1, <1>9, <2>1, LinkedShrinks, SocketedStays, AttachedServes
  <2>3. Numbered' /\ OnceEach' /\ Following'
    BY <1>1, <1>2, <1>9, NumberedServes, OnceEachServes, FollowingServes
  <2>4. RefusedOnlyAfterReturn'
    BY <1>1, <1>9, RefusedServes
  <2> QED BY <1>2, <1>3, <2>2, <2>3, <2>4 DEF ClientInv
<1>10. ASSUME NEW c \in Clients, NEW n, NEW k, EndStep(n, c, k)
       PROVE  ClientInv'
  <2>1. Shrinks /\ StaysOn
    BY <1>10, EndShrinks
  <2>2. Linked' /\ Socketed' /\ DetachedOnlyAfterReconnect'
    BY <1>1, <1>10, <2>1, LinkedShrinks, SocketedStays, AttachedEnds
  <2>3. Numbered' /\ Following'
    BY <1>1, <1>10, NumberedEnds, FollowingEnds
  <2>4. DOMAIN conns' = DOMAIN conns
        /\ \A m \in DOMAIN conns : conns'[m].up = conns[m].up \/ conns'[m].up = << >>
    BY <1>10 DEF EndStep
  <2>5. OnceEach'
    BY <1>1, <2>4, OnceEachSame
  <2>6. RefusedOnlyAfterReturn'
    BY <1>1, <1>10 DEF RefusedOnlyAfterReturn, EndStep
  <2> QED BY <1>2, <1>3, <2>2, <2>3, <2>5, <2>6 DEF ClientInv
<1> QED BY <1>2, <1>4, <1>5, <1>6, <1>7, <1>8, <1>9, <1>10 DEF ClientStep

LEMMA AlwaysClientInv == ClientSpec => []ClientInv
<1>1. ClientInit => ClientInv
  BY ClientInvInit
<1>2. ClientInv /\ [ClientNext]_clientVars => ClientInv'
  BY ClientInvStutter, ClientInvStep
<1> QED BY <1>1, <1>2, PTL DEF ClientSpec

LEMMA ClientTypes ==
    ASSUME Typed, Linked, Socketed, skipping \subseteq Clients
    PROVE  TypeOK
<1>1. ASSUME NEW c \in Clients
      PROVE  client[c] \in [id : Scenes, nodes : Contents, base : Contents,
                            place : Scenes,
                            state : {"connecting", "connected", "lost"},
                            socket : 0..Len(conns), counter : Nat]
  <2>1. client[c] \in ClientType
    BY DEF Typed
  <2>2. client[c].socket = 0 \/ client[c].socket \in DOMAIN conns
    BY DEF Socketed
  <2>3. client[c].socket \in 0..Len(conns)
    BY <2>2, Domains
  <2> QED BY <2>1, <2>3 DEF ClientType, States
<1>2. client \in [Clients -> [id : Scenes, nodes : Contents, base : Contents,
                              place : Scenes,
                              state : {"connecting", "connected", "lost"},
                              socket : 0..Len(conns), counter : Nat]]
  <2>1. client = [c \in Clients |-> client[c]]
    BY DEF Typed
  <2> QED BY <1>1, <2>1
<1>3. \A c \in Clients : client[c].socket # 0 <=> client[c].state = "connected"
  BY DEF Socketed
<1>4. \A n \in DOMAIN conns :
         /\ conns[n].scene \in Scenes /\ conns[n].room \in DOMAIN rooms
         /\ conns[n].up \in Seq(Seq(Ops)) /\ conns[n].down \in Seq(Contents)
  <2>1. \A n \in DOMAIN conns : conns[n] \in ConnType /\ conns[n].room \in DOMAIN rooms
    BY Domains DEF Linked
  <2> QED BY <2>1 DEF ConnType
<1>5. \A k \in DOMAIN rooms :
         /\ rooms[k].nodes \in Contents
         /\ \A c \in DOMAIN rooms[k].members : ClientOf(rooms[k].members[c]) = c
  BY Domains DEF Linked, RoomType, ClientOf
<1>6. \A s \in DOMAIN hub : hub[s] \in DOMAIN rooms
  BY DEF Linked
<1> QED BY <1>2, <1>3, <1>4, <1>5, <1>6 DEF TypeOK, Typed

(* The copies, the sockets and the rooms belong together, and an edit is    *)
(* refused, or a client out of its room, only after it has come back to a   *)
(* scene: for any number of clients and scenes, any edits and failures.     *)
THEOREM ClientsStaySound == ClientSpec => []ClientsSound
<1>1. ClientInv => ClientsSound
  BY ClientTypes DEF ClientInv, ClientsSound
<1> QED BY <1>1, AlwaysClientInv, PTL

LEMMA FollowingIsInSync ==
    ASSUME Typed, Linked, Socketed, Following, Noted
    PROVE  InSync
<1> SUFFICES ASSUME NEW c \in Clients, Attached(c), Quiet(c), c \notin refused
             PROVE  Shows(c)
  BY DEF InSync
<1>1. Member(c)
  BY DEF Attached, Member
<1>2. Up(c) = << >> /\ Down(c) = << >>
  BY DEF Quiet, Up, Down
<1>3. \A n \in Nodes : client[c].base[n] = Here(c)[n] \/ Comes(Up(c), n, client[c].base[n])
  BY <1>1, <1>2 DEF Following, Follows
<1>4. \A n, v : ~Comes(Up(c), n, v)
  <2>1. DOMAIN << >> = {}
    OBVIOUS
  <2> QED BY <1>2, <2>1 DEF Comes
<1>5. client[c].base \in Contents /\ Here(c) \in Contents
  <2>1. client[c].socket \in DOMAIN conns
    BY <1>1 DEF Member, Socketed
  <2>2. MyRoom(c) \in DOMAIN rooms
    BY <2>1 DEF MyRoom, Linked
  <2> QED BY <2>2, Domains DEF Typed, ClientType, RoomType, Here
<1>6. PICK base \in Contents, here \in Contents : base = client[c].base /\ here = Here(c)
  BY <1>5
<1>7. \A n \in Nodes : base[n] = here[n]
  BY <1>3, <1>4, <1>6
<1>8. \A n \in Nodes \ silent[c] : client[c].nodes[n] = base[n]
  BY <1>6 DEF Noted
<1> QED BY <1>6, <1>7, <1>8 DEF Shows, Here

(* A client that is in its room and has no messages under way shows what    *)
(* the room holds, but for what its editor has changed without a word to    *)
(* the adapter, however edits and snapshots have crossed.                   *)
THEOREM CopiesInSync == ClientSpec => []InSync
<1>1. ClientInv => InSync
  BY FollowingIsInSync DEF ClientInv
<1> QED BY <1>1, AlwaysClientInv, PTL

(* What is appended last is last. *)
LEMMA LastAppended ==
    ASSUME NEW S, NEW s \in Seq(S), NEW e \in S
    PROVE  Last(Append(s, e)) = e
<1> DEFINE more == Append(s, e)
<1>1. more[Len(more)] = e
  BY AppendProperties
<1> HIDE DEF more
<1>2. Last(more) = e
  BY <1>1 DEF Last
<1> QED BY <1>2 DEF more

LEMMA EditSendsOwn ==
    ASSUME Typed, Socketed, Noted, NEW c \in Clients, NEW n \in Nodes,
           NEW v \in Values \cup {None}, Edit(c, n, v)
    PROVE  Sent(c) \subseteq {n} \cup silent[c]
<1> DEFINE nodes == [client[c].nodes EXCEPT ![n] = v]
<1>1. client[c].nodes \in Contents /\ client[c].id \in Scenes /\ client[c].counter \in Nat
  BY DEF Typed, ClientType
<1>2. nodes \in Contents /\ \A e \in Nodes : e # n => nodes[e] = client[c].nodes[e]
  BY <1>1 DEF Contents
<1> HIDE DEF nodes
<1>0. CASE Skipped(c, n, v)
  <2>1. client'[c].counter = client[c].counter
    BY <1>0, SkippedStep DEF Edit, LocalStep
  <2> QED BY <1>1, <2>1 DEF Sent
<1> SUFFICES ASSUME ~Skipped(c, n, v)
             PROVE  Sent(c) \subseteq {n} \cup silent[c]
  BY <1>0
<1>3. /\ SceneChanged(c, [id |-> client[c].id, nodes |-> nodes])
      /\ UNCHANGED << rooms, hub, disk >>
  BY DEF Edit, nodes
<1>4. silent' = [silent EXCEPT ![c] = {}]
  BY <1>3 DEF SceneChanged
<1>5. CASE Moves(c, [id |-> client[c].id, nodes |-> nodes])
  <2>1. client'[c].counter = 0
    BY <1>1, <1>2, <1>3, <1>4, <1>5, MovesStep
  <2> QED BY <1>1, <2>1 DEF Sent
<1>6. CASE KeepsToItself(c, [id |-> client[c].id, nodes |-> nodes])
  <2>1. client'[c].counter = client[c].counter
    BY <1>1, <1>2, <1>3, <1>4, <1>6, KeepsToItselfStep
  <2> QED BY <1>1, <2>1 DEF Sent
<1>7. CASE Sends(c, [id |-> client[c].id, nodes |-> nodes])
  <2>1. client[c].socket \in DOMAIN conns
    BY <1>7 DEF Sends, Socketed
  <2>2. PICK ops : /\ SendStep(c, ops)
                   /\ Differences(client[c].base, nodes, client[c].counter, ops)
    BY <1>1, <1>2, <1>3, <1>4, <1>7, <2>1, SendsStep
  <2>3. CASE ~(client'[c].counter > client[c].counter)
    BY <2>3 DEF Sent
  <2>4. CASE client'[c].counter > client[c].counter
    <3>0. ops \in Seq(Ops)
      BY <2>2 DEF Differences
    <3>1. \A i \in DOMAIN ops : client[c].base[ops[i].node] # nodes[ops[i].node]
      BY <2>2 DEF Differences
    <3>2. ops # << >>
      <4>1. client'[c].counter = client[c].counter + Len(ops)
        BY <2>2 DEF SendStep
      <4>2. Len(ops) # 0
        BY <1>1, <2>4, <4>1
      <4> QED BY <3>0, <4>2, EmptySeq
    <3>3. conns'[client[c].socket].up = Append(conns[client[c].socket].up, ops)
      BY <2>1, <2>2, <3>2 DEF SendStep
    <3>4. conns[client[c].socket].up \in Seq(Seq(Ops))
      BY <2>1, Counts
    <3>5. Last(conns'[client[c].socket].up) = ops
      <4>1. Last(Append(conns[client[c].socket].up, ops)) = ops
        BY <3>0, <3>4, LastAppended
      <4> QED BY <3>3, <4>1
    <3>6. ASSUME NEW i \in DOMAIN ops
          PROVE  ops[i].node \in {n} \cup silent[c]
      <4>1. ops[i].node \in Nodes
        <5>1. ops[i] \in Ops
          BY <3>0
        <5> QED BY <5>1 DEF Ops
      <4>2. client[c].base[ops[i].node] # nodes[ops[i].node]
        BY <3>1
      <4>3. CASE ops[i].node # n
        <5>1. client[c].base[ops[i].node] # client[c].nodes[ops[i].node]
          BY <1>2, <4>1, <4>2, <4>3
        <5>2. ops[i].node \in silent[c]
          BY <4>1, <5>1 DEF Noted
        <5> QED BY <5>2
      <4> QED BY <4>3
    <3>7. \A op \in Range(ops) : op.node \in {n} \cup silent[c]
      BY <3>6 DEF Range
    <3> QED BY <2>4, <3>5, <3>7 DEF Sent
  <2> QED BY <2>3, <2>4
<1> QED BY <1>3, <1>5, <1>6, <1>7 DEF SceneChanged

(* An edit sends the node that was edited, and at most what the editor has  *)
(* imported or edited before without a word to the adapter: the copy holds  *)
(* nothing else that its base does not.                                     *)
THEOREM SendsOwnEdits == ClientSpec => OnlyOwnEdits
<1>1. ClientInv /\ [ClientNext]_clientVars =>
         [\A c \in Clients, n \in Nodes, v \in Values \cup {None} : Edit(c, n, v) =>
            Sent(c) \subseteq {n} \cup silent[c]]_clientVars
  BY EditSendsOwn DEF ClientInv
<1> QED BY <1>1, AlwaysClientInv, PTL DEF ClientSpec, OnlyOwnEdits
=============================================================================
