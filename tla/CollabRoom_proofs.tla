-------------------------- MODULE CollabRoom_proofs --------------------------
(***************************************************************************)
(* Theorems about the two halves of a CollabRoom: CollabControl, for any   *)
(* clients, ttl values, default ttl and number of connections; and         *)
(* CollabFlush, for any number of loops, REST edits and POST /flush tasks, *)
(* and any bound on the version.                                           *)
(*                                                                         *)
(* A lock is Sound when its queue has no duplicates and not its owner, and *)
(* is empty when there is no owner.  Each operation on locks keeps Sound,  *)
(* and says whom it can add to the holders (owner and queue): request adds *)
(* the client that asks, the others nobody, and leave removes the client   *)
(* from them, which needs Sound, since leave does not look for an owner in *)
(* the queue.                                                              *)
(*                                                                         *)
(* FlushInv strengthens the invariants of CollabFlush: the payloads in the *)
(* lock's queue lie between the file and the document, in order; none is   *)
(* older than the last edit that met no flush (calm), because that edit    *)
(* came before all of them; a saved payload is in the file; and a room     *)
(* that is not marked dirty has the last such edit in its file.            *)
(***************************************************************************)
EXTENDS CollabControl, CollabFlush, SequenceTheorems, WellFoundedInduction, TLAPS

QueueOK(q) ==
    /\ q \in Seq(Clients)
    /\ \A i, j \in DOMAIN q : q[i] = q[j] => i = j

Sound(l) ==
    /\ l \in LockType
    /\ \A i, j \in DOMAIN l.queue : l.queue[i] = l.queue[j] => i = j
    /\ \A i \in DOMAIN l.queue : l.queue[i] # l.owner
    /\ l.owner = NoClient => l.queue = <<>> /\ l.lease = 0

InQueue(q) == {q[i] : i \in DOMAIN q}

Holders(l) == ({l.owner} \ {NoClient}) \cup InQueue(l.queue)

ControlInv ==
    /\ TypeOK
    /\ Sound(lock)
    /\ Holders(lock) \subseteq Served

-----------------------------------------------------------------------------

LEMMA LeastExists ==
    ASSUME NEW T \in SUBSET Nat, T # {}
    PROVE  \E m \in T : \A n \in T : m <= n
<1> DEFINE R == OpToRel(<, Nat)
<1>1. IsWellFoundedOn(R, Nat)
  BY NatLessThanWellFounded, Zenon
<1> HIDE DEF R
<1>2. PICK m \in T : \A n \in T : ~ (<< n, m >> \in R)
  BY <1>1, WFMin
<1>3. \A n \in T : ~ (n < m)
  <2> SUFFICES ASSUME NEW n \in T, n < m PROVE FALSE
    OBVIOUS
  <2>1. << n, m >> \in R
    BY DEF R, OpToRel
  <2> QED BY <1>2, <2>1
<1> QED BY <1>3

(* A sequence without its element k. *)
LEMMA CutOut ==
    ASSUME NEW S, NEW q \in Seq(S), NEW k \in 1..Len(q)
    PROVE  LET r == SubSeq(q, 1, k - 1) \o SubSeq(q, k + 1, Len(q))
           IN  /\ r \in Seq(S) /\ Len(r) = Len(q) - 1
               /\ \A i \in 1..Len(r) : r[i] = IF i < k THEN q[i] ELSE q[i + 1]
<1> DEFINE h == SubSeq(q, 1, k - 1)
           t == SubSeq(q, k + 1, Len(q))
           r == h \o t
<1> SUFFICES /\ r \in Seq(S) /\ Len(r) = Len(q) - 1
             /\ \A i \in 1..Len(r) : r[i] = IF i < k THEN q[i] ELSE q[i + 1]
  OBVIOUS
<1>1. /\ h \in Seq(S) /\ Len(h) = k - 1
      /\ \A i \in 1..Len(h) : h[i] = q[i]
  OBVIOUS
<1>2. /\ t \in Seq(S) /\ Len(t) = Len(q) - k
      /\ \A i \in 1..Len(t) : t[i] = q[i + k]
  OBVIOUS
<1> HIDE DEF h, t
<1>3. /\ r \in Seq(S) /\ Len(r) = Len(h) + Len(t)
      /\ \A i \in 1..Len(h) + Len(t) :
             r[i] = IF i <= Len(h) THEN h[i] ELSE t[i - Len(h)]
  BY <1>1, <1>2, ConcatProperties
<1> HIDE DEF r
<1>4. ASSUME NEW i \in 1..Len(r)
      PROVE  r[i] = IF i < k THEN q[i] ELSE q[i + 1]
  <2>1. CASE i < k
    <3>1. i \in 1..Len(h) /\ i <= Len(h)
      BY <1>1, <1>2, <1>3, <2>1
    <3>2. r[i] = h[i]
      BY <1>3, <3>1
    <3> QED BY <1>1, <1>2, <2>1, <3>1, <3>2
  <2>2. CASE i >= k
    <3>1. r[i] = t[i - (k - 1)] /\ i - (k - 1) \in 1..Len(t)
      BY <1>1, <1>2, <1>3, <2>2
    <3>2. (i - (k - 1)) + k = i + 1
      OBVIOUS
    <3> QED BY <1>2, <2>2, <3>1, <3>2
  <2> QED BY <2>1, <2>2
<1> QED BY <1>1, <1>2, <1>3, <1>4

LEMMA RemovedAt ==
    ASSUME NEW q, QueueOK(q), NEW c, NEW k \in 1..Len(q), q[k] = c
    PROVE  LET r == RemoveFirst(q, c)
           IN  /\ r \in Seq(Clients) /\ Len(r) = Len(q) - 1
               /\ \A i \in 1..Len(r) : r[i] = IF i < k THEN q[i] ELSE q[i + 1]
<1>1. {i \in 1..Len(q) : q[i] = c} = {k}
  BY DEF QueueOK
<1>2. Min({k}) = k
  BY DEF Min
<1>3. RemoveFirst(q, c) = SubSeq(q, 1, k - 1) \o SubSeq(q, k + 1, Len(q))
  BY <1>1, <1>2 DEF RemoveFirst, RemoveAt, SelectInSeq
<1> DEFINE x == SubSeq(q, 1, k - 1) \o SubSeq(q, k + 1, Len(q))
<1>4. /\ x \in Seq(Clients) /\ Len(x) = Len(q) - 1
      /\ \A i \in 1..Len(x) : x[i] = IF i < k THEN q[i] ELSE q[i + 1]
  BY CutOut DEF QueueOK
<1> HIDE DEF x
<1> QED BY <1>3, <1>4 DEF x

(* What is left of a queue without one of its members. *)
LEMMA Removed ==
    ASSUME NEW q, QueueOK(q), NEW c
    PROVE  /\ QueueOK(RemoveFirst(q, c))
           /\ InQueue(RemoveFirst(q, c)) = InQueue(q) \ {c}
<1>1. CASE ~ \E i \in 1..Len(q) : q[i] = c
  BY <1>1 DEF RemoveFirst, InQueue, QueueOK
<1>2. CASE \E i \in 1..Len(q) : q[i] = c
  <2>1. PICK k \in 1..Len(q) : q[k] = c
    BY <1>2
  <2> DEFINE r == RemoveFirst(q, c)
  <2>2. /\ r \in Seq(Clients) /\ Len(r) = Len(q) - 1
        /\ \A i \in 1..Len(r) : r[i] = IF i < k THEN q[i] ELSE q[i + 1]
    BY <2>1, RemovedAt
  <2> HIDE DEF r
  <2>3. QueueOK(r)
    <3>1. /\ Len(q) \in Nat /\ DOMAIN q = 1..Len(q) /\ DOMAIN r = 1..Len(r)
          /\ \A i, j \in 1..Len(q) : q[i] = q[j] => i = j
      BY <2>2 DEF QueueOK
    <3> SUFFICES ASSUME NEW i \in 1..Len(r), NEW j \in 1..Len(r), r[i] = r[j]
                 PROVE  i = j
      BY <2>2, <3>1 DEF QueueOK
    <3> DEFINE in(n) == IF n < k THEN n ELSE n + 1
    <3>2. /\ in(i) \in 1..Len(q) /\ in(j) \in 1..Len(q)
          /\ r[i] = q[in(i)] /\ r[j] = q[in(j)]
      BY <2>1, <2>2, <3>1
    <3>3. in(i) = in(j)
      BY <3>1, <3>2
    <3> QED BY <2>1, <3>1, <3>3
  <2>4. InQueue(r) = InQueue(q) \ {c}
    <3>1. ASSUME NEW i \in 1..Len(r) PROVE r[i] \in InQueue(q) \ {c}
      <4>1. Len(q) \in Nat
        BY DEF QueueOK
      <4>2. PICK j \in 1..Len(q) : r[i] = q[j] /\ j # k
        BY <2>1, <2>2, <4>1
      <4> QED BY <2>1, <4>2 DEF QueueOK, InQueue
    <3>2. ASSUME NEW i \in 1..Len(q), q[i] # c PROVE q[i] \in InQueue(r)
      <4>1. CASE i < k
        BY <2>1, <2>2, <4>1 DEF InQueue, QueueOK
      <4>2. CASE i > k
        <5>1. i - 1 \in 1..Len(r) /\ r[i - 1] = q[i]
          BY <2>1, <2>2, <4>2 DEF QueueOK
        <5> QED BY <5>1, <2>2 DEF InQueue
      <4> QED BY <2>1, <3>2, <4>1, <4>2
    <3> QED BY <2>2, <3>1, <3>2 DEF InQueue, QueueOK
  <2> QED BY <2>3, <2>4 DEF r
<1> QED BY <1>1, <1>2

(* A promotion drops the ids before the new owner, and the new owner. *)
LEMMA Promotion ==
    ASSUME NEW q, QueueOK(q), NEW members \in SUBSET Clients
    PROVE  /\ Sound(Promote(q, members))
           /\ Holders(Promote(q, members)) \subseteq InQueue(q)
<1> DEFINE present == {i \in DOMAIN q : q[i] \in members}
           first == CHOOSE i \in present : \A j \in present : i <= j
<1>1. CASE present = {}
  <2>1. Promote(q, members) = Free(<<>>)
    BY <1>1 DEF Promote
  <2> QED BY <2>1 DEF Free, Sound, LockType, Holders, InQueue
<1>2. CASE present # {}
  <2>1. first \in present
    <3>1. present \in SUBSET Nat
      BY DEF QueueOK
    <3>2. \E i \in present : \A j \in present : i <= j
      BY <1>2, <3>1, LeastExists
    <3> QED BY <3>2
  <2> DEFINE rest == SubSeq(q, first + 1, Len(q))
  <2>2. Promote(q, members) = Held(q[first], DefaultTtl, rest)
    BY <1>2 DEF Promote
  <2>3. first \in 1..Len(q) /\ q[first] \in Clients
    BY <2>1 DEF QueueOK
  <2> HIDE DEF first
  <2>4. /\ rest \in Seq(Clients) /\ Len(rest) = Len(q) - first
        /\ \A i \in 1..Len(rest) : rest[i] = q[i + first]
    BY <2>3 DEF QueueOK
  <2> HIDE DEF rest
  <2>5. /\ \A i, j \in DOMAIN rest : rest[i] = rest[j] => i = j
        /\ \A i \in DOMAIN rest : rest[i] # q[first] /\ rest[i] \in InQueue(q)
    <3>1. /\ Len(q) \in Nat /\ DOMAIN rest = 1..Len(rest) /\ first \in Nat
          /\ \A i \in 1..Len(rest) : i + first \in 1..Len(q)
      BY <2>3, <2>4 DEF QueueOK
    <3>2. \A i, j \in 1..Len(q) : q[i] = q[j] => i = j
      BY DEF QueueOK
    <3>3. ASSUME NEW i \in 1..Len(rest)
          PROVE  rest[i] # q[first] /\ rest[i] \in InQueue(q)
      <4>1. i + first # first /\ i + first \in DOMAIN q
        BY <3>1, <3>3 DEF QueueOK
      <4> QED BY <2>3, <2>4, <3>1, <3>2, <4>1 DEF InQueue
    <3>4. ASSUME NEW i \in 1..Len(rest), NEW j \in 1..Len(rest), rest[i] = rest[j]
          PROVE  i = j
      <4>1. i + first = j + first
        BY <2>4, <3>1, <3>2, <3>4
      <4> QED BY <3>1, <4>1
    <3> QED BY <3>1, <3>3, <3>4
  <2>6. Sound(Held(q[first], DefaultTtl, rest))
    BY <2>3, <2>4, <2>5, ControlAssumption DEF Sound, Held, LockType
  <2>7. Holders(Held(q[first], DefaultTtl, rest)) \subseteq InQueue(q)
    BY <2>3, <2>5 DEF Holders, Held, InQueue, QueueOK
  <2> QED BY <2>2, <2>6, <2>7
<1> QED BY <1>1, <1>2

LEMMA HeldSound ==
    ASSUME NEW c \in Clients, NEW lease \in Nat, NEW q, QueueOK(q), c \notin InQueue(q)
    PROVE  Sound(Held(c, lease, q))
<1> DEFINE l == Held(c, lease, q)
<1>1. l.owner = c /\ l.queue = q /\ l \in LockType
  BY DEF Held, LockType, QueueOK
<1>2. \A i \in DOMAIN q : q[i] # c
  BY DEF InQueue
<1> HIDE DEF l
<1>3. Sound(l)
  BY <1>1, <1>2, ControlAssumption DEF Sound, QueueOK
<1> QED BY <1>3 DEF l

(* Expiry adds no holder. *)
LEMMA Expiry ==
    ASSUME NEW l, Sound(l), NEW members \in SUBSET Clients
    PROVE  /\ Sound(Expire(l, members))
           /\ Holders(Expire(l, members)) \subseteq Holders(l)
<1>1. QueueOK(l.queue)
  BY DEF Sound, LockType, QueueOK
<1> QED BY <1>1, Promotion DEF Expire, Holders

(* A request adds at most the client that asks. *)
LEMMA Requesting ==
    ASSUME NEW l, Sound(l), NEW members \in SUBSET Clients,
           NEW c \in Clients, NEW ttl \in Ttls
    PROVE  /\ Sound(RequestControl(l, c, ttl, members))
           /\ Holders(RequestControl(l, c, ttl, members)) \subseteq Holders(l) \cup {c}
<1> DEFINE e == Expire(l, members)
<1>1. Sound(e) /\ Holders(e) \subseteq Holders(l)
  BY Expiry
<1>2. QueueOK(e.queue)
  BY <1>1 DEF Sound, LockType, QueueOK
<1>3. CASE e.owner \in {NoClient, c}
  <2>1. RequestControl(l, c, ttl, members) = Held(c, Lease(ttl), RemoveFirst(e.queue, c))
    BY <1>3 DEF RequestControl
  <2> DEFINE r == RemoveFirst(e.queue, c)
  <2>2. QueueOK(r) /\ InQueue(r) = InQueue(e.queue) \ {c}
    BY <1>2, Removed
  <2>3. Lease(ttl) \in Nat
    BY ControlAssumption DEF Lease
  <2> HIDE DEF e, r
  <2>4. Sound(Held(c, Lease(ttl), r))
    BY <2>2, <2>3, HeldSound
  <2>5. Holders(Held(c, Lease(ttl), r)) \subseteq Holders(e) \cup {c}
    BY <2>2 DEF Holders, Held
  <2> QED BY <1>1, <2>1, <2>4, <2>5 DEF r
<1>4. CASE e.owner \notin {NoClient, c} /\ Contains(e.queue, c)
  BY <1>1, <1>4 DEF RequestControl
<1>5. CASE e.owner \notin {NoClient, c} /\ ~ Contains(e.queue, c)
  <2> DEFINE n == [e EXCEPT !.queue = Append(@, c)]
  <2>1. RequestControl(l, c, ttl, members) = n
    BY <1>5 DEF RequestControl
  <2> HIDE DEF e
  <2>2. /\ n.owner = e.owner /\ n.lease = e.lease /\ n \in LockType
        /\ DOMAIN n.queue = 1..Len(e.queue) + 1 /\ Len(e.queue) \in Nat
        /\ DOMAIN e.queue = 1..Len(e.queue)
        /\ \A i \in 1..Len(e.queue) + 1 :
              n.queue[i] = IF i <= Len(e.queue) THEN e.queue[i] ELSE c
    <3>1. e \in LockType
      BY <1>1 DEF Sound
    <3>2. e.queue \in Seq(Clients)
      BY <3>1 DEF LockType
    <3>3. /\ Append(e.queue, c) \in Seq(Clients)
          /\ Len(Append(e.queue, c)) = Len(e.queue) + 1
          /\ \A i \in 1..Len(e.queue) + 1 :
                Append(e.queue, c)[i] = IF i <= Len(e.queue) THEN e.queue[i] ELSE c
      BY <3>2
    <3>4. /\ n.owner = e.owner /\ n.lease = e.lease /\ n.queue = Append(e.queue, c)
          /\ n \in LockType
      BY <3>1, <3>3 DEF LockType
    <3> QED BY <3>2, <3>3, <3>4
  <2>3. \A i \in 1..Len(e.queue) : e.queue[i] # c
    BY <1>5 DEF Contains
  <2> HIDE DEF n
  <2>4. Sound(n)
    BY <1>1, <1>5, <2>2, <2>3 DEF Sound
  <2>5. Holders(n) \subseteq Holders(e) \cup {c}
    BY <2>2 DEF Holders, InQueue
  <2> QED BY <1>1, <2>1, <2>4, <2>5
<1> QED BY <1>3, <1>4, <1>5

(* Release and leave add nobody; c is no holder after it left. *)
LEMMA Releasing ==
    ASSUME NEW l, Sound(l), NEW members \in SUBSET Clients, NEW c \in Clients
    PROVE  /\ Sound(ReleaseControl(l, c, members))
           /\ Holders(ReleaseControl(l, c, members)) \subseteq Holders(l) \ {c}
<1>1. QueueOK(l.queue)
  BY DEF Sound, LockType, QueueOK
<1>2. CASE l.owner = c
  <2>1. c \notin InQueue(l.queue)
    BY <1>2 DEF Sound, InQueue
  <2> QED BY <1>1, <1>2, <2>1, Promotion DEF ReleaseControl, Holders
<1>3. CASE l.owner # c
  <2> DEFINE r == RemoveFirst(l.queue, c)
             n == [l EXCEPT !.queue = r]
  <2>1. ReleaseControl(l, c, members) = n
    BY <1>3 DEF ReleaseControl
  <2>2. QueueOK(r) /\ InQueue(r) = InQueue(l.queue) \ {c}
    BY <1>1, Removed
  <2>3. l.queue = <<>> => r = <<>>
    BY DEF RemoveFirst
  <2> HIDE DEF r
  <2>4. n.owner = l.owner /\ n.lease = l.lease /\ n.queue = r /\ n \in LockType
    BY <2>2 DEF Sound, LockType, QueueOK
  <2>5. \A i \in DOMAIN r : r[i] # l.owner
    <3> SUFFICES ASSUME NEW i \in DOMAIN r PROVE r[i] # l.owner
      OBVIOUS
    <3>1. r[i] \in InQueue(r)
      BY DEF InQueue
    <3>2. PICK j \in DOMAIN l.queue : r[i] = l.queue[j]
      BY <2>2, <3>1 DEF InQueue
    <3> QED BY <3>2 DEF Sound
  <2> HIDE DEF n
  <2>6. Sound(n)
    BY <2>2, <2>3, <2>4, <2>5 DEF Sound, QueueOK
  <2>7. Holders(n) = Holders(l) \ {c}
    BY <1>3, <2>2, <2>4 DEF Holders
  <2> QED BY <2>1, <2>6, <2>7
<1> QED BY <1>2, <1>3

LEMMA Leaving ==
    ASSUME NEW l, Sound(l), NEW members \in SUBSET Clients, NEW c \in Clients
    PROVE  /\ Sound(LeaveControl(l, c, members))
           /\ Holders(LeaveControl(l, c, members)) \subseteq Holders(l) \ {c}
  BY Releasing DEF ReleaseControl, LeaveControl
-----------------------------------------------------------------------------
LEMMA InitControlInv == ControlInit => ControlInv
<1> SUFFICES ASSUME ControlInit PROVE ControlInv
  OBVIOUS
<1>1. lock.owner = NoClient /\ lock.lease = 0 /\ lock.queue = <<>>
      /\ lock \in LockType /\ DOMAIN lock.queue = {}
  BY DEF ControlInit, Free, LockType
<1>2. Sound(lock) /\ Holders(lock) = {}
  BY <1>1 DEF Sound, Holders, InQueue
<1>3. TypeOK
  BY <1>1, ControlAssumption DEF ControlInit, TypeOK
<1> QED BY <1>2, <1>3 DEF ControlInv

(* A step that makes c leave: who stays served is who was, but for c. *)
LEMMA LeaveStep ==
    ASSUME ControlInv, NEW c \in Clients, Leave(c),
           failures' \subseteq Clients, sockets' \in [Clients -> Nat],
           \A d \in Clients : sockets'[d] <= MaxSockets[d],
           \A d \in Clients \ {c} : sockets'[d] = sockets[d]
    PROVE  ControlInv'
<1>1. clients' \in SUBSET Clients /\ clients' = clients \ {c}
      /\ headless' = headless \ {c} /\ lock' = LeaveControl(lock, c, clients')
  BY DEF ControlInv, TypeOK, Leave
<1>2. Sound(lock') /\ Holders(lock') \subseteq Holders(lock) \ {c}
  BY <1>1, Leaving DEF ControlInv
<1>3. Served \ {c} \subseteq Served'
  BY <1>1 DEF Served
<1>4. TypeOK'
  BY <1>1, <1>2 DEF ControlInv, TypeOK, Sound
<1> QED BY <1>2, <1>3, <1>4 DEF ControlInv

(* A step that replaces the lock by a sound one whose new holder, if any,   *)
(* is served, and after which everybody that was served still is.           *)
LEMMA ServedStep ==
    ASSUME ControlInv, NEW C \in SUBSET Served', Sound(lock'),
           Holders(lock') \subseteq Holders(lock) \cup C,
           Served \subseteq Served', TypeOK'
    PROVE  ControlInv'
  BY DEF ControlInv

LEMMA NextControlInv == ControlInv /\ [ControlNext]_controlVars => ControlInv'
<1> SUFFICES ASSUME ControlInv, [ControlNext]_controlVars PROVE ControlInv'
  OBVIOUS
<1> USE DEF transports
<1>0. /\ TypeOK /\ Sound(lock) /\ Holders(lock) \subseteq Served
      /\ clients \in SUBSET Clients
  BY DEF ControlInv, TypeOK
<1>1. ASSUME NEW c \in Clients, WsJoin(c) PROVE ControlInv'
  <2>1. clients' \in SUBSET Clients /\ lock' = Expire(lock, clients')
    BY <1>0, <1>1 DEF WsJoin
  <2>2. Sound(lock') /\ Holders(lock') \subseteq Holders(lock)
    BY <1>0, <2>1, Expiry
  <2>3. /\ sockets' \in [Clients -> Nat] /\ sockets'[c] > 0
        /\ \A d \in Clients : sockets'[d] <= MaxSockets[d]
        /\ \A d \in Clients \ {c} : sockets'[d] = sockets[d]
    <3>1. /\ sockets \in [Clients -> Nat]
          /\ \A d \in Clients : sockets[d] <= MaxSockets[d] /\ MaxSockets[d] \in Nat
      BY <1>0, ControlAssumption DEF TypeOK
    <3>2. sockets[c] < MaxSockets[c] /\ sockets' = [sockets EXCEPT ![c] = @ + 1]
      BY <1>1 DEF WsJoin
    <3>3. /\ sockets' \in [Clients -> Nat] /\ sockets'[c] = sockets[c] + 1
          /\ \A d \in Clients \ {c} : sockets'[d] = sockets[d]
      BY <3>1, <3>2
    <3> QED BY <3>1, <3>2, <3>3
  <2>4. TypeOK'
    BY <1>0, <1>1, <2>2, <2>3 DEF TypeOK, Sound, WsJoin
  <2>5. Served \subseteq Served'
    BY <1>0, <1>1, <2>3 DEF Served, WsJoin
  <2> QED BY <2>2, <2>4, <2>5, ServedStep
<1>2. ASSUME NEW c \in Clients, WsDisconnect(c) PROVE ControlInv'
  <2>1. /\ sockets \in [Clients -> Nat] /\ failures \subseteq Clients
        /\ \A d \in Clients : sockets[d] <= MaxSockets[d] /\ MaxSockets[d] \in Nat
    BY <1>0, ControlAssumption DEF TypeOK
  <2>2. /\ sockets[c] > 0 /\ sockets' = [sockets EXCEPT ![c] = @ - 1]
        /\ Leave(c) /\ failures' = failures
    BY <1>2 DEF WsDisconnect
  <2>3. /\ sockets' \in [Clients -> Nat] /\ sockets'[c] = sockets[c] - 1
        /\ \A d \in Clients \ {c} : sockets'[d] = sockets[d]
    BY <2>1, <2>2
  <2>4. \A d \in Clients : sockets'[d] <= MaxSockets[d]
    BY <2>1, <2>2, <2>3
  <2> QED BY <1>0, <2>1, <2>2, <2>3, <2>4, LeaveStep
<1>3. ASSUME NEW c \in Clients, LeaveFailed(c) PROVE ControlInv'
  BY <1>0, <1>3, LeaveStep DEF LeaveFailed, TypeOK
<1>4. ASSUME NEW c \in Clients, SendFails(c) PROVE ControlInv'
  BY <1>0, <1>4 DEF SendFails, ControlInv, TypeOK, Sound, Holders, Served
<1>5. ASSUME NEW c \in Clients, NEW ttl \in Ttls, Request(c, ttl) PROVE ControlInv'
  <2>1. Sound(lock') /\ Holders(lock') \subseteq Holders(lock) \cup {c}
    BY <1>0, <1>5, Requesting DEF Request
  <2>2. TypeOK' /\ Served' = Served /\ c \in Served
    BY <1>0, <1>5, <2>1 DEF TypeOK, Sound, Request, Served
  <2> QED BY <2>1, <2>2, ServedStep
<1>6. ASSUME NEW c \in Clients, Release(c) PROVE ControlInv'
  <2>1. Sound(lock') /\ Holders(lock') \subseteq Holders(lock)
    BY <1>0, <1>6, Releasing DEF Release
  <2>2. TypeOK' /\ Served' = Served
    BY <1>0, <1>6, <2>1 DEF TypeOK, Sound, Release, Served
  <2> QED BY <2>1, <2>2, ServedStep
<1>7. ASSUME NEW c \in Clients, Register(c)
      PROVE  /\ clients' \in SUBSET Clients
             /\ Served \subseteq Served' /\ c \in Served'
             /\ Sound(lock') => TypeOK'
  BY <1>0, <1>7 DEF Register, TypeOK, Served, Sound
<1>8. ASSUME NEW c \in Clients, RestJoin(c) PROVE ControlInv'
  <2>1. Register(c) /\ lock' = Expire(lock, clients')
    BY <1>8 DEF RestJoin
  <2>2. Sound(lock') /\ Holders(lock') \subseteq Holders(lock)
    BY <1>0, <1>7, <2>1, Expiry
  <2> QED BY <1>7, <2>1, <2>2, ServedStep
<1>9. ASSUME NEW c \in Clients, NEW ttl \in Ttls, RestJoinRequesting(c, ttl)
      PROVE  ControlInv'
  <2> DEFINE l == RequestControl(lock, c, ttl, clients')
  <2>1. Register(c) /\ lock' = Expire(l, clients')
    BY <1>9 DEF RestJoinRequesting
  <2>2. Sound(l) /\ Holders(l) \subseteq Holders(lock) \cup {c}
    BY <1>0, <1>7, <2>1, Requesting
  <2>3. Sound(lock') /\ Holders(lock') \subseteq Holders(l)
    BY <1>7, <2>1, <2>2, Expiry
  <2> QED BY <1>7, <2>1, <2>2, <2>3, ServedStep
<1>10. ASSUME NEW c \in Clients, NEW releasing \in BOOLEAN, RestLeave(c, releasing)
       PROVE  ControlInv'
  <2> DEFINE l == IF releasing THEN ReleaseControl(lock, c, clients) ELSE lock
             k == LeaveControl(l, c, clients')
  <2>1. /\ clients' = clients \ {c} /\ headless' = headless \ {c}
        /\ clients' \in SUBSET Clients
        /\ lock' = Expire(k, clients') /\ UNCHANGED << sockets, failures >>
    BY <1>0, <1>10 DEF RestLeave
  <2>2. Sound(l) /\ Holders(l) \subseteq Holders(lock)
    BY <1>0, Releasing
  <2>3. Sound(k) /\ Holders(k) \subseteq Holders(l) \ {c}
    BY <2>1, <2>2, Leaving
  <2>4. Sound(lock') /\ Holders(lock') \subseteq Holders(k)
    BY <2>1, <2>3, Expiry
  <2>5. TypeOK'
    BY <1>0, <2>1, <2>4 DEF TypeOK, Sound
  <2>6. Served \ {c} \subseteq Served'
    BY <2>1 DEF Served
  <2> QED BY <1>0, <2>2, <2>3, <2>4, <2>5, <2>6 DEF ControlInv
<1>11. CASE Presence
  <2>1. Sound(lock') /\ Holders(lock') \subseteq Holders(lock)
    BY <1>0, <1>11, Expiry DEF Presence
  <2>2. TypeOK' /\ Served' = Served
    BY <1>0, <1>11, <2>1 DEF TypeOK, Sound, Presence, Served
  <2> QED BY <2>1, <2>2, ServedStep
<1>12. CASE Tick
  <2>1. /\ lock'.owner = lock.owner /\ lock'.queue = lock.queue
        /\ lock' \in LockType
    BY <1>0, <1>12 DEF Tick, Sound, LockType
  <2>2. Sound(lock') /\ Holders(lock') = Holders(lock)
    BY <1>0, <1>12, <2>1 DEF Sound, Holders, Tick
  <2>3. TypeOK' /\ Served' = Served
    BY <1>0, <1>12, <2>1 DEF TypeOK, Tick, Served
  <2> QED BY <2>2, <2>3, ServedStep
<1>13. CASE UNCHANGED controlVars
  BY <1>0, <1>13 DEF controlVars, ControlInv, TypeOK, Sound, Holders, Served
<1> QED
  BY <1>1, <1>2, <1>3, <1>4, <1>5, <1>6, <1>8, <1>9, <1>10, <1>11, <1>12, <1>13
     DEF ControlNext, ClientStep, Departure

LEMMA ControlInvariant == ControlSpec => []ControlInv
  BY InitControlInv, NextControlInv, PTL DEF ControlSpec

(* The lock is well typed, and a client whose transport is a socket has its *)
(* WebSocket loop running, however often clients reconnect.                 *)
THEOREM ControlTyped == ControlSpec => []TypeOK
<1>1. ControlInv => TypeOK
  BY DEF ControlInv
<1> QED BY <1>1, ControlInvariant, PTL

(* request_control, release_control, leave and expiry keep the queue free   *)
(* of duplicates and of the owner, and empty when the lock is free.         *)
THEOREM QueueAlwaysSound == ControlSpec => []QueueSound
<1>1. ControlInv => QueueSound
  BY DEF ControlInv, Sound, QueueSound
<1> QED BY <1>1, ControlInvariant, PTL

(* Nobody that has gone, by whatever of the four ways to leave a room,      *)
(* keeps the lock or a place in its queue.                                  *)
THEOREM NoOrphanOwner == ControlSpec => []NoOrphan
<1>1. ControlInv => NoOrphan
  BY DEF ControlInv, Holders, InQueue, NoOrphan
<1> QED BY <1>1, ControlInvariant, PTL

(* All of it together, which is what the run checks.                        *)
THEOREM LockAlwaysSound == ControlSpec => []LockSound
  BY ControlTyped, QueueAlwaysSound, NoOrphanOwner, PTL DEF LockSound

THEOREM LeaseKept == ControlSpec => LeaseRespected
<1>1. ControlInv /\ [ControlNext]_controlVars
      => [\A c \in Clients :
            (lock.owner = c /\ lock.lease > 0 /\ lock'.owner # c)
            => Release(c) \/ Departure(c)]_controlVars
  <2> SUFFICES ASSUME ControlInv, ControlNext, NEW c \in Clients,
                      lock.owner = c, lock.lease > 0, lock'.owner # c
               PROVE  Release(c) \/ Departure(c)
    OBVIOUS
  <2>1. c # NoClient /\ \A M : Expire(lock, M) = lock
    BY ControlAssumption DEF Expire, Expired, ControlInv, TypeOK, LockType
  <2>2. ASSUME NEW d \in Clients, d # c, NEW M
        PROVE  /\ ReleaseControl(lock, d, M).owner = c
               /\ ReleaseControl(lock, d, M).lease = lock.lease
               /\ LeaveControl(ReleaseControl(lock, d, M), d, clients').owner = c
               /\ LeaveControl(ReleaseControl(lock, d, M), d, clients').lease = lock.lease
               /\ LeaveControl(lock, d, M).owner = c
               /\ LeaveControl(lock, d, M).lease = lock.lease
    BY <2>2 DEF ReleaseControl, LeaveControl, ControlInv, TypeOK, LockType
  <2>3. ASSUME NEW d \in Clients, NEW ttl \in Ttls, NEW M
        PROVE  /\ RequestControl(lock, d, ttl, M).owner = c
               /\ RequestControl(lock, d, ttl, M).lease # 0
    BY <2>1, ControlAssumption
       DEF RequestControl, Held, Lease, ControlInv, TypeOK, LockType
  <2>4. \A l, M : l.lease # 0 => Expire(l, M) = l
    BY DEF Expire, Expired
  <2>5. ASSUME NEW d \in Clients, ClientStep(d), ~ Release(c), ~ Departure(c)
        PROVE  FALSE
    <3>1. CASE WsJoin(d) \/ SendFails(d) \/ RestJoin(d)
      BY <2>1, <3>1 DEF WsJoin, SendFails, RestJoin
    <3>2. CASE Release(d)
      BY <2>2, <2>5, <3>2 DEF Release
    <3>3. CASE \E ttl \in Ttls : Request(d, ttl) \/ RestJoinRequesting(d, ttl)
      BY <2>3, <2>4, <3>3 DEF Request, RestJoinRequesting
    <3>4. CASE WsDisconnect(d) \/ LeaveFailed(d)
      BY <2>2, <2>5, <3>4 DEF Departure, WsDisconnect, LeaveFailed, Leave
    <3>5. CASE \E r \in BOOLEAN : RestLeave(d, r)
      <4>1. PICK r \in BOOLEAN : RestLeave(d, r)
        BY <3>5
      <4>2. d # c
        BY <2>5, <3>5 DEF Departure
      <4> DEFINE l == IF r THEN ReleaseControl(lock, d, clients) ELSE lock
                 k == LeaveControl(l, d, clients')
      <4>3. lock' = Expire(k, clients')
        BY <4>1 DEF RestLeave
      <4>4. k.owner = c /\ k.lease # 0
        BY <2>2, <4>2
      <4> HIDE DEF k
      <4> QED BY <2>4, <4>3, <4>4
    <3> QED BY <2>5, <3>1, <3>2, <3>3, <3>4, <3>5 DEF ClientStep, Departure
  <2>6. ~ Presence /\ ~ Tick
    BY <2>1 DEF Presence, Tick, ControlInv, TypeOK, LockType
  <2> QED BY <2>5, <2>6 DEF ControlNext
<1> QED BY <1>1, ControlInvariant, PTL DEF ControlSpec, LeaseRespected

-----------------------------------------------------------------------------
(* Turns: c is the first member in the queue; and a step from lock l to     *)
(* lock n is fair if a new owner was that.                                  *)
IsFirst(c, q, members) ==
    \E i \in DOMAIN q : q[i] = c /\ \A j \in 1..(i-1) : q[j] \notin members

Awaited(q, members) == \E i \in DOMAIN q : q[i] \in members

Fair(l, n, members) ==
    n.owner \notin {NoClient, l.owner} /\ Awaited(l.queue, members)
        => IsFirst(n.owner, l.queue, members)

(* A promotion gives the lock to the first member, with a lease that runs. *)
LEMMA PromotedFirst ==
    ASSUME NEW q, QueueOK(q), NEW members
    PROVE  /\ ~ Expired(Promote(q, members))
           /\ \/ Promote(q, members).owner = NoClient /\ ~ Awaited(q, members)
              \/ IsFirst(Promote(q, members).owner, q, members)
<1> DEFINE present == {i \in DOMAIN q : q[i] \in members}
           first == CHOOSE i \in present : \A j \in present : i <= j
<1>1. CASE present = {}
  BY <1>1 DEF Promote, Free, Expired, Awaited
<1>2. CASE present # {}
  <2>1. first \in present /\ \A j \in present : first <= j
    <3>1. present \in SUBSET Nat
      BY DEF QueueOK
    <3>2. \E i \in present : \A j \in present : i <= j
      BY <1>2, <3>1, LeastExists
    <3> QED BY <3>2
  <2>2. /\ Promote(q, members).owner = q[first]
        /\ Promote(q, members).lease = DefaultTtl
    BY <1>2 DEF Promote, Held
  <2> HIDE DEF first
  <2>3. ASSUME NEW j \in 1..(first - 1) PROVE q[j] \notin members
    <3>1. /\ DOMAIN q = 1..Len(q) /\ Len(q) \in Nat
      BY DEF QueueOK
    <3>2. j \in DOMAIN q /\ ~ (first <= j)
      BY <2>1, <3>1
    <3> QED BY <2>1, <3>2
  <2>4. ~ Expired(Promote(q, members))
    BY <2>2, ControlAssumption DEF Expired
  <2> QED BY <2>1, <2>2, <2>3, <2>4 DEF IsFirst
<1> QED BY <1>1, <1>2

LEMMA NotExpired ==
    ASSUME NEW l, ~ Expired(l), NEW members
    PROVE  Expire(l, members) = l
  BY DEF Expire

(* Whoever is first without a client that is no member is first with it. *)
LEMMA FirstWithout ==
    ASSUME NEW q, QueueOK(q), NEW c, NEW members, c \notin members, NEW o,
           IsFirst(o, RemoveFirst(q, c), members)
    PROVE  IsFirst(o, q, members)
<1>1. CASE ~ \E i \in 1..Len(q) : q[i] = c
  BY <1>1 DEF RemoveFirst
<1>2. CASE \E i \in 1..Len(q) : q[i] = c
  <2>1. PICK k \in 1..Len(q) : q[k] = c
    BY <1>2
  <2> DEFINE r == RemoveFirst(q, c)
  <2>2. /\ r \in Seq(Clients) /\ Len(r) = Len(q) - 1
        /\ \A i \in 1..Len(r) : r[i] = IF i < k THEN q[i] ELSE q[i + 1]
    BY <2>1, RemovedAt
  <2>3. /\ DOMAIN q = 1..Len(q) /\ Len(q) \in Nat /\ DOMAIN r = 1..Len(r)
    BY <2>2 DEF QueueOK
  <2>4. PICK i \in 1..Len(r) : r[i] = o /\ \A j \in 1..(i-1) : r[j] \notin members
    BY <2>3 DEF IsFirst
  <2> HIDE DEF r
  <2> DEFINE n == IF i < k THEN i ELSE i + 1
  <2>5. n \in DOMAIN q /\ q[n] = o
    BY <2>2, <2>3, <2>4
  <2>6. ASSUME NEW j \in 1..(n-1) PROVE q[j] \notin members
    <3>1. CASE j < k
      <4>1. j \in 1..(i-1) /\ j \in 1..Len(r)
        BY <2>3, <3>1
      <4> QED BY <2>2, <2>4, <3>1, <4>1
    <3>2. CASE j = k
      BY <2>1, <3>2
    <3>3. CASE j > k
      <4>1. j - 1 \in 1..(i-1) /\ j - 1 \in 1..Len(r) /\ ~ (j - 1 < k) /\ (j - 1) + 1 = j
        BY <2>3, <3>3
      <4>2. r[j - 1] = q[j]
        BY <2>2, <4>1
      <4> QED BY <2>4, <4>1, <4>2
    <3> QED BY <2>1, <2>3, <3>1, <3>2, <3>3
  <2> QED BY <2>5, <2>6 DEF IsFirst
<1> QED BY <1>1, <1>2

(* Fewer members, and the first is still first. *)
LEMMA FirstAmongFewer ==
    ASSUME NEW q, NEW o, NEW members, NEW rest \in SUBSET members, IsFirst(o, q, members)
    PROVE  IsFirst(o, q, rest)
  BY DEF IsFirst

LEMMA SoundQueue == ASSUME NEW l, Sound(l) PROVE QueueOK(l.queue)
  BY DEF Sound, LockType, QueueOK

LEMMA ExpiryFair ==
    ASSUME NEW l, Sound(l), NEW members
    PROVE  Fair(l, Expire(l, members), members) /\ ~ Expired(Expire(l, members))
<1>1. CASE Expired(l)
  BY <1>1, SoundQueue, PromotedFirst DEF Expire, Fair
<1>2. CASE ~ Expired(l)
  BY <1>2 DEF Expire, Fair
<1> QED BY <1>1, <1>2

(* A newcomer does not overtake, even if its request finds the lock expired. *)
LEMMA RequestFair ==
    ASSUME NEW l, Sound(l), NEW members \in SUBSET Clients,
           NEW c \in Clients, NEW ttl \in Ttls
    PROVE  LET n == RequestControl(l, c, ttl, members)
           IN  Fair(l, n, members) /\ ~ Expired(n)
<1> DEFINE e == Expire(l, members)
           n == RequestControl(l, c, ttl, members)
<1>1. Sound(e) /\ Fair(l, e, members) /\ ~ Expired(e)
  BY Expiry, ExpiryFair
<1>2. CASE e.owner \in {NoClient, c}
  <2>1. n.owner = c /\ n.lease = Lease(ttl)
    BY <1>2 DEF RequestControl, Held
  <2>2. ~ Expired(n)
    BY <2>1, ControlAssumption DEF Expired, Lease
  <2>3. CASE e.owner = c
    BY <1>1, <2>1, <2>2, <2>3 DEF Fair
  <2>4. CASE e.owner = NoClient
    <3>1. ~ Awaited(l.queue, members)
      <4>1. CASE Expired(l)
        <5>1. Promote(l.queue, members).owner = NoClient
          BY <2>4, <4>1 DEF Expire
        <5>2. NoClient \notin Clients /\ l.queue \in Seq(Clients)
          BY ControlAssumption DEF Sound, LockType
        <5>3. ~ IsFirst(NoClient, l.queue, members)
          BY <5>2 DEF IsFirst
        <5> QED BY <5>1, <5>3, SoundQueue, PromotedFirst
      <4>2. CASE ~ Expired(l)
        <5>1. l.owner = NoClient
          BY <2>4, <4>2 DEF Expire
        <5> QED BY <5>1 DEF Sound, Awaited
      <4> QED BY <4>1, <4>2
    <3> QED BY <2>2, <3>1 DEF Fair
  <2> QED BY <1>2, <2>2, <2>3, <2>4
<1>3. CASE e.owner \notin {NoClient, c}
  <2>1. n.owner = e.owner /\ n.lease = e.lease
    BY <1>1, <1>3 DEF RequestControl, Sound, LockType
  <2> QED BY <1>1, <2>1 DEF Fair, Expired
<1> QED BY <1>2, <1>3

LEMMA LeavingFair ==
    ASSUME NEW l, Sound(l), NEW members, NEW c \in Clients
    PROVE  /\ Fair(l, LeaveControl(l, c, members), members)
           /\ Fair(l, ReleaseControl(l, c, members), members)
<1>1. CASE l.owner = c
  BY <1>1, SoundQueue, PromotedFirst DEF LeaveControl, ReleaseControl, Fair
<1>2. CASE l.owner # c
  <2>1. /\ LeaveControl(l, c, members).owner = l.owner
        /\ ReleaseControl(l, c, members).owner = l.owner
    BY <1>2 DEF LeaveControl, ReleaseControl, Sound, LockType
  <2> QED BY <2>1 DEF Fair
<1> QED BY <1>1, <1>2

(* POST /room/leave: release, leave and expiry, with the members before and *)
(* after it; at most one of them promotes a client.                         *)
LEMMA RestLeavingFair ==
    ASSUME NEW l, Sound(l), NEW before \in SUBSET Clients, NEW c \in Clients,
           NEW releasing \in BOOLEAN,
           NEW k, k = LeaveControl(IF releasing THEN ReleaseControl(l, c, before) ELSE l,
                                   c, before \ {c})
    PROVE  Fair(l, Expire(k, before \ {c}), before \ {c})
<1> DEFINE after == before \ {c}
           m == IF releasing THEN ReleaseControl(l, c, before) ELSE l
           n == Expire(k, after)
<1>1. QueueOK(l.queue)
  BY SoundQueue
<1>2. CASE l.owner = c
  <2>1. PICK seen \in {before, after} : k.owner = Promote(l.queue, seen).owner
                                        /\ k.lease = Promote(l.queue, seen).lease
    <3>1. CASE releasing
      <4>1. m = Promote(l.queue, before)
        BY <1>2, <3>1 DEF ReleaseControl
      <4>2. Sound(m) /\ Holders(m) \subseteq InQueue(l.queue)
        BY <1>1, <4>1, Promotion
      <4>3. m.owner # c
        BY <1>2, <4>2, ControlAssumption DEF Holders, InQueue, Sound
      <4>4. k = [m EXCEPT !.queue = RemoveFirst(@, c)]
        BY <4>3 DEF LeaveControl
      <4> HIDE DEF m
      <4>5. k.owner = m.owner /\ k.lease = m.lease
        BY <4>2, <4>4 DEF Sound, LockType
      <4> QED BY <4>1, <4>5
    <3>2. CASE ~ releasing
      BY <1>2, <3>2 DEF LeaveControl
    <3> QED BY <3>1, <3>2
  <2>2. ~ Expired(k)
    BY <1>1, <2>1, PromotedFirst DEF Expired
  <2>3. n = k
    BY <2>2, NotExpired
  <2>4. k.owner = NoClient \/ IsFirst(k.owner, l.queue, seen)
    BY <1>1, <2>1, PromotedFirst
  <2>5. k.owner = NoClient \/ IsFirst(k.owner, l.queue, after)
    BY <2>4, FirstAmongFewer
  <2> QED BY <2>3, <2>5 DEF Fair
<1>3. CASE l.owner # c
  <2> DEFINE q == RemoveFirst(l.queue, c)
  <2>1. QueueOK(q)
    BY <1>1, Removed
  <2>2. q = l.queue \/ RemoveFirst(q, c) = q
    <3>1. \A i \in 1..Len(q) : q[i] # c
      <4>1. c \notin InQueue(q)
        BY <1>1, Removed
      <4> QED BY <2>1, <4>1 DEF InQueue, QueueOK
    <3> HIDE DEF q
    <3> QED BY <3>1 DEF RemoveFirst
  <2>3. k.owner = l.owner /\ k.lease = l.lease /\ k.queue = q
    <3>1. CASE releasing
      <4>1. m = [l EXCEPT !.queue = q]
        BY <1>3, <3>1 DEF ReleaseControl
      <4> HIDE DEF q
      <4>2. m.owner = l.owner /\ m.lease = l.lease /\ m.queue = q /\ m \in LockType
        BY <2>1, <4>1 DEF Sound, LockType, QueueOK
      <4> HIDE DEF m
      <4>3. k = [m EXCEPT !.queue = RemoveFirst(@, c)]
        BY <1>3, <4>2 DEF LeaveControl, m
      <4>4. k.owner = m.owner /\ k.lease = m.lease /\ k.queue = RemoveFirst(m.queue, c)
        BY <4>2, <4>3 DEF LockType
      <4> QED BY <2>2, <4>2, <4>4 DEF q
    <3>2. CASE ~ releasing
      <4>1. k = [l EXCEPT !.queue = q]
        BY <1>3, <3>2 DEF LeaveControl
      <4> HIDE DEF q
      <4> QED BY <4>1 DEF Sound, LockType
    <3> QED BY <3>1, <3>2
  <2> HIDE DEF q
  <2>4. CASE Expired(k)
    <3>1. n = Promote(q, after)
      BY <2>3, <2>4 DEF Expire
    <3>2. n.owner = NoClient \/ IsFirst(n.owner, q, after)
      BY <2>1, <3>1, PromotedFirst
    <3>3. n.owner = NoClient \/ IsFirst(n.owner, l.queue, after)
      BY <1>1, <3>2, FirstWithout DEF q
    <3> QED BY <3>3 DEF Fair
  <2>5. CASE ~ Expired(k)
    BY <2>3, <2>5, NotExpired DEF Fair
  <2> QED BY <2>4, <2>5
<1> QED BY <1>2, <1>3

(* The lock goes to whoever in the room has waited longest, through every   *)
(* way to get, give back and lose it, and through requests and departures   *)
(* that find it expired.                                                    *)
THEOREM LongestWaitServed == ControlSpec => FirstComeFirstServed
<1> DEFINE Turn == (/\ lock'.owner \notin {NoClient, lock.owner}
                    /\ \E i \in DOMAIN lock.queue : lock.queue[i] \in clients')
                   => Inherits(lock'.owner)
<1>1. Fair(lock, lock', clients') => Turn
  BY DEF Fair, Awaited, IsFirst, Inherits
<1>2. ASSUME ControlInv, ControlNext PROVE Fair(lock, lock', clients')
  <2>1. Sound(lock) /\ clients \in SUBSET Clients
    BY <1>2 DEF ControlInv, TypeOK
  <2>2. lock'.owner = lock.owner => Fair(lock, lock', clients')
    BY DEF Fair
  <2>3. ASSUME NEW c \in Clients, ClientStep(c) PROVE Fair(lock, lock', clients')
    <3>1. CASE WsJoin(c) \/ RestJoin(c)
      BY <2>1, <3>1, ExpiryFair DEF WsJoin, RestJoin
    <3>2. CASE SendFails(c)
      BY <2>2, <3>2 DEF SendFails
    <3>3. CASE Release(c)
      BY <2>1, <3>3, LeavingFair DEF Release
    <3>4. ASSUME NEW ttl \in Ttls, Request(c, ttl) PROVE Fair(lock, lock', clients')
      BY <2>1, <3>4, RequestFair DEF Request
    <3>5. ASSUME NEW ttl \in Ttls, RestJoinRequesting(c, ttl)
          PROVE  Fair(lock, lock', clients')
      <4> DEFINE n == RequestControl(lock, c, ttl, clients')
      <4>1. clients' \in SUBSET Clients /\ lock' = Expire(n, clients')
        BY <2>1, <3>5 DEF RestJoinRequesting, Register
      <4>2. Fair(lock, n, clients') /\ ~ Expired(n)
        BY <2>1, <4>1, RequestFair
      <4> HIDE DEF n
      <4> QED BY <4>1, <4>2, NotExpired
    <3>6. CASE WsDisconnect(c) \/ LeaveFailed(c)
      BY <2>1, <3>6, LeavingFair DEF WsDisconnect, LeaveFailed, Leave
    <3>7. ASSUME NEW releasing \in BOOLEAN, RestLeave(c, releasing)
          PROVE  Fair(lock, lock', clients')
      <4> DEFINE k == LeaveControl(IF releasing THEN ReleaseControl(lock, c, clients) ELSE lock,
                                   c, clients \ {c})
      <4>1. clients' = clients \ {c} /\ lock' = Expire(k, clients \ {c})
        BY <3>7 DEF RestLeave
      <4>2. Fair(lock, Expire(k, clients \ {c}), clients \ {c})
        BY <2>1, RestLeavingFair
      <4> QED BY <4>1, <4>2
    <3> QED BY <2>3, <3>1, <3>2, <3>3, <3>4, <3>5, <3>6, <3>7 DEF ClientStep, Departure
  <2>4. CASE Presence
    BY <2>1, <2>4, ExpiryFair DEF Presence
  <2>5. CASE Tick
    <3>1. lock'.owner = lock.owner
      BY <2>1, <2>5 DEF Tick, Sound, LockType
    <3> QED BY <2>2, <3>1
  <2> QED BY <1>2, <2>3, <2>4, <2>5 DEF ControlNext
<1>3. ControlInv /\ [ControlNext]_controlVars => [Turn]_controlVars
  BY <1>1, <1>2
<1> QED BY <1>3, ControlInvariant, PTL DEF ControlSpec, FirstComeFirstServed, Turn

-----------------------------------------------------------------------------
(* Persistence *)

FlushType == [by : Tasks, payload : Nat, stage : Stages]

FlushInv ==
    /\ version \in Nat /\ persisted \in Nat /\ calm \in Nat /\ disk \in Nat
    /\ dirtyFlag \in BOOLEAN
    /\ flushes \in Seq(FlushType)
    /\ disk <= version /\ calm <= version /\ persisted <= version
    /\ \A i \in DOMAIN flushes :
          /\ disk <= flushes[i].payload /\ calm <= flushes[i].payload
          /\ flushes[i].payload <= version
          /\ i > 1 => flushes[i].stage = "waiting"
    /\ \A i, j \in DOMAIN flushes :
          i <= j => flushes[i].payload <= flushes[j].payload
    /\ HeadIs("saved") => disk = flushes[1].payload
    /\ dirtyFlag => persisted < version
    /\ ~dirtyFlag => disk >= calm

LEMMA FlushInitInv == FlushInit => FlushInv
<1> SUFFICES ASSUME FlushInit PROVE FlushInv
  OBVIOUS
<1> HIDE DEF FlushType
<1>1. flushes = <<>> /\ DOMAIN flushes = {} /\ flushes \in Seq(FlushType)
  BY DEF FlushInit
<1>2. ~ HeadIs("saved")
  BY <1>1 DEF HeadIs
<1>3. \A i : i \notin DOMAIN flushes
  BY <1>1
<1>4. version = 0 /\ persisted = 0 /\ disk = 0 /\ calm = 0 /\ dirtyFlag = FALSE
  BY DEF FlushInit
<1>5. /\ version \in Nat /\ persisted \in Nat /\ calm \in Nat /\ disk \in Nat
      /\ dirtyFlag \in BOOLEAN
      /\ disk <= version /\ calm <= version /\ persisted <= version
      /\ dirtyFlag => persisted < version
      /\ ~dirtyFlag => disk >= calm
  <2>1. 0 \in Nat /\ 0 <= 0 /\ 0 >= 0
    OBVIOUS
  <2>2. ~ dirtyFlag /\ dirtyFlag \in BOOLEAN
    BY <1>4
  <2> QED BY <1>4, <2>1, <2>2
<1>6. \A i \in DOMAIN flushes :
         /\ disk <= flushes[i].payload /\ calm <= flushes[i].payload
         /\ flushes[i].payload <= version
         /\ i > 1 => flushes[i].stage = "waiting"
  BY <1>3
<1>7. \A i, j \in DOMAIN flushes :
         i <= j => flushes[i].payload <= flushes[j].payload
  BY <1>3
<1> QED BY <1>1, <1>2, <1>5, <1>6, <1>7 DEF FlushInv

(* The flush at the head. *)
LEMMA HeadTyped ==
    ASSUME FlushInv, flushes # <<>>
    PROVE  /\ 1 \in DOMAIN flushes /\ Head(flushes) = flushes[1]
           /\ \A i \in DOMAIN flushes : /\ flushes[i] \in FlushType
                                        /\ flushes[i].payload \in Nat
                                        /\ i \in Nat /\ 1 <= i
<1>1. flushes \in Seq(FlushType)
  BY DEF FlushInv
<1> HIDE DEF FlushType
<1>2. /\ 1 \in DOMAIN flushes /\ Head(flushes) = flushes[1]
      /\ \A i \in DOMAIN flushes : flushes[i] \in FlushType /\ i \in Nat /\ 1 <= i
  BY <1>1
<1>3. \A i \in DOMAIN flushes : flushes[i].payload \in Nat
  BY <1>2 DEF FlushType
<1> QED BY <1>2, <1>3

(* The lock is passed on: the rest of the queue keeps what it had. *)
LEMMA TailOK ==
    ASSUME FlushInv, flushes # <<>>, flushes' = Tail(flushes)
    PROVE  /\ flushes' \in Seq(FlushType)
           /\ Len(flushes') = Len(flushes) - 1
           /\ \A i \in DOMAIN flushes' : /\ i + 1 \in DOMAIN flushes
                                         /\ flushes'[i] = flushes[i + 1]
           /\ \A i \in DOMAIN flushes' : flushes'[i].stage = "waiting"
           /\ ~ HeadIs("saved")'
<1>1. /\ flushes' \in Seq(FlushType) /\ Len(flushes') = Len(flushes) - 1
      /\ \A i \in 1..Len(flushes') : flushes'[i] = flushes[i + 1]
  BY DEF FlushInv
<1>2. /\ DOMAIN flushes = 1..Len(flushes) /\ DOMAIN flushes' = 1..Len(flushes')
      /\ Len(flushes) \in Nat
  BY <1>1 DEF FlushInv
<1>3. \A i \in DOMAIN flushes' : i + 1 \in DOMAIN flushes /\ i + 1 > 1
  BY <1>1, <1>2
<1>4. \A i \in DOMAIN flushes' : flushes'[i].stage = "waiting"
  BY <1>1, <1>2, <1>3 DEF FlushInv
<1>5. ~ HeadIs("saved")'
  <2> SUFFICES ASSUME flushes' # <<>> PROVE Head(flushes').stage # "saved"
    BY DEF HeadIs
  <2> HIDE DEF FlushType
  <2>1. 1 \in DOMAIN flushes' /\ Head(flushes') = flushes'[1]
    BY <1>1
  <2> QED BY <1>4, <2>1
<1> QED BY <1>1, <1>2, <1>3, <1>4, <1>5

(* The head of the queue moves on to another stage. *)
LEMMA HeadOK ==
    ASSUME FlushInv, flushes # <<>>, NEW stage \in Stages,
           flushes' = SetHead(stage)
    PROVE  /\ flushes' \in Seq(FlushType)
           /\ DOMAIN flushes' = DOMAIN flushes /\ 1 \in DOMAIN flushes
           /\ \A i \in DOMAIN flushes : flushes'[i].payload = flushes[i].payload
           /\ \A i \in DOMAIN flushes : i > 1 => flushes'[i].stage = "waiting"
           /\ flushes'[1].stage = stage /\ Head(flushes) = flushes[1]
<1>1. flushes \in Seq(FlushType) /\ 1 \in DOMAIN flushes /\ Head(flushes) = flushes[1]
  BY DEF FlushInv
<1>2. flushes[1] \in FlushType
  BY <1>1
<1>3. [flushes[1] EXCEPT !.stage = stage] \in FlushType
  BY <1>2 DEF FlushType
<1>4. flushes' = [flushes EXCEPT ![1] = [flushes[1] EXCEPT !.stage = stage]]
  BY DEF SetHead
<1> HIDE DEF FlushType
<1>5. /\ flushes' \in Seq(FlushType) /\ DOMAIN flushes' = DOMAIN flushes
      /\ \A i \in DOMAIN flushes : i > 1 => flushes'[i] = flushes[i]
      /\ flushes'[1] = [flushes[1] EXCEPT !.stage = stage]
  BY <1>1, <1>3, <1>4
<1>6. flushes'[1].stage = stage /\ flushes'[1].payload = flushes[1].payload
  BY <1>2, <1>5 DEF FlushType
<1>7. \A i \in DOMAIN flushes : i = 1 \/ i > 1
  BY <1>1
<1> QED BY <1>1, <1>5, <1>6, <1>7 DEF FlushInv

LEMMA NextFlushInv == FlushInv /\ [FlushNext]_flushVars => FlushInv'
<1> SUFFICES ASSUME FlushInv, [FlushNext]_flushVars PROVE FlushInv'
  OBVIOUS
<1>1. ASSUME Edit, UNCHANGED << persisted, flushes, disk >> PROVE FlushInv'
  <2>1. flushes = <<>> => DOMAIN flushes = {}
    OBVIOUS
  <2>2. calm' \in Nat /\ calm' <= version' /\ version' = version + 1
    BY <1>1 DEF Edit, FlushInv
  <2>3. \A i \in DOMAIN flushes : calm' <= flushes[i].payload
                                  /\ flushes[i].payload <= version'
    <3>1. CASE flushes = <<>>
      BY <2>1, <3>1
    <3>2. CASE flushes # <<>>
      <4>1. calm' = calm
        BY <1>1, <3>2 DEF Edit
      <4>2. \A i \in DOMAIN flushes : flushes[i].payload \in Nat
        BY <3>2, HeadTyped
      <4> QED BY <2>2, <4>1, <4>2 DEF FlushInv
    <3> QED BY <3>1, <3>2
  <2> QED BY <1>1, <2>2, <2>3 DEF Edit, FlushInv, HeadIs
<1>2. ASSUME NEW t \in Tasks, NEW waitingAs, StartFlush(t, waitingAs) PROVE FlushInv'
  <2> DEFINE f == Flush(t, version, IF flushes = <<>> THEN "saving" ELSE "waiting")
             n == Len(flushes)
  <2>1. f \in FlushType /\ f.payload = version /\ f.stage # "saved"
        /\ (flushes # <<>> => f.stage = "waiting")
    BY DEF FlushInv, FlushType, Flush, Stages
  <2>2. flushes' = Append(flushes, f)
    BY <1>2 DEF StartFlush
  <2> HIDE DEF f
  <2>3. /\ flushes' \in Seq(FlushType) /\ n \in Nat
        /\ DOMAIN flushes' = 1..(n + 1) /\ DOMAIN flushes = 1..n
        /\ \A i \in 1..n : flushes'[i] = flushes[i]
        /\ flushes'[n + 1] = f
    BY <2>1, <2>2 DEF FlushInv
  <2>4. (n = 0 <=> flushes = <<>>) /\ \A i \in 1..(n + 1) : i \in 1..n \/ i = n + 1
    BY <2>3 DEF FlushInv
  <2>5. UNCHANGED << version, persisted, dirtyFlag, disk, calm >>
    BY <1>2 DEF StartFlush
  <2>6. \A i \in DOMAIN flushes' :
          /\ disk <= flushes'[i].payload /\ calm <= flushes'[i].payload
          /\ flushes'[i].payload <= version
          /\ i > 1 => flushes'[i].stage = "waiting"
    BY <2>1, <2>3, <2>4 DEF FlushInv
  <2>7. \A i, j \in DOMAIN flushes' :
          i <= j => flushes'[i].payload <= flushes'[j].payload
    <3> SUFFICES ASSUME NEW i \in 1..(n + 1), NEW j \in 1..(n + 1), i <= j
                 PROVE  flushes'[i].payload <= flushes'[j].payload
      BY <2>3
    <3>1. CASE j \in 1..n
      <4>1. i \in 1..n
        BY <2>3, <3>1
      <4> QED BY <2>3, <3>1, <4>1 DEF FlushInv
    <3>2. CASE j = n + 1
      BY <2>1, <2>3, <2>5, <2>6, <3>2
    <3> QED BY <2>4, <3>1, <3>2
  <2>8. HeadIs("saved")' => disk = flushes'[1].payload
    <3>1. Head(flushes') = flushes'[1]
      BY <2>3
    <3>2. CASE n = 0
      BY <2>1, <2>3, <3>1, <3>2 DEF HeadIs
    <3>3. CASE n > 0
      BY <2>3, <2>4, <3>1, <3>3 DEF HeadIs, FlushInv
    <3> QED BY <2>3, <3>2, <3>3
  <2> QED BY <2>3, <2>5, <2>6, <2>7, <2>8 DEF FlushInv
<1>3. ASSUME UNCHANGED << version, persisted, dirtyFlag, flushes, disk, calm >>
      PROVE  FlushInv'
  BY <1>3 DEF FlushInv, HeadIs
<1>4. CASE AcquireAndSkip
  <2>1. flushes # <<>> /\ flushes' = Tail(flushes) /\ ~ dirtyFlag'
        /\ version = persisted /\ UNCHANGED << version, persisted, disk, calm >>
    BY <1>4 DEF AcquireAndSkip, Leaves, HeadIs
  <2>2. ~ dirtyFlag
    BY <2>1 DEF FlushInv
  <2>3. \A i, j \in DOMAIN flushes' : i <= j => i + 1 <= j + 1
    BY <2>1, TailOK
  <2> QED BY <1>4, <2>1, <2>2, <2>3, TailOK DEF FlushInv, AcquireAndSkip
<1>5. CASE AcquireAndSave
  <2>1. flushes # <<>> /\ flushes' = SetHead("saving")
        /\ UNCHANGED << version, persisted, dirtyFlag, disk, calm >>
    BY <1>5 DEF AcquireAndSave, HeadIs
  <2>2. ~ HeadIs("saved")'
    BY <2>1, HeadOK DEF HeadIs, Stages
  <2> QED BY <2>1, <2>2, HeadOK DEF FlushInv, Stages
<1>6. CASE Save
  <2>1. flushes # <<>> /\ flushes' = SetHead("saved") /\ disk' = flushes[1].payload
        /\ UNCHANGED << version, persisted, dirtyFlag, calm >>
    BY <1>6, HeadOK DEF Save, HeadIs, Stages
  <2>2. /\ 1 \in DOMAIN flushes /\ flushes[1].payload \in Nat
        /\ \A i \in DOMAIN flushes : 1 <= i /\ flushes[i].payload \in Nat
    BY <2>1, HeadTyped
  <2>3. /\ disk' \in Nat /\ disk' <= version /\ calm <= disk'
        /\ \A i \in DOMAIN flushes : disk' <= flushes[i].payload
    BY <2>1, <2>2 DEF FlushInv
  <2> QED BY <2>1, <2>2, <2>3, HeadOK DEF FlushInv, Stages
<1>7. CASE SaveRaises
  <2>1. flushes # <<>> /\ flushes' = SetHead("raised")
        /\ UNCHANGED << version, persisted, dirtyFlag, disk, calm >>
    BY <1>7 DEF SaveRaises, HeadIs
  <2>2. ~ HeadIs("saved")'
    BY <2>1, HeadOK DEF HeadIs, Stages
  <2> QED BY <2>1, <2>2, HeadOK DEF FlushInv, Stages
<1>8. CASE AfterSave
  <2>1. flushes # <<>> /\ flushes' = Tail(flushes) /\ ~ dirtyFlag' /\ dirtyFlag' \in BOOLEAN
        /\ persisted' = version /\ UNCHANGED << version, disk, calm >>
        /\ HeadIs("saved")
    BY <1>8 DEF AfterSave, Leaves, HeadIs
  <2>2. disk >= calm
    BY <2>1 DEF FlushInv, HeadIs
  <2>3. \A i, j \in DOMAIN flushes' : i <= j => i + 1 <= j + 1
    BY <2>1, TailOK
  <2> QED BY <2>1, <2>2, <2>3, TailOK DEF FlushInv
<1>9. CASE AfterRaise
  <2>1. flushes # <<>> /\ flushes' = Tail(flushes)
        /\ UNCHANGED << version, persisted, dirtyFlag, disk, calm >>
    BY <1>9 DEF AfterRaise, Leaves, HeadIs
  <2>3. \A i, j \in DOMAIN flushes' : i <= j => i + 1 <= j + 1
    BY <2>1, TailOK
  <2> QED BY <2>1, <2>3, TailOK DEF FlushInv
<1>10. ASSUME NEW w \in Writers, LoopStep(w) PROVE FlushInv'
  <2>1. w \in Tasks
    BY DEF Tasks
  <2> QED BY <1>1, <1>2, <1>3, <1>10, <2>1
        DEF LoopStep, ApplyEdit, ApplyNothing, FlushAfterApply, FlushOnClose,
            SkipFlush, Reconnect
<1>11. ASSUME NEW t \in Flushers, FlushAll(t) PROVE FlushInv'
  BY <1>2, <1>11 DEF FlushAll, Tasks
<1>12. CASE RestEdit
  BY <1>1, <1>12 DEF RestEdit
<1>13. CASE UNCHANGED flushVars
  BY <1>3, <1>13 DEF flushVars
<1> QED
  BY <1>4, <1>5, <1>6, <1>7, <1>8, <1>9, <1>10, <1>11, <1>12, <1>13
     DEF FlushNext, LoopsNext, FlushStep, ThreadStep

LEMMA FlushInvariant == FlushSpec => []FlushInv
  BY FlushInitInv, NextFlushInv, PTL DEF FlushSpec

(* Saves are queued in the order their payloads were taken, none older than *)
(* the file.                                                                *)
THEOREM QueueOrdered == FlushSpec => []SavesInOrder
<1>1. FlushInv => SavesInOrder
  BY DEF FlushInv, SavesInOrder
<1> QED BY <1>1, FlushInvariant, PTL

Bounded == version \in 0..MaxVersion /\ pc \in [Tasks -> Places]

LEMMA NextBounded == Bounded /\ [FlushNext]_flushVars => Bounded'
<1> SUFFICES ASSUME Bounded, [FlushNext]_flushVars PROVE Bounded'
  OBVIOUS
<1>1. version' = version \/ (version < MaxVersion /\ version' = version + 1)
  BY DEF FlushNext, LoopsNext, FlushStep, ThreadStep, LoopStep, ApplyEdit,
     ApplyNothing, FlushAfterApply, FlushOnClose, StartFlush, SkipFlush,
     Reconnect, FlushAll, RestEdit, AcquireAndSkip, AcquireAndSave, Save,
     SaveRaises, AfterSave, AfterRaise, Edit, flushVars
<1>2. version' \in 0..MaxVersion
  BY <1>1, FlushAssumption DEF Bounded
<1>3. pc' \in [Tasks -> Places]
  <2>1. ASSUME NEW raised, Leaves(raised) PROVE pc' \in [Tasks -> Places]
    <3>1. \E t, p : p \in Places /\ pc' = [pc EXCEPT ![t] = p]
      <4> DEFINE t == Head(flushes).by
                 p == CASE pc[t] = "closing" -> "closed"
                        [] pc[t] # "closing" /\ raised /\ t \in Writers -> "failed"
                        [] OTHER -> "receiving"
      <4>1. p \in Places
        BY DEF Places
      <4>2. pc' = [pc EXCEPT ![t] = p]
        BY <2>1 DEF Leaves
      <4> HIDE DEF t, p
      <4> QED BY <4>1, <4>2
    <3> QED BY <3>1 DEF Bounded
  <2>2. ASSUME ~ Leaves(TRUE), ~ Leaves(FALSE) PROVE pc' \in [Tasks -> Places]
    BY <2>2 DEF Bounded, FlushNext, LoopsNext, FlushStep, ThreadStep, LoopStep, ApplyEdit,
       ApplyNothing, FlushAfterApply, FlushOnClose, StartFlush, SkipFlush,
       Reconnect, FlushAll, RestEdit, AcquireAndSkip, AcquireAndSave, Save,
       SaveRaises, AfterSave, AfterRaise, flushVars, Places
  <2> QED BY <2>1, <2>2
<1> QED BY <1>2, <1>3 DEF Bounded

(* The queue of the persist lock is well typed, only its head has the lock, *)
(* and its payloads are in order.                                           *)
THEOREM FlushesAlwaysSound == FlushSpec => []FlushesSound
<1>1. FlushInit => Bounded
  BY FlushAssumption DEF FlushInit, Bounded, Places
<1>2. FlushInv /\ Bounded => FlushesSound
  <2> SUFFICES ASSUME FlushInv, Bounded PROVE FlushesSound
    OBVIOUS
  <2> DEFINE T == [by : Tasks, payload : 0..version, stage : Stages]
  <2>1. \A i \in DOMAIN flushes : flushes[i] \in T
    <3> TAKE i \in DOMAIN flushes
    <3>1. flushes[i] \in FlushType /\ flushes[i].payload <= version
      BY DEF FlushInv
    <3>2. flushes[i].payload \in 0..version
      BY <3>1 DEF FlushType, FlushInv
    <3> QED BY <3>1, <3>2 DEF FlushType
  <2>2. flushes \in Seq(T)
    <3> HIDE DEF T
    <3>1. Len(flushes) \in Nat /\ flushes \in [1..Len(flushes) -> T]
      BY <2>1 DEF FlushInv
    <3> QED BY <3>1, SeqDef
  <2>3. FlushTypeOK
    BY <2>2 DEF FlushInv, Bounded, FlushTypeOK
  <2> QED BY <2>3 DEF FlushInv, FlushesSound, SavesInOrder
<1> QED BY <1>1, <1>2, NextBounded, FlushInvariant, PTL DEF FlushSpec

(* The file of a room never goes back to an older scene.                    *)
THEOREM DiskMonotone == FlushSpec => DiskNeverRegresses
<1>1. FlushInv /\ [FlushNext]_flushVars => [disk' >= disk]_flushVars
  <2> SUFFICES ASSUME FlushInv, FlushNext PROVE disk' >= disk
    OBVIOUS
  <2>1. CASE Save
    <3>1. flushes # <<>> /\ disk' = Head(flushes).payload
      BY <2>1 DEF Save, HeadIs
    <3>2. 1 \in DOMAIN flushes /\ Head(flushes) = flushes[1] /\ flushes[1].payload \in Nat
      BY <3>1, HeadTyped
    <3> QED BY <3>1, <3>2 DEF FlushInv
  <2>2. CASE ~ Save
    <3>1. disk' = disk
      BY <2>2 DEF FlushNext, LoopsNext, FlushStep, ThreadStep, LoopStep, ApplyEdit,
         ApplyNothing, FlushAfterApply, FlushOnClose, StartFlush, SkipFlush,
         Reconnect, FlushAll, RestEdit, AcquireAndSkip, AcquireAndSave, SaveRaises,
         AfterSave, AfterRaise
    <3> QED BY <3>1 DEF FlushInv
  <2> QED BY <2>1, <2>2
<1> QED BY <1>1, FlushInvariant, PTL DEF FlushSpec, DiskNeverRegresses

(* In a room with nothing to flush, every edit applied while no flush was   *)
(* under way is in the file, whatever saves raised.                         *)
THEOREM QuietEditsReachDisk == FlushSpec => []QuietEditsSurvive
<1>1. FlushInv => QuietEditsSurvive
  BY DEF FlushInv, QuietEditsSurvive, Dirty
<1> QED BY <1>1, FlushInvariant, PTL
=============================================================================
