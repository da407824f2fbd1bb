------------------------------ MODULE Jobs_proofs ------------------------------
(***************************************************************************)
(* Theorems about who runs which job and when: the compute scheduler, for  *)
(* any jobs, queues, priorities, devices, workers and bound, and then the  *)
(* performance budgets, for any jobs, limits, metrics, assets, pollers and *)
(* numbers of registrations.                                               *)
(*                                                                         *)
(* Scheduler.  Always, an entry in a heap is of a job in the table and     *)
(* numbered at most seq (Numbered).  As long as callers are careful, a job *)
(* has at most one entry in all the heaps, what a worker holds is running, *)
(* and no two workers hold the same job (Tidy): then the entry that claim  *)
(* finds is the one that gives the job its place in line.  What complete   *)
(* can do to a job that it should not (EndsAstray) stays with that job,    *)
(* until it is enqueued, ended, put back or claimed.                       *)
(*                                                                         *)
(* Budgets.  JobInv says of one job where it may be, given its status and  *)
(* how often it was registered, and PollInv what a poll may still be about *)
(* to write of it.  Of a job that was registered once, what is listed, or  *)
(* about to be, as queued has left the delayed jobs for good, which is why *)
(* a late write cannot bring it back.  How long a queue is, is a sum over  *)
(* its jobs: SubsetInduction is what is proved of sums with.               *)
(*                                                                         *)
(* Assets.  AssetInv: no asset is twice in the list of uses, and those     *)
(* that are loaded are in it.  The list of loaded ones is a fold that      *)
(* keeps the order of uses, eviction a fold over it: what it takes is the  *)
(* beginning of that list that is as long as its target asks (Enough).     *)
(***************************************************************************)
EXTENDS JobScheduler, Budgets, FiniteSetTheorems, NaturalsInduction,
        WellFoundedInduction, TLAPS

JobsOK == /\ DOMAIN jobs \subseteq Ids
          /\ jobs = [id \in DOMAIN jobs |-> jobs[id]]
          /\ \A id \in DOMAIN jobs : jobs[id] \in Job

Numbered == \A q \in Queues : \A e \in heap[q] : Known(e.id) /\ e.seq <= seq

DeviceIsHint == \A id \in DOMAIN jobs :
    jobs[id].sticky /\ jobs[id].hint # None => jobs[id].device = jobs[id].hint

Tidy ==
    /\ \A q, r \in Queues : \A e \in heap[q], f \in heap[r] :
           e.id = f.id => e = f /\ q = r
    /\ \A w \in Workers : holds[w] # None => RunningJob(holds[w])
    /\ \A v, w \in Workers : holds[v] = holds[w] /\ holds[w] # None => v = w

SchedInv == /\ TypeOK /\ JobsOK
            /\ Numbered /\ DeviceIsHint
            /\ QueuedIsReachable /\ BoardIsTrue
            /\ careful => Tidy /\ astray = {}

-----------------------------------------------------------------------------
(* One job of the table set or replaced. *)
LEMMA SetJob ==
    ASSUME JobsOK, NEW id \in Ids, NEW job \in Job, jobs' = WithJob(id, job)
    PROVE  /\ DOMAIN jobs' = DOMAIN jobs \cup {id}
           /\ jobs'[id] = job
           /\ \A k \in DOMAIN jobs \ {id} : jobs'[k] = jobs[k]
           /\ JobsOK'
           /\ \E S \in SUBSET Ids : jobs' \in [S -> Job]
  BY DEF WithJob, JobsOK

(* An entry pushed. *)
NewEntry(p, id) == [priority |-> p, seq |-> seq + 1, id |-> id]

LEMMA Pushed ==
    ASSUME TypeOK, NEW q \in Queues, NEW p \in Priorities, NEW id \in Ids,
           Push(q, p, id)
    PROVE  /\ heap'[q] = heap[q] \cup {NewEntry(p, id)}
           /\ \A r \in Queues \ {q} : heap'[r] = heap[r]
           /\ NewEntry(p, id) \in Entry
           /\ NewEntry(p, id).priority = p /\ NewEntry(p, id).id = id
           /\ NewEntry(p, id).seq = seq + 1
           /\ heap' \in [Queues -> SUBSET Entry]
           /\ seq' = seq + 1 /\ seq' \in 0..MaxSeq
<1>1. seq + 1 \in 1..MaxSeq /\ seq' = seq + 1
  BY SchedulerAssumption DEF Push, TypeOK
<1>2. /\ NewEntry(p, id) \in Entry
      /\ NewEntry(p, id).priority = p /\ NewEntry(p, id).id = id
      /\ NewEntry(p, id).seq = seq + 1
  BY <1>1 DEF Entry, NewEntry
<1>3. /\ heap' = [heap EXCEPT ![q] = @ \cup {NewEntry(p, id)}]
      /\ heap \in [Queues -> SUBSET Entry]
  BY DEF NewEntry, Push, TypeOK
<1> QED BY <1>1, <1>2, <1>3

(* Nobody is a job of the table. *)
LEMMA NoneUnknown == JobsOK => None \notin DOMAIN jobs
  BY SchedulerAssumption DEF JobsOK

LEMMA ClaimedJob ==
    ASSUME NEW job \in Job, NEW d \in Devices \cup {None}
    PROVE  /\ Claimed(job, d) \in Job
           /\ Claimed(job, d).status = "running"
           /\ Claimed(job, d).sticky = job.sticky
           /\ job.sticky /\ job.hint # None => Claimed(job, d).hint = job.hint
           /\ job.sticky /\ job.hint # None => Claimed(job, d).device = job.hint
           /\ /\ Claimed(job, d).sticky
              /\ Claimed(job, d).hint # None
              /\ job.sticky /\ job.hint # None => job.device = job.hint
              => Claimed(job, d).device = Claimed(job, d).hint
  BY DEF Job, JobStatuses, Claimed

-----------------------------------------------------------------------------
LEMMA InitSched == SchedInit => SchedInv
<1> SUFFICES ASSUME SchedInit PROVE SchedInv
  OBVIOUS
<1>1. jobs \in [{} -> Job] /\ DOMAIN jobs = {}
  BY DEF SchedInit
<1>2. TypeOK
  <2>1. seq \in 0..MaxSeq
    BY SchedulerAssumption DEF SchedInit
  <2> QED BY <1>1, <2>1 DEF SchedInit, TypeOK
<1> QED BY <1>1, <1>2 DEF SchedInit, SchedInv, JobsOK, Numbered, DeviceIsHint,
        QueuedIsReachable, BoardIsTrue, Tidy, Queued, RunningJob, Known

LEMMA EnqueueKeeps ==
    ASSUME SchedInv, NEW r \in Requests, Enqueue(r) PROVE SchedInv'
<1> DEFINE job == [queue |-> r.queue, priority |-> r.priority,
                   sticky |-> r.sticky, hint |-> r.hint,
                   device |-> r.hint, status |-> "queued"]
           e == NewEntry(r.priority, r.id)
<1>1. /\ r.id \in Ids /\ r.queue \in Queues /\ r.priority \in Priorities
      /\ job \in Job
  BY SchedulerAssumption DEF Job, JobStatuses
<1>2. /\ DOMAIN jobs' = DOMAIN jobs \cup {r.id}
      /\ jobs'[r.id] = job
      /\ \A k \in DOMAIN jobs \ {r.id} : jobs'[k] = jobs[k]
      /\ JobsOK' /\ \E S \in SUBSET Ids : jobs' \in [S -> Job]
  BY <1>1, SetJob DEF Enqueue, SchedInv
<1>3. /\ heap'[r.queue] = heap[r.queue] \cup {e}
      /\ \A q \in Queues \ {r.queue} : heap'[q] = heap[q]
      /\ e.priority = r.priority /\ e.seq = seq + 1 /\ e.id = r.id
      /\ heap' \in [Queues -> SUBSET Entry]
      /\ seq' = seq + 1 /\ seq' \in 0..MaxSeq
  <2>1. TypeOK /\ Push(r.queue, r.priority, r.id)
    BY DEF Enqueue, SchedInv
  <2> QED BY <1>1, <2>1, Pushed
<1>4. /\ active' = active /\ holds' = holds
      /\ careful' = (careful /\ ~Known(r.id))
      /\ astray' = astray \ {r.id}
  BY DEF Enqueue
<1>5. /\ job.status = "queued" /\ job.queue = r.queue /\ job.device = job.hint
      /\ job.priority = r.priority
  OBVIOUS
<1> HIDE DEF job, e
<1>6. TypeOK'
  BY <1>2, <1>3, <1>4 DEF SchedInv, TypeOK
<1>7. Numbered'
  <2> SUFFICES ASSUME NEW q \in Queues, NEW f \in heap'[q]
               PROVE  Known(f.id)' /\ f.seq <= seq'
    BY DEF Numbered
  <2>1. CASE f \in heap[q]
    <3>1. f.seq \in Int /\ seq \in Int
      BY <2>1 DEF SchedInv, TypeOK, Entry
    <3> QED BY <1>2, <1>3, <2>1, <3>1 DEF SchedInv, Numbered, Known
  <2>2. CASE f = e
    <3>1. seq \in Int
      BY DEF SchedInv, TypeOK
    <3> QED BY <1>2, <1>3, <2>2, <3>1 DEF Known
  <2> QED BY <1>3, <2>1, <2>2
<1>8. DeviceIsHint'
  BY <1>2, <1>5 DEF SchedInv, DeviceIsHint
<1>9. QueuedIsReachable'
  <2> SUFFICES ASSUME NEW id \in Ids \ astray', Queued(id)'
               PROVE  \E f \in heap'[jobs'[id].queue] :
                         f.id = id /\ f.priority = jobs'[id].priority
    BY DEF QueuedIsReachable
  <2>1. CASE id = r.id
    BY <1>1, <1>2, <1>3, <1>5, <2>1
  <2>2. CASE id # r.id
    <3>1. Queued(id) /\ jobs'[id] = jobs[id] /\ id \notin astray
      BY <1>2, <1>4, <2>2 DEF Queued, Known
    <3>2. PICK f \in heap[jobs[id].queue] : f.id = id /\ f.priority = jobs[id].priority
      BY <3>1 DEF SchedInv, QueuedIsReachable
    <3>3. jobs[id].queue \in Queues
      BY <3>1 DEF SchedInv, JobsOK, Job, Queued, Known
    <3> QED BY <1>3, <3>1, <3>2, <3>3
  <2> QED BY <2>1, <2>2
<1>10. BoardIsTrue'
  BY <1>1, <1>2, <1>4, <1>5 DEF SchedInv, BoardIsTrue, RunningJob, Known, TypeOK
<1>11. careful' => Tidy'
  <2> SUFFICES ASSUME careful' PROVE Tidy'
    OBVIOUS
  <2>1. careful /\ Tidy /\ ~Known(r.id)
    BY <1>4 DEF SchedInv
  <2>2. \A q \in Queues : \A f \in heap[q] : f.id # r.id
    BY <2>1 DEF SchedInv, Numbered
  <2>3. ASSUME NEW q \in Queues, NEW s \in Queues, NEW f \in heap'[q], NEW g \in heap'[s],
               f.id = g.id
        PROVE  f = g /\ q = s
    BY <1>3, <2>1, <2>2, <2>3 DEF Tidy
  <2>4. \A w \in Workers : (holds[w] # None => RunningJob(holds[w]))'
    BY <1>2, <1>4, <2>1 DEF Tidy, RunningJob, Known
  <2> QED BY <1>4, <2>1, <2>3, <2>4 DEF Tidy
<1>12. careful' => astray' = {}
  BY <1>4 DEF SchedInv
<1> QED BY <1>2, <1>6, <1>7, <1>8, <1>9, <1>10, <1>11, <1>12 DEF SchedInv

LEMMA ClaimKeeps ==
    ASSUME SchedInv, NEW w \in Workers, NEW q \in Queues, Claim(w, q)
    PROVE  SchedInv'
<1>1. PICK e \in heap[q] :
         /\ Queued(e.id)
         /\ \A f \in heap[q] : Queued(f.id) => f = e \/ Before(e, f)
         /\ jobs' = WithJob(e.id, Claimed(jobs[e.id], DeviceOf[w]))
         /\ heap' = [heap EXCEPT ![q] = {f \in @ : Before(e, f)}]
         /\ active' = active \cup {e.id}
         /\ holds' = [holds EXCEPT ![w] = e.id]
         /\ astray' = astray \ {e.id}
  BY DEF Claim
<1>2. holds[w] = None /\ seq' = seq /\ careful' = careful
  BY DEF Claim
<1> DEFINE job == Claimed(jobs[e.id], DeviceOf[w])
<1>3. /\ e.id \in DOMAIN jobs /\ e.id \in Ids /\ jobs[e.id] \in Job
      /\ DeviceOf[w] \in Devices \cup {None}
  BY <1>1, SchedulerAssumption DEF SchedInv, JobsOK, Queued, Known
<1>4. /\ job \in Job
      /\ job.status = "running"
      /\ /\ job.sticky
         /\ job.hint # None
         /\ jobs[e.id].sticky /\ jobs[e.id].hint # None
               => jobs[e.id].device = jobs[e.id].hint
         => job.device = job.hint
  BY <1>3, ClaimedJob
<1> HIDE DEF job
<1>5. /\ DOMAIN jobs' = DOMAIN jobs
      /\ jobs'[e.id] = job
      /\ \A k \in DOMAIN jobs \ {e.id} : jobs'[k] = jobs[k]
      /\ JobsOK' /\ \E S \in SUBSET Ids : jobs' \in [S -> Job]
  <2>1. jobs' = WithJob(e.id, job) /\ JobsOK
    BY <1>1 DEF job, SchedInv
  <2> QED BY <1>3, <1>4, <2>1, SetJob
<1>6. /\ heap'[q] = {f \in heap[q] : Before(e, f)}
      /\ \A r \in Queues \ {q} : heap'[r] = heap[r]
      /\ heap' \in [Queues -> SUBSET Entry]
      /\ \A r \in Queues : heap'[r] \subseteq heap[r]
      /\ e \notin heap'[q]
  <2>1. heap \in [Queues -> SUBSET Entry]
    BY DEF SchedInv, TypeOK
  <2>2. e \in Entry /\ e.priority \in Int /\ e.seq \in Int
    <3>1. e \in Entry
      BY <2>1
    <3>2. e.priority \in Priorities /\ e.seq \in 1..MaxSeq
      BY <3>1 DEF Entry
    <3>3. Priorities \subseteq Int /\ MaxSeq \in Nat
      BY SchedulerAssumption
    <3>4. e.priority \in Int
      BY <3>2, <3>3
    <3>5. e.seq \in Int
      BY <3>2, <3>3
    <3> QED BY <3>1, <3>4, <3>5
  <2>3. ~Before(e, e)
    BY <2>2 DEF Before
  <2> QED BY <1>1, <2>1, <2>3
<1>7. /\ holds'[w] = e.id
      /\ \A v \in Workers \ {w} : holds'[v] = holds[v]
      /\ holds' \in [Workers -> Ids \cup {None}]
  BY <1>1, <1>3 DEF SchedInv, TypeOK
<1>8. TypeOK'
  BY <1>1, <1>2, <1>3, <1>5, <1>6, <1>7 DEF SchedInv, TypeOK
<1>9. Numbered'
  BY <1>2, <1>5, <1>6 DEF SchedInv, Numbered, Known
<1>10. DeviceIsHint'
  BY <1>4, <1>5 DEF SchedInv, DeviceIsHint
<1>11. QueuedIsReachable'
  <2> SUFFICES ASSUME NEW id \in Ids \ astray', Queued(id)'
               PROVE  \E f \in heap'[jobs'[id].queue] :
                         f.id = id /\ f.priority = jobs'[id].priority
    BY DEF QueuedIsReachable
  <2>1. id # e.id /\ Queued(id) /\ jobs'[id] = jobs[id] /\ id \notin astray
    BY <1>1, <1>4, <1>5 DEF Queued, Known
  <2>2. PICK f \in heap[jobs[id].queue] : f.id = id /\ f.priority = jobs[id].priority
    BY <2>1 DEF SchedInv, QueuedIsReachable
  <2>3. jobs[id].queue \in Queues
    BY <2>1 DEF SchedInv, JobsOK, Job, Queued, Known
  <2> QED BY <1>1, <1>6, <2>1, <2>2, <2>3
<1>12. BoardIsTrue'
  <2>1. \A k \in Ids : RunningJob(k)' <=> RunningJob(k) \/ k = e.id
    BY <1>3, <1>4, <1>5 DEF RunningJob, Known
  <2>2. /\ active' = active \cup {e.id} /\ careful' = careful
        /\ astray' = astray \ {e.id}
    BY <1>1, <1>2
  <2> QED BY <1>3, <2>1, <2>2 DEF SchedInv, BoardIsTrue, TypeOK
<1>13. careful' => Tidy'
  <2> SUFFICES ASSUME careful' PROVE Tidy'
    OBVIOUS
  <2>1. careful /\ Tidy
    BY <1>2 DEF SchedInv
  <2>2. \A r, s \in Queues : \A f \in heap'[r], g \in heap'[s] : f.id = g.id => f = g /\ r = s
    BY <1>6, <2>1 DEF Tidy
  <2>3. \A v \in Workers \ {w} : holds[v] # e.id
    BY <1>1, <1>3, <2>1, SchedulerAssumption DEF Tidy, Queued, RunningJob
  <2>4. \A v \in Workers : (holds[v] # None => RunningJob(holds[v]))'
    <3>1. ASSUME NEW v \in Workers, holds'[v] # None
          PROVE  holds'[v] \in DOMAIN jobs' /\ jobs'[holds'[v]].status = "running"
      <4>1. CASE v = w
        BY <1>3, <1>4, <1>5, <1>7, <4>1
      <4>2. CASE v # w
        <5>1. holds'[v] = holds[v] /\ holds[v] # e.id
          BY <1>7, <2>3, <4>2
        <5>2. holds[v] \in DOMAIN jobs /\ jobs[holds[v]].status = "running"
          BY <2>1, <3>1, <5>1 DEF Tidy, RunningJob, Known
        <5> QED BY <1>5, <5>1, <5>2
      <4> QED BY <4>1, <4>2
    <3> QED BY <3>1 DEF RunningJob, Known
  <2>5. \A u, v \in Workers : holds'[u] = holds'[v] /\ holds'[u] # None => u = v
    BY <1>7, <2>1, <2>3 DEF Tidy
  <2> QED BY <2>2, <2>4, <2>5 DEF Tidy
<1>14. careful' => astray' = {}
  BY <1>1, <1>2 DEF SchedInv
<1> QED BY <1>5, <1>8, <1>9, <1>10, <1>11, <1>12, <1>13, <1>14 DEF SchedInv

LEMMA ClaimNothingKeeps ==
    ASSUME SchedInv, NEW w \in Workers, NEW q \in Queues, ClaimNothing(w, q)
    PROVE  SchedInv'
<1>1. /\ \A e \in heap[q] : ~Queued(e.id)
      /\ UNCHANGED << jobs, active, seq, holds, careful, astray >>
  BY DEF ClaimNothing
<1>2. /\ heap'[q] = {}
      /\ \A r \in Queues \ {q} : heap'[r] = heap[r]
      /\ heap' \in [Queues -> SUBSET Entry]
      /\ \A r \in Queues : heap'[r] \subseteq heap[r]
  BY DEF ClaimNothing, SchedInv, TypeOK
<1>3. TypeOK'
  BY <1>1, <1>2 DEF SchedInv, TypeOK
<1>4. JobsOK' /\ DeviceIsHint' /\ BoardIsTrue'
  BY <1>1 DEF SchedInv, JobsOK, DeviceIsHint, BoardIsTrue, RunningJob, Known
<1>5. Numbered'
  BY <1>1, <1>2 DEF SchedInv, Numbered, Known
<1>6. QueuedIsReachable'
  <2> SUFFICES ASSUME NEW id \in Ids \ astray, Queued(id)
               PROVE  \E f \in heap'[jobs[id].queue] :
                         f.id = id /\ f.priority = jobs[id].priority
    BY <1>1 DEF QueuedIsReachable, Queued, Known
  <2>1. PICK f \in heap[jobs[id].queue] : f.id = id /\ f.priority = jobs[id].priority
    BY DEF SchedInv, QueuedIsReachable
  <2>2. jobs[id].queue \in Queues /\ jobs[id].queue # q
    BY <1>1, <2>1 DEF SchedInv, JobsOK, Job, Queued, Known
  <2> QED BY <1>2, <2>1, <2>2
<1>7. careful' => Tidy'
  BY <1>1, <1>2 DEF SchedInv, Tidy, RunningJob, Known
<1> QED BY <1>1, <1>3, <1>4, <1>5, <1>6, <1>7 DEF SchedInv

LEMMA RequeueKeeps ==
    ASSUME SchedInv, NEW id \in Ids, NEW p \in Priorities, Requeue(id, p)
    PROVE  SchedInv'
<1> DEFINE old == jobs[id]
           job == [old EXCEPT !.status = "queued", !.priority = p]
           e == NewEntry(p, id)
<1>1. id \in DOMAIN jobs /\ old \in Job /\ old.queue \in Queues
  BY DEF Requeue, Known, SchedInv, JobsOK, Job
<1>2. /\ job \in Job
      /\ job.status = "queued" /\ job.priority = p /\ job.queue = old.queue
      /\ job.sticky = old.sticky /\ job.hint = old.hint /\ job.device = old.device
  BY <1>1 DEF Job, JobStatuses
<1>3. /\ jobs' = WithJob(id, job)
      /\ Push(old.queue, p, id)
      /\ active' = active \ {id}
      /\ careful' = (careful /\ ~Held(id) /\ ~InHeap(id))
      /\ holds' = holds /\ astray' = astray \ {id}
  BY DEF Requeue
<1> HIDE DEF job
<1>4. /\ DOMAIN jobs' = DOMAIN jobs
      /\ jobs'[id] = job
      /\ \A k \in DOMAIN jobs \ {id} : jobs'[k] = jobs[k]
      /\ JobsOK' /\ \E S \in SUBSET Ids : jobs' \in [S -> Job]
  BY <1>1, <1>2, <1>3, SetJob DEF SchedInv
<1>5. /\ heap'[old.queue] = heap[old.queue] \cup {e}
      /\ \A r \in Queues \ {old.queue} : heap'[r] = heap[r]
      /\ e.priority = p /\ e.seq = seq + 1 /\ e.id = id
      /\ heap' \in [Queues -> SUBSET Entry]
      /\ seq' = seq + 1 /\ seq' \in 0..MaxSeq
  <2>1. TypeOK /\ Push(old.queue, p, id)
    BY <1>3 DEF SchedInv
  <2> QED BY <1>1, <2>1, Pushed
<1> HIDE DEF e, old
<1>6. TypeOK'
  <2>1. careful' \in BOOLEAN /\ active' \subseteq Ids
    BY <1>3 DEF SchedInv, TypeOK
  <2> QED BY <1>3, <1>4, <1>5, <2>1 DEF SchedInv, TypeOK
<1>7. Numbered'
  <2> SUFFICES ASSUME NEW r \in Queues, NEW f \in heap'[r]
               PROVE  Known(f.id)' /\ f.seq <= seq'
    BY DEF Numbered
  <2>1. seq \in Int
    BY DEF SchedInv, TypeOK
  <2>2. CASE f \in heap[r]
    <3>1. f.seq \in Int
      BY <2>2 DEF SchedInv, TypeOK, Entry
    <3> QED BY <1>4, <1>5, <2>1, <2>2, <3>1 DEF SchedInv, Numbered, Known
  <2>3. CASE f = e
    BY <1>1, <1>4, <1>5, <2>1, <2>3 DEF Known
  <2> QED BY <1>5, <2>2, <2>3
<1>8. DeviceIsHint'
  BY <1>1, <1>2, <1>4 DEF SchedInv, DeviceIsHint, old
<1>9. QueuedIsReachable'
  <2> SUFFICES ASSUME NEW k \in Ids \ astray', Queued(k)'
               PROVE  \E f \in heap'[jobs'[k].queue] :
                         f.id = k /\ f.priority = jobs'[k].priority
    BY DEF QueuedIsReachable
  <2>1. CASE k = id
    BY <1>1, <1>2, <1>4, <1>5, <2>1
  <2>2. CASE k # id
    <3>1. Queued(k) /\ jobs'[k] = jobs[k] /\ k \notin astray
      BY <1>3, <1>4, <2>2 DEF Queued, Known
    <3>2. PICK f \in heap[jobs[k].queue] : f.id = k /\ f.priority = jobs[k].priority
      BY <3>1 DEF SchedInv, QueuedIsReachable
    <3>3. jobs[k].queue \in Queues
      BY <3>1 DEF SchedInv, JobsOK, Job, Queued, Known
    <3> QED BY <1>5, <3>1, <3>2, <3>3
  <2> QED BY <2>1, <2>2
<1>10. BoardIsTrue'
  BY <1>2, <1>3, <1>4 DEF SchedInv, BoardIsTrue, RunningJob, Known
<1>11. careful' => Tidy'
  <2> SUFFICES ASSUME careful' PROVE Tidy'
    OBVIOUS
  <2>1. careful /\ Tidy /\ ~Held(id) /\ ~InHeap(id)
    BY <1>3 DEF SchedInv
  <2>2. \A q \in Queues : \A f \in heap[q] : f.id # id
    BY <2>1 DEF InHeap
  <2>3. ASSUME NEW q \in Queues, NEW s \in Queues, NEW f \in heap'[q], NEW g \in heap'[s],
               f.id = g.id
        PROVE  f = g /\ q = s
    BY <1>5, <2>1, <2>2, <2>3 DEF Tidy
  <2>4. \A w \in Workers : (holds[w] # None => RunningJob(holds[w]))'
    BY <1>3, <1>4, <2>1 DEF Tidy, RunningJob, Known, Held
  <2> QED BY <1>3, <2>1, <2>3, <2>4 DEF Tidy
<1>12. careful' => astray' = {}
  BY <1>3 DEF SchedInv
<1> QED BY <1>4, <1>6, <1>7, <1>8, <1>9, <1>10, <1>11, <1>12 DEF SchedInv

(* What fail keeps, and complete with a final status, whoever calls them. *)
LEMMA EndKeeps ==
    ASSUME SchedInv, NEW id \in Ids, End(id)
    PROVE  /\ \E S \in SUBSET Ids : jobs' \in [S -> Job]
           /\ JobsOK' /\ DeviceIsHint' /\ Numbered' /\ QueuedIsReachable'
           /\ DOMAIN jobs' = DOMAIN jobs /\ id \in DOMAIN jobs
           /\ jobs'[id].status = "ended"
           /\ \A k \in DOMAIN jobs \ {id} : jobs'[k] = jobs[k]
           /\ heap' = heap /\ seq' = seq /\ active' = active \ {id}
           /\ astray' = astray \ {id}
<1> DEFINE old == jobs[id]
           job == [old EXCEPT !.status = "ended"]
<1>1. /\ id \in DOMAIN jobs /\ old \in Job
      /\ jobs' = WithJob(id, job)
      /\ heap' = heap /\ seq' = seq /\ active' = active \ {id}
      /\ astray' = astray \ {id}
  BY DEF End, Known, SchedInv, JobsOK
<1>2. /\ job \in Job
      /\ job.status = "ended" /\ job.sticky = old.sticky
      /\ job.hint = old.hint /\ job.device = old.device
  BY <1>1 DEF Job, JobStatuses
<1> HIDE DEF job
<1>3. /\ DOMAIN jobs' = DOMAIN jobs
      /\ jobs'[id] = job
      /\ \A k \in DOMAIN jobs \ {id} : jobs'[k] = jobs[k]
      /\ JobsOK' /\ \E S \in SUBSET Ids : jobs' \in [S -> Job]
  BY <1>1, <1>2, SetJob DEF SchedInv
<1>4. DeviceIsHint'
  BY <1>1, <1>2, <1>3 DEF SchedInv, DeviceIsHint
<1>5. Numbered'
  BY <1>1, <1>3 DEF SchedInv, Numbered, Known
<1>6. QueuedIsReachable'
  BY <1>1, <1>2, <1>3 DEF SchedInv, QueuedIsReachable, Queued, Known
<1> QED BY <1>1, <1>2, <1>3, <1>4, <1>5, <1>6

LEMMA WorkerEndsKeeps ==
    ASSUME SchedInv, NEW w \in Workers, WorkerEnds(w) PROVE SchedInv'
<1> DEFINE id == holds[w]
<1>1. /\ End(id) /\ careful' = careful
      /\ holds' = [holds EXCEPT ![w] = None]
  BY DEF WorkerEnds
<1>2. id \in DOMAIN jobs /\ id \in Ids /\ id # None
  BY <1>1, NoneUnknown DEF End, Known, SchedInv, JobsOK
<1>3. /\ \E S \in SUBSET Ids : jobs' \in [S -> Job]
      /\ JobsOK' /\ DeviceIsHint' /\ Numbered' /\ QueuedIsReachable'
      /\ DOMAIN jobs' = DOMAIN jobs
      /\ jobs'[id].status = "ended"
      /\ \A k \in DOMAIN jobs \ {id} : jobs'[k] = jobs[k]
      /\ heap' = heap /\ seq' = seq /\ active' = active \ {id}
      /\ astray' = astray \ {id}
  BY <1>1, <1>2, EndKeeps
<1>4. /\ holds' \in [Workers -> Ids \cup {None}]
      /\ holds'[w] = None
      /\ \A v \in Workers \ {w} : holds'[v] = holds[v]
  BY <1>1 DEF SchedInv, TypeOK
<1> HIDE DEF id
<1>5. TypeOK'
  BY <1>1, <1>3, <1>4 DEF SchedInv, TypeOK
<1>6. BoardIsTrue'
  BY <1>1, <1>3 DEF SchedInv, BoardIsTrue, RunningJob, Known
<1>7. careful' => Tidy'
  BY <1>1, <1>2, <1>3, <1>4 DEF SchedInv, Tidy, RunningJob, Known, id
<1> QED BY <1>1, <1>3, <1>5, <1>6, <1>7 DEF SchedInv

LEMMA WorkerLostKeeps ==
    ASSUME SchedInv, NEW w \in Workers, WorkerLost(w) PROVE SchedInv'
<1>1. /\ holds' = [holds EXCEPT ![w] = None]
      /\ UNCHANGED << jobs, heap, active, seq, careful, astray >>
  BY DEF WorkerLost
<1>2. /\ holds' \in [Workers -> Ids \cup {None}]
      /\ holds'[w] = None
      /\ \A v \in Workers \ {w} : holds'[v] = holds[v]
  BY <1>1 DEF SchedInv, TypeOK
<1>3. TypeOK'
  BY <1>1, <1>2 DEF SchedInv, TypeOK
<1>4. JobsOK' /\ DeviceIsHint' /\ BoardIsTrue' /\ Numbered' /\ QueuedIsReachable'
  BY <1>1 DEF SchedInv, JobsOK, DeviceIsHint, BoardIsTrue, RunningJob, Known,
      Numbered, QueuedIsReachable, Queued
<1>5. careful' => Tidy'
  BY <1>1, <1>2 DEF SchedInv, Tidy, RunningJob, Known
<1> QED BY <1>1, <1>3, <1>4, <1>5 DEF SchedInv

LEMMA OperatorEndsKeeps ==
    ASSUME SchedInv, NEW id \in Ids, OperatorEnds(id) PROVE SchedInv'
<1>1. /\ End(id) /\ holds' = holds
      /\ careful' = (careful /\ ~Held(id) /\ ~Ended(id))
  BY DEF OperatorEnds
<1>2. /\ \E S \in SUBSET Ids : jobs' \in [S -> Job]
      /\ JobsOK' /\ DeviceIsHint' /\ Numbered' /\ QueuedIsReachable'
      /\ DOMAIN jobs' = DOMAIN jobs
      /\ jobs'[id].status = "ended"
      /\ \A k \in DOMAIN jobs \ {id} : jobs'[k] = jobs[k]
      /\ heap' = heap /\ seq' = seq /\ active' = active \ {id}
      /\ astray' = astray \ {id}
  BY <1>1, EndKeeps
<1>3. TypeOK'
  BY <1>1, <1>2 DEF SchedInv, TypeOK
<1>4. BoardIsTrue'
  BY <1>1, <1>2 DEF SchedInv, BoardIsTrue, RunningJob, Known
<1>5. careful' => Tidy'
  <2> SUFFICES ASSUME careful' PROVE Tidy'
    OBVIOUS
  <2>1. careful /\ Tidy /\ ~Held(id)
    BY <1>1 DEF SchedInv
  <2>2. \A w \in Workers : (holds[w] # None => RunningJob(holds[w]))'
    BY <1>1, <1>2, <2>1 DEF Tidy, RunningJob, Known, Held
  <2> QED BY <1>1, <1>2, <2>1, <2>2 DEF Tidy
<1> QED BY <1>1, <1>2, <1>3, <1>4, <1>5 DEF SchedInv

(* complete with what it should not be given: the job goes astray. *)
LEMMA EndsAstrayKeeps ==
    ASSUME SchedInv, NEW id \in Ids, NEW st \in JobStatuses, NEW raises \in BOOLEAN,
           EndsAstray(id, st, raises)
    PROVE  SchedInv'
<1> DEFINE old == jobs[id]
           job == [old EXCEPT !.status = st]
<1>1. /\ id \in DOMAIN jobs /\ old \in Job
      /\ jobs' = WithJob(id, job)
      /\ heap' = heap /\ seq' = seq /\ holds' = holds
      /\ active' \subseteq active /\ active \ {id} \subseteq active'
      /\ careful' = FALSE /\ astray' = astray \cup {id}
  BY DEF EndsAstray, Known, SchedInv, JobsOK
<1>2. /\ job \in Job /\ job.sticky = old.sticky
      /\ job.hint = old.hint /\ job.device = old.device
  BY <1>1 DEF Job, JobStatuses
<1> HIDE DEF job
<1>3. /\ DOMAIN jobs' = DOMAIN jobs
      /\ jobs'[id] = job
      /\ \A k \in DOMAIN jobs \ {id} : jobs'[k] = jobs[k]
      /\ JobsOK' /\ \E S \in SUBSET Ids : jobs' \in [S -> Job]
  BY <1>1, <1>2, SetJob DEF SchedInv
<1>4. DeviceIsHint'
  BY <1>1, <1>2, <1>3 DEF SchedInv, DeviceIsHint
<1>5. Numbered'
  BY <1>1, <1>3 DEF SchedInv, Numbered, Known
<1>6. QueuedIsReachable'
  BY <1>1, <1>3 DEF SchedInv, QueuedIsReachable, Queued, Known
<1>7. TypeOK'
  BY <1>1, <1>3 DEF SchedInv, TypeOK
<1>8. BoardIsTrue'
  BY <1>1, <1>3 DEF SchedInv, BoardIsTrue, RunningJob, Known
<1> QED BY <1>1, <1>3, <1>4, <1>5, <1>6, <1>7, <1>8 DEF SchedInv

LEMMA StepKeeps == SchedInv /\ [SchedNext]_schedVars => SchedInv'
<1> SUFFICES ASSUME SchedInv, [SchedNext]_schedVars PROVE SchedInv'
  OBVIOUS
<1>1. CASE SchedNext
  BY <1>1, EnqueueKeeps, ClaimKeeps, ClaimNothingKeeps, RequeueKeeps, WorkerEndsKeeps,
     WorkerLostKeeps, OperatorEndsKeeps, EndsAstrayKeeps DEF SchedNext, WorkerStep
<1>2. CASE UNCHANGED schedVars
  BY <1>2 DEF schedVars, SchedInv, TypeOK, JobsOK, Numbered, DeviceIsHint,
     QueuedIsReachable, BoardIsTrue, Tidy, Queued, RunningJob, Known
<1> QED BY <1>1, <1>2

THEOREM SchedInvariant == SchedSpec => []SchedInv
  BY InitSched, StepKeeps, PTL DEF SchedSpec

(* Types, for every number of jobs, queues and workers. *)
THEOREM TypeCorrect == SchedSpec => []TypeOK
<1>1. SchedInv => TypeOK
  BY DEF SchedInv
<1> QED BY <1>1, SchedInvariant, PTL

(* No queued job is forgotten among the stale entries of the heaps, unless
   complete was told that it is queued. *)
THEOREM Reachable == SchedSpec => []QueuedIsReachable
<1>1. SchedInv => QueuedIsReachable
  BY DEF SchedInv
<1> QED BY <1>1, SchedInvariant, PTL

(* The board shows every running job, unless complete was told that it is
   running, and no other job for careful callers. *)
THEOREM BoardTrue == SchedSpec => []BoardIsTrue
<1>1. SchedInv => BoardIsTrue
  BY DEF SchedInv
<1> QED BY <1>1, SchedInvariant, PTL

(* All of it together, which is what the run checks.                        *)
THEOREM BoardAlwaysSound == SchedSpec => []BoardSound
<1>1. SchedInv => BoardSound
  BY DEF SchedInv, BoardSound
<1> QED BY <1>1, SchedInvariant, PTL

-----------------------------------------------------------------------------
(* The line that PriorityLine speaks of. *)

(* For careful callers, the entry found in a heap is the one that counts. *)
LEMMA LastIsOnly ==
    ASSUME SchedInv, careful, NEW id \in QueuedIds, NEW e \in heap[jobs[id].queue],
           e.id = id
    PROVE  /\ LastEntry(id) = e
           /\ PlaceOf(id) = [queue |-> jobs[id].queue, priority |-> e.priority,
                             arrival |-> e.seq]
<1>1. id \in DOMAIN jobs /\ jobs[id].queue \in Queues /\ Tidy
  BY DEF SchedInv, JobsOK, Job, QueuedIds
<1>2. \A f \in heap[jobs[id].queue] : f.id = id => f = e
  <2> SUFFICES ASSUME NEW f \in heap[jobs[id].queue], f.id = id PROVE f = e
    OBVIOUS
  <2> QED BY <1>1 DEF Tidy
<1>3. e.seq <= e.seq
  <2>1. e.seq \in Int
    BY <1>1 DEF SchedInv, TypeOK, Entry
  <2> QED BY <2>1
<1>4. LastEntry(id) = e
  BY <1>2, <1>3 DEF LastEntry
<1> QED BY <1>4 DEF PlaceOf

LEMMA PlaceOfEntry ==
    SchedInv /\ careful =>
        \A id \in QueuedIds : \A e \in heap[jobs[id].queue] :
            e.id = id =>
               PlaceOf(id) = [queue |-> jobs[id].queue, priority |-> e.priority,
                              arrival |-> e.seq]
  BY LastIsOnly

(* The same after a step. *)
LEMMA PlaceOfEntryNext ==
    (SchedInv /\ careful)' =>
        (\A id \in QueuedIds : \A e \in heap[jobs[id].queue] :
            e.id = id =>
               PlaceOf(id) = [queue |-> jobs[id].queue, priority |-> e.priority,
                              arrival |-> e.seq])'
  BY PlaceOfEntry, PTL

(* Every queued job has one. *)
LEMMA HasPlace ==
    ASSUME SchedInv, careful, NEW id \in QueuedIds
    PROVE  /\ LastEntry(id) \in heap[jobs[id].queue]
           /\ LastEntry(id).id = id
           /\ PlaceOf(id) = [queue |-> jobs[id].queue,
                             priority |-> LastEntry(id).priority,
                             arrival |-> LastEntry(id).seq]
           /\ jobs[id].queue \in Queues
           /\ LastEntry(id).priority \in Priorities
           /\ LastEntry(id).seq \in Nat /\ LastEntry(id).seq <= seq
<1>1. id \in DOMAIN jobs /\ id \in Ids /\ jobs[id].queue \in Queues /\ Queued(id)
  BY DEF SchedInv, JobsOK, Job, QueuedIds
<1>2. PICK e \in heap[jobs[id].queue] : e.id = id
  BY <1>1 DEF SchedInv, QueuedIsReachable
<1>3. LastEntry(id) = e
  BY <1>2, LastIsOnly
<1>4. e \in Entry /\ e.seq <= seq
  BY <1>1, <1>2 DEF SchedInv, TypeOK, Numbered
<1>5. e.priority \in Priorities /\ e.seq \in Nat
  BY <1>4 DEF Entry
<1> QED BY <1>1, <1>2, <1>3, <1>4, <1>5 DEF PlaceOf

(* Whose entries and job stay has the same place. *)
LEMMA SamePlace ==
    ASSUME SchedInv, SchedInv', careful, careful',
           NEW k \in QueuedIds, jobs'[k] = jobs[k], k \in DOMAIN jobs',
           \A q \in Queues : \A e \in heap[q] : e.id = k => e \in heap'[q]
    PROVE  k \in QueuedIds' /\ PlaceOf(k)' = PlaceOf(k)
<1>1. k \in QueuedIds'
  BY DEF QueuedIds, Queued, Known
<1>2. /\ LastEntry(k) \in heap[jobs[k].queue] /\ LastEntry(k).id = k
      /\ jobs[k].queue \in Queues
      /\ PlaceOf(k) = [queue |-> jobs[k].queue, priority |-> LastEntry(k).priority,
                       arrival |-> LastEntry(k).seq]
  BY HasPlace
<1> DEFINE e == LastEntry(k)
<1>3. e \in heap'[jobs'[k].queue] /\ e.id = k
  BY <1>2
<1> HIDE DEF e
<1>4. PlaceOf(k)' = [queue |-> jobs'[k].queue, priority |-> e.priority,
                     arrival |-> e.seq]
  <2>1. \A id \in QueuedIds' : \A f \in heap'[jobs'[id].queue] :
            f.id = id =>
               PlaceOf(id)' = [queue |-> jobs'[id].queue, priority |-> f.priority,
                               arrival |-> f.seq]
    BY PlaceOfEntryNext
  <2> QED BY <1>1, <1>3, <2>1
<1> QED BY <1>1, <1>2, <1>4 DEF e

(* A job that gets a place arrives after all who wait. *)
LEMMA JoinsLine ==
    ASSUME SchedInv, SchedInv', careful, careful', NEW id \in Ids, id \notin QueuedIds,
           DOMAIN jobs' = DOMAIN jobs \cup {id}, jobs'[id].status = "queued",
           \A k \in DOMAIN jobs \ {id} : jobs'[k] = jobs[k],
           \A q \in Queues : heap[q] \subseteq heap'[q],
           NEW e \in heap'[jobs'[id].queue], e.id = id, e.seq = seq + 1
    PROVE  Line!Joins(id) /\ EndedIds' = EndedIds \ {id}
<1>1. QueuedIds' = QueuedIds \cup {id}
  BY DEF QueuedIds, Queued, Known
<1>2. EndedIds' = EndedIds \ {id}
  BY DEF EndedIds, Ended, Known
<1>3. jobs'[id].queue \in Queues /\ e.priority \in Priorities /\ seq \in Nat
  <2>1. jobs'[id] \in Job /\ heap' \in [Queues -> SUBSET Entry] /\ seq \in 0..MaxSeq
    BY DEF SchedInv, JobsOK, TypeOK
  <2>2. jobs'[id].queue \in Queues
    BY <2>1 DEF Job
  <2>3. e \in Entry
    BY <2>1, <2>2
  <2>4. e.priority \in Priorities
    BY <2>3 DEF Entry
  <2> QED BY <2>1, <2>2, <2>4
<1>4. PlaceOf(id)' = [queue |-> jobs'[id].queue, priority |-> e.priority,
                      arrival |-> seq + 1]
  BY <1>1, PlaceOfEntryNext
<1>5. PlaceOf(id)' \in Line!Place /\ PlaceOf(id)'.arrival = seq + 1
  BY <1>3, <1>4 DEF Line!Place
<1>6. ASSUME NEW k \in QueuedIds \ {id}
      PROVE  PlaceOf(k)' = PlaceOf(k) /\ PlaceOf(k).arrival < seq + 1
  <2>1. jobs'[k] = jobs[k] /\ k \in DOMAIN jobs'
    BY DEF QueuedIds
  <2>2. PlaceOf(k)' = PlaceOf(k)
    BY <2>1, SamePlace
  <2>3. PlaceOf(k).arrival \in Nat /\ PlaceOf(k).arrival <= seq
    BY HasPlace
  <2> QED BY <1>3, <2>2, <2>3
<1> DEFINE place == [k \in QueuedIds |-> PlaceOf(k)]
<1>7. DOMAIN place' = DOMAIN place \cup {id}
  BY <1>1
<1>8. place'[id] = PlaceOf(id)'
  BY <1>1
<1>9. ASSUME NEW k \in DOMAIN place \ {id}
      PROVE  place'[k] = place[k] /\ place[k].arrival < place'[id].arrival
  BY <1>1, <1>5, <1>6, <1>8
<1> QED BY <1>2, <1>5, <1>7, <1>8, <1>9 DEF Line!Joins, Line!Waiting

(* A job that is not queued any more leaves the others where they are. *)
LEMMA LeavesLine ==
    ASSUME SchedInv, SchedInv', careful, careful', NEW id \in DOMAIN jobs,
           DOMAIN jobs' = DOMAIN jobs, jobs'[id].status # "queued",
           \A k \in DOMAIN jobs \ {id} : jobs'[k] = jobs[k],
           \A k \in QueuedIds \ {id} : \A q \in Queues : \A e \in heap[q] :
               e.id = k => e \in heap'[q]
    PROVE  Line!StepsOut(id)
<1>1. QueuedIds' = QueuedIds \ {id}
  BY DEF QueuedIds, Queued, Known
<1>2. ASSUME NEW k \in QueuedIds \ {id} PROVE PlaceOf(k)' = PlaceOf(k)
  <2>1. jobs'[k] = jobs[k] /\ k \in DOMAIN jobs'
    BY DEF QueuedIds
  <2> QED BY <2>1, SamePlace
<1>3. [k \in QueuedIds' |-> PlaceOf(k)'] = [k \in QueuedIds \ {id} |-> PlaceOf(k)]
  BY <1>1, <1>2
<1>4. [k \in QueuedIds \ {id} |-> PlaceOf(k)]
         = [k \in QueuedIds \ {id} |-> [j \in QueuedIds |-> PlaceOf(j)][k]]
  OBVIOUS
<1> QED BY <1>3, <1>4 DEF Line!StepsOut, Line!Waiting

LEMMA LineInits == SchedInit => Line!LineInit
<1> SUFFICES ASSUME SchedInit PROVE Line!LineInit
  OBVIOUS
<1>1. QueuedIds = {} /\ EndedIds = {} /\ DOMAIN jobs = {}
  BY DEF SchedInit, QueuedIds, EndedIds
<1>2. [id \in QueuedIds |-> PlaceOf(id)] = [j \in {} |-> 0]
  BY <1>1
<1> QED BY <1>1, <1>2 DEF SchedInit, Line!LineInit

LEMMA EnqueueSubmits ==
    ASSUME SchedInv, SchedInv', careful, careful', NEW r \in Requests, Enqueue(r)
    PROVE  Line!Submit(r.id)
<1> DEFINE job == [queue |-> r.queue, priority |-> r.priority,
                   sticky |-> r.sticky, hint |-> r.hint,
                   device |-> r.hint, status |-> "queued"]
<1>1. /\ r.id \in Ids /\ r.queue \in Queues /\ r.priority \in Priorities
      /\ job \in Job /\ job.status = "queued" /\ job.queue = r.queue
  BY SchedulerAssumption DEF Job, JobStatuses
<1> HIDE DEF job
<1>2. /\ jobs' = WithJob(r.id, job) /\ holds' = holds /\ ~Known(r.id)
      /\ Push(r.queue, r.priority, r.id)
  BY DEF Enqueue, job
<1>3. /\ DOMAIN jobs' = DOMAIN jobs \cup {r.id}
      /\ jobs'[r.id] = job
      /\ \A k \in DOMAIN jobs \ {r.id} : jobs'[k] = jobs[k]
  BY <1>1, <1>2, SetJob DEF SchedInv
<1> DEFINE e == NewEntry(r.priority, r.id)
<1>4. /\ e \in heap'[r.queue] /\ e.id = r.id /\ e.seq = seq + 1
      /\ \A q \in Queues : heap[q] \subseteq heap'[q]
  <2>1. TypeOK
    BY DEF SchedInv
  <2> QED BY <1>1, <1>2, <2>1, Pushed
<1> HIDE DEF e
<1>5. r.id \notin QueuedIds /\ r.id \notin EndedIds
  BY <1>2 DEF QueuedIds, EndedIds, Known
<1>6. Line!Joins(r.id) /\ EndedIds' = EndedIds \ {r.id}
  BY <1>1, <1>3, <1>4, <1>5, JoinsLine
<1> QED BY <1>2, <1>3, <1>5, <1>6 DEF Line!Submit, Known

LEMMA RequeuePutsBack ==
    ASSUME SchedInv, SchedInv', careful, careful', NEW id \in Ids,
           NEW p \in Priorities, Requeue(id, p)
    PROVE  Line!PutBack(id)
<1> DEFINE job == [jobs[id] EXCEPT !.status = "queued", !.priority = p]
<1>1. /\ id \in DOMAIN jobs /\ jobs[id] \in Job /\ jobs[id].queue \in Queues
      /\ ~Queued(id)
  BY DEF Requeue, Known, SchedInv, JobsOK, Job
<1>2. job \in Job /\ job.status = "queued" /\ job.queue = jobs[id].queue
  BY <1>1 DEF Job, JobStatuses
<1> HIDE DEF job
<1>3. /\ jobs' = WithJob(id, job) /\ holds' = holds /\ ~Held(id)
      /\ Push(jobs[id].queue, p, id)
  BY DEF Requeue, job
<1>4. /\ DOMAIN jobs' = DOMAIN jobs \cup {id} /\ DOMAIN jobs' = DOMAIN jobs
      /\ jobs'[id] = job
      /\ \A k \in DOMAIN jobs \ {id} : jobs'[k] = jobs[k]
  BY <1>1, <1>2, <1>3, SetJob DEF SchedInv
<1> DEFINE e == NewEntry(p, id)
<1>5. /\ e \in heap'[jobs[id].queue] /\ e.id = id /\ e.seq = seq + 1
      /\ \A q \in Queues : heap[q] \subseteq heap'[q]
  <2>1. TypeOK
    BY DEF SchedInv
  <2> QED BY <1>1, <1>3, <2>1, Pushed
<1> HIDE DEF e
<1>6. id \notin QueuedIds
  BY <1>1 DEF QueuedIds
<1>7. Line!Joins(id) /\ EndedIds' = EndedIds \ {id}
  BY <1>2, <1>4, <1>5, <1>6, JoinsLine
<1>8. ~Line!Running(id)
  BY <1>3 DEF Line!Running, Held
<1> QED BY <1>1, <1>3, <1>4, <1>6, <1>7, <1>8 DEF Line!PutBack, Line!Waiting

LEMMA ClaimStarts ==
    ASSUME SchedInv, SchedInv', careful, careful', NEW w \in Workers,
           NEW q \in Queues, Claim(w, q)
    PROVE  \E id \in Ids : Line!Start(id, w)
<1>1. PICK e \in heap[q] :
         /\ Queued(e.id)
         /\ \A f \in heap[q] : Queued(f.id) => f = e \/ Before(e, f)
         /\ jobs' = WithJob(e.id, Claimed(jobs[e.id], DeviceOf[w]))
         /\ heap' = [heap EXCEPT ![q] = {f \in @ : Before(e, f)}]
         /\ holds' = [holds EXCEPT ![w] = e.id]
  BY DEF Claim
<1> DEFINE id == e.id
           job == Claimed(jobs[id], DeviceOf[w])
<1>2. /\ id \in DOMAIN jobs /\ id \in Ids /\ jobs[id] \in Job
      /\ DeviceOf[w] \in Devices \cup {None}
  BY <1>1, SchedulerAssumption DEF SchedInv, JobsOK, Queued, Known
<1>3. job \in Job /\ job.status = "running"
  BY <1>2, ClaimedJob
<1> HIDE DEF job
<1>4. /\ DOMAIN jobs' = DOMAIN jobs /\ jobs'[id] = job
      /\ \A k \in DOMAIN jobs \ {id} : jobs'[k] = jobs[k]
  <2>1. jobs' = WithJob(id, job) /\ JobsOK
    BY <1>1 DEF SchedInv, job
  <2> QED BY <1>2, <1>3, <2>1, SetJob
<1>5. /\ heap'[q] = {f \in heap[q] : Before(e, f)}
      /\ \A r \in Queues \ {q} : heap'[r] = heap[r]
  BY <1>1 DEF SchedInv, TypeOK
<1> HIDE DEF id
<1>6. id \in QueuedIds /\ jobs[id].queue = q /\ e.id = id
  <2>1. id \in QueuedIds /\ e.id = id
    BY <1>1, <1>2 DEF QueuedIds, id
  <2>2. jobs[id].queue \in Queues
    BY <1>2 DEF Job
  <2>3. PICK f \in heap[jobs[id].queue] : f.id = id
    BY <1>1, <1>2 DEF SchedInv, QueuedIsReachable, id
  <2>4. jobs[id].queue = q
    BY <2>1, <2>2, <2>3 DEF SchedInv, Tidy
  <2> QED BY <2>1, <2>4
<1>7. \A k \in QueuedIds \ {id} : \A r \in Queues : \A f \in heap[r] :
          f.id = k => f \in heap'[r]
  <2> SUFFICES ASSUME NEW k \in QueuedIds \ {id}, NEW r \in Queues, NEW f \in heap[r],
                      f.id = k
               PROVE  f \in heap'[r]
    OBVIOUS
  <2>1. CASE r # q
    BY <1>5, <2>1
  <2>2. CASE r = q
    BY <1>1, <1>5, <1>6, <2>2 DEF QueuedIds
  <2> QED BY <2>1, <2>2
<1>8. Line!StepsOut(id)
  BY <1>2, <1>3, <1>4, <1>7, LeavesLine
<1>9. Line!First(id)
  <2> DEFINE place == [k \in QueuedIds |-> PlaceOf(k)]
  <2>1. PlaceOf(id) = [queue |-> q, priority |-> e.priority, arrival |-> e.seq]
    BY <1>6, LastIsOnly
  <2>2. ASSUME NEW k \in QueuedIds \ {id}, PlaceOf(k).queue = q
        PROVE  Line!Ahead(PlaceOf(id), PlaceOf(k))
    <3> DEFINE f == LastEntry(k)
    <3>1. /\ f \in heap[jobs[k].queue] /\ f.id = k
          /\ PlaceOf(k) = [queue |-> jobs[k].queue, priority |-> f.priority,
                           arrival |-> f.seq]
      BY HasPlace
    <3> HIDE DEF f
    <3>2. jobs[k].queue = q /\ f \in heap[q]
      BY <2>2, <3>1
    <3>3. Before(e, f)
      BY <1>1, <1>6, <3>1, <3>2 DEF QueuedIds
    <3> QED BY <2>1, <3>1, <3>3 DEF Before, Line!Ahead
  <2>3. place[id] = PlaceOf(id) /\ DOMAIN place = QueuedIds
    BY <1>6
  <2>4. \A k \in DOMAIN place \ {id} :
            place[k].queue = place[id].queue => Line!Ahead(place[id], place[k])
    BY <2>1, <2>2, <2>3
  <2> QED BY <1>6, <2>4 DEF Line!First, Line!Waiting
<1>10. holds[w] = None /\ holds' = [holds EXCEPT ![w] = id]
  BY <1>1 DEF Claim, id
<1>11. EndedIds' = EndedIds
  <2>1. id \notin EndedIds
    BY <1>6 DEF EndedIds, Ended, QueuedIds, Queued
  <2> QED BY <1>2, <1>3, <1>4, <2>1 DEF EndedIds, Ended, Known
<1> QED BY <1>2, <1>4, <1>8, <1>9, <1>10, <1>11 DEF Line!Start

LEMMA ClaimNothingStutters ==
    ASSUME SchedInv, SchedInv', careful, careful', NEW w \in Workers,
           NEW q \in Queues, ClaimNothing(w, q)
    PROVE  UNCHANGED Line!lineVars
<1>1. /\ jobs' = jobs /\ holds' = holds
      /\ \A e \in heap[q] : ~Queued(e.id)
      /\ \A r \in Queues \ {q} : heap'[r] = heap[r]
  BY DEF ClaimNothing, SchedInv, TypeOK
<1>2. QueuedIds' = QueuedIds /\ EndedIds' = EndedIds
  BY <1>1 DEF QueuedIds, EndedIds, Queued, Ended, Known
<1>3. ASSUME NEW k \in QueuedIds PROVE PlaceOf(k)' = PlaceOf(k)
  <2>1. \A r \in Queues : \A e \in heap[r] : e.id = k => e \in heap'[r]
    BY <1>1 DEF QueuedIds
  <2>2. jobs'[k] = jobs[k] /\ k \in DOMAIN jobs'
    BY <1>1 DEF QueuedIds
  <2> QED BY <2>1, <2>2, SamePlace
<1>4. [k \in QueuedIds' |-> PlaceOf(k)'] = [k \in QueuedIds |-> PlaceOf(k)]
  BY <1>2, <1>3
<1> QED BY <1>1, <1>2, <1>4 DEF Line!lineVars, ClaimNothing

LEMMA EndLeaves ==
    ASSUME SchedInv, SchedInv', careful, careful', NEW id \in Ids, End(id)
    PROVE  /\ Line!StepsOut(id)
           /\ EndedIds' = EndedIds \cup {id}
           /\ DOMAIN jobs' = DOMAIN jobs /\ id \in DOMAIN jobs
<1>1. /\ DOMAIN jobs' = DOMAIN jobs /\ id \in DOMAIN jobs
      /\ jobs'[id].status = "ended"
      /\ \A k \in DOMAIN jobs \ {id} : jobs'[k] = jobs[k]
      /\ heap' = heap
  BY EndKeeps
<1>2. Line!StepsOut(id)
  BY <1>1, LeavesLine
<1>3. EndedIds' = EndedIds \cup {id}
  BY <1>1 DEF EndedIds, Ended, Known
<1> QED BY <1>1, <1>2, <1>3

LEMMA WorkerEndsFinishes ==
    ASSUME SchedInv, SchedInv', careful, careful', NEW w \in Workers, WorkerEnds(w)
    PROVE  \E id \in Ids : Line!Finish(id, w)
<1> DEFINE id == holds[w]
<1>1. End(id) /\ holds' = [holds EXCEPT ![w] = None]
  BY DEF WorkerEnds
<1>2. id \in DOMAIN jobs /\ id \in Ids /\ id # None
  BY <1>1, NoneUnknown DEF End, Known, SchedInv, JobsOK
<1>3. /\ Line!StepsOut(id) /\ EndedIds' = EndedIds \cup {id}
      /\ DOMAIN jobs' = DOMAIN jobs
  BY <1>1, <1>2, EndLeaves
<1>4. id \notin QueuedIds
  BY <1>2 DEF SchedInv, Tidy, RunningJob, QueuedIds, Queued
<1> HIDE DEF id
<1>5. [k \in QueuedIds |-> PlaceOf(k)]' = [k \in QueuedIds |-> PlaceOf(k)]
  <2>1. QueuedIds \ {id} = QueuedIds
    BY <1>4
  <2>2. [k \in QueuedIds |-> PlaceOf(k)]'
           = [k \in QueuedIds \ {id} |-> [j \in QueuedIds |-> PlaceOf(j)][k]]
    BY <1>3 DEF Line!StepsOut, Line!Waiting
  <2> QED BY <2>1, <2>2
<1> QED BY <1>1, <1>2, <1>3, <1>5 DEF Line!Finish, id

LEMMA WorkerLostLoses ==
    ASSUME SchedInv, SchedInv', careful, careful', NEW w \in Workers, WorkerLost(w)
    PROVE  Line!Lose(w)
<1>1. /\ holds' = [holds EXCEPT ![w] = None] /\ jobs' = jobs /\ heap' = heap
  BY DEF WorkerLost
<1>2. QueuedIds' = QueuedIds /\ EndedIds' = EndedIds
  BY <1>1 DEF QueuedIds, EndedIds, Queued, Ended, Known
<1>3. ASSUME NEW k \in QueuedIds PROVE PlaceOf(k)' = PlaceOf(k)
  BY <1>1 DEF PlaceOf, LastEntry
<1>4. [k \in QueuedIds' |-> PlaceOf(k)'] = [k \in QueuedIds |-> PlaceOf(k)]
  BY <1>2, <1>3
<1> QED BY <1>1, <1>2, <1>4 DEF Line!Lose

LEMMA OperatorEndsCancels ==
    ASSUME SchedInv, SchedInv', careful, careful', NEW id \in Ids, OperatorEnds(id)
    PROVE  Line!Cancel(id)
<1>1. End(id) /\ holds' = holds /\ ~Held(id) /\ ~Ended(id)
  BY DEF OperatorEnds
<1>2. /\ Line!StepsOut(id) /\ EndedIds' = EndedIds \cup {id}
      /\ DOMAIN jobs' = DOMAIN jobs /\ id \in DOMAIN jobs
  BY <1>1, EndLeaves
<1>3. id \notin EndedIds /\ ~Line!Running(id)
  BY <1>1 DEF EndedIds, Held, Line!Running
<1> QED BY <1>1, <1>2, <1>3 DEF Line!Cancel

LEMMA LineSteps ==
    SchedInv /\ SchedInv' /\ [SchedNext]_schedVars => [Line!LineNext]_(Line!lineVars)
<1> SUFFICES ASSUME SchedInv, SchedInv', [SchedNext]_schedVars
             PROVE  Line!LineNext \/ UNCHANGED Line!lineVars
  OBVIOUS
<1>1. CASE UNCHANGED schedVars
  <2>1. QueuedIds' = QueuedIds /\ EndedIds' = EndedIds
    BY <1>1 DEF schedVars, QueuedIds, EndedIds, Queued, Ended, Known
  <2>2. \A k \in QueuedIds : PlaceOf(k)' = PlaceOf(k)
    BY <1>1 DEF schedVars, PlaceOf, LastEntry
  <2>3. [k \in QueuedIds' |-> PlaceOf(k)'] = [k \in QueuedIds |-> PlaceOf(k)]
    BY <2>1, <2>2
  <2> QED BY <1>1, <2>1, <2>3 DEF schedVars, Line!lineVars
<1>2. CASE SchedNext /\ ~careful
  <2>1. ~careful'
    BY <1>2 DEF SchedNext, WorkerStep, Enqueue, Claim, ClaimNothing, Requeue,
        WorkerEnds, WorkerLost, OperatorEnds, EndsAstray
  <2> QED BY <1>2, <2>1 DEF Line!LineNext
<1>3. CASE SchedNext /\ careful /\ ~careful'
  BY <1>3 DEF Line!LineNext
<1>4. CASE SchedNext /\ careful /\ careful'
  <2>1. ASSUME NEW r \in Requests, Enqueue(r) PROVE Line!Promised
    <3>1. r.id \in Ids
      BY SchedulerAssumption
    <3> QED BY <1>4, <2>1, <3>1, EnqueueSubmits DEF Line!Promised
  <2>2. ASSUME NEW w \in Workers, NEW q \in Queues, Claim(w, q) PROVE Line!Promised
    BY <1>4, <2>2, ClaimStarts DEF Line!Promised
  <2>3. ASSUME NEW w \in Workers, NEW q \in Queues, ClaimNothing(w, q)
        PROVE  UNCHANGED Line!lineVars
    BY <1>4, <2>3, ClaimNothingStutters
  <2>4. ASSUME NEW w \in Workers, WorkerEnds(w) PROVE Line!Promised
    BY <1>4, <2>4, WorkerEndsFinishes DEF Line!Promised
  <2>5. ASSUME NEW w \in Workers, WorkerLost(w) PROVE Line!Promised
    BY <1>4, <2>5, WorkerLostLoses DEF Line!Promised
  <2>6. ASSUME NEW id \in Ids, OperatorEnds(id) PROVE Line!Promised
    BY <1>4, <2>6, OperatorEndsCancels DEF Line!Promised
  <2>7. ASSUME NEW id \in Ids, NEW p \in Priorities, Requeue(id, p)
        PROVE  Line!Promised
    BY <1>4, <2>7, RequeuePutsBack DEF Line!Promised
  <2>8. Line!Promised \/ UNCHANGED Line!lineVars
    BY <1>4, <2>1, <2>2, <2>3, <2>4, <2>5, <2>6, <2>7 DEF SchedNext, WorkerStep, EndsAstray
  <2> QED BY <1>4, <2>8 DEF Line!LineNext
<1> QED BY <1>1, <1>2, <1>3, <1>4

(* For careful callers the scheduler is one line for each queue. *)
THEOREM LineImplemented == SchedSpec => ImplementsPriorityLine
<1>1. SchedSpec => Line!LineSpec
  BY SchedInvariant, LineInits, LineSteps, PTL DEF SchedSpec, Line!LineSpec
<1> QED BY <1>1 DEF ImplementsPriorityLine

-----------------------------------------------------------------------------
LEMMA StickyStep ==
    ASSUME SchedInv, [SchedNext]_schedVars, NEW id \in DOMAIN jobs,
           jobs[id].sticky, jobs[id].hint # None,
           ~\E r \in Requests : r.id = id /\ Enqueue(r)
    PROVE  /\ jobs'[id].hint = jobs[id].hint
           /\ jobs'[id].status = "running" => jobs'[id].device = jobs[id].hint
<1>1. id \in Ids /\ jobs[id] \in Job /\ jobs[id].device = jobs[id].hint
  BY DEF SchedInv, JobsOK, DeviceIsHint
<1>2. CASE jobs'[id] = jobs[id]
  BY <1>1, <1>2
<1>3. ASSUME NEW r \in Requests, Enqueue(r) PROVE jobs'[id] = jobs[id]
  BY <1>3 DEF Enqueue, WithJob
<1>4. ASSUME NEW w \in Workers, NEW q \in Queues, Claim(w, q)
      PROVE  jobs'[id].hint = jobs[id].hint /\ jobs'[id].device = jobs[id].hint
  <2>1. PICK e \in heap[q] :
           Queued(e.id) /\ jobs' = WithJob(e.id, Claimed(jobs[e.id], DeviceOf[w]))
    BY <1>4 DEF Claim
  <2>2. CASE e.id # id
    BY <1>1, <2>1, <2>2 DEF WithJob
  <2>3. CASE e.id = id
    <3>1. jobs'[id] = Claimed(jobs[id], DeviceOf[w])
      BY <2>1, <2>3 DEF WithJob
    <3>2. DeviceOf[w] \in Devices \cup {None}
      BY SchedulerAssumption
    <3> QED BY <1>1, <3>1, <3>2, ClaimedJob
  <2> QED BY <2>2, <2>3
<1>5. ASSUME NEW k \in Ids, NEW p \in Priorities, Requeue(k, p)
      PROVE  jobs'[id].hint = jobs[id].hint /\ jobs'[id].device = jobs[id].hint
  <2>1. jobs' = WithJob(k, [jobs[k] EXCEPT !.status = "queued", !.priority = p])
    BY <1>5 DEF Requeue
  <2>2. jobs'[id] = IF k = id
                    THEN [jobs[id] EXCEPT !.status = "queued", !.priority = p]
                    ELSE jobs[id]
    BY <2>1 DEF WithJob
  <2> QED BY <1>1, <2>2 DEF Job
<1>6. ASSUME NEW k, End(k)
      PROVE  jobs'[id].hint = jobs[id].hint /\ jobs'[id].device = jobs[id].hint
  <2>1. jobs'[id] = IF k = id THEN [jobs[id] EXCEPT !.status = "ended"] ELSE jobs[id]
    BY <1>6 DEF End, WithJob
  <2> QED BY <1>1, <2>1 DEF Job
<1>7. ASSUME NEW k \in Ids, NEW st \in JobStatuses, NEW raises \in BOOLEAN,
             EndsAstray(k, st, raises)
      PROVE  jobs'[id].hint = jobs[id].hint /\ jobs'[id].device = jobs[id].hint
  <2>1. jobs'[id] = IF k = id THEN [jobs[id] EXCEPT !.status = st] ELSE jobs[id]
    BY <1>7 DEF EndsAstray, WithJob
  <2> QED BY <1>1, <2>1 DEF Job
<1>8. CASE SchedNext
  BY <1>2, <1>3, <1>4, <1>5, <1>6, <1>7, <1>8 DEF SchedNext, WorkerStep, WorkerEnds,
      OperatorEnds, ClaimNothing, WorkerLost
<1>9. CASE UNCHANGED schedVars
  BY <1>2, <1>9 DEF schedVars
<1> QED BY <1>8, <1>9

(* A sticky job stays on the device that it was first started on. *)
THEOREM StickyHolds == SchedSpec => StickyStays
<1>1. SchedInv /\ [SchedNext]_schedVars =>
        [\A id \in DOMAIN jobs :
           /\ jobs[id].sticky /\ jobs[id].hint # None
           /\ ~\E r \in Requests : r.id = id /\ Enqueue(r)
           => /\ jobs'[id].hint = jobs[id].hint
              /\ jobs'[id].status = "running" => jobs'[id].device = jobs[id].hint]_schedVars
  BY StickyStep
<1> QED BY <1>1, SchedInvariant, PTL DEF SchedSpec, StickyStays

-----------------------------------------------------------------------------
(* The budgets *)

JobInv(j) ==
    /\ times[j] = 0 => status[j] = "unknown" /\ items[j] = "absent"
                       /\ submitting[j] = "no"
    /\ status[j] = "unknown" => times[j] = 0
    /\ status[j] \in {"queued", "delayed"} => queued[j] + delayed[j] > 0
    /\ queued[j] + delayed[j] + (IF status[j] = "running" THEN 1 ELSE 0) <= times[j]
    /\ times[j] = 1 =>
          /\ queued[j] = (IF status[j] = "queued" THEN 1 ELSE 0)
          /\ delayed[j] = (IF status[j] = "delayed" THEN 1 ELSE 0)
          /\ "queued" \in {items[j], submitting[j]} => status[j] # "delayed"

PollInv(t, j) ==
    j \in DOMAIN polls[t] =>
        /\ times[j] > 0
        /\ times[j] = 1 /\ polls[t][j] = "queued" => status[j] # "delayed"

BudgetsInv ==
    /\ BudgetsTypeOK /\ polls = [t \in Pollers |-> polls[t]]
    /\ \A j \in Jobs : JobInv(j)
    /\ \A t \in Pollers, j \in Jobs : PollInv(t, j)

-----------------------------------------------------------------------------
LEMMA BudgetsInitInv == BudgetsInit => BudgetsInv
<1> SUFFICES ASSUME BudgetsInit PROVE BudgetsInv
  OBVIOUS
<1> USE DEF BudgetsInit
<1>1. DOMAIN NoTransition = {} /\ Range(NoTransition) = {}
  BY DEF NoTransition, Range
<1>2. \A r \in Resources : 0 \in Nat
  OBVIOUS
<1>3. need \in [Jobs -> Metrics]
  BY DEF Metrics
<1>4. BudgetsTypeOK
  BY <1>1, <1>3, BudgetsAssumption DEF BudgetsTypeOK, Statuses
<1>5. \A j \in Jobs : JobInv(j)
  BY DEF JobInv
<1>6. \A t \in Pollers, j \in Jobs : PollInv(t, j)
  BY <1>1 DEF PollInv
<1> QED BY <1>4, <1>5, <1>6 DEF BudgetsInv

LEMMA EvaluateTyped ==
    ASSUME NEW j, NEW n
    PROVE  /\ EvaluateJob(j, n) \in {"queued", "delayed", "running"}
           /\ EvaluateJob(j, n) = "running" <=> status[j] = "running"
  BY DEF EvaluateJob

(* Registering j: what is written of it is new, or it was there before. *)
LEMMA RegisterKeeps ==
    ASSUME BudgetsInv, NEW j \in Jobs, NEW n \in Needs, NEW state, RegisterJob(j, n, state),
           UNCHANGED << items, polls >>,
           \/ UNCHANGED submitting
           \/ times[j] = 0 /\ submitting' = [submitting EXCEPT ![j] = state]
              /\ state \in {"queued", "delayed"}
    PROVE  BudgetsInv'
<1>1. /\ state \in {"queued", "delayed", "running"}
      /\ state = "running" <=> status[j] = "running"
  BY EvaluateTyped DEF RegisterJob
<1>2. /\ times' = [times EXCEPT ![j] = @ + 1] /\ status' = [status EXCEPT ![j] = state]
      /\ need' = [need EXCEPT ![j] = n]
      /\ \/ state = "queued" /\ queued' = [queued EXCEPT ![j] = @ + 1] /\ delayed' = delayed
         \/ state # "queued" /\ delayed' = [delayed EXCEPT ![j] = @ + 1] /\ queued' = queued
      /\ limits' = limits /\ running' = running /\ usage' = usage /\ recent' = recent
      /\ loaded' = loaded /\ items' = items /\ polls' = polls
  BY DEF RegisterJob, assetVars
<1>3. n \in Metrics
  BY BudgetsAssumption
<1>4. /\ status' \in [Jobs -> Statuses] /\ need' \in [Jobs -> Metrics]
      /\ queued' \in [Jobs -> Nat] /\ delayed' \in [Jobs -> Nat] /\ times' \in [Jobs -> Nat]
      /\ submitting' \in [Jobs -> {"no", "queued", "delayed"}]
  <2>1. /\ status \in [Jobs -> Statuses] /\ need \in [Jobs -> Metrics]
        /\ queued \in [Jobs -> Nat] /\ delayed \in [Jobs -> Nat] /\ times \in [Jobs -> Nat]
        /\ submitting \in [Jobs -> {"no", "queued", "delayed"}]
    BY DEF BudgetsInv, BudgetsTypeOK
  <2>2. state \in Statuses
    BY <1>1 DEF Statuses
  <2> QED BY <1>2, <1>3, <2>1, <2>2
<1>5. running' = {k \in Jobs : status'[k] = "running"}
  BY <1>1, <1>2, <1>4 DEF BudgetsInv, BudgetsTypeOK
<1>6. BudgetsTypeOK'
  BY <1>2, <1>4, <1>5 DEF BudgetsInv, BudgetsTypeOK
<1>7. ASSUME NEW k \in Jobs PROVE JobInv(k)'
  <2>1. CASE k # j
    BY <1>2, <2>1 DEF BudgetsInv, BudgetsTypeOK, JobInv
  <2>2. CASE k = j
    <3>1. /\ times'[j] = times[j] + 1 /\ status'[j] = state
          /\ \/ state = "queued" /\ queued'[j] = queued[j] + 1 /\ delayed'[j] = delayed[j]
             \/ state # "queued" /\ delayed'[j] = delayed[j] + 1 /\ queued'[j] = queued[j]
          /\ times[j] \in Nat /\ queued[j] \in Nat /\ delayed[j] \in Nat
          /\ items' = items
          /\ submitting'[j] = submitting[j] \/ (times[j] = 0 /\ submitting'[j] = state)
      BY <1>2 DEF BudgetsInv, BudgetsTypeOK
    <3>2. JobInv(j)
      BY DEF BudgetsInv
    <3> QED BY <1>1, <2>2, <3>1, <3>2 DEF JobInv
  <2> QED BY <2>1, <2>2
<1>8. ASSUME NEW t \in Pollers, NEW k \in Jobs PROVE PollInv(t, k)'
  <2>1. PollInv(t, k) /\ times[k] \in Nat
    BY DEF BudgetsInv, BudgetsTypeOK
  <2>2. k # j => times'[k] = times[k] /\ status'[k] = status[k]
    BY <1>2 DEF BudgetsInv, BudgetsTypeOK
  <2>3. k = j => times'[k] = times[k] + 1
    BY <1>2 DEF BudgetsInv, BudgetsTypeOK
  <2> QED BY <1>2, <2>1, <2>2, <2>3 DEF PollInv
<1> QED BY <1>2, <1>6, <1>7, <1>8 DEF BudgetsInv

LEMMA StartedKeeps ==
    ASSUME BudgetsInv, NEW j \in Jobs, MarkStarted(j) PROVE BudgetsInv'
<1>1. /\ status[j] \in {"queued", "delayed"}
      /\ status' = [status EXCEPT ![j] = "running"] /\ running' = running \cup {j}
      /\ \/ queued[j] > 0 /\ queued' = Without(queued, j) /\ delayed' = delayed
         \/ ~(queued[j] > 0) /\ delayed' = Without(delayed, j) /\ queued' = queued
      /\ limits' = limits /\ need' = need /\ usage' = usage /\ recent' = recent
      /\ loaded' = loaded /\ times' = times
      /\ items' = items /\ polls' = polls /\ submitting' = submitting
  BY DEF MarkStarted, assetVars, listVars
<1>2. /\ status \in [Jobs -> Statuses] /\ queued \in [Jobs -> Nat]
      /\ delayed \in [Jobs -> Nat] /\ times \in [Jobs -> Nat]
  BY DEF BudgetsInv, BudgetsTypeOK
<1>3. /\ status' \in [Jobs -> Statuses]
      /\ queued' \in [Jobs -> Nat] /\ delayed' \in [Jobs -> Nat]
  BY <1>1, <1>2 DEF Without, Statuses
<1>4. running' = {k \in Jobs : status'[k] = "running"}
  BY <1>1, <1>2 DEF BudgetsInv, BudgetsTypeOK
<1>5. BudgetsTypeOK'
  BY <1>1, <1>3, <1>4 DEF BudgetsInv, BudgetsTypeOK
<1>6. ASSUME NEW k \in Jobs PROVE JobInv(k)'
  <2>1. CASE k # j
    BY <1>1, <1>2, <2>1 DEF BudgetsInv, JobInv, Without
  <2>2. CASE k = j
    <3>1. /\ queued[j] \in Nat /\ delayed[j] \in Nat /\ times[j] \in Nat
          /\ status'[j] = "running" /\ times'[j] = times[j]
          /\ \/ queued[j] > 0 /\ queued'[j] = queued[j] - 1 /\ delayed'[j] = delayed[j]
             \/ queued[j] = 0 /\ queued'[j] = 0
                /\ delayed'[j] = (IF delayed[j] = 0 THEN 0 ELSE delayed[j] - 1)
      BY <1>1, <1>2 DEF Without
    <3>2. JobInv(j)
      BY DEF BudgetsInv
    <3> QED BY <1>1, <2>2, <3>1, <3>2 DEF JobInv
  <2> QED BY <2>1, <2>2
<1>7. ASSUME NEW t \in Pollers, NEW k \in Jobs PROVE PollInv(t, k)'
  BY <1>1, <1>2 DEF BudgetsInv, PollInv
<1> QED BY <1>1, <1>5, <1>6, <1>7 DEF BudgetsInv

LEMMA FinishedKeeps ==
    ASSUME BudgetsInv, NEW j \in Jobs, MarkFinished(j) PROVE BudgetsInv'
<1>1. /\ status[j] # "unknown"
      /\ status' = [status EXCEPT ![j] = "finished"] /\ running' = running \ {j}
      /\ queued' = Without(queued, j) /\ delayed' = Without(delayed, j)
      /\ limits' = limits /\ need' = need /\ usage' = usage /\ recent' = recent
      /\ loaded' = loaded /\ times' = times
      /\ items' = items /\ polls' = polls /\ submitting' = submitting
  BY DEF MarkFinished, assetVars, listVars
<1>2. /\ status \in [Jobs -> Statuses] /\ queued \in [Jobs -> Nat]
      /\ delayed \in [Jobs -> Nat] /\ times \in [Jobs -> Nat]
  BY DEF BudgetsInv, BudgetsTypeOK
<1>3. /\ status' \in [Jobs -> Statuses]
      /\ queued' \in [Jobs -> Nat] /\ delayed' \in [Jobs -> Nat]
  BY <1>1, <1>2 DEF Without, Statuses
<1>4. running' = {k \in Jobs : status'[k] = "running"}
  BY <1>1, <1>2 DEF BudgetsInv, BudgetsTypeOK
<1>5. BudgetsTypeOK'
  BY <1>1, <1>3, <1>4 DEF BudgetsInv, BudgetsTypeOK
<1>6. ASSUME NEW k \in Jobs PROVE JobInv(k)'
  <2>1. CASE k # j
    BY <1>1, <1>2, <2>1 DEF BudgetsInv, JobInv, Without
  <2>2. CASE k = j
    <3>1. /\ queued[j] \in Nat /\ delayed[j] \in Nat /\ times[j] \in Nat
          /\ status'[j] = "finished" /\ times'[j] = times[j]
          /\ queued'[j] = (IF queued[j] = 0 THEN 0 ELSE queued[j] - 1)
          /\ delayed'[j] = (IF delayed[j] = 0 THEN 0 ELSE delayed[j] - 1)
      BY <1>1, <1>2 DEF Without
    <3>2. JobInv(j)
      BY DEF BudgetsInv
    <3> QED BY <1>1, <2>2, <3>1, <3>2 DEF JobInv
  <2> QED BY <2>1, <2>2
<1>7. ASSUME NEW t \in Pollers, NEW k \in Jobs PROVE PollInv(t, k)'
  BY <1>1, <1>2 DEF BudgetsInv, PollInv
<1> QED BY <1>1, <1>5, <1>6, <1>7 DEF BudgetsInv

(* Evaluating the delayed jobs: those that stay delayed were delayed, and   *)
(* what a poll takes away with it agrees with the statuses it leaves.       *)
LEMMA RefreshKeeps ==
    ASSUME BudgetsInv, NEW result, RefreshQueue(result)
    PROVE  /\ UNCHANGED listVars => BudgetsTypeOK'
           /\ status' \in [Jobs -> Statuses]
           /\ queued' \in [Jobs -> Nat] /\ delayed' \in [Jobs -> Nat]
           /\ running' = {k \in Jobs : status'[k] = "running"}
           /\ loaded' \subseteq Assets /\ recent' \in BOOLEAN
           /\ UNCHANGED << limits, need, usage, times >>
           /\ \A j \in Jobs : UNCHANGED << items, submitting >> => JobInv(j)'
           /\ \A j \in Jobs : times[j] = 1 /\ status[j] # "delayed" => status'[j] # "delayed"
           /\ DOMAIN result \subseteq Jobs
           /\ \A j \in DOMAIN result :
                 /\ result[j] \in {"queued", "delayed", "running"}
                 /\ times[j] > 0
                 /\ result[j] = "queued" => status'[j] # "delayed"
<1>1. /\ status \in [Jobs -> Statuses] /\ queued \in [Jobs -> Nat]
      /\ delayed \in [Jobs -> Nat] /\ times \in [Jobs -> Nat]
      /\ loaded \subseteq Assets /\ recent \in BOOLEAN
  BY DEF BudgetsInv, BudgetsTypeOK
<1>2. /\ limits' = limits /\ need' = need /\ running' = running /\ usage' = usage
      /\ times' = times
  BY DEF RefreshQueue
<1>3. CASE result = NoTransition /\ UNCHANGED << recent, status, queued, delayed, loaded >>
  <2>1. DOMAIN result = {}
    BY <1>3 DEF NoTransition
  <2> QED BY <1>1, <1>2, <1>3, <2>1 DEF BudgetsInv, BudgetsTypeOK, JobInv, listVars
<1>4. CASE ~Skipped /\ recent' = TRUE /\ result = Transitions /\ MaybeTrimAssets /\ Refreshed
  <2> DEFINE next(j) == EvaluateJob(j, need[j])
  <2>1. /\ loaded' \subseteq Assets
    BY <1>1, <1>4 DEF MaybeTrimAssets, EvictLazyAssets
  <2>2. /\ DOMAIN result = Waiting /\ Waiting = {j \in Jobs : delayed[j] > 0}
        /\ \A j \in Waiting : result[j] = next(j)
    BY <1>4 DEF Transitions, Waiting
  <2>3. \A j \in Jobs : /\ next(j) \in {"queued", "delayed", "running"}
                        /\ next(j) = "running" <=> status[j] = "running"
    BY EvaluateTyped
  <2>4. /\ status' = [j \in Jobs |-> IF delayed[j] > 0 THEN next(j) ELSE status[j]]
        /\ queued' = [j \in Jobs |-> IF delayed[j] > 0 /\ next(j) = "queued"
                                     THEN queued[j] + delayed[j] ELSE queued[j]]
        /\ delayed' = [j \in Jobs |-> IF delayed[j] > 0 /\ next(j) = "queued"
                                      THEN 0 ELSE delayed[j]]
    BY <1>4 DEF Refreshed, Transitions, Waiting
  <2> HIDE DEF next
  <2>5. status' \in [Jobs -> Statuses]
    BY <1>1, <2>3, <2>4 DEF Statuses
  <2>6. queued' \in [Jobs -> Nat] /\ delayed' \in [Jobs -> Nat]
    BY <1>1, <2>4
  <2>7. running' = {k \in Jobs : status'[k] = "running"}
    BY <1>2, <2>3, <2>4 DEF BudgetsInv, BudgetsTypeOK
  <2>8. ASSUME NEW j \in Jobs, items' = items, submitting' = submitting PROVE JobInv(j)'
    <3>1. JobInv(j)
      BY DEF BudgetsInv
    <3>2. /\ queued[j] \in Nat /\ delayed[j] \in Nat /\ times[j] \in Nat
          /\ times'[j] = times[j]
      BY <1>1, <1>2
    <3>3. CASE delayed[j] = 0
      <4>1. status'[j] = status[j] /\ queued'[j] = queued[j] /\ delayed'[j] = delayed[j]
        BY <2>4, <3>3
      <4> QED BY <2>8, <3>1, <3>2, <4>1 DEF JobInv
    <3>4. CASE delayed[j] > 0
      <4>1. /\ status'[j] = next(j)
            /\ \/ next(j) = "queued" /\ queued'[j] = queued[j] + delayed[j] /\ delayed'[j] = 0
               \/ next(j) # "queued" /\ queued'[j] = queued[j] /\ delayed'[j] = delayed[j]
        BY <2>4, <3>4
      <4> QED BY <2>3, <2>8, <3>1, <3>2, <3>4, <4>1 DEF JobInv
    <3> QED BY <3>2, <3>3, <3>4
  <2>9. \A j \in Jobs : delayed[j] > 0 => times[j] > 0
    BY <1>1 DEF BudgetsInv, JobInv
  <2>10. ASSUME NEW j \in Jobs, times[j] = 1, status[j] # "delayed"
         PROVE  status'[j] # "delayed"
    BY <2>4, <2>10 DEF BudgetsInv, JobInv
  <2>11. ASSUME UNCHANGED listVars PROVE BudgetsTypeOK'
    BY <1>2, <1>4, <2>1, <2>5, <2>6, <2>7, <2>11 DEF BudgetsInv, BudgetsTypeOK, listVars
  <2>12. \A j \in DOMAIN result :
            /\ result[j] \in {"queued", "delayed", "running"}
            /\ times[j] > 0
            /\ result[j] = "queued" => status'[j] # "delayed"
    BY <2>2, <2>3, <2>4, <2>9
  <2> QED BY <1>2, <1>4, <2>1, <2>2, <2>5, <2>6, <2>7, <2>8, <2>10, <2>11, <2>12
<1> QED BY <1>3, <1>4 DEF RefreshQueue, assetVars

LEMMA PollKeeps ==
    ASSUME BudgetsInv, NEW t \in Pollers, Poll(t) PROVE BudgetsInv'
<1>1. PICK result : /\ RefreshQueue(result) /\ polls' = [polls EXCEPT ![t] = result]
                    /\ items' = items /\ submitting' = submitting
  BY DEF Poll
<1>2. /\ status' \in [Jobs -> Statuses]
      /\ queued' \in [Jobs -> Nat] /\ delayed' \in [Jobs -> Nat]
      /\ running' = {k \in Jobs : status'[k] = "running"}
      /\ loaded' \subseteq Assets /\ recent' \in BOOLEAN
      /\ limits' = limits /\ need' = need /\ usage' = usage /\ times' = times
      /\ \A j \in Jobs : JobInv(j)'
      /\ \A j \in Jobs : times[j] = 1 /\ status[j] # "delayed" => status'[j] # "delayed"
      /\ DOMAIN result \subseteq Jobs
      /\ \A j \in DOMAIN result :
            /\ result[j] \in {"queued", "delayed", "running"}
            /\ times[j] > 0
            /\ result[j] = "queued" => status'[j] # "delayed"
  BY <1>1, RefreshKeeps
<1>3. /\ polls'[t] = result /\ \A u \in Pollers \ {t} : polls'[u] = polls[u]
      /\ polls' = [u \in Pollers |-> polls'[u]]
  BY <1>1 DEF BudgetsInv
<1>4. ASSUME NEW u \in Pollers
      PROVE  /\ DOMAIN polls'[u] \subseteq Jobs
             /\ Range(polls'[u]) \subseteq {"queued", "delayed", "running"}
  <2>1. CASE u = t
    BY <1>2, <1>3, <2>1 DEF Range
  <2>2. CASE u # t
    BY <1>3, <2>2 DEF BudgetsInv, BudgetsTypeOK
  <2> QED BY <2>1, <2>2
<1>5. BudgetsTypeOK'
  BY <1>1, <1>2, <1>4 DEF BudgetsInv, BudgetsTypeOK
<1>6. ASSUME NEW u \in Pollers, NEW j \in Jobs PROVE PollInv(u, j)'
  <2>1. CASE u = t
    BY <1>2, <1>3, <2>1 DEF PollInv
  <2>2. CASE u # t
    <3>1. polls'[u] = polls[u] /\ PollInv(u, j)
      BY <1>3, <2>2 DEF BudgetsInv
    <3> QED BY <1>2, <3>1 DEF PollInv
  <2> QED BY <2>1, <2>2
<1> QED BY <1>2, <1>3, <1>5, <1>6 DEF BudgetsInv

LEMMA PollWritesKeeps ==
    ASSUME BudgetsInv, NEW t \in Pollers, PollWrites(t) PROVE BudgetsInv'
<1>1. /\ items' = [j \in Jobs |-> IF j \in DOMAIN polls[t] /\ items[j] # "absent"
                                  THEN polls[t][j] ELSE items[j]]
      /\ polls' = [polls EXCEPT ![t] = NoTransition]
      /\ UNCHANGED << limits, status, need, queued, delayed, running, usage, recent,
                      loaded, submitting, times >>
  BY DEF PollWrites, managerVars, assetVars
<1>2. DOMAIN NoTransition = {} /\ Range(NoTransition) = {}
  BY DEF NoTransition, Range
<1>3. /\ polls'[t] = NoTransition /\ \A u \in Pollers \ {t} : polls'[u] = polls[u]
      /\ polls' = [u \in Pollers |-> polls'[u]]
  BY <1>1 DEF BudgetsInv
<1>4. ASSUME NEW u \in Pollers
      PROVE  /\ DOMAIN polls'[u] \subseteq Jobs
             /\ Range(polls'[u]) \subseteq {"queued", "delayed", "running"}
  BY <1>2, <1>3 DEF BudgetsInv, BudgetsTypeOK
<1>5. \A j \in DOMAIN polls[t] : polls[t][j] \in {"queued", "delayed", "running"}
  BY DEF BudgetsInv, BudgetsTypeOK, Range
<1>6. items' \in [Jobs -> {"absent", "queued", "delayed", "running"}]
  BY <1>1, <1>5 DEF BudgetsInv, BudgetsTypeOK
<1>7. BudgetsTypeOK'
  BY <1>1, <1>4, <1>6 DEF BudgetsInv, BudgetsTypeOK
<1>8. ASSUME NEW j \in Jobs PROVE JobInv(j)'
  <2>1. JobInv(j) /\ PollInv(t, j)
    BY DEF BudgetsInv
  <2>2. /\ items'[j] = items[j]
        \/ (j \in DOMAIN polls[t] /\ items[j] # "absent" /\ items'[j] = polls[t][j])
    BY <1>1
  <2> QED BY <1>1, <2>1, <2>2 DEF JobInv, PollInv
<1>9. ASSUME NEW u \in Pollers, NEW j \in Jobs PROVE PollInv(u, j)'
  <2>1. CASE u = t
    BY <1>2, <1>3, <2>1 DEF PollInv
  <2>2. CASE u # t
    <3>1. polls'[u] = polls[u] /\ PollInv(u, j)
      BY <1>3, <2>2 DEF BudgetsInv
    <3> QED BY <1>1, <3>1 DEF PollInv
  <2> QED BY <2>1, <2>2
<1> QED BY <1>3, <1>7, <1>8, <1>9 DEF BudgetsInv

LEMMA ListedKeeps ==
    ASSUME BudgetsInv, NEW j \in Jobs, Listed(j) PROVE BudgetsInv'
<1>1. /\ submitting[j] # "no"
      /\ items' = [items EXCEPT ![j] = submitting[j]]
      /\ submitting' = [submitting EXCEPT ![j] = "no"]
      /\ UNCHANGED << limits, status, need, queued, delayed, running, usage, recent,
                      loaded, polls, times >>
  BY DEF Listed, managerVars, assetVars
<1>2. /\ items \in [Jobs -> {"absent", "queued", "delayed", "running"}]
      /\ submitting \in [Jobs -> {"no", "queued", "delayed"}]
  BY DEF BudgetsInv, BudgetsTypeOK
<1>3. /\ items' \in [Jobs -> {"absent", "queued", "delayed", "running"}]
      /\ submitting' \in [Jobs -> {"no", "queued", "delayed"}]
  BY <1>1, <1>2
<1>4. BudgetsTypeOK'
  BY <1>1, <1>3 DEF BudgetsInv, BudgetsTypeOK
<1>5. \A k \in Jobs : JobInv(k)'
  <2> TAKE k \in Jobs
  <2>1. JobInv(k)
    BY DEF BudgetsInv
  <2>2. k # j => items'[k] = items[k] /\ submitting'[k] = submitting[k]
    BY <1>1, <1>2
  <2>3. k = j => items'[k] = submitting[k] /\ submitting'[k] = "no"
    BY <1>1, <1>2
  <2> QED BY <1>1, <2>1, <2>2, <2>3 DEF JobInv
<1>6. \A u \in Pollers, k \in Jobs : PollInv(u, k)'
  BY <1>1 DEF BudgetsInv, PollInv
<1> QED BY <1>1, <1>4, <1>5, <1>6 DEF BudgetsInv

(* Everything else leaves jobs and list alone. *)
LEMMA OthersKeep ==
    ASSUME BudgetsInv, limits' \in LimitsType, usage' \in Metrics, recent' \in BOOLEAN,
           loaded' \subseteq Assets,
           UNCHANGED << status, need, queued, delayed, running, listVars, times >>
    PROVE  BudgetsInv'
<1>1. BudgetsTypeOK'
  BY DEF BudgetsInv, BudgetsTypeOK, listVars
<1>2. \A j \in Jobs : JobInv(j)'
  BY DEF BudgetsInv, JobInv, listVars
<1>3. \A t \in Pollers, j \in Jobs : PollInv(t, j)'
  BY DEF BudgetsInv, PollInv, listVars
<1> QED BY <1>1, <1>2, <1>3 DEF BudgetsInv, listVars

LEMMA BudgetsNextInv == BudgetsInv /\ [BudgetsNext]_budgetVars => BudgetsInv'
<1> SUFFICES ASSUME BudgetsInv, [BudgetsNext]_budgetVars PROVE BudgetsInv'
  OBVIOUS
<1>0. limits \in LimitsType /\ usage \in Metrics /\ recent \in BOOLEAN /\ loaded \subseteq Assets
  BY DEF BudgetsInv, BudgetsTypeOK
<1>1. ASSUME NEW j \in Jobs, NEW n \in Needs, RegisterBudgetedJob(j, n) PROVE BudgetsInv'
  BY <1>1, RegisterKeeps DEF RegisterBudgetedJob, listVars
<1>2. ASSUME NEW j \in Jobs, NEW n \in Needs, Submit(j, n) PROVE BudgetsInv'
  <2>1. PICK state \in {"queued", "delayed"} :
           /\ RegisterJob(j, n, state) /\ submitting' = [submitting EXCEPT ![j] = state]
           /\ UNCHANGED << items, polls >> /\ status[j] = "unknown"
    BY <1>2 DEF Submit
  <2>2. times[j] = 0
    BY <2>1 DEF BudgetsInv, JobInv
  <2> QED BY <2>1, <2>2, RegisterKeeps
<1>3. CASE JobStep
  BY <1>1, <1>2, <1>3, StartedKeeps, FinishedKeeps, ListedKeeps DEF JobStep
<1>4. CASE PollStep
  BY <1>4, PollKeeps, PollWritesKeeps DEF PollStep
<1>5. CASE RefreshBudgetQueue
  <2>1. RefreshQueue(Transitions) /\ UNCHANGED listVars
    BY <1>5 DEF RefreshBudgetQueue
  <2>2. /\ BudgetsTypeOK' /\ times' = times
        /\ \A j \in Jobs : JobInv(j)'
        /\ \A j \in Jobs : times[j] = 1 /\ status[j] # "delayed" => status'[j] # "delayed"
    BY <2>1, RefreshKeeps DEF listVars
  <2>3. \A t \in Pollers, j \in Jobs : PollInv(t, j)'
    BY <2>1, <2>2 DEF BudgetsInv, PollInv, listVars
  <2> QED BY <2>1, <2>2, <2>3 DEF BudgetsInv, listVars
<1>6. CASE AssetStep
  <2>1. ASSUME NEW a \in Assets, RegisterAsset(a) PROVE BudgetsInv'
    BY <1>0, <2>1, OthersKeep DEF RegisterAsset, managerVars
  <2>2. ASSUME NEW target, Evict(target) PROVE BudgetsInv'
    BY <1>0, <2>2, OthersKeep DEF Evict, EvictLazyAssets, managerVars
  <2>3. CASE Snapshot
    BY <1>0, <2>3, OthersKeep DEF Snapshot, MaybeTrimAssets, EvictLazyAssets, managerVars
  <2> QED BY <1>6, <2>1, <2>2, <2>3 DEF AssetStep, TouchAsset
<1>7. CASE IntervalPasses
  BY <1>0, <1>7, OthersKeep DEF IntervalPasses, managerVars, assetVars
<1>8. ASSUME NEW u \in Usages, Load(u) PROVE BudgetsInv'
  BY <1>0, <1>8, OthersKeep, BudgetsAssumption DEF Load, managerVars, assetVars
<1>9. ASSUME NEW l \in Limits, Configure(l) PROVE BudgetsInv'
  BY <1>0, <1>9, OthersKeep, BudgetsAssumption DEF Configure, assetVars
<1>10. CASE UNCHANGED budgetVars
  BY <1>0, <1>10, OthersKeep DEF budgetVars, managerVars, assetVars
<1> QED BY <1>3, <1>4, <1>5, <1>6, <1>7, <1>8, <1>9, <1>10 DEF BudgetsNext

-----------------------------------------------------------------------------
(* Queues, running set, statuses and list agree, whatever is registered     *)
(* again, started, finished, promoted and polled, in whatever order.        *)
THEOREM QueuesAlwaysSound == BudgetsSpec => []QueuesSound
<1>1. BudgetsInv => QueuesSound
  <2> SUFFICES ASSUME BudgetsInv PROVE QueuesSound
    OBVIOUS
  <2>1. \A j \in Jobs : JobInv(j) /\ (j \in running <=> status[j] = "running")
    BY DEF BudgetsInv, BudgetsTypeOK
  <2>2. PlacesAreOwed
    BY <2>1 DEF PlacesAreOwed, JobInv
  <2>3. WhereItsStatusSays /\ ListedQueuedIsNotDelayed
    BY <2>1 DEF WhereItsStatusSays, ListedQueuedIsNotDelayed, JobInv
  <2> QED BY <2>2, <2>3 DEF BudgetsInv, QueuesSound
<1> QED BY <1>1, BudgetsInitInv, BudgetsNextInv, PTL DEF BudgetsSpec

-----------------------------------------------------------------------------
(* How long the queue is *)

LEMMA LeastNumber ==
    ASSUME NEW S \in SUBSET Nat, S # {}
    PROVE  \E n \in S : \A m \in S : n <= m
<1> DEFINE R == OpToRel(<, Nat)
<1>1. IsWellFoundedOn(R, Nat)
  BY NatLessThanWellFounded, Zenon
<1> HIDE DEF R
<1>2. PICK n \in S : \A m \in S : ~ (<< m, n >> \in R)
  BY <1>1, WFMin
<1>3. \A m \in S : ~ (m < n)
  BY <1>2 DEF R, OpToRel
<1> QED BY <1>3

Pick(s) == CHOOSE x \in s : TRUE

LEMMA PickedSmaller ==
    ASSUME NEW S, IsFiniteSet(S), NEW s \in SUBSET S, s # {}
    PROVE  /\ Pick(s) \in s /\ s \ {Pick(s)} \in SUBSET S
           /\ Cardinality(s) \in Nat /\ Cardinality(s \ {Pick(s)}) \in Nat
           /\ Cardinality(s \ {Pick(s)}) = Cardinality(s) - 1
<1>1. Pick(s) \in s
  BY DEF Pick
<1>2. IsFiniteSet(s)
  BY FS_Subset
<1> HIDE DEF Pick
<1> QED BY <1>1, <1>2, FS_RemoveElement, FS_CardinalityType

(* What holds of no element and goes from all but one to all holds of all. *)
LEMMA SubsetInduction ==
    ASSUME NEW S, IsFiniteSet(S), NEW good, {} \in good,
           \A s \in SUBSET S : s # {} /\ s \ {Pick(s)} \in good => s \in good
    PROVE  \A s \in SUBSET S : s \in good
<1> DEFINE bad == {s \in SUBSET S : s \notin good}
           sizes == {Cardinality(s) : s \in bad}
<1> SUFFICES ASSUME bad # {} PROVE FALSE
  OBVIOUS
<1>1. \A s \in SUBSET S : Cardinality(s) \in Nat
  BY FS_Subset, FS_CardinalityType
<1>2. sizes \in SUBSET Nat /\ sizes # {}
  BY <1>1
<1>3. PICK n \in sizes : \A m \in sizes : n <= m
  <2> HIDE DEF sizes
  <2> QED BY <1>2, LeastNumber
<1>4. PICK s \in bad : \A t \in bad : Cardinality(s) <= Cardinality(t)
  BY <1>3
<1>5. s # {} /\ s \in SUBSET S
  OBVIOUS
<1>6. s \ {Pick(s)} \notin bad
  BY <1>4, <1>5, PickedSmaller
<1>7. s \ {Pick(s)} \in good
  BY <1>5, <1>6, PickedSmaller
<1> QED BY <1>5, <1>7

(* The function that a fold goes by exists, and is what it says. *)
IsSum(g, f, S) ==
    /\ SumFunctionOnSet(f, S) = g[S] /\ g[{}] = 0
    /\ \A s \in SUBSET S : s # {} => g[s] = f[Pick(s)] + g[s \ {Pick(s)}]

LEMMA SumSteps ==
    ASSUME NEW S, IsFiniteSet(S), NEW f PROVE \E g : IsSum(g, f, S)
<1> DEFINE Sums(g, s) == IF s = {} THEN 0 ELSE f[Pick(s)] + g[s \ {Pick(s)}]
           upTo(m) == {s \in SUBSET S : Cardinality(s) <= m}
           Has1(m) == \E g : g = [s \in upTo(m) |-> Sums(g, s)]
           none == {m \in Nat : ~Has1(m)}
<1>0. \A s \in SUBSET S : Cardinality(s) \in Nat /\ Cardinality(s) <= Cardinality(S)
  BY FS_Subset, FS_CardinalityType
<1>1. Has1(0)
  <2> DEFINE g == [s \in upTo(0) |-> 0]
  <2>1. ASSUME NEW s \in upTo(0) PROVE s = {}
    BY <1>0, FS_Subset, FS_EmptySet
  <2>2. \A s \in upTo(0) : Sums(g, s) = 0
    BY <2>1
  <2> HIDE DEF Sums
  <2>3. g = [s \in upTo(0) |-> Sums(g, s)]
    BY <2>2
  <2> QED BY <2>3
<1>2. ASSUME NEW m \in Nat, m # 0, Has1(m - 1) PROVE Has1(m)
  <2>1. PICK h : h = [s \in upTo(m - 1) |-> Sums(h, s)]
    BY <1>2
  <2> DEFINE g == [s \in upTo(m) |-> Sums(h, s)]
  <2>2. ASSUME NEW s \in upTo(m), s # {} PROVE s \ {Pick(s)} \in upTo(m - 1)
    BY <2>2, PickedSmaller
  <2>3. ASSUME NEW s \in upTo(m - 1) PROVE g[s] = h[s]
    <3>1. s \in upTo(m)
      BY <1>0
    <3> HIDE DEF Sums, upTo
    <3> QED BY <2>1, <3>1
  <2>4. ASSUME NEW s \in upTo(m) PROVE g[s] = Sums(g, s)
    <3>1. g[s] = Sums(h, s)
      OBVIOUS
    <3>2. CASE s = {}
      BY <3>1, <3>2
    <3>3. CASE s # {}
      <4>1. g[s \ {Pick(s)}] = h[s \ {Pick(s)}]
        BY <2>2, <2>3, <3>3
      <4> HIDE DEF g
      <4> QED BY <3>1, <3>3, <4>1
    <3> QED BY <3>2, <3>3
  <2>5. g = [s \in upTo(m) |-> g[s]]
    OBVIOUS
  <2> HIDE DEF g, Sums
  <2>6. g = [s \in upTo(m) |-> Sums(g, s)]
    BY <2>4, <2>5
  <2> QED BY <2>6
<1> HIDE DEF Has1
<1>3. none = {}
  <2> SUFFICES ASSUME none # {} PROVE FALSE
    OBVIOUS
  <2>1. none \in SUBSET Nat
    OBVIOUS
  <2>2. PICK m \in none : \A k \in none : m <= k
    BY <2>1, LeastNumber
  <2>3. m \in Nat /\ ~Has1(m) /\ m # 0 /\ m - 1 \in Nat
    BY <1>1
  <2>4. Has1(m - 1)
    BY <2>2, <2>3
  <2> QED BY <1>2, <2>3, <2>4
<1>4. upTo(Cardinality(S)) = SUBSET S /\ Cardinality(S) \in Nat
  BY <1>0
<1>5. \E g : g = [s \in SUBSET S |-> Sums(g, s)]
  <2>1. Has1(Cardinality(S))
    BY <1>3, <1>4
  <2> HIDE DEF Sums
  <2> QED BY <1>4, <2>1 DEF Has1
<1> DEFINE g == CHOOSE h : h = [s \in SUBSET S |-> Sums(h, s)]
<1>6. SumFunctionOnSet(f, S) = g[S]
  BY DEF SumFunctionOnSet, FoldFunctionOnSet, MapThenFoldSet, Pick
<1>7. g = [s \in SUBSET S |-> Sums(g, s)]
  <2> HIDE DEF Sums
  <2> QED BY <1>5
<1> HIDE DEF g
<1>8. \A s \in SUBSET S : g[s] = Sums(g, s)
  <2> HIDE DEF Sums
  <2> QED BY <1>7
<1> QED BY <1>6, <1>8 DEF IsSum

(* Sums of natural numbers: what is added to the terms is added to the sum. *)
LEMMA SumNat ==
    ASSUME NEW S, IsFiniteSet(S), NEW f, \A x \in S : f[x] \in Nat
    PROVE  SumFunctionOnSet(f, S) \in Nat
<1>1. PICK g : IsSum(g, f, S)
  BY SumSteps
<1> DEFINE good == {s \in SUBSET S : g[s] \in Nat}
<1>2. \A s \in SUBSET S : s # {} /\ s \ {Pick(s)} \in good => s \in good
  BY <1>1, PickedSmaller DEF IsSum
<1>3. {} \in good
  BY <1>1 DEF IsSum
<1> HIDE DEF good
<1>4. \A s \in SUBSET S : s \in good
  BY <1>2, <1>3, SubsetInduction
<1> QED BY <1>1, <1>4 DEF good, IsSum

LEMMA SumAtMost ==
    ASSUME NEW S, IsFiniteSet(S), NEW f, NEW p, NEW q,
           \A x \in S : /\ f[x] \in Nat /\ p[x] \in Nat /\ q[x] \in Nat
                        /\ f[x] <= p[x] + q[x]
    PROVE  SumFunctionOnSet(f, S)
              <= SumFunctionOnSet(p, S) + SumFunctionOnSet(q, S)
<1>1. PICK g : IsSum(g, f, S)
  BY SumSteps
<1>2. PICK a : IsSum(a, p, S)
  BY SumSteps
<1>3. PICK b : IsSum(b, q, S)
  BY SumSteps
<1> DEFINE good == {s \in SUBSET S : /\ g[s] \in Nat /\ a[s] \in Nat /\ b[s] \in Nat
                                    /\ g[s] <= a[s] + b[s]}
<1>4. ASSUME NEW s \in SUBSET S, s # {}, s \ {Pick(s)} \in good PROVE s \in good
  <2>1. PICK r : r = s \ {Pick(s)}
    OBVIOUS
  <2>2. PICK x \in S : x = Pick(s)
    BY <1>4, PickedSmaller
  <2>3. g[s] = f[x] + g[r] /\ a[s] = p[x] + a[r] /\ b[s] = q[x] + b[r]
    BY <1>1, <1>2, <1>3, <1>4, <2>1, <2>2 DEF IsSum
  <2>4. g[r] \in Nat /\ a[r] \in Nat /\ b[r] \in Nat /\ g[r] <= a[r] + b[r]
    BY <1>4, <2>1
  <2> QED BY <2>3, <2>4
<1>5. {} \in good
  BY <1>1, <1>2, <1>3 DEF IsSum
<1> HIDE DEF good
<1>6. \A s \in SUBSET S : s \in good
  BY <1>4, <1>5, SubsetInduction
<1>7. S \in good
  BY <1>6
<1> QED BY <1>1, <1>2, <1>3, <1>7 DEF good, IsSum

LEMMA SumOfOne ==
    ASSUME NEW S, IsFiniteSet(S), NEW k
    PROVE  SumFunctionOnSet([x \in S |-> IF x = k THEN 1 ELSE 0], S) <= 1
<1> DEFINE one == [x \in S |-> IF x = k THEN 1 ELSE 0]
<1>1. PICK g : IsSum(g, one, S)
  BY SumSteps
<1> DEFINE good == {s \in SUBSET S : g[s] = IF k \in s THEN 1 ELSE 0}
<1>2. ASSUME NEW s \in SUBSET S, s # {}, s \ {Pick(s)} \in good PROVE s \in good
  <2>1. PICK x \in S : x = Pick(s) /\ x \in s
    BY <1>2, PickedSmaller
  <2>2. g[s] = one[x] + g[s \ {x}]
    BY <1>1, <1>2, <2>1 DEF IsSum
  <2>3. g[s \ {x}] = IF k \in s \ {x} THEN 1 ELSE 0
    BY <1>2, <2>1
  <2> QED BY <2>1, <2>2, <2>3
<1>3. {} \in good
  BY <1>1 DEF IsSum
<1> HIDE DEF good
<1>4. S \in good
  BY <1>2, <1>3, SubsetInduction
<1>5. g[S] <= 1
  BY <1>4 DEF good
<1> HIDE DEF one
<1>6. SumFunctionOnSet(one, S) <= 1
  BY <1>1, <1>5 DEF IsSum
<1> QED BY <1>6 DEF one

LEMMA SumOfNone ==
    ASSUME NEW S, IsFiniteSet(S), NEW f, \A x \in S : f[x] = 0
    PROVE  SumFunctionOnSet(f, S) = 0
<1>1. PICK g : IsSum(g, f, S)
  BY SumSteps
<1> DEFINE good == {s \in SUBSET S : g[s] = 0}
<1>2. ASSUME NEW s \in SUBSET S, s # {}, s \ {Pick(s)} \in good PROVE s \in good
  <2>1. PICK x \in S : x = Pick(s)
    BY <1>2, PickedSmaller
  <2>2. g[s] = f[x] + g[s \ {x}]
    BY <1>1, <1>2, <2>1 DEF IsSum
  <2>3. f[x] = 0 /\ g[s \ {x}] = 0
    BY <1>2, <2>1
  <2> QED BY <2>2, <2>3
<1>3. {} \in good
  BY <1>1 DEF IsSum
<1> HIDE DEF good
<1>4. S \in good
  BY <1>2, <1>3, SubsetInduction
<1> QED BY <1>1, <1>4 DEF good, IsSum

LEMMA LengthIsSum ==
    ASSUME NEW q \in [Jobs -> Nat]
    PROVE  Length(q) = SumFunctionOnSet(q, Jobs) /\ Length(q) \in Nat
<1>1. Length(q) = SumFunctionOnSet(q, Jobs)
  BY DEF Length, SumFunction
<1> QED BY <1>1, SumNat, BudgetsAssumption

(* The other queues count as much as they hold. *)
LEMMA DepthIsSum ==
    ASSUME BudgetsInv
    PROVE  Length(queued) + Length(delayed) <= Depth /\ Depth \in Nat
<1>1. queued \in [Jobs -> Nat] /\ delayed \in [Jobs -> Nat]
  BY DEF BudgetsInv, BudgetsTypeOK
<1>2. Length(queued) \in Nat /\ Length(delayed) \in Nat
  BY <1>1, LengthIsSum
<1>3. Cardinality(running) \in Nat
  <2>1. running \in SUBSET Jobs
    BY DEF BudgetsInv, BudgetsTypeOK
  <2> QED BY <2>1, FS_Subset, FS_CardinalityType, BudgetsAssumption
<1> QED BY <1>2, <1>3 DEF Depth

LEMMA LengthAtMost ==
    ASSUME NEW f \in [Jobs -> Nat], NEW p \in [Jobs -> Nat], NEW q \in [Jobs -> Nat],
           \A j \in Jobs : f[j] <= p[j] + q[j]
    PROVE  Length(f) <= Length(p) + Length(q)
  BY LengthIsSum, SumAtMost, BudgetsAssumption

CapacityInv == BudgetsInv /\ limits \in Limits /\ QueueWithinCapacity

(* No longer than it was, or than what one that may be queued finds. *)
LEMMA StaysWithin ==
    ASSUME CapacityInv, queued' \in [Jobs -> Nat],
           \/ \A j \in Jobs : queued'[j] <= queued[j]
           \/ Roomy /\ Length(queued') <= Depth + 1
    PROVE  QueueWithinCapacity'
<1> SUFFICES ASSUME \A l \in Limits : l.depth # 0
             PROVE  \E l \in Limits : Length(queued') <= l.depth
  BY DEF QueueWithinCapacity, Length
<1>1. queued \in [Jobs -> Nat] /\ limits \in Limits /\ limits.depth \in Nat
  BY BudgetsAssumption DEF CapacityInv, BudgetsInv, BudgetsTypeOK, LimitsType
<1>2. CASE \A j \in Jobs : queued'[j] <= queued[j]
  <2> DEFINE none == [j \in Jobs |-> 0]
  <2>1. none \in [Jobs -> Nat] /\ \A j \in Jobs : none[j] = 0
    OBVIOUS
  <2>2. \A j \in Jobs : queued'[j] <= queued[j] + none[j]
    BY <1>1, <1>2, <2>1
  <2> HIDE DEF none
  <2>3. Length(queued') <= Length(queued) + Length(none)
    BY <1>1, <2>1, <2>2, LengthAtMost
  <2>4. Length(none) = 0
    BY <2>1, LengthIsSum, SumOfNone, BudgetsAssumption
  <2>5. PICK l \in Limits : Length(queued) <= l.depth
    BY DEF CapacityInv, QueueWithinCapacity
  <2>6. /\ Length(queued) \in Nat /\ Length(queued') \in Nat
        /\ l.depth \in Nat
    BY <1>1, LengthIsSum, BudgetsAssumption DEF LimitsType
  <2> QED BY <2>3, <2>4, <2>5, <2>6
<1>3. CASE Roomy /\ Length(queued') <= Depth + 1
  <2>1. Depth < limits.depth
    BY <1>1, <1>3 DEF Roomy
  <2>2. Depth \in Nat /\ Length(queued') \in Nat
    BY DepthIsSum, LengthIsSum DEF CapacityInv
  <2> QED BY <1>1, <1>3, <2>1, <2>2
<1> QED BY <1>2, <1>3

LEMMA RegisterWithin ==
    ASSUME CapacityInv, NEW j \in Jobs, NEW n, NEW state, RegisterJob(j, n, state),
           queued' \in [Jobs -> Nat]
    PROVE  QueueWithinCapacity'
<1>1. queued \in [Jobs -> Nat] /\ delayed \in [Jobs -> Nat]
  BY DEF CapacityInv, BudgetsInv, BudgetsTypeOK
<1>2. CASE queued' = queued
  BY <1>1, <1>2, StaysWithin
<1>3. CASE state = "queued" /\ queued' = [queued EXCEPT ![j] = @ + 1]
  <2>1. Roomy
    BY <1>3 DEF RegisterJob, EvaluateJob
  <2> DEFINE one == [k \in Jobs |-> IF k = j THEN 1 ELSE 0]
  <2>2. one \in [Jobs -> Nat] /\ \A k \in Jobs : queued'[k] <= queued[k] + one[k]
    BY <1>1, <1>3
  <2>3. SumFunctionOnSet(one, Jobs) <= 1
    BY SumOfOne, BudgetsAssumption
  <2> HIDE DEF one
  <2>4. Length(queued') <= Length(queued) + Length(one)
    BY <1>1, <2>2, LengthAtMost
  <2>5. /\ Length(one) <= 1 /\ Length(one) \in Nat
        /\ Length(queued) \in Nat /\ Length(queued') \in Nat /\ Length(delayed) \in Nat
    BY <1>1, <2>2, <2>3, LengthIsSum
  <2>6. Length(queued) + Length(delayed) <= Depth /\ Depth \in Nat
    BY DepthIsSum DEF CapacityInv
  <2>7. Length(queued') <= Depth + 1
    BY <2>4, <2>5, <2>6
  <2> QED BY <2>1, <2>7, StaysWithin
<1> QED BY <1>2, <1>3 DEF RegisterJob

LEMMA RefreshWithin ==
    ASSUME CapacityInv, NEW result, RefreshQueue(result), queued' \in [Jobs -> Nat]
    PROVE  QueueWithinCapacity'
<1>1. queued \in [Jobs -> Nat] /\ delayed \in [Jobs -> Nat]
  BY DEF CapacityInv, BudgetsInv, BudgetsTypeOK
<1>2. CASE queued' = queued
  BY <1>1, <1>2, StaysWithin
<1>3. CASE Refreshed
  <2>1. queued' = [j \in Jobs |-> IF delayed[j] > 0 /\ EvaluateJob(j, need[j]) = "queued"
                                  THEN queued[j] + delayed[j] ELSE queued[j]]
    BY <1>3 DEF Refreshed, Transitions, Waiting
  <2>2. CASE Roomy
    <3>1. \A j \in Jobs : queued'[j] <= queued[j] + delayed[j]
      BY <1>1, <2>1
    <3>2. Length(queued') <= Length(queued) + Length(delayed)
      BY <1>1, <3>1, LengthAtMost
    <3>3. Length(queued) + Length(delayed) <= Depth /\ Depth \in Nat
      BY DepthIsSum DEF CapacityInv
    <3>4. Length(queued) \in Nat /\ Length(queued') \in Nat /\ Length(delayed) \in Nat
      BY <1>1, LengthIsSum
    <3>5. Length(queued') <= Depth + 1
      BY <3>2, <3>3, <3>4
    <3> QED BY <2>2, <3>5, StaysWithin
  <2>3. CASE ~Roomy
    <3>1. \A j \in Jobs : EvaluateJob(j, need[j]) # "queued"
      BY <2>3 DEF EvaluateJob
    <3>2. \A j \in Jobs : queued'[j] <= queued[j]
      BY <1>1, <2>1, <3>1
    <3> QED BY <3>2, StaysWithin
  <2> QED BY <2>2, <2>3
<1> QED BY <1>2, <1>3 DEF RefreshQueue

LEMMA CapacityInit == BudgetsInit => CapacityInv
<1> SUFFICES ASSUME BudgetsInit PROVE CapacityInv
  OBVIOUS
<1>1. queued \in [Jobs -> Nat] /\ (\A j \in Jobs : queued[j] = 0) /\ limits \in Limits
  BY BudgetsAssumption DEF BudgetsInit
<1>2. Length(queued) = 0
  BY <1>1, LengthIsSum, SumOfNone, BudgetsAssumption
<1>3. limits.depth \in Nat
  BY <1>1, BudgetsAssumption DEF LimitsType
<1>4. QueueWithinCapacity
  BY <1>1, <1>2, <1>3 DEF QueueWithinCapacity
<1> QED BY <1>1, <1>4, BudgetsInitInv DEF CapacityInv

LEMMA CapacityNext == CapacityInv /\ [BudgetsNext]_budgetVars => CapacityInv'
<1> SUFFICES ASSUME CapacityInv, [BudgetsNext]_budgetVars PROVE CapacityInv'
  OBVIOUS
<1>1. BudgetsInv'
  BY BudgetsNextInv DEF CapacityInv
<1>2. /\ queued' \in [Jobs -> Nat] /\ queued \in [Jobs -> Nat] /\ limits \in Limits
  BY <1>1 DEF CapacityInv, BudgetsInv, BudgetsTypeOK
<1>3. \/ /\ limits' = limits
         /\ \/ \E j \in Jobs, n \in Needs, state \in {"queued", "delayed", "running"} :
                   RegisterJob(j, n, state)
            \/ \E result : RefreshQueue(result)
      \/ limits' \in Limits /\ \A j \in Jobs : queued'[j] <= queued[j]
  <2>1. ASSUME queued' = queued PROVE \A j \in Jobs : queued'[j] <= queued[j]
    BY <1>2, <2>1
  <2>2. CASE JobStep
    <3>1. ASSUME NEW j \in Jobs, NEW n \in Needs, RegisterBudgetedJob(j, n) \/ Submit(j, n)
          PROVE  /\ limits' = limits
                 /\ \E state \in {"queued", "delayed", "running"} : RegisterJob(j, n, state)
      BY <3>1 DEF RegisterBudgetedJob, Submit, RegisterJob
    <3>2. ASSUME NEW j \in Jobs, MarkStarted(j) \/ MarkFinished(j)
          PROVE  limits' = limits /\ \A k \in Jobs : queued'[k] <= queued[k]
      BY <1>2, <3>2 DEF MarkStarted, MarkFinished, Without
    <3>3. ASSUME NEW j \in Jobs, Listed(j) PROVE limits' = limits /\ queued' = queued
      BY <3>3 DEF Listed, managerVars
    <3> QED BY <1>2, <2>1, <2>2, <3>1, <3>2, <3>3 DEF JobStep
  <2>3. CASE PollStep
    <3>1. ASSUME NEW t \in Pollers, Poll(t)
          PROVE  limits' = limits /\ \E result : RefreshQueue(result)
      BY <3>1 DEF Poll, RefreshQueue
    <3>2. ASSUME NEW t \in Pollers, PollWrites(t)
          PROVE  limits' = limits /\ queued' = queued
      BY <3>2 DEF PollWrites, managerVars
    <3> QED BY <1>2, <2>1, <2>3, <3>1, <3>2 DEF PollStep
  <2>4. CASE RefreshBudgetQueue
    BY <2>4 DEF RefreshBudgetQueue, RefreshQueue
  <2>5. CASE AssetStep
    <3>1. limits' = limits /\ queued' = queued
      BY <2>5 DEF AssetStep, RegisterAsset, TouchAsset, Evict, Snapshot, managerVars
    <3> QED BY <1>2, <2>1, <3>1
  <2>6. CASE IntervalPasses \/ (\E u \in Usages : Load(u)) \/ UNCHANGED budgetVars
    <3>1. limits' = limits /\ queued' = queued
      BY <2>6 DEF IntervalPasses, Load, budgetVars, managerVars
    <3> QED BY <1>2, <2>1, <3>1
  <2>7. CASE \E l \in Limits : Configure(l)
    BY <1>2, <2>1, <2>7 DEF Configure
  <2> QED BY <2>2, <2>3, <2>4, <2>5, <2>6, <2>7 DEF BudgetsNext
<1>4. limits' \in Limits
  BY <1>2, <1>3
<1>5. QueueWithinCapacity'
  BY <1>2, <1>3, StaysWithin, RegisterWithin, RefreshWithin
<1> QED BY <1>1, <1>4, <1>5 DEF CapacityInv

(* However jobs are registered and promoted while limits and load change,   *)
(* the queue is never longer than the largest capacity that may apply.      *)
THEOREM CapacityHolds == BudgetsSpec => []QueueWithinCapacity
<1>1. CapacityInv => QueueWithinCapacity
  BY DEF CapacityInv
<1> QED BY <1>1, CapacityInit, CapacityNext, PTL DEF BudgetsSpec

-----------------------------------------------------------------------------
(* Folds over a sequence: the function that they go by exists, and goes     *)
(* element by element. *)

LEMMA LastOf ==
    ASSUME NEW n \in Nat, NEW S \in SUBSET (1..n), S # {}
    PROVE  Max(S) \in S /\ \A m \in S : m <= Max(S)
<1> DEFINE above == {n - m : m \in S}
<1>1. above \in SUBSET Nat /\ above # {}
  <2>1. \A m \in S : m \in 1..n
    OBVIOUS
  <2>2. \A m \in 1..n : n - m \in Nat
    OBVIOUS
  <2>3. above \in SUBSET Nat
    BY <2>1, <2>2
  <2>4. PICK m \in S : TRUE
    OBVIOUS
  <2>5. n - m \in above
    BY <2>4
  <2> QED BY <2>3, <2>5
<1>2. PICK a \in above : \A b \in above : a <= b
  <2> HIDE DEF above
  <2> QED BY <1>1, LeastNumber
<1>3. PICK k \in S : a = n - k
  OBVIOUS
<1>4. \A m \in S : k >= m
  <2> TAKE m \in S
  <2>1. n - m \in above
    OBVIOUS
  <2>2. n - k <= n - m
    BY <1>2, <1>3, <2>1
  <2> HIDE DEF above
  <2>3. k \in 1..n /\ m \in 1..n
    OBVIOUS
  <2> QED BY <2>2, <2>3
<1> HIDE DEF above
<1>5. Max(S) \in S /\ \A m \in S : Max(S) >= m
  BY <1>4 DEF Max
<1> QED BY <1>5

(* What eviction does with each asset, par being its target, and what is    *)
(* kept of a list, par being a set.                                         *)
Step(kind, par, so, x) ==
    IF kind = "evict"
    THEN IF so.freed >= par THEN so
         ELSE [freed |-> so.freed + Size[x], gone |-> so.gone \cup {x}]
    ELSE IF x \in par THEN Append(so, x) ELSE so

Steps(g, kind, par, base, s) ==
    g = [t \in SUBSET DOMAIN s |->
            IF t = {} THEN base ELSE Step(kind, par, g[t \ {Max(t)}], s[Max(t)])]

Folded(kind, par, base, s) == (CHOOSE g : Steps(g, kind, par, base, s))[DOMAIN s]

LEMMA FoldExists ==
    ASSUME NEW kind, NEW par, NEW base, NEW s, NEW n \in Nat, DOMAIN s = 1..n
    PROVE  \E g : Steps(g, kind, par, base, s)
<1> DEFINE Body(g, t) == IF t = {} THEN base
                         ELSE Step(kind, par, g[t \ {Max(t)}], s[Max(t)])
           Has1(m) == \E g : g = [t \in SUBSET (1..m) |-> Body(g, t)]
           none == {m \in Nat : ~Has1(m)}
<1>1. Has1(0)
  <2> DEFINE g == [t \in SUBSET (1..0) |-> base]
  <2>1. ASSUME NEW t \in SUBSET (1..0) PROVE Body(g, t) = base
    OBVIOUS
  <2> HIDE DEF Body
  <2>2. g = [t \in SUBSET (1..0) |-> Body(g, t)]
    BY <2>1
  <2> QED BY <2>2
<1>2. ASSUME NEW m \in Nat, m # 0, Has1(m - 1) PROVE Has1(m)
  <2>1. PICK h : h = [t \in SUBSET (1..(m - 1)) |-> Body(h, t)]
    BY <1>2
  <2> DEFINE g == [t \in SUBSET (1..m) |-> Body(h, t)]
  <2>2. ASSUME NEW t \in SUBSET (1..m), t # {} PROVE t \ {Max(t)} \in SUBSET (1..(m - 1))
    <3>1. Max(t) \in t /\ \A k \in t : k <= Max(t)
      BY <2>2, LastOf
    <3>2. ASSUME NEW k \in t, k # Max(t) PROVE k \in 1..(m - 1)
      <4>1. k \in 1..m /\ Max(t) \in 1..m /\ k <= Max(t)
        BY <3>1
      <4> QED BY <3>2, <4>1
    <3> QED BY <3>2
  <2>3. ASSUME NEW t \in SUBSET (1..(m - 1)) PROVE g[t] = h[t]
    <3>1. t \in SUBSET (1..m)
      BY <1>2
    <3> HIDE DEF Body
    <3> QED BY <2>1, <3>1
  <2>4. ASSUME NEW t \in SUBSET (1..m) PROVE g[t] = Body(g, t)
    <3>1. g[t] = Body(h, t)
      OBVIOUS
    <3>2. CASE t = {}
      BY <3>1, <3>2
    <3>3. CASE t # {}
      <4>1. g[t \ {Max(t)}] = h[t \ {Max(t)}]
        BY <2>2, <2>3, <3>3
      <4> HIDE DEF g
      <4> QED BY <3>1, <3>3, <4>1
    <3> QED BY <3>2, <3>3
  <2>5. g = [t \in SUBSET (1..m) |-> g[t]]
    OBVIOUS
  <2> HIDE DEF g, Body
  <2>6. g = [t \in SUBSET (1..m) |-> Body(g, t)]
    BY <2>4, <2>5
  <2> QED BY <2>6
<1> HIDE DEF Has1
<1>3. none = {}
  <2> SUFFICES ASSUME none # {} PROVE FALSE
    OBVIOUS
  <2>1. none \in SUBSET Nat
    OBVIOUS
  <2>2. PICK m \in none : \A k \in none : m <= k
    BY <2>1, LeastNumber
  <2>3. m \in Nat /\ ~Has1(m) /\ m # 0 /\ m - 1 \in Nat
    BY <1>1
  <2>4. Has1(m - 1)
    BY <2>2, <2>3
  <2> QED BY <1>2, <2>3, <2>4
<1>4. Has1(n)
  BY <1>3
<1> QED BY <1>4 DEF Has1, Steps

(* Element by element. *)
Goes(g, kind, par, base, s, n) ==
    /\ Folded(kind, par, base, s) = g[n] /\ g[0] = base
    /\ \A i \in 1..n : g[i] = Step(kind, par, g[i - 1], s[i])

LEMMA FoldSteps ==
    ASSUME NEW kind, NEW par, NEW base, NEW s, NEW n \in Nat, DOMAIN s = 1..n
    PROVE  \E g : Goes(g, kind, par, base, s, n)
<1> DEFINE f == CHOOSE f : Steps(f, kind, par, base, s)
           g == [i \in 0..n |-> f[1..i]]
<1>1. Steps(f, kind, par, base, s)
  BY FoldExists
<1>2. Folded(kind, par, base, s) = f[1..n]
  BY DEF Folded
<1> HIDE DEF f
<1>3. \A t \in SUBSET (1..n) :
         f[t] = IF t = {} THEN base ELSE Step(kind, par, f[t \ {Max(t)}], s[Max(t)])
  <2> DEFINE Body(t) == IF t = {} THEN base ELSE Step(kind, par, f[t \ {Max(t)}], s[Max(t)])
  <2>1. f = [t \in SUBSET (1..n) |-> Body(t)]
    BY <1>1 DEF Steps
  <2> HIDE DEF Body
  <2>2. \A t \in SUBSET (1..n) : f[t] = Body(t)
    BY <2>1
  <2> QED BY <2>2 DEF Body
<1>4. f[1..0] = base
  <2>1. 1..0 = {} /\ {} \in SUBSET (1..n)
    OBVIOUS
  <2> QED BY <1>3, <2>1
<1>5. ASSUME NEW i \in 1..n PROVE f[1..i] = Step(kind, par, f[1..(i - 1)], s[i])
  <2>1. (1..i) \in SUBSET (1..n) /\ 1..i # {} /\ i \in Nat /\ i \in 1..i
    OBVIOUS
  <2>2. Max(1..i) \in 1..i /\ \A m \in 1..i : m <= Max(1..i)
    BY <2>1, LastOf
  <2>3. Max(1..i) = i
    BY <2>1, <2>2
  <2>4. (1..i) \ {i} = 1..(i - 1)
    BY <2>1
  <2> QED BY <1>3, <2>1, <2>3, <2>4
<1>6. /\ g[n] = f[1..n] /\ g[0] = f[1..0]
      /\ \A i \in 1..n : g[i] = f[1..i] /\ g[i - 1] = f[1..(i - 1)]
  OBVIOUS
<1> HIDE DEF g
<1> QED BY <1>2, <1>4, <1>5, <1>6 DEF Goes

Inductive(good, n) ==
    0 \in good /\ \A i \in 1..n : i - 1 \in good => i \in good

LEMMA NumberInduction ==
    ASSUME NEW n \in Nat, NEW good, Inductive(good, n)
    PROVE  n \in good /\ \A i \in 0..n : i \in good
<1> DEFINE bad == {i \in 0..n : i \notin good}
<1> SUFFICES ASSUME bad # {} PROVE FALSE
  <2>1. n \in 0..n
    OBVIOUS
  <2> QED BY <2>1
<1>1. bad \in SUBSET Nat
  OBVIOUS
<1>2. PICK i \in bad : \A k \in bad : i <= k
  BY <1>1, LeastNumber
<1>3. i \in 1..n /\ i - 1 \in 0..n /\ i \notin good
  BY DEF Inductive
<1>4. i - 1 \notin bad
  BY <1>2, <1>3
<1> QED BY <1>3, <1>4 DEF Inductive

LEMMA FoldIsOnlyIn ==
    ASSUME NEW ids, NEW S, NEW n \in Nat, DOMAIN ids = 1..n
    PROVE  OnlyIn(ids, S) = Folded("only", S, <<>>, ids)
<1> DEFINE Keep(so, x) == IF x \in S THEN Append(so, x) ELSE so
<1>1. \A g : Steps(g, "only", S, <<>>, ids) <=>
             g = [t \in SUBSET DOMAIN ids |->
                    IF t = {} THEN <<>> ELSE Keep(g[t \ {Max(t)}], ids[Max(t)])]
  BY DEF Steps, Step
<1> DEFINE f == CHOOSE g : g = [t \in SUBSET DOMAIN ids |->
                    IF t = {} THEN <<>> ELSE Keep(g[t \ {Max(t)}], ids[Max(t)])]
<1>2. OnlyIn(ids, S) = f[DOMAIN ids]
  BY DEF OnlyIn, FoldLeft, MapThenFoldSet
<1> HIDE DEF Keep
<1>3. f = CHOOSE g : Steps(g, "only", S, <<>>, ids)
  BY <1>1
<1> QED BY <1>2, <1>3 DEF Folded

LEMMA FoldIsEvicted ==
    ASSUME NEW target, NEW n \in Nat, DOMAIN LeastRecent = 1..n
    PROVE  Evicted(target)
              = Folded("evict", target, [freed |-> 0, gone |-> {}], LeastRecent).gone
<1> DEFINE Out(done, a) == IF done.freed >= target THEN done
                           ELSE [freed |-> done.freed + Size[a], gone |-> done.gone \cup {a}]
           none == [freed |-> 0, gone |-> {}]
<1>0. PICK s : s = LeastRecent
  OBVIOUS
<1>1. \A g : Steps(g, "evict", target, none, s) <=>
             g = [t \in SUBSET DOMAIN s |->
                    IF t = {} THEN none ELSE Out(g[t \ {Max(t)}], s[Max(t)])]
  BY DEF Steps, Step
<1> DEFINE f == CHOOSE g : g = [t \in SUBSET DOMAIN s |->
                    IF t = {} THEN none ELSE Out(g[t \ {Max(t)}], s[Max(t)])]
<1>2. Evicted(target) = f[DOMAIN s].gone
  BY <1>0 DEF Evicted, FoldLeft, MapThenFoldSet
<1> HIDE DEF Out, none
<1>3. f = CHOOSE g : Steps(g, "evict", target, none, s)
  BY <1>1
<1> QED BY <1>0, <1>2, <1>3 DEF Folded, none

-----------------------------------------------------------------------------
(* The sum over a set with one element more.                                *)

LEMMA SumOfPart ==
    ASSUME NEW S, IsFiniteSet(S), NEW f, NEW g, IsSum(g, f, S), NEW s \in SUBSET S
    PROVE  SumFunctionOnSet(f, s) = g[s]
<1>1. IsFiniteSet(s)
  BY FS_Subset
<1>2. PICK h : IsSum(h, f, s)
  BY <1>1, SumSteps
<1> DEFINE good == {t \in SUBSET s : h[t] = g[t]}
<1>3. ASSUME NEW t \in SUBSET s, t # {}, t \ {Pick(t)} \in good PROVE t \in good
  <2>1. t \in SUBSET S
    OBVIOUS
  <2>2. h[t] = f[Pick(t)] + h[t \ {Pick(t)}] /\ g[t] = f[Pick(t)] + g[t \ {Pick(t)}]
    BY <1>2, <1>3, <2>1 DEF IsSum
  <2> QED BY <1>3, <2>2
<1>4. {} \in good
  BY <1>2 DEF IsSum
<1> HIDE DEF good
<1>5. s \in good
  BY <1>1, <1>3, <1>4, SubsetInduction
<1> QED BY <1>2, <1>5 DEF IsSum, good

(* Any element may be the one that is added last. *)
LEMMA SumRemove ==
    ASSUME NEW S, IsFiniteSet(S), NEW f, \A x \in S : f[x] \in Nat, NEW g, IsSum(g, f, S)
    PROVE  \A s \in SUBSET S : g[s] \in Nat /\ \A y \in s : g[s] = g[s \ {y}] + f[y]
<1> DEFINE Good(s) == \A y \in s : g[s] = g[s \ {y}] + f[y]
           bad == {s \in SUBSET S : ~ Good(s)}
           sizes == {Cardinality(s) : s \in bad}
<1>1. \A s \in SUBSET S : g[s] \in Nat
  <2> TAKE s \in SUBSET S
  <2>1. SumFunctionOnSet(f, s) \in Nat
    BY SumNat, FS_Subset
  <2> QED BY <2>1, SumOfPart
<1>2. bad = {}
  <2> SUFFICES ASSUME bad # {} PROVE FALSE
    OBVIOUS
  <2>1. \A s \in SUBSET S : Cardinality(s) \in Nat
    BY FS_Subset, FS_CardinalityType
  <2>2. sizes \in SUBSET Nat /\ sizes # {}
    BY <2>1
  <2>3. PICK n \in sizes : \A m \in sizes : n <= m
    <3> HIDE DEF sizes
    <3> QED BY <2>2, LeastNumber
  <2>4. PICK s \in bad : \A t \in bad : Cardinality(s) <= Cardinality(t)
    BY <2>3
  <2>5. PICK y \in s : g[s] # g[s \ {y}] + f[y]
    OBVIOUS
  <2>6. PICK p \in s : p = Pick(s)
    BY <2>5 DEF Pick
  <2>7. g[s] = f[p] + g[s \ {p}]
    BY <2>6 DEF IsSum
  <2>8. y # p
    <3>1. PICK most \in Nat : most = g[s \ {p}]
      <4>1. s \ {p} \in SUBSET S
        OBVIOUS
      <4> QED BY <1>1, <4>1
    <3>2. f[p] \in Nat /\ f[p] + most = most + f[p]
      OBVIOUS
    <3> QED BY <2>5, <2>7, <3>1, <3>2
  <2>9. ASSUME NEW x \in s PROVE Good(s \ {x})
    <3>1. s \ {x} \in SUBSET S /\ IsFiniteSet(s)
      BY FS_Subset
    <3>2. Cardinality(s \ {x}) = Cardinality(s) - 1 /\ Cardinality(s) \in Nat
      BY <3>1, FS_RemoveElement, FS_CardinalityType
    <3>3. s \ {x} \notin bad
      BY <2>4, <3>2
    <3> QED BY <3>1, <3>3
  <2>10. g[s \ {p}] = g[(s \ {p}) \ {y}] + f[y]
    <3>1. y \in s \ {p}
      BY <2>8
    <3> QED BY <2>9, <3>1
  <2>11. g[s \ {y}] = g[(s \ {y}) \ {p}] + f[p]
    <3>1. p \in s \ {y}
      BY <2>8
    <3> QED BY <2>9, <3>1
  <2>12. (s \ {p}) \ {y} = (s \ {y}) \ {p}
    OBVIOUS
  <2>13. PICK rest \in Nat : rest = g[(s \ {y}) \ {p}]
    <3>1. (s \ {y}) \ {p} \in SUBSET S
      OBVIOUS
    <3> QED BY <1>1, <3>1
  <2>14. PICK a \in Nat, b \in Nat : a = f[p] /\ b = f[y]
    OBVIOUS
  <2>15. g[s] = a + (rest + b) /\ g[s \ {y}] + f[y] = (rest + a) + b
    BY <2>7, <2>10, <2>11, <2>12, <2>13, <2>14
  <2>16. a + (rest + b) = (rest + a) + b
    OBVIOUS
  <2> QED BY <2>5, <2>15, <2>16
<1> QED BY <1>1, <1>2

LEMMA SumAdd ==
    ASSUME NEW S, IsFiniteSet(S), NEW x, x \notin S, NEW f, \A y \in S \cup {x} : f[y] \in Nat
    PROVE  SumFunctionOnSet(f, S \cup {x}) = SumFunctionOnSet(f, S) + f[x]
<1>1. PICK U : U = S \cup {x}
  OBVIOUS
<1>2. IsFiniteSet(U)
  BY <1>1, FS_AddElement
<1>3. PICK g : IsSum(g, f, U)
  BY <1>2, SumSteps
<1>4. SumFunctionOnSet(f, U) = g[U] /\ SumFunctionOnSet(f, S) = g[S]
  BY <1>1, <1>2, <1>3, SumOfPart
<1>5. g[U] = g[U \ {x}] + f[x] /\ U \ {x} = S
  BY <1>1, <1>2, <1>3, SumRemove
<1> QED BY <1>1, <1>4, <1>5

-----------------------------------------------------------------------------
(* What is kept of a list is in its order. *)

Distinct(s) == \A i, j \in 1..Len(s) : s[i] = s[j] => i = j

InOrder(kept, s, n) ==
    \A k, l \in 1..Len(kept) :
        k < l => \E a, b \in 1..n : a < b /\ s[a] = kept[k] /\ s[b] = kept[l]

LEMMA OnlyInOrder ==
    ASSUME NEW S, NEW s \in Seq(S), Distinct(s), NEW T
    PROVE  /\ OnlyIn(s, T) \in Seq(S) /\ Distinct(OnlyIn(s, T))
           /\ \A x : x \in Range(OnlyIn(s, T)) <=> x \in Range(s) /\ x \in T
           /\ InOrder(OnlyIn(s, T), s, Len(s))
<1>1. PICK n \in Nat : n = Len(s) /\ DOMAIN s = 1..n
  OBVIOUS
<1>2. PICK g : Goes(g, "only", T, << >>, s, n)
  BY <1>1, FoldSteps
<1>3. ASSUME NEW i \in 1..n
      PROVE  g[i] = IF s[i] \in T THEN Append(g[i - 1], s[i]) ELSE g[i - 1]
  BY <1>2 DEF Step, Goes
<1> DEFINE Good(kept, i) ==
               /\ kept \in Seq(S) /\ Distinct(kept)
               /\ \A k \in 1..Len(kept) : kept[k] \in T /\ \E a \in 1..i : s[a] = kept[k]
               /\ \A a \in 1..i : s[a] \in T => \E k \in 1..Len(kept) : s[a] = kept[k]
               /\ InOrder(kept, s, i)
           good == {i \in 0..n : Good(g[i], i)}
<1>4. 0 \in good
  <2>1. g[0] = << >> /\ 0 \in 0..n
    BY <1>2 DEF Goes
  <2>2. << >> \in Seq(S) /\ Len(<< >>) = 0
    OBVIOUS
  <2>3. Good(<< >>, 0)
    BY <2>2 DEF Distinct, InOrder
  <2> HIDE DEF Good
  <2> QED BY <2>1, <2>3
<1>5. ASSUME NEW i \in 1..n, i - 1 \in good PROVE i \in good
  <2>1. PICK old : old = g[i - 1]
    OBVIOUS
  <2>2. Good(old, i - 1) /\ i \in 0..n
    BY <1>5, <2>1
  <2>3. \A a \in 1..(i - 1) : a \in 1..i /\ a < i
    OBVIOUS
  <2>4. \A a \in 1..i : a \in 1..(i - 1) \/ a = i
    OBVIOUS
  <2>5. CASE s[i] \notin T
    <3>1. g[i] = old
      BY <1>3, <2>1, <2>5
    <3>2. InOrder(old, s, i)
      BY <2>2, <2>3 DEF InOrder
    <3>3. Good(old, i)
      BY <2>2, <2>3, <2>4, <2>5, <3>2
    <3> HIDE DEF Good
    <3> QED BY <2>2, <3>1, <3>3
  <2>6. CASE s[i] \in T
    <3>1. PICK x \in S : x = s[i]
      BY <1>1
    <3>2. PICK m \in Nat : m = Len(old) /\ DOMAIN old = 1..m
      BY <2>2
    <3>3. PICK new : new = Append(old, x)
      OBVIOUS
    <3>4. /\ new \in Seq(S) /\ Len(new) = m + 1 /\ new[m + 1] = x
          /\ \A k \in 1..m : new[k] = old[k]
      BY <2>2, <3>2, <3>3
    <3>5. g[i] = new
      BY <1>3, <2>1, <2>6, <3>1, <3>3
    <3>6. \A k \in 1..(m + 1) : k \in 1..m \/ k = m + 1
      OBVIOUS
    <3>7. \A k \in 1..m : old[k] # x
      <4> SUFFICES ASSUME NEW k \in 1..m, old[k] = x PROVE FALSE
        OBVIOUS
      <4>1. PICK a \in 1..(i - 1) : s[a] = old[k]
        BY <2>2, <3>2
      <4>2. a \in 1..n /\ a # i
        OBVIOUS
      <4> QED BY <1>1, <3>1, <4>1, <4>2 DEF Distinct
    <3>8. Distinct(new)
      <4>1. \A k, l \in 1..m : old[k] = old[l] => k = l
        BY <2>2, <3>2 DEF Distinct
      <4> QED BY <3>4, <3>6, <3>7, <4>1 DEF Distinct
    <3>9. \A k \in 1..(m + 1) : new[k] \in T /\ \E a \in 1..i : s[a] = new[k]
      <4> TAKE k \in 1..(m + 1)
      <4>1. CASE k \in 1..m
        BY <2>2, <2>3, <3>2, <3>4, <4>1
      <4>2. CASE k = m + 1
        BY <2>6, <3>1, <3>4, <4>2
      <4> QED BY <3>6, <4>1, <4>2
    <3>10. \A a \in 1..i : s[a] \in T => \E k \in 1..(m + 1) : s[a] = new[k]
      <4> SUFFICES ASSUME NEW a \in 1..i, s[a] \in T
                   PROVE  \E k \in 1..(m + 1) : s[a] = new[k]
        OBVIOUS
      <4>1. CASE a \in 1..(i - 1)
        <5>1. PICK k \in 1..m : s[a] = old[k]
          BY <2>2, <3>2, <4>1
        <5> QED BY <3>4, <5>1
      <4>2. CASE a = i
        BY <3>1, <3>4, <4>2
      <4> QED BY <2>4, <4>1, <4>2
    <3>11. InOrder(new, s, i)
      <4> SUFFICES ASSUME NEW k \in 1..Len(new), NEW l \in 1..Len(new), k < l
                   PROVE  \E a, b \in 1..i : a < b /\ s[a] = new[k] /\ s[b] = new[l]
        BY DEF InOrder
      <4>0. k \in 1..(m + 1) /\ l \in 1..(m + 1)
        BY <3>4
      <4>1. k \in 1..m
        BY <4>0
      <4>2. CASE l \in 1..m
        <5>1. PICK a \in 1..(i - 1), b \in 1..(i - 1) : a < b /\ s[a] = old[k] /\ s[b] = old[l]
          BY <2>2, <3>2, <4>1, <4>2 DEF InOrder
        <5> QED BY <2>3, <3>4, <4>1, <4>2, <5>1
      <4>3. CASE l = m + 1
        <5>1. PICK a \in 1..(i - 1) : s[a] = old[k]
          BY <2>2, <3>2, <4>1
        <5>2. a \in 1..i /\ i \in 1..i /\ a < i /\ s[a] = new[k] /\ s[i] = new[l]
          BY <2>3, <3>1, <3>4, <4>1, <4>3, <5>1
        <5> QED BY <5>2
      <4> QED BY <3>6, <4>0, <4>2, <4>3
    <3>12. Good(new, i)
      BY <3>4, <3>8, <3>9, <3>10, <3>11
    <3> HIDE DEF Good
    <3> QED BY <2>2, <3>5, <3>12
  <2> QED BY <2>5, <2>6
<1> HIDE DEF Good
<1>6. n \in good
  <2>1. Inductive(good, n)
    BY <1>4, <1>5 DEF Inductive
  <2> HIDE DEF good
  <2> QED BY <2>1, NumberInduction
<1>7. PICK kept : kept = OnlyIn(s, T)
  OBVIOUS
<1>8. kept = g[n]
  BY <1>1, <1>2, <1>7, FoldIsOnlyIn DEF Goes
<1>9. Good(kept, n)
  BY <1>6, <1>8
<1>10. DOMAIN kept = 1..Len(kept)
  BY <1>9 DEF Good
<1>11. \A x : x \in Range(kept) <=> \E k \in 1..Len(kept) : kept[k] = x
  BY <1>10 DEF Range
<1>12. \A x : x \in Range(s) <=> \E a \in 1..n : s[a] = x
  BY <1>1 DEF Range
<1>13. \A x : x \in Range(kept) <=> x \in Range(s) /\ x \in T
  BY <1>9, <1>11, <1>12 DEF Good
<1> QED BY <1>1, <1>7, <1>9, <1>13 DEF Good

-----------------------------------------------------------------------------
(* The assets. *)

AssetInv == /\ recency \in Seq(Assets) /\ Distinct(recency)
            /\ loaded \subseteq Range(recency)

LEMMA UsedLastKeeps ==
    ASSUME AssetInv, NEW a \in Assets
    PROVE  /\ UsedLast(a) \in Seq(Assets) /\ Distinct(UsedLast(a))
           /\ loaded \cup {a} \subseteq Range(UsedLast(a))
<1>1. PICK kept : kept = OnlyIn(recency, Assets \ {a})
  OBVIOUS
<1>2. /\ kept \in Seq(Assets) /\ Distinct(kept)
      /\ \A x : x \in Range(kept) <=> x \in Range(recency) /\ x \in Assets \ {a}
  BY <1>1, OnlyInOrder DEF AssetInv
<1>3. PICK n \in Nat : n = Len(kept) /\ DOMAIN kept = 1..n
  BY <1>2
<1>4. PICK new : new = Append(kept, a)
  OBVIOUS
<1>5. /\ new \in Seq(Assets) /\ Len(new) = n + 1 /\ DOMAIN new = 1..(n + 1)
      /\ new[n + 1] = a /\ \A i \in 1..n : new[i] = kept[i]
  BY <1>2, <1>3, <1>4
<1>6. \A i \in 1..n : kept[i] \in Range(kept) /\ kept[i] # a
  BY <1>2, <1>3 DEF Range
<1>7. Distinct(new)
  <2>1. \A i, j \in 1..n : kept[i] = kept[j] => i = j
    BY <1>2, <1>3 DEF Distinct
  <2>2. \A i \in 1..(n + 1) : i \in 1..n \/ i = n + 1
    OBVIOUS
  <2> QED BY <1>5, <1>6, <2>1, <2>2 DEF Distinct
<1>8. Range(kept) \cup {a} \subseteq Range(new)
  <2>1. \A i \in 1..n : kept[i] = new[i] /\ i \in DOMAIN new
    BY <1>5
  <2>2. n + 1 \in DOMAIN new /\ new[n + 1] = a
    BY <1>5
  <2> QED BY <1>3, <2>1, <2>2 DEF Range
<1>9. loaded \subseteq Range(kept) \cup {a}
  <2>1. Range(recency) \subseteq Assets
    BY DEF AssetInv, Range
  <2> QED BY <1>2, <2>1 DEF AssetInv
<1>10. UsedLast(a) = new
  BY <1>1, <1>4 DEF UsedLast
<1> QED BY <1>5, <1>7, <1>8, <1>9, <1>10

LEMMA AssetInit == BudgetsInit => AssetInv
<1> SUFFICES ASSUME BudgetsInit PROVE AssetInv
  OBVIOUS
<1>1. recency = << >> /\ loaded = {}
  BY DEF BudgetsInit
<1> QED BY <1>1 DEF AssetInv, Distinct

LEMMA AssetNext == AssetInv /\ [BudgetsNext]_budgetVars => AssetInv'
<1> SUFFICES ASSUME AssetInv, [BudgetsNext]_budgetVars PROVE AssetInv'
  OBVIOUS
<1>1. ASSUME UNCHANGED recency, loaded' \subseteq loaded PROVE AssetInv'
  BY <1>1 DEF AssetInv, Distinct, Range
<1>2. ASSUME UNCHANGED assetVars PROVE AssetInv'
  BY <1>1, <1>2 DEF assetVars
<1>12. ASSUME NEW result, RefreshQueue(result) PROVE AssetInv'
  <2>1. UNCHANGED assetVars \/ MaybeTrimAssets
    BY <1>12 DEF RefreshQueue
  <2>2. MaybeTrimAssets => UNCHANGED recency /\ loaded' \subseteq loaded
    BY DEF MaybeTrimAssets, EvictLazyAssets
  <2> QED BY <1>1, <1>2, <2>1, <2>2
<1>3. CASE JobStep
  BY <1>2, <1>3 DEF JobStep, RegisterBudgetedJob, Submit, RegisterJob, MarkStarted,
                    MarkFinished, Listed
<1>4. CASE PollStep
  <2>1. ASSUME NEW t, Poll(t) PROVE AssetInv'
    <3>1. PICK result : RefreshQueue(result)
      BY <2>1 DEF Poll
    <3> QED BY <1>12, <3>1
  <2>2. ASSUME NEW t, PollWrites(t) PROVE AssetInv'
    BY <1>2, <2>2 DEF PollWrites
  <2> QED BY <1>4, <2>1, <2>2 DEF PollStep
<1>5. CASE RefreshBudgetQueue
  BY <1>5, <1>12 DEF RefreshBudgetQueue
<1>6. ASSUME NEW a \in Assets, RegisterAsset(a) PROVE AssetInv'
  <2>1. recency' = UsedLast(a) /\ loaded' = loaded \cup {a}
    BY <1>6 DEF RegisterAsset
  <2>2. PICK new : new = UsedLast(a)
    OBVIOUS
  <2>3. new \in Seq(Assets) /\ Distinct(new) /\ loaded \cup {a} \subseteq Range(new)
    BY <2>2, UsedLastKeeps
  <2> QED BY <2>1, <2>2, <2>3 DEF AssetInv, Distinct, Range
<1>7. CASE AssetStep
  <2>1. ASSUME NEW target, Evict(target) PROVE AssetInv'
    BY <1>1, <2>1 DEF Evict, EvictLazyAssets
  <2>2. CASE Snapshot
    BY <1>1, <2>2 DEF Snapshot, MaybeTrimAssets, EvictLazyAssets
  <2> QED BY <1>6, <1>7, <2>1, <2>2 DEF AssetStep, TouchAsset
<1>8. CASE IntervalPasses
  BY <1>2, <1>8 DEF IntervalPasses
<1>9. ASSUME NEW u \in Usages, Load(u) PROVE AssetInv'
  BY <1>2, <1>9 DEF Load
<1>10. ASSUME NEW l \in Limits, Configure(l) PROVE AssetInv'
  BY <1>2, <1>10 DEF Configure
<1>11. CASE UNCHANGED budgetVars
  BY <1>2, <1>11 DEF budgetVars
<1> QED BY <1>3, <1>4, <1>5, <1>7, <1>8, <1>9, <1>10, <1>11 DEF BudgetsNext

-----------------------------------------------------------------------------
(* What is evicted is the beginning of the list: it is as long as it has to *)
(* be for its sizes to reach the target, and no longer.                     *)

Begins(s, p) == {s[k] : k \in 1..p}

Enough(s, target, p) ==
    /\ Freed(Begins(s, p)) >= target \/ p = Len(s)
    /\ p > 0 => Freed(Begins(s, p - 1)) < target

LEMMA BeginsLonger ==
    ASSUME NEW s \in Seq(Assets), Distinct(s), NEW p \in 1..Len(s)
    PROVE  /\ Begins(s, p) = Begins(s, p - 1) \cup {s[p]} /\ s[p] \notin Begins(s, p - 1)
           /\ Freed(Begins(s, p)) = Freed(Begins(s, p - 1)) + Size[s[p]]
<1>1. PICK n \in Nat : n = Len(s) /\ DOMAIN s = 1..n
  OBVIOUS
<1>2. \A k \in 1..p : k \in 1..(p - 1) \/ k = p
  OBVIOUS
<1>3. \A k \in 1..(p - 1) : k \in 1..p /\ k \in 1..n /\ k # p
  BY <1>1
<1>4. Begins(s, p) = Begins(s, p - 1) \cup {s[p]}
  BY <1>2, <1>3 DEF Begins
<1>5. s[p] \notin Begins(s, p - 1)
  BY <1>1, <1>3 DEF Begins, Distinct
<1>6. IsFiniteSet(Begins(s, p - 1))
  <2>1. IsFiniteSet(1..(p - 1))
    BY FS_Interval
  <2>2. [k \in 1..(p - 1) |-> s[k]] \in Surjection(1..(p - 1), Begins(s, p - 1))
    BY DEF Begins, Surjection
  <2> QED BY <2>1, <2>2, FS_Surjection
<1>7. \A y \in Begins(s, p - 1) \cup {s[p]} : Size[y] \in Nat
  <2>1. \A k \in 1..n : s[k] \in Assets
    BY <1>1
  <2>2. Begins(s, p - 1) \cup {s[p]} \subseteq Assets
    BY <1>1, <1>3, <2>1 DEF Begins
  <2> QED BY <2>2, BudgetsAssumption
<1> QED BY <1>4, <1>5, <1>6, <1>7, SumAdd DEF Freed

LEMMA EvictedBegins ==
    ASSUME NEW target, target \in Nat, NEW n \in Nat,
           LeastRecent \in Seq(Assets), Distinct(LeastRecent), n = Len(LeastRecent)
    PROVE  \E p \in 0..n : Evicted(target) = Begins(LeastRecent, p)
                           /\ Enough(LeastRecent, target, p)
<1>1. PICK s \in Seq(Assets) : s = LeastRecent
  OBVIOUS
<1>2. DOMAIN s = 1..n /\ Len(s) = n /\ Distinct(s)
  BY <1>1
<1>3. PICK none : none = [freed |-> 0, gone |-> {}]
  OBVIOUS
<1>4. PICK g : Goes(g, "evict", target, none, s, n)
  BY <1>2, FoldSteps
<1>5. ASSUME NEW i \in 1..n
      PROVE  g[i] = IF g[i - 1].freed >= target THEN g[i - 1]
                    ELSE [freed |-> g[i - 1].freed + Size[s[i]], gone |-> g[i - 1].gone \cup {s[i]}]
  BY <1>4 DEF Step, Goes
<1> DEFINE Good(done, i) ==
               \E p \in 0..i : /\ done.gone = Begins(s, p) /\ done.freed = Freed(Begins(s, p))
                               /\ done.freed \in Nat
                               /\ p < i => done.freed >= target
                               /\ p > 0 => Freed(Begins(s, p - 1)) < target
           good == {i \in 0..n : Good(g[i], i)}
<1>6. 0 \in good
  <2>1. g[0] = none /\ 0 \in 0..n /\ 0 \in 0..0
    BY <1>4 DEF Goes
  <2>2. Begins(s, 0) = {}
    BY DEF Begins
  <2>3. Freed({}) = 0
    <3>1. IsFiniteSet({})
      BY FS_EmptySet
    <3> QED BY <3>1, SumOfNone DEF Freed
  <2>4. /\ none.gone = Begins(s, 0) /\ none.freed = Freed(Begins(s, 0))
        /\ none.freed \in Nat /\ ~ (0 < 0) /\ ~ (0 > 0)
    <3>1. none.gone = {} /\ none.freed = 0
      BY <1>3
    <3>2. Freed(Begins(s, 0)) = 0
      BY <2>2, <2>3
    <3>3. 0 \in Nat /\ ~ (0 < 0) /\ ~ (0 > 0)
      OBVIOUS
    <3> HIDE DEF Good
    <3> QED BY <2>2, <3>1, <3>2, <3>3
  <2>5. Good(none, 0)
    BY <2>1, <2>4
  <2> HIDE DEF Good
  <2> QED BY <2>1, <2>5
<1>7. ASSUME NEW i \in 1..n, i - 1 \in good PROVE i \in good
  <2>1. PICK old : old = g[i - 1]
    OBVIOUS
  <2>2. PICK p \in 0..(i - 1) :
           /\ old.gone = Begins(s, p) /\ old.freed = Freed(Begins(s, p))
           /\ old.freed \in Nat
           /\ p < i - 1 => old.freed >= target
           /\ p > 0 => Freed(Begins(s, p - 1)) < target
    BY <1>7, <2>1
  <2>3. i \in 0..n /\ p \in 0..i
    OBVIOUS
  <2>4. CASE old.freed >= target
    <3>1. g[i] = old
      BY <1>5, <2>1, <2>4
    <3>2. Good(old, i)
      BY <2>2, <2>3, <2>4
    <3> HIDE DEF Good
    <3> QED BY <2>3, <3>1, <3>2
  <2>5. CASE ~ (old.freed >= target)
    <3>1. PICK new : new = [freed |-> old.freed + Size[s[i]], gone |-> old.gone \cup {s[i]}]
      OBVIOUS
    <3>2. g[i] = new
      BY <1>5, <2>1, <2>5, <3>1
    <3>3. p = i - 1
      BY <2>2, <2>5
    <3>4. /\ Begins(s, i) = Begins(s, i - 1) \cup {s[i]}
          /\ Freed(Begins(s, i)) = Freed(Begins(s, i - 1)) + Size[s[i]]
      BY <1>2, BeginsLonger
    <3>5. Size[s[i]] \in Nat
      <4>1. s[i] \in Assets
        BY <1>2
      <4> QED BY <4>1, BudgetsAssumption
    <3>6. new.gone = Begins(s, i) /\ new.freed = Freed(Begins(s, i)) /\ new.freed \in Nat
      BY <2>2, <3>1, <3>3, <3>4, <3>5
    <3>7. Freed(Begins(s, i - 1)) < target
      BY <2>2, <2>5, <3>3
    <3>8. Good(new, i)
      <4>1. i \in 0..i /\ ~ (i < i)
        OBVIOUS
      <4> QED BY <3>6, <3>7, <4>1
    <3> HIDE DEF Good
    <3> QED BY <2>3, <3>2, <3>8
  <2> QED BY <2>4, <2>5
<1> HIDE DEF Good
<1>8. n \in good
  <2>1. Inductive(good, n)
    BY <1>6, <1>7 DEF Inductive
  <2> HIDE DEF good
  <2> QED BY <2>1, NumberInduction
<1>9. Good(g[n], n)
  BY <1>8
<1>10. Evicted(target) = g[n].gone
  BY <1>1, <1>2, <1>3, <1>4, FoldIsEvicted DEF Goes
<1> QED BY <1>1, <1>2, <1>9, <1>10 DEF Good, Enough

LEMMA EvictionOrder ==
    ASSUME AssetInv, NEW target \in Targets, Evict(target)
    PROVE  LET gone == loaded \ loaded'
               Earlier(a, b) == \E i, k \in DOMAIN recency :
                                  i < k /\ recency[i] = a /\ recency[k] = b
           IN  /\ \A a \in gone, b \in loaded' : Earlier(a, b)
               /\ Freed(gone) >= target \/ loaded' = {}
               /\ \A a \in gone : (\A b \in gone \ {a} : Earlier(b, a)) =>
                                      Freed(gone \ {a}) < target
<1> DEFINE Earlier(a, b) == \E i, k \in DOMAIN recency :
                              i < k /\ recency[i] = a /\ recency[k] = b
<1>1. target \in Nat
  BY BudgetsAssumption
<1>2. PICK m \in Nat : m = Len(recency) /\ DOMAIN recency = 1..m
  BY DEF AssetInv
<1>3. PICK s : s = LeastRecent
  OBVIOUS
<1>4. /\ s \in Seq(Assets) /\ Distinct(s) /\ InOrder(s, recency, m)
      /\ \A x : x \in Range(s) <=> x \in Range(recency) /\ x \in loaded
  BY <1>2, <1>3, OnlyInOrder DEF LeastRecent, AssetInv
<1>5. PICK n \in Nat : n = Len(s) /\ DOMAIN s = 1..n
  BY <1>4
<1>6. PICK p \in 0..n : Evicted(target) = Begins(s, p) /\ Enough(s, target, p)
  BY <1>1, <1>3, <1>4, <1>5, EvictedBegins
<1>7. \A x : x \in loaded <=> \E k \in 1..n : s[k] = x
  <2>1. \A x : x \in loaded <=> x \in Range(s)
    BY <1>4 DEF AssetInv
  <2>2. \A x : x \in Range(s) <=> \E k \in 1..n : s[k] = x
    BY <1>5 DEF Range
  <2> QED BY <2>1, <2>2
<1>8. loaded' = loaded \ Begins(s, p) /\ Begins(s, p) \subseteq loaded
  <2>1. \A k \in 1..p : k \in 1..n
    OBVIOUS
  <2>2. Begins(s, p) \subseteq loaded
    BY <1>7, <2>1 DEF Begins
  <2> QED BY <1>6, <2>2 DEF Evict, EvictLazyAssets
<1>9. loaded \ loaded' = Begins(s, p)
  BY <1>8
<1>10. \A k, l \in 1..n : k < l => Earlier(s[k], s[l])
  <2>1. \A k, l \in 1..n : k < l =>
           \E a, b \in 1..m : a < b /\ recency[a] = s[k] /\ recency[b] = s[l]
    BY <1>4, <1>5 DEF InOrder
  <2>2. ASSUME NEW k \in 1..n, NEW l \in 1..n, k < l PROVE Earlier(s[k], s[l])
    <3>1. PICK a \in 1..m, b \in 1..m : a < b /\ recency[a] = s[k] /\ recency[b] = s[l]
      BY <2>1, <2>2
    <3> QED BY <1>2, <3>1
  <2> HIDE DEF Earlier
  <2> QED BY <2>2
<1>11. ASSUME NEW a, NEW b, Earlier(a, b), Earlier(b, a) PROVE FALSE
  <2>1. PICK i \in 1..m, k \in 1..m : i < k /\ recency[i] = a /\ recency[k] = b
    BY <1>2, <1>11
  <2>2. PICK j \in 1..m, l \in 1..m : j < l /\ recency[j] = b /\ recency[l] = a
    BY <1>2, <1>11
  <2>3. i = l /\ k = j
    BY <1>2, <2>1, <2>2 DEF AssetInv, Distinct
  <2> QED BY <2>1, <2>2, <2>3
<1>12. \A k \in 1..p : k \in 1..n
  OBVIOUS
<1> HIDE DEF Earlier
<1>13. ASSUME NEW a \in Begins(s, p), NEW b \in loaded' PROVE Earlier(a, b)
  <2>1. PICK k \in 1..p : a = s[k]
    BY DEF Begins
  <2>2. PICK l \in 1..n : b = s[l]
    BY <1>7, <1>8
  <2>3. l \notin 1..p
    BY <1>8, <2>2 DEF Begins
  <2>4. k < l
    BY <2>3
  <2> QED BY <1>10, <1>12, <2>1, <2>2, <2>4
<1>14. Freed(Begins(s, p)) >= target \/ loaded' = {}
  <2>1. ASSUME p = n PROVE loaded' = {}
    BY <1>7, <1>8, <2>1 DEF Begins
  <2> QED BY <1>5, <1>6, <2>1 DEF Enough
<1>15. ASSUME NEW a \in Begins(s, p), \A b \in Begins(s, p) \ {a} : Earlier(b, a)
       PROVE  Freed(Begins(s, p) \ {a}) < target
  <2>1. PICK k \in 1..p : a = s[k]
    BY DEF Begins
  <2>2. p > 0 /\ p \in 1..p /\ p \in 1..n /\ p \in 1..Len(s)
    BY <1>5
  <2>3. k = p
    <3> SUFFICES ASSUME k # p PROVE FALSE
      OBVIOUS
    <3>1. k < p /\ k \in 1..n
      BY <1>12
    <3>2. Earlier(a, s[p])
      BY <1>10, <2>1, <2>2, <3>1
    <3>3. s[p] # a
      BY <1>4, <1>5, <2>1, <2>2, <3>1 DEF Distinct
    <3>4. s[p] \in Begins(s, p) \ {a}
      BY <2>2, <3>3 DEF Begins
    <3>5. Earlier(s[p], a)
      BY <1>15, <3>4
    <3> QED BY <1>11, <3>2, <3>5
  <2>4. Begins(s, p) = Begins(s, p - 1) \cup {s[p]} /\ s[p] \notin Begins(s, p - 1)
    BY <1>4, <2>2, BeginsLonger
  <2>5. Begins(s, p) \ {a} = Begins(s, p - 1)
    BY <2>1, <2>3, <2>4
  <2> QED BY <1>6, <2>2, <2>5 DEF Enough
<1> QED BY <1>9, <1>13, <1>14, <1>15 DEF Earlier

(* Eviction takes the assets that were used longest ago, enough of them or  *)
(* all, and none that was not needed: for any sizes, target and history of  *)
(* uses.                                                                    *)
THEOREM OldestEvicted == BudgetsSpec => EvictsOldestUntilFreed
<1> DEFINE Right == \A target \in Targets : Evict(target) =>
         LET gone == loaded \ loaded'
             Earlier(a, b) == \E i, k \in DOMAIN recency :
                                i < k /\ recency[i] = a /\ recency[k] = b
         IN  /\ \A a \in gone, b \in loaded' : Earlier(a, b)
             /\ Freed(gone) >= target \/ loaded' = {}
             /\ \A a \in gone : (\A b \in gone \ {a} : Earlier(b, a)) =>
                                    Freed(gone \ {a}) < target
<1>1. AssetInv /\ [BudgetsNext]_budgetVars => [Right]_budgetVars
  BY EvictionOrder
<1> QED BY <1>1, AssetInit, AssetNext, PTL DEF BudgetsSpec, EvictsOldestUntilFreed
=============================================================================
