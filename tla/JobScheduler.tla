---------------------------- MODULE JobScheduler ----------------------------
(***************************************************************************)
(* The compute scheduler of comfyvn/compute/scheduler.py with the workers  *)
(* and operators that reach it over /api/schedule: a table of jobs, and    *)
(* for each queue a heap of (priority, sequence, id) entries that are not  *)
(* removed when their job changes: claim pops the heap until the entry it  *)
(* pops is of a job that is queued.  Every method runs under one lock.     *)
(*                                                                         *)
(* Times, costs, byte counts and the history of ended jobs are left out,   *)
(* and "ended" stands for every status that is neither "queued" nor        *)
(* "running": "succeeded", "failed", and whatever else complete is given.  *)
(***************************************************************************)
EXTENDS Integers

CONSTANTS
    Ids,          \* job ids
    Queues,       \* "local" and "remote"
    Priorities,   \* priorities of jobs
    Devices,      \* devices of workers and of hints
    Workers,      \* processes that claim jobs and end them
    Requests,     \* what enqueue is called with
    DeviceOf,     \* the device a worker names when it claims, or None
    None,         \* Python's None; also what an idle worker holds
    MaxSeq        \* bound: how often a job enters a queue

ASSUME SchedulerAssumption ==
    /\ None \notin Ids /\ None \notin Devices
    /\ Priorities \subseteq Int
    /\ Requests \subseteq [id : Ids, queue : Queues, priority : Priorities,
                           sticky : BOOLEAN, hint : Devices \cup {None}]
    /\ DeviceOf \in [Workers -> Devices \cup {None}]
    /\ MaxSeq \in Nat

VARIABLES
    jobs,      \* _jobs: job id to job
    heap,      \* _queues: of each queue, the set of its entries
    active,    \* _active
    seq,       \* _seq
    holds,     \* the job each worker is working on, or None
    careful,   \* no caller has broken the rules of PriorityLine so far
    astray     \* jobs that complete left with a status that is not final, or
               \* half done, and that nobody has put right since

schedVars == << jobs, heap, active, seq, holds, careful, astray >>

JobStatuses == {"queued", "running", "ended"}

Job == [queue : Queues, priority : Priorities, sticky : BOOLEAN,
        hint : Devices \cup {None}, device : Devices \cup {None},
        status : JobStatuses]

Entry == [priority : Priorities, seq : 1..MaxSeq, id : Ids]

(* Mutant: the last of equal priority goes first. *)
Before_LastIn(e, f) == \/ e.priority > f.priority
                       \/ e.priority = f.priority /\ e.seq > f.seq

(* The order of the tuples (-priority, seq, id): seq is never the same twice. *)
Before(e, f) == \/ e.priority > f.priority
                \/ e.priority = f.priority /\ e.seq < f.seq

Known(id) == id \in DOMAIN jobs
Queued(id) == Known(id) /\ jobs[id].status = "queued"
RunningJob(id) == Known(id) /\ jobs[id].status = "running"
Ended(id) == Known(id) /\ jobs[id].status = "ended"

Held(id) == \E w \in Workers : holds[w] = id
InHeap(id) == \E q \in Queues : \E e \in heap[q] : e.id = id

Push(q, p, id) ==
    /\ seq < MaxSeq
    /\ seq' = seq + 1
    /\ heap' = [heap EXCEPT
         ![q] = @ \cup {[priority |-> p, seq |-> seq + 1, id |-> id]}]

WithJob(id, job) ==
    [k \in DOMAIN jobs \cup {id} |-> IF k = id THEN job ELSE jobs[k]]

(* An id that is in the table already gets a new job in its place; neither  *)
(* its entries nor its mark in _active are removed.                         *)
Enqueue(r) ==
    /\ jobs' = WithJob(r.id, [queue |-> r.queue, priority |-> r.priority,
                              sticky |-> r.sticky, hint |-> r.hint,
                              device |-> r.hint, status |-> "queued"])
    /\ Push(r.queue, r.priority, r.id)
    /\ careful' = (careful /\ ~Known(r.id))
    /\ astray' = astray \ {r.id}
    /\ UNCHANGED << active, holds >>

(* A sticky job stays on its first device, and any other goes where the     *)
(* worker is, if the worker says so.                                        *)
Claimed(job, d) ==
    [job EXCEPT !.status = "running",
                !.hint = IF job.sticky /\ @ = None THEN d ELSE @,
                !.device = IF job.sticky /\ job.hint # None THEN job.hint
                           ELSE IF d # None THEN d ELSE @]

(* Mutant: only the first entry of the heap is looked at. *)
Claim_TopOnly(w, q) ==
    /\ holds[w] = None
    /\ \E e \in heap[q] :
         /\ Queued(e.id)
         /\ \A f \in heap[q] : f = e \/ Before(e, f)
         /\ jobs' = WithJob(e.id, Claimed(jobs[e.id], DeviceOf[w]))
         /\ heap' = [heap EXCEPT ![q] = @ \ {e}]
         /\ active' = active \cup {e.id}
         /\ holds' = [holds EXCEPT ![w] = e.id]
         /\ astray' = astray \ {e.id}
    /\ UNCHANGED << seq, careful >>

(* The first entry whose job is queued; all before it are popped and gone.  *)
Claim(w, q) ==
    /\ holds[w] = None
    /\ \E e \in heap[q] :
         /\ Queued(e.id)
         /\ \A f \in heap[q] : Queued(f.id) => f = e \/ Before(e, f)
         /\ jobs' = WithJob(e.id, Claimed(jobs[e.id], DeviceOf[w]))
         /\ heap' = [heap EXCEPT ![q] = {f \in @ : Before(e, f)}]
         /\ active' = active \cup {e.id}
         /\ holds' = [holds EXCEPT ![w] = e.id]
         /\ astray' = astray \ {e.id}
    /\ UNCHANGED << seq, careful >>

(* No entry is of a queued job: claim empties the heap and returns None. *)
ClaimNothing(w, q) ==
    /\ holds[w] = None
    /\ heap[q] # {}
    /\ \A e \in heap[q] : ~Queued(e.id)
    /\ heap' = [heap EXCEPT ![q] = {}]
    /\ UNCHANGED << jobs, active, seq, holds, careful, astray >>

(* Mutant: the job stays in _active. *)
Requeue_KeepsActive(id, p) ==
    /\ Known(id) /\ ~Queued(id)
    /\ jobs' = WithJob(id, [jobs[id] EXCEPT !.status = "queued",
                                            !.priority = p])
    /\ Push(jobs[id].queue, p, id)
    /\ careful' = (careful /\ ~Held(id) /\ ~InHeap(id))
    /\ astray' = astray \ {id}
    /\ UNCHANGED << active, holds >>

(* Jobs that run or have ended go back to their queue, for anybody who asks *)
(* for it; the worker of a job that runs is not told.                       *)
Requeue(id, p) ==
    /\ Known(id) /\ ~Queued(id)
    /\ jobs' = WithJob(id, [jobs[id] EXCEPT !.status = "queued",
                                            !.priority = p])
    /\ Push(jobs[id].queue, p, id)
    /\ active' = active \ {id}
    /\ careful' = (careful /\ ~Held(id) /\ ~InHeap(id))
    /\ astray' = astray \ {id}
    /\ UNCHANGED holds

(* fail, and complete with a final status, whatever the job was doing. *)
End(id) ==
    /\ Known(id)
    /\ jobs' = WithJob(id, [jobs[id] EXCEPT !.status = "ended"])
    /\ active' = active \ {id}
    /\ astray' = astray \ {id}
    /\ UNCHANGED << heap, seq >>

(* A worker ends the job it works on, ... *)
WorkerEnds(w) ==
    /\ End(holds[w])
    /\ holds' = [holds EXCEPT ![w] = None]
    /\ UNCHANGED careful

(* ... goes away with it, ... *)
WorkerLost(w) ==
    /\ holds[w] # None
    /\ holds' = [holds EXCEPT ![w] = None]
    /\ UNCHANGED << jobs, heap, active, seq, careful, astray >>

(* ... or somebody else ends it. *)
OperatorEnds(id) ==
    /\ End(id)
    /\ careful' = (careful /\ ~Held(id) /\ ~Ended(id))
    /\ UNCHANGED holds

(* complete with a status that is not final, which it stores as it is, or    *)
(* with a byte count that int() refuses, which it finds after the status is *)
(* stored and before the job leaves _active.                                *)
EndsAstray(id, status, raises) ==
    /\ Known(id)
    /\ raises \/ status # "ended"
    /\ jobs' = WithJob(id, [jobs[id] EXCEPT !.status = status])
    /\ active' = IF raises THEN active ELSE active \ {id}
    /\ careful' = FALSE
    /\ astray' = astray \cup {id}
    /\ UNCHANGED << heap, seq, holds >>

SchedInit == /\ jobs = [id \in {} |-> 0]
             /\ heap = [q \in Queues |-> {}]
             /\ active = {}
             /\ seq = 0
             /\ holds = [w \in Workers |-> None]
             /\ careful = TRUE
             /\ astray = {}

WorkerStep(w) ==
    \/ \E q \in Queues : Claim(w, q) \/ ClaimNothing(w, q)
    \/ WorkerEnds(w)

SchedNext ==
    \/ \E r \in Requests : Enqueue(r)
    \/ \E w \in Workers : WorkerStep(w) \/ WorkerLost(w)
    \/ \E id \in Ids :
         \/ OperatorEnds(id)
         \/ \E p \in Priorities : Requeue(id, p)
         \/ \E status \in JobStatuses, raises \in BOOLEAN : EndsAstray(id, status, raises)

SchedSpec == SchedInit /\ [][SchedNext]_schedVars

(* A worker that has a job ends it or is lost, and somebody serves each queue: *)
(* nothing is assumed of those who enqueue, end and put back jobs.            *)
LiveSchedSpec ==
    /\ SchedSpec
    /\ \A w \in Workers : WF_schedVars(WorkerLost(w) \/ WorkerEnds(w))
    /\ \A q \in Queues : SF_schedVars(\E w \in Workers : Claim(w, q) \/ ClaimNothing(w, q))

-----------------------------------------------------------------------------
TypeOK ==
    /\ \E S \in SUBSET Ids : jobs \in [S -> Job]
    /\ heap \in [Queues -> SUBSET Entry]
    /\ active \subseteq Ids
    /\ seq \in 0..MaxSeq
    /\ holds \in [Workers -> Ids \cup {None}]
    /\ careful \in BOOLEAN
    /\ astray \subseteq Ids

(* Entries are popped lazily and thrown away when their job is not queued at *)
(* that moment; yet a queued job always has an entry with its priority in   *)
(* the heap of its own queue, so that it cannot be forgotten.  The exception *)
(* is a job that complete was told is "queued", until it is enqueued again,  *)
(* ended or, by an entry that was left, claimed.                            *)
QueuedIsReachable ==
    \A id \in Ids \ astray : Queued(id) =>
        \E e \in heap[jobs[id].queue] :
            e.id = id /\ e.priority = jobs[id].priority

(* The board shows every running job as active, but for one that complete    *)
(* was told is "running"; and, as long as callers are careful, no other job. *)
BoardIsTrue ==
    /\ \A id \in Ids \ astray : RunningJob(id) => id \in active
    /\ careful => \A id \in active : RunningJob(id)

(* The table, the heaps with their stale entries and the active set agree.  *)
BoardSound == TypeOK /\ QueuedIsReachable /\ BoardIsTrue

(* A sticky job that has been on a device is started on that device for as  *)
(* long as it is the same job: also after it failed, was lost or requeued.  *)
StickyStays ==
    [][\A id \in DOMAIN jobs :
         /\ jobs[id].sticky /\ jobs[id].hint # None
         /\ ~\E r \in Requests : r.id = id /\ Enqueue(r)
         => /\ jobs'[id].hint = jobs[id].hint
            /\ jobs'[id].status = "running" => jobs'[id].device = jobs[id].hint]_schedVars

(* What can keep a queued job waiting: its queue gets an entry of a higher   *)
(* priority, or the job itself is enqueued again.                           *)
Overtaken(id) ==
    \E q \in Queues : \E e \in heap'[q] \ heap[q] :
        \/ e.id = id
        \/ Known(id) /\ q = jobs[id].queue /\ e.priority > jobs[id].priority

(* A queued job is claimed, ended or replaced in the end, behind whatever    *)
(* stale entries and jobs of its priority, unless it is overtaken again and  *)
(* again: jobs of a low priority wait for ever if higher ones keep coming.   *)
QueuedIsServed ==
    \A id \in Ids :
        <>[](Queued(id) /\ id \notin astray) => []<><<Overtaken(id)>>_schedVars

(* The entry of a queued job that counts: the last one pushed. *)
LastEntry(id) ==
    CHOOSE e \in heap[jobs[id].queue] :
        /\ e.id = id
        /\ \A f \in heap[jobs[id].queue] : f.id = id => f.seq <= e.seq

PlaceOf(id) == [queue |-> jobs[id].queue, priority |-> LastEntry(id).priority,
                arrival |-> LastEntry(id).seq]

QueuedIds == {id \in DOMAIN jobs : Queued(id)}
EndedIds == {id \in DOMAIN jobs : Ended(id)}

Line == INSTANCE PriorityLine WITH
    Idle <- None,
    place <- [id \in QueuedIds |-> PlaceOf(id)],
    runs <- holds,
    known <- DOMAIN jobs,
    ended <- EndedIds,
    kept <- careful

(* For careful callers the heaps with their stale entries are one line for  *)
(* each queue: strictly by priority, first come first served within it, and *)
(* a job has one worker at a time and ends once for each time in line.      *)
ImplementsPriorityLine == Line!LineSpec
=============================================================================
