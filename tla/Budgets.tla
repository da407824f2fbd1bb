------------------------------ MODULE Budgets ------------------------------
(***************************************************************************)
(* The performance budgets of perf/budgets.py, and the list of jobs that   *)
(* server/jobs_api.py keeps beside them.                                   *)
(*                                                                         *)
(* The manager does its work under one lock.  Nothing reads the order of   *)
(* its two queues: they are looked up, counted and have an id removed, so  *)
(* that how often an id is in them is all there is.  The routes of         *)
(* jobs_api run in threads and touch their list outside that lock.         *)
(***************************************************************************)
EXTENDS FiniteSets, Functions, Integers, Sequences, SequencesExt

CONSTANTS
    Jobs,
    Resources,    \* of "cpu", "ram" and "vram"
    Needs,        \* [Resources -> Nat]: what payloads ask for
    Usages,       \* [Resources -> Nat]: what the metrics may show
    Limits,       \* BudgetLimits that are applied, the first of them at the start
    FirstLimits,
    Assets,
    Size,         \* size_mb of every asset
    Targets,      \* target_mb of evictions that are asked for
    Pollers,      \* threads that serve GET /jobs/poll
    MaxTimes,     \* bound: how often each id is registered
    Together      \* bound: whether a behaviour has both jobs and assets

Metrics == [Resources -> Nat]

LimitsType == [budget : Metrics, running : Nat, depth : Nat, lazy : Nat]

ASSUME BudgetsAssumption ==
    /\ Resources \subseteq {"cpu", "ram", "vram"}
    /\ Needs \subseteq Metrics /\ Usages \subseteq Metrics
    /\ Limits \subseteq LimitsType /\ FirstLimits \in Limits
    /\ Size \in [Assets -> Nat] /\ Targets \subseteq Nat
    /\ IsFiniteSet(Jobs) /\ MaxTimes \in [Jobs -> Nat] /\ Together \in BOOLEAN

VARIABLES
    limits,
    usage,       \* what the metrics show
    recent,      \* the last evaluation is not evaluation_interval ago
    status,      \* of every job, "unknown" of those that were not registered
    need,
    queued, delayed,   \* how often each job is in these queues
    running,
    recency,     \* the registered assets, last used last
    loaded,
    items,       \* jobs_api's list: the status that it shows, or "absent"
    submitting,  \* what submit has been told and not listed yet, or "no"
    polls,       \* the transitions that each poll has yet to write down
    times        \* how often each job was registered

managerVars == << limits, status, need, queued, delayed, running >>
assetVars == << recency, loaded >>
listVars == << items, submitting, polls >>
budgetVars == << managerVars, usage, recent, assetVars, listVars, times >>

NoTransition == [j \in {} |-> "queued"]

BudgetsInit ==
    /\ limits = FirstLimits /\ usage \in Usages /\ recent = FALSE
    /\ status = [j \in Jobs |-> "unknown"]
    /\ need = [j \in Jobs |-> [r \in Resources |-> 0]]
    /\ queued = [j \in Jobs |-> 0] /\ delayed = [j \in Jobs |-> 0] /\ running = {}
    /\ recency = << >> /\ loaded = {}
    /\ items = [j \in Jobs |-> "absent"] /\ submitting = [j \in Jobs |-> "no"]
    /\ polls = [t \in Pollers |-> NoTransition]
    /\ times = [j \in Jobs |-> 0]

-----------------------------------------------------------------------------
(* Jobs *)

Length(queue) == SumFunction(queue)

Depth == Length(queued) + Length(delayed) + Cardinality(running)

Fits(n) == \A r \in Resources :
              limits.budget[r] = 0 \/ usage[r] + n[r] <= limits.budget[r]

(* Mutant: one more than the capacity. *)
Roomy_OneMore == /\ limits.depth = 0 \/ Depth <= limits.depth
                 /\ limits.running = 0 \/ Cardinality(running) < limits.running

(* Below the capacity and the cap on jobs, 0 meaning none; a job in one of  *)
(* the queues counts itself.                                                *)
Roomy == /\ limits.depth = 0 \/ Depth < limits.depth
         /\ limits.running = 0 \/ Cardinality(running) < limits.running

EvaluateJob(j, n) ==
    IF status[j] = "running" THEN "running"
    ELSE IF Roomy /\ Fits(n) THEN "queued" ELSE "delayed"

(* What is not queued goes to the delayed ones, a running job included. *)
RegisterJob(j, n, state) ==
    /\ Together \/ recency = << >>
    /\ times[j] < MaxTimes[j] /\ times' = [times EXCEPT ![j] = @ + 1]
    /\ state = EvaluateJob(j, n)
    /\ status' = [status EXCEPT ![j] = state]
    /\ need' = [need EXCEPT ![j] = n]
    /\ IF state = "queued"
       THEN queued' = [queued EXCEPT ![j] = @ + 1] /\ UNCHANGED delayed
       ELSE delayed' = [delayed EXCEPT ![j] = @ + 1] /\ UNCHANGED queued
    /\ UNCHANGED << limits, running, usage, recent, assetVars >>

(* deque.remove takes the first of them, if any. *)
Without(queue, j) == [queue EXCEPT ![j] = IF @ = 0 THEN 0 ELSE @ - 1]

MarkStarted(j) ==
    /\ status[j] \in {"queued", "delayed"}
    /\ status' = [status EXCEPT ![j] = "running"] /\ running' = running \cup {j}
    /\ IF queued[j] > 0 THEN queued' = Without(queued, j) /\ UNCHANGED delayed
       ELSE delayed' = Without(delayed, j) /\ UNCHANGED queued
    /\ UNCHANGED << limits, need, usage, recent, assetVars, listVars, times >>

(* complete, canceled or error: any string is stored as the status, and one *)
(* that says queued, running or delayed would undo what follows from it.    *)
MarkFinished(j) ==
    /\ status[j] # "unknown"
    /\ status' = [status EXCEPT ![j] = "finished"] /\ running' = running \ {j}
    /\ queued' = Without(queued, j) /\ delayed' = Without(delayed, j)
    /\ UNCHANGED << limits, need, usage, recent, assetVars, listVars, times >>

-----------------------------------------------------------------------------
(* Lazy assets *)

(* Those of assets that are in S, in their order. *)
OnlyIn(assets, S) ==
    FoldLeft(LAMBDA kept, a : IF a \in S THEN Append(kept, a) ELSE kept, << >>, assets)

(* Mutant: the asset that was used last goes first. *)
LeastRecent_Last == Reverse(OnlyIn(recency, loaded))

LeastRecent == OnlyIn(recency, loaded)

Evicted(target) ==
    FoldLeft(LAMBDA done, a : IF done.freed >= target THEN done
                              ELSE [freed |-> done.freed + Size[a], gone |-> done.gone \cup {a}],
             [freed |-> 0, gone |-> {}], LeastRecent).gone

EvictLazyAssets(target) == loaded' = loaded \ Evicted(target) /\ UNCHANGED recency

(* How far memory is over its budget, and the reserve on top of it. *)
TrimTarget ==
    LET over == {r \in Resources \ {"cpu"} :
                    limits.budget[r] # 0 /\ usage[r] > limits.budget[r]}
        excess == {usage[r] - limits.budget[r] + limits.lazy : r \in over}
    IN  IF limits.lazy = 0 \/ over = {} THEN 0
        ELSE CHOOSE x \in excess : \A y \in excess : y <= x

MaybeTrimAssets == EvictLazyAssets(TrimTarget)

UsedLast(a) == Append(OnlyIn(recency, Assets \ {a}), a)

RegisterAsset(a) ==
    /\ Together \/ \A j \in Jobs : times[j] = 0
    /\ recency' = UsedLast(a) /\ loaded' = loaded \cup {a}
    /\ UNCHANGED << managerVars, usage, recent, listVars, times >>

TouchAsset(a) == a \in Range(recency) /\ RegisterAsset(a)

Evict(target) ==
    /\ EvictLazyAssets(target)
    /\ UNCHANGED << managerVars, usage, recent, listVars, times >>

Snapshot == /\ MaybeTrimAssets
            /\ UNCHANGED << managerVars, usage, recent, listVars, times >>

-----------------------------------------------------------------------------
(* Evaluating what is delayed *)

Waiting == {j \in Jobs : delayed[j] > 0}

Skipped == recent /\ Waiting # {}

Transitions == [j \in Waiting |-> EvaluateJob(j, need[j])]

(* Mutant: a promoted job stays among the delayed ones. *)
Refreshed_Stays ==
    LET promoted == {j \in Waiting : Transitions[j] = "queued"}
    IN  /\ status' = [j \in Jobs |-> IF j \in Waiting THEN Transitions[j] ELSE status[j]]
        /\ queued' = [j \in Jobs |-> IF j \in promoted THEN queued[j] + 1 ELSE queued[j]]
        /\ UNCHANGED delayed

(* Jobs move one by one under the same metrics: how many wait or run does   *)
(* not change meanwhile.                                                    *)
Refreshed ==
    LET promoted == {j \in Waiting : Transitions[j] = "queued"}
    IN  /\ status' = [j \in Jobs |-> IF j \in Waiting THEN Transitions[j] ELSE status[j]]
        /\ queued' = [j \in Jobs |-> IF j \in promoted THEN queued[j] + delayed[j]
                                     ELSE queued[j]]
        /\ delayed' = [j \in Jobs |-> IF j \in promoted THEN 0 ELSE delayed[j]]

(* Mutant: an evaluation that was skipped counts as one. *)
RefreshQueue_Never(result) ==
    /\ recent' = TRUE /\ result = NoTransition
    /\ UNCHANGED << managerVars, usage, assetVars, times >>

RefreshQueue(result) ==
    /\ \/ /\ Skipped /\ result = NoTransition
          /\ UNCHANGED << recent, status, queued, delayed, assetVars >>
       \/ /\ ~Skipped /\ recent' = TRUE /\ result = Transitions
          /\ MaybeTrimAssets /\ Refreshed
    /\ UNCHANGED << limits, need, running, usage, times >>

(* POST /budgets/jobs/refresh; the list of jobs_api does not hear of it. *)
RefreshBudgetQueue == RefreshQueue(Transitions) /\ UNCHANGED listVars

Configure(l) == /\ limits' = l
                /\ UNCHANGED << status, need, queued, delayed, running, usage, recent,
                                assetVars, listVars, times >>

-----------------------------------------------------------------------------
(* server/jobs_api.py *)

RegisterBudgetedJob(j, n) ==
    \E state \in {"queued", "delayed", "running"} :
        RegisterJob(j, n, state) /\ UNCHANGED listVars

(* submit: the id is new. *)
Submit(j, n) ==
    /\ status[j] = "unknown" /\ submitting[j] = "no"
    /\ \E state \in {"queued", "delayed"} :
          /\ RegisterJob(j, n, state)
          /\ submitting' = [submitting EXCEPT ![j] = state]
    /\ UNCHANGED << items, polls >>

Listed(j) ==
    /\ submitting[j] # "no"
    /\ items' = [items EXCEPT ![j] = submitting[j]]
    /\ submitting' = [submitting EXCEPT ![j] = "no"]
    /\ UNCHANGED << managerVars, usage, recent, assetVars, polls, times >>

Poll(t) ==
    /\ polls[t] = NoTransition
    /\ \E result \in {NoTransition, Transitions} :
          RefreshQueue(result) /\ polls' = [polls EXCEPT ![t] = result]
    /\ UNCHANGED << items, submitting >>

(* What is not listed is passed over. *)
PollWrites(t) ==
    /\ polls[t] # NoTransition
    /\ items' = [j \in Jobs |-> IF j \in DOMAIN polls[t] /\ items[j] # "absent"
                                THEN polls[t][j] ELSE items[j]]
    /\ polls' = [polls EXCEPT ![t] = NoTransition]
    /\ UNCHANGED << managerVars, usage, recent, assetVars, submitting, times >>

-----------------------------------------------------------------------------
Load(u) == /\ usage' = u
           /\ UNCHANGED << managerVars, recent, assetVars, listVars, times >>

IntervalPasses == /\ recent /\ recent' = FALSE
                  /\ UNCHANGED << managerVars, usage, assetVars, listVars, times >>

JobStep == \E j \in Jobs : \/ \E n \in Needs : RegisterBudgetedJob(j, n) \/ Submit(j, n)
                           \/ MarkStarted(j) \/ MarkFinished(j) \/ Listed(j)

PollStep == \E t \in Pollers : Poll(t) \/ PollWrites(t)

AssetStep == \/ \E a \in Assets : RegisterAsset(a) \/ TouchAsset(a)
             \/ \E target \in Targets : Evict(target)
             \/ Snapshot

BudgetsNext ==
    \/ JobStep \/ PollStep \/ RefreshBudgetQueue \/ AssetStep \/ IntervalPasses
    \/ \E u \in Usages : Load(u)
    \/ \E l \in Limits : Configure(l)

BudgetsSpec == BudgetsInit /\ [][BudgetsNext]_budgetVars

(* Time passes, and somebody keeps polling. *)
LiveBudgetsSpec ==
    BudgetsSpec /\ WF_budgetVars(IntervalPasses) /\ WF_budgetVars(PollStep)

-----------------------------------------------------------------------------
Statuses == {"unknown", "queued", "delayed", "running", "finished"}

BudgetsTypeOK ==
    /\ limits \in LimitsType /\ usage \in Metrics /\ recent \in BOOLEAN
    /\ status \in [Jobs -> Statuses] /\ need \in [Jobs -> Metrics]
    /\ queued \in [Jobs -> Nat] /\ delayed \in [Jobs -> Nat] /\ times \in [Jobs -> Nat]
    /\ running = {j \in Jobs : status[j] = "running"}
    /\ loaded \subseteq Assets
    /\ items \in [Jobs -> {"absent", "queued", "delayed", "running"}]
    /\ submitting \in [Jobs -> {"no", "queued", "delayed"}]
    /\ \A t \in Pollers : /\ DOMAIN polls[t] \subseteq Jobs
                          /\ Range(polls[t]) \subseteq {"queued", "delayed", "running"}

(* A job that is registered once is in the queue that its status names and  *)
(* nowhere else; a running or finished one is in none, and never comes back,*)
(* given that callers finish jobs with one of the statuses that the         *)
(* documentation names.                                                     *)
WhereItsStatusSays ==
    \A j \in Jobs : times[j] = 1 =>
        /\ queued[j] = (IF status[j] = "queued" THEN 1 ELSE 0)
        /\ delayed[j] = (IF status[j] = "delayed" THEN 1 ELSE 0)

(* Whatever is registered again, started and finished in whatever order: a  *)
(* job that waits is in a queue, and a job has no more places than it was   *)
(* registered, the one where it runs included.                              *)
PlacesAreOwed ==
    \A j \in Jobs :
        /\ status[j] \in {"queued", "delayed"} => queued[j] + delayed[j] > 0
        /\ queued[j] + delayed[j] + (IF j \in running THEN 1 ELSE 0) <= times[j]

(* The queue never gets longer than the largest capacity that may be        *)
(* configured: registering counts what is there before the job, refreshing  *)
(* counts the job itself.                                                   *)
QueueWithinCapacity ==
    (\A l \in Limits : l.depth # 0) =>
        \E l \in Limits : Length(queued) <= l.depth

(* What the list shows as queued is not delayed, if it was registered once, *)
(* however polls overtake each other: only the other way round it is late.  *)
ListedQueuedIsNotDelayed ==
    \A j \in Jobs : times[j] = 1 /\ items[j] = "queued" => status[j] # "delayed"

(* The queues, the running set, the statuses and the list agree.            *)
QueuesSound ==
    BudgetsTypeOK /\ PlacesAreOwed /\ WhereItsStatusSays /\ ListedQueuedIsNotDelayed

(* What is evicted was used before what is kept; it is enough, or all there *)
(* is; and the last of it was needed.                                       *)
Freed(gone) == SumFunctionOnSet(Size, gone)

EvictsOldestUntilFreed ==
    [][\A target \in Targets : Evict(target) =>
         LET gone == loaded \ loaded'
             Before(a, b) == \E i, k \in DOMAIN recency :
                                i < k /\ recency[i] = a /\ recency[k] = b
         IN  /\ \A a \in gone, b \in loaded' : Before(a, b)
             /\ Freed(gone) >= target \/ loaded' = {}
             /\ \A a \in gone : (\A b \in gone \ {a} : Before(b, a)) =>
                                    Freed(gone \ {a}) < target]_budgetVars

Calm(j) == Roomy /\ Fits(need[j]) /\ times[j] = 1

(* A delayed job is promoted, started or finished if from some time on      *)
(* there is room for it; at the capacity it waits for ever, for it is part  *)
(* of what fills it.                                                        *)
PromotedWhenCalm == \A j \in Jobs : <>[]Calm(j) => <>[](status[j] # "delayed")
=============================================================================
