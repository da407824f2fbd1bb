---------------------------- MODULE PriorityLine ----------------------------
(***************************************************************************)
(* What a scheduler of jobs promises to callers that keep its rules: one   *)
(* line of waiting jobs per queue, by priority and then by arrival; only   *)
(* the first of a line is started, by one worker, and it stays that        *)
(* worker's until the worker ends it or goes away; a job ends once for     *)
(* each time it was put in line.  kept turns FALSE when a caller breaks    *)
(* the rules: nothing is promised from then on.                            *)
(***************************************************************************)
EXTENDS Naturals

CONSTANTS Ids, Workers, Queues, Priorities, Idle

VARIABLES
    place,    \* of each waiting job: its queue, priority and arrival
    runs,     \* of each worker: the job it runs, or Idle
    known,    \* the jobs that were submitted
    ended,    \* those that have ended since they were last put in line
    kept      \* the callers kept the rules so far

lineVars == << place, runs, known, ended, kept >>

Place == [queue : Queues, priority : Priorities, arrival : Nat]

Ahead(p, r) == \/ p.priority > r.priority
               \/ p.priority = r.priority /\ p.arrival < r.arrival

Waiting == DOMAIN place
Running(j) == \E w \in Workers : runs[w] = j

(* j gets a place that arrives after all the places of those who wait. *)
Joins(j) ==
    /\ DOMAIN place' = Waiting \cup {j}
    /\ \A k \in Waiting \ {j} : /\ place'[k] = place[k]
                                /\ place[k].arrival < place'[j].arrival
    /\ place'[j] \in Place

StepsOut(j) == place' = [k \in Waiting \ {j} |-> place[k]]

Submit(j) == /\ j \notin known
             /\ Joins(j)
             /\ known' = known \cup {j}
             /\ UNCHANGED << runs, ended >>

First(j) == /\ j \in Waiting
            /\ \A k \in Waiting \ {j} :
                   place[k].queue = place[j].queue => Ahead(place[j], place[k])

Start(j, w) == /\ First(j)
               /\ runs[w] = Idle
               /\ StepsOut(j)
               /\ runs' = [runs EXCEPT ![w] = j]
               /\ UNCHANGED << known, ended >>

Finish(j, w) == /\ runs[w] = j
                /\ runs' = [runs EXCEPT ![w] = Idle]
                /\ ended' = ended \cup {j}
                /\ UNCHANGED << place, known >>

(* A worker goes away with its job. *)
Lose(w) == /\ runs' = [runs EXCEPT ![w] = Idle]
           /\ UNCHANGED << place, known, ended >>

(* Somebody ends a job that nobody runs, or puts it in line again. *)
Cancel(j) == /\ j \in known \ ended
             /\ ~Running(j)
             /\ StepsOut(j)
             /\ ended' = ended \cup {j}
             /\ UNCHANGED << runs, known >>

PutBack(j) == /\ j \in known \ Waiting
              /\ ~Running(j)
              /\ Joins(j)
              /\ ended' = ended \ {j}
              /\ UNCHANGED << runs, known >>

LineInit == /\ place = [j \in {} |-> 0]
            /\ runs = [w \in Workers |-> Idle]
            /\ known = {} /\ ended = {}
            /\ kept = TRUE

Promised == \/ \E j \in Ids : Submit(j) \/ Cancel(j) \/ PutBack(j)
            \/ \E w \in Workers : Lose(w)
            \/ \E j \in Ids, w \in Workers : Start(j, w) \/ Finish(j, w)

LineNext == IF kept THEN ~kept' \/ (kept' /\ Promised) ELSE ~kept'

LineSpec == LineInit /\ [][LineNext]_lineVars
=============================================================================
