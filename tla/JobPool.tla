------------------------------ MODULE JobPool ------------------------------
(***************************************************************************)
(* What the scheduler promises its user (doc/scheduler.md): jobs are         *)
(* started in the order they were scheduled, each on a block of ranks that   *)
(* no other running job holds; a running job is answered once, its ranks     *)
(* become free, and its answer waits to be popped.  How ranks learn of jobs  *)
(* and how answers travel is left to Scheduler, which implements this.       *)
(***************************************************************************)
EXTENDS Integers, Sequences

CONSTANTS
    FirstRank, LastRank,  \* the ranks that run jobs
    MaxJobs,              \* bound: jobs ever scheduled
    Sizes                 \* how many ranks a job may ask for

Ranks == FirstRank .. LastRank

VARIABLES
    scheduled,  \* how many jobs have been scheduled
    waiting,    \* those not started: a queue of [id, size]
    running,    \* id -> the ranks that hold it
    answered,   \* answers not yet popped, by id
    popped      \* answers handed out, by id

poolVars == <<scheduled, waiting, running, answered, popped>>

PoolInit ==
    /\ scheduled = 0 /\ waiting = <<>> /\ answered = <<>> /\ popped = <<>>
    /\ running = [id \in {} |-> {}]

Submit(n) ==
    /\ scheduled < MaxJobs
    /\ waiting' = Append(waiting, [id |-> scheduled, size |-> n])
    /\ scheduled' = scheduled + 1
    /\ UNCHANGED <<running, answered, popped>>

Free == Ranks \ UNION {running[id] : id \in DOMAIN running}

Start(first) ==
    /\ waiting # <<>>
    /\ LET job   == Head(waiting)
           block == first .. first + job.size - 1
       IN /\ block \subseteq Free
          /\ running' = [id \in DOMAIN running \cup {job.id} |->
                           IF id = job.id THEN block ELSE running[id]]
    /\ waiting' = Tail(waiting)
    /\ UNCHANGED <<scheduled, answered, popped>>

Complete(id) ==
    /\ id \in DOMAIN running
    /\ running' = [i \in DOMAIN running \ {id} |-> running[i]]
    /\ answered' = Append(answered, id)
    /\ UNCHANGED <<scheduled, waiting, popped>>

Take ==
    /\ answered # <<>>
    /\ popped' = Append(popped, Head(answered))
    /\ answered' = Tail(answered)
    /\ UNCHANGED <<scheduled, waiting, running>>

StartFront == \E first \in Ranks : Start(first)

PoolNext ==
    \/ \E n \in Sizes : Submit(n)
    \/ StartFront \/ Take
    \/ \E id \in 0 .. MaxJobs - 1 : Complete(id)

PoolSpec == PoolInit /\ [][PoolNext]_poolVars

\* the front job starts once a block is free, started jobs are answered, and
\* answers are popped
FairPoolSpec ==
    /\ PoolSpec
    /\ WF_poolVars(StartFront) /\ WF_poolVars(Take)
    /\ \A id \in 0 .. MaxJobs - 1 : WF_poolVars(Complete(id))
=============================================================================
