----------------------------- MODULE Scheduler -----------------------------
(***************************************************************************)
(* The job scheduler of include/henson/scheduler.hpp: rank 0 of the world   *)
(* communicator keeps a queue of jobs, hands each to a contiguous block of  *)
(* worker ranks, and collects the answers; every worker sits in listen().   *)
(*                                                                          *)
(* Ranks exchange point-to-point MPI messages, which do not overtake each   *)
(* other between one sender and one receiver: one sequence per worker and   *)
(* direction.  MPI_Send may return as soon as it has copied the message     *)
(* (Buffered) or only when the receiver has taken it.                       *)
(***************************************************************************)
EXTENDS Integers, Sequences, FiniteSets

CONSTANTS
    Size,             \* ranks of the world communicator (size_)
    ControllerRanks,  \* controller_ranks_; rank 0 drives, the others only wait
    MaxJobs,          \* bound: how many jobs the controller's script schedules
    Functions,        \* what can be scheduled: how many ranks a job asks for,
                      \* which of its local ranks return a value, and what the
                      \* remaining ones return
    Silent,           \* kinds of return value the runner leaves unsent:
                      \* {"bool"} in listen_chai, {"none"} in the Python _listen
    Script,           \* how the controller's script loops around control()
    Buffered          \* whether MPI_Send copies or waits for the receiver

Procs   == 0 .. Size - 1
Others  == 1 .. Size - 1
Workers == ControllerRanks .. Size - 1
Ids     == 0 .. MaxJobs - 1
Kinds   == {"value", "none", "bool"}

ASSUME SizeAssumption ==
    /\ Size \in Nat /\ ControllerRanks \in 1 .. Size
    /\ MaxJobs \in Nat
ASSUME FunctionsAssumption ==
    \A f \in Functions : /\ f = [size |-> f.size, by |-> f.by, rest |-> f.rest]
                         /\ f.size \in Nat \ {0}
                         /\ f.by \subseteq 0 .. f.size - 1
                         /\ f.rest \in Kinds
ASSUME ModeAssumption ==
    /\ Silent \subseteq Kinds
    /\ Script \in {"poll", "any", "early"}
    /\ Buffered \in BOOLEAN

Job    == [id : Ids, fn : Functions]
Task   == [tag : {"job"}, first : Others, last : Others, job : Job]
Stop   == [tag |-> "stop"]
Idle   == [tag |-> "idle"]
Answer == [id : Ids, kind : Kinds]

VARIABLES
    ctl,        \* where rank 0 is: its script or one of the loops below
    posted,     \* rank 0 is inside MPI_Send: the message is on its way
    cursor,     \* the rank i of the loop in run_job() or signal_stop()
    current,    \* the job run_job() is sending out, with its block of ranks
    jobs,       \* jobs_
    nextId,     \* job_id_
    active,     \* active_jobs_: id -> [first, last]
    available,  \* available_procs_: the ranks whose entry is true
    results,    \* results_
    popped,     \* what the script has popped from results_, in order
    inbox,      \* messages from rank 0 to each other rank
    answers,    \* job_finished messages from each worker to rank 0
    pc,         \* where each worker is in listen()
    task,       \* the assignment a worker is carrying out
    entered     \* id -> ranks that called non_collective_comm_create for it

ctlVars    == <<ctl, posted, cursor, current>>
poolVars   == <<jobs, nextId, active, available>>
resultVars == <<results, popped>>
workerVars == <<pc, task, entered>>
vars == <<ctlVars, poolVars, resultVars, inbox, answers, workerVars>>

TypeOK ==
    /\ ctl \in {"body", "check", "dispatch", "send", "finish", "finishCheck",
                "stop", "after", "done"}
    /\ posted \in BOOLEAN
    /\ cursor \in 0 .. Size
    /\ current \in Task \cup {Idle}
    /\ jobs \in Seq(Job)
    /\ nextId \in 0 .. MaxJobs
    /\ DOMAIN active \subseteq Ids
    /\ active \in [DOMAIN active -> [first : Others, last : Others]]
    /\ available \subseteq Procs
    /\ results \in Seq(Answer)
    /\ popped \in Seq(Answer)
    /\ inbox \in [Others -> Seq(Task \cup {Stop})]
    /\ answers \in [Workers -> Seq(Answer)]
    /\ pc \in [Workers -> {"listen", "join", "run", "reply", "done"}]
    /\ task \in [Workers -> Task \cup {Idle}]
    /\ entered \in [Ids -> SUBSET Workers]

(***************************************************************************)
(* The constructor: all ranks but the controllers' are available.           *)
(***************************************************************************)
Init ==
    /\ ctl = "body" /\ posted = FALSE /\ cursor = 0 /\ current = Idle
    /\ jobs = <<>> /\ nextId = 0
    /\ active = [id \in {} |-> Idle]
    /\ available = Workers
    /\ results = <<>> /\ popped = <<>>
    /\ inbox = [r \in Others |-> <<>>]
    /\ answers = [w \in Workers |-> <<>>]
    /\ pc = [w \in Workers |-> "listen"]
    /\ task = [w \in Workers |-> Idle]
    /\ entered = [id \in Ids |-> {}]

-----------------------------------------------------------------------------
(* The controller's script                                                  *)

\* (a mutant: the newest job goes first)
Enqueue_Front(j) == <<j>> \o jobs

\* jobs_.emplace()
Enqueue(j) == Append(jobs, j)

\* schedule(): the job goes to the back of the queue with the next id
Schedule ==
    /\ ctl = "body" /\ nextId < MaxJobs
    /\ \E f \in Functions : jobs' = Enqueue([id |-> nextId, fn |-> f])
    /\ nextId' = nextId + 1
    /\ UNCHANGED <<ctlVars, active, available, resultVars, inbox, answers,
                   workerVars>>

\* (a mutant: jobs that are running do not count)
Unfinished_Never == FALSE

\* unfinished_jobs()
Unfinished == active # [id \in {} |-> Idle]

\* the loop body pops one result if there is any, and the loop condition calls
\* control() again; scripts that pop after finish() (script "any") may leave results
\* where they are, as long as control() has something to do
CallControl ==
    /\ ctl = "body"
    /\ \/ /\ results # <<>>
          /\ popped' = Append(popped, Head(results))
          /\ results' = Tail(results)
       \/ /\ results = <<>> \/ (Script = "any" /\ (Unfinished \/ jobs # <<>>))
          /\ UNCHANGED resultVars
    /\ ctl' = "check"
    /\ UNCHANGED <<posted, cursor, current, poolVars, inbox, answers, workerVars>>

\* a script may call finish() without waiting for control() to return false
FinishEarly ==
    /\ Script = "early" /\ ctl = "body"
    /\ ctl' = "finish"
    /\ UNCHANGED <<posted, cursor, current, poolVars, resultVars, inbox,
                   answers, workerVars>>

\* pop() after finish()
PopRest ==
    /\ ctl = "after" /\ results # <<>>
    /\ popped' = Append(popped, Head(results))
    /\ results' = Tail(results)
    /\ UNCHANGED <<ctlVars, poolVars, inbox, answers, workerVars>>

Leave ==
    /\ ctl = "after" /\ results = <<>>
    /\ ctl' = "done"
    /\ UNCHANGED <<posted, cursor, current, poolVars, resultVars, inbox,
                   answers, workerVars>>

-----------------------------------------------------------------------------
(* check_for_complete_jobs()                                                *)

\* (mutants: the loop over the ranks of the job ends too early, or too late)
BlockOf_Short(id) ==
    IF id \in DOMAIN active THEN active[id].first .. active[id].last - 1 ELSE 0 .. 0
BlockOf_Long(id) ==
    IF id \in DOMAIN active THEN active[id].first .. active[id].last + 1 ELSE 0 .. 0

\* active_jobs_[id] makes an entry with first = last = 0 for an unknown id
BlockOf(id) ==
    IF id \in DOMAIN active THEN active[id].first .. active[id].last ELSE 0 .. 0

\* one turn of the loop: the answer is queued, the job erased, and the ranks it
\* was given are available again
ReceiveAnswer(w) ==
    /\ ctl \in {"check", "finishCheck"}
    /\ answers[w] # <<>>
    /\ LET a == Head(answers[w]) IN
       /\ answers' = [answers EXCEPT ![w] = Tail(@)]
       /\ results' = Append(results, a)
       /\ active' = [id \in DOMAIN active \ {a.id} |-> active[id]]
       /\ available' = available \cup (BlockOf(a.id) \cap Procs)
    /\ UNCHANGED <<ctlVars, jobs, nextId, popped, inbox, workerVars>>

\* MPI_Iprobe sees no (further) answer; one still in transit can be missed
ProbeFails ==
    /\ \/ ctl = "check" /\ ctl' = "dispatch"
       \/ ctl = "finishCheck" /\ ctl' = "finish"
    /\ UNCHANGED <<posted, cursor, current, poolVars, resultVars, inbox,
                   answers, workerVars>>

-----------------------------------------------------------------------------
(* control() after the check: run_job() while the front job fits            *)

\* (a mutant: a block may run past the last rank)
Fits_PastEnd(i, n) == (i .. i + n - 1) \cap Procs \subseteq available

\* a block of n available ranks starts at rank i
Fits(i, n) == i .. i + n - 1 \subseteq available

\* find_available_procs(n), n > 0: the first such block from rank 1 on
FirstFit(n) == {i \in Others : Fits(i, n) /\ \A k \in 1 .. i - 1 : ~Fits(k, n)}

\* (a mutant: a busy rank does not end the row)
InARow_Counted(i) == Cardinality(available \cap 1 .. i)

\* "procs": the available ranks in a row that end at rank i, from rank 1 on
InARow(i) ==
    LET procs[k \in Procs] == IF k = 0 \/ k \notin available THEN 0 ELSE procs[k - 1] + 1
    IN procs[i]

\* find_available_procs(n) as the code computes it, in one pass; Size is for "none"
FindAvailableProcs(n) ==
    LET ends == {i \in Others : InARow(i) = n}
    IN IF ends = {} THEN Size ELSE (CHOOSE i \in ends : \A k \in ends : i <= k) - (n - 1)

\* run_job() up to the loop that sends: the job leaves the queue
RunJob ==
    /\ ctl = "dispatch" /\ jobs # <<>>
    /\ \E first \in FirstFit(Head(jobs).fn.size) :
          /\ current' = [tag   |-> "job", first |-> first,
                         last  |-> first + Head(jobs).fn.size - 1,
                         job   |-> Head(jobs)]
          /\ cursor' = first
    /\ jobs' = Tail(jobs)
    /\ ctl' = "send"
    /\ UNCHANGED <<posted, nextId, active, available, resultVars, inbox,
                   answers, workerVars>>

\* MPI_Send of one rank's copy is posted ...
SendJob ==
    /\ ctl = "send" /\ ~posted
    /\ inbox' = [inbox EXCEPT ![cursor] = Append(@, current)]
    /\ posted' = TRUE
    /\ UNCHANGED <<ctl, cursor, current, poolVars, resultVars, answers, workerVars>>

\* a posted message no longer holds its sender: it was copied, or received
Released(channel) == Buffered \/ channel = <<>>

\* ... and returns: the rank is taken, and after the last one the job is active
SendJobReturns ==
    /\ ctl = "send" /\ posted /\ Released(inbox[cursor])
    /\ posted' = FALSE
    /\ available' = available \ {cursor}
    /\ IF cursor < current.last
       THEN /\ cursor' = cursor + 1
            /\ UNCHANGED <<ctl, current, active>>
       ELSE /\ active' = [id \in DOMAIN active \cup {current.job.id} |->
                            IF id = current.job.id
                            THEN [first |-> current.first, last |-> current.last]
                            ELSE active[id]]
            /\ current' = Idle /\ cursor' = 0
            /\ ctl' = "dispatch"
    /\ UNCHANGED <<jobs, nextId, resultVars, inbox, answers, workerVars>>

\* control() returns whether anything is left to do, and the script's loop
\* condition decides; it may also ask for results ("poll" always does)
ControlReturns ==
    /\ ctl = "dispatch"
    /\ jobs # <<>> => FirstFit(Head(jobs).fn.size) = {}
    /\ \/ /\ Unfinished \/ jobs # <<>> \/ results # <<>>
          /\ ctl' = "body"
       \/ /\ ~Unfinished /\ jobs = <<>> /\ (results = <<>> \/ Script = "any")
          /\ ctl' = "finish"
    /\ UNCHANGED <<posted, cursor, current, poolVars, resultVars, inbox,
                   answers, workerVars>>

-----------------------------------------------------------------------------
(* finish()                                                                 *)

Finish ==
    /\ ctl = "finish"
    /\ IF Unfinished
       THEN ctl' = "finishCheck" /\ UNCHANGED cursor
       ELSE IF Others = {} THEN ctl' = "after" /\ UNCHANGED cursor
                           ELSE ctl' = "stop" /\ cursor' = 1
    /\ UNCHANGED <<posted, current, poolVars, resultVars, inbox, answers,
                   workerVars>>

\* (a mutant: the last rank is not told)
LastTold_Short == Size - 2

\* the last rank of signal_stop()'s loop
LastTold == Size - 1

\* signal_stop() tells every rank but 0, further controllers included
SendStop ==
    /\ ctl = "stop" /\ ~posted
    /\ inbox' = [inbox EXCEPT ![cursor] = Append(@, Stop)]
    /\ posted' = TRUE
    /\ UNCHANGED <<ctl, cursor, current, poolVars, resultVars, answers, workerVars>>

SendStopReturns ==
    /\ ctl = "stop" /\ posted /\ Released(inbox[cursor])
    /\ posted' = FALSE
    /\ IF cursor < LastTold
       THEN cursor' = cursor + 1 /\ UNCHANGED ctl
       ELSE cursor' = 0 /\ ctl' = "after"
    /\ UNCHANGED <<current, poolVars, resultVars, inbox, answers, workerVars>>

-----------------------------------------------------------------------------
(* listen(), on the workers                                                 *)

\* the next message from rank 0 is a job: its ranks build a communicator
ReceiveJob(w) ==
    /\ pc[w] = "listen" /\ inbox[w] # <<>> /\ Head(inbox[w]).tag = "job"
    /\ task' = [task EXCEPT ![w] = Head(inbox[w])]
    /\ inbox' = [inbox EXCEPT ![w] = Tail(@)]
    /\ entered' = [entered EXCEPT ![Head(inbox[w]).job.id] = @ \cup {w}]
    /\ pc' = [pc EXCEPT ![w] = "join"]
    /\ UNCHANGED <<ctlVars, poolVars, resultVars, answers>>

\* (mutants: nobody waits, or only for the first rank of the block)
AllEntered_NoWait(w) == TRUE
AllEntered_First(w)  == task[w].first \in entered[task[w].job.id]

\* every rank of the block has called non_collective_comm_create()
AllEntered(w) == task[w].first .. task[w].last \subseteq entered[task[w].job.id]

\* that call and the split in extend() are collective over the block: nobody
\* gets past them before all have entered
CommCreated(w) ==
    /\ pc[w] = "join" /\ AllEntered(w)
    /\ pc' = [pc EXCEPT ![w] = "run"]
    /\ UNCHANGED <<ctlVars, poolVars, resultVars, inbox, answers, task, entered>>

\* what the job's function returns on rank w
Returned(w) ==
    IF w - task[w].first \in task[w].job.fn.by THEN "value" ELSE task[w].job.fn.rest

\* (a mutant: an empty result is sent, too)
Replies_Always(w) == TRUE

\* !result.empty()
Replies(w) == Returned(w) \notin Silent

\* the runner returns: a non-empty result is sent to rank 0
RunnerReturns(w) ==
    /\ pc[w] = "run"
    /\ IF Replies(w)
       THEN /\ answers' = [answers EXCEPT ![w] =
                             Append(@, [id |-> task[w].job.id, kind |-> Returned(w)])]
            /\ pc' = [pc EXCEPT ![w] = "reply"]
            /\ UNCHANGED task
       ELSE /\ pc' = [pc EXCEPT ![w] = "listen"]
            /\ task' = [task EXCEPT ![w] = Idle]
            /\ UNCHANGED answers
    /\ UNCHANGED <<ctlVars, poolVars, resultVars, inbox, entered>>

ReplyReturns(w) ==
    /\ pc[w] = "reply" /\ Released(answers[w])
    /\ pc' = [pc EXCEPT ![w] = "listen"]
    /\ task' = [task EXCEPT ![w] = Idle]
    /\ UNCHANGED <<ctlVars, poolVars, resultVars, inbox, answers, entered>>

ReceiveStop(w) ==
    /\ pc[w] = "listen" /\ inbox[w] # <<>> /\ Head(inbox[w]).tag = "stop"
    /\ inbox' = [inbox EXCEPT ![w] = Tail(@)]
    /\ pc' = [pc EXCEPT ![w] = "done"]
    /\ UNCHANGED <<ctlVars, poolVars, resultVars, answers, task, entered>>

-----------------------------------------------------------------------------
Controller ==
    \/ Schedule \/ CallControl \/ FinishEarly \/ PopRest \/ Leave
    \/ \E w \in Workers : ReceiveAnswer(w)
    \/ ProbeFails \/ RunJob \/ SendJob \/ SendJobReturns \/ ControlReturns
    \/ Finish \/ SendStop \/ SendStopReturns

Worker(w) ==
    \/ ReceiveJob(w) \/ CommCreated(w) \/ RunnerReturns(w)
    \/ ReplyReturns(w) \/ ReceiveStop(w)

\* everybody has left: rank 0 its script, the workers listen()
Done == ctl = "done" /\ \A w \in Workers : pc[w] = "done"

Terminated == Done /\ UNCHANGED vars

Next == Controller \/ (\E w \in Workers : Worker(w)) \/ Terminated

Spec == Init /\ [][Next]_vars

(***************************************************************************)
(* Every process keeps running, jobs' functions return, and MPI_Iprobe sees *)
(* a message that stays there: an answer is received if rank 0 keeps        *)
(* probing.  Nothing makes the script schedule a job or finish early.       *)
(***************************************************************************)
ControllerStep ==
    \/ CallControl \/ PopRest \/ Leave \/ ProbeFails \/ RunJob \/ SendJob
    \/ SendJobReturns \/ ControlReturns \/ Finish \/ SendStop \/ SendStopReturns

Fairness ==
    /\ WF_vars(ControllerStep)
    /\ \A w \in Workers : WF_vars(Worker(w)) /\ SF_vars(ReceiveAnswer(w))

FairSpec == Spec /\ Fairness

-----------------------------------------------------------------------------
(* Properties                                                               *)

Block(t) == t.first .. t.last

\* Resource safety: no rank is given to two jobs, a controller rank to none, and
\* available_procs_ (kept up to date by run_job and check_for_complete_jobs,
\* through unknown answers too) frees exactly the workers of no active job.
NoRankShared ==
    /\ \A i \in DOMAIN active :
          /\ Block(active[i]) \subseteq Workers
          /\ \A j \in DOMAIN active \ {i} : Block(active[i]) \cap Block(active[j]) = {}
          /\ current # Idle => Block(active[i]) \cap Block(current) = {}
    /\ current # Idle => Block(current) \subseteq Workers
    /\ \A w \in Workers :
          w \in available <=>
             /\ \A i \in DOMAIN active : w \notin Block(active[i])
             /\ current # Idle => w \notin current.first .. cursor - 1

\* The one pass of find_available_procs(), which counts the available ranks in a row,
\* finds the block that starts lowest whatever ranks earlier jobs have left free, and
\* says that there is none exactly when there is none.
ScanIsFirstFit == \A n \in 1 .. Size : FirstFit(n) = {FindAvailableProcs(n)} \ {Size}

\* positions of the job messages that wait in w's inbox
Waiting(w) == {k \in 1 .. Len(inbox[w]) : inbox[w][k].tag = "job"}

\* At most one assignment ever waits at a worker, although rank 0 reuses the
\* ranks of a job on its first answer, while the others may still be running
\* it: a job is answered only after all its ranks built its communicator.
OneJobWaiting == \A w \in Workers : \A j, k \in Waiting(w) : j = k

\* A job rank 0 takes for finished has been taken up by every rank it was sent
\* to: what still waits in an inbox belongs to an active job.
WaitingJobsActive ==
    \A w \in Workers : \A k \in Waiting(w) :
        LET t == inbox[w][k] IN
        \/ t = current
        \/ /\ t.job.id \in DOMAIN active
           /\ Block(t) = Block(active[t.job.id])

\* Every rank takes up its jobs in the order of their ids, so two jobs that
\* share ranks are entered in the same order on all of them and the collective
\* creation of their communicators cannot wait in a cycle.
JobsInOrder ==
    \A w \in Workers : \A k \in Waiting(w) :
        /\ task[w] # Idle => task[w].job.id < inbox[w][k].job.id
        /\ \A j \in Waiting(w) : j < k => inbox[w][j].job.id < inbox[w][k].job.id
        /\ \A j \in 1 .. Len(inbox[w]) : inbox[w][j].tag = "stop" => k < j

AnswersOf(id) == {k \in 1 .. Len(popped \o results) : (popped \o results)[k].id = id}

\* No two answers of one job reach the script.
AtMostOneAnswer == \A id \in Ids : \A j, k \in AnswersOf(id) : j = k

\* When rank 0 stops the workers, the jobs it has started are all answered; unless
\* the script finished early these are all the jobs it scheduled.
NoJobForgotten ==
    ctl \in {"stop", "after", "done"} =>
        \A id \in Ids : id < nextId =>
            \/ AnswersOf(id) # {}
            \/ Script = "early" /\ \E k \in 1 .. Len(jobs) : jobs[k].id = id

\* Every job is answered exactly once, although its ranks do not know of each other's
\* answers and rank 0 decides from active_jobs_ alone when to stop.
AnsweredOnce == AtMostOneAnswer /\ NoJobForgotten

\* When everybody has left no message is left behind: no job was sent to a rank
\* that had left listen() and no answer comes after the controller stopped.
CleanShutdown ==
    Done => /\ \A w \in Workers : inbox[w] = <<>> /\ answers[w] = <<>>
            /\ active = [id \in {} |-> Idle]

\* Every scheduled job's answer is eventually popped (scripts that do not
\* finish early, jobs that fit the workers and have an answering rank).
JobServed == \A id \in Ids : id < nextId ~> AnswersOf(id) # {} /\ id < nextId

\* The controller's script and all listen() loops end.
Termination == <>Done

(***************************************************************************)
(* What the documentation says of answers; see README, "Findings".         *)
(***************************************************************************)

\* doc/scheduler.md: the worker "executes a given job, and then sends the
\* results to the controller": at the end the value of each job was popped.
ValuesPopped ==
    Done => \A id \in 0 .. nextId - 1 :
               \E k \in 1 .. Len(popped) : popped[k] = [id |-> id, kind |-> "value"]

(***************************************************************************)
(* Refinement: with one answer per job the scheduler is a pool of jobs.     *)
(***************************************************************************)
IdsOf(s) == [k \in 1 .. Len(s) |-> s[k].id]

Pool == INSTANCE JobPool WITH
    FirstRank <- ControllerRanks, LastRank <- Size - 1,
    Sizes     <- {f.size : f \in Functions},
    scheduled <- nextId,
    waiting   <- [k \in 1 .. Len(jobs) |-> [id |-> jobs[k].id, size |-> jobs[k].fn.size]],
    running   <- IF current = Idle
                 THEN [id \in DOMAIN active |-> Block(active[id])]
                 ELSE [id \in DOMAIN active \cup {current.job.id} |->
                         IF id = current.job.id THEN Block(current)
                                                ELSE Block(active[id])],
    answered  <- IdsOf(results),
    popped    <- IdsOf(popped)

\* every step is a step of the pool or leaves it alone
ImplementsPool == Pool!PoolSpec
\* ... and the pool's liveness: fitting jobs start, run to an answer, get popped
ImplementsFairPool == Pool!FairPoolSpec
=============================================================================
