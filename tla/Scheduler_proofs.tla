-------------------------- MODULE Scheduler_proofs --------------------------
(***************************************************************************)
(* Proofs about Scheduler for every number of ranks, jobs and functions,    *)
(* every script and both ways MPI_Send may behave.                          *)
(***************************************************************************)
EXTENDS Scheduler, SequenceTheorems, WellFoundedInduction, TLAPS

\* What the control state says of the loop variables: rank 0 is inside
\* run_job() exactly while there is a current job, and a worker holds a task
\* exactly while it is carrying one out.
LoopState ==
    /\ ctl = "send" <=> current # Idle
    /\ ctl = "send" => current.first <= cursor /\ cursor <= current.last
    /\ ctl = "stop" => cursor \in Others
    /\ posted => ctl \in {"send", "stop"}
    /\ \A w \in Workers : pc[w] \in {"join", "run", "reply"} <=> task[w] # Idle

TypeInv == TypeOK /\ LoopState

-----------------------------------------------------------------------------
(* Facts about the data                                                     *)

LEMMA Constants ==
    /\ Size \in Nat /\ ControllerRanks \in Nat /\ MaxJobs \in Nat
    /\ ControllerRanks >= 1 /\ ControllerRanks <= Size
    /\ Workers \subseteq Others /\ Others \subseteq Procs
    /\ Script \in {"poll", "any", "early"} /\ Buffered \in BOOLEAN
BY SizeAssumption, ModeAssumption DEF Workers, Others, Procs

\* a function asks for at least one rank, and returns a value of a known kind
LEMMA FunctionFields ==
    ASSUME NEW f \in Functions
    PROVE  /\ f.size \in Nat /\ f.size >= 1
           /\ f.rest \in Kinds
BY FunctionsAssumption

LEMMA JobFields ==
    ASSUME NEW j \in Job
    PROVE  j.id \in Ids /\ j.fn \in Functions
BY DEF Job

LEMMA TaskFields ==
    ASSUME NEW t \in Task
    PROVE  /\ t.first \in Others /\ t.last \in Others /\ t.job \in Job
           /\ t.job.id \in Ids /\ t.job.fn \in Functions
           /\ t.tag = "job" /\ t # Idle /\ t # Stop
BY DEF Task, Job, Idle, Stop

LEMMA MessageKind ==
    ASSUME NEW m \in Task \cup {Stop}
    PROVE  /\ m.tag = "job"  => m \in Task
           /\ m.tag = "stop" => m = Stop
           /\ m.tag \in {"job", "stop"}
BY DEF Task, Stop

\* run_job()'s block of ranks lies within the world
LEMMA FirstFitBlock ==
    ASSUME NEW n \in Nat, n >= 1, NEW i \in FirstFit(n), available \subseteq Procs
    PROVE  /\ i \in Others /\ i + n - 1 \in Others /\ i <= i + n - 1
           /\ \A r \in i .. i + n - 1 : r \in Others /\ r \in available
<1>1. i \in Others /\ i .. i + n - 1 \subseteq available
  BY DEF FirstFit, Fits
<1>2. \A r \in i .. i + n - 1 : r \in Procs /\ r >= i
  BY <1>1 DEF Others
<1>3. i + n - 1 \in i .. i + n - 1
  BY <1>1 DEF Others
<1> QED
  BY <1>1, <1>2, <1>3, Constants DEF Others, Procs

-----------------------------------------------------------------------------
LEMMA InitTypeInv == Init => TypeInv
<1> SUFFICES ASSUME Init PROVE TypeInv
    OBVIOUS
<1>1. Idle # Stop /\ active = [id \in {} |-> Idle]
  BY DEF Idle, Stop, Init
<1>2. DOMAIN active = {} /\ active \in [DOMAIN active -> [first : Others, last : Others]]
  BY <1>1
<1>3. /\ inbox \in [Others -> Seq(Task \cup {Stop})]
      /\ answers \in [Workers -> Seq(Answer)]
      /\ jobs \in Seq(Job) /\ results \in Seq(Answer) /\ popped \in Seq(Answer)
  <2>1. \A S : <<>> \in Seq(S)
    BY EmptySeq
  <2> QED
    BY <2>1 DEF Init
<1>4. /\ ctl \in {"body", "check", "dispatch", "send", "finish", "finishCheck",
                  "stop", "after", "done"}
      /\ cursor \in 0 .. Size /\ nextId \in 0 .. MaxJobs
  BY Constants DEF Init
<1>5. /\ posted \in BOOLEAN /\ current \in Task \cup {Idle}
  BY Zenon DEF Init
<1>6. /\ available \subseteq Procs
      /\ pc \in [Workers -> {"listen", "join", "run", "reply", "done"}]
      /\ task \in [Workers -> Task \cup {Idle}]
      /\ entered \in [Ids -> SUBSET Workers]
  BY Constants DEF Init
<1>7. TypeOK
  BY <1>2, <1>3, <1>4, <1>5, <1>6 DEF TypeOK
<1>8. LoopState
  BY DEF Init, LoopState
<1> QED
  BY <1>7, <1>8 DEF TypeInv

-----------------------------------------------------------------------------
(* Every action keeps the typing and the loop variables in order            *)

LEMMA SeqFacts ==
    ASSUME NEW S
    PROVE  /\ \A s \in Seq(S), e \in S : Append(s, e) \in Seq(S)
           /\ \A s \in Seq(S) : s # <<>> => Head(s) \in S /\ Tail(s) \in Seq(S)
BY HeadTailProperties, AppendProperties

LEMMA AppendFacts ==
    ASSUME NEW S, NEW s \in Seq(S), NEW e \in S
    PROVE  /\ Append(s, e) \in Seq(S)
           /\ Len(s) \in Nat /\ Len(Append(s, e)) = Len(s) + 1
           /\ \A i \in 1 .. Len(s) : Append(s, e)[i] = s[i] /\ s[i] \in S
           /\ Append(s, e)[Len(s) + 1] = e
BY AppendProperties, LenProperties, ElementOfSeq

LEMMA TailFacts ==
    ASSUME NEW S, NEW s \in Seq(S), s # <<>>
    PROVE  /\ Head(s) \in S /\ Head(s) = s[1] /\ Tail(s) \in Seq(S)
           /\ Len(s) \in Nat /\ Len(s) >= 1 /\ Len(Tail(s)) = Len(s) - 1
           /\ \A i \in 1 .. Len(s) - 1 : Tail(s)[i] = s[i + 1]
BY HeadTailProperties, LenProperties, EmptySeq

LEMMA ScheduleType == TypeInv /\ Schedule => TypeInv'
<1> SUFFICES ASSUME TypeInv, Schedule PROVE TypeInv'
    OBVIOUS
<1> USE DEF TypeInv
<1>1. PICK f \in Functions : jobs' = Append(jobs, [id |-> nextId, fn |-> f])
  BY DEF Schedule, Enqueue
<1>2. [id |-> nextId, fn |-> f] \in Job
  BY Constants DEF TypeOK, Schedule, Job, Ids
<1>3. jobs' \in Seq(Job)
  BY <1>1, <1>2, SeqFacts DEF TypeOK
<1>4. nextId' \in 0 .. MaxJobs
  BY Constants DEF TypeOK, Schedule
<1>5. TypeOK'
  BY <1>3, <1>4 DEF TypeOK, Schedule, ctlVars, resultVars, workerVars
<1>6. LoopState'
  BY DEF LoopState, Schedule, ctlVars, workerVars
<1> QED
  BY <1>5, <1>6

LEMMA ScriptType ==
    TypeInv /\ (CallControl \/ FinishEarly \/ PopRest \/ Leave) => TypeInv'
<1> SUFFICES ASSUME TypeInv, CallControl \/ FinishEarly \/ PopRest \/ Leave
             PROVE  TypeInv'
    OBVIOUS
<1> USE DEF TypeInv
<1>1. results' \in Seq(Answer) /\ popped' \in Seq(Answer)
  <2>1. CASE /\ results # <<>>
             /\ popped' = Append(popped, Head(results)) /\ results' = Tail(results)
    BY <2>1, SeqFacts DEF TypeOK
  <2>2. CASE UNCHANGED resultVars
    BY <2>2 DEF TypeOK, resultVars
  <2> QED
    BY <2>1, <2>2 DEF CallControl, FinishEarly, PopRest, Leave, resultVars
<1>2. TypeOK'
  BY <1>1 DEF TypeOK, CallControl, FinishEarly, PopRest, Leave, ctlVars, poolVars,
              workerVars
<1>3. LoopState'
  BY DEF LoopState, CallControl, FinishEarly, PopRest, Leave, ctlVars, workerVars
<1> QED
  BY <1>2, <1>3

LEMMA ReceiveAnswerType ==
    ASSUME NEW w \in Workers, TypeInv, ReceiveAnswer(w)
    PROVE  TypeInv'
<1> USE DEF TypeInv
<1> DEFINE a == Head(answers[w])
<1>1. a \in Answer /\ Tail(answers[w]) \in Seq(Answer)
  BY SeqFacts DEF TypeOK, ReceiveAnswer
<1>2. /\ answers' \in [Workers -> Seq(Answer)]
      /\ results' \in Seq(Answer)
  BY <1>1, SeqFacts DEF TypeOK, ReceiveAnswer
<1>3. /\ DOMAIN active' \subseteq Ids
      /\ active' \in [DOMAIN active' -> [first : Others, last : Others]]
  BY DEF TypeOK, ReceiveAnswer
<1>4. available' \subseteq Procs
  BY DEF TypeOK, ReceiveAnswer
<1>5. TypeOK'
  BY <1>2, <1>3, <1>4 DEF TypeOK, ReceiveAnswer, ctlVars, workerVars
<1>6. LoopState'
  BY DEF LoopState, ReceiveAnswer, ctlVars, workerVars
<1> QED
  BY <1>5, <1>6

LEMMA RunJobType == TypeInv /\ RunJob => TypeInv'
<1> SUFFICES ASSUME TypeInv, RunJob PROVE TypeInv'
    OBVIOUS
<1> USE DEF TypeInv
<1> DEFINE j == Head(jobs)
<1>1. j \in Job /\ Tail(jobs) \in Seq(Job)
  BY SeqFacts DEF TypeOK, RunJob
<1>2. j.fn.size \in Nat /\ j.fn.size >= 1
  BY <1>1, JobFields, FunctionFields
<1>3. PICK first \in FirstFit(j.fn.size) :
           /\ current' = [tag |-> "job", first |-> first,
                          last |-> first + j.fn.size - 1, job |-> j]
           /\ cursor' = first
  BY DEF RunJob
<1>4. /\ first \in Others /\ first + j.fn.size - 1 \in Others
      /\ first <= first + j.fn.size - 1
  BY <1>2, FirstFitBlock DEF TypeOK
<1>5. current' \in Task
  BY <1>1, <1>3, <1>4 DEF Task
<1>6. cursor' \in 0 .. Size
  BY <1>3, <1>4, Constants DEF Others
<1>7. TypeOK'
  BY <1>1, <1>5, <1>6 DEF TypeOK, RunJob, resultVars, workerVars
<1>8. current' # Idle
  BY <1>5, TaskFields
<1>9. /\ ctl' = "send" /\ (posted' => ctl' \in {"send", "stop"})
      /\ current'.first <= cursor' /\ cursor' <= current'.last
  <2>1. ctl' = "send"
    BY DEF RunJob
  <2>2. current'.first = first /\ current'.last = first + j.fn.size - 1 /\ cursor' = first
    BY <1>3
  <2>3. first \in Int
    BY <1>4 DEF Others
  <2> QED
    BY <1>4, <2>1, <2>2, <2>3
<1>10. LoopState'
  BY <1>8, <1>9 DEF LoopState, RunJob, workerVars
<1> QED
  BY <1>7, <1>10

LEMMA SendJobType == TypeInv /\ SendJob => TypeInv'
<1> SUFFICES ASSUME TypeInv, SendJob PROVE TypeInv'
    OBVIOUS
<1> USE DEF TypeInv
<1>1. current \in Task
  BY DEF TypeOK, LoopState, SendJob
<1>2. inbox' \in [Others -> Seq(Task \cup {Stop})]
  BY <1>1, SeqFacts DEF TypeOK, SendJob
<1>3. TypeOK'
  BY <1>2 DEF TypeOK, SendJob, poolVars, resultVars, workerVars
<1>4. LoopState'
  BY DEF LoopState, SendJob, workerVars
<1> QED
  BY <1>3, <1>4

LEMMA SendJobReturnsType == TypeInv /\ SendJobReturns => TypeInv'
<1> SUFFICES ASSUME TypeInv, SendJobReturns PROVE TypeInv'
    OBVIOUS
<1> USE DEF TypeInv
<1>1. current \in Task /\ current.first <= cursor /\ cursor <= current.last
  BY DEF TypeOK, LoopState, SendJobReturns
<1>2. /\ current.first \in Others /\ current.last \in Others
      /\ current.job.id \in Ids
  BY <1>1, TaskFields
<1>3. available' \subseteq Procs /\ posted' \in BOOLEAN
  BY DEF TypeOK, SendJobReturns
<1>4. CASE cursor < current.last
  <2>1. cursor' = cursor + 1 /\ ctl' = ctl /\ current' = current /\ active' = active
    BY <1>4 DEF SendJobReturns
  <2>2. cursor' \in 0 .. Size
    <3>1. cursor \in 0 .. Size
      BY DEF TypeOK
    <3>2. current.last \in Int /\ current.last < Size
      BY <1>2, Constants DEF Others
    <3> QED
      BY <1>4, <2>1, <3>1, <3>2, Constants
  <2>3. TypeOK'
    BY <1>3, <2>1, <2>2 DEF TypeOK, SendJobReturns, resultVars, workerVars
  <2>4. LoopState'
    BY <1>1, <1>2, <1>4, <2>1 DEF LoopState, TypeOK, SendJobReturns, workerVars, Others
  <2> QED
    BY <2>3, <2>4
<1>5. CASE ~(cursor < current.last)
  <2>1. /\ active' = [id \in DOMAIN active \cup {current.job.id} |->
                        IF id = current.job.id
                        THEN [first |-> current.first, last |-> current.last]
                        ELSE active[id]]
        /\ current' = Idle /\ cursor' = 0 /\ ctl' = "dispatch"
    BY <1>5 DEF SendJobReturns
  <2>2. /\ DOMAIN active' \subseteq Ids
        /\ active' \in [DOMAIN active' -> [first : Others, last : Others]]
    BY <1>2, <2>1 DEF TypeOK
  <2>3. cursor' \in 0 .. Size
    BY <2>1, Constants
  <2>4. TypeOK'
    BY <1>3, <2>1, <2>2, <2>3 DEF TypeOK, SendJobReturns, resultVars, workerVars
  <2>5. LoopState'
    BY <2>1 DEF LoopState, SendJobReturns, workerVars
  <2> QED
    BY <2>4, <2>5
<1> QED
  BY <1>4, <1>5

\* the steps of rank 0 that only move its control state or send stop messages
LEMMA ControlType ==
    TypeInv /\ (ProbeFails \/ ControlReturns \/ Finish) => TypeInv'
<1> SUFFICES ASSUME TypeInv, ProbeFails \/ ControlReturns \/ Finish PROVE TypeInv'
    OBVIOUS
<1> USE DEF TypeInv
<1>1. cursor' \in 0 .. Size /\ (ctl' = "stop" => cursor' \in Others)
  BY Constants DEF TypeOK, LoopState, ProbeFails, ControlReturns, Finish, Others
<1>2. TypeOK'
  BY <1>1 DEF TypeOK, ProbeFails, ControlReturns, Finish, poolVars, resultVars,
              workerVars
<1>3. LoopState'
  BY <1>1 DEF LoopState, ProbeFails, ControlReturns, Finish, workerVars
<1> QED
  BY <1>2, <1>3

LEMMA StopType == TypeInv /\ (SendStop \/ SendStopReturns) => TypeInv'
<1> SUFFICES ASSUME TypeInv, SendStop \/ SendStopReturns PROVE TypeInv'
    OBVIOUS
<1> USE DEF TypeInv
<1>1. inbox' \in [Others -> Seq(Task \cup {Stop})]
  <2>1. CASE SendStop
    <3>1. inbox[cursor] \in Seq(Task \cup {Stop}) /\ Stop \in Task \cup {Stop}
      BY <2>1 DEF TypeOK, LoopState, SendStop
    <3>2. Append(inbox[cursor], Stop) \in Seq(Task \cup {Stop})
      BY <3>1, SeqFacts
    <3> QED
      BY <2>1, <3>2 DEF TypeOK, SendStop
  <2>2. CASE SendStopReturns
    BY <2>2 DEF TypeOK, SendStopReturns
  <2> QED
    BY <2>1, <2>2
<1>2. cursor' \in 0 .. Size /\ (ctl' = "stop" => cursor' \in Others)
  BY Constants DEF TypeOK, LoopState, SendStop, SendStopReturns, LastTold, Others
<1>3. TypeOK'
  BY <1>1, <1>2 DEF TypeOK, SendStop, SendStopReturns, poolVars, resultVars, workerVars
<1>4. LoopState'
  BY <1>2 DEF LoopState, SendStop, SendStopReturns, workerVars
<1> QED
  BY <1>3, <1>4

LEMMA ReceiveType ==
    ASSUME NEW w \in Workers, TypeInv, ReceiveJob(w) \/ ReceiveStop(w)
    PROVE  TypeInv'
<1> USE DEF TypeInv
<1>1. w \in Others
  BY Constants
<1>2. /\ Head(inbox[w]) \in Task \cup {Stop}
      /\ inbox' \in [Others -> Seq(Task \cup {Stop})]
  <2>1. inbox[w] \in Seq(Task \cup {Stop}) /\ inbox[w] # <<>>
    BY <1>1 DEF TypeOK, ReceiveJob, ReceiveStop
  <2>2. /\ Head(inbox[w]) \in Task \cup {Stop}
        /\ Tail(inbox[w]) \in Seq(Task \cup {Stop})
    BY <2>1, SeqFacts
  <2>3. inbox' = [inbox EXCEPT ![w] = Tail(@)]
    BY DEF ReceiveJob, ReceiveStop
  <2> QED
    BY <2>2, <2>3 DEF TypeOK
<1>3. CASE ReceiveJob(w)
  <2>1. Head(inbox[w]) \in Task /\ Head(inbox[w]).job.id \in Ids
    BY <1>2, <1>3, MessageKind, TaskFields DEF ReceiveJob
  <2>2. /\ task' \in [Workers -> Task \cup {Idle}]
        /\ pc' \in [Workers -> {"listen", "join", "run", "reply", "done"}]
        /\ entered' \in [Ids -> SUBSET Workers]
    BY <1>3, <2>1 DEF TypeOK, ReceiveJob
  <2>3. TypeOK'
    BY <1>2, <1>3, <2>2 DEF TypeOK, ReceiveJob, ctlVars, poolVars, resultVars
  <2>4. LoopState'
    BY <1>3, <2>1, TaskFields DEF LoopState, TypeOK, ReceiveJob, ctlVars
  <2> QED
    BY <2>3, <2>4
<1>4. CASE ReceiveStop(w)
  <2>1. TypeOK'
    BY <1>2, <1>4 DEF TypeOK, ReceiveStop, ctlVars, poolVars, resultVars
  <2>2. LoopState'
    BY <1>4 DEF LoopState, TypeOK, ReceiveStop, ctlVars
  <2> QED
    BY <2>1, <2>2
<1> QED
  BY <1>3, <1>4

LEMMA RunnerType ==
    ASSUME NEW w \in Workers, TypeInv,
           CommCreated(w) \/ RunnerReturns(w) \/ ReplyReturns(w)
    PROVE  TypeInv'
<1> USE DEF TypeInv
<1>1. CASE CommCreated(w)
  <2>1. TypeOK'
    BY <1>1 DEF TypeOK, CommCreated, ctlVars, poolVars, resultVars
  <2>2. LoopState'
    BY <1>1 DEF LoopState, TypeOK, CommCreated, ctlVars
  <2> QED
    BY <2>1, <2>2
<1>2. CASE RunnerReturns(w)
  <2>1. task[w] \in Task
    BY <1>2 DEF TypeOK, LoopState, RunnerReturns
  <2>2. task[w].job.id \in Ids /\ Returned(w) \in Kinds
    BY <2>1, TaskFields, FunctionFields DEF Returned, Kinds
  <2>3. [id |-> task[w].job.id, kind |-> Returned(w)] \in Answer
    BY <2>2 DEF Answer
  <2>4. answers' \in [Workers -> Seq(Answer)]
    <3>1. answers[w] \in Seq(Answer)
      BY DEF TypeOK
    <3>2. Append(answers[w], [id |-> task[w].job.id, kind |-> Returned(w)]) \in Seq(Answer)
      BY <2>3, <3>1, SeqFacts
    <3> QED
      BY <1>2, <3>2 DEF TypeOK, RunnerReturns
  <2>5. /\ task' \in [Workers -> Task \cup {Idle}]
        /\ pc' \in [Workers -> {"listen", "join", "run", "reply", "done"}]
    BY <1>2 DEF TypeOK, RunnerReturns
  <2>6. TypeOK'
    BY <1>2, <2>4, <2>5 DEF TypeOK, RunnerReturns, ctlVars, poolVars, resultVars
  <2>7. LoopState'
    <3>1. \/ pc' = [pc EXCEPT ![w] = "reply"] /\ task' = task
          \/ pc' = [pc EXCEPT ![w] = "listen"] /\ task' = [task EXCEPT ![w] = Idle]
      BY <1>2 DEF RunnerReturns
    <3>2. \A v \in Workers : pc'[v] \in {"join", "run", "reply"} <=> task'[v] # Idle
      BY <1>2, <3>1 DEF LoopState, TypeOK, RunnerReturns
    <3> QED
      BY <1>2, <3>2 DEF LoopState, RunnerReturns, ctlVars
  <2> QED
    BY <2>6, <2>7
<1>3. CASE ReplyReturns(w)
  <2>1. TypeOK'
    BY <1>3 DEF TypeOK, ReplyReturns, ctlVars, poolVars, resultVars
  <2>2. LoopState'
    BY <1>3 DEF LoopState, TypeOK, ReplyReturns, ctlVars
  <2> QED
    BY <2>1, <2>2
<1> QED
  BY <1>1, <1>2, <1>3

LEMMA StutterType == TypeInv /\ UNCHANGED vars => TypeInv'
BY DEF TypeInv, TypeOK, LoopState, vars, ctlVars, poolVars, resultVars, workerVars

LEMMA StepType == TypeInv /\ [Next]_vars => TypeInv'
BY ScheduleType, ScriptType, ReceiveAnswerType, RunJobType, SendJobType,
   SendJobReturnsType, ControlType, StopType, ReceiveType, RunnerType, StutterType
   DEF Next, Controller, Worker, Terminated

\* Every reachable state is well typed, whatever jobs the script schedules.
THEOREM TypeCorrect == Spec => []TypeOK
<1>1. Init => TypeInv
  BY InitTypeInv
<1>2. TypeInv /\ [Next]_vars => TypeInv'
  BY StepType
<1>3. TypeInv => TypeOK
  BY DEF TypeInv
<1> QED
  BY <1>1, <1>2, <1>3, PTL DEF Spec

-----------------------------------------------------------------------------
(* The inductive invariant behind resource safety                           *)

\* ids below Started have left the queue
Started == nextId - Len(jobs)

\* jobs leave the queue in the order of their ids, which are not used again
IdsInOrder ==
    /\ Len(jobs) <= nextId
    /\ \A k \in 1 .. Len(jobs) : jobs[k].id = Started + k - 1
    /\ current # Idle => current.job.id = Started - 1
    /\ \A i \in DOMAIN active : /\ i < Started
                                /\ current # Idle => i < Started - 1

\* of rank 1 and beyond only workers are ever available
OnlyWorkersAvailable == available \cap Others \subseteq Workers

PoolInv == TypeInv /\ IdsInOrder /\ OnlyWorkersAvailable /\ NoRankShared

-----------------------------------------------------------------------------
(* ... and behind the order of assignments                                  *)

\* the current job has been posted to r
SentTo(r) == r < cursor \/ (r = cursor /\ posted)

\* what a rank entered was assigned to it, and lies before what still waits
EnteredInv ==
    /\ \A id \in Ids : \A w \in entered[id] :
          /\ id < Started
          /\ \A k \in Waiting(w) : id < inbox[w][k].job.id
          /\ current # Idle /\ id = current.job.id => SentTo(w)
    /\ \A w \in Workers : task[w] # Idle => w \in entered[task[w].job.id]

\* a waiting message belongs to the current or to an active job of its rank
WaitingInv ==
    \A w \in Workers : \A k \in Waiting(w) :
        LET t == inbox[w][k] IN
        /\ w \in Block(t)
        /\ \/ t = current /\ current # Idle /\ SentTo(w)
           \/ /\ t.job.id \in DOMAIN active
              /\ active[t.job.id] = [first |-> t.first, last |-> t.last]

\* a task agrees with what rank 0 recorded of its job
TaskInv ==
    \A w \in Workers : task[w] # Idle =>
        LET id == task[w].job.id IN
        /\ current # Idle /\ id = current.job.id => task[w] = current
        /\ id \in DOMAIN active =>
              active[id] = [first |-> task[w].first, last |-> task[w].last]
        /\ pc[w] \in {"run", "reply"} => Block(task[w]) \subseteq entered[id]

\* nobody answers before all ranks of the job have entered
AnswerInv ==
    \A w \in Workers : \A k \in 1 .. Len(answers[w]) :
        LET id == answers[w][k].id IN
        /\ id < Started
        /\ id \in DOMAIN active => Block(active[id]) \subseteq entered[id]
        /\ current # Idle /\ id = current.job.id => Block(current) \subseteq entered[id]

\* stop messages come last
StopInv ==
    \A r \in Others : \A k \in 1 .. Len(inbox[r]) :
        inbox[r][k].tag = "stop" => ctl \in {"stop", "after", "done"}

MessageInv == EnteredInv /\ WaitingInv /\ TaskInv /\ AnswerInv /\ StopInv /\ JobsInOrder

-----------------------------------------------------------------------------
(* The pool of ranks: ids in order, no rank shared                          *)

LEMMA InitPoolInv == Init => PoolInv
<1> SUFFICES ASSUME Init PROVE PoolInv
    OBVIOUS
<1>1. TypeInv
  BY InitTypeInv
<1>2. jobs = <<>> /\ nextId = 0 /\ active = [id \in {} |-> Idle] /\ current = Idle
      /\ available = Workers
  BY DEF Init
<1>3. IdsInOrder /\ OnlyWorkersAvailable /\ NoRankShared
  BY <1>2, EmptySeq DEF IdsInOrder, Started, OnlyWorkersAvailable, NoRankShared
<1> QED
  BY <1>1, <1>3 DEF PoolInv

\* steps that change none of the pool's variables
LEMMA PoolUnchanged ==
    ASSUME PoolInv, TypeInv', UNCHANGED <<poolVars, current>>,
           current # Idle => UNCHANGED cursor
    PROVE  PoolInv'
BY DEF PoolInv, IdsInOrder, Started, OnlyWorkersAvailable, NoRankShared, poolVars, Block

LEMMA SchedulePool == PoolInv /\ Schedule => PoolInv'
<1> SUFFICES ASSUME PoolInv, Schedule PROVE PoolInv'
    OBVIOUS
<1>1. TypeInv'
  BY ScheduleType DEF PoolInv
<1>2. PICK f \in Functions : jobs' = Append(jobs, [id |-> nextId, fn |-> f])
  BY DEF Schedule, Enqueue
<1>3. jobs \in Seq(Job) /\ nextId \in Nat /\ nextId' = nextId + 1
  BY Constants DEF PoolInv, TypeInv, TypeOK, Schedule
<1>4. [id |-> nextId, fn |-> f] \in Job
  BY <1>3, Constants DEF Schedule, Job, Ids
<1>5. /\ Len(jobs) \in Nat /\ Len(jobs') = Len(jobs) + 1
      /\ \A k \in 1 .. Len(jobs) : jobs'[k] = jobs[k]
      /\ jobs'[Len(jobs) + 1].id = nextId
  <2>1. jobs'[Len(jobs) + 1] = [id |-> nextId, fn |-> f]
    BY <1>2, <1>3, <1>4, AppendFacts
  <2> QED
    BY <1>2, <1>3, <1>4, <2>1, AppendFacts
<1>6. Started' = Started /\ Started \in Int /\ Started + Len(jobs) = nextId
  BY <1>3, <1>5 DEF Started
<1>7. IdsInOrder'
  <2>1. \A k \in 1 .. Len(jobs) : jobs'[k].id = Started + k - 1
    BY <1>5 DEF PoolInv, IdsInOrder
  <2>2. \A k \in 1 .. Len(jobs') : jobs'[k].id = Started' + k - 1
    <3> SUFFICES ASSUME NEW k \in 1 .. Len(jobs')
                 PROVE  jobs'[k].id = Started + k - 1
        BY <1>6
    <3>1. CASE k \in 1 .. Len(jobs)
      BY <2>1, <3>1
    <3>2. CASE k = Len(jobs) + 1
      BY <1>5, <1>6, <3>2
    <3> QED
      BY <1>5, <3>1, <3>2
  <2>3. Len(jobs') <= nextId'
    BY <1>3, <1>5 DEF PoolInv, IdsInOrder
  <2>4. current' = current /\ active' = active
    BY DEF Schedule, ctlVars
  <2> QED
    BY <1>6, <2>2, <2>3, <2>4 DEF PoolInv, IdsInOrder
<1>8. OnlyWorkersAvailable' /\ NoRankShared'
  BY DEF PoolInv, OnlyWorkersAvailable, NoRankShared, Schedule, ctlVars, Block
<1> QED
  BY <1>1, <1>7, <1>8 DEF PoolInv

LEMMA ReceiveAnswerPool ==
    ASSUME NEW w \in Workers, PoolInv, ReceiveAnswer(w)
    PROVE  PoolInv'
<1> DEFINE a == Head(answers[w])
<1>1. TypeInv'
  BY ReceiveAnswerType DEF PoolInv
<1>2. current = Idle /\ current' = Idle
  BY DEF PoolInv, TypeInv, LoopState, ReceiveAnswer, ctlVars
<1>3. /\ active' = [id \in DOMAIN active \ {a.id} |-> active[id]]
      /\ available' = available \cup (BlockOf(a.id) \cap Procs)
      /\ jobs' = jobs /\ nextId' = nextId
  BY DEF ReceiveAnswer
<1>4. IdsInOrder'
  BY <1>2, <1>3 DEF PoolInv, IdsInOrder, Started
<1>5. BlockOf(a.id) \cap Others \subseteq Workers
  BY DEF PoolInv, NoRankShared, BlockOf, Block, Others
<1>6. OnlyWorkersAvailable'
  BY <1>3, <1>5 DEF PoolInv, OnlyWorkersAvailable
<1>7. \A v \in Workers : v \in available' <=> \A i \in DOMAIN active' : v \notin Block(active'[i])
  <2> SUFFICES ASSUME NEW v \in Workers
               PROVE  v \in available' <=>
                        \A i \in DOMAIN active' : v \notin Block(active'[i])
      OBVIOUS
  <2>1. v \in Procs /\ v # 0
    BY Constants DEF Workers, Procs
  <2>2. v \in available <=> \A i \in DOMAIN active : v \notin Block(active[i])
    BY <1>2 DEF PoolInv, NoRankShared
  <2>3. CASE a.id \in DOMAIN active
    <3>1. BlockOf(a.id) = Block(active[a.id])
      BY <2>3 DEF BlockOf, Block
    <3>2. \A i \in DOMAIN active \ {a.id} :
             Block(active[i]) \cap Block(active[a.id]) = {}
      BY <2>3 DEF PoolInv, NoRankShared
    <3> QED
      BY <1>3, <2>1, <2>2, <2>3, <3>1, <3>2
  <2>4. CASE a.id \notin DOMAIN active
    BY <1>3, <2>1, <2>2, <2>4 DEF BlockOf
  <2> QED
    BY <2>3, <2>4
<1>8. \A i \in DOMAIN active' : i \in DOMAIN active /\ active'[i] = active[i]
  BY <1>3
<1>9. NoRankShared'
  BY <1>2, <1>7, <1>8 DEF PoolInv, NoRankShared
<1> QED
  BY <1>1, <1>4, <1>6, <1>9 DEF PoolInv

LEMMA RunJobPool == PoolInv /\ RunJob => PoolInv'
<1> SUFFICES ASSUME PoolInv, RunJob PROVE PoolInv'
    OBVIOUS
<1> DEFINE j == Head(jobs)
<1>1. TypeInv'
  BY RunJobType DEF PoolInv
<1>2. /\ jobs \in Seq(Job) /\ jobs # <<>> /\ nextId \in Nat
      /\ current = Idle /\ available \subseteq Procs
  BY Constants DEF PoolInv, TypeInv, TypeOK, LoopState, RunJob
<1>3. /\ j \in Job /\ j = jobs[1] /\ Len(jobs) \in Nat /\ Len(jobs) >= 1
      /\ Len(jobs') = Len(jobs) - 1
      /\ \A k \in 1 .. Len(jobs) - 1 : jobs'[k] = jobs[k + 1]
  BY <1>2, TailFacts DEF RunJob
<1>4. j.fn.size \in Nat /\ j.fn.size >= 1
  BY <1>3, JobFields, FunctionFields
<1>5. PICK first \in FirstFit(j.fn.size) :
           /\ current' = [tag |-> "job", first |-> first,
                          last |-> first + j.fn.size - 1, job |-> j]
           /\ cursor' = first
  BY DEF RunJob
<1>6. /\ first \in Others /\ Block(current') = first .. first + j.fn.size - 1
      /\ \A r \in Block(current') : r \in Others /\ r \in available
      /\ current'.first = first /\ current'.job.id = j.id
  BY <1>2, <1>4, <1>5, FirstFitBlock DEF Block
<1>7. nextId' = nextId /\ active' = active /\ available' = available
  BY DEF RunJob
<1>8. Started' = Started + 1 /\ Started \in Int
  BY <1>2, <1>3, <1>7 DEF Started
<1>9. IdsInOrder'
  <2>1. \A k \in 1 .. Len(jobs) : jobs[k].id = Started + k - 1
    BY DEF PoolInv, IdsInOrder
  <2>2. \A k \in 1 .. Len(jobs') : jobs'[k].id = Started' + k - 1
    BY <1>3, <1>8, <2>1
  <2>3. current'.job.id = Started' - 1
    BY <1>3, <1>6, <1>8, <2>1
  <2>4. \A i \in DOMAIN active' : i < Started' /\ i < Started' - 1
    <3>1. \A i \in DOMAIN active : i \in Int /\ i < Started
      BY <1>2 DEF PoolInv, IdsInOrder, TypeInv, TypeOK, Ids
    <3> QED
      BY <1>7, <1>8, <3>1
  <2>5. Len(jobs') <= nextId'
    BY <1>2, <1>3, <1>7 DEF PoolInv, IdsInOrder
  <2> QED
    BY <2>2, <2>3, <2>4, <2>5 DEF IdsInOrder
<1>10. OnlyWorkersAvailable'
  BY <1>7 DEF PoolInv, OnlyWorkersAvailable
<1>11. Block(current') \subseteq Workers
  BY <1>6 DEF PoolInv, OnlyWorkersAvailable
<1>12. \A i \in DOMAIN active : Block(active[i]) \cap Block(current') = {}
  BY <1>6, <1>11 DEF PoolInv, NoRankShared
<1>13. current'.first .. cursor' - 1 = {}
  BY <1>5, <1>6 DEF Others
<1>14. NoRankShared'
  BY <1>2, <1>7, <1>11, <1>12, <1>13 DEF PoolInv, NoRankShared
<1> QED
  BY <1>1, <1>9, <1>10, <1>14 DEF PoolInv

LEMMA SendJobReturnsPool == PoolInv /\ SendJobReturns => PoolInv'
<1> SUFFICES ASSUME PoolInv, SendJobReturns PROVE PoolInv'
    OBVIOUS
<1>1. TypeInv'
  BY SendJobReturnsType DEF PoolInv
<1>2. /\ current \in Task /\ current # Idle
      /\ current.first <= cursor /\ cursor <= current.last
  BY DEF PoolInv, TypeInv, TypeOK, LoopState, SendJobReturns
<1>3. /\ current.first \in Int /\ current.last \in Int /\ cursor \in Int
      /\ current.job.id \in Int
  <2>1. current.first \in Others /\ current.last \in Others /\ current.job.id \in Ids
    BY <1>2, TaskFields
  <2>2. cursor \in 0 .. Size
    BY DEF PoolInv, TypeInv, TypeOK
  <2> QED
    BY <2>1, <2>2, Constants DEF Others, Ids
<1>4. jobs' = jobs /\ nextId' = nextId /\ available' = available \ {cursor}
  BY DEF SendJobReturns
<1>5. OnlyWorkersAvailable'
  BY <1>4 DEF PoolInv, OnlyWorkersAvailable
<1>6. \A v \in Workers :
         v \in available' <=> /\ \A i \in DOMAIN active : v \notin Block(active[i])
                              /\ v \notin current.first .. cursor
  <2> SUFFICES ASSUME NEW v \in Workers
               PROVE  v \in available' <=>
                        /\ \A i \in DOMAIN active : v \notin Block(active[i])
                        /\ v \notin current.first .. cursor
      OBVIOUS
  <2>1. v \in available <=> /\ \A i \in DOMAIN active : v \notin Block(active[i])
                            /\ v \notin current.first .. cursor - 1
    BY <1>2 DEF PoolInv, NoRankShared
  <2>2. v \in current.first .. cursor <=> v \in current.first .. cursor - 1 \/ v = cursor
    BY <1>2, <1>3, Constants DEF Workers
  <2> QED
    BY <1>4, <2>1, <2>2
<1>7. CASE cursor < current.last
  <2>1. cursor' = cursor + 1 /\ current' = current /\ active' = active
    BY <1>7 DEF SendJobReturns
  <2>2. IdsInOrder'
    BY <1>4, <2>1 DEF PoolInv, IdsInOrder, Started
  <2>3. current'.first .. cursor' - 1 = current.first .. cursor
    BY <1>3, <2>1
  <2>4. NoRankShared'
    BY <1>2, <1>6, <2>1, <2>3 DEF PoolInv, NoRankShared
  <2> QED
    BY <1>1, <1>5, <2>2, <2>4 DEF PoolInv
<1>8. CASE ~(cursor < current.last)
  <2> DEFINE id0 == current.job.id
  <2>1. /\ active' = [id \in DOMAIN active \cup {id0} |->
                        IF id = id0
                        THEN [first |-> current.first, last |-> current.last]
                        ELSE active[id]]
        /\ current' = Idle
    BY <1>8 DEF SendJobReturns
  <2>2. id0 \notin DOMAIN active /\ id0 < Started
    <3>1. id0 = Started - 1 /\ \A i \in DOMAIN active : i < Started - 1
      BY <1>2 DEF PoolInv, IdsInOrder
    <3>2. Started \in Int
      <4>1. jobs \in Seq(Job) /\ nextId \in Int
        BY Constants DEF PoolInv, TypeInv, TypeOK
      <4> QED
        BY <4>1, LenProperties DEF Started
    <3> QED
      BY <1>3, <3>1, <3>2
  <2>3. IdsInOrder'
    BY <1>4, <2>1, <2>2 DEF PoolInv, IdsInOrder, Started
  <2>4. /\ DOMAIN active' = DOMAIN active \cup {id0}
        /\ Block(active'[id0]) = Block(current)
        /\ \A i \in DOMAIN active : active'[i] = active[i]
    BY <2>1, <2>2 DEF Block
  <2>5. Block(current) = current.first .. cursor
    BY <1>2, <1>3, <1>8 DEF Block
  <2>6. \A v \in Workers : v \in available' <=>
                             \A i \in DOMAIN active' : v \notin Block(active'[i])
    BY <1>6, <2>4, <2>5
  <2>7. \A i \in DOMAIN active' :
           /\ Block(active'[i]) \subseteq Workers
           /\ \A k \in DOMAIN active' \ {i} : Block(active'[i]) \cap Block(active'[k]) = {}
    BY <1>2, <2>4 DEF PoolInv, NoRankShared
  <2>8. NoRankShared'
    BY <2>1, <2>6, <2>7 DEF NoRankShared
  <2> QED
    BY <1>1, <1>5, <2>3, <2>8 DEF PoolInv
<1> QED
  BY <1>7, <1>8

LEMMA StepPool == PoolInv /\ [Next]_vars => PoolInv'
<1> SUFFICES ASSUME PoolInv, [Next]_vars PROVE PoolInv'
    OBVIOUS
<1>1. TypeInv'
  BY StepType DEF PoolInv
<1>2. CASE Schedule
  BY <1>2, SchedulePool
<1>3. CASE \E w \in Workers : ReceiveAnswer(w)
  BY <1>3, ReceiveAnswerPool
<1>4. CASE RunJob
  BY <1>4, RunJobPool
<1>5. CASE SendJobReturns
  BY <1>5, SendJobReturnsPool
<1>6. CASE CallControl \/ FinishEarly \/ PopRest \/ Leave \/ ProbeFails \/ SendJob
           \/ ControlReturns \/ (\E w \in Workers : Worker(w)) \/ UNCHANGED vars
  <2>1. UNCHANGED <<poolVars, current, cursor>>
    BY <1>6 DEF CallControl, FinishEarly, PopRest, Leave, ProbeFails, SendJob,
       ControlReturns, Worker, ReceiveJob, CommCreated, RunnerReturns,
       ReplyReturns, ReceiveStop, vars, ctlVars
  <2> QED
    BY <1>1, <2>1, PoolUnchanged
<1>7. CASE Finish \/ SendStop \/ SendStopReturns
  <2>1. UNCHANGED <<poolVars, current>>
    BY <1>7 DEF Finish, SendStop, SendStopReturns
  <2>2. current = Idle
    BY <1>7 DEF PoolInv, TypeInv, LoopState, Finish, SendStop, SendStopReturns
  <2> QED
    BY <1>1, <2>1, <2>2, PoolUnchanged
<1> QED
  BY <1>2, <1>3, <1>4, <1>5, <1>6, <1>7 DEF Next, Controller, Terminated

\* No rank is ever given to two jobs and none to a controller's: for all numbers
\* of ranks and answers per job, duplicate and unknown answers included.
THEOREM RanksNeverShared == Spec => []NoRankShared
<1>1. Init => PoolInv
  BY InitPoolInv
<1>2. PoolInv /\ [Next]_vars => PoolInv'
  BY StepPool
<1>3. PoolInv => NoRankShared
  BY DEF PoolInv
<1> QED
  BY <1>1, <1>2, <1>3, PTL DEF Spec

-----------------------------------------------------------------------------
(* Assignments: at most one waits at a worker, in order, for an active job  *)

FullInv == PoolInv /\ MessageInv

LEMMA InitMessageInv == Init => MessageInv
<1> SUFFICES ASSUME Init PROVE MessageInv
    OBVIOUS
<1>1. /\ \A r \in Others : inbox[r] = <<>> /\ Len(inbox[r]) = 0
      /\ \A w \in Workers : answers[w] = <<>> /\ Len(answers[w]) = 0
      /\ \A w \in Workers : task[w] = Idle
      /\ \A id \in Ids : entered[id] = {}
      /\ \A w \in Workers : w \in Others
  BY EmptySeq, Constants DEF Init
<1>2. \A w \in Workers : Waiting(w) = {}
  BY <1>1 DEF Waiting
<1>3. EnteredInv /\ WaitingInv /\ TaskInv
  BY <1>1, <1>2 DEF EnteredInv, WaitingInv, TaskInv
<1>4. AnswerInv /\ StopInv /\ JobsInOrder
  BY <1>1, <1>2 DEF AnswerInv, StopInv, JobsInOrder
<1> QED
  BY <1>3, <1>4 DEF MessageInv

\* steps of rank 0 that neither post nor take a message nor touch active jobs
LEMMA MessagesUnchanged ==
    ASSUME MessageInv,
           UNCHANGED <<inbox, answers, entered, task, pc, current, active, Started>>,
           current # Idle => UNCHANGED <<cursor, posted>>,
           ctl \in {"stop", "after", "done"} => ctl' \in {"stop", "after", "done"}
    PROVE  MessageInv'
<1>1. \A w \in Workers : Waiting(w)' = Waiting(w)
  BY DEF Waiting
<1>2. current # Idle => \A w \in Workers : SentTo(w)' = SentTo(w)
  BY DEF SentTo
<1>3. EnteredInv'
  <2>1. \A id \in Ids : \A w \in entered[id] :
          /\ id < Started
          /\ \A k \in Waiting(w) : id < inbox[w][k].job.id
          /\ current # Idle /\ id = current.job.id => SentTo(w)
    BY DEF MessageInv, EnteredInv
  <2>2. \A w : Waiting(w)' = Waiting(w) /\ (current # Idle => (SentTo(w)' <=> SentTo(w)))
    BY DEF Waiting, SentTo
  <2> QED
    BY <2>1, <2>2 DEF MessageInv, EnteredInv
<1>4. WaitingInv'
  BY <1>1, <1>2 DEF MessageInv, WaitingInv
<1>5. TaskInv' /\ AnswerInv'
  BY DEF MessageInv, TaskInv, AnswerInv
<1>6. StopInv'
  BY DEF MessageInv, StopInv
<1>7. JobsInOrder'
  BY <1>1 DEF MessageInv, JobsInOrder
<1> QED
  BY <1>3, <1>4, <1>5, <1>6, <1>7 DEF MessageInv

\* what ReceiveAnswer needs: once a job is answered nobody still waits for it
LEMMA AnsweredNotWaiting ==
    ASSUME FullInv, NEW w \in Workers, answers[w] # <<>>, current = Idle,
           NEW v \in Workers, NEW k \in Waiting(v)
    PROVE  inbox[v][k].job.id # Head(answers[w]).id
<1> DEFINE id == Head(answers[w]).id
<1> SUFFICES ASSUME inbox[v][k].job.id = id PROVE FALSE
    OBVIOUS
<1>1. answers[w] \in Seq(Answer)
  BY DEF FullInv, PoolInv, TypeInv, TypeOK
<1>2. Head(answers[w]) = answers[w][1] /\ 1 \in 1 .. Len(answers[w]) /\ id \in Ids
  <2>1. /\ Head(answers[w]) \in Answer /\ Head(answers[w]) = answers[w][1]
        /\ Len(answers[w]) \in Nat /\ Len(answers[w]) >= 1
    BY <1>1, TailFacts
  <2> QED
    BY <2>1 DEF Answer
<1>3. id \in DOMAIN active => Block(active[id]) \subseteq entered[id]
  BY <1>2 DEF FullInv, MessageInv, AnswerInv
<1>4. /\ v \in Block(inbox[v][k])
      /\ id \in DOMAIN active /\ Block(active[id]) = Block(inbox[v][k])
  <2> DEFINE t == inbox[v][k]
  <2>1. /\ v \in Block(t) /\ t.job.id \in DOMAIN active
        /\ active[t.job.id] = [first |-> t.first, last |-> t.last]
    BY DEF FullInv, MessageInv, WaitingInv
  <2>2. active[t.job.id].first = t.first /\ active[t.job.id].last = t.last
    BY <2>1
  <2> QED
    BY <2>1, <2>2 DEF Block
<1>5. v \in entered[id]
  BY <1>3, <1>4
<1>6. id < inbox[v][k].job.id
  BY <1>2, <1>5 DEF FullInv, MessageInv, EnteredInv
<1>7. id \in Int
  BY <1>2 DEF Ids
<1> QED
  BY <1>6, <1>7

LEMMA ReceiveAnswerMessages ==
    ASSUME NEW w \in Workers, FullInv, ReceiveAnswer(w)
    PROVE  MessageInv'
<1> DEFINE a == Head(answers[w])
<1>1. current = Idle /\ current' = Idle /\ answers[w] # <<>>
  BY DEF FullInv, PoolInv, TypeInv, LoopState, ReceiveAnswer, ctlVars
<1>2. /\ UNCHANGED <<inbox, entered, task, pc, cursor, posted, ctl, jobs, nextId>>
      /\ active' = [id \in DOMAIN active \ {a.id} |-> active[id]]
      /\ answers' = [answers EXCEPT ![w] = Tail(@)]
  BY DEF ReceiveAnswer, ctlVars, workerVars
<1>3. Started' = Started
  BY <1>2 DEF Started
<1>4. \A v : Waiting(v)' = Waiting(v)
  BY <1>2 DEF Waiting
<1>5. \A i \in DOMAIN active : i # a.id => i \in DOMAIN active' /\ active'[i] = active[i]
  BY <1>2
<1>6. \A i \in DOMAIN active' : i \in DOMAIN active /\ active'[i] = active[i]
  BY <1>2
<1>7. EnteredInv'
  BY <1>1, <1>2, <1>3, <1>4 DEF FullInv, MessageInv, EnteredInv
<1>8. WaitingInv'
  <2> SUFFICES ASSUME NEW v \in Workers, NEW k \in Waiting(v)'
               PROVE  LET t == inbox'[v][k] IN
                      /\ v \in Block(t)
                      /\ t.job.id \in DOMAIN active'
                      /\ active'[t.job.id] = [first |-> t.first, last |-> t.last]
      BY DEF WaitingInv, Block
  <2>0. k \in Waiting(v) /\ inbox'[v][k] = inbox[v][k]
    BY <1>2, <1>4
  <2>1. inbox[v][k].job.id # a.id
    BY <1>1, <2>0, AnsweredNotWaiting
  <2>2. LET t == inbox[v][k] IN
        /\ v \in Block(t)
        /\ t.job.id \in DOMAIN active
        /\ active[t.job.id] = [first |-> t.first, last |-> t.last]
    BY <1>1, <2>0 DEF FullInv, MessageInv, WaitingInv
  <2> QED
    BY <2>0, <1>5, <2>1, <2>2
<1>9. TaskInv'
  BY <1>1, <1>2, <1>6 DEF FullInv, MessageInv, TaskInv
<1>10. AnswerInv'
  <2> SUFFICES ASSUME NEW v \in Workers, NEW k \in 1 .. Len(answers'[v])
               PROVE  LET id == answers'[v][k].id IN
                      /\ id < Started
                      /\ id \in DOMAIN active' => Block(active'[id]) \subseteq entered[id]
      BY <1>1, <1>2, <1>3 DEF AnswerInv
  <2>1. answers[v] \in Seq(Answer) /\ answers \in [Workers -> Seq(Answer)]
    BY DEF FullInv, PoolInv, TypeInv, TypeOK
  <2>2. PICK m \in 1 .. Len(answers[v]) : answers'[v][k] = answers[v][m]
    <3>1. CASE v = w
      <4>1. answers'[v] = Tail(answers[v])
        BY <1>2, <2>1, <3>1
      <4>2. k + 1 \in 1 .. Len(answers[v]) /\ answers'[v][k] = answers[v][k + 1]
        BY <1>1, <2>1, <3>1, <4>1, TailFacts
      <4> QED
        BY <4>2
    <3>2. CASE v # w
      BY <1>2, <2>1, <3>2
    <3> QED
      BY <3>1, <3>2
  <2>3. LET id == answers[v][m].id IN
        /\ id < Started
        /\ id \in DOMAIN active => Block(active[id]) \subseteq entered[id]
    BY DEF FullInv, MessageInv, AnswerInv
  <2> QED
    BY <1>6, <2>2, <2>3
<1>11. StopInv' /\ JobsInOrder'
  BY <1>2, <1>4 DEF FullInv, MessageInv, StopInv, JobsInOrder
<1> QED
  BY <1>7, <1>8, <1>9, <1>10, <1>11 DEF MessageInv

LEMMA RunJobMessages == FullInv /\ RunJob => MessageInv'
<1> SUFFICES ASSUME FullInv, RunJob PROVE MessageInv'
    OBVIOUS
<1>1. /\ jobs \in Seq(Job) /\ jobs # <<>> /\ nextId \in Int /\ current = Idle
      /\ ctl = "dispatch"
  BY Constants DEF FullInv, PoolInv, TypeInv, TypeOK, LoopState, RunJob
<1>2. /\ Len(jobs) \in Nat /\ Len(jobs') = Len(jobs) - 1 /\ nextId' = nextId
  BY <1>1, TailFacts DEF RunJob
<1>3. Started \in Int /\ Started' = Started + 1
  BY <1>1, <1>2 DEF Started
<1>4. /\ UNCHANGED <<inbox, answers, entered, task, pc, active>>
      /\ ctl' = "send"
  BY DEF RunJob, workerVars
<1>5. current' # Idle /\ current'.job.id = Started
  <2>1. PoolInv'
    BY RunJobPool DEF FullInv
  <2>2. current' # Idle /\ current'.job.id = Started' - 1
    BY <1>4, <2>1 DEF PoolInv, TypeInv, LoopState, IdsInOrder
  <2> QED
    BY <1>3, <2>2
<1>6. \A v : Waiting(v)' = Waiting(v)
  BY <1>4 DEF Waiting
<1>7. EnteredInv'
  <2>1. \A id \in Ids : \A w \in entered[id] :
          id \in Int /\ id < Started /\ \A k \in Waiting(w) : id < inbox[w][k].job.id
    BY DEF FullInv, MessageInv, EnteredInv, Ids
  <2>2. \A id \in Ids : \A w \in entered[id] : id < Started' /\ id # current'.job.id
    BY <1>3, <1>5, <2>1
  <2> QED
    BY <1>4, <1>6, <2>1, <2>2 DEF FullInv, MessageInv, EnteredInv
<1>8. WaitingInv'
  BY <1>1, <1>4, <1>6 DEF FullInv, MessageInv, WaitingInv
<1>9. TaskInv'
  <2>1. \A w \in Workers : task[w] # Idle => task[w].job.id # Started
    <3> SUFFICES ASSUME NEW w \in Workers, task[w] # Idle
                 PROVE  task[w].job.id # Started
        OBVIOUS
    <3>1. task[w].job.id \in Ids
      BY TaskFields DEF FullInv, PoolInv, TypeInv, TypeOK
    <3>2. task[w].job.id < Started
      BY <3>1 DEF FullInv, MessageInv, EnteredInv
    <3> QED
      BY <1>3, <3>1, <3>2 DEF Ids
  <2> QED
    BY <1>4, <1>5, <2>1 DEF FullInv, MessageInv, TaskInv
<1>10. AnswerInv'
  <2> SUFFICES ASSUME NEW w \in Workers, NEW k \in 1 .. Len(answers[w])
               PROVE  LET id == answers[w][k].id IN
                      /\ id < Started' /\ id # current'.job.id
                      /\ id \in DOMAIN active => Block(active[id]) \subseteq entered[id]
      BY <1>4 DEF AnswerInv
  <2>1. answers[w][k] \in Answer
    BY ElementOfSeq DEF FullInv, PoolInv, TypeInv, TypeOK
  <2>2. answers[w][k].id \in Int
    BY <2>1 DEF Answer, Ids
  <2>3. LET id == answers[w][k].id IN
        id < Started /\ (id \in DOMAIN active => Block(active[id]) \subseteq entered[id])
    BY DEF FullInv, MessageInv, AnswerInv
  <2> QED
    BY <1>3, <1>5, <2>2, <2>3
<1>11. StopInv'
  BY <1>1, <1>4 DEF FullInv, MessageInv, StopInv
<1>12. JobsInOrder'
  BY <1>4, <1>6 DEF FullInv, MessageInv, JobsInOrder
<1> QED
  BY <1>7, <1>8, <1>9, <1>10, <1>11, <1>12 DEF MessageInv

LEMMA SendJobMessages == FullInv /\ SendJob => MessageInv'
<1> SUFFICES ASSUME FullInv, SendJob PROVE MessageInv'
    OBVIOUS
<1>1. /\ ctl = "send" /\ ~posted /\ posted' = TRUE
      /\ inbox' = [inbox EXCEPT ![cursor] = Append(@, current)]
      /\ UNCHANGED <<ctl, cursor, current, active, jobs, nextId, answers, entered,
                     task, pc>>
  BY DEF SendJob, poolVars, workerVars
<1>2. /\ current \in Task /\ current # Idle /\ current.tag = "job"
      /\ current.first <= cursor /\ cursor <= current.last
  BY <1>1, TaskFields DEF FullInv, PoolInv, TypeInv, TypeOK, LoopState
<1>3. PICK c \in Workers : c = cursor /\ c \in Int /\ c \in Block(current) /\ c \in Others
  <2>1. cursor \in Int /\ current.first \in Int /\ current.last \in Int
    BY <1>2, TaskFields, Constants DEF FullInv, PoolInv, TypeInv, TypeOK, Others
  <2>2. cursor \in Block(current)
    BY <1>2, <2>1 DEF Block
  <2> QED
    BY <1>2, <2>1, <2>2, Constants DEF FullInv, PoolInv, NoRankShared
<1> DEFINE n == Len(inbox[c]) + 1
<1>4. /\ inbox \in [Others -> Seq(Task \cup {Stop})]
      /\ Len(inbox[c]) \in Nat /\ Len(inbox'[c]) = n
      /\ inbox'[c][n] = current
      /\ \A k \in 1 .. Len(inbox[c]) : inbox'[c][k] = inbox[c][k]
      /\ \A v \in Others : v # c => inbox'[v] = inbox[v]
  <2>1. inbox \in [Others -> Seq(Task \cup {Stop})]
    BY DEF FullInv, PoolInv, TypeInv, TypeOK
  <2>2. /\ inbox' = [inbox EXCEPT ![c] = Append(@, current)]
        /\ inbox'[c] = Append(inbox[c], current) /\ inbox[c] \in Seq(Task \cup {Stop})
    BY <1>1, <1>3, <2>1
  <2>3. current \in Task \cup {Stop}
    BY <1>2
  <2> QED
    BY <1>1, <2>1, <2>2, <2>3, AppendFacts
<1>5. /\ \A v \in Workers : v # c => Waiting(v)' = Waiting(v) /\ inbox'[v] = inbox[v]
      /\ Waiting(c)' = Waiting(c) \cup {n} /\ n \in Int
      /\ \A k \in Waiting(c) : k \in 1 .. Len(inbox[c]) /\ k < n
                               /\ inbox'[c][k] = inbox[c][k]
  <2>1. \A v \in Workers : v # c => inbox'[v] = inbox[v]
    BY <1>4, Constants
  <2>2. 1 .. n = (1 .. Len(inbox[c])) \cup {n}
    BY <1>4
  <2> QED
    BY <1>2, <1>4, <2>1, <2>2 DEF Waiting
<1>6. \A r : SentTo(r) => SentTo(r)'
  BY <1>1 DEF SentTo
<1>7. Started' = Started /\ Started \in Int /\ current.job.id = Started - 1
  BY <1>1, <1>2, LenProperties, Constants
     DEF FullInv, PoolInv, TypeInv, TypeOK, IdsInOrder, Started
<1>8. ~SentTo(c) /\ SentTo(c)'
  <2>1. cursor' = c /\ cursor = c /\ ~posted /\ posted'
    BY <1>1, <1>3
  <2> QED
    BY <1>3, <2>1 DEF SentTo
<1>9. \A id \in Ids : c \in entered[id] => id < current.job.id
  <2> SUFFICES ASSUME NEW id \in Ids, c \in entered[id] PROVE id < current.job.id
      OBVIOUS
  <2>1. id < Started /\ id # current.job.id
    BY <1>2, <1>8 DEF FullInv, MessageInv, EnteredInv
  <2> QED
    BY <1>7, <2>1 DEF Ids
<1>10. EnteredInv'
  <2>1. ASSUME NEW id \in Ids, NEW w \in entered[id]
        PROVE  /\ id < Started
               /\ \A k \in Waiting(w)' : id < inbox'[w][k].job.id
               /\ id = current.job.id => SentTo(w)'
    <3>1. /\ id < Started
          /\ \A k \in Waiting(w) : id < inbox[w][k].job.id
          /\ id = current.job.id => SentTo(w)
      BY <1>2 DEF FullInv, MessageInv, EnteredInv
    <3>2. w \in Workers
      BY DEF FullInv, PoolInv, TypeInv, TypeOK
    <3> QED
      BY <1>4, <1>5, <1>6, <1>9, <3>1, <3>2
  <2> QED
    BY <1>1, <1>7, <2>1 DEF FullInv, MessageInv, EnteredInv
<1>11. WaitingInv'
  <2> SUFFICES ASSUME NEW w \in Workers, NEW k \in Waiting(w)'
               PROVE  LET t == inbox'[w][k] IN
                      /\ w \in Block(t)
                      /\ \/ t = current /\ SentTo(w)'
                         \/ /\ t.job.id \in DOMAIN active
                            /\ active[t.job.id] = [first |-> t.first, last |-> t.last]
      BY <1>1, <1>2 DEF WaitingInv
  <2>1. CASE w = c /\ k = n
    BY <1>3, <1>4, <1>8, <2>1
  <2>2. CASE ~(w = c /\ k = n)
    <3>1. k \in Waiting(w) /\ inbox'[w][k] = inbox[w][k]
      BY <1>5, <2>2
    <3> QED
      BY <1>6, <3>1 DEF FullInv, MessageInv, WaitingInv
  <2> QED
    BY <2>1, <2>2
<1>12. TaskInv' /\ AnswerInv'
  BY <1>1, <1>7 DEF FullInv, MessageInv, TaskInv, AnswerInv
<1>13. \A r \in Others : \A k \in 1 .. Len(inbox'[r]) : inbox'[r][k].tag # "stop"
  <2> SUFFICES ASSUME NEW r \in Others, NEW k \in 1 .. Len(inbox'[r])
               PROVE  inbox'[r][k].tag # "stop"
      OBVIOUS
  <2>1. \A i \in 1 .. Len(inbox[r]) : inbox[r][i].tag # "stop"
    BY <1>1 DEF FullInv, MessageInv, StopInv
  <2>2. CASE r = c
    <3>1. k = n \/ k \in 1 .. Len(inbox[c])
      BY <1>4, <2>2
    <3> QED
      BY <1>2, <1>4, <2>1, <2>2, <3>1
  <2>3. CASE r # c
    BY <1>4, <2>1, <2>3
  <2> QED
    BY <2>2, <2>3
<1>14. StopInv'
  BY <1>13 DEF StopInv
<1>15. JobsInOrder'
  <2>1. \A j \in Waiting(c) : inbox[c][j].job.id < current.job.id
    <3> SUFFICES ASSUME NEW j \in Waiting(c) PROVE inbox[c][j].job.id < current.job.id
        OBVIOUS
    <3>1. inbox[c][j].job.id \in DOMAIN active
      BY <1>3, <1>8 DEF FullInv, MessageInv, WaitingInv
    <3> QED
      BY <1>2, <1>7, <3>1 DEF FullInv, PoolInv, IdsInOrder
  <2>2. task[c] # Idle => task[c].job.id < current.job.id
    <3>1. task[c] # Idle => task[c].job.id \in Ids /\ c \in entered[task[c].job.id]
      BY <1>3, TaskFields DEF FullInv, MessageInv, EnteredInv, PoolInv, TypeInv, TypeOK
    <3> QED
      BY <1>9, <3>1
  <2> SUFFICES ASSUME NEW w \in Workers, NEW k \in Waiting(w)'
               PROVE  /\ task[w] # Idle => task[w].job.id < inbox'[w][k].job.id
                      /\ \A j \in Waiting(w)' : j < k =>
                            inbox'[w][j].job.id < inbox'[w][k].job.id
      BY <1>1, <1>13, Constants DEF JobsInOrder
  <2>3. CASE w # c
    BY <1>5, <2>3 DEF FullInv, MessageInv, JobsInOrder
  <2>4. CASE w = c /\ k = n
    <3>1. \A j \in Waiting(c)' : j < n => j \in Waiting(c)
      BY <1>4, <1>5
    <3> QED
      BY <1>4, <1>5, <2>1, <2>2, <2>4, <3>1
  <2>5. CASE w = c /\ k # n
    <3>1. k \in Waiting(c) /\ k < n
      BY <1>5, <2>5
    <3>2. \A j \in Waiting(c)' : j < k => j \in Waiting(c)
      BY <1>4, <1>5, <3>1 DEF Waiting
    <3> QED
      BY <1>5, <2>5, <3>1, <3>2 DEF FullInv, MessageInv, JobsInOrder
  <2> QED
    BY <2>3, <2>4, <2>5
<1> QED
  BY <1>10, <1>11, <1>12, <1>14, <1>15 DEF MessageInv

LEMMA SendJobReturnsMessages == FullInv /\ SendJobReturns => MessageInv'
<1> SUFFICES ASSUME FullInv, SendJobReturns PROVE MessageInv'
    OBVIOUS
<1>1. /\ ctl = "send" /\ posted /\ posted' = FALSE /\ current # Idle
      /\ UNCHANGED <<jobs, nextId, inbox, answers, entered, task, pc>>
  BY DEF FullInv, PoolInv, TypeInv, LoopState, SendJobReturns, workerVars
<1>2. Started' = Started
  BY <1>1 DEF Started
<1>3. \A v : Waiting(v)' = Waiting(v)
  BY <1>1 DEF Waiting
<1>4. StopInv' /\ JobsInOrder'
  BY <1>1, <1>3 DEF FullInv, MessageInv, StopInv, JobsInOrder
<1>5. CASE cursor < current.last
  <2>1. cursor' = cursor + 1 /\ current' = current /\ active' = active
    BY <1>5 DEF SendJobReturns
  <2>2. \A w \in Workers : SentTo(w) => SentTo(w)'
    BY <1>1, <2>1, Constants DEF SentTo, Workers, FullInv, PoolInv, TypeInv, TypeOK
  <2>3. EnteredInv'
    <3>1. \A id \in Ids : entered[id] \subseteq Workers
      BY DEF FullInv, PoolInv, TypeInv, TypeOK
    <3> QED
      BY <1>1, <1>2, <1>3, <2>1, <2>2, <3>1 DEF FullInv, MessageInv, EnteredInv
  <2>4. WaitingInv'
    BY <1>1, <1>3, <2>1, <2>2 DEF FullInv, MessageInv, WaitingInv
  <2>5. TaskInv' /\ AnswerInv'
    BY <1>1, <1>2, <2>1 DEF FullInv, MessageInv, TaskInv, AnswerInv
  <2> QED
    BY <1>4, <2>3, <2>4, <2>5 DEF MessageInv
<1>6. CASE ~(cursor < current.last)
  <2> DEFINE id0   == current.job.id
             block == [first |-> current.first, last |-> current.last]
  <2>1. /\ active' = [id \in DOMAIN active \cup {id0} |->
                        IF id = id0 THEN block ELSE active[id]]
        /\ current' = Idle
    BY <1>6 DEF SendJobReturns
  <2>2. /\ DOMAIN active' = DOMAIN active \cup {id0} /\ active'[id0] = block
        /\ \A i \in DOMAIN active : i # id0 => active'[i] = active[i]
    BY <2>1
  <2>3. Block(block) = Block(current)
    BY DEF Block
  <2>4. id0 \notin DOMAIN active
    <3>1. id0 = Started - 1 /\ \A i \in DOMAIN active : i < Started - 1
      BY <1>1 DEF FullInv, PoolInv, IdsInOrder
    <3>2. id0 \in Int
      BY <1>1, TaskFields DEF FullInv, PoolInv, TypeInv, TypeOK, Ids
    <3> QED
      BY <3>1, <3>2
  <2>5. EnteredInv'
    BY <1>1, <1>2, <1>3, <2>1 DEF FullInv, MessageInv, EnteredInv
  <2>6. WaitingInv'
    <3> SUFFICES ASSUME NEW w \in Workers, NEW k \in Waiting(w)
                 PROVE  LET t == inbox[w][k] IN
                        /\ w \in Block(t) /\ t.job.id \in DOMAIN active'
                        /\ active'[t.job.id] = [first |-> t.first, last |-> t.last]
        BY <1>1, <1>3 DEF WaitingInv
    <3> DEFINE t == inbox[w][k]
    <3>1. /\ w \in Block(t)
          /\ \/ t = current
             \/ /\ t.job.id \in DOMAIN active
                /\ active[t.job.id] = [first |-> t.first, last |-> t.last]
      BY DEF FullInv, MessageInv, WaitingInv
    <3>2. CASE t = current
      BY <2>2, <3>1, <3>2
    <3>3. CASE t.job.id \in DOMAIN active
      BY <2>2, <2>4, <3>1, <3>3
    <3> QED
      BY <3>1, <3>2, <3>3
  <2>7. TaskInv'
    <3> SUFFICES ASSUME NEW w \in Workers, task[w] # Idle
                 PROVE  LET id == task[w].job.id IN
                        /\ id \in DOMAIN active' =>
                             active'[id] = [first |-> task[w].first, last |-> task[w].last]
                        /\ pc[w] \in {"run", "reply"} => Block(task[w]) \subseteq entered[id]
        BY <1>1, <2>1 DEF TaskInv
    <3>1. LET id == task[w].job.id IN
          /\ id = id0 => task[w] = current
          /\ id \in DOMAIN active =>
                active[id] = [first |-> task[w].first, last |-> task[w].last]
          /\ pc[w] \in {"run", "reply"} => Block(task[w]) \subseteq entered[id]
      BY <1>1 DEF FullInv, MessageInv, TaskInv
    <3> QED
      BY <2>2, <2>4, <3>1
  <2>8. AnswerInv'
    <3> SUFFICES ASSUME NEW w \in Workers, NEW k \in 1 .. Len(answers[w])
                 PROVE  LET id == answers[w][k].id IN
                        /\ id < Started
                        /\ id \in DOMAIN active' => Block(active'[id]) \subseteq entered[id]
        BY <1>1, <1>2, <2>1 DEF AnswerInv
    <3>1. LET id == answers[w][k].id IN
          /\ id < Started
          /\ id \in DOMAIN active => Block(active[id]) \subseteq entered[id]
          /\ id = id0 => Block(current) \subseteq entered[id]
      BY <1>1 DEF FullInv, MessageInv, AnswerInv
    <3> QED
      BY <2>2, <2>3, <3>1
  <2> QED
    BY <1>4, <2>5, <2>6, <2>7, <2>8 DEF MessageInv
<1> QED
  BY <1>5, <1>6

LEMMA SendStopMessages == FullInv /\ SendStop => MessageInv'
<1> SUFFICES ASSUME FullInv, SendStop PROVE MessageInv'
    OBVIOUS
<1>1. /\ ctl = "stop" /\ current = Idle /\ current' = Idle /\ cursor \in Others
      /\ inbox' = [inbox EXCEPT ![cursor] = Append(@, Stop)]
      /\ UNCHANGED <<ctl, active, jobs, nextId, answers, entered, task, pc>>
  BY DEF FullInv, PoolInv, TypeInv, LoopState, SendStop, poolVars, workerVars
<1>2. PICK c \in Others : c = cursor
  BY <1>1
<1> DEFINE n == Len(inbox[c]) + 1
<1>3. /\ Len(inbox[c]) \in Nat /\ Len(inbox'[c]) = n /\ inbox'[c][n] = Stop
      /\ \A k \in 1 .. Len(inbox[c]) : inbox'[c][k] = inbox[c][k]
      /\ \A v \in Others : v # c => inbox'[v] = inbox[v]
  <2>1. inbox \in [Others -> Seq(Task \cup {Stop})] /\ Stop \in Task \cup {Stop}
    BY DEF FullInv, PoolInv, TypeInv, TypeOK
  <2>2. inbox'[c] = Append(inbox[c], Stop) /\ inbox[c] \in Seq(Task \cup {Stop})
    BY <1>1, <1>2, <2>1
  <2> QED
    BY <1>1, <1>2, <2>1, <2>2, AppendFacts
<1>4. Stop.tag = "stop"
  BY DEF Stop
<1>5. \A v \in Workers : /\ Waiting(v)' = Waiting(v)
                         /\ \A k \in Waiting(v) : inbox'[v][k] = inbox[v][k]
  <2> SUFFICES ASSUME NEW v \in Workers
               PROVE  /\ Waiting(v)' = Waiting(v)
                      /\ \A k \in Waiting(v) : inbox'[v][k] = inbox[v][k]
      OBVIOUS
  <2>1. CASE v # c
    BY <1>3, <2>1, Constants DEF Waiting
  <2>2. CASE v = c
    <3>1. 1 .. n = (1 .. Len(inbox[c])) \cup {n}
      BY <1>3
    <3> QED
      BY <1>3, <1>4, <2>2, <3>1 DEF Waiting
  <2> QED
    BY <2>1, <2>2
<1>6. Started' = Started
  BY <1>1 DEF Started
<1>7. \A id \in Ids : entered[id] \subseteq Workers
  BY DEF FullInv, PoolInv, TypeInv, TypeOK
<1>8. EnteredInv'
  <2>1. ASSUME NEW id \in Ids, NEW w \in entered[id]
        PROVE  id < Started /\ \A k \in Waiting(w)' : id < inbox'[w][k].job.id
    <3>1. id < Started /\ \A k \in Waiting(w) : id < inbox[w][k].job.id
      BY DEF FullInv, MessageInv, EnteredInv
    <3> QED
      BY <1>5, <1>7, <3>1
  <2> QED
    BY <1>1, <1>6, <2>1 DEF FullInv, MessageInv, EnteredInv
<1>9. WaitingInv'
  <2> SUFFICES ASSUME NEW w \in Workers, NEW k \in Waiting(w)'
               PROVE  LET t == inbox'[w][k] IN
                      /\ w \in Block(t) /\ t.job.id \in DOMAIN active
                      /\ active[t.job.id] = [first |-> t.first, last |-> t.last]
      BY <1>1 DEF WaitingInv
  <2>1. k \in Waiting(w) /\ inbox'[w][k] = inbox[w][k]
    BY <1>5
  <2> QED
    BY <1>1, <2>1 DEF FullInv, MessageInv, WaitingInv
<1>10. TaskInv' /\ AnswerInv'
  BY <1>1, <1>6 DEF FullInv, MessageInv, TaskInv, AnswerInv
<1>11. StopInv'
  BY <1>1 DEF StopInv
<1>12. JobsInOrder'
  <2> SUFFICES ASSUME NEW w \in Workers, NEW k \in Waiting(w)'
               PROVE  /\ task[w] # Idle => task[w].job.id < inbox'[w][k].job.id
                      /\ \A j \in Waiting(w)' : j < k =>
                            inbox'[w][j].job.id < inbox'[w][k].job.id
                      /\ \A j \in 1 .. Len(inbox'[w]) : inbox'[w][j].tag = "stop" => k < j
      BY <1>1 DEF JobsInOrder
  <2>0. k \in Waiting(w)
    BY <1>5
  <2>1. /\ task[w] # Idle => task[w].job.id < inbox[w][k].job.id
        /\ \A j \in Waiting(w) : j < k => inbox[w][j].job.id < inbox[w][k].job.id
        /\ \A j \in 1 .. Len(inbox[w]) : inbox[w][j].tag = "stop" => k < j
    BY <2>0 DEF FullInv, MessageInv, JobsInOrder
  <2>2. \A j \in 1 .. Len(inbox'[w]) : inbox'[w][j].tag = "stop" => k < j
    <3>1. CASE w # c
      BY <1>3, <2>1, <3>1, Constants
    <3>2. CASE w = c
      <4>1. k \in 1 .. Len(inbox[c])
        BY <2>0, <3>2 DEF Waiting
      <4>2. 1 .. Len(inbox'[c]) = (1 .. Len(inbox[c])) \cup {n} /\ k < n
        BY <1>3, <4>1
      <4> QED
        BY <1>3, <2>1, <3>2, <4>2
    <3> QED
      BY <3>1, <3>2
  <2>3. /\ task[w] # Idle => task[w].job.id < inbox'[w][k].job.id
        /\ \A j \in Waiting(w)' : j < k => inbox'[w][j].job.id < inbox'[w][k].job.id
    BY <1>5, <2>0, <2>1
  <2> QED
    BY <2>2, <2>3
<1> QED
  BY <1>8, <1>9, <1>10, <1>11, <1>12 DEF MessageInv

\* how a worker's Tail moves the positions of its inbox
Shift(v, w) == IF v = w THEN 1 ELSE 0

LEMMA InboxTail ==
    ASSUME FullInv, NEW w \in Workers, inbox[w] # <<>>,
           inbox' = [inbox EXCEPT ![w] = Tail(@)]
    PROVE  \A v \in Others : \A k \in 1 .. Len(inbox'[v]) :
              /\ k + Shift(v, w) \in 1 .. Len(inbox[v])
              /\ inbox'[v][k] = inbox[v][k + Shift(v, w)]
<1> SUFFICES ASSUME NEW v \in Others, NEW k \in 1 .. Len(inbox'[v])
             PROVE  /\ k + Shift(v, w) \in 1 .. Len(inbox[v])
                    /\ inbox'[v][k] = inbox[v][k + Shift(v, w)]
    OBVIOUS
<1>1. inbox \in [Others -> Seq(Task \cup {Stop})] /\ w \in Others
  BY Constants DEF FullInv, PoolInv, TypeInv, TypeOK
<1>2. CASE v = w
  <2>1. inbox'[w] = Tail(inbox[w]) /\ inbox[w] \in Seq(Task \cup {Stop})
    BY <1>1
  <2>2. /\ Len(inbox[w]) \in Nat /\ Len(Tail(inbox[w])) = Len(inbox[w]) - 1
        /\ \A i \in 1 .. Len(inbox[w]) - 1 : Tail(inbox[w])[i] = inbox[w][i + 1]
    BY <2>1, TailFacts
  <2>3. k \in 1 .. Len(inbox[w]) - 1 /\ inbox'[v][k] = inbox[w][k + 1]
    BY <1>2, <2>1, <2>2
  <2>4. Shift(v, w) = 1
    BY <1>2 DEF Shift
  <2>5. k + 1 \in 1 .. Len(inbox[w])
    BY <2>2, <2>3
  <2> QED
    BY <1>2, <2>3, <2>4, <2>5
<1>3. CASE v # w
  <2>1. inbox'[v] = inbox[v] /\ Shift(v, w) = 0
    BY <1>1, <1>3 DEF Shift
  <2>2. k + 0 = k
    OBVIOUS
  <2> QED
    BY <2>1, <2>2
<1> QED
  BY <1>2, <1>3

\* hence what still waits did so before, in the same order
LEMMA WaitingTail ==
    ASSUME FullInv, NEW w \in Workers, inbox[w] # <<>>,
           inbox' = [inbox EXCEPT ![w] = Tail(@)]
    PROVE  \A v \in Workers : \A k \in Waiting(v)' :
              /\ k \in Int /\ k >= 1
              /\ k + Shift(v, w) \in Waiting(v)
              /\ inbox'[v][k] = inbox[v][k + Shift(v, w)]
<1> SUFFICES ASSUME NEW v \in Workers, NEW k \in Waiting(v)'
             PROVE  /\ k \in Int /\ k >= 1
                    /\ k + Shift(v, w) \in Waiting(v)
                    /\ inbox'[v][k] = inbox[v][k + Shift(v, w)]
    OBVIOUS
<1>1. k \in 1 .. Len(inbox'[v]) /\ inbox'[v][k].tag = "job" /\ v \in Others
  BY Constants DEF Waiting
<1>2. /\ k + Shift(v, w) \in 1 .. Len(inbox[v])
      /\ inbox'[v][k] = inbox[v][k + Shift(v, w)]
  BY <1>1, InboxTail
<1>3. k + Shift(v, w) \in Waiting(v)
  BY <1>1, <1>2 DEF Waiting
<1> QED
  BY <1>1, <1>2, <1>3

\* taking a message keeps the order of the rest
LEMMA TailInOrder ==
    ASSUME FullInv, NEW w \in Workers, inbox[w] # <<>>,
           inbox' = [inbox EXCEPT ![w] = Tail(@)],
           NEW v \in Workers, NEW k \in Waiting(v)'
    PROVE  /\ \A j \in Waiting(v)' : j < k => inbox'[v][j].job.id < inbox'[v][k].job.id
           /\ \A j \in 1 .. Len(inbox'[v]) : inbox'[v][j].tag = "stop" => k < j
<1> DEFINE d == Shift(v, w)
<1>1. d \in Int
  BY DEF Shift
<1>2. k \in Int /\ k + d \in Waiting(v) /\ inbox'[v][k] = inbox[v][k + d]
  BY WaitingTail
<1>3. /\ \A j \in Waiting(v) : j < k + d => inbox[v][j].job.id < inbox[v][k + d].job.id
      /\ \A j \in 1 .. Len(inbox[v]) : inbox[v][j].tag = "stop" => k + d < j
  BY <1>2 DEF FullInv, MessageInv, JobsInOrder
<1>4. ASSUME NEW j \in Waiting(v)', j < k
      PROVE  inbox'[v][j].job.id < inbox'[v][k].job.id
  <2>1. j \in Int /\ j + d \in Waiting(v) /\ inbox'[v][j] = inbox[v][j + d]
    BY WaitingTail
  <2>2. j + d < k + d
    BY <1>1, <1>2, <1>4, <2>1
  <2> QED
    BY <1>2, <1>3, <2>1, <2>2
<1>5. ASSUME NEW j \in 1 .. Len(inbox'[v]), inbox'[v][j].tag = "stop"
      PROVE  k < j
  <2>1. j + d \in 1 .. Len(inbox[v]) /\ inbox'[v][j] = inbox[v][j + d]
    BY InboxTail, Constants
  <2>2. k + d < j + d
    BY <1>3, <1>5, <2>1
  <2> QED
    BY <1>1, <1>2, <2>2
<1> QED
  BY <1>4, <1>5

LEMMA ReceiveJobMessages ==
    ASSUME NEW w \in Workers, FullInv, ReceiveJob(w)
    PROVE  MessageInv'
<1> DEFINE t  == Head(inbox[w])
           id == t.job.id
<1>1. /\ inbox[w] # <<>> /\ t.tag = "job"
      /\ inbox' = [inbox EXCEPT ![w] = Tail(@)]
      /\ UNCHANGED <<ctl, cursor, posted, current, active, jobs, nextId, answers>>
  BY DEF ReceiveJob, ctlVars, poolVars
<1>2. /\ t \in Task /\ id \in Ids /\ t = inbox[w][1] /\ 1 \in Waiting(w)
  <2>1. inbox[w] \in Seq(Task \cup {Stop})
    BY Constants DEF FullInv, PoolInv, TypeInv, TypeOK
  <2>2. /\ t \in Task \cup {Stop} /\ t = inbox[w][1]
        /\ Len(inbox[w]) \in Nat /\ Len(inbox[w]) >= 1
    BY <1>1, <2>1, TailFacts
  <2> QED
    BY <1>1, <2>2, MessageKind, TaskFields DEF Waiting
<1>3. /\ task' = [task EXCEPT ![w] = t]
      /\ pc' = [pc EXCEPT ![w] = "join"]
      /\ entered' = [entered EXCEPT ![id] = @ \cup {w}]
  BY DEF ReceiveJob
<1>4. /\ task'[w] = t /\ pc'[w] = "join" /\ t # Idle
      /\ \A v \in Workers : v # w => task'[v] = task[v] /\ pc'[v] = pc[v]
      /\ \A i \in Ids : entered[i] \subseteq entered'[i] /\ entered[i] \subseteq Workers
      /\ entered'[id] = entered[id] \cup {w}
      /\ \A i \in Ids : i # id => entered'[i] = entered[i]
  BY <1>2, <1>3, TaskFields DEF FullInv, PoolInv, TypeInv, TypeOK
<1>5. Started' = Started /\ Started \in Int
  BY <1>1, LenProperties, Constants DEF FullInv, PoolInv, TypeInv, TypeOK, Started
<1>6. /\ \/ t = current /\ current # Idle /\ SentTo(w)
         \/ id \in DOMAIN active /\ active[id] = [first |-> t.first, last |-> t.last]
      /\ w \in Block(t)
  BY <1>2 DEF FullInv, MessageInv, WaitingInv
<1>7. /\ current # Idle => current.job.id = Started - 1
      /\ \A i \in DOMAIN active : i < Started /\ (current # Idle => i < Started - 1)
  BY DEF FullInv, PoolInv, IdsInOrder
<1>8. /\ id < Started
      /\ current # Idle /\ id = current.job.id => t = current /\ SentTo(w)
      /\ id \in DOMAIN active => active[id] = [first |-> t.first, last |-> t.last]
  <2>1. id \in Int
    BY <1>2 DEF Ids
  <2> QED
    BY <1>5, <1>6, <1>7, <2>1
<1>9. \A v \in Workers : SentTo(v) => SentTo(v)'
  BY <1>1 DEF SentTo
<1>10. \A k \in Waiting(w)' : id < inbox'[w][k].job.id
  <2> SUFFICES ASSUME NEW k \in Waiting(w)' PROVE id < inbox'[w][k].job.id
      OBVIOUS
  <2>1. k \in Int /\ k >= 1 /\ k + 1 \in Waiting(w) /\ inbox'[w][k] = inbox[w][k + 1]
    BY <1>1, WaitingTail DEF Shift
  <2>2. 1 < k + 1
    BY <2>1
  <2> QED
    BY <1>2, <2>1, <2>2 DEF FullInv, MessageInv, JobsInOrder
<1>11. EnteredInv'
  <2>1. ASSUME NEW i \in Ids, NEW v \in entered'[i]
        PROVE  /\ i < Started
               /\ \A k \in Waiting(v)' : i < inbox'[v][k].job.id
               /\ current # Idle /\ i = current.job.id => SentTo(v)'
    <3>1. CASE v \in entered[i]
      <4>1. /\ v \in Workers /\ i < Started
            /\ \A k \in Waiting(v) : i < inbox[v][k].job.id
            /\ current # Idle /\ i = current.job.id => SentTo(v)
        BY <1>4, <3>1 DEF FullInv, MessageInv, EnteredInv
      <4>2. \A k \in Waiting(v)' : i < inbox'[v][k].job.id
        BY <1>1, <4>1, WaitingTail
      <4> QED
        BY <1>9, <4>1, <4>2
    <3>2. CASE v \notin entered[i]
      <4>1. i = id /\ v = w
        BY <1>4, <3>2
      <4> QED
        BY <1>8, <1>9, <1>10, <4>1
    <3> QED
      BY <3>1, <3>2
  <2>2. ASSUME NEW v \in Workers, task'[v] # Idle
        PROVE  v \in entered'[task'[v].job.id]
    <3>1. CASE v = w
      BY <1>4, <3>1
    <3>2. CASE v # w
      <4>1. task'[v] = task[v] /\ task[v].job.id \in Ids
        BY <1>4, <2>2, <3>2, TaskFields DEF FullInv, PoolInv, TypeInv, TypeOK
      <4>2. v \in entered[task[v].job.id]
        BY <2>2, <4>1 DEF FullInv, MessageInv, EnteredInv
      <4> QED
        BY <1>4, <4>1, <4>2
    <3> QED
      BY <3>1, <3>2
  <2> QED
    BY <1>1, <1>5, <2>1, <2>2 DEF EnteredInv
<1>12. WaitingInv'
  <2> SUFFICES ASSUME NEW v \in Workers, NEW k \in Waiting(v)'
               PROVE  LET m == inbox'[v][k] IN
                      /\ v \in Block(m)
                      /\ \/ m = current /\ current # Idle /\ SentTo(v)'
                         \/ /\ m.job.id \in DOMAIN active
                            /\ active[m.job.id] = [first |-> m.first, last |-> m.last]
      BY <1>1 DEF WaitingInv
  <2>1. k + Shift(v, w) \in Waiting(v) /\ inbox'[v][k] = inbox[v][k + Shift(v, w)]
    BY <1>1, WaitingTail
  <2> QED
    BY <1>9, <2>1 DEF FullInv, MessageInv, WaitingInv
<1>13. TaskInv'
  <2> SUFFICES ASSUME NEW v \in Workers, task'[v] # Idle
               PROVE  LET i == task'[v].job.id IN
                      /\ current # Idle /\ i = current.job.id => task'[v] = current
                      /\ i \in DOMAIN active =>
                           active[i] = [first |-> task'[v].first, last |-> task'[v].last]
                      /\ pc'[v] \in {"run", "reply"} => Block(task'[v]) \subseteq entered'[i]
      BY <1>1 DEF TaskInv
  <2>1. CASE v = w
    BY <1>4, <1>8, <2>1
  <2>2. CASE v # w
    <3>1. task'[v] = task[v] /\ pc'[v] = pc[v] /\ task[v].job.id \in Ids
      BY <1>4, <2>2, TaskFields DEF FullInv, PoolInv, TypeInv, TypeOK
    <3>2. entered[task[v].job.id] \subseteq entered'[task[v].job.id]
      BY <1>4, <3>1
    <3> QED
      BY <3>1, <3>2 DEF FullInv, MessageInv, TaskInv
  <2> QED
    BY <2>1, <2>2
<1>14. AnswerInv'
  <2> SUFFICES ASSUME NEW v \in Workers, NEW k \in 1 .. Len(answers[v])
               PROVE  LET i == answers[v][k].id IN
                      /\ i < Started
                      /\ i \in DOMAIN active => Block(active[i]) \subseteq entered'[i]
                      /\ current # Idle /\ i = current.job.id =>
                            Block(current) \subseteq entered'[i]
      BY <1>1, <1>5 DEF AnswerInv
  <2>0. answers[v] \in Seq(Answer)
    BY DEF FullInv, PoolInv, TypeInv, TypeOK
  <2>1. answers[v][k].id \in Ids
    <3>1. answers[v][k] \in Answer
      BY <2>0, ElementOfSeq
    <3> QED
      BY <3>1 DEF Answer
  <2>2. entered[answers[v][k].id] \subseteq entered'[answers[v][k].id]
    BY <1>4, <2>1
  <2> QED
    BY <2>2 DEF FullInv, MessageInv, AnswerInv
<1>15. StopInv'
  BY <1>1, InboxTail DEF FullInv, MessageInv, StopInv
<1>16. JobsInOrder'
  <2>1. ASSUME NEW v \in Workers, NEW k \in Waiting(v)', task'[v] # Idle
        PROVE  task'[v].job.id < inbox'[v][k].job.id
    <3>1. CASE v = w
      BY <1>4, <1>10, <3>1
    <3>2. CASE v # w
      <4>1. task'[v] = task[v] /\ task[v] # Idle
        BY <1>4, <2>1, <3>2
      <4>2. k + Shift(v, w) \in Waiting(v) /\ inbox'[v][k] = inbox[v][k + Shift(v, w)]
        BY <1>1, WaitingTail
      <4> QED
        BY <4>1, <4>2 DEF FullInv, MessageInv, JobsInOrder
    <3> QED
      BY <3>1, <3>2
  <2> QED
    BY <1>1, <2>1, TailInOrder DEF JobsInOrder
<1> QED
  BY <1>11, <1>12, <1>13, <1>14, <1>15, <1>16 DEF MessageInv

LEMMA ReceiveStopMessages ==
    ASSUME NEW w \in Workers, FullInv, ReceiveStop(w)
    PROVE  MessageInv'
<1>1. /\ inbox[w] # <<>> /\ inbox' = [inbox EXCEPT ![w] = Tail(@)]
      /\ pc' = [pc EXCEPT ![w] = "done"]
      /\ UNCHANGED <<ctl, cursor, posted, current, active, jobs, nextId, answers,
                     task, entered>>
  BY DEF ReceiveStop, ctlVars, poolVars
<1>2. Started' = Started /\ \A v : SentTo(v)' <=> SentTo(v)
  BY <1>1 DEF Started, SentTo
<1>3. \A v \in Workers : pc'[v] \in {"run", "reply"} => pc[v] \in {"run", "reply"}
  BY <1>1 DEF FullInv, PoolInv, TypeInv, TypeOK
<1>4. \A v \in Workers : \A k \in Waiting(v)' :
         k + Shift(v, w) \in Waiting(v) /\ inbox'[v][k] = inbox[v][k + Shift(v, w)]
  BY <1>1, WaitingTail
<1>5. EnteredInv'
  <2>1. \A i \in Ids : entered[i] \subseteq Workers
    BY DEF FullInv, PoolInv, TypeInv, TypeOK
  <2>2. ASSUME NEW i \in Ids, NEW v \in entered[i]
        PROVE  /\ i < Started
               /\ \A k \in Waiting(v)' : i < inbox'[v][k].job.id
               /\ current # Idle /\ i = current.job.id => SentTo(v)
    <3>1. v \in Workers
      BY <2>1
    <3> QED
      BY <1>4, <3>1 DEF FullInv, MessageInv, EnteredInv
  <2>3. \A v \in Workers : task[v] # Idle => v \in entered[task[v].job.id]
    BY DEF FullInv, MessageInv, EnteredInv
  <2> QED
    BY <1>1, <1>2, <2>2, <2>3 DEF EnteredInv
<1>6. WaitingInv'
  <2> SUFFICES ASSUME NEW v \in Workers, NEW k \in Waiting(v)'
               PROVE  LET m == inbox'[v][k] IN
                      /\ v \in Block(m)
                      /\ \/ m = current' /\ current' # Idle /\ SentTo(v)'
                         \/ /\ m.job.id \in DOMAIN active'
                            /\ active'[m.job.id] = [first |-> m.first, last |-> m.last]
      BY DEF WaitingInv, Block
  <2>1. LET m == inbox'[v][k] IN
        /\ v \in Block(m)
        /\ \/ m = current /\ current # Idle /\ SentTo(v)
           \/ /\ m.job.id \in DOMAIN active
              /\ active[m.job.id] = [first |-> m.first, last |-> m.last]
    BY <1>4 DEF FullInv, MessageInv, WaitingInv
  <2> QED
    BY <1>1, <1>2, <2>1
<1>7. TaskInv' /\ AnswerInv'
  BY <1>1, <1>2, <1>3 DEF FullInv, MessageInv, TaskInv, AnswerInv
<1>8. StopInv'
  BY <1>1, InboxTail DEF FullInv, MessageInv, StopInv
<1>9. JobsInOrder'
  <2>1. \A v \in Workers : \A k \in Waiting(v)' :
           task[v] # Idle => task[v].job.id < inbox'[v][k].job.id
    BY <1>4 DEF FullInv, MessageInv, JobsInOrder
  <2> QED
    BY <1>1, <2>1, TailInOrder DEF JobsInOrder
<1> QED
  BY <1>5, <1>6, <1>7, <1>8, <1>9 DEF MessageInv

\* the worker steps that leave its inbox alone
LEMMA CommCreatedMessages ==
    ASSUME NEW w \in Workers, FullInv, CommCreated(w)
    PROVE  MessageInv'
<1>1. /\ pc' = [pc EXCEPT ![w] = "run"] /\ AllEntered(w)
      /\ UNCHANGED <<ctl, cursor, posted, current, active, jobs, nextId, inbox,
                     answers, task, entered>>
  BY DEF CommCreated, ctlVars, poolVars
<1>2. Started' = Started /\ \A v : (SentTo(v)' <=> SentTo(v)) /\ Waiting(v)' = Waiting(v)
  BY <1>1 DEF Started, SentTo, Waiting
<1>3. /\ EnteredInv' /\ AnswerInv' /\ StopInv' /\ JobsInOrder'
  BY <1>1, <1>2 DEF FullInv, MessageInv, EnteredInv, AnswerInv, StopInv, JobsInOrder
<1>4. WaitingInv'
  BY <1>1, <1>2 DEF FullInv, MessageInv, WaitingInv
<1>5. TaskInv'
  <2>1. \A v \in Workers : v # w => pc'[v] = pc[v]
    BY <1>1 DEF FullInv, PoolInv, TypeInv, TypeOK
  <2>2. Block(task[w]) \subseteq entered[task[w].job.id]
    BY <1>1 DEF AllEntered, Block
  <2> QED
    BY <1>1, <2>1, <2>2 DEF FullInv, MessageInv, TaskInv
<1> QED
  BY <1>3, <1>4, <1>5 DEF MessageInv

\* a worker that gives its task up, its inbox and the answers aside
LEMMA TaskDropped ==
    ASSUME NEW w \in Workers, FullInv,
           pc' = [pc EXCEPT ![w] = "listen"], task' = [task EXCEPT ![w] = Idle],
           UNCHANGED <<ctl, cursor, posted, current, active, jobs, nextId, inbox, entered>>
    PROVE  EnteredInv' /\ WaitingInv' /\ TaskInv' /\ StopInv' /\ JobsInOrder'
<1>1. Started' = Started /\ \A v : (SentTo(v)' <=> SentTo(v)) /\ Waiting(v)' = Waiting(v)
  BY DEF Started, SentTo, Waiting
<1>2. \A v \in Workers : task'[v] # Idle => task'[v] = task[v] /\ pc'[v] = pc[v]
  BY DEF FullInv, PoolInv, TypeInv, TypeOK
<1>3. EnteredInv' /\ StopInv' /\ JobsInOrder'
  BY <1>1, <1>2 DEF FullInv, MessageInv, EnteredInv, StopInv, JobsInOrder
<1>4. WaitingInv'
  BY <1>1 DEF FullInv, MessageInv, WaitingInv
<1>5. TaskInv'
  BY <1>2 DEF FullInv, MessageInv, TaskInv
<1> QED
  BY <1>3, <1>4, <1>5

LEMMA ReplyReturnsMessages ==
    ASSUME NEW w \in Workers, FullInv, ReplyReturns(w)
    PROVE  MessageInv'
<1>1. /\ pc' = [pc EXCEPT ![w] = "listen"] /\ task' = [task EXCEPT ![w] = Idle]
      /\ UNCHANGED <<ctl, cursor, posted, current, active, jobs, nextId, inbox,
                     answers, entered>>
  BY DEF ReplyReturns, ctlVars, poolVars
<1>2. Started' = Started
  BY <1>1 DEF Started
<1>3. AnswerInv'
  BY <1>1, <1>2 DEF FullInv, MessageInv, AnswerInv
<1> QED
  BY <1>1, <1>3, TaskDropped DEF MessageInv

\* an answer is sent by a rank of a job all whose ranks have entered
LEMMA RunnerReturnsMessages ==
    ASSUME NEW w \in Workers, FullInv, RunnerReturns(w)
    PROVE  MessageInv'
<1>1. /\ pc[w] = "run"
      /\ UNCHANGED <<ctl, cursor, posted, current, active, jobs, nextId, inbox, entered>>
  BY DEF RunnerReturns, ctlVars, poolVars
<1>2. /\ Started' = Started
      /\ \A v : (SentTo(v)' <=> SentTo(v)) /\ Waiting(v)' = Waiting(v)
  BY <1>1 DEF Started, SentTo, Waiting
<1>3. CASE ~Replies(w)
  <2>1. /\ pc' = [pc EXCEPT ![w] = "listen"] /\ task' = [task EXCEPT ![w] = Idle]
        /\ answers' = answers
    BY <1>3 DEF RunnerReturns
  <2>2. AnswerInv'
    BY <1>1, <1>2, <2>1 DEF FullInv, MessageInv, AnswerInv
  <2> QED
    BY <1>1, <2>1, <2>2, TaskDropped DEF MessageInv
<1>4. CASE Replies(w)
  <2> DEFINE a == [id |-> task[w].job.id, kind |-> Returned(w)]
  <2>1. /\ answers' = [answers EXCEPT ![w] = Append(@, a)]
        /\ pc' = [pc EXCEPT ![w] = "reply"] /\ task' = task
    BY <1>4 DEF RunnerReturns
  <2>2. /\ task[w] # Idle
        /\ \A v \in Workers : pc'[v] \in {"run", "reply"} => pc[v] \in {"run", "reply"}
    BY <1>1, <2>1 DEF FullInv, PoolInv, TypeInv, TypeOK, LoopState
  <2>3. task[w] \in Task /\ a.id = task[w].job.id /\ a.id \in Ids
    BY <2>2, TaskFields DEF FullInv, PoolInv, TypeInv, TypeOK
  <2>4. /\ a.id < Started
        /\ a.id \in DOMAIN active => Block(active[a.id]) \subseteq entered[a.id]
        /\ current # Idle /\ a.id = current.job.id => Block(current) \subseteq entered[a.id]
    <3>1. w \in entered[a.id] /\ Block(task[w]) \subseteq entered[a.id]
      BY <1>1, <2>2, <2>3 DEF FullInv, MessageInv, EnteredInv, TaskInv
    <3>2. a.id < Started
      BY <2>3, <3>1 DEF FullInv, MessageInv, EnteredInv
    <3>3. a.id \in DOMAIN active => Block(active[a.id]) = Block(task[w])
      <4>1. a.id \in DOMAIN active =>
               active[a.id] = [first |-> task[w].first, last |-> task[w].last]
        BY <2>2, <2>3 DEF FullInv, MessageInv, TaskInv
      <4> QED
        BY <4>1 DEF Block
    <3>4. current # Idle /\ a.id = current.job.id => task[w] = current
      BY <2>2, <2>3 DEF FullInv, MessageInv, TaskInv
    <3> QED
      BY <3>1, <3>2, <3>3, <3>4
  <2>5. AnswerInv'
    <3> SUFFICES ASSUME NEW v \in Workers, NEW k \in 1 .. Len(answers'[v])
                 PROVE  LET i == answers'[v][k].id IN
                        /\ i < Started
                        /\ i \in DOMAIN active => Block(active[i]) \subseteq entered[i]
                        /\ current # Idle /\ i = current.job.id =>
                              Block(current) \subseteq entered[i]
        BY <1>1, <1>2 DEF AnswerInv
    <3>1. answers'[v][k] = a \/ (k \in 1 .. Len(answers[v]) /\ answers'[v][k] = answers[v][k])
      <4>1. answers \in [Workers -> Seq(Answer)]
        BY DEF FullInv, PoolInv, TypeInv, TypeOK
      <4>2. CASE v = w
        <5>1. answers'[w] = Append(answers[w], a) /\ answers[w] \in Seq(Answer)
          BY <2>1, <4>1
        <5>2. /\ Len(answers'[w]) = Len(answers[w]) + 1 /\ Len(answers[w]) \in Nat
              /\ \A i \in 1 .. Len(answers[w]) : answers'[w][i] = answers[w][i]
              /\ answers'[w][Len(answers[w]) + 1] = a
          BY <5>1, AppendProperties, LenProperties
        <5>3. k \in 1 .. Len(answers[w]) \/ k = Len(answers[w]) + 1
          BY <4>2, <5>2
        <5> QED
          BY <4>2, <5>2, <5>3
      <4>3. CASE v # w
        BY <2>1, <4>1, <4>3
      <4> QED
        BY <4>2, <4>3
    <3> QED
      BY <2>4, <3>1 DEF FullInv, MessageInv, AnswerInv
  <2>6. EnteredInv' /\ StopInv' /\ JobsInOrder'
    BY <1>1, <1>2, <2>1 DEF FullInv, MessageInv, EnteredInv, StopInv, JobsInOrder
  <2>7. WaitingInv'
    BY <1>1, <1>2 DEF FullInv, MessageInv, WaitingInv
  <2>8. TaskInv'
    BY <1>1, <2>1, <2>2 DEF FullInv, MessageInv, TaskInv
  <2> QED
    BY <2>5, <2>6, <2>7, <2>8 DEF MessageInv
<1> QED
  BY <1>3, <1>4

LEMMA StepFull == FullInv /\ [Next]_vars => FullInv'
<1> SUFFICES ASSUME FullInv, [Next]_vars PROVE FullInv'
    OBVIOUS
<1>1. PoolInv'
  BY StepPool DEF FullInv
<1>2. CASE \E w \in Workers : Worker(w)
  BY <1>1, <1>2, ReceiveJobMessages, CommCreatedMessages, RunnerReturnsMessages,
     ReplyReturnsMessages, ReceiveStopMessages DEF Worker, FullInv
<1>3. CASE \E w \in Workers : ReceiveAnswer(w)
  BY <1>1, <1>3, ReceiveAnswerMessages DEF FullInv
<1>4. CASE RunJob \/ SendJob \/ SendJobReturns \/ SendStop
  BY <1>1, <1>4, RunJobMessages, SendJobMessages, SendJobReturnsMessages,
     SendStopMessages DEF FullInv
<1>5. CASE Schedule
  <2>1. jobs \in Seq(Job) /\ nextId \in Int
    BY Constants DEF FullInv, PoolInv, TypeInv, TypeOK
  <2>3. \E f \in Functions : jobs' = Append(jobs, [id |-> nextId, fn |-> f])
    BY <1>5 DEF Schedule, Enqueue
  <2>4. PICK f \in Functions : jobs' = Append(jobs, [id |-> nextId, fn |-> f])
    BY <2>3
  <2>5. nextId \in Ids
    BY <1>5, Constants DEF Schedule, Ids, FullInv, PoolInv, TypeInv, TypeOK
  <2>6. Len(jobs') = Len(jobs) + 1 /\ Len(jobs) \in Int
    BY <2>1, <2>4, <2>5, AppendProperties, LenProperties DEF Job
  <2>7. Started' = Started
    BY <1>5, <2>1, <2>6 DEF Schedule, Started
  <2>8. UNCHANGED <<inbox, answers, entered, task, pc, current, active, cursor, posted, ctl>>
    BY <1>5 DEF Schedule, ctlVars, workerVars
  <2> QED
    BY <1>1, <2>7, <2>8, MessagesUnchanged DEF FullInv
<1>6. CASE CallControl \/ FinishEarly \/ PopRest \/ Leave \/ ProbeFails
           \/ ControlReturns \/ Finish \/ SendStopReturns \/ UNCHANGED vars
  <2>1. UNCHANGED <<inbox, answers, entered, task, pc, current, active, jobs, nextId>>
    BY <1>6 DEF CallControl, FinishEarly, PopRest, Leave, ProbeFails, ControlReturns,
       Finish, SendStopReturns, vars, ctlVars, poolVars, workerVars
  <2>2. Started' = Started
    BY <2>1 DEF Started
  <2>3. current # Idle => UNCHANGED <<cursor, posted>>
    <3>1. current # Idle => ctl = "send"
      BY DEF FullInv, PoolInv, TypeInv, LoopState
    <3> QED
      BY <1>6, <3>1 DEF CallControl, FinishEarly, PopRest, Leave, ProbeFails,
         ControlReturns, Finish, SendStopReturns, vars, ctlVars
  <2>4. ctl \in {"stop", "after", "done"} => ctl' \in {"stop", "after", "done"}
    BY <1>6 DEF CallControl, FinishEarly, PopRest, Leave, ProbeFails, ControlReturns,
       Finish, SendStopReturns, vars, ctlVars
  <2> QED
    BY <1>1, <2>1, <2>2, <2>3, <2>4, MessagesUnchanged DEF FullInv
<1> QED
  BY <1>2, <1>3, <1>4, <1>5, <1>6 DEF Next, Controller, Terminated

LEMMA FullInvariant == Spec => []FullInv
<1>1. Init => FullInv
  BY InitPoolInv, InitMessageInv DEF FullInv
<1>2. FullInv /\ [Next]_vars => FullInv'
  BY StepFull
<1> QED
  BY <1>1, <1>2, PTL DEF Spec

\* The ranks of a job take up their jobs in the order of the ids, whatever is
\* scheduled and however the steps of rank 0 and the workers interleave.
THEOREM AssignmentsInOrder == Spec => []JobsInOrder
<1>1. FullInv => JobsInOrder
  BY DEF FullInv, MessageInv
<1> QED
  BY <1>1, FullInvariant, PTL

\* Nobody is left behind: a job that rank 0 takes for finished was taken up by all
\* the ranks it was sent to, before the first of them answered.
THEOREM WaitingForActiveJob == Spec => []WaitingJobsActive
<1>1. ASSUME FullInv PROVE WaitingJobsActive
  <2> SUFFICES ASSUME NEW w \in Workers, NEW k \in Waiting(w)
               PROVE  LET t == inbox[w][k] IN
                      \/ t = current
                      \/ /\ t.job.id \in DOMAIN active
                         /\ Block(t) = Block(active[t.job.id])
      BY DEF WaitingJobsActive
  <2> DEFINE t == inbox[w][k]
  <2>1. \/ t = current
        \/ /\ t.job.id \in DOMAIN active
           /\ active[t.job.id] = [first |-> t.first, last |-> t.last]
    BY <1>1 DEF FullInv, MessageInv, WaitingInv
  <2> QED
    BY <2>1 DEF Block
<1> QED
  BY <1>1, FullInvariant, PTL

\* A worker never has two assignments waiting, although its ranks are given away
\* again on the first answer: both would belong to jobs that share the worker.
THEOREM AtMostOneWaits == Spec => []OneJobWaiting
<1>1. ASSUME FullInv PROVE OneJobWaiting
  <2> SUFFICES ASSUME NEW w \in Workers, NEW j \in Waiting(w), NEW k \in Waiting(w),
                      j < k
               PROVE  FALSE
    <3>1. \A v \in Workers : \A i \in Waiting(v) : i \in Int
      BY DEF Waiting
    <3> QED
      BY <3>1 DEF OneJobWaiting
  <2> DEFINE s == inbox[w][j]
             t == inbox[w][k]
  <2>1. s.job.id < t.job.id
    BY <1>1 DEF FullInv, MessageInv, JobsInOrder
  <2>2. /\ w \in Block(s)
        /\ \/ s = current /\ current # Idle
           \/ /\ s.job.id \in DOMAIN active
              /\ active[s.job.id] = [first |-> s.first, last |-> s.last]
    BY <1>1 DEF FullInv, MessageInv, WaitingInv
  <2>3. /\ w \in Block(t)
        /\ \/ t = current /\ current # Idle
           \/ /\ t.job.id \in DOMAIN active
              /\ active[t.job.id] = [first |-> t.first, last |-> t.last]
    BY <1>1 DEF FullInv, MessageInv, WaitingInv
  <2>4. s.job.id # t.job.id
    <3>1. w \in Others /\ inbox[w] \in Seq(Task \cup {Stop})
      BY <1>1, Constants DEF FullInv, PoolInv, TypeInv, TypeOK
    <3>2. /\ s \in Task \cup {Stop} /\ s.tag = "job"
          /\ t \in Task \cup {Stop} /\ t.tag = "job"
      BY <3>1, ElementOfSeq DEF Waiting
    <3>3. s.job.id \in Int /\ t.job.id \in Int
      BY <3>2, MessageKind, TaskFields DEF Ids
    <3> QED
      BY <2>1, <3>3
  <2>5. \A i \in DOMAIN active :
           /\ \A m \in DOMAIN active \ {i} : Block(active[i]) \cap Block(active[m]) = {}
           /\ current # Idle => Block(active[i]) \cap Block(current) = {}
    BY <1>1 DEF FullInv, PoolInv, NoRankShared
  <2>6. /\ s.job.id \in DOMAIN active /\ active[s.job.id] = [first |-> s.first, last |-> s.last]
             => Block(active[s.job.id]) = Block(s)
        /\ t.job.id \in DOMAIN active /\ active[t.job.id] = [first |-> t.first, last |-> t.last]
             => Block(active[t.job.id]) = Block(t)
    BY DEF Block
  <2> QED
    BY <2>2, <2>3, <2>4, <2>5, <2>6
<1> QED
  BY <1>1, FullInvariant, PTL

-----------------------------------------------------------------------------
(* find_available_procs(): the one pass over the ranks finds the first fit  *)

\* the smaller numbers come first in a well-founded order
LEMMA NatOrder ==
    \E R : IsWellFoundedOn(R, Nat) /\ \A x, y \in Nat : y < x => <<y, x>> \in R
<1>1. IsWellFoundedOn(OpToRel(<, Nat), Nat)
  BY NatLessThanWellFounded
<1>2. \A x, y \in Nat : y < x => <<y, x>> \in OpToRel(<, Nat)
  BY Zenon DEF OpToRel
<1> QED
  BY <1>1, <1>2, Zenon

LEMMA Smallest ==
    ASSUME NEW T, T \subseteq Nat, T # {}
    PROVE  \E x \in T : \A y \in T : x <= y
<1>1. PICK R : IsWellFoundedOn(R, Nat) /\ \A x, y \in Nat : y < x => <<y, x>> \in R
  BY NatOrder
<1>2. \E x \in T : \A y \in T : ~ (<<y, x>> \in R)
  BY <1>1, WFMin, Zenon
<1>3. PICK x \in T : \A y \in T : ~ (<<y, x>> \in R)
  BY <1>2
<1>4. ASSUME NEW y \in T PROVE x <= y
  <2>1. x \in Nat /\ y \in Nat /\ ~ (<<y, x>> \in R)
    BY <1>3
  <2>2. y < x => <<y, x>> \in R
    BY <1>1, <2>1, Zenon
  <2> QED
    BY <2>1, <2>2
<1> QED
  BY <1>4

LEMMA Induction ==
    ASSUME NEW S, 0 \in S, \A n \in Nat : n \in S => n + 1 \in S
    PROVE  Nat \subseteq S
<1> SUFFICES ASSUME Nat \ S # {} PROVE FALSE
  OBVIOUS
<1>1. PICK x \in Nat \ S : \A y \in Nat \ S : x <= y
  BY Smallest
<1>2. x - 1 \in Nat /\ x - 1 \in S
  BY <1>1
<1> QED
  BY <1>1, <1>2

\* how far below rank k there is one that ends a row: rank 0, or one not available
Gaps(k) == {n \in 0 .. k : k - n = 0 \/ k - n \notin available}

\* the available ranks in a row that end at k
RowLength(k) == CHOOSE n \in Gaps(k) : \A m \in Gaps(k) : n <= m

LEMMA RowFacts ==
    ASSUME NEW k \in Nat
    PROVE  /\ RowLength(k) \in 0 .. k /\ RowLength(k) \in Gaps(k)
           /\ \A m \in Gaps(k) : RowLength(k) <= m
<1>1. Gaps(k) \subseteq Nat /\ k \in Gaps(k)
  BY DEF Gaps
<1>2. \E n \in Gaps(k) : \A m \in Gaps(k) : n <= m
  BY <1>1, Smallest
<1>3. RowLength(k) \in Gaps(k) /\ \A m \in Gaps(k) : RowLength(k) <= m
  BY <1>2 DEF RowLength
<1>4. Gaps(k) \subseteq 0 .. k
  BY DEF Gaps
<1> QED
  BY <1>3, <1>4

\* an available rank makes the row of the one before it longer by one
LEMMA RowGrows ==
    ASSUME NEW k \in Nat
    PROVE  RowLength(k) = IF k = 0 \/ k \notin available THEN 0 ELSE RowLength(k - 1) + 1
<1>1. CASE k = 0 \/ k \notin available
  <2>1. 0 \in Gaps(k)
    BY <1>1 DEF Gaps
  <2>2. RowLength(k) \in 0 .. k /\ RowLength(k) <= 0
    BY <2>1, RowFacts
  <2>3. RowLength(k) = 0
    BY <2>2
  <2> QED
    BY <1>1, <2>3
<1>2. CASE k # 0 /\ k \in available
  <2>1. k - 1 \in Nat
    BY <1>2
  <2>2. PICK a \in Nat : a = RowLength(k)
    BY RowFacts
  <2>3. PICK b \in Nat : b = RowLength(k - 1)
    BY <2>1, RowFacts
  <2>4. a \in Gaps(k) /\ b \in Gaps(k - 1)
    BY <2>1, <2>2, <2>3, RowFacts
  <2>5. b + 1 \in Gaps(k)
    BY <2>4, <1>2 DEF Gaps
  <2>6. a # 0 /\ a - 1 \in Gaps(k - 1)
    BY <2>4, <1>2 DEF Gaps
  <2>7. a <= b + 1
    BY <2>2, <2>5, RowFacts
  <2>8. b <= a - 1
    BY <2>1, <2>3, <2>6, RowFacts
  <2>9. a = b + 1
    BY <2>2, <2>3, <2>7, <2>8
  <2> QED
    BY <1>2, <2>2, <2>3, <2>9
<1> QED
  BY <1>1, <1>2

\* "procs" in the code's loop
Counted(f) ==
    f = [k \in Procs |-> IF k = 0 \/ k \notin available THEN 0 ELSE f[k - 1] + 1]

LEMMA CountedFacts ==
    ASSUME NEW f, Counted(f)
    PROVE  \A k \in Procs : f[k] = IF k = 0 \/ k \notin available THEN 0 ELSE f[k - 1] + 1
BY DEF Counted

LEMMA CountedExists == \E f : Counted(f)
<1>1. PICK f : f = [k \in Procs |-> RowLength(k)]
  OBVIOUS
<1>2. ASSUME NEW k \in Procs
      PROVE  f[k] = IF k = 0 \/ k \notin available THEN 0 ELSE f[k - 1] + 1
  <2>1. k \in Nat /\ (k # 0 => k - 1 \in Procs)
    BY Constants DEF Procs
  <2>2. RowLength(k) = IF k = 0 \/ k \notin available THEN 0 ELSE RowLength(k - 1) + 1
    BY <2>1, RowGrows
  <2> QED
    BY <1>1, <2>1, <2>2
<1>3. f = [k \in Procs |-> IF k = 0 \/ k \notin available THEN 0 ELSE f[k - 1] + 1]
  BY <1>1, <1>2
<1> QED
  BY <1>3 DEF Counted

\* the count is the length of the row
LEMMA CountIsLength ==
    ASSUME NEW i \in Procs
    PROVE  InARow(i) = RowLength(i)
<1>1. PICK f : Counted(f) /\ InARow(i) = f[i]
  <2>1. PICK g : g = CHOOSE f : Counted(f)
    OBVIOUS
  <2>2. Counted(g)
    BY <2>1, CountedExists
  <2>3. InARow(i) = g[i]
    BY <2>1 DEF InARow, Counted
  <2> QED
    BY <2>2, <2>3
<1> DEFINE S == {n \in Nat : n \in Procs => f[n] = RowLength(n)}
<1>2. \A k \in Procs : f[k] = IF k = 0 \/ k \notin available THEN 0 ELSE f[k - 1] + 1
  BY <1>1, CountedFacts
<1>3. 0 \in S
  <2>1. RowLength(0) = 0
    BY RowGrows
  <2> QED
    BY <1>2, <2>1
<1>4. ASSUME NEW n \in Nat, n \in S PROVE n + 1 \in S
  <2> SUFFICES ASSUME n + 1 \in Procs PROVE f[n + 1] = RowLength(n + 1)
    OBVIOUS
  <2>1. n \in Procs /\ n + 1 \in Nat /\ (n + 1) - 1 = n /\ n + 1 # 0
    BY Constants DEF Procs
  <2>2. f[n] = RowLength(n)
    BY <1>4, <2>1
  <2>3. f[n + 1] = IF n + 1 \notin available THEN 0 ELSE f[n] + 1
    BY <1>2, <2>1
  <2>4. RowLength(n + 1) = IF n + 1 \notin available THEN 0 ELSE RowLength(n) + 1
    BY <2>1, RowGrows
  <2> QED
    BY <2>2, <2>3, <2>4
<1>5. Nat \subseteq S
  <2> HIDE DEF S
  <2> QED
    BY <1>3, <1>4, Induction
<1>6. i \in Nat
  BY DEF Procs
<1> QED
  BY <1>1, <1>5, <1>6

\* where the count reaches n, a block of n available ranks ends
LEMMA RowFits ==
    ASSUME NEW n \in Nat, n >= 1, NEW e \in Others, InARow(e) = n
    PROVE  e - n + 1 \in Others /\ Fits(e - n + 1, n)
<1>1. e \in Nat /\ e \in Procs /\ e <= Size - 1 /\ Size \in Nat
  BY Constants DEF Others, Procs
<1>2. RowLength(e) = n
  BY <1>1, CountIsLength
<1>3. n <= e /\ \A m \in Gaps(e) : n <= m
  BY <1>1, <1>2, RowFacts
<1>4. ASSUME NEW r \in e - n + 1 .. e PROVE r \in available
  <2>1. e - r \in 0 .. e /\ e - r < n /\ e - (e - r) = r
    BY <1>1, <1>3
  <2>2. e - r \notin Gaps(e)
    BY <1>3, <2>1
  <2> QED
    BY <2>1, <2>2 DEF Gaps
<1>5. (e - n + 1) + n - 1 = e
  BY <1>1
<1>6. e - n + 1 \in Others
  BY <1>1, <1>3 DEF Others
<1> QED
  BY <1>4, <1>5, <1>6 DEF Fits

\* the count reaches n exactly where the first fit ends: one rank earlier the row would
\* hold an earlier fit
LEMMA FirstFitRow ==
    ASSUME NEW n \in Nat, n >= 1, NEW j \in FirstFit(n), available \subseteq Procs
    PROVE  j + n - 1 \in Others /\ InARow(j + n - 1) = n
<1>1. j \in Others /\ j + n - 1 \in Others
  BY FirstFitBlock
<1>2. Fits(j, n) /\ \A k \in 1 .. j - 1 : ~Fits(k, n)
  BY DEF FirstFit
<1>3. PICK e : e = j + n - 1
  OBVIOUS
<1>4. /\ j \in Nat /\ j >= 1 /\ e \in Nat /\ e >= n /\ e \in Procs
  BY <1>1, <1>3, Constants DEF Others
<1>5. InARow(e) = RowLength(e)
  BY <1>4, CountIsLength
<1>6. PICK a \in Nat : a = RowLength(e) /\ a \in Gaps(e) /\ \A m \in Gaps(e) : a <= m
  BY <1>4, RowFacts
<1>7. ~(a < n)
  <2> SUFFICES ASSUME a < n PROVE FALSE
    OBVIOUS
  <2>1. e - a \in j .. j + n - 1 /\ e - a # 0
    BY <1>3, <1>4, <1>6
  <2>2. e - a \in available
    BY <1>2, <2>1 DEF Fits
  <2> QED
    BY <1>6, <2>1, <2>2 DEF Gaps
<1>8. ~(n < a)
  <2> SUFFICES ASSUME n < a PROVE FALSE
    OBVIOUS
  <2>1. n \notin Gaps(e)
    BY <1>6
  <2>2. n \in 0 .. e
    BY <1>4
  <2>3. e - n # 0 /\ e - n \in available
    BY <2>1, <2>2 DEF Gaps
  <2>4. e - n = j - 1 /\ j - 1 \in 1 .. j - 1
    BY <1>3, <1>4, <2>3
  <2>5. ASSUME NEW r \in j - 1 .. (j - 1) + n - 1 PROVE r \in available
    <3>1. r = j - 1 \/ r \in j .. j + n - 1
      BY <1>4
    <3> QED
      BY <1>2, <2>3, <2>4, <3>1 DEF Fits
  <2>6. Fits(j - 1, n)
    BY <2>5 DEF Fits
  <2> QED
    BY <1>2, <2>4, <2>6
<1> QED
  BY <1>1, <1>3, <1>5, <1>6, <1>7, <1>8

\* a fit is the first one, or there is an earlier first one
LEMMA FirstOfFits ==
    ASSUME NEW n \in Nat, NEW i \in Others, Fits(i, n)
    PROVE  \E j \in FirstFit(n) : j <= i
<1> DEFINE T == {k \in Others : Fits(k, n)}
<1>1. T \subseteq Nat /\ i \in T
  BY DEF Others
<1>2. PICK j \in T : \A k \in T : j <= k
  <2> HIDE DEF T
  <2> QED
    BY <1>1, Smallest
<1>3. \A k \in 1 .. j - 1 : ~Fits(k, n)
  <2> SUFFICES ASSUME NEW k \in 1 .. j - 1, Fits(k, n) PROVE FALSE
    OBVIOUS
  <2>1. k \in Others /\ k < j
    BY <1>2, Constants DEF Others
  <2> QED
    BY <1>2, <2>1 DEF Others
<1>4. j \in FirstFit(n)
  BY <1>2, <1>3 DEF FirstFit
<1> QED
  BY <1>1, <1>2, <1>4

LEMMA ScanFinds == TypeOK => ScanIsFirstFit
<1> SUFFICES ASSUME available \subseteq Procs, NEW n \in 1 .. Size
             PROVE  FirstFit(n) = {FindAvailableProcs(n)} \ {Size}
  BY DEF TypeOK, ScanIsFirstFit
<1>1. n \in Nat /\ n >= 1 /\ Size \in Nat
  BY Constants
<1>2. PICK ends : ends = {i \in Others : InARow(i) = n}
  OBVIOUS
<1>3. FindAvailableProcs(n) =
        IF ends = {} THEN Size ELSE (CHOOSE i \in ends : \A k \in ends : i <= k) - (n - 1)
  BY <1>2 DEF FindAvailableProcs
<1>4. \A j \in FirstFit(n) : j + n - 1 \in ends
  BY <1>1, <1>2, FirstFitRow
<1>5. CASE ends = {}
  BY <1>3, <1>4, <1>5
<1>6. CASE ends # {}
  <2>1. ends \subseteq Nat
    BY <1>2 DEF Others
  <2>2. PICK e \in ends : /\ \A k \in ends : e <= k
                          /\ e = CHOOSE i \in ends : \A k \in ends : i <= k
    BY <1>6, <2>1, Smallest
  <2>3. e \in Others /\ InARow(e) = n
    BY <1>2, <2>2
  <2>4. PICK i \in Others : i = e - n + 1 /\ Fits(i, n)
    BY <1>1, <2>3, RowFits
  <2>5. PICK j \in FirstFit(n) : j <= i
    BY <1>1, <2>4, FirstOfFits
  <2>6. j \in Others /\ e <= j + n - 1
    BY <1>4, <2>2, <2>5 DEF FirstFit
  <2>7. j = i
    <3>1. e \in Nat /\ j \in Nat
      BY <2>1, <2>6 DEF Others
    <3>2. i = e - n + 1 /\ j <= i /\ e <= j + n - 1
      BY <2>4, <2>5, <2>6
    <3> QED
      BY <1>1, <3>1, <3>2
  <2>8. \A k \in FirstFit(n) : k = j
    <3> SUFFICES ASSUME NEW k \in FirstFit(n) PROVE k = j
      OBVIOUS
    <3>1. k \in Others /\ Fits(k, n) /\ ~(j \in 1 .. k - 1)
      BY <2>5 DEF FirstFit
    <3>2. Fits(j, n) /\ ~(k \in 1 .. j - 1)
      BY <2>5, <3>1 DEF FirstFit
    <3> QED
      BY <2>6, <3>1, <3>2 DEF Others
  <2>9. FindAvailableProcs(n) = j /\ j # Size
    <3>1. FindAvailableProcs(n) = e - (n - 1)
      BY <1>3, <1>6, <2>2
    <3>2. e \in Nat
      BY <2>1, <2>2
    <3>3. j # Size
      BY <1>1, <2>6 DEF Others
    <3> QED
      BY <1>1, <2>4, <2>7, <3>1, <3>2, <3>3
  <2> QED
    BY <2>5, <2>8, <2>9
<1> QED
  BY <1>5, <1>6

\* run_job() gives a job the lowest block of ranks that are free for it, and keeps it
\* waiting only if there is none, in whatever pattern earlier jobs have freed theirs.
THEOREM LowestBlockFound == Spec => []ScanIsFirstFit
<1>1. FullInv => TypeOK
  BY DEF FullInv, PoolInv, TypeInv
<1> QED
  BY <1>1, FullInvariant, ScanFinds, PTL
=============================================================================
