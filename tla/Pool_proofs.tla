---------------------------- MODULE Pool_proofs ----------------------------
(***************************************************************************)
(* Scheduler implements JobPool, for every number of ranks, controllers and *)
(* jobs: if one rank of each job answers, at most, every step of rank 0 and  *)
(* the workers is a step of the pool, or leaves it alone.                    *)
(***************************************************************************)
EXTENDS Answers_proofs

\* what the pool sees of the scheduler's variables
WaitingJobs == [k \in 1 .. Len(jobs) |-> [id |-> jobs[k].id, size |-> jobs[k].fn.size]]

Running == IF current = Idle
           THEN [id \in DOMAIN active |-> Block(active[id])]
           ELSE [id \in DOMAIN active \cup {current.job.id} |->
                   IF id = current.job.id THEN Block(current) ELSE Block(active[id])]

-----------------------------------------------------------------------------
(* Sequences seen through a function                                        *)

Mapped(s, g) == [k \in 1 .. Len(s) |-> g[s[k]]]

Images(S, g) == {g[x] : x \in S}

LEMMA MappedSeq ==
    ASSUME NEW S, NEW s \in Seq(S), NEW g
    PROVE  /\ Mapped(s, g) \in Seq(Images(S, g)) /\ Len(Mapped(s, g)) = Len(s)
           /\ \A k \in 1 .. Len(s) : Mapped(s, g)[k] = g[s[k]]
<1>1. Len(s) \in Nat /\ \A k \in 1 .. Len(s) : s[k] \in S
  BY LenProperties, ElementOfSeq
<1>2. Mapped(s, g) \in [1 .. Len(s) -> Images(S, g)]
  BY <1>1 DEF Mapped, Images
<1>3. Mapped(s, g) \in Seq(Images(S, g))
  BY <1>1, <1>2, SeqDef
<1>4. Len(Mapped(s, g)) \in Nat /\ 1 .. Len(Mapped(s, g)) = 1 .. Len(s)
  <2>1. DOMAIN Mapped(s, g) = 1 .. Len(s)
    BY <1>2
  <2> QED
    BY <1>3, <2>1, LenProperties
<1>5. Len(Mapped(s, g)) = Len(s)
  BY <1>1, <1>4
<1> QED
  BY <1>3, <1>5 DEF Mapped

LEMMA MappedAppend ==
    ASSUME NEW S, NEW s \in Seq(S), NEW g, NEW e \in S
    PROVE  Mapped(Append(s, e), g) = Append(Mapped(s, g), g[e])
<1> DEFINE t == Append(s, e)
           m == Mapped(s, g)
<1>1. /\ t \in Seq(S) /\ Len(s) \in Nat /\ Len(t) = Len(s) + 1
      /\ \A i \in 1 .. Len(s) : t[i] = s[i]
      /\ t[Len(s) + 1] = e
  BY AppendFacts
<1>2. /\ m \in Seq(Images(S, g)) /\ Len(m) = Len(s) /\ \A k \in 1 .. Len(s) : m[k] = g[s[k]]
      /\ Mapped(t, g) \in Seq(Images(S, g)) /\ Len(Mapped(t, g)) = Len(t)
      /\ \A k \in 1 .. Len(t) : Mapped(t, g)[k] = g[t[k]]
  <2>1. m \in Seq(Images(S, g)) /\ Len(m) = Len(s) /\ \A k \in 1 .. Len(s) : m[k] = g[s[k]]
    BY MappedSeq
  <2> HIDE DEF t
  <2>2. /\ Mapped(t, g) \in Seq(Images(S, g)) /\ Len(Mapped(t, g)) = Len(t)
        /\ \A k \in 1 .. Len(t) : Mapped(t, g)[k] = g[t[k]]
    BY <1>1, MappedSeq
  <2> QED
    BY <2>1, <2>2
<1> HIDE DEF m, t
<1>3. g[e] \in Images(S, g)
  BY DEF Images
<1>4. /\ Append(m, g[e]) \in Seq(Images(S, g)) /\ Len(Append(m, g[e])) = Len(s) + 1
      /\ \A i \in 1 .. Len(s) : Append(m, g[e])[i] = m[i]
      /\ Append(m, g[e])[Len(s) + 1] = g[e]
  BY <1>2, <1>3, AppendProperties
<1>5. \A i \in 1 .. Len(s) + 1 : Mapped(t, g)[i] = Append(m, g[e])[i]
  <2> SUFFICES ASSUME NEW i \in 1 .. Len(s) + 1
               PROVE  Mapped(t, g)[i] = Append(m, g[e])[i]
      OBVIOUS
  <2>1. CASE i \in 1 .. Len(s)
    BY <1>1, <1>2, <1>4, <2>1
  <2>2. CASE i = Len(s) + 1
    BY <1>1, <1>2, <1>4, <2>2
  <2>3. i \in 1 .. Len(s) \/ i = Len(s) + 1
    BY <1>1
  <2> QED
    BY <2>1, <2>2, <2>3
<1>6. Mapped(t, g) = Append(m, g[e])
  BY <1>1, <1>2, <1>4, <1>5, SeqEqual
<1> QED
  BY <1>6 DEF m, t

LEMMA MappedTail ==
    ASSUME NEW S, NEW s \in Seq(S), NEW g, s # <<>>
    PROVE  /\ Mapped(s, g) # <<>> /\ Head(Mapped(s, g)) = g[Head(s)]
           /\ Mapped(Tail(s), g) = Tail(Mapped(s, g))
<1> DEFINE t == Tail(s)
           m == Mapped(s, g)
<1>1. /\ t \in Seq(S) /\ Len(s) \in Nat /\ Len(s) >= 1 /\ Len(t) = Len(s) - 1
      /\ Head(s) = s[1] /\ \A i \in 1 .. Len(s) - 1 : t[i] = s[i + 1]
  BY TailFacts
<1>2. /\ m \in Seq(Images(S, g)) /\ Len(m) = Len(s) /\ \A k \in 1 .. Len(s) : m[k] = g[s[k]]
      /\ Mapped(t, g) \in Seq(Images(S, g)) /\ Len(Mapped(t, g)) = Len(t)
      /\ \A k \in 1 .. Len(t) : Mapped(t, g)[k] = g[t[k]]
  <2>1. m \in Seq(Images(S, g)) /\ Len(m) = Len(s) /\ \A k \in 1 .. Len(s) : m[k] = g[s[k]]
    BY MappedSeq
  <2> HIDE DEF t
  <2>2. /\ Mapped(t, g) \in Seq(Images(S, g)) /\ Len(Mapped(t, g)) = Len(t)
        /\ \A k \in 1 .. Len(t) : Mapped(t, g)[k] = g[t[k]]
    BY <1>1, MappedSeq
  <2> QED
    BY <2>1, <2>2
<1> HIDE DEF m, t
<1>3. m # <<>>
  BY <1>1, <1>2, EmptySeq
<1>4. /\ Head(m) = m[1] /\ Tail(m) \in Seq(Images(S, g)) /\ Len(Tail(m)) = Len(s) - 1
      /\ \A i \in 1 .. Len(s) - 1 : Tail(m)[i] = m[i + 1]
  BY <1>2, <1>3, TailFacts
<1>5. ASSUME NEW i \in 1 .. Len(s) - 1 PROVE Mapped(t, g)[i] = Tail(m)[i]
  <2>1. i \in 1 .. Len(t) /\ i + 1 \in 1 .. Len(s)
    BY <1>1
  <2>2. Mapped(t, g)[i] = g[t[i]] /\ t[i] = s[i + 1]
    BY <1>1, <1>2, <2>1
  <2>3. Tail(m)[i] = m[i + 1] /\ m[i + 1] = g[s[i + 1]]
    BY <1>2, <1>4, <2>1
  <2> QED
    BY <2>2, <2>3
<1>6. Mapped(t, g) = Tail(m)
  BY <1>1, <1>2, <1>4, <1>5, SeqEqual
<1>7. Head(m) = g[Head(s)]
  BY <1>1, <1>2, <1>4
<1> QED
  BY <1>3, <1>6, <1>7 DEF m, t

\* the two functions: an answer's id, and what the pool keeps of a job
AnswerId == [a \in Answer |-> a.id]
PoolJob  == [j \in Job |-> [id |-> j.id, size |-> j.fn.size]]

LEMMA IdsMapped ==
    ASSUME NEW s \in Seq(Answer)
    PROVE  IdsOf(s) = Mapped(s, AnswerId)
<1>1. \A k \in 1 .. Len(s) : s[k] \in Answer
  BY ElementOfSeq
<1> QED
  BY <1>1 DEF IdsOf, Mapped, AnswerId

LEMMA WaitingMapped ==
    ASSUME jobs \in Seq(Job)
    PROVE  WaitingJobs = Mapped(jobs, PoolJob)
<1>1. \A k \in 1 .. Len(jobs) : jobs[k] \in Job
  BY ElementOfSeq
<1> QED
  BY <1>1 DEF WaitingJobs, Mapped, PoolJob

-----------------------------------------------------------------------------
(* Step by step                                                             *)

\* everything that was proved of a reachable state
SchedulerInv == FullInv /\ LogInv /\ SameAssignment /\ OnceInv

\* steps that the pool does not see
LEMMA PoolStutters ==
    ASSUME UNCHANGED <<jobs, nextId, results, popped>>, Running' = Running
    PROVE  UNCHANGED Pool!poolVars
BY DEF Pool!poolVars, Running, IdsOf

LEMMA RunningUnchanged ==
    ASSUME UNCHANGED <<active, current>>
    PROVE  Running' = Running
BY DEF Running, Block

LEMMA ScheduleIsSubmit ==
    ASSUME FullInv, Schedule
    PROVE  \E n \in {f.size : f \in Functions} : Pool!Submit(n)
<1>1. PICK f \in Functions : jobs' = Append(jobs, [id |-> nextId, fn |-> f])
  BY DEF Schedule, Enqueue
<1>2. PICK j : j = [id |-> nextId, fn |-> f]
  OBVIOUS
<1>3. /\ nextId < MaxJobs /\ nextId' = nextId + 1
      /\ UNCHANGED <<active, current, results, popped>>
      /\ jobs \in Seq(Job) /\ nextId \in Ids
  BY Constants DEF Schedule, ctlVars, resultVars, FullInv, PoolInv, TypeInv, TypeOK, Ids
<1>4. j \in Job /\ PoolJob[j] = [id |-> nextId, size |-> f.size]
  <2>1. j \in Job
    BY <1>2, <1>3 DEF Job
  <2> QED
    BY <1>2, <2>1 DEF PoolJob
<1>5. WaitingJobs' = Append(WaitingJobs, [id |-> nextId, size |-> f.size])
  <2>1. jobs' = Append(jobs, j) /\ jobs' \in Seq(Job)
    BY <1>1, <1>2, <1>3, <1>4, AppendFacts
  <2>2. WaitingJobs = Mapped(jobs, PoolJob)
    BY <1>3, WaitingMapped
  <2>3. WaitingJobs' = Mapped(jobs', PoolJob)
    <3>1. \A k \in 1 .. Len(jobs') : jobs'[k] \in Job
      BY <2>1, ElementOfSeq
    <3> QED
      BY <3>1 DEF WaitingJobs, Mapped, PoolJob
  <2>4. Mapped(Append(jobs, j), PoolJob) = Append(Mapped(jobs, PoolJob), PoolJob[j])
    BY <1>3, <1>4, MappedAppend
  <2> QED
    BY <1>4, <2>1, <2>2, <2>3, <2>4
<1>6. Running' = Running
  BY <1>3, RunningUnchanged
<1>7. Pool!Submit(f.size)
  BY <1>3, <1>5, <1>6 DEF Pool!Submit, WaitingJobs, Running, IdsOf
<1> QED
  BY <1>7

LEMMA PopIsTake ==
    ASSUME FullInv, results # <<>>,
           popped' = Append(popped, Head(results)), results' = Tail(results),
           UNCHANGED <<jobs, nextId, active, current>>
    PROVE  Pool!Take
<1>1. results \in Seq(Answer) /\ popped \in Seq(Answer)
  BY DEF FullInv, PoolInv, TypeInv, TypeOK
<1>2. PICK a : a = Head(results)
  OBVIOUS
<1>3. a \in Answer /\ AnswerId[a] = a.id /\ results' \in Seq(Answer) /\ popped' \in Seq(Answer)
  <2>1. a \in Answer /\ results' \in Seq(Answer)
    BY <1>1, <1>2, TailFacts
  <2>2. popped' \in Seq(Answer)
    BY <1>1, <1>2, <2>1, AppendFacts
  <2> QED
    BY <2>1, <2>2 DEF AnswerId
<1>4. /\ IdsOf(results) = Mapped(results, AnswerId) /\ IdsOf(popped) = Mapped(popped, AnswerId)
      /\ IdsOf(results') = Mapped(results', AnswerId)
      /\ IdsOf(popped') = Mapped(popped', AnswerId)
  BY <1>1, <1>3, IdsMapped
<1>5. /\ IdsOf(results) # <<>> /\ Head(IdsOf(results)) = a.id
      /\ IdsOf(results') = Tail(IdsOf(results))
  BY <1>1, <1>2, <1>3, <1>4, MappedTail
<1>6. IdsOf(popped') = Append(IdsOf(popped), a.id)
  BY <1>1, <1>2, <1>3, <1>4, MappedAppend
<1>7. Running' = Running
  BY RunningUnchanged
<1>8. IdsOf(results)' = IdsOf(results') /\ IdsOf(popped)' = IdsOf(popped')
  BY DEF IdsOf
<1> HIDE DEF IdsOf
<1> QED
  BY <1>5, <1>6, <1>7, <1>8 DEF Pool!Take, Running

\* run_job() has found the block that the pool gives to its front job
LEMMA RunJobIsStart == FullInv /\ RunJob => Pool!StartFront
<1> SUFFICES ASSUME FullInv, RunJob PROVE Pool!StartFront
    OBVIOUS
<1>1. /\ jobs \in Seq(Job) /\ jobs # <<>> /\ current = Idle
      /\ jobs' = Tail(jobs) /\ UNCHANGED <<nextId, active, results, popped>>
  BY DEF FullInv, PoolInv, TypeInv, TypeOK, LoopState, RunJob, resultVars
<1>2. PICK j : j = Head(jobs)
  OBVIOUS
<1>3. /\ j \in Job /\ j.fn.size \in Nat /\ j.fn.size >= 1 /\ jobs' \in Seq(Job)
      /\ PoolJob[j] = [id |-> j.id, size |-> j.fn.size]
  <2>1. j \in Job /\ jobs' \in Seq(Job)
    BY <1>1, <1>2, TailFacts
  <2> QED
    BY <2>1, JobFields, FunctionFields DEF PoolJob
<1>4. PICK first \in FirstFit(j.fn.size) :
           current' = [tag |-> "job", first |-> first, last |-> first + j.fn.size - 1, job |-> j]
  BY <1>2 DEF RunJob
<1>5. /\ first .. first + j.fn.size - 1 \subseteq available \cap Workers
      /\ first \in Workers
  <2>1. available \subseteq Procs
    BY DEF FullInv, PoolInv, TypeInv, TypeOK
  <2>2. /\ first \in Others
        /\ \A r \in first .. first + j.fn.size - 1 : r \in available /\ r \in Others
    BY <1>3, <2>1, FirstFitBlock
  <2>3. first \in first .. first + j.fn.size - 1
    BY <1>3, <2>2 DEF Others
  <2>4. available \cap Others \subseteq Workers
    BY DEF FullInv, PoolInv, OnlyWorkersAvailable
  <2> QED
    BY <2>2, <2>3, <2>4
<1>6. current' # Idle /\ current'.job.id = j.id
      /\ Block(current') = first .. first + j.fn.size - 1
  <2>1. current'.tag = "job"
    BY <1>4
  <2>2. current' # Idle
    BY <2>1 DEF Idle
  <2> QED
    BY <1>4, <2>2 DEF Block
<1>7. Running = [id \in DOMAIN active |-> Block(active[id])]
  BY <1>1 DEF Running
<1>8. Running' = [id \in DOMAIN Running \cup {j.id} |->
                    IF id = j.id THEN first .. first + j.fn.size - 1 ELSE Running[id]]
  <2>1. Running' = [id \in DOMAIN active \cup {j.id} |->
                      IF id = j.id THEN first .. first + j.fn.size - 1 ELSE Block(active[id])]
    BY <1>1, <1>6 DEF Running, Block
  <2> QED
    BY <1>7, <2>1
<1>9. first .. first + j.fn.size - 1
        \subseteq Workers \ UNION {Running[id] : id \in DOMAIN Running}
  <2>1. \A w \in available \cap Workers : \A id \in DOMAIN active : w \notin Block(active[id])
    BY <1>1 DEF FullInv, PoolInv, NoRankShared
  <2>2. \A w \in available \cap Workers : \A id \in DOMAIN Running : w \notin Running[id]
    BY <1>7, <2>1
  <2> QED
    BY <1>5, <2>2
<1>10. /\ WaitingJobs # <<>> /\ Head(WaitingJobs) = [id |-> j.id, size |-> j.fn.size]
       /\ WaitingJobs' = Tail(WaitingJobs)
  <2>1. /\ WaitingJobs = Mapped(jobs, PoolJob)
        /\ WaitingJobs' = Mapped(jobs', PoolJob)
    <3>1. \A k \in 1 .. Len(jobs') : jobs'[k] \in Job
      BY <1>3, ElementOfSeq
    <3>2. WaitingJobs' = Mapped(jobs', PoolJob)
      BY <3>1 DEF WaitingJobs, Mapped, PoolJob
    <3> QED
      BY <1>1, <3>2, WaitingMapped
  <2> QED
    BY <1>1, <1>2, <1>3, <2>1, MappedTail
<1>11. first .. first + Head(WaitingJobs).size - 1 \subseteq Pool!Free
  <2>1. Pool!Free = Workers \ UNION {Running[id] : id \in DOMAIN Running}
    BY Zenon DEF Pool!Free, Pool!Ranks, Workers, Running
  <2>2. Head(WaitingJobs).size = j.fn.size
    BY <1>10
  <2> QED
    BY <1>9, <2>1, <2>2
<1>12. Running' = [id \in DOMAIN Running \cup {Head(WaitingJobs).id} |->
                     IF id = Head(WaitingJobs).id
                     THEN first .. first + Head(WaitingJobs).size - 1 ELSE Running[id]]
  BY <1>8, <1>10
<1>13. UNCHANGED <<nextId, IdsOf(results), IdsOf(popped)>>
  BY <1>1 DEF IdsOf
<1>14. WaitingJobs # <<>> /\ WaitingJobs' = Tail(WaitingJobs)
  BY <1>10
<1>15. Pool!Start(first)
  BY <1>11, <1>12, <1>13, <1>14, Zenon DEF Pool!Start, WaitingJobs, Running
<1> QED
  BY <1>5, <1>15 DEF Pool!StartFront, Pool!Ranks, Workers

\* the loop of run_job() turns the current job into an active one on the same ranks
LEMMA SendJobReturnsStutters == FullInv /\ SendJobReturns => Running' = Running
<1> SUFFICES ASSUME FullInv, SendJobReturns PROVE Running' = Running
    OBVIOUS
<1>1. current # Idle
  BY DEF FullInv, PoolInv, TypeInv, LoopState, SendJobReturns
<1>2. CASE cursor < current.last
  <2>1. UNCHANGED <<active, current>>
    BY <1>2 DEF SendJobReturns
  <2> QED
    BY <2>1, RunningUnchanged
<1>3. CASE ~(cursor < current.last)
  <2>1. /\ current' = Idle
        /\ active' = [id \in DOMAIN active \cup {current.job.id} |->
                        IF id = current.job.id
                        THEN [first |-> current.first, last |-> current.last]
                        ELSE active[id]]
    BY <1>3 DEF SendJobReturns
  <2>2. Running' = [id \in DOMAIN active' |-> Block(active'[id])]
    BY <2>1 DEF Running, Block
  <2>3. Running = [id \in DOMAIN active \cup {current.job.id} |->
                     IF id = current.job.id THEN Block(current) ELSE Block(active[id])]
    BY <1>1 DEF Running
  <2>4. /\ DOMAIN active' = DOMAIN active \cup {current.job.id}
        /\ \A id \in DOMAIN active' :
              Block(active'[id]) = IF id = current.job.id THEN Block(current)
                                                          ELSE Block(active[id])
    BY <2>1 DEF Block
  <2> QED
    BY <2>2, <2>3, <2>4
<1> QED
  BY <1>2, <1>3

\* one answer of a job, at most, is on its way, so the job it ends is still active
LEMMA ReceiveAnswerIsComplete ==
    ASSUME SchedulerInv, NEW w \in Workers, ReceiveAnswer(w)
    PROVE  \E id \in Ids : Pool!Complete(id)
<1>1. PICK a : a = Head(answers[w])
  OBVIOUS
<1>2. /\ a \in Answer /\ a.id \in Ids /\ a = answers[w][1] /\ 1 \in 1 .. Len(answers[w])
      /\ AnswerId[a] = a.id
  <2>1. answers[w] \in Seq(Answer) /\ answers[w] # <<>>
    BY DEF SchedulerInv, FullInv, PoolInv, TypeInv, TypeOK, ReceiveAnswer
  <2>2. a \in Answer /\ a = answers[w][1] /\ 1 \in 1 .. Len(answers[w])
    BY <1>1, <2>1, TailFacts
  <2> QED
    BY <2>2 DEF Answer, AnswerId
<1>3. /\ results' = Append(results, a)
      /\ active' = [id \in DOMAIN active \ {a.id} |-> active[id]]
      /\ UNCHANGED <<jobs, nextId, current, popped>>
      /\ ctl \in {"check", "finishCheck"}
      /\ results \in Seq(Answer)
  BY <1>1 DEF ReceiveAnswer, ctlVars, SchedulerInv, FullInv, PoolInv, TypeInv, TypeOK
<1>4. current = Idle
  BY <1>3 DEF SchedulerInv, FullInv, PoolInv, TypeInv, LoopState
<1>5. a.id \in DOMAIN active
  <2>1. OnItsWay(a.id) /\ a.id < Started
    BY <1>2 DEF OnItsWay, SchedulerInv, FullInv, MessageInv, AnswerInv
  <2>2. AnswersOf(a.id) = {}
    BY <1>2, <2>1 DEF SchedulerInv, OnceInv, OnItsWayOnce
  <2> QED
    BY <1>2, <1>4, <2>1, <2>2 DEF SchedulerInv, LogInv, Remembered
<1>6. Running = [id \in DOMAIN active |-> Block(active[id])]
  BY <1>4 DEF Running
<1>7. Running' = [i \in DOMAIN Running \ {a.id} |-> Running[i]]
  <2>1. Running' = [id \in DOMAIN active' |-> Block(active'[id])]
    BY <1>3, <1>4 DEF Running, Block
  <2>2. /\ DOMAIN active' = DOMAIN active \ {a.id}
        /\ \A id \in DOMAIN active' : active'[id] = active[id]
    BY <1>3
  <2> QED
    BY <1>6, <2>1, <2>2
<1>8. IdsOf(results)' = Append(IdsOf(results), a.id)
  <2>1. results' \in Seq(Answer)
    BY <1>2, <1>3, AppendFacts
  <2>2. IdsOf(results) = Mapped(results, AnswerId) /\ IdsOf(results') = Mapped(results', AnswerId)
    BY <1>3, <2>1, IdsMapped
  <2>3. IdsOf(results') = Append(IdsOf(results), a.id)
    BY <1>2, <1>3, <2>2, MappedAppend
  <2>4. IdsOf(results)' = IdsOf(results')
    BY DEF IdsOf
  <2> QED
    BY <2>3, <2>4
<1>9. a.id \in DOMAIN Running
  BY <1>5, <1>6
<1>10. UNCHANGED <<nextId, WaitingJobs, IdsOf(popped)>>
  BY <1>3 DEF WaitingJobs, IdsOf
<1>11. Pool!Complete(a.id)
  BY <1>7, <1>8, <1>9, <1>10, Zenon DEF Pool!Complete, Running, WaitingJobs
<1> QED
  BY <1>2, <1>11

-----------------------------------------------------------------------------
(* Every step                                                               *)

LEMMA StepImplements ==
    ASSUME SchedulerInv, [Next]_vars
    PROVE  [Pool!PoolNext]_(Pool!poolVars)
<1>1. CASE Schedule
  BY <1>1, ScheduleIsSubmit DEF SchedulerInv, Pool!PoolNext
<1>2. CASE RunJob
  BY <1>2, RunJobIsStart DEF SchedulerInv, Pool!PoolNext
<1>3. CASE \E w \in Workers : ReceiveAnswer(w)
  BY <1>3, ReceiveAnswerIsComplete DEF Pool!PoolNext, Ids
<1>4. CASE CallControl \/ PopRest
  <2>1. UNCHANGED <<jobs, nextId, active, current>>
    BY <1>4 DEF CallControl, PopRest, ctlVars, poolVars
  <2>2. CASE UNCHANGED <<results, popped>>
    BY <2>1, <2>2, RunningUnchanged, PoolStutters
  <2>3. CASE /\ results # <<>> /\ results' = Tail(results)
             /\ popped' = Append(popped, Head(results))
    BY <2>1, <2>3, PopIsTake DEF SchedulerInv, Pool!PoolNext
  <2> QED
    BY <1>4, <2>2, <2>3 DEF CallControl, PopRest, resultVars
<1>5. CASE SendJobReturns
  <2>1. UNCHANGED <<jobs, nextId, results, popped>>
    BY <1>5 DEF SendJobReturns, resultVars
  <2>2. Running' = Running
    BY <1>5, SendJobReturnsStutters DEF SchedulerInv
  <2> QED
    BY <2>1, <2>2, PoolStutters
<1>6. CASE \/ FinishEarly \/ Leave \/ ProbeFails \/ SendJob \/ ControlReturns \/ Finish
           \/ SendStop \/ SendStopReturns \/ (\E w \in Workers : Worker(w))
           \/ UNCHANGED vars
  <2>1. UNCHANGED <<jobs, nextId, results, popped, active, current>>
    BY <1>6 DEF FinishEarly, Leave, ProbeFails, SendJob, ControlReturns, Finish, SendStop,
       SendStopReturns, Worker, ReceiveJob, CommCreated, RunnerReturns, ReplyReturns,
       ReceiveStop, vars, ctlVars, poolVars, resultVars
  <2> QED
    BY <2>1, RunningUnchanged, PoolStutters
<1> QED
  BY <1>1, <1>2, <1>3, <1>4, <1>5, <1>6 DEF Next, Controller, Terminated

LEMMA InitImplements == Init => Pool!PoolInit
<1> SUFFICES ASSUME Init PROVE Pool!PoolInit
    OBVIOUS
<1>1. /\ nextId = 0 /\ jobs = <<>> /\ results = <<>> /\ popped = <<>>
      /\ active = [id \in {} |-> Idle] /\ current = Idle
  BY DEF Init
<1>2. Running = [id \in {} |-> {}]
  BY <1>1 DEF Running
<1>3. WaitingJobs = <<>> /\ IdsOf(results) = <<>> /\ IdsOf(popped) = <<>>
  <2>1. /\ <<>> \in Seq(Job) /\ <<>> \in Seq(Answer) /\ Len(<<>>) = 0
    BY EmptySeq
  <2>2. Mapped(<<>>, PoolJob) = <<>> /\ Mapped(<<>>, AnswerId) = <<>>
    BY <2>1, MappedSeq, EmptySeq
  <2>3. WaitingJobs = Mapped(<<>>, PoolJob)
    BY <1>1, <2>1, WaitingMapped
  <2>4. IdsOf(results) = Mapped(<<>>, AnswerId) /\ IdsOf(popped) = Mapped(<<>>, AnswerId)
    BY <1>1, <2>1, IdsMapped
  <2> QED
    BY <2>2, <2>3, <2>4
<1> QED
  BY <1>1, <1>2, <1>3, Zenon DEF Pool!PoolInit, Running, WaitingJobs

\* If one rank of each job answers, at most, the scheduler is a pool of jobs: they start in
\* the order they were scheduled, on ranks that no other job holds, and are answered once.
THEOREM ImplementsJobPool == OneReplier /\ Spec => ImplementsPool
<1>1. OneReplier /\ [Next]_vars => OneReplier'
  BY DEF OneReplier, Sends
<1>2. FullInv /\ LogInv /\ (OneReplier => SameAssignment /\ OnceInv) /\ OneReplier
         => SchedulerInv
  BY DEF SchedulerInv
<1>3. SchedulerInv /\ [Next]_vars => [Pool!PoolNext]_(Pool!poolVars)
  BY StepImplements
<1> QED
  BY <1>1, <1>2, <1>3, InitImplements, OnceInvariant, PTL
     DEF Spec, ImplementsPool, Pool!PoolSpec
=============================================================================
