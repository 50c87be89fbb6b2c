--------------------------- MODULE Answers_proofs ---------------------------
(***************************************************************************)
(* Proofs about the answers in Scheduler: no job is forgotten, whatever its *)
(* ranks return; and if one of them answers, at most, it is answered once    *)
(* and nothing is left in transit at the end.                               *)
(***************************************************************************)
EXTENDS Scheduler_proofs

\* the answers that have reached the script, or wait for it
Log == popped \o results

\* jobs that have left the queue are being sent, active, or answered
Remembered ==
    \A id \in Ids : id < Started =>
        \/ id \in DOMAIN active
        \/ current # Idle /\ current.job.id = id
        \/ AnswersOf(id) # {}

\* an answered job is neither active nor being sent
AnsweredIsOver ==
    \A id \in Ids : AnswersOf(id) # {} =>
        /\ id < Started /\ id \notin DOMAIN active
        /\ current # Idle => current.job.id # id

\* finish() is called with an empty queue, or early, and stops nobody while jobs run
FinishInv ==
    /\ ctl \in {"finish", "finishCheck", "stop", "after", "done"} =>
          jobs = <<>> \/ Script = "early"
    /\ ctl \in {"stop", "after", "done"} => DOMAIN active = {}

LogInv == Remembered /\ AnsweredIsOver /\ FinishInv

\* what rank i of a job of function f returns, and whether that is sent
Sends(f, i) == (IF i \in f.by THEN "value" ELSE f.rest) \notin Silent

\* the assumption of the examples: no two ranks of a job answer
OneReplier ==
    \A f \in Functions : \A i, j \in 0 .. f.size - 1 :
        Sends(f, i) /\ Sends(f, j) => i = j

\* an assignment rank 0 is sending, a worker has not read, or is carrying out
Assigned(t) ==
    \/ current # Idle /\ t = current
    \/ \E w \in Workers : task[w] # Idle /\ t = task[w]
    \/ \E w \in Workers : \E k \in Waiting(w) : t = inbox[w][k]

\* all ranks of a job hold the same assignment, and are in its block
SameAssignment ==
    /\ \A t, u \in Task : Assigned(t) /\ Assigned(u) /\ t.job.id = u.job.id => t = u
    /\ \A t \in Task : Assigned(t) => t.last = t.first + t.job.fn.size - 1
    /\ \A w \in Workers : task[w] # Idle => w \in Block(task[w])

\* the answer of job id is on its way
OnItsWay(id) == \E w \in Workers : \E k \in 1 .. Len(answers[w]) : answers[w][k].id = id

\* who has yet to answer is the first to do so
Unsent ==
    \A w \in Workers : pc[w] \in {"join", "run"} /\ Replies(w) =>
        /\ ~OnItsWay(task[w].job.id)
        /\ AnswersOf(task[w].job.id) = {}

\* an answer is on its way once, and has not been received
OnItsWayOnce ==
    /\ \A v, w \in Workers : \A j \in 1 .. Len(answers[v]) : \A k \in 1 .. Len(answers[w]) :
          answers[v][j].id = answers[w][k].id => v = w /\ j = k
    /\ \A id \in Ids : OnItsWay(id) => AnswersOf(id) = {}

OnceInv == Unsent /\ OnItsWayOnce /\ AtMostOneAnswer

\* signal_stop() has sent its message to rank r
Told(r) ==
    \/ ctl \in {"after", "done"}
    \/ ctl = "stop" /\ (r < cursor \/ (r = cursor /\ posted))

\* the stop message comes once, after everything else
StoppedOnce ==
    \A w \in Workers :
        /\ \A k \in 1 .. Len(inbox[w]) : inbox[w][k].tag = "stop" =>
              k = Len(inbox[w]) /\ Told(w) /\ pc[w] # "done"
        /\ pc[w] = "done" => Told(w)

-----------------------------------------------------------------------------
(* The answers of the script                                                *)

LEMMA LogType ==
    ASSUME TypeOK
    PROVE  /\ Log \in Seq(Answer) /\ Len(Log) \in Nat
           /\ \A k \in 1 .. Len(Log) : Log[k].id \in Ids
<1>1. Log \in Seq(Answer)
  BY ConcatProperties DEF TypeOK, Log
<1>2. \A k \in 1 .. Len(Log) : Log[k] \in Answer
  BY <1>1, ElementOfSeq
<1> QED
  BY <1>1, <1>2, LenProperties DEF Answer

\* pop() moves an answer from one place to the other
LEMMA PopKeepsLog ==
    ASSUME TypeOK, results # <<>>,
           popped' = Append(popped, Head(results)), results' = Tail(results)
    PROVE  Log' = Log
<1>1. popped \in Seq(Answer) /\ results \in Seq(Answer)
  BY DEF TypeOK
<1>2. /\ Head(results) \in Answer /\ Tail(results) \in Seq(Answer)
      /\ <<Head(results)>> \in Seq(Answer)
  BY <1>1, TailFacts
<1>3. popped' = popped \o <<Head(results)>>
  BY <1>1, <1>2, AppendIsConcat
<1>4. <<Head(results)>> \o Tail(results) = results
  <2>1. results \in Seq(Answer) /\ Len(results) \in Nat /\ Len(results) >= 1
        /\ Head(results) = results[1] /\ Len(Tail(results)) = Len(results) - 1
        /\ \A i \in 1 .. Len(results) - 1 : Tail(results)[i] = results[i + 1]
    BY <1>1, TailFacts
  <2> DEFINE s == <<Head(results)>> \o Tail(results)
  <2>2. /\ s \in Seq(Answer) /\ Len(s) = Len(results)
        /\ \A i \in 1 .. Len(results) : s[i] = IF i <= 1 THEN results[1] ELSE Tail(results)[i - 1]
    <3>1. Len(<<Head(results)>>) = 1 /\ <<Head(results)>>[1] = results[1]
      BY <2>1
    <3> QED
      BY <1>2, <2>1, <3>1, ConcatProperties
  <2>3. \A i \in 1 .. Len(results) : s[i] = results[i]
    BY <2>1, <2>2
  <2> QED
    BY <1>1, <2>2, <2>3, SeqEqual
<1> QED
  BY <1>1, <1>2, <1>3, <1>4, ConcatAssociative DEF Log

\* an answer that is received joins the others at the end
LEMMA ReceivedInLog ==
    ASSUME TypeOK, NEW a \in Answer, results' = Append(results, a), popped' = popped
    PROVE  /\ Len(Log') = Len(Log) + 1
           /\ Log'[Len(Log) + 1] = a
           /\ \A k \in 1 .. Len(Log) : Log'[k] = Log[k]
<1>1. popped \in Seq(Answer) /\ results \in Seq(Answer)
  BY DEF TypeOK
<1>2. /\ results' \in Seq(Answer) /\ Len(results') = Len(results) + 1
      /\ Len(results) \in Nat /\ Len(popped) \in Nat
      /\ \A i \in 1 .. Len(results) : results'[i] = results[i]
      /\ results'[Len(results) + 1] = a
  BY <1>1, AppendFacts
<1>3. /\ Len(Log) = Len(popped) + Len(results)
      /\ \A k \in 1 .. Len(Log) : Log[k] = IF k <= Len(popped) THEN popped[k]
                                                               ELSE results[k - Len(popped)]
  BY <1>1, ConcatProperties DEF Log
<1>4. /\ Len(Log') = Len(popped) + Len(results) + 1
      /\ \A k \in 1 .. Len(Log') : Log'[k] = IF k <= Len(popped) THEN popped[k]
                                                     ELSE results'[k - Len(popped)]
  <2>1. Log' = popped \o results'
    BY DEF Log
  <2>2. popped \in Seq(Answer) /\ results' \in Seq(Answer)
    BY <1>1, <1>2
  <2>3. Len(popped \o results') = Len(popped) + Len(results')
    BY <2>2, ConcatProperties
  <2>4. Len(Log') = Len(popped) + Len(results) + 1
    BY <1>2, <2>1, <2>3
  <2>5. \A k \in 1 .. Len(popped) + Len(results') :
          (popped \o results')[k] = IF k <= Len(popped) THEN popped[k]
                                                       ELSE results'[k - Len(popped)]
    BY <2>2, ConcatProperties
  <2> QED
    BY <2>1, <2>3, <2>4, <2>5
<1>5. Len(Log') = Len(Log) + 1
  BY <1>2, <1>3, <1>4
<1>6. Log'[Len(Log) + 1] = a
  <2>1. Log'[Len(Log) + 1] = results'[Len(Log) + 1 - Len(popped)]
    <3>1. Len(Log) + 1 \in 1 .. Len(Log') /\ ~(Len(Log) + 1 <= Len(popped))
      BY <1>2, <1>3, <1>5
    <3> QED
      BY <1>4, <3>1
  <2>2. Len(Log) + 1 - Len(popped) = Len(results) + 1
    BY <1>2, <1>3
  <2> QED
    BY <1>2, <2>1, <2>2
<1>7. ASSUME NEW k \in 1 .. Len(Log) PROVE Log'[k] = Log[k]
  <2>1. k \in 1 .. Len(Log')
    BY <1>2, <1>3, <1>4
  <2>2. CASE k <= Len(popped)
    BY <1>3, <1>4, <2>1, <2>2
  <2>3. CASE ~(k <= Len(popped))
    <3>1. k - Len(popped) \in 1 .. Len(results)
      BY <1>2, <1>3, <2>3
    <3>2. results'[k - Len(popped)] = results[k - Len(popped)]
      BY <1>2, <3>1
    <3> QED
      BY <1>3, <1>4, <2>1, <2>3, <3>2
  <2> QED
    BY <2>2, <2>3
<1> QED
  BY <1>5, <1>6, <1>7

\* ... so only its own job gains one
LEMMA ReceivedAnswers ==
    ASSUME TypeOK, NEW a \in Answer, results' = Append(results, a), popped' = popped
    PROVE  /\ AnswersOf(a.id)' = AnswersOf(a.id) \cup {Len(Log) + 1}
           /\ \A id : id # a.id => AnswersOf(id)' = AnswersOf(id)
<1>1. /\ Len(Log) \in Nat /\ Len(Log') = Len(Log) + 1
      /\ Log'[Len(Log) + 1] = a
      /\ \A k \in 1 .. Len(Log) : Log'[k] = Log[k]
  BY LogType, ReceivedInLog
<1>2. /\ \A id : AnswersOf(id) = {k \in 1 .. Len(Log) : Log[k].id = id}
      /\ \A id : AnswersOf(id)' = {k \in 1 .. Len(Log') : Log'[k].id = id}
  BY DEF AnswersOf, Log
<1>3. \A k : k \in 1 .. Len(Log') <=> k \in 1 .. Len(Log) \/ k = Len(Log) + 1
  BY <1>1
<1>4. ASSUME NEW id, NEW k
      PROVE  k \in AnswersOf(id)' <=>
                k \in AnswersOf(id) \/ (k = Len(Log) + 1 /\ a.id = id)
  <2>1. k \in AnswersOf(id)' <=> k \in 1 .. Len(Log') /\ Log'[k].id = id
    BY <1>2
  <2>2. k \in AnswersOf(id) <=> k \in 1 .. Len(Log) /\ Log[k].id = id
    BY <1>2
  <2> QED
    BY <1>1, <1>3, <2>1, <2>2
<1>5. AnswersOf(a.id)' = AnswersOf(a.id) \cup {Len(Log) + 1}
  BY <1>4
<1>6. ASSUME NEW id, id # a.id PROVE AnswersOf(id)' = AnswersOf(id)
  <2>1. \A k : k \in AnswersOf(id)' <=> k \in AnswersOf(id)
    BY <1>4, <1>6
  <2>2. AnswersOf(id)' \subseteq 1 .. Len(Log') /\ AnswersOf(id) \subseteq 1 .. Len(Log)
    BY <1>2
  <2> QED
    BY <2>1, <2>2
<1> QED
  BY <1>5, <1>6

LEMMA SameLog ==
    ASSUME Log' = Log
    PROVE  \A id : AnswersOf(id)' = AnswersOf(id)
BY DEF AnswersOf, Log

-----------------------------------------------------------------------------
(* No job is forgotten                                                      *)

LEMMA NothingActive ==
    ASSUME TypeOK
    PROVE  active = [id \in {} |-> Idle] <=> DOMAIN active = {}
BY DEF TypeOK

LEMMA InitLog == Init => LogInv
<1> SUFFICES ASSUME Init PROVE LogInv
    OBVIOUS
<1>1. Started = 0 /\ Len(popped \o results) = 0
  <2>1. popped = <<>> /\ results = <<>> /\ jobs = <<>> /\ nextId = 0
    BY DEF Init
  <2>2. /\ popped \in Seq(Answer) /\ results \in Seq(Answer)
        /\ Len(popped) = 0 /\ Len(results) = 0 /\ Len(jobs) = 0
    BY <2>1, EmptySeq
  <2>3. Len(popped \o results) = 0
    BY <2>2, ConcatProperties
  <2>4. nextId = 0 /\ Len(jobs) = 0
    BY <2>1, <2>2
  <2>5. Started = 0
    BY <2>4 DEF Started
  <2> QED
    BY <2>3, <2>5
<1>2. \A id : AnswersOf(id) = {}
  BY <1>1 DEF AnswersOf
<1>3. \A id \in Ids : ~(id < Started)
  BY <1>1 DEF Ids
<1> QED
  BY <1>2, <1>3 DEF Init, LogInv, Remembered, AnsweredIsOver, FinishInv

\* steps that touch neither the answers that were received nor the jobs that run
LEMMA LogUnchanged ==
    ASSUME LogInv, FinishInv', Log' = Log, UNCHANGED <<active, current, Started>>
    PROVE  LogInv'
<1>1. \A id : AnswersOf(id)' = AnswersOf(id)
  BY SameLog
<1> QED
  BY <1>1 DEF LogInv, Remembered, AnsweredIsOver

LEMMA ReceiveAnswerLog ==
    ASSUME FullInv, LogInv, NEW w \in Workers, ReceiveAnswer(w)
    PROVE  LogInv'
<1>0. PICK a : a = Head(answers[w])
  OBVIOUS
<1>1. /\ a \in Answer /\ a.id \in Ids /\ a = answers[w][1] /\ 1 \in 1 .. Len(answers[w])
  <2>1. answers[w] \in Seq(Answer) /\ answers[w] # <<>>
    BY DEF FullInv, PoolInv, TypeInv, TypeOK, ReceiveAnswer
  <2>2. a \in Answer /\ a = answers[w][1] /\ Len(answers[w]) \in Nat /\ Len(answers[w]) >= 1
    BY <1>0, <2>1, TailFacts
  <2> QED
    BY <2>2 DEF Answer
<1>2. /\ results' = Append(results, a) /\ popped' = popped
      /\ active' = [id \in DOMAIN active \ {a.id} |-> active[id]]
      /\ UNCHANGED <<ctl, jobs, nextId, current>>
      /\ ctl \in {"check", "finishCheck"}
  BY <1>0 DEF ReceiveAnswer, ctlVars
<1>3. /\ AnswersOf(a.id)' = AnswersOf(a.id) \cup {Len(Log) + 1}
      /\ \A id : id # a.id => AnswersOf(id)' = AnswersOf(id)
  BY <1>1, <1>2, ReceivedAnswers DEF FullInv, PoolInv, TypeInv
<1>4. Started' = Started /\ a.id < Started
  BY <1>1, <1>2 DEF Started, FullInv, MessageInv, AnswerInv
<1>5. current = Idle
  BY <1>2 DEF FullInv, PoolInv, TypeInv, LoopState
<1>6. Remembered'
  BY <1>2, <1>3, <1>4, <1>5 DEF LogInv, Remembered
<1>7. AnsweredIsOver'
  BY <1>2, <1>3, <1>4, <1>5 DEF LogInv, AnsweredIsOver
<1>8. FinishInv'
  BY <1>2 DEF LogInv, FinishInv
<1> QED
  BY <1>6, <1>7, <1>8 DEF LogInv

LEMMA ScheduleLog == FullInv /\ LogInv /\ Schedule => LogInv'
<1> SUFFICES ASSUME FullInv, LogInv, Schedule PROVE LogInv'
    OBVIOUS
<1>1. /\ ctl = "body" /\ UNCHANGED <<ctl, active, current, popped, results>>
      /\ nextId' = nextId + 1
  BY DEF Schedule, ctlVars, resultVars
<1>2. Started' = Started
  <2>1. jobs \in Seq(Job) /\ nextId \in Int /\ nextId \in Ids
    BY Constants DEF Schedule, Ids, FullInv, PoolInv, TypeInv, TypeOK
  <2>2. PICK f \in Functions : jobs' = Append(jobs, [id |-> nextId, fn |-> f])
    BY DEF Schedule, Enqueue
  <2>3. Len(jobs') = Len(jobs) + 1 /\ Len(jobs) \in Int
    BY <2>1, <2>2, AppendProperties, LenProperties DEF Job
  <2> QED
    BY <1>1, <2>1, <2>3 DEF Started
<1>3. FinishInv'
  BY <1>1 DEF FinishInv
<1> QED
  BY <1>1, <1>2, <1>3, LogUnchanged DEF Log

LEMMA RunJobLog == FullInv /\ LogInv /\ RunJob => LogInv'
<1> SUFFICES ASSUME FullInv, LogInv, RunJob PROVE LogInv'
    OBVIOUS
<1>1. /\ jobs # <<>> /\ jobs' = Tail(jobs) /\ ctl' = "send" /\ ctl = "dispatch"
      /\ UNCHANGED <<nextId, active, popped, results>>
      /\ current'.job = Head(jobs)
  BY DEF RunJob, resultVars
<1>2. /\ Head(jobs) = jobs[1] /\ Len(jobs) \in Nat /\ Len(jobs) >= 1
      /\ Len(jobs') = Len(jobs) - 1 /\ nextId \in Int
  <2>1. jobs \in Seq(Job) /\ nextId \in Int
    BY Constants DEF FullInv, PoolInv, TypeInv, TypeOK
  <2> QED
    BY <1>1, <2>1, TailFacts
<1>3. Started' = Started + 1 /\ Started \in Int
  BY <1>1, <1>2 DEF Started
<1>4. current'.job.id = Started
  BY <1>1, <1>2, <1>3 DEF FullInv, PoolInv, IdsInOrder
<1>5. current = Idle /\ current' # Idle
  <2>1. current = Idle
    BY <1>1 DEF FullInv, PoolInv, TypeInv, LoopState
  <2>2. TypeInv'
    BY StepType DEF FullInv, PoolInv, Next, Controller
  <2> QED
    BY <1>1, <2>1, <2>2 DEF TypeInv, LoopState
<1>6. \A id : AnswersOf(id)' = AnswersOf(id)
  BY <1>1, SameLog DEF Log
<1>7. \A id \in Ids : id \in Int
  BY DEF Ids
<1>8. Remembered'
  BY <1>1, <1>3, <1>4, <1>5, <1>6, <1>7 DEF LogInv, Remembered
<1>9. AnsweredIsOver'
  BY <1>1, <1>3, <1>4, <1>5, <1>6, <1>7 DEF LogInv, AnsweredIsOver
<1>10. FinishInv'
  BY <1>1 DEF FinishInv
<1> QED
  BY <1>8, <1>9, <1>10 DEF LogInv

LEMMA SendJobReturnsLog == FullInv /\ LogInv /\ SendJobReturns => LogInv'
<1> SUFFICES ASSUME FullInv, LogInv, SendJobReturns PROVE LogInv'
    OBVIOUS
<1>1. ctl = "send" /\ current # Idle /\ UNCHANGED <<jobs, nextId, popped, results>>
  BY DEF SendJobReturns, FullInv, PoolInv, TypeInv, LoopState, resultVars
<1>2. Started' = Started /\ Log' = Log
  BY <1>1 DEF Started, Log
<1>3. FinishInv'
  BY <1>1 DEF FinishInv, SendJobReturns
<1>4. CASE cursor < current.last
  <2>1. UNCHANGED <<current, active>>
    BY <1>4 DEF SendJobReturns
  <2> QED
    BY <1>2, <1>3, <2>1, LogUnchanged
<1>5. CASE ~(cursor < current.last)
  <2>1. DOMAIN active' = DOMAIN active \cup {current.job.id} /\ current' = Idle
    BY <1>5 DEF SendJobReturns
  <2>2. \A id : AnswersOf(id)' = AnswersOf(id)
    BY <1>2, SameLog
  <2>3. Remembered' /\ AnsweredIsOver'
    BY <1>1, <1>2, <2>1, <2>2 DEF LogInv, Remembered, AnsweredIsOver
  <2> QED
    BY <1>3, <2>3 DEF LogInv
<1> QED
  BY <1>4, <1>5

LEMMA StepLog == FullInv /\ LogInv /\ [Next]_vars => LogInv'
<1> SUFFICES ASSUME FullInv, LogInv, [Next]_vars PROVE LogInv'
    OBVIOUS
<1>1. CASE Schedule \/ RunJob \/ SendJobReturns \/ \E w \in Workers : ReceiveAnswer(w)
  BY <1>1, ScheduleLog, RunJobLog, SendJobReturnsLog, ReceiveAnswerLog
<1>2. CASE CallControl \/ PopRest
  <2>1. UNCHANGED <<active, current, jobs, nextId>>
    BY <1>2 DEF CallControl, PopRest, poolVars, ctlVars
  <2>2. Log' = Log
    <3>1. \/ /\ results # <<>> /\ popped' = Append(popped, Head(results))
             /\ results' = Tail(results)
          \/ UNCHANGED resultVars
      BY <1>2 DEF CallControl, PopRest
    <3>2. UNCHANGED resultVars => Log' = Log
      BY DEF resultVars, Log
    <3> QED
      BY <3>1, <3>2, PopKeepsLog DEF FullInv, PoolInv, TypeInv
  <2>3. FinishInv'
    BY <1>2, <2>1 DEF CallControl, PopRest, LogInv, FinishInv, ctlVars
  <2> QED
    BY <2>1, <2>2, <2>3, LogUnchanged DEF Started
<1>3. CASE FinishEarly \/ Leave \/ ProbeFails \/ SendJob \/ ControlReturns \/ Finish
           \/ SendStop \/ SendStopReturns \/ (\E w \in Workers : Worker(w)) \/ UNCHANGED vars
  <2>1. UNCHANGED <<active, current, jobs, nextId, popped, results>>
    BY <1>3 DEF FinishEarly, Leave, ProbeFails, SendJob, ControlReturns, Finish, SendStop,
       SendStopReturns, Worker, ReceiveJob, CommCreated, RunnerReturns, ReplyReturns,
       ReceiveStop, vars, ctlVars, poolVars, resultVars
  <2>2. FinishInv'
    <3>1. CASE Finish
      <4>1. ~Unfinished <=> DOMAIN active = {}
        BY NothingActive DEF Unfinished, FullInv, PoolInv, TypeInv
      <4> QED
        BY <2>1, <3>1, <4>1 DEF Finish, LogInv, FinishInv
    <3>2. CASE ControlReturns \/ FinishEarly
      BY <2>1, <3>2 DEF ControlReturns, FinishEarly, FinishInv
    <3>3. CASE Leave \/ ProbeFails \/ SendStop \/ SendStopReturns
      BY <2>1, <3>3 DEF Leave, ProbeFails, SendStop, SendStopReturns, LogInv, FinishInv
    <3>4. CASE SendJob \/ (\E w \in Workers : Worker(w)) \/ UNCHANGED vars
      <4>1. ctl' = ctl
        BY <3>4 DEF SendJob, Worker, ReceiveJob, CommCreated, RunnerReturns, ReplyReturns,
           ReceiveStop, vars, ctlVars
      <4> QED
        BY <2>1, <4>1 DEF LogInv, FinishInv
    <3> QED
      BY <1>3, <3>1, <3>2, <3>3, <3>4
  <2> QED
    BY <2>1, <2>2, LogUnchanged DEF Log, Started
<1> QED
  BY <1>1, <1>2, <1>3 DEF Next, Controller, Terminated

\* at the end nothing is active and nothing is being sent
LEMMA AllAnswered ==
    ASSUME FullInv, LogInv, ctl \in {"stop", "after", "done"}, NEW id \in Ids, id < Started
    PROVE  AnswersOf(id) # {}
<1>1. current = Idle /\ DOMAIN active = {}
  BY DEF FullInv, PoolInv, TypeInv, LoopState, LogInv, FinishInv
<1> QED
  BY <1>1 DEF LogInv, Remembered

LEMMA NotForgotten == FullInv /\ LogInv => NoJobForgotten
<1> SUFFICES ASSUME FullInv, LogInv, ctl \in {"stop", "after", "done"},
                    NEW id \in Ids, id < nextId
             PROVE  \/ AnswersOf(id) # {}
                    \/ Script = "early" /\ \E k \in 1 .. Len(jobs) : jobs[k].id = id
    BY DEF NoJobForgotten
<1>1. CASE id < Started
  BY <1>1, AllAnswered
<1>2. CASE ~(id < Started)
  <2>1. jobs \in Seq(Job) /\ nextId \in Int /\ id \in Int
    BY Constants DEF FullInv, PoolInv, TypeInv, TypeOK, Ids
  <2>2. Len(jobs) \in Nat /\ Started \in Int /\ nextId = Started + Len(jobs)
    BY <2>1, LenProperties DEF Started
  <2>3. id - Started + 1 \in 1 .. Len(jobs)
    BY <1>2, <2>1, <2>2
  <2>4. jobs[id - Started + 1].id = id
    <3>1. jobs[id - Started + 1].id = Started + (id - Started + 1) - 1
      BY <2>3 DEF FullInv, PoolInv, IdsInOrder
    <3> QED
      BY <2>1, <2>2, <3>1
  <2>5. jobs # <<>>
    BY <2>3, EmptySeq
  <2> QED
    BY <2>3, <2>4, <2>5 DEF LogInv, FinishInv
<1> QED
  BY <1>1, <1>2

LEMMA LogInvariant == Spec => [](FullInv /\ LogInv)
<1>1. Init => LogInv
  BY InitLog
<1>2. FullInv /\ LogInv /\ [Next]_vars => LogInv'
  BY StepLog
<1> QED
  BY <1>1, <1>2, FullInvariant, PTL DEF Spec

\* finish() stops the workers only when every job that was started is answered, whatever
\* its ranks return: no answer is lost, and none of another job is taken for it.
THEOREM NobodyForgotten == Spec => []NoJobForgotten
BY LogInvariant, NotForgotten, PTL

-----------------------------------------------------------------------------
(* One answer per job                                                       *)

\* steps that add no assignment
LEMMA AssignedShrinks ==
    ASSUME SameAssignment,
           \A t \in Task : Assigned(t)' => Assigned(t),
           \A w \in Workers : task'[w] # Idle => w \in Block(task'[w])
    PROVE  SameAssignment'
BY DEF SameAssignment

LEMMA WaitingMessage ==
    ASSUME FullInv, NEW w \in Workers, NEW k \in Waiting(w)
    PROVE  inbox[w][k] \in Task /\ w \in Block(inbox[w][k])
<1>1. inbox[w] \in Seq(Task \cup {Stop}) /\ k \in 1 .. Len(inbox[w])
  BY Constants DEF FullInv, PoolInv, TypeInv, TypeOK, Waiting
<1>2. inbox[w][k] \in Task \cup {Stop} /\ inbox[w][k].tag = "job"
  BY <1>1, ElementOfSeq DEF Waiting
<1>3. w \in Block(inbox[w][k])
  BY DEF FullInv, MessageInv, WaitingInv
<1> QED
  BY <1>2, <1>3, MessageKind

\* the job of every assignment has left the queue
LEMMA AssignedStarted ==
    ASSUME FullInv, current = Idle, NEW t \in Task, Assigned(t)
    PROVE  t.job.id < Started
<1>1. CASE \E w \in Workers : task[w] # Idle /\ t = task[w]
  <2>1. PICK w \in Workers : task[w] # Idle /\ t = task[w]
    BY <1>1
  <2>2. w \in entered[t.job.id] /\ t.job.id \in Ids
    BY <2>1, TaskFields DEF FullInv, MessageInv, EnteredInv
  <2> QED
    BY <2>2 DEF FullInv, MessageInv, EnteredInv
<1>2. CASE \E w \in Workers : \E k \in Waiting(w) : t = inbox[w][k]
  <2>1. t.job.id \in DOMAIN active
    BY <1>2 DEF FullInv, MessageInv, WaitingInv
  <2> QED
    BY <2>1 DEF FullInv, PoolInv, IdsInOrder
<1> QED
  BY <1>1, <1>2 DEF Assigned

LEMMA RunJobSame == FullInv /\ SameAssignment /\ RunJob => SameAssignment'
<1> SUFFICES ASSUME FullInv, SameAssignment, RunJob PROVE SameAssignment'
    OBVIOUS
<1>1. PICK first \in FirstFit(Head(jobs).fn.size) :
         current' = [tag |-> "job", first |-> first, last |-> first + Head(jobs).fn.size - 1,
                     job |-> Head(jobs)]
  BY DEF RunJob
<1>2. /\ jobs # <<>> /\ ctl = "dispatch" /\ UNCHANGED <<inbox, task>>
  BY DEF RunJob, workerVars
<1>3. current = Idle
  BY <1>2 DEF FullInv, PoolInv, TypeInv, LoopState
<1>4. Head(jobs).id = Started
  <2>1. Head(jobs) = jobs[1] /\ Len(jobs) \in Nat /\ Len(jobs) >= 1 /\ nextId \in Int
    BY <1>2, Constants, TailFacts DEF FullInv, PoolInv, TypeInv, TypeOK
  <2>2. jobs[1].id = Started + 1 - 1 /\ Started \in Int
    BY <2>1 DEF FullInv, PoolInv, IdsInOrder, Started
  <2> QED
    BY <2>1, <2>2
<1>5. current'.job.id = Started /\ current'.last = current'.first + current'.job.fn.size - 1
  BY <1>1, <1>4
<1>6. \A w : Waiting(w)' = Waiting(w)
  BY <1>2 DEF Waiting
<1>7. \A t \in Task : Assigned(t)' => t = current' \/ Assigned(t)
  BY <1>2, <1>6 DEF Assigned
<1>8. \A t \in Task : Assigned(t) => t.job.id < Started /\ t.job.id \in Int
  BY <1>3, AssignedStarted, TaskFields DEF Ids
<1>9. \A t, u \in Task : Assigned(t)' /\ Assigned(u)' /\ t.job.id = u.job.id => t = u
  <2> SUFFICES ASSUME NEW t \in Task, NEW u \in Task, Assigned(t)', Assigned(u)',
                      t.job.id = u.job.id
               PROVE  t = u
      OBVIOUS
  <2>1. CASE Assigned(t) /\ Assigned(u)
    BY <2>1 DEF SameAssignment
  <2>2. CASE ~(Assigned(t) /\ Assigned(u))
    BY <1>5, <1>7, <1>8, <2>2
  <2> QED
    BY <2>1, <2>2
<1>10. \A t \in Task : Assigned(t)' => t.last = t.first + t.job.fn.size - 1
  BY <1>5, <1>7 DEF SameAssignment
<1>11. \A w \in Workers : task'[w] # Idle => w \in Block(task'[w])
  BY <1>2 DEF SameAssignment
<1> QED
  BY <1>9, <1>10, <1>11 DEF SameAssignment

LEMMA SendJobSame == FullInv /\ SameAssignment /\ SendJob => SameAssignment'
<1> SUFFICES ASSUME FullInv, SameAssignment, SendJob PROVE SameAssignment'
    OBVIOUS
<1>1. /\ inbox' = [inbox EXCEPT ![cursor] = Append(@, current)]
      /\ UNCHANGED <<current, task>> /\ current # Idle
  BY DEF SendJob, workerVars, FullInv, PoolInv, TypeInv, LoopState
<1>2. ASSUME NEW w \in Workers, NEW k \in Waiting(w)'
      PROVE  inbox'[w][k] = current \/ (k \in Waiting(w) /\ inbox'[w][k] = inbox[w][k])
  <2>1. /\ inbox \in [Others -> Seq(Task \cup {Stop})] /\ w \in Others
        /\ inbox[w] \in Seq(Task \cup {Stop}) /\ current \in Task \cup {Stop}
    BY <1>1, Constants DEF FullInv, PoolInv, TypeInv, TypeOK
  <2>2. CASE w = cursor
    <3>1. inbox'[w] = Append(inbox[w], current)
      BY <1>1, <2>1, <2>2
    <3>2. /\ Len(inbox[w]) \in Nat /\ Len(inbox'[w]) = Len(inbox[w]) + 1
          /\ \A i \in 1 .. Len(inbox[w]) : inbox'[w][i] = inbox[w][i]
          /\ inbox'[w][Len(inbox[w]) + 1] = current
      BY <2>1, <3>1, AppendFacts
    <3>3. k \in 1 .. Len(inbox[w]) \/ k = Len(inbox[w]) + 1
      BY <3>2 DEF Waiting
    <3> QED
      BY <3>2, <3>3 DEF Waiting
  <2>3. CASE w # cursor
    BY <1>1, <2>1, <2>3 DEF Waiting
  <2> QED
    BY <2>2, <2>3
<1>3. \A t \in Task : Assigned(t)' => Assigned(t)
  BY <1>1, <1>2 DEF Assigned
<1> QED
  BY <1>1, <1>3, AssignedShrinks DEF SameAssignment

LEMMA ReceiveJobSame ==
    ASSUME FullInv, SameAssignment, NEW w \in Workers, ReceiveJob(w)
    PROVE  SameAssignment'
<1>1. /\ inbox[w] # <<>> /\ inbox' = [inbox EXCEPT ![w] = Tail(@)]
      /\ task' = [task EXCEPT ![w] = Head(inbox[w])]
      /\ current' = current /\ Head(inbox[w]).tag = "job"
  BY DEF ReceiveJob, ctlVars
<1>2. 1 \in Waiting(w) /\ Head(inbox[w]) = inbox[w][1]
  <2>1. inbox[w] \in Seq(Task \cup {Stop})
    BY Constants DEF FullInv, PoolInv, TypeInv, TypeOK
  <2>2. Head(inbox[w]) = inbox[w][1] /\ Len(inbox[w]) \in Nat /\ Len(inbox[w]) >= 1
    BY <1>1, <2>1, TailFacts
  <2> QED
    BY <1>1, <2>2 DEF Waiting
<1>3. \A v \in Workers : \A k \in Waiting(v)' :
         k + Shift(v, w) \in Waiting(v) /\ inbox'[v][k] = inbox[v][k + Shift(v, w)]
  BY <1>1, WaitingTail
<1>4. \A v \in Workers : task'[v] = IF v = w THEN inbox[w][1] ELSE task[v]
  BY <1>1, <1>2 DEF FullInv, PoolInv, TypeInv, TypeOK
<1>5. ASSUME NEW t \in Task, Assigned(t)' PROVE Assigned(t)
  <2>1. CASE \E v \in Workers : \E k \in Waiting(v)' : t = inbox'[v][k]
    BY <1>3, <2>1 DEF Assigned
  <2>2. CASE \E v \in Workers : task'[v] # Idle /\ t = task'[v]
    BY <1>2, <1>4, <2>2 DEF Assigned
  <2>3. CASE current # Idle /\ t = current
    BY <2>3 DEF Assigned
  <2> QED
    BY <1>1, <1>5, <2>1, <2>2, <2>3 DEF Assigned
<1>6. \A v \in Workers : task'[v] # Idle => v \in Block(task'[v])
  BY <1>2, <1>4, WaitingMessage DEF SameAssignment
<1> QED
  BY <1>5, <1>6, AssignedShrinks

\* the other messages that come and go are no assignments
LEMMA InboxSame ==
    ASSUME FullInv, SameAssignment, UNCHANGED <<current, task>>,
           \/ SendStop
           \/ \E w \in Workers : ReceiveStop(w)
    PROVE  SameAssignment'
<1>1. ASSUME NEW v \in Workers, NEW k \in Waiting(v)'
      PROVE  \E j \in Waiting(v) : inbox'[v][k] = inbox[v][j]
  <2>1. CASE SendStop
    <3>1. /\ inbox \in [Others -> Seq(Task \cup {Stop})] /\ v \in Others
          /\ inbox[v] \in Seq(Task \cup {Stop}) /\ Stop \in Task \cup {Stop}
          /\ Stop.tag = "stop"
      BY Constants DEF FullInv, PoolInv, TypeInv, TypeOK, Stop
    <3>2. inbox' = [inbox EXCEPT ![cursor] = Append(@, Stop)]
      BY <2>1 DEF SendStop
    <3>3. CASE v = cursor
      <4>1. inbox'[v] = Append(inbox[v], Stop)
        BY <3>1, <3>2, <3>3
      <4>2. /\ Len(inbox[v]) \in Nat /\ Len(inbox'[v]) = Len(inbox[v]) + 1
            /\ \A i \in 1 .. Len(inbox[v]) : inbox'[v][i] = inbox[v][i]
            /\ inbox'[v][Len(inbox[v]) + 1] = Stop
        BY <3>1, <4>1, AppendFacts
      <4>3. k \in 1 .. Len(inbox[v]) \/ k = Len(inbox[v]) + 1
        BY <4>2 DEF Waiting
      <4> QED
        BY <3>1, <4>2, <4>3 DEF Waiting
    <3>4. CASE v # cursor
      BY <3>1, <3>2, <3>4 DEF Waiting
    <3> QED
      BY <3>3, <3>4
  <2>2. CASE \E w \in Workers : ReceiveStop(w)
    <3>1. PICK w \in Workers : ReceiveStop(w)
      BY <2>2
    <3>2. inbox[w] # <<>> /\ inbox' = [inbox EXCEPT ![w] = Tail(@)]
      BY <3>1 DEF ReceiveStop
    <3> QED
      BY <3>2, WaitingTail
  <2> QED
    BY <2>1, <2>2
<1>2. \A t \in Task : Assigned(t)' => Assigned(t)
  BY <1>1 DEF Assigned
<1> QED
  BY <1>2, AssignedShrinks DEF SameAssignment

LEMMA StepSame == FullInv /\ SameAssignment /\ [Next]_vars => SameAssignment'
<1> SUFFICES ASSUME FullInv, SameAssignment, [Next]_vars PROVE SameAssignment'
    OBVIOUS
<1>1. CASE RunJob \/ SendJob \/ \E w \in Workers : ReceiveJob(w)
  BY <1>1, RunJobSame, SendJobSame, ReceiveJobSame
<1>2. CASE SendStop \/ \E w \in Workers : ReceiveStop(w)
  <2>1. UNCHANGED <<current, task>>
    BY <1>2 DEF SendStop, ReceiveStop, ctlVars, workerVars
  <2> QED
    BY <1>2, <2>1, InboxSame
<1>3. CASE \/ Schedule \/ CallControl \/ FinishEarly \/ PopRest \/ Leave \/ ProbeFails
           \/ ControlReturns \/ Finish \/ SendStopReturns \/ UNCHANGED vars \/ SendJobReturns
           \/ \E w \in Workers : ReceiveAnswer(w) \/ CommCreated(w)
  <2>1. UNCHANGED <<inbox, task>>
    BY <1>3 DEF Schedule, CallControl, FinishEarly, PopRest, Leave, ProbeFails,
       ControlReturns, Finish, SendStopReturns, SendJobReturns, ReceiveAnswer, CommCreated,
       vars, workerVars
  <2>0. current' \in {current, Idle}
    <3>1. CASE SendJobReturns
      BY <3>1 DEF SendJobReturns
    <3>2. CASE ~SendJobReturns
      BY <1>3, <3>2 DEF Schedule, CallControl, FinishEarly, PopRest, Leave, ProbeFails,
         ControlReturns, Finish, SendStopReturns, ReceiveAnswer, CommCreated, vars, ctlVars
    <3> QED
      BY <3>1, <3>2
  <2>2. \A w : Waiting(w)' = Waiting(w)
    BY <2>1 DEF Waiting
  <2>3. \A t \in Task : Assigned(t)' => Assigned(t)
    BY <2>0, <2>1, <2>2 DEF Assigned
  <2> QED
    BY <2>1, <2>3, AssignedShrinks DEF SameAssignment
<1>4. CASE \E w \in Workers : RunnerReturns(w) \/ ReplyReturns(w)
  <2>1. PICK w \in Workers : RunnerReturns(w) \/ ReplyReturns(w)
    BY <1>4
  <2>2. /\ UNCHANGED <<inbox, current>>
        /\ task' = task \/ task' = [task EXCEPT ![w] = Idle]
    BY <2>1 DEF RunnerReturns, ReplyReturns, ctlVars
  <2>3. \A v \in Workers : task'[v] = task[v] \/ task'[v] = Idle
    BY <2>2 DEF FullInv, PoolInv, TypeInv, TypeOK
  <2>4. \A v : Waiting(v)' = Waiting(v)
    BY <2>2 DEF Waiting
  <2>5. \A t \in Task : Assigned(t)' => Assigned(t)
    BY <2>2, <2>3, <2>4 DEF Assigned
  <2> QED
    BY <2>3, <2>5, AssignedShrinks DEF SameAssignment
<1> QED
  BY <1>1, <1>2, <1>3, <1>4 DEF Next, Controller, Worker, Terminated

\* a rank that still waits for a job has not heard of its answer
LEMMA WaitingUnanswered ==
    ASSUME FullInv, LogInv, NEW w \in Workers, NEW k \in Waiting(w)
    PROVE  ~OnItsWay(inbox[w][k].job.id) /\ AnswersOf(inbox[w][k].job.id) = {}
<1> DEFINE t == inbox[w][k]
           id == t.job.id
<1>1. t \in Task /\ w \in Block(t) /\ id \in Ids /\ id \in Int
  BY WaitingMessage, TaskFields DEF Ids
<1>2. \/ t = current /\ current # Idle
      \/ id \in DOMAIN active /\ active[id] = [first |-> t.first, last |-> t.last]
  BY DEF FullInv, MessageInv, WaitingInv
<1>3. w \notin entered[id]
  BY <1>1 DEF FullInv, MessageInv, EnteredInv
<1>4. ASSUME OnItsWay(id) PROVE FALSE
  <2>1. PICK v \in Workers : \E j \in 1 .. Len(answers[v]) : answers[v][j].id = id
    BY <1>4 DEF OnItsWay
  <2>2. PICK j \in 1 .. Len(answers[v]) : answers[v][j].id = id
    BY <2>1
  <2>3. /\ id \in DOMAIN active => Block(active[id]) \subseteq entered[id]
        /\ current # Idle /\ id = current.job.id => Block(current) \subseteq entered[id]
    BY <2>2 DEF FullInv, MessageInv, AnswerInv
  <2>4. active[id] = [first |-> t.first, last |-> t.last] => Block(active[id]) = Block(t)
    BY DEF Block
  <2> QED
    BY <1>1, <1>2, <1>3, <2>3, <2>4
<1>5. AnswersOf(id) = {}
  BY <1>1, <1>2 DEF LogInv, AnsweredIsOver
<1> QED
  BY <1>4, <1>5

\* only one rank of a job has an answer to send
LEMMA SameReplier ==
    ASSUME OneReplier, FullInv, SameAssignment, NEW v \in Workers, NEW w \in Workers,
           task[v] # Idle, task[w] # Idle, Replies(v), Replies(w),
           task[v].job.id = task[w].job.id
    PROVE  v = w
<1> DEFINE t == task[w]
           f == t.job.fn
<1>1. task[v] \in Task /\ t \in Task
  BY DEF FullInv, PoolInv, TypeInv, TypeOK
<1>2. task[v] = t
  BY <1>1 DEF SameAssignment, Assigned
<1>3. /\ f \in Functions /\ f.size \in Nat /\ t.first \in Int /\ v \in Int /\ w \in Int
  BY <1>1, TaskFields, FunctionFields, Constants DEF Others, Workers
<1>4. t.last = t.first + f.size - 1 /\ v \in Block(t) /\ w \in Block(t)
  BY <1>1, <1>2 DEF SameAssignment, Assigned
<1>5. v - t.first \in 0 .. f.size - 1 /\ w - t.first \in 0 .. f.size - 1
  BY <1>3, <1>4 DEF Block
<1>6. Sends(f, v - t.first) /\ Sends(f, w - t.first)
  BY <1>2 DEF Sends, Replies, Returned
<1>7. v - t.first = w - t.first
  BY <1>3, <1>5, <1>6 DEF OneReplier
<1> QED
  BY <1>3, <1>7

\* steps that neither send nor receive an answer, nor give a worker a task
LEMMA OnceUnchanged ==
    ASSUME OnceInv, UNCHANGED answers, Log' = Log,
           \A w \in Workers : pc'[w] \in {"join", "run"} =>
              pc[w] \in {"join", "run"} /\ task'[w] = task[w]
    PROVE  OnceInv'
<1>1. \A id : AnswersOf(id)' = AnswersOf(id) /\ (OnItsWay(id)' <=> OnItsWay(id))
  BY SameLog DEF OnItsWay
<1>2. \A w \in Workers : task'[w] = task[w] => (Replies(w)' <=> Replies(w))
  BY DEF Replies, Returned
<1>3. Unsent'
  BY <1>1, <1>2 DEF OnceInv, Unsent
<1>4. OnItsWayOnce'
  BY <1>1 DEF OnceInv, OnItsWayOnce
<1>5. AtMostOneAnswer'
  BY <1>1 DEF OnceInv, AtMostOneAnswer
<1> QED
  BY <1>3, <1>4, <1>5 DEF OnceInv

LEMMA ReceiveJobOnce ==
    ASSUME FullInv, LogInv, OnceInv, NEW w \in Workers, ReceiveJob(w)
    PROVE  OnceInv'
<1>1. /\ inbox[w] # <<>> /\ Head(inbox[w]).tag = "job"
      /\ task' = [task EXCEPT ![w] = Head(inbox[w])]
      /\ pc' = [pc EXCEPT ![w] = "join"]
      /\ UNCHANGED <<answers, popped, results>>
  BY DEF ReceiveJob, resultVars
<1>2. 1 \in Waiting(w) /\ Head(inbox[w]) = inbox[w][1]
  <2>1. inbox[w] \in Seq(Task \cup {Stop})
    BY Constants DEF FullInv, PoolInv, TypeInv, TypeOK
  <2>2. Head(inbox[w]) = inbox[w][1] /\ Len(inbox[w]) \in Nat /\ Len(inbox[w]) >= 1
    BY <1>1, <2>1, TailFacts
  <2> QED
    BY <1>1, <2>2 DEF Waiting
<1>3. \A id : AnswersOf(id)' = AnswersOf(id) /\ (OnItsWay(id)' <=> OnItsWay(id))
  BY <1>1, SameLog DEF OnItsWay, Log
<1>4. Unsent'
  <2> SUFFICES ASSUME NEW v \in Workers, pc'[v] \in {"join", "run"}, Replies(v)'
               PROVE  ~OnItsWay(task'[v].job.id) /\ AnswersOf(task'[v].job.id) = {}
      BY <1>3 DEF Unsent
  <2>1. CASE v = w
    <3>1. task'[v] = inbox[w][1]
      BY <1>1, <1>2, <2>1 DEF FullInv, PoolInv, TypeInv, TypeOK
    <3> QED
      BY <1>2, <3>1, WaitingUnanswered
  <2>2. CASE v # w
    <3>1. task'[v] = task[v] /\ pc'[v] = pc[v]
      BY <1>1, <2>2 DEF FullInv, PoolInv, TypeInv, TypeOK
    <3>2. Replies(v)
      BY <3>1 DEF Replies, Returned
    <3> QED
      BY <3>1, <3>2 DEF OnceInv, Unsent
  <2> QED
    BY <2>1, <2>2
<1>5. OnItsWayOnce' /\ AtMostOneAnswer'
  BY <1>1, <1>3 DEF OnceInv, OnItsWayOnce, AtMostOneAnswer
<1> QED
  BY <1>4, <1>5 DEF OnceInv

\* what comes of the answers of w when it sends one more
LEMMA AnswerSent ==
    ASSUME TypeOK, NEW w \in Workers, NEW a \in Answer,
           answers' = [answers EXCEPT ![w] = Append(@, a)]
    PROVE  /\ Len(answers[w]) \in Nat
           /\ \A v \in Workers : \A k \in 1 .. Len(answers'[v]) :
                 \/ v = w /\ k = Len(answers[w]) + 1 /\ answers'[v][k] = a
                 \/ k \in 1 .. Len(answers[v]) /\ answers'[v][k] = answers[v][k]
<1>1. answers \in [Workers -> Seq(Answer)] /\ answers[w] \in Seq(Answer)
  BY DEF TypeOK
<1>2. /\ Len(answers[w]) \in Nat /\ Len(Append(answers[w], a)) = Len(answers[w]) + 1
      /\ \A i \in 1 .. Len(answers[w]) : Append(answers[w], a)[i] = answers[w][i]
      /\ Append(answers[w], a)[Len(answers[w]) + 1] = a
  BY <1>1, AppendFacts
<1>3. ASSUME NEW v \in Workers, NEW k \in 1 .. Len(answers'[v])
      PROVE  \/ v = w /\ k = Len(answers[w]) + 1 /\ answers'[v][k] = a
             \/ k \in 1 .. Len(answers[v]) /\ answers'[v][k] = answers[v][k]
  <2>1. CASE v = w
    <3>1. answers'[v] = Append(answers[w], a)
      BY <1>1, <2>1
    <3>2. k \in 1 .. Len(answers[w]) \/ k = Len(answers[w]) + 1
      BY <1>2, <3>1
    <3> QED
      BY <1>2, <2>1, <3>1, <3>2
  <2>2. CASE v # w
    BY <1>1, <2>2
  <2> QED
    BY <2>1, <2>2
<1> QED
  BY <1>2, <1>3

LEMMA RunnerReturnsOnce ==
    ASSUME OneReplier, FullInv, SameAssignment, OnceInv, NEW w \in Workers, RunnerReturns(w)
    PROVE  OnceInv'
<1>1. pc[w] = "run" /\ UNCHANGED <<popped, results>> /\ Log' = Log
  BY DEF RunnerReturns, resultVars, Log
<1>2. CASE ~Replies(w)
  <2>1. /\ pc' = [pc EXCEPT ![w] = "listen"] /\ task' = [task EXCEPT ![w] = Idle]
        /\ answers' = answers
    BY <1>2 DEF RunnerReturns
  <2>2. \A v \in Workers : pc'[v] \in {"join", "run"} =>
           pc[v] \in {"join", "run"} /\ task'[v] = task[v]
    BY <2>1 DEF FullInv, PoolInv, TypeInv, TypeOK
  <2> QED
    BY <1>1, <2>1, <2>2, OnceUnchanged
<1>3. CASE Replies(w)
  <2>1. PICK a : a = [id |-> task[w].job.id, kind |-> Returned(w)]
    OBVIOUS
  <2>2. /\ answers' = [answers EXCEPT ![w] = Append(@, a)]
        /\ pc' = [pc EXCEPT ![w] = "reply"] /\ task' = task
    BY <1>3, <2>1 DEF RunnerReturns
  <2>3. task[w] # Idle /\ task[w] \in Task
    BY <1>1 DEF FullInv, PoolInv, TypeInv, TypeOK, LoopState
  <2>4. a \in Answer /\ a.id = task[w].job.id /\ a.id \in Ids
    <3>1. Returned(w) \in Kinds
      BY <2>3, TaskFields, FunctionFields DEF Returned, Kinds
    <3> QED
      BY <2>1, <2>3, <3>1, TaskFields DEF Answer
  <2>5. ~OnItsWay(a.id) /\ AnswersOf(a.id) = {}
    BY <1>1, <1>3, <2>4 DEF OnceInv, Unsent
  <2>6. /\ Len(answers[w]) \in Nat
        /\ \A v \in Workers : \A k \in 1 .. Len(answers'[v]) :
              \/ v = w /\ k = Len(answers[w]) + 1 /\ answers'[v][k] = a
              \/ k \in 1 .. Len(answers[v]) /\ answers'[v][k] = answers[v][k]
    BY <2>2, <2>4, AnswerSent DEF FullInv, PoolInv, TypeInv
  <2>7. \A id : AnswersOf(id)' = AnswersOf(id)
    BY <1>1, SameLog
  <2>8. \A id : OnItsWay(id)' => OnItsWay(id) \/ id = a.id
    BY <2>6 DEF OnItsWay
  <2>9. Unsent'
    <3> SUFFICES ASSUME NEW v \in Workers, pc'[v] \in {"join", "run"}, Replies(v)'
                 PROVE  ~OnItsWay(task[v].job.id)' /\ AnswersOf(task[v].job.id) = {}
        BY <2>2, <2>7 DEF Unsent
    <3>1. v # w /\ pc[v] \in {"join", "run"} /\ task'[v] = task[v]
      BY <2>2 DEF FullInv, PoolInv, TypeInv, TypeOK
    <3>2. Replies(v) /\ task[v] # Idle
      BY <3>1 DEF Replies, Returned, FullInv, PoolInv, TypeInv, LoopState
    <3>3. ~OnItsWay(task[v].job.id) /\ AnswersOf(task[v].job.id) = {}
      BY <3>1, <3>2 DEF OnceInv, Unsent
    <3>4. task[v].job.id # a.id
      BY <1>3, <2>3, <2>4, <3>1, <3>2, SameReplier
    <3> QED
      BY <2>8, <2>2, <3>3, <3>4
  <2>10. OnItsWayOnce'
    <3>0. \A v \in Workers : \A k \in 1 .. Len(answers[v]) : answers[v][k].id # a.id
      BY <2>5 DEF OnItsWay
    <3>1. ASSUME NEW u \in Workers, NEW v \in Workers, NEW j \in 1 .. Len(answers'[u]),
                 NEW k \in 1 .. Len(answers'[v]), answers'[u][j].id = answers'[v][k].id
          PROVE  u = v /\ j = k
      <4>1. \/ u = w /\ j = Len(answers[w]) + 1 /\ answers'[u][j] = a
            \/ j \in 1 .. Len(answers[u]) /\ answers'[u][j] = answers[u][j]
        BY <2>6
      <4>2. \/ v = w /\ k = Len(answers[w]) + 1 /\ answers'[v][k] = a
            \/ k \in 1 .. Len(answers[v]) /\ answers'[v][k] = answers[v][k]
        BY <2>6
      <4>3. \A x, y \in Workers : \A l \in 1 .. Len(answers[x]) : \A m \in 1 .. Len(answers[y]) :
               answers[x][l].id = answers[y][m].id => x = y /\ l = m
        BY DEF OnceInv, OnItsWayOnce
      <4>4. CASE u = w /\ j = Len(answers[w]) + 1 /\ answers'[u][j] = a
        BY <3>0, <3>1, <4>2, <4>4
      <4>5. CASE j \in 1 .. Len(answers[u]) /\ answers'[u][j] = answers[u][j]
        <5>1. answers[u][j].id # a.id
          BY <3>0, <4>5
        <5>2. k \in 1 .. Len(answers[v]) /\ answers'[v][k] = answers[v][k]
          BY <3>1, <4>2, <4>5, <5>1
        <5>3. answers[u][j].id = answers[v][k].id
          BY <3>1, <4>5, <5>2
        <5> QED
          BY <4>3, <4>5, <5>2, <5>3
      <4> QED
        BY <4>1, <4>4, <4>5
    <3>2. \A id \in Ids : OnItsWay(id)' => AnswersOf(id)' = {}
      BY <2>5, <2>7, <2>8 DEF OnceInv, OnItsWayOnce
    <3> QED
      BY <3>1, <3>2 DEF OnItsWayOnce
  <2>11. AtMostOneAnswer'
    BY <2>7 DEF OnceInv, AtMostOneAnswer
  <2> QED
    BY <2>9, <2>10, <2>11 DEF OnceInv
<1> QED
  BY <1>2, <1>3

LEMMA ReceiveAnswerOnce ==
    ASSUME FullInv, OnceInv, NEW w \in Workers, ReceiveAnswer(w)
    PROVE  OnceInv'
<1>1. PICK a : a = Head(answers[w])
  OBVIOUS
<1>2. /\ answers \in [Workers -> Seq(Answer)] /\ answers[w] \in Seq(Answer)
      /\ answers[w] # <<>>
  BY DEF FullInv, PoolInv, TypeInv, TypeOK, ReceiveAnswer
<1>3. /\ a \in Answer /\ a.id \in Ids /\ a = answers[w][1]
      /\ 1 \in 1 .. Len(answers[w]) /\ Len(answers[w]) \in Nat
  <2>1. a \in Answer /\ a = answers[w][1] /\ Len(answers[w]) \in Nat /\ Len(answers[w]) >= 1
    BY <1>1, <1>2, TailFacts
  <2> QED
    BY <2>1 DEF Answer
<1>4. /\ results' = Append(results, a) /\ popped' = popped
      /\ answers' = [answers EXCEPT ![w] = Tail(@)]
      /\ UNCHANGED <<pc, task>>
  BY <1>1 DEF ReceiveAnswer, workerVars
<1>5. /\ AnswersOf(a.id)' = AnswersOf(a.id) \cup {Len(Log) + 1}
      /\ \A id : id # a.id => AnswersOf(id)' = AnswersOf(id)
  BY <1>3, <1>4, ReceivedAnswers DEF FullInv, PoolInv, TypeInv
<1>6. OnItsWay(a.id) /\ AnswersOf(a.id) = {}
  BY <1>3 DEF OnItsWay, OnceInv, OnItsWayOnce
<1> DEFINE From(v, k) == IF v = w THEN k + 1 ELSE k
<1>7. ASSUME NEW v \in Workers, NEW k \in 1 .. Len(answers'[v])
      PROVE  /\ From(v, k) \in 1 .. Len(answers[v]) /\ k \in Int /\ k >= 1
             /\ answers'[v][k] = answers[v][From(v, k)]
  <2>1. CASE v = w
    <3>1. answers'[v] = Tail(answers[w])
      BY <1>2, <1>4, <2>1
    <3> QED
      BY <1>2, <1>3, <2>1, <3>1, TailFacts
  <2>2. CASE v # w
    BY <1>2, <1>4, <2>2
  <2> QED
    BY <2>1, <2>2
<1>8. ASSUME NEW id, OnItsWay(id)' PROVE OnItsWay(id) /\ id # a.id
  <2>1. PICK v \in Workers : \E k \in 1 .. Len(answers'[v]) : answers'[v][k].id = id
    BY <1>8 DEF OnItsWay
  <2>2. PICK k \in 1 .. Len(answers'[v]) : answers'[v][k].id = id
    BY <2>1
  <2>3. From(v, k) \in 1 .. Len(answers[v]) /\ answers[v][From(v, k)].id = id
    BY <1>7, <2>2
  <2>4. ~(v = w /\ From(v, k) = 1)
    BY <1>7, <2>2
  <2>5. id # a.id
    BY <1>3, <2>3, <2>4 DEF OnceInv, OnItsWayOnce
  <2> QED
    BY <2>3, <2>5 DEF OnItsWay
<1>9. Unsent'
  <2> SUFFICES ASSUME NEW v \in Workers, pc[v] \in {"join", "run"}, Replies(v)
               PROVE  ~OnItsWay(task[v].job.id)' /\ AnswersOf(task[v].job.id)' = {}
      BY <1>4 DEF Unsent, Replies, Returned
  <2>1. PICK id : id = task[v].job.id
    OBVIOUS
  <2>2. ~OnItsWay(id) /\ AnswersOf(id) = {}
    BY <2>1 DEF OnceInv, Unsent
  <2>3. ~OnItsWay(id)' /\ AnswersOf(id)' = {}
    BY <1>5, <1>6, <1>8, <2>2
  <2>4. task'[v].job.id = id
    BY <1>4, <2>1
  <2> QED
    BY <2>3, <2>4 DEF OnItsWay, AnswersOf
<1>10. OnItsWayOnce'
  <2>1. ASSUME NEW u \in Workers, NEW v \in Workers, NEW j \in 1 .. Len(answers'[u]),
               NEW k \in 1 .. Len(answers'[v]), answers'[u][j].id = answers'[v][k].id
        PROVE  u = v /\ j = k
    <3>1. /\ From(u, j) \in 1 .. Len(answers[u]) /\ answers'[u][j] = answers[u][From(u, j)]
          /\ From(v, k) \in 1 .. Len(answers[v]) /\ answers'[v][k] = answers[v][From(v, k)]
          /\ j \in Int /\ k \in Int
      BY <1>7
    <3>2. u = v /\ From(u, j) = From(v, k)
      BY <2>1, <3>1 DEF OnceInv, OnItsWayOnce
    <3> QED
      BY <3>1, <3>2
  <2>2. \A id \in Ids : OnItsWay(id)' => AnswersOf(id)' = {}
    BY <1>5, <1>8 DEF OnceInv, OnItsWayOnce
  <2> QED
    BY <2>1, <2>2 DEF OnItsWayOnce
<1>11. AtMostOneAnswer'
  BY <1>5, <1>6 DEF OnceInv, AtMostOneAnswer
<1> QED
  BY <1>9, <1>10, <1>11 DEF OnceInv

LEMMA StepOnce ==
    ASSUME OneReplier, FullInv, LogInv, SameAssignment, OnceInv, [Next]_vars
    PROVE  OnceInv'
<1>1. CASE \E w \in Workers : ReceiveJob(w) \/ RunnerReturns(w) \/ ReceiveAnswer(w)
  BY <1>1, ReceiveJobOnce, RunnerReturnsOnce, ReceiveAnswerOnce
<1>2. CASE CallControl \/ PopRest
  <2>1. UNCHANGED <<answers, pc, task>>
    BY <1>2 DEF CallControl, PopRest, workerVars
  <2>2. Log' = Log
    <3>1. \/ /\ results # <<>> /\ popped' = Append(popped, Head(results))
             /\ results' = Tail(results)
          \/ UNCHANGED resultVars
      BY <1>2 DEF CallControl, PopRest
    <3>2. UNCHANGED resultVars => Log' = Log
      BY DEF resultVars, Log
    <3> QED
      BY <3>1, <3>2, PopKeepsLog DEF FullInv, PoolInv, TypeInv
  <2> QED
    BY <2>1, <2>2, OnceUnchanged
<1>3. CASE \/ Schedule \/ FinishEarly \/ Leave \/ ProbeFails \/ RunJob \/ SendJob
           \/ SendJobReturns \/ ControlReturns \/ Finish \/ SendStop \/ SendStopReturns
           \/ UNCHANGED vars
  <2>1. UNCHANGED <<answers, pc, task, popped, results>>
    BY <1>3 DEF Schedule, FinishEarly, Leave, ProbeFails, RunJob, SendJob, SendJobReturns,
       ControlReturns, Finish, SendStop, SendStopReturns, vars, resultVars, workerVars
  <2> QED
    BY <2>1, OnceUnchanged DEF Log
<1>4. CASE \E w \in Workers : CommCreated(w) \/ ReplyReturns(w) \/ ReceiveStop(w)
  <2>1. PICK w \in Workers : CommCreated(w) \/ ReplyReturns(w) \/ ReceiveStop(w)
    BY <1>4
  <2>2. UNCHANGED <<answers, popped, results>>
    BY <2>1 DEF CommCreated, ReplyReturns, ReceiveStop, resultVars
  <2>3. \A v \in Workers : pc'[v] \in {"join", "run"} =>
           pc[v] \in {"join", "run"} /\ task'[v] = task[v]
    BY <2>1 DEF CommCreated, ReplyReturns, ReceiveStop, FullInv, PoolInv, TypeInv, TypeOK
  <2> QED
    BY <2>2, <2>3, OnceUnchanged DEF Log
<1> QED
  BY <1>1, <1>2, <1>3, <1>4 DEF Next, Controller, Worker, Terminated

LEMMA InitOnce == Init => SameAssignment /\ OnceInv
<1> SUFFICES ASSUME Init PROVE SameAssignment /\ OnceInv
    OBVIOUS
<1>1. /\ \A w \in Workers : task[w] = Idle /\ pc[w] = "listen"
      /\ \A w \in Workers : Len(answers[w]) = 0 /\ Waiting(w) = {}
      /\ current = Idle
  <2>1. \A w \in Workers : w \in Others
    BY Constants
  <2>2. \A w \in Workers : inbox[w] = <<>> /\ Len(inbox[w]) = 0 /\ Len(answers[w]) = 0
    BY <2>1, EmptySeq DEF Init
  <2>3. \A w \in Workers : Waiting(w) = {}
    BY <2>2 DEF Waiting
  <2> QED
    BY <2>2, <2>3 DEF Init
<1>2. \A t : ~Assigned(t)
  BY <1>1 DEF Assigned
<1>3. \A id \in Ids : AnswersOf(id) = {}
  <2>1. LogInv
    BY InitLog
  <2>2. FullInv
    BY InitPoolInv, InitMessageInv DEF FullInv
  <2>3. Started = 0
    <3>1. Len(jobs) = 0 /\ nextId = 0
      BY EmptySeq DEF Init
    <3> QED
      BY <3>1 DEF Started
  <2> QED
    BY <2>1, <2>3 DEF LogInv, AnsweredIsOver, Ids
<1>4. SameAssignment
  BY <1>1, <1>2 DEF SameAssignment
<1>5. OnceInv
  BY <1>1, <1>3 DEF OnceInv, Unsent, OnItsWayOnce, AtMostOneAnswer
<1> QED
  BY <1>4, <1>5

LEMMA OnceInvariant ==
    Spec => [](FullInv /\ LogInv /\ (OneReplier => SameAssignment /\ OnceInv))
<1> DEFINE Inv == FullInv /\ LogInv /\ (OneReplier => SameAssignment /\ OnceInv)
<1>1. Init => Inv
  BY InitPoolInv, InitMessageInv, InitLog, InitOnce DEF FullInv
<1>2. Inv /\ [Next]_vars => Inv'
  BY StepFull, StepLog, StepSame, StepOnce DEF OneReplier, Sends
<1> QED
  BY <1>1, <1>2, PTL DEF Spec

\* If one rank of each job answers, at most, every job that was started is answered
\* exactly once before finish() stops the workers.
THEOREM ExactlyOnce == Spec => [](OneReplier => AnsweredOnce)
<1>1. FullInv /\ LogInv /\ (OneReplier => SameAssignment /\ OnceInv)
         => (OneReplier => AnsweredOnce)
  BY NotForgotten DEF AnsweredOnce, OnceInv
<1> QED
  BY <1>1, OnceInvariant, PTL

-----------------------------------------------------------------------------
(* Nothing is left behind                                                   *)

LEMMA InitStopped == Init => StoppedOnce
<1> SUFFICES ASSUME Init PROVE StoppedOnce
    OBVIOUS
<1>1. \A w \in Workers : inbox[w] = <<>> /\ pc[w] # "done"
  BY Constants DEF Init
<1>2. \A w \in Workers : Len(inbox[w]) = 0
  BY <1>1, EmptySeq
<1> QED
  BY <1>1, <1>2 DEF StoppedOnce

\* steps that leave the messages where they are
LEMMA StoppedUnchanged ==
    ASSUME StoppedOnce, UNCHANGED inbox,
           \A w \in Workers : /\ pc'[w] = "done" <=> pc[w] = "done"
                              /\ Told(w) => Told(w)'
    PROVE  StoppedOnce'
BY DEF StoppedOnce

LEMMA SendStopStopped == FullInv /\ StoppedOnce /\ SendStop => StoppedOnce'
<1> SUFFICES ASSUME FullInv, StoppedOnce, SendStop,
                    NEW w \in Workers
             PROVE  /\ \A k \in 1 .. Len(inbox'[w]) : inbox'[w][k].tag = "stop" =>
                          k = Len(inbox'[w]) /\ Told(w)' /\ pc'[w] # "done"
                    /\ pc'[w] = "done" => Told(w)'
    BY DEF StoppedOnce
<1>1. /\ ctl = "stop" /\ ~posted /\ posted' = TRUE /\ UNCHANGED <<ctl, cursor, pc>>
      /\ inbox' = [inbox EXCEPT ![cursor] = Append(@, Stop)]
  BY DEF SendStop, workerVars
<1>2. /\ inbox \in [Others -> Seq(Task \cup {Stop})] /\ w \in Others
      /\ inbox[w] \in Seq(Task \cup {Stop}) /\ Stop \in Task \cup {Stop}
  BY Constants DEF FullInv, PoolInv, TypeInv, TypeOK
<1>3. cursor \in Int /\ w \in Int
  BY <1>1 DEF FullInv, PoolInv, TypeInv, TypeOK, Workers
<1>4. Told(w) => Told(w)'
  BY <1>1 DEF Told
<1>5. CASE w = cursor
  <2>1. ~Told(w) /\ Told(w)'
    BY <1>1, <1>3, <1>5 DEF Told
  <2>2. /\ Len(inbox[w]) \in Nat /\ Len(inbox'[w]) = Len(inbox[w]) + 1
        /\ \A i \in 1 .. Len(inbox[w]) : inbox'[w][i] = inbox[w][i]
    <3>1. inbox'[w] = Append(inbox[w], Stop)
      BY <1>1, <1>2, <1>5
    <3> QED
      BY <1>2, <3>1, AppendFacts
  <2>3. /\ pc[w] # "done"
        /\ \A k \in 1 .. Len(inbox[w]) : inbox[w][k].tag # "stop"
    BY <2>1 DEF StoppedOnce
  <2>4. ASSUME NEW k \in 1 .. Len(inbox'[w]), inbox'[w][k].tag = "stop"
        PROVE  k = Len(inbox'[w])
    <3>1. k \in 1 .. Len(inbox[w]) \/ k = Len(inbox'[w])
      BY <2>2
    <3>2. k \notin 1 .. Len(inbox[w])
      BY <2>2, <2>3, <2>4
    <3> QED
      BY <3>1, <3>2
  <2> QED
    BY <1>1, <2>1, <2>3, <2>4
<1>6. CASE w # cursor
  <2>1. inbox'[w] = inbox[w] /\ pc'[w] = pc[w]
    BY <1>1, <1>2, <1>6
  <2> QED
    BY <1>4, <2>1 DEF StoppedOnce
<1> QED
  BY <1>5, <1>6

LEMMA SendJobStopped == FullInv /\ StoppedOnce /\ SendJob => StoppedOnce'
<1> SUFFICES ASSUME FullInv, StoppedOnce, SendJob, NEW w \in Workers
             PROVE  /\ \A k \in 1 .. Len(inbox'[w]) : inbox'[w][k].tag # "stop"
                    /\ pc'[w] # "done"
    BY DEF StoppedOnce
<1>1. /\ ctl = "send" /\ UNCHANGED <<ctl, pc>> /\ current # Idle
      /\ inbox' = [inbox EXCEPT ![cursor] = Append(@, current)]
  BY DEF SendJob, workerVars, FullInv, PoolInv, TypeInv, LoopState
<1>2. /\ inbox \in [Others -> Seq(Task \cup {Stop})] /\ w \in Others
      /\ inbox[w] \in Seq(Task \cup {Stop}) /\ current \in Task \cup {Stop}
      /\ current \in Task /\ current.tag = "job"
  BY <1>1, Constants, TaskFields DEF FullInv, PoolInv, TypeInv, TypeOK
<1>3. ~Told(w)
  BY <1>1 DEF Told
<1>4. pc'[w] # "done" /\ \A k \in 1 .. Len(inbox[w]) : inbox[w][k].tag # "stop"
  BY <1>1, <1>3 DEF StoppedOnce
<1>5. CASE w = cursor
  <2>1. inbox'[w] = Append(inbox[w], current)
    BY <1>1, <1>2, <1>5
  <2>2. /\ Len(inbox[w]) \in Nat /\ Len(inbox'[w]) = Len(inbox[w]) + 1
        /\ \A i \in 1 .. Len(inbox[w]) : inbox'[w][i] = inbox[w][i]
        /\ inbox'[w][Len(inbox[w]) + 1] = current
    BY <1>2, <2>1, AppendFacts
  <2>3. \A k \in 1 .. Len(inbox'[w]) : k \in 1 .. Len(inbox[w]) \/ k = Len(inbox[w]) + 1
    BY <2>2
  <2>4. \A k \in 1 .. Len(inbox'[w]) : inbox'[w][k].tag # "stop"
    BY <1>2, <1>4, <2>2, <2>3
  <2> QED
    BY <1>4, <2>4
<1>6. CASE w # cursor
  BY <1>1, <1>2, <1>4, <1>6
<1> QED
  BY <1>5, <1>6

\* a worker takes the first message of its inbox
LEMMA TakenStopped ==
    ASSUME FullInv, StoppedOnce, NEW w \in Workers, UNCHANGED <<ctl, cursor, posted>>,
           inbox[w] # <<>>, inbox' = [inbox EXCEPT ![w] = Tail(@)],
           \/ /\ pc' = [pc EXCEPT ![w] = "join"]
           \/ /\ pc' = [pc EXCEPT ![w] = "done"]
              /\ Head(inbox[w]).tag = "stop"
    PROVE  StoppedOnce'
<1>1. /\ inbox \in [Others -> Seq(Task \cup {Stop})]
      /\ pc \in [Workers -> {"listen", "join", "run", "reply", "done"}]
      /\ w \in Others /\ inbox[w] \in Seq(Task \cup {Stop})
  BY Constants DEF FullInv, PoolInv, TypeInv, TypeOK
<1>2. /\ inbox'[w] = Tail(inbox[w]) /\ Head(inbox[w]) = inbox[w][1]
      /\ Len(inbox[w]) \in Nat /\ Len(inbox[w]) >= 1 /\ Len(inbox'[w]) = Len(inbox[w]) - 1
      /\ \A k \in 1 .. Len(inbox[w]) - 1 : inbox'[w][k] = inbox[w][k + 1]
  <2>1. inbox'[w] = Tail(inbox[w])
    BY <1>1
  <2> QED
    BY <1>1, <2>1, TailFacts
<1>3. \A v : Told(v)' <=> Told(v)
  BY DEF Told
<1>4. ASSUME NEW v \in Workers, v # w
      PROVE  /\ \A k \in 1 .. Len(inbox'[v]) : inbox'[v][k].tag = "stop" =>
                   k = Len(inbox'[v]) /\ Told(v)' /\ pc'[v] # "done"
             /\ pc'[v] = "done" => Told(v)'
  <2>1. v \in Others
    BY Constants
  <2>2. inbox'[v] = inbox[v] /\ pc'[v] = pc[v]
    BY <1>1, <1>4, <2>1
  <2> QED
    BY <1>3, <2>2 DEF StoppedOnce
<1>5. CASE pc' = [pc EXCEPT ![w] = "join"]
  <2>1. pc'[w] = "join"
    BY <1>1, <1>5
  <2>2. ASSUME NEW k \in 1 .. Len(inbox'[w]), inbox'[w][k].tag = "stop"
        PROVE  k = Len(inbox'[w]) /\ Told(w)
    <3>1. k + 1 \in 1 .. Len(inbox[w]) /\ inbox[w][k + 1].tag = "stop"
      BY <1>2, <2>2
    <3>2. k + 1 = Len(inbox[w]) /\ Told(w)
      BY <3>1 DEF StoppedOnce
    <3> QED
      BY <1>2, <3>2
  <2>3. /\ \A k \in 1 .. Len(inbox'[w]) : inbox'[w][k].tag = "stop" =>
              k = Len(inbox'[w]) /\ Told(w)' /\ pc'[w] # "done"
        /\ pc'[w] = "done" => Told(w)'
    BY <1>3, <2>1, <2>2
  <2> QED
    BY <1>4, <2>3 DEF StoppedOnce
<1>6. CASE pc' = [pc EXCEPT ![w] = "done"] /\ Head(inbox[w]).tag = "stop"
  <2>0. 1 \in 1 .. Len(inbox[w]) /\ inbox[w][1].tag = "stop"
    BY <1>2, <1>6
  <2>1. 1 = Len(inbox[w]) /\ Told(w)
    BY <2>0 DEF StoppedOnce
  <2>2. Len(inbox'[w]) = 0
    BY <1>2, <2>1
  <2>3. \A k \in 1 .. Len(inbox'[w]) : inbox'[w][k].tag # "stop"
    BY <2>2
  <2>4. Told(w)'
    BY <1>3, <2>1
  <2>5. /\ \A k \in 1 .. Len(inbox'[w]) : inbox'[w][k].tag = "stop" =>
              k = Len(inbox'[w]) /\ Told(w)' /\ pc'[w] # "done"
        /\ pc'[w] = "done" => Told(w)'
    BY <2>3, <2>4
  <2> QED
    BY <1>4, <2>5 DEF StoppedOnce
<1> QED
  BY <1>5, <1>6

LEMMA StepStopped == FullInv /\ StoppedOnce /\ [Next]_vars => StoppedOnce'
<1> SUFFICES ASSUME FullInv, StoppedOnce, [Next]_vars PROVE StoppedOnce'
    OBVIOUS
<1>1. CASE SendStop \/ SendJob
  BY <1>1, SendStopStopped, SendJobStopped
<1>2. CASE \E w \in Workers : ReceiveJob(w) \/ ReceiveStop(w)
  <2>1. PICK w \in Workers : ReceiveJob(w) \/ ReceiveStop(w)
    BY <1>2
  <2> QED
    BY <2>1, TakenStopped DEF ReceiveJob, ReceiveStop, ctlVars
<1>3. CASE SendStopReturns
  <2>1. /\ ctl = "stop" /\ posted /\ cursor \in Others /\ UNCHANGED <<inbox, pc>>
        /\ \/ cursor < Size - 1 /\ cursor' = cursor + 1 /\ ctl' = "stop"
           \/ ctl' = "after"
    BY <1>3 DEF SendStopReturns, LastTold, workerVars, FullInv, PoolInv, TypeInv, LoopState
  <2>2. \A w \in Workers : Told(w) => Told(w)'
    BY <2>1 DEF Told, Workers, Others
  <2> QED
    BY <2>1, <2>2, StoppedUnchanged
<1>4. CASE \/ Schedule \/ CallControl \/ FinishEarly \/ PopRest \/ Leave \/ ProbeFails
           \/ RunJob \/ SendJobReturns \/ ControlReturns \/ Finish
  <2>1. UNCHANGED <<inbox, pc>> /\ ctl # "stop"
    BY <1>4 DEF Schedule, CallControl, FinishEarly, PopRest, Leave, ProbeFails, RunJob,
       SendJobReturns, ControlReturns, Finish, workerVars
  <2>2. ctl \in {"after", "done"} => ctl' \in {"after", "done"}
    BY <1>4 DEF Schedule, CallControl, FinishEarly, PopRest, Leave, ProbeFails, RunJob,
       SendJobReturns, ControlReturns, Finish, ctlVars
  <2> QED
    BY <2>1, <2>2, StoppedUnchanged DEF Told
<1>5. CASE \E w \in Workers : ReceiveAnswer(w) \/ CommCreated(w) \/ RunnerReturns(w)
                              \/ ReplyReturns(w)
  <2>1. PICK w \in Workers : ReceiveAnswer(w) \/ CommCreated(w) \/ RunnerReturns(w)
                             \/ ReplyReturns(w)
    BY <1>5
  <2>2. UNCHANGED <<inbox, ctl, cursor, posted>>
    BY <2>1 DEF ReceiveAnswer, CommCreated, RunnerReturns, ReplyReturns, ctlVars
  <2>3. \A v \in Workers : pc'[v] = "done" <=> pc[v] = "done"
    BY <2>1 DEF ReceiveAnswer, CommCreated, RunnerReturns, ReplyReturns, workerVars,
       FullInv, PoolInv, TypeInv, TypeOK
  <2> QED
    BY <2>2, <2>3, StoppedUnchanged DEF Told
<1>6. CASE UNCHANGED vars
  BY <1>6, StoppedUnchanged DEF vars, ctlVars, workerVars, Told
<1> QED
  BY <1>1, <1>2, <1>3, <1>4, <1>5, <1>6 DEF Next, Controller, Worker, Terminated

\* ... and then no message of any kind is left when everybody has gone
LEMMA NothingLeft ==
    ASSUME FullInv, LogInv, OnceInv, StoppedOnce, Done
    PROVE  /\ \A w \in Workers : inbox[w] = <<>> /\ answers[w] = <<>>
           /\ active = [id \in {} |-> Idle]
<1>1. ctl = "done" /\ current = Idle /\ DOMAIN active = {}
  BY DEF Done, FullInv, PoolInv, TypeInv, LoopState, LogInv, FinishInv
<1>2. active = [id \in {} |-> Idle]
  BY <1>1, NothingActive DEF FullInv, PoolInv, TypeInv
<1>3. ASSUME NEW w \in Workers PROVE answers[w] = <<>>
  <2> SUFFICES ASSUME answers[w] # <<>> PROVE FALSE
      OBVIOUS
  <2>1. answers[w] \in Seq(Answer)
    BY DEF FullInv, PoolInv, TypeInv, TypeOK
  <2>2. PICK id \in Ids : id = answers[w][1].id
    <3>1. Head(answers[w]) \in Answer /\ Head(answers[w]) = answers[w][1]
      BY <2>1, TailFacts
    <3> QED
      BY <3>1 DEF Answer
  <2>3. 1 \in 1 .. Len(answers[w])
    BY <2>1, TailFacts
  <2>4. OnItsWay(id) /\ id < Started
    BY <2>2, <2>3 DEF OnItsWay, FullInv, MessageInv, AnswerInv
  <2> QED
    BY <1>1, <2>4, AllAnswered DEF OnceInv, OnItsWayOnce
<1>4. ASSUME NEW w \in Workers PROVE inbox[w] = <<>>
  <2> SUFFICES ASSUME inbox[w] # <<>> PROVE FALSE
      OBVIOUS
  <2>1. inbox[w] \in Seq(Task \cup {Stop})
    BY Constants DEF FullInv, PoolInv, TypeInv, TypeOK
  <2>2. 1 \in 1 .. Len(inbox[w]) /\ inbox[w][1] \in Task \cup {Stop}
    BY <2>1, TailFacts
  <2>3. inbox[w][1].tag \in {"job", "stop"}
    BY <2>2, MessageKind
  <2>4. inbox[w][1].tag # "stop"
    BY <2>2 DEF Done, StoppedOnce
  <2>5. 1 \in Waiting(w)
    BY <2>2, <2>3, <2>4 DEF Waiting
  <2> QED
    BY <1>1, <2>5 DEF FullInv, MessageInv, WaitingInv
<1> QED
  BY <1>2, <1>3, <1>4

\* If one rank of each job answers, at most, no message is left behind when everybody has
\* left: nobody was sent a job after it left, and no answer comes too late.
THEOREM NoMessageLeft == Spec => [](OneReplier => CleanShutdown)
<1>1. Init => FullInv /\ StoppedOnce
  BY InitPoolInv, InitMessageInv, InitStopped DEF FullInv
<1>2. FullInv /\ StoppedOnce /\ [Next]_vars => (FullInv /\ StoppedOnce)'
  BY StepFull, StepStopped
<1>3. FullInv /\ LogInv /\ (OneReplier => SameAssignment /\ OnceInv) /\ StoppedOnce
         => (OneReplier => CleanShutdown)
  BY NothingLeft DEF CleanShutdown
<1> QED
  BY <1>1, <1>2, <1>3, OnceInvariant, PTL DEF Spec
=============================================================================
