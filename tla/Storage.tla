------------------------------ MODULE Storage ------------------------------
(***************************************************************************)
(* examples/storage: a storage group serves data to the jobs of a compute    *)
(* group that a scheduler starts (storage.chai).  Each job asks the storage   *)
(* group for an intercommunicator of its own, receives the data through it,   *)
(* and adds it up (compute.cpp); storage.cpp answers one request at a time,   *)
(* until the controller, after the last job, tells it to stop.               *)
(*                                                                          *)
(* Ranks are those of the compute group: 0 is the controller.  Of the         *)
(* scheduler is kept what module Scheduler shows of it: jobs are started on   *)
(* free blocks of workers, every worker takes its jobs up in order and waits  *)
(* for the others of its block, and the first rank that returns frees the     *)
(* block.  Messages of a few bytes are copied by MPI_Send; the data may not.  *)
(***************************************************************************)
EXTENDS Integers, Sequences, FiniteSets

CONSTANTS
    Width,      \* ranks of the storage group and of each job
    NumWorkers,
    MaxJobs,    \* how many jobs storage.chai schedules
    Buffering   \* what MPI_Send may do with the data: {TRUE} if it copies, and so on

Servers == 0 .. Width - 1
Workers == 1 .. NumWorkers
Jobs    == 1 .. MaxJobs

ASSUME StorageAssumption ==
    /\ Width \in Nat \ {0} /\ NumWorkers \in Nat /\ Width <= NumWorkers
    /\ MaxJobs \in Nat /\ Buffering \subseteq BOOLEAN

VARIABLES
    buffered,   \* whether MPI_Send copies the data, or waits for the receiver
    first,      \* job -> the first worker of its block; jobs are started in order
    answered,   \* jobs that some rank has returned from
    stopped,    \* the controller has sent its stop message
    work,       \* worker -> its assignments, the current one first
    pc,         \* where a worker is
    entered,    \* job -> its ranks that create its communicator, or have it
    requests,   \* init and stop messages from each rank to the storage leader
    replies,    \* rank messages from the storage leader to each worker
    orders,     \* what the storage leader has broadcast to its group, in order
    spc,        \* where a storage rank is
    turn,       \* how many of the orders it has taken up
    hellos,     \* MPI_Intercomm_create on storage_intra: messages between leaders
    peer,       \* job -> its leader has been given the number of its peer
    linkS,      \* order -> the job that the storage leader is connected with
    linkC,      \* job -> the order that its leader is connected with
    sent,       \* data messages, by order and storage rank
    received,   \* ... and those received
    reduced,    \* job -> its ranks that have entered MPI_Reduce
    totals      \* jobs with a total

schedVars   == <<first, answered, stopped, work>>
computeVars == <<pc, entered, peer, linkC, received, reduced, totals>>
serverVars  == <<buffered, orders, spc, turn, linkS, sent>>
netVars     == <<requests, replies, hellos>>
vars == <<schedVars, computeVars, serverVars, netVars>>

Block(j) == first[j] .. first[j] + Width - 1
Job(w)   == Head(work[w])

Init ==
    /\ buffered \in Buffering
    /\ first = <<>> /\ answered = {} /\ stopped = FALSE
    /\ work = [w \in Workers |-> <<>>]
    /\ pc = [w \in Workers |-> "listen"]
    /\ entered = [j \in Jobs |-> {}] /\ reduced = [j \in Jobs |-> {}]
    /\ requests = [r \in 0 .. NumWorkers |-> <<>>]
    /\ replies = [w \in Workers |-> 0]
    /\ orders = <<>> /\ spc = [s \in Servers |-> "loop"] /\ turn = [s \in Servers |-> 0]
    /\ hellos = [s |-> [w \in Workers |-> <<>>], c |-> [w \in Workers |-> <<>>]]
    /\ peer = {} /\ linkS = <<>> /\ linkC = [j \in {} |-> 0]
    /\ sent = {} /\ received = {} /\ totals = {}

-----------------------------------------------------------------------------
(* The controller                                                           *)

Running == DOMAIN first \ answered

\* the next job is given a block of workers that no running job has
StartJob ==
    /\ Len(first) < MaxJobs
    /\ \E f \in 1 .. NumWorkers - Width + 1 :
          /\ \A j \in Running : f .. f + Width - 1 \cap Block(j) = {}
          /\ first' = Append(first, f)
          /\ work' = [w \in Workers |-> IF w \in f .. f + Width - 1
                                        THEN Append(work[w], Len(first) + 1) ELSE work[w]]
    /\ UNCHANGED <<answered, stopped, computeVars, serverVars, netVars>>

\* (a mutant: the jobs need only be started)
Finished_Early == Len(first) = MaxJobs

\* control() and finish() are over
Finished == Len(first) = MaxJobs /\ Running = {}

\* storage --stop: the controller is rank 0 of its group, the others of the compute
\* group are not and send nothing
SendStop ==
    /\ Finished /\ ~stopped
    /\ stopped' = TRUE
    /\ requests' = [requests EXCEPT ![0] = Append(@, "stop")]
    /\ UNCHANGED <<first, answered, work, computeVars, serverVars, replies, hellos>>

-----------------------------------------------------------------------------
(* compute.cpp                                                              *)

\* rank 0 of the job
Leader(w) == w = first[Job(w)]

\* listen() takes up the next job
EnterJob(w) ==
    /\ pc[w] = "listen" /\ work[w] # <<>>
    /\ entered' = [entered EXCEPT ![Job(w)] = @ \cup {w}]
    /\ pc' = [pc EXCEPT ![w] = "enter"]
    /\ UNCHANGED <<schedVars, peer, linkC, received, reduced, totals, serverVars, netVars>>

\* its communicator is there: the leader sends its request, the others wait in MPI_Bcast
Request(w) ==
    /\ pc[w] = "enter" /\ entered[Job(w)] = Block(Job(w))
    /\ requests' = IF Leader(w) THEN [requests EXCEPT ![w] = Append(@, "init")] ELSE requests
    /\ pc' = [pc EXCEPT ![w] = "await"]
    /\ UNCHANGED <<schedVars, entered, peer, linkC, received, reduced, totals, serverVars,
                   replies, hellos>>

\* the leader has the number of its peer, broadcasts it, and enters
\* MPI_Intercomm_create with it
TakeReply(w) ==
    /\ pc[w] = "await" /\ Leader(w) /\ replies[w] > 0
    /\ replies' = [replies EXCEPT ![w] = @ - 1]
    /\ peer' = peer \cup {Job(w)}
    /\ hellos' = [hellos EXCEPT !.c[w] = Append(@, Job(w))]
    /\ pc' = [pc EXCEPT ![w] = "meet"]
    /\ UNCHANGED <<schedVars, entered, linkC, received, reduced, totals, serverVars, requests>>

TakePeer(w) ==
    /\ pc[w] = "await" /\ ~Leader(w) /\ Job(w) \in peer
    /\ pc' = [pc EXCEPT ![w] = "meet"]
    /\ UNCHANGED <<schedVars, entered, peer, linkC, received, reduced, totals, serverVars,
                   netVars>>

\* MPI_Intercomm_create returns on the leader, then on the others
MeetServer(w) ==
    /\ pc[w] = "meet" /\ Leader(w) /\ hellos.s[w] # <<>>
    /\ linkC' = [j \in DOMAIN linkC \cup {Job(w)} |->
                   IF j = Job(w) THEN Head(hellos.s[w]) ELSE linkC[j]]
    /\ hellos' = [hellos EXCEPT !.s[w] = Tail(@)]
    /\ pc' = [pc EXCEPT ![w] = "data"]
    /\ UNCHANGED <<schedVars, entered, peer, received, reduced, totals, serverVars, requests,
                   replies>>

FollowLeader(w) ==
    /\ pc[w] = "meet" /\ ~Leader(w) /\ Job(w) \in DOMAIN linkC
    /\ pc' = [pc EXCEPT ![w] = "data"]
    /\ UNCHANGED <<schedVars, entered, peer, linkC, received, reduced, totals, serverVars,
                   netVars>>

\* w's number in its job, and in the storage group
Number(w) == w - first[Job(w)]

\* the data from the storage rank of the same number, then MPI_Reduce
ReceiveData(w) ==
    LET m == <<linkC[Job(w)], Number(w)>> IN
    /\ pc[w] = "data" /\ m \in sent \ received
    /\ received' = received \cup {m}
    /\ reduced' = [reduced EXCEPT ![Job(w)] = @ \cup {w}]
    /\ pc' = [pc EXCEPT ![w] = "reduce"]
    /\ UNCHANGED <<schedVars, entered, peer, linkC, totals, serverVars, netVars>>

\* (a mutant: the leader does not wait for the others)
Reduced_Alone(w) == TRUE

\* MPI_Reduce returns: on the leader with everybody's sum
Reduced(w) == Leader(w) => reduced[Job(w)] = Block(Job(w))

\* the job returns; the answer of any of its ranks ends it for the controller
ReturnFromJob(w) ==
    /\ pc[w] = "reduce" /\ Reduced(w)
    /\ totals' = IF Leader(w) THEN totals \cup {Job(w)} ELSE totals
    /\ answered' = answered \cup {Job(w)}
    /\ work' = [work EXCEPT ![w] = Tail(@)]
    /\ pc' = [pc EXCEPT ![w] = "listen"]
    /\ UNCHANGED <<first, stopped, entered, peer, linkC, received, reduced, serverVars, netVars>>

-----------------------------------------------------------------------------
(* storage.cpp                                                              *)

\* (a mutant: the leader leaves without telling its group)
StopOrder_Alone == <<>>

\* what is broadcast to stop the storage group (-1 in the code)
StopOrder == <<0>>

\* the leader finds a request, from any rank: it is received, answered, and the
\* storage group told from whom it came
TakeRequest(r) ==
    /\ spc[0] = "loop" /\ requests[r] # <<>> /\ Head(requests[r]) = "init"
    /\ requests' = [requests EXCEPT ![r] = Tail(@)]
    /\ orders' = Append(orders, r)
    /\ replies' = [replies EXCEPT ![r] = @ + 1]
    /\ turn' = [turn EXCEPT ![0] = @ + 1]
    /\ spc' = [spc EXCEPT ![0] = "create"]
    /\ UNCHANGED <<schedVars, computeVars, buffered, linkS, sent, hellos>>

\* ... or the stop message, which is never received
TakeStop(r) ==
    /\ spc[0] = "loop" /\ requests[r] # <<>> /\ Head(requests[r]) = "stop"
    /\ orders' = orders \o StopOrder
    /\ turn' = [turn EXCEPT ![0] = @ + 1]
    /\ spc' = [spc EXCEPT ![0] = "done"]
    /\ UNCHANGED <<schedVars, computeVars, buffered, linkS, sent, netVars>>

\* MPI_Bcast on the other storage ranks
TakeOrder(s) ==
    /\ spc[s] = "loop" /\ s # 0 /\ turn[s] < Len(orders)
    /\ turn' = [turn EXCEPT ![s] = @ + 1]
    /\ spc' = [spc EXCEPT ![s] = IF orders[turn[s] + 1] = 0 THEN "done" ELSE "meet"]
    /\ UNCHANGED <<schedVars, computeVars, buffered, orders, linkS, sent, netVars>>

\* MPI_Intercomm_create: the leader writes to the job's, and hears from it ...
MeetJob ==
    /\ spc[0] = "create"
    /\ hellos' = [hellos EXCEPT !.s[orders[turn[0]]] = Append(@, turn[0])]
    /\ spc' = [spc EXCEPT ![0] = "meet"]
    /\ UNCHANGED <<schedVars, computeVars, buffered, orders, turn, linkS, sent, requests, replies>>

HearJob ==
    /\ spc[0] = "meet"
    /\ hellos.c[orders[turn[0]]] # <<>>
    /\ linkS' = Append(linkS, Head(hellos.c[orders[turn[0]]]))
    /\ hellos' = [hellos EXCEPT !.c[orders[turn[0]]] = Tail(@)]
    /\ spc' = [spc EXCEPT ![0] = "send"]
    /\ UNCHANGED <<schedVars, computeVars, buffered, orders, turn, sent, requests, replies>>

\* ... the others return after it
FollowServer(s) ==
    /\ spc[s] = "meet" /\ s # 0 /\ turn[s] \in DOMAIN linkS
    /\ spc' = [spc EXCEPT ![s] = "send"]
    /\ UNCHANGED <<schedVars, computeVars, buffered, orders, turn, linkS, sent, netVars>>

SendData(s) ==
    /\ spc[s] = "send"
    /\ sent' = sent \cup {<<turn[s], s>>}
    /\ spc' = [spc EXCEPT ![s] = "sent"]
    /\ UNCHANGED <<schedVars, computeVars, buffered, orders, turn, linkS, netVars>>

SendReturns(s) ==
    /\ spc[s] = "sent" /\ (buffered \/ <<turn[s], s>> \in received)
    /\ spc' = [spc EXCEPT ![s] = "loop"]
    /\ UNCHANGED <<schedVars, computeVars, buffered, orders, turn, linkS, sent, netVars>>

-----------------------------------------------------------------------------
Worker(w) ==
    \/ EnterJob(w) \/ Request(w) \/ TakeReply(w) \/ TakePeer(w) \/ MeetServer(w)
    \/ FollowLeader(w) \/ ReceiveData(w) \/ ReturnFromJob(w)

Server(s) == TakeOrder(s) \/ FollowServer(s) \/ SendData(s) \/ SendReturns(s)

ServerLeader == (\E r \in 0 .. NumWorkers : TakeRequest(r) \/ TakeStop(r)) \/ MeetJob \/ HearJob

Controller == StartJob \/ SendStop

Done ==
    /\ stopped /\ \A s \in Servers : spc[s] = "done"
    /\ \A w \in Workers : pc[w] = "listen" /\ work[w] = <<>>

Next ==
    \/ Controller \/ ServerLeader
    \/ \E w \in Workers : Worker(w)
    \/ \E s \in Servers : Server(s)
    \/ Done /\ UNCHANGED vars

Spec == Init /\ [][Next]_vars

\* everybody keeps running, and messages arrive
Fairness ==
    /\ WF_vars(Controller) /\ WF_vars(ServerLeader)
    /\ \A w \in Workers : WF_vars(Worker(w))
    /\ \A s \in Servers : WF_vars(Server(s))

FairSpec == Spec /\ Fairness

-----------------------------------------------------------------------------
(* Properties                                                               *)

\* A total is the sum of the data that all storage ranks sent to this job, each to
\* the rank of its own number, over the job's own connection: no two jobs share one,
\* although all are created with one tag between the leaders.
TotalsComplete ==
    \A j \in totals : \E k \in DOMAIN linkS :
        /\ linkS[k] = j /\ linkC[j] = k
        /\ \A i \in DOMAIN linkC \ {j} : linkC[i] # k
        /\ \A s \in Servers : <<k, s>> \in received

\* When the storage leader takes the stop message, probed from any source, no
\* request is waiting, and every job has been connected and sent the leader's part.
StopIsLast ==
    spc[0] = "done" =>
        /\ \A w \in Workers : requests[w] = <<>> /\ replies[w] = 0
        /\ \A j \in Jobs : \E k \in DOMAIN linkS : linkS[k] = j /\ <<k, 0>> \in sent

\* Everybody leaves: no job waits for ever for data or for the other ranks of a job,
\* and the storage group is told to stop.
Termination == <>Done
=============================================================================
