---------------------------- MODULE Storage_proofs ----------------------------
(***************************************************************************)
(* Proofs about Storage for every number of storage ranks, workers and jobs, *)
(* and both ways in which MPI_Send may treat the data.                      *)
(***************************************************************************)
EXTENDS Storage, SequenceTheorems, TLAPS

SchedTypes ==
    /\ buffered \in BOOLEAN
    /\ first \in Seq(Workers) /\ Len(first) <= MaxJobs
    /\ \A j \in DOMAIN first : Block(j) \subseteq Workers
    /\ answered \subseteq DOMAIN first /\ totals \subseteq DOMAIN first
    /\ work \in [Workers -> Seq(Jobs)]
    /\ pc \in [Workers -> {"listen", "enter", "await", "meet", "data", "reduce"}]
    /\ entered \in [Jobs -> SUBSET Workers] /\ reduced \in [Jobs -> SUBSET Workers]

StorageTypes ==
    /\ orders \in Seq(0 .. NumWorkers) /\ linkS \in Seq(Jobs)
    /\ spc \in [Servers -> {"loop", "create", "meet", "send", "sent", "done"}]
    /\ turn \in [Servers -> Nat]
    /\ DOMAIN linkC \subseteq DOMAIN first

NetTypes ==
    /\ requests \in [0 .. NumWorkers -> Seq({"init", "stop"})]
    /\ replies \in [Workers -> Nat]
    /\ hellos = [s |-> hellos.s, c |-> hellos.c]
    /\ hellos.s \in [Workers -> Seq(Nat)] /\ hellos.c \in [Workers -> Seq(Jobs)]

\* A worker has its jobs in the order in which they were started, and has entered
\* the first one unless it is in listen().
Queue(w) ==
    /\ pc[w] # "listen" => work[w] # <<>>
    /\ \A i \in 1 .. Len(work[w]) :
          /\ work[w][i] \in DOMAIN first /\ w \in Block(work[w][i])
          /\ w \in entered[work[w][i]] <=> i = 1 /\ pc[w] # "listen"
          /\ \A k \in 1 .. Len(work[w]) : i < k => work[w][i] < work[w][k]

Queues == \A w \in Workers : Queue(w)

\* the storage group has no connection with the job yet; neither has the job itself
Fresh(j)    == \A k \in 1 .. Len(linkS) : linkS[k] # j
Unlinked(j) == j \notin DOMAIN linkC /\ Fresh(j)

\* the storage group is creating the intercommunicator that w asked for
InProgress(w) == spc[0] \in {"create", "meet"} /\ orders[turn[0]] = w

\* the storage leader's half of the handshake
Hello == IF spc[0] = "create" THEN <<>> ELSE <<turn[0]>>

\* no message between w and the storage leader, and none expected
Quiet(w) ==
    /\ requests[w] = <<>> /\ replies[w] = 0
    /\ hellos.s[w] = <<>> /\ hellos.c[w] = <<>>
    /\ ~InProgress(w)

\* where the leader w of a job, its messages and the storage leader can be together
Entering(w) == pc[w] = "enter" /\ Quiet(w) /\ Unlinked(Job(w))
Asking(w) ==
    /\ pc[w] = "await" /\ requests[w] = <<"init">> /\ replies[w] = 0
    /\ hellos.s[w] = <<>> /\ hellos.c[w] = <<>>
    /\ ~InProgress(w) /\ Unlinked(Job(w))
Answering(w) ==
    /\ pc[w] = "await" /\ requests[w] = <<>> /\ replies[w] = 1
    /\ hellos.s[w] = Hello /\ hellos.c[w] = <<>>
    /\ InProgress(w) /\ Unlinked(Job(w))
Meeting(w) ==
    /\ pc[w] = "meet" /\ requests[w] = <<>> /\ replies[w] = 0
    /\ hellos.s[w] = Hello /\ hellos.c[w] = <<Job(w)>>
    /\ InProgress(w) /\ Unlinked(Job(w))
Heard(w) ==
    /\ pc[w] = "meet" /\ requests[w] = <<>> /\ replies[w] = 0
    /\ hellos.c[w] = <<>> /\ Job(w) \notin DOMAIN linkC
    /\ \E k \in 1 .. Len(linkS) : linkS[k] = Job(w) /\ hellos.s[w] = <<k>>
    /\ ~InProgress(w)
Met(w) ==
    /\ pc[w] = "data" /\ requests[w] = <<>> /\ replies[w] = 0
    /\ hellos.s[w] = <<>> /\ hellos.c[w] = <<Job(w)>>
    /\ InProgress(w) /\ spc[0] = "meet" /\ Fresh(Job(w))
    /\ Job(w) \in DOMAIN linkC /\ linkC[Job(w)] = turn[0]
Linked(w) == pc[w] \in {"data", "reduce"} /\ Quiet(w)

Dialog(w) ==
    IF pc[w] # "listen" /\ Leader(w)
    THEN \/ Entering(w) \/ Asking(w) \/ Answering(w) \/ Meeting(w) \/ Heard(w)
         \/ Met(w) \/ Linked(w)
    ELSE Quiet(w)

\* a connection that the job has, the storage group has too, or is about to
Awaited(j) ==
    /\ pc[first[j]] = "data" /\ InProgress(first[j])
    /\ Job(first[j]) = j /\ linkC[j] = turn[0]

Connected(j) ==
    \/ linkC[j] \in 1 .. Len(linkS) /\ linkS[linkC[j]] = j
    \/ Awaited(j)

Dialogs == \A w \in Workers : Dialog(w)

Clients == \A j \in DOMAIN linkC : Connected(j) /\ first[j] \in entered[j]

Served == \A k \in 1 .. Len(linkS) :
              linkS[k] \in DOMAIN first /\ first[linkS[k]] \in entered[linkS[k]]

\* a rank gets to the data, and to MPI_Reduce, only in its job's connection
Phase(w) ==
    /\ pc[w] \in {"data", "reduce"} => Job(w) \in DOMAIN linkC
    /\ pc[w] = "reduce" => w \in reduced[Job(w)]

Phases == \A w \in Workers : Phase(w)

\* the storage leader connects one order after the other
Counts ==
    /\ Len(orders) = turn[0]
    /\ spc[0] \in {"create", "meet"} => turn[0] = Len(linkS) + 1 /\ orders[turn[0]] \in Workers
    /\ spc[0] \in {"loop", "send", "sent"} => turn[0] = Len(linkS)
    /\ \A k \in 1 .. Len(linkS) : <<k, 0>> \in sent \/ (spc[0] = "send" /\ k = turn[0])

\* data goes through connections only
Parts ==
    /\ received \subseteq sent
    /\ \A m \in sent : m[1] \in 1 .. Len(linkS)
    /\ \A s \in Servers : spc[s] \in {"send", "sent"} => turn[s] \in 1 .. Len(linkS)
    /\ \A j \in Jobs : entered[j] # {} => j \in DOMAIN first
    /\ \A j \in Jobs : \A w \in reduced[j] :
          j \in DOMAIN linkC /\ <<linkC[j], w - first[j]>> \in received

Ends ==
    /\ \A j \in answered : reduced[j] # {}
    /\ \A j \in totals : Block(j) \subseteq reduced[j]
    /\ requests[0] = IF stopped THEN <<"stop">> ELSE <<>>
    /\ stopped \in BOOLEAN
    /\ stopped => Len(first) = MaxJobs /\ DOMAIN first \subseteq answered
    /\ spc[0] = "done" => stopped

Types == SchedTypes /\ StorageTypes /\ NetTypes

Inv ==
    /\ Types /\ Queues
    /\ Dialogs /\ Clients /\ Served /\ Phases
    /\ Counts /\ Parts /\ Ends

-----------------------------------------------------------------------------
(* Facts                                                                    *)

LEMMA Constants ==
    /\ Width \in Nat /\ Width >= 1 /\ NumWorkers \in Nat /\ MaxJobs \in Nat
    /\ 0 \in Servers /\ Workers \subseteq 0 .. NumWorkers /\ 0 \notin Workers
    /\ Workers \subseteq Nat
BY StorageAssumption DEF Servers, Workers

\* a worker outside of listen() has a job, which was started with it and which it has
\* entered
LEMMA JobFacts ==
    ASSUME SchedTypes, NEW w \in Workers, Queue(w), work[w] # <<>>
    PROVE  /\ Job(w) \in DOMAIN first /\ Job(w) \in Jobs /\ w \in Block(Job(w))
           /\ first[Job(w)] \in Workers
           /\ pc[w] # "listen" => w \in entered[Job(w)]
           /\ pc[w] = "listen" => w \notin entered[Job(w)]
<1>1. PICK q \in Seq(Jobs) : q = work[w] /\ q # <<>>
  BY DEF SchedTypes
<1>2. 1 \in 1 .. Len(q) /\ Head(q) = q[1] /\ q[1] \in Jobs
  BY <1>1
<1>3. Job(w) = work[w][1] /\ 1 \in 1 .. Len(work[w]) /\ Job(w) \in Jobs
  BY <1>1, <1>2 DEF Job
<1>4. /\ work[w][1] \in DOMAIN first /\ w \in Block(work[w][1])
      /\ w \in entered[work[w][1]] <=> 1 = 1 /\ pc[w] # "listen"
  BY <1>3, Zenon DEF Queue
<1>5. first[Job(w)] \in Workers
  <2>1. first \in Seq(Workers)
    BY DEF SchedTypes
  <2> QED
    BY <1>3, <1>4, <2>1
<1> QED
  BY <1>3, <1>4, <1>5

LEMMA BusyHasJob ==
    ASSUME SchedTypes, NEW w \in Workers, Queue(w), pc[w] # "listen"
    PROVE  /\ work[w] # <<>> /\ Job(w) \in DOMAIN first /\ Job(w) \in Jobs
           /\ w \in Block(Job(w)) /\ first[Job(w)] \in Workers /\ w \in entered[Job(w)]
<1>1. work[w] # <<>>
  BY DEF Queue
<1> QED
  BY <1>1, JobFacts

\* its number is that of a storage rank, the leader's is 0
LEMMA NumberFacts ==
    ASSUME NEW w \in Workers, w \in Block(Job(w)), first[Job(w)] \in Workers
    PROVE  Number(w) \in Servers /\ (Leader(w) => Number(w) = 0)
<1>1. PICK b \in Nat : b = first[Job(w)]
  BY Constants
<1>2. w \in b .. b + Width - 1 /\ w \in Nat /\ Width \in Nat
  BY <1>1, Constants DEF Block
<1>3. w - b \in 0 .. Width - 1 /\ (w = b => w - b = 0)
  BY <1>2
<1> QED
  BY <1>1, <1>3 DEF Number, Servers, Leader

LEMMA InitInv == Init => Inv
<1> SUFFICES ASSUME Init PROVE Inv
  OBVIOUS
<1>1. SchedTypes
  <2>1. first = <<>> /\ DOMAIN first = {} /\ Len(first) = 0
    BY DEF Init
  <2>2. <<>> \in Seq(Workers) /\ <<>> \in Seq(Jobs)
    BY EmptySeq
  <2> QED
    BY <2>1, <2>2, Constants, StorageAssumption DEF Init, SchedTypes
<1>2. StorageTypes
  <2>1. <<>> \in Seq(0 .. NumWorkers) /\ <<>> \in Seq(Jobs)
    BY EmptySeq
  <2>2. DOMAIN linkC = {}
    BY DEF Init
  <2> QED
    BY <2>1, <2>2 DEF Init, StorageTypes
<1>3. NetTypes
  <2>1. <<>> \in Seq({"init", "stop"}) /\ <<>> \in Seq(Jobs) /\ <<>> \in Seq(Nat)
    BY EmptySeq
  <2> QED
    BY <2>1 DEF Init, NetTypes
<1>4. Queues
  <2> SUFFICES ASSUME NEW w \in Workers PROVE Queue(w)
    BY DEF Queues
  <2>1. work[w] = <<>> /\ Len(work[w]) = 0 /\ pc[w] = "listen"
    BY DEF Init
  <2> QED
    BY <2>1 DEF Queue
<1>5. Dialogs
  <2> SUFFICES ASSUME NEW w \in Workers PROVE Dialog(w)
    BY DEF Dialogs
  <2>1. /\ pc[w] = "listen" /\ replies[w] = 0 /\ requests[w] = <<>>
        /\ hellos.s[w] = <<>> /\ hellos.c[w] = <<>>
    BY Constants DEF Init
  <2>2. spc[0] = "loop"
    BY Constants DEF Init
  <2> QED
    BY <2>1, <2>2 DEF Dialog, Quiet, InProgress
<1>6. DOMAIN linkC = {} /\ Len(linkS) = 0 /\ Len(orders) = 0 /\ turn[0] = 0 /\ spc[0] = "loop"
  BY Constants DEF Init
<1>7. Clients /\ Served /\ Phases
  BY <1>6 DEF Init, Clients, Served, Phases, Phase
<1>8. Counts
  BY <1>6 DEF Counts
<1>9. Parts
  BY DEF Init, Parts
<1>10. Ends
  <2>1. requests[0] = <<>>
    BY Constants DEF Init
  <2> QED
    BY <1>6, <2>1 DEF Init, Ends
<1> QED
  BY <1>1, <1>2, <1>3, <1>4, <1>5, <1>7, <1>8, <1>9, <1>10 DEF Inv, Types

-----------------------------------------------------------------------------
(* What a step leaves alone                                                 *)

\* the jobs that were started keep their blocks
FirstKept == DOMAIN first \subseteq DOMAIN first' /\ \A j \in DOMAIN first : first'[j] = first[j]

\* nothing changes at w, neither its messages
Apart(w) ==
    /\ pc'[w] = pc[w] /\ requests'[w] = requests[w] /\ replies'[w] = replies[w]
    /\ hellos'.s[w] = hellos.s[w] /\ hellos'.c[w] = hellos.c[w]
    /\ pc[w] # "listen" =>
          /\ Head(work'[w]) = Head(work[w])
          /\ first'[Job(w)] = first[Job(w)]
          /\ Leader(w) => /\ Job(w) \in DOMAIN linkC' <=> Job(w) \in DOMAIN linkC
                          /\ Job(w) \in DOMAIN linkC => linkC'[Job(w)] = linkC[Job(w)]

\* nothing changes at the storage leader
ServerSame == linkS' = linkS /\ spc'[0] = spc[0] /\ orders' = orders /\ turn'[0] = turn[0]

\* its connections stay
LinksKept == Len(linkS) <= Len(linkS') /\ \A k \in 1 .. Len(linkS) : linkS'[k] = linkS[k]

LEMMA DialogSame ==
    ASSUME NEW w \in Workers, Dialog(w), Apart(w), ServerSame
    PROVE  Dialog(w)'
<1>1. InProgress(w)' = InProgress(w) /\ Hello' = Hello
  BY DEF ServerSame, InProgress, Hello
<1>2. CASE pc[w] # "listen" /\ Leader(w)
  <2>1. PICK j : j = Job(w)
    OBVIOUS
  <2>2. Job(w)' = j /\ Leader(w)' /\ pc'[w] # "listen"
    BY <1>2, <2>1 DEF Apart, Job, Leader
  <2>3. /\ Fresh(j)' = Fresh(j)
        /\ j \in DOMAIN linkC' <=> j \in DOMAIN linkC
        /\ j \in DOMAIN linkC => linkC'[j] = linkC[j]
    BY <1>2, <2>1 DEF Apart, ServerSame, Fresh
  <2>4. Quiet(w)' = Quiet(w)
    BY <1>1 DEF Quiet, Apart
  <2>5. Entering(w) => Entering(w)'
    BY <2>1, <2>2, <2>3, <2>4 DEF Apart, Entering, Unlinked
  <2>6. Asking(w) => Asking(w)'
    BY <1>1, <2>1, <2>2, <2>3 DEF Apart, Asking, Unlinked
  <2>7. Answering(w) => Answering(w)'
    BY <1>1, <2>1, <2>2, <2>3 DEF Apart, Answering, Unlinked
  <2>8. Meeting(w) => Meeting(w)'
    BY <1>1, <2>1, <2>2, <2>3 DEF Apart, Meeting, Unlinked
  <2>9. Heard(w) => Heard(w)'
    BY <1>1, <2>1, <2>2, <2>3 DEF Apart, Heard, ServerSame
  <2>10. Met(w) => Met(w)'
    BY <1>1, <2>1, <2>2, <2>3 DEF Apart, Met, ServerSame
  <2>11. Linked(w) => Linked(w)'
    BY <2>4 DEF Apart, Linked
  <2> QED
    BY <1>2, <2>2, <2>5, <2>6, <2>7, <2>8, <2>9, <2>10, <2>11 DEF Dialog
<1>3. CASE ~(pc[w] # "listen" /\ Leader(w))
  <2>1. ~(pc[w] # "listen" /\ Leader(w))'
    BY <1>3 DEF Apart, Job, Leader
  <2>2. Quiet(w)
    BY <1>3 DEF Dialog
  <2>3. Quiet(w)'
    BY <1>1, <2>2 DEF Quiet, Apart
  <2> QED
    BY <2>1, <2>3 DEF Dialog
<1> QED
  BY <1>2, <1>3

\* the storage leader deals with another worker
LEMMA DialogKept ==
    ASSUME NEW w \in Workers, Dialog(w), Apart(w), ~InProgress(w), ~InProgress(w)', LinksKept,
           pc[w] # "listen" /\ Leader(w) /\ Fresh(Job(w)) => Fresh(Job(w))',
           Len(linkS) \in Nat, Len(linkS') \in Nat
    PROVE  Dialog(w)'
<1>1. Quiet(w) => Quiet(w)'
  BY DEF Quiet, Apart
<1>2. CASE pc[w] # "listen" /\ Leader(w)
  <2>1. PICK j : j = Job(w)
    OBVIOUS
  <2>2. Job(w)' = j /\ Leader(w)' /\ pc'[w] # "listen"
    BY <1>2, <2>1 DEF Apart, Job, Leader
  <2>3. Unlinked(Job(w)) => Unlinked(Job(w))'
    BY <1>2, <2>1, <2>2 DEF Apart, Unlinked
  <2>4. Entering(w) => Entering(w)'
    BY <1>1, <2>3 DEF Apart, Entering
  <2>5. Asking(w) => Asking(w)'
    BY <2>3 DEF Apart, Asking
  <2>6. Heard(w) => Heard(w)'
    <3> SUFFICES ASSUME Heard(w) PROVE Heard(w)'
      OBVIOUS
    <3>1. PICK k \in 1 .. Len(linkS) : linkS[k] = j /\ hellos.s[w] = <<k>>
      BY <2>1 DEF Heard
    <3>2. k \in 1 .. Len(linkS') /\ linkS'[k] = Job(w)' /\ hellos'.s[w] = <<k>>
      BY <2>2, <3>1 DEF LinksKept, Apart
    <3> QED
      BY <1>2, <2>1, <2>2, <3>2 DEF Heard, Apart
  <2>7. Linked(w) => Linked(w)'
    BY <1>1 DEF Apart, Linked
  <2>8. ~Answering(w) /\ ~Meeting(w) /\ ~Met(w)
    BY DEF Answering, Meeting, Met
  <2> QED
    BY <1>2, <2>2, <2>4, <2>5, <2>6, <2>7, <2>8 DEF Dialog
<1>3. CASE ~(pc[w] # "listen" /\ Leader(w))
  <2>1. ~(pc[w] # "listen" /\ Leader(w))'
    BY <1>3 DEF Apart, Job, Leader
  <2> QED
    BY <1>1, <1>3, <2>1 DEF Dialog
<1> QED
  BY <1>2, <1>3

LEMMA QueueSame ==
    ASSUME NEW w \in Workers, Queue(w), FirstKept, work'[w] = work[w],
           pc'[w] = "listen" <=> pc[w] = "listen",
           \A j \in DOMAIN first : w \in entered'[j] <=> w \in entered[j]
    PROVE  Queue(w)'
<1>1. pc'[w] # "listen" => work'[w] # <<>>
  BY DEF Queue
<1>2. ASSUME NEW i \in 1 .. Len(work[w])
      PROVE  /\ work[w][i] \in DOMAIN first' /\ w \in Block(work[w][i])'
             /\ w \in entered'[work[w][i]] <=> i = 1 /\ pc'[w] # "listen"
             /\ \A k \in 1 .. Len(work[w]) : i < k => work[w][i] < work[w][k]
  <2>1. /\ work[w][i] \in DOMAIN first /\ w \in Block(work[w][i])
        /\ w \in entered[work[w][i]] <=> i = 1 /\ pc[w] # "listen"
        /\ \A k \in 1 .. Len(work[w]) : i < k => work[w][i] < work[w][k]
    BY DEF Queue
  <2>2. work[w][i] \in DOMAIN first' /\ Block(work[w][i])' = Block(work[w][i])
    BY <2>1 DEF FirstKept, Block
  <2> QED
    BY <2>1, <2>2
<1> QED
  BY <1>1, <1>2 DEF Queue

\* the started jobs' connections
LEMMA ClientsKept ==
    ASSUME Clients, LinksKept, Len(linkS) \in Nat, Len(linkS') \in Nat,
           linkC' = linkC, DOMAIN linkC \subseteq DOMAIN first, FirstKept,
           \A j \in DOMAIN first : entered[j] \subseteq entered'[j],
           \A j \in DOMAIN linkC : Awaited(j) => Awaited(j)'
    PROVE  Clients'
<1> SUFFICES ASSUME NEW j \in DOMAIN linkC PROVE Connected(j)' /\ first'[j] \in entered'[j]
  BY DEF Clients
<1>1. Connected(j) /\ first[j] \in entered[j] /\ j \in DOMAIN first
  BY DEF Clients
<1>2. first'[j] \in entered'[j]
  BY <1>1 DEF FirstKept
<1>3. CASE linkC[j] \in 1 .. Len(linkS) /\ linkS[linkC[j]] = j
  <2>1. linkC[j] \in 1 .. Len(linkS') /\ linkS'[linkC[j]] = j
    BY <1>3 DEF LinksKept
  <2> QED
    BY <1>2, <2>1 DEF Connected
<1>4. CASE Awaited(j)
  BY <1>2, <1>4 DEF Connected
<1> QED
  BY <1>1, <1>3, <1>4 DEF Connected

LEMMA ServedKept ==
    ASSUME Served, linkS' = linkS, FirstKept,
           \A j \in DOMAIN first : entered[j] \subseteq entered'[j]
    PROVE  Served'
<1> SUFFICES ASSUME NEW k \in 1 .. Len(linkS)
             PROVE  linkS[k] \in DOMAIN first' /\ first'[linkS[k]] \in entered'[linkS[k]]
  BY DEF Served
<1>1. linkS[k] \in DOMAIN first /\ first[linkS[k]] \in entered[linkS[k]]
  BY DEF Served
<1> QED
  BY <1>1 DEF FirstKept

LEMMA SameLinks == linkS' = linkS /\ Len(linkS) \in Nat => LinksKept
BY DEF LinksKept

-----------------------------------------------------------------------------
(* The controller                                                           *)

LEMMA FirstFacts ==
    ASSUME SchedTypes
    PROVE  /\ Len(first) \in Nat /\ DOMAIN first = 1 .. Len(first)
           /\ DOMAIN first \subseteq Jobs /\ DOMAIN first \subseteq Nat
           /\ \A j \in DOMAIN first : first[j] \in Workers
<1>1. first \in Seq(Workers) /\ Len(first) <= MaxJobs
  BY DEF SchedTypes
<1>2. Len(first) \in Nat /\ DOMAIN first = 1 .. Len(first)
  BY <1>1, LenProperties
<1>3. \A j \in DOMAIN first : first[j] \in Workers
  BY <1>1
<1> QED
  BY <1>1, <1>2, <1>3, Constants DEF Jobs

\* the block of a job after a step
BlockNext(j) == first'[j] .. first'[j] + Width - 1

\* a job is appended to the queues of its block
LEMMA StartJobFacts ==
    ASSUME Types, Queues, Parts, StartJob
    PROVE  /\ FirstKept /\ Len(first') = Len(first) + 1 /\ Len(first) < MaxJobs
           /\ \A j \in DOMAIN first : Block(j)' = Block(j)
           /\ \A w \in Workers : work[w] # <<>> => Head(work'[w]) = Head(work[w])
           /\ SchedTypes' /\ Queues'
<1>1. SchedTypes
  BY DEF Types
<1>2. PICK n \in Nat : n = Len(first) /\ DOMAIN first = 1 .. n /\ first \in Seq(Workers)
  BY <1>1, FirstFacts DEF SchedTypes
<1>3. PICK f \in 1 .. NumWorkers - Width + 1 :
        /\ first' = Append(first, f)
        /\ work' = [w \in Workers |-> IF w \in f .. f + Width - 1
                                      THEN Append(work[w], n + 1) ELSE work[w]]
  BY <1>2 DEF StartJob
<1>4. /\ n < MaxJobs /\ n + 1 \in Jobs
      /\ UNCHANGED <<answered, stopped, computeVars, serverVars, netVars>>
  BY <1>2, Constants DEF StartJob, Jobs
<1>5. f \in Workers /\ f .. f + Width - 1 \subseteq Workers
  BY Constants DEF Workers
<1>6. /\ first' \in Seq(Workers) /\ Len(first') = n + 1 /\ first'[n + 1] = f
      /\ \A j \in 1 .. n : first'[j] = first[j]
  BY <1>2, <1>3, <1>5, AppendProperties
<1>7. DOMAIN first' = 1 .. n + 1
  BY <1>6, LenProperties
<1>8. FirstKept /\ \A j \in DOMAIN first : Block(j)' = Block(j)
  BY <1>2, <1>6, <1>7 DEF FirstKept, Block
<1>9. BlockNext(n + 1) = f .. f + Width - 1 /\ \A j \in DOMAIN first : BlockNext(j) = Block(j)
  BY <1>2, <1>6 DEF BlockNext, Block
<1>10. ASSUME NEW w \in Workers
       PROVE  /\ work[w] \in Seq(Jobs)
              /\ w \in f .. f + Width - 1 =>
                    /\ work'[w] = Append(work[w], n + 1) /\ work'[w] \in Seq(Jobs)
                    /\ Len(work'[w]) = Len(work[w]) + 1 /\ work'[w][Len(work[w]) + 1] = n + 1
                    /\ \A i \in 1 .. Len(work[w]) : work'[w][i] = work[w][i]
              /\ w \notin f .. f + Width - 1 => work'[w] = work[w]
  <2>1. work[w] \in Seq(Jobs)
    BY <1>1 DEF SchedTypes
  <2>2. PICK q : q = Append(work[w], n + 1)
    OBVIOUS
  <2>3. /\ q \in Seq(Jobs) /\ Len(q) = Len(work[w]) + 1 /\ q[Len(work[w]) + 1] = n + 1
        /\ \A i \in 1 .. Len(work[w]) : q[i] = work[w][i]
    BY <1>4, <2>1, <2>2, AppendProperties
  <2>4. w \in f .. f + Width - 1 => work'[w] = q
    BY <1>3, <2>2
  <2>5. w \notin f .. f + Width - 1 => work'[w] = work[w]
    BY <1>3
  <2> QED
    BY <2>1, <2>2, <2>3, <2>4, <2>5
<1>11. ASSUME NEW w \in Workers, work[w] # <<>> PROVE Head(work'[w]) = Head(work[w])
  <2>1. CASE w \in f .. f + Width - 1
    <3>1. PICK q \in Seq(Jobs) : q = work[w] /\ q # <<>>
      BY <1>10, <1>11
    <3>2. PICK p \in Seq(Jobs) : p = work'[w] /\ Len(p) = Len(q) + 1 /\ p[1] = q[1]
      <4>1. 1 \in 1 .. Len(q)
        BY <3>1
      <4> QED
        BY <1>10, <2>1, <3>1, <4>1
    <3>3. Head(q) = q[1] /\ Head(p) = p[1]
      <4>1. Len(q) \in Nat /\ p # <<>>
        BY <3>2
      <4> QED
        BY <3>1, <3>2, <4>1
    <3> QED
      BY <3>1, <3>2, <3>3
  <2>2. CASE w \notin f .. f + Width - 1
    BY <1>10, <2>2
  <2> QED
    BY <2>1, <2>2
<1>12. SchedTypes'
  <2>1. work' \in [Workers -> Seq(Jobs)]
    <3>1. \A w \in Workers : work'[w] \in Seq(Jobs)
      BY <1>10
    <3>2. work' \in [Workers -> {work'[w] : w \in Workers}]
      BY <1>3
    <3> QED
      BY <3>1, <3>2
  <2>2. \A j \in DOMAIN first' : Block(j)' \subseteq Workers
    <3> SUFFICES ASSUME NEW j \in 1 .. n + 1 PROVE Block(j)' \subseteq Workers
      BY <1>7
    <3>1. CASE j \in 1 .. n
      BY <1>1, <1>2, <1>8, <3>1 DEF SchedTypes
    <3>2. CASE j = n + 1
      BY <1>5, <1>9, <3>2 DEF BlockNext, Block
    <3> QED
      BY <3>1, <3>2
  <2>3. Len(first') <= MaxJobs
    BY <1>4, <1>6, Constants
  <2>4. DOMAIN first \subseteq DOMAIN first'
    BY <1>8 DEF FirstKept
  <2> QED
    BY <1>1, <1>4, <1>6, <2>1, <2>2, <2>3, <2>4
    DEF SchedTypes, computeVars, serverVars
<1>13. Queues'
  <2> SUFFICES ASSUME NEW w \in Workers PROVE Queue(w)'
    BY DEF Queues
  <2>1. Queue(w) /\ pc' = pc /\ entered' = entered
    BY <1>4 DEF Queues, computeVars
  <2>2. CASE w \notin f .. f + Width - 1
    BY <1>8, <1>10, <2>1, <2>2, QueueSame
  <2>3. CASE w \in f .. f + Width - 1
    <3>1. PICK m \in Nat : m = Len(work[w])
      BY <1>10, LenProperties
    <3>2. ASSUME NEW i \in 1 .. m
          PROVE  /\ work'[w][i] = work[w][i] /\ work[w][i] \in 1 .. n
                 /\ work'[w][i] \in DOMAIN first' /\ w \in BlockNext(work'[w][i])
                 /\ w \in entered'[work'[w][i]] <=> i = 1 /\ pc'[w] # "listen"
                 /\ \A k \in 1 .. m : i < k => work'[w][i] < work'[w][k]
      <4>1. /\ work[w][i] \in DOMAIN first /\ w \in Block(work[w][i])
            /\ w \in entered[work[w][i]] <=> i = 1 /\ pc[w] # "listen"
            /\ \A k \in 1 .. m : i < k => work[w][i] < work[w][k]
        BY <2>1, <3>1 DEF Queue
      <4>2. \A k \in 1 .. m : work'[w][k] = work[w][k]
        BY <1>10, <2>3, <3>1
      <4>3. work[w][i] \in DOMAIN first' /\ BlockNext(work[w][i]) = Block(work[w][i])
        BY <1>8, <1>9, <4>1 DEF FirstKept
      <4>4. BlockNext(work'[w][i]) = Block(work[w][i])
        BY <4>2, <4>3
      <4> QED
        BY <1>2, <2>1, <4>1, <4>2, <4>3, <4>4
    <3>3. /\ Len(work'[w]) = m + 1 /\ work'[w][m + 1] = n + 1
      BY <1>10, <2>3, <3>1
    <3>4. w \notin entered[n + 1]
      <4>1. \A j \in Jobs : entered[j] # {} => j \in DOMAIN first
        BY DEF Parts
      <4> QED
        BY <1>2, <1>4, <4>1
    <3>5. ~(m + 1 = 1 /\ pc'[w] # "listen")
      <4>1. pc[w] # "listen" => m # 0
        <5>1. work[w] \in Seq(Jobs) /\ (pc[w] # "listen" => work[w] # <<>>)
          BY <1>10, <2>1 DEF Queue
        <5> QED
          BY <3>1, <5>1
      <4> QED
        BY <2>1, <4>1
    <3>6. n + 1 \in DOMAIN first' /\ w \in BlockNext(n + 1)
      <4>1. n + 1 \in 1 .. n + 1
        OBVIOUS
      <4> QED
        BY <1>7, <1>9, <2>3, <4>1
    <3>7. pc'[w] # "listen" => work'[w] # <<>>
      BY <3>3
    <3>8. ASSUME NEW i \in 1 .. m + 1
          PROVE  /\ work'[w][i] \in DOMAIN first' /\ w \in BlockNext(work'[w][i])
                 /\ w \in entered'[work'[w][i]] <=> i = 1 /\ pc'[w] # "listen"
                 /\ \A k \in 1 .. m + 1 : i < k => work'[w][i] < work'[w][k]
      <4>1. CASE i \in 1 .. m
        <5>1. ASSUME NEW k \in 1 .. m + 1, i < k PROVE work'[w][i] < work'[w][k]
          <6>1. CASE k \in 1 .. m
            BY <3>2, <4>1, <5>1, <6>1
          <6>2. CASE k = m + 1
            BY <3>2, <3>3, <4>1, <6>2
          <6> QED
            BY <6>1, <6>2
        <5> QED
          BY <3>2, <4>1, <5>1
      <4>2. CASE i = m + 1
        <5>1. BlockNext(work'[w][i]) = BlockNext(n + 1)
          BY <3>3, <4>2
        <5> QED
          BY <2>1, <3>3, <3>4, <3>5, <3>6, <4>2, <5>1
      <4> QED
        BY <4>1, <4>2
    <3> QED
      BY <3>3, <3>7, <3>8 DEF Queue, Block, BlockNext
  <2> QED
    BY <2>2, <2>3
<1> QED
  BY <1>2, <1>4, <1>6, <1>8, <1>11, <1>12, <1>13

LEMMA LinkCount == StorageTypes => Len(linkS) \in Nat /\ Len(orders) \in Nat
BY LenProperties DEF StorageTypes

LEMMA StartJobInv == Inv /\ StartJob => Inv'
<1> SUFFICES ASSUME Inv, StartJob PROVE Inv'
  OBVIOUS
<1>1. /\ Types /\ SchedTypes /\ StorageTypes /\ NetTypes /\ Queues /\ Dialogs /\ Clients /\ Served
      /\ Phases /\ Counts /\ Parts /\ Ends
  BY DEF Inv, Types
<1>2. /\ FirstKept /\ Len(first) < MaxJobs
      /\ \A j \in DOMAIN first : Block(j)' = Block(j)
      /\ \A w \in Workers : work[w] # <<>> => Head(work'[w]) = Head(work[w])
      /\ SchedTypes' /\ Queues'
  BY <1>1, StartJobFacts
<1>3. UNCHANGED <<answered, stopped, computeVars, serverVars, netVars>>
  BY DEF StartJob
<1>4. UNCHANGED <<answered, stopped, pc, entered, peer, linkC, received, reduced, totals,
                  buffered, orders, spc, turn, linkS, sent, requests, replies, hellos>>
  BY <1>3 DEF computeVars, serverVars, netVars
<1>5. DOMAIN linkC \subseteq DOMAIN first /\ Len(linkS) \in Nat /\ LinksKept
  BY <1>1, <1>4, LinkCount, SameLinks DEF StorageTypes
<1>6. ASSUME NEW w \in Workers, pc[w] # "listen"
      PROVE  /\ Head(work'[w]) = Head(work[w]) /\ Job(w) \in DOMAIN first
             /\ first'[Job(w)] = first[Job(w)]
  <2>1. work[w] # <<>> /\ Job(w) \in DOMAIN first
    BY <1>1, <1>6, BusyHasJob DEF Queues
  <2> QED
    BY <1>2, <2>1 DEF FirstKept
<1>7. Dialogs'
  <2> SUFFICES ASSUME NEW w \in Workers PROVE Dialog(w)'
    BY DEF Dialogs
  <2>1. Dialog(w)
    BY <1>1 DEF Dialogs
  <2>2. Apart(w)
    BY <1>4, <1>6 DEF Apart
  <2>3. ServerSame
    BY <1>4 DEF ServerSame
  <2> QED
    BY <2>1, <2>2, <2>3, DialogSame
<1>8. Clients'
  <2>1. ASSUME NEW j \in DOMAIN linkC, Awaited(j) PROVE Awaited(j)'
    <3>1. first'[j] = first[j] /\ first[j] \in Workers
      BY <1>1, <1>2, <1>5, FirstFacts DEF FirstKept
    <3>2. PICK w \in Workers : w = first[j]
      BY <3>1
    <3>3. pc[w] = "data" /\ InProgress(w) /\ Job(w) = j /\ linkC[j] = turn[0]
      BY <2>1, <3>2 DEF Awaited
    <3>4. Head(work'[w]) = Head(work[w])
      BY <1>6, <3>3
    <3>5. pc'[w] = "data" /\ InProgress(w)' /\ Job(w)' = j /\ linkC'[j] = turn'[0]
      BY <1>4, <3>3, <3>4 DEF InProgress, Job
    <3> QED
      BY <3>1, <3>2, <3>5 DEF Awaited
  <2> QED
    BY <1>1, <1>2, <1>4, <1>5, <2>1, ClientsKept
<1>9. Served'
  BY <1>1, <1>2, <1>4, ServedKept
<1>10. Phases'
  <2> SUFFICES ASSUME NEW w \in Workers, pc[w] \in {"data", "reduce"}
               PROVE  /\ Job(w)' \in DOMAIN linkC
                      /\ pc[w] = "reduce" => w \in reduced[Job(w)']
    BY <1>4 DEF Phases, Phase
  <2>1. Job(w)' = Job(w)
    BY <1>6 DEF Job
  <2> QED
    BY <1>1, <2>1 DEF Phases, Phase
<1>11. Counts'
  BY <1>1, <1>4 DEF Counts
<1>12. Parts'
  <2>1. \A j \in Jobs : entered'[j] # {} => j \in DOMAIN first'
    BY <1>1, <1>2, <1>4 DEF Parts, FirstKept
  <2>2. \A j \in Jobs : \A w \in reduced'[j] :
           j \in DOMAIN linkC' /\ <<linkC'[j], w - first'[j]>> \in received'
    <3> SUFFICES ASSUME NEW j \in Jobs, NEW w \in reduced[j]
                 PROVE  j \in DOMAIN linkC /\ <<linkC[j], w - first'[j]>> \in received
      BY <1>4
    <3>1. j \in DOMAIN linkC /\ <<linkC[j], w - first[j]>> \in received
      BY <1>1 DEF Parts
    <3>2. first'[j] = first[j]
      BY <1>2, <1>5, <3>1 DEF FirstKept
    <3> QED
      BY <3>1, <3>2
  <2> QED
    BY <1>1, <1>4, <2>1, <2>2 DEF Parts
<1>13. Ends'
  <2>1. ~stopped
    BY <1>1, <1>2, FirstFacts, Constants DEF Ends
  <2>2. \A j \in totals' : Block(j)' \subseteq reduced'[j]
    BY <1>1, <1>2, <1>4 DEF Ends, SchedTypes
  <2> QED
    BY <1>1, <1>4, <2>1, <2>2 DEF Ends
<1>14. StorageTypes' /\ NetTypes'
  BY <1>1, <1>2, <1>4 DEF StorageTypes, NetTypes, FirstKept
<1> QED
  BY <1>2, <1>7, <1>8, <1>9, <1>10, <1>11, <1>12, <1>13, <1>14 DEF Inv, Types

\* the stop message is sent once
LEMMA SendStopInv == Inv /\ SendStop => Inv'
<1> SUFFICES ASSUME Inv, SendStop PROVE Inv'
  OBVIOUS
<1>1. /\ Types /\ SchedTypes /\ StorageTypes /\ NetTypes /\ Queues /\ Dialogs /\ Clients /\ Served
      /\ Phases /\ Counts /\ Parts /\ Ends
  BY DEF Inv, Types
<1>2. /\ Len(first) = MaxJobs /\ DOMAIN first \subseteq answered /\ ~stopped /\ stopped' = TRUE
      /\ requests' = [requests EXCEPT ![0] = Append(@, "stop")]
      /\ UNCHANGED <<first, answered, work, computeVars, serverVars, replies, hellos>>
  BY DEF SendStop, Finished, Running
<1>3. UNCHANGED <<first, answered, work, pc, entered, peer, linkC, received, reduced, totals,
                  buffered, orders, spc, turn, linkS, sent, replies, hellos>>
  BY <1>2 DEF computeVars, serverVars
<1>4. /\ requests'[0] = <<"stop">> /\ \A w \in Workers : requests'[w] = requests[w]
      /\ requests' \in [0 .. NumWorkers -> Seq({"init", "stop"})]
  <2>1. requests \in [0 .. NumWorkers -> Seq({"init", "stop"})] /\ requests[0] = <<>>
    BY <1>1, <1>2 DEF NetTypes, Ends
  <2>2. Append(requests[0], "stop") = <<"stop">> /\ <<"stop">> \in Seq({"init", "stop"})
    BY <2>1
  <2> QED
    BY <1>2, <2>1, <2>2, Constants
<1>5. Len(linkS) \in Nat /\ LinksKept /\ FirstKept /\ DOMAIN linkC \subseteq DOMAIN first
  BY <1>1, <1>3, LinkCount, SameLinks DEF StorageTypes, FirstKept
<1>6. Queues'
  <2> SUFFICES ASSUME NEW w \in Workers PROVE Queue(w)'
    BY DEF Queues
  <2> QED
    BY <1>1, <1>3, <1>5, QueueSame DEF Queues
<1>7. Dialogs'
  <2> SUFFICES ASSUME NEW w \in Workers PROVE Dialog(w)'
    BY DEF Dialogs
  <2>1. Dialog(w) /\ Apart(w) /\ ServerSame
    BY <1>1, <1>3, <1>4 DEF Dialogs, Apart, ServerSame
  <2> QED
    BY <2>1, DialogSame
<1>8. Clients'
  <2>1. \A j \in DOMAIN linkC : Awaited(j) => Awaited(j)'
    BY <1>3 DEF Awaited, InProgress, Job
  <2> QED
    BY <1>1, <1>3, <1>5, <2>1, ClientsKept
<1>9. Served'
  BY <1>1, <1>3, <1>5, ServedKept
<1>10. Phases' /\ Counts' /\ Parts'
  BY <1>1, <1>3 DEF Phases, Phase, Job, Counts, Parts
<1>11. Ends'
  BY <1>1, <1>2, <1>3, <1>4 DEF Ends, Block
<1>12. Types'
  BY <1>1, <1>3, <1>4 DEF Types, SchedTypes, StorageTypes, NetTypes, Block
<1> QED
  BY <1>6, <1>7, <1>8, <1>9, <1>10, <1>11, <1>12 DEF Inv

-----------------------------------------------------------------------------
(* A worker's step                                                          *)

\* nothing changes but at w
Elsewhere(w) ==
    \A v \in Workers \ {w} :
        /\ pc'[v] = pc[v] /\ work'[v] = work[v]
        /\ requests'[v] = requests[v] /\ replies'[v] = replies[v]
        /\ hellos'.s[v] = hellos.s[v] /\ hellos'.c[v] = hellos.c[v]

ServerFrame ==
    /\ UNCHANGED <<first, stopped, buffered, orders, spc, turn, linkS, sent>>
    /\ requests'[0] = requests[0]

\* its job may get its connection
LinksGrow(w) ==
    /\ DOMAIN linkC \subseteq DOMAIN linkC' /\ \A j \in DOMAIN linkC : linkC'[j] = linkC[j]
    /\ \A j \in DOMAIN linkC' \ DOMAIN linkC :
          pc[w] # "listen" /\ j = Job(w) /\ Leader(w) /\ Connected(j)'

\* it may enter its job
EnteredGrow(w) ==
    \A j \in Jobs : /\ entered[j] \subseteq entered'[j] /\ entered'[j] \subseteq entered[j] \cup {w}
                    /\ entered'[j] # {} => j \in DOMAIN first

\* data and sums come over the job's connection
DataGrow ==
    /\ received \subseteq received' /\ received' \subseteq sent
    /\ \A j \in Jobs : /\ reduced[j] \subseteq reduced'[j]
                       /\ \A v \in reduced'[j] \ reduced[j] :
                             /\ j \in DOMAIN linkC'
                             /\ <<linkC'[j], v - first[j]>> \in received'

\* the job may return
Returns ==
    /\ answered \subseteq answered' /\ \A j \in answered' : reduced'[j] # {}
    /\ \A j \in totals' : Block(j) \subseteq reduced'[j]

Stays(w) ==
    \A j \in DOMAIN linkC :
        first[j] = w /\ Awaited(j) => pc'[w] = "data" /\ Head(work'[w]) = Head(work[w])

LEMMA WorkerInv ==
    ASSUME Inv, NEW w \in Workers, Elsewhere(w), ServerFrame, LinksGrow(w), EnteredGrow(w),
           DataGrow, Returns, Stays(w), Types', Queue(w)', Dialog(w)', Phase(w)'
    PROVE  Inv'
<1>1. /\ Types /\ SchedTypes /\ StorageTypes /\ NetTypes /\ Queues /\ Dialogs /\ Clients /\ Served
      /\ Phases /\ Counts /\ Parts /\ Ends
  BY DEF Inv, Types
<1>2. UNCHANGED <<first, stopped, buffered, orders, spc, turn, linkS, sent>>
  BY DEF ServerFrame
<1>3. /\ Len(linkS) \in Nat /\ LinksKept /\ FirstKept /\ ServerSame
      /\ DOMAIN linkC \subseteq DOMAIN first /\ DOMAIN first \subseteq Jobs
  BY <1>1, <1>2, LinkCount, SameLinks, FirstFacts DEF StorageTypes, FirstKept, ServerSame
<1>4. /\ \A j \in DOMAIN first : entered[j] \subseteq entered'[j]
      /\ \A v \in Workers \ {w} : \A j \in DOMAIN first : v \in entered'[j] <=> v \in entered[j]
  BY <1>3 DEF EnteredGrow
<1>5. Queues'
  <2> SUFFICES ASSUME NEW v \in Workers, v # w PROVE Queue(v)'
    BY DEF Queues
  <2>1. Queue(v) /\ work'[v] = work[v] /\ pc'[v] = pc[v]
    BY <1>1 DEF Queues, Elsewhere
  <2> QED
    BY <1>3, <1>4, <2>1, QueueSame
<1>6. Dialogs'
  <2> SUFFICES ASSUME NEW v \in Workers, v # w PROVE Dialog(v)'
    BY DEF Dialogs
  <2>1. ASSUME pc[v] # "listen", Leader(v)
        PROVE  /\ Job(v) \in DOMAIN linkC' <=> Job(v) \in DOMAIN linkC
               /\ Job(v) \in DOMAIN linkC => linkC'[Job(v)] = linkC[Job(v)]
    <3>1. PICK j : j = Job(v)
      OBVIOUS
    <3>2. ~(pc[w] # "listen" /\ j = Job(w) /\ Leader(w))
      BY <2>1, <3>1 DEF Leader
    <3>3. j \in DOMAIN linkC' <=> j \in DOMAIN linkC
      BY <3>2 DEF LinksGrow
    <3>4. j \in DOMAIN linkC => linkC'[j] = linkC[j]
      BY DEF LinksGrow
    <3> QED
      BY <3>1, <3>3, <3>4
  <2>2. Apart(v)
    BY <1>2, <2>1 DEF Apart, Elsewhere
  <2> QED
    BY <1>1, <1>3, <2>2, DialogSame DEF Dialogs
<1>7. Clients'
  <2> SUFFICES ASSUME NEW j \in DOMAIN linkC' PROVE Connected(j)' /\ first[j] \in entered'[j]
    BY <1>2 DEF Clients
  <2>1. CASE j \notin DOMAIN linkC
    <3>1. pc[w] # "listen" /\ j = Job(w) /\ Leader(w) /\ Connected(j)'
      BY <2>1 DEF LinksGrow
    <3>2. w \in entered[j] /\ j \in DOMAIN first /\ first[j] = w
      BY <1>1, <3>1, BusyHasJob DEF Queues, Leader
    <3> QED
      BY <1>4, <3>1, <3>2
  <2>2. CASE j \in DOMAIN linkC
    <3>1. Connected(j) /\ first[j] \in entered[j] /\ linkC'[j] = linkC[j] /\ j \in DOMAIN first
      BY <1>1, <1>3, <2>2 DEF Clients, LinksGrow
    <3>2. CASE linkC[j] \in 1 .. Len(linkS) /\ linkS[linkC[j]] = j
      <4>1. linkC'[j] \in 1 .. Len(linkS') /\ linkS'[linkC'[j]] = j
        BY <1>2, <3>1, <3>2
      <4> QED
        BY <1>4, <3>1, <4>1 DEF Connected
    <3>3. CASE Awaited(j)
      <4>1. PICK v \in Workers : v = first[j]
        BY <1>1, <3>1, FirstFacts
      <4>2. pc[v] = "data" /\ InProgress(v) /\ Job(v) = j /\ linkC[j] = turn[0]
        BY <3>3, <4>1 DEF Awaited
      <4>3. pc'[v] = "data" /\ Head(work'[v]) = Head(work[v])
        <5>1. CASE v = w
          BY <2>2, <3>3, <4>1, <5>1 DEF Stays
        <5>2. CASE v # w
          BY <4>2, <5>2 DEF Elsewhere
        <5> QED
          BY <5>1, <5>2
      <4>4. InProgress(v)' /\ Job(v)' = j /\ linkC'[j] = turn'[0] /\ first'[j] = v
        BY <1>2, <3>1, <4>1, <4>2, <4>3 DEF InProgress, Job
      <4>5. Awaited(j)'
        BY <4>3, <4>4 DEF Awaited
      <4> QED
        BY <1>4, <3>1, <4>5 DEF Connected
    <3> QED
      BY <3>1, <3>2, <3>3 DEF Connected
  <2> QED
    BY <2>1, <2>2
<1>8. Served'
  BY <1>1, <1>2, <1>3, <1>4, ServedKept
<1>9. Phases'
  <2> SUFFICES ASSUME NEW v \in Workers, v # w PROVE Phase(v)'
    BY DEF Phases
  <2>1. pc'[v] = pc[v] /\ Job(v)' = Job(v) /\ Phase(v)
    BY <1>1 DEF Elsewhere, Job, Phases
  <2>2. pc[v] \in {"data", "reduce"} => Job(v) \in DOMAIN linkC'
    BY <2>1 DEF Phase, LinksGrow
  <2>3. pc[v] = "reduce" => v \in reduced'[Job(v)]
    <3> SUFFICES ASSUME pc[v] = "reduce" PROVE v \in reduced'[Job(v)]
      OBVIOUS
    <3>1. Job(v) \in Jobs /\ v \in reduced[Job(v)]
      BY <1>1, <2>1, BusyHasJob DEF Queues, Phase
    <3> QED
      BY <3>1 DEF DataGrow
  <2> QED
    BY <2>1, <2>2, <2>3 DEF Phase
<1>10. Counts'
  BY <1>1, <1>2 DEF Counts
<1>11. Parts'
  <2>1. \A j \in Jobs : entered'[j] # {} => j \in DOMAIN first'
    BY <1>2 DEF EnteredGrow
  <2>2. ASSUME NEW j \in Jobs, NEW v \in reduced'[j]
        PROVE  j \in DOMAIN linkC' /\ <<linkC'[j], v - first'[j]>> \in received'
    <3>1. CASE v \in reduced[j]
      <4>1. j \in DOMAIN linkC /\ <<linkC[j], v - first[j]>> \in received
        BY <1>1, <3>1 DEF Parts
      <4>2. j \in DOMAIN linkC' /\ linkC'[j] = linkC[j]
        BY <4>1 DEF LinksGrow
      <4> QED
        BY <1>2, <4>1, <4>2 DEF DataGrow
    <3>2. CASE v \notin reduced[j]
      BY <1>2, <3>2 DEF DataGrow
    <3> QED
      BY <3>1, <3>2
  <2>3. received' \subseteq sent'
    BY <1>2 DEF DataGrow
  <2> QED
    BY <1>1, <1>2, <2>1, <2>2, <2>3 DEF Parts
<1>12. Ends'
  <2>1. \A j \in totals' : Block(j)' \subseteq reduced'[j]
    BY <1>2 DEF Returns, Block
  <2>2. requests'[0] = IF stopped' THEN <<"stop">> ELSE <<>>
    BY <1>1, <1>2 DEF ServerFrame, Ends
  <2>3. stopped' => Len(first') = MaxJobs /\ DOMAIN first' \subseteq answered'
    BY <1>1, <1>2 DEF Returns, Ends
  <2> QED
    BY <1>1, <1>2, <2>1, <2>2, <2>3 DEF Ends, Returns
<1> QED
  BY <1>5, <1>6, <1>7, <1>8, <1>9, <1>10, <1>11, <1>12 DEF Inv

-----------------------------------------------------------------------------
(* compute.cpp                                                              *)

\* the steps in which only the rank's place and its messages change
Talks(w) ==
    /\ Elsewhere(w) /\ ServerFrame /\ NetTypes' /\ pc[w] \notin {"listen", "data"}
    /\ pc' = [pc EXCEPT ![w] = pc'[w]] /\ pc'[w] \in {"await", "meet", "data"}
    /\ UNCHANGED <<answered, work, entered, linkC, received, reduced, totals>>

LEMMA TalkInv ==
    ASSUME Inv, NEW w \in Workers, Talks(w), Dialog(w)', pc'[w] = "data" => Job(w) \in DOMAIN linkC
    PROVE  Inv'
<1>1. /\ Types /\ SchedTypes /\ StorageTypes /\ Queues /\ Parts /\ Ends
  BY DEF Inv, Types
<1>2. /\ Elsewhere(w) /\ ServerFrame /\ NetTypes' /\ pc[w] \notin {"listen", "data"}
      /\ pc'[w] \in {"await", "meet", "data"} /\ pc' = [pc EXCEPT ![w] = pc'[w]]
      /\ UNCHANGED <<answered, work, entered, linkC, received, reduced, totals>>
      /\ UNCHANGED <<first, stopped, buffered, orders, spc, turn, linkS, sent>>
  BY DEF Talks, ServerFrame
<1>3. LinksGrow(w) /\ Returns
  BY <1>1, <1>2 DEF LinksGrow, Returns, Ends
<1>4. EnteredGrow(w)
  BY <1>1, <1>2 DEF EnteredGrow, Parts
<1>5. DataGrow
  BY <1>1, <1>2 DEF DataGrow, Parts
<1>6. Stays(w)
  BY <1>2 DEF Stays, Awaited
<1>7. Types'
  <2>1. pc' \in [Workers -> {"listen", "enter", "await", "meet", "data", "reduce"}]
    BY <1>1, <1>2 DEF SchedTypes
  <2>2. SchedTypes'
    BY <1>1, <1>2, <2>1 DEF SchedTypes, Block
  <2>3. StorageTypes'
    BY <1>1, <1>2 DEF StorageTypes
  <2> QED
    BY <1>2, <2>2, <2>3 DEF Types
<1>8. Queue(w)'
  <2>1. Queue(w) /\ FirstKept /\ work'[w] = work[w]
    BY <1>1, <1>2 DEF Queues, FirstKept
  <2> QED
    BY <1>2, <2>1, QueueSame
<1>9. Phase(w)'
  BY <1>2 DEF Phase, Job
<1> QED
  BY <1>2, <1>3, <1>4, <1>5, <1>6, <1>7, <1>8, <1>9, WorkerInv

\* the leader's messages, by where it is
LEMMA DialogCases ==
    ASSUME NEW w \in Workers, Dialog(w)
    PROVE  /\ pc[w] = "enter" /\ Leader(w) => Entering(w)
           /\ pc[w] = "await" /\ Leader(w) => Asking(w) \/ Answering(w)
           /\ pc[w] = "meet" /\ Leader(w) => Meeting(w) \/ Heard(w)
           /\ pc[w] = "data" /\ Leader(w) => Met(w) \/ Linked(w)
           /\ pc[w] = "reduce" /\ Leader(w) => Linked(w)
           /\ pc[w] = "listen" \/ ~Leader(w) => Quiet(w)
BY DEF Dialog, Entering, Asking, Answering, Meeting, Heard, Met, Linked

LEMMA SamePlace ==
    ASSUME ServerFrame, NEW w
    PROVE  InProgress(w)' = InProgress(w) /\ Hello' = Hello /\ \A j : Fresh(j)' = Fresh(j)
BY DEF ServerFrame, InProgress, Hello, Fresh

LEMMA WorkerTypes ==
    ASSUME Types, NEW w \in Workers
    PROVE  /\ requests \in [0 .. NumWorkers -> Seq({"init", "stop"})] /\ w \in 0 .. NumWorkers
           /\ w # 0 /\ requests[w] \in Seq({"init", "stop"})
           /\ replies \in [Workers -> Nat] /\ replies[w] \in Nat
           /\ hellos = [s |-> hellos.s, c |-> hellos.c]
           /\ hellos.s \in [Workers -> Seq(Nat)] /\ hellos.c \in [Workers -> Seq(Jobs)]
           /\ hellos.s[w] \in Seq(Nat) /\ hellos.c[w] \in Seq(Jobs)
           /\ pc \in [Workers -> {"listen", "enter", "await", "meet", "data", "reduce"}]
BY Constants DEF Types, NetTypes, SchedTypes

LEMMA One ==
    ASSUME NEW S, NEW x \in S
    PROVE  /\ <<>> \in Seq(S) /\ <<x>> \in Seq(S)
           /\ Append(<<>>, x) = <<x>> /\ Tail(<<x>>) = <<>> /\ Head(<<x>>) = x /\ <<x>> # <<>>
           /\ Len(<<x>>) = 1
OBVIOUS

\* the leader's request, or nothing
LEMMA RequestInv == ASSUME Inv, NEW w \in Workers, Request(w) PROVE Inv'
<1>1. /\ Types /\ Dialog(w) /\ Queue(w) /\ SchedTypes
  BY DEF Inv, Types, Dialogs, Queues
<1>2. /\ pc[w] = "enter" /\ pc' = [pc EXCEPT ![w] = "await"]
      /\ requests' = IF Leader(w) THEN [requests EXCEPT ![w] = Append(@, "init")] ELSE requests
      /\ UNCHANGED <<first, answered, stopped, work, entered, peer, linkC, received, reduced, totals,
                     buffered, orders, spc, turn, linkS, sent, replies, hellos>>
  BY DEF Request, schedVars, serverVars
<1>3. Leader(w) => Entering(w) /\ requests[w] = <<>>
  BY <1>1, <1>2, DialogCases DEF Entering, Quiet
<1>4. /\ requests' \in [0 .. NumWorkers -> Seq({"init", "stop"})] /\ requests'[0] = requests[0]
      /\ \A v \in Workers \ {w} : requests'[v] = requests[v]
      /\ Leader(w) => requests'[w] = <<"init">>
      /\ ~Leader(w) => requests'[w] = requests[w]
  <2>1. Append(<<>>, "init") = <<"init">> /\ <<"init">> \in Seq({"init", "stop"})
    OBVIOUS
  <2>2. /\ requests \in [0 .. NumWorkers -> Seq({"init", "stop"})]
        /\ w \in 0 .. NumWorkers /\ w # 0 /\ \A v \in Workers : v \in 0 .. NumWorkers
    BY <1>1, WorkerTypes
  <2>3. CASE Leader(w)
    <3>1. requests' = [requests EXCEPT ![w] = <<"init">>]
      BY <1>2, <1>3, <2>1, <2>3
    <3> QED
      BY <2>1, <2>2, <2>3, <3>1
  <2>4. CASE ~Leader(w)
    BY <1>2, <2>2, <2>4
  <2> QED
    BY <2>3, <2>4
<1>5. pc'[w] = "await" /\ \A v \in Workers \ {w} : pc'[v] = pc[v]
  BY <1>1, <1>2, WorkerTypes
<1>6. Talks(w)
  <2>1. NetTypes'
    BY <1>1, <1>2, <1>4 DEF NetTypes, Types
  <2> QED
    BY <1>2, <1>4, <1>5, <2>1 DEF Talks, Elsewhere, ServerFrame
<1>7. Leader(w)' = Leader(w) /\ Job(w)' = Job(w)
  BY <1>2 DEF Leader, Job
<1>8. InProgress(w)' = InProgress(w) /\ \A j : Fresh(j)' = Fresh(j)
  BY <1>6, SamePlace DEF Talks
<1>9. CASE Leader(w)
  <2>1. Asking(w)'
    BY <1>2, <1>3, <1>4, <1>5, <1>7, <1>8, <1>9 DEF Asking, Entering, Quiet, Unlinked
  <2> QED
    BY <1>5, <1>6, <1>7, <1>9, <2>1, TalkInv DEF Dialog
<1>10. CASE ~Leader(w)
  <2>1. Quiet(w)
    BY <1>1, <1>10, DialogCases
  <2>2. Quiet(w)'
    BY <1>2, <1>4, <1>8, <1>10, <2>1 DEF Quiet
  <2> QED
    BY <1>1, <1>5, <1>6, <1>7, <1>10, <2>2, TalkInv DEF Dialog
<1> QED
  BY <1>9, <1>10

\* the leader takes the answer, and says hello
LEMMA TakeReplyInv == ASSUME Inv, NEW w \in Workers, TakeReply(w) PROVE Inv'
<1>1. /\ Types /\ Dialog(w) /\ Queue(w) /\ SchedTypes
  BY DEF Inv, Types, Dialogs, Queues
<1>2. /\ pc[w] = "await" /\ Leader(w) /\ replies[w] > 0 /\ pc' = [pc EXCEPT ![w] = "meet"]
      /\ replies' = [replies EXCEPT ![w] = @ - 1]
      /\ hellos' = [hellos EXCEPT !.c[w] = Append(@, Job(w))]
      /\ UNCHANGED <<first, answered, stopped, work, entered, linkC, received, reduced, totals,
                     buffered, orders, spc, turn, linkS, sent, requests>>
  BY DEF TakeReply, schedVars, serverVars
<1>3. Answering(w) /\ replies[w] = 1 /\ hellos.c[w] = <<>>
  BY <1>1, <1>2, DialogCases DEF Asking, Answering
<1>4. Job(w) \in Jobs
  BY <1>1, <1>2, BusyHasJob
<1>5. hellos' = [s |-> hellos.s, c |-> [hellos.c EXCEPT ![w] = <<Job(w)>>]]
  <2>1. Append(hellos.c[w], Job(w)) = <<Job(w)>>
    BY <1>3
  <2> QED
    BY <1>1, <1>2, <2>1, WorkerTypes
<1>6. /\ hellos'.s = hellos.s /\ hellos'.c[w] = <<Job(w)>> /\ replies'[w] = 0
      /\ \A v \in Workers \ {w} : hellos'.c[v] = hellos.c[v] /\ replies'[v] = replies[v]
  BY <1>1, <1>2, <1>3, <1>5, WorkerTypes
<1>7. pc'[w] = "meet" /\ \A v \in Workers \ {w} : pc'[v] = pc[v]
  BY <1>1, <1>2, WorkerTypes
<1>8. NetTypes'
  <2>1. replies' \in [Workers -> Nat]
    BY <1>1, <1>2, <1>3, WorkerTypes
  <2>2. [hellos.c EXCEPT ![w] = <<Job(w)>>] \in [Workers -> Seq(Jobs)]
    <3>1. <<Job(w)>> \in Seq(Jobs)
      BY <1>4, One
    <3> QED
      BY <1>1, <3>1, WorkerTypes
  <2>3. hellos' = [s |-> hellos'.s, c |-> hellos'.c] /\ hellos'.c \in [Workers -> Seq(Jobs)]
    BY <1>5, <2>2
  <2>4. requests' = requests /\ hellos'.s = hellos.s
    BY <1>2, <1>6
  <2>5. /\ requests \in [0 .. NumWorkers -> Seq({"init", "stop"})]
        /\ hellos.s \in [Workers -> Seq(Nat)]
    BY <1>1, WorkerTypes
  <2> QED
    BY <2>1, <2>3, <2>4, <2>5 DEF NetTypes
<1>9. Talks(w)
  BY <1>2, <1>6, <1>7, <1>8 DEF Talks, Elsewhere, ServerFrame
<1>10. Leader(w)' /\ Job(w)' = Job(w)
  BY <1>2 DEF Leader, Job
<1>11. InProgress(w)' = InProgress(w) /\ Hello' = Hello /\ \A j : Fresh(j)' = Fresh(j)
  BY <1>9, SamePlace DEF Talks
<1>12. Meeting(w)'
  BY <1>2, <1>3, <1>6, <1>7, <1>10, <1>11 DEF Meeting, Answering, Unlinked
<1> QED
  BY <1>7, <1>9, <1>10, <1>12, TalkInv DEF Dialog

\* the others follow their leader
LEMMA FollowInv ==
    ASSUME Inv, NEW w \in Workers, TakePeer(w) \/ FollowLeader(w)
    PROVE  Inv'
<1>1. /\ Types /\ Dialog(w) /\ NetTypes
  BY DEF Inv, Types, Dialogs
<1>2. /\ pc[w] \in {"await", "meet"} /\ ~Leader(w)
      /\ UNCHANGED <<first, answered, stopped, work, entered, linkC, received, reduced, totals,
                     buffered, orders, spc, turn, linkS, sent, requests, replies, hellos>>
  BY DEF TakePeer, FollowLeader, schedVars, serverVars, netVars
<1>3. /\ pc' = [pc EXCEPT ![w] = pc'[w]] /\ pc'[w] \in {"meet", "data"}
      /\ pc'[w] = "data" => Job(w) \in DOMAIN linkC
      /\ \A v \in Workers \ {w} : pc'[v] = pc[v]
  BY <1>1, WorkerTypes DEF TakePeer, FollowLeader
<1>4. Talks(w)
  BY <1>1, <1>2, <1>3 DEF Talks, Elsewhere, ServerFrame, NetTypes
<1>5. Quiet(w)
  BY <1>1, <1>2, DialogCases
<1>6. Quiet(w)'
  BY <1>2, <1>5 DEF Quiet, InProgress
<1>7. ~Leader(w)'
  BY <1>2 DEF Leader, Job
<1> QED
  BY <1>3, <1>4, <1>6, <1>7, TalkInv DEF Dialog

\* MPI_Intercomm_create returns on the leader: the order is that of its own job
LEMMA MeetServerInv == ASSUME Inv, NEW w \in Workers, MeetServer(w) PROVE Inv'
<1>1. /\ Types /\ SchedTypes /\ StorageTypes /\ NetTypes /\ Dialog(w) /\ Queue(w) /\ Parts /\ Ends
      /\ Counts
  BY DEF Inv, Types, Dialogs, Queues
<1>2. PICK j : j = Job(w)
  OBVIOUS
<1>3. /\ pc[w] = "meet" /\ Leader(w) /\ hellos.s[w] # <<>> /\ pc' = [pc EXCEPT ![w] = "data"]
      /\ linkC' = [i \in DOMAIN linkC \cup {j} |-> IF i = j THEN Head(hellos.s[w]) ELSE linkC[i]]
      /\ hellos' = [hellos EXCEPT !.s[w] = Tail(@)]
      /\ UNCHANGED <<first, answered, stopped, work, entered, received, reduced, totals,
                     buffered, orders, spc, turn, linkS, sent, requests, replies>>
  BY <1>2 DEF MeetServer, schedVars, serverVars
<1>4. PICK k : /\ hellos.s[w] = <<k>> /\ k \in Nat /\ j \notin DOMAIN linkC
               /\ \/ Heard(w) /\ k \in 1 .. Len(linkS) /\ linkS[k] = j
                  \/ Meeting(w) /\ k = turn[0] /\ spc[0] = "meet"
  <2>1. CASE Heard(w)
    BY <1>2, <2>1 DEF Heard
  <2>2. CASE Meeting(w)
    <3>1. Hello # <<>> /\ spc[0] \in {"create", "meet"} /\ hellos.s[w] = Hello
      BY <1>3, <2>2 DEF Meeting, InProgress
    <3>2. spc[0] = "meet" /\ hellos.s[w] = <<turn[0]>>
      BY <3>1 DEF Hello
    <3>3. turn[0] \in Nat
      BY <1>1, Constants DEF StorageTypes
    <3> QED
      BY <1>2, <2>2, <3>2, <3>3 DEF Meeting, Unlinked
  <2> QED
    BY <1>1, <1>3, <2>1, <2>2, DialogCases
<1>5. Head(hellos.s[w]) = k /\ Tail(hellos.s[w]) = <<>> /\ <<>> \in Seq(Nat)
  BY <1>4, One
<1>6. hellos' = [s |-> [hellos.s EXCEPT ![w] = <<>>], c |-> hellos.c]
  BY <1>1, <1>3, <1>5, WorkerTypes
<1>7. /\ hellos'.c = hellos.c /\ hellos'.s[w] = <<>> /\ hellos'.s \in [Workers -> Seq(Nat)]
      /\ \A v \in Workers \ {w} : hellos'.s[v] = hellos.s[v]
      /\ hellos' = [s |-> hellos'.s, c |-> hellos'.c]
  BY <1>1, <1>5, <1>6, WorkerTypes
<1>8. pc'[w] = "data" /\ \A v \in Workers \ {w} : pc'[v] = pc[v]
  BY <1>1, <1>3, WorkerTypes
<1>9. Elsewhere(w) /\ ServerFrame
  BY <1>3, <1>7, <1>8 DEF Elsewhere, ServerFrame
<1>10. /\ DOMAIN linkC' = DOMAIN linkC \cup {j} /\ linkC'[j] = k
       /\ \A i \in DOMAIN linkC : linkC'[i] = linkC[i]
  BY <1>3, <1>4, <1>5
<1>11. Job(w)' = j /\ Leader(w)' /\ first[j] = w /\ first'[j] = w /\ j \in DOMAIN first
  BY <1>1, <1>2, <1>3, BusyHasJob DEF Job, Leader
<1>12. InProgress(w)' = InProgress(w) /\ \A i : Fresh(i)' = Fresh(i)
  BY <1>9, SamePlace
<1>13. Connected(j)'
  <2>1. CASE k \in 1 .. Len(linkS) /\ linkS[k] = j
    BY <1>3, <1>10, <2>1 DEF Connected
  <2>2. CASE Meeting(w) /\ k = turn[0]
    <3>1. InProgress(w)' /\ turn'[0] = turn[0]
      BY <1>3, <1>12, <2>2 DEF Meeting
    <3>2. Awaited(j)'
      BY <1>8, <1>10, <1>11, <2>2, <3>1 DEF Awaited
    <3> QED
      BY <3>2 DEF Connected
  <2> QED
    BY <1>4, <2>1, <2>2
<1>14. LinksGrow(w)
  BY <1>2, <1>3, <1>10, <1>13 DEF LinksGrow
<1>15. EnteredGrow(w) /\ Returns /\ Stays(w)
  BY <1>1, <1>3 DEF EnteredGrow, Returns, Stays, Awaited, Parts, Ends
<1>16. DataGrow
  BY <1>1, <1>3 DEF DataGrow, Parts
<1>17. Types'
  <2>1. SchedTypes'
    BY <1>1, <1>3 DEF SchedTypes, Block
  <2>2. StorageTypes'
    BY <1>1, <1>3, <1>10, <1>11 DEF StorageTypes
  <2>3. NetTypes'
    BY <1>1, <1>3, <1>7 DEF NetTypes
  <2> QED
    BY <2>1, <2>2, <2>3 DEF Types
<1>18. Queue(w)'
  <2>1. FirstKept /\ work'[w] = work[w]
    BY <1>3 DEF FirstKept
  <2> QED
    BY <1>1, <1>3, <1>8, <2>1, QueueSame
<1>19. Phase(w)'
  BY <1>8, <1>10, <1>11 DEF Phase
<1>20. Dialog(w)'
  <2>1. CASE Heard(w)
    <3>1. Quiet(w)'
      BY <1>3, <1>7, <1>12, <2>1 DEF Quiet, Heard
    <3> QED
      BY <1>8, <1>11, <3>1 DEF Dialog, Linked
  <2>2. CASE Meeting(w) /\ k = turn[0] /\ spc[0] = "meet"
    <3>1. hellos'.c[w] = <<j>> /\ requests'[w] = <<>> /\ replies'[w] = 0
      BY <1>2, <1>3, <1>7, <2>2 DEF Meeting
    <3>2. InProgress(w)' /\ spc'[0] = "meet" /\ Fresh(j)' /\ turn'[0] = k
      BY <1>2, <1>3, <1>12, <2>2 DEF Meeting, Unlinked
    <3>3. Met(w)'
      BY <1>7, <1>8, <1>10, <1>11, <3>1, <3>2 DEF Met
    <3> QED
      BY <1>8, <1>11, <3>3 DEF Dialog
  <2> QED
    BY <1>4, <2>1, <2>2
<1> QED
  BY <1>9, <1>14, <1>15, <1>16, <1>17, <1>18, <1>19, <1>20, WorkerInv

\* listen() takes up a job: it has no connection yet
LEMMA EnterJobInv == ASSUME Inv, NEW w \in Workers, EnterJob(w) PROVE Inv'
<1>1. /\ Types /\ SchedTypes /\ StorageTypes /\ NetTypes /\ Dialog(w) /\ Queue(w) /\ Parts /\ Ends
      /\ Clients /\ Served
  BY DEF Inv, Types, Dialogs, Queues
<1>2. PICK j : j = Job(w)
  OBVIOUS
<1>3. /\ pc[w] = "listen" /\ work[w] # <<>> /\ pc' = [pc EXCEPT ![w] = "enter"]
      /\ entered' = [entered EXCEPT ![j] = @ \cup {w}]
      /\ UNCHANGED <<first, answered, stopped, work, linkC, received, reduced, totals,
                     buffered, orders, spc, turn, linkS, sent, requests, replies, hellos>>
  BY <1>2 DEF EnterJob, schedVars, serverVars, netVars
<1>4. j \in Jobs /\ j \in DOMAIN first /\ w \in Block(j) /\ w \notin entered[j]
  BY <1>1, <1>2, <1>3, JobFacts
<1>5. pc'[w] = "enter" /\ \A v \in Workers \ {w} : pc'[v] = pc[v]
  BY <1>1, <1>3, WorkerTypes
<1>6. /\ entered'[j] = entered[j] \cup {w} /\ \A i \in Jobs \ {j} : entered'[i] = entered[i]
      /\ entered' \in [Jobs -> SUBSET Workers]
  BY <1>1, <1>3, <1>4 DEF SchedTypes
<1>7. Elsewhere(w) /\ ServerFrame
  BY <1>3, <1>5 DEF Elsewhere, ServerFrame
<1>8. LinksGrow(w) /\ Returns /\ DataGrow
  BY <1>1, <1>3 DEF LinksGrow, Returns, DataGrow, Parts, Ends
<1>9. EnteredGrow(w)
  BY <1>1, <1>4, <1>6 DEF EnteredGrow, Parts
<1>10. Stays(w)
  BY <1>3 DEF Stays, Awaited
<1>11. Types'
  BY <1>1, <1>3, <1>5, <1>6 DEF Types, SchedTypes, StorageTypes, NetTypes, Block
<1>12. Phase(w)'
  BY <1>5 DEF Phase
<1>13. Queue(w)'
  <2>1. PICK m \in Nat : m = Len(work[w]) /\ work[w] \in Seq(Jobs)
    BY <1>1, LenProperties DEF SchedTypes
  <2>2. Head(work[w]) = work[w][1] /\ work[w][1] = j /\ 1 \in 1 .. m
    BY <1>2, <1>3, <2>1 DEF Job
  <2>3. ASSUME NEW i \in 1 .. m
        PROVE  /\ work'[w][i] \in DOMAIN first /\ w \in Block(work'[w][i])
               /\ w \in entered'[work'[w][i]] <=> i = 1
               /\ \A k \in 1 .. m : i < k => work'[w][i] < work'[w][k]
    <3>1. /\ work[w][i] \in DOMAIN first /\ w \in Block(work[w][i])
          /\ ~(w \in entered[work[w][i]])
          /\ \A k \in 1 .. m : i < k => work[w][i] < work[w][k]
      BY <1>1, <1>3, <2>1 DEF Queue
    <3>2. CASE i = 1
      BY <1>3, <1>6, <2>2, <3>1, <3>2
    <3>3. CASE i # 1
      <4>1. work[w][1] < work[w][i] /\ work[w][i] \in Jobs
        BY <1>1, <2>1, <2>2, <3>3 DEF Queue
      <4>2. work[w][i] # j
        BY <2>2, <4>1 DEF Jobs
      <4>3. entered'[work[w][i]] = entered[work[w][i]]
        BY <1>6, <4>1, <4>2
      <4> QED
        BY <1>3, <3>1, <3>3, <4>3
    <3> QED
      BY <3>2, <3>3
  <2> QED
    BY <1>3, <1>5, <2>1, <2>3 DEF Queue, Block
<1>14. Dialog(w)'
  <2>1. Quiet(w)
    BY <1>1, <1>3, DialogCases
  <2>2. InProgress(w)' = InProgress(w) /\ \A i : Fresh(i)' = Fresh(i)
    BY <1>7, SamePlace
  <2>3. Quiet(w)'
    BY <1>3, <2>1, <2>2 DEF Quiet
  <2>4. CASE Leader(w)
    <3>1. first[j] = w
      BY <1>2, <2>4 DEF Leader
    <3>2. j \notin DOMAIN linkC /\ Fresh(j)
      BY <1>1, <1>4, <3>1 DEF Clients, Served, Fresh
    <3>3. Unlinked(Job(w))'
      BY <1>2, <1>3, <2>2, <3>2 DEF Unlinked, Job
    <3>4. Entering(w)'
      BY <1>5, <2>3, <3>3 DEF Entering
    <3> QED
      BY <2>3, <3>4 DEF Dialog
  <2>5. CASE ~Leader(w)
    <3>1. ~Leader(w)'
      BY <1>3, <2>5 DEF Leader, Job
    <3> QED
      BY <2>3, <3>1 DEF Dialog
  <2> QED
    BY <2>4, <2>5
<1> QED
  BY <1>7, <1>8, <1>9, <1>10, <1>11, <1>12, <1>13, <1>14, WorkerInv

\* data comes only through a connection that the storage group has, too
LEMMA ReceiveDataInv == ASSUME Inv, NEW w \in Workers, ReceiveData(w) PROVE Inv'
<1>1. /\ Types /\ SchedTypes /\ StorageTypes /\ NetTypes /\ Dialog(w) /\ Queue(w) /\ Parts /\ Ends
      /\ Counts /\ Phase(w)
  BY DEF Inv, Types, Dialogs, Queues, Phases
<1>2. PICK j : j = Job(w)
  OBVIOUS
<1>3. PICK m : m = <<linkC[j], w - first[j]>>
  OBVIOUS
<1>4. /\ pc[w] = "data" /\ m \in sent /\ pc' = [pc EXCEPT ![w] = "reduce"]
      /\ received' = received \cup {m}
      /\ reduced' = [reduced EXCEPT ![j] = @ \cup {w}]
      /\ UNCHANGED <<first, answered, stopped, work, entered, linkC, totals,
                     buffered, orders, spc, turn, linkS, sent, requests, replies, hellos>>
  BY <1>2, <1>3 DEF ReceiveData, Number, schedVars, serverVars, netVars
<1>5. j \in Jobs /\ j \in DOMAIN first /\ j \in DOMAIN linkC
  BY <1>1, <1>2, <1>4, BusyHasJob DEF Phase
<1>6. linkC[j] \in 1 .. Len(linkS) /\ ~(InProgress(w) /\ linkC[j] = turn[0])
  <2>1. m[1] = linkC[j] /\ m[1] \in 1 .. Len(linkS)
    BY <1>1, <1>3, <1>4 DEF Parts
  <2>2. InProgress(w) => turn[0] = Len(linkS) + 1
    BY <1>1 DEF InProgress, Counts
  <2>3. Len(linkS) \in Nat
    BY <1>1, LinkCount
  <2> QED
    BY <2>1, <2>2, <2>3
<1>7. pc'[w] = "reduce" /\ \A v \in Workers \ {w} : pc'[v] = pc[v]
  BY <1>1, <1>4, WorkerTypes
<1>8. /\ reduced'[j] = reduced[j] \cup {w} /\ \A i \in Jobs \ {j} : reduced'[i] = reduced[i]
      /\ reduced' \in [Jobs -> SUBSET Workers]
  BY <1>1, <1>4, <1>5 DEF SchedTypes
<1>9. Elsewhere(w) /\ ServerFrame
  BY <1>4, <1>7 DEF Elsewhere, ServerFrame
<1>10. LinksGrow(w) /\ EnteredGrow(w)
  BY <1>1, <1>4 DEF LinksGrow, EnteredGrow, Parts
<1>11. Stays(w)
  <2> SUFFICES ASSUME NEW i \in DOMAIN linkC, first[i] = w, Awaited(i) PROVE FALSE
    BY DEF Stays
  <2>1. InProgress(w) /\ Job(w) = i /\ linkC[i] = turn[0]
    BY DEF Awaited
  <2> QED
    BY <1>2, <1>6, <2>1
<1>12. DataGrow
  <2>1. received \subseteq received' /\ received' \subseteq sent
    BY <1>1, <1>4 DEF Parts
  <2>2. ASSUME NEW i \in Jobs, NEW v \in reduced'[i] \ reduced[i]
        PROVE  i \in DOMAIN linkC' /\ <<linkC'[i], v - first[i]>> \in received'
    <3>1. i = j /\ v = w
      BY <1>8
    <3> QED
      BY <1>3, <1>4, <1>5, <3>1
  <2>3. \A i \in Jobs : reduced[i] \subseteq reduced'[i]
    BY <1>8
  <2> QED
    BY <2>1, <2>2, <2>3 DEF DataGrow
<1>13. Returns
  <2>1. \A i \in DOMAIN first : i \in Jobs /\ reduced[i] \subseteq reduced'[i]
    BY <1>1, <1>8, FirstFacts
  <2>2. answered \subseteq DOMAIN first /\ totals \subseteq DOMAIN first
    BY <1>1 DEF SchedTypes
  <2>3. \A i \in answered : reduced[i] # {}
    BY <1>1 DEF Ends
  <2>4. \A i \in totals : Block(i) \subseteq reduced[i]
    BY <1>1 DEF Ends
  <2>5. \A i \in answered : reduced'[i] # {}
    BY <2>1, <2>2, <2>3
  <2>6. \A i \in totals : Block(i) \subseteq reduced'[i]
    BY <2>1, <2>2, <2>4
  <2> QED
    BY <1>4, <2>5, <2>6 DEF Returns
<1>14. Types'
  BY <1>1, <1>4, <1>7, <1>8 DEF Types, SchedTypes, StorageTypes, NetTypes, Block
<1>15. Phase(w)'
  <2>1. Job(w)' = j
    BY <1>2, <1>4 DEF Job
  <2> QED
    BY <1>4, <1>5, <1>8, <2>1 DEF Phase
<1>16. Queue(w)'
  <2>1. FirstKept /\ work'[w] = work[w]
    BY <1>4 DEF FirstKept
  <2> QED
    BY <1>1, <1>4, <1>7, <2>1, QueueSame
<1>17. Dialog(w)'
  <2>1. Quiet(w)
    <3>1. ~Met(w)
      BY <1>2, <1>6 DEF Met
    <3>2. Leader(w) => Linked(w)
      BY <1>1, <1>4, <3>1, DialogCases
    <3> QED
      BY <1>1, <3>2, DialogCases DEF Linked
  <2>2. InProgress(w)' = InProgress(w)
    BY <1>9, SamePlace
  <2>3. Quiet(w)'
    BY <1>4, <2>1, <2>2 DEF Quiet
  <2> QED
    BY <1>7, <2>3 DEF Dialog, Linked
<1> QED
  BY <1>9, <1>10, <1>11, <1>12, <1>13, <1>14, <1>15, <1>16, <1>17, WorkerInv

\* the leader returns with everybody's part
LEMMA ReturnFromJobInv == ASSUME Inv, NEW w \in Workers, ReturnFromJob(w) PROVE Inv'
<1>1. /\ Types /\ SchedTypes /\ StorageTypes /\ NetTypes /\ Dialog(w) /\ Queue(w) /\ Parts /\ Ends
      /\ Phase(w)
  BY DEF Inv, Types, Dialogs, Queues, Phases
<1>2. PICK j : j = Job(w)
  OBVIOUS
<1>3. /\ pc[w] = "reduce" /\ (Leader(w) => reduced[j] = Block(j))
      /\ totals' = IF Leader(w) THEN totals \cup {j} ELSE totals
      /\ answered' = answered \cup {j}
      /\ work' = [work EXCEPT ![w] = Tail(@)]
      /\ pc' = [pc EXCEPT ![w] = "listen"]
      /\ UNCHANGED <<first, stopped, entered, linkC, received, reduced,
                     buffered, orders, spc, turn, linkS, sent, requests, replies, hellos>>
  BY <1>2 DEF ReturnFromJob, Reduced, serverVars, netVars
<1>4. j \in Jobs /\ j \in DOMAIN first /\ w \in reduced[j] /\ work[w] # <<>>
  BY <1>1, <1>2, <1>3, BusyHasJob DEF Phase
<1>5. pc'[w] = "listen" /\ \A v \in Workers \ {w} : pc'[v] = pc[v]
  BY <1>1, <1>3, WorkerTypes
<1>6. PICK m \in Nat : m + 1 = Len(work[w]) /\ work[w] \in Seq(Jobs)
  <2>1. PICK q \in Seq(Jobs) : q = work[w] /\ q # <<>>
    BY <1>1, <1>4 DEF SchedTypes
  <2>2. Len(q) \in Nat /\ Len(q) # 0
    BY <2>1
  <2>3. Len(q) - 1 \in Nat /\ (Len(q) - 1) + 1 = Len(q)
    BY <2>2
  <2> QED
    BY <2>1, <2>3
<1>7. /\ work'[w] \in Seq(Jobs) /\ Len(work'[w]) = m
      /\ \A i \in 1 .. m : work'[w][i] = work[w][i + 1]
  <2>1. PICK q \in Seq(Jobs) : q = work[w] /\ q # <<>> /\ Len(q) = m + 1
    BY <1>4, <1>6
  <2>2. Tail(q) \in Seq(Jobs) /\ Len(Tail(q)) = m /\ \A i \in 1 .. m : Tail(q)[i] = q[i + 1]
    BY <2>1
  <2>3. work'[w] = Tail(q)
    BY <1>1, <1>3, <2>1 DEF SchedTypes
  <2> QED
    BY <2>1, <2>2, <2>3
<1>8. work' \in [Workers -> Seq(Jobs)] /\ \A v \in Workers \ {w} : work'[v] = work[v]
  <2>1. Tail(work[w]) \in Seq(Jobs)
    BY <1>1, <1>3, <1>7 DEF SchedTypes
  <2> QED
    BY <1>1, <1>3, <2>1 DEF SchedTypes
<1>9. Elsewhere(w) /\ ServerFrame
  BY <1>3, <1>5, <1>8 DEF Elsewhere, ServerFrame
<1>10. LinksGrow(w) /\ EnteredGrow(w) /\ DataGrow
  BY <1>1, <1>3 DEF LinksGrow, EnteredGrow, DataGrow, Parts
<1>11. Stays(w)
  BY <1>3 DEF Stays, Awaited
<1>12. Returns
  <2>1. (\A i \in answered : reduced[i] # {}) /\ (\A i \in totals : Block(i) \subseteq reduced[i])
    BY <1>1 DEF Ends
  <2>2. \A i \in answered \cup {j} : reduced[i] # {}
    BY <1>4, <2>1
  <2>3. \A i \in totals' : Block(i) \subseteq reduced[i]
    BY <1>3, <2>1
  <2> QED
    BY <1>3, <2>2, <2>3 DEF Returns
<1>13. Types'
  <2>1. answered' \subseteq DOMAIN first /\ totals' \subseteq DOMAIN first
    BY <1>1, <1>3, <1>4 DEF SchedTypes
  <2>2. SchedTypes'
    BY <1>1, <1>3, <1>8, <2>1 DEF SchedTypes, Block
  <2> QED
    BY <1>1, <1>3, <2>2 DEF Types, StorageTypes, NetTypes
<1>14. Phase(w)'
  BY <1>5 DEF Phase
<1>15. Queue(w)'
  <2>1. ASSUME NEW i \in 1 .. m
        PROVE  /\ work'[w][i] \in DOMAIN first' /\ w \in Block(work'[w][i])
               /\ ~(w \in entered'[work'[w][i]])
               /\ \A k \in 1 .. m : i < k => work'[w][i] < work'[w][k]
    <3>1. i + 1 \in 1 .. Len(work[w]) /\ i + 1 # 1
      BY <1>6
    <3>2. /\ work[w][i + 1] \in DOMAIN first /\ w \in Block(work[w][i + 1])
          /\ ~(w \in entered[work[w][i + 1]])
          /\ \A k \in 1 .. Len(work[w]) : i + 1 < k => work[w][i + 1] < work[w][k]
      BY <1>1, <3>1 DEF Queue
    <3>3. ASSUME NEW k \in 1 .. m, i < k PROVE work'[w][i] < work'[w][k]
      <4>1. k + 1 \in 1 .. Len(work[w]) /\ i + 1 < k + 1
        BY <1>6, <3>3
      <4> QED
        BY <1>7, <3>2, <4>1
    <3> QED
      BY <1>3, <1>7, <3>2, <3>3
  <2> QED
    BY <1>3, <1>5, <1>7, <2>1 DEF Queue, Block
<1>16. Dialog(w)'
  <2>1. Quiet(w)
    BY <1>1, <1>3, DialogCases DEF Linked
  <2>2. InProgress(w)' = InProgress(w)
    BY <1>9, SamePlace
  <2>3. Quiet(w)'
    BY <1>3, <2>1, <2>2 DEF Quiet
  <2> QED
    BY <1>5, <2>3 DEF Dialog
<1> QED
  BY <1>9, <1>10, <1>11, <1>12, <1>13, <1>14, <1>15, <1>16, WorkerInv

LEMMA WorkerStepInv == ASSUME Inv, NEW w \in Workers, Worker(w) PROVE Inv'
BY EnterJobInv, RequestInv, TakeReplyInv, FollowInv, MeetServerInv, ReceiveDataInv,
   ReturnFromJobInv DEF Worker

-----------------------------------------------------------------------------
(* The storage group                                                        *)

ComputeFrame ==
    UNCHANGED <<first, answered, stopped, work, pc, entered, linkC, received, reduced, totals,
                buffered>>

\* the ranks of the storage group that have a connection, and what was sent
PartsNext ==
    /\ sent \subseteq sent' /\ \A m \in sent' : m[1] \in 1 .. Len(linkS')
    /\ \A s \in Servers : spc'[s] \in {"send", "sent"} => turn'[s] \in 1 .. Len(linkS')

StopNext == requests'[0] = requests[0] /\ (spc'[0] = "done" => stopped)

LEMMA ServerInv ==
    ASSUME Inv, ComputeFrame, StorageTypes', NetTypes', LinksKept, Dialogs',
           \A j \in DOMAIN linkC : Awaited(j) => Connected(j)',
           Served', Counts', PartsNext, StopNext
    PROVE  Inv'
<1>1. /\ Types /\ SchedTypes /\ StorageTypes /\ Queues /\ Clients /\ Phases /\ Parts /\ Ends
  BY DEF Inv, Types
<1>2. UNCHANGED <<first, answered, stopped, work, pc, entered, linkC, received, reduced, totals,
                  buffered>>
  BY DEF ComputeFrame
<1>3. SchedTypes' /\ Queues' /\ Phases'
  BY <1>1, <1>2 DEF SchedTypes, Block, Queues, Queue, Phases, Phase, Job
<1>4. Clients'
  <2> SUFFICES ASSUME NEW j \in DOMAIN linkC PROVE Connected(j)' /\ first[j] \in entered[j]
    BY <1>2 DEF Clients
  <2>1. Connected(j) /\ first[j] \in entered[j]
    BY <1>1 DEF Clients
  <2>2. CASE linkC[j] \in 1 .. Len(linkS) /\ linkS[linkC[j]] = j
    <3>1. Len(linkS) \in Nat /\ LinksKept /\ linkC' = linkC
      BY <1>1, <1>2, LinkCount
    <3>2. StorageTypes' => Len(linkS') \in Nat
      BY LenProperties DEF StorageTypes
    <3>3. linkC'[j] \in 1 .. Len(linkS') /\ linkS'[linkC'[j]] = j
      BY <2>2, <3>1, <3>2 DEF LinksKept
    <3> QED
      BY <2>1, <3>3 DEF Connected
  <2>3. CASE Awaited(j)
    BY <2>1, <2>3
  <2> QED
    BY <2>1, <2>2, <2>3 DEF Connected
<1>5. Parts'
  BY <1>1, <1>2 DEF Parts, PartsNext
<1>6. Ends'
  BY <1>1, <1>2 DEF Ends, StopNext, Block
<1> QED
  BY <1>3, <1>4, <1>5, <1>6 DEF Inv, Types

LEMMA ApartFromServer ==
    ASSUME ComputeFrame, NEW v \in Workers, requests'[v] = requests[v], replies'[v] = replies[v],
           hellos'.s[v] = hellos.s[v], hellos'.c[v] = hellos.c[v]
    PROVE  Apart(v)
BY DEF ComputeFrame, Apart

\* the steps in which a storage rank neither talks to a worker nor gets a connection
LEMMA AloneInv ==
    ASSUME Inv, ComputeFrame, UNCHANGED <<requests, replies, hellos, linkS>>, StorageTypes',
           Counts', PartsNext, StopNext,
           ServerSame \/ (spc[0] \notin {"create", "meet"} /\ spc'[0] \notin {"create", "meet"})
    PROVE  Inv'
<1>1. /\ StorageTypes /\ NetTypes /\ Dialogs /\ Served
      /\ Len(linkS) \in Nat /\ Len(linkS') \in Nat /\ LinksKept
  BY LinkCount, SameLinks DEF Inv, Types
<1>2. Dialogs'
  <2> SUFFICES ASSUME NEW w \in Workers PROVE Dialog(w)'
    BY DEF Dialogs
  <2>1. Dialog(w) /\ Apart(w)
    BY <1>1, ApartFromServer DEF Dialogs
  <2>2. CASE ServerSame
    BY <2>1, <2>2, DialogSame
  <2>3. CASE spc[0] \notin {"create", "meet"} /\ spc'[0] \notin {"create", "meet"}
    <3>1. ~InProgress(w) /\ ~InProgress(w)'
      BY <2>3 DEF InProgress
    <3>2. Fresh(Job(w)) => Fresh(Job(w))'
      BY DEF Fresh, ComputeFrame, Job
    <3> QED
      BY <1>1, <2>1, <3>1, <3>2, DialogKept
  <2> QED
    BY <2>2, <2>3
<1>3. ASSUME NEW j \in DOMAIN linkC, Awaited(j) PROVE Connected(j)'
  <2>1. InProgress(first[j])
    BY <1>3 DEF Awaited
  <2>2. ServerSame
    BY <2>1 DEF InProgress
  <2>3. Awaited(j)'
    BY <1>3, <2>2 DEF Awaited, ServerSame, InProgress, ComputeFrame, Job
  <2> QED
    BY <2>3 DEF Connected
<1>4. Served' /\ NetTypes'
  BY <1>1 DEF Served, NetTypes, ComputeFrame
<1> QED
  BY <1>1, <1>2, <1>3, <1>4, ServerInv

\* the workers that the storage leader does not deal with in this step
LEMMA OthersInv ==
    ASSUME Inv, ComputeFrame, NEW w \in Workers, Dialog(w)', LinksKept, StorageTypes',
           \A v \in Workers \ {w} :
               /\ requests'[v] = requests[v] /\ replies'[v] = replies[v]
               /\ hellos'.s[v] = hellos.s[v] /\ hellos'.c[v] = hellos.c[v]
               /\ ~InProgress(v) /\ ~InProgress(v)'
               /\ pc[v] # "listen" /\ Leader(v) /\ Fresh(Job(v)) => Fresh(Job(v))'
    PROVE  Dialogs'
<1> SUFFICES ASSUME NEW v \in Workers, v # w PROVE Dialog(v)'
  BY DEF Dialogs
<1>1. Dialog(v) /\ Apart(v)
  BY ApartFromServer DEF Inv, Dialogs
<1>2. Len(linkS) \in Nat
  BY LinkCount DEF Inv, Types
<1>3. Len(linkS') \in Nat
  BY LenProperties DEF StorageTypes
<1> QED
  BY <1>1, <1>2, <1>3, DialogKept

\* orders are appended one by one
LEMMA OneMore ==
    ASSUME NEW S, NEW q \in Seq(S), NEW x \in S
    PROVE  /\ q \o <<x>> = Append(q, x) /\ Append(q, x) \in Seq(S)
           /\ Len(Append(q, x)) = Len(q) + 1 /\ Append(q, x)[Len(q) + 1] = x
           /\ \A i \in 1 .. Len(q) : Append(q, x)[i] = q[i]
           /\ Len(q) \in Nat
BY AppendProperties, AppendIsConcat, LenProperties

\* a request comes from the leader of a job that waits for the answer
LEMMA TakeRequestInv ==
    ASSUME Inv, NEW r \in 0 .. NumWorkers, TakeRequest(r)
    PROVE  Inv'
<1>1. Types /\ StorageTypes /\ NetTypes /\ Dialogs /\ Served /\ Counts /\ Parts /\ Ends
  BY DEF Inv, Types
<1>2. /\ spc[0] = "loop" /\ requests[r] # <<>> /\ Head(requests[r]) = "init"
      /\ requests' = [requests EXCEPT ![r] = Tail(@)]
      /\ orders' = Append(orders, r)
      /\ replies' = [replies EXCEPT ![r] = @ + 1]
      /\ turn' = [turn EXCEPT ![0] = @ + 1]
      /\ spc' = [spc EXCEPT ![0] = "create"]
      /\ ComputeFrame /\ UNCHANGED <<linkS, sent, hellos>>
  BY DEF TakeRequest, schedVars, computeVars, ComputeFrame
<1>3. r \in Workers
  <2>1. r # 0
    BY <1>1, <1>2 DEF Ends
  <2> QED
    BY <2>1, Constants DEF Workers
<1>4. Asking(r)
  <2>1. Dialog(r) /\ ~Quiet(r)
    BY <1>1, <1>2, <1>3 DEF Dialogs, Quiet
  <2>2. pc[r] # "listen" /\ Leader(r)
    BY <2>1 DEF Dialog
  <2>3. ~Entering(r) /\ ~Answering(r) /\ ~Meeting(r) /\ ~Heard(r) /\ ~Met(r) /\ ~Linked(r)
    BY <1>2, <2>1 DEF Entering, Answering, Meeting, Heard, Met, Linked
  <2> QED
    BY <2>1, <2>2, <2>3 DEF Dialog
<1>5. /\ requests[r] = <<"init">> /\ replies[r] = 0 /\ pc[r] = "await" /\ Unlinked(Job(r))
      /\ hellos.s[r] = <<>> /\ hellos.c[r] = <<>> /\ pc[r] # "listen" /\ Leader(r)
  <2>1. Leader(r)
    BY <1>1, <1>3, <1>4 DEF Dialogs, Dialog, Quiet, Asking
  <2> QED
    BY <1>4, <2>1 DEF Asking
<1>6. Tail(requests[r]) = <<>>
  BY <1>5
<1>7. PICK n \in Nat : n = turn[0] /\ n = Len(orders) /\ n = Len(linkS)
  BY <1>1, <1>2, LinkCount DEF Counts
<1>8. /\ spc'[0] = "create" /\ turn'[0] = n + 1
      /\ \A s \in Servers \ {0} : spc'[s] = spc[s] /\ turn'[s] = turn[s]
  BY <1>1, <1>2, <1>7, Constants DEF StorageTypes
<1>9. /\ orders' \in Seq(0 .. NumWorkers) /\ Len(orders') = n + 1 /\ orders'[n + 1] = r
  <2>1. orders \in Seq(0 .. NumWorkers)
    BY <1>1 DEF StorageTypes
  <2>2. PICK q \in Seq(0 .. NumWorkers) : q = orders
    BY <2>1
  <2>3. orders' = Append(q, r) /\ n = Len(q)
    BY <1>2, <1>7, <2>2
  <2> QED
    BY <2>3, OneMore
<1>10. /\ requests'[r] = <<>> /\ replies'[r] = 1
       /\ \A v \in Workers \ {r} : requests'[v] = requests[v] /\ replies'[v] = replies[v]
       /\ requests'[0] = requests[0]
  BY <1>1, <1>2, <1>3, <1>5, <1>6, Constants DEF NetTypes
<1>11. StorageTypes'
  <2>1. turn' \in [Servers -> Nat]
    BY <1>1, <1>2, <1>7, Constants DEF StorageTypes
  <2>2. spc' \in [Servers -> {"loop", "create", "meet", "send", "sent", "done"}]
    BY <1>1, <1>2 DEF StorageTypes
  <2> QED
    BY <1>1, <1>2, <1>9, <2>1, <2>2 DEF StorageTypes, ComputeFrame
<1>12. NetTypes'
  <2>1. requests' \in [0 .. NumWorkers -> Seq({"init", "stop"})]
    <3>1. <<>> \in Seq({"init", "stop"}) /\ requests' = [requests EXCEPT ![r] = <<>>]
      BY <1>2, <1>6, EmptySeq
    <3> QED
      BY <1>1, <3>1 DEF NetTypes
  <2>2. replies' \in [Workers -> Nat]
    BY <1>1, <1>2, <1>3 DEF NetTypes
  <2> QED
    BY <1>1, <1>2, <2>1, <2>2 DEF NetTypes
<1>13. LinksKept
  BY <1>1, <1>2, LinkCount, SameLinks
<1>14. \A v \in Workers \ {r} : ~InProgress(v) /\ ~InProgress(v)'
  BY <1>2, <1>8, <1>9 DEF InProgress
<1>15. InProgress(r)' /\ Hello' = <<>>
  BY <1>8, <1>9 DEF InProgress, Hello
<1>16. \A j : Fresh(j) => Fresh(j)'
  BY <1>2 DEF Fresh
<1>17. Dialog(r)'
  <2>1. Leader(r)' /\ Job(r)' = Job(r) /\ pc'[r] = "await"
    BY <1>2, <1>5 DEF ComputeFrame, Leader, Job
  <2>2. Unlinked(Job(r))'
    BY <1>2, <1>5, <1>16 DEF Unlinked, ComputeFrame, Job
  <2>3. hellos'.s[r] = <<>> /\ hellos'.c[r] = <<>>
    BY <1>2, <1>5
  <2>4. Answering(r)'
    BY <1>10, <1>15, <2>1, <2>2, <2>3 DEF Answering
  <2> QED
    BY <2>1, <2>4 DEF Dialog
<1>18. Dialogs'
  <2>1. ASSUME NEW v \in Workers \ {r}
        PROVE  /\ requests'[v] = requests[v] /\ replies'[v] = replies[v]
               /\ hellos'.s[v] = hellos.s[v] /\ hellos'.c[v] = hellos.c[v]
               /\ ~InProgress(v) /\ ~InProgress(v)'
               /\ pc[v] # "listen" /\ Leader(v) /\ Fresh(Job(v)) => Fresh(Job(v))'
    <3>1. Fresh(Job(v)) => Fresh(Job(v))'
      BY <1>2 DEF Fresh, ComputeFrame, Job
    <3> QED
      BY <1>2, <1>10, <1>14, <3>1
  <2> QED
    BY <1>2, <1>3, <1>11, <1>13, <1>17, <2>1, OthersInv
<1>19. Counts'
  <2>1. \A k \in 1 .. Len(linkS) : <<k, 0>> \in sent
    BY <1>1, <1>2 DEF Counts
  <2> QED
    BY <1>2, <1>3, <1>7, <1>8, <1>9, <2>1 DEF Counts
<1>20. PartsNext
  BY <1>1, <1>2, <1>8 DEF Parts, PartsNext
<1>21. \A j \in DOMAIN linkC : ~Awaited(j)
  BY <1>2 DEF Awaited, InProgress
<1>22. Served'
  BY <1>1, <1>2 DEF Served, ComputeFrame
<1> QED
  BY <1>2, <1>8, <1>10, <1>11, <1>12, <1>13, <1>18, <1>19, <1>20, <1>21, <1>22, ServerInv
  DEF StopNext

\* only the controller sends the stop message
LEMMA TakeStopInv ==
    ASSUME Inv, NEW r \in 0 .. NumWorkers, TakeStop(r)
    PROVE  Inv'
<1>1. Types /\ StorageTypes /\ NetTypes /\ Dialogs /\ Counts /\ Parts /\ Ends
  BY DEF Inv, Types
<1>2. /\ spc[0] = "loop" /\ requests[r] # <<>> /\ Head(requests[r]) = "stop"
      /\ orders' = orders \o <<0>>
      /\ turn' = [turn EXCEPT ![0] = @ + 1]
      /\ spc' = [spc EXCEPT ![0] = "done"]
      /\ ComputeFrame /\ UNCHANGED <<linkS, sent, requests, replies, hellos>>
  BY DEF TakeStop, StopOrder, schedVars, computeVars, netVars, ComputeFrame
<1>3. stopped
  <2>1. ASSUME r \in Workers PROVE FALSE
    <3>1. requests[r] # <<"init">>
      BY <1>2
    <3> QED
      BY <1>1, <1>2, <2>1, <3>1
      DEF Dialogs, Dialog, Quiet, Entering, Asking, Answering, Meeting, Heard, Met, Linked
  <2>2. r = 0
    BY <2>1, Constants DEF Workers
  <2> QED
    BY <1>1, <1>2, <2>2 DEF Ends
<1>4. PICK n \in Nat : n = turn[0] /\ n = Len(orders)
  BY <1>1, LinkCount DEF Counts
<1>5. /\ spc'[0] = "done" /\ turn'[0] = n + 1
      /\ \A s \in Servers \ {0} : spc'[s] = spc[s] /\ turn'[s] = turn[s]
  BY <1>1, <1>2, <1>4, Constants DEF StorageTypes
<1>6. orders' \in Seq(0 .. NumWorkers) /\ Len(orders') = n + 1
  <2>1. 0 \in 0 .. NumWorkers /\ orders \in Seq(0 .. NumWorkers)
    BY <1>1, Constants DEF StorageTypes
  <2> QED
    BY <1>2, <1>4, <2>1, OneMore
<1>7. StorageTypes'
  <2>1. turn' \in [Servers -> Nat]
    BY <1>1, <1>2, <1>4, Constants DEF StorageTypes
  <2>2. spc' \in [Servers -> {"loop", "create", "meet", "send", "sent", "done"}]
    BY <1>1, <1>2 DEF StorageTypes
  <2> QED
    BY <1>1, <1>2, <1>6, <2>1, <2>2 DEF StorageTypes, ComputeFrame
<1>8. Counts'
  <2>1. \A k \in 1 .. Len(linkS) : <<k, 0>> \in sent
    BY <1>1, <1>2 DEF Counts
  <2> QED
    BY <1>2, <1>5, <1>6, <2>1 DEF Counts
<1>9. PartsNext
  BY <1>1, <1>2, <1>5 DEF Parts, PartsNext
<1> QED
  BY <1>2, <1>3, <1>5, <1>7, <1>8, <1>9, AloneInv DEF StopNext

\* one half of the handshake
LEMMA MeetJobInv == Inv /\ MeetJob => Inv'
<1> SUFFICES ASSUME Inv, MeetJob PROVE Inv'
  OBVIOUS
<1>1. Types /\ StorageTypes /\ NetTypes /\ Dialogs /\ Served /\ Counts /\ Parts /\ Ends
  BY DEF Inv, Types
<1>2. PICK w \in Workers : w = orders[turn[0]] /\ spc[0] = "create"
  BY <1>1 DEF MeetJob, Counts
<1>3. /\ hellos' = [hellos EXCEPT !.s[w] = Append(@, turn[0])]
      /\ spc' = [spc EXCEPT ![0] = "meet"]
      /\ ComputeFrame /\ UNCHANGED <<orders, turn, linkS, sent, requests, replies>>
  BY <1>2 DEF MeetJob, schedVars, computeVars, ComputeFrame
<1>4. InProgress(w) /\ Hello = <<>>
  BY <1>2 DEF InProgress, Hello
<1>5. /\ pc[w] # "listen" /\ Leader(w) /\ Dialog(w) /\ (Answering(w) \/ Meeting(w))
      /\ hellos.s[w] = <<>>
  <2>1. Dialog(w) /\ ~Quiet(w)
    BY <1>1, <1>4 DEF Dialogs, Quiet
  <2>2. pc[w] # "listen" /\ Leader(w)
    BY <2>1 DEF Dialog
  <2>3. ~Entering(w) /\ ~Asking(w) /\ ~Heard(w) /\ ~Met(w) /\ ~Linked(w)
    BY <1>2, <1>4, <2>1 DEF Entering, Asking, Heard, Met, Linked
  <2>4. Answering(w) \/ Meeting(w)
    BY <2>1, <2>2, <2>3 DEF Dialog
  <2> QED
    BY <1>4, <2>1, <2>2, <2>4 DEF Answering, Meeting
<1>6. turn[0] \in Nat /\ turn'[0] = turn[0] /\ spc'[0] = "meet"
      /\ \A s \in Servers \ {0} : spc'[s] = spc[s]
  BY <1>1, <1>3, Constants DEF StorageTypes
<1>7. hellos' = [s |-> [hellos.s EXCEPT ![w] = <<turn[0]>>], c |-> hellos.c]
  <2>1. Append(hellos.s[w], turn[0]) = <<turn[0]>>
    BY <1>5
  <2> QED
    BY <1>1, <1>3, <2>1 DEF NetTypes
<1>8. /\ hellos'.s[w] = <<turn[0]>> /\ hellos'.c = hellos.c
      /\ \A v \in Workers \ {w} : hellos'.s[v] = hellos.s[v]
  BY <1>1, <1>7 DEF NetTypes
<1>9. NetTypes'
  <2>1. <<turn[0]>> \in Seq(Nat)
    BY <1>6, One
  <2>2. [hellos.s EXCEPT ![w] = <<turn[0]>>] \in [Workers -> Seq(Nat)]
    BY <1>1, <2>1 DEF NetTypes
  <2>3. hellos' = [s |-> hellos'.s, c |-> hellos'.c] /\ hellos'.s \in [Workers -> Seq(Nat)]
    BY <1>7, <2>2
  <2> QED
    BY <1>1, <1>3, <1>8, <2>3 DEF NetTypes
<1>10. StorageTypes'
  <2>1. spc' \in [Servers -> {"loop", "create", "meet", "send", "sent", "done"}]
    BY <1>1, <1>3 DEF StorageTypes
  <2> QED
    BY <1>1, <1>3, <2>1 DEF StorageTypes, ComputeFrame
<1>11. LinksKept
  BY <1>1, <1>3, LinkCount, SameLinks
<1>12. InProgress(w)' /\ Hello' = <<turn[0]>>
  BY <1>2, <1>3, <1>6 DEF InProgress, Hello
<1>13. Dialog(w)'
  <2>1. Leader(w)' /\ Job(w)' = Job(w) /\ pc'[w] = pc[w] /\ linkC' = linkC
    BY <1>3, <1>5 DEF ComputeFrame, Leader, Job
  <2>2. Unlinked(Job(w)) => Unlinked(Job(w))'
    BY <1>3 DEF Unlinked, Fresh, ComputeFrame, Job
  <2>3. hellos'.c[w] = hellos.c[w] /\ requests'[w] = requests[w] /\ replies'[w] = replies[w]
    BY <1>3, <1>8
  <2>4. Answering(w) => Answering(w)'
    BY <1>8, <1>12, <2>1, <2>2, <2>3 DEF Answering
  <2>5. Meeting(w) => Meeting(w)'
    BY <1>8, <1>12, <2>1, <2>2, <2>3 DEF Meeting
  <2> QED
    BY <1>5, <2>1, <2>4, <2>5 DEF Dialog
<1>14. Dialogs'
  <2>1. ASSUME NEW v \in Workers \ {w}
        PROVE  /\ requests'[v] = requests[v] /\ replies'[v] = replies[v]
               /\ hellos'.s[v] = hellos.s[v] /\ hellos'.c[v] = hellos.c[v]
               /\ ~InProgress(v) /\ ~InProgress(v)'
               /\ pc[v] # "listen" /\ Leader(v) /\ Fresh(Job(v)) => Fresh(Job(v))'
    <3>1. Fresh(Job(v)) => Fresh(Job(v))'
      BY <1>3 DEF Fresh, ComputeFrame, Job
    <3>2. ~InProgress(v) /\ ~InProgress(v)'
      BY <1>2, <1>3, <1>6 DEF InProgress
    <3> QED
      BY <1>3, <1>8, <3>1, <3>2
  <2> QED
    BY <1>3, <1>10, <1>11, <1>13, <2>1, OthersInv
<1>15. Counts'
  <2>1. \A k \in 1 .. Len(linkS) : <<k, 0>> \in sent
    BY <1>1, <1>2 DEF Counts
  <2> QED
    BY <1>1, <1>2, <1>3, <1>6, <2>1 DEF Counts
<1>16. PartsNext
  BY <1>1, <1>3, <1>6 DEF Parts, PartsNext
<1>17. ASSUME NEW j \in DOMAIN linkC, Awaited(j) PROVE FALSE
  <2>1. first[j] = w /\ pc[w] = "data"
    BY <1>2, <1>17 DEF Awaited, InProgress
  <2> QED
    BY <1>5, <2>1 DEF Answering, Meeting
<1>18. Served'
  BY <1>1, <1>3 DEF Served, ComputeFrame
<1> QED
  BY <1>3, <1>6, <1>9, <1>10, <1>11, <1>14, <1>15, <1>16, <1>17, <1>18, ServerInv DEF StopNext

\* ... and the other: the job is that of the rank whose request was taken
LEMMA HearJobInv == Inv /\ HearJob => Inv'
<1> SUFFICES ASSUME Inv, HearJob PROVE Inv'
  OBVIOUS
<1>1. /\ Types /\ SchedTypes /\ StorageTypes /\ NetTypes /\ Queues /\ Dialogs /\ Served
      /\ Counts /\ Parts /\ Ends
  BY DEF Inv, Types
<1>2. PICK w \in Workers : w = orders[turn[0]] /\ spc[0] = "meet"
  BY <1>1 DEF HearJob, Counts
<1>3. /\ hellos.c[w] # <<>> /\ linkS' = Append(linkS, Head(hellos.c[w]))
      /\ hellos' = [hellos EXCEPT !.c[w] = Tail(@)]
      /\ spc' = [spc EXCEPT ![0] = "send"]
      /\ ComputeFrame /\ UNCHANGED <<orders, turn, sent, requests, replies>>
  BY <1>2 DEF HearJob, schedVars, computeVars, ComputeFrame
<1>4. InProgress(w) /\ Hello = <<turn[0]>>
  BY <1>2 DEF InProgress, Hello
<1>5. /\ pc[w] # "listen" /\ Leader(w) /\ (Meeting(w) \/ Met(w))
      /\ hellos.c[w] = <<Job(w)>> /\ requests[w] = <<>> /\ replies[w] = 0
  <2>1. Dialog(w) /\ ~Quiet(w)
    BY <1>1, <1>4 DEF Dialogs, Quiet
  <2>2. pc[w] # "listen" /\ Leader(w)
    BY <2>1 DEF Dialog
  <2>3. /\ ~Entering(w) /\ ~Asking(w) /\ ~Answering(w) /\ ~Heard(w) /\ ~Linked(w)
    BY <1>3, <1>4, <2>1 DEF Entering, Asking, Answering, Heard, Linked
  <2>4. Meeting(w) \/ Met(w)
    BY <2>1, <2>2, <2>3 DEF Dialog
  <2> QED
    BY <2>2, <2>4 DEF Meeting, Met
<1>6. PICK j \in Jobs : j = Job(w) /\ j \in DOMAIN first /\ first[j] = w /\ w \in entered[j]
  BY <1>1, <1>5, BusyHasJob DEF Queues, Leader
<1>7. PICK n \in Nat : n = Len(linkS) /\ turn[0] = n + 1 /\ Len(orders) = n + 1
  BY <1>1, <1>2, LinkCount DEF Counts
<1>8. linkS' = Append(linkS, j) /\ hellos' = [s |-> hellos.s, c |-> [hellos.c EXCEPT ![w] = <<>>]]
  <2>1. Head(hellos.c[w]) = j /\ Tail(hellos.c[w]) = <<>>
    BY <1>5, <1>6
  <2> QED
    BY <1>1, <1>3, <2>1 DEF NetTypes
<1>9. /\ linkS' \in Seq(Jobs) /\ Len(linkS') = n + 1 /\ linkS'[n + 1] = j
      /\ \A k \in 1 .. n : linkS'[k] = linkS[k]
  <2>1. linkS \in Seq(Jobs)
    BY <1>1 DEF StorageTypes
  <2> QED
    BY <1>7, <1>8, <2>1, OneMore
<1>10. LinksKept
  BY <1>7, <1>9 DEF LinksKept
<1>11. turn'[0] = n + 1 /\ spc'[0] = "send" /\ \A s \in Servers \ {0} : spc'[s] = spc[s]
  BY <1>1, <1>3, <1>7, Constants DEF StorageTypes
<1>12. /\ hellos'.s = hellos.s /\ hellos'.c[w] = <<>>
       /\ \A v \in Workers \ {w} : hellos'.c[v] = hellos.c[v]
  BY <1>1, <1>8 DEF NetTypes
<1>13. NetTypes'
  <2>1. [hellos.c EXCEPT ![w] = <<>>] \in [Workers -> Seq(Jobs)]
    <3>1. <<>> \in Seq(Jobs)
      BY EmptySeq
    <3> QED
      BY <1>1, <3>1 DEF NetTypes
  <2>2. hellos' = [s |-> hellos'.s, c |-> hellos'.c] /\ hellos'.c \in [Workers -> Seq(Jobs)]
    BY <1>8, <2>1
  <2> QED
    BY <1>1, <1>3, <1>12, <2>2 DEF NetTypes
<1>14. StorageTypes'
  <2>1. spc' \in [Servers -> {"loop", "create", "meet", "send", "sent", "done"}]
    BY <1>1, <1>3 DEF StorageTypes
  <2> QED
    BY <1>1, <1>3, <1>9, <2>1 DEF StorageTypes, ComputeFrame
<1>15. \A v \in Workers : ~InProgress(v)'
  BY <1>11 DEF InProgress
<1>16. Dialog(w)'
  <2>1. Leader(w)' /\ Job(w)' = j /\ pc'[w] = pc[w] /\ linkC' = linkC /\ pc'[w] # "listen"
    BY <1>3, <1>5, <1>6 DEF ComputeFrame, Leader, Job
  <2>2. requests'[w] = <<>> /\ replies'[w] = 0 /\ hellos'.s[w] = hellos.s[w]
    BY <1>3, <1>5, <1>12
  <2>3. CASE Meeting(w)
    <3>1. pc[w] = "meet" /\ hellos.s[w] = <<n + 1>> /\ j \notin DOMAIN linkC
      BY <1>4, <1>6, <1>7, <2>3 DEF Meeting, Unlinked
    <3>2. n + 1 \in 1 .. Len(linkS') /\ linkS'[n + 1] = Job(w)' /\ hellos'.s[w] = <<n + 1>>
      BY <1>9, <2>1, <2>2, <3>1
    <3>3. Heard(w)'
      BY <1>12, <1>15, <2>1, <2>2, <3>1, <3>2 DEF Heard
    <3> QED
      BY <2>1, <3>3 DEF Dialog
  <2>4. CASE Met(w)
    <3>1. pc[w] = "data" /\ hellos.s[w] = <<>>
      BY <2>4 DEF Met
    <3>2. Linked(w)'
      BY <1>12, <1>15, <2>1, <2>2, <3>1 DEF Linked, Quiet
    <3> QED
      BY <2>1, <3>2 DEF Dialog
  <2> QED
    BY <1>5, <2>3, <2>4
<1>17. Dialogs'
  <2>1. ASSUME NEW v \in Workers \ {w}
        PROVE  /\ requests'[v] = requests[v] /\ replies'[v] = replies[v]
               /\ hellos'.s[v] = hellos.s[v] /\ hellos'.c[v] = hellos.c[v]
               /\ ~InProgress(v) /\ ~InProgress(v)'
               /\ pc[v] # "listen" /\ Leader(v) /\ Fresh(Job(v)) => Fresh(Job(v))'
    <3>1. ASSUME Leader(v), Fresh(Job(v)) PROVE Fresh(Job(v))'
      <4>1. PICK i : i = Job(v)
        OBVIOUS
      <4>2. i # j
        BY <1>6, <3>1, <4>1 DEF Leader
      <4>3. Job(v)' = i
        BY <1>3, <4>1 DEF ComputeFrame, Job
      <4>4. \A k \in 1 .. n : linkS[k] # i
        BY <1>7, <3>1, <4>1 DEF Fresh
      <4>5. \A k \in 1 .. Len(linkS') : linkS'[k] # i
        BY <1>9, <4>2, <4>4
      <4> QED
        BY <4>3, <4>5 DEF Fresh
    <3>2. ~InProgress(v) /\ ~InProgress(v)'
      BY <1>2, <1>15 DEF InProgress
    <3> QED
      BY <1>3, <1>12, <3>1, <3>2
  <2> QED
    BY <1>3, <1>10, <1>14, <1>16, <2>1, OthersInv
<1>18. Counts'
  <2>1. ASSUME NEW k \in 1 .. n + 1 PROVE <<k, 0>> \in sent \/ k = n + 1
    <3>1. CASE k \in 1 .. n
      BY <1>1, <1>2, <1>7, <3>1 DEF Counts
    <3> QED
      BY <3>1
  <2> QED
    BY <1>3, <1>7, <1>9, <1>11, <2>1 DEF Counts
<1>19. PartsNext
  <2>1. \A m \in sent : m[1] \in 1 .. n + 1
    <3>1. \A m \in sent : m[1] \in 1 .. n
      BY <1>1, <1>7 DEF Parts
    <3>2. 1 .. n \subseteq 1 .. n + 1
      OBVIOUS
    <3> QED
      BY <3>1, <3>2
  <2>2. ASSUME NEW s \in Servers, spc'[s] \in {"send", "sent"} PROVE turn[s] \in 1 .. n + 1
    <3>1. CASE s = 0
      BY <1>7, <3>1
    <3>2. CASE s # 0
      BY <1>1, <1>7, <1>11, <2>2, <3>2 DEF Parts
    <3> QED
      BY <3>1, <3>2
  <2> QED
    BY <1>3, <1>9, <2>1, <2>2 DEF PartsNext
<1>20. ASSUME NEW i \in DOMAIN linkC, Awaited(i) PROVE Connected(i)'
  <2>1. first[i] = w /\ i = j /\ linkC[i] = n + 1
    BY <1>2, <1>6, <1>7, <1>20 DEF Awaited, InProgress
  <2>2. linkC'[i] \in 1 .. Len(linkS') /\ linkS'[linkC'[i]] = i
    BY <1>3, <1>9, <2>1 DEF ComputeFrame
  <2> QED
    BY <2>2 DEF Connected
<1>21. Served'
  <2> SUFFICES ASSUME NEW k \in 1 .. n + 1
               PROVE  linkS'[k] \in DOMAIN first /\ first[linkS'[k]] \in entered[linkS'[k]]
    BY <1>3, <1>9 DEF Served, ComputeFrame
  <2>1. CASE k \in 1 .. n
    <3>1. linkS[k] \in DOMAIN first /\ first[linkS[k]] \in entered[linkS[k]]
      BY <1>1, <1>7, <2>1 DEF Served
    <3> QED
      BY <1>9, <2>1, <3>1
  <2>2. CASE k = n + 1
    BY <1>6, <1>9, <2>2
  <2> QED
    BY <2>1, <2>2
<1> QED
  BY <1>3, <1>10, <1>11, <1>13, <1>14, <1>17, <1>18, <1>19, <1>20, <1>21, ServerInv DEF StopNext

\* the other ranks of the storage group do what its leader has told them to do
LEMMA FollowerInv ==
    ASSUME Inv, NEW s \in Servers, s # 0, TakeOrder(s) \/ FollowServer(s)
    PROVE  Inv'
<1>1. StorageTypes /\ Counts /\ Parts /\ Ends /\ Len(linkS) \in Nat
  BY LinkCount DEF Inv, Types
<1>2. /\ ComputeFrame /\ UNCHANGED <<orders, linkS, sent, requests, replies, hellos>>
      /\ spc' = [spc EXCEPT ![s] = spc'[s]] /\ spc'[s] \in {"meet", "send", "done"}
      /\ turn' = [turn EXCEPT ![s] = turn'[s]] /\ turn'[s] \in Nat
      /\ spc'[s] = "send" => turn'[s] \in 1 .. Len(linkS)
  <2>1. CASE TakeOrder(s)
    BY <1>1, <2>1 DEF TakeOrder, schedVars, computeVars, netVars, ComputeFrame, StorageTypes
  <2>2. CASE FollowServer(s)
    <3>1. DOMAIN linkS = 1 .. Len(linkS)
      BY <1>1, LenProperties DEF StorageTypes
    <3> QED
      BY <1>1, <2>2, <3>1
      DEF FollowServer, schedVars, computeVars, netVars, ComputeFrame, StorageTypes
  <2> QED
    BY <2>1, <2>2
<1>3. /\ spc'[0] = spc[0] /\ turn'[0] = turn[0]
      /\ \A i \in Servers \ {s} : spc'[i] = spc[i] /\ turn'[i] = turn[i]
  BY <1>1, <1>2, Constants DEF StorageTypes
<1>4. StorageTypes'
  <2>1. turn' \in [Servers -> Nat]
    BY <1>1, <1>2 DEF StorageTypes
  <2>2. spc' \in [Servers -> {"loop", "create", "meet", "send", "sent", "done"}]
    BY <1>1, <1>2 DEF StorageTypes
  <2> QED
    BY <1>1, <1>2, <2>1, <2>2 DEF StorageTypes, ComputeFrame
<1>5. Counts'
  BY <1>1, <1>2, <1>3 DEF Counts
<1>6. PartsNext
  BY <1>1, <1>2, <1>3 DEF Parts, PartsNext
<1>7. ServerSame /\ StopNext
  BY <1>1, <1>2, <1>3 DEF ServerSame, StopNext, Ends
<1> QED
  BY <1>2, <1>4, <1>5, <1>6, <1>7, AloneInv

\* a storage rank sends its part
LEMMA SendInv ==
    ASSUME Inv, NEW s \in Servers, SendData(s) \/ SendReturns(s)
    PROVE  Inv'
<1>1. StorageTypes /\ Counts /\ Parts /\ Ends /\ Len(linkS) \in Nat
  BY LinkCount DEF Inv, Types
<1>2. /\ ComputeFrame /\ UNCHANGED <<orders, turn, linkS, requests, replies, hellos>>
      /\ spc[s] \in {"send", "sent"}
      /\ spc' = [spc EXCEPT ![s] = spc'[s]] /\ spc'[s] \in {"sent", "loop"}
      /\ sent' = sent \cup {<<turn[s], s>>} \/ (sent' = sent /\ spc[s] = "sent")
  BY <1>1 DEF SendData, SendReturns, schedVars, computeVars, netVars, ComputeFrame, StorageTypes
<1>3. \A i \in Servers \ {s} : spc'[i] = spc[i]
  BY <1>1, <1>2 DEF StorageTypes
<1>4. StorageTypes'
  <2>1. spc' \in [Servers -> {"loop", "create", "meet", "send", "sent", "done"}]
    BY <1>1, <1>2 DEF StorageTypes
  <2> QED
    BY <1>1, <1>2, <2>1 DEF StorageTypes, ComputeFrame
<1>5. sent \subseteq sent' /\ (spc[s] = "send" => <<turn[s], s>> \in sent')
  BY <1>2
<1>6. PartsNext
  <2>1. turn[s] \in 1 .. Len(linkS)
    BY <1>1, <1>2 DEF Parts
  <2>2. \A m \in sent' : m[1] \in 1 .. Len(linkS)
    <3>1. \A m \in sent : m[1] \in 1 .. Len(linkS)
      BY <1>1 DEF Parts
    <3>2. <<turn[s], s>>[1] = turn[s]
      OBVIOUS
    <3> QED
      BY <1>2, <2>1, <3>1, <3>2
  <2>3. \A i \in Servers : spc'[i] \in {"send", "sent"} => turn[i] \in 1 .. Len(linkS)
    BY <1>1, <1>3, <2>1 DEF Parts
  <2> QED
    BY <1>2, <1>5, <2>2, <2>3 DEF PartsNext
<1>7. CASE s # 0
  <2>1. spc'[0] = spc[0]
    BY <1>3, <1>7, Constants
  <2>2. Counts'
    BY <1>1, <1>2, <1>5, <2>1 DEF Counts
  <2>3. ServerSame /\ StopNext
    BY <1>1, <1>2, <2>1 DEF ServerSame, StopNext, Ends
  <2> QED
    BY <1>2, <1>4, <1>6, <2>2, <2>3, AloneInv
<1>8. CASE s = 0
  <2>1. spc[0] \in {"send", "sent"} /\ spc'[0] \in {"sent", "loop"}
    BY <1>2, <1>8
  <2>2. \A k \in 1 .. Len(linkS) : <<k, 0>> \in sent'
    BY <1>1, <1>2, <1>5, <1>8 DEF Counts
  <2>3. Counts'
    BY <1>1, <1>2, <2>1, <2>2 DEF Counts
  <2>4. StopNext
    BY <1>2, <2>1 DEF StopNext
  <2> QED
    BY <1>2, <1>4, <1>6, <2>1, <2>3, <2>4, AloneInv
<1> QED
  BY <1>7, <1>8

-----------------------------------------------------------------------------
LEMMA StutterInv == Inv /\ UNCHANGED vars => Inv'
<1> SUFFICES ASSUME Inv, UNCHANGED vars PROVE Inv'
  OBVIOUS
<1>1. UNCHANGED <<first, answered, stopped, work, pc, entered, linkC, received, reduced, totals,
                  buffered, orders, spc, turn, linkS, sent, requests, replies, hellos>>
  BY DEF vars, schedVars, computeVars, serverVars, netVars
<1>2. ComputeFrame /\ StorageTypes' /\ Counts'
  BY <1>1 DEF Inv, Types, ComputeFrame, StorageTypes, Counts
<1>3. PartsNext /\ StopNext /\ ServerSame
  BY <1>1 DEF Inv, Parts, PartsNext, Ends, StopNext, ServerSame
<1> QED
  BY <1>1, <1>2, <1>3, AloneInv

LEMMA NextInv == Inv /\ [Next]_vars => Inv'
<1> SUFFICES ASSUME Inv, [Next]_vars PROVE Inv'
  OBVIOUS
<1>1. CASE Controller
  BY <1>1, StartJobInv, SendStopInv DEF Controller
<1>2. CASE ServerLeader
  BY <1>2, TakeRequestInv, TakeStopInv, MeetJobInv, HearJobInv DEF ServerLeader
<1>3. ASSUME NEW w \in Workers, Worker(w) PROVE Inv'
  BY <1>3, WorkerStepInv
<1>4. ASSUME NEW s \in Servers, Server(s) PROVE Inv'
  <2>1. TakeOrder(s) \/ FollowServer(s) => s # 0
    BY DEF TakeOrder, FollowServer
  <2> QED
    BY <1>4, <2>1, FollowerInv, SendInv DEF Server
<1>5. CASE UNCHANGED vars
  BY <1>5, StutterInv
<1> QED
  BY <1>1, <1>2, <1>3, <1>4, <1>5 DEF Next

LEMMA Invariance == Spec => []Inv
BY InitInv, NextInv, PTL DEF Spec

-----------------------------------------------------------------------------
(* Results                                                                  *)

\* what the connection of a job is worth: the storage group has it, and no other job does
LEMMA OneConnection ==
    ASSUME Inv, NEW j \in DOMAIN linkC, NEW k \in 1 .. Len(linkS), linkC[j] = k
    PROVE  linkS[k] = j /\ \A i \in DOMAIN linkC \ {j} : linkC[i] # k
<1>1. Clients /\ Counts /\ StorageTypes
  BY DEF Inv, Types
<1>2. ASSUME NEW i \in DOMAIN linkC, linkC[i] = k PROVE linkS[k] = i
  <2>1. Connected(i)
    BY <1>1 DEF Clients
  <2>2. ~Awaited(i)
    <3>1. Awaited(i) => turn[0] = Len(linkS) + 1 /\ linkC[i] = turn[0]
      BY <1>1 DEF Awaited, InProgress, Counts
    <3>2. Len(linkS) \in Nat
      BY <1>1, LinkCount
    <3> QED
      BY <1>2, <3>1, <3>2
  <2> QED
    BY <1>2, <2>1, <2>2 DEF Connected
<1> QED
  BY <1>2

\* TotalsComplete: however the jobs overlap, a job's total consists of all storage ranks'
\* parts (compute.cpp, MPI_Reduce over the job's ranks), received over a connection that
\* is this job's on both sides and nobody else's.
THEOREM EveryTotalIsComplete == Spec => []TotalsComplete
<1>1. Inv => TotalsComplete
  <2> SUFFICES ASSUME Inv, NEW j \in totals
               PROVE  \E k \in DOMAIN linkS :
                         /\ linkS[k] = j /\ linkC[j] = k
                         /\ \A i \in DOMAIN linkC \ {j} : linkC[i] # k
                         /\ \A s \in Servers : <<k, s>> \in received
    BY DEF TotalsComplete
  <2>1. SchedTypes /\ StorageTypes /\ Parts /\ Ends
    BY DEF Inv, Types
  <2>2. j \in DOMAIN first /\ j \in Jobs /\ Block(j) \subseteq reduced[j]
    BY <2>1, FirstFacts DEF SchedTypes, Ends
  <2>3. PICK f \in Nat : f = first[j]
    BY <2>1, <2>2, FirstFacts, Constants
  <2>4. ASSUME NEW s \in Servers PROVE j \in DOMAIN linkC /\ <<linkC[j], s>> \in received
    <3>1. s \in Nat /\ f + s \in f .. f + Width - 1 /\ (f + s) - f = s
      BY Constants DEF Servers
    <3>2. f + s \in reduced[j]
      BY <2>2, <2>3, <3>1 DEF Block
    <3>3. j \in DOMAIN linkC /\ <<linkC[j], (f + s) - first[j]>> \in received
      BY <2>1, <2>2, <3>2 DEF Parts
    <3> QED
      BY <2>3, <3>1, <3>3
  <2>5. j \in DOMAIN linkC /\ <<linkC[j], 0>> \in sent
    BY <2>1, <2>4, Constants DEF Parts
  <2>6. PICK k : k = linkC[j]
    OBVIOUS
  <2>7. k \in 1 .. Len(linkS)
    <3>1. <<k, 0>> \in sent /\ <<k, 0>>[1] = k
      BY <2>5, <2>6
    <3> QED
      BY <2>1, <3>1 DEF Parts
  <2>8. linkS[k] = j /\ \A i \in DOMAIN linkC \ {j} : linkC[i] # k
    BY <2>5, <2>6, <2>7, OneConnection
  <2>9. DOMAIN linkS = 1 .. Len(linkS)
    BY <2>1, LenProperties DEF StorageTypes
  <2> QED
    BY <2>4, <2>6, <2>7, <2>8, <2>9
<1> QED
  BY <1>1, Invariance, PTL

\* StopIsLast: when the storage leader finds the stop message (storage.cpp, MPI_Probe from
\* any source), no request or answer is under way, and every job has been served.
THEOREM StopComesLast == Spec => []StopIsLast
<1>1. Inv => StopIsLast
  <2> SUFFICES ASSUME Inv, spc[0] = "done"
               PROVE  /\ \A w \in Workers : requests[w] = <<>> /\ replies[w] = 0
                      /\ \A j \in Jobs : \E k \in DOMAIN linkS : linkS[k] = j /\ <<k, 0>> \in sent
    BY DEF StopIsLast
  <2>1. SchedTypes /\ StorageTypes /\ Parts /\ Ends /\ Counts /\ Clients /\ Dialogs /\ Queues
    BY DEF Inv, Types
  <2>2. \A w : ~InProgress(w)
    BY DEF InProgress
  <2>3. DOMAIN first = Jobs /\ Jobs \subseteq answered
    BY <2>1, FirstFacts DEF Ends, Jobs
  <2>4. ASSUME NEW j \in Jobs
        PROVE  \E k \in 1 .. Len(linkS) : linkS[k] = j /\ <<k, 0>> \in sent
    <3>1. PICK v : v \in reduced[j]
      BY <2>1, <2>3 DEF Ends
    <3>2. j \in DOMAIN linkC
      BY <2>1, <3>1 DEF Parts
    <3>3. Connected(j) /\ ~Awaited(j)
      BY <2>1, <2>2, <3>2 DEF Clients, Awaited
    <3>4. linkC[j] \in 1 .. Len(linkS) /\ linkS[linkC[j]] = j
      BY <3>3 DEF Connected
    <3>5. <<linkC[j], 0>> \in sent
      BY <2>1, <3>4 DEF Counts
    <3> QED
      BY <3>4, <3>5
  <2>5. ASSUME NEW w \in Workers PROVE requests[w] = <<>> /\ replies[w] = 0
    <3>1. Dialog(w)
      BY <2>1 DEF Dialogs
    <3>2. ~Answering(w) /\ ~Meeting(w) /\ ~Met(w)
      BY <2>2 DEF Answering, Meeting, Met
    <3>3. pc[w] # "listen" => ~Asking(w)
      <4> SUFFICES ASSUME pc[w] # "listen" PROVE ~Asking(w)
        OBVIOUS
      <4>1. Job(w) \in Jobs
        BY <2>1, BusyHasJob DEF Queues
      <4>2. ~Fresh(Job(w))
        BY <2>4, <4>1 DEF Fresh
      <4> QED
        BY <4>2 DEF Asking, Unlinked
    <3> QED
      BY <3>1, <3>2, <3>3 DEF Dialog, Quiet, Entering, Heard, Linked
  <2>6. DOMAIN linkS = 1 .. Len(linkS)
    BY <2>1, LenProperties DEF StorageTypes
  <2> QED
    BY <2>4, <2>5, <2>6
<1> QED
  BY <1>1, Invariance, PTL
=============================================================================
