----------------------------- MODULE CommCreate -----------------------------
(***************************************************************************)
(* mpi-noncollective-comm.h: the ranks of a job, and no others, create a     *)
(* communicator among themselves.  Each starts with a communicator of its    *)
(* own; in each round neighbouring communicators are merged in pairs, their  *)
(* leaders meeting through the parent communicator under one fixed tag.      *)
(*                                                                          *)
(* All jobs use the same parent and the same tag, and the ranks that a job   *)
(* shares with a later one may go on to that one while the others are still  *)
(* busy with the first.                                                      *)
(***************************************************************************)
EXTENDS Integers, Sequences, FiniteSets

CONSTANTS
    Ranks,      \* ranks of the parent communicator that listen()
    MaxJobs,    \* bound: how many jobs they are given
    Workloads   \* sequences of MaxJobs jobs, each a block [first, last]

JobIds == 1 .. MaxJobs

ASSUME WorkloadsAssumption ==
    /\ MaxJobs \in Nat /\ Ranks \subseteq Nat
    /\ \A w \in Workloads : \A j \in JobIds :
          /\ w[j].first \in Nat /\ w[j].last \in Nat
          /\ w[j].first <= w[j].last /\ w[j].first .. w[j].last \subseteq Ranks

VARIABLES
    jobs,       \* the jobs, in the order in which they are assigned
    pc,         \* where a rank is: in listen(), in the loop over the rounds, or
                \* in MPI_Intercomm_create
    job,        \* the job it is in, or was in last
    mergeSize,  \* merge_size
    comm,       \* new_comm: its ranks, in their order
    mail,       \* messages between two leaders on the parent communicator
    bridges,    \* what leaders have told their side of the other one
    entered,    \* history: job -> the ranks that have begun
    created     \* history: job -> rank -> the communicator it came back with

vars == <<jobs, pc, job, mergeSize, comm, mail, bridges, entered, created>>

GroupSize(r) == jobs[job[r]].last - jobs[job[r]].first + 1

TypeOK ==
    /\ jobs \in Workloads
    /\ pc \in [Ranks -> {"listen", "loop", "create"}]
    /\ job \in [Ranks -> 0 .. MaxJobs]
    /\ \A r \in Ranks : pc[r] # "listen" => mergeSize[r] \in 1 .. 2 * GroupSize(r) - 1
    /\ comm \in [Ranks -> Seq(Ranks)]
    /\ \A a, b \in Ranks : \A k \in DOMAIN mail[a][b] : mail[a][b][k].comm \in Seq(Ranks)
    /\ \A i \in bridges : i.job \in JobIds /\ i.comm \in Seq(Ranks) /\ i.remote \in Seq(Ranks)
    /\ entered \in [JobIds -> SUBSET Ranks]
    /\ \A j \in JobIds : created[j] \in [DOMAIN created[j] -> Seq(Ranks)]

Init ==
    /\ jobs \in Workloads
    /\ pc = [r \in Ranks |-> "listen"]
    /\ job = [r \in Ranks |-> 0]
    /\ mergeSize = [r \in Ranks |-> 1]
    /\ comm = [r \in Ranks |-> <<r>>]
    /\ mail = [a \in Ranks |-> [b \in Ranks |-> <<>>]]
    /\ bridges = {}
    /\ entered = [j \in JobIds |-> {}]
    /\ created = [j \in JobIds |-> [r \in {} |-> <<>>]]

-----------------------------------------------------------------------------
(* Who meets whom                                                           *)

GroupRank(r) == r - jobs[job[r]].first

\* grp_id, and whether it is the lower one of its pair
GrpId(r) == GroupRank(r) \div mergeSize[r]
Even(r)  == GrpId(r) % 2 = 0

\* (a mutant: the last communicator looks for a neighbour one rank past the job)
Paired_Past(r) == ~Even(r) \/ (GrpId(r) + 1) * mergeSize[r] <= GroupSize(r)

\* there is a communicator to merge with in this round
Paired(r) == ~Even(r) \/ (GrpId(r) + 1) * mergeSize[r] < GroupSize(r)

\* the leader of the other side, as a rank of the parent (translated_ranks)
RemoteLeader(r) ==
    jobs[job[r]].first + (IF Even(r) THEN GrpId(r) + 1 ELSE GrpId(r) - 1) * mergeSize[r]

\* rank 0 of new_comm is the local leader
Leader(r) == comm[r][1] = r

\* (a mutant: both sides pass the same flag, and each puts itself first)
Merged_Low(r, remote) == comm[r] \o remote

\* MPI_Intercomm_merge: the side that passes 0 comes first
Merged(r, remote) == IF Even(r) THEN comm[r] \o remote ELSE remote \o comm[r]

\* (mutants: the loop ends a round early, or late)
More_Short(r) == 2 * mergeSize[r] < GroupSize(r)
More_Long(r)  == mergeSize[r] <= GroupSize(r)

\* the condition of the loop
More(r) == mergeSize[r] < GroupSize(r)

-----------------------------------------------------------------------------
\* jobs that r is still to take up
Ahead(r) == {j \in JobIds : j > job[r] /\ r \in jobs[j].first .. jobs[j].last}

\* listen() takes up r's next assignment, and r has a communicator of its own
Begin(r) ==
    /\ pc[r] = "listen"
    /\ \E j \in Ahead(r) :
          /\ \A k \in Ahead(r) : j <= k
          /\ job' = [job EXCEPT ![r] = j]
          /\ entered' = [entered EXCEPT ![j] = @ \cup {r}]
    /\ comm' = [comm EXCEPT ![r] = <<r>>]
    /\ mergeSize' = [mergeSize EXCEPT ![r] = 1]
    /\ pc' = [pc EXCEPT ![r] = "loop"]
    /\ UNCHANGED <<jobs, mail, bridges, created>>

\* a round without a partner
Skip(r) ==
    /\ pc[r] = "loop" /\ More(r) /\ ~Paired(r)
    /\ mergeSize' = [mergeSize EXCEPT ![r] = @ * 2]
    /\ UNCHANGED <<jobs, pc, job, comm, mail, bridges, entered, created>>

\* MPI_Intercomm_create: the leader writes to the remote leader (what it writes is
\* its side; job and round are there for NoMixUp only) ...
Meet(r) ==
    /\ pc[r] = "loop" /\ More(r) /\ Paired(r)
    /\ pc' = [pc EXCEPT ![r] = "create"]
    /\ mail' = IF Leader(r)
               THEN [mail EXCEPT ![r][RemoteLeader(r)] =
                       Append(@, [comm |-> comm[r], job |-> job[r], round |-> mergeSize[r]])]
               ELSE mail
    /\ UNCHANGED <<jobs, job, mergeSize, comm, bridges, entered, created>>

\* MPI_Intercomm_merge, and the next round
MergeWith(r, remote) ==
    /\ comm' = [comm EXCEPT ![r] = Merged(r, remote)]
    /\ mergeSize' = [mergeSize EXCEPT ![r] = @ * 2]
    /\ pc' = [pc EXCEPT ![r] = "loop"]

\* ... takes the first message that has come from it, and tells its own side
Hear(r) ==
    /\ pc[r] = "create" /\ Leader(r)
    /\ LET q == RemoteLeader(r) IN
       /\ mail[q][r] # <<>>
       /\ mail' = [mail EXCEPT ![q][r] = Tail(@)]
       /\ bridges' = bridges \cup
             {[job |-> job[r], comm |-> comm[r], remote |-> Head(mail[q][r]).comm]}
       /\ MergeWith(r, Head(mail[q][r]).comm)
    /\ UNCHANGED <<jobs, job, entered, created>>

\* the others of its side only wait for the leader's word
Follow(r) ==
    /\ pc[r] = "create" /\ ~Leader(r)
    /\ \E i \in bridges :
          i.job = job[r] /\ i.comm = comm[r] /\ MergeWith(r, i.remote)
    /\ UNCHANGED <<jobs, job, mail, bridges, entered, created>>

\* the communicator is complete; r runs the job and listens again
Return(r) ==
    /\ pc[r] = "loop" /\ ~More(r)
    /\ created' = [created EXCEPT ![job[r]] =
                     [q \in DOMAIN @ \cup {r} |-> IF q = r THEN comm[r] ELSE @[q]]]
    /\ pc' = [pc EXCEPT ![r] = "listen"]
    /\ UNCHANGED <<jobs, job, mergeSize, comm, mail, bridges, entered>>

-----------------------------------------------------------------------------
Rank(r) == Begin(r) \/ Skip(r) \/ Meet(r) \/ Hear(r) \/ Follow(r) \/ Return(r)

\* all jobs have been carried out
Done == \A r \in Ranks : pc[r] = "listen" /\ Ahead(r) = {}

Next == (\E r \in Ranks : Rank(r)) \/ (Done /\ UNCHANGED vars)

Spec == Init /\ [][Next]_vars

\* messages arrive, and functions of jobs return
FairSpec == Spec /\ \A r \in Ranks : WF_vars(Rank(r))

-----------------------------------------------------------------------------
(* Properties                                                               *)

\* All jobs and rounds use one tag (non_collective_comm_create's tag argument), and
\* a remote leader may run ahead into its next job: the message a waiting leader
\* takes, the first that has come from there, is the one for its own round and job.
NoMixUp ==
    \A r \in Ranks :
        pc[r] = "create" /\ Leader(r) /\ mail[RemoteLeader(r)][r] # <<>> =>
            LET m == Head(mail[RemoteLeader(r)][r])
            IN m.job = job[r] /\ m.round = mergeSize[r]

\* The ranks of a communicator agree on it (the merge flags 0 and 1 put the two
\* sides in the same order everywhere): whoever belongs to r's communicator and
\* is in the same round of the same job has the same one.
SidesAgree ==
    \A r, q \in Ranks :
        /\ pc[r] # "listen" /\ pc[q] # "listen"
        /\ job[r] = job[q] /\ mergeSize[r] = mergeSize[q]
        /\ \E i \in DOMAIN comm[r] : comm[r][i] = q
        => comm[q] = comm[r]

\* Jobs that share ranks do not keep each other's communicators from being
\* created: every rank comes back from each of its jobs.
Termination == <>Done

Comms == INSTANCE JobComms WITH
    Members <- Ranks, Jobs <- JobIds,
    ranksOf <- [j \in JobIds |->
                  [i \in 1 .. jobs[j].last - jobs[j].first + 1 |-> jobs[j].first + i - 1]]

\* The creation is the collective wait of Scheduler (AllEntered): nobody leaves
\* before all ranks of the job have come, and all leave with the job's ranks in
\* their order.
ImplementsComms == Comms!CommSpec
=============================================================================
