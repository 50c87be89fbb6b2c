------------------------------ MODULE JobComms ------------------------------
(***************************************************************************)
(* What listen() relies on when it creates the communicator of a job         *)
(* (scheduler.hpp, tags::noncollective_comm_split): nobody leaves before all *)
(* ranks of the job have come, and everybody gets the same communicator, the *)
(* job's ranks in their order.  Scheduler models the creation as this wait;  *)
(* CommCreate implements it with pairwise messages.                          *)
(***************************************************************************)
EXTENDS Integers

CONSTANTS
    Members,    \* all ranks
    Jobs        \* all jobs

VARIABLES
    ranksOf,    \* job -> its ranks, in order
    entered,    \* job -> the ranks that have come
    created     \* job -> the communicators its ranks have left with

commVars == <<ranksOf, entered, created>>

In(r, j) == \E i \in DOMAIN ranksOf[j] : ranksOf[j][i] = r

CommInit ==
    /\ entered = [j \in Jobs |-> {}]
    /\ created = [j \in Jobs |-> [r \in {} |-> <<>>]]

Come(r, j) ==
    /\ In(r, j) /\ r \notin entered[j]
    /\ entered' = [entered EXCEPT ![j] = @ \cup {r}]
    /\ UNCHANGED <<ranksOf, created>>

\* r has its communicator: all have come
Go(r, j) ==
    /\ In(r, j) /\ r \notin DOMAIN created[j]
    /\ \A q \in Members : In(q, j) => q \in entered[j]
    /\ created' = [created EXCEPT ![j] = [q \in DOMAIN @ \cup {r} |-> ranksOf[j]]]
    /\ UNCHANGED <<ranksOf, entered>>

CommNext == \E r \in Members, j \in Jobs : Come(r, j) \/ Go(r, j)

CommSpec == CommInit /\ [][CommNext]_commVars
=============================================================================
