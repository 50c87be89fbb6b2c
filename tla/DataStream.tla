----------------------------- MODULE DataStream -----------------------------
(***************************************************************************)
(* What send and receive promise the programs around them (README.md,        *)
(* "Execution Groups"): the consumer's ranks all get the producer's steps in *)
(* order, the same ones on every rank, and they stop together once the       *)
(* producer has stopped.                                                     *)
(***************************************************************************)
EXTENDS Integers, Sequences

CONSTANTS
    Consumers,  \* ranks of the consumer
    Steps       \* bound: how many steps the producer makes

VARIABLES
    complete,   \* whether no step may be skipped (synchronous mode)
    produced,   \* steps made so far
    got,        \* consumer rank -> the steps it was given
    closed      \* consumer ranks that were told to stop

streamVars == <<complete, produced, got, closed>>

StreamInit ==
    /\ complete \in BOOLEAN
    /\ produced = 0
    /\ got = [r \in Consumers |-> <<>>]
    /\ closed = {}

Produce ==
    /\ produced < Steps
    /\ produced' = produced + 1
    /\ UNCHANGED <<complete, got, closed>>

\* the consumer ranks that are ahead of r
Ahead(r) == {q \in Consumers : Len(got[q]) > Len(got[r])}

Last(s) == IF s = <<>> THEN 0 ELSE s[Len(s)]

\* r gets its next step: the one that the ranks ahead of it have already got, or
\* a later step if it is the first
Deliver(r) ==
    /\ r \notin closed
    /\ \E s \in Last(got[r]) + 1 .. produced :
          /\ \A q \in Ahead(r) : s = got[q][Len(got[r]) + 1]
          /\ complete => s = Last(got[r]) + 1
          /\ got' = [got EXCEPT ![r] = Append(@, s)]
    /\ closed # {} => Ahead(r) # {}
    /\ UNCHANGED <<complete, produced, closed>>

\* the producer is done, and r has got what any rank has got
Close(r) ==
    /\ r \notin closed /\ produced = Steps /\ Ahead(r) = {}
    /\ closed' = closed \cup {r}
    /\ UNCHANGED <<complete, produced, got>>

StreamNext == Produce \/ \E r \in Consumers : Deliver(r) \/ Close(r)

StreamSpec == StreamInit /\ [][StreamNext]_streamVars
=============================================================================
