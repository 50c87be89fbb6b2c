---------------------------- MODULE MCCommCreate ----------------------------
(***************************************************************************)
(* Instances of CommCreate for TLC: the blocks of ranks of two jobs.        *)
(***************************************************************************)
EXTENDS CommCreate

CONSTANTS
    PairRanks,  \* two jobs share out ranks 1 .. PairRanks in every way
    LongRanks   \* a first job of up to LongRanks ranks, its last two share a second

Blocks(n) == {b \in [first : 1 .. n, last : 1 .. n] : b.first <= b.last}

\* the last rank, in nobody's block, is there for who looks past the end of a job
MCRanks == 1 .. LongRanks + 1

MCWorkloads ==
    {<<a, b>> : a, b \in Blocks(PairRanks)} \cup
    {<<[first |-> 1, last |-> n], [first |-> n - 1, last |-> n]>> : n \in PairRanks + 1 .. LongRanks}
=============================================================================
