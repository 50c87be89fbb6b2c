---------------------------- MODULE MCProcMap ----------------------------
(***************************************************************************)
(* Plans for ProcMap.                                                       *)
(***************************************************************************)
EXTENDS ProcMap

Given(name, size) == [name |-> name, size |-> size]

(***************************************************************************)
(* Groups of the command line (a number for each) that create their          *)
(* intercommunicators in any order they agree on, and ask again later: three *)
(* groups, two or three pairs of them; and four in a ring.                   *)
(***************************************************************************)
Orders(pairs, n) == {f \in [1 .. n -> pairs] : IsInjective(f)}

ThreePairs == {{1, 2}, {1, 3}, {2, 3}}
Ring       == {{1, 2}, {2, 3}, {3, 4}, {1, 4}}

\* whom group g asks for when the pairs are connected in this order
CallsOf(g, order) ==
    LET mine == SelectSeq(order, LAMBDA p : g \in p)
    IN [k \in DOMAIN mine |-> CHOOSE n \in mine[k] : n # g]

Again(s) == IF s = <<>> THEN s ELSE Append(s, s[1])

Connecting(groups, procs, order) ==
    [size |-> 4, procs |-> procs, jobs |-> <<>>,
     calls |-> [g \in groups |-> Again(CallsOf(g, order))]]

ThreeGroups ==
    {Connecting(1 .. 3, procs, order) :
        order \in Orders(ThreePairs, 2) \cup Orders(ThreePairs, 3),
        procs \in {<<Given(3, 1), Given(1, 2), Given(2, 1)>>,
                   ParseProcs(<<Given(2, 2)>>, {1, 2, 3}, 4)}}

FourGroups ==
    {Connecting(1 .. 4, ParseProcs(<<>>, 1 .. 4, 4), order) : order \in Orders(Ring, 4)}

(***************************************************************************)
(* examples/storage: group 1 is connected with group 2, whose first rank is  *)
(* the controller (group 9 of its own level) and whose others run two jobs.  *)
(* The groups of a job may connect with each other, and ask for group 1.     *)
(***************************************************************************)
TwoLevels ==
    {[size |-> 5,
      procs |-> ParseProcs(<<Given(1, 2)>>, {1, 2}, 5),
      calls |-> (1 :> <<2>> @@ 2 :> <<1>>),
      jobs  |->
        <<[world |-> <<2>>, procs |-> <<Given(9, 1)>>, calls |-> 9 :> <<1>>],
          [world |-> <<3, 4>>, procs |-> Divide(4 :> 0, 2), calls |-> 4 :> <<1>>],
          [world |-> <<3, 4>>, procs |-> Divide(5 :> n @@ 6 :> 0, 2),
           calls |-> 5 :> <<6, 1>> @@ 6 :> <<1, 5, 5>>]>>] : n \in {0, 1}}

\* sizes that parse_procs() or extend() refuses
Refused ==
    {[size |-> 3, procs |-> procs, jobs |-> <<>>, calls |-> [g \in 1 .. 2 |-> <<3 - g>>]] :
        procs \in {ParseProcs(<<>>, {1, 2}, 3), ParseProcs(<<Given(1, 4)>>, {1, 2}, 3)}}

\* groups without ranks, between others and behind them
WithoutRanks ==
    {[size |-> 4, procs |-> procs, jobs |-> <<>>,
      calls |-> [g \in 1 .. 3 |-> IF g = 1 THEN <<j>> ELSE IF g = j THEN <<1>> ELSE <<>>]] :
        <<procs, j>> \in {<<ParseProcs(<<Given(1, 2), Given(2, 2)>>, {1, 2, 3}, 4), 2>>,
                         <<<<Given(1, 3), Given(2, 0), Given(3, 1)>>, 3>>}}

AllPlans == ThreeGroups \cup FourGroups \cup TwoLevels \cup Refused \cup WithoutRanks

ASSUME AllPlansNatural == \A p \in AllPlans : NaturalSizes(p)

(***************************************************************************)
(* A job some of whose groups are given a size, and two are not.            *)
(***************************************************************************)
MixedPlans ==
    {[size |-> 4, procs |-> <<Given(7, 4)>>, calls |-> 7 :> <<>>,
      jobs |-> <<[world |-> <<0, 1, 2, 3>>, procs |-> Divide(groups, 4),
                  calls |-> [g \in 1 .. 3 |-> <<>>]]>>] :
        groups \in {[g \in 1 .. 3 |-> IF g = 1 THEN n ELSE 0] : n \in 1 .. 3}}
=============================================================================
