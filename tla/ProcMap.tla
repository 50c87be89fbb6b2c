------------------------------ MODULE ProcMap ------------------------------
(***************************************************************************)
(* include/henson/procs.hpp: every rank keeps a stack of levels, each the    *)
(* division of a communicator into named groups, with the intercommunicators *)
(* to other groups that have been created there.                             *)
(*                                                                          *)
(* A plan is what a program makes of it: how its ranks are divided at the    *)
(* start, which groups ask for intercommunicators to which, and which jobs   *)
(* extend() the stacks of their ranks by a level and take it away again.     *)
(*                                                                          *)
(* An MPI call that involves several ranks is left by all of them together,  *)
(* once all have entered it: the most an MPI library may make them wait.     *)
(* Names are numbers, in the order in which std::map and std::set keep them. *)
(***************************************************************************)
EXTENDS Integers, Sequences, FiniteSets, SequencesExt

CONSTANT Plans  \* sets of [size, procs, calls, jobs]: see Programme

VARIABLES
    plan,       \* the plan that the ranks carry out
    todo,       \* rank -> the calls it has still to make, the current one first
    waiting,    \* the ranks that are inside their current call
    levels,     \* levels_ of every rank, the last one is the bottom
    refused     \* ranks whose extend() has thrown

vars == <<plan, todo, waiting, levels, refused>>

Ranks == 0 .. plan.size - 1

-----------------------------------------------------------------------------
(* How many ranks a group gets                                              *)

\* the ranks before the k-th group (total_procs)
Before(procs, k) ==
    LET sum[n \in 0 .. Len(procs)] == IF n = 0 THEN 0 ELSE sum[n - 1] + procs[n].size
    IN  sum[k - 1]

Total(procs) == Before(procs, Len(procs) + 1)

Nth(names, k) == CHOOSE n \in names : Cardinality({m \in names : m <= n}) = k

InNameOrder(names) == [k \in 1 .. Cardinality(names) |-> Nth(names, k)]

\* what parse_procs() gives each of the other groups of the script, in name order
Shares(open, left) ==
    [k \in DOMAIN open |-> [name |-> open[k], size |-> left \div Len(open)]]

\* parse_procs(): what is given, and equal parts of what is left; it throws when more
\* is given than there is, which leaves no division at all
ParseProcs(given, all, size) ==
    IF Total(given) > size THEN <<>>
    ELSE given \o Shares(InNameOrder(all \ {p.name : p \in ToSet(given)}), size - Total(given))

\* schedule(): groups of size <= 0 share the ranks of the job, each gets the same,
\* the last what remains
Divide(groups, size) ==
    LET names    == InNameOrder(DOMAIN groups)
        open     == SelectSeq(names, LAMBDA n : groups[n] <= 0)
        leftover == size - SumFunctionOnSet(groups, {n \in DOMAIN groups : groups[n] > 0})
        share    == size \div Len(open)
    IN [k \in DOMAIN names |->
          [name |-> names[k],
           size |-> IF groups[names[k]] > 0      THEN groups[names[k]]
                    ELSE IF names[k] = Last(open) THEN leftover - share * (Len(open) - 1)
                    ELSE share]]

-----------------------------------------------------------------------------
(* extend(): what the rank at index i of the new level's world computes     *)

GroupMap(procs) ==
    [n \in {procs[k].name : k \in DOMAIN procs} |->
       LET k == CHOOSE k \in DOMAIN procs :
                   procs[k].name = n /\ \A j \in DOMAIN procs : procs[j].name = n => j <= k
       IN [leader |-> Before(procs, k), size |-> procs[k].size]]

\* (a mutant: the first rank of a group is counted to the one before)
Color_Late(procs, i) == Cardinality({k \in DOMAIN procs : i > Before(procs, k + 1)})

Color(procs, i) == Cardinality({k \in DOMAIN procs : i >= Before(procs, k + 1)})

\* "repeatedly overwritten"
Group(procs, i) ==
    procs[CHOOSE k \in DOMAIN procs :
             /\ i >= Before(procs, k)
             /\ \A j \in DOMAIN procs : i >= Before(procs, j) => j <= k].name

\* (a mutant: counted from 1)
Index_FromOne(world, r) == CHOOSE k \in DOMAIN world : world[k] = r

Index(world, r) == (CHOOSE k \in DOMAIN world : world[k] = r) - 1

\* MPI_Comm_split keeps the order of the ranks
Split(op, color) ==
    LET mine == {k \in DOMAIN op.world : Color(op.procs, k - 1) = color}
    IN [n \in 1 .. Cardinality(mine) |->
          op.world[CHOOSE k \in mine : Cardinality({j \in mine : j <= k}) = n]]

NewLevel(r, op) ==
    LET i == Index(op.world, r) IN
    [id |-> op.id, world |-> op.world,
     local |-> Split(op, Color(op.procs, i)), groups |-> GroupMap(op.procs),
     color |-> Color(op.procs, i), group |-> Group(op.procs, i),
     cache |-> [n \in {} |-> <<>>]]

-----------------------------------------------------------------------------
(* The calls                                                                *)

Extending(id, world, procs, calls) ==
    [op |-> "extend", id |-> id, world |-> world, procs |-> procs, calls |-> calls]
Asking(to) == [op |-> "intercomm", to |-> to]
Popping    == [op |-> "pop"]

\* ProcMap::ProcMap, and around each job Scheduler::listen
Outer(p)    == Extending(0, [k \in 1 .. p.size |-> k - 1], p.procs, p.calls)
Inner(p, j) == Extending(j, p.jobs[j].world, p.jobs[j].procs, p.jobs[j].calls)

\* the names that procs give to groups, each once (a std::map in schedule())
Division(procs) ==
    /\ procs \in Seq([name : Nat, size : Int])
    /\ \A j, k \in DOMAIN procs : procs[j].name = procs[k].name => j = k

Named(procs) == {procs[k].name : k \in DOMAIN procs}

\* MPI_Intercomm_create joins two groups of different ranks: the name is that of another
\* group, and one that has a leader
Reaches(procs, g, to) ==
    to # g /\ \E k \in DOMAIN procs : procs[k].name = to /\ procs[k].size > 0

\* what a group asks for on a level
Asks(op, g) == ToSet(op.calls[g])

\* a level that extend() may be called for, in a world of this size
Extendable(op, size) ==
    /\ op.world \in Seq(0 .. size - 1) /\ IsInjective(op.world)
    /\ Division(op.procs) /\ Named(op.procs) \subseteq DOMAIN op.calls
    /\ \A g \in Named(op.procs) : op.calls[g] \in Seq(Nat)

\* Names that a program asks for are groups of the level; in a job, they may be those
\* that the group of the rank has asked for outside (leader() takes what find() returns)
PlansAssumption ==
    \A p \in Plans :
        /\ p.size \in Nat \ {0} /\ Extendable(Outer(p), p.size)
        /\ Total(p.procs) = p.size =>
              \A g \in Named(p.procs) : \A to \in Asks(Outer(p), g) : Reaches(p.procs, g, to)
        /\ Len(p.jobs) \in Nat /\ DOMAIN p.jobs = 1 .. Len(p.jobs)
        /\ \A j \in DOMAIN p.jobs :
              LET op == Inner(p, j) IN
              /\ Extendable(op, p.size)
              /\ Total(p.procs) = p.size /\ Total(op.procs) = Len(op.world) =>
                    \A i \in DOMAIN op.world :
                        LET g == Group(op.procs, i - 1) IN
                        \A to \in Asks(op, g) :
                            \/ Reaches(op.procs, g, to)
                            \/ to \in Asks(Outer(p), Group(p.procs, op.world[i]))

ASSUME PlansAssumption

\* no group of the program or of a job is given fewer than 0 ranks
NaturalSizes(p) ==
    /\ \A k \in DOMAIN p.procs : p.procs[k].size \in Nat
    /\ \A j \in DOMAIN p.jobs : \A k \in DOMAIN p.jobs[j].procs : p.jobs[j].procs[k].size \in Nat

\* rank r's calls under plan p; those for intercommunicators come in with the level
Programme(p, r) ==
    <<Outer(p)>>
    \o FlattenSeq([j \in DOMAIN p.jobs |-> IF r \in ToSet(p.jobs[j].world)
                                           THEN <<Inner(p, j), Popping>> ELSE <<>>])
    \o <<Popping>>

Init ==
    /\ plan \in Plans
    /\ todo = [r \in Ranks |-> Programme(plan, r)]
    /\ waiting = {}
    /\ levels = [r \in Ranks |-> <<>>]
    /\ refused = {}

Calls(r, op) == todo[r] # <<>> /\ Head(todo[r]).op = op

Level(r) == Last(levels[r])

\* r calls extend() and the sizes do not add up: it throws before any MPI call
Throw(r) ==
    /\ Calls(r, "extend")
    /\ Total(Head(todo[r]).procs) # Len(Head(todo[r]).world)
    /\ refused' = refused \cup {r}
    /\ todo' = [todo EXCEPT ![r] = <<>>]
    /\ UNCHANGED <<plan, waiting, levels>>

\* the levels whose cache has an entry for "to"
Found(r, to) == {k \in DOMAIN levels[r] : to \in DOMAIN levels[r][k].cache}

\* intercomm() finds it: nobody else is involved
Cached(r) ==
    /\ Calls(r, "intercomm") /\ Found(r, Head(todo[r]).to) # {}
    /\ todo' = [todo EXCEPT ![r] = Tail(@)]
    /\ UNCHANGED <<plan, waiting, levels, refused>>

\* r enters an MPI call that involves other ranks
Enter(r) ==
    /\ todo[r] # <<>> /\ r \notin waiting
    /\ Calls(r, "extend") => Total(Head(todo[r]).procs) = Len(Head(todo[r]).world)
    /\ Calls(r, "intercomm") => Found(r, Head(todo[r]).to) = {}
    /\ waiting' = waiting \cup {r}
    /\ UNCHANGED <<plan, todo, levels, refused>>

Waits(r, op) == r \in waiting /\ Calls(r, op)

\* MPI_Comm_split over the world of the new level
Extend(op) ==
    LET world == ToSet(op.world) IN
    /\ \A r \in world : Waits(r, "extend") /\ Head(todo[r]) = op
    /\ levels' = [r \in Ranks |-> IF r \in world THEN Append(levels[r], NewLevel(r, op))
                                                 ELSE levels[r]]
    /\ todo' = [r \in Ranks |-> IF r \in world
                                THEN [k \in DOMAIN op.calls[NewLevel(r, op).group] |->
                                        Asking(op.calls[NewLevel(r, op).group][k])]
                                     \o Tail(todo[r])
                                ELSE todo[r]]
    /\ waiting' = waiting \ world
    /\ UNCHANGED <<plan, refused>>

\* the rank whose number in the level's world the group map gives
LeaderOf(r, name) == Level(r).world[Level(r).groups[name].leader + 1]

\* (a mutant: both sides pass the same flag)
High_Never(r, to) == FALSE

\* the flag of MPI_Intercomm_merge: whether r's side comes second
High(r, to) == Level(r).groups[Level(r).group].leader > Level(r).groups[to].leader

\* r is in MPI_Intercomm_create on the level, and names "peer" as the remote leader
Names(r, id, peer) ==
    Waits(r, "intercomm") /\ Level(r).id = id /\ LeaderOf(r, Head(todo[r]).to) = peer

\* the intercommunicator of r's and the remote side, and the intracommunicator
Joined(r, to, remote) ==
    [sides |-> {Level(r).local, remote},
     intra |-> IF High(r, to) THEN remote \o Level(r).local ELSE Level(r).local \o remote]

\* MPI_Intercomm_create and MPI_Intercomm_merge: two leaders name each other, and all
\* ranks of both local communicators are in the call
Connect(a, b) ==
    LET both == ToSet(Level(a).local) \cup ToSet(Level(b).local)
        To(r) == Head(todo[r]).to
        Other(r) == IF r \in ToSet(Level(a).local) THEN Level(b).local ELSE Level(a).local
    IN
    /\ Names(a, Level(a).id, b) /\ Level(a).local[1] = a
    /\ Names(b, Level(a).id, a) /\ Level(b).local[1] = b
    /\ \A r \in both : Names(r, Level(a).id, Other(r)[1])
    /\ levels' = [r \in Ranks |->
          IF r \in both
          THEN [levels[r] EXCEPT ![Len(levels[r])].cache =
                  [n \in DOMAIN @ \cup {To(r)} |->
                     IF n = To(r) THEN Joined(r, n, Other(r)) ELSE @[n]]]
          ELSE levels[r]]
    /\ todo' = [r \in Ranks |-> IF r \in both THEN Tail(todo[r]) ELSE todo[r]]
    /\ waiting' = waiting \ both
    /\ UNCHANGED <<plan, refused>>

\* (a mutant: a container with an order of its own on every rank)
FirstToFree_Hash(r) ==
    CHOOSE n \in DOMAIN Level(r).cache : \A k \in DOMAIN Level(r).cache :
        (n + 2 * Level(r).group) % 3 <= (k + 2 * Level(r).group) % 3

\* pop_back() goes through the cache by name
FirstToFree(r) ==
    CHOOSE n \in DOMAIN Level(r).cache : \A k \in DOMAIN Level(r).cache : n <= k

\* the communicators that r is about to free in pop_back()
Freeing(r) == Level(r).cache[FirstToFree(r)]

\* MPI_Comm_free of an intracommunicator and its intercommunicator, by both sides
Free(a) ==
    /\ Waits(a, "pop") /\ DOMAIN Level(a).cache # {}
    /\ LET both == UNION {ToSet(side) : side \in Freeing(a).sides} IN
       /\ \A r \in both : /\ Waits(r, "pop") /\ Level(r).id = Level(a).id
                          /\ DOMAIN Level(r).cache # {}
                          /\ Freeing(r).sides = Freeing(a).sides
       /\ levels' = [r \in Ranks |->
             IF r \in both
             THEN [levels[r] EXCEPT ![Len(levels[r])].cache =
                     [n \in DOMAIN @ \ {FirstToFree(r)} |-> @[n]]]
             ELSE levels[r]]
    /\ UNCHANGED <<plan, todo, waiting, refused>>

\* ... then of the local communicator, and the level is gone
PopBack(a) ==
    LET local == ToSet(Level(a).local) IN
    /\ Waits(a, "pop")
    /\ \A r \in local : /\ Waits(r, "pop") /\ Level(r).id = Level(a).id
                        /\ DOMAIN Level(r).cache = {}
    /\ levels' = [r \in Ranks |-> IF r \in local THEN Front(levels[r]) ELSE levels[r]]
    /\ todo' = [r \in Ranks |-> IF r \in local THEN Tail(todo[r]) ELSE todo[r]]
    /\ waiting' = waiting \ local
    /\ UNCHANGED <<plan, refused>>

-----------------------------------------------------------------------------
Done == \A r \in Ranks : todo[r] = <<>>

Next ==
    \/ \E r \in Ranks : Throw(r)
    \/ \E r \in Ranks : Cached(r)
    \/ \E r \in Ranks : Enter(r)
    \/ \E r \in waiting : Calls(r, "extend") /\ Extend(Head(todo[r]))
    \/ \E r, q \in waiting : Connect(r, q)
    \/ \E r \in waiting : Free(r)
    \/ \E r \in waiting : PopBack(r)
    \/ Done /\ UNCHANGED vars

Spec == Init /\ [][Next]_vars

\* every rank runs, and an MPI call that all have entered returns
FairSpec == Spec /\ WF_vars(Next)

-----------------------------------------------------------------------------
(* Properties                                                               *)

\* the levels of all ranks
Levels == UNION {{<<r, k>> : k \in DOMAIN levels[r]} : r \in Ranks}

TypeOK ==
    /\ plan \in Plans /\ waiting \subseteq Ranks /\ refused \subseteq Ranks
    /\ \A r \in waiting : todo[r] # <<>>
    /\ \A e \in Levels :
          LET v == levels[e[1]][e[2]] IN
          /\ e[1] \in ToSet(v.local) /\ ToSet(v.local) \subseteq ToSet(v.world)
          /\ v.color \in Nat /\ \A n \in DOMAIN v.groups : v.groups[n].size \in Nat
          /\ v.group \in DOMAIN v.groups /\ DOMAIN v.cache \subseteq DOMAIN v.groups

\* The group map (computed from the sizes by every rank alone) is what MPI_Comm_split
\* has made of the level: a rank's group has the size of its local communicator and
\* the leader that is its rank 0, every rank of the level's world is in the range of
\* exactly one group and no range leaves it, and the color finds the group among the
\* procs (henson-hwl.cpp:206).
LayoutSound ==
    \A e \in Levels :
        LET v == levels[e[1]][e[2]] IN
        /\ v.groups[v.group].size = Len(v.local)
        /\ v.world[v.groups[v.group].leader + 1] = v.local[1]
        /\ \A n \in DOMAIN v.groups : v.groups[n].leader + v.groups[n].size <= Len(v.world)
        /\ \A i \in DOMAIN v.world : \E n \in DOMAIN v.groups : \A m \in DOMAIN v.groups :
              i \in v.groups[m].leader + 1 .. v.groups[m].leader + v.groups[m].size <=> m = n
        /\ v.id = 0 => plan.procs[v.color + 1].name = v.group

\* Whatever level intercomm() finds its answer on, it leads to the group that was
\* asked for, all ranks of that group have the same under the name of this group, and
\* both sides number the ranks of the intracommunicator in the same way.
SidesMatch ==
    \A e \in Levels :
        LET v == levels[e[1]][e[2]] IN
        \A to \in DOMAIN v.cache :
            LET remote == CHOOSE s \in v.cache[to].sides : s # v.local IN
            \A q \in ToSet(remote) : \E k \in DOMAIN levels[q] :
                LET w == levels[q][k] IN
                /\ w.id = v.id /\ w.group = to
                /\ v.group \in DOMAIN w.cache /\ w.cache[v.group] = v.cache[to]

\* All ranks get through their calls: creating each other's communicators, finding
\* them again (on either level), and freeing them in pop_back(), whatever the order in
\* which the groups had created them.
Termination == <>Done
=============================================================================
