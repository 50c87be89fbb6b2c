-------------------------- MODULE ProcMap_proofs --------------------------
(***************************************************************************)
(* ProcMap for all plans whose group sizes are natural numbers: TypeOK,      *)
(* LayoutSound and SidesMatch; and that parse_procs() gives such sizes.      *)
(*                                                                          *)
(* A level is determined by its id and the rank, but for its cache; what a   *)
(* cache has under a name is determined by the level and the name. So the    *)
(* invariant says where in its programme every rank is, that its levels are  *)
(* those of this place, and that a group has an entry for another one only   *)
(* as long as all ranks of the other have one for it.                        *)
(***************************************************************************)
EXTENDS ProcMap, TLAPS, FiniteSetTheorems, SequenceTheorems, WellFoundedInduction,
        NaturalsInduction

-----------------------------------------------------------------------------
(* The invariant                                                            *)

World(p)  == 0 .. p.size - 1
JobIds(p) == 1 .. Len(p.jobs)
Op(p, id) == IF id = 0 THEN Outer(p) ELSE Inner(p, id)

Call(p) == {Asking(to) : to \in Nat} \cup {Popping} \cup {Op(p, id) : id \in {0} \cup JobIds(p)}

\* the plan is one of Plans, and has natural sizes
Planned(p) == p \in Plans /\ NaturalSizes(p)

Place(op, r) == Index(op.world, r)

\* what extend() has computed on rank r, the cache aside
Made(p, r, v) ==
    /\ v.id \in {0} \cup JobIds(p) /\ r \in ToSet(Op(p, v.id).world)
    /\ Total(Op(p, v.id).procs) = Len(Op(p, v.id).world)
    /\ v = [NewLevel(r, Op(p, v.id)) EXCEPT !.cache = v.cache]

\* one level, or two: that of the program and that of a job
Stack(p, r, L) ==
    \/ L = <<>>
    \/ L = <<L[1]>> /\ Made(p, r, L[1]) /\ L[1].id = 0
    \/ L = <<L[1], L[2]>> /\ Made(p, r, L[1]) /\ L[1].id = 0 /\ Made(p, r, L[2]) /\ L[2].id # 0

Top(L) == L[Len(L)]

\* the ranks of a group, in the order of the level's world
Position(procs, g) == CHOOSE k \in DOMAIN procs : procs[k].name = g
Side(op, g) ==
    LET k == Position(op.procs, g) IN
    [n \in 1 .. op.procs[k].size |-> op.world[Before(op.procs, k) + n]]
Lead(op, g) == Before(op.procs, Position(op.procs, g))

\* what two groups of a level have in common
Shared(op, g, to) ==
    [sides |-> {Side(op, g), Side(op, to)},
     intra |-> IF Lead(op, g) > Lead(op, to) THEN Side(op, to) \o Side(op, g)
                                             ELSE Side(op, g) \o Side(op, to)]

\* a rank with these levels is on this one, and asked for the group there
Has(L, id, to) == \E k \in DOMAIN L : L[k].id = id /\ to \in DOMAIN L[k].cache

Entry(p, l, v, to) ==
    /\ Reaches(Op(p, v.id).procs, v.group, to)
    /\ v.cache[to] = Shared(Op(p, v.id), v.group, to)
    /\ \A q \in ToSet(Side(Op(p, v.id), to)) : Has(l[q], v.id, v.group)

Entries(p, l, L) == \A k \in DOMAIN L : \A to \in DOMAIN L[k].cache : Entry(p, l, L[k], to)

\* How far a rank with the levels L and the calls T has come: k calls of its programme P
\* are done, and it has still to ask for a groups on its current level
Allowed(p, L, to) ==
    \/ Reaches(Op(p, Top(L).id).procs, Top(L).group, to)
    \/ Len(L) = 2 /\ to \in Asks(Outer(p), L[1].group)

Depth(P, k) == IF k = 0 THEN 0 ELSE IF k > 1 /\ P[k].op = "extend" THEN 2 ELSE 1

Come(p, P, L, T, k, a) ==
    /\ k \in 0 .. Len(P) - 1 /\ a \in Nat /\ (k = 0 => a = 0)
    /\ Len(T) = a + (Len(P) - k)
    /\ \A i \in 1 .. a : \E to \in Nat : T[i] = Asking(to) /\ Allowed(p, L, to)
    /\ \A i \in 1 .. Len(P) - k : T[a + i] = P[k + i]
    /\ Len(L) = Depth(P, k)

\* ... and before it returns from its last job it has asked for all the groups it asks for
\* outside, or is about to
Asked(p, P, L, T, k, a) ==
    k \in 1 .. Len(P) - 2 =>
        \A to \in Asks(Outer(p), L[1].group) :
            \/ to \in DOMAIN L[1].cache
            \/ k = 1 /\ \E i \in 1 .. a : T[i] = Asking(to)

Running(p, r, L, T) ==
    \E k, a \in Nat : Come(p, Programme(p, r), L, T, k, a) /\ Asked(p, Programme(p, r), L, T, k, a)

\* why a rank is inside its current call
Heads(T, op) == Head(T).op = op
Lacks(L, to) == \A k \in DOMAIN L : to \notin DOMAIN L[k].cache
Inside(L, T) ==
    /\ T # <<>>
    /\ Heads(T, "extend") => Total(Head(T).procs) = Len(Head(T).world)
    /\ Heads(T, "intercomm") => Lacks(L, Head(T).to)

Sound(p, l, r, T) ==
    /\ T \in Seq(Call(p)) /\ Stack(p, r, l[r]) /\ Entries(p, l, l[r])
    /\ T = <<>> \/ Running(p, r, l[r], T)

InvOf(p, t, w, l) ==
    /\ Planned(p) /\ w \subseteq World(p)
    /\ t = [r \in World(p) |-> t[r]] /\ l = [r \in World(p) |-> l[r]]
    /\ \A r \in World(p) : Sound(p, l, r, t[r])
    /\ \A r \in w : Inside(l[r], t[r])

Inv == InvOf(plan, todo, waiting, levels) /\ refused \subseteq Ranks

-----------------------------------------------------------------------------
(* Induction over the natural numbers, for a set                            *)

LEMMA NatOrder ==
    \E R : IsWellFoundedOn(R, Nat) /\ \A x, y \in Nat : y < x => <<y, x>> \in R
<1>1. IsWellFoundedOn(OpToRel(<, Nat), Nat)
  BY NatLessThanWellFounded
<1>2. \A x, y \in Nat : y < x => <<y, x>> \in OpToRel(<, Nat)
  BY Zenon DEF OpToRel
<1> QED
  BY <1>1, <1>2, Zenon

LEMMA Smallest ==
    ASSUME NEW T, T \subseteq Nat, T # {}
    PROVE  \E x \in T : \A y \in T : x <= y
<1>1. PICK R : IsWellFoundedOn(R, Nat) /\ \A x, y \in Nat : y < x => <<y, x>> \in R
  BY NatOrder
<1>2. \E x \in T : \A y \in T : ~ (<<y, x>> \in R)
  BY <1>1, WFMin, Zenon
<1>3. PICK x \in T : \A y \in T : ~ (<<y, x>> \in R)
  BY <1>2
<1>4. ASSUME NEW y \in T PROVE x <= y
  <2>1. x \in Nat /\ y \in Nat /\ ~ (<<y, x>> \in R)
    BY <1>3
  <2>2. y < x => <<y, x>> \in R
    BY <1>1, <2>1, Zenon
  <2> QED
    BY <2>1, <2>2
<1> QED
  BY <1>4

LEMMA Induction ==
    ASSUME NEW S, 0 \in S, \A n \in Nat : n \in S => n + 1 \in S
    PROVE  Nat \subseteq S
<1> SUFFICES ASSUME Nat \ S # {} PROVE FALSE
  OBVIOUS
<1>1. PICK x \in Nat \ S : \A y \in Nat \ S : x <= y
  BY Smallest
<1>2. x - 1 \in Nat /\ x - 1 \in S
  BY <1>1
<1> QED
  BY <1>1, <1>2

\* f[n] is computed from f[n - 1]
Computes(f, N, base, step) ==
    f = [n \in 0 .. N |-> IF n = 0 THEN base ELSE step[<<n, f[n - 1]>>]]

LEMMA Recursion ==
    ASSUME NEW N \in Nat, NEW V, NEW base \in V, NEW step \in [(1 .. N) \X V -> V]
    PROVE  \E f \in [0 .. N -> V] : Computes(f, N, base, step)
<1> DEFINE S == {n \in Nat : n <= N => \E f \in [0 .. n -> V] : Computes(f, n, base, step)}
<1>1. 0 \in S
  <2>1. PICK f : f = [n \in 0 .. 0 |-> base]
    OBVIOUS
  <2>2. f \in [0 .. 0 -> V] /\ Computes(f, 0, base, step)
    BY <2>1 DEF Computes
  <2> QED
    BY <2>2
<1>2. ASSUME NEW n \in Nat, n \in S PROVE n + 1 \in S
  <2> SUFFICES ASSUME n + 1 <= N
               PROVE  \E f \in [0 .. n + 1 -> V] : Computes(f, n + 1, base, step)
    OBVIOUS
  <2>1. PICK f \in [0 .. n -> V] : Computes(f, n, base, step)
    BY <1>2
  <2>2. \A i \in 0 .. n : f[i] = IF i = 0 THEN base ELSE step[<<i, f[i - 1]>>]
    BY <2>1 DEF Computes
  <2>3. PICK x : x = step[<<n + 1, f[n]>>]
    OBVIOUS
  <2>4. x \in V
    <3>1. <<n + 1, f[n]>> \in (1 .. N) \X V
      BY <2>1
    <3> QED
      BY <2>3, <3>1
  <2>5. PICK g : g = [i \in 0 .. n + 1 |-> IF i = n + 1 THEN x ELSE f[i]]
    OBVIOUS
  <2>6. g \in [0 .. n + 1 -> V]
    BY <2>1, <2>4, <2>5
  <2>7. \A i \in 0 .. n + 1 : g[i] = IF i = n + 1 THEN x ELSE f[i]
    BY <2>5
  <2>8. ASSUME NEW i \in 0 .. n + 1
        PROVE  g[i] = IF i = 0 THEN base ELSE step[<<i, g[i - 1]>>]
    <3>1. CASE i = n + 1
      <4>1. n \in 0 .. n + 1 /\ n # n + 1 /\ i - 1 = n /\ i # 0
        BY <3>1
      <4>2. g[n] = f[n]
        BY <2>7, <4>1
      <4>3. g[i] = step[<<n + 1, f[n]>>]
        BY <2>3, <2>7, <3>1
      <4> QED
        BY <3>1, <4>1, <4>2, <4>3
    <3>2. CASE i # n + 1
      <4>1. i \in 0 .. n /\ g[i] = f[i]
        BY <2>7, <3>2
      <4>2. i # 0 => g[i - 1] = f[i - 1]
        BY <2>7, <4>1
      <4> QED
        BY <2>2, <4>1, <4>2
    <3> QED
      BY <3>1, <3>2
  <2>9. Computes(g, n + 1, base, step)
    BY <2>6, <2>8 DEF Computes
  <2> QED
    BY <2>6, <2>9
<1>3. Nat \subseteq S
  <2> HIDE DEF S
  <2> QED
    BY <1>1, <1>2, Induction
<1> QED
  BY <1>3

-----------------------------------------------------------------------------
(* Running totals                                                           *)

Totals(procs, f) ==
    f = [n \in 0 .. Len(procs) |-> IF n = 0 THEN 0 ELSE f[n - 1] + procs[n].size]

LEMMA BeforeFacts ==
    ASSUME NEW procs, Division(procs)
    PROVE  /\ Len(procs) \in Nat /\ DOMAIN procs = 1 .. Len(procs) /\ Before(procs, 1) = 0
           /\ \A k \in 1 .. Len(procs) + 1 : Before(procs, k) \in Int
           /\ \A k \in 1 .. Len(procs) :
                 /\ procs[k].name \in Nat /\ procs[k].size \in Int
                 /\ Before(procs, k + 1) = Before(procs, k) + procs[k].size
<1>1. /\ Len(procs) \in Nat /\ DOMAIN procs = 1 .. Len(procs)
      /\ \A k \in 1 .. Len(procs) : procs[k] \in [name : Nat, size : Int]
  BY LenProperties, ElementOfSeq DEF Division
<1>2. PICK N \in Nat : N = Len(procs)
  BY <1>1
<1>3. PICK step : step = [x \in (1 .. N) \X Int |-> x[2] + procs[x[1]].size]
  OBVIOUS
<1>4. step \in [(1 .. N) \X Int -> Int]
  BY <1>1, <1>2, <1>3
<1>5. PICK f \in [0 .. N -> Int] : Computes(f, N, 0, step)
  <2>1. 0 \in Int
    OBVIOUS
  <2> QED
    BY <1>4, <2>1, Recursion, Zenon
<1>6. \A n \in 0 .. N : f[n] = IF n = 0 THEN 0 ELSE f[n - 1] + procs[n].size
  <2>1. \A n \in 0 .. N : f[n] = IF n = 0 THEN 0 ELSE step[<<n, f[n - 1]>>]
    BY <1>5 DEF Computes
  <2>2. ASSUME NEW n \in 1 .. N PROVE step[<<n, f[n - 1]>>] = f[n - 1] + procs[n].size
    <3>1. <<n, f[n - 1]>> \in (1 .. N) \X Int
      BY <1>5
    <3> QED
      BY <1>3, <3>1
  <2>3. ASSUME NEW n \in 0 .. N PROVE f[n] = IF n = 0 THEN 0 ELSE f[n - 1] + procs[n].size
    <3>1. CASE n = 0
      BY <2>1, <3>1
    <3>2. CASE n # 0
      <4>1. n \in 1 .. N /\ f[n] = step[<<n, f[n - 1]>>]
        BY <2>1, <3>2
      <4> QED
        BY <2>2, <3>2, <4>1
    <3> QED
      BY <3>1, <3>2
  <2> QED
    BY <2>3
<1>7. Totals(procs, f)
  BY <1>2, <1>5, <1>6 DEF Totals
<1>8. PICK s : s = CHOOSE g : Totals(procs, g)
  OBVIOUS
<1>9. Totals(procs, s)
  BY <1>7, <1>8
<1>10. \A n \in 0 .. N : s[n] = IF n = 0 THEN 0 ELSE s[n - 1] + procs[n].size
  BY <1>2, <1>9 DEF Totals
<1>11. \A k : Before(procs, k) = s[k - 1]
  BY <1>8 DEF Before, Totals
<1>12. \A n \in 0 .. N : s[n] \in Int
  <2> DEFINE S == {n \in Nat : n <= N => s[n] \in Int}
  <2>1. 0 \in S
    BY <1>10
  <2>2. ASSUME NEW n \in Nat, n \in S PROVE n + 1 \in S
    <3> SUFFICES ASSUME n + 1 <= N PROVE s[n + 1] \in Int
      OBVIOUS
    <3>1. s[n] \in Int
      BY <2>2
    <3>2. s[n + 1] = s[n] + procs[n + 1].size
      BY <1>10
    <3>3. procs[n + 1].size \in Int
      BY <1>1, <1>2
    <3> QED
      BY <3>1, <3>2, <3>3
  <2>3. Nat \subseteq S
    <3> HIDE DEF S
    <3> QED
      BY <2>1, <2>2, Induction
  <2> QED
    BY <2>3
<1>13. Before(procs, 1) = 0
  BY <1>10, <1>11
<1>14. \A k \in 1 .. N + 1 : Before(procs, k) \in Int
  <2>1. \A k \in 1 .. N + 1 : k - 1 \in 0 .. N
    OBVIOUS
  <2> QED
    BY <1>11, <1>12, <2>1
<1>15. ASSUME NEW k \in 1 .. N
       PROVE  /\ procs[k].name \in Nat /\ procs[k].size \in Int
              /\ Before(procs, k + 1) = Before(procs, k) + procs[k].size
  <2>1. s[k] = s[k - 1] + procs[k].size
    BY <1>10
  <2>2. Before(procs, k + 1) = s[k] /\ Before(procs, k) = s[k - 1]
    <3>1. (k + 1) - 1 = k
      OBVIOUS
    <3> QED
      BY <1>11, <3>1
  <2> QED
    BY <1>1, <1>2, <2>1, <2>2
<1> QED
  BY <1>1, <1>2, <1>13, <1>14, <1>15

\* the groups of a level that has been made, and all group sizes are natural
Divided(procs) ==
    /\ Division(procs)
    /\ \A k \in DOMAIN procs : procs[k].size \in Nat

LEMMA Increasing ==
    ASSUME NEW procs, Divided(procs), NEW j \in 1 .. Len(procs) + 1
    PROVE  \A k \in j .. Len(procs) + 1 : Before(procs, j) <= Before(procs, k)
<1>1. /\ Len(procs) \in Nat
      /\ \A k \in 1 .. Len(procs) + 1 : Before(procs, k) \in Int
      /\ \A k \in 1 .. Len(procs) : /\ procs[k].size \in Nat
                                    /\ Before(procs, k + 1) = Before(procs, k) + procs[k].size
  BY BeforeFacts DEF Divided
<1> DEFINE S == {n \in Nat : j + n <= Len(procs) + 1 => Before(procs, j) <= Before(procs, j + n)}
<1>2. 0 \in S
  BY <1>1
<1>3. ASSUME NEW n \in Nat, n \in S PROVE n + 1 \in S
  <2> SUFFICES ASSUME j + (n + 1) <= Len(procs) + 1
               PROVE  Before(procs, j) <= Before(procs, j + (n + 1))
    OBVIOUS
  <2>1. PICK k \in 1 .. Len(procs) : k = j + n /\ k + 1 = j + (n + 1)
    BY <1>1
  <2>2. Before(procs, j) <= Before(procs, k)
    BY <1>1, <1>3, <2>1
  <2>3. Before(procs, k + 1) = Before(procs, k) + procs[k].size /\ procs[k].size \in Nat
    BY <1>1
  <2> QED
    BY <1>1, <2>1, <2>2, <2>3
<1>4. Nat \subseteq S
  <2> HIDE DEF S
  <2> QED
    BY <1>2, <1>3, Induction
<1>5. ASSUME NEW k \in j .. Len(procs) + 1 PROVE Before(procs, j) <= Before(procs, k)
  <2>1. k - j \in Nat /\ j + (k - j) = k
    BY <1>1
  <2>2. k - j \in S
    BY <1>4, <2>1
  <2> QED
    BY <1>1, <2>1, <2>2
<1> QED
  BY <1>5

-----------------------------------------------------------------------------
(* Where a rank of a level is: its color, its group, its local communicator *)

Within(procs, i, k) == Before(procs, k) <= i /\ i < Before(procs, k + 1)

LEMMA DividedFacts ==
    ASSUME NEW procs, Divided(procs)
    PROVE  /\ Len(procs) \in Nat /\ DOMAIN procs = 1 .. Len(procs) /\ Before(procs, 1) = 0
           /\ \A k \in 1 .. Len(procs) + 1 : Before(procs, k) \in Nat
           /\ \A k \in 1 .. Len(procs) :
                 /\ procs[k].name \in Nat /\ procs[k].size \in Nat
                 /\ Before(procs, k + 1) = Before(procs, k) + procs[k].size
<1>1. /\ Len(procs) \in Nat /\ DOMAIN procs = 1 .. Len(procs) /\ Before(procs, 1) = 0
      /\ \A k \in 1 .. Len(procs) + 1 : Before(procs, k) \in Int
      /\ \A k \in 1 .. Len(procs) :
            /\ procs[k].name \in Nat
            /\ Before(procs, k + 1) = Before(procs, k) + procs[k].size
  BY BeforeFacts DEF Divided
<1>2. \A k \in 1 .. Len(procs) : procs[k].size \in Nat
  BY <1>1 DEF Divided
<1>3. \A k \in 1 .. Len(procs) + 1 : Before(procs, 1) <= Before(procs, k)
  <2>1. 1 \in 1 .. Len(procs) + 1
    BY <1>1
  <2> QED
    BY <2>1, Increasing
<1> QED
  BY <1>1, <1>2, <1>3

\* every number below the total is in the range of a group
LEMMA Located ==
    ASSUME NEW procs, Divided(procs), NEW i \in Nat, i < Total(procs)
    PROVE  \E k \in 1 .. Len(procs) : Within(procs, i, k)
<1>1. PICK N \in Nat : N = Len(procs)
  BY DividedFacts
<1>2. Before(procs, 1) = 0 /\ \A k \in 1 .. N + 1 : Before(procs, k) \in Nat
  BY <1>1, DividedFacts
<1>3. i < Before(procs, N + 1)
  BY <1>1 DEF Total
<1> DEFINE T == {k \in 1 .. N : i < Before(procs, k + 1)}
<1>4. N # 0
  BY <1>2, <1>3
<1>5. N \in T
  BY <1>3, <1>4
<1>6. PICK k \in T : \A j \in T : k <= j
  <2>1. T \subseteq Nat /\ T # {}
    BY <1>5
  <2> HIDE DEF T
  <2> QED
    BY <2>1, Smallest
<1>7. k \in 1 .. N /\ i < Before(procs, k + 1)
  BY <1>6
<1>8. Before(procs, k) <= i
  <2>1. CASE k = 1
    BY <1>2, <2>1
  <2>2. CASE k # 1
    <3>1. k - 1 \in 1 .. N /\ (k - 1) + 1 = k /\ ~(k <= k - 1)
      BY <1>7, <2>2
    <3>2. ~(i < Before(procs, k))
      BY <1>6, <3>1
    <3>3. Before(procs, k) \in Nat
      BY <1>2, <1>7
    <3> QED
      BY <3>2, <3>3
  <2> QED
    BY <2>1, <2>2
<1> QED
  BY <1>1, <1>7, <1>8 DEF Within

LEMMA ColorAndGroup ==
    ASSUME NEW procs, Divided(procs), NEW i \in Nat,
           NEW k \in 1 .. Len(procs), Within(procs, i, k)
    PROVE  Color(procs, i) = k - 1 /\ Group(procs, i) = procs[k].name
<1>1. PICK N \in Nat : N = Len(procs) /\ DOMAIN procs = 1 .. N /\ k \in 1 .. N
  BY DividedFacts
<1>2. \A j \in 1 .. N + 1 : Before(procs, j) \in Nat
  BY <1>1, DividedFacts
<1>3. Before(procs, k) <= i /\ i < Before(procs, k + 1)
  BY DEF Within
<1>4. ASSUME NEW j \in 1 .. N + 1, j <= k PROVE Before(procs, j) <= i
  <2>1. Before(procs, j) <= Before(procs, k)
    <3>1. k \in j .. Len(procs) + 1 /\ j \in 1 .. Len(procs) + 1
      BY <1>1, <1>4
    <3> QED
      BY <3>1, Increasing
  <2>2. Before(procs, j) \in Nat /\ Before(procs, k) \in Nat
    BY <1>1, <1>2
  <2> QED
    BY <1>3, <2>1, <2>2
<1>5. ASSUME NEW j \in 1 .. N + 1, j > k PROVE ~(Before(procs, j) <= i)
  <2>1. Before(procs, k + 1) <= Before(procs, j)
    <3>1. j \in k + 1 .. Len(procs) + 1 /\ k + 1 \in 1 .. Len(procs) + 1
      BY <1>1, <1>5
    <3> QED
      BY <3>1, Increasing
  <2>2. Before(procs, j) \in Nat /\ Before(procs, k + 1) \in Nat
    BY <1>1, <1>2
  <2> QED
    BY <1>3, <2>1, <2>2
<1>6. \A j \in 1 .. N + 1 : i >= Before(procs, j) <=> j <= k
  <2>1. ASSUME NEW j \in 1 .. N + 1 PROVE i >= Before(procs, j) <=> j <= k
    <3>1. Before(procs, j) \in Nat
      BY <1>2
    <3>2. Before(procs, j) <= i <=> j <= k
      BY <1>4, <1>5, <1>1
    <3> QED
      BY <3>1, <3>2
  <2> QED
    BY <2>1
<1>7. {j \in DOMAIN procs : i >= Before(procs, j + 1)} = 1 .. k - 1
  <2>1. ASSUME NEW j \in 1 .. N PROVE i >= Before(procs, j + 1) <=> j <= k - 1
    <3>1. j + 1 \in 1 .. N + 1 /\ (j + 1 <= k <=> j <= k - 1)
      BY <1>1
    <3> QED
      BY <1>6, <3>1
  <2>2. {j \in 1 .. N : j <= k - 1} = 1 .. k - 1
    BY <1>1
  <2> QED
    BY <1>1, <2>1, <2>2
<1>8. Color(procs, i) = k - 1
  <2>1. Cardinality(1 .. k - 1) = IF 1 > k - 1 THEN 0 ELSE (k - 1) - 1 + 1
    BY <1>1, FS_Interval
  <2>2. Cardinality(1 .. k - 1) = k - 1
    BY <1>1, <2>1
  <2> QED
    BY <1>7, <2>2, Zenon DEF Color
<1>9. \A n \in DOMAIN procs :
         (/\ i >= Before(procs, n)
          /\ \A j \in DOMAIN procs : i >= Before(procs, j) => j <= n) <=> n = k
  <2>1. ASSUME NEW n \in 1 .. N PROVE i >= Before(procs, n) <=> n <= k
    BY <1>6
  <2> QED
    BY <1>1, <2>1
<1>10. Group(procs, i) = procs[k].name
  BY <1>1, <1>9 DEF Group
<1> QED
  BY <1>8, <1>10

LEMMA GroupMapFacts ==
    ASSUME NEW procs, Divided(procs)
    PROVE  /\ DOMAIN GroupMap(procs) = Named(procs)
           /\ \A k \in 1 .. Len(procs) :
                 /\ procs[k].name \in Named(procs) /\ Position(procs, procs[k].name) = k
                 /\ GroupMap(procs)[procs[k].name]
                      = [leader |-> Before(procs, k), size |-> procs[k].size]
<1>1. DOMAIN procs = 1 .. Len(procs) /\ Len(procs) \in Nat
  BY DividedFacts
<1>2. \A j, k \in DOMAIN procs : procs[j].name = procs[k].name => j = k
  BY DEF Divided, Division
<1>3. DOMAIN GroupMap(procs) = Named(procs)
  BY DEF GroupMap, Named
<1>4. ASSUME NEW k \in 1 .. Len(procs)
      PROVE  /\ procs[k].name \in Named(procs) /\ Position(procs, procs[k].name) = k
             /\ GroupMap(procs)[procs[k].name]
                  = [leader |-> Before(procs, k), size |-> procs[k].size]
  <2>1. procs[k].name \in Named(procs)
    BY <1>1 DEF Named
  <2>2. Position(procs, procs[k].name) = k
    BY <1>1, <1>2 DEF Position
  <2>3. \A n \in DOMAIN procs :
           (/\ procs[n].name = procs[k].name
            /\ \A j \in DOMAIN procs : procs[j].name = procs[k].name => j <= n) <=> n = k
    BY <1>1, <1>2
  <2>4. (CHOOSE n \in DOMAIN procs :
           /\ procs[n].name = procs[k].name
           /\ \A j \in DOMAIN procs : procs[j].name = procs[k].name => j <= n) = k
    BY <1>1, <2>3
  <2>5. GroupMap(procs)[procs[k].name] = [leader |-> Before(procs, k), size |-> procs[k].size]
    BY <2>1, <2>4, Zenon DEF GroupMap, Named
  <2> QED
    BY <2>1, <2>2, <2>5
<1> QED
  BY <1>3, <1>4

\* a level whose sizes add up: extend() does not throw
Fits(op) ==
    /\ Divided(op.procs) /\ Total(op.procs) = Len(op.world)
    /\ op.world \in Seq(Nat) /\ IsInjective(op.world)

LEMMA Places ==
    ASSUME NEW op, Fits(op)
    PROVE  /\ Len(op.world) \in Nat /\ DOMAIN op.world = 1 .. Len(op.world)
           /\ \A i \in 1 .. Len(op.world) :
                 /\ op.world[i] \in Nat /\ op.world[i] \in ToSet(op.world)
                 /\ Place(op, op.world[i]) = i - 1
           /\ \A r \in ToSet(op.world) :
                 /\ Place(op, r) \in Nat /\ Place(op, r) < Len(op.world)
                 /\ Place(op, r) + 1 \in 1 .. Len(op.world) /\ op.world[Place(op, r) + 1] = r
<1>1. Len(op.world) \in Nat /\ DOMAIN op.world = 1 .. Len(op.world)
  BY LenProperties DEF Fits
<1>2. \A i, j \in 1 .. Len(op.world) : op.world[i] = op.world[j] => i = j
  BY <1>1 DEF Fits, IsInjective
<1>3. ASSUME NEW i \in 1 .. Len(op.world)
      PROVE  /\ op.world[i] \in Nat /\ op.world[i] \in ToSet(op.world)
             /\ Place(op, op.world[i]) = i - 1
  <2>1. op.world[i] \in Nat /\ op.world[i] \in ToSet(op.world)
    BY <1>1, ElementOfSeq DEF Fits, ToSet
  <2>2. (CHOOSE k \in DOMAIN op.world : op.world[k] = op.world[i]) = i
    BY <1>1, <1>2
  <2> QED
    BY <2>1, <2>2 DEF Place, Index
<1>4. ASSUME NEW r \in ToSet(op.world)
      PROVE  /\ Place(op, r) \in Nat /\ Place(op, r) < Len(op.world)
             /\ Place(op, r) + 1 \in 1 .. Len(op.world) /\ op.world[Place(op, r) + 1] = r
  <2>1. PICK i \in 1 .. Len(op.world) : op.world[i] = r
    BY <1>1 DEF ToSet
  <2>2. Place(op, r) = i - 1
    BY <1>3, <2>1
  <2>3. (i - 1) + 1 = i /\ i - 1 \in Nat /\ i - 1 < Len(op.world)
    BY <1>1
  <2> QED
    BY <2>1, <2>2, <2>3
<1> QED
  BY <1>1, <1>3, <1>4

\* the k-th group of a level has z ranks, behind b others
Stands(op, k, b, z, g) ==
    /\ b \in Nat /\ z \in Nat /\ b + z <= Len(op.world)
    /\ Position(op.procs, g) = k /\ Lead(op, g) = b
    /\ Side(op, g) = [n \in 1 .. z |-> op.world[b + n]]
    /\ GroupMap(op.procs)[g] = [leader |-> b, size |-> z]
    /\ \A i \in 1 .. Len(op.world) : i \in b + 1 .. b + z <=> Color(op.procs, i - 1) = k - 1
    /\ \A i \in b + 1 .. b + z : i \in 1 .. Len(op.world) /\ Group(op.procs, i - 1) = g

LEMMA Members ==
    ASSUME NEW op, Fits(op), NEW k \in 1 .. Len(op.procs)
    PROVE  Stands(op, k, Before(op.procs, k), op.procs[k].size, op.procs[k].name)
<1> DEFINE b == Before(op.procs, k)
           z == op.procs[k].size
           g == op.procs[k].name
<1>1. Divided(op.procs) /\ Len(op.world) \in Nat
  BY Places DEF Fits
<1>2. /\ Len(op.procs) \in Nat /\ b \in Nat /\ z \in Nat /\ Before(op.procs, k + 1) = b + z
      /\ Before(op.procs, k + 1) \in Nat
  BY <1>1, DividedFacts
<1>3. b + z <= Len(op.world)
  <2>1. Len(op.procs) + 1 \in k + 1 .. Len(op.procs) + 1 /\ k + 1 \in 1 .. Len(op.procs) + 1
    BY <1>2
  <2>2. Before(op.procs, k + 1) <= Before(op.procs, Len(op.procs) + 1)
    BY <1>1, <2>1, Increasing
  <2>3. Before(op.procs, Len(op.procs) + 1) = Len(op.world)
    BY DEF Fits, Total
  <2> QED
    BY <1>2, <2>2, <2>3
<1>4. Position(op.procs, g) = k /\ GroupMap(op.procs)[g] = [leader |-> b, size |-> z]
  BY <1>1, GroupMapFacts
<1>5. Lead(op, g) = b /\ Side(op, g) = [n \in 1 .. z |-> op.world[b + n]]
  BY <1>4 DEF Lead, Side
<1>6. ASSUME NEW i \in b + 1 .. b + z
      PROVE  /\ i \in 1 .. Len(op.world) /\ Color(op.procs, i - 1) = k - 1
             /\ Group(op.procs, i - 1) = g
  <2>1. i \in 1 .. Len(op.world) /\ i - 1 \in Nat /\ b <= i - 1 /\ i - 1 < b + z
    BY <1>1, <1>2, <1>3
  <2>2. Within(op.procs, i - 1, k)
    BY <1>2, <2>1 DEF Within
  <2> QED
    BY <1>1, <2>1, <2>2, ColorAndGroup
<1>7. ASSUME NEW i \in 1 .. Len(op.world), Color(op.procs, i - 1) = k - 1
      PROVE  i \in b + 1 .. b + z
  <2>1. i - 1 \in Nat /\ i - 1 < Total(op.procs)
    BY <1>1 DEF Fits
  <2>2. PICK l \in 1 .. Len(op.procs) : Within(op.procs, i - 1, l)
    BY <1>1, <2>1, Located
  <2>3. Color(op.procs, i - 1) = l - 1
    BY <1>1, <2>1, <2>2, ColorAndGroup
  <2>4. l = k
    BY <1>2, <1>7, <2>3
  <2>5. b <= i - 1 /\ i - 1 < b + z
    BY <1>2, <2>2, <2>4 DEF Within
  <2> QED
    BY <1>1, <1>2, <2>5
<1> QED
  BY <1>2, <1>3, <1>4, <1>5, <1>6, <1>7 DEF Stands

\* the ranks of one color are those of the group, in the order of the world
LEMMA SplitIsSide ==
    ASSUME NEW op, Fits(op), NEW k \in 1 .. Len(op.procs)
    PROVE  Split(op, k - 1) = Side(op, op.procs[k].name)
<1>1. PICK b \in Nat, z \in Nat : Stands(op, k, b, z, op.procs[k].name)
  <2>1. PICK b, z : Stands(op, k, b, z, op.procs[k].name)
    BY Members
  <2>2. b \in Nat /\ z \in Nat
    BY <2>1 DEF Stands
  <2> QED
    BY <2>1, <2>2
<1>0. /\ b + z <= Len(op.world)
      /\ Side(op, op.procs[k].name) = [n \in 1 .. z |-> op.world[b + n]]
      /\ \A i \in 1 .. Len(op.world) :
            i \in b + 1 .. b + z <=> Color(op.procs, i - 1) = k - 1
  BY <1>1 DEF Stands
<1>2. Len(op.world) \in Nat /\ DOMAIN op.world = 1 .. Len(op.world)
  BY Places
<1>3. PICK mine : mine = {i \in DOMAIN op.world : Color(op.procs, i - 1) = k - 1}
  OBVIOUS
<1>4. mine = b + 1 .. b + z
  <2>1. b + 1 .. b + z \subseteq 1 .. Len(op.world)
    BY <1>0, <1>2
  <2> QED
    BY <1>0, <1>2, <1>3, <2>1
<1>5. Cardinality(mine) = z
  <2>1. Cardinality(b + 1 .. b + z) = IF b + 1 > b + z THEN 0 ELSE (b + z) - (b + 1) + 1
    BY FS_Interval
  <2>2. Cardinality(b + 1 .. b + z) = z
    BY <2>1
  <2> QED
    BY <1>4, <2>2
<1>6. ASSUME NEW n \in 1 .. z
      PROVE  (CHOOSE i \in mine : Cardinality({j \in mine : j <= i}) = n) = b + n
  <2>1. ASSUME NEW i \in mine PROVE Cardinality({j \in mine : j <= i}) = i - b
    <3>1. {j \in mine : j <= i} = b + 1 .. i
      BY <1>4
    <3>2. Cardinality(b + 1 .. i) = IF b + 1 > i THEN 0 ELSE i - (b + 1) + 1
      BY <1>4, FS_Interval
    <3>3. Cardinality(b + 1 .. i) = i - b
      BY <1>4, <3>2
    <3> QED
      BY <3>1, <3>3
  <2>2. b + n \in mine /\ \A i \in mine : i - b = n <=> i = b + n
    BY <1>4
  <2>3. \A i \in mine : Cardinality({j \in mine : j <= i}) = n <=> i = b + n
    BY <2>1, <2>2
  <2> QED
    BY <2>2, <2>3
<1>7. Split(op, k - 1)
        = [n \in 1 .. z |-> op.world[CHOOSE i \in mine : Cardinality({j \in mine : j <= i}) = n]]
  BY <1>3, <1>5 DEF Split
<1> QED
  BY <1>0, <1>6, <1>7

GroupOf(op, r) == Group(op.procs, Place(op, r))
LocalOf(op, r) == Split(op, Color(op.procs, Place(op, r)))

LEMMA SideFacts ==
    ASSUME NEW op, Fits(op), NEW g \in Named(op.procs)
    PROVE  /\ Lead(op, g) \in Nat /\ GroupMap(op.procs)[g].leader = Lead(op, g)
           /\ GroupMap(op.procs)[g].size = Len(Side(op, g))
           /\ Side(op, g) \in Seq(Nat) /\ Len(Side(op, g)) \in Nat
           /\ DOMAIN Side(op, g) = 1 .. Len(Side(op, g))
           /\ Lead(op, g) + Len(Side(op, g)) <= Len(op.world)
           /\ \A n \in 1 .. Len(Side(op, g)) : Side(op, g)[n] = op.world[Lead(op, g) + n]
           /\ \A i \in 1 .. Len(op.world) :
                 i \in Lead(op, g) + 1 .. Lead(op, g) + Len(Side(op, g))
                 <=> GroupOf(op, op.world[i]) = g
<1>1. PICK k \in 1 .. Len(op.procs) : op.procs[k].name = g
  BY DividedFacts DEF Named, Fits
<1>2. PICK b, z : Stands(op, k, b, z, g)
  BY <1>1, Members
<1>3. /\ b \in Nat /\ z \in Nat /\ b + z <= Len(op.world)
      /\ Lead(op, g) = b
      /\ Side(op, g) = [n \in 1 .. z |-> op.world[b + n]]
  BY <1>2 DEF Stands
<1>4. /\ \A i \in 1 .. Len(op.world) :
            i \in b + 1 .. b + z <=> Color(op.procs, i - 1) = k - 1
      /\ \A i \in b + 1 .. b + z : i \in 1 .. Len(op.world) /\ Group(op.procs, i - 1) = g
  BY <1>2 DEF Stands
<1>5. GroupMap(op.procs)[g] = [leader |-> b, size |-> z]
  BY <1>2 DEF Stands
<1>6. \A n \in 1 .. z : op.world[b + n] \in Nat
  <2>1. ASSUME NEW n \in 1 .. z PROVE b + n \in 1 .. Len(op.world)
    BY <1>3, <1>4
  <2>2. \A i \in 1 .. Len(op.world) : op.world[i] \in Nat
    BY Places
  <2> QED
    BY <2>1, <2>2
<1>7. Side(op, g) \in Seq(Nat)
  <2>1. Side(op, g) \in [1 .. z -> Nat]
    BY <1>3, <1>6
  <2> QED
    BY <1>3, <2>1, SeqDef
<1>8. DOMAIN Side(op, g) = 1 .. z /\ Len(Side(op, g)) \in Nat
      /\ DOMAIN Side(op, g) = 1 .. Len(Side(op, g))
  BY <1>3, <1>7, LenProperties
<1>9. Len(Side(op, g)) = z
  BY <1>3, <1>8
<1>10. ASSUME NEW i \in 1 .. Len(op.world), GroupOf(op, op.world[i]) = g PROVE i \in b + 1 .. b + z
  <2>1. i - 1 \in Nat /\ i - 1 < Total(op.procs) /\ Place(op, op.world[i]) = i - 1
    BY Places DEF Fits
  <2>2. Group(op.procs, i - 1) = g
    BY <1>10, <2>1 DEF GroupOf
  <2>3. PICK l \in 1 .. Len(op.procs) : Within(op.procs, i - 1, l)
    BY <2>1, Located DEF Fits
  <2>4. Color(op.procs, i - 1) = l - 1 /\ Group(op.procs, i - 1) = op.procs[l].name
    BY <2>1, <2>3, ColorAndGroup DEF Fits
  <2>5. l = k
    <3>1. Divided(op.procs)
      BY DEF Fits
    <3>2. DOMAIN op.procs = 1 .. Len(op.procs)
      BY <3>1, DividedFacts
    <3> QED
      BY <1>1, <2>2, <2>4, <3>1, <3>2 DEF Divided, Division
  <2> QED
    BY <1>4, <2>4, <2>5
<1>11. ASSUME NEW i \in 1 .. Len(op.world), i \in b + 1 .. b + z PROVE GroupOf(op, op.world[i]) = g
  <2>1. Place(op, op.world[i]) = i - 1
    BY Places
  <2> QED
    BY <1>4, <1>11, <2>1 DEF GroupOf
<1>12. \A n \in 1 .. z : Side(op, g)[n] = op.world[b + n]
  BY <1>3
<1> QED
  BY <1>3, <1>5, <1>7, <1>8, <1>9, <1>10, <1>11, <1>12

LEMMA SideRanks ==
    ASSUME NEW op, Fits(op), NEW g \in Named(op.procs)
    PROVE  \A q : q \in ToSet(Side(op, g)) <=> q \in ToSet(op.world) /\ GroupOf(op, q) = g
<1>1. PICK W \in Seq(Nat), S \in Seq(Nat), b \in Nat, z \in Nat :
         W = op.world /\ S = Side(op, g) /\ b = Lead(op, g) /\ z = Len(S)
  BY SideFacts DEF Fits
<1>2. /\ b + z <= Len(W) /\ DOMAIN S = 1 .. z /\ \A n \in 1 .. z : S[n] = W[b + n]
      /\ \A i \in 1 .. Len(W) : i \in b + 1 .. b + z <=> GroupOf(op, W[i]) = g
  <2>1. /\ DOMAIN Side(op, g) = 1 .. Len(Side(op, g))
        /\ Lead(op, g) + Len(Side(op, g)) <= Len(op.world)
        /\ \A n \in 1 .. Len(Side(op, g)) : Side(op, g)[n] = op.world[Lead(op, g) + n]
        /\ \A i \in 1 .. Len(op.world) :
              i \in Lead(op, g) + 1 .. Lead(op, g) + Len(Side(op, g))
              <=> GroupOf(op, op.world[i]) = g
    BY SideFacts
  <2> QED
    BY <1>1, <2>1
<1>3. Len(W) \in Nat /\ DOMAIN W = 1 .. Len(W)
  BY LenProperties
<1>4. ASSUME NEW q \in ToSet(S) PROVE q \in ToSet(W) /\ GroupOf(op, q) = g
  <2>1. PICK n \in 1 .. z : q = S[n]
    BY <1>2 DEF ToSet
  <2>2. b + n \in 1 .. Len(W) /\ b + n \in b + 1 .. b + z /\ q = W[b + n]
    BY <1>2, <1>3, <2>1
  <2> QED
    BY <1>2, <1>3, <2>2 DEF ToSet
<1>5. ASSUME NEW q \in ToSet(W), GroupOf(op, q) = g PROVE q \in ToSet(S)
  <2>1. PICK i \in 1 .. Len(W) : q = W[i]
    BY <1>3 DEF ToSet
  <2>2. i \in b + 1 .. b + z
    BY <1>2, <1>5, <2>1
  <2>3. i - b \in 1 .. z /\ b + (i - b) = i
    BY <2>2
  <2>4. S[i - b] = q
    BY <1>2, <2>1, <2>3
  <2> QED
    BY <1>2, <2>3, <2>4 DEF ToSet
<1> QED
  BY <1>1, <1>4, <1>5

LEMMA RankFacts ==
    ASSUME NEW op, Fits(op), NEW r \in ToSet(op.world)
    PROVE  /\ GroupOf(op, r) \in Named(op.procs) /\ LocalOf(op, r) = Side(op, GroupOf(op, r))
           /\ r \in ToSet(LocalOf(op, r)) /\ LocalOf(op, r) # <<>>
           /\ Color(op.procs, Place(op, r)) \in Nat
           /\ op.procs[Color(op.procs, Place(op, r)) + 1].name = GroupOf(op, r)
<1>1. PICK i \in Nat : i = Place(op, r) /\ i < Total(op.procs)
  BY Places DEF Fits
<1>2. PICK k \in 1 .. Len(op.procs) : Within(op.procs, i, k)
  BY <1>1, Located DEF Fits
<1>3. Color(op.procs, i) = k - 1 /\ Group(op.procs, i) = op.procs[k].name
  BY <1>2, ColorAndGroup DEF Fits
<1>4. op.procs[k].name \in Named(op.procs) /\ k \in Nat /\ k - 1 \in Nat /\ (k - 1) + 1 = k
  <2>1. Divided(op.procs)
    BY DEF Fits
  <2>2. op.procs[k].name \in Named(op.procs)
    BY <2>1, GroupMapFacts
  <2> QED
    BY <2>2
<1>5. LocalOf(op, r) = Side(op, GroupOf(op, r))
  BY <1>1, <1>3, SplitIsSide DEF LocalOf, GroupOf
<1>6. r \in ToSet(LocalOf(op, r))
  BY <1>1, <1>3, <1>4, <1>5, SideRanks DEF GroupOf
<1>7. LocalOf(op, r) # <<>>
  <2>1. ToSet(<<>>) = {}
    BY DEF ToSet
  <2> QED
    BY <1>6, <2>1
<1> QED
  BY <1>1, <1>3, <1>4, <1>5, <1>6, <1>7 DEF GroupOf

\* a group that is asked for has ranks, the first of them its leader
LEMMA ReachFacts ==
    ASSUME NEW op, Fits(op), NEW g, NEW to, Reaches(op.procs, g, to)
    PROVE  /\ to \in Named(op.procs) /\ to # g
           /\ Side(op, to) # <<>> /\ Side(op, to)[1] \in ToSet(Side(op, to))
           /\ Side(op, to)[1] = op.world[GroupMap(op.procs)[to].leader + 1]
           /\ Len(Side(op, to)) > 0
<1>1. PICK k \in 1 .. Len(op.procs) : op.procs[k].name = to /\ op.procs[k].size > 0 /\ to # g
  BY DividedFacts DEF Reaches, Fits
<1>2. to \in Named(op.procs) /\ GroupMap(op.procs)[to].size = op.procs[k].size
  <2>1. Divided(op.procs)
    BY DEF Fits
  <2>2. /\ op.procs[k].name \in Named(op.procs)
        /\ GroupMap(op.procs)[op.procs[k].name]
             = [leader |-> Before(op.procs, k), size |-> op.procs[k].size]
    BY <2>1, GroupMapFacts
  <2> QED
    BY <1>1, <2>2
<1>3. Len(Side(op, to)) \in Nat /\ Len(Side(op, to)) > 0
  BY <1>1, <1>2, SideFacts
<1>4. 1 \in DOMAIN Side(op, to) /\ 1 \in 1 .. Len(Side(op, to))
  BY <1>2, <1>3, SideFacts
<1>5. Side(op, to)[1] \in ToSet(Side(op, to))
  BY <1>4 DEF ToSet
<1>6. Side(op, to)[1] = op.world[GroupMap(op.procs)[to].leader + 1]
  BY <1>2, <1>4, SideFacts
<1>7. Side(op, to) # <<>>
  BY <1>3, EmptySeq
<1> QED
  BY <1>1, <1>2, <1>3, <1>5, <1>6, <1>7

-----------------------------------------------------------------------------
(* The plan and the programmes that it gives to the ranks                   *)

LEMMA PlanFacts ==
    ASSUME NEW p, Planned(p)
    PROVE  /\ p.size \in Nat \ {0} /\ Len(p.jobs) \in Nat /\ 0 \notin JobIds(p)
           /\ DOMAIN p.jobs = JobIds(p)
           /\ \A id \in {0} \cup JobIds(p) :
                 /\ Op(p, id) \in Call(p) /\ Op(p, id).op = "extend" /\ Op(p, id).id = id
                 /\ Extendable(Op(p, id), p.size) /\ Divided(Op(p, id).procs)
<1>1. /\ p.size \in Nat \ {0} /\ Len(p.jobs) \in Nat /\ DOMAIN p.jobs = JobIds(p)
      /\ Extendable(Outer(p), p.size)
      /\ \A j \in JobIds(p) : Extendable(Inner(p, j), p.size)
  BY PlansAssumption DEF PlansAssumption, Planned, JobIds
<1>2. 0 \notin JobIds(p)
  BY <1>1 DEF JobIds
<1>3. ASSUME NEW id \in {0} \cup JobIds(p)
      PROVE  /\ Op(p, id) \in Call(p) /\ Op(p, id).op = "extend" /\ Op(p, id).id = id
             /\ Extendable(Op(p, id), p.size)
  <2>1. Op(p, id) \in Call(p)
    BY DEF Call
  <2>2. Op(p, id).op = "extend" /\ Op(p, id).id = id
    BY <1>2 DEF Op, Outer, Inner, Extending
  <2>3. Extendable(Op(p, id), p.size)
    BY <1>1, <1>2 DEF Op
  <2> QED
    BY <2>1, <2>2, <2>3
<1>4. ASSUME NEW id \in {0} \cup JobIds(p) PROVE Divided(Op(p, id).procs)
  <2>1. Division(Op(p, id).procs)
    BY <1>3 DEF Extendable
  <2>2. CASE id = 0
    <3>1. Op(p, id).procs = p.procs
      BY <2>2 DEF Op, Outer, Extending
    <3> QED
      BY <2>1, <3>1 DEF Divided, Planned, NaturalSizes
  <2>3. CASE id # 0
    <3>1. Op(p, id).procs = p.jobs[id].procs /\ id \in DOMAIN p.jobs
      BY <1>1, <2>3 DEF Op, Inner, Extending
    <3> QED
      BY <2>1, <3>1 DEF Divided, Planned, NaturalSizes
  <2> QED
    BY <2>2, <2>3
<1> QED
  BY <1>1, <1>2, <1>3, <1>4

LEMMA PlanFits ==
    ASSUME NEW p, Planned(p), NEW id \in {0} \cup JobIds(p), Total(Op(p, id).procs) = Len(Op(p, id).world)
    PROVE  Fits(Op(p, id)) /\ ToSet(Op(p, id).world) \subseteq World(p)
<1>1. Extendable(Op(p, id), p.size) /\ Divided(Op(p, id).procs) /\ p.size \in Nat
  BY PlanFacts
<1>2. 0 .. p.size - 1 \subseteq Nat
  BY <1>1
<1>3. Op(p, id).world \in Seq(0 .. p.size - 1) /\ IsInjective(Op(p, id).world)
  BY <1>1 DEF Extendable
<1>4. Op(p, id).world \in Seq(Nat)
  BY <1>2, <1>3, SeqMonotonic
<1>5. ASSUME NEW r \in ToSet(Op(p, id).world) PROVE r \in World(p)
  <2>1. PICK i \in DOMAIN Op(p, id).world : Op(p, id).world[i] = r
    BY DEF ToSet
  <2>2. Op(p, id).world[i] \in 0 .. p.size - 1
    BY <1>3, <2>1, LenProperties, ElementOfSeq
  <2> QED
    BY <2>1, <2>2 DEF World
<1> QED
  BY <1>1, <1>3, <1>4, <1>5 DEF Fits

\* the world of the program is that of all ranks
LEMMA OuterWorld ==
    ASSUME NEW p, Planned(p)
    PROVE  Op(p, 0) = Outer(p) /\ \A r : r \in ToSet(Op(p, 0).world) <=> r \in World(p)
<1>1. p.size \in Nat /\ Op(p, 0) = Outer(p)
  BY PlanFacts DEF Op
<1>2. PICK n \in Nat : n = p.size
  BY <1>1
<1>3. Op(p, 0).world = [k \in 1 .. n |-> k - 1]
  BY <1>1, <1>2 DEF Outer, Extending
<1>4. ASSUME NEW r \in ToSet(Op(p, 0).world) PROVE r \in World(p)
  BY <1>2, <1>3 DEF ToSet, World
<1>5. ASSUME NEW r \in World(p) PROVE r \in ToSet(Op(p, 0).world)
  <2>1. r \in 0 .. n - 1
    BY <1>2 DEF World
  <2>2. r + 1 \in 1 .. n /\ (r + 1) - 1 = r
    BY <2>1
  <2>3. r + 1 \in DOMAIN Op(p, 0).world /\ Op(p, 0).world[r + 1] = r
    BY <1>3, <2>2
  <2> QED
    BY <2>3 DEF ToSet
<1> QED
  BY <1>1, <1>4, <1>5

\* r takes part in a job
Joins(p, r, id) == id \in JobIds(p) /\ r \in ToSet(Op(p, id).world)

\* levels are taken away in the order in which they have come
Paired(p, r, s) ==
    /\ s \in Seq(Call(p)) /\ (s # <<>> => s[Len(s)] = Popping)
    /\ \A i \in 1 .. Len(s) :
          \/ /\ \E id : Joins(p, r, id) /\ s[i] = Op(p, id)
             /\ i = 1 \/ s[i - 1] = Popping
             /\ i + 1 <= Len(s)
          \/ s[i] = Popping /\ i > 1 /\ s[i - 1].op = "extend"

LEMMA PairedMore ==
    ASSUME NEW p, Planned(p), NEW r, NEW s, Paired(p, r, s), NEW id, Joins(p, r, id)
    PROVE  Paired(p, r, s \o <<Op(p, id), Popping>>)
<1>1. PICK t : t = s \o <<Op(p, id), Popping>>
  OBVIOUS
<1>2. PICK n \in Nat : n = Len(s)
  BY LenProperties DEF Paired
<1>3. Op(p, id) \in Call(p) /\ Popping \in Call(p) /\ Op(p, id).op = "extend" /\ Popping.op # "extend"
  BY PlanFacts DEF Joins, Call, Popping
<1>4. <<Op(p, id), Popping>> \in Seq(Call(p)) /\ Len(<<Op(p, id), Popping>>) = 2
  BY <1>3
<1>5. /\ t \in Seq(Call(p)) /\ Len(t) = n + 2
      /\ \A i \in 1 .. n + 2 : t[i] = IF i <= n THEN s[i] ELSE <<Op(p, id), Popping>>[i - n]
  <2>1. s \in Seq(Call(p))
    BY DEF Paired
  <2> QED
    BY <1>1, <1>2, <1>4, <2>1, ConcatProperties
<1>6. /\ \A i \in 1 .. n : t[i] = s[i]
      /\ t[n + 1] = Op(p, id) /\ t[n + 2] = Popping
  <2>1. /\ n + 1 \in 1 .. n + 2 /\ n + 2 \in 1 .. n + 2
        /\ (n + 1) - n = 1 /\ (n + 2) - n = 2 /\ ~ (n + 1 <= n) /\ ~ (n + 2 <= n)
    OBVIOUS
  <2> QED
    BY <1>5, <2>1
<1>7. s # <<>> => s[n] = Popping
  BY <1>2 DEF Paired
<1>8. ASSUME NEW i \in 1 .. n + 2
      PROVE  \/ /\ \E j : Joins(p, r, j) /\ t[i] = Op(p, j)
                /\ i = 1 \/ t[i - 1] = Popping
                /\ i + 1 <= n + 2
             \/ t[i] = Popping /\ i > 1 /\ t[i - 1].op = "extend"
  <2>1. CASE i \in 1 .. n
    <3>1. \/ /\ \E j : Joins(p, r, j) /\ s[i] = Op(p, j)
             /\ i = 1 \/ s[i - 1] = Popping
             /\ i + 1 <= n
          \/ s[i] = Popping /\ i > 1 /\ s[i - 1].op = "extend"
      BY <1>2, <2>1 DEF Paired
    <3>2. t[i] = s[i] /\ (i # 1 => t[i - 1] = s[i - 1])
      BY <1>6, <2>1
    <3> QED
      BY <2>1, <3>1, <3>2
  <2>2. CASE i = n + 1
    <3>1. i = 1 \/ t[i - 1] = Popping
      <4>1. CASE n = 0
        BY <2>2, <4>1
      <4>2. CASE n # 0
        <5>1. s # <<>> /\ i - 1 = n /\ n \in 1 .. n
          BY <1>2, <2>2, <4>2, EmptySeq
        <5> QED
          BY <1>6, <1>7, <5>1
      <4> QED
        BY <4>1, <4>2
    <3> QED
      BY <1>6, <2>2, <3>1
  <2>3. CASE i = n + 2
    <3>1. i - 1 = n + 1 /\ i > 1
      BY <2>3
    <3> QED
      BY <1>3, <1>6, <2>3, <3>1
  <2> QED
    BY <2>1, <2>2, <2>3
<1>9. t[Len(t)] = Popping
  BY <1>5, <1>6
<1>10. Paired(p, r, t)
  BY <1>5, <1>8, <1>9 DEF Paired
<1> QED
  BY <1>1, <1>10

\* the part of a programme for the j-th job
Part(p, r, j) ==
    IF r \in ToSet(p.jobs[j].world) THEN <<Inner(p, j), Popping>> ELSE <<>>

Flattens(f, q) == f = [i \in 1 .. Len(q) |-> IF i = 1 THEN q[i] ELSE f[i - 1] \o q[i]]

\* what flattening has made of the first sequences
Partial(p, q, n, f) ==
    /\ f \in [1 .. n -> Seq(Call(p))]
    /\ \A i \in 1 .. n : f[i] = IF i = 1 THEN q[i] ELSE f[i - 1] \o q[i]
Begun(p, q, n) == n <= Len(q) => \E f : Partial(p, q, n, f)

LEMMA FlattenExists ==
    ASSUME NEW p, NEW q \in Seq(Seq(Call(p)))
    PROVE  \E f : Flattens(f, q)
<1> DEFINE S == {n \in Nat : Begun(p, q, n)}
<1>1. Len(q) \in Nat /\ \A i \in 1 .. Len(q) : q[i] \in Seq(Call(p))
  BY LenProperties, ElementOfSeq
<1>2. 0 \in S
  <2>1. [i \in 1 .. 0 |-> <<>>] \in [1 .. 0 -> Seq(Call(p))]
    OBVIOUS
  <2>2. Partial(p, q, 0, [i \in 1 .. 0 |-> <<>>])
    BY <2>1 DEF Partial
  <2> QED
    BY <2>2 DEF Begun
<1>3. ASSUME NEW n \in Nat, n \in S PROVE n + 1 \in S
  <2> SUFFICES ASSUME n + 1 <= Len(q) PROVE \E f : Partial(p, q, n + 1, f)
    BY DEF Begun
  <2>1. PICK f : Partial(p, q, n, f)
    BY <1>1, <1>3 DEF Begun
  <2>2. /\ f \in [1 .. n -> Seq(Call(p))]
        /\ \A i \in 1 .. n : f[i] = IF i = 1 THEN q[i] ELSE f[i - 1] \o q[i]
    BY <2>1 DEF Partial
  <2>3. PICK x : x = IF n = 0 THEN q[n + 1] ELSE f[n] \o q[n + 1]
    OBVIOUS
  <2>4. x \in Seq(Call(p))
    <3>1. q[n + 1] \in Seq(Call(p))
      BY <1>1
    <3>2. n # 0 => f[n] \in Seq(Call(p))
      BY <2>2
    <3> QED
      BY <2>3, <3>1, <3>2, ConcatProperties
  <2>5. PICK g : g = [i \in 1 .. n + 1 |-> IF i = n + 1 THEN x ELSE f[i]]
    OBVIOUS
  <2>6. g \in [1 .. n + 1 -> Seq(Call(p))]
    BY <2>2, <2>4, <2>5
  <2>7. \A i \in 1 .. n + 1 : g[i] = IF i = n + 1 THEN x ELSE f[i]
    BY <2>5
  <2>8. ASSUME NEW i \in 1 .. n + 1 PROVE g[i] = IF i = 1 THEN q[i] ELSE g[i - 1] \o q[i]
    <3>1. CASE i = n + 1
      <4>1. ASSUME n # 0 PROVE g[n] = f[n]
        <5>1. n \in 1 .. n + 1 /\ n # n + 1
          BY <4>1
        <5> QED
          BY <2>7, <5>1
      <4> QED
        BY <2>3, <2>7, <3>1, <4>1
    <3>2. CASE i # n + 1
      <4>1. i \in 1 .. n /\ g[i] = f[i]
        BY <2>7, <3>2
      <4>2. i # 1 => g[i - 1] = f[i - 1]
        BY <2>7, <4>1
      <4> QED
        BY <2>2, <4>1, <4>2
    <3> QED
      BY <3>1, <3>2
  <2> QED
    BY <2>6, <2>8 DEF Partial
<1>4. Nat \subseteq S
  <2> HIDE DEF S
  <2> QED
    BY <1>2, <1>3, Induction
<1>5. PICK f : Partial(p, q, Len(q), f)
  BY <1>1, <1>4 DEF Begun
<1>6. f = [i \in 1 .. Len(q) |-> IF i = 1 THEN q[i] ELSE f[i - 1] \o q[i]]
  BY <1>5 DEF Partial
<1> QED
  BY <1>6 DEF Flattens

\* the calls between those of the program
Between(p, r) == FlattenSeq([j \in DOMAIN p.jobs |-> Part(p, r, j)])

LEMMA PartFacts ==
    ASSUME NEW p, Planned(p), NEW r, NEW j \in JobIds(p)
    PROVE  /\ Part(p, r, j) = <<>> \/ (Joins(p, r, j) /\ Part(p, r, j) = <<Op(p, j), Popping>>)
           /\ Part(p, r, j) \in Seq(Call(p))
<1>1. j # 0 /\ Op(p, j) \in Call(p) /\ Popping \in Call(p)
  BY PlanFacts DEF Call
<1>2. Op(p, j) = Inner(p, j) /\ Op(p, j).world = p.jobs[j].world
  BY <1>1 DEF Op, Inner, Extending
<1>3. Part(p, r, j) = <<>> \/ (Joins(p, r, j) /\ Part(p, r, j) = <<Op(p, j), Popping>>)
  BY <1>2 DEF Part, Joins
<1>4. <<Op(p, j), Popping>> \in Seq(Call(p)) /\ <<>> \in Seq(Call(p))
  BY <1>1
<1> QED
  BY <1>3, <1>4

LEMMA BetweenPaired ==
    ASSUME NEW p, Planned(p), NEW r
    PROVE  Paired(p, r, Between(p, r))
<1>1. PICK N \in Nat : N = Len(p.jobs) /\ JobIds(p) = 1 .. N /\ DOMAIN p.jobs = 1 .. N
  BY PlanFacts DEF JobIds
<1>2. PICK q : q = [j \in 1 .. N |-> Part(p, r, j)]
  OBVIOUS
<1>3. Between(p, r) = FlattenSeq(q)
  BY <1>1, <1>2 DEF Between
<1>4. \A j \in 1 .. N : q[j] = Part(p, r, j) /\ Part(p, r, j) \in Seq(Call(p))
  BY <1>1, <1>2, PartFacts
<1>5. q \in Seq(Seq(Call(p))) /\ Len(q) = N
  BY <1>2, <1>4
<1>6. Paired(p, r, <<>>)
  BY EmptySeq DEF Paired
<1>7. ASSUME NEW s, Paired(p, r, s), NEW j \in 1 .. N PROVE Paired(p, r, s \o q[j])
  <2>1. Part(p, r, j) = <<>> \/ (Joins(p, r, j) /\ Part(p, r, j) = <<Op(p, j), Popping>>)
    BY <1>1, PartFacts
  <2>2. CASE Part(p, r, j) = <<>>
    <3>1. s \o <<>> = s
      BY <1>7, ConcatEmptySeq DEF Paired
    <3> QED
      BY <1>4, <1>7, <2>2, <3>1
  <2>3. CASE Joins(p, r, j) /\ Part(p, r, j) = <<Op(p, j), Popping>>
    <3>1. Paired(p, r, s \o <<Op(p, j), Popping>>)
      BY <1>7, <2>3, PairedMore
    <3> QED
      BY <1>4, <2>3, <3>1
  <2> QED
    BY <2>1, <2>2, <2>3
<1>8. CASE N = 0
  <2>1. q = <<>>
    BY <1>5, <1>8, EmptySeq
  <2>2. FlattenSeq(q) = q
    BY <1>5, <1>8 DEF FlattenSeq
  <2> QED
    BY <1>3, <1>6, <2>1, <2>2
<1>9. CASE N # 0
  <2>1. PICK f : f = CHOOSE g : Flattens(g, q)
    OBVIOUS
  <2>2. FlattenSeq(q) = f[N]
    BY <1>5, <1>9, <2>1 DEF FlattenSeq, Flattens
  <2>3. \E g : Flattens(g, q)
    BY <1>5, FlattenExists
  <2>4. Flattens(f, q)
    BY <2>1, <2>3
  <2>5. \A i \in 1 .. N : f[i] = IF i = 1 THEN q[i] ELSE f[i - 1] \o q[i]
    BY <1>5, <2>4 DEF Flattens
  <2> DEFINE S == {n \in Nat : n \in 1 .. N => Paired(p, r, f[n])}
  <2>6. 0 \in S
    OBVIOUS
  <2>7. ASSUME NEW n \in Nat, n \in S PROVE n + 1 \in S
    <3> SUFFICES ASSUME n + 1 \in 1 .. N PROVE Paired(p, r, f[n + 1])
      OBVIOUS
    <3>1. CASE n = 0
      <4>1. f[n + 1] = q[1] /\ 1 \in 1 .. N
        BY <2>5, <3>1
      <4>2. <<>> \o q[1] = q[1]
        BY <1>4, <4>1, ConcatEmptySeq
      <4>3. Paired(p, r, <<>> \o q[1])
        BY <1>6, <1>7, <4>1
      <4> QED
        BY <4>1, <4>2, <4>3
    <3>2. CASE n # 0
      <4>0. n \in 1 .. N /\ n + 1 # 1 /\ (n + 1) - 1 = n
        BY <3>2
      <4>1. n \in 1 .. N /\ f[n + 1] = f[n] \o q[n + 1]
        BY <2>5, <4>0
      <4>2. Paired(p, r, f[n])
        BY <2>7, <4>1
      <4> QED
        BY <1>7, <4>1, <4>2
    <3> QED
      BY <3>1, <3>2
  <2>8. Nat \subseteq S
    <3> HIDE DEF S
    <3> QED
      BY <2>6, <2>7, Induction
  <2>9. N \in 1 .. N
    BY <1>9
  <2> QED
    BY <1>3, <2>2, <2>8, <2>9
<1> QED
  BY <1>8, <1>9

\* P is a programme as Programme() makes them
Orderly(p, r, P) ==
    /\ P \in Seq(Call(p)) /\ Len(P) \in Nat /\ Len(P) >= 2
    /\ P[1] = Op(p, 0) /\ P[Len(P)] = Popping /\ Depth(P, Len(P) - 1) = 1
    /\ \A i \in 2 .. Len(P) - 1 :
          \/ (\E id : Joins(p, r, id) /\ P[i] = Op(p, id)) /\ Depth(P, i - 1) = 1 /\ i + 1 < Len(P)
          \/ P[i] = Popping /\ Depth(P, i - 1) = 2

LEMMA ProgrammeIsOrderly ==
    ASSUME NEW p, Planned(p), NEW r
    PROVE  Orderly(p, r, Programme(p, r))
<1>1. PICK s : s = Between(p, r)
  OBVIOUS
<1>2. PICK P : P = Programme(p, r)
  OBVIOUS
<1>3. P = <<Outer(p)>> \o s \o <<Popping>>
  BY <1>1, <1>2, Zenon DEF Programme, Between, Part
<1>4. Paired(p, r, s)
  BY <1>1, BetweenPaired
<1>5. PICK n \in Nat : n = Len(s)
  BY <1>4, LenProperties DEF Paired
<1>6. /\ s \in Seq(Call(p)) /\ (s # <<>> => s[n] = Popping)
      /\ \A i \in 1 .. n :
            \/ /\ \E id : Joins(p, r, id) /\ s[i] = Op(p, id)
               /\ i = 1 \/ s[i - 1] = Popping
               /\ i + 1 <= n
            \/ s[i] = Popping /\ i > 1 /\ s[i - 1].op = "extend"
  BY <1>4, <1>5 DEF Paired
<1>7. Op(p, 0) = Outer(p) /\ Op(p, 0) \in Call(p) /\ Popping \in Call(p) /\ Popping.op # "extend"
  BY OuterWorld, PlanFacts DEF Call, Popping
<1>8. <<Op(p, 0)>> \in Seq(Call(p)) /\ Len(<<Op(p, 0)>>) = 1 /\ <<Op(p, 0)>>[1] = Op(p, 0)
  BY <1>7
<1>9. <<Popping>> \in Seq(Call(p)) /\ Len(<<Popping>>) = 1 /\ <<Popping>>[1] = Popping
  BY <1>7
<1>10. PICK u : u = <<Op(p, 0)>> \o s
  OBVIOUS
<1>11. /\ u \in Seq(Call(p)) /\ Len(u) = 1 + n
       /\ \A i \in 1 .. 1 + n : u[i] = IF i <= 1 THEN <<Op(p, 0)>>[i] ELSE s[i - 1]
  BY <1>5, <1>6, <1>8, <1>10, ConcatProperties
<1>12. P = u \o <<Popping>>
  BY <1>3, <1>7, <1>10
<1>13. /\ P \in Seq(Call(p)) /\ Len(P) = (1 + n) + 1
       /\ \A i \in 1 .. (1 + n) + 1 : P[i] = IF i <= 1 + n THEN u[i] ELSE <<Popping>>[i - (1 + n)]
  BY <1>9, <1>11, <1>12, ConcatProperties
<1>14. Len(P) = n + 2 /\ P[1] = Op(p, 0) /\ P[n + 2] = Popping
  <2>1. /\ (1 + n) + 1 = n + 2 /\ 1 \in 1 .. (1 + n) + 1 /\ 1 <= 1 + n /\ 1 \in 1 .. 1 + n
        /\ n + 2 \in 1 .. (1 + n) + 1 /\ ~ (n + 2 <= 1 + n) /\ (n + 2) - (1 + n) = 1
    OBVIOUS
  <2>2. P[1] = u[1] /\ P[n + 2] = <<Popping>>[1]
    BY <1>13, <2>1
  <2>3. u[1] = Op(p, 0)
    BY <1>8, <1>11, <2>1
  <2> QED
    BY <1>9, <1>13, <2>1, <2>2, <2>3
<1>15. ASSUME NEW i \in 1 .. n PROVE P[i + 1] = s[i]
  <2>1. i + 1 \in 1 .. (1 + n) + 1 /\ i + 1 <= 1 + n /\ i + 1 \in 1 .. 1 + n /\ ~ (i + 1 <= 1)
        /\ (i + 1) - 1 = i
    OBVIOUS
  <2>2. P[i + 1] = u[i + 1]
    BY <1>13, <2>1
  <2>3. u[i + 1] = s[i]
    BY <1>11, <2>1
  <2> QED
    BY <2>2, <2>3
<1>16. Depth(P, n + 1) = 1
  <2>1. CASE n = 0
    BY <2>1 DEF Depth
  <2>2. CASE n # 0
    <3>1. n \in 1 .. n /\ s # <<>>
      BY <1>5, <2>2, EmptySeq
    <3>2. P[n + 1] = Popping
      BY <1>6, <1>15, <3>1
    <3>3. P[n + 1].op # "extend" /\ n + 1 # 0
      BY <1>7, <3>2
    <3> QED
      BY <3>3 DEF Depth
  <2> QED
    BY <2>1, <2>2
<1>17. ASSUME NEW i \in 2 .. n + 1
       PROVE  \/ (\E id : Joins(p, r, id) /\ P[i] = Op(p, id)) /\ Depth(P, i - 1) = 1 /\ i + 1 < n + 2
              \/ P[i] = Popping /\ Depth(P, i - 1) = 2
  <2>1. PICK j \in 1 .. n : i = j + 1 /\ i - 1 = j
    <3>1. i - 1 \in 1 .. n /\ i = (i - 1) + 1
      OBVIOUS
    <3> QED
      BY <3>1
  <2>2. P[i] = s[j]
    BY <1>15, <2>1
  <2>3. CASE /\ \E id : Joins(p, r, id) /\ s[j] = Op(p, id)
             /\ j = 1 \/ s[j - 1] = Popping
             /\ j + 1 <= n
    <3>1. Depth(P, j) = 1
      <4>1. CASE j = 1
        BY <4>1 DEF Depth
      <4>2. CASE j # 1
        <5>1. j - 1 \in 1 .. n /\ (j - 1) + 1 = j
          BY <4>2
        <5>2. P[j] = s[j - 1]
          BY <1>15, <5>1
        <5>3. P[j].op # "extend"
          BY <1>7, <2>3, <4>2, <5>2
        <5> QED
          BY <5>3 DEF Depth
      <4> QED
        BY <4>1, <4>2
    <3>2. i + 1 < n + 2
      BY <2>1, <2>3
    <3> QED
      BY <2>1, <2>2, <2>3, <3>1, <3>2
  <2>4. CASE s[j] = Popping /\ j > 1 /\ s[j - 1].op = "extend"
    <3>1. j - 1 \in 1 .. n /\ (j - 1) + 1 = j
      BY <2>4
    <3>2. P[j] = s[j - 1]
      BY <1>15, <3>1
    <3>3. Depth(P, j) = 2
      BY <2>4, <3>2 DEF Depth
    <3> QED
      BY <2>1, <2>2, <2>4, <3>3
  <2> QED
    BY <1>6, <2>3, <2>4
<1>18. /\ P \in Seq(Call(p)) /\ Len(P) \in Nat /\ Len(P) >= 2 /\ Len(P) - 1 = n + 1
       /\ P[1] = Op(p, 0) /\ P[Len(P)] = Popping /\ Depth(P, Len(P) - 1) = 1
  BY <1>13, <1>14, <1>16
<1>19. Orderly(p, r, P)
  BY <1>14, <1>17, <1>18 DEF Orderly
<1> QED
  BY <1>2, <1>19

-----------------------------------------------------------------------------
(* The levels of a rank                                                     *)

\* v is a level of rank r, on which op has divided the ranks
LevelOf(op, r, v) ==
    /\ Fits(op) /\ r \in ToSet(op.world)
    /\ v.world = op.world /\ v.groups = GroupMap(op.procs) /\ v.group = GroupOf(op, r)
    /\ v.local = Side(op, v.group) /\ v.color = Color(op.procs, Place(op, r))
    /\ v.group \in Named(op.procs) /\ r \in ToSet(v.local)

LEMMA MadeFacts ==
    ASSUME NEW p, Planned(p), NEW r, NEW v, Made(p, r, v)
    PROVE  LevelOf(Op(p, v.id), r, v) /\ ToSet(Op(p, v.id).world) \subseteq World(p)
<1>1. PICK op : op = Op(p, v.id)
  OBVIOUS
<1>2. /\ v.id \in {0} \cup JobIds(p) /\ r \in ToSet(op.world)
      /\ Total(op.procs) = Len(op.world)
      /\ v = [NewLevel(r, op) EXCEPT !.cache = v.cache]
  BY <1>1 DEF Made
<1>3. Fits(op) /\ ToSet(op.world) \subseteq World(p)
  BY <1>1, <1>2, PlanFits
<1>4. /\ v.world = op.world /\ v.groups = GroupMap(op.procs) /\ v.group = GroupOf(op, r)
      /\ v.local = LocalOf(op, r) /\ v.color = Color(op.procs, Place(op, r))
  BY <1>2 DEF NewLevel, GroupOf, LocalOf, Place
<1>5. /\ GroupOf(op, r) \in Named(op.procs) /\ LocalOf(op, r) = Side(op, GroupOf(op, r))
      /\ r \in ToSet(LocalOf(op, r))
  BY <1>2, <1>3, RankFacts
<1>6. LevelOf(op, r, v)
  BY <1>2, <1>3, <1>4, <1>5 DEF LevelOf
<1> QED
  BY <1>1, <1>3, <1>6

LEMMA NewLevelMade ==
    ASSUME NEW p, Planned(p), NEW r, NEW id \in {0} \cup JobIds(p), r \in ToSet(Op(p, id).world),
           Total(Op(p, id).procs) = Len(Op(p, id).world)
    PROVE  LET v == NewLevel(r, Op(p, id)) IN
           Made(p, r, v) /\ v.id = id /\ DOMAIN v.cache = {}
<1>1. PICK v : v = NewLevel(r, Op(p, id))
  OBVIOUS
<1>2. Op(p, id).id = id
  BY PlanFacts
<1>3. v.id = id /\ DOMAIN v.cache = {}
  BY <1>1, <1>2 DEF NewLevel
<1>4. v = [NewLevel(r, Op(p, id)) EXCEPT !.cache = v.cache]
  BY <1>1 DEF NewLevel
<1>5. Made(p, r, v)
  BY <1>3, <1>4 DEF Made
<1> QED
  BY <1>1, <1>3, <1>5

\* u is v with another cache
Recached(v, c, u) == u = [v EXCEPT !.cache = c]

LEMMA CacheMade ==
    ASSUME NEW p, NEW r, NEW v, Made(p, r, v), NEW c, NEW u, Recached(v, c, u)
    PROVE  Made(p, r, u) /\ u.id = v.id /\ u.group = v.group /\ u.cache = c
<1>2. PICK n : n = NewLevel(r, Op(p, v.id))
  OBVIOUS
<1>3. v = [n EXCEPT !.cache = v.cache]
  BY <1>2 DEF Made
<1>4. n = [n EXCEPT !.cache = n.cache] /\ "cache" \in DOMAIN n /\ DOMAIN n = DOMAIN v
  BY <1>2, <1>3 DEF NewLevel
<1>5. u.id = v.id /\ u.group = v.group /\ u.cache = c
  BY <1>4 DEF Recached
<1>6. u = [n EXCEPT !.cache = u.cache]
  BY <1>3, <1>4, <1>5 DEF Recached
<1>7. Made(p, r, u)
  BY <1>2, <1>5, <1>6 DEF Made
<1> QED
  BY <1>5, <1>7

LEMMA StackFacts ==
    ASSUME NEW p, NEW r, NEW L, Stack(p, r, L)
    PROVE  /\ Len(L) \in 0 .. 2 /\ DOMAIN L = 1 .. Len(L)
           /\ \A k \in 1 .. Len(L) : Made(p, r, L[k]) /\ (L[k].id = 0 <=> k = 1)
<1>1. CASE L = <<>>
  BY <1>1
<1>2. CASE L = <<L[1]>> /\ Made(p, r, L[1]) /\ L[1].id = 0
  <2>1. Len(L) = 1 /\ DOMAIN L = 1 .. 1
    BY <1>2
  <2> QED
    BY <1>2, <2>1
<1>3. CASE L = <<L[1], L[2]>> /\ Made(p, r, L[1]) /\ L[1].id = 0 /\ Made(p, r, L[2]) /\ L[2].id # 0
  <2>1. Len(L) = 2 /\ DOMAIN L = 1 .. 2
    BY <1>3
  <2> QED
    BY <1>3, <2>1
<1> QED
  BY <1>1, <1>2, <1>3 DEF Stack

LEMMA Pushed ==
    ASSUME NEW p, NEW r, NEW L, Stack(p, r, L), NEW v, Made(p, r, v),
           (Len(L) = 0 /\ v.id = 0) \/ (Len(L) = 1 /\ v.id # 0)
    PROVE  /\ Stack(p, r, Append(L, v)) /\ Len(Append(L, v)) = Len(L) + 1
           /\ Append(L, v)[Len(L) + 1] = v /\ \A k \in 1 .. Len(L) : Append(L, v)[k] = L[k]
<1>1. CASE Len(L) = 0
  <2>1. L = <<>>
    BY <1>1, StackFacts DEF Stack
  <2>2. PICK M : M = <<v>>
    OBVIOUS
  <2>3. Append(L, v) = M /\ M[1] = v /\ Len(M) = 1
    BY <2>1, <2>2
  <2>4. M = <<M[1]>>
    BY <2>2
  <2>5. Stack(p, r, M)
    BY <1>1, <2>3, <2>4 DEF Stack
  <2> QED
    BY <1>1, <2>3, <2>5
<1>2. CASE Len(L) = 1
  <2>1. L = <<L[1]>> /\ Made(p, r, L[1]) /\ L[1].id = 0
    BY <1>2 DEF Stack
  <2>2. PICK M : M = <<L[1], v>>
    OBVIOUS
  <2>3. Append(<<L[1]>>, v) = M /\ M[1] = L[1] /\ M[2] = v /\ Len(M) = 2
    <3>1. PICK S : S = {L[1], v}
      OBVIOUS
    <3>2. PICK s : s = <<L[1]>>
      OBVIOUS
    <3>3. s \in Seq(S) /\ v \in S /\ Len(s) = 1 /\ s[1] = L[1]
      BY <3>1, <3>2
    <3>4. M \in Seq(S) /\ Len(M) = 2 /\ M[1] = L[1] /\ M[2] = v
      BY <2>2, <3>1
    <3>5. /\ Append(s, v) \in Seq(S) /\ Len(Append(s, v)) = 2
          /\ Append(s, v)[1] = L[1] /\ Append(s, v)[2] = v
      <4>1. /\ Append(s, v) \in Seq(S) /\ Len(Append(s, v)) = Len(s) + 1
            /\ \A i \in 1 .. Len(s) : Append(s, v)[i] = s[i]
            /\ Append(s, v)[Len(s) + 1] = v
        <5>1. s \in Seq(S) /\ v \in S
          BY <3>3
        <5> QED
          BY <5>1, AppendProperties
      <4> QED
        BY <3>3, <4>1
    <3>6. \A i \in 1 .. 2 : Append(s, v)[i] = M[i]
      BY <3>4, <3>5
    <3>7. Append(s, v) = M
      BY <3>4, <3>5, <3>6, SeqEqual
    <3> QED
      BY <3>2, <3>4, <3>7
  <2>4. M = <<M[1], M[2]>>
    BY <2>2
  <2>5. Stack(p, r, M)
    BY <1>2, <2>1, <2>3, <2>4 DEF Stack
  <2>6. Append(L, v) = M
    BY <2>1, <2>3
  <2> QED
    BY <1>2, <2>3, <2>5, <2>6
<1> QED
  BY <1>1, <1>2

LEMMA Popped ==
    ASSUME NEW p, NEW r, NEW L, Stack(p, r, L), Len(L) # 0
    PROVE  /\ Stack(p, r, Front(L)) /\ Len(Front(L)) = Len(L) - 1
           /\ \A k \in 1 .. Len(L) - 1 : Front(L)[k] = L[k]
<1>1. CASE Len(L) = 1
  <2>1. L = <<L[1]>>
    BY <1>1 DEF Stack
  <2>2. Front(L) = <<>>
    BY <1>1, <2>1 DEF Front
  <2> QED
    BY <1>1, <2>2 DEF Stack
<1>2. CASE Len(L) = 2
  <2>1. L = <<L[1], L[2]>> /\ Made(p, r, L[1]) /\ L[1].id = 0
    BY <1>2 DEF Stack
  <2>2. PICK M : M = <<L[1]>>
    OBVIOUS
  <2>3. M[1] = L[1] /\ Len(M) = 1
    BY <2>2
  <2>4. Front(L) = M
    <3>1. PICK S : S = {L[1], L[2]}
      OBVIOUS
    <3>2. \A i \in 1 .. 1 : L[i] \in S
      BY <3>1
    <3>3. SubSeq(L, 1, 1) \in Seq(S) /\ Len(SubSeq(L, 1, 1)) = 1 /\ SubSeq(L, 1, 1)[1] = L[1]
      BY <3>2, SubSeqProperties
    <3>4. M \in Seq(S)
      BY <2>2, <3>1
    <3>5. \A i \in 1 .. 1 : SubSeq(L, 1, 1)[i] = M[i]
      BY <2>3, <3>3
    <3>6. SubSeq(L, 1, 1) = M
      BY <2>3, <3>3, <3>4, <3>5, SeqEqual
    <3>7. Len(L) - 1 = 1
      BY <1>2
    <3> QED
      BY <3>6, <3>7 DEF Front
  <2>5. M = <<M[1]>>
    BY <2>2
  <2>6. Stack(p, r, M)
    BY <2>1, <2>3, <2>5 DEF Stack
  <2> QED
    BY <1>2, <2>3, <2>4, <2>6
<1> QED
  BY <1>1, <1>2, StackFacts

\* M is L with another cache on the top
Replaces(L, c, M) == M = [L EXCEPT ![Len(L)].cache = c]

Cache(L, M) ==
    /\ Len(M) = Len(L) /\ DOMAIN M = 1 .. Len(L)
    /\ \A k \in 1 .. Len(L) : M[k].id = L[k].id /\ M[k].group = L[k].group
    /\ \A k \in 1 .. Len(L) : k # Len(L) => M[k] = L[k]

LEMMA Recaching ==
    ASSUME NEW p, NEW r, NEW L, Stack(p, r, L), Len(L) # 0, NEW c, NEW M, Replaces(L, c, M)
    PROVE  Stack(p, r, M) /\ Cache(L, M) /\ M[Len(L)].cache = c
<1>1. PICK u : u = [L[Len(L)] EXCEPT !.cache = c]
  OBVIOUS
<1>2. /\ Len(L) \in 1 .. 2 /\ DOMAIN L = 1 .. Len(L)
      /\ \A k \in 1 .. Len(L) : Made(p, r, L[k]) /\ (L[k].id = 0 <=> k = 1)
  BY StackFacts
<1>3. Made(p, r, u) /\ u.id = Top(L).id /\ u.group = Top(L).group /\ u.cache = c
  <2>1. PICK x : x = Top(L)
    OBVIOUS
  <2>2. Made(p, r, x) /\ Recached(x, c, u)
    BY <1>1, <1>2, <2>1 DEF Top, Recached
  <2>3. Made(p, r, u) /\ u.id = x.id /\ u.group = x.group /\ u.cache = c
    BY <2>2, CacheMade
  <2> QED
    BY <2>1, <2>3
<1>4. M = [L EXCEPT ![Len(L)] = u]
  BY <1>1 DEF Replaces
<1>5. CASE Len(L) = 1
  <2>1. L = <<L[1]>> /\ L[1].id = 0
    BY <1>5 DEF Stack
  <2>2. M = <<u>>
    BY <1>4, <1>5, <2>1
  <2>3. M[1] = u /\ Len(M) = 1 /\ M = <<M[1]>> /\ DOMAIN M = 1 .. 1
    BY <2>2
  <2>4. Stack(p, r, M)
    BY <1>3, <1>5, <2>1, <2>3 DEF Stack, Top
  <2>5. Cache(L, M)
    BY <1>3, <1>5, <2>3 DEF Cache, Top
  <2> QED
    BY <1>3, <1>5, <2>3, <2>4, <2>5
<1>6. CASE Len(L) = 2
  <2>1. L = <<L[1], L[2]>> /\ Made(p, r, L[1]) /\ L[1].id = 0 /\ L[2].id # 0
    BY <1>6 DEF Stack
  <2>2. M = <<L[1], u>>
    BY <1>4, <1>6, <2>1
  <2>3. M[1] = L[1] /\ M[2] = u /\ Len(M) = 2 /\ M = <<M[1], M[2]>> /\ DOMAIN M = 1 .. 2
    BY <2>2
  <2>4. Stack(p, r, M)
    BY <1>3, <1>6, <2>1, <2>3 DEF Stack, Top
  <2>5. Cache(L, M)
    BY <1>3, <1>6, <2>3 DEF Cache, Top
  <2> QED
    BY <1>3, <1>6, <2>3, <2>4, <2>5
<1> QED
  BY <1>2, <1>5, <1>6

-----------------------------------------------------------------------------
(* Where a rank is in its programme                                         *)

\* what the current call of a rank can be
Current(p, r, P, L, T, k, a) ==
    \/ a > 0 /\ k >= 1 /\ \E to \in Nat : Head(T) = Asking(to) /\ Allowed(p, L, to)
    \/ a = 0 /\ k = 0 /\ Head(T) = Op(p, 0) /\ Len(L) = 0
    \/ /\ a = 0 /\ k >= 1 /\ k + 2 < Len(P) /\ Len(L) = 1
       /\ \E id : Joins(p, r, id) /\ Head(T) = Op(p, id)
    \/ a = 0 /\ k >= 1 /\ k + 1 < Len(P) /\ Len(L) = 2 /\ Head(T) = Popping
    \/ a = 0 /\ k = Len(P) - 1 /\ Len(L) = 1 /\ Head(T) = Popping

\* what a rank at this place has done and will do
At(p, r, P, L, T, k, a) ==
    /\ P = Programme(p, r) /\ Orderly(p, r, P)
    /\ Come(p, P, L, T, k, a) /\ Asked(p, P, L, T, k, a)
    /\ T # <<>> /\ Head(T) = T[1] /\ Current(p, r, P, L, T, k, a)
    /\ (Len(L) = 2 => k \in 2 .. Len(P) - 2) /\ (Len(L) = 1 => k >= 1) /\ (Len(L) = 0 <=> k = 0)

LEMMA HowFar ==
    ASSUME NEW p, Planned(p), NEW r, NEW L, NEW T \in Seq(Call(p)), Running(p, r, L, T)
    PROVE  \E P : \E k, a \in Nat : At(p, r, P, L, T, k, a)
<1>1. PICK P : P = Programme(p, r)
  OBVIOUS
<1>2. Orderly(p, r, P)
  BY <1>1, ProgrammeIsOrderly
<1>3. PICK k, a \in Nat : Come(p, P, L, T, k, a) /\ Asked(p, P, L, T, k, a)
  BY <1>1 DEF Running
<1>4. PICK n \in Nat : n = Len(P) /\ n >= 2
  BY <1>2 DEF Orderly
<1>5. /\ k \in 0 .. n - 1 /\ (k = 0 => a = 0) /\ Len(T) = a + (n - k)
      /\ \A i \in 1 .. a : \E to \in Nat : T[i] = Asking(to) /\ Allowed(p, L, to)
      /\ \A i \in 1 .. n - k : T[a + i] = P[k + i]
      /\ Len(L) = Depth(P, k)
  BY <1>3, <1>4 DEF Come
<1>6. T # <<>> /\ Head(T) = T[1]
  BY <1>5, EmptySeq
<1>7. /\ P[1] = Op(p, 0) /\ P[n] = Popping /\ Depth(P, n - 1) = 1
      /\ \A i \in 2 .. n - 1 :
          \/ (\E id : Joins(p, r, id) /\ P[i] = Op(p, id)) /\ Depth(P, i - 1) = 1 /\ i + 1 < n
          \/ P[i] = Popping /\ Depth(P, i - 1) = 2
  BY <1>2, <1>4 DEF Orderly
<1>8. (Len(L) = 0 <=> k = 0) /\ (Len(L) = 1 => k >= 1)
  BY <1>5 DEF Depth
<1>9. Len(L) = 2 => k \in 2 .. n - 2
  <2> SUFFICES ASSUME Len(L) = 2 PROVE k \in 2 .. n - 2
    OBVIOUS
  <2>0. Depth(P, k) = 2
    BY <1>5
  <2>1. k > 1 /\ P[k].op = "extend"
    BY <2>0 DEF Depth
  <2>2. P[k] # Popping
    BY <2>1 DEF Popping
  <2>3. k \in 2 .. n - 1
    BY <1>5, <2>1
  <2>4. k + 1 < n
    BY <1>7, <2>2, <2>3
  <2> QED
    BY <2>3, <2>4
<1>10. Current(p, r, P, L, T, k, a)
  <2>1. CASE a > 0
    <3>1. k >= 1
      BY <1>5, <2>1
    <3>2. 1 \in 1 .. a
      BY <2>1
    <3>3. \E to \in Nat : Head(T) = Asking(to) /\ Allowed(p, L, to)
      BY <1>5, <1>6, <3>2
    <3> QED
      BY <2>1, <3>1, <3>3 DEF Current
  <2>2. CASE a = 0
    <3>1. Head(T) = P[k + 1]
      <4>1. 1 \in 1 .. n - k /\ a + 1 = 1
        BY <1>5, <2>2
      <4>2. T[a + 1] = P[k + 1]
        BY <1>5, <4>1
      <4> QED
        BY <1>6, <4>1, <4>2
    <3>2. CASE k = 0
      <4>1. Head(T) = Op(p, 0)
        BY <1>7, <3>1, <3>2
      <4> QED
        BY <1>8, <2>2, <3>2, <4>1 DEF Current
    <3>3. CASE k = n - 1
      <4>1. Head(T) = Popping
        <5>1. k + 1 = n
          BY <3>3
        <5> QED
          BY <1>7, <3>1, <5>1
      <4>2. Len(L) = 1
        BY <1>5, <1>7, <3>3
      <4> QED
        BY <1>4, <2>2, <3>3, <4>1, <4>2 DEF Current
    <3>4. CASE k # 0 /\ k # n - 1
      <4>0. k + 1 \in 2 .. n - 1
        BY <1>5, <3>4
      <4>1. PICK i \in 2 .. n - 1 : i = k + 1
        BY <4>0
      <4>2. \/ (\E id : Joins(p, r, id) /\ P[i] = Op(p, id)) /\ Depth(P, i - 1) = 1 /\ i + 1 < n
            \/ P[i] = Popping /\ Depth(P, i - 1) = 2
        BY <1>7
      <4>3. k >= 1 /\ i - 1 = k /\ i < n /\ i + 1 = k + 2
        BY <4>1
      <4>4. CASE (\E id : Joins(p, r, id) /\ P[i] = Op(p, id)) /\ Depth(P, i - 1) = 1 /\ i + 1 < n
        <5>1. Len(L) = 1 /\ k + 2 < Len(P) /\ \E id : Joins(p, r, id) /\ Head(T) = Op(p, id)
          BY <1>4, <1>5, <3>1, <4>1, <4>3, <4>4
        <5> QED
          BY <2>2, <4>3, <5>1 DEF Current
      <4>5. CASE P[i] = Popping /\ Depth(P, i - 1) = 2
        <5>1. Len(L) = 2 /\ k + 1 < Len(P) /\ Head(T) = Popping
          BY <1>4, <1>5, <3>1, <4>1, <4>3, <4>5
        <5> QED
          BY <2>2, <4>3, <5>1 DEF Current
      <4> QED
        BY <4>2, <4>4, <4>5
    <3> QED
      BY <3>2, <3>3, <3>4
  <2> QED
    BY <2>1, <2>2
<1> QED
  BY <1>1, <1>2, <1>3, <1>4, <1>6, <1>8, <1>9, <1>10 DEF At

\* a rank has another level behind it, the caches may have grown
Grows(L, M) ==
    /\ Len(M) = Len(L)
    /\ \A k \in 1 .. Len(L) : /\ M[k].id = L[k].id /\ M[k].group = L[k].group
                              /\ DOMAIN L[k].cache \subseteq DOMAIN M[k].cache

LEMMA AskDone ==
    ASSUME NEW p, Planned(p), NEW r, NEW L, NEW T \in Seq(Call(p)), Running(p, r, L, T),
           Heads(T, "intercomm"), Len(L) \in 0 .. 2, NEW M, Grows(L, M),
           Len(L) = 1 => Head(T).to \in DOMAIN M[1].cache
    PROVE  Tail(T) \in Seq(Call(p)) /\ Running(p, r, M, Tail(T))
<1>1. PICK P : \E k, a \in Nat : At(p, r, P, L, T, k, a)
  BY HowFar
<1>2. PICK k, a \in Nat : At(p, r, P, L, T, k, a)
  BY <1>1
<1>3. PICK n \in Nat : n = Len(P) /\ n >= 2
  BY <1>2 DEF At, Orderly
<1>4. /\ k \in 0 .. n - 1 /\ (k = 0 => a = 0) /\ Len(T) = a + (n - k)
      /\ \A i \in 1 .. a : \E to \in Nat : T[i] = Asking(to) /\ Allowed(p, L, to)
      /\ \A i \in 1 .. n - k : T[a + i] = P[k + i]
      /\ Len(L) = Depth(P, k)
  BY <1>2, <1>3 DEF At, Come
<1>5. a > 0 /\ k >= 1
  <2>1. Popping.op # "intercomm"
    BY DEF Popping
  <2>2. \A id : Joins(p, r, id) => Op(p, id).op # "intercomm"
    BY PlanFacts DEF Joins
  <2>3. Op(p, 0).op # "intercomm"
    BY PlanFacts
  <2>4. Current(p, r, P, L, T, k, a) /\ Head(T).op = "intercomm"
    BY <1>2 DEF At, Heads
  <2> QED
    BY <2>1, <2>2, <2>3, <2>4 DEF Current
<1>6. PICK U : U = Tail(T)
  OBVIOUS
<1>7. U \in Seq(Call(p)) /\ Len(U) = Len(T) - 1 /\ \A i \in 1 .. Len(U) : U[i] = T[i + 1]
  BY <1>2, <1>6, HeadTailProperties DEF At
<1>8. PICK b \in Nat : a = b + 1 /\ a - 1 = b
  <2>1. a - 1 \in Nat /\ a = (a - 1) + 1
    BY <1>5
  <2> QED
    BY <2>1
<1>9. Len(U) = b + (n - k) /\ n - k \in Nat
  BY <1>4, <1>7, <1>8
<1>10. \A to : Allowed(p, L, to) => Allowed(p, M, to)
  <2>1. Len(L) >= 1 /\ Len(L) \in 1 .. Len(L) /\ 1 \in 1 .. Len(L)
    BY <1>2, <1>5 DEF At
  <2>2. /\ M[Len(M)].id = L[Len(L)].id /\ M[Len(M)].group = L[Len(L)].group
        /\ M[1].group = L[1].group /\ Len(M) = Len(L)
    BY <2>1 DEF Grows
  <2> QED
    BY <2>2 DEF Allowed, Top
<1>11. \A i \in 1 .. b : \E to \in Nat : U[i] = Asking(to) /\ Allowed(p, M, to)
  <2>1. \A i \in 1 .. b : i + 1 \in 1 .. a /\ i \in 1 .. Len(U)
    BY <1>8, <1>9
  <2> QED
    BY <1>4, <1>7, <1>10, <2>1
<1>12. \A i \in 1 .. n - k : U[b + i] = P[k + i]
  <2>1. \A i \in 1 .. n - k : b + i \in 1 .. Len(U) /\ (b + i) + 1 = a + i
    BY <1>8, <1>9
  <2>2. \A i \in 1 .. n - k : U[b + i] = T[a + i]
    BY <1>7, <2>1
  <2> QED
    BY <1>4, <2>2
<1>13. Come(p, P, M, U, k, b)
  <2>1. Len(M) = Depth(P, k)
    BY <1>4 DEF Grows
  <2>2. k # 0
    BY <1>5
  <2> QED
    BY <1>3, <1>4, <1>9, <1>11, <1>12, <2>1, <2>2 DEF Come
<1>14. Asked(p, P, M, U, k, b)
  <2> SUFFICES ASSUME k \in 1 .. n - 2, NEW to \in Asks(Outer(p), M[1].group)
               PROVE  \/ to \in DOMAIN M[1].cache
                      \/ k = 1 /\ \E i \in 1 .. b : U[i] = Asking(to)
    BY <1>3 DEF Asked
  <2>1. Len(L) >= 1 /\ 1 \in 1 .. Len(L)
    BY <1>2, <1>5 DEF At
  <2>2. M[1].group = L[1].group /\ DOMAIN L[1].cache \subseteq DOMAIN M[1].cache
    BY <2>1 DEF Grows
  <2>3. \/ to \in DOMAIN L[1].cache
        \/ k = 1 /\ \E i \in 1 .. a : T[i] = Asking(to)
    BY <1>2, <1>3, <2>2 DEF At, Asked
  <2>4. CASE k = 1 /\ \E i \in 1 .. a : T[i] = Asking(to)
    <3>1. PICK i \in 1 .. a : T[i] = Asking(to)
      BY <2>4
    <3>2. CASE i = 1
      <4>1. Head(T) = Asking(to)
        BY <1>2, <3>1, <3>2 DEF At
      <4>2. Head(T).to = to
        BY <4>1 DEF Asking
      <4>3. Len(L) = 1
        BY <1>4, <2>4 DEF Depth
      <4> QED
        BY <4>2, <4>3
    <3>3. CASE i # 1
      <4>1. i - 1 \in 1 .. b /\ i - 1 \in 1 .. Len(U) /\ (i - 1) + 1 = i
        BY <1>8, <1>9, <3>3
      <4>2. U[i - 1] = T[i]
        BY <1>7, <4>1
      <4> QED
        BY <2>4, <3>1, <4>1, <4>2
    <3> QED
      BY <3>2, <3>3
  <2> QED
    BY <2>2, <2>3, <2>4
<1>15. Running(p, r, M, U)
  BY <1>2, <1>13, <1>14 DEF Running, At
<1> QED
  BY <1>6, <1>7, <1>15

\* pop_back() is the last call, or that after a job
LEMMA PopFacts ==
    ASSUME NEW p, Planned(p), NEW r, NEW P, NEW L, NEW T, NEW k \in Nat, NEW a \in Nat,
           At(p, r, P, L, T, k, a), Heads(T, "pop")
    PROVE  /\ a = 0 /\ k >= 1
           /\ (k + 1 < Len(P) /\ Len(L) = 2) \/ (k = Len(P) - 1 /\ Len(L) = 1)
<1>1. \A to : Asking(to).op # "pop"
  BY DEF Asking
<1>2. \A id : Joins(p, r, id) => Op(p, id).op # "pop"
  BY PlanFacts DEF Joins
<1>3. Op(p, 0).op # "pop"
  BY PlanFacts
<1>4. Current(p, r, P, L, T, k, a) /\ Head(T).op = "pop"
  BY DEF At, Heads
<1>5. Len(P) \in Nat /\ Len(P) >= 2
  BY DEF At, Orderly
<1> QED
  BY <1>1, <1>2, <1>3, <1>4, <1>5 DEF Current

\* a communicator is freed
LEMMA FreeDone ==
    ASSUME NEW p, Planned(p), NEW r, NEW L, NEW T \in Seq(Call(p)), Running(p, r, L, T),
           Heads(T, "pop"), NEW M, Len(M) = Len(L), Len(L) = 2 => M[1] = L[1]
    PROVE  Running(p, r, M, T)
<1>1. PICK P : \E k, a \in Nat : At(p, r, P, L, T, k, a)
  BY HowFar
<1>2. PICK k, a \in Nat : At(p, r, P, L, T, k, a)
  BY <1>1
<1>3. (k + 1 < Len(P) /\ Len(L) = 2) \/ (k = Len(P) - 1 /\ Len(L) = 1)
  BY <1>2, PopFacts
<1>4. a = 0
  BY <1>2, PopFacts
<1>5. Come(p, P, L, T, k, a) /\ Asked(p, P, L, T, k, a) /\ P = Programme(p, r)
  BY <1>2 DEF At
<1>6. Come(p, P, M, T, k, a)
  BY <1>4, <1>5 DEF Come
<1>7. Asked(p, P, M, T, k, a)
  <2>1. CASE Len(L) = 2
    BY <1>5, <2>1 DEF Asked
  <2>2. CASE k = Len(P) - 1
    <3>1. Len(P) \in Nat
      BY <1>2 DEF At, Orderly
    <3>2. ~ (k \in 1 .. Len(P) - 2)
      BY <2>2, <3>1
    <3> QED
      BY <3>2 DEF Asked
  <2> QED
    BY <1>3, <2>1, <2>2
<1> QED
  BY <1>5, <1>6, <1>7 DEF Running

\* the level is gone
LEMMA PopDone ==
    ASSUME NEW p, Planned(p), NEW r, NEW L, NEW T \in Seq(Call(p)), Running(p, r, L, T),
           Heads(T, "pop"), NEW M, Len(L) = 1 => Len(M) = 0,
           Len(L) = 2 => Len(M) = 1 /\ M[1] = L[1]
    PROVE  Tail(T) \in Seq(Call(p)) /\ (Tail(T) = <<>> \/ Running(p, r, M, Tail(T)))
<1>1. PICK P : \E k, a \in Nat : At(p, r, P, L, T, k, a)
  BY HowFar
<1>2. PICK k, a \in Nat : At(p, r, P, L, T, k, a)
  BY <1>1
<1>3. PICK n \in Nat : n = Len(P) /\ n >= 2
  BY <1>2 DEF At, Orderly
<1>4. /\ k \in 0 .. n - 1 /\ Len(T) = a + (n - k)
      /\ \A i \in 1 .. n - k : T[a + i] = P[k + i]
  BY <1>2, <1>3 DEF At, Come
<1>5. a = 0 /\ k >= 1 /\ ((k + 1 < n /\ Len(L) = 2) \/ (k = n - 1 /\ Len(L) = 1))
  BY <1>2, <1>3, PopFacts
<1>6. PICK U : U = Tail(T)
  OBVIOUS
<1>7. U \in Seq(Call(p)) /\ Len(U) = Len(T) - 1 /\ \A i \in 1 .. Len(U) : U[i] = T[i + 1]
  BY <1>2, <1>6, HeadTailProperties DEF At
<1>8. CASE k = n - 1
  <2>1. Len(U) = 0
    BY <1>4, <1>5, <1>7, <1>8
  <2>2. U = <<>>
    BY <1>7, <2>1, EmptySeq
  <2> QED
    BY <1>6, <1>7, <2>2
<1>9. CASE k + 1 < n /\ Len(L) = 2
  <2>1. PICK m \in Nat : m = k + 1 /\ m \in 2 .. n - 1
    <3>1. k + 1 \in Nat /\ k + 1 \in 2 .. n - 1
      BY <1>5, <1>9
    <3> QED
      BY <3>1
  <2>2. Len(U) = n - m /\ n - m \in Nat
    BY <1>4, <1>5, <1>7, <2>1
  <2>3. ASSUME NEW i \in 1 .. n - m PROVE U[i] = P[m + i]
    <3>1. i \in 1 .. Len(U) /\ i + 1 \in 1 .. n - k /\ k + (i + 1) = m + i
      BY <2>1, <2>2
    <3>2. U[i] = T[i + 1]
      BY <1>7, <3>1
    <3>3. T[a + (i + 1)] = P[k + (i + 1)]
      BY <1>4, <3>1
    <3>4. a + (i + 1) = i + 1
      BY <1>5
    <3> QED
      BY <3>1, <3>2, <3>3, <3>4
  <2>4. P[m] = Popping
    <3>1. T[1] = P[m]
      <4>1. 1 \in 1 .. n - k /\ a + 1 = 1 /\ k + 1 = m
        BY <1>4, <1>5, <2>1
      <4> QED
        BY <1>4, <4>1
    <3>2. Head(T) = T[1] /\ Current(p, r, P, L, T, k, a)
      BY <1>2 DEF At
    <3>3. Head(T) = Popping
      BY <1>5, <1>9, <3>2 DEF Current
    <3> QED
      BY <3>1, <3>2, <3>3
  <2>5. Len(M) = Depth(P, m)
    <3>1. P[m].op # "extend"
      BY <2>4 DEF Popping
    <3> QED
      BY <1>9, <2>1, <3>1 DEF Depth
  <2>6. Come(p, P, M, U, m, 0)
    <3>1. \A i \in 1 .. n - m : U[0 + i] = P[m + i]
      BY <2>3
    <3>2. m \in 0 .. n - 1 /\ m # 0 /\ Len(U) = 0 + (n - m)
      BY <2>1, <2>2
    <3> QED
      BY <1>3, <2>5, <3>1, <3>2 DEF Come
  <2>7. Asked(p, P, M, U, m, 0)
    <3> SUFFICES ASSUME m \in 1 .. n - 2, NEW to \in Asks(Outer(p), M[1].group)
                 PROVE  to \in DOMAIN M[1].cache
      BY <1>3 DEF Asked
    <3>1. k \in 1 .. n - 2 /\ a = 0 /\ M[1] = L[1]
      BY <1>5, <1>9, <2>1
    <3>2. \/ to \in DOMAIN L[1].cache
          \/ k = 1 /\ \E i \in 1 .. a : T[i] = Asking(to)
      BY <1>2, <1>3, <3>1 DEF At, Asked
    <3> QED
      BY <3>1, <3>2
  <2>8. Running(p, r, M, U)
    BY <1>2, <2>6, <2>7 DEF Running, At
  <2> QED
    BY <1>6, <1>7, <2>8
<1> QED
  BY <1>5, <1>8, <1>9

\* extend() is the first call, or that before a job
LEMMA ExtendFacts ==
    ASSUME NEW p, Planned(p), NEW r \in World(p), NEW P, NEW L, NEW T,
           NEW k \in Nat, NEW a \in Nat, At(p, r, P, L, T, k, a), Heads(T, "extend")
    PROVE  /\ a = 0
           /\ \E id \in {0} \cup JobIds(p) :
                 /\ Head(T) = Op(p, id) /\ r \in ToSet(Op(p, id).world)
                 /\ \/ id = 0 /\ k = 0 /\ Len(L) = 0
                    \/ id # 0 /\ k >= 1 /\ k + 2 < Len(P) /\ Len(L) = 1
<1>1. (\A to : Asking(to).op # "extend") /\ Popping.op # "extend"
  BY DEF Asking, Popping
<1>2. Current(p, r, P, L, T, k, a) /\ Head(T).op = "extend"
  BY DEF At, Heads
<1>3. r \in ToSet(Op(p, 0).world) /\ 0 \notin JobIds(p)
  BY OuterWorld, PlanFacts
<1>4. CASE a = 0 /\ k = 0 /\ Head(T) = Op(p, 0) /\ Len(L) = 0
  BY <1>3, <1>4
<1>5. CASE /\ a = 0 /\ k >= 1 /\ k + 2 < Len(P) /\ Len(L) = 1
           /\ \E id : Joins(p, r, id) /\ Head(T) = Op(p, id)
  <2>1. PICK id : Joins(p, r, id) /\ Head(T) = Op(p, id)
    BY <1>5
  <2>2. id \in {0} \cup JobIds(p) /\ id # 0 /\ r \in ToSet(Op(p, id).world)
    BY <1>3, <2>1 DEF Joins
  <2> QED
    BY <1>5, <2>1, <2>2
<1> QED
  BY <1>1, <1>2, <1>4, <1>5 DEF Current

\* what is asked for on a new level comes before the rest
Requests(c) == [k \in DOMAIN c |-> Asking(c[k])]

\* M is L with a level more
Raised(L, M, id, g) ==
    /\ Len(M) = Len(L) + 1 /\ M[Len(M)].id = id /\ M[Len(M)].group = g
    /\ (Len(L) = 1 => M[1] = L[1])

\* ... which was that of the program, or that of a job
LEMMA ExtendDone ==
    ASSUME NEW p, Planned(p), NEW r \in World(p), NEW L, NEW T \in Seq(Call(p)),
           Running(p, r, L, T), Heads(T, "extend"), NEW M, NEW g,
           Raised(L, M, Head(T).id, g), Len(L) \in 0 .. 2,
           NEW c \in Seq(Nat), Len(L) = 0 => c = Outer(p).calls[g],
           \A to \in ToSet(c) : Allowed(p, M, to)
    PROVE  Requests(c) \o Tail(T) \in Seq(Call(p)) /\ Running(p, r, M, Requests(c) \o Tail(T))
<1>1. PICK P : \E k, a \in Nat : At(p, r, P, L, T, k, a)
  BY HowFar
<1>2. PICK k, a \in Nat : At(p, r, P, L, T, k, a)
  BY <1>1
<1>3. PICK n \in Nat : n = Len(P) /\ n >= 2
  BY <1>2 DEF At, Orderly
<1>4. /\ k \in 0 .. n - 1 /\ Len(T) = a + (n - k)
      /\ \A i \in 1 .. n - k : T[a + i] = P[k + i]
  BY <1>2, <1>3 DEF At, Come
<1>5. /\ a = 0
      /\ \E id \in {0} \cup JobIds(p) :
            /\ Head(T) = Op(p, id)
            /\ \/ id = 0 /\ k = 0 /\ Len(L) = 0
               \/ id # 0 /\ k >= 1 /\ k + 2 < n /\ Len(L) = 1
  <2>1. /\ a = 0
        /\ \E id \in {0} \cup JobIds(p) :
              /\ Head(T) = Op(p, id) /\ r \in ToSet(Op(p, id).world)
              /\ \/ id = 0 /\ k = 0 /\ Len(L) = 0
                 \/ id # 0 /\ k >= 1 /\ k + 2 < Len(P) /\ Len(L) = 1
    BY <1>2, ExtendFacts
  <2> QED
    BY <1>3, <2>1
<1>6. PICK id \in {0} \cup JobIds(p) :
          /\ Head(T) = Op(p, id)
          /\ \/ id = 0 /\ k = 0 /\ Len(L) = 0
             \/ id # 0 /\ k >= 1 /\ k + 2 < n /\ Len(L) = 1
  BY <1>5
<1>7. PICK V : V = Tail(T)
  OBVIOUS
<1>8. V \in Seq(Call(p)) /\ Len(V) = Len(T) - 1 /\ \A i \in 1 .. Len(V) : V[i] = T[i + 1]
  BY <1>2, <1>7, HeadTailProperties DEF At
<1>9. PICK z \in Nat : z = Len(c) /\ DOMAIN c = 1 .. z /\ \A i \in 1 .. z : c[i] \in Nat /\ c[i] \in ToSet(c)
  <2>1. Len(c) \in Nat /\ DOMAIN c = 1 .. Len(c)
    BY LenProperties
  <2>2. \A i \in 1 .. Len(c) : c[i] \in Nat /\ c[i] \in ToSet(c)
    BY <2>1, ElementOfSeq DEF ToSet
  <2> QED
    BY <2>1, <2>2
<1>10. PICK R : R = Requests(c)
  OBVIOUS
<1>11. R \in Seq(Call(p)) /\ Len(R) = z /\ \A i \in 1 .. z : R[i] = Asking(c[i])
  <2>1. R = [i \in 1 .. z |-> Asking(c[i])]
    BY <1>9, <1>10 DEF Requests
  <2>2. \A i \in 1 .. z : Asking(c[i]) \in Call(p)
    BY <1>9 DEF Call
  <2> QED
    BY <2>1, <2>2
<1>12. PICK U : U = R \o V
  OBVIOUS
<1>13. /\ U \in Seq(Call(p)) /\ Len(U) = z + Len(V)
       /\ \A i \in 1 .. z + Len(V) : U[i] = IF i <= z THEN R[i] ELSE V[i - z]
  BY <1>8, <1>11, <1>12, ConcatProperties
<1>14. PICK m \in Nat : m = k + 1 /\ m \in 1 .. n - 1
  <2>1. k + 1 \in Nat /\ k + 1 \in 1 .. n - 1
    BY <1>3, <1>6
  <2> QED
    BY <2>1
<1>15. Len(V) = n - m /\ n - m \in Nat
  BY <1>4, <1>5, <1>8, <1>14
<1>16. ASSUME NEW i \in 1 .. n - m PROVE U[z + i] = P[m + i]
  <2>1. z + i \in 1 .. z + Len(V) /\ ~ (z + i <= z) /\ (z + i) - z = i
    BY <1>15
  <2>2. U[z + i] = V[i]
    BY <1>13, <2>1
  <2>3. i \in 1 .. Len(V) /\ i + 1 \in 1 .. n - k /\ k + (i + 1) = m + i /\ a + (i + 1) = i + 1
    BY <1>5, <1>14, <1>15
  <2>4. V[i] = T[i + 1]
    BY <1>8, <2>3
  <2>5. T[a + (i + 1)] = P[k + (i + 1)]
    BY <1>4, <2>3
  <2> QED
    BY <2>2, <2>3, <2>4, <2>5
<1>17. \A i \in 1 .. z : U[i] = Asking(c[i])
  <2>1. \A i \in 1 .. z : i \in 1 .. z + Len(V) /\ i <= z
    BY <1>15
  <2> QED
    BY <1>11, <1>13, <2>1
<1>18. Len(M) = Depth(P, m)
  <2>1. P[m].op = "extend"
    <3>1. T[1] = P[m]
      <4>1. 1 \in 1 .. n - k /\ a + 1 = 1 /\ k + 1 = m
        BY <1>4, <1>5, <1>14
      <4> QED
        BY <1>4, <4>1
    <3>2. Head(T) = T[1] /\ Head(T).op = "extend"
      BY <1>2 DEF At, Heads
    <3> QED
      BY <3>1, <3>2
  <2>2. Len(M) = Len(L) + 1
    BY DEF Raised
  <2>3. (k = 0 /\ Len(L) = 0) \/ (k >= 1 /\ Len(L) = 1)
    BY <1>6
  <2>4. CASE k = 0 /\ Len(L) = 0
    BY <1>14, <2>2, <2>4 DEF Depth
  <2>5. CASE k >= 1 /\ Len(L) = 1
    BY <1>14, <2>1, <2>2, <2>5 DEF Depth
  <2> QED
    BY <2>3, <2>4, <2>5
<1>19. Come(p, P, M, U, m, z)
  <2>1. \A i \in 1 .. z : \E to \in Nat : U[i] = Asking(to) /\ Allowed(p, M, to)
    BY <1>9, <1>17
  <2>2. m \in 0 .. n - 1 /\ m # 0 /\ Len(U) = z + (n - m)
    BY <1>13, <1>14, <1>15
  <2> QED
    BY <1>3, <1>16, <1>18, <2>1, <2>2 DEF Come
<1>20. Asked(p, P, M, U, m, z)
  <2> SUFFICES ASSUME m \in 1 .. n - 2, NEW to \in Asks(Outer(p), M[1].group)
               PROVE  \/ to \in DOMAIN M[1].cache
                      \/ m = 1 /\ \E i \in 1 .. z : U[i] = Asking(to)
    BY <1>3 DEF Asked
  <2>1. CASE id = 0 /\ k = 0 /\ Len(L) = 0
    <3>1. M[1].group = g /\ c = Outer(p).calls[g]
      BY <2>1 DEF Raised
    <3>2. to \in ToSet(c)
      BY <3>1 DEF Asks
    <3>3. PICK i \in 1 .. z : c[i] = to
      BY <1>9, <3>2 DEF ToSet
    <3> QED
      BY <1>14, <1>17, <2>1, <3>3
  <2>2. CASE id # 0 /\ k >= 1 /\ k + 2 < n /\ Len(L) = 1
    <3>1. k \in 1 .. n - 2 /\ a = 0 /\ M[1] = L[1]
      BY <1>5, <2>2 DEF Raised
    <3>2. \/ to \in DOMAIN L[1].cache
          \/ k = 1 /\ \E i \in 1 .. a : T[i] = Asking(to)
      BY <1>2, <1>3, <3>1 DEF At, Asked
    <3> QED
      BY <3>1, <3>2
  <2> QED
    BY <1>6, <2>1, <2>2
<1>21. Running(p, r, M, U)
  BY <1>2, <1>19, <1>20 DEF Running, At
<1> QED
  BY <1>7, <1>10, <1>12, <1>13, <1>21

\* a rank that is inside intercomm() asks for a group of the level it is on
LEMMA AskReaches ==
    ASSUME NEW p, Planned(p), NEW r, NEW L, NEW T \in Seq(Call(p)), Running(p, r, L, T),
           Heads(T, "intercomm"), Lacks(L, Head(T).to), Stack(p, r, L)
    PROVE  /\ Reaches(Op(p, Top(L).id).procs, Top(L).group, Head(T).to) /\ Len(L) \in 1 .. 2
           /\ \E to \in Nat : Head(T) = Asking(to)
<1>1. PICK P : \E k, a \in Nat : At(p, r, P, L, T, k, a)
  BY HowFar
<1>2. PICK k, a \in Nat : At(p, r, P, L, T, k, a)
  BY <1>1
<1>3. PICK n \in Nat : n = Len(P) /\ n >= 2
  BY <1>2 DEF At, Orderly
<1>4. a > 0 /\ k >= 1 /\ \E to \in Nat : Head(T) = Asking(to) /\ Allowed(p, L, to)
  <2>1. Popping.op # "intercomm"
    BY DEF Popping
  <2>2. \A id : Joins(p, r, id) => Op(p, id).op # "intercomm"
    BY PlanFacts DEF Joins
  <2>3. Op(p, 0).op # "intercomm"
    BY PlanFacts
  <2>4. Current(p, r, P, L, T, k, a) /\ Head(T).op = "intercomm"
    BY <1>2 DEF At, Heads
  <2> QED
    BY <2>1, <2>2, <2>3, <2>4 DEF Current
<1>5. PICK to \in Nat : Head(T) = Asking(to) /\ Allowed(p, L, to)
  BY <1>4
<1>6. Head(T).to = to
  BY <1>5 DEF Asking
<1>7. Len(L) \in 1 .. 2 /\ 1 \in DOMAIN L
  <2>1. Len(L) # 0
    BY <1>2, <1>4 DEF At
  <2>2. Len(L) \in 0 .. 2 /\ DOMAIN L = 1 .. Len(L)
    BY StackFacts
  <2> QED
    BY <2>1, <2>2
<1>8. ~ (Len(L) = 2 /\ to \in Asks(Outer(p), L[1].group))
  <2> SUFFICES ASSUME Len(L) = 2, to \in Asks(Outer(p), L[1].group) PROVE FALSE
    OBVIOUS
  <2>1. k \in 2 .. n - 2 /\ Asked(p, P, L, T, k, a)
    BY <1>2, <1>3 DEF At
  <2>2. k \in 1 .. n - 2 /\ k # 1
    BY <2>1
  <2>3. to \in DOMAIN L[1].cache
    BY <1>3, <2>1, <2>2 DEF Asked
  <2> QED
    BY <1>6, <1>7, <2>3 DEF Lacks
<1> QED
  BY <1>5, <1>6, <1>7, <1>8 DEF Allowed

-----------------------------------------------------------------------------
(* The steps of a single rank                                               *)

\* what the actions say of a rank
LEMMA Words ==
    ASSUME NEW r, NEW op
    PROVE  /\ Calls(r, op) <=> todo[r] # <<>> /\ Heads(todo[r], op)
           /\ Level(r) = Top(levels[r])
           /\ \A to : Found(r, to) = {} <=> Lacks(levels[r], to)
           /\ Ranks = World(plan)
BY DEF Calls, Heads, Level, Last, Top, Found, Lacks, Ranks, World

LEMMA ThrowKeeps ==
    ASSUME InvOf(plan, todo, waiting, levels), NEW r \in Ranks, Throw(r)
    PROVE  InvOf(plan, todo', waiting', levels')
<1>1. /\ todo' = [todo EXCEPT ![r] = <<>>] /\ waiting' = waiting /\ levels' = levels
      /\ Heads(todo[r], "extend") /\ Total(Head(todo[r]).procs) # Len(Head(todo[r]).world)
  BY DEF Throw, Calls, Heads
<1>2. PICK p, t, w, l, t2 : p = plan /\ t = todo /\ w = waiting /\ l = levels /\ t2 = todo'
  OBVIOUS
<1>3. /\ Planned(p) /\ w \subseteq World(p) /\ r \in World(p)
      /\ t = [q \in World(p) |-> t[q]] /\ l = [q \in World(p) |-> l[q]]
      /\ \A q \in World(p) : Sound(p, l, q, t[q])
      /\ \A q \in w : Inside(l[q], t[q])
  BY <1>2 DEF InvOf, Ranks, World
<1>4. t2 = [q \in World(p) |-> IF q = r THEN <<>> ELSE t[q]]
  BY <1>1, <1>2, <1>3
<1>5. \A q \in World(p) : Sound(p, l, q, t2[q])
  <2>1. <<>> \in Seq(Call(p))
    OBVIOUS
  <2>2. Sound(p, l, r, <<>>)
    BY <1>3, <2>1 DEF Sound
  <2> QED
    BY <1>3, <1>4, <2>2
<1>6. \A q \in w : Inside(l[q], t2[q])
  <2>1. r \notin w
    BY <1>1, <1>2, <1>3 DEF Inside
  <2> QED
    BY <1>3, <1>4, <2>1
<1>7. t2 = [q \in World(p) |-> t2[q]]
  BY <1>4
<1>8. InvOf(p, t2, w, l)
  BY <1>3, <1>5, <1>6, <1>7 DEF InvOf
<1> QED
  BY <1>1, <1>2, <1>8

LEMMA EnterKeeps ==
    ASSUME InvOf(plan, todo, waiting, levels), NEW r \in Ranks, Enter(r)
    PROVE  InvOf(plan, todo', waiting', levels')
<1>1. todo' = todo /\ waiting' = waiting \cup {r} /\ levels' = levels /\ Inside(levels[r], todo[r])
  <2>1. /\ todo' = todo /\ waiting' = waiting \cup {r} /\ levels' = levels
        /\ todo[r] # <<>>
        /\ Calls(r, "extend") => Total(Head(todo[r]).procs) = Len(Head(todo[r]).world)
        /\ Calls(r, "intercomm") => Found(r, Head(todo[r]).to) = {}
    BY DEF Enter
  <2>2. \A op : Calls(r, op) <=> todo[r] # <<>> /\ Heads(todo[r], op)
    BY Words
  <2>3. \A to : Found(r, to) = {} <=> Lacks(levels[r], to)
    BY Words
  <2> QED
    BY <2>1, <2>2, <2>3 DEF Inside
<1>2. r \in World(plan)
  BY DEF Ranks, World
<1>3. InvOf(plan, todo, waiting \cup {r}, levels)
  BY <1>1, <1>2 DEF InvOf
<1> QED
  BY <1>1, <1>3

LEMMA CachedKeeps ==
    ASSUME InvOf(plan, todo, waiting, levels), NEW r \in Ranks, Cached(r)
    PROVE  InvOf(plan, todo', waiting', levels')
<1>1. /\ todo' = [todo EXCEPT ![r] = Tail(@)] /\ waiting' = waiting /\ levels' = levels
      /\ todo[r] # <<>> /\ Heads(todo[r], "intercomm")
      /\ ~ Lacks(levels[r], Head(todo[r]).to)
  <2>1. /\ todo' = [todo EXCEPT ![r] = Tail(@)] /\ waiting' = waiting /\ levels' = levels
        /\ Calls(r, "intercomm") /\ Found(r, Head(todo[r]).to) # {}
    BY DEF Cached
  <2>2. Calls(r, "intercomm") <=> todo[r] # <<>> /\ Heads(todo[r], "intercomm")
    BY Words
  <2>3. \A to : Found(r, to) = {} <=> Lacks(levels[r], to)
    BY Words
  <2> QED
    BY <2>1, <2>2, <2>3
<1>2. PICK p, t, w, l, t2 : p = plan /\ t = todo /\ w = waiting /\ l = levels /\ t2 = todo'
  OBVIOUS
<1>3. /\ Planned(p) /\ w \subseteq World(p) /\ r \in World(p)
      /\ t = [q \in World(p) |-> t[q]] /\ l = [q \in World(p) |-> l[q]]
      /\ \A q \in World(p) : Sound(p, l, q, t[q])
      /\ \A q \in w : Inside(l[q], t[q])
  BY <1>2 DEF InvOf, Ranks, World
<1>4. t2 = [q \in World(p) |-> IF q = r THEN Tail(t[r]) ELSE t[q]]
  BY <1>1, <1>2, <1>3
<1>5. Sound(p, l, r, Tail(t[r]))
  <2>1. /\ t[r] \in Seq(Call(p)) /\ Stack(p, r, l[r]) /\ Entries(p, l, l[r])
        /\ Running(p, r, l[r], t[r]) /\ Heads(t[r], "intercomm")
    BY <1>1, <1>2, <1>3 DEF Sound
  <2>2. Len(l[r]) \in 0 .. 2 /\ DOMAIN l[r] = 1 .. Len(l[r])
    BY <2>1, StackFacts
  <2>3. Grows(l[r], l[r])
    BY DEF Grows
  <2>4. Len(l[r]) = 1 => Head(t[r]).to \in DOMAIN l[r][1].cache
    <3>1. PICK k \in DOMAIN l[r] : Head(t[r]).to \in DOMAIN l[r][k].cache
      BY <1>1, <1>2 DEF Lacks
    <3> QED
      BY <2>2, <3>1
  <2>5. Tail(t[r]) \in Seq(Call(p)) /\ Running(p, r, l[r], Tail(t[r]))
    BY <1>3, <2>1, <2>2, <2>3, <2>4, AskDone
  <2> QED
    BY <2>1, <2>5 DEF Sound
<1>6. \A q \in w : Inside(l[q], t2[q])
  <2>1. r \notin w
    BY <1>1, <1>2, <1>3 DEF Inside
  <2> QED
    BY <1>3, <1>4, <2>1
<1>7. t2 = [q \in World(p) |-> t2[q]] /\ \A q \in World(p) : Sound(p, l, q, t2[q])
  BY <1>3, <1>4, <1>5
<1>8. InvOf(p, t2, w, l)
  BY <1>3, <1>6, <1>7 DEF InvOf
<1> QED
  BY <1>1, <1>2, <1>8

-----------------------------------------------------------------------------
(* The entries of the caches when something else changes                    *)

LEMMA StackLevels ==
    ASSUME NEW p, Planned(p), NEW r, NEW L, Stack(p, r, L)
    PROVE  \A k \in DOMAIN L : /\ LevelOf(Op(p, L[k].id), r, L[k])
                               /\ ToSet(Op(p, L[k].id).world) \subseteq World(p)
                               /\ L[k].id \in {0} \cup JobIds(p) /\ (L[k].id = 0 <=> k = 1)
<1> SUFFICES ASSUME NEW k \in DOMAIN L
             PROVE  /\ LevelOf(Op(p, L[k].id), r, L[k])
                    /\ ToSet(Op(p, L[k].id).world) \subseteq World(p)
                    /\ L[k].id \in {0} \cup JobIds(p) /\ (L[k].id = 0 <=> k = 1)
  OBVIOUS
<1>1. Made(p, r, L[k]) /\ (L[k].id = 0 <=> k = 1)
  BY StackFacts
<1>2. PICK v : v = L[k]
  OBVIOUS
<1>3. Made(p, r, v)
  BY <1>1, <1>2
<1>4. LevelOf(Op(p, v.id), r, v) /\ ToSet(Op(p, v.id).world) \subseteq World(p)
  BY <1>3, MadeFacts
<1>5. v.id \in {0} \cup JobIds(p)
  BY <1>3 DEF Made
<1> QED
  BY <1>1, <1>2, <1>4, <1>5

\* both sides of what two groups have in common are groups of the level
LEMMA EntryFacts ==
    ASSUME NEW p, Planned(p), NEW r, NEW L, Stack(p, r, L), NEW k \in DOMAIN L, NEW l, NEW to,
           Entry(p, l, L[k], to)
    PROVE  /\ LevelOf(Op(p, L[k].id), r, L[k]) /\ to \in Named(Op(p, L[k].id).procs)
           /\ to # L[k].group /\ ToSet(Side(Op(p, L[k].id), to)) \subseteq World(p)
           /\ Side(Op(p, L[k].id), to) # <<>>
<1>1. PICK v, op : v = L[k] /\ op = Op(p, v.id)
  OBVIOUS
<1>2. LevelOf(op, r, v) /\ ToSet(op.world) \subseteq World(p)
  BY <1>1, StackLevels
<1>3. Fits(op) /\ Reaches(op.procs, v.group, to)
  BY <1>1, <1>2 DEF LevelOf, Entry
<1>4. to \in Named(op.procs) /\ to # v.group /\ Side(op, to) # <<>>
  BY <1>3, ReachFacts
<1>5. ToSet(Side(op, to)) \subseteq ToSet(op.world)
  BY <1>3, <1>4, SideRanks
<1> QED
  BY <1>1, <1>2, <1>4, <1>5

Retains(L, M) == \A id, to : Has(L, id, to) => Has(M, id, to)

\* v and u have the same under this name
SameEntry(v, u, to) ==
    u.id = v.id /\ u.group = v.group /\ to \in DOMAIN v.cache /\ u.cache[to] = v.cache[to]

\* M has no other entries than L
SameEntries(L, M) ==
    \A k \in DOMAIN M : \A to \in DOMAIN M[k].cache : \E j \in DOMAIN L : SameEntry(L[j], M[k], to)

LEMMA EntryKept ==
    ASSUME NEW p, Planned(p), NEW r, NEW L, Stack(p, r, L), NEW l, Entries(p, l, L),
           NEW m, \A q \in World(p) : Retains(l[q], m[q]),
           NEW j \in DOMAIN L, NEW u, NEW to, SameEntry(L[j], u, to)
    PROVE  Entry(p, m, u, to)
<1>1. PICK v, op : v = L[j] /\ op = Op(p, v.id)
  OBVIOUS
<1>2. u.id = v.id /\ u.group = v.group /\ to \in DOMAIN v.cache /\ u.cache[to] = v.cache[to]
  BY <1>1 DEF SameEntry
<1>3. Entry(p, l, v, to)
  BY <1>1, <1>2 DEF Entries
<1>4. ToSet(Side(op, to)) \subseteq World(p)
  BY <1>1, <1>3, EntryFacts
<1>5. /\ Reaches(op.procs, v.group, to) /\ v.cache[to] = Shared(op, v.group, to)
      /\ \A q \in ToSet(Side(op, to)) : Has(l[q], v.id, v.group)
  BY <1>1, <1>3 DEF Entry
<1>6. \A q \in ToSet(Side(op, to)) : Has(m[q], v.id, v.group)
  BY <1>4, <1>5 DEF Retains
<1>7. Op(p, u.id) = op
  BY <1>1, <1>2
<1> QED
  BY <1>2, <1>5, <1>6, <1>7 DEF Entry

LEMMA EntriesKept ==
    ASSUME NEW p, Planned(p), NEW r, NEW L, Stack(p, r, L), NEW l, Entries(p, l, L),
           NEW m, \A q \in World(p) : Retains(l[q], m[q]), NEW M, SameEntries(L, M)
    PROVE  Entries(p, m, M)
<1> SUFFICES ASSUME NEW k \in DOMAIN M, NEW to \in DOMAIN M[k].cache
             PROVE  Entry(p, m, M[k], to)
  BY DEF Entries
<1>1. PICK j \in DOMAIN L : SameEntry(L[j], M[k], to)
  BY DEF SameEntries
<1> QED
  BY <1>1, EntryKept

-----------------------------------------------------------------------------
(* extend()                                                                 *)

\* a program that is divided gets by on its ranks
LEMMA OuterTotal ==
    ASSUME NEW p, Planned(p), Total(Op(p, 0).procs) = Len(Op(p, 0).world)
    PROVE  Total(p.procs) = p.size /\ Op(p, 0).procs = p.procs
<1>1. PICK n \in Nat : n = p.size
  BY PlanFacts
<1>2. Op(p, 0).world = [k \in 1 .. n |-> k - 1] /\ Op(p, 0).procs = p.procs
  BY <1>1, OuterWorld DEF Outer, Extending
<1>3. Len(Op(p, 0).world) = n
  BY <1>2
<1> QED
  BY <1>1, <1>2, <1>3

LEMMA OuterPlace ==
    ASSUME NEW p, Planned(p), NEW r \in World(p)
    PROVE  Place(Op(p, 0), r) = r
<1>1. PICK n \in Nat : n = p.size
  BY PlanFacts
<1>2. Op(p, 0).world = [k \in 1 .. n |-> k - 1]
  BY <1>1, OuterWorld DEF Outer, Extending
<1>3. PICK W : W = [k \in 1 .. n |-> k - 1]
  OBVIOUS
<1>4. PICK x \in Nat : x = r /\ x + 1 \in 1 .. n
  BY <1>1 DEF World
<1>5. \A k \in DOMAIN W : W[k] = x <=> k = x + 1
  BY <1>3
<1>6. x + 1 \in DOMAIN W
  BY <1>3, <1>4
<1>7. (CHOOSE k \in DOMAIN W : W[k] = x) = x + 1
  BY <1>5, <1>6
<1>8. Place(Op(p, 0), r) = (CHOOSE k \in DOMAIN W : W[k] = x) - 1
  BY <1>2, <1>3, <1>4 DEF Place, Index
<1>9. (x + 1) - 1 = x
  OBVIOUS
<1> QED
  BY <1>4, <1>7, <1>8, <1>9

\* what is asked for on a new level is a group of it, or has been asked for outside
LEMMA AskAllowed ==
    ASSUME NEW p, Planned(p), NEW r \in World(p), NEW id \in {0} \cup JobIds(p),
           NEW M, Stack(p, r, M), Len(M) \in 1 .. 2, Top(M).id = id,
           NEW to \in ToSet(Op(p, id).calls[Top(M).group])
    PROVE  Allowed(p, M, to)
<1>1. PICK v, op, g : v = Top(M) /\ op = Op(p, id) /\ g = v.group
  OBVIOUS
<1>2. /\ DOMAIN M = 1 .. Len(M) /\ Made(p, r, M[1]) /\ M[1].id = 0 /\ Made(p, r, v)
      /\ (id = 0 <=> Len(M) = 1)
  <2>0. PICK n \in 1 .. 2 : n = Len(M)
    OBVIOUS
  <2>1. 1 \in 1 .. Len(M) /\ Len(M) \in 1 .. Len(M)
    BY <2>0
  <2> QED
    BY <1>1, <2>1, StackFacts DEF Top
<1>3. LevelOf(op, r, v)
  BY <1>1, <1>2, MadeFacts
<1>4. g = GroupOf(op, r) /\ g \in Named(op.procs) /\ r \in ToSet(op.world) /\ Fits(op)
  BY <1>1, <1>3 DEF LevelOf
<1>5. Total(p.procs) = p.size /\ Op(p, 0).procs = p.procs /\ Op(p, 0) = Outer(p)
  <2>1. Total(Op(p, 0).procs) = Len(Op(p, 0).world)
    BY <1>2 DEF Made
  <2> QED
    BY <2>1, OuterTotal, OuterWorld
<1>6. CASE id = 0
  <2>1. op = Outer(p) /\ op.procs = p.procs
    BY <1>1, <1>5, <1>6
  <2>2. to \in Asks(Outer(p), g)
    BY <1>1, <2>1 DEF Asks
  <2>3. Reaches(p.procs, g, to)
    BY <1>4, <1>5, <2>1, <2>2, PlansAssumption DEF PlansAssumption, Planned
  <2> QED
    BY <1>1, <1>5, <1>6, <2>1, <2>3 DEF Allowed
<1>7. CASE id # 0
  <2>1. id \in JobIds(p) /\ op = Inner(p, id) /\ id \in DOMAIN p.jobs /\ Len(M) = 2
    BY <1>1, <1>2, <1>7, PlanFacts DEF Op
  <2>2. /\ Place(op, r) + 1 \in DOMAIN op.world /\ op.world[Place(op, r) + 1] = r
        /\ (Place(op, r) + 1) - 1 = Place(op, r)
    BY <1>4, Places
  <2>3. PICK i \in DOMAIN op.world : op.world[i] = r /\ i - 1 = Place(op, r)
    BY <2>2
  <2>4. g = Group(op.procs, i - 1) /\ to \in Asks(op, g)
    BY <1>1, <1>4, <2>3 DEF GroupOf, Asks
  <2>5. Total(op.procs) = Len(op.world)
    BY <1>4 DEF Fits
  <2>6. \A o : o = Inner(p, id) /\ Total(o.procs) = Len(o.world) =>
           \A n \in DOMAIN o.world : \A x \in Asks(o, Group(o.procs, n - 1)) :
               \/ Reaches(o.procs, Group(o.procs, n - 1), x)
               \/ x \in Asks(Outer(p), Group(p.procs, o.world[n]))
    BY <1>5, <2>1, PlansAssumption DEF PlansAssumption, Planned
  <2>7. Reaches(op.procs, g, to) \/ to \in Asks(Outer(p), Group(p.procs, r))
    BY <2>1, <2>3, <2>4, <2>5, <2>6
  <2>8. M[1].group = Group(p.procs, r)
    <3>1. LevelOf(Op(p, 0), r, M[1])
      BY <1>2, MadeFacts
    <3>2. M[1].group = Group(Op(p, 0).procs, Place(Op(p, 0), r))
      BY <3>1 DEF LevelOf, GroupOf
    <3> QED
      BY <1>5, <3>2, OuterPlace
  <2> QED
    BY <1>1, <2>1, <2>7, <2>8 DEF Allowed
<1> QED
  BY <1>6, <1>7

\* r is in extend() for this level
LEMMA ExtendLevel ==
    ASSUME NEW p, Planned(p), NEW r \in World(p), NEW l, NEW T, Sound(p, l, r, T), T # <<>>,
           Heads(T, "extend"), Total(Head(T).procs) = Len(Head(T).world)
    PROVE  LET M == Append(l[r], NewLevel(r, Head(T)))
               U == Requests(Head(T).calls[NewLevel(r, Head(T)).group]) \o Tail(T)
           IN /\ Retains(l[r], M) /\ Stack(p, r, M) /\ SameEntries(l[r], M)
              /\ U \in Seq(Call(p)) /\ Running(p, r, M, U)
<1>1. PICK L, op, v : L = l[r] /\ op = Head(T) /\ v = NewLevel(r, op)
  OBVIOUS
<1>2. T \in Seq(Call(p)) /\ Stack(p, r, L) /\ Entries(p, l, L) /\ Running(p, r, L, T)
  BY <1>1 DEF Sound
<1>3. Len(L) \in 0 .. 2 /\ DOMAIN L = 1 .. Len(L)
  BY <1>2, StackFacts
<1>4. PICK id \in {0} \cup JobIds(p) :
          /\ op = Op(p, id) /\ r \in ToSet(op.world)
          /\ (id = 0 /\ Len(L) = 0) \/ (id # 0 /\ Len(L) = 1)
  <2>1. PICK P : \E k, a \in Nat : At(p, r, P, L, T, k, a)
    BY <1>2, HowFar
  <2>2. PICK k, a \in Nat : At(p, r, P, L, T, k, a)
    BY <2>1
  <2>3. \E id \in {0} \cup JobIds(p) :
            /\ Head(T) = Op(p, id) /\ r \in ToSet(Op(p, id).world)
            /\ \/ id = 0 /\ k = 0 /\ Len(L) = 0
               \/ id # 0 /\ k >= 1 /\ k + 2 < Len(P) /\ Len(L) = 1
    BY <2>2, ExtendFacts
  <2> QED
    BY <1>1, <2>3
<1>5. op.id = id /\ Extendable(op, p.size)
  BY <1>4, PlanFacts
<1>6. Made(p, r, v) /\ v.id = id /\ DOMAIN v.cache = {}
  BY <1>1, <1>4, NewLevelMade
<1>7. PICK M : M = Append(L, v)
  OBVIOUS
<1>8. /\ Stack(p, r, M) /\ Len(M) = Len(L) + 1 /\ M[Len(L) + 1] = v
      /\ \A k \in 1 .. Len(L) : M[k] = L[k]
  <2>1. (Len(L) = 0 /\ v.id = 0) \/ (Len(L) = 1 /\ v.id # 0)
    BY <1>4, <1>6
  <2> QED
    BY <1>2, <1>6, <1>7, <2>1, Pushed
<1>9. DOMAIN M = 1 .. Len(L) + 1 /\ Top(M) = v /\ Len(M) \in 1 .. 2
  <2>1. Len(L) \in 0 .. 1
    BY <1>4
  <2> QED
    BY <1>8, <2>1, StackFacts DEF Top
<1>10. Retains(L, M)
  <2> SUFFICES ASSUME NEW i, NEW to, Has(L, i, to) PROVE Has(M, i, to)
    BY DEF Retains
  <2>1. PICK k \in 1 .. Len(L) : L[k].id = i /\ to \in DOMAIN L[k].cache
    BY <1>3 DEF Has
  <2>2. k \in DOMAIN M /\ M[k] = L[k]
    BY <1>3, <1>8, <1>9
  <2> QED
    BY <2>1, <2>2 DEF Has
<1>11. PICK g, c : g = v.group /\ c = op.calls[g]
  OBVIOUS
<1>12. c \in Seq(Nat)
  <2>1. LevelOf(Op(p, v.id), r, v)
    BY <1>6, MadeFacts
  <2>2. g \in Named(op.procs)
    BY <1>4, <1>6, <1>11, <2>1 DEF LevelOf
  <2> QED
    BY <1>5, <1>11, <2>2 DEF Extendable
<1>13. \A to \in ToSet(c) : Allowed(p, M, to)
  BY <1>4, <1>6, <1>8, <1>9, <1>11, AskAllowed
<1>14. Raised(L, M, Head(T).id, g)
  <2>1. Len(L) = 1 => M[1] = L[1]
    BY <1>8
  <2>2. M[Len(M)] = v
    BY <1>8
  <2> QED
    BY <1>1, <1>5, <1>6, <1>8, <1>11, <2>1, <2>2 DEF Raised
<1>15. Len(L) = 0 => c = Outer(p).calls[g]
  BY <1>4, <1>11, OuterWorld
<1>16. /\ Requests(c) \o Tail(T) \in Seq(Call(p))
       /\ Running(p, r, M, Requests(c) \o Tail(T))
  BY <1>2, <1>3, <1>12, <1>13, <1>14, <1>15, ExtendDone
<1>17. SameEntries(L, M)
  <2> SUFFICES ASSUME NEW k \in DOMAIN M, NEW to \in DOMAIN M[k].cache
               PROVE  \E j \in DOMAIN L : SameEntry(L[j], M[k], to)
    BY DEF SameEntries
  <2>1. k # Len(L) + 1
    BY <1>6, <1>8
  <2>2. k \in 1 .. Len(L)
    BY <1>3, <1>9, <2>1
  <2> QED
    BY <1>3, <1>8, <2>2 DEF SameEntry
<1> QED
  BY <1>1, <1>7, <1>8, <1>10, <1>11, <1>16, <1>17

\* a rank that takes no part in a step
LEMMA OtherSound ==
    ASSUME NEW p, Planned(p), NEW r \in World(p), NEW l, NEW T, Sound(p, l, r, T),
           NEW m, \A q \in World(p) : Retains(l[q], m[q]), m[r] = l[r]
    PROVE  Sound(p, m, r, T)
<1>1. PICK L : L = l[r]
  OBVIOUS
<1>2. Stack(p, r, L) /\ Entries(p, l, L)
  BY <1>1 DEF Sound
<1>3. SameEntries(L, L)
  BY DEF SameEntries, SameEntry
<1>4. Entries(p, m, L)
  BY <1>2, <1>3, EntriesKept
<1> QED
  BY <1>1, <1>4 DEF Sound

LEMMA ExtendKeeps ==
    ASSUME InvOf(plan, todo, waiting, levels), NEW s \in waiting, Calls(s, "extend"),
           Extend(Head(todo[s]))
    PROVE  InvOf(plan, todo', waiting', levels')
<1>1. PICK p, t, w, l, u, m, op :
          /\ p = plan /\ t = todo /\ w = waiting /\ l = levels /\ u = todo' /\ m = levels'
          /\ op = Head(todo[s])
  OBVIOUS
<1>2. PICK world : world = ToSet(op.world)
  OBVIOUS
<1>3. /\ Planned(p) /\ w \subseteq World(p) /\ s \in w
      /\ t = [q \in World(p) |-> t[q]] /\ l = [q \in World(p) |-> l[q]]
      /\ \A q \in World(p) : Sound(p, l, q, t[q])
      /\ \A q \in w : Inside(l[q], t[q])
  BY <1>1 DEF InvOf
<1>4. \A r \in world : r \in w /\ t[r] # <<>> /\ Heads(t[r], "extend") /\ Head(t[r]) = op
  BY <1>1, <1>2 DEF Extend, Waits, Calls, Heads
<1>5. \A r \in World(p) :
          m[r] = IF r \in world THEN Append(l[r], NewLevel(r, op)) ELSE l[r]
  BY <1>1, <1>2 DEF Extend, Ranks, World
<1>6. \A r \in World(p) :
          u[r] = IF r \in world THEN Requests(op.calls[NewLevel(r, op).group]) \o Tail(t[r])
                                ELSE t[r]
  BY <1>1, <1>2 DEF Extend, Ranks, World, Requests
<1>7. /\ u = [r \in World(p) |-> u[r]] /\ m = [r \in World(p) |-> m[r]]
      /\ waiting' = w \ world
  BY <1>1, <1>2 DEF Extend, Ranks, World
<1>8. Total(op.procs) = Len(op.world)
  BY <1>1, <1>3 DEF Inside, Calls, Heads
<1>9. ASSUME NEW r \in world PROVE r \in World(p) /\ Sound(p, l, r, t[r])
  BY <1>3, <1>4
<1>10. ASSUME NEW r \in world
       PROVE  /\ Retains(l[r], m[r]) /\ Stack(p, r, m[r]) /\ SameEntries(l[r], m[r])
              /\ u[r] \in Seq(Call(p)) /\ Running(p, r, m[r], u[r])
  <2>1. r \in World(p) /\ Sound(p, l, r, t[r]) /\ t[r] # <<>> /\ Heads(t[r], "extend")
    BY <1>4, <1>9
  <2>2. Head(t[r]) = op
    BY <1>4
  <2>3. LET M == Append(l[r], NewLevel(r, op))
            U == Requests(op.calls[NewLevel(r, op).group]) \o Tail(t[r])
        IN /\ Retains(l[r], M) /\ Stack(p, r, M) /\ SameEntries(l[r], M)
           /\ U \in Seq(Call(p)) /\ Running(p, r, M, U)
    BY <1>3, <1>8, <2>1, <2>2, ExtendLevel
  <2> QED
    BY <1>5, <1>6, <2>1, <2>3
<1>11. \A q \in World(p) : Retains(l[q], m[q])
  BY <1>5, <1>10 DEF Retains
<1>12. ASSUME NEW r \in World(p) PROVE Sound(p, m, r, u[r])
  <2>1. CASE r \in world
    <3>1. Stack(p, r, l[r]) /\ Entries(p, l, l[r])
      BY <1>3 DEF Sound
    <3>2. Entries(p, m, m[r])
      BY <1>3, <1>10, <1>11, <2>1, <3>1, EntriesKept
    <3> QED
      BY <1>10, <2>1, <3>2 DEF Sound
  <2>2. CASE r \notin world
    <3>1. m[r] = l[r] /\ u[r] = t[r] /\ Sound(p, l, r, t[r])
      BY <1>3, <1>5, <1>6, <2>2
    <3> QED
      BY <1>3, <1>11, <3>1, OtherSound
  <2> QED
    BY <2>1, <2>2
<1>13. \A q \in w \ world : Inside(m[q], u[q])
  BY <1>3, <1>5, <1>6
<1>14. InvOf(p, u, w \ world, m)
  BY <1>3, <1>7, <1>12, <1>13 DEF InvOf
<1> QED
  BY <1>1, <1>7, <1>14

-----------------------------------------------------------------------------
(* pop_back(): the level                                                    *)

\* r is in pop_back(), with no intercommunicator left on the level
LEMMA PopLevel ==
    ASSUME NEW p, Planned(p), NEW r \in World(p), NEW l, NEW T, Sound(p, l, r, T), T # <<>>,
           Heads(T, "pop"), DOMAIN Top(l[r]).cache = {}
    PROVE  LET M == Front(l[r]) IN
           /\ Retains(l[r], M) /\ Stack(p, r, M) /\ SameEntries(l[r], M)
           /\ Tail(T) \in Seq(Call(p)) /\ (Tail(T) = <<>> \/ Running(p, r, M, Tail(T)))
<1>1. PICK L : L = l[r]
  OBVIOUS
<1>2. T \in Seq(Call(p)) /\ Stack(p, r, L) /\ Running(p, r, L, T)
  BY <1>1 DEF Sound
<1>3. Len(L) \in 1 .. 2 /\ DOMAIN L = 1 .. Len(L)
  <2>1. PICK P : \E k, a \in Nat : At(p, r, P, L, T, k, a)
    BY <1>2, HowFar
  <2>2. PICK k, a \in Nat : At(p, r, P, L, T, k, a)
    BY <2>1
  <2>3. (k + 1 < Len(P) /\ Len(L) = 2) \/ (k = Len(P) - 1 /\ Len(L) = 1)
    BY <2>2, PopFacts
  <2>4. DOMAIN L = 1 .. Len(L)
    BY <1>2, StackFacts
  <2> QED
    BY <2>3, <2>4
<1>4. PICK n \in 1 .. 2 : n = Len(L)
  BY <1>3
<1>5. PICK M : M = Front(L)
  OBVIOUS
<1>6. Stack(p, r, M) /\ Len(M) = n - 1 /\ \A k \in 1 .. n - 1 : M[k] = L[k]
  BY <1>2, <1>4, <1>5, Popped
<1>7. DOMAIN M = 1 .. n - 1
  BY <1>6, StackFacts
<1>8. DOMAIN L[n].cache = {}
  BY <1>1, <1>4 DEF Top
<1>9. Retains(L, M)
  <2> SUFFICES ASSUME NEW i, NEW to, Has(L, i, to) PROVE Has(M, i, to)
    BY DEF Retains
  <2>1. PICK k \in 1 .. n : L[k].id = i /\ to \in DOMAIN L[k].cache
    BY <1>3, <1>4 DEF Has
  <2>2. k # n
    BY <1>8, <2>1
  <2>3. k \in 1 .. n - 1
    BY <1>4, <2>2
  <2>4. k \in DOMAIN M /\ M[k] = L[k]
    BY <1>6, <1>7, <2>3
  <2> QED
    BY <2>1, <2>4 DEF Has
<1>10. SameEntries(L, M)
  <2> SUFFICES ASSUME NEW k \in DOMAIN M, NEW to \in DOMAIN M[k].cache
               PROVE  \E j \in DOMAIN L : SameEntry(L[j], M[k], to)
    BY DEF SameEntries
  <2>1. k \in 1 .. n - 1 /\ k \in DOMAIN L
    BY <1>3, <1>4, <1>7
  <2>2. M[k] = L[k]
    BY <1>6, <2>1
  <2> QED
    BY <2>1, <2>2 DEF SameEntry
<1>11. (Len(L) = 1 => Len(M) = 0) /\ (Len(L) = 2 => Len(M) = 1 /\ M[1] = L[1])
  BY <1>4, <1>6
<1>12. Tail(T) \in Seq(Call(p)) /\ (Tail(T) = <<>> \/ Running(p, r, M, Tail(T)))
  BY <1>2, <1>11, PopDone
<1> QED
  BY <1>1, <1>5, <1>6, <1>9, <1>10, <1>12

LEMMA PopBackKeeps ==
    ASSUME InvOf(plan, todo, waiting, levels), NEW s \in waiting, PopBack(s)
    PROVE  InvOf(plan, todo', waiting', levels')
<1>1. PICK p, t, w, l, u, m, local :
          /\ p = plan /\ t = todo /\ w = waiting /\ l = levels /\ u = todo' /\ m = levels'
          /\ local = ToSet(Level(s).local)
  OBVIOUS
<1>2. /\ Planned(p) /\ w \subseteq World(p) /\ s \in w
      /\ t = [q \in World(p) |-> t[q]] /\ l = [q \in World(p) |-> l[q]]
      /\ \A q \in World(p) : Sound(p, l, q, t[q])
      /\ \A q \in w : Inside(l[q], t[q])
  BY <1>1 DEF InvOf
<1>3. \A r \in local : /\ r \in w /\ t[r] # <<>> /\ Heads(t[r], "pop")
                       /\ DOMAIN Top(l[r]).cache = {}
  <2>1. \A r \in local : Waits(r, "pop") /\ DOMAIN Level(r).cache = {}
    BY <1>1 DEF PopBack
  <2>2. \A r : Level(r) = Top(l[r])
    BY <1>1, Words
  <2> QED
    BY <1>1, <2>1, <2>2 DEF Waits, Calls, Heads
<1>4. \A r \in World(p) : m[r] = IF r \in local THEN Front(l[r]) ELSE l[r]
  BY <1>1 DEF PopBack, Ranks, World
<1>5. \A r \in World(p) : u[r] = IF r \in local THEN Tail(t[r]) ELSE t[r]
  BY <1>1 DEF PopBack, Ranks, World
<1>6. u = [r \in World(p) |-> u[r]] /\ m = [r \in World(p) |-> m[r]] /\ waiting' = w \ local
  BY <1>1 DEF PopBack, Ranks, World
<1>7. ASSUME NEW r \in local
      PROVE  /\ Retains(l[r], m[r]) /\ Stack(p, r, m[r]) /\ SameEntries(l[r], m[r])
             /\ u[r] \in Seq(Call(p)) /\ (u[r] = <<>> \/ Running(p, r, m[r], u[r]))
  <2>1. /\ r \in World(p) /\ Sound(p, l, r, t[r]) /\ t[r] # <<>> /\ Heads(t[r], "pop")
        /\ DOMAIN Top(l[r]).cache = {}
    BY <1>2, <1>3
  <2>2. LET M == Front(l[r]) IN
        /\ Retains(l[r], M) /\ Stack(p, r, M) /\ SameEntries(l[r], M)
        /\ Tail(t[r]) \in Seq(Call(p)) /\ (Tail(t[r]) = <<>> \/ Running(p, r, M, Tail(t[r])))
    BY <1>2, <2>1, PopLevel
  <2> QED
    BY <1>4, <1>5, <2>1, <2>2
<1>8. \A q \in World(p) : Retains(l[q], m[q])
  BY <1>4, <1>7 DEF Retains
<1>9. ASSUME NEW r \in World(p) PROVE Sound(p, m, r, u[r])
  <2>1. CASE r \in local
    <3>1. Stack(p, r, l[r]) /\ Entries(p, l, l[r])
      BY <1>2 DEF Sound
    <3>2. Entries(p, m, m[r])
      BY <1>2, <1>7, <1>8, <2>1, <3>1, EntriesKept
    <3> QED
      BY <1>7, <2>1, <3>2 DEF Sound
  <2>2. CASE r \notin local
    <3>1. m[r] = l[r] /\ u[r] = t[r] /\ Sound(p, l, r, t[r])
      BY <1>2, <1>4, <1>5, <2>2
    <3> QED
      BY <1>2, <1>8, <3>1, OtherSound
  <2> QED
    BY <2>1, <2>2
<1>10. \A q \in w \ local : Inside(m[q], u[q])
  BY <1>2, <1>4, <1>5
<1>11. InvOf(p, u, w \ local, m)
  BY <1>2, <1>6, <1>9, <1>10 DEF InvOf
<1> QED
  BY <1>1, <1>6, <1>11

-----------------------------------------------------------------------------
(* intercomm()                                                              *)

\* M is L with an entry more, under this name, on the top
Entered(L, M, to, e) ==
    /\ Cache(L, M)
    /\ DOMAIN M[Len(L)].cache = DOMAIN L[Len(L)].cache \cup {to} /\ M[Len(L)].cache[to] = e
    /\ \A n \in DOMAIN L[Len(L)].cache : M[Len(L)].cache[n] = L[Len(L)].cache[n]

LEMMA EnteredFrom ==
    ASSUME NEW p, NEW r, NEW L, Stack(p, r, L), Len(L) # 0, NEW to, NEW e, NEW c,
           Lacks(L, to), NEW M, Replaces(L, c, M),
           c = [n \in DOMAIN L[Len(L)].cache \cup {to} |->
                  IF n = to THEN e ELSE L[Len(L)].cache[n]]
    PROVE  Stack(p, r, M) /\ Entered(L, M, to, e)
<1>1. Stack(p, r, M) /\ Cache(L, M) /\ M[Len(L)].cache = c
  BY Recaching
<1>2. to \notin DOMAIN L[Len(L)].cache
  <2>1. Len(L) \in DOMAIN L
    BY StackFacts
  <2> QED
    BY <2>1 DEF Lacks
<1>3. /\ DOMAIN c = DOMAIN L[Len(L)].cache \cup {to} /\ c[to] = e
      /\ \A n \in DOMAIN L[Len(L)].cache : c[n] = L[Len(L)].cache[n]
  BY <1>2
<1> QED
  BY <1>1, <1>3 DEF Entered

\* r is in intercomm(), and gets what it asks for
LEMMA ConnectLevel ==
    ASSUME NEW p, Planned(p), NEW r, NEW l, NEW T, Sound(p, l, r, T), T # <<>>,
           Heads(T, "intercomm"), Lacks(l[r], Head(T).to), Len(l[r]) \in 1 .. 2,
           NEW M, NEW e, Stack(p, r, M), Entered(l[r], M, Head(T).to, e)
    PROVE  /\ Retains(l[r], M) /\ Has(M, Top(l[r]).id, Head(T).to)
           /\ Tail(T) \in Seq(Call(p)) /\ Running(p, r, M, Tail(T))
<1>1. PICK L, to : L = l[r] /\ to = Head(T).to
  OBVIOUS
<1>2. T \in Seq(Call(p)) /\ Stack(p, r, L) /\ Running(p, r, L, T)
  BY <1>1 DEF Sound
<1>3. PICK n \in 1 .. 2 : n = Len(L)
  BY <1>1
<1>4. /\ Len(M) = n /\ DOMAIN M = 1 .. n /\ DOMAIN L = 1 .. n
      /\ \A k \in 1 .. n : M[k].id = L[k].id /\ M[k].group = L[k].group
      /\ \A k \in 1 .. n : k # n => M[k] = L[k]
      /\ DOMAIN M[n].cache = DOMAIN L[n].cache \cup {to}
  BY <1>1, <1>2, <1>3, StackFacts DEF Entered, Cache
<1>5. \A k \in 1 .. n : DOMAIN L[k].cache \subseteq DOMAIN M[k].cache
  BY <1>4
<1>6. Retains(L, M)
  BY <1>4, <1>5 DEF Retains, Has
<1>7. Has(M, Top(L).id, to)
  <2>1. n \in DOMAIN M /\ M[n].id = L[n].id /\ to \in DOMAIN M[n].cache
    BY <1>4
  <2> QED
    BY <1>3, <2>1 DEF Has, Top
<1>8. Grows(L, M)
  BY <1>3, <1>4, <1>5 DEF Grows
<1>9. Len(L) = 1 => Head(T).to \in DOMAIN M[1].cache
  BY <1>1, <1>3, <1>4
<1>10. Len(L) \in 0 .. 2
  BY <1>3
<1>11. Tail(T) \in Seq(Call(p)) /\ Running(p, r, M, Tail(T))
  BY <1>2, <1>8, <1>9, <1>10, AskDone
<1> QED
  BY <1>1, <1>6, <1>7, <1>11

\* all of its entries hold, if the new one does
LEMMA ConnectEntries ==
    ASSUME NEW p, Planned(p), NEW r, NEW l, NEW m, Stack(p, r, l[r]), Entries(p, l, l[r]),
           Len(l[r]) \in 1 .. 2, \A q \in World(p) : Retains(l[q], m[q]),
           NEW to, NEW e, Stack(p, r, m[r]), Entered(l[r], m[r], to, e),
           Entry(p, m, Top(m[r]), to)
    PROVE  Entries(p, m, m[r])
<1>1. PICK L, M : L = l[r] /\ M = m[r]
  OBVIOUS
<1>2. PICK n \in 1 .. 2 : n = Len(L)
  BY <1>1
<1>3. /\ Len(M) = n /\ DOMAIN M = 1 .. n /\ DOMAIN L = 1 .. n
      /\ \A k \in 1 .. n : M[k].id = L[k].id /\ M[k].group = L[k].group
      /\ \A k \in 1 .. n : k # n => M[k] = L[k]
      /\ DOMAIN M[n].cache = DOMAIN L[n].cache \cup {to}
      /\ \A x \in DOMAIN L[n].cache : M[n].cache[x] = L[n].cache[x]
  BY <1>1, <1>2, StackFacts DEF Entered, Cache
<1> SUFFICES ASSUME NEW k \in DOMAIN M, NEW x \in DOMAIN M[k].cache
             PROVE  Entry(p, m, M[k], x)
  BY <1>1 DEF Entries
<1>4. CASE k = n /\ x = to
  BY <1>1, <1>3, <1>4 DEF Top
<1>5. CASE ~ (k = n /\ x = to)
  <2>1. x \in DOMAIN L[k].cache /\ M[k].cache[x] = L[k].cache[x]
    BY <1>3, <1>5
  <2>2. k \in DOMAIN L /\ SameEntry(L[k], M[k], x)
    BY <1>3, <2>1 DEF SameEntry
  <2>3. Stack(p, r, L) /\ Entries(p, l, L)
    BY <1>1
  <2> QED
    BY <2>2, <2>3, EntryKept
<1> QED
  BY <1>4, <1>5

\* r waits in intercomm() for a group of the level it is on
LEMMA AskingRank ==
    ASSUME NEW p, Planned(p), NEW r \in World(p), NEW l, NEW T, Sound(p, l, r, T),
           Inside(l[r], T), Heads(T, "intercomm")
    PROVE  /\ Lacks(l[r], Head(T).to) /\ Len(l[r]) \in 1 .. 2
           /\ LevelOf(Op(p, Top(l[r]).id), r, Top(l[r]))
           /\ ToSet(Op(p, Top(l[r]).id).world) \subseteq World(p)
           /\ Reaches(Op(p, Top(l[r]).id).procs, Top(l[r]).group, Head(T).to)
<1>1. PICK L : L = l[r]
  OBVIOUS
<1>2. /\ T \in Seq(Call(p)) /\ Stack(p, r, L) /\ Running(p, r, L, T) /\ Lacks(L, Head(T).to)
  BY <1>1 DEF Sound, Inside
<1>3. Len(L) \in 1 .. 2 /\ Reaches(Op(p, Top(L).id).procs, Top(L).group, Head(T).to)
  BY <1>2, AskReaches
<1>4. PICK n \in 1 .. 2 : n = Len(L)
  BY <1>3
<1>5. n \in DOMAIN L
  BY <1>2, <1>4, StackFacts
<1>6. LevelOf(Op(p, L[n].id), r, L[n]) /\ ToSet(Op(p, L[n].id).world) \subseteq World(p)
  BY <1>2, <1>5, StackLevels
<1> QED
  BY <1>1, <1>2, <1>3, <1>4, <1>6 DEF Top

\* the levels of the two sides, and what it has for the other
Meet(op, g, h, both) ==
    /\ Fits(op) /\ Reaches(op.procs, g, h) /\ Reaches(op.procs, h, g)
    /\ both = ToSet(Side(op, g)) \cup ToSet(Side(op, h))

\* the two leaders name each other, so that the ranks of two groups ask for each other
LEMMA ConnectSides ==
    ASSUME InvOf(plan, todo, waiting, levels), NEW a \in waiting, NEW b \in waiting, Connect(a, b)
    PROVE  LET id == Top(levels[a]).id
               op == Op(plan, id)
               g == Top(levels[a]).group
               h == Top(levels[b]).group
           IN
           /\ Meet(op, g, h, ToSet(Level(a).local) \cup ToSet(Level(b).local))
           /\ \A r \in ToSet(Side(op, g)) \cup ToSet(Side(op, h)) :
                 /\ r \in waiting /\ Heads(todo[r], "intercomm") /\ Top(levels[r]).id = id
                 /\ LevelOf(op, r, Top(levels[r]))
           /\ \A r \in ToSet(Side(op, g)) :
                 /\ r \in ToSet(Level(a).local) /\ Level(b).local = Side(op, h)
                 /\ Top(levels[r]).group = g /\ Head(todo[r]).to = h
           /\ \A r \in ToSet(Side(op, h)) :
                 /\ r \notin ToSet(Level(a).local) /\ Level(a).local = Side(op, g)
                 /\ Top(levels[r]).group = h /\ Head(todo[r]).to = g
<1>1. PICK p, t, w, l, id, op, g, h :
          /\ p = plan /\ t = todo /\ w = waiting /\ l = levels
          /\ id = Top(levels[a]).id /\ op = Op(p, id)
          /\ g = Top(levels[a]).group /\ h = Top(levels[b]).group
  OBVIOUS
<1>2. /\ Planned(p) /\ w \subseteq World(p) /\ a \in w /\ b \in w
      /\ \A q \in World(p) : Sound(p, l, q, t[q])
      /\ \A q \in w : Inside(l[q], t[q])
  BY <1>1 DEF InvOf
<1>3. \A r : Level(r) = Top(l[r])
  BY <1>1, Words
<1>4. PICK A, B : A = Level(a).local /\ B = Level(b).local
  OBVIOUS
<1>5. /\ A[1] = a /\ B[1] = b /\ Names(a, id, b) /\ Names(b, id, a)
      /\ \A r \in ToSet(A) \cup ToSet(B) : Names(r, id, (IF r \in ToSet(A) THEN B ELSE A)[1])
  BY <1>1, <1>3, <1>4 DEF Connect
<1>6. ASSUME NEW r, NEW x, Names(r, id, x)
      PROVE  /\ r \in w /\ Heads(t[r], "intercomm") /\ Top(l[r]).id = id
             /\ LevelOf(op, r, Top(l[r])) /\ Reaches(op.procs, Top(l[r]).group, Head(t[r]).to)
             /\ x \in ToSet(Side(op, Head(t[r]).to)) /\ Head(t[r]).to \in Named(op.procs)
  <2>1. /\ r \in w /\ Heads(t[r], "intercomm") /\ Top(l[r]).id = id
        /\ LeaderOf(r, Head(t[r]).to) = x
    BY <1>1, <1>3, <1>6 DEF Names, Waits, Calls, Heads
  <2>2. r \in World(p) /\ Sound(p, l, r, t[r]) /\ Inside(l[r], t[r])
    BY <1>2, <2>1
  <2>3. LevelOf(op, r, Top(l[r])) /\ Reaches(op.procs, Top(l[r]).group, Head(t[r]).to)
    BY <1>1, <1>2, <2>1, <2>2, AskingRank
  <2>4. PICK to : to = Head(t[r]).to
    OBVIOUS
  <2>5. Fits(op) /\ Top(l[r]).world = op.world /\ Top(l[r]).groups = GroupMap(op.procs)
    BY <2>3 DEF LevelOf
  <2>6. /\ to \in Named(op.procs) /\ Side(op, to)[1] \in ToSet(Side(op, to))
        /\ Side(op, to)[1] = op.world[GroupMap(op.procs)[to].leader + 1]
    <3>1. PICK y : y = Top(l[r]).group
      OBVIOUS
    <3>2. Fits(op) /\ Reaches(op.procs, y, to)
      BY <2>3, <2>4, <2>5, <3>1
    <3> QED
      BY <3>2, ReachFacts
  <2>7. x = Side(op, to)[1]
    BY <1>3, <2>1, <2>4, <2>5, <2>6 DEF LeaderOf
  <2> QED
    BY <2>1, <2>3, <2>4, <2>6, <2>7
<1>7. /\ LevelOf(op, a, Top(l[a])) /\ LevelOf(op, b, Top(l[b])) /\ Fits(op)
      /\ A = Side(op, g) /\ B = Side(op, h) /\ g \in Named(op.procs) /\ h \in Named(op.procs)
      /\ g = GroupOf(op, a) /\ h = GroupOf(op, b) /\ a \in ToSet(A) /\ b \in ToSet(B)
  <2>1. LevelOf(op, a, Top(l[a])) /\ LevelOf(op, b, Top(l[b]))
    BY <1>5, <1>6
  <2>2. A = Top(l[a]).local /\ B = Top(l[b]).local
    BY <1>3, <1>4
  <2> QED
    BY <1>1, <2>1, <2>2 DEF LevelOf
<1>8. \A q, x : x \in Named(op.procs) /\ q \in ToSet(Side(op, x)) => GroupOf(op, q) = x
  BY <1>7, SideRanks
<1>9. \A r \in ToSet(A) \cup ToSet(B) : LevelOf(op, r, Top(l[r])) /\ Top(l[r]).group = GroupOf(op, r)
  BY <1>5, <1>6 DEF LevelOf
<1>10. ASSUME NEW r \in ToSet(A) PROVE Top(l[r]).group = g /\ Head(t[r]).to = h
  <2>1. Names(r, id, b)
    BY <1>5
  <2>2. b \in ToSet(Side(op, Head(t[r]).to)) /\ Head(t[r]).to \in Named(op.procs)
    BY <1>6, <2>1
  <2>3. GroupOf(op, b) = Head(t[r]).to
    BY <1>8, <2>2
  <2>4. GroupOf(op, r) = g
    BY <1>7, <1>8
  <2> QED
    BY <1>7, <1>9, <2>3, <2>4
<1>11. Reaches(op.procs, g, h) /\ g # h
  <2>1. Reaches(op.procs, Top(l[a]).group, Head(t[a]).to)
    BY <1>5, <1>6
  <2>2. Top(l[a]).group = g /\ Head(t[a]).to = h
    BY <1>7, <1>10
  <2> QED
    BY <2>1, <2>2 DEF Reaches
<1>12. ASSUME NEW r \in ToSet(B)
       PROVE  r \notin ToSet(A) /\ Top(l[r]).group = h /\ Head(t[r]).to = g
  <2>1. GroupOf(op, r) = h
    BY <1>7, <1>8
  <2>2. r \notin ToSet(A)
    BY <1>7, <1>8, <1>11, <2>1
  <2>3. Names(r, id, a)
    BY <1>5, <2>2
  <2>4. a \in ToSet(Side(op, Head(t[r]).to)) /\ Head(t[r]).to \in Named(op.procs)
    BY <1>6, <2>3
  <2>5. GroupOf(op, a) = Head(t[r]).to
    BY <1>8, <2>4
  <2> QED
    BY <1>7, <1>9, <2>1, <2>2, <2>5
<1>13. Reaches(op.procs, h, g)
  <2>1. Reaches(op.procs, Top(l[b]).group, Head(t[b]).to)
    BY <1>5, <1>6
  <2>2. Top(l[b]).group = h /\ Head(t[b]).to = g
    BY <1>7, <1>12
  <2> QED
    BY <2>1, <2>2
<1>14. Meet(op, g, h, ToSet(A) \cup ToSet(B))
  BY <1>7, <1>11, <1>13 DEF Meet
<1>15. \A r \in ToSet(A) \cup ToSet(B) :
           /\ r \in w /\ Heads(t[r], "intercomm") /\ Top(l[r]).id = id
           /\ LevelOf(op, r, Top(l[r]))
  BY <1>5, <1>6
<1> QED
  BY <1>1, <1>4, <1>7, <1>10, <1>12, <1>14, <1>15

\* r's side is that of its group, and the flag is that of the group map
LEMMA JoinedIsShared ==
    ASSUME NEW r, NEW op, LevelOf(op, r, Level(r)), NEW to, Reaches(op.procs, Level(r).group, to)
    PROVE  Joined(r, to, Side(op, to)) = Shared(op, Level(r).group, to)
<1>1. PICK v, g : v = Level(r) /\ g = v.group
  OBVIOUS
<1>2. Fits(op) /\ v.local = Side(op, g) /\ v.groups = GroupMap(op.procs) /\ g \in Named(op.procs)
  BY <1>1 DEF LevelOf
<1>3. to \in Named(op.procs)
  BY <1>1, <1>2, ReachFacts
<1>4. v.groups[g].leader = Lead(op, g) /\ v.groups[to].leader = Lead(op, to)
  BY <1>2, <1>3, SideFacts
<1>5. High(r, to) <=> Lead(op, g) > Lead(op, to)
  BY <1>1, <1>4 DEF High
<1> QED
  BY <1>1, <1>2, <1>5 DEF Joined, Shared

LEMMA ConnectKeeps ==
    ASSUME InvOf(plan, todo, waiting, levels), NEW a \in waiting, NEW b \in waiting, Connect(a, b)
    PROVE  InvOf(plan, todo', waiting', levels')
<1>1. PICK p, t, w, l, u, m, id, op, g, h, A, B :
          /\ p = plan /\ t = todo /\ w = waiting /\ l = levels /\ u = todo' /\ m = levels'
          /\ id = Top(levels[a]).id /\ op = Op(plan, id)
          /\ g = Top(levels[a]).group /\ h = Top(levels[b]).group
          /\ A = Level(a).local /\ B = Level(b).local
  OBVIOUS
<1>2. /\ Planned(p) /\ w \subseteq World(p) /\ a \in w /\ b \in w
      /\ t = [q \in World(p) |-> t[q]] /\ l = [q \in World(p) |-> l[q]]
      /\ \A q \in World(p) : Sound(p, l, q, t[q])
      /\ \A q \in w : Inside(l[q], t[q])
  BY <1>1 DEF InvOf
<1>3. PICK both : both = ToSet(A) \cup ToSet(B)
  OBVIOUS
<1>4. PICK To : To = [r \in World(p) |-> Head(t[r]).to]
  OBVIOUS
<1>5. /\ Meet(op, g, h, both)
      /\ \A r \in ToSet(Side(op, g)) \cup ToSet(Side(op, h)) :
            /\ r \in w /\ Heads(t[r], "intercomm") /\ Top(l[r]).id = id
            /\ LevelOf(op, r, Top(l[r]))
      /\ \A r \in ToSet(Side(op, g)) :
            /\ r \in ToSet(A) /\ B = Side(op, h)
            /\ Top(l[r]).group = g /\ Head(t[r]).to = h
      /\ \A r \in ToSet(Side(op, h)) :
            /\ r \notin ToSet(A) /\ A = Side(op, g)
            /\ Top(l[r]).group = h /\ Head(t[r]).to = g
  <2>1. LET i == Top(levels[a]).id
            o == Op(plan, i)
            x == Top(levels[a]).group
            y == Top(levels[b]).group
        IN
        /\ Meet(o, x, y, ToSet(Level(a).local) \cup ToSet(Level(b).local))
        /\ \A r \in ToSet(Side(o, x)) \cup ToSet(Side(o, y)) :
              /\ r \in waiting /\ Heads(todo[r], "intercomm") /\ Top(levels[r]).id = i
              /\ LevelOf(o, r, Top(levels[r]))
        /\ \A r \in ToSet(Side(o, x)) :
              /\ r \in ToSet(Level(a).local) /\ Level(b).local = Side(o, y)
              /\ Top(levels[r]).group = x /\ Head(todo[r]).to = y
        /\ \A r \in ToSet(Side(o, y)) :
              /\ r \notin ToSet(Level(a).local) /\ Level(a).local = Side(o, x)
              /\ Top(levels[r]).group = y /\ Head(todo[r]).to = x
    BY ConnectSides
  <2> QED
    BY <1>1, <1>3, <2>1
<1>6. /\ Fits(op) /\ Reaches(op.procs, g, h) /\ Reaches(op.procs, h, g)
      /\ both = ToSet(Side(op, g)) \cup ToSet(Side(op, h))
  BY <1>5 DEF Meet
<1>7. ASSUME NEW r \in both
      PROVE  /\ r \in w /\ r \in World(p) /\ To[r] = Head(t[r]).to
             /\ Heads(t[r], "intercomm") /\ Top(l[r]).id = id /\ LevelOf(op, r, Top(l[r]))
             /\ Reaches(op.procs, Top(l[r]).group, To[r])
             /\ Side(op, To[r]) = IF r \in ToSet(A) THEN B ELSE A
             /\ \A q \in ToSet(Side(op, To[r])) :
                   q \in both /\ q \in World(p) /\ To[q] = Top(l[r]).group
  <2>1. /\ r \in w /\ r \in World(p) /\ To[r] = Head(t[r]).to
        /\ Heads(t[r], "intercomm") /\ Top(l[r]).id = id /\ LevelOf(op, r, Top(l[r]))
    BY <1>2, <1>4, <1>5, <1>6
  <2>2. \A q \in both : q \in World(p) /\ To[q] = Head(t[q]).to
    BY <1>2, <1>4, <1>5, <1>6
  <2>3. CASE r \in ToSet(Side(op, g))
    <3>1. r \in ToSet(A) /\ B = Side(op, h) /\ Top(l[r]).group = g /\ To[r] = h
      BY <1>5, <2>1, <2>3
    <3>2. \A q \in ToSet(Side(op, h)) : q \in both /\ q \in World(p) /\ To[q] = g
      BY <1>5, <1>6, <2>2
    <3> QED
      BY <1>6, <2>1, <3>1, <3>2
  <2>4. CASE r \in ToSet(Side(op, h))
    <3>1. r \notin ToSet(A) /\ A = Side(op, g) /\ Top(l[r]).group = h /\ To[r] = g
      BY <1>5, <2>1, <2>4
    <3>2. \A q \in ToSet(Side(op, g)) : q \in both /\ q \in World(p) /\ To[q] = h
      BY <1>5, <1>6, <2>2
    <3> QED
      BY <1>6, <2>1, <3>1, <3>2
  <2> QED
    BY <1>6, <2>3, <2>4
<1>8. ASSUME NEW r \in both
      PROVE  /\ Sound(p, l, r, t[r]) /\ t[r] # <<>> /\ Stack(p, r, l[r])
             /\ Len(l[r]) \in 1 .. 2 /\ Lacks(l[r], To[r])
  <2>1. r \in World(p) /\ Sound(p, l, r, t[r]) /\ Inside(l[r], t[r]) /\ Heads(t[r], "intercomm")
    BY <1>2, <1>7
  <2>2. Lacks(l[r], Head(t[r]).to) /\ Len(l[r]) \in 1 .. 2
    BY <1>2, <2>1, AskingRank
  <2> QED
    BY <1>7, <2>1, <2>2 DEF Sound, Inside
<1>9. ASSUME NEW r \in both
      PROVE  /\ Stack(p, r, m[r])
             /\ Entered(l[r], m[r], To[r], Shared(op, Top(l[r]).group, To[r]))
  <2>1. Level(r) = Top(l[r])
    BY <1>1, Words
  <2>2. PICK e : e = Joined(r, To[r], Side(op, To[r]))
    OBVIOUS
  <2>3. e = Shared(op, Top(l[r]).group, To[r])
    BY <1>7, <2>1, <2>2, JoinedIsShared
  <2>4. PICK c : c = [n \in DOMAIN l[r][Len(l[r])].cache \cup {To[r]} |->
                        IF n = To[r] THEN e ELSE l[r][Len(l[r])].cache[n]]
    OBVIOUS
  <2>5. Replaces(l[r], c, m[r])
    <3>1. r \in Ranks /\ r \in both /\ To[r] = Head(todo[r]).to
      BY <1>1, <1>7 DEF Ranks, World
    <3>2. m[r] = [levels[r] EXCEPT ![Len(levels[r])].cache =
                    [n \in DOMAIN @ \cup {To[r]} |->
                       IF n = To[r] THEN Joined(r, n, IF r \in ToSet(A) THEN B ELSE A)
                       ELSE @[n]]]
      BY <1>1, <1>3, <3>1 DEF Connect
    <3>3. Side(op, To[r]) = IF r \in ToSet(A) THEN B ELSE A
      BY <1>7
    <3>4. c = [n \in DOMAIN l[r][Len(l[r])].cache \cup {To[r]} |->
                 IF n = To[r] THEN Joined(r, n, IF r \in ToSet(A) THEN B ELSE A)
                 ELSE l[r][Len(l[r])].cache[n]]
      BY <2>2, <2>4, <3>3
    <3> QED
      BY <1>1, <3>2, <3>4 DEF Replaces
  <2>6. Len(l[r]) # 0
    BY <1>8
  <2> QED
    BY <1>8, <2>3, <2>4, <2>5, <2>6, EnteredFrom
<1>10. ASSUME NEW r \in both
       PROVE  /\ Retains(l[r], m[r]) /\ Has(m[r], id, To[r])
              /\ Tail(t[r]) \in Seq(Call(p)) /\ Running(p, r, m[r], Tail(t[r]))
  <2>1. PICK e : e = Shared(op, Top(l[r]).group, To[r])
    OBVIOUS
  <2>2. /\ Sound(p, l, r, t[r]) /\ t[r] # <<>> /\ Heads(t[r], "intercomm")
        /\ Lacks(l[r], Head(t[r]).to) /\ Len(l[r]) \in 1 .. 2 /\ Stack(p, r, m[r])
        /\ Entered(l[r], m[r], Head(t[r]).to, e)
    BY <1>7, <1>8, <1>9, <2>1
  <2>3. /\ Retains(l[r], m[r]) /\ Has(m[r], Top(l[r]).id, Head(t[r]).to)
        /\ Tail(t[r]) \in Seq(Call(p)) /\ Running(p, r, m[r], Tail(t[r]))
    BY <1>2, <2>2, ConnectLevel
  <2> QED
    BY <1>7, <2>3
<1>11. \A r \in World(p) : r \notin both => m[r] = l[r] /\ u[r] = t[r]
  BY <1>1, <1>3 DEF Connect, Ranks, World
<1>12. \A r \in both : u[r] = Tail(t[r])
  BY <1>1, <1>3, <1>7 DEF Connect, Ranks, World
<1>13. u = [r \in World(p) |-> u[r]] /\ m = [r \in World(p) |-> m[r]] /\ waiting' = w \ both
  BY <1>1, <1>3 DEF Connect, Ranks, World
<1>14. \A q \in World(p) : Retains(l[q], m[q])
  BY <1>10, <1>11 DEF Retains
<1>15. ASSUME NEW r \in both PROVE Entry(p, m, Top(m[r]), To[r])
  <2>1. PICK v, x, to : v = Top(m[r]) /\ x = Top(l[r]).group /\ to = To[r]
    OBVIOUS
  <2>2. v.id = id /\ v.group = x /\ v.cache[to] = Shared(op, x, to)
    <3>1. PICK n \in 1 .. 2 : n = Len(l[r])
      BY <1>8
    <3>2. /\ Len(m[r]) = n /\ m[r][n].id = l[r][n].id /\ m[r][n].group = l[r][n].group
          /\ m[r][n].cache[to] = Shared(op, x, to)
      <4>1. PICK e : e = Shared(op, x, to)
        OBVIOUS
      <4>2. Entered(l[r], m[r], to, e)
        BY <1>9, <2>1, <4>1
      <4>3. n \in 1 .. n
        OBVIOUS
      <4> QED
        BY <3>1, <4>1, <4>2, <4>3 DEF Entered, Cache
    <3> QED
      BY <1>7, <2>1, <3>1, <3>2 DEF Top
  <2>3. Reaches(op.procs, x, to)
    BY <1>7, <2>1
  <2>4. \A q \in ToSet(Side(op, to)) : Has(m[q], id, x)
    BY <1>7, <1>10, <2>1
  <2>5. Op(p, v.id) = op
    BY <1>1, <2>2
  <2>6. Entry(p, m, v, to)
    BY <2>2, <2>3, <2>4, <2>5 DEF Entry
  <2> QED
    BY <2>1, <2>6
<1>16. ASSUME NEW r \in World(p) PROVE Sound(p, m, r, u[r])
  <2>1. CASE r \in both
    <3>1. Stack(p, r, l[r]) /\ Entries(p, l, l[r])
      BY <1>2 DEF Sound
    <3>2. PICK e : e = Shared(op, Top(l[r]).group, To[r])
      OBVIOUS
    <3>3. Stack(p, r, m[r]) /\ Entered(l[r], m[r], To[r], e) /\ Len(l[r]) \in 1 .. 2
      BY <1>8, <1>9, <2>1, <3>2
    <3>4. Entries(p, m, m[r])
      BY <1>2, <1>14, <1>15, <2>1, <3>1, <3>3, ConnectEntries
    <3> QED
      BY <1>10, <1>12, <2>1, <3>3, <3>4 DEF Sound
  <2>2. CASE r \notin both
    <3>1. m[r] = l[r] /\ u[r] = t[r] /\ Sound(p, l, r, t[r])
      BY <1>2, <1>11, <2>2
    <3> QED
      BY <1>2, <1>14, <3>1, OtherSound
  <2> QED
    BY <2>1, <2>2
<1>17. \A q \in w \ both : Inside(m[q], u[q])
  BY <1>2, <1>11
<1>18. InvOf(p, u, w \ both, m)
  BY <1>2, <1>13, <1>16, <1>17 DEF InvOf
<1> QED
  BY <1>1, <1>13, <1>18

-----------------------------------------------------------------------------
(* pop_back(): the intercommunicators                                       *)

\* a group that has ranks is known by them
LEMMA SideNames ==
    ASSUME NEW op, Fits(op), NEW x \in Named(op.procs), NEW y \in Named(op.procs),
           Side(op, x) = Side(op, y), NEW q \in ToSet(Side(op, x))
    PROVE  x = y
<1>1. GroupOf(op, q) = x
  BY SideRanks
<1>2. GroupOf(op, q) = y
  BY SideRanks
<1> QED
  BY <1>1, <1>2

\* r has the intercommunicator between its group and the one called x on the top
Frees(op, r, L, x) ==
    /\ LevelOf(op, r, Top(L)) /\ x \in DOMAIN Top(L).cache
    /\ Reaches(op.procs, Top(L).group, x) /\ Top(L).cache[x] = Shared(op, Top(L).group, x)

LEMMA FreeingRank ==
    ASSUME InvOf(plan, todo, waiting, levels), NEW r \in waiting, Calls(r, "pop"),
           DOMAIN Level(r).cache # {}
    PROVE  /\ Frees(Op(plan, Top(levels[r]).id), r, levels[r], FirstToFree(r))
           /\ Len(levels[r]) \in 1 .. 2
<1>1. PICK p, t, l, L, v, op :
          /\ p = plan /\ t = todo /\ l = levels /\ L = levels[r] /\ v = Top(L) /\ op = Op(p, v.id)
  OBVIOUS
<1>2. /\ Planned(p) /\ r \in World(p) /\ t[r] \in Seq(Call(p)) /\ Stack(p, r, L)
      /\ Entries(p, l, L) /\ t[r] # <<>> /\ Running(p, r, L, t[r]) /\ Heads(t[r], "pop")
  BY <1>1 DEF InvOf, Sound, Inside, Calls, Heads
<1>3. v = Level(r)
  BY <1>1, Words
<1>4. Len(L) \in 1 .. 2
  <2>1. PICK P : \E k, a \in Nat : At(p, r, P, L, t[r], k, a)
    BY <1>2, HowFar
  <2>2. PICK k, a \in Nat : At(p, r, P, L, t[r], k, a)
    BY <2>1
  <2>3. (k + 1 < Len(P) /\ Len(L) = 2) \/ (k = Len(P) - 1 /\ Len(L) = 1)
    BY <1>2, <2>2, PopFacts
  <2> QED
    BY <2>3
<1>5. PICK n \in 1 .. 2 : n = Len(L) /\ v = L[n] /\ n \in DOMAIN L
  <2>1. PICK n \in 1 .. 2 : n = Len(L)
    BY <1>4
  <2>2. n \in DOMAIN L
    BY <1>2, <2>1, StackFacts
  <2> QED
    BY <1>1, <2>1, <2>2 DEF Top
<1>6. LevelOf(op, r, v)
  BY <1>1, <1>2, <1>5, StackLevels
<1>7. \A x \in DOMAIN v.cache : Entry(p, l, v, x) /\ x \in Named(op.procs)
  <2> SUFFICES ASSUME NEW x \in DOMAIN v.cache PROVE Entry(p, l, v, x) /\ x \in Named(op.procs)
    OBVIOUS
  <2>1. Entry(p, l, L[n], x)
    BY <1>2, <1>5 DEF Entries
  <2>2. x \in Named(Op(p, L[n].id).procs)
    BY <1>2, <1>5, <2>1, EntryFacts
  <2> QED
    BY <1>1, <1>5, <2>1, <2>2
<1>8. DOMAIN v.cache \subseteq Nat /\ DOMAIN v.cache # {}
  <2>1. Named(op.procs) \subseteq Nat
    <3>1. Divided(op.procs)
      BY <1>6 DEF LevelOf, Fits
    <3>2. DOMAIN op.procs = 1 .. Len(op.procs) /\ \A k \in 1 .. Len(op.procs) : op.procs[k].name \in Nat
      BY <3>1, DividedFacts
    <3> QED
      BY <3>2 DEF Named
  <2> QED
    BY <1>3, <1>7, <2>1
<1>9. \E x \in DOMAIN v.cache : \A y \in DOMAIN v.cache : x <= y
  BY <1>8, Smallest
<1>10. PICK x : x = FirstToFree(r)
  OBVIOUS
<1>11. x \in DOMAIN v.cache
  BY <1>3, <1>9, <1>10 DEF FirstToFree
<1>12. Reaches(op.procs, v.group, x) /\ v.cache[x] = Shared(op, v.group, x)
  BY <1>1, <1>7, <1>11 DEF Entry
<1>13. Frees(op, r, L, x)
  BY <1>1, <1>6, <1>11, <1>12 DEF Frees
<1> QED
  BY <1>1, <1>4, <1>10, <1>13

\* what both sides free is what they have of each other
LEMMA FreeSides ==
    ASSUME NEW op, NEW a, NEW L, NEW x, Frees(op, a, L, x), NEW g, g = Top(L).group,
           NEW r, NEW M, NEW y, Frees(op, r, M, y),
           Top(M).cache[y].sides = Top(L).cache[x].sides,
           r \in ToSet(Side(op, g)) \cup ToSet(Side(op, x))
    PROVE  (Top(M).group = g /\ y = x) \/ (Top(M).group = x /\ y = g)
<1>1. PICK h : h = Top(M).group
  OBVIOUS
<1>2. /\ Fits(op) /\ a \in ToSet(Side(op, g)) /\ h = GroupOf(op, r)
      /\ g \in Named(op.procs) /\ h \in Named(op.procs)
  BY <1>1 DEF Frees, LevelOf
<1>3. /\ x \in Named(op.procs) /\ Side(op, x)[1] \in ToSet(Side(op, x))
      /\ y \in Named(op.procs) /\ Side(op, y)[1] \in ToSet(Side(op, y))
  <2>1. Reaches(op.procs, g, x) /\ Reaches(op.procs, h, y)
    BY <1>1 DEF Frees
  <2> QED
    BY <1>2, <2>1, ReachFacts
<1>4. {Side(op, h), Side(op, y)} = {Side(op, g), Side(op, x)}
  <2>1. /\ Shared(op, h, y).sides = {Side(op, h), Side(op, y)}
        /\ Shared(op, g, x).sides = {Side(op, g), Side(op, x)}
    BY DEF Shared
  <2>2. Top(M).cache[y] = Shared(op, h, y) /\ Top(L).cache[x] = Shared(op, g, x)
    BY <1>1 DEF Frees
  <2>3. Shared(op, h, y).sides = Shared(op, g, x).sides
    BY <2>2
  <2> QED
    BY <2>1, <2>3, Zenon
<1>5. CASE r \in ToSet(Side(op, g))
  <2>1. h = g
    BY <1>2, <1>5, SideRanks
  <2>2. Side(op, y) = Side(op, x)
    BY <1>4, <2>1
  <2>3. y = x
    BY <1>2, <1>3, <2>2, SideNames
  <2> QED
    BY <1>1, <2>1, <2>3
<1>6. CASE r \in ToSet(Side(op, x))
  <2>1. h = x
    BY <1>2, <1>3, <1>6, SideRanks
  <2>2. Side(op, y) = Side(op, g)
    BY <1>4, <2>1
  <2>3. y = g
    BY <1>2, <1>3, <2>2, SideNames
  <2> QED
    BY <1>1, <2>1, <2>3
<1> QED
  BY <1>5, <1>6

\* M is L without the entry of this name on the top
Removed(L, M, x) ==
    /\ Cache(L, M)
    /\ DOMAIN M[Len(L)].cache = DOMAIN L[Len(L)].cache \ {x}
    /\ \A n \in DOMAIN M[Len(L)].cache : M[Len(L)].cache[n] = L[Len(L)].cache[n]

LEMMA RemovedFrom ==
    ASSUME NEW p, NEW r, NEW L, Stack(p, r, L), Len(L) # 0, NEW x, NEW c, NEW M,
           Replaces(L, c, M),
           c = [n \in DOMAIN L[Len(L)].cache \ {x} |-> L[Len(L)].cache[n]]
    PROVE  Stack(p, r, M) /\ Removed(L, M, x)
<1>1. Stack(p, r, M) /\ Cache(L, M) /\ M[Len(L)].cache = c
  BY Recaching
<1> QED
  BY <1>1 DEF Removed

LEMMA RemovedFacts ==
    ASSUME NEW p, NEW r, NEW L, Stack(p, r, L), NEW M, NEW x, Removed(L, M, x),
           Len(L) \in 1 .. 2
    PROVE  /\ SameEntries(L, M)
           /\ \A i, n : Has(L, i, n) /\ ~ (i = Top(L).id /\ n = x) => Has(M, i, n)
<1>1. PICK z \in 1 .. 2 : z = Len(L)
  OBVIOUS
<1>2. /\ DOMAIN M = 1 .. z /\ DOMAIN L = 1 .. z
      /\ \A k \in 1 .. z : M[k].id = L[k].id /\ M[k].group = L[k].group
      /\ \A k \in 1 .. z : k # z => M[k] = L[k]
      /\ DOMAIN M[z].cache = DOMAIN L[z].cache \ {x}
      /\ \A n \in DOMAIN M[z].cache : M[z].cache[n] = L[z].cache[n]
  BY <1>1, StackFacts DEF Removed, Cache
<1>3. SameEntries(L, M)
  <2> SUFFICES ASSUME NEW k \in DOMAIN M, NEW to \in DOMAIN M[k].cache
               PROVE  k \in DOMAIN L /\ SameEntry(L[k], M[k], to)
    BY DEF SameEntries
  <2>1. to \in DOMAIN L[k].cache /\ M[k].cache[to] = L[k].cache[to]
    BY <1>2
  <2> QED
    BY <1>2, <2>1 DEF SameEntry
<1>4. ASSUME NEW i, NEW n, Has(L, i, n), ~ (i = Top(L).id /\ n = x) PROVE Has(M, i, n)
  <2>1. PICK k \in 1 .. z : L[k].id = i /\ n \in DOMAIN L[k].cache
    BY <1>2, <1>4 DEF Has
  <2>2. n \in DOMAIN M[k].cache
    <3>1. CASE k = z
      BY <1>1, <1>2, <1>4, <2>1, <3>1 DEF Top
    <3>2. CASE k # z
      BY <1>2, <2>1, <3>2
    <3> QED
      BY <3>1, <3>2
  <2> QED
    BY <1>2, <2>1, <2>2 DEF Has
<1> QED
  BY <1>3, <1>4

LEMMA FreeKeeps ==
    ASSUME InvOf(plan, todo, waiting, levels), NEW a \in waiting, Free(a)
    PROVE  InvOf(plan, todo', waiting', levels')
<1>1. PICK p, t, w, l, m, id, op, g, x, both :
          /\ p = plan /\ t = todo /\ w = waiting /\ l = levels /\ m = levels'
          /\ id = Top(levels[a]).id /\ op = Op(plan, id) /\ g = Top(levels[a]).group
          /\ x = FirstToFree(a) /\ both = UNION {ToSet(side) : side \in Freeing(a).sides}
  OBVIOUS
<1>2. /\ Planned(p) /\ w \subseteq World(p) /\ a \in w
      /\ t = [q \in World(p) |-> t[q]] /\ l = [q \in World(p) |-> l[q]]
      /\ \A q \in World(p) : Sound(p, l, q, t[q])
      /\ \A q \in w : Inside(l[q], t[q])
  BY <1>1 DEF InvOf
<1>3. PICK X : X = [r \in World(p) |-> FirstToFree(r)]
  OBVIOUS
<1>4. \A r : Level(r) = Top(l[r])
  BY <1>1, Words
<1>5. Frees(op, a, l[a], x) /\ Len(l[a]) \in 1 .. 2
  <2>1. Calls(a, "pop") /\ DOMAIN Level(a).cache # {}
    BY DEF Free, Waits
  <2> QED
    BY <1>1, <2>1, FreeingRank
<1>6. both = ToSet(Side(op, g)) \cup ToSet(Side(op, x))
  <2>1. Freeing(a) = Shared(op, g, x)
    BY <1>1, <1>4, <1>5 DEF Freeing, Frees
  <2>2. Freeing(a).sides = {Side(op, g), Side(op, x)}
    BY <2>1 DEF Shared
  <2> QED
    BY <1>1, <2>2
<1>7. ASSUME NEW r \in both
      PROVE  /\ r \in w /\ r \in World(p) /\ X[r] = FirstToFree(r) /\ Heads(t[r], "pop")
             /\ Top(l[r]).id = id /\ Frees(op, r, l[r], X[r]) /\ Len(l[r]) \in 1 .. 2
             /\ (Top(l[r]).group = g /\ X[r] = x) \/ (Top(l[r]).group = x /\ X[r] = g)
  <2>1. /\ r \in waiting /\ Calls(r, "pop") /\ Level(r).id = Level(a).id
        /\ DOMAIN Level(r).cache # {} /\ Freeing(r).sides = Freeing(a).sides
    BY <1>1 DEF Free, Waits
  <2>2. /\ r \in w /\ r \in World(p) /\ X[r] = FirstToFree(r) /\ Heads(t[r], "pop")
        /\ Top(l[r]).id = id
    BY <1>1, <1>2, <1>3, <1>4, <2>1 DEF Calls, Heads
  <2>3. Frees(op, r, l[r], X[r]) /\ Len(l[r]) \in 1 .. 2
    BY <1>1, <2>1, <2>2, FreeingRank
  <2>4. Top(l[r]).cache[X[r]].sides = Top(l[a]).cache[x].sides
    BY <1>1, <1>4, <2>1, <2>2 DEF Freeing
  <2>5. r \in ToSet(Side(op, g)) \cup ToSet(Side(op, x)) /\ g = Top(l[a]).group
    BY <1>1, <1>6
  <2>6. (Top(l[r]).group = g /\ X[r] = x) \/ (Top(l[r]).group = x /\ X[r] = g)
    BY <1>5, <2>3, <2>4, <2>5, FreeSides
  <2> QED
    BY <2>2, <2>3, <2>6
<1>8. ASSUME NEW r \in both PROVE Stack(p, r, m[r]) /\ Removed(l[r], m[r], X[r])
  <2>1. PICK c : c = [n \in DOMAIN l[r][Len(l[r])].cache \ {X[r]} |-> l[r][Len(l[r])].cache[n]]
    OBVIOUS
  <2>2. Replaces(l[r], c, m[r])
    <3>1. r \in Ranks /\ r \in both /\ X[r] = FirstToFree(r)
      BY <1>1, <1>7 DEF Ranks, World
    <3>2. m[r] = [levels[r] EXCEPT ![Len(levels[r])].cache =
                    [n \in DOMAIN @ \ {FirstToFree(r)} |-> @[n]]]
      BY <1>1, <3>1 DEF Free
    <3> QED
      BY <1>1, <2>1, <3>1, <3>2 DEF Replaces
  <2>3. Stack(p, r, l[r]) /\ Len(l[r]) # 0
    <3>1. r \in World(p) /\ Len(l[r]) \in 1 .. 2
      BY <1>7
    <3>2. Stack(p, r, l[r])
      BY <1>2, <3>1 DEF Sound
    <3>3. \A n \in 1 .. 2 : n # 0
      OBVIOUS
    <3> QED
      BY <3>1, <3>2, <3>3, Zenon
  <2> QED
    BY <2>1, <2>2, <2>3, RemovedFrom
<1>9. ASSUME NEW r \in both
      PROVE  /\ SameEntries(l[r], m[r])
             /\ \A i, n : Has(l[r], i, n) /\ ~ (i = id /\ n = X[r]) => Has(m[r], i, n)
  <2>1. Stack(p, r, l[r]) /\ Removed(l[r], m[r], X[r]) /\ Len(l[r]) \in 1 .. 2 /\ Top(l[r]).id = id
    BY <1>2, <1>7, <1>8 DEF Sound
  <2> QED
    BY <2>1, RemovedFacts
<1>10. \A r \in World(p) : r \notin both => m[r] = l[r]
  BY <1>1 DEF Free, Ranks, World
<1>11. todo' = t /\ waiting' = w /\ m = [r \in World(p) |-> m[r]]
  BY <1>1 DEF Free, Ranks, World
<1>12. ASSUME NEW r \in World(p) PROVE SameEntries(l[r], m[r])
  <2>1. CASE r \in both
    BY <1>9, <2>1
  <2>2. CASE r \notin both
    BY <1>10, <2>2 DEF SameEntries, SameEntry
  <2> QED
    BY <2>1, <2>2
<1>13. ASSUME NEW r \in World(p), NEW k \in DOMAIN m[r], NEW to \in DOMAIN m[r][k].cache
       PROVE  Entry(p, m, m[r][k], to)
  <2>1. PICK L : L = l[r]
    OBVIOUS
  <2>2. Stack(p, r, L) /\ Entries(p, l, L)
    BY <1>2, <2>1 DEF Sound
  <2>3. PICK j \in DOMAIN L : SameEntry(L[j], m[r][k], to)
    BY <1>12, <2>1 DEF SameEntries
  <2>4. PICK v, o, y : v = L[j] /\ o = Op(p, v.id) /\ y = m[r][k]
    OBVIOUS
  <2>5. y.id = v.id /\ y.group = v.group /\ to \in DOMAIN v.cache /\ y.cache[to] = v.cache[to]
    BY <2>3, <2>4 DEF SameEntry
  <2>6. Entry(p, l, v, to)
    BY <2>2, <2>4, <2>5 DEF Entries
  <2>7. /\ LevelOf(o, r, v) /\ to \in Named(o.procs) /\ ToSet(Side(o, to)) \subseteq World(p)
    BY <1>2, <2>2, <2>4, <2>6, EntryFacts
  <2>8. /\ Reaches(o.procs, v.group, to) /\ v.cache[to] = Shared(o, v.group, to)
        /\ \A q \in ToSet(Side(o, to)) : Has(l[q], v.id, v.group)
    BY <2>4, <2>6 DEF Entry
  <2>9. ASSUME NEW q \in ToSet(Side(o, to)) PROVE Has(m[q], v.id, v.group)
    <3>1. CASE q \notin both
      <4>1. m[q] = l[q]
        BY <1>10, <2>7, <3>1
      <4> QED
        BY <2>8, <4>1
    <3>2. CASE q \in both /\ ~ (v.id = id /\ v.group = X[q])
      BY <1>9, <2>8, <3>2
    <3>3. CASE q \in both /\ v.id = id /\ v.group = X[q]
      <4>1. o = op
        BY <1>1, <2>4, <3>3
      <4>2. Top(l[q]).group = to
        <5>1. LevelOf(op, q, Top(l[q]))
          BY <1>7, <3>3 DEF Frees
        <5>2. GroupOf(op, q) = to
          BY <2>7, <4>1, SideRanks DEF LevelOf
        <5> QED
          BY <5>1, <5>2 DEF LevelOf
      <4>3. (to = g /\ v.group = x) \/ (to = x /\ v.group = g)
        BY <1>7, <3>3, <4>2
      <4>4. r \in both
        <5>1. r \in ToSet(Side(op, v.group))
          BY <2>7, <4>1 DEF LevelOf
        <5> QED
          BY <1>6, <4>3, <5>1
      <4>5. Top(l[r]).group = v.group
        <5>1. LevelOf(op, r, Top(l[r]))
          BY <1>7, <4>4 DEF Frees
        <5> QED
          BY <2>7, <4>1, <5>1 DEF LevelOf
      <4>6. x # g
        BY <1>1, <1>5 DEF Frees, Reaches
      <4>7. X[r] = to
        BY <1>7, <4>3, <4>4, <4>5, <4>6
      <4>8. PICK z \in 1 .. 2 : z = Len(L)
        BY <1>7, <2>1, <4>4
      <4>9. DOMAIN L = 1 .. z /\ L[z].id = id /\ \A i \in 1 .. z : L[i].id = 0 <=> i = 1
        <5>1. z \in 1 .. z
          OBVIOUS
        <5>2. Top(l[r]).id = id
          BY <1>7, <4>4
        <5> QED
          BY <2>1, <2>2, <4>8, <5>1, <5>2, StackFacts DEF Top
      <4>10. /\ DOMAIN m[r] = 1 .. z /\ \A i \in 1 .. z : m[r][i].id = L[i].id
             /\ DOMAIN m[r][z].cache = DOMAIN L[z].cache \ {X[r]}
        BY <1>8, <2>1, <4>4, <4>8 DEF Removed, Cache
      <4>11. k = z
        <5>1. k \in 1 .. z /\ L[k].id = id /\ z \in 1 .. z
          BY <2>4, <2>5, <3>3, <4>10
        <5>2. (id = 0 <=> k = 1) /\ (id = 0 <=> z = 1)
          BY <4>9, <5>1
        <5> QED
          BY <5>1, <5>2
      <4> QED
        BY <4>7, <4>10, <4>11
    <3> QED
      BY <3>1, <3>2, <3>3
  <2>10. Entry(p, m, y, to)
    BY <2>4, <2>5, <2>8, <2>9 DEF Entry
  <2> QED
    BY <2>4, <2>10
<1>14. ASSUME NEW r \in World(p) PROVE Sound(p, m, r, t[r])
  <2>1. Entries(p, m, m[r])
    BY <1>13 DEF Entries
  <2>2. CASE r \in both
    <3>1. PICK z \in 1 .. 2 : z = Len(l[r])
      BY <1>7, <2>2
    <3>2. Len(m[r]) = Len(l[r]) /\ (Len(l[r]) = 2 => m[r][1] = l[r][1])
      BY <1>8, <2>2, <3>1 DEF Removed, Cache
    <3>3. t[r] \in Seq(Call(p)) /\ Running(p, r, l[r], t[r])
      BY <1>2, <1>7, <2>2 DEF Sound, Inside
    <3>4. Running(p, r, m[r], t[r])
      BY <1>2, <1>7, <2>2, <3>2, <3>3, FreeDone
    <3> QED
      BY <1>8, <2>1, <2>2, <3>3, <3>4 DEF Sound
  <2>3. CASE r \notin both
    <3>1. m[r] = l[r] /\ Sound(p, l, r, t[r])
      BY <1>2, <1>10, <2>3
    <3> QED
      BY <2>1, <3>1 DEF Sound
  <2> QED
    BY <2>2, <2>3
<1>15. ASSUME NEW r \in w PROVE Inside(m[r], t[r])
  <2>1. CASE r \in both
    <3>1. t[r] # <<>> /\ Head(t[r]).op = "pop"
      BY <1>2, <1>7, <2>1 DEF Inside, Heads
    <3> QED
      BY <3>1 DEF Inside, Heads
  <2>2. CASE r \notin both
    BY <1>2, <1>10, <2>2
  <2> QED
    BY <2>1, <2>2
<1>16. InvOf(p, t, w, m)
  BY <1>2, <1>11, <1>14, <1>15 DEF InvOf
<1> QED
  BY <1>1, <1>11, <1>16

-----------------------------------------------------------------------------
(* The invariant holds at the start, and every step preserves it            *)

LEMMA InitInv == Init /\ NaturalSizes(plan) => Inv
<1> SUFFICES ASSUME Init, NaturalSizes(plan) PROVE Inv
  OBVIOUS
<1>1. PICK p, t, l : p = plan /\ t = todo /\ l = levels
  OBVIOUS
<1>2. /\ Planned(p) /\ t = [r \in World(p) |-> Programme(p, r)] /\ waiting = {}
      /\ l = [r \in World(p) |-> <<>>] /\ refused = {}
  BY <1>1 DEF Init, Planned, Ranks, World
<1>3. ASSUME NEW r \in World(p) PROVE Sound(p, l, r, t[r])
  <2>1. PICK P : P = Programme(p, r) /\ Orderly(p, r, P)
    BY <1>2, ProgrammeIsOrderly
  <2>2. PICK n \in Nat : n = Len(P) /\ P \in Seq(Call(p)) /\ n >= 2
    BY <2>1 DEF Orderly
  <2>3. t[r] = P /\ l[r] = <<>>
    BY <1>2, <2>1
  <2>4. Come(p, P, <<>>, P, 0, 0)
    <3>1. 0 \in 0 .. n - 1 /\ n = 0 + (n - 0) /\ n - 0 = n
      BY <2>2
    <3>2. Len(<<>>) = Depth(P, 0)
      BY DEF Depth
    <3>3. \A i \in 1 .. n : P[0 + i] = P[0 + i]
      OBVIOUS
    <3>4. \A i \in 1 .. 0 : FALSE
      OBVIOUS
    <3> QED
      BY <2>2, <3>1, <3>2, <3>3, <3>4 DEF Come
  <2>5. Asked(p, P, <<>>, P, 0, 0)
    BY <2>2 DEF Asked
  <2>6. Running(p, r, l[r], t[r])
    BY <2>1, <2>3, <2>4, <2>5 DEF Running
  <2>7. Stack(p, r, l[r]) /\ Entries(p, l, l[r])
    BY <2>3 DEF Stack, Entries
  <2> QED
    BY <2>2, <2>3, <2>6, <2>7 DEF Sound
<1>4. InvOf(p, t, {}, l)
  BY <1>2, <1>3 DEF InvOf
<1> QED
  BY <1>1, <1>2, <1>4 DEF Inv

LEMMA NextInv == Inv /\ [Next]_vars => Inv'
<1> SUFFICES ASSUME Inv, [Next]_vars PROVE Inv'
  OBVIOUS
<1>1. InvOf(plan, todo, waiting, levels) /\ refused \subseteq Ranks
  BY DEF Inv
<1>2. ASSUME plan' = plan, InvOf(plan, todo', waiting', levels'), refused' \subseteq Ranks
      PROVE  Inv'
  <2>1. Ranks' = Ranks
    BY <1>2 DEF Ranks
  <2> QED
    BY <1>2, <2>1 DEF Inv
<1>3. CASE UNCHANGED vars
  BY <1>1, <1>2, <1>3 DEF vars
<1>4. ASSUME NEW r \in Ranks, Throw(r) PROVE Inv'
  <2>1. InvOf(plan, todo', waiting', levels')
    BY <1>1, <1>4, ThrowKeeps
  <2>2. plan' = plan /\ refused' = refused \cup {r}
    BY <1>4 DEF Throw
  <2> QED
    BY <1>1, <1>2, <2>1, <2>2
<1>5. ASSUME NEW r \in Ranks, Cached(r) PROVE Inv'
  <2>1. InvOf(plan, todo', waiting', levels')
    BY <1>1, <1>5, CachedKeeps
  <2>2. plan' = plan /\ refused' = refused
    BY <1>5 DEF Cached
  <2> QED
    BY <1>1, <1>2, <2>1, <2>2
<1>6. ASSUME NEW r \in Ranks, Enter(r) PROVE Inv'
  <2>1. InvOf(plan, todo', waiting', levels')
    BY <1>1, <1>6, EnterKeeps
  <2>2. plan' = plan /\ refused' = refused
    BY <1>6 DEF Enter
  <2> QED
    BY <1>1, <1>2, <2>1, <2>2
<1>7. ASSUME NEW r \in waiting, Calls(r, "extend"), Extend(Head(todo[r])) PROVE Inv'
  <2>1. InvOf(plan, todo', waiting', levels')
    BY <1>1, <1>7, ExtendKeeps
  <2>2. plan' = plan /\ refused' = refused
    BY <1>7 DEF Extend
  <2> QED
    BY <1>1, <1>2, <2>1, <2>2
<1>8. ASSUME NEW r \in waiting, NEW q \in waiting, Connect(r, q) PROVE Inv'
  <2>1. InvOf(plan, todo', waiting', levels')
    BY <1>1, <1>8, ConnectKeeps
  <2>2. plan' = plan /\ refused' = refused
    BY <1>8 DEF Connect
  <2> QED
    BY <1>1, <1>2, <2>1, <2>2
<1>9. ASSUME NEW r \in waiting, Free(r) PROVE Inv'
  <2>1. InvOf(plan, todo', waiting', levels')
    BY <1>1, <1>9, FreeKeeps
  <2>2. plan' = plan /\ refused' = refused
    BY <1>9 DEF Free
  <2> QED
    BY <1>1, <1>2, <2>1, <2>2
<1>10. ASSUME NEW r \in waiting, PopBack(r) PROVE Inv'
  <2>1. InvOf(plan, todo', waiting', levels')
    BY <1>1, <1>10, PopBackKeeps
  <2>2. plan' = plan /\ refused' = refused
    BY <1>10 DEF PopBack
  <2> QED
    BY <1>1, <1>2, <2>1, <2>2
<1>11. CASE Done /\ UNCHANGED vars
  BY <1>3, <1>11
<1> QED
  BY <1>3, <1>4, <1>5, <1>6, <1>7, <1>8, <1>9, <1>10, <1>11 DEF Next

-----------------------------------------------------------------------------
(* What it says of the levels                                               *)

\* v is a level of rank r, and op the call that has made it
IsLevel(r, v, op) ==
    /\ LevelOf(op, r, v) /\ ToSet(op.world) \subseteq World(plan)
    /\ v.id = 0 => op.procs = plan.procs
    /\ op = Op(plan, v.id) /\ v.id \in {0} \cup JobIds(plan)
    /\ \A to \in DOMAIN v.cache : Entry(plan, levels, v, to) /\ to \in Named(op.procs)

LEMMA LevelFacts ==
    ASSUME Inv, NEW e \in Levels
    PROVE  /\ e[1] \in Ranks /\ e[2] \in DOMAIN levels[e[1]]
           /\ \E op : IsLevel(e[1], levels[e[1]][e[2]], op)
<1>1. PICK r \in Ranks : e \in {<<r, k>> : k \in DOMAIN levels[r]}
  BY DEF Levels
<1>2. PICK k \in DOMAIN levels[r] : e = <<r, k>>
  BY <1>1
<1>3. PICK p, l, L, v, op : /\ p = plan /\ l = levels /\ L = levels[r] /\ v = levels[r][k]
                            /\ op = Op(plan, v.id)
  OBVIOUS
<1>4. r \in World(p) /\ Planned(p) /\ Stack(p, r, L) /\ Entries(p, l, L)
  BY <1>3 DEF Inv, InvOf, Sound, Ranks, World
<1>5. k \in DOMAIN L /\ v = L[k]
  BY <1>3
<1>6. /\ LevelOf(op, r, v) /\ ToSet(op.world) \subseteq World(p)
      /\ v.id \in {0} \cup JobIds(p)
  BY <1>3, <1>4, <1>5, StackLevels
<1>7. ASSUME NEW to \in DOMAIN v.cache PROVE Entry(p, l, v, to) /\ to \in Named(op.procs)
  <2>1. Entry(p, l, L[k], to)
    BY <1>4, <1>5 DEF Entries
  <2>2. to \in Named(Op(p, L[k].id).procs)
    BY <1>4, <1>5, <2>1, EntryFacts
  <2> QED
    BY <1>3, <1>5, <2>1, <2>2
<1>8. v.id = 0 => op.procs = p.procs
  <2> SUFFICES ASSUME v.id = 0 PROVE op.procs = p.procs
    OBVIOUS
  <2>1. op = Op(p, 0) /\ Total(op.procs) = Len(op.world)
    BY <1>3, <1>6 DEF LevelOf, Fits
  <2> QED
    BY <1>4, <2>1, OuterTotal
<1>9. IsLevel(r, v, op)
  BY <1>3, <1>6, <1>7, <1>8 DEF IsLevel
<1> QED
  BY <1>2, <1>3, <1>9

LEMMA InvTypeOK == Inv => TypeOK
<1> SUFFICES ASSUME Inv PROVE TypeOK
  OBVIOUS
<1>1. /\ plan \in Plans /\ waiting \subseteq Ranks /\ refused \subseteq Ranks
      /\ \A r \in waiting : todo[r] # <<>>
  BY DEF Inv, InvOf, Planned, Inside, Ranks, World
<1>2. ASSUME NEW e \in Levels, NEW v, v = levels[e[1]][e[2]]
      PROVE  /\ e[1] \in ToSet(v.local) /\ ToSet(v.local) \subseteq ToSet(v.world)
             /\ v.color \in Nat /\ \A n \in DOMAIN v.groups : v.groups[n].size \in Nat
             /\ v.group \in DOMAIN v.groups /\ DOMAIN v.cache \subseteq DOMAIN v.groups
  <2>1. PICK op : IsLevel(e[1], v, op)
    BY <1>2, LevelFacts
  <2>2. PICK r : r = e[1]
    OBVIOUS
  <2>3. /\ LevelOf(op, r, v) /\ Fits(op) /\ r \in ToSet(op.world)
        /\ \A to \in DOMAIN v.cache : to \in Named(op.procs)
    BY <2>1, <2>2 DEF IsLevel, LevelOf
  <2>4. v.groups = GroupMap(op.procs) /\ DOMAIN v.groups = Named(op.procs)
    BY <2>3, GroupMapFacts DEF LevelOf, Fits
  <2>5. r \in ToSet(v.local) /\ v.group \in DOMAIN v.groups
    BY <2>3, <2>4 DEF LevelOf
  <2>6. ToSet(v.local) \subseteq ToSet(v.world)
    <3>1. v.local = Side(op, v.group) /\ v.world = op.world /\ v.group \in Named(op.procs)
      BY <2>3 DEF LevelOf
    <3> QED
      BY <2>3, <3>1, SideRanks
  <2>7. v.color \in Nat
    BY <2>3, RankFacts DEF LevelOf
  <2>8. \A n \in DOMAIN v.groups : v.groups[n].size \in Nat
    <3>1. ASSUME NEW n \in Named(op.procs) PROVE GroupMap(op.procs)[n].size \in Nat
      BY <2>3, SideFacts
    <3> QED
      BY <2>4, <3>1
  <2> QED
    BY <2>2, <2>3, <2>4, <2>5, <2>6, <2>7, <2>8
<1> QED
  BY <1>1, <1>2 DEF TypeOK

LEMMA InvLayoutSound == Inv => LayoutSound
<1> SUFFICES ASSUME Inv, NEW e \in Levels, NEW v, v = levels[e[1]][e[2]]
             PROVE  /\ v.groups[v.group].size = Len(v.local)
                    /\ v.world[v.groups[v.group].leader + 1] = v.local[1]
                    /\ \A n \in DOMAIN v.groups :
                          v.groups[n].leader + v.groups[n].size <= Len(v.world)
                    /\ \A i \in DOMAIN v.world : \E n \in DOMAIN v.groups :
                          \A m \in DOMAIN v.groups :
                             i \in v.groups[m].leader + 1 .. v.groups[m].leader + v.groups[m].size
                             <=> m = n
                    /\ v.id = 0 => plan.procs[v.color + 1].name = v.group
  BY DEF LayoutSound
<1>1. PICK r, g, op : r = e[1] /\ g = v.group /\ IsLevel(e[1], v, op)
  BY LevelFacts
<1>2. /\ Fits(op) /\ r \in ToSet(op.world) /\ g \in Named(op.procs) /\ g = GroupOf(op, r)
      /\ v.world = op.world /\ v.local = Side(op, g) /\ r \in ToSet(Side(op, g))
      /\ v.groups = GroupMap(op.procs) /\ v.color = Color(op.procs, Place(op, r))
  BY <1>1 DEF IsLevel, LevelOf
<1>3. DOMAIN v.groups = Named(op.procs)
  BY <1>2, GroupMapFacts DEF Fits
<1>4. ASSUME NEW n \in Named(op.procs)
      PROVE  /\ v.groups[n].leader = Lead(op, n) /\ v.groups[n].size = Len(Side(op, n))
             /\ Lead(op, n) + Len(Side(op, n)) <= Len(op.world)
  BY <1>2, SideFacts
<1>5. v.groups[g].size = Len(v.local)
  BY <1>2, <1>4
<1>6. v.world[v.groups[g].leader + 1] = v.local[1]
  <2>1. 1 \in 1 .. Len(Side(op, g))
    <3>1. Side(op, g) \in Seq(Nat) /\ Len(Side(op, g)) \in Nat /\ DOMAIN Side(op, g) = 1 .. Len(Side(op, g))
      BY <1>2, SideFacts
    <3>2. DOMAIN Side(op, g) # {}
      BY <1>2 DEF ToSet
    <3> QED
      BY <3>1, <3>2
  <2>2. Side(op, g)[1] = op.world[Lead(op, g) + 1]
    BY <1>2, <2>1, SideFacts
  <2> QED
    BY <1>2, <1>4, <2>2
<1>7. ASSUME NEW i \in DOMAIN v.world
      PROVE  \E n \in DOMAIN v.groups : \A m \in DOMAIN v.groups :
                i \in v.groups[m].leader + 1 .. v.groups[m].leader + v.groups[m].size <=> m = n
  <2>1. i \in 1 .. Len(op.world) /\ op.world[i] \in ToSet(op.world)
    <3>1. DOMAIN op.world = 1 .. Len(op.world)
      BY <1>2, Places
    <3> QED
      BY <1>2, <3>1 DEF ToSet
  <2>2. PICK n \in Named(op.procs) : n = GroupOf(op, op.world[i])
    BY <1>2, <2>1, RankFacts
  <2>3. ASSUME NEW m \in Named(op.procs)
        PROVE  i \in v.groups[m].leader + 1 .. v.groups[m].leader + v.groups[m].size <=> m = n
    <3>1. i \in Lead(op, m) + 1 .. Lead(op, m) + Len(Side(op, m)) <=> GroupOf(op, op.world[i]) = m
      BY <1>2, <2>1, SideFacts
    <3> QED
      BY <1>4, <2>2, <3>1
  <2> QED
    BY <1>3, <2>3
<1>8. v.id = 0 => plan.procs[v.color + 1].name = g
  <2>1. op.procs[v.color + 1].name = g
    BY <1>2, RankFacts
  <2> QED
    BY <1>1, <2>1 DEF IsLevel
<1> QED
  BY <1>1, <1>2, <1>3, <1>4, <1>5, <1>6, <1>7, <1>8

\* the groups of a level have different ranks, so that one comes before the other
LEMMA LeadsDiffer ==
    ASSUME NEW op, Fits(op), NEW g \in Named(op.procs), NEW h \in Named(op.procs), g # h,
           Side(op, g) # <<>>, Side(op, h) # <<>>
    PROVE  Lead(op, g) # Lead(op, h)
<1> SUFFICES ASSUME Lead(op, g) = Lead(op, h) PROVE FALSE
  OBVIOUS
<1>1. ASSUME NEW n \in {g, h} PROVE 1 \in 1 .. Len(Side(op, n))
  <2>1. Side(op, n) \in Seq(Nat) /\ Len(Side(op, n)) \in Nat
    BY <1>1, SideFacts
  <2>2. Len(Side(op, n)) # 0
    BY <1>1, <2>1, EmptySeq
  <2> QED
    BY <2>1, <2>2
<1>2. ASSUME NEW n \in {g, h}
      PROVE  /\ Lead(op, n) + 1 \in 1 .. Len(op.world)
             /\ GroupOf(op, op.world[Lead(op, n) + 1]) = n
  <2>1. /\ Lead(op, n) \in Nat /\ Len(Side(op, n)) \in Nat
        /\ Lead(op, n) + Len(Side(op, n)) <= Len(op.world) /\ Len(op.world) \in Nat
    BY <1>2, SideFacts, Places
  <2>2. /\ Lead(op, n) + 1 \in 1 .. Len(op.world)
        /\ Lead(op, n) + 1 \in Lead(op, n) + 1 .. Lead(op, n) + Len(Side(op, n))
    BY <1>1, <2>1
  <2> QED
    BY <1>2, <2>2, SideFacts
<1> QED
  BY <1>2

LEMMA SharedIsMutual ==
    ASSUME NEW op, Fits(op), NEW g \in Named(op.procs), NEW h \in Named(op.procs), g # h,
           Side(op, g) # <<>>, Side(op, h) # <<>>
    PROVE  Shared(op, g, h) = Shared(op, h, g)
<1>1. PICK a \in Nat, b \in Nat : a = Lead(op, g) /\ b = Lead(op, h)
  BY SideFacts
<1>2. a # b
  BY <1>1, LeadsDiffer
<1>3. PICK s, t : s = Side(op, g) /\ t = Side(op, h)
  OBVIOUS
<1>4. /\ Shared(op, g, h) = [sides |-> {s, t}, intra |-> IF a > b THEN t \o s ELSE s \o t]
      /\ Shared(op, h, g) = [sides |-> {t, s}, intra |-> IF b > a THEN s \o t ELSE t \o s]
  BY <1>1, <1>3 DEF Shared
<1>5. {s, t} = {t, s}
  OBVIOUS
<1>6. CASE a > b
  <2>1. ~ (b > a)
    BY <1>1, <1>6
  <2> QED
    BY <1>4, <1>5, <1>6, <2>1
<1>7. CASE b > a
  <2>1. ~ (a > b)
    BY <1>1, <1>7
  <2> QED
    BY <1>4, <1>5, <1>7, <2>1
<1> QED
  BY <1>1, <1>2, <1>6, <1>7

\* the two sides as SidesMatch has them
Remote(v, to) == CHOOSE s \in v.cache[to].sides : s # v.local
Mirrored(v, to, q) ==
    \E k \in DOMAIN levels[q] :
        LET w == levels[q][k] IN
        /\ w.id = v.id /\ w.group = to
        /\ v.group \in DOMAIN w.cache /\ w.cache[v.group] = v.cache[to]

LEMMA OtherSide ==
    ASSUME Inv, NEW e \in Levels, NEW v, v = levels[e[1]][e[2]], NEW to \in DOMAIN v.cache,
           NEW q \in ToSet(Remote(v, to))
    PROVE  Mirrored(v, to, q)
<1>1. PICK r, g, op : r = e[1] /\ g = v.group /\ IsLevel(e[1], v, op)
  BY LevelFacts
<1>2. /\ Fits(op) /\ r \in ToSet(op.world) /\ g \in Named(op.procs) /\ g = GroupOf(op, r)
      /\ v.local = Side(op, g) /\ r \in ToSet(Side(op, g)) /\ op = Op(plan, v.id)
      /\ ToSet(op.world) \subseteq World(plan)
      /\ Entry(plan, levels, v, to) /\ to \in Named(op.procs)
  BY <1>1 DEF IsLevel, LevelOf
<1>3. /\ Reaches(op.procs, g, to) /\ v.cache[to] = Shared(op, g, to)
      /\ \A p \in ToSet(Side(op, to)) : Has(levels[p], v.id, g)
  BY <1>1, <1>2 DEF Entry
<1>4. to # g /\ Side(op, to) # <<>> /\ Side(op, to)[1] \in ToSet(Side(op, to))
  <2>1. Fits(op) /\ Reaches(op.procs, g, to)
    BY <1>2, <1>3
  <2> QED
    BY <2>1, ReachFacts
<1>5. Side(op, to) # Side(op, g)
  BY <1>2, <1>4, SideNames
<1>6. v.cache[to].sides = {Side(op, g), Side(op, to)}
  BY <1>3 DEF Shared
<1>7. q \in ToSet(Side(op, to))
  <2>1. Remote(v, to) = Side(op, to)
    BY <1>2, <1>5, <1>6 DEF Remote
  <2> QED
    BY <2>1
<1>8. q \in World(plan) /\ GroupOf(op, q) = to /\ q \in ToSet(op.world)
  <2>1. Fits(op) /\ to \in Named(op.procs) /\ ToSet(op.world) \subseteq World(plan)
    BY <1>2
  <2>2. GroupOf(op, q) = to /\ q \in ToSet(op.world)
    BY <1>7, <2>1, SideRanks
  <2> QED
    BY <2>1, <2>2
<1>9. PICK k \in DOMAIN levels[q] : levels[q][k].id = v.id /\ g \in DOMAIN levels[q][k].cache
  BY <1>3, <1>7 DEF Has
<1>10. PICK w, d : w = levels[q][k] /\ d = <<q, k>>
  OBVIOUS
<1>11. d \in Levels /\ d[1] = q /\ d[2] = k
  BY <1>8, <1>10 DEF Levels, Ranks, World
<1>12. PICK o : IsLevel(q, w, o)
  BY <1>10, <1>11, LevelFacts
<1>13. w.group = to /\ Entry(plan, levels, w, g)
  <2>1. o = op /\ LevelOf(op, q, w)
    BY <1>2, <1>9, <1>10, <1>12 DEF IsLevel
  <2> QED
    BY <1>8, <1>9, <1>10, <1>12, <2>1 DEF IsLevel, LevelOf
<1>14. w.cache[g] = Shared(op, to, g)
  BY <1>2, <1>9, <1>10, <1>13 DEF Entry
<1>15. Side(op, g) # <<>>
  <2>1. DOMAIN Side(op, g) # {}
    BY <1>2 DEF ToSet
  <2>2. Side(op, g) \in Seq(Nat) /\ DOMAIN Side(op, g) = 1 .. Len(Side(op, g))
    BY <1>2, SideFacts
  <2>3. Len(Side(op, g)) # 0
    BY <2>1, <2>2
  <2> QED
    BY <2>3
<1>16. Shared(op, to, g) = Shared(op, g, to)
  BY <1>2, <1>4, <1>15, SharedIsMutual
<1> QED
  BY <1>1, <1>3, <1>9, <1>10, <1>13, <1>14, <1>16 DEF Mirrored

LEMMA InvSidesMatch == Inv => SidesMatch
<1> SUFFICES ASSUME Inv PROVE SidesMatch
  OBVIOUS
<1>1. ASSUME NEW e \in Levels, NEW to \in DOMAIN levels[e[1]][e[2]].cache,
             NEW q \in ToSet(Remote(levels[e[1]][e[2]], to))
      PROVE  Mirrored(levels[e[1]][e[2]], to, q)
  <2>1. PICK v : v = levels[e[1]][e[2]]
    OBVIOUS
  <2>2. to \in DOMAIN v.cache /\ q \in ToSet(Remote(v, to))
    BY <2>1
  <2>3. Mirrored(v, to, q)
    BY <2>1, <2>2, OtherSide
  <2> QED
    BY <2>1, <2>3
<1> QED
  BY <1>1, Zenon DEF SidesMatch, Remote, Mirrored

-----------------------------------------------------------------------------
(* Where natural sizes come from                                            *)

LEMMA InNameOrderDomain ==
    ASSUME NEW S, IsFiniteSet(S)
    PROVE  \E n \in Nat : DOMAIN InNameOrder(S) = 1 .. n /\ Len(InNameOrder(S)) = n
<1>1. PICK n \in Nat : n = Cardinality(S)
  BY FS_CardinalityType
<1>2. PICK T, s : s = [k \in 1 .. n |-> Nth(S, k)] /\ T = {Nth(S, k) : k \in 1 .. n}
  OBVIOUS
<1>3. s \in Seq(T) /\ DOMAIN s = 1 .. n
  <2>1. s \in [1 .. n -> T]
    BY <1>2
  <2> QED
    BY <2>1
<1>4. Len(s) = n
  BY <1>3, LenProperties
<1>5. s = InNameOrder(S)
  BY <1>1, <1>2 DEF InNameOrder
<1> QED
  BY <1>3, <1>4, <1>5

\* Who gives groups natural sizes on the command line gets natural sizes for all groups
\* of the script, however many are left open: parse_procs() throws before it would
\* divide less than nothing among them.
THEOREM ParsedSizesAreNatural ==
    ASSUME NEW given, Divided(given), NEW all, IsFiniteSet(all), NEW size \in Nat
    PROVE  \A k \in DOMAIN ParseProcs(given, all, size) :
              ParseProcs(given, all, size)[k].size \in Nat
<1>1. PICK q, total, open : /\ q = ParseProcs(given, all, size) /\ total = Total(given)
                            /\ open = InNameOrder(all \ {x.name : x \in ToSet(given)})
  OBVIOUS
<1>2. /\ total \in Nat /\ DOMAIN given = 1 .. Len(given) /\ given \in Seq([name : Nat, size : Int])
      /\ \A k \in DOMAIN given : given[k].size \in Nat
  <2>1. Len(given) + 1 \in 1 .. Len(given) + 1
    BY DividedFacts
  <2> QED
    BY <1>1, <2>1, DividedFacts DEF Total, Divided, Division
<1>3. PICK n \in Nat : DOMAIN open = 1 .. n /\ Len(open) = n
  <2>1. IsFiniteSet(all \ {x.name : x \in ToSet(given)})
    BY FS_Subset
  <2> QED
    BY <1>1, <2>1, InNameOrderDomain
<1>4. CASE total > size
  BY <1>1, <1>4 DEF ParseProcs
<1>5. CASE ~ (total > size)
  <2>1. PICK left \in Nat : left = size - total
    BY <1>2, <1>5
  <2>2. PICK rest : rest = [k \in 1 .. n |-> [name |-> open[k], size |-> left \div n]]
    OBVIOUS
  <2>3. q = given \o rest
    BY <1>1, <1>3, <1>5, <2>1, <2>2 DEF ParseProcs, Shares
  <2>4. \A k \in 1 .. n : rest[k].size \in Nat
    <3>1. \A k \in 1 .. n : n > 0
      OBVIOUS
    <3>2. n > 0 => left \div n \in Nat
      OBVIOUS
    <3> QED
      BY <2>2, <3>1, <3>2
  <2>5. PICK T : T = {given[k] : k \in DOMAIN given} \cup {rest[k] : k \in 1 .. n}
    OBVIOUS
  <2>6. given \in Seq(T) /\ rest \in Seq(T)
    <3>1. given \in [1 .. Len(given) -> T] /\ Len(given) \in Nat
      BY <1>2, <2>5, LenProperties
    <3>2. rest \in [1 .. n -> T]
      BY <2>2, <2>5
    <3> QED
      BY <3>1, <3>2
  <2>7. \A x \in T : x.size \in Nat
    BY <1>2, <2>4, <2>5
  <2>8. q \in Seq(T)
    BY <2>3, <2>6, ConcatProperties
  <2>9. \A k \in DOMAIN q : q[k] \in T
    BY <2>8
  <2> QED
    BY <1>1, <2>7, <2>9
<1> QED
  BY <1>2, <1>4, <1>5

-----------------------------------------------------------------------------
(* The theorems                                                             *)

\* However the division gives natural sizes to the groups: a rank is in the local
\* communicator that MPI_Comm_split gave it, its color and its group are those of the
\* level (the "repeatedly overwritten" loops of extend()), and intercomm() has entries
\* only for groups of the level.
THEOREM TypeCorrect == Spec /\ NaturalSizes(plan) => []TypeOK
<1>1. Init /\ NaturalSizes(plan) => Inv
  BY InitInv
<1>2. Inv /\ [Next]_vars => Inv'
  BY NextInv
<1>3. Inv => TypeOK
  BY InvTypeOK
<1> QED
  BY <1>1, <1>2, <1>3, PTL DEF Spec

\* The leaders and sizes that every rank computes alone from the list of groups are
\* those of the communicators that MPI_Comm_split has made of the level's world, for
\* any number of groups, groups without ranks among them, and worlds in any order.
THEOREM LayoutIsSound == Spec /\ NaturalSizes(plan) => []LayoutSound
<1>1. Init /\ NaturalSizes(plan) => Inv
  BY InitInv
<1>2. Inv /\ [Next]_vars => Inv'
  BY NextInv
<1>3. Inv => LayoutSound
  BY InvLayoutSound
<1> QED
  BY <1>1, <1>2, <1>3, PTL DEF Spec

\* What intercomm() returns, from the level or a lower one, leads to the group that
\* was asked for, and as long as one side keeps it, all ranks of the other have the
\* same under the name of this group: MPI_Comm_free, which both sides call, is never
\* entered for what the other side has freed, whatever the order of creation.
THEOREM SidesAlwaysMatch == Spec /\ NaturalSizes(plan) => []SidesMatch
<1>1. Init /\ NaturalSizes(plan) => Inv
  BY InitInv
<1>2. Inv /\ [Next]_vars => Inv'
  BY NextInv
<1>3. Inv => SidesMatch
  BY InvSidesMatch
<1> QED
  BY <1>1, <1>2, <1>3, PTL DEF Spec
==============================================================================
