-------------------------- MODULE CommCreate_proofs --------------------------
(***************************************************************************)
(* Proofs about CommCreate for every number of ranks and jobs, every size    *)
(* of the jobs and every way their blocks overlap.                           *)
(*                                                                          *)
(* The argument: which leaders meet, and in which round, is settled by the   *)
(* block of the job alone (Meets), and two ranks meet at most once in a job. *)
(* So what is under way between two leaders is one message for each job that *)
(* the one has sent and the other not heard, in the order of the jobs        *)
(* (Mailboxes), and a leader that waits has heard those of all earlier jobs. *)
(***************************************************************************)
EXTENDS CommCreate, SequenceTheorems, TLAPS

-----------------------------------------------------------------------------
(* What the block of a job says of its rounds                               *)

\* the powers of two: the least set that holds 1 and the double of each member
Doubling(S) == 1 \in S /\ \A m \in S : 2 * m \in S
Powers      == {n \in Nat : \A S \in SUBSET Nat : Doubling(S) => n \in S}

First(j) == jobs[j].first
Size(j)  == jobs[j].last - jobs[j].first + 1
Block(j) == jobs[j].first .. jobs[j].last

\* n ranks from a on
Run(a, n) == [i \in 1 .. n |-> a + i - 1]

\* the communicator of the ranks from the offset o on in the round of merge size m
SideLen(j, o, m) == IF o + m <= Size(j) THEN m ELSE Size(j) - o
Side(j, o, m)    == Run(First(j) + o, SideLen(j, o, m))

\* the side at offset o is merged with the one that follows it in round m
Pair(j, o, m) ==
    /\ o \in Nat /\ m \in Powers
    /\ \E k \in Nat : o = k * (2 * m)
    /\ o + m < Size(j)

\* a and b are the leaders of two sides that are merged in job j, in round Gap(a, b)
Meets(j, a, b) ==
    \/ a < b /\ Pair(j, a - First(j), b - a)
    \/ b < a /\ Pair(j, b - First(j), a - b)

Gap(a, b) == IF a < b THEN b - a ELSE a - b

\* r is beyond round g of job j
Passed(r, g, j) == j < job[r] \/ (job[r] = j /\ g < mergeSize[r])

\* a has written to b in job j, and b has taken the message
Sent(a, b, j) ==
    \/ Passed(a, Gap(a, b), j)
    \/ job[a] = j /\ Gap(a, b) = mergeSize[a] /\ pc[a] = "create"

Heard(a, b, j) == Passed(b, Gap(a, b), j)

-----------------------------------------------------------------------------
(* The inductive invariant                                                  *)

Message == [comm : Seq(Ranks), job : JobIds, round : Powers]
Bridge  == [job : JobIds, comm : Seq(Ranks), remote : Seq(Ranks)]

Types ==
    /\ jobs \in Workloads
    /\ pc \in [Ranks -> {"listen", "loop", "create"}]
    /\ job \in [Ranks -> 0 .. MaxJobs]
    /\ mergeSize \in [Ranks -> Powers]
    /\ comm \in [Ranks -> Seq(Ranks)]
    /\ mail \in [Ranks -> [Ranks -> Seq(Message)]]
    /\ bridges \subseteq Bridge
    /\ entered \in [JobIds -> SUBSET Ranks]

\* where the communicator of the rank at x begins in round m
Off(x, m) == (x \div m) * m

\* where the first rank of r's communicator is in the block
Offset(r) == Off(GroupRank(r), mergeSize[r])

\* A rank's communicator is determined by its place in the block and the round.
Place(r) ==
    /\ pc[r] # "listen" => job[r] # 0
    /\ job[r] # 0 => r \in Block(job[r])
    /\ pc[r] = "listen" /\ job[r] # 0 => Size(job[r]) <= mergeSize[r]
    /\ pc[r] # "listen" => /\ mergeSize[r] < 2 * Size(job[r])
                           /\ comm[r] = Side(job[r], Offset(r), mergeSize[r])
    /\ pc[r] = "create" => More(r) /\ Paired(r)

Places == \A r \in Ranks : Place(r)

\* What leaders have told their side is the neighbour's communicator.
Bridged(i) ==
    \E o \in Nat, m \in Powers :
        /\ i.comm = Side(i.job, o, m)
        /\ \/ Pair(i.job, o, m) /\ i.remote = Side(i.job, o + m, m)
           \/ m <= o /\ Pair(i.job, o - m, m) /\ i.remote = Side(i.job, o - m, m)

Bridges == \A i \in bridges : Bridged(i)

\* The messages from a to b: one for each job in which a has written to b and b has
\* not taken the message, in the order of the jobs; nothing is taken before it is sent.
Mailbox(a, b) ==
    /\ \A k \in 1 .. Len(mail[a][b]) :
          LET m == mail[a][b][k] IN
          /\ Meets(m.job, a, b) /\ m.round = Gap(a, b)
          /\ m.comm = Side(m.job, a - First(m.job), Gap(a, b))
          /\ Sent(a, b, m.job) /\ ~Heard(a, b, m.job)
    /\ \A k, l \in 1 .. Len(mail[a][b]) : k < l => mail[a][b][k].job < mail[a][b][l].job
    /\ \A j \in JobIds : Meets(j, a, b) /\ Sent(a, b, j) /\ ~Heard(a, b, j) =>
          \E k \in 1 .. Len(mail[a][b]) : mail[a][b][k].job = j
    /\ \A j \in JobIds : Meets(j, a, b) /\ Heard(a, b, j) => Sent(a, b, j)

Mailboxes == \A a, b \in Ranks : Mailbox(a, b)

\* Whoever is in a communicator of a job, or in what is told of one, has entered it.
AllIn(c, j) == \A i \in 1 .. Len(c) : c[i] \in entered[j]

Entered ==
    /\ \A j \in JobIds : \A r \in entered[j] : j <= job[r]
    /\ \A r \in Ranks : pc[r] # "listen" => AllIn(comm[r], job[r])
    /\ \A a, b \in Ranks : \A k \in 1 .. Len(mail[a][b]) :
          AllIn(mail[a][b][k].comm, mail[a][b][k].job)
    /\ \A i \in bridges : AllIn(i.remote, i.job)

\* Those who have left a job have its ranks in their order.
Created ==
    /\ created = [j \in JobIds |-> [r \in DOMAIN created[j] |-> Run(First(j), Size(j))]]
    /\ \A j \in JobIds : \A r \in DOMAIN created[j] :
          r \in Ranks /\ (j < job[r] \/ (job[r] = j /\ pc[r] = "listen"))

Inv == Types /\ Places /\ Bridges /\ Mailboxes /\ Entered /\ Created

-----------------------------------------------------------------------------
(* Powers of two                                                            *)

LEMMA PowersInduction ==
    ASSUME NEW S, 1 \in S, \A m \in Nat : m \in S => 2 * m \in S
    PROVE  Powers \subseteq S
<1>1. Doubling(S \cap Nat)
  BY DEF Doubling
<1>2. S \cap Nat \in SUBSET Nat
  OBVIOUS
<1> QED
  BY <1>1, <1>2 DEF Powers

LEMMA PowersPositive == \A m \in Powers : m \in Nat /\ m >= 1
<1> DEFINE S == {m \in Nat : m >= 1}
<1>1. Powers \subseteq S
  <2>1. 1 \in S /\ \A m \in Nat : m \in S => 2 * m \in S
    OBVIOUS
  <2> HIDE DEF S
  <2> QED
    BY <2>1, PowersInduction
<1> QED
  BY <1>1

LEMMA PowersClosed == 1 \in Powers /\ \A m \in Powers : 2 * m \in Powers
<1>1. 1 \in Powers
  BY DEF Powers, Doubling
<1>2. ASSUME NEW m \in Powers PROVE 2 * m \in Powers
  <2>1. m \in Nat /\ 2 * m \in Nat
    BY PowersPositive
  <2>2. ASSUME NEW S \in SUBSET Nat, Doubling(S) PROVE 2 * m \in S
    BY <2>2 DEF Powers, Doubling
  <2> QED
    BY <2>1, <2>2 DEF Powers
<1> QED
  BY <1>1, <1>2

\* a smaller power of two divides half of a larger one
Divides(a, b) == \E k \in Nat : k >= 1 /\ b = k * (2 * a)

LEMMA PowersDivide == \A b \in Powers : \A a \in Powers : a < b => Divides(a, b)
<1> DEFINE Small(b) == \A a \in Powers : a < b => Divides(a, b)
           S == {b \in Powers : Small(b)}
<1>1. 1 \in S
  BY PowersClosed, PowersPositive
<1>2. ASSUME NEW b \in Nat, b \in S PROVE 2 * b \in S
  <2>1. b \in Powers /\ Small(b) /\ 2 * b \in Powers /\ b >= 1
    BY <1>2, PowersClosed, PowersPositive
  <2> DEFINE T == {a \in Powers : a <= b \/ (\E k \in Nat : k >= 1 /\ a = k * (2 * b))}
  <2>2. 1 \in T
    BY <2>1, PowersClosed
  <2>3. ASSUME NEW a \in Nat, a \in T PROVE 2 * a \in T
    <3>1. a \in Powers /\ 2 * a \in Powers
      BY <2>3, PowersClosed
    <3>2. CASE a < b
      <4>1. PICK k \in Nat : k >= 1 /\ b = k * (2 * a)
        BY <2>1, <3>1, <3>2 DEF Divides
      <4>2. 2 * a <= b
        BY <4>1
      <4> QED
        BY <3>1, <4>2
    <3>3. CASE a = b
      BY <3>1, <3>3
    <3>4. CASE \E k \in Nat : k >= 1 /\ a = k * (2 * b)
      <4>1. PICK k \in Nat : k >= 1 /\ a = k * (2 * b)
        BY <3>4
      <4>2. 2 * a = (2 * k) * (2 * b) /\ 2 * k \in Nat /\ 2 * k >= 1
        BY <4>1
      <4> QED
        BY <3>1, <4>2
    <3>5. a < b \/ a = b \/ \E k \in Nat : k >= 1 /\ a = k * (2 * b)
      BY <2>3
    <3> QED
      BY <3>2, <3>3, <3>4, <3>5
  <2>4. Powers \subseteq T
    <3> HIDE DEF T
    <3> QED
      BY <2>2, <2>3, PowersInduction
  <2>5. ASSUME NEW a \in Powers, a < 2 * b PROVE Divides(a, 2 * b)
    <3>1. a \in Nat /\ a >= 1
      BY PowersPositive
    <3>2. CASE a <= b
      <4>1. CASE a = b
        BY <4>1 DEF Divides
      <4>2. CASE a < b
        <5>1. PICK k \in Nat : k >= 1 /\ b = k * (2 * a)
          BY <2>1, <4>2 DEF Divides
        <5>2. 2 * b = (2 * k) * (2 * a) /\ 2 * k \in Nat /\ 2 * k >= 1
          BY <3>1, <5>1
        <5> QED
          BY <5>2 DEF Divides
      <4> QED
        BY <3>1, <3>2, <4>1, <4>2
    <3>3. CASE \E k \in Nat : k >= 1 /\ a = k * (2 * b)
      <4>1. PICK k \in Nat : k >= 1 /\ a = k * (2 * b)
        BY <3>3
      <4>2. a >= 2 * b
        BY <4>1
      <4> QED
        BY <2>5, <3>1, <4>2
    <3> QED
      BY <2>4, <3>2, <3>3
  <2> QED
    BY <2>1, <2>5
<1>3. Powers \subseteq S
  <2> HIDE DEF S
  <2> QED
    BY <1>1, <1>2, PowersInduction
<1> QED
  BY <1>3

LEMMA PowersApart ==
    ASSUME NEW a \in Powers, NEW b \in Powers, a < b
    PROVE  2 * a <= b
<1>1. PICK k \in Nat : k >= 1 /\ b = k * (2 * a)
  BY PowersDivide DEF Divides
<1>2. a \in Nat
  BY PowersPositive
<1> QED
  BY <1>1, <1>2

-----------------------------------------------------------------------------
(* Where the sides begin                                                    *)

LEMMA DivFacts ==
    ASSUME NEW x \in Nat, NEW m \in Nat, m >= 1
    PROVE  x \div m \in Nat /\ (x \div m) * m <= x /\ x < (x \div m) * m + m
BY Z3

LEMMA DivUnique ==
    ASSUME NEW x \in Nat, NEW m \in Nat, m >= 1, NEW k \in Nat, k * m <= x, x < k * m + m
    PROVE  x \div m = k
<1> DEFINE g == x \div m
<1>1. g \in Nat /\ g * m <= x /\ x < g * m + m
  BY DivFacts
<1> HIDE DEF g
<1>2. ~ (g < k)
  <2> SUFFICES ASSUME g < k PROVE FALSE
    OBVIOUS
  <2>1. PICK d \in Nat : k = g + 1 + d
    <3>1. k - g - 1 \in Nat /\ k = g + 1 + (k - g - 1)
      BY <1>1
    <3> QED
      BY <3>1
  <2>2. k * m = g * m + m + d * m /\ d * m \in Nat
    BY <1>1, <2>1
  <2> QED
    BY <1>1, <2>2
<1>3. ~ (k < g)
  <2> SUFFICES ASSUME k < g PROVE FALSE
    OBVIOUS
  <2>1. PICK d \in Nat : g = k + 1 + d
    <3>1. g - k - 1 \in Nat /\ g = k + 1 + (g - k - 1)
      BY <1>1
    <3> QED
      BY <3>1
  <2>2. g * m = k * m + m + d * m /\ d * m \in Nat
    BY <1>1, <2>1
  <2> QED
    BY <1>1, <2>2
<1> QED
  BY <1>1, <1>2, <1>3 DEF g

LEMMA OffFacts ==
    ASSUME NEW x \in Nat, NEW m \in Nat, m >= 1
    PROVE  /\ Off(x, m) \in Nat /\ Off(x, m) <= x /\ x < Off(x, m) + m
           /\ (x \div m) % 2 = 0 => /\ Off(x, 2 * m) = Off(x, m)
                                     /\ \E k \in Nat : Off(x, m) = k * (2 * m)
           /\ (x \div m) % 2 # 0 => /\ m <= Off(x, m)
                                     /\ Off(x, 2 * m) = Off(x, m) - m
                                     /\ \E k \in Nat : Off(x, m) - m = k * (2 * m)
<1> DEFINE g == x \div m
           h == g \div 2
<1>1. g \in Nat /\ g * m \in Nat /\ g * m <= x /\ x < g * m + m
  BY DivFacts
<1>2. h \in Nat /\ (g % 2 = 0 => g = 2 * h) /\ (g % 2 # 0 => g = 2 * h + 1)
  <2> HIDE DEF g
  <2> QED
    BY <1>1
<1>3. Off(x, m) = g * m
  BY DEF Off
<1> HIDE DEF g, h
<1>4. h * (2 * m) \in Nat /\ h * (2 * m) <= x /\ x < h * (2 * m) + 2 * m
  <2>1. CASE g % 2 = 0
    <3>1. h * (2 * m) = g * m
      BY <1>1, <1>2, <2>1
    <3> QED
      BY <1>1, <3>1
  <2>2. CASE g % 2 # 0
    <3>1. h * (2 * m) + m = g * m /\ h * (2 * m) \in Nat
      BY <1>1, <1>2, <2>2
    <3> QED
      BY <1>1, <3>1
  <2> QED
    BY <2>1, <2>2
<1>5. Off(x, 2 * m) = h * (2 * m)
  <2>1. 2 * m \in Nat /\ 2 * m >= 1
    OBVIOUS
  <2>2. x \div (2 * m) = h
    BY <1>2, <1>4, <2>1, DivUnique
  <2> QED
    BY <2>2 DEF Off
<1>6. g % 2 = 0 => g * m = h * (2 * m)
  BY <1>1, <1>2
<1>7. g % 2 # 0 => g * m = h * (2 * m) + m
  BY <1>1, <1>2
<1>8. Off(x, m) \in Nat /\ Off(x, m) <= x /\ x < Off(x, m) + m
  BY <1>1, <1>3
<1>9. g % 2 = 0 => /\ Off(x, 2 * m) = Off(x, m)
                  /\ \E k \in Nat : Off(x, m) = k * (2 * m)
  BY <1>2, <1>3, <1>5, <1>6
<1>10. g % 2 # 0 => /\ m <= Off(x, m)
                   /\ Off(x, 2 * m) = Off(x, m) - m
                   /\ \E k \in Nat : Off(x, m) - m = k * (2 * m)
  <2> SUFFICES ASSUME g % 2 # 0
               PROVE  /\ m <= Off(x, m) /\ Off(x, 2 * m) = Off(x, m) - m
                      /\ Off(x, m) - m = h * (2 * m)
    BY <1>2
  <2> QED
    BY <1>3, <1>4, <1>5, <1>7
<1> QED
  BY <1>8, <1>9, <1>10 DEF g

\* the first ranks of the two sides of a pair are their own offsets
LEMMA OffPair ==
    ASSUME NEW o \in Nat, NEW m \in Nat, m >= 1, NEW k \in Nat, o = k * (2 * m)
    PROVE  /\ Off(o, m) = o /\ (o \div m) % 2 = 0
           /\ Off(o + m, m) = o + m /\ ((o + m) \div m) % 2 # 0
<1>1. o = (2 * k) * m /\ 2 * k \in Nat
  OBVIOUS
<1>2. o + m = (2 * k + 1) * m /\ 2 * k + 1 \in Nat /\ o + m \in Nat
  BY <1>1
<1>3. o \div m = 2 * k
  BY <1>1, DivUnique
<1>4. (o + m) \div m = 2 * k + 1
  <2>1. (2 * k + 1) * m <= o + m /\ o + m < (2 * k + 1) * m + m
    BY <1>2
  <2> QED
    BY <1>2, <2>1, DivUnique
<1>5. (2 * k) % 2 = 0 /\ (2 * k + 1) % 2 # 0
  OBVIOUS
<1> QED
  BY <1>1, <1>2, <1>3, <1>4, <1>5 DEF Off

-----------------------------------------------------------------------------
(* Communicators                                                            *)

LEMMA JobFacts ==
    ASSUME jobs \in Workloads, NEW j \in JobIds
    PROVE  /\ First(j) \in Nat /\ Size(j) \in Nat /\ Size(j) >= 1
           /\ Block(j) \subseteq Ranks /\ Ranks \subseteq Nat /\ MaxJobs \in Nat
           /\ \A x : x \in Block(j) <=> x \in Nat /\ First(j) <= x /\ x < First(j) + Size(j)
BY WorkloadsAssumption DEF First, Size, Block

LEMMA RunFacts ==
    ASSUME NEW S, NEW a \in Nat, NEW n \in Nat, \A x \in Nat : a <= x /\ x < a + n => x \in S
    PROVE  /\ Run(a, n) \in Seq(S) /\ Len(Run(a, n)) = n
           /\ \A i \in 1 .. n : Run(a, n)[i] = a + i - 1
<1>1. Run(a, n) \in [1 .. n -> S]
  <2> SUFFICES ASSUME NEW i \in 1 .. n PROVE a + i - 1 \in S
    BY DEF Run
  <2> QED
    OBVIOUS
<1>2. Run(a, n) \in Seq(S)
  BY <1>1, SeqDef
<1>3. DOMAIN Run(a, n) = 1 .. n /\ DOMAIN Run(a, n) = 1 .. Len(Run(a, n))
  BY <1>2, LenProperties DEF Run
<1>4. Len(Run(a, n)) = n
  <2>1. Len(Run(a, n)) \in Nat
    BY <1>2, LenProperties
  <2> QED
    BY <1>3, <2>1
<1> QED
  BY <1>2, <1>4 DEF Run

LEMMA RunConcat ==
    ASSUME NEW a \in Nat, NEW n \in Nat, NEW k \in Nat
    PROVE  Run(a, n) \o Run(a + n, k) = Run(a, n + k)
<1>1. /\ Run(a, n) \in Seq(Nat) /\ Len(Run(a, n)) = n
      /\ \A i \in 1 .. n : Run(a, n)[i] = a + i - 1
  BY RunFacts
<1>2. /\ Run(a + n, k) \in Seq(Nat) /\ Len(Run(a + n, k)) = k
      /\ \A i \in 1 .. k : Run(a + n, k)[i] = a + n + i - 1
  <2>1. a + n \in Nat
    OBVIOUS
  <2> QED
    BY <2>1, RunFacts
<1>3. /\ Run(a, n + k) \in Seq(Nat) /\ Len(Run(a, n + k)) = n + k
      /\ \A i \in 1 .. n + k : Run(a, n + k)[i] = a + i - 1
  <2>1. n + k \in Nat
    OBVIOUS
  <2> QED
    BY <2>1, RunFacts
<1> DEFINE s == Run(a, n)
           t == Run(a + n, k)
<1> HIDE DEF s, t
<1>4. /\ s \o t \in Seq(Nat) /\ Len(s \o t) = n + k
      /\ \A i \in 1 .. n + k : (s \o t)[i] = IF i <= n THEN s[i] ELSE t[i - n]
  <2>1. s \in Seq(Nat) /\ Len(s) = n /\ t \in Seq(Nat) /\ Len(t) = k
    BY <1>1, <1>2 DEF s, t
  <2> QED
    BY <2>1, ConcatProperties
<1>5. \A i \in 1 .. n + k : (s \o t)[i] = a + i - 1
  BY <1>1, <1>2, <1>4 DEF s, t
<1>6. s \o t = Run(a, n + k)
  BY <1>3, <1>4, <1>5, SeqEqual
<1> QED
  BY <1>6 DEF s, t

LEMMA SideFacts ==
    ASSUME jobs \in Workloads, NEW j \in JobIds, NEW o \in Nat, NEW m \in Powers, o < Size(j)
    PROVE  /\ SideLen(j, o, m) \in Nat /\ SideLen(j, o, m) >= 1 /\ SideLen(j, o, m) <= m
           /\ o + SideLen(j, o, m) <= Size(j)
           /\ Side(j, o, m) \in Seq(Block(j)) /\ Side(j, o, m) \in Seq(Ranks)
           /\ Len(Side(j, o, m)) = SideLen(j, o, m)
           /\ \A i \in 1 .. SideLen(j, o, m) : Side(j, o, m)[i] = First(j) + o + i - 1
<1>1. m \in Nat /\ m >= 1
  BY PowersPositive
<1>2. /\ First(j) \in Nat /\ Size(j) \in Nat /\ Block(j) \subseteq Ranks
      /\ \A x : x \in Block(j) <=> x \in Nat /\ First(j) <= x /\ x < First(j) + Size(j)
  BY JobFacts
<1> DEFINE n == SideLen(j, o, m)
           a == First(j) + o
<1>3. n \in Nat /\ n >= 1 /\ n <= m /\ o + n <= Size(j)
  BY <1>1, <1>2 DEF SideLen
<1>4. a \in Nat /\ \A x \in Nat : a <= x /\ x < a + n => x \in Block(j)
  <2> HIDE DEF n
  <2> QED
    BY <1>2, <1>3
<1> HIDE DEF n, a
<1>5. /\ Run(a, n) \in Seq(Block(j)) /\ Len(Run(a, n)) = n
      /\ \A i \in 1 .. n : Run(a, n)[i] = a + i - 1
  BY <1>3, <1>4, RunFacts
<1>6. Run(a, n) \in Seq(Ranks)
  BY <1>2, <1>5, SeqMonotonic
<1> QED
  BY <1>3, <1>5, <1>6 DEF Side, n, a

LEMMA SideMerge ==
    ASSUME jobs \in Workloads, NEW j \in JobIds, NEW o, NEW m, Pair(j, o, m)
    PROVE  Side(j, o, m) \o Side(j, o + m, m) = Side(j, o, 2 * m)
<1>1. o \in Nat /\ m \in Nat /\ m >= 1 /\ o + m < Size(j) /\ First(j) \in Nat /\ Size(j) \in Nat
  BY PowersPositive, JobFacts DEF Pair
<1> DEFINE k == SideLen(j, o + m, m)
           a == First(j) + o
<1>2. SideLen(j, o, m) = m /\ k \in Nat /\ SideLen(j, o, 2 * m) = m + k
  BY <1>1 DEF SideLen
<1>3. Side(j, o, m) = Run(a, m) /\ Side(j, o + m, m) = Run(a + m, k)
  <2>1. First(j) + (o + m) = a + m
    BY <1>1
  <2> QED
    BY <1>2, <2>1 DEF Side
<1>4. Side(j, o, 2 * m) = Run(a, m + k)
  BY <1>2 DEF Side
<1>5. a \in Nat
  BY <1>1
<1> HIDE DEF a, k
<1>6. Run(a, m) \o Run(a + m, k) = Run(a, m + k)
  BY <1>1, <1>2, <1>5, RunConcat
<1> QED
  BY <1>3, <1>4, <1>6

LEMMA SideAlone ==
    ASSUME jobs \in Workloads, NEW j \in JobIds, NEW o \in Nat, NEW m \in Powers,
           Size(j) <= o + m
    PROVE  Side(j, o, m) = Side(j, o, 2 * m)
<1>1. m \in Nat /\ m >= 1 /\ Size(j) \in Nat
  BY PowersPositive, JobFacts
<1>2. SideLen(j, o, m) = SideLen(j, o, 2 * m)
  BY <1>1 DEF SideLen
<1> QED
  BY <1>2 DEF Side

LEMMA SideWhole ==
    ASSUME jobs \in Workloads, NEW j \in JobIds, NEW m \in Powers, Size(j) <= m
    PROVE  Side(j, 0, m) = Run(First(j), Size(j))
<1>1. m \in Nat /\ m >= 1 /\ Size(j) \in Nat /\ First(j) \in Nat
  BY PowersPositive, JobFacts
<1>2. SideLen(j, 0, m) = Size(j) /\ First(j) + 0 = First(j)
  BY <1>1 DEF SideLen
<1> QED
  BY <1>2 DEF Side

\* the lower and the upper side of a pair
Lower(j, o, m) == Pair(j, o, m)
Upper(j, o, m) == m <= o /\ Pair(j, o - m, m)

\* A side of a pair tells the round of the pair.
LEMMA SideTellsRound ==
    ASSUME jobs \in Workloads, NEW j \in JobIds,
           NEW o \in Nat, NEW m \in Powers, Lower(j, o, m) \/ Upper(j, o, m),
           NEW p \in Nat, NEW n \in Powers, Lower(j, p, n) \/ Upper(j, p, n),
           Side(j, o, m) = Side(j, p, n)
    PROVE  o = p /\ m = n
<1>1. /\ m \in Nat /\ m >= 1 /\ n \in Nat /\ n >= 1 /\ Size(j) \in Nat /\ First(j) \in Nat
  BY PowersPositive, JobFacts
<1>2. o < Size(j) /\ p < Size(j)
  BY <1>1 DEF Lower, Upper, Pair
<1>3. /\ SideLen(j, o, m) \in Nat /\ SideLen(j, o, m) >= 1
      /\ Len(Side(j, o, m)) = SideLen(j, o, m)
      /\ \A i \in 1 .. SideLen(j, o, m) : Side(j, o, m)[i] = First(j) + o + i - 1
  BY <1>2, SideFacts
<1>4. /\ SideLen(j, p, n) \in Nat /\ SideLen(j, p, n) >= 1
      /\ Len(Side(j, p, n)) = SideLen(j, p, n)
      /\ \A i \in 1 .. SideLen(j, p, n) : Side(j, p, n)[i] = First(j) + p + i - 1
  BY <1>2, SideFacts
<1>5. SideLen(j, o, m) = SideLen(j, p, n)
  BY <1>3, <1>4
<1>6. o = p
  <2>1. Side(j, o, m)[1] = First(j) + o + 1 - 1 /\ Side(j, p, n)[1] = First(j) + p + 1 - 1
    BY <1>3, <1>4
  <2> QED
    BY <1>1, <2>1
<1>7. ASSUME NEW a \in Powers, NEW b \in Powers, a < b, SideLen(j, o, a) = SideLen(j, o, b),
             Lower(j, o, a) \/ Upper(j, o, a), Lower(j, o, b) \/ Upper(j, o, b)
      PROVE  FALSE
  <2>1. a \in Nat /\ a >= 1 /\ b \in Nat
    BY PowersPositive
  <2>2. ~ (o + a < Size(j))
    BY <1>1, <1>7, <2>1 DEF SideLen
  <2>3. Upper(j, o, a) /\ Upper(j, o, b)
    BY <1>1, <1>7, <2>1, <2>2 DEF Lower, Pair
  <2>4. PICK k \in Nat : o - a = k * (2 * a)
    BY <2>3 DEF Upper, Pair
  <2>5. PICK l \in Nat : o - b = l * (2 * b)
    BY <2>3 DEF Upper, Pair
  <2>6. PICK d \in Nat : d >= 1 /\ b = d * (2 * a)
    BY <1>7, PowersDivide DEF Divides
  <2>7. o = (2 * k + 1) * a
    BY <2>1, <2>4
  <2>8. o = (2 * l + 1) * b
    BY <2>1, <2>5
  <2>9. o = (2 * ((2 * l + 1) * d)) * a
    BY <2>1, <2>6, <2>8
  <2> DEFINE e == (2 * l + 1) * d
  <2>10. e \in Nat
    OBVIOUS
  <2> HIDE DEF e
  <2>11. (2 * k + 1) * a = (2 * e) * a
    BY <2>7, <2>9 DEF e
  <2>12. 2 * k + 1 = 2 * e
    BY <2>1, <2>10, <2>11
  <2> QED
    BY <2>10, <2>12
<1>8. ~ (m < n)
  BY <1>5, <1>6, <1>7
<1>9. ~ (n < m)
  BY <1>5, <1>6, <1>7
<1> QED
  BY <1>1, <1>6, <1>8, <1>9

-----------------------------------------------------------------------------
(* The rounds of a rank                                                     *)

\* the rank r is in a round of the job j with merge size m, at offset o
LEMMA RoundFacts ==
    ASSUME Types, NEW r \in Ranks, Place(r), pc[r] # "listen",
           NEW j, j = job[r], NEW m, m = mergeSize[r], NEW o, o = Offset(r)
    PROVE  /\ j \in JobIds /\ m \in Powers /\ o \in Nat /\ o < Size(j)
           /\ GroupSize(r) = Size(j) /\ GroupRank(r) = r - First(j)
           /\ GroupRank(r) \in Nat /\ o <= GroupRank(r) /\ GroupRank(r) < o + m
           /\ GroupRank(r) < Size(j)
           /\ Even(r)  => /\ Off(GroupRank(r), 2 * m) = o
                          /\ Paired(r) <=> Pair(j, o, m)
                          /\ Paired(r) <=> o + m < Size(j)
                          /\ RemoteLeader(r) = First(j) + (o + m)
           /\ ~Even(r) => /\ m <= o /\ Off(GroupRank(r), 2 * m) = o - m
                          /\ Paired(r) /\ Pair(j, o - m, m)
                          /\ RemoteLeader(r) = First(j) + (o - m)
<1>1. j \in JobIds /\ r \in Block(j)
  BY DEF Types, Place, JobIds
<1>2. jobs \in Workloads /\ m \in Powers
  BY DEF Types
<1>3. /\ First(j) \in Nat /\ Size(j) \in Nat /\ Size(j) >= 1 /\ r \in Nat
      /\ First(j) <= r /\ r < First(j) + Size(j)
  BY <1>1, <1>2, JobFacts
<1> DEFINE x == r - First(j)
           g == x \div m
<1>4. GroupRank(r) = x /\ GroupSize(r) = Size(j) /\ GrpId(r) = g
  BY DEF GroupRank, GroupSize, First, Size, GrpId
<1>5. x \in Nat /\ x < Size(j)
  BY <1>3
<1>6. m \in Nat /\ m >= 1
  BY <1>2, PowersPositive
<1>7. o = Off(x, m) /\ o = g * m
  BY <1>4 DEF Offset, Off
<1>8. Even(r) <=> g % 2 = 0
  BY <1>4 DEF Even
<1> HIDE DEF x
<1>9. /\ o \in Nat /\ o <= x /\ x < o + m
      /\ g % 2 = 0 => Off(x, 2 * m) = o /\ \E k \in Nat : o = k * (2 * m)
      /\ g % 2 # 0 => m <= o /\ Off(x, 2 * m) = o - m /\ \E k \in Nat : o - m = k * (2 * m)
  <2>1. Off(x, m) = o
    BY <1>7
  <2>2. /\ Off(x, m) \in Nat /\ Off(x, m) <= x /\ x < Off(x, m) + m
        /\ g % 2 = 0 => /\ Off(x, 2 * m) = Off(x, m)
                        /\ \E k \in Nat : Off(x, m) = k * (2 * m)
        /\ g % 2 # 0 => /\ m <= Off(x, m)
                        /\ Off(x, 2 * m) = Off(x, m) - m
                        /\ \E k \in Nat : Off(x, m) - m = k * (2 * m)
    BY <1>5, <1>6, OffFacts
  <2> QED
    BY <2>1, <2>2
<1>10. g \in Nat
  BY <1>5, <1>6, DivFacts
<1> HIDE DEF g
<1>11. (g + 1) * m = o + m /\ (g - 1) * m = o - m
  BY <1>6, <1>7, <1>10
<1>12. o < Size(j)
  BY <1>3, <1>5, <1>9
<1>13. ASSUME Even(r)
       PROVE  /\ Off(x, 2 * m) = o
              /\ Paired(r) <=> o + m < Size(j)
              /\ Paired(r) <=> Pair(j, o, m)
              /\ RemoteLeader(r) = First(j) + (o + m)
  <2>1. g % 2 = 0
    BY <1>8, <1>13
  <2>2. Paired(r) <=> o + m < Size(j)
    BY <1>4, <1>11, <1>13 DEF Paired
  <2>3. Pair(j, o, m) <=> o + m < Size(j)
    BY <1>2, <1>9, <2>1 DEF Pair
  <2>4. RemoteLeader(r) = First(j) + (o + m)
    BY <1>4, <1>11, <1>13 DEF RemoteLeader, First
  <2> QED
    BY <1>9, <2>1, <2>2, <2>3, <2>4
<1>14. ASSUME ~Even(r)
       PROVE  /\ m <= o /\ Off(x, 2 * m) = o - m
              /\ Paired(r) /\ Pair(j, o - m, m)
              /\ RemoteLeader(r) = First(j) + (o - m)
  <2>1. g % 2 # 0
    BY <1>8, <1>14
  <2>2. m <= o /\ o - m \in Nat /\ Off(x, 2 * m) = o - m
    BY <1>6, <1>9, <2>1
  <2>3. (o - m) + m < Size(j)
    BY <1>6, <1>9, <1>12
  <2>4. Pair(j, o - m, m)
    BY <1>2, <1>9, <2>1, <2>2, <2>3 DEF Pair
  <2>5. RemoteLeader(r) = First(j) + (o - m)
    BY <1>4, <1>11, <1>14 DEF RemoteLeader, First
  <2> QED
    BY <1>14, <2>2, <2>4, <2>5 DEF Paired
<1>15. GroupRank(r) = r - First(j) /\ GroupRank(r) = x
  BY <1>4 DEF x
<1>16. /\ j \in JobIds /\ m \in Powers /\ o \in Nat /\ o < Size(j)
       /\ GroupSize(r) = Size(j) /\ GroupRank(r) = r - First(j)
       /\ GroupRank(r) \in Nat /\ o <= GroupRank(r) /\ GroupRank(r) < o + m
       /\ GroupRank(r) < Size(j)
  BY <1>1, <1>2, <1>4, <1>5, <1>9, <1>12, <1>15
<1> QED
  BY <1>13, <1>14, <1>15, <1>16

LEMMA LeaderAtOffset ==
    ASSUME Types, NEW r \in Ranks, Place(r), pc[r] # "listen"
    PROVE  Leader(r) <=> r = First(job[r]) + Offset(r)
<1> DEFINE j == job[r]
           m == mergeSize[r]
           o == Offset(r)
<1>1. j \in JobIds /\ m \in Powers /\ o \in Nat /\ o < Size(j) /\ jobs \in Workloads
  BY RoundFacts DEF Types
<1>2. comm[r] = Side(j, o, m)
  BY DEF Place
<1> HIDE DEF j, m, o
<1>3. comm[r][1] = First(j) + o + 1 - 1
  BY <1>1, <1>2, SideFacts
<1>4. First(j) \in Nat
  BY <1>1, JobFacts
<1>5. First(j) + o + 1 - 1 = First(j) + o
  BY <1>1, <1>4
<1> QED
  BY <1>3, <1>5 DEF Leader, j, o

LEMMA MeetsSymmetric ==
    ASSUME NEW j, NEW a \in Nat, NEW b \in Nat
    PROVE  (Meets(j, a, b) <=> Meets(j, b, a)) /\ Gap(a, b) = Gap(b, a)
BY DEF Meets, Gap

LEMMA MeetsFacts ==
    ASSUME jobs \in Workloads, NEW j \in JobIds, NEW a \in Ranks, NEW b \in Ranks, Meets(j, a, b)
    PROVE  /\ Gap(a, b) \in Powers /\ Gap(a, b) < Size(j)
           /\ a \in Block(j) /\ b \in Block(j)
<1>1. a \in Nat /\ b \in Nat /\ First(j) \in Nat /\ Size(j) \in Nat
  BY JobFacts
<1>2. \A x : x \in Block(j) <=> x \in Nat /\ First(j) <= x /\ x < First(j) + Size(j)
  BY JobFacts
<1> QED
  BY <1>1, <1>2 DEF Meets, Gap, Pair

\* a leader in a round with a partner meets the leader of the other side
LEMMA LeaderMeets ==
    ASSUME Types, NEW r \in Ranks, Place(r), pc[r] # "listen", Leader(r), Paired(r)
    PROVE  /\ RemoteLeader(r) \in Ranks
           /\ Meets(job[r], r, RemoteLeader(r)) /\ Meets(job[r], RemoteLeader(r), r)
           /\ Gap(r, RemoteLeader(r)) = mergeSize[r] /\ Gap(RemoteLeader(r), r) = mergeSize[r]
<1> DEFINE j == job[r]
           m == mergeSize[r]
           o == Offset(r)
           q == RemoteLeader(r)
<1>1. jobs \in Workloads /\ r = First(j) + o
  BY LeaderAtOffset DEF Types
<1>2. /\ j \in JobIds /\ m \in Powers /\ o \in Nat /\ o < Size(j)
      /\ Even(r) => Pair(j, o, m) /\ o + m < Size(j) /\ q = First(j) + (o + m)
      /\ ~Even(r) => m <= o /\ Pair(j, o - m, m) /\ q = First(j) + (o - m)
  BY RoundFacts
<1> HIDE DEF j, m, o, q
<1>3. m \in Nat /\ m >= 1
  BY <1>2, PowersPositive
<1>4. /\ First(j) \in Nat /\ Size(j) \in Nat /\ Block(j) \subseteq Ranks
      /\ \A x : x \in Block(j) <=> x \in Nat /\ First(j) <= x /\ x < First(j) + Size(j)
  BY <1>1, <1>2, JobFacts
<1>5. CASE Even(r)
  <2>1. r < q /\ q - r = m /\ r - First(j) = o /\ q \in Nat /\ r \in Nat
    BY <1>1, <1>2, <1>3, <1>4, <1>5
  <2>2. q \in Ranks
    BY <1>2, <1>3, <1>4, <1>5
  <2>3. Meets(j, r, q) /\ Gap(r, q) = m
    BY <1>2, <1>5, <2>1 DEF Meets, Gap
  <2> QED
    BY <2>1, <2>2, <2>3, MeetsSymmetric DEF j, m, q
<1>6. CASE ~Even(r)
  <2>1. q < r /\ r - q = m /\ q - First(j) = o - m /\ q \in Nat /\ r \in Nat
    BY <1>1, <1>2, <1>3, <1>4, <1>6
  <2>2. q \in Ranks
    BY <1>2, <1>3, <1>4, <1>6
  <2>3. Meets(j, r, q) /\ Gap(r, q) = m
    BY <1>2, <1>6, <2>1 DEF Meets, Gap
  <2> QED
    BY <2>1, <2>2, <2>3, MeetsSymmetric DEF j, m, q
<1> QED
  BY <1>5, <1>6

\* ... and whoever is to meet somebody in its round is a leader, and meets that one
LEMMA OnlyLeadersMeet ==
    ASSUME Types, NEW r \in Ranks, Place(r), pc[r] # "listen",
           NEW b \in Ranks, Meets(job[r], r, b), Gap(r, b) = mergeSize[r]
    PROVE  Leader(r) /\ Paired(r) /\ b = RemoteLeader(r)
<1> DEFINE j == job[r]
           m == mergeSize[r]
           o == Offset(r)
           x == GroupRank(r)
<1>1. jobs \in Workloads /\ (Leader(r) <=> r = First(j) + o) /\ o = Off(x, m)
  BY LeaderAtOffset DEF Types, Offset
<1>2. /\ j \in JobIds /\ m \in Powers /\ o \in Nat /\ x = r - First(j) /\ x \in Nat
      /\ Even(r) => (Paired(r) <=> Pair(j, o, m)) /\ RemoteLeader(r) = First(j) + (o + m)
      /\ ~Even(r) => Paired(r) /\ RemoteLeader(r) = First(j) + (o - m)
  BY RoundFacts
<1>3. Even(r) <=> (x \div m) % 2 = 0
  BY DEF Even, GrpId
<1>4. Meets(j, r, b) /\ Gap(r, b) = m
  OBVIOUS
<1> HIDE DEF j, m, o, x
<1>5. m \in Nat /\ m >= 1 /\ r \in Nat /\ b \in Nat /\ First(j) \in Nat
  BY <1>1, <1>2, PowersPositive, JobFacts
<1>6. CASE r < b
  <2>1. b - r = m /\ Pair(j, x, m)
    BY <1>2, <1>4, <1>5, <1>6 DEF Meets, Gap
  <2>2. PICK k \in Nat : x = k * (2 * m)
    BY <2>1 DEF Pair
  <2>3. o = x /\ Even(r)
    <3>1. Off(x, m) = x /\ (x \div m) % 2 = 0
      BY <1>2, <1>5, <2>2, OffPair
    <3> QED
      BY <1>1, <1>3, <3>1
  <2>4. r = First(j) + x /\ b = First(j) + (x + m)
    BY <1>2, <1>5, <2>1
  <2> QED
    BY <1>1, <1>2, <2>1, <2>3, <2>4
<1>7. CASE b < r
  <2> DEFINE p == b - First(j)
  <2>1. r - b = m /\ Pair(j, p, m)
    BY <1>2, <1>4, <1>5, <1>7 DEF Meets, Gap
  <2>2. p \in Nat /\ x = p + m
    BY <1>2, <1>5, <2>1 DEF Pair
  <2> HIDE DEF p
  <2>3. PICK k \in Nat : p = k * (2 * m)
    BY <2>1 DEF Pair
  <2>4. Off(p + m, m) = p + m /\ ((p + m) \div m) % 2 # 0
    BY <1>5, <2>2, <2>3, OffPair
  <2>5. o = x /\ ~Even(r)
    BY <1>1, <1>3, <2>2, <2>4
  <2> QED
    BY <1>1, <1>2, <1>5, <2>2, <2>5 DEF p
<1> QED
  BY <1>4, <1>5, <1>6, <1>7 DEF Meets

-----------------------------------------------------------------------------
(* What steps leave alone                                                   *)

LEMMA JobsFixed ==
    ASSUME jobs' = jobs
    PROVE  /\ \A j : First(j)' = First(j) /\ Size(j)' = Size(j) /\ Block(j)' = Block(j)
           /\ \A j, o, m : Side(j, o, m)' = Side(j, o, m) /\ (Pair(j, o, m)' <=> Pair(j, o, m))
           /\ \A j, a, b : Meets(j, a, b)' <=> Meets(j, a, b)
<1>1. \A j : First(j)' = First(j) /\ Size(j)' = Size(j) /\ Block(j)' = Block(j)
  BY DEF First, Size, Block
<1>2. \A j, o, m : Side(j, o, m)' = Side(j, o, m)
  BY <1>1 DEF Side, SideLen
<1>3. \A j, o, m : Pair(j, o, m)' <=> Pair(j, o, m)
  BY <1>1 DEF Pair
<1>4. \A j, a, b : Meets(j, a, b)' <=> Meets(j, a, b)
  BY <1>1, <1>3 DEF Meets
<1> QED
  BY <1>1, <1>2, <1>3, <1>4

LEMMA PlaceKept ==
    ASSUME NEW q \in Ranks, Place(q), jobs' = jobs, pc'[q] = pc[q], job'[q] = job[q],
           mergeSize'[q] = mergeSize[q], comm'[q] = comm[q]
    PROVE  Place(q)'
<1>1. /\ Block(job[q])' = Block(job[q]) /\ Size(job[q])' = Size(job[q])
      /\ \A j, o, m : Side(j, o, m)' = Side(j, o, m)
  BY JobsFixed
<1>2. Block(job[q])' = Block(job'[q]) /\ Size(job[q])' = Size(job'[q])
  BY DEF Block, Size
<1>3. GroupRank(q)' = GroupRank(q) /\ GroupSize(q)' = GroupSize(q)
  BY DEF GroupRank, GroupSize
<1>4. GrpId(q)' = GrpId(q) /\ Offset(q)' = Offset(q)
  BY <1>3 DEF GrpId, Offset, Off
<1>5. (More(q)' <=> More(q)) /\ (Paired(q)' <=> Paired(q))
  BY <1>3, <1>4 DEF More, Paired, Even
<1>6. Side(job[q], Offset(q), mergeSize[q])' = Side(job[q], Offset(q), mergeSize[q])
  BY <1>1, <1>4 DEF Side, SideLen, Run, First, Size
<1> QED
  BY <1>1, <1>5, <1>6 DEF Place, Block, Size

\* a rank's place in round m of the job j, from the values it has there
LEMMA PlaceFromValues ==
    ASSUME jobs' = jobs, jobs \in Workloads, NEW q \in Ranks, NEW j \in JobIds, NEW m \in Powers,
           job'[q] = j, mergeSize'[q] = m, pc'[q] = "loop", q \in Block(j),
           m < 2 * Size(j), comm'[q] = Side(j, Off(q - First(j), m), m)
    PROVE  Place(q)'
<1>1. GroupRank(q)' = q - First(j)
  BY DEF GroupRank, First
<1>2. Offset(q)' = Off(q - First(j), m)
  BY <1>1 DEF Offset, Off
<1>3. Side(job[q], Offset(q), mergeSize[q])' = Side(j, Off(q - First(j), m), m)
  BY <1>2 DEF Side, SideLen, Run, First, Size
<1>4. Block(job[q])' = Block(j) /\ Size(job[q])' = Size(j)
  BY DEF Block, Size
<1>5. j # 0
  BY DEF JobIds
<1> QED
  BY <1>3, <1>4, <1>5 DEF Place

LEMMA BeginPlace ==
    ASSUME Types, NEW r \in Ranks, Place(r), Begin(r)
    PROVE  Place(r)'
<1>1. PICK j \in Ahead(r) : job' = [job EXCEPT ![r] = j]
  BY DEF Begin
<1>2. /\ jobs \in Workloads /\ jobs' = jobs /\ j \in JobIds /\ r \in Block(j)
      /\ job'[r] = j /\ mergeSize'[r] = 1 /\ pc'[r] = "loop" /\ comm'[r] = <<r>>
  BY <1>1 DEF Begin, Ahead, Types, Block
<1>3. /\ First(j) \in Nat /\ Size(j) \in Nat /\ Size(j) >= 1 /\ r \in Nat
      /\ First(j) <= r /\ r < First(j) + Size(j)
  BY <1>2, JobFacts
<1> DEFINE x == r - First(j)
<1>4. x \in Nat /\ x < Size(j) /\ First(j) + x = r
  BY <1>3
<1> HIDE DEF x
<1>5. Off(x, 1) = x
  <2>1. x = x * 1 /\ x < x * 1 + 1 /\ 1 \in Nat
    BY <1>4
  <2>2. x \div 1 = x
    BY <1>4, <2>1, DivUnique
  <2> QED
    BY <2>1, <2>2 DEF Off
<1>6. Side(j, x, 1) = <<r>>
  <2>1. SideLen(j, x, 1) = 1
    BY <1>3, <1>4 DEF SideLen
  <2>2. /\ Side(j, x, 1) \in Seq(Ranks) /\ Len(Side(j, x, 1)) = 1
        /\ Side(j, x, 1)[1] = First(j) + x + 1 - 1
    <3>1. 1 \in Powers
      BY PowersClosed
    <3>2. /\ Side(j, x, 1) \in Seq(Ranks) /\ Len(Side(j, x, 1)) = SideLen(j, x, 1)
          /\ \A i \in 1 .. SideLen(j, x, 1) : Side(j, x, 1)[i] = First(j) + x + i - 1
      BY <1>2, <1>4, <3>1, SideFacts
    <3>3. 1 \in 1 .. SideLen(j, x, 1)
      BY <2>1
    <3> QED
      BY <2>1, <3>2, <3>3
  <2>3. Side(j, x, 1)[1] = r
    BY <1>3, <1>4, <2>2
  <2>4. <<r>> \in Seq(Ranks) /\ Len(<<r>>) = 1 /\ <<r>>[1] = r
    OBVIOUS
  <2>5. \A i \in 1 .. 1 : Side(j, x, 1)[i] = <<r>>[i]
    BY <2>3, <2>4
  <2> QED
    BY <2>2, <2>4, <2>5, SeqEqual
<1>7. 1 < 2 * Size(j) /\ 1 \in Powers
  BY <1>3, PowersClosed
<1> QED
  BY <1>2, <1>5, <1>6, <1>7, PlaceFromValues DEF x

LEMMA SkipPlace ==
    ASSUME Types, NEW r \in Ranks, Place(r), Skip(r)
    PROVE  Place(r)'
<1> DEFINE j == job[r]
           m == mergeSize[r]
           o == Offset(r)
<1>1. /\ jobs \in Workloads /\ jobs' = jobs /\ job'[r] = j /\ mergeSize'[r] = m * 2
      /\ pc[r] = "loop" /\ pc'[r] = "loop" /\ comm'[r] = comm[r] /\ r \in Block(j)
      /\ comm[r] = Side(j, o, m)
  BY DEF Skip, Types, Place
<1>2. /\ j \in JobIds /\ m \in Powers /\ o \in Nat
      /\ GroupSize(r) = Size(j) /\ GroupRank(r) = r - First(j)
      /\ Even(r) => /\ Off(GroupRank(r), 2 * m) = o
                    /\ Paired(r) <=> o + m < Size(j)
      /\ ~Even(r) => Paired(r)
  BY <1>1, RoundFacts
<1>3. m < Size(j) /\ ~Paired(r)
  BY <1>2 DEF Skip, More
<1> HIDE DEF j, m, o
<1>4. m \in Nat /\ 2 * m \in Powers /\ m * 2 = 2 * m /\ Size(j) \in Nat
  BY <1>1, <1>2, PowersPositive, PowersClosed, JobFacts
<1>5. Size(j) <= o + m
  BY <1>2, <1>3, <1>4
<1>6. comm'[r] = Side(j, o, 2 * m)
  BY <1>1, <1>2, <1>5, SideAlone
<1>7. Off(r - First(j), 2 * m) = o
  BY <1>2, <1>3
<1>8. 2 * m < 2 * Size(j)
  BY <1>3, <1>4
<1> QED
  BY <1>1, <1>2, <1>4, <1>6, <1>7, <1>8, PlaceFromValues

LEMMA MeetPlace ==
    ASSUME Types, NEW r \in Ranks, Place(r), Meet(r)
    PROVE  Place(r)'
<1>1. /\ jobs' = jobs /\ job'[r] = job[r] /\ mergeSize'[r] = mergeSize[r]
      /\ pc[r] = "loop" /\ pc'[r] = "create" /\ comm'[r] = comm[r] /\ More(r) /\ Paired(r)
  BY DEF Meet, Types
<1>2. GroupRank(r)' = GroupRank(r) /\ GroupSize(r)' = GroupSize(r)
  BY <1>1 DEF GroupRank, GroupSize
<1>3. GrpId(r)' = GrpId(r) /\ Offset(r)' = Offset(r)
  BY <1>1, <1>2 DEF GrpId, Offset, Off
<1>4. More(r)' /\ Paired(r)'
  BY <1>1, <1>2, <1>3 DEF More, Paired, Even
<1>5. Side(job[r], Offset(r), mergeSize[r])' = Side(job[r], Offset(r), mergeSize[r])
  BY <1>1, <1>3 DEF Side, SideLen, Run, First, Size
<1> QED
  BY <1>1, <1>4, <1>5 DEF Place, Block, Size

\* the communicator of the side that r's is merged with
RemoteSide(r) ==
    IF Even(r) THEN Side(job[r], Offset(r) + mergeSize[r], mergeSize[r])
               ELSE Side(job[r], Offset(r) - mergeSize[r], mergeSize[r])

LEMMA MergePlace ==
    ASSUME Types, NEW r \in Ranks, Place(r), pc[r] = "create", jobs' = jobs, job' = job,
           MergeWith(r, RemoteSide(r))
    PROVE  Place(r)'
<1> DEFINE j == job[r]
           m == mergeSize[r]
           o == Offset(r)
<1>1. /\ jobs \in Workloads /\ job'[r] = j /\ mergeSize'[r] = m * 2
      /\ pc'[r] = "loop" /\ comm'[r] = Merged(r, RemoteSide(r)) /\ r \in Block(j)
      /\ comm[r] = Side(j, o, m) /\ Paired(r) /\ More(r)
  BY DEF MergeWith, Types, Place
<1>2. /\ j \in JobIds /\ m \in Powers /\ o \in Nat
      /\ GroupSize(r) = Size(j) /\ GroupRank(r) = r - First(j)
      /\ Even(r) => Off(GroupRank(r), 2 * m) = o /\ Pair(j, o, m)
      /\ ~Even(r) => m <= o /\ Off(GroupRank(r), 2 * m) = o - m /\ Pair(j, o - m, m)
  BY <1>1, RoundFacts
<1>3. m < Size(j)
  BY <1>1, <1>2 DEF More
<1>4. /\ Even(r) => comm'[r] = Side(j, o, m) \o Side(j, o + m, m)
      /\ ~Even(r) => comm'[r] = Side(j, o - m, m) \o Side(j, o, m)
  BY <1>1 DEF Merged, RemoteSide
<1> HIDE DEF j, m, o
<1>5. m \in Nat /\ 2 * m \in Powers /\ m * 2 = 2 * m /\ Size(j) \in Nat
  BY <1>1, <1>2, PowersPositive, PowersClosed, JobFacts
<1>6. comm'[r] = Side(j, Off(r - First(j), 2 * m), 2 * m)
  <2>1. CASE Even(r)
    <3>1. Side(j, o, m) \o Side(j, o + m, m) = Side(j, o, 2 * m)
      BY <1>1, <1>2, <2>1, SideMerge
    <3> QED
      BY <1>2, <1>4, <2>1, <3>1
  <2>2. CASE ~Even(r)
    <3>1. Side(j, o - m, m) \o Side(j, (o - m) + m, m) = Side(j, o - m, 2 * m)
      BY <1>1, <1>2, <2>2, SideMerge
    <3>2. (o - m) + m = o
      BY <1>2, <1>5
    <3> QED
      BY <1>2, <1>4, <2>2, <3>1, <3>2
  <2> QED
    BY <2>1, <2>2
<1>7. 2 * m < 2 * Size(j)
  BY <1>3, <1>5
<1> QED
  BY <1>1, <1>2, <1>5, <1>6, <1>7, PlaceFromValues

LEMMA ReturnPlace ==
    ASSUME Types, NEW r \in Ranks, Place(r), Return(r)
    PROVE  Place(r)' /\ comm[r] = Run(First(job[r]), Size(job[r]))
<1> DEFINE j == job[r]
           m == mergeSize[r]
           o == Offset(r)
           x == GroupRank(r)
<1>1. /\ jobs \in Workloads /\ jobs' = jobs /\ job'[r] = j /\ mergeSize'[r] = m
      /\ pc[r] = "loop" /\ pc'[r] = "listen" /\ r \in Block(j) /\ j # 0
      /\ comm[r] = Side(j, o, m) /\ o = Off(x, m)
  BY DEF Return, Types, Place, Offset
<1>2. /\ j \in JobIds /\ m \in Powers /\ GroupSize(r) = Size(j) /\ x \in Nat /\ x < Size(j)
  BY <1>1, RoundFacts
<1>3. ~ (m < Size(j))
  BY <1>2 DEF Return, More
<1> HIDE DEF j, m, o, x
<1>4. m \in Nat /\ m >= 1 /\ Size(j) \in Nat /\ Size(j) <= m
  BY <1>1, <1>2, <1>3, PowersPositive, JobFacts
<1>5. o = 0
  <2>1. x \div m = 0
    BY <1>2, <1>4, DivUnique
  <2> QED
    BY <1>1, <1>4, <2>1 DEF Off
<1>6. comm[r] = Run(First(j), Size(j))
  BY <1>1, <1>2, <1>4, <1>5, SideWhole
<1>7. Block(job[r])' = Block(j) /\ Size(job[r])' = Size(j)
  BY <1>1 DEF Block, Size
<1>8. Place(r)'
  BY <1>1, <1>4, <1>7 DEF Place
<1> QED
  BY <1>6, <1>8 DEF j

-----------------------------------------------------------------------------
(* Mailboxes that a step leaves alone                                       *)

LEMMA MailboxKept ==
    ASSUME Types, NEW a \in Ranks, NEW b \in Ranks, jobs' = jobs, mail'[a][b] = mail[a][b],
           \A j \in JobIds : Meets(j, a, b) => /\ Sent(a, b, j)' <=> Sent(a, b, j)
                                               /\ Heard(a, b, j)' <=> Heard(a, b, j),
           Mailbox(a, b)
    PROVE  Mailbox(a, b)'
<1>1. \A j, x, y : Meets(j, x, y)' <=> Meets(j, x, y)
  BY JobsFixed
<1>2. \A j, o, m : Side(j, o, m)' = Side(j, o, m)
  BY JobsFixed
<1>3. \A j : First(j)' = First(j)
  BY JobsFixed
<1>4. \A k \in 1 .. Len(mail[a][b]) : mail[a][b][k].job \in JobIds
  <2>1. mail[a][b] \in Seq(Message)
    BY DEF Types
  <2> SUFFICES ASSUME NEW k \in 1 .. Len(mail[a][b]) PROVE mail[a][b][k].job \in JobIds
    OBVIOUS
  <2>2. mail[a][b][k] \in Message
    BY <2>1, ElementOfSeq
  <2> QED
    BY <2>2 DEF Message
<1>5. ASSUME NEW k \in 1 .. Len(mail[a][b])
      PROVE  LET m == mail[a][b][k] IN
             /\ Meets(m.job, a, b)' /\ m.round = Gap(a, b)
             /\ m.comm = Side(m.job, a - First(m.job), Gap(a, b))'
             /\ Sent(a, b, m.job)' /\ ~Heard(a, b, m.job)'
  <2> DEFINE m == mail[a][b][k]
  <2>1. /\ Meets(m.job, a, b) /\ m.round = Gap(a, b)
        /\ m.comm = Side(m.job, a - First(m.job), Gap(a, b))
        /\ Sent(a, b, m.job) /\ ~Heard(a, b, m.job) /\ m.job \in JobIds
    BY <1>4 DEF Mailbox
  <2> QED
    BY <1>1, <1>2, <1>3, <2>1
<1>6. \A j \in JobIds : Meets(j, a, b)' /\ Sent(a, b, j)' /\ ~Heard(a, b, j)' =>
          \E k \in 1 .. Len(mail[a][b]) : mail[a][b][k].job = j
  BY <1>1 DEF Mailbox
<1>7. \A j \in JobIds : Meets(j, a, b)' /\ Heard(a, b, j)' => Sent(a, b, j)'
  BY <1>1 DEF Mailbox
<1>8. \A k, l \in 1 .. Len(mail[a][b]) : k < l => mail[a][b][k].job < mail[a][b][l].job
  BY DEF Mailbox
<1> QED
  BY <1>5, <1>6, <1>7, <1>8 DEF Mailbox

LEMMA StepOfOne ==
    ASSUME Types, Mailboxes, NEW r \in Ranks, jobs' = jobs, mail' = mail,
           \A q \in Ranks \ {r} : /\ job'[q] = job[q] /\ mergeSize'[q] = mergeSize[q]
                                  /\ pc'[q] = pc[q],
           \A b \in Ranks, j \in JobIds : Meets(j, r, b) =>
              (Sent(r, b, j)' <=> Sent(r, b, j)) /\ (Heard(b, r, j)' <=> Heard(b, r, j))
    PROVE  Mailboxes'
<1> SUFFICES ASSUME NEW a \in Ranks, NEW b \in Ranks PROVE Mailbox(a, b)'
  BY DEF Mailboxes
<1>1. Mailbox(a, b) /\ a \in Nat /\ b \in Nat
  BY WorkloadsAssumption DEF Mailboxes
<1>2. ASSUME NEW j \in JobIds, Meets(j, a, b)
      PROVE  Sent(a, b, j)' <=> Sent(a, b, j)
  <2>1. CASE a = r
    BY <1>2, <2>1
  <2>2. CASE a # r
    BY <2>2 DEF Sent, Passed
  <2> QED
    BY <2>1, <2>2
<1>3. ASSUME NEW j \in JobIds, Meets(j, a, b)
      PROVE  Heard(a, b, j)' <=> Heard(a, b, j)
  <2>1. CASE b = r
    <3>1. Meets(j, r, a)
      BY <1>1, <1>3, <2>1, MeetsSymmetric
    <3> QED
      BY <2>1, <3>1
  <2>2. CASE b # r
    BY <2>2 DEF Heard, Passed
  <2> QED
    BY <2>1, <2>2
<1> QED
  BY <1>1, <1>2, <1>3, MailboxKept

LEMMA BeginPassed ==
    ASSUME Types, NEW r \in Ranks, Place(r), Begin(r),
           NEW k \in JobIds, r \in Block(k), NEW g \in Nat, g >= 1, g < Size(k)
    PROVE  Passed(r, g, k)' <=> Passed(r, g, k)
<1>1. PICK j \in Ahead(r) : job' = [job EXCEPT ![r] = j] /\ \A l \in Ahead(r) : j <= l
  BY DEF Begin
<1>2. /\ job[r] \in 0 .. MaxJobs /\ j \in JobIds /\ job[r] < j /\ job'[r] = j
      /\ mergeSize[r] \in Nat /\ mergeSize'[r] = 1 /\ jobs \in Workloads /\ pc[r] = "listen"
  BY <1>1, PowersPositive DEF Begin, Ahead, Types
<1>3. Size(k) \in Nat /\ MaxJobs \in Nat /\ k \in Nat /\ k >= 1
  BY <1>2, JobFacts DEF JobIds
<1>4. CASE k < job[r]
  BY <1>2, <1>3, <1>4 DEF Passed, JobIds
<1>5. CASE k = job[r]
  <2>1. g < mergeSize[r]
    BY <1>2, <1>3, <1>5 DEF Place
  <2> QED
    BY <1>2, <1>3, <1>5, <2>1 DEF Passed, JobIds
<1>6. CASE k > job[r]
  <2>1. k \in Ahead(r)
    BY <1>6 DEF Ahead, Block
  <2>2. j <= k
    BY <1>1, <2>1
  <2> QED
    BY <1>2, <1>3, <1>6, <2>2 DEF Passed, JobIds
<1> QED
  BY <1>2, <1>3, <1>4, <1>5, <1>6

LEMMA BeginMailboxes ==
    ASSUME Types, Mailboxes, NEW r \in Ranks, Place(r), Begin(r)
    PROVE  Mailboxes'
<1>1. /\ jobs \in Workloads /\ jobs' = jobs /\ mail' = mail /\ pc[r] = "listen" /\ pc'[r] = "loop"
      /\ \A q \in Ranks \ {r} : /\ job'[q] = job[q] /\ mergeSize'[q] = mergeSize[q]
                                /\ pc'[q] = pc[q]
  BY DEF Begin, Types
<1>2. ASSUME NEW b \in Ranks, NEW j \in JobIds, Meets(j, r, b)
      PROVE  (Sent(r, b, j)' <=> Sent(r, b, j)) /\ (Heard(b, r, j)' <=> Heard(b, r, j))
  <2>1. Gap(r, b) \in Powers /\ Gap(r, b) < Size(j) /\ r \in Block(j)
    BY <1>1, <1>2, MeetsFacts
  <2>2. Gap(r, b) \in Nat /\ Gap(r, b) >= 1 /\ Gap(b, r) = Gap(r, b)
    BY <2>1, PowersPositive, MeetsSymmetric, WorkloadsAssumption
  <2>3. Passed(r, Gap(r, b), j)' <=> Passed(r, Gap(r, b), j)
    BY <2>1, <2>2, BeginPassed
  <2> QED
    BY <1>1, <2>2, <2>3 DEF Sent, Heard
<1> QED
  BY <1>1, <1>2, StepOfOne

LEMMA DoublePassed ==
    ASSUME Types, NEW r \in Ranks, job'[r] = job[r], mergeSize'[r] = mergeSize[r] * 2,
           NEW k \in JobIds, NEW g \in Powers
    PROVE  Passed(r, g, k)' <=> Passed(r, g, k) \/ (job[r] = k /\ g = mergeSize[r])
<1>1. mergeSize[r] \in Powers /\ mergeSize[r] \in Nat /\ g \in Nat /\ mergeSize[r] >= 1 /\ g >= 1
  BY PowersPositive DEF Types
<1>2. mergeSize[r] < g => 2 * mergeSize[r] <= g
  BY <1>1, PowersApart
<1>3. g < mergeSize[r] * 2 <=> g < mergeSize[r] \/ g = mergeSize[r]
  BY <1>1, <1>2
<1> QED
  BY <1>3 DEF Passed

LEMMA SkipMailboxes ==
    ASSUME Types, Mailboxes, NEW r \in Ranks, Place(r), Skip(r)
    PROVE  Mailboxes'
<1>1. /\ jobs \in Workloads /\ jobs' = jobs /\ mail' = mail /\ job' = job
      /\ pc[r] = "loop" /\ pc' = pc /\ mergeSize'[r] = mergeSize[r] * 2 /\ ~Paired(r)
      /\ \A q \in Ranks \ {r} : mergeSize'[q] = mergeSize[q]
  BY DEF Skip, Types
<1>2. ASSUME NEW b \in Ranks, NEW j \in JobIds, Meets(j, r, b)
      PROVE  (Sent(r, b, j)' <=> Sent(r, b, j)) /\ (Heard(b, r, j)' <=> Heard(b, r, j))
  <2>1. Gap(r, b) \in Powers /\ Gap(b, r) = Gap(r, b)
    BY <1>1, <1>2, MeetsFacts, MeetsSymmetric, WorkloadsAssumption
  <2>2. ~ (job[r] = j /\ Gap(r, b) = mergeSize[r])
    BY <1>1, <1>2, OnlyLeadersMeet
  <2>3. Passed(r, Gap(r, b), j)' <=> Passed(r, Gap(r, b), j)
    BY <1>1, <2>1, <2>2, DoublePassed
  <2> QED
    BY <1>1, <2>1, <2>3 DEF Sent, Heard
<1> QED
  BY <1>1, <1>2, StepOfOne

LEMMA FollowMailboxes ==
    ASSUME Types, Mailboxes, NEW r \in Ranks, Place(r), Follow(r)
    PROVE  Mailboxes'
<1>1. /\ jobs \in Workloads /\ jobs' = jobs /\ mail' = mail /\ job' = job /\ ~Leader(r)
      /\ pc[r] = "create" /\ pc'[r] = "loop" /\ mergeSize'[r] = mergeSize[r] * 2
      /\ \A q \in Ranks \ {r} : mergeSize'[q] = mergeSize[q] /\ pc'[q] = pc[q]
  BY DEF Follow, MergeWith, Types
<1>2. ASSUME NEW b \in Ranks, NEW j \in JobIds, Meets(j, r, b)
      PROVE  (Sent(r, b, j)' <=> Sent(r, b, j)) /\ (Heard(b, r, j)' <=> Heard(b, r, j))
  <2>1. Gap(r, b) \in Powers /\ Gap(b, r) = Gap(r, b)
    BY <1>1, <1>2, MeetsFacts, MeetsSymmetric, WorkloadsAssumption
  <2>2. ~ (job[r] = j /\ Gap(r, b) = mergeSize[r])
    BY <1>1, <1>2, OnlyLeadersMeet
  <2>3. Passed(r, Gap(r, b), j)' <=> Passed(r, Gap(r, b), j)
    BY <1>1, <2>1, <2>2, DoublePassed
  <2> QED
    BY <1>1, <2>1, <2>2, <2>3 DEF Sent, Heard
<1> QED
  BY <1>1, <1>2, StepOfOne

LEMMA ReturnMailboxes ==
    ASSUME Types, Mailboxes, NEW r \in Ranks, Place(r), Return(r)
    PROVE  Mailboxes'
<1>1. /\ jobs' = jobs /\ mail' = mail /\ job' = job /\ mergeSize' = mergeSize
      /\ pc[r] = "loop" /\ pc'[r] = "listen"
      /\ \A q \in Ranks \ {r} : pc'[q] = pc[q]
  BY DEF Return, Types
<1>2. ASSUME NEW b \in Ranks, NEW j \in JobIds, Meets(j, r, b)
      PROVE  (Sent(r, b, j)' <=> Sent(r, b, j)) /\ (Heard(b, r, j)' <=> Heard(b, r, j))
  BY <1>1 DEF Sent, Heard, Passed
<1> QED
  BY <1>1, <1>2, StepOfOne

-----------------------------------------------------------------------------
(* Messages                                                                 *)

LEMMA MailFacts ==
    ASSUME Types, NEW a \in Ranks, NEW b \in Ranks
    PROVE  /\ mail[a][b] \in Seq(Message) /\ Len(mail[a][b]) \in Nat
           /\ \A k \in 1 .. Len(mail[a][b]) : /\ mail[a][b][k] \in Message
                                              /\ mail[a][b][k].job \in JobIds
                                              /\ mail[a][b][k].job \in Nat
                                              /\ mail[a][b][k].comm \in Seq(Ranks)
<1>1. mail[a][b] \in Seq(Message)
  BY DEF Types
<1>2. ASSUME NEW k \in 1 .. Len(mail[a][b])
      PROVE  /\ mail[a][b][k] \in Message /\ mail[a][b][k].job \in JobIds
             /\ mail[a][b][k].job \in Nat /\ mail[a][b][k].comm \in Seq(Ranks)
  <2>1. mail[a][b][k] \in Message
    BY <1>1, ElementOfSeq
  <2> QED
    BY <2>1 DEF Message, JobIds
<1> QED
  BY <1>1, <1>2, LenProperties

LEMMA HeadMatches ==
    ASSUME Types, Mailboxes, NEW r \in Ranks, Place(r), pc[r] = "create", Leader(r),
           NEW q, q = RemoteLeader(r), mail[q][r] # <<>>
    PROVE  /\ q \in Ranks /\ Head(mail[q][r]) = mail[q][r][1] /\ Len(mail[q][r]) >= 1
           /\ Head(mail[q][r]).job = job[r] /\ Head(mail[q][r]).round = mergeSize[r]
           /\ Head(mail[q][r]).comm = RemoteSide(r)
<1> DEFINE j == job[r]
           m == mergeSize[r]
           o == Offset(r)
           s == mail[q][r]
<1>1. /\ jobs \in Workloads /\ Paired(r) /\ m \in Powers
  BY DEF Types, Place
<1>2. q \in Ranks /\ Meets(j, q, r) /\ Gap(q, r) = m
  BY <1>1, LeaderMeets
<1>3. /\ j \in JobIds /\ o \in Nat
      /\ Even(r) => q = First(j) + (o + m)
      /\ ~Even(r) => m <= o /\ q = First(j) + (o - m)
  BY RoundFacts
<1>4. /\ s \in Seq(Message) /\ Len(s) \in Nat
      /\ \A k \in 1 .. Len(s) : s[k].job \in JobIds /\ s[k].job \in Nat
  BY <1>2, MailFacts
<1>5. s # <<>>
  OBVIOUS
<1>6. /\ \A k \in 1 .. Len(s) : /\ s[k].round = Gap(q, r)
                                /\ s[k].comm = Side(s[k].job, q - First(s[k].job), Gap(q, r))
                                /\ Sent(q, r, s[k].job) /\ ~Heard(q, r, s[k].job)
      /\ \A k, l \in 1 .. Len(s) : k < l => s[k].job < s[l].job
      /\ Meets(j, q, r) /\ Sent(q, r, j) /\ ~Heard(q, r, j) =>
            \E k \in 1 .. Len(s) : s[k].job = j
  <2>1. Mailbox(q, r)
    BY <1>2 DEF Mailboxes
  <2> QED
    BY <1>3, <2>1 DEF Mailbox
<1>7. m \in Nat /\ m >= 1 /\ First(j) \in Nat /\ j \in Nat
  BY <1>1, <1>3, PowersPositive, JobFacts DEF JobIds
<1>8. ~Heard(q, r, j)
  BY <1>2, <1>3, <1>7 DEF Heard, Passed, JobIds
<1>9. job[q] \in Nat /\ job[r] \in Nat
  BY <1>2 DEF Types
<1> HIDE DEF s
<1>10. Len(s) >= 1 /\ Head(s) = s[1]
  BY <1>4, <1>5, EmptySeq
<1>11. s[1].job = j
  <2>1. s[1].job >= j
    <3>1. ~Heard(q, r, s[1].job) /\ s[1].job \in Nat
      BY <1>4, <1>6, <1>10
    <3> QED
      BY <1>9, <3>1 DEF Heard, Passed
  <2>2. ~ (s[1].job > j)
    <3> SUFFICES ASSUME s[1].job > j PROVE FALSE
      OBVIOUS
    <3>1. Sent(q, r, s[1].job) /\ s[1].job \in Nat
      BY <1>4, <1>6, <1>10
    <3>2. job[q] >= s[1].job
      BY <1>9, <3>1 DEF Sent, Passed
    <3>3. Sent(q, r, j)
      BY <1>7, <1>9, <3>1, <3>2 DEF Sent, Passed
    <3>4. PICK k \in 1 .. Len(s) : s[k].job = j
      BY <1>2, <1>6, <1>8, <3>3
    <3>5. k # 1 /\ 1 < k /\ 1 \in 1 .. Len(s)
      BY <1>4, <1>10, <3>4
    <3>6. s[1].job < s[k].job
      BY <1>6, <3>5
    <3> QED
      BY <1>7, <3>1, <3>4, <3>6
  <2>3. s[1].job \in Nat
    BY <1>4, <1>10
  <2> QED
    BY <1>7, <2>1, <2>2, <2>3
<1>12. 1 \in 1 .. Len(s)
  BY <1>4, <1>10
<1>13. s[1].round = m /\ s[1].comm = Side(j, q - First(j), m)
  BY <1>2, <1>6, <1>11, <1>12
<1>14. s[1].comm = RemoteSide(r)
  <2>1. CASE Even(r)
    <3>1. q - First(j) = o + m
      BY <1>3, <1>7, <2>1
    <3> QED
      BY <1>13, <2>1, <3>1 DEF RemoteSide
  <2>2. CASE ~Even(r)
    <3>1. q - First(j) = o - m
      BY <1>3, <1>7, <2>2
    <3> QED
      BY <1>13, <2>2, <3>1 DEF RemoteSide
  <2> QED
    BY <2>1, <2>2
<1> QED
  BY <1>2, <1>10, <1>11, <1>13, <1>14 DEF s

LEMMA MeetMailboxes ==
    ASSUME Types, Mailboxes, NEW r \in Ranks, Place(r), Meet(r)
    PROVE  Mailboxes'
<1>0. PICK j, m, q : j = job[r] /\ m = mergeSize[r] /\ q = RemoteLeader(r)
  OBVIOUS
<1> DEFINE msg == [comm |-> comm[r], job |-> j, round |-> m]
<1>1. /\ jobs \in Workloads /\ jobs' = jobs /\ job' = job /\ mergeSize' = mergeSize
      /\ pc[r] = "loop" /\ pc'[r] = "create" /\ Paired(r) /\ m \in Powers
      /\ \A p \in Ranks \ {r} : pc'[p] = pc[p]
  BY <1>0 DEF Meet, Types
<1>2. \A a, b, k : Heard(a, b, k)' <=> Heard(a, b, k)
  BY <1>1 DEF Heard, Passed
<1>3. \A a, b, k : Passed(a, Gap(a, b), k)' <=> Passed(a, Gap(a, b), k)
  BY <1>1 DEF Passed
<1>4. ASSUME NEW b \in Ranks, NEW k \in JobIds, Meets(k, r, b), Sent(r, b, k)', ~Sent(r, b, k)
      PROVE  Leader(r) /\ b = q /\ k = j
  <2>1. k = job[r] /\ Gap(r, b) = mergeSize[r]
    BY <1>1, <1>3, <1>4 DEF Sent
  <2> QED
    BY <1>0, <1>1, <1>4, <2>1, OnlyLeadersMeet
<1>5. \A a, b, k : Sent(a, b, k) => Sent(a, b, k)'
  <2> SUFFICES ASSUME NEW a, NEW b, NEW k, Sent(a, b, k), ~Passed(a, Gap(a, b), k)
               PROVE  Sent(a, b, k)'
    BY <1>3 DEF Sent
  <2>1. job[a] = k /\ Gap(a, b) = mergeSize[a] /\ pc[a] = "create"
    BY DEF Sent
  <2>2. pc'[a] = "create"
    BY <1>1, <2>1 DEF Meet
  <2> QED
    BY <1>1, <2>1, <2>2 DEF Sent
<1>6. \A a \in Ranks, b \in Ranks, k \in JobIds : a # r => (Sent(a, b, k)' <=> Sent(a, b, k))
  BY <1>1, <1>3 DEF Sent
<1>7. CASE ~Leader(r)
  <2>1. mail' = mail
    BY <1>7 DEF Meet
  <2> QED
    BY <1>1, <1>2, <1>4, <1>5, <1>7, <2>1, StepOfOne
<1>8. CASE Leader(r)
  <2>1. q \in Ranks /\ Meets(j, r, q) /\ Gap(r, q) = m
    BY <1>0, <1>1, <1>8, LeaderMeets
  <2>2. mail' = [mail EXCEPT ![r][q] = Append(@, msg)]
    BY <1>0, <1>8 DEF Meet
  <2>3. j \in JobIds /\ comm[r] = Side(j, Offset(r), m) /\ r = First(j) + Offset(r)
    BY <1>0, <1>1, <1>8, RoundFacts, LeaderAtOffset DEF Place
  <2>4. msg \in Message
    BY <1>1, <2>3 DEF Message, Types
  <2> SUFFICES ASSUME NEW a \in Ranks, NEW b \in Ranks PROVE Mailbox(a, b)'
    BY DEF Mailboxes
  <2>5. Mailbox(a, b)
    BY DEF Mailboxes
  <2>6. CASE ~ (a = r /\ b = q)
    <3>1. mail'[a][b] = mail[a][b]
      BY <2>1, <2>2, <2>6 DEF Types
    <3>2. ASSUME NEW k \in JobIds, Meets(k, a, b) PROVE Sent(a, b, k)' <=> Sent(a, b, k)
      BY <1>4, <1>5, <1>6, <2>6, <3>2
    <3> QED
      BY <1>1, <1>2, <2>5, <3>1, <3>2, MailboxKept
  <2>7. CASE a = r /\ b = q
    <3>0. PICK s, t : s = mail[r][q] /\ t = mail'[r][q]
      OBVIOUS
    <3>1. t = Append(s, msg)
      BY <2>1, <2>2, <3>0 DEF Types
    <3>2. /\ s \in Seq(Message) /\ Len(s) \in Nat
          /\ \A k \in 1 .. Len(s) : s[k].job \in JobIds /\ s[k].job \in Nat
      BY <2>1, <3>0, MailFacts
    <3>3. /\ \A k \in 1 .. Len(s) : /\ Meets(s[k].job, r, q) /\ s[k].round = Gap(r, q)
                                    /\ s[k].comm = Side(s[k].job, r - First(s[k].job), Gap(r, q))
                                    /\ Sent(r, q, s[k].job) /\ ~Heard(r, q, s[k].job)
          /\ \A k, l \in 1 .. Len(s) : k < l => s[k].job < s[l].job
          /\ \A k \in JobIds : Meets(k, r, q) /\ Sent(r, q, k) /\ ~Heard(r, q, k) =>
                \E l \in 1 .. Len(s) : s[l].job = k
          /\ \A k \in JobIds : Meets(k, r, q) /\ Heard(r, q, k) => Sent(r, q, k)
      BY <2>5, <2>7, <3>0 DEF Mailbox
    <3> HIDE DEF msg
    <3>4. /\ Len(t) = Len(s) + 1 /\ \A k \in 1 .. Len(s) : t[k] = s[k]
          /\ t[Len(s) + 1] = msg
      BY <2>4, <3>1, <3>2, AppendProperties
    <3>5. m \in Nat /\ First(j) \in Nat /\ r \in Nat /\ j \in Nat /\ job[r] \in Nat
      BY <1>0, <1>1, <2>3, PowersPositive, JobFacts DEF Types, JobIds
    <3>6. ~Sent(r, q, j)
      BY <1>0, <1>1, <2>1, <3>5 DEF Sent, Passed
    <3>7. ~Heard(r, q, j)
      BY <2>1, <2>3, <3>3, <3>6
    <3>8. Sent(r, q, j)'
      BY <1>0, <1>1, <2>1 DEF Sent
    <3>9. /\ msg.job = j /\ msg.round = Gap(r, q)
          /\ msg.comm = Side(j, r - First(j), Gap(r, q))
      <4>1. r - First(j) = Offset(r)
        <5>1. Offset(r) \in Nat
          BY <1>0, <1>1, RoundFacts
        <5> QED
          BY <2>3, <3>5, <5>1
      <4> QED
        BY <2>1, <2>3, <4>1 DEF msg
    <3>10. ASSUME NEW k \in 1 .. Len(t)
           PROVE  /\ Meets(t[k].job, r, q) /\ t[k].round = Gap(r, q)
                  /\ t[k].comm = Side(t[k].job, r - First(t[k].job), Gap(r, q))
                  /\ Sent(r, q, t[k].job)' /\ ~Heard(r, q, t[k].job)'
      <4>1. CASE k \in 1 .. Len(s)
        BY <1>2, <1>5, <3>3, <3>4, <4>1
      <4>2. CASE k = Len(s) + 1
        BY <1>2, <2>1, <3>4, <3>7, <3>8, <3>9, <4>2
      <4> QED
        BY <3>2, <3>4, <4>1, <4>2
    <3>11. ASSUME NEW k \in 1 .. Len(s) PROVE s[k].job < j
      <4>1. Sent(r, q, s[k].job) /\ s[k].job \in Nat
        BY <3>2, <3>3
      <4>2. s[k].job <= j
        BY <1>0, <3>5, <4>1 DEF Sent, Passed
      <4> QED
        BY <3>5, <3>6, <4>1, <4>2
    <3>12. ASSUME NEW k \in 1 .. Len(t), NEW l \in 1 .. Len(t), k < l
           PROVE  t[k].job < t[l].job
      <4>1. k \in 1 .. Len(s)
        BY <3>2, <3>4, <3>12
      <4>2. CASE l \in 1 .. Len(s)
        BY <3>3, <3>4, <3>12, <4>1, <4>2
      <4>3. CASE l = Len(s) + 1
        BY <3>4, <3>9, <3>11, <4>1, <4>3
      <4> QED
        BY <3>2, <3>4, <4>2, <4>3
    <3>13. ASSUME NEW k \in JobIds, Meets(k, r, q), Sent(r, q, k)', ~Heard(r, q, k)'
           PROVE  \E l \in 1 .. Len(t) : t[l].job = k
      <4>1. CASE Sent(r, q, k)
        <5>1. PICK l \in 1 .. Len(s) : s[l].job = k
          BY <1>2, <3>3, <3>13, <4>1
        <5>2. l \in 1 .. Len(t) /\ t[l].job = k
          BY <3>2, <3>4, <5>1
        <5> QED
          BY <5>2
      <4>2. CASE ~Sent(r, q, k)
        <5>1. k = j
          BY <1>4, <2>1, <3>13, <4>2
        <5>2. Len(s) + 1 \in 1 .. Len(t) /\ t[Len(s) + 1].job = k
          BY <3>2, <3>4, <3>9, <5>1
        <5> QED
          BY <5>2
      <4> QED
        BY <4>1, <4>2
    <3>14. \A k \in JobIds : Meets(k, r, q) /\ Heard(r, q, k)' => Sent(r, q, k)'
      BY <1>2, <1>5, <3>3
    <3>15. /\ \A k, x, y : Meets(k, x, y)' <=> Meets(k, x, y)
           /\ \A k, p, n : Side(k, p, n)' = Side(k, p, n)
           /\ \A k : First(k)' = First(k)
      BY <1>1, JobsFixed
    <3> QED
      <4>1. \A k \in 1 .. Len(t) :
               /\ Meets(t[k].job, r, q)' /\ t[k].round = Gap(r, q)
               /\ t[k].comm = Side(t[k].job, r - First(t[k].job), Gap(r, q))'
               /\ Sent(r, q, t[k].job)' /\ ~Heard(r, q, t[k].job)'
        BY <3>10, <3>15
      <4>2. Mailbox(r, q)' <=>
               /\ \A k \in 1 .. Len(t) :
                     /\ Meets(t[k].job, r, q)' /\ t[k].round = Gap(r, q)
                     /\ t[k].comm = Side(t[k].job, r - First(t[k].job), Gap(r, q))'
                     /\ Sent(r, q, t[k].job)' /\ ~Heard(r, q, t[k].job)'
               /\ \A k, l \in 1 .. Len(t) : k < l => t[k].job < t[l].job
               /\ \A k \in JobIds : Meets(k, r, q)' /\ Sent(r, q, k)' /\ ~Heard(r, q, k)' =>
                     \E l \in 1 .. Len(t) : t[l].job = k
               /\ \A k \in JobIds : Meets(k, r, q)' /\ Heard(r, q, k)' => Sent(r, q, k)'
        BY <3>0 DEF Mailbox
      <4> QED
        BY <2>7, <3>12, <3>13, <3>14, <3>15, <4>1, <4>2
  <2> QED
    BY <2>6, <2>7
<1> QED
  BY <1>7, <1>8

LEMMA HearMailboxes ==
    ASSUME Types, Mailboxes, NEW r \in Ranks, Place(r), Hear(r)
    PROVE  Mailboxes'
<1>0. PICK j, m, q : j = job[r] /\ m = mergeSize[r] /\ q = RemoteLeader(r)
  OBVIOUS
<1>1. /\ jobs \in Workloads /\ jobs' = jobs /\ job' = job /\ mergeSize'[r] = m * 2
      /\ pc[r] = "create" /\ pc'[r] = "loop" /\ Leader(r) /\ Paired(r) /\ m \in Powers
      /\ mail[q][r] # <<>> /\ mail' = [mail EXCEPT ![q][r] = Tail(@)]
      /\ \A p \in Ranks \ {r} : pc'[p] = pc[p] /\ mergeSize'[p] = mergeSize[p]
  BY <1>0 DEF Hear, MergeWith, Types, Place
<1>2. /\ q \in Ranks /\ Head(mail[q][r]) = mail[q][r][1] /\ Len(mail[q][r]) >= 1
      /\ Head(mail[q][r]).job = j
  BY <1>0, <1>1, HeadMatches
<1>3. Meets(j, q, r) /\ Meets(j, r, q) /\ Gap(q, r) = m /\ Gap(r, q) = m
  BY <1>0, <1>1, LeaderMeets
<1>4. j \in JobIds /\ j \in Nat
  BY <1>0, <1>1, RoundFacts DEF JobIds
<1>5. ASSUME NEW b \in Ranks, NEW k \in JobIds, Meets(k, r, b)
      PROVE  /\ Sent(r, b, k)' <=> Sent(r, b, k)
             /\ Heard(b, r, k)' <=> Heard(b, r, k) \/ (k = j /\ b = q)
  <2>1. Gap(r, b) \in Powers /\ Gap(b, r) = Gap(r, b)
    BY <1>1, <1>5, MeetsFacts, MeetsSymmetric, WorkloadsAssumption
  <2>2. Passed(r, Gap(r, b), k)' <=>
           Passed(r, Gap(r, b), k) \/ (job[r] = k /\ Gap(r, b) = mergeSize[r])
    BY <1>0, <1>1, <2>1, DoublePassed
  <2>3. job[r] = k /\ Gap(r, b) = mergeSize[r] => b = q
    BY <1>0, <1>1, <1>5, OnlyLeadersMeet
  <2>4. job[r] = k /\ Gap(r, b) = mergeSize[r] <=> k = j /\ b = q
    BY <1>0, <1>3, <2>3
  <2> QED
    BY <1>1, <2>1, <2>2, <2>4 DEF Sent, Heard
<1>6. ASSUME NEW a \in Ranks, NEW b \in Ranks, NEW k \in JobIds, Meets(k, a, b)
      PROVE  Sent(a, b, k)' <=> Sent(a, b, k)
  <2>1. CASE a = r
    BY <1>5, <1>6, <2>1
  <2>2. CASE a # r
    BY <1>1, <2>2 DEF Sent, Passed
  <2> QED
    BY <2>1, <2>2
<1>7. ASSUME NEW a \in Ranks, NEW b \in Ranks, NEW k \in JobIds, Meets(k, a, b)
      PROVE  Heard(a, b, k)' <=> Heard(a, b, k) \/ (k = j /\ a = q /\ b = r)
  <2>1. CASE b = r
    <3>1. Meets(k, r, a)
      BY <1>7, <2>1, MeetsSymmetric, WorkloadsAssumption
    <3> QED
      BY <1>5, <2>1, <3>1
  <2>2. CASE b # r
    BY <1>1, <2>2 DEF Heard, Passed
  <2> QED
    BY <2>1, <2>2
<1> SUFFICES ASSUME NEW a \in Ranks, NEW b \in Ranks PROVE Mailbox(a, b)'
  BY DEF Mailboxes
<1>8. Mailbox(a, b)
  BY DEF Mailboxes
<1>9. CASE ~ (a = q /\ b = r)
  <2>1. mail'[a][b] = mail[a][b]
    BY <1>1, <1>2, <1>9 DEF Types
  <2>2. ASSUME NEW k \in JobIds, Meets(k, a, b)
        PROVE  (Sent(a, b, k)' <=> Sent(a, b, k)) /\ (Heard(a, b, k)' <=> Heard(a, b, k))
    BY <1>6, <1>7, <1>9, <2>2
  <2> QED
    BY <1>1, <1>8, <2>1, <2>2, MailboxKept
<1>10. CASE a = q /\ b = r
  <2>0. PICK s, t : s = mail[q][r] /\ t = mail'[q][r]
    OBVIOUS
  <2>1. t = Tail(s)
    BY <1>1, <1>2, <2>0 DEF Types
  <2>2. /\ s \in Seq(Message) /\ Len(s) \in Nat /\ Len(s) >= 1
        /\ \A k \in 1 .. Len(s) : s[k].job \in JobIds /\ s[k].job \in Nat
        /\ s # <<>> /\ s[1].job = j
    BY <1>1, <1>2, <2>0, MailFacts
  <2>3. /\ \A k \in 1 .. Len(s) : /\ Meets(s[k].job, q, r) /\ s[k].round = Gap(q, r)
                                  /\ s[k].comm = Side(s[k].job, q - First(s[k].job), Gap(q, r))
                                  /\ Sent(q, r, s[k].job) /\ ~Heard(q, r, s[k].job)
        /\ \A k, l \in 1 .. Len(s) : k < l => s[k].job < s[l].job
        /\ \A k \in JobIds : Meets(k, q, r) /\ Sent(q, r, k) /\ ~Heard(q, r, k) =>
              \E l \in 1 .. Len(s) : s[l].job = k
        /\ \A k \in JobIds : Meets(k, q, r) /\ Heard(q, r, k) => Sent(q, r, k)
    BY <1>8, <1>10, <2>0 DEF Mailbox
  <2>4. Len(t) = Len(s) - 1 /\ \A k \in 1 .. Len(t) : t[k] = s[k + 1]
    BY <2>1, <2>2, HeadTailProperties
  <2>5. ASSUME NEW k \in 1 .. Len(t)
        PROVE  /\ k + 1 \in 1 .. Len(s) /\ t[k] = s[k + 1] /\ t[k].job > j
               /\ t[k].job \in JobIds
    <3>1. k + 1 \in 1 .. Len(s) /\ 1 \in 1 .. Len(s) /\ 1 < k + 1
      BY <2>2, <2>4
    <3>2. s[1].job < s[k + 1].job
      BY <2>3, <3>1
    <3> QED
      BY <1>4, <2>2, <2>4, <3>1, <3>2
  <2>6. ASSUME NEW k \in 1 .. Len(t)
        PROVE  /\ Meets(t[k].job, q, r) /\ t[k].round = Gap(q, r)
               /\ t[k].comm = Side(t[k].job, q - First(t[k].job), Gap(q, r))
               /\ Sent(q, r, t[k].job)' /\ ~Heard(q, r, t[k].job)'
    <3>1. /\ Meets(t[k].job, q, r) /\ t[k].round = Gap(q, r)
          /\ t[k].comm = Side(t[k].job, q - First(t[k].job), Gap(q, r))
          /\ Sent(q, r, t[k].job) /\ ~Heard(q, r, t[k].job)
      BY <2>3, <2>5
    <3>2. t[k].job # j /\ t[k].job \in JobIds
      BY <1>4, <2>5
    <3>3. Sent(q, r, t[k].job)'
      BY <1>2, <1>6, <3>1, <3>2
    <3>4. ~Heard(q, r, t[k].job)'
      BY <1>2, <1>7, <3>1, <3>2
    <3> QED
      BY <3>1, <3>3, <3>4
  <2>7. ASSUME NEW k \in 1 .. Len(t), NEW l \in 1 .. Len(t), k < l
        PROVE  t[k].job < t[l].job
    <3>1. k + 1 < l + 1 /\ k + 1 \in 1 .. Len(s) /\ l + 1 \in 1 .. Len(s)
      BY <2>2, <2>4, <2>7
    <3>2. s[k + 1].job < s[l + 1].job
      BY <2>3, <3>1
    <3> QED
      BY <2>4, <3>2
  <2>8. ASSUME NEW k \in JobIds, Meets(k, q, r), Sent(q, r, k)', ~Heard(q, r, k)'
        PROVE  \E l \in 1 .. Len(t) : t[l].job = k
    <3>1. Sent(q, r, k) /\ ~Heard(q, r, k) /\ k # j
      BY <1>2, <1>6, <1>7, <2>8
    <3>2. PICK l \in 1 .. Len(s) : s[l].job = k
      BY <2>3, <2>8, <3>1
    <3>3. l # 1
      BY <2>2, <3>1, <3>2
    <3>4. l - 1 \in 1 .. Len(t) /\ (l - 1) + 1 = l
      BY <2>2, <2>4, <3>2, <3>3
    <3>5. t[l - 1].job = k
      BY <2>4, <3>2, <3>4
    <3> QED
      BY <3>4, <3>5
  <2>9. ASSUME NEW k \in JobIds, Meets(k, q, r), Heard(q, r, k)'
        PROVE  Sent(q, r, k)'
    <3>1. Heard(q, r, k) \/ k = j
      BY <1>2, <1>7, <2>9
    <3>2. Sent(q, r, j)
      <4>1. 1 \in 1 .. Len(s)
        BY <2>2
      <4> QED
        BY <2>2, <2>3, <4>1
    <3>3. Sent(q, r, k)
      BY <2>3, <2>9, <3>1, <3>2
    <3> QED
      BY <1>2, <1>6, <2>9, <3>3
  <2>10. /\ \A k, x, y : Meets(k, x, y)' <=> Meets(k, x, y)
         /\ \A k, p, n : Side(k, p, n)' = Side(k, p, n)
         /\ \A k : First(k)' = First(k)
    BY <1>1, JobsFixed
  <2>11. \A k \in 1 .. Len(t) :
            /\ Meets(t[k].job, q, r)' /\ t[k].round = Gap(q, r)
            /\ t[k].comm = Side(t[k].job, q - First(t[k].job), Gap(q, r))'
            /\ Sent(q, r, t[k].job)' /\ ~Heard(q, r, t[k].job)'
    BY <2>6, <2>10
  <2>12. Mailbox(q, r)' <=>
            /\ \A k \in 1 .. Len(t) :
                  /\ Meets(t[k].job, q, r)' /\ t[k].round = Gap(q, r)
                  /\ t[k].comm = Side(t[k].job, q - First(t[k].job), Gap(q, r))'
                  /\ Sent(q, r, t[k].job)' /\ ~Heard(q, r, t[k].job)'
            /\ \A k, l \in 1 .. Len(t) : k < l => t[k].job < t[l].job
            /\ \A k \in JobIds : Meets(k, q, r)' /\ Sent(q, r, k)' /\ ~Heard(q, r, k)' =>
                  \E l \in 1 .. Len(t) : t[l].job = k
            /\ \A k \in JobIds : Meets(k, q, r)' /\ Heard(q, r, k)' => Sent(q, r, k)'
    BY <2>0 DEF Mailbox
  <2> QED
    BY <1>10, <2>7, <2>8, <2>9, <2>10, <2>11, <2>12
<1> QED
  BY <1>9, <1>10

-----------------------------------------------------------------------------
(* What the leaders tell their side                                         *)

LEMMA NotBothSides ==
    ASSUME jobs \in Workloads, NEW j \in JobIds, NEW o \in Nat, NEW m \in Powers
    PROVE  ~ (Lower(j, o, m) /\ Upper(j, o, m))
<1> SUFFICES ASSUME Lower(j, o, m), Upper(j, o, m) PROVE FALSE
  OBVIOUS
<1>1. m \in Nat /\ m >= 1
  BY PowersPositive
<1>2. PICK k \in Nat : o = k * (2 * m)
  BY DEF Lower, Pair
<1>3. PICK l \in Nat : o - m = l * (2 * m)
  BY DEF Upper, Pair
<1>4. (o \div m) % 2 = 0
  BY <1>1, <1>2, OffPair
<1> DEFINE p == o - m
<1>5. p \in Nat /\ p + m = o
  BY <1>1 DEF Upper
<1> HIDE DEF p
<1>6. ((p + m) \div m) % 2 # 0
  <2>1. p = l * (2 * m)
    BY <1>3 DEF p
  <2> QED
    BY <1>1, <1>5, <2>1, OffPair
<1> QED
  BY <1>4, <1>5, <1>6

\* what r's side is told is told to r's side only: the neighbour's communicator
LEMMA BridgeMatches ==
    ASSUME Types, NEW r \in Ranks, Place(r), pc[r] = "create",
           NEW i, Bridged(i), i.job = job[r], i.comm = comm[r]
    PROVE  i.remote = RemoteSide(r)
<1> DEFINE j == job[r]
           m == mergeSize[r]
           o == Offset(r)
<1>1. /\ jobs \in Workloads /\ Paired(r) /\ comm[r] = Side(j, o, m)
  BY DEF Types, Place
<1>2. /\ j \in JobIds /\ m \in Powers /\ o \in Nat
      /\ Even(r) => Lower(j, o, m)
      /\ ~Even(r) => Upper(j, o, m)
  BY <1>1, RoundFacts DEF Lower, Upper
<1>3. PICK p \in Nat, n \in Powers :
         /\ i.comm = Side(j, p, n)
         /\ \/ Lower(j, p, n) /\ i.remote = Side(j, p + n, n)
            \/ Upper(j, p, n) /\ i.remote = Side(j, p - n, n)
  BY DEF Bridged, Lower, Upper
<1>4. Side(j, o, m) = Side(j, p, n)
  BY <1>1, <1>3
<1> HIDE DEF j, m, o
<1>5. o = p /\ m = n
  BY <1>1, <1>2, <1>3, <1>4, SideTellsRound
<1>6. CASE Even(r)
  <2>1. Lower(j, o, m) /\ ~Upper(j, o, m)
    BY <1>1, <1>2, <1>6, NotBothSides
  <2> QED
    BY <1>3, <1>5, <1>6, <2>1 DEF RemoteSide, j, m, o
<1>7. CASE ~Even(r)
  <2>1. Upper(j, o, m) /\ ~Lower(j, o, m)
    BY <1>1, <1>2, <1>7, NotBothSides
  <2> QED
    BY <1>3, <1>5, <1>7, <2>1 DEF RemoteSide, j, m, o
<1> QED
  BY <1>6, <1>7

\* the leader's own word
LEMMA NewBridge ==
    ASSUME Types, NEW r \in Ranks, Place(r), pc[r] = "create"
    PROVE  Bridged([job |-> job[r], comm |-> comm[r], remote |-> RemoteSide(r)])
<1> DEFINE j == job[r]
           m == mergeSize[r]
           o == Offset(r)
<1>1. Paired(r) /\ comm[r] = Side(j, o, m)
  BY DEF Place
<1>2. /\ m \in Powers /\ o \in Nat
      /\ Even(r) => Pair(j, o, m)
      /\ ~Even(r) => m <= o /\ Pair(j, o - m, m)
  BY <1>1, RoundFacts
<1>3. /\ Even(r)  => RemoteSide(r) = Side(j, o + m, m)
      /\ ~Even(r) => RemoteSide(r) = Side(j, o - m, m)
  BY DEF RemoteSide
<1> HIDE DEF j, m, o
<1> QED
  BY <1>1, <1>2, <1>3 DEF Bridged, j

LEMMA BridgesKept ==
    ASSUME Bridges, jobs' = jobs
    PROVE  \A i \in bridges : Bridged(i)'
<1>1. \A j, o, m : Side(j, o, m)' = Side(j, o, m) /\ (Pair(j, o, m)' <=> Pair(j, o, m))
  BY JobsFixed
<1> SUFFICES ASSUME NEW i \in bridges PROVE Bridged(i)'
  OBVIOUS
<1>2. Bridged(i)
  BY DEF Bridges
<1> QED
  BY <1>1, <1>2 DEF Bridged

LEMMA RemoteSideType ==
    ASSUME Types, NEW r \in Ranks, Place(r), pc[r] = "create"
    PROVE  RemoteSide(r) \in Seq(Ranks) /\ Merged(r, RemoteSide(r)) \in Seq(Ranks)
<1> DEFINE j == job[r]
           m == mergeSize[r]
           o == Offset(r)
<1>1. Paired(r) /\ jobs \in Workloads
  BY DEF Place, Types
<1>2. /\ j \in JobIds /\ m \in Powers /\ o \in Nat /\ o < Size(j)
      /\ Even(r) => o + m < Size(j)
      /\ ~Even(r) => m <= o
  BY <1>1, RoundFacts
<1>3. m \in Nat /\ m >= 1 /\ Size(j) \in Nat
  BY <1>1, <1>2, PowersPositive, JobFacts
<1>4. RemoteSide(r) = IF Even(r) THEN Side(j, o + m, m) ELSE Side(j, o - m, m)
  BY DEF RemoteSide
<1> HIDE DEF j, m, o
<1>5. RemoteSide(r) \in Seq(Ranks)
  <2>1. CASE Even(r)
    <3>1. o + m \in Nat /\ o + m < Size(j)
      BY <1>2, <1>3, <2>1
    <3> QED
      BY <1>1, <1>2, <1>4, <2>1, <3>1, SideFacts
  <2>2. CASE ~Even(r)
    <3>1. o - m \in Nat /\ o - m < Size(j)
      BY <1>2, <1>3, <2>2
    <3> QED
      BY <1>1, <1>2, <1>4, <2>2, <3>1, SideFacts
  <2> QED
    BY <2>1, <2>2
<1>6. comm[r] \in Seq(Ranks)
  BY DEF Types
<1> QED
  BY <1>5, <1>6, ConcatProperties DEF Merged

-----------------------------------------------------------------------------
(* The beginning                                                            *)

LEMMA InitInv == Init => Inv
<1> SUFFICES ASSUME Init PROVE Inv
  OBVIOUS
<1> USE DEF Init
<1>1. Types
  <2>1. 1 \in Powers
    BY PowersClosed
  <2>2. 0 \in 0 .. MaxJobs
    BY WorkloadsAssumption
  <2>3. mail \in [Ranks -> [Ranks -> Seq(Message)]]
    <3>1. <<>> \in Seq(Message)
      OBVIOUS
    <3> QED
      BY <3>1
  <2>4. comm \in [Ranks -> Seq(Ranks)]
    OBVIOUS
  <2> QED
    BY <2>1, <2>2, <2>3, <2>4 DEF Types
<1>2. Places
  BY DEF Places, Place
<1>3. Bridges
  BY DEF Bridges
<1>4. ASSUME NEW a \in Ranks, NEW b \in Ranks, NEW j \in JobIds
      PROVE  ~Sent(a, b, j) /\ ~Heard(a, b, j)
  <2>1. job[a] = 0 /\ job[b] = 0 /\ j \in Nat /\ j >= 1
    BY WorkloadsAssumption DEF JobIds
  <2> QED
    BY <2>1 DEF Sent, Heard, Passed
<1>5. Mailboxes
  <2> SUFFICES ASSUME NEW a \in Ranks, NEW b \in Ranks PROVE Mailbox(a, b)
    BY DEF Mailboxes
  <2>1. mail[a][b] = <<>> /\ Len(mail[a][b]) = 0
    OBVIOUS
  <2>2. \A k \in 1 .. Len(mail[a][b]) : FALSE
    BY <2>1
  <2> QED
    BY <1>4, <2>2 DEF Mailbox
<1>6. Entered
  <2>1. \A a, b \in Ranks : Len(mail[a][b]) = 0
    OBVIOUS
  <2>2. \A a, b \in Ranks : \A k \in 1 .. Len(mail[a][b]) : FALSE
    BY <2>1
  <2> QED
    BY <2>2 DEF Entered
<1>7. Created
  <2>1. \A j \in JobIds : created[j] = [r \in {} |-> <<>>] /\ DOMAIN created[j] = {}
    OBVIOUS
  <2>2. \A j \in JobIds : created[j] = [r \in DOMAIN created[j] |-> Run(First(j), Size(j))]
    <3> SUFFICES ASSUME NEW j \in JobIds
                 PROVE  created[j] = [r \in DOMAIN created[j] |-> Run(First(j), Size(j))]
      OBVIOUS
    <3>1. created[j] = [r \in {} |-> <<>>] /\ DOMAIN created[j] = {}
      BY <2>1
    <3>2. [r \in {} |-> <<>>] = [r \in {} |-> Run(First(j), Size(j))]
      OBVIOUS
    <3> QED
      BY <3>1, <3>2
  <2>3. created = [j \in JobIds |-> created[j]]
    OBVIOUS
  <2>4. created = [j \in JobIds |-> [r \in DOMAIN created[j] |-> Run(First(j), Size(j))]]
    BY <2>2, <2>3
  <2> QED
    BY <2>1, <2>4 DEF Created
<1> QED
  BY <1>1, <1>2, <1>3, <1>5, <1>6, <1>7 DEF Inv

-----------------------------------------------------------------------------
(* What a merge does, whether heard or followed                             *)

\* r goes on with the communicator of both sides
Merges(r) ==
    /\ pc[r] = "create" /\ MergeWith(r, RemoteSide(r))
    /\ jobs' = jobs /\ job' = job /\ entered' = entered /\ created' = created

LEMMA HearMerges ==
    ASSUME Types, Mailboxes, NEW r \in Ranks, Place(r), Hear(r)
    PROVE  /\ Merges(r)
           /\ bridges' = bridges \cup
                 {[job |-> job[r], comm |-> comm[r], remote |-> RemoteSide(r)]}
<1>1. PICK q : q = RemoteLeader(r)
  OBVIOUS
<1>2. /\ pc[r] = "create" /\ Leader(r) /\ mail[q][r] # <<>>
      /\ MergeWith(r, Head(mail[q][r]).comm)
      /\ bridges' = bridges \cup
            {[job |-> job[r], comm |-> comm[r], remote |-> Head(mail[q][r]).comm]}
      /\ jobs' = jobs /\ job' = job /\ entered' = entered /\ created' = created
  BY <1>1 DEF Hear
<1>3. Head(mail[q][r]).comm = RemoteSide(r)
  BY <1>1, <1>2, HeadMatches
<1> QED
  BY <1>2, <1>3 DEF Merges

LEMMA FollowMerges ==
    ASSUME Types, Bridges, NEW r \in Ranks, Place(r), Follow(r)
    PROVE  Merges(r) /\ bridges' = bridges /\ mail' = mail
<1>1. PICK i \in bridges : i.job = job[r] /\ i.comm = comm[r] /\ MergeWith(r, i.remote)
  BY DEF Follow
<1>2. pc[r] = "create" /\ Bridged(i)
  BY <1>1 DEF Follow, Bridges
<1>3. i.remote = RemoteSide(r)
  BY <1>1, <1>2, BridgeMatches
<1> QED
  BY <1>1, <1>2, <1>3 DEF Merges, Follow

-----------------------------------------------------------------------------
(* Types, places and bridges                                                *)

LEMMA TypesStep ==
    ASSUME Types, Places, Bridges, Mailboxes, NEW r \in Ranks, Rank(r)
    PROVE  Types'
<1>1. Place(r) /\ mergeSize[r] \in Nat /\ mergeSize[r] * 2 \in Powers /\ 1 \in Powers
  <2>1. 2 * mergeSize[r] \in Powers /\ mergeSize[r] \in Nat
    BY PowersClosed, PowersPositive DEF Types
  <2> QED
    BY <2>1, PowersClosed DEF Places
<1>2. CASE Begin(r)
  <2>1. PICK j \in Ahead(r) : /\ job' = [job EXCEPT ![r] = j]
                              /\ entered' = [entered EXCEPT ![j] = @ \cup {r}]
    BY <1>2 DEF Begin
  <2>2. j \in JobIds /\ j \in 0 .. MaxJobs
    BY WorkloadsAssumption DEF Ahead, JobIds
  <2>3. <<r>> \in Seq(Ranks)
    OBVIOUS
  <2> QED
    BY <1>1, <1>2, <2>1, <2>2, <2>3 DEF Begin, Types
<1>3. CASE Skip(r)
  BY <1>1, <1>3 DEF Skip, Types
<1>4. CASE Meet(r)
  <2>1. PICK q, msg : /\ q = RemoteLeader(r)
                      /\ msg = [comm |-> comm[r], job |-> job[r], round |-> mergeSize[r]]
    OBVIOUS
  <2>2. msg \in Message
    <3>1. job[r] \in JobIds
      BY <1>1, <1>4, RoundFacts DEF Meet
    <3> QED
      BY <2>1, <3>1 DEF Message, Types
  <2>3. mail' \in [Ranks -> [Ranks -> Seq(Message)]]
    <3>1. CASE ~Leader(r)
      BY <1>4, <3>1 DEF Meet, Types
    <3>2. CASE Leader(r)
      <4>1. q \in Ranks
        BY <1>1, <1>4, <2>1, <3>2, LeaderMeets DEF Meet
      <4>2. Append(mail[r][q], msg) \in Seq(Message)
        BY <2>2, <4>1, AppendProperties DEF Types
      <4>3. mail' = [mail EXCEPT ![r][q] = Append(mail[r][q], msg)]
        BY <1>4, <2>1, <3>2, <4>1 DEF Meet, Types
      <4> QED
        BY <4>1, <4>2, <4>3 DEF Types
    <3> QED
      BY <3>1, <3>2
  <2> QED
    BY <1>1, <1>4, <2>3 DEF Meet, Types
<1>5. ASSUME Merges(r)
      PROVE  /\ jobs' \in Workloads /\ pc' \in [Ranks -> {"listen", "loop", "create"}]
             /\ job' \in [Ranks -> 0 .. MaxJobs] /\ mergeSize' \in [Ranks -> Powers]
             /\ comm' \in [Ranks -> Seq(Ranks)] /\ entered' \in [JobIds -> SUBSET Ranks]
  <2>1. Merged(r, RemoteSide(r)) \in Seq(Ranks)
    BY <1>1, <1>5, RemoteSideType DEF Merges
  <2> QED
    BY <1>1, <1>5, <2>1 DEF Merges, MergeWith, Types
<1>6. CASE Hear(r)
  <2>1. PICK q, i : /\ q = RemoteLeader(r)
                    /\ i = [job |-> job[r], comm |-> comm[r], remote |-> RemoteSide(r)]
    OBVIOUS
  <2>2. Merges(r) /\ bridges' = bridges \cup {i}
    BY <1>1, <1>6, <2>1, HearMerges
  <2>3. i \in Bridge
    <3>1. job[r] \in JobIds /\ RemoteSide(r) \in Seq(Ranks)
      BY <1>1, <2>2, RoundFacts, RemoteSideType DEF Merges
    <3> QED
      BY <2>1, <3>1 DEF Bridge, Types
  <2>4. mail' \in [Ranks -> [Ranks -> Seq(Message)]]
    <3>1. pc[r] = "create" /\ Leader(r) /\ mail[q][r] # <<>> /\ mail' = [mail EXCEPT ![q][r] = Tail(@)]
      BY <1>6, <2>1 DEF Hear
    <3>2. q \in Ranks /\ mail[q][r] \in Seq(Message)
      <4>1. q \in Ranks
        BY <1>1, <2>1, <3>1, HeadMatches
      <4> QED
        BY <4>1 DEF Types
    <3>3. Tail(mail[q][r]) \in Seq(Message)
      BY <3>1, <3>2
    <3>4. mail' = [mail EXCEPT ![q][r] = Tail(mail[q][r])]
      BY <3>1, <3>2 DEF Types
    <3> QED
      BY <3>2, <3>3, <3>4 DEF Types
  <2> QED
    BY <1>5, <2>2, <2>3, <2>4 DEF Types
<1>7. CASE Follow(r)
  <2>1. Merges(r) /\ bridges' = bridges /\ mail' = mail
    BY <1>1, <1>7, FollowMerges
  <2> QED
    BY <1>5, <2>1 DEF Types
<1>8. CASE Return(r)
  BY <1>8 DEF Return, Types
<1> QED
  BY <1>2, <1>3, <1>4, <1>6, <1>7, <1>8 DEF Rank

LEMMA PlacesStep ==
    ASSUME Types, Places, Bridges, Mailboxes, NEW r \in Ranks, Rank(r)
    PROVE  Places'
<1>1. Place(r)
  BY DEF Places
<1>2. /\ jobs' = jobs
      /\ \A q \in Ranks \ {r} : /\ pc'[q] = pc[q] /\ job'[q] = job[q]
                                /\ mergeSize'[q] = mergeSize[q] /\ comm'[q] = comm[q]
  BY DEF Rank, Begin, Skip, Meet, Hear, Follow, Return, MergeWith, Types
<1>3. ASSUME Merges(r) PROVE Place(r)'
  BY <1>1, <1>3, MergePlace DEF Merges
<1>4. Place(r)'
  BY <1>1, <1>3, BeginPlace, SkipPlace, MeetPlace, HearMerges, FollowMerges, ReturnPlace DEF Rank
<1>5. ASSUME NEW q \in Ranks PROVE Place(q)'
  <2>1. CASE q = r
    BY <1>4, <2>1
  <2>2. CASE q # r
    <3>1. Place(q)
      BY DEF Places
    <3> QED
      BY <1>2, <2>2, <3>1, PlaceKept
  <2> QED
    BY <2>1, <2>2
<1> QED
  BY <1>5 DEF Places

LEMMA BridgesStep ==
    ASSUME Types, Places, Bridges, Mailboxes, NEW r \in Ranks, Rank(r)
    PROVE  Bridges'
<1>1. Place(r) /\ jobs' = jobs
  BY DEF Places, Rank, Begin, Skip, Meet, Hear, Follow, Return
<1>2. \A i \in bridges : Bridged(i)'
  BY <1>1, BridgesKept
<1>3. CASE Hear(r)
  <2>1. PICK i : i = [job |-> job[r], comm |-> comm[r], remote |-> RemoteSide(r)]
    OBVIOUS
  <2>2. Merges(r) /\ bridges' = bridges \cup {i}
    BY <1>1, <1>3, <2>1, HearMerges
  <2>3. Bridged(i)
    BY <1>1, <2>1, <2>2, NewBridge DEF Merges
  <2>4. \A j, o, m : Side(j, o, m)' = Side(j, o, m) /\ (Pair(j, o, m)' <=> Pair(j, o, m))
    BY <1>1, JobsFixed
  <2>5. Bridged(i)'
    BY <2>3, <2>4 DEF Bridged
  <2> QED
    BY <1>2, <2>2, <2>5 DEF Bridges
<1>4. CASE ~Hear(r)
  <2>1. bridges' = bridges
    BY <1>4 DEF Rank, Begin, Skip, Meet, Follow, Return
  <2> QED
    BY <1>2, <2>1 DEF Bridges
<1> QED
  BY <1>3, <1>4

LEMMA MailboxesStep ==
    ASSUME Types, Places, Bridges, Mailboxes, NEW r \in Ranks, Rank(r)
    PROVE  Mailboxes'
<1>1. Place(r)
  BY DEF Places
<1> QED
  BY <1>1, BeginMailboxes, SkipMailboxes, MeetMailboxes, HearMailboxes, FollowMailboxes,
     ReturnMailboxes DEF Rank

-----------------------------------------------------------------------------
(* Nobody is in a communicator before it has entered the job                *)

LEMMA JobsOnly ==
    ASSUME Types, Places, NEW r \in Ranks, pc[r] # "listen"
    PROVE  job[r] \in JobIds
BY WorkloadsAssumption DEF Types, Places, Place, JobIds

\* the steps that take up no job only have to account for what they write
LEMMA EnteredKept ==
    ASSUME Types, Entered, NEW r \in Ranks, job' = job, entered' = entered,
           \A q \in Ranks \ {r} : pc'[q] = pc[q] /\ comm'[q] = comm[q],
           pc'[r] # "listen" => AllIn(comm'[r], job[r]),
           \A a, b \in Ranks : \A k \in 1 .. Len(mail'[a][b]) :
              AllIn(mail'[a][b][k].comm, mail'[a][b][k].job),
           \A i \in bridges' : AllIn(i.remote, i.job)
    PROVE  Entered'
<1>1. \A j \in JobIds : \A q \in entered'[j] : j <= job'[q]
  BY DEF Entered
<1>2. ASSUME NEW q \in Ranks, pc'[q] # "listen" PROVE AllIn(comm'[q], job[q])
  <2>1. CASE q = r
    BY <1>2, <2>1
  <2>2. CASE q # r
    BY <1>2, <2>2 DEF Entered
  <2> QED
    BY <2>1, <2>2
<1> QED
  BY <1>1, <1>2 DEF Entered, AllIn

LEMMA BeginEntered ==
    ASSUME Types, Places, Entered, NEW r \in Ranks, Begin(r)
    PROVE  Entered'
<1>1. PICK j \in Ahead(r) : /\ job' = [job EXCEPT ![r] = j]
                            /\ entered' = [entered EXCEPT ![j] = @ \cup {r}]
  BY DEF Begin
<1>2. /\ j \in JobIds /\ j \in Nat /\ job[r] < j /\ job[r] \in Nat /\ MaxJobs \in Nat
      /\ pc[r] = "listen" /\ pc'[r] = "loop" /\ comm'[r] = <<r>>
      /\ mail' = mail /\ bridges' = bridges
      /\ \A q \in Ranks \ {r} : pc'[q] = pc[q] /\ comm'[q] = comm[q] /\ job'[q] = job[q]
      /\ job'[r] = j
  BY <1>1, WorkloadsAssumption DEF Begin, Ahead, Types, JobIds
<1>3. \A k \in JobIds : entered[k] \subseteq entered'[k]
  BY <1>1, <1>2 DEF Types
<1>4. ASSUME NEW k \in JobIds, NEW q \in entered'[k] PROVE k <= job'[q]
  <2>1. CASE q \in entered[k]
    <3>1. entered[k] \subseteq Ranks
      BY DEF Types
    <3>2. k <= job[q] /\ q \in Ranks
      BY <2>1, <3>1 DEF Entered
    <3>3. k \in Nat /\ job[q] \in Nat /\ (job'[q] = job[q] \/ (q = r /\ job'[q] = j))
      BY <1>2, <3>2 DEF Types, JobIds
    <3> QED
      BY <1>2, <3>2, <3>3
  <2>2. CASE q \notin entered[k]
    <3>1. k = j /\ q = r
      BY <1>1, <2>2 DEF Types
    <3> QED
      BY <1>2, <3>1
  <2> QED
    BY <2>1, <2>2
<1>5. ASSUME NEW q \in Ranks, pc'[q] # "listen", NEW i \in 1 .. Len(comm'[q])
      PROVE  comm'[q][i] \in entered'[job'[q]]
  <2>1. CASE q = r
    <3>1. Len(comm'[r]) = 1 /\ comm'[r][1] = r
      BY <1>2
    <3>2. i = 1
      BY <1>5, <2>1, <3>1
    <3> QED
      BY <1>1, <1>2, <2>1, <3>1, <3>2 DEF Types
  <2>2. CASE q # r
    <3>1. comm[q][i] \in entered[job[q]] /\ job[q] \in JobIds
      BY <1>2, <1>5, <2>2, JobsOnly DEF Entered, AllIn
    <3> QED
      BY <1>2, <1>3, <2>2, <3>1
  <2> QED
    BY <2>1, <2>2
<1>6. ASSUME NEW a \in Ranks, NEW b \in Ranks, NEW k \in 1 .. Len(mail[a][b]),
             NEW i \in 1 .. Len(mail[a][b][k].comm)
      PROVE  mail[a][b][k].comm[i] \in entered'[mail[a][b][k].job]
  <2>1. mail[a][b][k].comm[i] \in entered[mail[a][b][k].job] /\ mail[a][b][k].job \in JobIds
    BY MailFacts DEF Entered, AllIn
  <2> QED
    BY <1>3, <2>1
<1>7. ASSUME NEW b \in bridges, NEW i \in 1 .. Len(b.remote)
      PROVE  b.remote[i] \in entered'[b.job]
  <2>1. b.remote[i] \in entered[b.job] /\ b.job \in JobIds
    BY DEF Entered, AllIn, Types, Bridge
  <2> QED
    BY <1>3, <2>1
<1> QED
  BY <1>2, <1>4, <1>5, <1>6, <1>7 DEF Entered, AllIn

\* a merge whose other side has entered too
LEMMA MergeEntered ==
    ASSUME Types, Places, Entered, NEW r \in Ranks, Merges(r), AllIn(RemoteSide(r), job[r])
    PROVE  AllIn(comm'[r], job[r]) /\ \A q \in Ranks \ {r} : pc'[q] = pc[q] /\ comm'[q] = comm[q]
<1>1. PICK s, t : s = comm[r] /\ t = RemoteSide(r)
  OBVIOUS
<1>2. /\ s \in Seq(Ranks) /\ t \in Seq(Ranks) /\ comm'[r] = Merged(r, t) /\ pc[r] = "create"
      /\ AllIn(s, job[r]) /\ AllIn(t, job[r])
  BY <1>1, RemoteSideType DEF Merges, MergeWith, Types, Entered, Places
<1>3. ASSUME NEW u \in Seq(Ranks), NEW v \in Seq(Ranks), AllIn(u, job[r]), AllIn(v, job[r])
      PROVE  AllIn(u \o v, job[r])
  <2> SUFFICES ASSUME NEW i \in 1 .. Len(u \o v) PROVE (u \o v)[i] \in entered[job[r]]
    BY DEF AllIn
  <2>1. /\ Len(u \o v) = Len(u) + Len(v) /\ Len(u) \in Nat /\ Len(v) \in Nat
        /\ (u \o v)[i] = IF i <= Len(u) THEN u[i] ELSE v[i - Len(u)]
    BY ConcatProperties, LenProperties
  <2>2. CASE i <= Len(u)
    BY <1>3, <2>1, <2>2 DEF AllIn
  <2>3. CASE i > Len(u)
    <3>1. i - Len(u) \in 1 .. Len(v)
      BY <2>1, <2>3
    <3> QED
      BY <1>3, <2>1, <2>3, <3>1 DEF AllIn
  <2> QED
    BY <2>1, <2>2, <2>3
<1>4. comm'[r] = s \o t \/ comm'[r] = t \o s
  BY <1>1, <1>2 DEF Merged
<1> QED
  BY <1>2, <1>3, <1>4 DEF Merges, MergeWith, Types

LEMMA MeetEntered ==
    ASSUME Types, Places, Entered, NEW r \in Ranks, Meet(r)
    PROVE  Entered'
<1>1. PICK q, msg : /\ q = RemoteLeader(r)
                    /\ msg = [comm |-> comm[r], job |-> job[r], round |-> mergeSize[r]]
  OBVIOUS
<1>2. /\ job' = job /\ entered' = entered /\ comm' = comm /\ bridges' = bridges
      /\ \A p \in Ranks \ {r} : pc'[p] = pc[p]
      /\ pc[r] = "loop"
      /\ mail' = IF Leader(r) THEN [mail EXCEPT ![r][q] = Append(@, msg)] ELSE mail
  BY <1>1 DEF Meet, Types
<1>3. AllIn(comm[r], job[r])
  BY <1>2 DEF Entered
<1>4. ASSUME NEW a \in Ranks, NEW b \in Ranks, NEW k \in 1 .. Len(mail'[a][b])
      PROVE  AllIn(mail'[a][b][k].comm, mail'[a][b][k].job)
  <2>1. CASE mail'[a][b] = mail[a][b]
    BY <2>1 DEF Entered
  <2>2. CASE mail'[a][b] = Append(mail[a][b], msg)
    <3>1. mail[a][b] \in Seq(Message) /\ Len(mail[a][b]) \in Nat
      BY MailFacts
    <3>2. PICK s : s = mail[a][b]
      OBVIOUS
    <3>3. /\ Len(Append(s, msg)) = Len(s) + 1
          /\ \A i \in 1 .. Len(s) : Append(s, msg)[i] = s[i]
          /\ Append(s, msg)[Len(s) + 1] = msg
      <4>1. s \in Seq(Message \cup {msg})
        BY <3>1, <3>2
      <4> QED
        BY <4>1, AppendProperties
    <3>4. CASE k \in 1 .. Len(s)
      <4>1. mail'[a][b][k] = mail[a][b][k]
        BY <2>2, <3>2, <3>3, <3>4
      <4> QED
        BY <3>2, <3>4, <4>1 DEF Entered
    <3>5. CASE k \notin 1 .. Len(s)
      <4>1. k = Len(s) + 1
        BY <2>2, <3>1, <3>2, <3>3, <3>5
      <4>2. mail'[a][b][k] = msg
        BY <2>2, <3>2, <3>3, <4>1
      <4> QED
        BY <1>1, <1>3, <4>2
    <3> QED
      BY <3>4, <3>5
  <2>3. mail'[a][b] = mail[a][b] \/ mail'[a][b] = Append(mail[a][b], msg)
    BY <1>2 DEF Types
  <2> QED
    BY <2>1, <2>2, <2>3
<1>5. \A i \in bridges' : AllIn(i.remote, i.job)
  BY <1>2 DEF Entered
<1> QED
  BY <1>2, <1>3, <1>4, <1>5, EnteredKept

LEMMA HearEntered ==
    ASSUME Types, Places, Mailboxes, Entered, NEW r \in Ranks, Hear(r)
    PROVE  Entered'
<1>1. PICK q, i : /\ q = RemoteLeader(r)
                  /\ i = [job |-> job[r], comm |-> comm[r], remote |-> RemoteSide(r)]
  OBVIOUS
<1>2. /\ pc[r] = "create" /\ Leader(r) /\ mail[q][r] # <<>> /\ Place(r)
      /\ mail' = [mail EXCEPT ![q][r] = Tail(@)]
  BY <1>1 DEF Hear, Places
<1>3. Merges(r) /\ bridges' = bridges \cup {i}
  BY <1>1, <1>2, HearMerges
<1>4. /\ q \in Ranks /\ Head(mail[q][r]) = mail[q][r][1] /\ Len(mail[q][r]) >= 1
      /\ Head(mail[q][r]).job = job[r] /\ Head(mail[q][r]).comm = RemoteSide(r)
  BY <1>1, <1>2, HeadMatches
<1>5. AllIn(RemoteSide(r), job[r])
  <2>1. 1 \in 1 .. Len(mail[q][r])
    BY <1>4, MailFacts
  <2> QED
    BY <1>4, <2>1 DEF Entered
<1>6. ASSUME NEW a \in Ranks, NEW b \in Ranks, NEW k \in 1 .. Len(mail'[a][b])
      PROVE  AllIn(mail'[a][b][k].comm, mail'[a][b][k].job)
  <2>1. CASE mail'[a][b] = mail[a][b]
    BY <2>1 DEF Entered
  <2>2. CASE mail'[a][b] = Tail(mail[a][b]) /\ mail[a][b] # <<>>
    <3>1. PICK s : s = mail[a][b] /\ s \in Seq(Message) /\ s # <<>> /\ Len(s) \in Nat
      BY <2>2, MailFacts
    <3>2. /\ Len(Tail(s)) = Len(s) - 1
          /\ \A l \in 1 .. Len(Tail(s)) : Tail(s)[l] = s[l + 1]
      BY <3>1, HeadTailProperties
    <3>3. k \in 1 .. Len(Tail(s)) /\ k + 1 \in 1 .. Len(s)
      BY <2>2, <3>1, <3>2
    <3>4. mail'[a][b][k] = mail[a][b][k + 1]
      BY <2>2, <3>1, <3>2, <3>3
    <3> QED
      BY <3>1, <3>3, <3>4 DEF Entered
  <2>3. mail'[a][b] = mail[a][b] \/ (mail'[a][b] = Tail(mail[a][b]) /\ mail[a][b] # <<>>)
    BY <1>2, <1>4 DEF Types
  <2> QED
    BY <2>1, <2>2, <2>3
<1>7. \A b \in bridges' : AllIn(b.remote, b.job)
  BY <1>1, <1>3, <1>5 DEF Entered
<1>8. AllIn(comm'[r], job[r]) /\ \A p \in Ranks \ {r} : pc'[p] = pc[p] /\ comm'[p] = comm[p]
  BY <1>3, <1>5, MergeEntered
<1> QED
  BY <1>3, <1>6, <1>7, <1>8, EnteredKept DEF Merges

LEMMA FollowEntered ==
    ASSUME Types, Places, Bridges, Entered, NEW r \in Ranks, Follow(r)
    PROVE  Entered'
<1>1. PICK i \in bridges : i.job = job[r] /\ i.comm = comm[r]
  BY DEF Follow
<1>2. Place(r) /\ Bridged(i) /\ pc[r] = "create" /\ AllIn(i.remote, i.job)
  BY DEF Places, Bridges, Follow, Entered
<1>3. i.remote = RemoteSide(r)
  BY <1>1, <1>2, BridgeMatches
<1>4. Merges(r) /\ bridges' = bridges /\ mail' = mail
  BY <1>2, FollowMerges
<1>5. AllIn(RemoteSide(r), job[r])
  BY <1>1, <1>2, <1>3
<1>6. AllIn(comm'[r], job[r]) /\ \A p \in Ranks \ {r} : pc'[p] = pc[p] /\ comm'[p] = comm[p]
  BY <1>4, <1>5, MergeEntered
<1>7. /\ \A a, b \in Ranks : \A k \in 1 .. Len(mail'[a][b]) :
            AllIn(mail'[a][b][k].comm, mail'[a][b][k].job)
      /\ \A b \in bridges' : AllIn(b.remote, b.job)
  BY <1>4 DEF Entered
<1> QED
  BY <1>4, <1>6, <1>7, EnteredKept DEF Merges

LEMMA EnteredStep ==
    ASSUME Types, Places, Bridges, Mailboxes, Entered, NEW r \in Ranks, Rank(r)
    PROVE  Entered'
<1>1. CASE Skip(r)
  <2>1. /\ pc[r] = "loop" /\ pc' = pc /\ job' = job /\ comm' = comm /\ mail' = mail
        /\ bridges' = bridges /\ entered' = entered
    BY <1>1 DEF Skip
  <2> QED
    BY <2>1 DEF Entered, AllIn
<1>2. CASE Return(r)
  <2>1. /\ pc'[r] = "listen" /\ \A q \in Ranks \ {r} : pc'[q] = pc[q] /\ comm'[q] = comm[q]
        /\ job' = job /\ mail' = mail /\ bridges' = bridges /\ entered' = entered
    BY <1>2 DEF Return, Types
  <2>2. /\ \A a, b \in Ranks : \A k \in 1 .. Len(mail'[a][b]) :
              AllIn(mail'[a][b][k].comm, mail'[a][b][k].job)
        /\ \A b \in bridges' : AllIn(b.remote, b.job)
    BY <2>1 DEF Entered
  <2> QED
    BY <2>1, <2>2, EnteredKept
<1> QED
  BY <1>1, <1>2, BeginEntered, MeetEntered, HearEntered, FollowEntered DEF Rank

-----------------------------------------------------------------------------
(* What the ranks come back with                                            *)

LEMMA CreatedKept ==
    ASSUME Created, created' = created, jobs' = jobs,
           \A j \in JobIds : \A q \in DOMAIN created[j] :
              j < job'[q] \/ (job'[q] = j /\ pc'[q] = "listen")
    PROVE  Created'
<1>1. \A j : First(j)' = First(j) /\ Size(j)' = Size(j)
  BY JobsFixed
<1> QED
  BY <1>1 DEF Created, Run

LEMMA ReturnCreated ==
    ASSUME Types, Places, Created, NEW r \in Ranks, Return(r)
    PROVE  Created'
<1>1. PICK j : j = job[r]
  OBVIOUS
<1>2. /\ j \in JobIds /\ comm[r] = Run(First(j), Size(j)) /\ job' = job /\ jobs' = jobs
      /\ pc[r] = "loop" /\ pc'[r] = "listen" /\ \A q \in Ranks \ {r} : pc'[q] = pc[q]
      /\ created' = [created EXCEPT ![j] =
                       [q \in DOMAIN @ \cup {r} |-> IF q = r THEN comm[r] ELSE @[q]]]
  BY <1>1, ReturnPlace, JobsOnly DEF Return, Places, Types
<1>3. \A k : First(k)' = First(k) /\ Size(k)' = Size(k)
  BY <1>2, JobsFixed
<1>4. PICK c : c = created /\ c = [k \in JobIds |-> [q \in DOMAIN c[k] |-> Run(First(k), Size(k))]]
  BY DEF Created
<1>5. created'[j] = [q \in DOMAIN c[j] \cup {r} |-> Run(First(j), Size(j))]
  <2>1. created'[j] = [q \in DOMAIN c[j] \cup {r} |-> IF q = r THEN comm[r] ELSE c[j][q]]
    BY <1>2, <1>4
  <2>2. \A q \in DOMAIN c[j] : c[j][q] = Run(First(j), Size(j))
    BY <1>2, <1>4
  <2>3. \A q \in DOMAIN c[j] \cup {r} :
           (IF q = r THEN comm[r] ELSE c[j][q]) = Run(First(j), Size(j))
    BY <1>2, <2>2
  <2> QED
    BY <2>1, <2>3
<1>6. \A k \in JobIds \ {j} : created'[k] = c[k]
  BY <1>2, <1>4
<1>7. \A k \in JobIds : created'[k] = [q \in DOMAIN created'[k] |-> Run(First(k), Size(k))]
  <2> SUFFICES ASSUME NEW k \in JobIds
               PROVE  created'[k] = [q \in DOMAIN created'[k] |-> Run(First(k), Size(k))]
    OBVIOUS
  <2>1. CASE k = j
    BY <1>5, <2>1
  <2>2. CASE k # j
    <3>1. c[k] = [q \in DOMAIN c[k] |-> Run(First(k), Size(k))]
      BY <1>4
    <3> QED
      BY <1>6, <2>2, <3>1
  <2> QED
    BY <2>1, <2>2
<1>8. created' = [k \in JobIds |-> created'[k]]
  BY <1>2, <1>4
<1>9. created' = [k \in JobIds |-> [q \in DOMAIN created'[k] |-> Run(First(k), Size(k))]]
  BY <1>7, <1>8
<1>10. \A k \in JobIds : \A q \in DOMAIN created'[k] :
          q \in Ranks /\ (k < job'[q] \/ (job'[q] = k /\ pc'[q] = "listen"))
  <2> SUFFICES ASSUME NEW k \in JobIds, NEW q \in DOMAIN created'[k]
               PROVE  q \in Ranks /\ (k < job'[q] \/ (job'[q] = k /\ pc'[q] = "listen"))
    OBVIOUS
  <2>1. CASE k = j /\ q = r
    BY <1>1, <1>2, <2>1
  <2>2. CASE ~ (k = j /\ q = r)
    <3>1. q \in DOMAIN created[k]
      <4>1. CASE k = j
        <5>1. DOMAIN created'[j] = DOMAIN c[j] \cup {r}
          BY <1>5
        <5> QED
          BY <1>4, <2>2, <4>1, <5>1
      <4>2. CASE k # j
        BY <1>4, <1>6, <4>2
      <4> QED
        BY <4>1, <4>2
    <3>2. q \in Ranks /\ (k < job[q] \/ (job[q] = k /\ pc[q] = "listen"))
      BY <3>1 DEF Created
    <3> QED
      BY <1>2, <3>2
  <2> QED
    BY <2>1, <2>2
<1> QED
  BY <1>3, <1>9, <1>10 DEF Created, Run

LEMMA CreatedStep ==
    ASSUME Types, Places, Created, NEW r \in Ranks, Rank(r)
    PROVE  Created'
<1>1. CASE Begin(r)
  <2>1. PICK j \in Ahead(r) : job' = [job EXCEPT ![r] = j]
    BY <1>1 DEF Begin
  <2>2. /\ job[r] < j /\ j \in Nat /\ job' = [job EXCEPT ![r] = j] /\ job \in [Ranks -> Nat]
        /\ jobs' = jobs /\ created' = created
        /\ \A q \in Ranks \ {r} : pc'[q] = pc[q]
    BY <1>1, <2>1 DEF Begin, Ahead, Types, JobIds
  <2>3. ASSUME NEW k \in JobIds, NEW q \in DOMAIN created[k]
        PROVE  k < job'[q] \/ (job'[q] = k /\ pc'[q] = "listen")
    <3>1. k \in Nat /\ q \in Ranks /\ (k < job[q] \/ (job[q] = k /\ pc[q] = "listen"))
      BY DEF Created, JobIds
    <3> QED
      BY <2>2, <3>1
  <2> QED
    BY <2>2, <2>3, CreatedKept
<1>2. CASE Skip(r) \/ Meet(r) \/ Hear(r) \/ Follow(r)
  <2>1. /\ jobs' = jobs /\ job' = job /\ created' = created /\ pc[r] # "listen"
        /\ \A q \in Ranks \ {r} : pc'[q] = pc[q]
    BY <1>2 DEF Skip, Meet, Hear, Follow, MergeWith, Types
  <2>2. ASSUME NEW k \in JobIds, NEW q \in DOMAIN created[k]
        PROVE  k < job'[q] \/ (job'[q] = k /\ pc'[q] = "listen")
    <3>1. q \in Ranks /\ (k < job[q] \/ (job[q] = k /\ pc[q] = "listen"))
      BY DEF Created
    <3> QED
      BY <2>1, <3>1
  <2> QED
    BY <2>1, <2>2, CreatedKept
<1> QED
  BY <1>1, <1>2, ReturnCreated DEF Rank

-----------------------------------------------------------------------------
(* The invariant, and what follows from it                                  *)

LEMMA NextInv == Inv /\ [Next]_vars => Inv'
<1> SUFFICES ASSUME Inv, [Next]_vars PROVE Inv'
  OBVIOUS
<1>1. ASSUME NEW r \in Ranks, Rank(r) PROVE Inv'
  BY <1>1, TypesStep, PlacesStep, BridgesStep, MailboxesStep, EnteredStep, CreatedStep DEF Inv
<1>2. ASSUME UNCHANGED vars PROVE Inv'
  <2>1. Types' /\ Places'
    <3>1. Types'
      BY <1>2 DEF Inv, vars, Types
    <3>2. Places'
      BY <1>2, PlaceKept DEF Inv, vars, Places
    <3> QED
      BY <3>1, <3>2
  <2>2. Bridges'
    BY <1>2, BridgesKept DEF Inv, vars, Bridges
  <2>3. Mailboxes'
    <3>1. \A a, b, j : (Sent(a, b, j)' <=> Sent(a, b, j)) /\ (Heard(a, b, j)' <=> Heard(a, b, j))
      BY <1>2 DEF vars, Sent, Heard, Passed
    <3> QED
      BY <1>2, <3>1, MailboxKept DEF Inv, vars, Mailboxes
  <2>4. Entered'
    BY <1>2 DEF Inv, vars, Entered, AllIn
  <2>5. Created'
    BY <1>2, CreatedKept DEF Inv, vars, Created
  <2> QED
    BY <2>1, <2>2, <2>3, <2>4, <2>5 DEF Inv
<1> QED
  BY <1>1, <1>2 DEF Next

LEMMA Invariance == Spec => []Inv
<1> QED
  BY InitInv, NextInv, PTL DEF Spec

\* Every variable of the pairwise creation keeps to its kind of values; while a rank
\* is in the loop of mpi-noncollective-comm.h, merge_size is below twice the group size.
THEOREM TypeCorrect == Spec => []TypeOK
<1> SUFFICES ASSUME Inv PROVE TypeOK
  BY Invariance, PTL
<1>1. Types /\ Places /\ Created
  BY DEF Inv
<1>2. ASSUME NEW r \in Ranks, pc[r] # "listen"
      PROVE  mergeSize[r] \in 1 .. 2 * GroupSize(r) - 1
  <2>1. job[r] \in JobIds /\ mergeSize[r] < 2 * Size(job[r]) /\ GroupSize(r) = Size(job[r])
    BY <1>1, <1>2, JobsOnly DEF Places, Place, GroupSize, Size
  <2>2. mergeSize[r] \in Nat /\ mergeSize[r] >= 1 /\ Size(job[r]) \in Nat
    BY <1>1, <2>1, PowersPositive, JobFacts DEF Types
  <2> QED
    BY <2>1, <2>2
<1>3. \A a, b \in Ranks : \A k \in DOMAIN mail[a][b] : mail[a][b][k].comm \in Seq(Ranks)
  <2> SUFFICES ASSUME NEW a \in Ranks, NEW b \in Ranks, NEW k \in DOMAIN mail[a][b]
               PROVE  mail[a][b][k].comm \in Seq(Ranks)
    OBVIOUS
  <2>1. k \in 1 .. Len(mail[a][b])
    BY <1>1, MailFacts, LenProperties
  <2> QED
    BY <1>1, <2>1, MailFacts
<1>4. ASSUME NEW j \in JobIds PROVE created[j] \in [DOMAIN created[j] -> Seq(Ranks)]
  <2>1. First(j) \in Nat /\ Size(j) \in Nat
    BY <1>1, JobFacts DEF Types
  <2>2. Run(First(j), Size(j)) \in Seq(Ranks)
    <3>1. \A x \in Nat : First(j) <= x /\ x < First(j) + Size(j) => x \in Ranks
      BY <1>1, JobFacts DEF Types
    <3> QED
      BY <2>1, <3>1, RunFacts
  <2>3. created[j] = [r \in DOMAIN created[j] |-> Run(First(j), Size(j))]
    BY <1>1 DEF Created
  <2> QED
    BY <2>2, <2>3
<1>5. \A i \in bridges : i.job \in JobIds /\ i.comm \in Seq(Ranks) /\ i.remote \in Seq(Ranks)
  BY <1>1 DEF Types, Bridge
<1> QED
  BY <1>1, <1>2, <1>3, <1>4, <1>5 DEF TypeOK, Types

\* All jobs and rounds use one tag between the same two ranks, and still the first
\* message that has come from the remote leader is the one of the leader's own job
\* and round, however far the other has run ahead and however the blocks overlap.
THEOREM NeverMixedUp == Spec => []NoMixUp
<1> SUFFICES ASSUME Inv PROVE NoMixUp
  BY Invariance, PTL
<1> SUFFICES ASSUME NEW r \in Ranks, pc[r] = "create", Leader(r),
                    mail[RemoteLeader(r)][r] # <<>>
             PROVE  /\ Head(mail[RemoteLeader(r)][r]).job = job[r]
                    /\ Head(mail[RemoteLeader(r)][r]).round = mergeSize[r]
  BY DEF NoMixUp
<1>1. Types /\ Mailboxes /\ Place(r)
  BY DEF Inv, Places
<1> QED
  BY <1>1, HeadMatches

\* Whoever belongs to a rank's communicator and is in the same round of the same job
\* has the same communicator, its ranks in the same order: the merge flags agree.
THEOREM SidesAlwaysAgree == Spec => []SidesAgree
<1> SUFFICES ASSUME Inv PROVE SidesAgree
  BY Invariance, PTL
<1> SUFFICES ASSUME NEW r \in Ranks, NEW q \in Ranks, pc[r] # "listen", pc[q] # "listen",
                    job[r] = job[q], mergeSize[r] = mergeSize[q],
                    NEW i \in DOMAIN comm[r], comm[r][i] = q
             PROVE  comm[q] = comm[r]
  BY DEF SidesAgree
<1>1. PICK j, m, o : j = job[r] /\ m = mergeSize[r] /\ o = Offset(r)
  OBVIOUS
<1>2. Types /\ Place(r) /\ Place(q) /\ comm[r] = Side(j, o, m) /\ comm[q] = Side(j, Offset(q), m)
  BY <1>1 DEF Inv, Places, Place
<1>3. /\ j \in JobIds /\ m \in Powers /\ o \in Nat /\ o < Size(j) /\ jobs \in Workloads
      /\ GroupRank(r) \in Nat /\ GroupRank(q) = q - First(j)
  BY <1>1, <1>2, RoundFacts DEF Types
<1>4. /\ SideLen(j, o, m) \in Nat /\ SideLen(j, o, m) <= m
      /\ Side(j, o, m) \in Seq(Ranks) /\ Len(Side(j, o, m)) = SideLen(j, o, m)
      /\ \A k \in 1 .. SideLen(j, o, m) : Side(j, o, m)[k] = First(j) + o + k - 1
  BY <1>3, SideFacts
<1>5. i \in 1 .. SideLen(j, o, m)
  BY <1>2, <1>4, LenProperties
<1>6. m \in Nat /\ m >= 1 /\ First(j) \in Nat
  BY <1>3, PowersPositive, JobFacts
<1>7. q = First(j) + o + i - 1
  BY <1>2, <1>4, <1>5
<1>8. PICK x : x = GroupRank(q)
  OBVIOUS
<1>9. x \in Nat /\ o <= x /\ x < o + m
  BY <1>3, <1>4, <1>5, <1>6, <1>7, <1>8
<1>10. PICK k : k = GroupRank(r) \div m
  OBVIOUS
<1>11. k \in Nat /\ o = k * m
  BY <1>1, <1>3, <1>6, <1>10, DivFacts DEF Offset, Off
<1>12. x \div m = k
  BY <1>6, <1>9, <1>11, DivUnique
<1>13. Offset(q) = o
  BY <1>1, <1>8, <1>11, <1>12 DEF Offset, Off
<1> QED
  BY <1>2, <1>13

-----------------------------------------------------------------------------
(* The collective wait                                                      *)

RanksOf == [j \in JobIds |->
              [i \in 1 .. jobs[j].last - jobs[j].first + 1 |-> jobs[j].first + i - 1]]

LEMMA RanksOfFacts ==
    ASSUME jobs \in Workloads, NEW j \in JobIds
    PROVE  /\ RanksOf[j] = Run(First(j), Size(j))
           /\ \A q : (\E i \in DOMAIN RanksOf[j] : RanksOf[j][i] = q) <=> q \in Block(j)
<1>1. RanksOf[j] = Run(First(j), Size(j))
  BY DEF RanksOf, Run, First, Size
<1>2. /\ First(j) \in Nat /\ Size(j) \in Nat
      /\ \A x : x \in Block(j) <=> x \in Nat /\ First(j) <= x /\ x < First(j) + Size(j)
  BY JobFacts
<1>3. /\ Run(First(j), Size(j)) \in Seq(Nat) /\ Len(Run(First(j), Size(j))) = Size(j)
      /\ \A i \in 1 .. Size(j) : Run(First(j), Size(j))[i] = First(j) + i - 1
  BY <1>2, RunFacts
<1>4. DOMAIN RanksOf[j] = 1 .. Size(j)
  BY <1>1 DEF Run
<1>5. ASSUME NEW q \in Block(j) PROVE \E i \in DOMAIN RanksOf[j] : RanksOf[j][i] = q
  <2>1. q - First(j) + 1 \in 1 .. Size(j) /\ First(j) + (q - First(j) + 1) - 1 = q
    BY <1>2
  <2> QED
    BY <1>1, <1>3, <1>4, <2>1
<1>6. ASSUME NEW i \in DOMAIN RanksOf[j] PROVE RanksOf[j][i] \in Block(j)
  <2>1. RanksOf[j][i] = First(j) + i - 1 /\ i \in 1 .. Size(j)
    BY <1>1, <1>3, <1>4
  <2> QED
    BY <1>2, <2>1
<1> QED
  BY <1>1, <1>5, <1>6

LEMMA BeginComes ==
    ASSUME Inv, NEW r \in Ranks, Begin(r)
    PROVE  Comms!CommNext
<1>1. PICK j \in Ahead(r) : /\ job' = [job EXCEPT ![r] = j]
                            /\ entered' = [entered EXCEPT ![j] = @ \cup {r}]
  BY DEF Begin
<1>2. j \in JobIds /\ r \in Block(j) /\ job[r] < j /\ jobs \in Workloads
  BY <1>1 DEF Ahead, Block, Inv, Types
<1>3. r \notin entered[j]
  <2>1. j \in Nat /\ job[r] \in Nat
    BY <1>2 DEF Inv, Types, JobIds
  <2> QED
    BY <1>2, <2>1 DEF Inv, Entered
<1>4. \E i \in DOMAIN RanksOf[j] : RanksOf[j][i] = r
  BY <1>2, RanksOfFacts
<1>5. jobs' = jobs /\ created' = created
  BY DEF Begin
<1>6. Comms!Come(r, j)
  BY <1>1, <1>3, <1>4, <1>5 DEF Comms!Come, Comms!In, RanksOf
<1> QED
  BY <1>2, <1>6 DEF Comms!CommNext

LEMMA ReturnGoes ==
    ASSUME Inv, NEW r \in Ranks, Return(r)
    PROVE  Comms!CommNext
<1>1. PICK j : j = job[r]
  OBVIOUS
<1>2. /\ Types /\ Places /\ Place(r) /\ Entered /\ Created /\ pc[r] = "loop" /\ j \in JobIds
      /\ jobs \in Workloads
  BY <1>1, JobsOnly DEF Inv, Places, Return, Types
<1>3. comm[r] = Run(First(j), Size(j)) /\ r \in Block(j)
  BY <1>1, <1>2, ReturnPlace DEF Place
<1>4. RanksOf[j] = comm[r] /\ \A q : (\E i \in DOMAIN RanksOf[j] : RanksOf[j][i] = q) <=> q \in Block(j)
  BY <1>2, <1>3, RanksOfFacts
<1>5. ASSUME NEW q \in Block(j) PROVE q \in entered[j]
  <2>1. PICK i \in DOMAIN RanksOf[j] : RanksOf[j][i] = q
    BY <1>4
  <2>2. DOMAIN comm[r] = 1 .. Len(comm[r])
    BY <1>2, LenProperties DEF Types
  <2> QED
    BY <1>1, <1>2, <1>4, <2>1, <2>2 DEF Entered, AllIn
<1>6. r \notin DOMAIN created[j]
  <2>1. job[r] \in Nat
    BY <1>2 DEF Types
  <2> QED
    BY <1>1, <1>2, <2>1 DEF Created
<1>7. created' = [created EXCEPT ![j] = [q \in DOMAIN @ \cup {r} |-> RanksOf[j]]]
  <2>1. PICK c : c = created /\ c = [k \in JobIds |-> [q \in DOMAIN c[k] |-> Run(First(k), Size(k))]]
    BY <1>2 DEF Created
  <2>2. created' = [c EXCEPT ![j] = [q \in DOMAIN c[j] \cup {r} |->
                                       IF q = r THEN comm[r] ELSE c[j][q]]]
    BY <1>1, <2>1 DEF Return
  <2>3. \A q \in DOMAIN c[j] \cup {r} : (IF q = r THEN comm[r] ELSE c[j][q]) = RanksOf[j]
    <3>1. \A q \in DOMAIN c[j] : c[j][q] = Run(First(j), Size(j))
      BY <1>2, <2>1
    <3> QED
      BY <1>3, <1>4, <3>1
  <2>4. [q \in DOMAIN c[j] \cup {r} |-> IF q = r THEN comm[r] ELSE c[j][q]]
          = [q \in DOMAIN c[j] \cup {r} |-> RanksOf[j]]
    BY <2>3
  <2> QED
    BY <2>1, <2>2, <2>4
<1>8. jobs' = jobs /\ entered' = entered
  BY DEF Return
<1>9. Comms!Go(r, j)
  BY <1>3, <1>4, <1>5, <1>6, <1>7, <1>8 DEF Comms!Go, Comms!In, RanksOf
<1> QED
  BY <1>2, <1>9 DEF Comms!CommNext

\* The pairwise creation is the collective wait that listen() takes it for: every
\* step of it is a rank that comes, a rank that leaves with all ranks of the job in
\* their order once all have come, or nothing that the others can see.
THEOREM ImplementsTheWait == Spec => ImplementsComms
<1>1. Init => Comms!CommInit
  BY DEF Init, Comms!CommInit
<1>2. Inv /\ [Next]_vars => [Comms!CommNext]_(Comms!commVars)
  <2> SUFFICES ASSUME Inv, [Next]_vars
               PROVE  Comms!CommNext \/ UNCHANGED Comms!commVars
    OBVIOUS
  <2>1. ASSUME jobs' = jobs, entered' = entered, created' = created
        PROVE  UNCHANGED Comms!commVars
    BY <2>1 DEF Comms!commVars
  <2>2. ASSUME NEW r \in Ranks, Skip(r) \/ Meet(r) \/ Hear(r) \/ Follow(r)
        PROVE  UNCHANGED Comms!commVars
    BY <2>1, <2>2 DEF Skip, Meet, Hear, Follow
  <2>3. ASSUME UNCHANGED vars PROVE UNCHANGED Comms!commVars
    BY <2>1, <2>3 DEF vars
  <2> QED
    BY <2>2, <2>3, BeginComes, ReturnGoes DEF Next, Rank
<1> QED
  BY <1>1, <1>2, Invariance, PTL DEF Spec, ImplementsComms, Comms!CommSpec
==============================================================================
