------------------------- MODULE DataExchange_proofs -------------------------
(***************************************************************************)
(* Proofs about DataExchange for groups of any two sizes that divide one     *)
(* another, any number of steps, both modes, and MPI calls that copy their   *)
(* data or wait.                                                             *)
(*                                                                          *)
(* The argument: there is one log of the steps in which data is sent (Log).  *)
(* Every sender is at some place in it (Cursor), every receiver has a prefix *)
(* of it (Received), and between two partner ranks there is exactly what     *)
(* the one has given and the other not taken (Channel).                      *)
(***************************************************************************)
EXTENDS DataExchange, SequenceTheorems, WellFoundedInduction, TLAPS

-----------------------------------------------------------------------------
(* Who sends to whom                                                        *)

Linked(s, r) == \E l \in DOMAIN SenderRanks(s) : SenderRanks(s)[l] = r

\* where r is among s's partner ranks, and s among r's
At(s, r)   == CHOOSE l \in DOMAIN SenderRanks(s) : SenderRanks(s)[l] = r
From(r, s) == CHOOSE i \in DOMAIN ReceiverRanks(r) : ReceiverRanks(r)[i] = s

\* what r is sent by s in step g
Buffer(s, r, g) == Data(g, Part(s, At(s, r)))

-----------------------------------------------------------------------------
(* The inductive invariant                                                  *)

Message == {Stop} \cup {Data(g, p) : g \in 1 .. Steps, p \in Seq(Elements)}

Types ==
    /\ async \in Modes
    /\ step \in [Senders -> 0 .. Steps]
    /\ spc \in [Senders -> {"main", "ready", "told", "send", "posted", "await",
                            "stop", "stopped", "done"}]
    /\ sidx \in [Senders -> Nat]
    /\ ready \in BOOLEAN /\ stop \in BOOLEAN
    /\ sbcast \in [Senders -> Seq(BOOLEAN)] /\ rbcast \in [Receivers -> Seq(BOOLEAN)]
    /\ net \in [Senders -> [Receivers -> Seq(Message)]]
    /\ requests \in Nat
    /\ rpc \in [Receivers -> {"loop", "requested", "check", "told", "receive", "done"}]
    /\ ridx \in [Receivers -> Nat]
    /\ parts \in [Receivers -> Seq(Message)]
    /\ got \in [Receivers -> Seq(Seq(Message))]

\* The log: the steps in which data is sent, as rank 0 of the producer decides.
Log(G) ==
    /\ G \in Seq(1 .. Steps)
    /\ \A k, l \in 1 .. Len(G) : k < l => G[k] < G[l]
    /\ ~async => G = [k \in 1 .. Steps |-> k]

Logged(G, n) == \E k \in 1 .. Len(G) : G[k] = n

\* the steps before this one are behind s
Bound(s) == IF spc[s] \in {"ready", "told", "send", "posted"} THEN step[s] ELSE step[s] + 1

\* s is about to send, or sending
Sending(s) == spc[s] \in {"send", "posted"} \/ (spc[s] = "told" /\ ready)

\* c[s] steps of the log are behind s
Cursor(G, c, s) ==
    /\ c[s] \in 0 .. Len(G)
    /\ \A k \in 1 .. Len(G) : k <= c[s] <=> G[k] < Bound(s)
    /\ Sending(s) => c[s] < Len(G) /\ G[c[s] + 1] = step[s]
    /\ spc[s] = "told" /\ ~ready => c[s] = Len(G)
    /\ sidx[s] \in 1 .. Len(SenderRanks(s))
    /\ spc[s] \notin {"send", "posted"} => sidx[s] = 1
    /\ spc[s] \in {"told", "await", "stop", "stopped"} => s = 0
    /\ spc[s] \in {"await", "stop", "stopped", "done"} => step[s] = Steps
    /\ spc[s] \in {"ready", "told"} => async
    /\ spc[s] \in {"ready", "told", "send", "posted"} => step[s] >= 1

\* how many flags rank 0 has broadcast, and how many s has heeded
Told      == IF spc[0] = "ready" THEN step[0] - 1 ELSE step[0]
Heard(s)  == IF spc[s] = "ready" THEN step[s] - 1 ELSE step[s]

\* the flags on their way to s say which steps are in the log
Flags(G, s) ==
    /\ s = 0 \/ ~async => sbcast[s] = <<>>
    /\ async /\ s # 0 => /\ Heard(s) + Len(sbcast[s]) = Told
                         /\ \A k \in 1 .. Len(sbcast[s]) :
                               sbcast[s][k] <=> Logged(G, Heard(s) + k)

\* the stop message has been sent, and taken
StopGiven   == spc[0] \in {"stopped", "done"}
StopTaken   == (rpc[0] = "told" /\ stop) \/ rpc[0] = "done"
Stops(s, r) == IF s = 0 /\ r = 0 /\ StopGiven /\ ~StopTaken THEN 1 ELSE 0

\* how many steps' data s has given to r, and r has taken
Wrote(s, r) == \/ spc[s] = "send" /\ At(s, r) < sidx[s]
               \/ spc[s] = "posted" /\ At(s, r) <= sidx[s]

Given(c, s, r) == IF Wrote(s, r) THEN c[s] + 1 ELSE c[s]
Taken(s, r) == IF From(r, s) < ridx[r] THEN Len(got[r]) + 1 ELSE Len(got[r])

\* what is under way from s to r: the data given and not taken, in the order of
\* the log, and the stop message behind it
Channel(G, c, s, r) ==
    LET d == Given(c, s, r) - Taken(s, r) IN
    /\ ~Linked(s, r) => net[s][r] = <<>>
    /\ Linked(s, r) => /\ d \in Nat
                       /\ Len(net[s][r]) = d + Stops(s, r)
                       /\ \A k \in 1 .. d : net[s][r][k] = Buffer(s, r, G[Taken(s, r) + k])
                       /\ Stops(s, r) = 1 => net[s][r][d + 1] = Stop
                       /\ ~Buffered /\ d # 0 => spc[s] = "posted" /\ sidx[s] = At(s, r)

\* what r has received
Received(G, r) ==
    /\ ridx[r] \in 1 .. Len(ReceiverRanks(r))
    /\ rpc[r] # "receive" => ridx[r] = 1
    /\ rpc[r] \in {"requested", "told"} => r = 0
    /\ Len(parts[r]) = ridx[r] - 1
    /\ \A i \in 1 .. ridx[r] - 1 :
          parts[r][i] = Buffer(ReceiverRanks(r)[i], r, G[Len(got[r]) + 1])
    /\ Len(got[r]) <= Len(G)
    /\ \A k \in 1 .. Len(got[r]) :
          /\ Len(got[r][k]) = Len(ReceiverRanks(r))
          /\ \A i \in 1 .. Len(ReceiverRanks(r)) :
                got[r][k][i] = Buffer(ReceiverRanks(r)[i], r, G[k])

\* how many times rank 0 of the consumer has told the others to receive, and how
\* many times r has been told
Calls     == IF (rpc[0] = "told" /\ ~stop) \/ rpc[0] = "receive"
             THEN Len(got[0]) + 1 ELSE Len(got[0])
Called(r) == IF rpc[r] = "receive" THEN Len(got[r]) + 1 ELSE Len(got[r])

\* the flags on their way to r: to receive, and at last to stop
Orders(r) ==
    LET n == Calls - Called(r) IN
    /\ r = 0 => rbcast[r] = <<>>
    /\ r # 0 => /\ n \in Nat
                /\ Len(rbcast[r]) = IF StopTaken /\ rpc[r] # "done" THEN n + 1 ELSE n
                /\ \A k \in 1 .. n : ~rbcast[r][k]
                /\ StopTaken /\ rpc[r] # "done" => rbcast[r][n + 1]
                /\ rpc[r] = "done" => StopTaken /\ n = 0

\* Every request of receiver 0 is answered by a step of the log, or by the stop.
Answered(G) ==
    async => Len(G) + requests + (IF spc[0] \in {"stop", "stopped", "done"} THEN 1 ELSE 0)
                = Len(got[0]) + (IF rpc[0] = "loop" THEN 0 ELSE 1)

Matches(G, c) ==
    /\ Log(G) /\ Answered(G)
    /\ async => \A k \in 1 .. Len(G) : G[k] <= Told
    /\ ~async => requests = 0
    /\ StopTaken => StopGiven
    /\ \A s \in Senders : Cursor(G, c, s) /\ Flags(G, s)
    /\ \A s \in Senders, r \in Receivers : Channel(G, c, s, r)
    /\ \A r \in Receivers : Received(G, r) /\ Orders(r)

Inv == Types /\ \E G, c : Matches(G, c)

-----------------------------------------------------------------------------
(* The partner ranks                                                        *)

LEMMA Divided ==
    ASSUME NEW a \in Nat \ {0}, NEW b \in Nat \ {0}, a % b = 0
    PROVE  /\ a \div b \in Nat \ {0} /\ a = (a \div b) * b /\ b <= a
<1>1. a = b * (a \div b) + (a % b) /\ a \div b \in Int
  BY Z3
<1>2. a = b * (a \div b)
  BY <1>1
<1> DEFINE q == a \div b
<1>3. q \in Int /\ a = b * q
  BY <1>1, <1>2
<1> HIDE DEF q
<1>4. q >= 1
  BY <1>3, Z3
<1>5. a = q * b /\ b <= a
  BY <1>3, <1>4, Z3
<1> QED
  BY <1>3, <1>4, <1>5 DEF q

\* either several senders share a receiver, or the other way round, or both are one
ManySenders(d) ==
    /\ SendSize = d * RecvSize
    /\ \A s \in Senders : SenderRanks(s) = <<s \div d>>
    /\ \A r \in Receivers : ReceiverRanks(r) = [i \in 1 .. d |-> r * d + i - 1]

ManyReceivers(d) ==
    /\ RecvSize = d * SendSize
    /\ \A s \in Senders : SenderRanks(s) = [i \in 1 .. d |-> s * d + i - 1]
    /\ \A r \in Receivers : ReceiverRanks(r) = <<r \div d>>

LEMMA Singleton == ASSUME NEW x PROVE [i \in 1 .. 1 |-> x] = <<x>>
OBVIOUS

LEMMA TwoWays ==
    \E d \in Nat \ {0} : ManySenders(d) \/ ManyReceivers(d)
<1>1. SendSize \in Nat \ {0} /\ RecvSize \in Nat \ {0}
  BY SizesAssumption
<1>2. CASE SendSize % RecvSize = 0 /\ RecvSize < SendSize
  <2>1. PICK d \in Nat \ {0} : d = SendSize \div RecvSize /\ SendSize = d * RecvSize
    BY <1>1, <1>2, Divided
  <2>2. ASSUME NEW s \in Senders PROVE SenderRanks(s) = <<s \div d>>
    BY <1>1, <1>2, <2>1 DEF SenderRanks, RanksOf
  <2>3. ASSUME NEW r \in Receivers PROVE ReceiverRanks(r) = [i \in 1 .. d |-> r * d + i - 1]
    BY <1>1, <1>2, <2>1 DEF ReceiverRanks, RanksOf
  <2> QED
    BY <2>1, <2>2, <2>3 DEF ManySenders
<1>3. CASE RecvSize % SendSize = 0 /\ SendSize < RecvSize
  <2>1. PICK d \in Nat \ {0} : d = RecvSize \div SendSize /\ RecvSize = d * SendSize
    BY <1>1, <1>3, Divided
  <2>2. ASSUME NEW s \in Senders PROVE SenderRanks(s) = [i \in 1 .. d |-> s * d + i - 1]
    BY <1>1, <1>3, <2>1 DEF SenderRanks, RanksOf
  <2>3. ASSUME NEW r \in Receivers PROVE ReceiverRanks(r) = <<r \div d>>
    BY <1>1, <1>3, <2>1 DEF ReceiverRanks, RanksOf
  <2> QED
    BY <2>1, <2>2, <2>3 DEF ManyReceivers
<1>4. CASE SendSize = RecvSize
  <2>1. SendSize \div RecvSize = 1
    BY <1>1, <1>4, Z3
  <2>2. ASSUME NEW s \in Senders PROVE SenderRanks(s) = <<s \div 1>>
    BY <1>1, <1>4, <2>1 DEF SenderRanks, RanksOf
  <2>3. ASSUME NEW r \in Receivers PROVE ReceiverRanks(r) = [i \in 1 .. 1 |-> r * 1 + i - 1]
    <3>1. ReceiverRanks(r) = <<r>>
      <4>1. RecvSize \div SendSize = 1 /\ r \div 1 = r
        BY <1>1, <1>4, <2>1, Z3 DEF Receivers
      <4> QED
        BY <1>1, <1>4, <2>1, <4>1 DEF ReceiverRanks, RanksOf
    <3>2. [i \in 1 .. 1 |-> r * 1 + i - 1] = [i \in 1 .. 1 |-> r]
      BY DEF Receivers
    <3> QED
      BY <3>1, <3>2, Singleton
  <2>4. SendSize = 1 * RecvSize
    BY <1>1, <1>4
  <2>5. ManySenders(1)
    BY <2>2, <2>3, <2>4 DEF ManySenders
  <2>6. 1 \in Nat \ {0}
    OBVIOUS
  <2> QED
    BY <2>5, <2>6
<1>5. /\ SendSize % RecvSize = 0 => RecvSize <= SendSize
      /\ RecvSize % SendSize = 0 => SendSize <= RecvSize
  BY <1>1, Divided
<1> QED
  BY <1>1, <1>2, <1>3, <1>4, <1>5, SizesAssumption

\* d ranks of the larger group to one of the smaller
LEMMA Shares ==
    ASSUME NEW d \in Nat \ {0}, NEW n \in Nat \ {0}, NEW x \in 0 .. d * n - 1, NEW y \in 0 .. n - 1
    PROVE  /\ x \div d \in 0 .. n - 1
           /\ \A i \in 1 .. d : y * d + i - 1 \in 0 .. d * n - 1
           /\ x \div d = y <=> x - y * d + 1 \in 1 .. d
<1>1. x \in Nat /\ y \in Nat
  OBVIOUS
<1> DEFINE q == x \div d
<1>2. q \in Nat /\ q * d <= x /\ x < q * d + d
  BY <1>1, Z3
<1> HIDE DEF q
<1>3. ASSUME NEW i \in 1 .. d PROVE y * d + i - 1 \in 0 .. d * n - 1
  <2>1. (n - 1) - y \in Nat
    OBVIOUS
  <2>2. ((n - 1) - y) * d \in Nat
    BY <2>1
  <2>3. ((n - 1) - y) * d = d * n - d - y * d
    BY <1>1
  <2>4. y * d \in Nat /\ d * n \in Nat
    BY <1>1
  <2> QED
    BY <2>2, <2>3, <2>4
<1>4. q < n
  <2> SUFFICES ASSUME q >= n PROVE FALSE
    BY <1>2
  <2>1. (q - n) * d \in Nat /\ (q - n) * d = q * d - d * n
    BY <1>2
  <2>2. d * n \in Nat /\ q * d \in Nat
    BY <1>2
  <2> QED
    BY <1>2, <2>1, <2>2
<1>5. q = y => x - y * d + 1 \in 1 .. d
  BY <1>1, <1>2
<1>6. ASSUME x - y * d + 1 \in 1 .. d, q # y PROVE FALSE
  <2>1. y * d \in Nat /\ y * d <= x /\ x < y * d + d
    BY <1>1, <1>6
  <2>2. CASE q < y
    <3>1. (y - q - 1) * d \in Nat /\ (y - q - 1) * d = y * d - q * d - d /\ q * d \in Nat
      BY <1>1, <1>2, <2>2
    <3> QED
      BY <1>2, <2>1, <3>1
  <2>3. CASE y < q
    <3>1. (q - y - 1) * d \in Nat /\ (q - y - 1) * d = q * d - y * d - d /\ q * d \in Nat
      BY <1>1, <1>2, <2>3
    <3> QED
      BY <1>2, <2>1, <3>1
  <2> QED
    BY <1>1, <1>2, <1>6, <2>2, <2>3
<1> QED
  BY <1>1, <1>2, <1>3, <1>4, <1>5, <1>6 DEF q

\* a block of consecutive ranks
LEMMA BlockFacts ==
    ASSUME NEW S, NEW a \in Nat, NEW d \in Nat, \A i \in 1 .. d : a + i - 1 \in S
    PROVE  /\ [i \in 1 .. d |-> a + i - 1] \in Seq(S)
           /\ Len([i \in 1 .. d |-> a + i - 1]) = d
<1> DEFINE b == [i \in 1 .. d |-> a + i - 1]
<1>1. b \in [1 .. d -> S]
  OBVIOUS
<1>2. DOMAIN b = 1 .. d
  OBVIOUS
<1> HIDE DEF b
<1>3. b \in Seq(S)
  BY <1>1, SeqDef
<1>4. Len(b) \in Nat /\ DOMAIN b = 1 .. Len(b)
  BY <1>3, LenProperties
<1> QED
  BY <1>2, <1>3, <1>4 DEF b

LEMMA RanksTypes ==
    /\ \A s \in Senders : SenderRanks(s) \in Seq(Receivers) /\ Len(SenderRanks(s)) >= 1
    /\ \A r \in Receivers : ReceiverRanks(r) \in Seq(Senders) /\ Len(ReceiverRanks(r)) >= 1
<1>1. PICK d \in Nat \ {0} : ManySenders(d) \/ ManyReceivers(d)
  BY TwoWays
<1>2. SendSize \in Nat \ {0} /\ RecvSize \in Nat \ {0}
  BY SizesAssumption
<1>3. CASE ManySenders(d)
  <2>1. ASSUME NEW s \in Senders PROVE SenderRanks(s) \in Seq(Receivers) /\ Len(SenderRanks(s)) >= 1
    <3>1. s \in 0 .. d * RecvSize - 1 /\ 0 \in 0 .. RecvSize - 1
      BY <1>2, <1>3 DEF ManySenders, Senders
    <3>2. s \div d \in Receivers
      BY <1>2, <3>1, Shares DEF Receivers
    <3>3. SenderRanks(s) = <<s \div d>>
      BY <1>3 DEF ManySenders
    <3> QED
      BY <3>2, <3>3
  <2>2. ASSUME NEW r \in Receivers
        PROVE  ReceiverRanks(r) \in Seq(Senders) /\ Len(ReceiverRanks(r)) >= 1
    <3>1. r \in 0 .. RecvSize - 1 /\ 0 \in 0 .. d * RecvSize - 1
      <4>1. d * RecvSize >= 1
        BY <1>2, <1>3 DEF ManySenders
      <4> QED
        BY <1>2, <4>1 DEF Receivers
    <3>2. \A i \in 1 .. d : r * d + i - 1 \in Senders
      <4>1. \A i \in 1 .. d : r * d + i - 1 \in 0 .. d * RecvSize - 1
        BY <1>2, <3>1, Shares
      <4> QED
        BY <1>3, <4>1 DEF ManySenders, Senders
    <3>3. r * d \in Nat
      BY <1>2, <3>1
    <3>4. ReceiverRanks(r) = [i \in 1 .. d |-> r * d + i - 1]
      BY <1>3 DEF ManySenders
    <3> QED
      BY <3>2, <3>3, <3>4, BlockFacts
  <2> QED
    BY <2>1, <2>2
<1>4. CASE ManyReceivers(d)
  <2>1. ASSUME NEW r \in Receivers PROVE ReceiverRanks(r) \in Seq(Senders) /\ Len(ReceiverRanks(r)) >= 1
    <3>1. r \in 0 .. d * SendSize - 1 /\ 0 \in 0 .. SendSize - 1
      BY <1>2, <1>4 DEF ManyReceivers, Receivers
    <3>2. r \div d \in Senders
      BY <1>2, <3>1, Shares DEF Senders
    <3>3. ReceiverRanks(r) = <<r \div d>>
      BY <1>4 DEF ManyReceivers
    <3> QED
      BY <3>2, <3>3
  <2>2. ASSUME NEW s \in Senders
        PROVE  SenderRanks(s) \in Seq(Receivers) /\ Len(SenderRanks(s)) >= 1
    <3>1. s \in 0 .. SendSize - 1 /\ 0 \in 0 .. d * SendSize - 1
      <4>1. d * SendSize >= 1
        BY <1>2, <1>4 DEF ManyReceivers
      <4> QED
        BY <1>2, <4>1 DEF Senders
    <3>2. \A i \in 1 .. d : s * d + i - 1 \in Receivers
      <4>1. \A i \in 1 .. d : s * d + i - 1 \in 0 .. d * SendSize - 1
        BY <1>2, <3>1, Shares
      <4> QED
        BY <1>4, <4>1 DEF ManyReceivers, Receivers
    <3>3. s * d \in Nat
      BY <1>2, <3>1
    <3>4. SenderRanks(s) = [i \in 1 .. d |-> s * d + i - 1]
      BY <1>4 DEF ManyReceivers
    <3> QED
      BY <3>2, <3>3, <3>4, BlockFacts
  <2> QED
    BY <2>1, <2>2
<1> QED
  BY <1>1, <1>3, <1>4

\* each partner rank is at one place, and the partnership is mutual
LEMMA RanksMatch ==
    ASSUME NEW s \in Senders, NEW r \in Receivers
    PROVE  /\ \A k, l \in DOMAIN SenderRanks(s) : SenderRanks(s)[k] = SenderRanks(s)[l] => k = l
           /\ \A k, l \in DOMAIN ReceiverRanks(r) :
                 ReceiverRanks(r)[k] = ReceiverRanks(r)[l] => k = l
           /\ (\E l \in DOMAIN SenderRanks(s) : SenderRanks(s)[l] = r)
                 <=> (\E i \in DOMAIN ReceiverRanks(r) : ReceiverRanks(r)[i] = s)
<1>1. PICK d \in Nat \ {0} : ManySenders(d) \/ ManyReceivers(d)
  BY TwoWays
<1>2. SendSize \in Nat \ {0} /\ RecvSize \in Nat \ {0} /\ s \in Nat /\ r \in Nat
  BY SizesAssumption DEF Senders, Receivers
<1>3. CASE ManySenders(d)
  <2>1. SenderRanks(s) = <<s \div d>> /\ ReceiverRanks(r) = [i \in 1 .. d |-> r * d + i - 1]
    BY <1>3 DEF ManySenders
  <2>2. s \div d = r <=> s - r * d + 1 \in 1 .. d
    <3>1. s \in 0 .. d * RecvSize - 1 /\ r \in 0 .. RecvSize - 1
      BY <1>3 DEF ManySenders, Senders, Receivers
    <3> QED
      BY <1>2, <3>1, Shares
  <2>3. DOMAIN SenderRanks(s) = {1} /\ SenderRanks(s)[1] = s \div d
    BY <2>1
  <2>4. /\ DOMAIN ReceiverRanks(r) = 1 .. d
        /\ \A i \in 1 .. d : ReceiverRanks(r)[i] = r * d + i - 1
    BY <2>1
  <2>5. PICK b \in Nat : b = r * d
    BY <1>2
  <2>6. (\E i \in 1 .. d : b + i - 1 = s) <=> s - b + 1 \in 1 .. d
    <3>1. s - b + 1 \in 1 .. d => b + (s - b + 1) - 1 = s
      BY <1>2
    <3>2. ASSUME NEW i \in 1 .. d, b + i - 1 = s PROVE s - b + 1 = i
      BY <1>2, <3>2
    <3> QED
      BY <3>1, <3>2
  <2>7. \A i \in 1 .. d : ReceiverRanks(r)[i] = b + i - 1
    BY <2>4, <2>5
  <2>8. \A k, l \in 1 .. d : ReceiverRanks(r)[k] = ReceiverRanks(r)[l] => k = l
    <3>1. \A k, l \in 1 .. d : b + k - 1 = b + l - 1 => k = l
      OBVIOUS
    <3> QED
      BY <2>7, <3>1
  <2>9. (\E i \in 1 .. d : ReceiverRanks(r)[i] = s) <=> s - b + 1 \in 1 .. d
    BY <2>6, <2>7
  <2>10. \A k, l \in DOMAIN SenderRanks(s) : SenderRanks(s)[k] = SenderRanks(s)[l] => k = l
    BY <2>3
  <2> QED
    BY <2>2, <2>3, <2>4, <2>5, <2>8, <2>9, <2>10
<1>4. CASE ManyReceivers(d)
  <2>1. ReceiverRanks(r) = <<r \div d>> /\ SenderRanks(s) = [i \in 1 .. d |-> s * d + i - 1]
    BY <1>4 DEF ManyReceivers
  <2>2. r \div d = s <=> r - s * d + 1 \in 1 .. d
    <3>1. r \in 0 .. d * SendSize - 1 /\ s \in 0 .. SendSize - 1
      BY <1>4 DEF ManyReceivers, Senders, Receivers
    <3> QED
      BY <1>2, <3>1, Shares
  <2>3. DOMAIN ReceiverRanks(r) = {1} /\ ReceiverRanks(r)[1] = r \div d
    BY <2>1
  <2>4. /\ DOMAIN SenderRanks(s) = 1 .. d
        /\ \A i \in 1 .. d : SenderRanks(s)[i] = s * d + i - 1
    BY <2>1
  <2>5. PICK b \in Nat : b = s * d
    BY <1>2
  <2>6. (\E i \in 1 .. d : b + i - 1 = r) <=> r - b + 1 \in 1 .. d
    <3>1. r - b + 1 \in 1 .. d => b + (r - b + 1) - 1 = r
      BY <1>2
    <3>2. ASSUME NEW i \in 1 .. d, b + i - 1 = r PROVE r - b + 1 = i
      BY <1>2, <3>2
    <3> QED
      BY <3>1, <3>2
  <2>7. \A i \in 1 .. d : SenderRanks(s)[i] = b + i - 1
    BY <2>4, <2>5
  <2>8. \A k, l \in 1 .. d : SenderRanks(s)[k] = SenderRanks(s)[l] => k = l
    <3>1. \A k, l \in 1 .. d : b + k - 1 = b + l - 1 => k = l
      OBVIOUS
    <3> QED
      BY <2>7, <3>1
  <2>9. (\E i \in 1 .. d : SenderRanks(s)[i] = r) <=> r - b + 1 \in 1 .. d
    BY <2>6, <2>7
  <2>10. \A k, l \in DOMAIN ReceiverRanks(r) : ReceiverRanks(r)[k] = ReceiverRanks(r)[l] => k = l
    BY <2>3
  <2> QED
    BY <2>2, <2>3, <2>4, <2>5, <2>8, <2>9, <2>10
<1> QED
  BY <1>1, <1>3, <1>4

LEMMA LinkFacts ==
    ASSUME NEW s \in Senders, NEW r \in Receivers
    PROVE  /\ Len(SenderRanks(s)) \in Nat /\ Len(SenderRanks(s)) >= 1
           /\ Len(ReceiverRanks(r)) \in Nat /\ Len(ReceiverRanks(r)) >= 1
           /\ DOMAIN SenderRanks(s) = 1 .. Len(SenderRanks(s))
           /\ DOMAIN ReceiverRanks(r) = 1 .. Len(ReceiverRanks(r))
           /\ \A l \in 1 .. Len(SenderRanks(s)) : SenderRanks(s)[l] \in Receivers
           /\ \A i \in 1 .. Len(ReceiverRanks(r)) : ReceiverRanks(r)[i] \in Senders
           /\ Linked(s, r) => /\ At(s, r) \in 1 .. Len(SenderRanks(s))
                              /\ SenderRanks(s)[At(s, r)] = r
                              /\ From(r, s) \in 1 .. Len(ReceiverRanks(r))
                              /\ ReceiverRanks(r)[From(r, s)] = s
           /\ \A l \in 1 .. Len(SenderRanks(s)) :
                 SenderRanks(s)[l] = r => Linked(s, r) /\ At(s, r) = l
           /\ \A i \in 1 .. Len(ReceiverRanks(r)) :
                 ReceiverRanks(r)[i] = s => Linked(s, r) /\ From(r, s) = i
<1>1. /\ SenderRanks(s) \in Seq(Receivers) /\ Len(SenderRanks(s)) >= 1
      /\ ReceiverRanks(r) \in Seq(Senders) /\ Len(ReceiverRanks(r)) >= 1
  BY RanksTypes
<1>2. /\ Len(SenderRanks(s)) \in Nat /\ DOMAIN SenderRanks(s) = 1 .. Len(SenderRanks(s))
      /\ Len(ReceiverRanks(r)) \in Nat /\ DOMAIN ReceiverRanks(r) = 1 .. Len(ReceiverRanks(r))
  BY <1>1, LenProperties
<1>3. /\ \A l \in 1 .. Len(SenderRanks(s)) : SenderRanks(s)[l] \in Receivers
      /\ \A i \in 1 .. Len(ReceiverRanks(r)) : ReceiverRanks(r)[i] \in Senders
  BY <1>1, ElementOfSeq
<1>4. /\ \A k, l \in DOMAIN SenderRanks(s) : SenderRanks(s)[k] = SenderRanks(s)[l] => k = l
      /\ \A k, l \in DOMAIN ReceiverRanks(r) :
            ReceiverRanks(r)[k] = ReceiverRanks(r)[l] => k = l
      /\ (\E l \in DOMAIN SenderRanks(s) : SenderRanks(s)[l] = r)
            <=> (\E i \in DOMAIN ReceiverRanks(r) : ReceiverRanks(r)[i] = s)
  BY RanksMatch
<1>5. ASSUME Linked(s, r)
      PROVE  /\ At(s, r) \in DOMAIN SenderRanks(s) /\ SenderRanks(s)[At(s, r)] = r
             /\ From(r, s) \in DOMAIN ReceiverRanks(r) /\ ReceiverRanks(r)[From(r, s)] = s
  BY <1>4, <1>5 DEF Linked, At, From
<1>6. ASSUME NEW l \in DOMAIN SenderRanks(s), SenderRanks(s)[l] = r
      PROVE  Linked(s, r) /\ At(s, r) = l
  <2>1. Linked(s, r)
    BY <1>6 DEF Linked
  <2> QED
    BY <1>4, <1>5, <1>6, <2>1
<1>7. ASSUME NEW i \in DOMAIN ReceiverRanks(r), ReceiverRanks(r)[i] = s
      PROVE  Linked(s, r) /\ From(r, s) = i
  <2>1. Linked(s, r)
    BY <1>4, <1>7 DEF Linked
  <2> QED
    BY <1>4, <1>5, <1>7, <2>1
<1> QED
  BY <1>1, <1>2, <1>3, <1>5, <1>6, <1>7

LEMMA RootsMeet ==
    0 \in Senders /\ 0 \in Receivers /\ Linked(0, 0) /\ At(0, 0) = 1 /\ From(0, 0) = 1
<1>1. 0 \in Senders /\ 0 \in Receivers
  BY SizesAssumption DEF Senders, Receivers
<1>2. PICK d \in Nat \ {0} : ManySenders(d) \/ ManyReceivers(d)
  BY TwoWays
<1>3. 0 \div d = 0 /\ 0 * d + 1 - 1 = 0 /\ 1 \in 1 .. d
  BY Z3
<1>4. SenderRanks(0)[1] = 0 /\ ReceiverRanks(0)[1] = 0
  <2>1. CASE ManySenders(d)
    <3>1. SenderRanks(0) = <<0 \div d>> /\ ReceiverRanks(0) = [i \in 1 .. d |-> 0 * d + i - 1]
      BY <1>1, <2>1 DEF ManySenders
    <3> QED
      BY <1>3, <3>1
  <2>2. CASE ManyReceivers(d)
    <3>1. ReceiverRanks(0) = <<0 \div d>> /\ SenderRanks(0) = [i \in 1 .. d |-> 0 * d + i - 1]
      BY <1>1, <2>2 DEF ManyReceivers
    <3> QED
      BY <1>3, <3>1
  <2> QED
    BY <1>2, <2>1, <2>2
<1>5. 1 \in 1 .. Len(SenderRanks(0)) /\ 1 \in 1 .. Len(ReceiverRanks(0))
  BY <1>1, LinkFacts
<1> QED
  BY <1>1, <1>4, <1>5, LinkFacts

-----------------------------------------------------------------------------
(* Messages                                                                 *)

LEMMA ArrayFacts ==
    ASSUME NEW s \in Senders
    PROVE  /\ Array(s) \in Seq(Elements) /\ Len(Array(s)) = Count(s) /\ Count(s) \in Nat
           /\ \A i \in 1 .. Count(s) : Array(s)[i] = Element(s, i)
<1>1. Count(s) \in Nat
  BY CountAssumption
<1>2. DOMAIN Array(s) = 1 .. Count(s) /\ \A i \in 1 .. Count(s) : Array(s)[i] = Element(s, i)
  BY DEF Array
<1>3. ASSUME NEW i \in 1 .. Count(s) PROVE Array(s)[i] \in Elements
  <2>1. Array(s)[i] \in Range(Array(s))
    BY <1>2 DEF Range
  <2> QED
    BY <2>1 DEF Elements
<1>4. Array(s) \in [1 .. Count(s) -> Elements]
  BY <1>3 DEF Array
<1>5. Array(s) \in Seq(Elements)
  BY <1>1, <1>4, SeqDef
<1>6. Len(Array(s)) \in Nat /\ DOMAIN Array(s) = 1 .. Len(Array(s))
  BY <1>5, LenProperties
<1> QED
  BY <1>1, <1>2, <1>5, <1>6

LEMMA Quotient ==
    ASSUME NEW x \in Nat, NEW m \in Nat, m >= 1
    PROVE  x \div m \in Nat /\ (x \div m) * m <= x
BY Z3

\* where the part for the l-th receiver begins and ends
Begins(s, l) == (l - 1) * (Count(s) \div Len(SenderRanks(s))) + 1
Ends(s, l)   == IF l = Len(SenderRanks(s)) THEN Count(s)
                ELSE l * (Count(s) \div Len(SenderRanks(s)))

LEMMA PartBounds ==
    ASSUME NEW s \in Senders, NEW l \in 1 .. Len(SenderRanks(s))
    PROVE  /\ Part(s, l) = SubSeq(Array(s), Begins(s, l), Ends(s, l))
           /\ Begins(s, l) \in Nat /\ Begins(s, l) >= 1 /\ Ends(s, l) \in Nat
           /\ Ends(s, l) <= Count(s) /\ Begins(s, l) <= Ends(s, l) + 1
           /\ Begins(s, 1) = 1
           /\ l < Len(SenderRanks(s)) => Begins(s, l + 1) = Ends(s, l) + 1
<1>1. Len(SenderRanks(s)) \in Nat /\ Len(SenderRanks(s)) >= 1
  BY RanksTypes, LenProperties
<1>2. Count(s) \in Nat
  BY CountAssumption
<1>3. PICK n \in Nat, c \in Nat, share \in Nat :
         /\ n = Len(SenderRanks(s)) /\ c = Count(s) /\ share = c \div n
         /\ n >= 1 /\ l \in Nat /\ l >= 1 /\ l <= n
  <2>1. Count(s) \div Len(SenderRanks(s)) \in Nat
    BY <1>1, <1>2, Quotient
  <2>2. l \in Nat /\ l >= 1 /\ l <= Len(SenderRanks(s))
    BY <1>1
  <2> QED
    BY <1>1, <1>2, <2>1, <2>2
<1>4. share \in Nat /\ share * n <= c
  BY <1>3, Quotient
<1>5. /\ (l - 1) * share \in Nat /\ l * share \in Nat /\ l * share = (l - 1) * share + share
      /\ l * share <= share * n
  <2>1. PICK k \in Nat : n = k + l
    <3>1. n - l \in Nat /\ n = (n - l) + l
      BY <1>3
    <3> QED
      BY <3>1
  <2>5. k \in Nat /\ l \in Nat /\ l >= 1 /\ n \in Nat /\ share \in Nat
    BY <1>3, <1>4
  <2>6. share * (k + l) = k * share + l * share /\ k * share \in Nat
    BY <2>5
  <2>4. share * n = k * share + l * share /\ k * share \in Nat
    BY <2>1, <2>6
  <2>2. (l - 1) * share \in Nat /\ l * share \in Nat /\ l * share = (l - 1) * share + share
    BY <2>5
  <2>3. share * n \in Nat
    BY <2>5
  <2> QED
    BY <2>2, <2>3, <2>4
<1>6. /\ Begins(s, l) = (l - 1) * share + 1
      /\ Begins(s, l + 1) = l * share + 1
      /\ Ends(s, l) = IF l = n THEN c ELSE l * share
  BY <1>3 DEF Begins, Ends
<1>7. Begins(s, 1) = 1
  BY <1>3, <1>4 DEF Begins
<1>8. Part(s, l) = SubSeq(Array(s), Begins(s, l), Ends(s, l))
  BY DEF Part, Begins, Ends
<1>9. share * n \in Nat
  BY <1>1, <1>3, <1>4
<1>10. PICK a \in Nat, b \in Nat, e \in Nat : a = (l - 1) * share /\ b = l * share /\ e = share * n
  BY <1>5, <1>9
<1>11. b = a + share /\ b <= e /\ e <= c /\ Begins(s, l) = a + 1 /\ Begins(s, l + 1) = b + 1
  BY <1>4, <1>5, <1>6, <1>10
<1>12. Ends(s, l) = IF l = n THEN c ELSE b
  BY <1>6, <1>10
<1>13. /\ Begins(s, l) \in Nat /\ Begins(s, l) >= 1 /\ Ends(s, l) \in Nat
       /\ Ends(s, l) <= Count(s) /\ Begins(s, l) <= Ends(s, l) + 1
  <2>5. b <= c
    BY <1>11
  <2>1. Ends(s, l) \in Nat /\ Ends(s, l) <= c /\ b <= Ends(s, l)
    BY <1>12, <2>5
  <2>2. a <= b
    BY <1>4, <1>11
  <2>3. a + 1 <= Ends(s, l) + 1
    BY <2>1, <2>2
  <2>4. Begins(s, l) = a + 1 /\ Count(s) = c
    BY <1>3, <1>11
  <2> QED
    BY <2>1, <2>3, <2>4
<1>14. l < Len(SenderRanks(s)) => Begins(s, l + 1) = Ends(s, l) + 1
  BY <1>3, <1>11, <1>12
<1> QED
  BY <1>7, <1>8, <1>13, <1>14

LEMMA PartType ==
    ASSUME NEW s \in Senders, NEW l \in 1 .. Len(SenderRanks(s))
    PROVE  Part(s, l) \in Seq(Elements)
<1>1. PICK a, b : a = Begins(s, l) /\ b = Ends(s, l)
  OBVIOUS
<1>2. /\ Part(s, l) = SubSeq(Array(s), a, b) /\ a \in Nat /\ a >= 1 /\ b \in Nat
      /\ b <= Len(Array(s)) /\ Array(s) \in Seq(Elements)
  BY <1>1, PartBounds, ArrayFacts
<1>3. \A i \in a .. b : Array(s)[i] \in Elements
  <2>1. \A i \in a .. b : i \in 1 .. Len(Array(s))
    BY <1>2
  <2> QED
    BY <1>2, <2>1, ElementOfSeq
<1> QED
  BY <1>2, <1>3, SubSeqProperties

LEMMA MessageFacts ==
    /\ Stop \in Message /\ Stop.tag = "stop"
    /\ \A g, p : Data(g, p).tag = "data" /\ Data(g, p).step = g /\ Data(g, p).part = p
    /\ \A g \in 1 .. Steps, p \in Seq(Elements) : Data(g, p) \in Message
    /\ \A m \in Message : m = Stop \/ IsBuffer(m)
<1>1. Stop \in Message /\ Stop.tag = "stop"
  BY DEF Message, Stop
<1>2. ASSUME NEW g, NEW p
      PROVE  Data(g, p).tag = "data" /\ Data(g, p).step = g /\ Data(g, p).part = p
  BY DEF Data
<1>3. ASSUME NEW g \in 1 .. Steps, NEW p \in Seq(Elements)
      PROVE  Data(g, p) \in Message /\ IsBuffer(Data(g, p))
  BY <1>2 DEF Message, IsBuffer
<1>4. ASSUME NEW m \in Message PROVE m = Stop \/ IsBuffer(m)
  <2>1. m = Stop \/ \E g \in 1 .. Steps, p \in Seq(Elements) : m = Data(g, p)
    BY DEF Message
  <2> QED
    BY <1>3, <2>1
<1> QED
  BY <1>1, <1>2, <1>3, <1>4

LEMMA BufferFacts ==
    ASSUME NEW s \in Senders, NEW r \in Receivers, Linked(s, r), NEW g \in 1 .. Steps
    PROVE  /\ Buffer(s, r, g) \in Message /\ IsBuffer(Buffer(s, r, g))
           /\ Buffer(s, r, g).tag = "data" /\ Buffer(s, r, g).step = g
           /\ Buffer(s, r, g).part = Part(s, At(s, r))
<1>1. Part(s, At(s, r)) \in Seq(Elements)
  BY LinkFacts, PartType
<1> QED
  BY <1>1, MessageFacts DEF Buffer, IsBuffer

\* the oldest data message is the first one, and the stop message the last one
LEMMA Oldests ==
    ASSUME NEW q \in Seq(Message), NEW d \in Nat, NEW e \in {0, 1}, Len(q) = d + e,
           \A k \in 1 .. d : q[k].tag = "data", e = 1 => q[d + 1] = Stop
    PROVE  /\ Tagged(q, "data") # {} <=> d # 0
           /\ d # 0 => Oldest(q, "data") = 1
           /\ Tagged(q, "stop") # {} <=> e = 1
           /\ e = 1 => Oldest(q, "stop") = d + 1
<1>1. DOMAIN q = 1 .. (d + e)
  BY LenProperties
<1>2. Tagged(q, "data") = 1 .. d
  <2>1. ASSUME NEW k \in 1 .. (d + e) PROVE q[k].tag = "data" <=> k \in 1 .. d
    <3>1. CASE k \in 1 .. d
      BY <3>1
    <3>2. CASE k \notin 1 .. d
      <4>1. k = d + 1 /\ e = 1
        BY <3>2
      <4> QED
        BY <3>2, <4>1, MessageFacts
    <3> QED
      BY <3>1, <3>2
  <2>2. 1 .. d \subseteq 1 .. (d + e)
    OBVIOUS
  <2> QED
    BY <1>1, <2>1, <2>2 DEF Tagged
<1>3. Tagged(q, "stop") = IF e = 1 THEN {d + 1} ELSE {}
  <2>1. ASSUME NEW k \in 1 .. (d + e) PROVE q[k].tag = "stop" <=> e = 1 /\ k = d + 1
    <3>1. CASE k \in 1 .. d
      BY <3>1
    <3>2. CASE k \notin 1 .. d
      <4>1. k = d + 1 /\ e = 1
        BY <3>2
      <4> QED
        BY <3>2, <4>1, MessageFacts
    <3> QED
      BY <3>1, <3>2
  <2> QED
    BY <1>1, <2>1 DEF Tagged
<1>4. d # 0 => Oldest(q, "data") = 1
  <2> SUFFICES ASSUME d # 0 PROVE Oldest(q, "data") = 1
    OBVIOUS
  <2>1. 1 \in 1 .. d /\ \A l \in 1 .. d : 1 <= l
    OBVIOUS
  <2>2. \A k \in 1 .. d : (\A l \in 1 .. d : k <= l) => k = 1
    BY <2>1
  <2> QED
    BY <1>2, <2>1, <2>2 DEF Oldest
<1>5. e = 1 => Oldest(q, "stop") = d + 1
  BY <1>3 DEF Oldest
<1>6. Tagged(q, "data") # {} <=> d # 0
  <2>1. d # 0 => 1 \in 1 .. d
    OBVIOUS
  <2>2. d = 0 => 1 .. d = {}
    OBVIOUS
  <2> QED
    BY <1>2, <2>1, <2>2
<1>7. Tagged(q, "stop") # {} <=> e = 1
  BY <1>3
<1> QED
  BY <1>4, <1>5, <1>6, <1>7

-----------------------------------------------------------------------------
(* What a step leaves alone                                                 *)

LEMMA CursorKept ==
    ASSUME NEW G, NEW c, NEW p \in Senders, Cursor(G, c, p), async' = async,
           spc'[p] = spc[p], step'[p] = step[p], sidx'[p] = sidx[p],
           spc[p] = "told" => ready' = ready
    PROVE  Cursor(G, c, p)'
BY DEF Cursor, Bound, Sending

LEMMA FlagsKept ==
    ASSUME NEW G, NEW p \in Senders, Flags(G, p), async' = async, sbcast'[p] = sbcast[p],
           async => Told' = Told /\ Heard(p)' = Heard(p)
    PROVE  Flags(G, p)'
BY DEF Flags, Logged

LEMMA ChannelKept ==
    ASSUME NEW G, NEW c, NEW p \in Senders, NEW r \in Receivers, Channel(G, c, p, r),
           net'[p][r] = net[p][r], Taken(p, r)' = Taken(p, r),
           Linked(p, r) => Given(c, p, r)' = Given(c, p, r) /\ Stops(p, r)' = Stops(p, r),
           ~Buffered /\ Linked(p, r) /\ spc[p] = "posted" /\ sidx[p] = At(p, r)
              => spc'[p] = "posted" /\ sidx'[p] = sidx[p]
    PROVE  Channel(G, c, p, r)'
BY DEF Channel

LEMMA ReceivedKept ==
    ASSUME NEW G, NEW r \in Receivers, Received(G, r), ridx'[r] = ridx[r], rpc'[r] = rpc[r],
           parts'[r] = parts[r], got'[r] = got[r]
    PROVE  Received(G, r)'
BY DEF Received

LEMMA OrdersKept ==
    ASSUME NEW r \in Receivers, Orders(r), rbcast'[r] = rbcast[r], Calls' = Calls,
           Called(r)' = Called(r), StopTaken' <=> StopTaken, rpc'[r] = "done" <=> rpc[r] = "done"
    PROVE  Orders(r)'
BY DEF Orders

LEMMA AnsweredKept ==
    ASSUME NEW G, Answered(G), async' = async, requests' = requests, got'[0] = got[0],
           rpc'[0] = "loop" <=> rpc[0] = "loop",
           async => (spc'[0] \in {"stop", "stopped", "done"}
                       <=> spc[0] \in {"stop", "stopped", "done"})
    PROVE  Answered(G)'
<1> DEFINE was == IF spc[0] \in {"stop", "stopped", "done"} THEN 1 ELSE 0
           had == IF rpc[0] = "loop" THEN 0 ELSE 1
<1>1. async => (IF spc'[0] \in {"stop", "stopped", "done"} THEN 1 ELSE 0) = was
  OBVIOUS
<1>2. (IF rpc'[0] = "loop" THEN 0 ELSE 1) = had
  OBVIOUS
<1> QED
  BY <1>1, <1>2 DEF Answered

\* a step of the sender s that neither broadcasts nor adds to the log
LEMMA SenderSide ==
    ASSUME Types, NEW G, NEW c, Matches(G, c), NEW s \in Senders, NEW e,
           async' = async, ready' = ready, UNCHANGED receiverVars, async => Told' = Told,
           \A p \in Senders \ {s} : /\ spc'[p] = spc[p] /\ step'[p] = step[p]
                                    /\ sidx'[p] = sidx[p] /\ sbcast'[p] = sbcast[p]
                                    /\ net'[p] = net[p] /\ e[p] = c[p],
           Cursor(G, e, s)', Flags(G, s)', \A r \in Receivers : Channel(G, e, s, r)',
           Answered(G)', ~async => requests' = 0, StopTaken => StopGiven'
    PROVE  Matches(G, e)'
<1>1. /\ rpc' = rpc /\ ridx' = ridx /\ stop' = stop /\ rbcast' = rbcast /\ parts' = parts
      /\ got' = got
  BY DEF receiverVars
<1>2. ASSUME NEW p \in Senders \ {s}, NEW r \in Receivers PROVE Channel(G, e, p, r)'
  <2>1. Channel(G, c, p, r)
    BY DEF Matches
  <2>2. Given(c, p, r) = Given(e, p, r) /\ Given(e, p, r)' = Given(e, p, r)
    BY DEF Given, Wrote
  <2>3. Taken(p, r)' = Taken(p, r)
    BY <1>1 DEF Taken
  <2>4. Stops(p, r)' = Stops(p, r)
    BY <1>1 DEF Stops, StopGiven, StopTaken
  <2>5. Channel(G, e, p, r)
    BY <2>1, <2>2 DEF Channel
  <2> QED
    BY <2>2, <2>3, <2>4, <2>5, ChannelKept
<1>3. ASSUME NEW p \in Senders \ {s} PROVE Cursor(G, e, p)' /\ Flags(G, p)'
  <2>1. Cursor(G, c, p) /\ Flags(G, p)
    BY DEF Matches
  <2>2. Cursor(G, e, p)
    BY <2>1 DEF Cursor
  <2>3. Cursor(G, e, p)'
    BY <2>2, CursorKept
  <2>4. Heard(p)' = Heard(p)
    BY DEF Heard
  <2>5. Flags(G, p)'
    BY <2>1, <2>4, FlagsKept
  <2> QED
    BY <2>3, <2>5
<1>4. ASSUME NEW r \in Receivers PROVE Received(G, r)' /\ Orders(r)'
  <2>1. Received(G, r) /\ Orders(r)
    BY DEF Matches
  <2>2. Received(G, r)'
    BY <1>1, <2>1, ReceivedKept
  <2>3. Calls' = Calls /\ Called(r)' = Called(r) /\ (StopTaken' <=> StopTaken)
    BY <1>1 DEF Calls, Called, StopTaken
  <2>4. Orders(r)'
    BY <1>1, <2>1, <2>3, OrdersKept
  <2> QED
    BY <2>2, <2>4
<1>5. Log(G)' /\ (async => \A k \in 1 .. Len(G) : G[k] <= Told)'
  BY DEF Matches, Log
<1>6. (StopTaken => StopGiven)'
  <2>1. StopTaken' <=> StopTaken
    BY <1>1 DEF StopTaken
  <2> QED
    BY <2>1
<1>7. \A p \in Senders : Cursor(G, e, p)' /\ Flags(G, p)'
  BY <1>3
<1>8. \A p \in Senders, r \in Receivers : Channel(G, e, p, r)'
  BY <1>2
<1> QED
  BY <1>4, <1>5, <1>6, <1>7, <1>8 DEF Matches

\* a step of the receiver r
LEMMA ReceiverSide ==
    ASSUME Types, NEW G, NEW c, Matches(G, c), NEW r \in Receivers,
           async' = async, UNCHANGED senderVars, r # 0 => stop' = stop,
           \A q \in Receivers \ {r} : /\ rpc'[q] = rpc[q] /\ ridx'[q] = ridx[q]
                                      /\ parts'[q] = parts[q] /\ got'[q] = got[q],
           \A p \in Senders, q \in Receivers \ {r} : net'[p][q] = net[p][q],
           Received(G, r)', \A q \in Receivers : Orders(q)',
           \A p \in Senders : Channel(G, c, p, r)',
           Answered(G)', ~async => requests' = 0, StopTaken' => StopGiven
    PROVE  Matches(G, c)'
<1>1. step' = step /\ spc' = spc /\ sidx' = sidx /\ ready' = ready /\ sbcast' = sbcast
  BY DEF senderVars
<1>2. ASSUME NEW p \in Senders, NEW q \in Receivers \ {r} PROVE Channel(G, c, p, q)'
  <2>1. Channel(G, c, p, q)
    BY DEF Matches
  <2>2. Given(c, p, q)' = Given(c, p, q)
    BY <1>1 DEF Given, Wrote
  <2>3. Taken(p, q)' = Taken(p, q)
    BY DEF Taken
  <2>4. Stops(p, q)' = Stops(p, q)
    <3>1. CASE q = 0
      BY <1>1, <3>1 DEF Stops, StopGiven, StopTaken
    <3>2. CASE q # 0
      BY <3>2 DEF Stops
    <3> QED
      BY <3>1, <3>2
  <2> QED
    BY <1>1, <2>1, <2>2, <2>3, <2>4, ChannelKept
<1>3. ASSUME NEW p \in Senders PROVE Cursor(G, c, p)' /\ Flags(G, p)'
  <2>1. Cursor(G, c, p) /\ Flags(G, p)
    BY DEF Matches
  <2>2. Cursor(G, c, p)'
    BY <1>1, <2>1, CursorKept
  <2>3. Heard(p)' = Heard(p) /\ Told' = Told
    BY <1>1 DEF Heard, Told
  <2>4. Flags(G, p)'
    BY <1>1, <2>1, <2>3, FlagsKept
  <2> QED
    BY <2>2, <2>4
<1>4. ASSUME NEW q \in Receivers \ {r} PROVE Received(G, q)'
  <2>1. Received(G, q)
    BY DEF Matches
  <2> QED
    BY <2>1, ReceivedKept
<1>5. Log(G)' /\ (async => \A k \in 1 .. Len(G) : G[k] <= Told)'
  <2>1. Told' = Told
    BY <1>1 DEF Told
  <2> QED
    BY <2>1 DEF Matches, Log
<1>6. (StopTaken => StopGiven)'
  BY <1>1 DEF StopGiven
<1>7. \A q \in Receivers : Received(G, q)'
  BY <1>4
<1>8. \A p \in Senders, q \in Receivers : Channel(G, c, p, q)'
  BY <1>2
<1> QED
  BY <1>3, <1>5, <1>6, <1>7, <1>8 DEF Matches

-----------------------------------------------------------------------------
(* The initial state                                                        *)

LEMMA RemoveFacts ==
    ASSUME NEW S, NEW q \in Seq(S), NEW i \in 1 .. Len(q)
    PROVE  /\ RemoveAt(q, i) \in Seq(S) /\ Len(RemoveAt(q, i)) = Len(q) - 1
           /\ \A k \in 1 .. Len(q) - 1 : RemoveAt(q, i)[k] = IF k < i THEN q[k] ELSE q[k + 1]
<1>1. Len(q) \in Nat
  BY LenProperties
<1>2. PICK n \in Nat : n = Len(q)
  BY <1>1
<1>3. PICK a, b : a = SubSeq(q, 1, i - 1) /\ b = SubSeq(q, i + 1, n)
  OBVIOUS
<1>4. /\ a \in Seq(S) /\ Len(a) = i - 1
      /\ \A k \in 1 .. i - 1 : a[k] = q[k]
  <2>1. \A k \in 1 .. i - 1 : q[k] \in S
    BY <1>2, ElementOfSeq
  <2>2. i - 1 \in Int
    OBVIOUS
  <2>3. /\ a \in Seq(S) /\ Len(a) = IF 1 <= i - 1 THEN (i - 1) - 1 + 1 ELSE 0
        /\ \A k \in 1 .. (i - 1) - 1 + 1 : a[k] = q[1 + k - 1]
    BY <1>3, <2>1, <2>2, SubSeqProperties
  <2> QED
    BY <1>2, <2>3
<1>5. /\ b \in Seq(S) /\ Len(b) = n - i
      /\ \A k \in 1 .. n - i : b[k] = q[i + k]
  <2>1. \A k \in i + 1 .. n : q[k] \in S
    <3>1. \A k \in i + 1 .. n : k \in 1 .. Len(q)
      BY <1>2
    <3> QED
      BY <3>1, ElementOfSeq
  <2>2. i + 1 \in Int
    OBVIOUS
  <2>3. /\ b \in Seq(S) /\ Len(b) = IF i + 1 <= n THEN n - (i + 1) + 1 ELSE 0
        /\ \A k \in 1 .. n - (i + 1) + 1 : b[k] = q[i + 1 + k - 1]
    BY <1>2, <1>3, <2>1, <2>2, SubSeqProperties
  <2> QED
    BY <1>2, <2>3
<1>6. RemoveAt(q, i) = a \o b
  BY <1>2, <1>3 DEF RemoveAt
<1>7. /\ a \o b \in Seq(S) /\ Len(a \o b) = (i - 1) + (n - i)
      /\ \A k \in 1 .. (i - 1) + (n - i) :
            (a \o b)[k] = IF k <= i - 1 THEN a[k] ELSE b[k - (i - 1)]
  <2>1. /\ a \o b \in Seq(S) /\ Len(a \o b) = Len(a) + Len(b)
        /\ \A k \in 1 .. Len(a) + Len(b) :
              (a \o b)[k] = IF k <= Len(a) THEN a[k] ELSE b[k - Len(a)]
    BY <1>4, <1>5, ConcatProperties
  <2>2. Len(a) = i - 1 /\ Len(b) = n - i
    BY <1>4, <1>5
  <2> QED
    BY <2>1, <2>2
<1>8. ASSUME NEW k \in 1 .. n - 1
      PROVE  (a \o b)[k] = IF k < i THEN q[k] ELSE q[k + 1]
  <2>1. (a \o b)[k] = IF k <= i - 1 THEN a[k] ELSE b[k - (i - 1)]
    <3>1. k \in 1 .. (i - 1) + (n - i)
      BY <1>2
    <3> QED
      BY <1>7, <3>1
  <2>2. CASE k < i
    BY <1>4, <2>1, <2>2
  <2>3. CASE ~(k < i)
    <3>1. k - (i - 1) \in 1 .. n - i /\ i + (k - (i - 1)) = k + 1
      BY <1>2, <2>3
    <3>2. b[k - (i - 1)] = q[k + 1]
      BY <1>5, <3>1
    <3> QED
      BY <2>1, <2>3, <3>2
  <2> QED
    BY <2>2, <2>3
<1> QED
  BY <1>2, <1>6, <1>7, <1>8

LEMMA BcastFacts ==
    ASSUME NEW P, NEW queues, NEW flag, queues \in [P -> Seq(BOOLEAN)], flag \in BOOLEAN
    PROVE  /\ Bcast(queues, flag) \in [P -> Seq(BOOLEAN)]
           /\ \A p \in P : p = 0 => Bcast(queues, flag)[p] = queues[p]
           /\ \A p \in P : p # 0 =>
                 /\ Len(Bcast(queues, flag)[p]) = Len(queues[p]) + 1
                 /\ \A k \in 1 .. Len(queues[p]) : Bcast(queues, flag)[p][k] = queues[p][k]
                 /\ Bcast(queues, flag)[p][Len(queues[p]) + 1] = flag
<1>1. ASSUME NEW p \in P
      PROVE  Bcast(queues, flag)[p] = IF p = 0 THEN queues[p] ELSE Append(queues[p], flag)
  BY DEF Bcast
<1>2. ASSUME NEW p \in P
      PROVE  /\ Append(queues[p], flag) \in Seq(BOOLEAN)
             /\ Len(Append(queues[p], flag)) = Len(queues[p]) + 1
             /\ \A k \in 1 .. Len(queues[p]) : Append(queues[p], flag)[k] = queues[p][k]
             /\ Append(queues[p], flag)[Len(queues[p]) + 1] = flag
  <2>1. queues[p] \in Seq(BOOLEAN)
    OBVIOUS
  <2> QED
    BY <2>1, AppendProperties
<1>3. Bcast(queues, flag) \in [P -> Seq(BOOLEAN)]
  <2>1. \A p \in P : (IF p = 0 THEN queues[p] ELSE Append(queues[p], flag)) \in Seq(BOOLEAN)
    BY <1>2
  <2> QED
    BY <2>1 DEF Bcast
<1> QED
  BY <1>1, <1>2, <1>3

LEMMA StepsLog == /\ [k \in 1 .. Steps |-> k] \in Seq(1 .. Steps)
                  /\ Len([k \in 1 .. Steps |-> k]) = Steps
<1>1. Steps \in Nat /\ [k \in 1 .. Steps |-> k] \in [1 .. Steps -> 1 .. Steps]
  BY SizesAssumption
<1>2. [k \in 1 .. Steps |-> k] \in Seq(1 .. Steps)
  BY <1>1, SeqDef
<1>3. PICK f : f = [k \in 1 .. Steps |-> k]
  OBVIOUS
<1>4. Len(f) \in Nat /\ DOMAIN f = 1 .. Len(f) /\ DOMAIN f = 1 .. Steps
  BY <1>2, <1>3, LenProperties
<1> QED
  BY <1>1, <1>2, <1>3, <1>4

LEMMA InitInv == Init => Inv
<1> SUFFICES ASSUME Init PROVE Inv
  OBVIOUS
<1>1. Steps \in Nat /\ 0 \in Senders /\ 0 \in Receivers
  BY RootsMeet, SizesAssumption
<1>2. Types
  BY <1>1, ModesAssumption DEF Init, Types
<1>3. PICK G : /\ G \in Seq(1 .. Steps)
               /\ async => G = <<>>
               /\ ~async => G = [k \in 1 .. Steps |-> k]
  <2>1. <<>> \in Seq(1 .. Steps) /\ [k \in 1 .. Steps |-> k] \in Seq(1 .. Steps)
    BY StepsLog
  <2>2. CASE async
    BY <2>1, <2>2
  <2>3. CASE ~async
    BY <2>1, <2>3
  <2> QED
    BY <2>2, <2>3
<1>4. /\ Len(G) \in Nat /\ DOMAIN G = 1 .. Len(G) /\ (async => Len(G) = 0)
      /\ (~async => \A k \in 1 .. Len(G) : G[k] = k)
  <2>1. Len(G) \in Nat /\ DOMAIN G = 1 .. Len(G)
    BY <1>3, LenProperties
  <2>2. ~async => \A k \in DOMAIN G : G[k] = k
    BY <1>3
  <2> QED
    BY <1>3, <2>1, <2>2
<1>5. async \in BOOLEAN
  BY <1>2, ModesAssumption DEF Types
<1>6. Log(G)
  BY <1>3, <1>4, <1>5 DEF Log
<1>7. PICK c : c = [p \in Senders |-> 0]
  OBVIOUS
<1>8. ASSUME NEW s \in Senders PROVE Cursor(G, c, s) /\ Flags(G, s)
  <2>1. c[s] = 0 /\ Bound(s) = 1 /\ ~Sending(s) /\ spc[s] = "main" /\ sidx[s] = 1
    BY <1>7 DEF Init, Bound, Sending
  <2>2. Cursor(G, c, s)
    BY <1>4, <1>5, <2>1, LinkFacts, <1>1 DEF Cursor
  <2>3. Heard(s) = 0 /\ Told = 0 /\ sbcast[s] = <<>>
    BY <1>1 DEF Init, Heard, Told
  <2>4. Flags(G, s)
    BY <2>3 DEF Flags
  <2> QED
    BY <2>2, <2>4
<1>9. ASSUME NEW s \in Senders, NEW r \in Receivers PROVE Channel(G, c, s, r)
  <2>1. Given(c, s, r) = 0
    BY <1>7 DEF Given, Wrote, Init
  <2>2. Linked(s, r) => Taken(s, r) = 0
    <3>1. Linked(s, r) => From(r, s) \in 1 .. Len(ReceiverRanks(r)) /\ Len(ReceiverRanks(r)) \in Nat
      BY LinkFacts
    <3>2. ridx[r] = 1 /\ got[r] = <<>>
      BY DEF Init
    <3> QED
      BY <3>1, <3>2 DEF Taken
  <2>3. Stops(s, r) = 0
    BY <1>1 DEF Stops, StopGiven, Init
  <2>4. net[s][r] = <<>>
    BY DEF Init
  <2> QED
    BY <2>1, <2>2, <2>3, <2>4 DEF Channel
<1>10. ASSUME NEW r \in Receivers PROVE Received(G, r) /\ Orders(r)
  <2>1. rpc[r] = "loop" /\ rpc[0] = "loop" /\ ridx[r] = 1 /\ parts[r] = <<>> /\ got[r] = <<>>
        /\ got[0] = <<>> /\ rbcast[r] = <<>> /\ stop = FALSE
    BY <1>1 DEF Init
  <2>2. Len(ReceiverRanks(r)) \in Nat /\ Len(ReceiverRanks(r)) >= 1
    BY <1>1, LinkFacts
  <2>3. Received(G, r)
    BY <1>4, <2>1, <2>2 DEF Received
  <2>4. Calls = 0 /\ Called(r) = 0 /\ ~StopTaken
    BY <2>1 DEF Calls, Called, StopTaken
  <2>5. Orders(r)
    BY <2>1, <2>4 DEF Orders
  <2> QED
    BY <2>3, <2>5
<1>11. /\ Answered(G) /\ (async => \A k \in 1 .. Len(G) : G[k] <= Told)
       /\ (~async => requests = 0) /\ (StopTaken => StopGiven)
  BY <1>1, <1>4 DEF Answered, StopTaken, Init
<1>12. Matches(G, c)
  BY <1>6, <1>8, <1>9, <1>10, <1>11 DEF Matches
<1> QED
  BY <1>2, <1>12 DEF Inv

-----------------------------------------------------------------------------
(* The steps of a sender                                                    *)

LEMMA Basics ==
    ASSUME Types, NEW G, NEW c, Matches(G, c)
    PROVE  /\ Steps \in Nat /\ 0 \in Senders /\ 0 \in Receivers /\ async \in BOOLEAN
           /\ Buffered \in BOOLEAN
           /\ G \in Seq(1 .. Steps) /\ Len(G) \in Nat
           /\ \A k \in 1 .. Len(G) : G[k] \in 1 .. Steps
           /\ \A k, l \in 1 .. Len(G) : k < l => G[k] < G[l]
           /\ ~async => Len(G) = Steps /\ \A k \in 1 .. Steps : G[k] = k
           /\ \A s \in Senders : step[s] \in 0 .. Steps /\ step[s] \in Nat
<1>1. Steps \in Nat /\ 0 \in Senders /\ 0 \in Receivers
  BY RootsMeet, SizesAssumption
<1>2. async \in BOOLEAN /\ Buffered \in BOOLEAN
  BY ModesAssumption DEF Types
<1>3. G \in Seq(1 .. Steps) /\ \A k, l \in 1 .. Len(G) : k < l => G[k] < G[l]
  BY DEF Matches, Log
<1>4. Len(G) \in Nat /\ \A k \in 1 .. Len(G) : G[k] \in 1 .. Steps
  BY <1>3, LenProperties, ElementOfSeq
<1>5. ~async => Len(G) = Steps /\ \A k \in 1 .. Steps : G[k] = k
  <2> SUFFICES ASSUME ~async PROVE Len(G) = Steps /\ \A k \in 1 .. Steps : G[k] = k
    OBVIOUS
  <2>1. G = [k \in 1 .. Steps |-> k]
    BY DEF Matches, Log
  <2> QED
    BY <2>1, StepsLog
<1>6. \A s \in Senders : step[s] \in 0 .. Steps /\ step[s] \in Nat
  BY <1>1 DEF Types
<1> QED
  BY <1>1, <1>2, <1>3, <1>4, <1>5, <1>6

LEMMA NextStepInv ==
    ASSUME Types, NEW G, NEW c, Matches(G, c), NEW s \in Senders, NextStep(s), async' = async
    PROVE  Types' /\ Matches(G, c)'
<1>1. /\ spc[s] = "main" /\ step[s] < Steps
      /\ step' = [step EXCEPT ![s] = @ + 1]
      /\ spc' = [spc EXCEPT ![s] = IF async THEN "ready" ELSE "send"]
      /\ sidx' = sidx /\ ready' = ready /\ sbcast' = sbcast /\ net' = net /\ requests' = requests
      /\ UNCHANGED receiverVars
  BY DEF NextStep
<1>2. /\ rpc' = rpc /\ ridx' = ridx /\ stop' = stop /\ rbcast' = rbcast /\ parts' = parts
      /\ got' = got
  BY <1>1 DEF receiverVars
<1>3. /\ step[s] \in 0 .. Steps /\ step'[s] = step[s] + 1 /\ step'[s] \in 1 .. Steps
      /\ spc'[s] = IF async THEN "ready" ELSE "send"
      /\ \A p \in Senders \ {s} : step'[p] = step[p] /\ spc'[p] = spc[p]
  BY <1>1, Basics DEF Types
<1>4. Types'
  <2>1. step' \in [Senders -> 0 .. Steps]
    BY <1>1, <1>3 DEF Types
  <2>2. spc' \in [Senders -> {"main", "ready", "told", "send", "posted", "await",
                              "stop", "stopped", "done"}]
    BY <1>1 DEF Types
  <2> QED
    BY <1>1, <1>2, <2>1, <2>2 DEF Types
<1>5. Cursor(G, c, s) /\ Flags(G, s)
  BY DEF Matches
<1>6. Bound(s)' = Bound(s) /\ Bound(s) = step[s] + 1
  BY <1>1, <1>3 DEF Bound
<1>7. Cursor(G, c, s)'
  <2>1. CASE async
    BY <1>1, <1>3, <1>5, <1>6, <2>1 DEF Cursor, Sending
  <2>2. CASE ~async
    <3>1. c[s] \in 0 .. Len(G) /\ \A k \in 1 .. Len(G) : k <= c[s] <=> k < step[s] + 1
      BY <1>5, <1>6, <2>2, Basics DEF Cursor
    <3>2. c[s] = step[s]
      <4>1. step[s] \in 0 .. Len(G) /\ Len(G) \in Nat
        BY <1>3, <2>2, Basics
      <4>2. c[s] \in 1 .. Len(G) => c[s] < step[s] + 1
        BY <3>1, <4>1
      <4>3. step[s] \in 1 .. Len(G) => step[s] <= c[s]
        BY <3>1, <4>1
      <4> QED
        BY <3>1, <4>1, <4>2, <4>3
    <3>3. c[s] < Len(G) /\ G[c[s] + 1] = step'[s]
      BY <1>1, <1>3, <2>2, <3>2, Basics
    <3> QED
      BY <1>1, <1>3, <1>5, <1>6, <2>2, <3>3 DEF Cursor, Sending
  <2> QED
    BY <2>1, <2>2
<1>8. async => Told' = Told /\ Heard(s)' = Heard(s)
  <2>1. async => Heard(s)' = Heard(s)
    BY <1>1, <1>3 DEF Heard
  <2>2. async => Told' = Told
    <3>1. CASE s = 0
      BY <1>1, <1>3, <3>1 DEF Told
    <3>2. CASE s # 0
      BY <1>3, <3>2, Basics DEF Told
    <3> QED
      BY <3>1, <3>2
  <2> QED
    BY <2>1, <2>2
<1>9. Flags(G, s)'
  BY <1>1, <1>5, <1>8, FlagsKept
<1>10. ASSUME NEW r \in Receivers PROVE Channel(G, c, s, r)'
  <2>1. Channel(G, c, s, r)
    BY DEF Matches
  <2>2. sidx[s] = 1 /\ spc[s] = "main" /\ spc'[s] \in {"ready", "send"}
    BY <1>1, <1>3, <1>5 DEF Cursor
  <2>3. Linked(s, r) => ~Wrote(s, r) /\ ~Wrote(s, r)'
    <3>1. Linked(s, r) => At(s, r) \in 1 .. Len(SenderRanks(s)) /\ Len(SenderRanks(s)) \in Nat
      BY LinkFacts
    <3> QED
      BY <1>1, <2>2, <3>1 DEF Wrote
  <2>4. Linked(s, r) => Given(c, s, r)' = Given(c, s, r)
    BY <2>3 DEF Given
  <2>5. Stops(s, r)' = Stops(s, r)
    BY <1>2, <2>2 DEF Stops, StopGiven, StopTaken
  <2>6. Taken(s, r)' = Taken(s, r)
    BY <1>2 DEF Taken
  <2>7. spc[s] # "posted"
    BY <2>2
  <2> QED
    BY <1>1, <2>1, <2>4, <2>5, <2>6, <2>7, ChannelKept
<1>11. Answered(G)'
  <2>1. Answered(G)
    BY DEF Matches
  <2>2. spc'[0] \in {"stop", "stopped", "done"} <=> spc[0] \in {"stop", "stopped", "done"}
    BY <1>1, <1>3, Basics
  <2> QED
    BY <1>1, <1>2, <2>1, <2>2 DEF Answered
<1>12. StopTaken => StopGiven'
  BY <1>1, <1>3, Basics DEF Matches, StopGiven
<1>13. /\ ~async => requests' = 0
       /\ \A p \in Senders \ {s} : sidx'[p] = sidx[p] /\ sbcast'[p] = sbcast[p] /\ net'[p] = net[p]
  BY <1>1 DEF Matches
<1> HIDE DEF Types
<1>14. Matches(G, c)'
  BY <1>1, <1>3, <1>7, <1>8, <1>9, <1>10, <1>11, <1>12, <1>13, SenderSide
<1> QED
  BY <1>4, <1>14

\* a sender that is not in the middle of sending changes nothing for its receivers
LEMMA IdleChannel ==
    ASSUME Types, NEW G, NEW c, Matches(G, c), NEW s \in Senders, NEW r \in Receivers,
           UNCHANGED receiverVars, net' = net, sidx' = sidx, sidx[s] = 1,
           spc[s] # "posted", spc'[s] # "posted", StopGiven' <=> StopGiven
    PROVE  Channel(G, c, s, r)'
<1>1. Channel(G, c, s, r)
  BY DEF Matches
<1>2. Linked(s, r) => ~Wrote(s, r) /\ ~Wrote(s, r)'
  <2>1. Linked(s, r) => At(s, r) \in 1 .. Len(SenderRanks(s)) /\ Len(SenderRanks(s)) \in Nat
    BY LinkFacts
  <2> QED
    BY <2>1 DEF Wrote
<1>3. Linked(s, r) => Given(c, s, r)' = Given(c, s, r)
  BY <1>2 DEF Given
<1>4. Stops(s, r)' = Stops(s, r)
  BY DEF Stops, StopTaken, receiverVars
<1>5. Taken(s, r)' = Taken(s, r)
  BY DEF Taken, receiverVars
<1> QED
  BY <1>1, <1>3, <1>4, <1>5, ChannelKept

\* the entry of the log that a sender comes to
LEMMA Coming ==
    ASSUME Types, NEW G, NEW c, Matches(G, c), NEW s \in Senders, spc[s] = "ready"
    PROVE  /\ Logged(G, step[s]) => c[s] < Len(G) /\ G[c[s] + 1] = step[s]
           /\ ~Logged(G, step[s]) => \A k \in 1 .. Len(G) : k <= c[s] <=> G[k] < step[s] + 1
<1>1. c[s] \in 0 .. Len(G) /\ \A k \in 1 .. Len(G) : k <= c[s] <=> G[k] < step[s]
  BY DEF Matches, Cursor, Bound
<1>2. /\ Len(G) \in Nat /\ step[s] \in Nat /\ \A k \in 1 .. Len(G) : G[k] \in Nat
      /\ \A k, l \in 1 .. Len(G) : k < l => G[k] < G[l]
  BY Basics
<1>3. ASSUME Logged(G, step[s]) PROVE c[s] < Len(G) /\ G[c[s] + 1] = step[s]
  <2>1. PICK k \in 1 .. Len(G) : G[k] = step[s]
    BY <1>3 DEF Logged
  <2>2. ~(k <= c[s])
    BY <1>1, <1>2, <2>1
  <2>3. c[s] + 1 \in 1 .. Len(G) /\ c[s] + 1 <= k
    BY <1>1, <1>2, <2>2
  <2>4. ~(G[c[s] + 1] < step[s])
    BY <1>1, <2>3
  <2>5. c[s] + 1 = k
    BY <1>2, <2>1, <2>3, <2>4
  <2> QED
    BY <1>1, <1>2, <2>1, <2>3, <2>5
<1>4. ASSUME ~Logged(G, step[s])
      PROVE  \A k \in 1 .. Len(G) : k <= c[s] <=> G[k] < step[s] + 1
  <2>1. \A k \in 1 .. Len(G) : G[k] # step[s]
    BY <1>4 DEF Logged
  <2>2. \A k \in 1 .. Len(G) : G[k] < step[s] + 1 <=> G[k] < step[s]
    BY <1>2, <2>1
  <2> QED
    BY <1>1, <2>2
<1> QED
  BY <1>3, <1>4

LEMMA ProceedInv ==
    ASSUME Types, NEW G, NEW c, Matches(G, c), NEW s \in Senders, Proceed(s), async' = async
    PROVE  Types' /\ Matches(G, c)'
<1>1. /\ step' = step /\ sidx' = sidx /\ ready' = ready /\ net' = net /\ requests' = requests
      /\ UNCHANGED receiverVars
      /\ spc[s] = IF s = 0 THEN "told" ELSE "ready"
      /\ s = 0 => sbcast' = sbcast
      /\ s # 0 => sbcast[s] # <<>> /\ sbcast' = [sbcast EXCEPT ![s] = Tail(@)]
  BY DEF Proceed
<1>2. /\ rpc' = rpc /\ ridx' = ridx /\ stop' = stop /\ rbcast' = rbcast /\ parts' = parts
      /\ got' = got
  BY <1>1 DEF receiverVars
<1>3. PICK goes \in BOOLEAN :
         /\ spc' = [spc EXCEPT ![s] = IF goes THEN "send" ELSE "main"]
         /\ s = 0 => goes = ready
         /\ s # 0 => goes = Head(sbcast[s])
  <2>1. CASE s = 0
    BY <2>1 DEF Proceed, Types
  <2>2. CASE s # 0
    <3>1. Head(sbcast[s]) \in BOOLEAN
      <4>1. sbcast[s] \in Seq(BOOLEAN)
        BY DEF Types
      <4> QED
        BY <1>1, <2>2, <4>1, HeadTailProperties
    <3> QED
      BY <2>2, <3>1 DEF Proceed, Heeded
  <2> QED
    BY <2>1, <2>2
<1>4. /\ spc'[s] = IF goes THEN "send" ELSE "main"
      /\ \A p \in Senders \ {s} : spc'[p] = spc[p]
  BY <1>3 DEF Types
<1>5. s # 0 => /\ Len(sbcast[s]) \in Nat /\ Len(sbcast[s]) >= 1 /\ sbcast'[s] \in Seq(BOOLEAN)
               /\ Len(sbcast'[s]) = Len(sbcast[s]) - 1
               /\ \A k \in 1 .. Len(sbcast'[s]) : sbcast'[s][k] = sbcast[s][k + 1]
               /\ sbcast[s][1] = goes
  <2> SUFFICES ASSUME s # 0
               PROVE  /\ Len(sbcast[s]) \in Nat /\ Len(sbcast[s]) >= 1 /\ sbcast'[s] \in Seq(BOOLEAN)
                      /\ Len(sbcast'[s]) = Len(sbcast[s]) - 1
                      /\ \A k \in 1 .. Len(sbcast'[s]) : sbcast'[s][k] = sbcast[s][k + 1]
                      /\ sbcast[s][1] = goes
    OBVIOUS
  <2>1. sbcast[s] \in Seq(BOOLEAN) /\ sbcast'[s] = Tail(sbcast[s]) /\ sbcast[s] # <<>>
    BY <1>1 DEF Types
  <2>2. Len(sbcast[s]) \in Nat /\ Len(sbcast[s]) >= 1
    BY <2>1, EmptySeq
  <2>3. /\ Tail(sbcast[s]) \in Seq(BOOLEAN)
        /\ Len(Tail(sbcast[s])) = Len(sbcast[s]) - 1
        /\ \A k \in 1 .. Len(Tail(sbcast[s])) : Tail(sbcast[s])[k] = sbcast[s][k + 1]
    BY <2>1, HeadTailProperties
  <2>4. sbcast[s][1] = goes
    BY <1>3, <2>1
  <2> QED
    BY <2>1, <2>2, <2>3, <2>4
<1>6. Types'
  <2>1. spc' \in [Senders -> {"main", "ready", "told", "send", "posted", "await",
                              "stop", "stopped", "done"}]
    BY <1>3 DEF Types
  <2>2. sbcast' \in [Senders -> Seq(BOOLEAN)]
    <3>1. sbcast \in [Senders -> Seq(BOOLEAN)]
      BY DEF Types
    <3> QED
      BY <1>1, <1>5, <3>1
  <2> QED
    BY <1>1, <1>2, <2>1, <2>2 DEF Types
<1>7. /\ Cursor(G, c, s) /\ Flags(G, s) /\ step[s] \in Nat /\ Len(G) \in Nat
      /\ \A k \in 1 .. Len(G) : G[k] \in Nat
  <2>1. Cursor(G, c, s) /\ Flags(G, s)
    BY DEF Matches
  <2>2. step[s] \in Nat /\ Len(G) \in Nat /\ \A k \in 1 .. Len(G) : G[k] \in Nat
    BY Basics
  <2> QED
    BY <2>1, <2>2
<1>8. async /\ sidx[s] = 1 /\ step[s] >= 1
  BY <1>1, <1>7 DEF Cursor
<1>9. s # 0 => (goes <=> Logged(G, step[s])) /\ Heard(s) = step[s] - 1
  BY <1>1, <1>5, <1>7, <1>8 DEF Flags, Heard
<1>10. Cursor(G, c, s)'
  <2>1. CASE goes
    <3>1. c[s] < Len(G) /\ G[c[s] + 1] = step[s]
      <4>1. CASE s = 0
        BY <1>1, <1>3, <1>7, <2>1, <4>1 DEF Cursor, Sending
      <4>2. CASE s # 0
        BY <1>1, <1>9, <2>1, <4>2, Coming
      <4> QED
        BY <4>1, <4>2
    <3>2. Bound(s)' = Bound(s)
      BY <1>1, <1>4, <2>1 DEF Bound
    <3> QED
      BY <1>1, <1>4, <1>7, <2>1, <3>1, <3>2 DEF Cursor, Sending
  <2>2. CASE ~goes
    <3>1. Bound(s)' = step[s] + 1 /\ Bound(s) = step[s]
      BY <1>1, <1>4, <2>2 DEF Bound
    <3>2. \A k \in 1 .. Len(G) : k <= c[s] <=> G[k] < step[s] + 1
      <4>1. CASE s = 0
        <5>1. c[s] = Len(G) /\ \A k \in 1 .. Len(G) : k <= c[s] <=> G[k] < step[s]
          BY <1>1, <1>3, <1>7, <2>2, <3>1, <4>1 DEF Cursor
        <5> QED
          BY <1>7, <5>1
      <4>2. CASE s # 0
        BY <1>1, <1>9, <2>2, <4>2, Coming
      <4> QED
        BY <4>1, <4>2
    <3> QED
      BY <1>1, <1>4, <1>7, <1>8, <2>2, <3>1, <3>2 DEF Cursor, Sending
  <2> QED
    BY <2>1, <2>2
<1>11. Told' = Told
  <2>1. CASE s = 0
    BY <1>1, <1>4, <2>1 DEF Told
  <2>2. CASE s # 0
    BY <1>1, <1>4, <2>2, Basics DEF Told
  <2> QED
    BY <2>1, <2>2
<1>12. Flags(G, s)'
  <2>1. CASE s = 0
    BY <1>1, <1>7, <2>1 DEF Flags
  <2>2. CASE s # 0
    <3>1. Heard(s)' = step[s]
      BY <1>1, <1>4 DEF Heard
    <3>2. /\ Heard(s) + Len(sbcast[s]) = Told
          /\ \A k \in 1 .. Len(sbcast[s]) : sbcast[s][k] <=> Logged(G, Heard(s) + k)
      BY <1>7, <1>8, <2>2 DEF Flags
    <3>5. /\ Heard(s) = step[s] - 1 /\ step[s] \in Nat
          /\ Len(sbcast'[s]) = Len(sbcast[s]) - 1 /\ Len(sbcast[s]) \in Nat
      BY <1>5, <1>7, <1>9, <2>2
    <3>6. Heard(s) + Len(sbcast[s]) = Told
      BY <3>2
    <3>3. step[s] + Len(sbcast'[s]) = Told
      <4>1. PICK a \in Nat, b \in Nat : a = step[s] /\ b = Len(sbcast[s])
        BY <3>5
      <4>2. (a - 1) + b = a + (b - 1)
        OBVIOUS
      <4> QED
        BY <3>5, <3>6, <4>1, <4>2
    <3>4. ASSUME NEW k \in 1 .. Len(sbcast'[s])
          PROVE  sbcast'[s][k] <=> Logged(G, step[s] + k)
      <4>1. k + 1 \in 1 .. Len(sbcast[s]) /\ Heard(s) + (k + 1) = step[s] + k
        BY <3>5
      <4>2. sbcast'[s][k] <=> Logged(G, Heard(s) + (k + 1))
        BY <1>5, <2>2, <3>2, <4>1
      <4> QED
        BY <4>1, <4>2
    <3> QED
      BY <1>8, <1>11, <2>2, <3>1, <3>3, <3>4 DEF Flags, Logged
  <2> QED
    BY <2>1, <2>2
<1>13. StopGiven' <=> StopGiven
  <2>1. CASE s = 0
    BY <1>1, <1>4, <2>1 DEF StopGiven
  <2>2. CASE s # 0
    BY <1>4, <2>2, Basics DEF StopGiven
  <2> QED
    BY <2>1, <2>2
<1>14. \A r \in Receivers : Channel(G, c, s, r)'
  <2>1. spc[s] # "posted" /\ spc'[s] # "posted"
    BY <1>1, <1>4
  <2> QED
    BY <1>1, <1>8, <1>13, <2>1, IdleChannel
<1>15. Answered(G)'
  <2>1. Answered(G)
    BY DEF Matches
  <2>2. spc'[0] \in {"stop", "stopped", "done"} <=> spc[0] \in {"stop", "stopped", "done"}
    BY <1>1, <1>4, Basics
  <2> QED
    BY <1>1, <1>2, <2>1, <2>2 DEF Answered
<1>16. StopTaken => StopGiven'
  BY <1>13 DEF Matches
<1>17. \A p \in Senders \ {s} : sidx'[p] = sidx[p] /\ sbcast'[p] = sbcast[p] /\ net'[p] = net[p]
          /\ step'[p] = step[p]
  BY <1>1 DEF Types
<1>18. Matches(G, c)'
  BY <1>1, <1>4, <1>8, <1>10, <1>11, <1>12, <1>14, <1>15, <1>16, <1>17, SenderSide
<1> QED
  BY <1>6, <1>18

\* steps in which only the place of one sender changes, and perhaps the requests
LEMMA PlaceOnly ==
    ASSUME Types, NEW G, NEW c, Matches(G, c), NEW s \in Senders, NEW place,
           place \in {"done", "await", "stop", "stopped"},
           spc' = [spc EXCEPT ![s] = place],
           spc[s] \in {"main", "await", "stop", "stopped"}, step[s] = Steps,
           place \in {"await", "stop", "stopped"} => s = 0,
           UNCHANGED <<async, step, sidx, ready, sbcast, receiverVars, net>>,
           requests' \in Nat, Answered(G)', ~async => requests' = 0,
           StopGiven' <=> StopGiven
    PROVE  Types' /\ Matches(G, c)'
<1>1. /\ async' = async /\ step' = step /\ sidx' = sidx /\ ready' = ready /\ sbcast' = sbcast
      /\ net' = net /\ UNCHANGED receiverVars
  OBVIOUS
<1>2. /\ rpc' = rpc /\ ridx' = ridx /\ stop' = stop /\ rbcast' = rbcast /\ parts' = parts
      /\ got' = got
  BY <1>1 DEF receiverVars
<1>3. spc'[s] = place /\ \A p \in Senders \ {s} : spc'[p] = spc[p]
  BY DEF Types
<1>4. Types'
  <2>1. spc' \in [Senders -> {"main", "ready", "told", "send", "posted", "await",
                              "stop", "stopped", "done"}]
    BY DEF Types
  <2> QED
    BY <1>1, <1>2, <2>1 DEF Types
<1>5. Cursor(G, c, s) /\ Flags(G, s)
  BY DEF Matches
<1>6. Bound(s)' = Bound(s)
  BY <1>1, <1>3 DEF Bound
<1>7. sidx[s] = 1 /\ ~Sending(s)'
  BY <1>3, <1>5 DEF Cursor, Sending
<1>8. Cursor(G, c, s)'
  BY <1>1, <1>3, <1>5, <1>6, <1>7 DEF Cursor
<1>9. Heard(s)' = Heard(s)
  BY <1>1, <1>3 DEF Heard
<1>10. Told' = Told
  <2>1. CASE s = 0
    BY <1>1, <1>3, <2>1 DEF Told
  <2>2. CASE s # 0
    BY <1>1, <1>3, <2>2, Basics DEF Told
  <2> QED
    BY <2>1, <2>2
<1>11. Flags(G, s)'
  BY <1>1, <1>5, <1>9, <1>10, FlagsKept
<1>12. \A r \in Receivers : Channel(G, c, s, r)'
  <2>1. spc[s] # "posted" /\ spc'[s] # "posted"
    BY <1>3
  <2> QED
    BY <1>1, <1>7, <2>1, IdleChannel
<1>13. StopTaken => StopGiven'
  BY DEF Matches
<1>14. \A p \in Senders \ {s} : sidx'[p] = sidx[p] /\ sbcast'[p] = sbcast[p] /\ net'[p] = net[p]
          /\ step'[p] = step[p]
  BY <1>1
<1>15. Matches(G, c)'
  BY <1>1, <1>3, <1>8, <1>10, <1>11, <1>12, <1>13, <1>14, SenderSide
<1> QED
  BY <1>4, <1>15

LEMMA StopCallInv ==
    ASSUME Types, NEW G, NEW c, Matches(G, c), NEW s \in Senders, StopCall(s), async' = async
    PROVE  Types' /\ Matches(G, c)'
<1>1. PICK place : /\ place = IF s # 0 THEN "done" ELSE IF async THEN "await" ELSE "stop"
                   /\ spc[s] = "main" /\ step[s] = Steps
                   /\ spc' = [spc EXCEPT ![s] = place]
  BY DEF StopCall, AwaitRequest, Stopping
<1>2. UNCHANGED <<async, step, sidx, ready, sbcast, receiverVars, net>> /\ requests' = requests
  BY DEF StopCall
<1>3. /\ place \in {"done", "await", "stop", "stopped"}
      /\ place \in {"await", "stop", "stopped"} => s = 0
  BY <1>1
<1>4. spc'[s] = place /\ \A p \in Senders \ {s} : spc'[p] = spc[p]
  BY <1>1 DEF Types
<1>5. (StopGiven' <=> StopGiven)
      /\ (async => (spc'[0] \in {"stop", "stopped", "done"}
                      <=> spc[0] \in {"stop", "stopped", "done"}))
  <2>1. CASE s = 0
    BY <1>1, <1>4, <2>1 DEF StopGiven
  <2>2. CASE s # 0
    BY <1>4, <2>2, Basics DEF StopGiven
  <2> QED
    BY <2>1, <2>2
<1>6. Answered(G)'
  <2>1. Answered(G)
    BY DEF Matches
  <2> QED
    BY <1>2, <1>5, <2>1, AnsweredKept DEF receiverVars
<1>7. requests' \in Nat /\ (~async => requests' = 0)
  BY <1>2 DEF Types, Matches
<1>8. spc[s] \in {"main", "await", "stop", "stopped"} /\ step[s] = Steps
  BY <1>1
<1> QED
  BY <1>1, <1>2, <1>3, <1>5, <1>6, <1>7, <1>8, PlaceOnly

LEMMA TakeRequestInv ==
    ASSUME Types, NEW G, NEW c, Matches(G, c), NEW s \in Senders, TakeRequest(s), async' = async
    PROVE  Types' /\ Matches(G, c)'
<1>1. /\ spc[s] = "await" /\ requests > 0 /\ requests' = requests - 1
      /\ spc' = [spc EXCEPT ![s] = "stop"]
      /\ UNCHANGED <<async, step, sidx, ready, sbcast, receiverVars, net>>
  BY DEF TakeRequest
<1>2. s = 0 /\ step[s] = Steps
  BY <1>1 DEF Matches, Cursor
<1>3. spc'[0] = "stop" /\ spc[0] = "await"
  BY <1>1, <1>2 DEF Types
<1>4. StopGiven' <=> StopGiven
  BY <1>3 DEF StopGiven
<1>5. requests \in Nat /\ requests' \in Nat /\ Len(G) \in Nat
  BY <1>1, Basics DEF Types
<1>6. Answered(G)'
  <2>1. Answered(G)
    BY DEF Matches
  <2>2. rpc' = rpc /\ got' = got
    BY <1>1 DEF receiverVars
  <2>3. /\ (IF spc'[0] \in {"stop", "stopped", "done"} THEN 1 ELSE 0) = 1
        /\ (IF spc[0] \in {"stop", "stopped", "done"} THEN 1 ELSE 0) = 0
    BY <1>3
  <2> QED
    BY <1>1, <1>5, <2>1, <2>2, <2>3 DEF Answered
<1>7. ~async => requests' = 0
  BY <1>1, <1>5 DEF Matches
<1>8. /\ "stop" \in {"done", "await", "stop", "stopped"}
      /\ spc[s] \in {"main", "await", "stop", "stopped"}
  BY <1>1
<1> QED
  BY <1>1, <1>2, <1>4, <1>5, <1>6, <1>7, <1>8, PlaceOnly

LEMMA StopSentInv ==
    ASSUME Types, NEW G, NEW c, Matches(G, c), NEW s \in Senders, StopSent(s), async' = async
    PROVE  Types' /\ Matches(G, c)'
<1>1. /\ spc[s] = "stopped" /\ requests' = requests
      /\ spc' = [spc EXCEPT ![s] = "done"]
      /\ UNCHANGED <<async, step, sidx, ready, sbcast, receiverVars, net>>
  BY DEF StopSent
<1>2. s = 0 /\ step[s] = Steps
  BY <1>1 DEF Matches, Cursor
<1>3. spc'[0] = "done" /\ spc[0] = "stopped"
  BY <1>1, <1>2 DEF Types
<1>4. StopGiven' <=> StopGiven
  BY <1>3 DEF StopGiven
<1>5. requests' \in Nat /\ (~async => requests' = 0)
  BY <1>1 DEF Types, Matches
<1>6. Answered(G)'
  <2>1. Answered(G)
    BY DEF Matches
  <2>2. rpc' = rpc /\ got' = got
    BY <1>1 DEF receiverVars
  <2>3. spc'[0] \in {"stop", "stopped", "done"} /\ spc[0] \in {"stop", "stopped", "done"}
    BY <1>3
  <2> QED
    BY <1>1, <2>1, <2>2, <2>3, AnsweredKept
<1>7. /\ "done" \in {"done", "await", "stop", "stopped"}
      /\ "done" \notin {"await", "stop", "stopped"}
      /\ spc[s] \in {"main", "await", "stop", "stopped"}
  BY <1>1
<1> QED
  BY <1>1, <1>2, <1>4, <1>5, <1>6, <1>7, PlaceOnly

\* a message is sent from s to r
Sent(s, r, m) == net' = [net EXCEPT ![s][r] = Append(@, m)]

LEMMA SentFacts ==
    ASSUME Types, NEW s \in Senders, NEW r \in Receivers, NEW m \in Message, Sent(s, r, m)
    PROVE  /\ net' \in [Senders -> [Receivers -> Seq(Message)]]
           /\ net[s][r] \in Seq(Message) /\ Len(net[s][r]) \in Nat
           /\ Len(net'[s][r]) = Len(net[s][r]) + 1
           /\ \A k \in 1 .. Len(net[s][r]) : net'[s][r][k] = net[s][r][k]
           /\ net'[s][r][Len(net[s][r]) + 1] = m
           /\ \A p \in Senders \ {s} : net'[p] = net[p]
           /\ \A q \in Receivers \ {r} : net'[s][q] = net[s][q]
<1>1. net \in [Senders -> [Receivers -> Seq(Message)]]
  BY DEF Types
<1>2. net[s][r] \in Seq(Message)
  BY <1>1
<1>3. /\ Append(net[s][r], m) \in Seq(Message)
      /\ Len(Append(net[s][r], m)) = Len(net[s][r]) + 1
      /\ \A k \in 1 .. Len(net[s][r]) : Append(net[s][r], m)[k] = net[s][r][k]
      /\ Append(net[s][r], m)[Len(net[s][r]) + 1] = m
  BY <1>2, AppendProperties
<1>4. net'[s][r] = Append(net[s][r], m)
  BY <1>1 DEF Sent
<1>5. net' \in [Senders -> [Receivers -> Seq(Message)]]
  BY <1>1, <1>3 DEF Sent
<1>6. Len(net[s][r]) \in Nat
  BY <1>2, LenProperties
<1>7. /\ \A p \in Senders \ {s} : net'[p] = net[p]
      /\ \A q \in Receivers \ {r} : net'[s][q] = net[s][q]
  BY <1>1 DEF Sent
<1> QED
  BY <1>2, <1>3, <1>4, <1>5, <1>6, <1>7

\* what Channel says when s is sending
LEMMA SendingFacts ==
    ASSUME Types, NEW G, NEW c, Matches(G, c), NEW s \in Senders, spc[s] \in {"send", "posted"}
    PROVE  /\ sidx[s] \in 1 .. Len(SenderRanks(s)) /\ Len(SenderRanks(s)) \in Nat
           /\ SenderRanks(s)[sidx[s]] \in Receivers
           /\ Linked(s, SenderRanks(s)[sidx[s]]) /\ At(s, SenderRanks(s)[sidx[s]]) = sidx[s]
           /\ \A r \in Receivers : Linked(s, r) /\ At(s, r) = sidx[s] => r = SenderRanks(s)[sidx[s]]
           /\ \A r \in Receivers : Linked(s, r) => At(s, r) \in 1 .. Len(SenderRanks(s))
           /\ c[s] \in Nat /\ c[s] < Len(G) /\ c[s] + 1 \in 1 .. Len(G) /\ G[c[s] + 1] = step[s]
           /\ step[s] \in 1 .. Steps
<1>1. Cursor(G, c, s)
  BY DEF Matches
<1>2. sidx[s] \in 1 .. Len(SenderRanks(s))
  BY <1>1 DEF Cursor
<1>3. /\ Len(SenderRanks(s)) \in Nat /\ SenderRanks(s)[sidx[s]] \in Receivers
      /\ Linked(s, SenderRanks(s)[sidx[s]]) /\ At(s, SenderRanks(s)[sidx[s]]) = sidx[s]
  BY <1>2, LinkFacts, RootsMeet
<1>4. ASSUME NEW r \in Receivers, Linked(s, r)
      PROVE  /\ At(s, r) \in 1 .. Len(SenderRanks(s))
             /\ At(s, r) = sidx[s] => r = SenderRanks(s)[sidx[s]]
  BY <1>4, LinkFacts
<1>5. c[s] \in 0 .. Len(G) /\ c[s] < Len(G) /\ G[c[s] + 1] = step[s] /\ step[s] >= 1
  BY <1>1 DEF Cursor, Sending
<1>6. Len(G) \in Nat /\ step[s] \in 0 .. Steps /\ Steps \in Nat
  BY Basics
<1>7. c[s] \in Nat /\ c[s] + 1 \in 1 .. Len(G) /\ step[s] \in 1 .. Steps
  BY <1>5, <1>6
<1> QED
  BY <1>2, <1>3, <1>4, <1>5, <1>7

LEMMA SendDataInv ==
    ASSUME Types, NEW G, NEW c, Matches(G, c), NEW s \in Senders, SendData(s), async' = async
    PROVE  Types' /\ Matches(G, c)'
<1>1. /\ spc[s] = "send" /\ spc' = [spc EXCEPT ![s] = "posted"]
      /\ step' = step /\ sidx' = sidx /\ ready' = ready /\ sbcast' = sbcast
      /\ requests' = requests /\ UNCHANGED receiverVars
  BY DEF SendData
<1>2. /\ rpc' = rpc /\ ridx' = ridx /\ stop' = stop /\ rbcast' = rbcast /\ parts' = parts
      /\ got' = got
  BY <1>1 DEF receiverVars
<1>3. spc'[s] = "posted" /\ \A p \in Senders \ {s} : spc'[p] = spc[p]
  BY <1>1 DEF Types
<1>4. PICK l, R : /\ l = sidx[s] /\ R = SenderRanks(s)[l]
                  /\ l \in 1 .. Len(SenderRanks(s)) /\ Len(SenderRanks(s)) \in Nat
                  /\ R \in Receivers /\ Linked(s, R) /\ At(s, R) = l
  BY <1>1, SendingFacts
<1>5. PICK m : m = Data(step[s], Part(s, l)) /\ m = Buffer(s, R, step[s]) /\ m \in Message
  <2>1. Data(step[s], Part(s, l)) = Buffer(s, R, step[s])
    BY <1>4 DEF Buffer
  <2>2. step[s] \in 1 .. Steps
    BY <1>1, SendingFacts
  <2>3. Buffer(s, R, step[s]) \in Message
    BY <1>4, <2>2, BufferFacts
  <2> QED
    BY <2>1, <2>3
<1>6. Sent(s, R, m)
  BY <1>4, <1>5 DEF SendData, Sent
<1>7. /\ net' \in [Senders -> [Receivers -> Seq(Message)]]
      /\ Len(net[s][R]) \in Nat /\ Len(net'[s][R]) = Len(net[s][R]) + 1
      /\ \A k \in 1 .. Len(net[s][R]) : net'[s][R][k] = net[s][R][k]
      /\ net'[s][R][Len(net[s][R]) + 1] = m
      /\ \A p \in Senders \ {s} : net'[p] = net[p]
      /\ \A q \in Receivers \ {R} : net'[s][q] = net[s][q]
  <2>1. R \in Receivers /\ m \in Message
    BY <1>4, <1>5
  <2> QED
    BY <1>6, <2>1, SentFacts
<1>8. Types'
  <2>1. spc' \in [Senders -> {"main", "ready", "told", "send", "posted", "await",
                              "stop", "stopped", "done"}]
    BY <1>1 DEF Types
  <2> QED
    BY <1>1, <1>2, <1>7, <2>1 DEF Types
<1>9. Cursor(G, c, s) /\ Flags(G, s)
  BY DEF Matches
<1>10. Cursor(G, c, s)'
  <2>1. Bound(s)' = Bound(s)
    BY <1>1, <1>3 DEF Bound
  <2> QED
    BY <1>1, <1>3, <1>9, <2>1 DEF Cursor, Sending
<1>11. Heard(s)' = Heard(s) /\ Told' = Told
  <2>1. Heard(s)' = Heard(s)
    BY <1>1, <1>3 DEF Heard
  <2>2. CASE s = 0
    BY <1>1, <1>3, <2>1, <2>2 DEF Told
  <2>3. CASE s # 0
    BY <1>1, <1>3, <2>1, <2>3, Basics DEF Told
  <2> QED
    BY <2>2, <2>3
<1>12. Flags(G, s)'
  BY <1>1, <1>9, <1>11, FlagsKept
<1>13. spc'[0] \in {"stop", "stopped", "done"} <=> spc[0] \in {"stop", "stopped", "done"}
  BY <1>1, <1>3, Basics
<1>14. StopGiven' <=> StopGiven
  <2>1. CASE s = 0
    BY <1>1, <1>3, <2>1 DEF StopGiven
  <2>2. CASE s # 0
    BY <1>3, <2>2, Basics DEF StopGiven
  <2> QED
    BY <2>1, <2>2
<1>15. \A r \in Receivers : Taken(s, r)' = Taken(s, r) /\ Stops(s, r)' = Stops(s, r) /\ Stops(s, r) = 0
  <2>1. TAKE r \in Receivers
  <2>2. Taken(s, r)' = Taken(s, r)
    BY <1>2 DEF Taken
  <2>3. Stops(s, r)' = Stops(s, r)
    BY <1>2, <1>14 DEF Stops, StopTaken
  <2>4. Stops(s, r) = 0
    BY <1>1 DEF Stops, StopGiven
  <2> QED
    BY <2>2, <2>3, <2>4
<1>16. Channel(G, c, s, R)'
  <2>1. ~Wrote(s, R) /\ Wrote(s, R)'
    BY <1>1, <1>3, <1>4 DEF Wrote
  <2>2. Given(c, s, R) = c[s] /\ Given(c, s, R)' = c[s] + 1
    BY <2>1 DEF Given
  <2>3. PICK d, t : d = Given(c, s, R) - Taken(s, R) /\ t = Taken(s, R)
    OBVIOUS
  <2>4. /\ d \in Nat /\ Len(net[s][R]) = d
        /\ \A k \in 1 .. d : net[s][R][k] = Buffer(s, R, G[t + k])
    <3>1. Channel(G, c, s, R)
      BY <1>4 DEF Matches
    <3> QED
      BY <1>4, <1>7, <1>15, <2>3, <3>1 DEF Channel
  <2>5. c[s] \in Nat /\ G[c[s] + 1] = step[s]
    BY <1>1, SendingFacts
  <2>6. t \in Int /\ t + (d + 1) = c[s] + 1
    <3>1. t = Len(got[R]) \/ t = Len(got[R]) + 1
      BY <2>3 DEF Taken
    <3>2. got[R] \in Seq(Seq(Message))
      BY <1>4 DEF Types
    <3>3. Len(got[R]) \in Nat
      BY <3>2, LenProperties
    <3> QED
      BY <2>2, <2>3, <2>5, <3>1, <3>3
  <2>7. Given(c, s, R)' - Taken(s, R)' = d + 1
    <3>1. Taken(s, R)' = t
      BY <1>4, <1>15, <2>3
    <3>2. d \in Nat /\ c[s] \in Nat
      BY <2>4, <2>5
    <3> QED
      BY <2>2, <2>6, <3>1, <3>2
  <2>8. \A k \in 1 .. d + 1 : net'[s][R][k] = Buffer(s, R, G[t + k])
    <3>1. ASSUME NEW k \in 1 .. d + 1 PROVE net'[s][R][k] = Buffer(s, R, G[t + k])
      <4>1. CASE k \in 1 .. d
        BY <1>7, <2>4, <4>1
      <4>2. CASE k = d + 1
        BY <1>5, <1>7, <2>4, <2>5, <2>6, <4>2
      <4> QED
        BY <2>4, <4>1, <4>2
    <3> QED
      BY <3>1
  <2>9. Len(net'[s][R]) = d + 1 /\ d + 1 \in Nat /\ Stops(s, R)' = 0 /\ Taken(s, R)' = t
    BY <1>4, <1>7, <1>15, <2>3, <2>4
  <2>10. spc'[s] = "posted" /\ sidx'[s] = At(s, R)
    BY <1>1, <1>3, <1>4
  <2> QED
    BY <1>4, <2>7, <2>8, <2>9, <2>10 DEF Channel
<1>17. ASSUME NEW r \in Receivers \ {R} PROVE Channel(G, c, s, r)'
  <2>1. Channel(G, c, s, r)
    BY DEF Matches
  <2>2. Linked(s, r) => (Wrote(s, r)' <=> Wrote(s, r))
    <3>1. Linked(s, r) => At(s, r) # l /\ At(s, r) \in Nat
      BY <1>1, <1>4, SendingFacts
    <3> QED
      BY <1>1, <1>3, <1>4, <3>1 DEF Wrote
  <2>3. Linked(s, r) => Given(c, s, r)' = Given(c, s, r)
    BY <2>2 DEF Given
  <2>4. spc[s] # "posted"
    BY <1>1
  <2> QED
    BY <1>7, <1>15, <2>1, <2>3, <2>4, ChannelKept
<1>18. \A r \in Receivers : Channel(G, c, s, r)'
  BY <1>16, <1>17
<1>19. Answered(G)'
  <2>1. Answered(G)
    BY DEF Matches
  <2> QED
    BY <1>1, <1>2, <1>13, <2>1, AnsweredKept
<1>20. StopTaken => StopGiven'
  BY <1>14 DEF Matches
<1>21. /\ ~async => requests' = 0
       /\ \A p \in Senders \ {s} : step'[p] = step[p] /\ sidx'[p] = sidx[p] /\ sbcast'[p] = sbcast[p]
  BY <1>1 DEF Matches
<1>22. Matches(G, c)'
  BY <1>1, <1>3, <1>7, <1>10, <1>11, <1>12, <1>18, <1>19, <1>20, <1>21, SenderSide
<1> QED
  BY <1>8, <1>22

LEMMA DataSentInv ==
    ASSUME Types, NEW G, NEW c, Matches(G, c), NEW s \in Senders, DataSent(s), async' = async
    PROVE  Types' /\ \E e : Matches(G, e)'
<1>1. /\ spc[s] = "posted" /\ step' = step /\ ready' = ready /\ sbcast' = sbcast /\ net' = net
      /\ requests' = requests /\ UNCHANGED receiverVars
  BY DEF DataSent
<1>2. /\ rpc' = rpc /\ ridx' = ridx /\ stop' = stop /\ rbcast' = rbcast /\ parts' = parts
      /\ got' = got
  BY <1>1 DEF receiverVars
<1>20. PICK n \in Nat, i \in Nat : n = Len(SenderRanks(s)) /\ i = sidx[s] /\ i \in 1 .. n
  BY <1>1, SendingFacts
<1>21. PICK more \in BOOLEAN : more <=> i < n
  <2>1. (i < n) \in BOOLEAN
    BY <1>20
  <2> QED
    BY <2>1
<1>3. /\ n = Len(SenderRanks(s)) /\ n \in Nat /\ i = sidx[s] /\ i \in 1 .. n
      /\ more <=> i < n
      /\ sidx' = [sidx EXCEPT ![s] = IF more THEN i + 1 ELSE 1]
      /\ spc' = [spc EXCEPT ![s] = IF more THEN "send" ELSE "main"]
  BY <1>20, <1>21 DEF DataSent, MoreRanks
<1>4. /\ spc'[s] = IF more THEN "send" ELSE "main"
      /\ sidx'[s] = IF more THEN i + 1 ELSE 1
      /\ \A p \in Senders \ {s} : spc'[p] = spc[p] /\ sidx'[p] = sidx[p]
  BY <1>3 DEF Types
<1>5. Types'
  <2>1. spc' \in [Senders -> {"main", "ready", "told", "send", "posted", "await",
                              "stop", "stopped", "done"}]
    BY <1>3 DEF Types
  <2>2. sidx' \in [Senders -> Nat]
    <3>1. (IF more THEN i + 1 ELSE 1) \in Nat
      BY <1>3
    <3> QED
      BY <1>3, <3>1 DEF Types
  <2> QED
    BY <1>1, <1>2, <2>1, <2>2 DEF Types
<1>6. Cursor(G, c, s) /\ Flags(G, s)
  BY DEF Matches
<1>7. /\ c[s] \in Nat /\ c[s] + 1 \in 1 .. Len(G) /\ G[c[s] + 1] = step[s] /\ c[s] < Len(G)
      /\ step[s] \in 1 .. Steps /\ Len(G) \in Nat /\ step[s] \in Nat
  BY <1>1, SendingFacts, Basics
<1>8. PICK e : e = [p \in Senders |-> IF p = s THEN IF more THEN c[s] ELSE c[s] + 1 ELSE c[p]]
  OBVIOUS
<1>9. /\ e[s] = IF more THEN c[s] ELSE c[s] + 1
      /\ \A p \in Senders \ {s} : e[p] = c[p]
  BY <1>8
<1>10. Cursor(G, e, s)'
  <2>1. CASE more
    <3>1. Bound(s)' = Bound(s)
      BY <1>1, <1>4, <2>1 DEF Bound
    <3>2. sidx'[s] \in 1 .. Len(SenderRanks(s))
      BY <1>3, <1>4, <2>1
    <3> QED
      BY <1>1, <1>4, <1>6, <1>7, <1>9, <2>1, <3>1, <3>2 DEF Cursor, Sending
  <2>2. CASE ~more
    <3>1. Bound(s)' = step[s] + 1
      BY <1>1, <1>4, <2>2 DEF Bound
    <3>2. \A k \in 1 .. Len(G) : k <= c[s] + 1 <=> G[k] < step[s] + 1
      <4>1. \A k \in 1 .. Len(G) : k <= c[s] <=> G[k] < step[s]
        BY <1>1, <1>6 DEF Cursor, Bound
      <4>2. ASSUME NEW k \in 1 .. Len(G) PROVE k <= c[s] + 1 <=> G[k] < step[s] + 1
        <5>1. G[k] \in Nat
          BY Basics
        <5>2. k < c[s] + 1 => G[k] < step[s]
          BY <1>7, <4>1
        <5>3. c[s] + 1 < k => G[c[s] + 1] < G[k]
          BY <1>7, Basics
        <5> QED
          BY <1>7, <5>1, <5>2, <5>3
      <4> QED
        BY <4>2
    <3>3. sidx'[s] = 1 /\ 1 \in 1 .. Len(SenderRanks(s))
      BY <1>3, <1>4, <2>2
    <3>4. e[s] \in 0 .. Len(G) /\ e[s] = c[s] + 1
      BY <1>7, <1>9, <2>2
    <3> QED
      BY <1>1, <1>4, <2>2, <3>1, <3>2, <3>3, <3>4 DEF Cursor, Sending
  <2> QED
    BY <2>1, <2>2
<1>11. Heard(s)' = Heard(s) /\ Told' = Told
  <2>1. Heard(s)' = Heard(s)
    BY <1>1, <1>4 DEF Heard
  <2>2. CASE s = 0
    BY <1>1, <1>4, <2>1, <2>2 DEF Told
  <2>3. CASE s # 0
    BY <1>1, <1>4, <2>1, <2>3, Basics DEF Told
  <2> QED
    BY <2>2, <2>3
<1>12. Flags(G, s)'
  BY <1>1, <1>6, <1>11, FlagsKept
<1>13. spc'[0] \in {"stop", "stopped", "done"} <=> spc[0] \in {"stop", "stopped", "done"}
  BY <1>1, <1>4, Basics
<1>14. StopGiven' <=> StopGiven
  <2>1. CASE s = 0
    BY <1>1, <1>4, <2>1 DEF StopGiven
  <2>2. CASE s # 0
    BY <1>4, <2>2, Basics DEF StopGiven
  <2> QED
    BY <2>1, <2>2
<1>15. ASSUME NEW r \in Receivers PROVE Channel(G, e, s, r)'
  <2>1. Channel(G, c, s, r)
    BY DEF Matches
  <2>2. Taken(s, r)' = Taken(s, r) /\ Stops(s, r)' = Stops(s, r)
    BY <1>2, <1>14 DEF Taken, Stops, StopTaken
  <2>3. CASE ~Linked(s, r)
    BY <1>1, <2>1, <2>3 DEF Channel
  <2>4. CASE Linked(s, r)
    <3>1. At(s, r) \in 1 .. n
      BY <1>1, <1>3, <2>4, SendingFacts
    <3>2. Given(e, s, r)' = Given(c, s, r)
      <4>1. CASE more
        <5>1. Wrote(s, r)' <=> Wrote(s, r)
          BY <1>1, <1>3, <1>4, <3>1, <4>1 DEF Wrote
        <5> QED
          BY <1>9, <4>1, <5>1 DEF Given
      <4>2. CASE ~more
        <5>1. ~Wrote(s, r)' /\ Wrote(s, r)
          BY <1>1, <1>3, <1>4, <3>1, <4>2 DEF Wrote
        <5> QED
          BY <1>9, <4>2, <5>1 DEF Given
      <4> QED
        BY <4>1, <4>2
    <3>3. ~Buffered => Given(c, s, r) - Taken(s, r) = 0
      <4>1. SUFFICES ASSUME ~Buffered, Given(c, s, r) - Taken(s, r) # 0 PROVE FALSE
        OBVIOUS
      <4>2. sidx[s] = At(s, r)
        BY <2>1, <2>4, <4>1 DEF Channel
      <4>3. net[s][r] = <<>>
        <5>1. r = SenderRanks(s)[sidx[s]]
          BY <1>1, <2>4, <4>2, SendingFacts
        <5> QED
          BY <4>1, <5>1 DEF DataSent
      <4>4. Len(net[s][r]) = 0
        BY <4>3
      <4>5. Stops(s, r) = 0
        BY <1>1 DEF Stops, StopGiven
      <4> QED
        BY <2>1, <2>4, <4>1, <4>4, <4>5 DEF Channel
    <3> QED
      BY <1>1, <2>1, <2>2, <2>4, <3>2, <3>3 DEF Channel
  <2> QED
    BY <2>3, <2>4
<1>16. Answered(G)'
  <2>1. Answered(G)
    BY DEF Matches
  <2> QED
    BY <1>1, <1>2, <1>13, <2>1, AnsweredKept
<1>17. StopTaken => StopGiven'
  BY <1>14 DEF Matches
<1>18. /\ ~async => requests' = 0
       /\ \A p \in Senders \ {s} : step'[p] = step[p] /\ sbcast'[p] = sbcast[p] /\ net'[p] = net[p]
  BY <1>1 DEF Matches
<1>19. \A r \in Receivers : Channel(G, e, s, r)'
  BY <1>15
<1>22. Matches(G, e)'
  BY <1>1, <1>4, <1>9, <1>10, <1>11, <1>12, <1>16, <1>17, <1>18, <1>19, SenderSide
<1> QED
  BY <1>5, <1>22

LEMMA SendStopInv ==
    ASSUME Types, NEW G, NEW c, Matches(G, c), NEW s \in Senders, SendStop(s), async' = async
    PROVE  Types' /\ Matches(G, c)'
<1>1. /\ spc[s] = "stop" /\ spc' = [spc EXCEPT ![s] = "stopped"]
      /\ step' = step /\ sidx' = sidx /\ ready' = ready /\ sbcast' = sbcast
      /\ requests' = requests /\ UNCHANGED receiverVars /\ Sent(s, 0, Stop)
  BY DEF SendStop, Sent
<1>2. /\ rpc' = rpc /\ ridx' = ridx /\ stop' = stop /\ rbcast' = rbcast /\ parts' = parts
      /\ got' = got
  BY <1>1 DEF receiverVars
<1>3. spc'[s] = "stopped" /\ \A p \in Senders \ {s} : spc'[p] = spc[p]
  BY <1>1 DEF Types
<1>4. Cursor(G, c, s) /\ Flags(G, s)
  BY DEF Matches
<1>5. s = 0 /\ 0 \in Receivers /\ 0 \in Senders /\ Linked(0, 0) /\ Stop \in Message /\ sidx[s] = 1
  BY <1>1, <1>4, RootsMeet, MessageFacts DEF Cursor
<1>6. /\ net' \in [Senders -> [Receivers -> Seq(Message)]]
      /\ Len(net[s][0]) \in Nat /\ Len(net'[s][0]) = Len(net[s][0]) + 1
      /\ \A k \in 1 .. Len(net[s][0]) : net'[s][0][k] = net[s][0][k]
      /\ net'[s][0][Len(net[s][0]) + 1] = Stop
      /\ \A p \in Senders \ {s} : net'[p] = net[p]
      /\ \A q \in Receivers \ {0} : net'[s][q] = net[s][q]
  <2>1. Sent(s, 0, Stop) /\ 0 \in Receivers /\ Stop \in Message
    BY <1>1, <1>5
  <2> QED
    BY <2>1, SentFacts
<1>7. Types'
  <2>1. spc' \in [Senders -> {"main", "ready", "told", "send", "posted", "await",
                              "stop", "stopped", "done"}]
    BY <1>1 DEF Types
  <2> QED
    BY <1>1, <1>2, <1>6, <2>1 DEF Types
<1>8. Cursor(G, c, s)'
  <2>1. Bound(s)' = Bound(s)
    BY <1>1, <1>3 DEF Bound
  <2> QED
    BY <1>1, <1>3, <1>4, <1>5, <2>1 DEF Cursor, Sending
<1>9. Heard(s)' = Heard(s) /\ Told' = Told
  BY <1>1, <1>3, <1>5 DEF Heard, Told
<1>10. Flags(G, s)'
  BY <1>1, <1>4, <1>9, FlagsKept
<1>11. ~StopGiven /\ StopGiven' /\ ~StopTaken /\ ~StopTaken'
  <2>1. ~StopGiven /\ StopGiven'
    BY <1>1, <1>3, <1>5 DEF StopGiven
  <2>2. ~StopTaken
    BY <2>1 DEF Matches
  <2>3. ~StopTaken'
    BY <1>2, <2>2 DEF StopTaken
  <2> QED
    BY <2>1, <2>2, <2>3
<1>12. ASSUME NEW r \in Receivers PROVE Given(c, s, r)' = Given(c, s, r) /\ Taken(s, r)' = Taken(s, r)
  <2>1. ~Wrote(s, r) /\ ~Wrote(s, r)'
    BY <1>1, <1>3 DEF Wrote
  <2> QED
    BY <1>2, <2>1 DEF Given, Taken
<1>13. Channel(G, c, s, 0)'
  <2>1. Stops(s, 0) = 0 /\ Stops(s, 0)' = 1
    BY <1>5, <1>11 DEF Stops
  <2>2. PICK d, t : d = Given(c, s, 0) - Taken(s, 0) /\ t = Taken(s, 0)
    OBVIOUS
  <2>3. /\ d \in Nat /\ Len(net[s][0]) = d
        /\ \A k \in 1 .. d : net[s][0][k] = Buffer(s, 0, G[t + k])
        /\ ~Buffered => d = 0
    <3>1. Channel(G, c, s, 0)
      BY <1>5 DEF Matches
    <3> QED
      BY <1>1, <1>5, <1>6, <2>1, <2>2, <3>1 DEF Channel
  <2>4. Given(c, s, 0)' - Taken(s, 0)' = d /\ Taken(s, 0)' = t
    BY <1>5, <1>12, <2>2
  <2>5. Len(net'[s][0]) = d + 1 /\ net'[s][0][d + 1] = Stop
        /\ \A k \in 1 .. d : net'[s][0][k] = Buffer(s, 0, G[t + k])
    BY <1>6, <2>3
  <2>6. ~Buffered /\ d # 0 => FALSE
    BY <2>3
  <2> QED
    BY <1>5, <2>1, <2>3, <2>4, <2>5, <2>6 DEF Channel
<1>14. ASSUME NEW r \in Receivers \ {0} PROVE Channel(G, c, s, r)'
  <2>1. Channel(G, c, s, r)
    BY DEF Matches
  <2>2. Stops(s, r)' = Stops(s, r)
    BY DEF Stops
  <2>3. Given(c, s, r)' = Given(c, s, r) /\ Taken(s, r)' = Taken(s, r)
    BY <1>12
  <2>4. spc[s] # "posted"
    BY <1>1
  <2> QED
    BY <1>6, <2>1, <2>2, <2>3, <2>4, ChannelKept
<1>15. \A r \in Receivers : Channel(G, c, s, r)'
  BY <1>13, <1>14
<1>16. Answered(G)'
  <2>1. Answered(G)
    BY DEF Matches
  <2>2. spc'[0] \in {"stop", "stopped", "done"} <=> spc[0] \in {"stop", "stopped", "done"}
    BY <1>1, <1>3, <1>5
  <2> QED
    BY <1>1, <1>2, <2>1, <2>2, AnsweredKept
<1>17. /\ ~async => requests' = 0
       /\ \A p \in Senders \ {s} : step'[p] = step[p] /\ sbcast'[p] = sbcast[p] /\ sidx'[p] = sidx[p]
  BY <1>1 DEF Matches
<1>18. StopTaken => StopGiven'
  BY <1>11
<1>19. Matches(G, c)'
  BY <1>1, <1>3, <1>6, <1>8, <1>9, <1>10, <1>15, <1>16, <1>17, <1>18, SenderSide
<1> QED
  BY <1>7, <1>19

\* how far behind rank 0 the other senders are, before a decision
LEMMA Behind ==
    ASSUME Types, NEW G, NEW c, Matches(G, c), spc[0] = "ready", NEW p \in Senders \ {0}
    PROVE  /\ Bound(p) <= step[0] /\ Bound(p) \in Nat
           /\ Len(sbcast[p]) \in Nat /\ Heard(p) + Len(sbcast[p]) = step[0] - 1
           /\ Heard(p) \in Int
<1>1. async
  BY RootsMeet DEF Matches, Cursor
<1>2. sbcast[p] \in Seq(BOOLEAN)
  BY DEF Types
<1>3. Len(sbcast[p]) \in Nat
  BY <1>2, LenProperties
<1>4. Heard(p) + Len(sbcast[p]) = Told
  BY <1>1 DEF Matches, Flags
<1>5. Told = step[0] - 1 /\ step[0] \in Nat /\ step[p] \in Nat
  BY RootsMeet, Basics DEF Told
<1>6. Heard(p) \in Int /\ Heard(p) = IF spc[p] = "ready" THEN step[p] - 1 ELSE step[p]
  BY <1>5 DEF Heard
<1>7. Heard(p) <= step[0] - 1
  BY <1>3, <1>4, <1>5, <1>6
<1>8. Bound(p) <= Heard(p) + 1 /\ Bound(p) \in Nat
  BY <1>5, <1>6 DEF Bound
<1> QED
  BY <1>3, <1>4, <1>5, <1>6, <1>7, <1>8

LEMMA CheckReadyInv ==
    ASSUME Types, NEW G, NEW c, Matches(G, c), NEW s \in Senders, CheckReady(s), async' = async
    PROVE  Types' /\ \E H : Matches(H, c)'
<1>1. /\ s = 0 /\ spc[0] = "ready" /\ spc' = [spc EXCEPT ![0] = "told"]
      /\ step' = step /\ sidx' = sidx /\ net' = net /\ UNCHANGED receiverVars
      /\ sbcast' = Bcast(sbcast, ready') /\ ready' \in BOOLEAN
      /\ IF ready' THEN requests > 0 /\ requests' = requests - 1 ELSE requests' = requests
  BY DEF CheckReady
<1>2. /\ rpc' = rpc /\ ridx' = ridx /\ stop' = stop /\ rbcast' = rbcast /\ parts' = parts
      /\ got' = got
  BY <1>1 DEF receiverVars
<1>3. /\ 0 \in Senders /\ 0 \in Receivers /\ Steps \in Nat /\ Len(G) \in Nat /\ step[0] \in Nat
      /\ step[0] \in 0 .. Steps /\ G \in Seq(1 .. Steps)
  BY Basics
<1>4. spc'[0] = "told" /\ \A p \in Senders \ {0} : spc'[p] = spc[p]
  BY <1>1 DEF Types
<1>5. /\ sbcast' \in [Senders -> Seq(BOOLEAN)] /\ sbcast'[0] = sbcast[0]
      /\ \A p \in Senders \ {0} :
            /\ Len(sbcast'[p]) = Len(sbcast[p]) + 1
            /\ \A k \in 1 .. Len(sbcast[p]) : sbcast'[p][k] = sbcast[p][k]
            /\ sbcast'[p][Len(sbcast[p]) + 1] = ready'
  <2>1. sbcast \in [Senders -> Seq(BOOLEAN)]
    BY DEF Types
  <2> QED
    <3>1. PICK flag \in BOOLEAN : flag = ready'
      BY <1>1
    <3>2. /\ Bcast(sbcast, flag) \in [Senders -> Seq(BOOLEAN)]
          /\ \A p \in Senders : p = 0 => Bcast(sbcast, flag)[p] = sbcast[p]
          /\ \A p \in Senders : p # 0 =>
                /\ Len(Bcast(sbcast, flag)[p]) = Len(sbcast[p]) + 1
                /\ \A k \in 1 .. Len(sbcast[p]) : Bcast(sbcast, flag)[p][k] = sbcast[p][k]
                /\ Bcast(sbcast, flag)[p][Len(sbcast[p]) + 1] = flag
      <4>1. flag \in BOOLEAN
        OBVIOUS
      <4> QED
        BY <2>1, <4>1, BcastFacts
    <3>3. sbcast' = Bcast(sbcast, flag)
      BY <1>1, <3>1
    <3> QED
      BY <1>3, <3>1, <3>2, <3>3
<1>6. requests \in Nat /\ requests' \in Nat /\ requests = requests' + (IF ready' THEN 1 ELSE 0)
  BY <1>1 DEF Types
<1>7. Types'
  <2>1. spc' \in [Senders -> {"main", "ready", "told", "send", "posted", "await",
                              "stop", "stopped", "done"}]
    BY <1>1 DEF Types
  <2> QED
    BY <1>1, <1>2, <1>5, <1>6, <2>1 DEF Types
<1>8. Cursor(G, c, 0) /\ Flags(G, 0) /\ async
  <2>1. Cursor(G, c, 0) /\ Flags(G, 0)
    BY <1>3 DEF Matches
  <2> QED
    BY <1>1, <2>1 DEF Cursor
<1>9. step[0] \in 1 .. Steps /\ sidx[0] = 1
  <2>1. step[0] >= 1 /\ sidx[0] = 1
    BY <1>1, <1>8 DEF Cursor
  <2> QED
    BY <1>3, <2>1
<1>10. Told = step[0] - 1 /\ Told' = step[0]
  BY <1>1, <1>4 DEF Told
<1>11. \A k \in 1 .. Len(G) : G[k] \in Nat /\ G[k] <= step[0] - 1
  <2>1. \A k \in 1 .. Len(G) : G[k] \in Nat
    BY Basics
  <2>2. \A k \in 1 .. Len(G) : G[k] <= Told
    BY <1>8 DEF Matches
  <2> QED
    BY <1>10, <2>1, <2>2
\* the log, with this step if the receiver is ready
<1>12. PICK H \in Seq(1 .. Steps), n \in Nat :
          /\ H \in Seq(1 .. Steps) /\ Len(H) = n /\ Len(G) <= n
          /\ n = Len(G) + (IF ready' THEN 1 ELSE 0)
          /\ \A k \in 1 .. Len(G) : H[k] = G[k]
          /\ ready' => H[Len(G) + 1] = step[0]
  <2>1. CASE ready'
    <3>1. /\ Append(G, step[0]) \in Seq(1 .. Steps) /\ Len(Append(G, step[0])) = Len(G) + 1
          /\ \A k \in 1 .. Len(G) : Append(G, step[0])[k] = G[k]
          /\ Append(G, step[0])[Len(G) + 1] = step[0]
      BY <1>3, <1>9, AppendProperties
    <3>2. PICK H : H = Append(G, step[0])
      OBVIOUS
    <3>3. Len(H) \in Nat /\ Len(G) <= Len(H)
      BY <1>3, <3>1, <3>2
    <3> QED
      BY <2>1, <3>1, <3>2, <3>3
  <2>2. CASE ~ready'
    <3>1. Len(G) <= Len(G) /\ Len(G) = Len(G) + 0
      BY <1>3
    <3> QED
      BY <1>3, <2>2, <3>1
  <2> QED
    BY <2>1, <2>2
<1>13. \A k \in 1 .. n : H[k] \in Nat /\ (k \in 1 .. Len(G) \/ (ready' /\ k = Len(G) + 1))
  <2>1. \A k \in 1 .. n : k \in 1 .. Len(G) \/ (ready' /\ k = Len(G) + 1)
    BY <1>3, <1>12
  <2> QED
    BY <1>3, <1>11, <1>12, <2>1
<1>30. /\ Len(G) \in Nat /\ step[0] \in Nat /\ n \in Nat /\ Len(G) <= n
       /\ (ready' => n = Len(G) + 1) /\ (~ready' => n = Len(G))
  BY <1>3, <1>12
<1>31. (\A k \in 1 .. Len(G) : H[k] = G[k]) /\ (ready' => H[Len(G) + 1] = step[0])
  BY <1>12
<1>14. Log(H)'
  <2>1. ASSUME NEW k \in 1 .. n, NEW l \in 1 .. n, k < l PROVE H[k] < H[l]
    <3>1. k \in 1 .. Len(G)
      BY <1>3, <1>12, <2>1
    <3>2. CASE l \in 1 .. Len(G)
      BY <1>12, <2>1, <3>1, <3>2, Basics
    <3>3. CASE ready' /\ l = Len(G) + 1
      BY <1>3, <1>11, <1>12, <3>1, <3>3
    <3> QED
      BY <1>13, <3>2, <3>3
  <2> QED
    BY <1>8, <1>12, <2>1 DEF Log
<1>15. \A k \in 1 .. n : H[k] <= step[0]
  <2>1. ASSUME NEW k \in 1 .. n PROVE H[k] <= step[0]
    <3>1. CASE k \in 1 .. Len(G)
      <4>1. H[k] \in Nat /\ H[k] <= step[0] - 1
        BY <1>11, <1>31, <3>1
      <4> QED
        BY <1>30, <4>1
    <3>2. CASE ready' /\ k = Len(G) + 1
      BY <1>30, <1>31, <3>2
    <3> QED
      BY <1>13, <3>1, <3>2
  <2> QED
    BY <2>1
\* rank 0 has all of the old log behind it
<1>16. c[0] = Len(G)
  <2>1. c[0] \in 0 .. Len(G) /\ \A k \in 1 .. Len(G) : k <= c[0] <=> G[k] < step[0]
    BY <1>1, <1>8 DEF Cursor, Bound
  <2>2. ASSUME Len(G) \in 1 .. Len(G) PROVE Len(G) <= c[0]
    <3>1. G[Len(G)] \in Nat /\ G[Len(G)] <= step[0] - 1
      BY <1>11, <2>2
    <3>2. G[Len(G)] < step[0]
      BY <1>30, <3>1
    <3> QED
      BY <2>1, <2>2, <3>2
  <2> QED
    BY <1>30, <2>1, <2>2
<1>17. Cursor(H, c, 0)'
  <2>1. Bound(0)' = step[0]
    BY <1>1, <1>4 DEF Bound
  <2>2. \A k \in 1 .. n : k <= c[0] <=> H[k] < step[0]
    <3>1. ASSUME NEW k \in 1 .. n PROVE k <= c[0] <=> H[k] < step[0]
      <4>1. CASE k \in 1 .. Len(G)
        <5>1. H[k] \in Nat /\ H[k] <= step[0] - 1
          BY <1>11, <1>31, <4>1
        <5>2. H[k] < step[0] /\ k <= c[0]
          BY <1>16, <1>30, <4>1, <5>1
        <5> QED
          BY <5>2
      <4>2. CASE ready' /\ k = Len(G) + 1
        BY <1>16, <1>30, <1>31, <4>2
      <4> QED
        BY <1>13, <4>1, <4>2
    <3> QED
      BY <3>1
  <2>3. c[0] \in 0 .. n /\ (ready' => c[0] < n /\ H[c[0] + 1] = step[0]) /\ (~ready' => c[0] = n)
    BY <1>3, <1>12, <1>16
  <2> QED
    BY <1>1, <1>4, <1>8, <1>9, <1>12, <2>1, <2>2, <2>3 DEF Cursor, Sending
<1>18. ASSUME NEW p \in Senders \ {0} PROVE Cursor(H, c, p)'
  <2>1. Cursor(G, c, p)
    BY DEF Matches
  <2>2. spc[p] # "told"
    BY <2>1 DEF Cursor
  <2>3. Bound(p)' = Bound(p) /\ (Sending(p)' <=> Sending(p)) /\ spc'[p] = spc[p]
    BY <1>1, <1>4, <2>2 DEF Bound, Sending
  <2>4. c[p] \in 0 .. Len(G) /\ \A k \in 1 .. Len(G) : k <= c[p] <=> G[k] < Bound(p)
    BY <2>1 DEF Cursor
  <2>5. \A k \in 1 .. n : k <= c[p] <=> H[k] < Bound(p)
    <3>1. ASSUME NEW k \in 1 .. n PROVE k <= c[p] <=> H[k] < Bound(p)
      <4>1. CASE k \in 1 .. Len(G)
        BY <1>12, <2>4, <4>1
      <4>2. CASE ready' /\ k = Len(G) + 1
        <5>1. Bound(p) <= step[0] /\ Bound(p) \in Nat
          BY <1>1, Behind
        <5>2. H[k] = step[0] /\ ~(k <= c[p])
          BY <1>3, <1>12, <2>4, <4>2
        <5>3. ~(H[k] < Bound(p))
          BY <1>3, <5>1, <5>2
        <5> QED
          BY <5>2, <5>3
      <4> QED
        BY <1>13, <4>1, <4>2
    <3> QED
      BY <3>1
  <2>6. c[p] \in 0 .. n
    BY <1>3, <1>12, <2>4
  <2>7. Sending(p) => c[p] < n /\ H[c[p] + 1] = step[p]
    <3>1. Sending(p) => c[p] < Len(G) /\ G[c[p] + 1] = step[p]
      BY <2>1 DEF Cursor
    <3>2. c[p] < Len(G) => c[p] + 1 \in 1 .. Len(G) /\ c[p] < n
      BY <1>30, <2>4
    <3> QED
      BY <1>31, <3>1, <3>2
  <2> QED
    BY <1>1, <1>8, <1>12, <2>1, <2>2, <2>3, <2>5, <2>6, <2>7 DEF Cursor
<1>19. ASSUME NEW p \in Senders PROVE Flags(H, p)'
  <2>1. Flags(G, p)
    BY DEF Matches
  <2>2. CASE p = 0
    BY <1>5, <2>1, <2>2 DEF Flags
  <2>3. CASE p # 0
    <3>1. Heard(p)' = Heard(p)
      BY <1>1, <1>4, <2>3 DEF Heard
    <3>2. /\ Heard(p) \in Int /\ Len(sbcast[p]) \in Nat
          /\ Heard(p) + Len(sbcast[p]) = step[0] - 1
      BY <1>1, <2>3, Behind
    <3>3. \A k \in 1 .. Len(sbcast[p]) : sbcast[p][k] <=> Logged(G, Heard(p) + k)
      BY <1>8, <2>1, <2>3 DEF Flags
    <3>4. Len(sbcast'[p]) = Len(sbcast[p]) + 1
      BY <1>5, <2>3
    <3>7. PICK h \in Int, a \in Nat : h = Heard(p) /\ a = Len(sbcast[p])
      BY <3>2
    <3>8. h + a = step[0] - 1 /\ step[0] \in Nat
      BY <1>3, <3>2, <3>7
    <3>9. h + (a + 1) = step[0]
      BY <3>8
    <3>5. Heard(p) + Len(sbcast'[p]) = step[0]
      BY <3>4, <3>7, <3>9
    <3>6. ASSUME NEW k \in 1 .. Len(sbcast'[p])
          PROVE  sbcast'[p][k] <=> Logged(H, Heard(p) + k)
      <4>1. CASE k \in 1 .. Len(sbcast[p])
        <5>1. Heard(p) + k \in Int /\ Heard(p) + k <= step[0] - 1
          BY <3>7, <3>8, <4>1
        <5>2. Logged(H, Heard(p) + k) <=> Logged(G, Heard(p) + k)
          <6>1. \A j \in 1 .. Len(G) : j \in 1 .. n /\ H[j] = G[j]
            BY <1>3, <1>12
          <6>2. ready' => H[Len(G) + 1] # Heard(p) + k
            BY <1>3, <1>12, <5>1
          <6> QED
            BY <1>12, <1>13, <6>1, <6>2 DEF Logged
        <5>3. sbcast'[p][k] = sbcast[p][k]
          BY <1>5, <2>3, <4>1
        <5>4. sbcast[p][k] <=> Logged(G, Heard(p) + k)
          BY <3>3, <4>1
        <5> QED
          BY <5>2, <5>3, <5>4
      <4>2. CASE k = Len(sbcast[p]) + 1
        <5>1. Heard(p) + k = step[0]
          BY <3>7, <3>9, <4>2
        <5>2. sbcast'[p][k] = ready'
          BY <1>5, <2>3, <4>2
        <5>3. Logged(H, step[0]) <=> ready'
          <6>1. ready' => Len(G) + 1 \in 1 .. Len(H) /\ H[Len(G) + 1] = step[0]
            BY <1>3, <1>12
          <6>2. ~ready' => \A j \in 1 .. Len(H) : H[j] # step[0]
            BY <1>3, <1>11, <1>12, <1>13
          <6> QED
            BY <6>1, <6>2 DEF Logged
        <5> QED
          BY <5>1, <5>2, <5>3
      <4> QED
        BY <3>2, <3>4, <4>1, <4>2
    <3>10. (Heard(p) + Len(sbcast[p]) = Told)'
      BY <1>10, <3>1, <3>5
    <3>11. (\A k \in 1 .. Len(sbcast[p]) : sbcast[p][k] <=> Logged(H, Heard(p) + k))'
      BY <3>1, <3>6 DEF Logged
    <3> QED
      BY <1>8, <2>3, <3>10, <3>11 DEF Flags
  <2> QED
    BY <2>2, <2>3
<1>20. StopGiven' <=> StopGiven
  BY <1>1, <1>4 DEF StopGiven
<1>21. ASSUME NEW p \in Senders, NEW r \in Receivers PROVE Channel(H, c, p, r)'
  <2>1. Channel(G, c, p, r) /\ Cursor(G, c, p)
    BY DEF Matches
  <2>2. CASE ~Linked(p, r)
    BY <1>1, <2>1, <2>2 DEF Channel
  <2>3. CASE Linked(p, r)
    <3>1. Wrote(p, r)' <=> Wrote(p, r)
      <4>1. CASE p = 0
        BY <1>1, <1>4, <4>1 DEF Wrote
      <4>2. CASE p # 0
        BY <1>1, <1>4, <4>2 DEF Wrote
      <4> QED
        BY <4>1, <4>2
    <3>2. Given(c, p, r)' = Given(c, p, r)
      BY <3>1 DEF Given
    <3>3. Taken(p, r)' = Taken(p, r) /\ Stops(p, r)' = Stops(p, r)
      BY <1>2, <1>20 DEF Taken, Stops, StopTaken
    <3>4. Given(c, p, r) <= Len(G) /\ Given(c, p, r) \in Nat
      <4>1. c[p] \in 0 .. Len(G) /\ (Wrote(p, r) => c[p] < Len(G))
        BY <2>1 DEF Cursor, Wrote, Sending
      <4> QED
        BY <1>3, <4>1 DEF Given
    <3>5. PICK g, t, d : g = Given(c, p, r) /\ t = Taken(p, r) /\ d = g - t
      OBVIOUS
    <3>6. t \in Nat
      <4>1. got[r] \in Seq(Seq(Message))
        BY DEF Types
      <4>2. Len(got[r]) \in Nat
        BY <4>1, LenProperties
      <4> QED
        BY <3>5, <4>2 DEF Taken
    <3>7. /\ d \in Nat /\ Len(net[p][r]) = d + Stops(p, r)
          /\ \A k \in 1 .. d : net[p][r][k] = Buffer(p, r, G[t + k])
          /\ Stops(p, r) = 1 => net[p][r][d + 1] = Stop
          /\ ~Buffered /\ d # 0 => spc[p] = "posted" /\ sidx[p] = At(p, r)
      BY <2>1, <2>3, <3>5 DEF Channel
    <3>8. \A k \in 1 .. d : net[p][r][k] = Buffer(p, r, H[t + k])
      <4>2. g \in Nat /\ g <= Len(G) /\ d \in Nat /\ d = g - t
        BY <3>4, <3>5, <3>7
      <4>1. ASSUME NEW k \in 1 .. d PROVE t + k \in 1 .. Len(G)
        BY <1>30, <3>6, <4>2
      <4> QED
        BY <1>12, <3>7, <4>1
    <3>9. spc[p] = "posted" => spc'[p] = "posted"
      BY <1>1, <1>4
    <3> QED
      BY <1>1, <2>3, <3>2, <3>3, <3>5, <3>7, <3>8, <3>9 DEF Channel
  <2> QED
    BY <2>2, <2>3
<1>22. ASSUME NEW r \in Receivers PROVE Received(H, r)' /\ Orders(r)'
  <2>1. Received(G, r) /\ Orders(r)
    BY DEF Matches
  <2>2. Calls' = Calls /\ Called(r)' = Called(r) /\ (StopTaken' <=> StopTaken)
    BY <1>2 DEF Calls, Called, StopTaken
  <2>3. Orders(r)'
    BY <1>2, <2>1, <2>2, OrdersKept
  <2>4. PICK t \in Nat : t = Len(got[r])
    <3>1. got[r] \in Seq(Seq(Message))
      BY DEF Types
    <3> QED
      BY <3>1, LenProperties
  <2>5. ridx[r] \in 1 .. Len(ReceiverRanks(r)) /\ Len(ReceiverRanks(r)) \in Nat
    BY <1>3, <2>1, LinkFacts DEF Received
  <2>6. ridx[r] - 1 >= 1 => t + 1 \in 1 .. Len(G)
    <3> SUFFICES ASSUME ridx[r] - 1 >= 1 PROVE t + 1 \in 1 .. Len(G)
      OBVIOUS
    <3>1. PICK p : p = ReceiverRanks(r)[1]
      OBVIOUS
    <3>2. 1 \in 1 .. Len(ReceiverRanks(r)) /\ 1 < ridx[r]
      BY <2>5
    <3>3. p \in Senders
      BY <1>3, <3>1, <3>2, LinkFacts
    <3>4. Linked(p, r) /\ From(r, p) = 1
      BY <3>1, <3>2, <3>3, LinkFacts
    <3>5. Taken(p, r) = t + 1
      BY <2>4, <3>2, <3>4 DEF Taken
    <3>6. Given(c, p, r) - Taken(p, r) \in Nat
      <4>1. Channel(G, c, p, r)
        BY <3>3 DEF Matches
      <4> QED
        BY <3>4, <4>1 DEF Channel
    <3>7. Given(c, p, r) <= Len(G) /\ Given(c, p, r) \in Nat
      <4>1. Cursor(G, c, p)
        BY <3>3 DEF Matches
      <4>2. c[p] \in 0 .. Len(G) /\ (Wrote(p, r) => c[p] < Len(G))
        BY <4>1 DEF Cursor, Wrote, Sending
      <4> QED
        BY <1>3, <4>2 DEF Given
    <3>8. PICK g \in Nat : g = Given(c, p, r) /\ g - (t + 1) \in Nat /\ g <= Len(G)
      BY <3>5, <3>6, <3>7
    <3> QED
      BY <1>30, <2>4, <3>8
  <2>7. \A i \in 1 .. ridx[r] - 1 : parts[r][i] = Buffer(ReceiverRanks(r)[i], r, H[t + 1])
    <3>1. ASSUME NEW i \in 1 .. ridx[r] - 1
          PROVE  parts[r][i] = Buffer(ReceiverRanks(r)[i], r, H[t + 1])
      <4>1. H[t + 1] = G[t + 1]
        <5>1. ridx[r] - 1 >= 1
          BY <2>5
        <5> QED
          BY <1>12, <2>6, <5>1
      <4> QED
        BY <2>1, <2>4, <4>1 DEF Received
    <3> QED
      BY <3>1
  <2>8. t <= Len(G)
    BY <2>1, <2>4 DEF Received
  <2>9. t <= n /\ \A k \in 1 .. t : H[k] = G[k]
    BY <1>3, <1>12, <2>4, <2>8
  <2>10. Received(H, r)'
    BY <1>2, <1>12, <2>1, <2>4, <2>7, <2>9 DEF Received
  <2> QED
    BY <2>3, <2>10
<1>23. Answered(H)'
  <2>1. Answered(G)
    BY DEF Matches
  <2>2. /\ (IF spc'[0] \in {"stop", "stopped", "done"} THEN 1 ELSE 0) = 0
        /\ (IF spc[0] \in {"stop", "stopped", "done"} THEN 1 ELSE 0) = 0
    BY <1>1, <1>4
  <2>3. Len(H) + requests' = Len(G) + requests
    BY <1>3, <1>6, <1>12
  <2>4. Len(G) + requests \in Nat /\ Len(H) + requests' \in Nat
    <3>1. Len(G) \in Nat /\ requests \in Nat /\ Len(H) \in Nat /\ requests' \in Nat
      BY <1>3, <1>6, <1>12
    <3> QED
      BY <3>1
  <2> QED
    BY <1>2, <1>8, <2>1, <2>2, <2>3, <2>4 DEF Answered
<1>24. /\ (async => \A k \in 1 .. Len(H) : H[k] <= Told)' /\ (~async => requests = 0)'
       /\ (StopTaken => StopGiven)'
  <2>1. (~async => requests = 0)' /\ (async => \A k \in 1 .. Len(H) : H[k] <= Told)'
    BY <1>8, <1>10, <1>12, <1>15
  <2>2. (StopTaken => StopGiven)'
    BY <1>2, <1>20 DEF Matches, StopTaken
  <2> QED
    BY <2>1, <2>2
<1>25. /\ \A p \in Senders : Cursor(H, c, p)' /\ Flags(H, p)'
       /\ \A p \in Senders, r \in Receivers : Channel(H, c, p, r)'
       /\ \A r \in Receivers : Received(H, r)' /\ Orders(r)'
  BY <1>17, <1>18, <1>19, <1>21, <1>22
<1>26. Matches(H, c)'
  BY <1>14, <1>23, <1>24, <1>25 DEF Matches
<1> QED
  BY <1>7, <1>26

-----------------------------------------------------------------------------
(* The steps of a receiver                                                  *)

\* a receiver that takes no message changes nothing for its senders
LEMMA ChannelsAlone ==
    ASSUME Types, NEW G, NEW c, Matches(G, c), NEW r \in Receivers, UNCHANGED senderVars,
           net' = net, got' = got, ridx' = ridx, StopTaken' <=> StopTaken
    PROVE  \A p \in Senders : Channel(G, c, p, r)'
<1> SUFFICES ASSUME NEW p \in Senders PROVE Channel(G, c, p, r)'
  OBVIOUS
<1>1. spc' = spc /\ sidx' = sidx
  BY DEF senderVars
<1>2. Channel(G, c, p, r)
  BY DEF Matches
<1>3. Given(c, p, r)' = Given(c, p, r) /\ Taken(p, r)' = Taken(p, r)
  BY <1>1 DEF Given, Wrote, Taken
<1>4. Stops(p, r)' = Stops(p, r)
  BY <1>1 DEF Stops, StopGiven
<1> QED
  BY <1>1, <1>2, <1>3, <1>4, ChannelKept

LEMMA LoopInv ==
    ASSUME Types, NEW G, NEW c, Matches(G, c), NEW r \in Receivers, Loop(r), async' = async
    PROVE  Types' /\ Matches(G, c)'
<1>1. PICK place : /\ rpc[r] = "loop" /\ rpc' = [rpc EXCEPT ![r] = place]
                   /\ place = IF async /\ r = 0 THEN "requested" ELSE "check"
                   /\ requests' = IF async /\ r = 0 THEN requests + 1 ELSE requests
                   /\ ridx' = ridx /\ stop' = stop /\ rbcast' = rbcast /\ parts' = parts
                   /\ got' = got /\ net' = net /\ UNCHANGED senderVars
  <2>1. /\ rpc[r] = "loop" /\ UNCHANGED <<ridx, stop, rbcast, parts, got, senderVars, net>>
    BY DEF Loop
  <2>2. CASE async /\ r = 0
    BY <2>1, <2>2 DEF Loop
  <2>3. CASE ~(async /\ r = 0)
    BY <2>1, <2>3 DEF Loop
  <2> QED
    BY <2>2, <2>3
<1>2. rpc'[r] = place /\ \A q \in Receivers \ {r} : rpc'[q] = rpc[q]
  BY <1>1 DEF Types
<1>3. step' = step /\ spc' = spc /\ sidx' = sidx /\ ready' = ready /\ sbcast' = sbcast
  BY <1>1 DEF senderVars
<1>4. Types'
  <2>1. rpc' \in [Receivers -> {"loop", "requested", "check", "told", "receive", "done"}]
    BY <1>1 DEF Types
  <2>2. requests' \in Nat
    BY <1>1 DEF Types
  <2> QED
    BY <1>1, <1>3, <2>1, <2>2 DEF Types
<1>5. (StopTaken' <=> StopTaken) /\ Calls' = Calls
  <2>1. CASE r = 0
    BY <1>1, <1>2, <2>1 DEF StopTaken, Calls
  <2>2. CASE r # 0
    BY <1>1, <1>2, <2>2, Basics DEF StopTaken, Calls
  <2> QED
    BY <2>1, <2>2
<1>6. ASSUME NEW q \in Receivers PROVE Orders(q)'
  <2>1. Orders(q)
    BY DEF Matches
  <2>2. Called(q)' = Called(q) /\ (rpc'[q] = "done" <=> rpc[q] = "done")
    <3>1. CASE q = r
      BY <1>1, <1>2, <3>1 DEF Called
    <3>2. CASE q # r
      BY <1>1, <1>2, <3>2 DEF Called
    <3> QED
      BY <3>1, <3>2
  <2> QED
    BY <1>1, <1>5, <2>1, <2>2, OrdersKept
<1>7. Received(G, r)'
  <2>1. Received(G, r)
    BY DEF Matches
  <2> QED
    BY <1>1, <1>2, <2>1 DEF Received
<1>8. \A p \in Senders : Channel(G, c, p, r)'
  BY <1>1, <1>5, ChannelsAlone
<1>9. Answered(G)'
  <2>1. Answered(G)
    BY DEF Matches
  <2>2. CASE r = 0
    <3> SUFFICES ASSUME async PROVE Answered(G)'
      BY DEF Answered
    <3>1. (IF rpc[0] = "loop" THEN 0 ELSE 1) = 0 /\ (IF rpc'[0] = "loop" THEN 0 ELSE 1) = 1
      BY <1>1, <1>2, <2>2
    <3>2. requests' = requests + 1 /\ requests \in Nat /\ Len(G) \in Nat
      BY <1>1, <2>2, Basics DEF Types
    <3>3. Len(got[0]) \in Nat
      <4>1. got[0] \in Seq(Seq(Message))
        BY <2>2 DEF Types
      <4> QED
        BY <4>1, LenProperties
    <3>4. PICK a \in Nat, b \in Nat, i \in {0, 1} :
             /\ a = Len(G) /\ b = Len(got[0])
             /\ i = IF spc[0] \in {"stop", "stopped", "done"} THEN 1 ELSE 0
      BY <3>2, <3>3
    <3>5. a + requests + i = b + 0
      BY <2>1, <3>1, <3>4 DEF Answered
    <3>6. a + requests' + i = b + 1
      BY <3>2, <3>5
    <3> QED
      BY <1>1, <1>3, <3>1, <3>4, <3>6 DEF Answered
  <2>3. CASE r # 0
    BY <1>1, <1>2, <1>3, <2>1, <2>3, Basics, AnsweredKept
  <2> QED
    BY <2>2, <2>3
<1>10. ~async => requests' = 0
  BY <1>1 DEF Matches
<1>11. StopTaken' => StopGiven
  BY <1>5 DEF Matches
<1>12. Matches(G, c)'
  BY <1>1, <1>2, <1>6, <1>7, <1>8, <1>9, <1>10, <1>11, ReceiverSide
<1> QED
  BY <1>4, <1>12

LEMMA RequestSentInv ==
    ASSUME Types, NEW G, NEW c, Matches(G, c), NEW r \in Receivers, RequestSent(r), async' = async
    PROVE  Types' /\ Matches(G, c)'
<1>1. /\ rpc[r] = "requested" /\ rpc' = [rpc EXCEPT ![r] = "check"]
      /\ ridx' = ridx /\ stop' = stop /\ rbcast' = rbcast /\ parts' = parts
      /\ got' = got /\ net' = net /\ requests' = requests /\ UNCHANGED senderVars
  BY DEF RequestSent
<1>2. rpc'[r] = "check" /\ \A q \in Receivers \ {r} : rpc'[q] = rpc[q]
  BY <1>1 DEF Types
<1>3. step' = step /\ spc' = spc /\ sidx' = sidx /\ ready' = ready /\ sbcast' = sbcast
  BY <1>1 DEF senderVars
<1>4. Types'
  <2>1. rpc' \in [Receivers -> {"loop", "requested", "check", "told", "receive", "done"}]
    BY <1>1 DEF Types
  <2> QED
    BY <1>1, <1>3, <2>1 DEF Types
<1>5. Received(G, r)
  BY DEF Matches
<1>6. r = 0
  BY <1>1, <1>5 DEF Received
<1>7. (StopTaken' <=> StopTaken) /\ Calls' = Calls
  BY <1>1, <1>2, <1>6 DEF StopTaken, Calls
<1>8. ASSUME NEW q \in Receivers PROVE Orders(q)'
  <2>1. Orders(q)
    BY DEF Matches
  <2>2. Called(q)' = Called(q) /\ (rpc'[q] = "done" <=> rpc[q] = "done")
    <3>1. CASE q = r
      BY <1>1, <1>2, <3>1 DEF Called
    <3>2. CASE q # r
      BY <1>1, <1>2, <3>2 DEF Called
    <3> QED
      BY <3>1, <3>2
  <2> QED
    BY <1>1, <1>7, <2>1, <2>2, OrdersKept
<1>9. Received(G, r)'
  BY <1>1, <1>2, <1>5 DEF Received
<1>10. \A p \in Senders : Channel(G, c, p, r)'
  BY <1>1, <1>7, ChannelsAlone
<1>11. Answered(G)'
  <2>1. Answered(G)
    BY DEF Matches
  <2>2. rpc'[0] # "loop" /\ rpc[0] # "loop"
    BY <1>1, <1>2, <1>6
  <2> QED
    BY <1>1, <1>3, <2>1, <2>2, AnsweredKept
<1>12. (~async => requests' = 0) /\ (StopTaken' => StopGiven)
  BY <1>1, <1>7 DEF Matches
<1>13. Matches(G, c)'
  BY <1>1, <1>2, <1>8, <1>9, <1>10, <1>11, <1>12, ReceiverSide
<1> QED
  BY <1>4, <1>13

LEMMA ObeyInv ==
    ASSUME Types, NEW G, NEW c, Matches(G, c), NEW r \in Receivers, Obey(r), async' = async
    PROVE  Types' /\ Matches(G, c)'
<1>1. /\ ridx' = ridx /\ stop' = stop /\ parts' = parts /\ got' = got /\ net' = net
      /\ requests' = requests /\ UNCHANGED senderVars
      /\ rpc[r] = IF r = 0 THEN "told" ELSE "check"
      /\ r = 0 => rbcast' = rbcast
      /\ r # 0 => rbcast[r] # <<>> /\ rbcast' = [rbcast EXCEPT ![r] = Tail(@)]
  BY DEF Obey
<1>2. step' = step /\ spc' = spc /\ sidx' = sidx /\ ready' = ready /\ sbcast' = sbcast
  BY <1>1 DEF senderVars
<1>3. PICK ends : /\ ends \in BOOLEAN
                  /\ rpc' = [rpc EXCEPT ![r] = IF ends THEN "done" ELSE "receive"]
                  /\ r = 0 => ends = stop
                  /\ r # 0 => ends = Head(rbcast[r])
  <2>1. CASE r = 0
    BY <2>1 DEF Obey, Types
  <2>2. CASE r # 0
    <3>1. Head(rbcast[r]) \in BOOLEAN
      <4>1. rbcast[r] \in Seq(BOOLEAN)
        BY DEF Types
      <4> QED
        BY <1>1, <2>2, <4>1, HeadTailProperties
    <3> QED
      BY <2>2, <3>1 DEF Obey
  <2> QED
    BY <2>1, <2>2
<1>4. /\ rpc'[r] = IF ends THEN "done" ELSE "receive"
      /\ \A q \in Receivers \ {r} : rpc'[q] = rpc[q]
  BY <1>3 DEF Types
<1>5. r # 0 => /\ Len(rbcast[r]) \in Nat /\ Len(rbcast[r]) >= 1 /\ rbcast'[r] \in Seq(BOOLEAN)
               /\ Len(rbcast'[r]) = Len(rbcast[r]) - 1
               /\ \A k \in 1 .. Len(rbcast'[r]) : rbcast'[r][k] = rbcast[r][k + 1]
               /\ rbcast[r][1] = ends
  <2> SUFFICES ASSUME r # 0
               PROVE  /\ Len(rbcast[r]) \in Nat /\ Len(rbcast[r]) >= 1 /\ rbcast'[r] \in Seq(BOOLEAN)
                      /\ Len(rbcast'[r]) = Len(rbcast[r]) - 1
                      /\ \A k \in 1 .. Len(rbcast'[r]) : rbcast'[r][k] = rbcast[r][k + 1]
                      /\ rbcast[r][1] = ends
    OBVIOUS
  <2>1. rbcast[r] \in Seq(BOOLEAN) /\ rbcast'[r] = Tail(rbcast[r]) /\ rbcast[r] # <<>>
    BY <1>1 DEF Types
  <2>2. Len(rbcast[r]) \in Nat /\ Len(rbcast[r]) >= 1
    BY <2>1, EmptySeq
  <2>3. /\ Tail(rbcast[r]) \in Seq(BOOLEAN)
        /\ Len(Tail(rbcast[r])) = Len(rbcast[r]) - 1
        /\ \A k \in 1 .. Len(Tail(rbcast[r])) : Tail(rbcast[r])[k] = rbcast[r][k + 1]
    BY <2>1, HeadTailProperties
  <2>4. rbcast[r][1] = ends
    BY <1>3, <2>1
  <2> QED
    BY <2>1, <2>2, <2>3, <2>4
<1>6. Types'
  <2>1. rpc' \in [Receivers -> {"loop", "requested", "check", "told", "receive", "done"}]
    BY <1>3 DEF Types
  <2>2. rbcast' \in [Receivers -> Seq(BOOLEAN)]
    <3>1. rbcast \in [Receivers -> Seq(BOOLEAN)]
      BY DEF Types
    <3> QED
      BY <1>1, <1>5, <3>1
  <2> QED
    BY <1>1, <1>2, <2>1, <2>2 DEF Types
<1>7. (StopTaken' <=> StopTaken) /\ Calls' = Calls
  <2>1. CASE r = 0
    BY <1>1, <1>3, <1>4, <2>1 DEF StopTaken, Calls
  <2>2. CASE r # 0
    BY <1>1, <1>4, <2>2, Basics DEF StopTaken, Calls
  <2> QED
    BY <2>1, <2>2
<1>8. Received(G, r)'
  <2>1. Received(G, r)
    BY DEF Matches
  <2>2. ridx[r] = 1
    BY <1>1, <2>1 DEF Received
  <2> QED
    BY <1>1, <1>4, <2>1, <2>2 DEF Received
<1>9. \A p \in Senders : Channel(G, c, p, r)'
  BY <1>1, <1>7, ChannelsAlone
<1>10. Answered(G)'
  <2>1. Answered(G)
    BY DEF Matches
  <2>2. rpc'[0] = "loop" <=> rpc[0] = "loop"
    <3>1. CASE r = 0
      BY <1>1, <1>4, <3>1
    <3>2. CASE r # 0
      BY <1>4, <3>2, Basics
    <3> QED
      BY <3>1, <3>2
  <2> QED
    BY <1>1, <1>2, <2>1, <2>2, AnsweredKept
<1>11. ASSUME NEW q \in Receivers, q # r PROVE Orders(q)'
  <2>1. Orders(q)
    BY DEF Matches
  <2>2. Called(q)' = Called(q) /\ rpc'[q] = rpc[q]
    BY <1>1, <1>4, <1>11 DEF Called
  <2>3. rbcast'[q] = rbcast[q]
    BY <1>1, <1>11 DEF Types
  <2> QED
    BY <1>7, <2>1, <2>2, <2>3, OrdersKept
<1>12. Orders(r)'
  <2>1. Orders(r)
    BY DEF Matches
  <2>2. CASE r = 0
    BY <1>1, <2>1, <2>2 DEF Orders
  <2>3. CASE r # 0
    <3>1. PICK g \in Nat : g = Len(got[r])
      <4>1. got[r] \in Seq(Seq(Message))
        BY DEF Types
      <4> QED
        BY <4>1, LenProperties
    <3>2. Called(r) = g /\ Called(r)' = IF ends THEN g ELSE g + 1
      BY <1>1, <1>4, <2>3, <3>1 DEF Called
    <3>3. PICK n \in Nat : n = Calls - Called(r)
      BY <2>1, <2>3 DEF Orders
    <3>4. /\ Len(rbcast[r]) = IF StopTaken THEN n + 1 ELSE n
          /\ \A k \in 1 .. n : ~rbcast[r][k]
          /\ StopTaken => rbcast[r][n + 1]
      BY <1>1, <2>1, <2>3, <3>3 DEF Orders
    <3>5. Calls = g + n
      <4>1. Calls \in Int
        <5>1. got[0] \in Seq(Seq(Message))
          BY Basics DEF Types
        <5>2. Len(got[0]) \in Nat
          BY <5>1, LenProperties
        <5> QED
          BY <5>2 DEF Calls
      <4> QED
        BY <3>1, <3>2, <3>3, <4>1
    <3>6. CASE ends
      <4>1. n = 0 /\ StopTaken
        <5>1. 1 \notin 1 .. n
          BY <1>5, <2>3, <3>4, <3>6
        <5> QED
          BY <1>5, <2>3, <3>3, <3>4, <5>1
      <4>2. Calls' - Called(r)' = 0
        BY <1>7, <3>2, <3>5, <3>6, <4>1
      <4>3. Len(rbcast'[r]) = 0
        BY <1>5, <2>3, <3>4, <4>1
      <4>4. rpc'[r] = "done"
        BY <1>4, <3>6
      <4> QED
        BY <1>7, <2>3, <4>1, <4>2, <4>3, <4>4 DEF Orders
    <3>7. CASE ~ends
      <4>1. n >= 1
        <5> SUFFICES ASSUME n = 0 PROVE FALSE
          BY <3>3
        <5>1. StopTaken
          BY <1>5, <2>3, <3>4
        <5>2. rbcast[r][1]
          BY <3>4, <5>1
        <5> QED
          BY <1>5, <2>3, <3>7, <5>2
      <4>2. PICK m \in Nat : n = m + 1
        <5>1. n - 1 \in Nat /\ n = (n - 1) + 1
          BY <4>1
        <5> QED
          BY <5>1
      <4>3. Calls' - Called(r)' = m
        BY <1>7, <3>2, <3>5, <3>7, <4>2
      <4>4. Len(rbcast'[r]) = IF StopTaken THEN m + 1 ELSE m
        BY <1>5, <2>3, <3>4, <4>2
      <4>5. \A k \in 1 .. m : ~rbcast'[r][k]
        <5>1. \A k \in 1 .. m : k \in 1 .. Len(rbcast'[r]) /\ k + 1 \in 1 .. n
          BY <4>2, <4>4
        <5> QED
          BY <1>5, <2>3, <3>4, <5>1
      <4>6. StopTaken => rbcast'[r][m + 1]
        <5>1. StopTaken => m + 1 \in 1 .. Len(rbcast'[r]) /\ (m + 1) + 1 = n + 1
          BY <4>2, <4>4
        <5> QED
          BY <1>5, <2>3, <3>4, <5>1
      <4>7. rpc'[r] = "receive"
        BY <1>4, <3>7
      <4> QED
        BY <1>7, <2>3, <4>3, <4>4, <4>5, <4>6, <4>7 DEF Orders
    <3> QED
      BY <1>3, <3>6, <3>7
  <2> QED
    BY <2>2, <2>3
<1>13. \A q \in Receivers : Orders(q)'
  BY <1>11, <1>12
<1>14. \A q \in Receivers \ {r} : rpc'[q] = rpc[q] /\ ridx'[q] = ridx[q] /\ parts'[q] = parts[q]
          /\ got'[q] = got[q]
  BY <1>1, <1>4
<1>15. (~async => requests' = 0) /\ (StopTaken' => StopGiven)
  BY <1>1, <1>7 DEF Matches
<1>16. Matches(G, c)'
  BY <1>1, <1>8, <1>9, <1>10, <1>13, <1>14, <1>15, ReceiverSide
<1> QED
  BY <1>6, <1>16

\* the k-th message from s to r is taken
Took(s, r, k) == net' = [net EXCEPT ![s][r] = RemoveAt(@, k)]

LEMMA TookFacts ==
    ASSUME Types, NEW s \in Senders, NEW r \in Receivers, NEW k, k \in 1 .. Len(net[s][r]),
           Took(s, r, k)
    PROVE  /\ net' \in [Senders -> [Receivers -> Seq(Message)]]
           /\ net[s][r] \in Seq(Message) /\ Len(net[s][r]) \in Nat
           /\ Len(net'[s][r]) = Len(net[s][r]) - 1
           /\ \A l \in 1 .. Len(net[s][r]) - 1 :
                 net'[s][r][l] = IF l < k THEN net[s][r][l] ELSE net[s][r][l + 1]
           /\ \A p \in Senders \ {s} : net'[p] = net[p]
           /\ \A q \in Receivers \ {r} : net'[s][q] = net[s][q]
<1>1. net \in [Senders -> [Receivers -> Seq(Message)]]
  BY DEF Types
<1>2. net[s][r] \in Seq(Message)
  BY <1>1
<1>3. /\ RemoveAt(net[s][r], k) \in Seq(Message)
      /\ Len(RemoveAt(net[s][r], k)) = Len(net[s][r]) - 1
      /\ \A l \in 1 .. Len(net[s][r]) - 1 :
            RemoveAt(net[s][r], k)[l] = IF l < k THEN net[s][r][l] ELSE net[s][r][l + 1]
  BY <1>2, RemoveFacts
<1>4. net'[s][r] = RemoveAt(net[s][r], k)
  BY <1>1 DEF Took
<1>5. net' \in [Senders -> [Receivers -> Seq(Message)]]
  BY <1>1, <1>3 DEF Took
<1>6. Len(net[s][r]) \in Nat
  BY <1>2, LenProperties
<1>7. /\ \A p \in Senders \ {s} : net'[p] = net[p]
      /\ \A q \in Receivers \ {r} : net'[s][q] = net[s][q]
  BY <1>1 DEF Took
<1> QED
  BY <1>2, <1>3, <1>4, <1>5, <1>6, <1>7

\* what is under way from a sender to its receiver: d messages with data, from the
\* step after the t-th of the log on, and e stop messages
Waiting(G, c, s, r, d, e, t) ==
    /\ d = Given(c, s, r) - Taken(s, r) /\ e = Stops(s, r) /\ t = Taken(s, r)
    /\ Given(c, s, r) = t + d /\ t + d <= Len(G)
    /\ net[s][r] \in Seq(Message) /\ Len(net[s][r]) = d + e
    /\ \A k \in 1 .. d : /\ net[s][r][k] = Buffer(s, r, G[t + k])
                         /\ t + k \in 1 .. Len(G)
                         /\ net[s][r][k].tag = "data"
    /\ e = 1 => net[s][r][d + 1] = Stop
    /\ ~Buffered /\ d # 0 => spc[s] = "posted" /\ sidx[s] = At(s, r)

LEMMA UnderWay ==
    ASSUME Types, NEW G, NEW c, Matches(G, c), NEW s \in Senders, NEW r \in Receivers, Linked(s, r)
    PROVE  \E d \in Nat, e \in {0, 1}, t \in Nat : Waiting(G, c, s, r, d, e, t)
<1>1. Channel(G, c, s, r) /\ Cursor(G, c, s)
  BY DEF Matches
<1>2. PICK d, e, t : d = Given(c, s, r) - t /\ e = Stops(s, r) /\ t = Taken(s, r)
  OBVIOUS
<1>3. /\ d \in Nat /\ Len(net[s][r]) = d + e
      /\ \A k \in 1 .. d : net[s][r][k] = Buffer(s, r, G[t + k])
      /\ e = 1 => net[s][r][d + 1] = Stop
      /\ ~Buffered /\ d # 0 => spc[s] = "posted" /\ sidx[s] = At(s, r)
  BY <1>1, <1>2 DEF Channel
<1>4. e \in {0, 1}
  BY <1>2 DEF Stops
<1>5. t \in Nat
  <2>1. got[r] \in Seq(Seq(Message))
    BY DEF Types
  <2>2. Len(got[r]) \in Nat
    BY <2>1, LenProperties
  <2> QED
    BY <1>2, <2>2 DEF Taken
<1>6. Given(c, s, r) \in Nat /\ Given(c, s, r) <= Len(G) /\ Len(G) \in Nat
  <2>1. c[s] \in 0 .. Len(G) /\ (Wrote(s, r) => c[s] < Len(G))
    BY <1>1 DEF Cursor, Wrote, Sending
  <2>2. Len(G) \in Nat
    BY Basics
  <2> QED
    BY <2>1, <2>2 DEF Given
<1>7. Given(c, s, r) = t + d /\ t + d <= Len(G)
  BY <1>2, <1>3, <1>5, <1>6
<1>8. net[s][r] \in Seq(Message)
  BY DEF Types
<1>9. ASSUME NEW k \in 1 .. d PROVE t + k \in 1 .. Len(G) /\ net[s][r][k].tag = "data"
  <2>1. t + k \in 1 .. Len(G)
    BY <1>3, <1>5, <1>6, <1>7
  <2>2. G[t + k] \in 1 .. Steps
    BY <2>1, Basics
  <2>3. Buffer(s, r, G[t + k]).tag = "data"
    BY <2>2, BufferFacts
  <2> QED
    BY <1>3, <2>1, <2>3
<1> QED
  BY <1>2, <1>3, <1>4, <1>5, <1>7, <1>8, <1>9 DEF Waiting

LEMMA CheckStopInv ==
    ASSUME Types, NEW G, NEW c, Matches(G, c), NEW r \in Receivers, CheckStop(r), async' = async
    PROVE  Types' /\ Matches(G, c)'
<1>1. /\ r = 0 /\ rpc[0] = "check" /\ rpc' = [rpc EXCEPT ![0] = "told"]
      /\ ridx' = ridx /\ parts' = parts /\ got' = got /\ requests' = requests
      /\ UNCHANGED senderVars
      /\ rbcast' = Bcast(rbcast, stop') /\ stop' \in BOOLEAN
      /\ stop' => /\ Tagged(net[0][0], "stop") # {}
                  /\ Took(0, 0, Oldest(net[0][0], "stop"))
      /\ ~stop' => net' = net
  BY DEF CheckStop, Took
<1>2. step' = step /\ spc' = spc /\ sidx' = sidx /\ ready' = ready /\ sbcast' = sbcast
  BY <1>1 DEF senderVars
<1>3. 0 \in Senders /\ 0 \in Receivers /\ Linked(0, 0)
  BY RootsMeet
<1>4. rpc'[0] = "told" /\ \A q \in Receivers \ {0} : rpc'[q] = rpc[q]
  BY <1>1 DEF Types
<1>5. /\ rbcast' \in [Receivers -> Seq(BOOLEAN)] /\ rbcast'[0] = rbcast[0]
      /\ \A q \in Receivers \ {0} :
            /\ Len(rbcast'[q]) = Len(rbcast[q]) + 1
            /\ \A k \in 1 .. Len(rbcast[q]) : rbcast'[q][k] = rbcast[q][k]
            /\ rbcast'[q][Len(rbcast[q]) + 1] = stop'
  <2>1. rbcast \in [Receivers -> Seq(BOOLEAN)]
    BY DEF Types
  <2>2. PICK flag \in BOOLEAN : flag = stop'
    BY <1>1
  <2>3. flag \in BOOLEAN
    OBVIOUS
  <2>4. /\ Bcast(rbcast, flag) \in [Receivers -> Seq(BOOLEAN)]
        /\ \A q \in Receivers : q = 0 => Bcast(rbcast, flag)[q] = rbcast[q]
        /\ \A q \in Receivers : q # 0 =>
              /\ Len(Bcast(rbcast, flag)[q]) = Len(rbcast[q]) + 1
              /\ \A k \in 1 .. Len(rbcast[q]) : Bcast(rbcast, flag)[q][k] = rbcast[q][k]
              /\ Bcast(rbcast, flag)[q][Len(rbcast[q]) + 1] = flag
    BY <2>1, <2>3, BcastFacts
  <2>5. rbcast' = Bcast(rbcast, flag)
    BY <1>1, <2>2
  <2> QED
    BY <1>3, <2>2, <2>4, <2>5
<1>23. PICK d \in Nat, e \in {0, 1}, t \in Nat : Waiting(G, c, 0, 0, d, e, t)
  BY <1>3, UnderWay
<1>6. /\ d = Given(c, 0, 0) - Taken(0, 0) /\ e = Stops(0, 0) /\ t = Taken(0, 0)
      /\ Given(c, 0, 0) = t + d /\ t + d <= Len(G)
      /\ net[0][0] \in Seq(Message) /\ Len(net[0][0]) = d + e
      /\ \A k \in 1 .. d : /\ net[0][0][k] = Buffer(0, 0, G[t + k])
                           /\ t + k \in 1 .. Len(G)
                           /\ net[0][0][k].tag = "data"
      /\ e = 1 => net[0][0][d + 1] = Stop
      /\ ~Buffered /\ d # 0 => spc[0] = "posted" /\ sidx[0] = At(0, 0)
  BY <1>23 DEF Waiting
<1>7. stop' => e = 1 /\ Oldest(net[0][0], "stop") = d + 1
  <2>1. /\ Tagged(net[0][0], "stop") # {} <=> e = 1
        /\ e = 1 => Oldest(net[0][0], "stop") = d + 1
    BY <1>6, Oldests
  <2> QED
    BY <1>1, <2>1
<1>8. stop' => /\ net' \in [Senders -> [Receivers -> Seq(Message)]]
               /\ Len(net'[0][0]) = d
               /\ \A k \in 1 .. d : net'[0][0][k] = net[0][0][k]
               /\ \A p \in Senders \ {0} : net'[p] = net[p]
               /\ \A q \in Receivers \ {0} : net'[0][q] = net[0][q]
  <2> SUFFICES ASSUME stop'
               PROVE  /\ net' \in [Senders -> [Receivers -> Seq(Message)]]
                      /\ Len(net'[0][0]) = d
                      /\ \A k \in 1 .. d : net'[0][0][k] = net[0][0][k]
                      /\ \A p \in Senders \ {0} : net'[p] = net[p]
                      /\ \A q \in Receivers \ {0} : net'[0][q] = net[0][q]
    OBVIOUS
  <2>1. Took(0, 0, d + 1) /\ d + 1 \in 1 .. Len(net[0][0]) /\ Len(net[0][0]) = d + 1
    <3>1. Took(0, 0, d + 1) /\ e = 1
      BY <1>1, <1>7
    <3>2. Len(net[0][0]) = d + 1 /\ d \in Nat
      BY <1>6, <3>1
    <3> QED
      BY <3>1, <3>2
  <2>2. /\ net' \in [Senders -> [Receivers -> Seq(Message)]]
        /\ Len(net'[0][0]) = Len(net[0][0]) - 1
        /\ \A l \in 1 .. Len(net[0][0]) - 1 :
              net'[0][0][l] = IF l < d + 1 THEN net[0][0][l] ELSE net[0][0][l + 1]
        /\ \A p \in Senders \ {0} : net'[p] = net[p]
        /\ \A q \in Receivers \ {0} : net'[0][q] = net[0][q]
    BY <1>3, <2>1, TookFacts
  <2>3. Len(net[0][0]) - 1 = d /\ \A l \in 1 .. d : l < d + 1
    BY <2>1
  <2> QED
    BY <2>2, <2>3
<1>9. /\ net' \in [Senders -> [Receivers -> Seq(Message)]]
      /\ \A p \in Senders, q \in Receivers : ~(p = 0 /\ q = 0) => net'[p][q] = net[p][q]
  <2>1. CASE stop'
    BY <1>8, <2>1
  <2>2. CASE ~stop'
    BY <1>1, <2>2 DEF Types
  <2> QED
    BY <1>1, <2>1, <2>2
<1>10. Types'
  <2>1. rpc' \in [Receivers -> {"loop", "requested", "check", "told", "receive", "done"}]
    BY <1>1 DEF Types
  <2> QED
    BY <1>1, <1>2, <1>5, <1>9, <2>1 DEF Types
<1>11. ~StopTaken /\ (StopTaken' <=> stop') /\ (stop' => StopGiven)
  <2>1. ~StopTaken /\ (StopTaken' <=> stop')
    BY <1>1, <1>4 DEF StopTaken
  <2>2. stop' => StopGiven
    BY <1>6, <1>7 DEF Stops
  <2> QED
    BY <2>1, <2>2
<1>12. Received(G, r)'
  <2>1. Received(G, r)
    BY DEF Matches
  <2>2. ridx[r] = 1
    BY <1>1, <2>1 DEF Received
  <2> QED
    BY <1>1, <1>4, <2>1, <2>2 DEF Received
<1>13. ASSUME NEW p \in Senders, NEW q \in Receivers
       PROVE  Given(c, p, q)' = Given(c, p, q) /\ Taken(p, q)' = Taken(p, q)
  BY <1>1, <1>2 DEF Given, Wrote, Taken
<1>14. ASSUME NEW p \in Senders PROVE Channel(G, c, p, r)'
  <2>1. Channel(G, c, p, r)
    BY DEF Matches
  <2>2. CASE p # 0
    <3>1. Stops(p, r)' = Stops(p, r)
      BY <2>2 DEF Stops
    <3>2. net'[p][r] = net[p][r]
      BY <1>1, <1>9, <2>2
    <3> QED
      BY <1>2, <1>13, <2>1, <3>1, <3>2, ChannelKept
  <2>3. CASE p = 0 /\ ~stop'
    <3>1. Stops(p, r)' = Stops(p, r)
      BY <1>2, <1>11, <2>3 DEF Stops, StopGiven
    <3>2. net'[p][r] = net[p][r]
      BY <1>1, <2>3
    <3> QED
      BY <1>2, <1>13, <2>1, <3>1, <3>2, ChannelKept
  <2>4. CASE p = 0 /\ stop'
    <3>1. Stops(0, 0)' = 0
      BY <1>11, <2>4 DEF Stops
    <3>2. Given(c, 0, 0)' - Taken(0, 0)' = d /\ Taken(0, 0)' = t
      BY <1>3, <1>6, <1>13
    <3>3. Len(net'[0][0]) = d /\ \A k \in 1 .. d : net'[0][0][k] = Buffer(0, 0, G[t + k])
      BY <1>6, <1>8, <2>4
    <3>4. ~Buffered /\ d # 0 => spc'[0] = "posted" /\ sidx'[0] = At(0, 0)
      BY <1>2, <1>6
    <3>5. Channel(G, c, 0, 0)'
      BY <1>3, <3>1, <3>2, <3>3, <3>4 DEF Channel
    <3> QED
      BY <1>1, <2>4, <3>5
  <2> QED
    BY <1>1, <2>2, <2>3, <2>4
<1>15. Answered(G)'
  <2>1. Answered(G)
    BY DEF Matches
  <2>2. rpc'[0] # "loop" /\ rpc[0] # "loop"
    BY <1>1, <1>4
  <2> QED
    BY <1>1, <1>2, <2>1, <2>2, AnsweredKept
<1>16. PICK g \in Nat : g = Len(got[0]) /\ Calls = g /\ Calls' = IF stop' THEN g ELSE g + 1
  <2>1. got[0] \in Seq(Seq(Message))
    BY <1>3 DEF Types
  <2>2. Len(got[0]) \in Nat
    BY <2>1, LenProperties
  <2>3. Calls = Len(got[0]) /\ Calls' = IF stop' THEN Len(got[0]) ELSE Len(got[0]) + 1
    BY <1>1, <1>4 DEF Calls
  <2> QED
    BY <2>2, <2>3
<1>17. ASSUME NEW q \in Receivers PROVE Orders(q)'
  <2>1. Orders(q)
    BY DEF Matches
  <2>2. CASE q = 0
    BY <1>5, <2>1, <2>2 DEF Orders
  <2>3. CASE q # 0
    <3>1. rpc'[q] = rpc[q] /\ Called(q)' = Called(q)
      BY <1>1, <1>4, <2>3 DEF Called
    <3>2. PICK n \in Nat, a \in Nat : n = Calls - a /\ a = Called(q)
      <4>1. got[q] \in Seq(Seq(Message))
        BY DEF Types
      <4>2. Len(got[q]) \in Nat
        BY <4>1, LenProperties
      <4>3. Called(q) \in Nat
        BY <4>2 DEF Called
      <4>4. Calls - Called(q) \in Nat
        BY <2>1, <2>3 DEF Orders
      <4> QED
        BY <4>3, <4>4
    <3>4. /\ Len(rbcast[q]) = n /\ \A k \in 1 .. n : ~rbcast[q][k]
          /\ rpc[q] # "done"
      BY <1>11, <2>1, <2>3, <3>2 DEF Orders
    <3>5. /\ Len(rbcast'[q]) = n + 1 /\ \A k \in 1 .. n : ~rbcast'[q][k]
          /\ rbcast'[q][n + 1] = stop'
      BY <1>5, <2>3, <3>4
    <3>6. CASE stop'
      <4>1. Calls' - Called(q)' = n /\ rpc'[q] # "done"
        BY <1>16, <3>1, <3>2, <3>4, <3>6
      <4>2. rbcast'[q][n + 1]
        BY <3>5, <3>6
      <4> QED
        BY <1>11, <2>3, <3>5, <3>6, <4>1, <4>2 DEF Orders
    <3>7. CASE ~stop'
      <4>1. Calls' - Called(q)' = n + 1
        BY <1>16, <3>1, <3>2, <3>7
      <4>2. rpc'[q] # "done"
        BY <3>1, <3>4
      <4>3. \A k \in 1 .. n + 1 : ~rbcast'[q][k]
        <5>1. \A k \in 1 .. n + 1 : k \in 1 .. n \/ k = n + 1
          OBVIOUS
        <5>2. ~rbcast'[q][n + 1]
          BY <3>5, <3>7
        <5> QED
          BY <3>5, <5>1, <5>2
      <4> QED
        BY <1>11, <2>3, <3>5, <3>7, <4>1, <4>2, <4>3 DEF Orders
    <3> QED
      BY <1>1, <3>6, <3>7
  <2> QED
    BY <2>2, <2>3
<1>18. \A p \in Senders : Channel(G, c, p, r)'
  BY <1>14
<1>19. \A q \in Receivers : Orders(q)'
  BY <1>17
<1>20. /\ r # 0 => stop' = stop
       /\ \A q \in Receivers \ {r} : rpc'[q] = rpc[q] /\ ridx'[q] = ridx[q] /\ parts'[q] = parts[q]
             /\ got'[q] = got[q]
       /\ \A p \in Senders, q \in Receivers \ {r} : net'[p][q] = net[p][q]
  BY <1>1, <1>4, <1>9
<1>21. (~async => requests' = 0) /\ (StopTaken' => StopGiven)
  BY <1>1, <1>11 DEF Matches
<1>22. Matches(G, c)'
  BY <1>1, <1>12, <1>15, <1>18, <1>19, <1>20, <1>21, ReceiverSide
<1> QED
  BY <1>10, <1>22

\* r takes the buffer m of its i-th sender s, of n
Receives(G, c, r, s, d, e, t, i, n, m) ==
    /\ Waiting(G, c, s, r, d, e, t) /\ d >= 1 /\ Linked(s, r)
    /\ t = Len(got[r]) /\ i = ridx[r] /\ n = Len(ReceiverRanks(r))
    /\ i \in 1 .. n /\ From(r, s) = i /\ s = ReceiverRanks(r)[i]
    /\ m = Buffer(s, r, G[t + 1]) /\ m = net[s][r][1]
    /\ Took(s, r, 1)
    /\ i < n => /\ parts' = [parts EXCEPT ![r] = Append(@, m)]
                /\ ridx' = [ridx EXCEPT ![r] = i + 1] /\ rpc' = rpc /\ got' = got
    /\ ~(i < n) => /\ got' = [got EXCEPT ![r] = Append(@, Append(parts[r], m))]
                   /\ parts' = [parts EXCEPT ![r] = <<>>]
                   /\ ridx' = [ridx EXCEPT ![r] = 1]
                   /\ rpc' = [rpc EXCEPT ![r] = "loop"]

LEMMA ReceivingFacts ==
    ASSUME Types, NEW G, NEW c, Matches(G, c), NEW r \in Receivers, ReceiveData(r)
    PROVE  \E s \in Senders, d \in Nat, e \in {0, 1}, t \in Nat, i \in Nat, n \in Nat, m \in Message :
              Receives(G, c, r, s, d, e, t, i, n, m)
<1>1. Received(G, r)
  BY DEF Matches
<1>2. PICK i, n : i = ridx[r] /\ n = Len(ReceiverRanks(r))
  OBVIOUS
<1>3. n \in Nat /\ i \in 1 .. n /\ i \in Nat
  BY <1>1, <1>2, RootsMeet, LinkFacts DEF Received
<1>4. PICK s : s = ReceiverRanks(r)[i]
  OBVIOUS
<1>5. s \in Senders
  BY <1>2, <1>3, <1>4, RootsMeet, LinkFacts
<1>6. Linked(s, r) /\ From(r, s) = i
  BY <1>2, <1>3, <1>4, <1>5, LinkFacts
<1>7. PICK d \in Nat, e \in {0, 1}, t \in Nat : Waiting(G, c, s, r, d, e, t)
  BY <1>5, <1>6, UnderWay
<1>8. t = Len(got[r])
  <2>1. t = Taken(s, r)
    BY <1>7 DEF Waiting
  <2> QED
    BY <1>2, <1>3, <1>6, <2>1 DEF Taken
<1>9. /\ net[s][r] \in Seq(Message) /\ Len(net[s][r]) = d + e
      /\ \A k \in 1 .. d : net[s][r][k] = Buffer(s, r, G[t + k]) /\ net[s][r][k].tag = "data"
      /\ e = 1 => net[s][r][d + 1] = Stop
  BY <1>7 DEF Waiting
<1>10. /\ Tagged(net[s][r], "data") # {} <=> d # 0
       /\ d # 0 => Oldest(net[s][r], "data") = 1
  BY <1>9, Oldests
<1>11. Tagged(net[s][r], "data") # {}
  BY <1>2, <1>4 DEF ReceiveData
<1>12. d # 0 /\ d >= 1 /\ Oldest(net[s][r], "data") = 1
  BY <1>10, <1>11
<1>13. PICK m : m = net[s][r][1]
  OBVIOUS
<1>14. m \in Message /\ m = Buffer(s, r, G[t + 1])
  <2>1. 1 \in 1 .. d /\ 1 \in 1 .. Len(net[s][r])
    BY <1>9, <1>12
  <2> QED
    BY <1>9, <1>13, <2>1, ElementOfSeq
<1>15. /\ Took(s, r, 1)
       /\ i < n => /\ parts' = [parts EXCEPT ![r] = Append(@, m)]
                   /\ ridx' = [ridx EXCEPT ![r] = i + 1] /\ rpc' = rpc /\ got' = got
       /\ ~(i < n) => /\ got' = [got EXCEPT ![r] = Append(@, Append(parts[r], m))]
                      /\ parts' = [parts EXCEPT ![r] = <<>>]
                      /\ ridx' = [ridx EXCEPT ![r] = 1]
                      /\ rpc' = [rpc EXCEPT ![r] = "loop"]
  <2>1. Took(s, r, 1)
    BY <1>2, <1>4, <1>12 DEF ReceiveData, Took
  <2>2. CASE i < n
    BY <1>2, <1>4, <1>12, <1>13, <2>1, <2>2 DEF ReceiveData, MoreRanks, Combined
  <2>3. CASE ~(i < n)
    BY <1>2, <1>4, <1>12, <1>13, <2>1, <2>3 DEF ReceiveData, MoreRanks, Combined
  <2> QED
    BY <2>2, <2>3
<1>16. Receives(G, c, r, s, d, e, t, i, n, m)
  BY <1>2, <1>3, <1>4, <1>6, <1>7, <1>8, <1>12, <1>13, <1>14, <1>15 DEF Receives
<1> QED
  BY <1>3, <1>5, <1>14, <1>16

LEMMA ReceiveDataInv ==
    ASSUME Types, NEW G, NEW c, Matches(G, c), NEW r \in Receivers, ReceiveData(r), async' = async
    PROVE  Types' /\ Matches(G, c)'
<1>1. PICK s \in Senders, d \in Nat, e \in {0, 1}, t \in Nat, i \in Nat, n \in Nat, m \in Message :
         Receives(G, c, r, s, d, e, t, i, n, m)
  BY ReceivingFacts
<1>2. /\ rpc[r] = "receive" /\ stop' = stop /\ rbcast' = rbcast /\ requests' = requests
      /\ UNCHANGED senderVars
  BY DEF ReceiveData
<1>3. step' = step /\ spc' = spc /\ sidx' = sidx /\ ready' = ready /\ sbcast' = sbcast
  BY <1>2 DEF senderVars
<1>4. /\ d >= 1 /\ Linked(s, r) /\ t = Len(got[r]) /\ i = ridx[r] /\ n = Len(ReceiverRanks(r))
      /\ i \in 1 .. n /\ From(r, s) = i /\ s = ReceiverRanks(r)[i]
      /\ m = Buffer(s, r, G[t + 1]) /\ m = net[s][r][1] /\ Took(s, r, 1)
      /\ Waiting(G, c, s, r, d, e, t)
  BY <1>1 DEF Receives
<1>5. /\ d = Given(c, s, r) - Taken(s, r) /\ e = Stops(s, r) /\ t = Taken(s, r)
      /\ Given(c, s, r) = t + d /\ t + d <= Len(G)
      /\ net[s][r] \in Seq(Message) /\ Len(net[s][r]) = d + e
      /\ \A k \in 1 .. d : net[s][r][k] = Buffer(s, r, G[t + k]) /\ t + k \in 1 .. Len(G)
      /\ e = 1 => net[s][r][d + 1] = Stop
      /\ ~Buffered /\ d # 0 => spc[s] = "posted" /\ sidx[s] = At(s, r)
  BY <1>4 DEF Waiting
<1>6. /\ net' \in [Senders -> [Receivers -> Seq(Message)]]
      /\ Len(net'[s][r]) = (d - 1) + e
      /\ \A l \in 1 .. (d - 1) + e : net'[s][r][l] = net[s][r][l + 1]
      /\ \A p \in Senders \ {s} : net'[p] = net[p]
      /\ \A q \in Receivers \ {r} : net'[s][q] = net[s][q]
  <2>4. Len(net[s][r]) = d + e /\ d >= 1 /\ d \in Nat /\ e \in {0, 1}
    BY <1>4, <1>5
  <2>1. 1 \in 1 .. Len(net[s][r])
    BY <2>4
  <2>2. /\ net' \in [Senders -> [Receivers -> Seq(Message)]]
        /\ Len(net'[s][r]) = Len(net[s][r]) - 1
        /\ \A l \in 1 .. Len(net[s][r]) - 1 :
              net'[s][r][l] = IF l < 1 THEN net[s][r][l] ELSE net[s][r][l + 1]
        /\ \A p \in Senders \ {s} : net'[p] = net[p]
        /\ \A q \in Receivers \ {r} : net'[s][q] = net[s][q]
    BY <1>4, <2>1, TookFacts
  <2>3. Len(net[s][r]) - 1 = (d - 1) + e /\ \A l \in 1 .. (d - 1) + e : ~(l < 1)
    BY <2>4
  <2> QED
    BY <2>2, <2>3
\* what r has afterwards, whether or not this was the last sender
<1>7. /\ parts[r] \in Seq(Message) /\ Len(parts[r]) = i - 1
      /\ \A k \in 1 .. i - 1 : parts[r][k] = Buffer(ReceiverRanks(r)[k], r, G[t + 1])
      /\ got[r] \in Seq(Seq(Message)) /\ t <= Len(G)
      /\ \A k \in 1 .. t : /\ Len(got[r][k]) = n
                           /\ \A j \in 1 .. n : got[r][k][j] = Buffer(ReceiverRanks(r)[j], r, G[k])
  <2>1. Received(G, r)
    BY DEF Matches
  <2>2. parts[r] \in Seq(Message) /\ got[r] \in Seq(Seq(Message))
    BY DEF Types
  <2> QED
    BY <1>4, <2>1, <2>2 DEF Received
<1>8. PICK b : b = Append(parts[r], m)
  OBVIOUS
<1>9. /\ b \in Seq(Message) /\ Len(b) = i
      /\ \A k \in 1 .. i : b[k] = Buffer(ReceiverRanks(r)[k], r, G[t + 1])
  <2>1. /\ b \in Seq(Message) /\ Len(b) = Len(parts[r]) + 1
        /\ \A k \in 1 .. Len(parts[r]) : b[k] = parts[r][k]
        /\ b[Len(parts[r]) + 1] = m
    BY <1>7, <1>8, AppendProperties
  <2>2. \A k \in 1 .. i : k \in 1 .. i - 1 \/ k = i
    BY <1>4
  <2>3. Len(b) = i /\ b[i] = m
    BY <1>4, <1>7, <2>1
  <2> QED
    BY <1>4, <1>7, <2>1, <2>2, <2>3
<1>10. PICK h : h = Append(got[r], b)
  OBVIOUS
<1>11. /\ h \in Seq(Seq(Message)) /\ Len(h) = t + 1
       /\ \A k \in 1 .. t : h[k] = got[r][k]
       /\ h[t + 1] = b
  BY <1>4, <1>7, <1>9, <1>10, AppendProperties
<1>12. /\ rpc'[r] = IF i < n THEN "receive" ELSE "loop"
       /\ ridx'[r] = IF i < n THEN i + 1 ELSE 1
       /\ parts'[r] = IF i < n THEN b ELSE <<>>
       /\ got'[r] = IF i < n THEN got[r] ELSE h
       /\ \A q \in Receivers \ {r} : rpc'[q] = rpc[q] /\ ridx'[q] = ridx[q]
                                     /\ parts'[q] = parts[q] /\ got'[q] = got[q]
       /\ rpc' \in [Receivers -> {"loop", "requested", "check", "told", "receive", "done"}]
       /\ ridx' \in [Receivers -> Nat] /\ parts' \in [Receivers -> Seq(Message)]
       /\ got' \in [Receivers -> Seq(Seq(Message))]
  <2>1. /\ rpc \in [Receivers -> {"loop", "requested", "check", "told", "receive", "done"}]
        /\ ridx \in [Receivers -> Nat] /\ parts \in [Receivers -> Seq(Message)]
        /\ got \in [Receivers -> Seq(Seq(Message))]
    BY DEF Types
  <2>2. CASE i < n
    <3>1. /\ parts' = [parts EXCEPT ![r] = b] /\ ridx' = [ridx EXCEPT ![r] = i + 1]
          /\ rpc' = rpc /\ got' = got
      BY <1>1, <1>8, <2>2 DEF Receives
    <3> QED
      BY <1>2, <1>9, <2>1, <2>2, <3>1
  <2>3. CASE ~(i < n)
    <3>1. /\ got' = [got EXCEPT ![r] = h] /\ parts' = [parts EXCEPT ![r] = <<>>]
          /\ ridx' = [ridx EXCEPT ![r] = 1] /\ rpc' = [rpc EXCEPT ![r] = "loop"]
      BY <1>1, <1>8, <1>10, <2>3 DEF Receives
    <3> QED
      BY <1>11, <2>1, <2>3, <3>1
  <2> QED
    BY <2>2, <2>3
<1>13. Types'
  BY <1>2, <1>3, <1>6, <1>12 DEF Types
<1>14. Received(G, r)'
  <2>1. Received(G, r)
    BY DEF Matches
  <2>2. CASE i < n
    <3>1. i + 1 \in 1 .. n /\ (i + 1) - 1 = i
      BY <1>4, <2>2
    <3>2. got'[r] = got[r] /\ ridx'[r] = i + 1 /\ parts'[r] = b /\ rpc'[r] = "receive"
      BY <1>12, <2>2
    <3> QED
      BY <1>4, <1>7, <1>9, <3>1, <3>2 DEF Received
  <2>3. CASE ~(i < n)
    <3>1. i = n /\ 1 \in 1 .. n /\ n >= 1
      BY <1>4, <2>3
    <3>2. got'[r] = h /\ ridx'[r] = 1 /\ parts'[r] = <<>> /\ rpc'[r] = "loop"
      BY <1>12, <2>3
    <3>3. t + 1 <= Len(G)
      <4>1. t + d <= Len(G) /\ d >= 1 /\ Len(G) \in Nat
        BY <1>4, <1>5, Basics
      <4> QED
        BY <4>1
    <3>4. ASSUME NEW k \in 1 .. t + 1
          PROVE  Len(h[k]) = n /\ \A j \in 1 .. n : h[k][j] = Buffer(ReceiverRanks(r)[j], r, G[k])
      <4>1. CASE k \in 1 .. t
        BY <1>7, <1>11, <4>1
      <4>2. CASE k = t + 1
        BY <1>9, <1>11, <3>1, <4>2
      <4> QED
        BY <4>1, <4>2
    <3>5. Len(parts'[r]) = 0
      BY <3>2
    <3> QED
      BY <1>4, <1>11, <3>1, <3>2, <3>3, <3>4, <3>5 DEF Received
  <2> QED
    BY <2>2, <2>3
<1>15. (StopTaken' <=> StopTaken) /\ Calls' = Calls
  <2>1. CASE r = 0
    <3>1. ~StopTaken /\ ~StopTaken'
      BY <1>2, <1>12, <2>1 DEF StopTaken
    <3>2. Calls = t + 1
      BY <1>2, <1>4, <2>1 DEF Calls
    <3>3. Calls' = t + 1
      BY <1>4, <1>11, <1>12, <2>1 DEF Calls
    <3> QED
      BY <3>1, <3>2, <3>3
  <2>2. CASE r # 0
    <3>1. rpc'[0] = rpc[0] /\ got'[0] = got[0]
      BY <1>12, <2>2, Basics
    <3> QED
      BY <1>2, <3>1 DEF StopTaken, Calls
  <2> QED
    BY <2>1, <2>2
<1>16. ASSUME NEW q \in Receivers PROVE Orders(q)'
  <2>1. Orders(q)
    BY DEF Matches
  <2>2. Called(q)' = Called(q) /\ (rpc'[q] = "done" <=> rpc[q] = "done")
    <3>1. CASE q = r
      <4>1. Called(r) = t + 1 /\ Called(r)' = t + 1
        BY <1>2, <1>4, <1>11, <1>12 DEF Called
      <4> QED
        BY <1>2, <1>12, <3>1, <4>1
    <3>2. CASE q # r
      BY <1>12, <3>2 DEF Called
    <3> QED
      BY <3>1, <3>2
  <2> QED
    BY <1>2, <1>15, <2>1, <2>2, OrdersKept
<1>17. ASSUME NEW p \in Senders
       PROVE  Given(c, p, r)' = Given(c, p, r) /\ Stops(p, r)' = Stops(p, r)
  BY <1>3, <1>15 DEF Given, Wrote, Stops, StopGiven
<1>18. Channel(G, c, s, r)'
  <2>1. Taken(s, r)' = t + 1
    <3>1. CASE i < n
      BY <1>4, <1>12, <3>1 DEF Taken
    <3>2. CASE ~(i < n)
      <4>1. ~(From(r, s) < ridx'[r]) /\ Len(got'[r]) = t + 1
        <5>1. From(r, s) = i /\ i >= 1 /\ ridx'[r] = 1
          BY <1>4, <1>12, <3>2
        <5> QED
          BY <1>11, <1>12, <3>2, <5>1
      <4> QED
        BY <4>1 DEF Taken
    <3> QED
      BY <3>1, <3>2
  <2>2. PICK b1 \in Nat : b1 = d - 1 /\ d = b1 + 1
    <3>1. d - 1 \in Nat /\ d = (d - 1) + 1
      BY <1>4
    <3> QED
      BY <3>1
  <2>3. Given(c, s, r)' - Taken(s, r)' = b1
    <3>1. Given(c, s, r)' = t + d
      BY <1>5, <1>17
    <3> QED
      BY <2>1, <2>2, <3>1
  <2>4. Len(net'[s][r]) = b1 + e
    BY <1>6, <2>2
  <2>10. \A l \in 1 .. (d - 1) + e : net'[s][r][l] = net[s][r][l + 1]
    BY <1>6
  <2>11. \A k \in 1 .. d : net[s][r][k] = Buffer(s, r, G[t + k])
    BY <1>5
  <2>12. /\ e = 1 => net[s][r][d + 1] = Stop
         /\ ~Buffered /\ d # 0 => spc[s] = "posted" /\ sidx[s] = At(s, r)
    BY <1>5
  <2>5. \A k \in 1 .. b1 : net'[s][r][k] = Buffer(s, r, G[(t + 1) + k])
    <3>1. ASSUME NEW k \in 1 .. b1 PROVE net'[s][r][k] = Buffer(s, r, G[(t + 1) + k])
      <4>1. k + 1 \in 1 .. d /\ k \in 1 .. (d - 1) + e /\ t + (k + 1) = (t + 1) + k
        BY <2>2
      <4> QED
        BY <2>10, <2>11, <4>1
    <3> QED
      BY <3>1
  <2>6. e = 1 => net'[s][r][b1 + 1] = Stop
    <3>0. SUFFICES ASSUME e = 1 PROVE net'[s][r][b1 + 1] = Stop
      OBVIOUS
    <3>1. b1 + 1 \in 1 .. (d - 1) + e /\ (b1 + 1) + 1 = d + 1
      BY <2>2, <3>0
    <3>2. net'[s][r][b1 + 1] = net[s][r][d + 1]
      BY <2>10, <3>1
    <3>3. net[s][r][d + 1] = Stop
      BY <2>12, <3>0
    <3> QED
      BY <3>2, <3>3
  <2>7. ~Buffered /\ b1 # 0 => spc'[s] = "posted" /\ sidx'[s] = At(s, r)
    BY <1>3, <1>4, <2>12
  <2>8. Stops(s, r)' = e
    BY <1>5, <1>17
  <2> QED
    BY <1>4, <2>1, <2>3, <2>4, <2>5, <2>6, <2>7, <2>8 DEF Channel
<1>19. ASSUME NEW p \in Senders, p # s PROVE Channel(G, c, p, r)'
  <2>1. Channel(G, c, p, r)
    BY DEF Matches
  <2>2. CASE ~Linked(p, r)
    BY <1>6, <1>19, <2>1, <2>2 DEF Channel
  <2>3. CASE Linked(p, r)
    <3>1. From(r, p) \in 1 .. n /\ From(r, p) # i
      BY <1>4, <1>19, <2>3, LinkFacts
    <3>2. Taken(p, r)' = Taken(p, r)
      <4>1. CASE i < n
        <5>1. From(r, p) < i + 1 <=> From(r, p) < i
          BY <1>4, <3>1
        <5> QED
          BY <1>4, <1>12, <4>1, <5>1 DEF Taken
      <4>2. CASE ~(i < n)
        <5>1. From(r, p) < i /\ ~(From(r, p) < 1)
          BY <1>4, <3>1, <4>2
        <5> QED
          BY <1>4, <1>11, <1>12, <4>2, <5>1 DEF Taken
      <4> QED
        BY <4>1, <4>2
    <3>3. net'[p][r] = net[p][r]
      BY <1>6, <1>19
    <3> QED
      BY <1>3, <1>17, <2>1, <3>2, <3>3, ChannelKept
  <2> QED
    BY <2>2, <2>3
<1>20. Answered(G)'
  <2>1. Answered(G)
    BY DEF Matches
  <2>2. CASE r = 0 /\ ~(i < n)
    <3> SUFFICES ASSUME async PROVE Answered(G)'
      BY DEF Answered
    <3>1. (IF rpc[0] = "loop" THEN 0 ELSE 1) = 1 /\ (IF rpc'[0] = "loop" THEN 0 ELSE 1) = 0
      BY <1>2, <1>12, <2>2
    <3>2. Len(got[0]) = t /\ Len(got'[0]) = t + 1
      BY <1>4, <1>11, <1>12, <2>2
    <3> QED
      BY <1>2, <1>3, <2>1, <3>1, <3>2 DEF Answered
  <2>3. CASE r = 0 /\ i < n
    <3>1. rpc'[0] # "loop" /\ rpc[0] # "loop" /\ got'[0] = got[0]
      BY <1>2, <1>12, <2>3
    <3> QED
      BY <1>2, <1>3, <2>1, <3>1, AnsweredKept
  <2>4. CASE r # 0
    <3>1. rpc'[0] = rpc[0] /\ got'[0] = got[0]
      BY <1>12, <2>4, Basics
    <3> QED
      BY <1>2, <1>3, <2>1, <3>1, AnsweredKept
  <2> QED
    BY <2>2, <2>3, <2>4
<1>21. \A p \in Senders : Channel(G, c, p, r)'
  BY <1>18, <1>19
<1>22. \A q \in Receivers : Orders(q)'
  BY <1>16
<1>23. \A p \in Senders, q \in Receivers \ {r} : net'[p][q] = net[p][q]
  BY <1>6
<1>24. (~async => requests' = 0) /\ (StopTaken' => StopGiven)
  BY <1>2, <1>15 DEF Matches
<1>25. Matches(G, c)'
  BY <1>2, <1>12, <1>14, <1>20, <1>21, <1>22, <1>23, <1>24, ReceiverSide
<1> QED
  BY <1>13, <1>25

-----------------------------------------------------------------------------
(* The invariant holds in every state                                       *)

LEMMA Stutter == Inv /\ UNCHANGED vars => Inv'
<1> SUFFICES ASSUME Types, NEW G, NEW c, Matches(G, c), UNCHANGED vars
             PROVE  Types' /\ Matches(G, c)'
  BY DEF Inv
<1>1. /\ async' = async /\ step' = step /\ spc' = spc /\ sidx' = sidx /\ ready' = ready
      /\ sbcast' = sbcast /\ rpc' = rpc /\ ridx' = ridx /\ stop' = stop /\ rbcast' = rbcast
      /\ parts' = parts /\ got' = got /\ net' = net /\ requests' = requests
  BY DEF vars, senderVars, receiverVars
<1>2. Types'
  BY <1>1 DEF Types
<1>3. /\ Log(G)' /\ Answered(G)' /\ Told' = Told /\ StopGiven' = StopGiven
      /\ StopTaken' = StopTaken
  BY <1>1 DEF Matches, Log, Answered, Told, StopTaken, StopGiven
<1>4. ASSUME NEW s \in Senders PROVE Cursor(G, c, s)' /\ Flags(G, s)'
  <2>1. Cursor(G, c, s) /\ Flags(G, s)
    BY DEF Matches
  <2>2. Cursor(G, c, s)'
    BY <1>1, <2>1, CursorKept
  <2>3. Heard(s)' = Heard(s)
    BY <1>1 DEF Heard
  <2> QED
    BY <1>1, <1>3, <2>1, <2>2, <2>3, FlagsKept
<1>5. ASSUME NEW s \in Senders, NEW r \in Receivers PROVE Channel(G, c, s, r)'
  <2>1. Channel(G, c, s, r)
    BY DEF Matches
  <2> QED
    BY <1>1, <2>1 DEF Channel, Given, Wrote, Taken, Stops, StopTaken, StopGiven
<1>6. ASSUME NEW r \in Receivers PROVE Received(G, r)' /\ Orders(r)'
  <2>1. Received(G, r) /\ Orders(r)
    BY DEF Matches
  <2>2. Received(G, r)'
    BY <1>1, <2>1 DEF Received
  <2>3. Orders(r)'
    BY <1>1, <2>1 DEF Orders, Calls, Called, StopTaken
  <2> QED
    BY <2>2, <2>3
<1>7. /\ async => \A k \in 1 .. Len(G) : G[k] <= Told
      /\ ~async => requests = 0
      /\ StopTaken => StopGiven
  BY DEF Matches
<1>8. Matches(G, c)'
  BY <1>1, <1>3, <1>4, <1>5, <1>6, <1>7 DEF Matches
<1> QED
  BY <1>2, <1>8

LEMMA SenderInv ==
    ASSUME Types, NEW G, NEW c, Matches(G, c), NEW s \in Senders, Sender(s)
    PROVE  Types' /\ \E H, e : Matches(H, e)'
<1>1. /\ async' = async
      /\ \/ NextStep(s) \/ CheckReady(s) \/ Proceed(s) \/ SendData(s) \/ DataSent(s)
         \/ StopCall(s) \/ TakeRequest(s) \/ SendStop(s) \/ StopSent(s)
  BY DEF Sender
<1>2. CASE NextStep(s)
  BY <1>1, <1>2, NextStepInv
<1>3. CASE CheckReady(s)
  <2>1. Types' /\ \E H : Matches(H, c)'
    BY <1>1, <1>3, CheckReadyInv
  <2> QED
    BY <2>1
<1>4. CASE Proceed(s)
  BY <1>1, <1>4, ProceedInv
<1>5. CASE SendData(s)
  BY <1>1, <1>5, SendDataInv
<1>6. CASE DataSent(s)
  <2>1. Types' /\ \E e : Matches(G, e)'
    BY <1>1, <1>6, DataSentInv
  <2> QED
    BY <2>1
<1>7. CASE StopCall(s)
  BY <1>1, <1>7, StopCallInv
<1>8. CASE TakeRequest(s)
  BY <1>1, <1>8, TakeRequestInv
<1>9. CASE SendStop(s)
  BY <1>1, <1>9, SendStopInv
<1>10. CASE StopSent(s)
  BY <1>1, <1>10, StopSentInv
<1> QED
  BY <1>1, <1>2, <1>3, <1>4, <1>5, <1>6, <1>7, <1>8, <1>9, <1>10

LEMMA ReceiverInv ==
    ASSUME Types, NEW G, NEW c, Matches(G, c), NEW r \in Receivers, Receiver(r)
    PROVE  Types' /\ Matches(G, c)'
<1>1. /\ async' = async
      /\ Loop(r) \/ RequestSent(r) \/ CheckStop(r) \/ Obey(r) \/ ReceiveData(r)
  BY DEF Receiver
<1>2. CASE Loop(r)
  BY <1>1, <1>2, LoopInv
<1>3. CASE RequestSent(r)
  BY <1>1, <1>3, RequestSentInv
<1>4. CASE CheckStop(r)
  BY <1>1, <1>4, CheckStopInv
<1>5. CASE Obey(r)
  BY <1>1, <1>5, ObeyInv
<1>6. CASE ReceiveData(r)
  BY <1>1, <1>6, ReceiveDataInv
<1> QED
  BY <1>1, <1>2, <1>3, <1>4, <1>5, <1>6

LEMMA NextInv == Inv /\ [Next]_vars => Inv'
<1> SUFFICES ASSUME Inv, [Next]_vars PROVE Inv'
  OBVIOUS
<1>1. PICK G, c : Types /\ Matches(G, c)
  BY DEF Inv
<1>2. CASE \E s \in Senders : Sender(s)
  <2>1. Types' /\ \E H, e : Matches(H, e)'
    BY <1>1, <1>2, SenderInv
  <2> QED
    BY <2>1 DEF Inv
<1>3. CASE \E r \in Receivers : Receiver(r)
  <2>1. Types' /\ Matches(G, c)'
    BY <1>1, <1>3, ReceiverInv
  <2> QED
    BY <2>1 DEF Inv
<1>4. CASE UNCHANGED vars
  BY <1>4, Stutter
<1> QED
  BY <1>2, <1>3, <1>4 DEF Next

LEMMA Invariance == Spec => []Inv
<1>1. Spec => []Inv
  BY InitInv, NextInv, PTL DEF Spec
<1> QED
  BY <1>1

-----------------------------------------------------------------------------
(* What the invariant implies                                               *)

LEMMA SavedFacts ==
    ASSUME Types, NEW G, NEW c, Matches(G, c), NEW r \in Receivers
    PROVE  /\ Len(got[r]) \in 0 .. Len(G) /\ DOMAIN got[r] = 1 .. Len(got[r])
           /\ ridx[r] \in 1 .. Len(ReceiverRanks(r))
           /\ \A k \in 1 .. Len(got[r]) :
                 /\ G[k] \in 1 .. Steps
                 /\ DOMAIN got[r][k] = 1 .. Len(ReceiverRanks(r))
                 /\ \A i \in 1 .. Len(ReceiverRanks(r)) :
                       /\ got[r][k][i] = Buffer(ReceiverRanks(r)[i], r, G[k])
                       /\ IsBuffer(got[r][k][i]) /\ got[r][k][i].step = G[k]
           /\ \A i \in DOMAIN parts[r] : IsBuffer(parts[r][i])
<1>1. Received(G, r)
  BY DEF Matches
<1>2. got[r] \in Seq(Seq(Message)) /\ parts[r] \in Seq(Message)
  BY DEF Types
<1>3. /\ Len(got[r]) \in Nat /\ DOMAIN got[r] = 1 .. Len(got[r])
      /\ Len(parts[r]) \in Nat /\ DOMAIN parts[r] = 1 .. Len(parts[r])
  BY <1>2, LenProperties
<1>4. Len(got[r]) \in 0 .. Len(G) /\ ridx[r] \in 1 .. Len(ReceiverRanks(r)) /\ Len(G) \in Nat
  BY <1>1, <1>3, Basics DEF Received
<1>5. ASSUME NEW k \in 1 .. Len(got[r])
      PROVE  /\ G[k] \in 1 .. Steps
             /\ DOMAIN got[r][k] = 1 .. Len(ReceiverRanks(r))
             /\ \A i \in 1 .. Len(ReceiverRanks(r)) :
                   /\ got[r][k][i] = Buffer(ReceiverRanks(r)[i], r, G[k])
                   /\ IsBuffer(got[r][k][i]) /\ got[r][k][i].step = G[k]
  <2>1. k \in 1 .. Len(G)
    BY <1>4
  <2>2. G[k] \in 1 .. Steps
    BY <2>1, Basics
  <2>3. got[r][k] \in Seq(Message)
    BY <1>2, ElementOfSeq
  <2>4. DOMAIN got[r][k] = 1 .. Len(got[r][k]) /\ Len(got[r][k]) = Len(ReceiverRanks(r))
    BY <1>1, <2>3, LenProperties DEF Received
  <2>5. ASSUME NEW i \in 1 .. Len(ReceiverRanks(r))
        PROVE  /\ got[r][k][i] = Buffer(ReceiverRanks(r)[i], r, G[k])
               /\ IsBuffer(got[r][k][i]) /\ got[r][k][i].step = G[k]
    <3>1. got[r][k][i] = Buffer(ReceiverRanks(r)[i], r, G[k])
      BY <1>1 DEF Received
    <3>2. ReceiverRanks(r)[i] \in Senders
      BY RootsMeet, LinkFacts
    <3>3. Linked(ReceiverRanks(r)[i], r)
      BY <3>2, LinkFacts
    <3> QED
      BY <2>2, <3>1, <3>2, <3>3, BufferFacts
  <2> QED
    BY <2>2, <2>4, <2>5
<1>6. ASSUME NEW i \in DOMAIN parts[r] PROVE IsBuffer(parts[r][i])
  <2>1. i \in 1 .. Len(parts[r]) /\ i \in 1 .. ridx[r] - 1
    BY <1>1, <1>3 DEF Received
  <2>2. parts[r][i] \in Message
    BY <1>2, <2>1, ElementOfSeq
  <2>3. parts[r][i] = Buffer(ReceiverRanks(r)[i], r, G[Len(got[r]) + 1])
    BY <1>1, <2>1 DEF Received
  <2>4. parts[r][i].tag = "data"
    BY <2>3, MessageFacts DEF Buffer
  <2> QED
    BY <2>2, <2>4, MessageFacts
<1> QED
  BY <1>3, <1>4, <1>5, <1>6

\* the requests that no step has answered yet
LEMMA Requested ==
    ASSUME Types, NEW G, NEW c, Matches(G, c)
    PROVE  /\ requests \in 0 .. 1
           /\ async => Len(G) - Len(got[0]) \in 0 .. 1
           /\ async /\ spc[0] \in {"stop", "stopped", "done"} => Len(G) = Len(got[0])
           /\ async /\ spc[0] = "done" => requests = 0
<1>1. Len(G) \in Nat /\ Len(got[0]) \in 0 .. Len(G)
  BY Basics, SavedFacts
<1>2. requests \in Nat
  BY DEF Types
<1>3. PICK x \in {0, 1}, y \in {0, 1} :
         /\ async => Len(G) + requests + x = Len(got[0]) + y
         /\ spc[0] \in {"stop", "stopped", "done"} => x = 1
  BY DEF Matches, Answered
<1>4. CASE async
  <2>1. Len(G) + requests + x = Len(got[0]) + y
    BY <1>3, <1>4
  <2>2. requests \in 0 .. 1 /\ Len(G) - Len(got[0]) \in 0 .. 1
    BY <1>1, <1>2, <2>1
  <2>3. x = 1 => Len(G) = Len(got[0]) /\ requests = 0
    BY <1>1, <1>2, <2>1
  <2> QED
    BY <1>3, <2>2, <2>3
<1>5. CASE ~async
  BY <1>5 DEF Matches
<1> QED
  BY <1>4, <1>5

LEMMA InvTypeOK == Inv => TypeOK
<1> SUFFICES ASSUME Types, NEW G, NEW c, Matches(G, c) PROVE TypeOK
  BY DEF Inv
<1>1. ASSUME NEW s \in Senders PROVE sidx[s] \in 1 .. Len(SenderRanks(s))
  BY DEF Matches, Cursor
<1>2. ASSUME NEW s \in Senders, NEW r \in Receivers, NEW k \in DOMAIN net[s][r]
      PROVE  net[s][r][k] = Stop \/ IsBuffer(net[s][r][k])
  <2>1. net[s][r] \in Seq(Message)
    BY DEF Types
  <2>2. net[s][r][k] \in Message
    BY <2>1, LenProperties, ElementOfSeq
  <2> QED
    BY <2>2, MessageFacts
<1>3. ASSUME NEW r \in Receivers
      PROVE  /\ ridx[r] \in 1 .. Len(ReceiverRanks(r))
             /\ \A k \in DOMAIN parts[r] : IsBuffer(parts[r][k])
             /\ \A n \in DOMAIN got[r] : \A k \in DOMAIN got[r][n] : IsBuffer(got[r][n][k])
  <2>1. /\ ridx[r] \in 1 .. Len(ReceiverRanks(r))
        /\ \A k \in DOMAIN parts[r] : IsBuffer(parts[r][k])
    BY SavedFacts
  <2>2. /\ DOMAIN got[r] = 1 .. Len(got[r])
        /\ \A n \in 1 .. Len(got[r]) :
              /\ DOMAIN got[r][n] = 1 .. Len(ReceiverRanks(r))
              /\ \A k \in 1 .. Len(ReceiverRanks(r)) : IsBuffer(got[r][n][k])
    BY SavedFacts
  <2> QED
    BY <2>1, <2>2
<1>4. requests \in 0 .. 1
  BY Requested
<1> QED
  BY <1>1, <1>2, <1>3, <1>4 DEF Types, TypeOK

LEMMA InvSameStep == Inv => SameStep
<1> SUFFICES ASSUME Types, NEW G, NEW c, Matches(G, c) PROVE SameStep
  BY DEF Inv
<1>1. ASSUME NEW r \in Receivers, NEW k \in 1 .. Len(got[r]),
             NEW i \in DOMAIN got[r][k], NEW j \in DOMAIN got[r][k]
      PROVE  got[r][k][i].step = got[r][k][j].step
  <2>1. /\ DOMAIN got[r][k] = 1 .. Len(ReceiverRanks(r))
        /\ \A n \in 1 .. Len(ReceiverRanks(r)) : got[r][k][n].step = G[k]
    BY SavedFacts
  <2> QED
    BY <2>1
<1> QED
  BY <1>1 DEF SameStep

LEMMA InvBackpressure == Inv => Backpressure
<1> SUFFICES ASSUME Types, NEW G, NEW c, Matches(G, c), async, NEW s \in Senders
             PROVE  Len(net[s][0]) <= 1
  BY DEF Inv, Backpressure
<1>1. 0 \in Receivers
  BY Basics
<1>2. CASE ~Linked(s, 0)
  <2>1. net[s][0] = <<>>
    BY <1>1, <1>2 DEF Matches, Channel
  <2> QED
    BY <2>1
<1>3. CASE Linked(s, 0)
  <2>1. PICK d \in Nat, e \in {0, 1}, t \in Nat : Waiting(G, c, s, 0, d, e, t)
    BY <1>1, <1>3, UnderWay
  <2>2. Len(net[s][0]) = d + e /\ t + d <= Len(G) /\ t = Taken(s, 0) /\ e = Stops(s, 0)
    BY <2>1 DEF Waiting
  <2>3. Len(got[0]) \in 0 .. Len(G) /\ Len(G) \in Nat
    BY <1>1, Basics, SavedFacts
  <2>4. t >= Len(got[0])
    BY <2>2, <2>3 DEF Taken
  <2>5. Len(G) - Len(got[0]) \in 0 .. 1
    BY Requested
  <2>6. e = 1 => Len(G) = Len(got[0])
    BY <2>2, Requested DEF Stops, StopGiven
  <2>7. CASE e = 0
    BY <2>2, <2>3, <2>4, <2>5, <2>7
  <2>8. CASE e = 1
    <3>1. Len(G) = Len(got[0])
      BY <2>6, <2>8
    <3> QED
      BY <2>2, <2>3, <2>4, <2>8, <3>1
  <2> QED
    BY <2>7, <2>8
<1> QED
  BY <1>2, <1>3

\* where the ranks are when both groups have ended
LEMMA Ended ==
    ASSUME Types, NEW G, NEW c, Matches(G, c), Done
    PROVE  /\ \A s \in Senders : c[s] = Len(G)
           /\ \A r \in Receivers : Len(got[r]) = Len(got[0]) /\ rbcast[r] = <<>>
           /\ \A s \in Senders, r \in Receivers :
                 Linked(s, r) => Taken(s, r) = Len(got[r]) /\ Given(c, s, r) = Len(G)
                                 /\ Stops(s, r) = 0
<1>1. /\ \A s \in Senders : spc[s] = "done"
      /\ \A r \in Receivers : rpc[r] = "done"
      /\ 0 \in Senders /\ 0 \in Receivers
  BY Basics DEF Done
<1>2. StopTaken /\ StopGiven
  BY <1>1 DEF StopTaken, StopGiven
<1>3. ASSUME NEW s \in Senders PROVE c[s] = Len(G)
  <2>1. /\ c[s] \in 0 .. Len(G) /\ step[s] = Steps
        /\ \A k \in 1 .. Len(G) : k <= c[s] <=> G[k] < step[s] + 1
    BY <1>1 DEF Matches, Cursor, Bound
  <2>2. Len(G) \in Nat /\ Steps \in Nat /\ \A k \in 1 .. Len(G) : G[k] \in 1 .. Steps
    BY Basics
  <2>3. CASE Len(G) = 0
    BY <2>1, <2>3
  <2>4. CASE Len(G) # 0
    <3>1. Len(G) \in 1 .. Len(G)
      BY <2>2, <2>4
    <3>2. G[Len(G)] \in 1 .. Steps /\ (Len(G) <= c[s] <=> G[Len(G)] < Steps + 1)
      BY <2>1, <2>2, <3>1
    <3> QED
      BY <2>1, <2>2, <3>2
  <2> QED
    BY <2>3, <2>4
<1>4. ASSUME NEW r \in Receivers PROVE Len(got[r]) = Len(got[0]) /\ rbcast[r] = <<>>
  <2>1. Orders(r) /\ rbcast[r] \in Seq(BOOLEAN)
    BY DEF Matches, Types
  <2>2. Len(got[r]) \in Nat /\ Len(got[0]) \in Nat
    BY <1>1, SavedFacts, Basics
  <2>3. Calls = Len(got[0]) /\ Called(r) = Len(got[r])
    BY <1>1 DEF Calls, Called
  <2>4. CASE r = 0
    BY <2>1, <2>4 DEF Orders
  <2>5. CASE r # 0
    <3>1. Len(got[0]) - Len(got[r]) = 0 /\ Len(rbcast[r]) = 0
      BY <1>1, <2>1, <2>3, <2>5 DEF Orders
    <3>2. rbcast[r] = <<>>
      BY <2>1, <3>1, EmptySeq
    <3> QED
      BY <2>2, <3>1, <3>2
  <2> QED
    BY <2>4, <2>5
<1>5. ASSUME NEW s \in Senders, NEW r \in Receivers, Linked(s, r)
      PROVE  Taken(s, r) = Len(got[r]) /\ Given(c, s, r) = Len(G) /\ Stops(s, r) = 0
  <2>1. ridx[r] = 1
    BY <1>1 DEF Matches, Received
  <2>2. From(r, s) \in 1 .. Len(ReceiverRanks(r))
    BY <1>5, LinkFacts
  <2>3. Taken(s, r) = Len(got[r])
    BY <2>1, <2>2 DEF Taken
  <2>4. Given(c, s, r) = Len(G)
    BY <1>1, <1>3 DEF Given, Wrote
  <2> QED
    BY <1>2, <2>3, <2>4 DEF Stops
<1> QED
  BY <1>3, <1>4, <1>5

LEMMA InvNothingLost == Inv => NothingLost
<1> SUFFICES ASSUME Types, NEW G, NEW c, Matches(G, c), Done, async \/ ~Buffered
             PROVE  Quiet
  BY DEF Inv, NothingLost
<1>1. /\ \A s \in Senders : spc[s] = "done"
      /\ 0 \in Senders /\ 0 \in Receivers
  BY Basics DEF Done
<1>2. requests = 0
  <2>1. CASE async
    BY <1>1, <2>1, Requested
  <2>2. CASE ~async
    BY <2>2 DEF Matches
  <2> QED
    BY <2>1, <2>2
<1>3. ASSUME NEW s \in Senders, NEW r \in Receivers PROVE net[s][r] = <<>>
  <2>1. CASE ~Linked(s, r)
    BY <2>1 DEF Matches, Channel
  <2>2. CASE Linked(s, r)
    <3>1. PICK d \in Nat, e \in {0, 1}, t \in Nat : Waiting(G, c, s, r, d, e, t)
      BY <2>2, UnderWay
    <3>2. /\ d = Given(c, s, r) - Taken(s, r) /\ e = Stops(s, r)
          /\ net[s][r] \in Seq(Message) /\ Len(net[s][r]) = d + e
          /\ ~Buffered /\ d # 0 => spc[s] = "posted"
      BY <3>1 DEF Waiting
    <3>3. d = Len(G) - Len(got[0]) /\ e = 0
      BY <2>2, <3>2, Ended
    <3>4. d = 0
      <4>1. CASE async
        <5>1. Len(G) = Len(got[0]) /\ Len(G) \in Nat
          BY <1>1, <4>1, Requested, Basics
        <5> QED
          BY <3>3, <5>1
      <4>2. CASE ~Buffered
        BY <1>1, <3>2, <4>2
      <4> QED
        BY <4>1, <4>2
    <3>5. Len(net[s][r]) = 0
      BY <3>2, <3>3, <3>4
    <3> QED
      BY <3>2, <3>5, EmptySeq
  <2> QED
    BY <2>1, <2>2
<1>4. ASSUME NEW s \in Senders PROVE sbcast[s] = <<>>
  <2>1. Flags(G, s) /\ sbcast[s] \in Seq(BOOLEAN)
    BY DEF Matches, Types
  <2>2. CASE s = 0 \/ ~async
    BY <2>1, <2>2 DEF Flags
  <2>3. CASE s # 0 /\ async
    <3>1. Told = Steps /\ Heard(s) = Steps /\ Steps \in Nat
      BY <1>1, Basics DEF Told, Heard, Matches, Cursor
    <3>2. Len(sbcast[s]) \in Nat /\ Heard(s) + Len(sbcast[s]) = Told
      BY <2>1, <2>3, LenProperties DEF Flags
    <3>3. Len(sbcast[s]) = 0
      BY <3>1, <3>2
    <3> QED
      BY <2>1, <3>3, EmptySeq
  <2> QED
    BY <2>2, <2>3
<1>5. \A r \in Receivers : rbcast[r] = <<>>
  BY Ended
<1> QED
  BY <1>2, <1>3, <1>4, <1>5 DEF Quiet

LEMMA InvAllReceived == Inv => AllReceived
<1> SUFFICES ASSUME Types, NEW G, NEW c, Matches(G, c), Done, ~async, ~Buffered,
                    NEW r \in Receivers
             PROVE  Len(got[r]) = Steps
  BY DEF Inv, AllReceived
<1>1. PICK s : s = ReceiverRanks(r)[1]
  OBVIOUS
<1>2. s \in Senders /\ Linked(s, r)
  <2>1. 1 \in 1 .. Len(ReceiverRanks(r))
    BY RootsMeet, LinkFacts
  <2>2. s \in Senders
    BY <1>1, <2>1, RootsMeet, LinkFacts
  <2> QED
    BY <1>1, <2>1, <2>2, LinkFacts
<1>3. PICK d \in Nat, e \in {0, 1}, t \in Nat : Waiting(G, c, s, r, d, e, t)
  BY <1>2, UnderWay
<1>4. d = Given(c, s, r) - Taken(s, r) /\ d = 0
  BY <1>2, <1>3 DEF Waiting, Done
<1>5. Given(c, s, r) = Len(G) /\ Taken(s, r) = Len(got[r])
  BY <1>2, Ended
<1>6. Len(G) = Steps /\ Steps \in Nat /\ Len(got[r]) \in Nat
  BY Basics, SavedFacts
<1> QED
  BY <1>4, <1>5, <1>6

-----------------------------------------------------------------------------
(* Induction over the natural numbers, for a set: the numbers are well founded *)

LEMMA NatOrder ==
    \E R : IsWellFoundedOn(R, Nat) /\ \A x, y \in Nat : y < x => <<y, x>> \in R
<1>1. IsWellFoundedOn(OpToRel(<, Nat), Nat)
  BY NatLessThanWellFounded
<1>2. \A x, y \in Nat : y < x => <<y, x>> \in OpToRel(<, Nat)
  BY Zenon DEF OpToRel
<1> QED
  BY <1>1, <1>2, Zenon

LEMMA Smallest ==
    ASSUME NEW T, T \subseteq Nat, T # {}
    PROVE  \E x \in T : \A y \in T : x <= y
<1>1. PICK R : IsWellFoundedOn(R, Nat) /\ \A x, y \in Nat : y < x => <<y, x>> \in R
  BY NatOrder
<1>2. \E x \in T : \A y \in T : ~ (<<y, x>> \in R)
  BY <1>1, WFMin, Zenon
<1>3. PICK x \in T : \A y \in T : ~ (<<y, x>> \in R)
  BY <1>2
<1>4. ASSUME NEW y \in T PROVE x <= y
  <2>1. x \in Nat /\ y \in Nat /\ ~ (<<y, x>> \in R)
    BY <1>3
  <2>2. y < x => <<y, x>> \in R
    BY <1>1, <2>1, Zenon
  <2> QED
    BY <2>1, <2>2
<1> QED
  BY <1>4

LEMMA Induction ==
    ASSUME NEW S, 0 \in S, \A n \in Nat : n \in S => n + 1 \in S
    PROVE  Nat \subseteq S
<1> SUFFICES ASSUME Nat \ S # {} PROVE FALSE
  OBVIOUS
<1>1. PICK x \in Nat \ S : \A y \in Nat \ S : x <= y
  BY Smallest
<1>2. x - 1 \in Nat /\ x - 1 \in S
  BY <1>1
<1> QED
  BY <1>1, <1>2

-----------------------------------------------------------------------------
(* The refinement                                                           *)

\* the producer has made as many steps as the rank that is furthest
Furthest ==
    /\ Produced \in 0 .. Steps
    /\ \E s \in Senders : step[s] = Produced
    /\ \A s \in Senders : step[s] <= Produced

LEMMA ProducedFacts == Types => Furthest
<1> SUFFICES ASSUME Types PROVE Furthest
  OBVIOUS
<1> DEFINE T == {n \in Nat : \A s \in Senders : step[s] <= n}
<1>1. Steps \in Nat /\ 0 \in Senders /\ \A s \in Senders : step[s] \in 0 .. Steps
  BY RootsMeet, SizesAssumption DEF Types
<1>2. T \subseteq Nat /\ Steps \in T
  BY <1>1
<1>3. PICK n \in T : \A m \in T : n <= m
  <2> HIDE DEF T
  <2> QED
    BY <1>2, Smallest
<1>4. n \in Nat /\ \A s \in Senders : step[s] <= n
  OBVIOUS
<1>5. n \in 0 .. Steps
  BY <1>1, <1>2, <1>3
<1>6. \E s \in Senders : step[s] = n
  <2> SUFFICES ASSUME \A s \in Senders : step[s] # n PROVE FALSE
    OBVIOUS
  <2>1. \A s \in Senders : step[s] <= n - 1
    BY <1>1, <1>4
  <2>2. n - 1 \in Nat
    BY <1>1, <1>4, <2>1
  <2>3. n - 1 \in T
    BY <2>1, <2>2
  <2> QED
    BY <1>3, <1>4, <2>3
<1> QED
  BY <1>4, <1>5, <1>6 DEF Produced, Furthest

LEMMA ProducedNext == Types' => Furthest'
BY ProducedFacts, PTL

\* the largest number is the only one
LEMMA ProducedIs ==
    ASSUME Types, NEW n \in 0 .. Steps, \E s \in Senders : step[s] = n,
           \A s \in Senders : step[s] <= n
    PROVE  Produced = n
<1>1. PICK p \in 0 .. Steps : p = Produced
  BY ProducedFacts DEF Furthest
<1>2. Steps \in Nat /\ p \in Nat /\ n \in Nat
  BY SizesAssumption
<1>3. (\E s \in Senders : step[s] = p) /\ \A s \in Senders : step[s] <= p
  BY <1>1, ProducedFacts DEF Furthest
<1>4. p <= n /\ n <= p
  BY <1>3
<1> QED
  BY <1>1, <1>2, <1>4

Prefix(G, n) == [k \in 1 .. n |-> G[k]]

\* what a receiver has got, as the log says
LEMMA GotSteps ==
    ASSUME Types, NEW G, NEW c, Matches(G, c), NEW r \in Receivers
    PROVE  StepsGot[r] = Prefix(G, Len(got[r]))
<1>1. 1 \in 1 .. Len(ReceiverRanks(r))
  BY RootsMeet, LinkFacts
<1>2. \A k \in 1 .. Len(got[r]) : got[r][k][1].step = G[k]
  BY <1>1, SavedFacts
<1> QED
  BY <1>2 DEF StepsGot, Prefix

LEMMA PrefixFacts ==
    ASSUME NEW S, NEW G \in Seq(S), NEW n \in 0 .. Len(G)
    PROVE  /\ Prefix(G, n) \in Seq(S) /\ Len(Prefix(G, n)) = n
           /\ \A k \in 1 .. n : Prefix(G, n)[k] = G[k]
           /\ n < Len(G) => Append(Prefix(G, n), G[n + 1]) = Prefix(G, n + 1)
<1> DEFINE P == Prefix(G, n)
           Q == Prefix(G, n + 1)
<1>1. Len(G) \in Nat /\ n \in Nat /\ \A k \in 1 .. n : G[k] \in S
  BY LenProperties, ElementOfSeq
<1>2. P \in [1 .. n -> S] /\ DOMAIN P = 1 .. n /\ \A k \in 1 .. n : P[k] = G[k]
  BY <1>1 DEF Prefix
<1>3. DOMAIN Q = 1 .. n + 1 /\ \A k \in 1 .. n + 1 : Q[k] = G[k]
  BY DEF Prefix
<1>4. P \in Seq(S)
  BY <1>1, <1>2, SeqDef
<1>5. n < Len(G) => Q \in Seq(S)
  <2> SUFFICES ASSUME n < Len(G) PROVE Q \in Seq(S)
    OBVIOUS
  <2>1. \A k \in 1 .. n + 1 : G[k] \in S
    BY <1>1, ElementOfSeq
  <2>2. Q \in [1 .. n + 1 -> S] /\ n + 1 \in Nat
    BY <1>1, <2>1 DEF Prefix
  <2> HIDE DEF Q
  <2> QED
    BY <2>2, SeqDef
<1> HIDE DEF P, Q
<1>6. Len(P) = n
  BY <1>1, <1>2, <1>4, LenProperties
<1>7. ASSUME n < Len(G) PROVE Append(P, G[n + 1]) = Q
  <2>1. G[n + 1] \in S
    BY <1>1, <1>7, ElementOfSeq
  <2>2. PICK A : A = Append(P, G[n + 1])
    OBVIOUS
  <2>3. /\ A \in Seq(S) /\ Len(A) = n + 1 /\ A[n + 1] = G[n + 1]
        /\ \A k \in 1 .. n : A[k] = P[k]
    BY <1>4, <1>6, <2>1, <2>2, AppendProperties
  <2>4. Q \in Seq(S) /\ Len(Q) = n + 1
    BY <1>1, <1>3, <1>5, <1>7, LenProperties
  <2>5. \A k \in 1 .. n + 1 : A[k] = Q[k]
    BY <1>1, <1>2, <1>3, <2>3
  <2>6. A = Q
    BY <2>3, <2>4, <2>5, SeqEqual
  <2> QED
    BY <2>2, <2>6
<1> QED
  BY <1>2, <1>4, <1>6, <1>7 DEF P, Q

LEMMA InitStream == Init => Stream!StreamInit
<1> SUFFICES ASSUME Init PROVE Stream!StreamInit
  OBVIOUS
<1>1. Types /\ async \in BOOLEAN /\ 0 \in Senders /\ Steps \in Nat
  BY InitInv, RootsMeet, SizesAssumption, ModesAssumption DEF Inv, Init
<1>2. Produced = 0
  <2>1. \A s \in Senders : step[s] = 0
    BY DEF Init
  <2>2. 0 \in 0 .. Steps /\ \A s \in Senders : step[s] <= 0
    BY <1>1, <2>1
  <2> QED
    BY <1>1, <2>1, <2>2, ProducedIs
<1>3. StepsGot = [r \in Receivers |-> <<>>]
  BY DEF Init, StepsGot
<1>4. Closed = {}
  BY DEF Init, Closed
<1> QED
  BY <1>1, <1>2, <1>3, <1>4 DEF Stream!StreamInit

LEMMA NextStepStream ==
    ASSUME Types, Types', NEW s \in Senders, NextStep(s), async' = async
    PROVE  Stream!Produce \/ UNCHANGED Stream!streamVars
<1>1. /\ step' = [step EXCEPT ![s] = @ + 1] /\ step[s] < Steps /\ rpc' = rpc /\ got' = got
      /\ step[s] \in 0 .. Steps /\ Steps \in Nat
  BY SizesAssumption DEF NextStep, receiverVars, Types
<1>2. StepsGot' = StepsGot /\ Closed' = Closed /\ async' = async
  BY <1>1 DEF StepsGot, Closed
<1>3. PICK n \in 0 .. Steps, m \in 0 .. Steps : n = Produced /\ m = Produced'
  BY ProducedFacts, ProducedNext DEF Furthest
<1>4. /\ \E p \in Senders : step[p] = n
      /\ \A p \in Senders : step[p] <= n /\ step[p] \in 0 .. Steps
      /\ \E p \in Senders : step'[p] = m
      /\ \A p \in Senders : step'[p] <= m
  BY <1>3, ProducedFacts, ProducedNext DEF Furthest, Types
<1>5. /\ step'[s] = step[s] + 1
      /\ \A p \in Senders \ {s} : step'[p] = step[p]
  BY <1>1 DEF Types
<1>6. m = n \/ (m = n + 1 /\ n < Steps)
  <2>1. n <= m
    <3>1. PICK p \in Senders : step[p] = n
      BY <1>4
    <3>2. step[p] <= step'[p] /\ step'[p] <= m /\ step'[p] \in Nat
      BY <1>1, <1>4, <1>5
    <3> QED
      BY <3>1, <3>2
  <2>2. PICK p \in Senders : step'[p] = m
    BY <1>4
  <2>3. step'[p] <= n + 1 /\ (step'[p] = n + 1 => n < Steps)
    BY <1>1, <1>4, <1>5
  <2> QED
    BY <2>1, <2>2, <2>3
<1>7. CASE m = n
  BY <1>2, <1>3, <1>7 DEF Stream!streamVars
<1>8. CASE m = n + 1 /\ n < Steps
  BY <1>2, <1>3, <1>8 DEF Stream!Produce
<1> QED
  BY <1>6, <1>7, <1>8

\* a rank that was told to stop has got all that rank 0 has
LEMMA ClosedFacts ==
    ASSUME Types, NEW G, NEW c, Matches(G, c)
    PROVE  /\ Closed # {} => StopTaken
           /\ StopTaken => Produced = Steps /\ Calls = Len(got[0])
           /\ \A q \in Receivers : Len(got[q]) <= Called(q) /\ Called(q) <= Calls
<1>1. ASSUME Closed # {} PROVE StopTaken
  <2>1. PICK q \in Receivers : rpc[q] = "done"
    BY <1>1 DEF Closed
  <2>2. CASE q = 0
    BY <2>1, <2>2 DEF StopTaken
  <2>3. CASE q # 0
    BY <2>1, <2>3 DEF Matches, Orders
  <2> QED
    BY <2>2, <2>3
<1>2. ASSUME StopTaken PROVE Produced = Steps /\ Calls = Len(got[0])
  <2>1. spc[0] \in {"stopped", "done"}
    BY <1>2 DEF Matches, StopGiven
  <2>2. step[0] = Steps /\ 0 \in Senders
    BY <2>1, Basics DEF Matches, Cursor
  <2>3. step[0] <= Produced /\ Produced \in 0 .. Steps /\ Steps \in Nat
    BY <2>2, ProducedFacts, Basics DEF Furthest
  <2> QED
    BY <1>2, <2>2, <2>3 DEF Calls, StopTaken
<1>3. ASSUME NEW q \in Receivers PROVE Len(got[q]) <= Called(q) /\ Called(q) <= Calls
  <2>1. Len(got[q]) \in Nat /\ Len(got[0]) \in Nat /\ 0 \in Receivers /\ Len(G) \in Nat
    BY Basics, SavedFacts
  <2>2. Called(q) \in Nat /\ Len(got[q]) <= Called(q) /\ Calls \in Nat
    BY <2>1 DEF Called, Calls
  <2>3. CASE q = 0
    BY <2>1, <2>3 DEF Called, Calls
  <2>4. CASE q # 0
    <3>1. Calls - Called(q) \in Nat
      BY <2>4 DEF Matches, Orders
    <3> QED
      BY <2>2, <3>1
  <2> QED
    BY <2>2, <2>3, <2>4
<1> QED
  BY <1>1, <1>2, <1>3

LEMMA GotLength ==
    ASSUME Types, NEW G, NEW c, Matches(G, c), NEW r \in Receivers
    PROVE  /\ StepsGot[r] \in Seq(1 .. Steps) /\ Len(StepsGot[r]) = Len(got[r])
           /\ Len(got[r]) \in Nat
           /\ \A k \in 1 .. Len(got[r]) : StepsGot[r][k] = G[k] /\ G[k] \in 1 .. Steps
<1>1. G \in Seq(1 .. Steps) /\ Len(got[r]) \in 0 .. Len(G) /\ Len(G) \in Nat
  BY Basics, SavedFacts
<1>2. /\ Prefix(G, Len(got[r])) \in Seq(1 .. Steps)
      /\ Len(Prefix(G, Len(got[r]))) = Len(got[r])
      /\ \A k \in 1 .. Len(got[r]) : Prefix(G, Len(got[r]))[k] = G[k]
  BY <1>1, PrefixFacts
<1>3. StepsGot[r] = Prefix(G, Len(got[r]))
  BY GotSteps
<1>4. \A k \in 1 .. Len(got[r]) : G[k] \in 1 .. Steps
  BY SavedFacts
<1> QED
  BY <1>1, <1>2, <1>3, <1>4

LEMMA ObeyStream ==
    ASSUME Types, NEW G, NEW c, Matches(G, c), NEW r \in Receivers, Obey(r), async' = async
    PROVE  Stream!Close(r) \/ UNCHANGED Stream!streamVars
<1>1. PICK place : /\ rpc' = [rpc EXCEPT ![r] = place] /\ place \in {"done", "receive"}
                   /\ rpc[r] # "done"
                   /\ step' = step /\ got' = got
                   /\ place = "done" =>
                         \/ r = 0 /\ rpc[0] = "told" /\ stop
                         \/ r # 0 /\ rpc[r] = "check" /\ rbcast[r] # <<>> /\ Head(rbcast[r])
  <2>1. CASE r = 0
    <3>1. rpc' = [rpc EXCEPT ![r] = IF stop THEN "done" ELSE "receive"] /\ rpc[0] = "told"
      BY <2>1 DEF Obey
    <3>2. step' = step /\ got' = got
      BY DEF Obey, senderVars
    <3>3. PICK place : place = IF stop THEN "done" ELSE "receive"
      OBVIOUS
    <3>4. /\ place \in {"done", "receive"} /\ (place = "done" => stop) /\ rpc[r] # "done"
          /\ rpc' = [rpc EXCEPT ![r] = place]
      BY <2>1, <3>1, <3>3
    <3> QED
      BY <2>1, <3>1, <3>2, <3>4
  <2>2. CASE r # 0
    <3>1. /\ rpc' = [rpc EXCEPT ![r] = IF Head(rbcast[r]) THEN "done" ELSE "receive"]
          /\ rpc[r] = "check" /\ rbcast[r] # <<>>
      BY <2>2 DEF Obey
    <3> QED
      BY <2>2, <3>1 DEF Obey, senderVars
  <2> QED
    BY <2>1, <2>2
<1>2. /\ StepsGot' = StepsGot /\ Produced' = Produced /\ async' = async
      /\ r \notin Closed
  BY <1>1 DEF StepsGot, Produced, Closed
<1>3. Closed' = IF place = "done" THEN Closed \cup {r} ELSE Closed
  <2>1. \A q \in Receivers : rpc'[q] = IF q = r THEN place ELSE rpc[q]
    BY <1>1 DEF Types
  <2> QED
    BY <1>1, <2>1 DEF Closed
<1>4. CASE place = "receive"
  BY <1>2, <1>3, <1>4 DEF Stream!streamVars
<1>5. CASE place = "done"
  <2>1. StopTaken /\ Len(got[r]) = Len(got[0])
    <3>1. CASE r = 0
      BY <1>1, <1>5, <3>1 DEF StopTaken
    <3>2. CASE r # 0
      <4>1. PICK n : n = Calls - Called(r)
        OBVIOUS
      <4>2. /\ n \in Nat /\ rbcast[r] \in Seq(BOOLEAN)
            /\ Len(rbcast[r]) = IF StopTaken THEN n + 1 ELSE n
            /\ \A k \in 1 .. n : ~rbcast[r][k]
        BY <1>1, <3>2, <4>1 DEF Matches, Orders, Types
      <4>3. Len(rbcast[r]) \in Nat /\ Len(rbcast[r]) # 0 /\ rbcast[r][1]
        <5>1. rbcast[r] # <<>> /\ Head(rbcast[r])
          BY <1>1, <1>5, <3>2
        <5>2. Len(rbcast[r]) \in Nat /\ Len(rbcast[r]) # 0
          BY <4>2, <5>1, EmptySeq, LenProperties
        <5>3. PICK ends : ends = Head(rbcast[r])
          OBVIOUS
        <5>4. PICK q \in Seq(BOOLEAN) : q = rbcast[r] /\ q # <<>> /\ ends = Head(q)
          BY <4>2, <5>1, <5>3
        <5>5. q[1] = ends
          BY <5>4
        <5> QED
          BY <5>1, <5>2, <5>3, <5>4, <5>5
      <4>4. ~(1 \in 1 .. n)
        BY <4>2, <4>3
      <4>5. n = 0
        BY <4>2, <4>4
      <4>6. StopTaken
        BY <4>2, <4>3, <4>5
      <4>7. Called(r) = Len(got[r]) /\ Calls = Len(got[0])
        BY <1>1, <1>5, <3>2, <4>6, ClosedFacts DEF Called
      <4>8. Len(got[r]) \in Nat /\ Len(got[0]) \in Nat
        BY Basics, SavedFacts
      <4> QED
        BY <4>1, <4>5, <4>6, <4>7, <4>8
    <3> QED
      BY <3>1, <3>2
  <2>2. Produced = Steps /\ \A q \in Receivers : Len(got[q]) <= Len(got[r])
    <3>1. Produced = Steps /\ Calls = Len(got[0])
      BY <2>1, ClosedFacts
    <3>2. ASSUME NEW q \in Receivers PROVE Len(got[q]) <= Len(got[r])
      <4>1. Len(got[q]) <= Called(q) /\ Called(q) <= Len(got[0])
        BY <3>1, ClosedFacts
      <4>2. Len(got[q]) \in Nat /\ Called(q) \in Nat /\ Len(got[0]) \in Nat
        BY Basics, GotLength DEF Called
      <4> QED
        BY <2>1, <4>1, <4>2
    <3> QED
      BY <3>1, <3>2
  <2>3. \A q \in Receivers : ~(Len(StepsGot[q]) > Len(StepsGot[r]))
    BY <2>2, GotLength
  <2>4. Stream!Ahead(r) = {}
    BY <2>3 DEF Stream!Ahead
  <2>5. Stream!Close(r)
    BY <1>2, <1>3, <1>5, <2>2, <2>4 DEF Stream!Close
  <2> QED
    BY <2>5
<1> QED
  BY <1>1, <1>4, <1>5

\* a sender gives nothing of a step that is still to come
LEMMA GivenMade ==
    ASSUME Types, NEW G, NEW c, Matches(G, c), NEW s \in Senders, NEW r \in Receivers,
           NEW k \in 1 .. Len(G), k <= Given(c, s, r)
    PROVE  G[k] <= Produced
<1>1. /\ c[s] \in 0 .. Len(G)
      /\ k <= c[s] <=> G[k] < Bound(s)
      /\ Sending(s) => G[c[s] + 1] = step[s]
  BY DEF Matches, Cursor
<1>2. Len(G) \in Nat /\ step[s] \in Nat /\ G[k] \in Nat
  BY Basics
<1>3. G[k] <= step[s]
  <2>1. CASE k <= c[s]
    <3>1. Bound(s) <= step[s] + 1 /\ Bound(s) \in Nat
      BY <1>2 DEF Bound
    <3> QED
      BY <1>1, <1>2, <2>1, <3>1
  <2>2. CASE ~(k <= c[s])
    <3>1. Wrote(s, r) /\ k = c[s] + 1
      BY <1>1, <1>2, <2>2 DEF Given
    <3>2. Sending(s)
      BY <3>1 DEF Wrote, Sending
    <3> QED
      BY <1>1, <1>2, <3>1, <3>2
  <2> QED
    BY <2>1, <2>2
<1>4. step[s] <= Produced /\ Produced \in 0 .. Steps /\ Steps \in Nat
  BY ProducedFacts, Basics DEF Furthest
<1> QED
  BY <1>2, <1>3, <1>4

\* a receiver that got its last buffer got the next step of the log
LEMMA GotNext ==
    ASSUME Types, NEW G, NEW c, Matches(G, c), Matches(G, c)', NEW r \in Receivers,
           NEW x \in Seq(Message), got' = [got EXCEPT ![r] = Append(@, x)]
    PROVE  /\ Len(got[r]) + 1 \in 1 .. Len(G)
           /\ StepsGot' = [StepsGot EXCEPT ![r] = Append(@, G[Len(got[r]) + 1])]
<1>1. got \in [Receivers -> Seq(Seq(Message))]
  BY DEF Types
<1>2. PICK t : t = Len(got[r])
  OBVIOUS
<1>3. /\ t \in Nat /\ Len(got'[r]) = t + 1
      /\ \A q \in Receivers \ {r} : got'[q] = got[q]
  <2>1. got[r] \in Seq(Seq(Message)) /\ got'[r] = Append(got[r], x)
    BY <1>1
  <2>2. Len(Append(got[r], x)) = Len(got[r]) + 1 /\ Len(got[r]) \in Nat
    BY <2>1, AppendProperties, LenProperties
  <2> QED
    BY <1>1, <1>2, <2>1, <2>2
<1>4. /\ Len(got'[r]) <= Len(G)
      /\ \A k \in 1 .. Len(got'[r]) : \A i \in 1 .. Len(ReceiverRanks(r)) :
            got'[r][k][i] = Buffer(ReceiverRanks(r)[i], r, G[k])
  BY DEF Matches, Received
<1>5. Len(G) \in Nat /\ G \in Seq(1 .. Steps)
  BY Basics
<1>6. t \in 0 .. Len(G) /\ t < Len(G) /\ t + 1 \in 1 .. Len(G)
  BY <1>3, <1>4, <1>5
<1>7. [k \in 1 .. Len(got'[r]) |-> got'[r][k][1].step] = Prefix(G, t + 1)
  <2>1. 1 \in 1 .. Len(ReceiverRanks(r))
    BY RootsMeet, LinkFacts
  <2>2. ASSUME NEW k \in 1 .. Len(got'[r]) PROVE got'[r][k][1].step = G[k]
    <3>1. got'[r][k][1] = Data(G[k], Part(ReceiverRanks(r)[1], At(ReceiverRanks(r)[1], r)))
      BY <1>4, <2>1 DEF Buffer
    <3> QED
      BY <3>1, MessageFacts
  <2> QED
    BY <1>3, <2>2 DEF Prefix
<1>8. StepsGot[r] = Prefix(G, t)
  BY <1>2, GotSteps
<1>9. Append(Prefix(G, t), G[t + 1]) = Prefix(G, t + 1)
  BY <1>5, <1>6, PrefixFacts
<1>10. StepsGot' = [StepsGot EXCEPT ![r] = Append(@, G[t + 1])]
  <2>1. \A q \in Receivers \ {r} : StepsGot'[q] = StepsGot[q]
    BY <1>3 DEF StepsGot
  <2>2. StepsGot'[r] = Append(StepsGot[r], G[t + 1])
    BY <1>7, <1>8, <1>9 DEF StepsGot
  <2>3. StepsGot' = [q \in Receivers |-> StepsGot'[q]] /\ StepsGot = [q \in Receivers |-> StepsGot[q]]
    BY DEF StepsGot
  <2> QED
    BY <2>1, <2>2, <2>3
<1> QED
  BY <1>2, <1>6, <1>10

LEMMA ReceiveStream ==
    ASSUME Types, NEW G, NEW c, Matches(G, c), NEW r \in Receivers, ReceiveData(r), async' = async
    PROVE  Stream!Deliver(r) \/ UNCHANGED Stream!streamVars
<1>1. PICK s \in Senders, d \in Nat, e \in {0, 1}, t \in Nat, i \in Nat, n \in Nat, m \in Message :
         Receives(G, c, r, s, d, e, t, i, n, m)
  BY ReceivingFacts
<1>2. /\ d >= 1 /\ t = Len(got[r]) /\ Waiting(G, c, s, r, d, e, t)
      /\ i < n => rpc' = rpc /\ got' = got
      /\ ~(i < n) => /\ got' = [got EXCEPT ![r] = Append(@, Append(parts[r], m))]
                     /\ rpc' = [rpc EXCEPT ![r] = "loop"]
  BY <1>1 DEF Receives
<1>3. rpc[r] = "receive" /\ step' = step
  BY DEF ReceiveData, senderVars
<1>4. Produced' = Produced
  BY <1>3 DEF Produced
<1>5. r \notin Closed /\ Closed' = Closed
  BY <1>2, <1>3 DEF Closed, Types
<1>6. CASE i < n
  <2>1. StepsGot' = StepsGot
    BY <1>2, <1>6 DEF StepsGot
  <2> QED
    BY <1>4, <1>5, <2>1 DEF Stream!streamVars
<1>7. CASE ~(i < n)
  <2>1. Append(parts[r], m) \in Seq(Message)
    <3>1. parts[r] \in Seq(Message)
      BY DEF Types
    <3> QED
      BY <3>1, AppendProperties
  <2>2. Matches(G, c)'
    BY ReceiveDataInv
  <2>3. PICK g : g = G[t + 1]
    OBVIOUS
  <2>4. t + 1 \in 1 .. Len(G) /\ StepsGot' = [StepsGot EXCEPT ![r] = Append(@, g)]
    BY <1>2, <1>7, <2>1, <2>2, <2>3, GotNext
  <2>5. /\ Len(StepsGot[r]) = t /\ \A k \in 1 .. t : StepsGot[r][k] = G[k]
        /\ StepsGot[r] \in Seq(1 .. Steps)
    BY <1>2, GotLength
  <2>6. /\ Len(G) \in Nat /\ \A k \in 1 .. Len(G) : G[k] \in 1 .. Steps
        /\ \A k, l \in 1 .. Len(G) : k < l => G[k] < G[l]
        /\ ~async => \A k \in 1 .. Len(G) : G[k] = k
        /\ Steps \in Nat
    BY Basics
  <2>7. g \in 1 .. Steps /\ g <= Produced /\ Produced \in 0 .. Steps
    <3>1. t + 1 <= Given(c, s, r)
      BY <1>2 DEF Waiting
    <3> QED
      BY <2>3, <2>4, <2>6, <3>1, GivenMade, ProducedFacts DEF Furthest
  <2>8. PICK l \in Nat : l = Stream!Last(StepsGot[r]) /\ l < g /\ (~async => g = l + 1)
    <3>1. CASE t = 0
      <4>1. StepsGot[r] = <<>>
        BY <2>5, <3>1, EmptySeq
      <4>2. Stream!Last(StepsGot[r]) = 0
        BY <4>1 DEF Stream!Last
      <4> QED
        BY <2>3, <2>4, <2>6, <2>7, <3>1, <4>2
    <3>2. CASE t # 0
      <4>1. StepsGot[r] # <<>> /\ t \in 1 .. t /\ t \in 1 .. Len(G)
        BY <2>4, <2>5, <2>6, <3>2
      <4>2. Stream!Last(StepsGot[r]) = G[t]
        BY <2>5, <4>1 DEF Stream!Last
      <4>3. G[t] < g /\ G[t] \in Nat
        BY <2>3, <2>4, <2>6, <4>1
      <4>4. ~async => g = G[t] + 1
        BY <2>3, <2>4, <2>6, <4>1
      <4> QED
        BY <4>2, <4>3, <4>4
    <3> QED
      BY <3>1, <3>2
  <2>9. g \in Stream!Last(StepsGot[r]) + 1 .. Produced
    BY <2>6, <2>7, <2>8
  <2>10. ASSUME NEW q \in Stream!Ahead(r) PROVE g = StepsGot[q][Len(StepsGot[r]) + 1]
    <3>1. q \in Receivers /\ Len(StepsGot[q]) > t
      BY <2>5 DEF Stream!Ahead
    <3>2. /\ Len(StepsGot[q]) = Len(got[q]) /\ Len(got[q]) \in Nat
          /\ \A k \in 1 .. Len(got[q]) : StepsGot[q][k] = G[k]
      BY <3>1, GotLength
    <3>3. t + 1 \in 1 .. Len(got[q])
      BY <3>1, <3>2
    <3> QED
      BY <2>3, <2>5, <3>2, <3>3
  <2>11. Closed # {} => Stream!Ahead(r) # {}
    <3> SUFFICES ASSUME Closed # {} PROVE 0 \in Stream!Ahead(r)
      OBVIOUS
    <3>1. Calls = Len(got[0]) /\ Called(r) <= Calls
      BY ClosedFacts
    <3>2. Called(r) = t + 1
      BY <1>2, <1>3 DEF Called
    <3>3. 0 \in Receivers /\ Len(StepsGot[0]) = Len(got[0]) /\ Len(got[0]) \in Nat
      BY Basics, GotLength
    <3>4. Len(StepsGot[0]) > Len(StepsGot[r])
      BY <2>5, <3>1, <3>2, <3>3
    <3> QED
      BY <3>3, <3>4 DEF Stream!Ahead
  <2>12. ~async => g = Stream!Last(StepsGot[r]) + 1
    BY <2>8
  <2> QED
    BY <1>4, <1>5, <2>4, <2>9, <2>10, <2>11, <2>12 DEF Stream!Deliver
<1> QED
  BY <1>6, <1>7

-----------------------------------------------------------------------------
(* Sequences one behind the other: what FlattenSeq makes                    *)

Cat(x, y) == x \o y

\* two sequences one behind the other
LEMMA CatFacts ==
    ASSUME NEW E, NEW x \in Seq(E), NEW y \in Seq(E)
    PROVE  /\ Cat(x, y) \in Seq(E) /\ Len(Cat(x, y)) = Len(x) + Len(y)
           /\ \A i \in 1 .. Len(x) + Len(y) :
                 Cat(x, y)[i] = IF i <= Len(x) THEN x[i] ELSE y[i - Len(x)]
BY ConcatProperties DEF Cat

LEMMA CatEmpty ==
    ASSUME NEW E, NEW x \in Seq(E)
    PROVE  Cat(x, <<>>) = x /\ Cat(<<>>, x) = x
BY ConcatEmptySeq DEF Cat

LEMMA CatAssociative ==
    ASSUME NEW E, NEW x \in Seq(E), NEW y \in Seq(E), NEW z \in Seq(E)
    PROVE  Cat(Cat(x, y), z) = Cat(x, Cat(y, z))
<1>1. PICK a, b : a = Cat(x, y) /\ b = Cat(y, z)
  OBVIOUS
<1>2. PICK l, r : l = Cat(a, z) /\ r = Cat(x, b)
  OBVIOUS
<1>3. PICK k \in Nat, m \in Nat, n \in Nat : k = Len(x) /\ m = Len(y) /\ n = Len(z)
  BY LenProperties
<1>4. /\ a \in Seq(E) /\ Len(a) = k + m
      /\ \A i \in 1 .. k + m : a[i] = IF i <= k THEN x[i] ELSE y[i - k]
  BY <1>1, <1>3, CatFacts
<1>5. /\ b \in Seq(E) /\ Len(b) = m + n
      /\ \A i \in 1 .. m + n : b[i] = IF i <= m THEN y[i] ELSE z[i - m]
  BY <1>1, <1>3, CatFacts
<1>6. /\ l \in Seq(E) /\ Len(l) = (k + m) + n
      /\ \A i \in 1 .. (k + m) + n : l[i] = IF i <= k + m THEN a[i] ELSE z[i - (k + m)]
  <2>1. /\ l \in Seq(E) /\ Len(l) = Len(a) + Len(z)
        /\ \A i \in 1 .. Len(a) + Len(z) : l[i] = IF i <= Len(a) THEN a[i] ELSE z[i - Len(a)]
    BY <1>2, <1>4, CatFacts
  <2> QED
    BY <1>3, <1>4, <2>1
<1>7. /\ r \in Seq(E) /\ Len(r) = k + (m + n)
      /\ \A i \in 1 .. k + (m + n) : r[i] = IF i <= k THEN x[i] ELSE b[i - k]
  <2>1. /\ r \in Seq(E) /\ Len(r) = Len(x) + Len(b)
        /\ \A i \in 1 .. Len(x) + Len(b) : r[i] = IF i <= Len(x) THEN x[i] ELSE b[i - Len(x)]
    BY <1>2, <1>5, CatFacts
  <2> QED
    BY <1>3, <1>5, <2>1
<1>8. ASSUME NEW i \in 1 .. (k + m) + n PROVE l[i] = r[i]
  <2>1. i \in 1 .. k + (m + n)
    OBVIOUS
  <2>2. CASE i <= k
    <3>1. i <= k + m /\ i \in 1 .. k + m
      BY <2>2
    <3>2. l[i] = a[i] /\ r[i] = x[i]
      BY <1>6, <1>7, <2>1, <2>2, <3>1
    <3>3. a[i] = x[i]
      BY <1>4, <2>2, <3>1
    <3> QED
      BY <3>2, <3>3
  <2>3. CASE k < i /\ i <= k + m
    <3>1. PICK j \in 1 .. m + n : j = i - k /\ j <= m /\ ~(i <= k) /\ i \in 1 .. k + m
      BY <2>3
    <3>2. l[i] = a[i] /\ r[i] = b[j]
      BY <1>6, <1>7, <2>1, <2>3, <3>1
    <3>3. a[i] = y[j] /\ b[j] = y[j]
      BY <1>4, <1>5, <3>1
    <3> QED
      BY <3>2, <3>3
  <2>4. CASE k + m < i
    <3>1. PICK j \in 1 .. m + n : j = i - k /\ ~(j <= m) /\ ~(i <= k) /\ j - m = i - (k + m)
      BY <2>4
    <3>2. ~(i <= k + m)
      BY <2>4
    <3>3. l[i] = z[i - (k + m)] /\ r[i] = b[j]
      BY <1>6, <1>7, <2>1, <3>1, <3>2
    <3>4. b[j] = z[j - m]
      BY <1>5, <3>1
    <3> QED
      BY <3>1, <3>3, <3>4
  <2> QED
    BY <2>2, <2>3, <2>4
<1>9. (k + m) + n = k + (m + n)
  OBVIOUS
<1>10. l = r
  BY <1>6, <1>7, <1>8, <1>9, SeqEqual
<1> QED
  BY <1>1, <1>2, <1>10

\* f is what FlattenSeq(q) makes of the first 1, 2, ... sequences of q
Flattens(f, q) == f = [i \in 1 .. Len(q) |-> IF i = 1 THEN q[i] ELSE f[i - 1] \o q[i]]

\* the first n sequences of q one behind the other
Flat(q, n) == IF n = 0 THEN <<>> ELSE (CHOOSE f : Flattens(f, q))[n]

LEMMA FlattenIsFlat ==
    ASSUME NEW E, NEW q \in Seq(Seq(E))
    PROVE  FlattenSeq(q) = Flat(q, Len(q))
<1>1. CASE Len(q) = 0
  <2>1. q = <<>>
    BY <1>1, EmptySeq
  <2> QED
    BY <1>1, <2>1 DEF FlattenSeq, Flat
<1>2. CASE Len(q) # 0
  <2>1. FlattenSeq(q) = (CHOOSE f : Flattens(f, q))[Len(q)]
    BY <1>2 DEF FlattenSeq, Flattens
  <2> QED
    BY <1>2, <2>1 DEF Flat
<1> QED
  BY <1>1, <1>2

Partial(E, q, n, f) ==
    /\ f \in [1 .. n -> Seq(E)]
    /\ \A i \in 1 .. n : f[i] = IF i = 1 THEN q[i] ELSE f[i - 1] \o q[i]
Begun(E, q, n) == n <= Len(q) => \E f : Partial(E, q, n, f)

LEMMA FlattenExists ==
    ASSUME NEW E, NEW q \in Seq(Seq(E))
    PROVE  \E f : Flattens(f, q)
<1> DEFINE S == {n \in Nat : Begun(E, q, n)}
<1>1. Len(q) \in Nat /\ \A i \in 1 .. Len(q) : q[i] \in Seq(E)
  BY LenProperties, ElementOfSeq
<1>2. 0 \in S
  <2>1. [i \in 1 .. 0 |-> <<>>] \in [1 .. 0 -> Seq(E)]
    OBVIOUS
  <2>2. Partial(E, q, 0, [i \in 1 .. 0 |-> <<>>])
    BY <2>1 DEF Partial
  <2>3. Begun(E, q, 0)
    BY <2>2 DEF Begun
  <2> QED
    BY <2>3
<1>3. ASSUME NEW n \in Nat, n \in S PROVE n + 1 \in S
  <2> SUFFICES ASSUME n + 1 <= Len(q) PROVE \E f : Partial(E, q, n + 1, f)
    BY DEF Begun
  <2>0. n <= Len(q) /\ Begun(E, q, n)
    BY <1>1, <1>3
  <2>1. PICK f : Partial(E, q, n, f)
    BY <2>0 DEF Begun
  <2>2. /\ f \in [1 .. n -> Seq(E)]
        /\ \A i \in 1 .. n : f[i] = IF i = 1 THEN q[i] ELSE f[i - 1] \o q[i]
    BY <2>1 DEF Partial
  <2>3. PICK x : x = IF n = 0 THEN q[n + 1] ELSE f[n] \o q[n + 1]
    OBVIOUS
  <2>4. x \in Seq(E)
    <3>1. q[n + 1] \in Seq(E)
      BY <1>1
    <3>2. n # 0 => f[n] \in Seq(E)
      BY <2>2
    <3> QED
      BY <2>3, <3>1, <3>2, ConcatProperties
  <2>5. PICK g : g = [i \in 1 .. n + 1 |-> IF i = n + 1 THEN x ELSE f[i]]
    OBVIOUS
  <2>6. g \in [1 .. n + 1 -> Seq(E)]
    BY <2>2, <2>4, <2>5
  <2>7. \A i \in 1 .. n + 1 : g[i] = IF i = n + 1 THEN x ELSE f[i]
    BY <2>5
  <2>8. ASSUME NEW i \in 1 .. n + 1 PROVE g[i] = IF i = 1 THEN q[i] ELSE g[i - 1] \o q[i]
    <3>1. CASE i = n + 1
      <4>1. ASSUME n # 0 PROVE g[n] = f[n]
        <5>1. n \in 1 .. n + 1 /\ n # n + 1
          BY <4>1
        <5> QED
          BY <2>7, <5>1
      <4> QED
        BY <2>3, <2>7, <3>1, <4>1
    <3>2. CASE i # n + 1
      <4>1. i \in 1 .. n /\ g[i] = f[i]
        BY <2>7, <3>2
      <4>2. i # 1 => g[i - 1] = f[i - 1]
        BY <2>7, <4>1
      <4> QED
        BY <2>2, <4>1, <4>2
    <3> QED
      BY <3>1, <3>2
  <2>9. Partial(E, q, n + 1, g)
    BY <2>6, <2>8 DEF Partial
  <2> QED
    BY <2>9
<1>4. Nat \subseteq S
  <2> HIDE DEF S
  <2> QED
    BY <1>2, <1>3, Induction
<1>5. PICK f : Partial(E, q, Len(q), f)
  BY <1>1, <1>4 DEF Begun
<1>6. f = [i \in 1 .. Len(q) |-> IF i = 1 THEN q[i] ELSE f[i - 1] \o q[i]]
  BY <1>5 DEF Partial
<1> QED
  BY <1>6 DEF Flattens

LEMMA FlatFacts ==
    ASSUME NEW E, NEW q \in Seq(Seq(E))
    PROVE  /\ Flat(q, 0) = <<>>
           /\ \A n \in 0 .. Len(q) : Flat(q, n) \in Seq(E)
           /\ \A n \in 1 .. Len(q) : Flat(q, n) = Cat(Flat(q, n - 1), q[n])
<1>1. Len(q) \in Nat /\ \A i \in 1 .. Len(q) : q[i] \in Seq(E)
  BY LenProperties, ElementOfSeq
<1>2. PICK f : f = CHOOSE g : Flattens(g, q)
  OBVIOUS
<1>3. f = [i \in 1 .. Len(q) |-> IF i = 1 THEN q[i] ELSE f[i - 1] \o q[i]]
  <2>1. \E g : Flattens(g, q)
    BY FlattenExists
  <2>2. Flattens(CHOOSE g : Flattens(g, q), q)
    BY <2>1
  <2>3. Flattens(f, q)
    BY <1>2, <2>2
  <2> QED
    BY <2>3 DEF Flattens
<1>4. \A i \in 1 .. Len(q) : f[i] = IF i = 1 THEN q[i] ELSE f[i - 1] \o q[i]
  BY <1>3
<1>5. Flat(q, 0) = <<>> /\ \A n \in 1 .. Len(q) : Flat(q, n) = f[n]
  BY <1>1, <1>2 DEF Flat
<1>6. ASSUME NEW n \in 1 .. Len(q) PROVE Flat(q, n) = Cat(Flat(q, n - 1), q[n])
  <2>1. CASE n = 1
    <3>1. Cat(<<>>, q[1]) = q[1]
      BY <1>1, <2>1, CatEmpty
    <3>2. Flat(q, 1) = q[1]
      BY <1>4, <1>5, <2>1
    <3> QED
      BY <1>5, <2>1, <3>1, <3>2
  <2>2. CASE n # 1
    <3>1. n - 1 \in 1 .. Len(q)
      BY <1>1, <2>2
    <3>2. f[n] = Cat(f[n - 1], q[n])
      BY <1>4, <2>2 DEF Cat
    <3> QED
      BY <1>5, <3>1, <3>2
  <2> QED
    BY <2>1, <2>2
<1>7. \A n \in 0 .. Len(q) : Flat(q, n) \in Seq(E)
  <2> DEFINE S == {n \in Nat : n <= Len(q) => Flat(q, n) \in Seq(E)}
  <2>1. 0 \in S
    <3>1. <<>> \in Seq(E)
      BY EmptySeq
    <3> QED
      BY <1>5, <3>1
  <2>2. ASSUME NEW n \in Nat, n \in S PROVE n + 1 \in S
    <3> SUFFICES ASSUME n + 1 <= Len(q) PROVE Flat(q, n + 1) \in Seq(E)
      OBVIOUS
    <3>1. n + 1 \in 1 .. Len(q) /\ (n + 1) - 1 = n /\ n <= Len(q)
      BY <1>1
    <3>2. Flat(q, n) \in Seq(E)
      BY <2>2, <3>1
    <3>3. Flat(q, n + 1) = Cat(Flat(q, n), q[n + 1])
      BY <1>6, <3>1
    <3>4. q[n + 1] \in Seq(E)
      BY <1>1, <3>1
    <3>5. Cat(Flat(q, n), q[n + 1]) \in Seq(E)
      BY <3>2, <3>4, CatFacts
    <3> QED
      BY <3>3, <3>5
  <2>3. Nat \subseteq S
    <3> HIDE DEF S
    <3> QED
      BY <2>1, <2>2, Induction
  <2> QED
    BY <1>1, <2>3
<1> QED
  BY <1>5, <1>6, <1>7

\* h is the stretch of b behind the m-th place
Stretch(b, h, m) == m + Len(h) <= Len(b) /\ \A j \in 1 .. Len(h) : h[j] = b[m + j]
Follows(b, h, m, j) == j <= Len(h) => Flat(b, m + j) = Cat(Flat(b, m), Flat(h, j))

\* a stretch of b one behind the other
LEMMA FlatStretch ==
    ASSUME NEW E, NEW b \in Seq(Seq(E)), NEW h \in Seq(Seq(E)), NEW m \in Nat,
           Stretch(b, h, m)
    PROVE  Flat(b, m + Len(h)) = Cat(Flat(b, m), FlattenSeq(h))
<1> DEFINE S == {j \in Nat : Follows(b, h, m, j)}
<1>1. /\ Len(h) \in Nat /\ Len(b) \in Nat /\ \A j \in 1 .. Len(h) : h[j] \in Seq(E)
      /\ m + Len(h) <= Len(b) /\ \A j \in 1 .. Len(h) : h[j] = b[m + j]
  BY LenProperties, ElementOfSeq DEF Stretch
<1>2. /\ \A n \in 0 .. Len(b) : Flat(b, n) \in Seq(E)
      /\ \A n \in 1 .. Len(b) : Flat(b, n) = Cat(Flat(b, n - 1), b[n])
      /\ \A n \in 0 .. Len(h) : Flat(h, n) \in Seq(E)
      /\ \A n \in 1 .. Len(h) : Flat(h, n) = Cat(Flat(h, n - 1), h[n])
      /\ Flat(h, 0) = <<>>
  BY FlatFacts
<1>3. Flat(b, m) \in Seq(E)
  BY <1>1, <1>2
<1>4. 0 \in S
  <2>1. Cat(Flat(b, m), <<>>) = Flat(b, m)
    BY <1>3, CatEmpty
  <2>2. Follows(b, h, m, 0)
    <3>1. m + 0 = m
      OBVIOUS
    <3>2. Flat(b, m + 0) = Cat(Flat(b, m), Flat(h, 0))
      BY <1>2, <2>1, <3>1
    <3> QED
      BY <3>2 DEF Follows
  <2> QED
    BY <2>2
<1>5. ASSUME NEW j \in Nat, j \in S PROVE j + 1 \in S
  <2> SUFFICES ASSUME j + 1 <= Len(h)
               PROVE  Flat(b, m + (j + 1)) = Cat(Flat(b, m), Flat(h, j + 1))
    BY DEF Follows
  <2>1. /\ j \in 0 .. Len(h) /\ j + 1 \in 1 .. Len(h) /\ (j + 1) - 1 = j
        /\ m + (j + 1) \in 1 .. Len(b) /\ (m + (j + 1)) - 1 = m + j
    BY <1>1
  <2>2. Flat(b, m + (j + 1)) = Cat(Flat(b, m + j), b[m + (j + 1)])
    BY <1>2, <2>1
  <2>3. b[m + (j + 1)] = h[j + 1] /\ h[j + 1] \in Seq(E)
    BY <1>1, <2>1
  <2>4. Flat(b, m + j) = Cat(Flat(b, m), Flat(h, j))
    BY <1>1, <1>5, <2>1 DEF Follows
  <2>5. Flat(h, j + 1) = Cat(Flat(h, j), h[j + 1]) /\ Flat(h, j) \in Seq(E)
    BY <1>2, <2>1
  <2>6. Cat(Cat(Flat(b, m), Flat(h, j)), h[j + 1]) = Cat(Flat(b, m), Cat(Flat(h, j), h[j + 1]))
    <3>1. PICK x \in Seq(E), y \in Seq(E), z \in Seq(E) :
             x = Flat(b, m) /\ y = Flat(h, j) /\ z = h[j + 1]
      BY <1>3, <2>3, <2>5
    <3>2. Cat(Cat(x, y), z) = Cat(x, Cat(y, z))
      BY CatAssociative
    <3> QED
      BY <3>1, <3>2
  <2> QED
    BY <2>2, <2>3, <2>4, <2>5, <2>6
<1>6. Nat \subseteq S
  <2> HIDE DEF S
  <2> QED
    BY <1>4, <1>5, Induction
<1>7. Flat(b, m + Len(h)) = Cat(Flat(b, m), Flat(h, Len(h)))
  BY <1>1, <1>6 DEF Follows
<1> QED
  BY <1>7, FlattenIsFlat

\* a has what each d sequences of b make
Groups(E, a, b, d, g) ==
    /\ Len(b) = Len(a) * d
    /\ \A n \in 1 .. Len(a) : /\ g[n] \in Seq(Seq(E)) /\ Len(g[n]) = d
                              /\ \A j \in 1 .. d : g[n][j] = b[(n - 1) * d + j]
                              /\ a[n] = FlattenSeq(g[n])

LEMMA Regroup ==
    ASSUME NEW E, NEW a \in Seq(Seq(E)), NEW b \in Seq(Seq(E)), NEW d \in Nat, NEW g,
           Groups(E, a, b, d, g)
    PROVE  FlattenSeq(a) = FlattenSeq(b)
<1> DEFINE S == {n \in Nat : n <= Len(a) => Flat(a, n) = Flat(b, n * d)}
<1>0. /\ Len(b) = Len(a) * d
      /\ \A n \in 1 .. Len(a) : /\ g[n] \in Seq(Seq(E)) /\ Len(g[n]) = d
                                /\ \A j \in 1 .. d : g[n][j] = b[(n - 1) * d + j]
                                /\ a[n] = FlattenSeq(g[n])
  BY DEF Groups
<1>1. Len(a) \in Nat /\ Len(b) \in Nat
  BY LenProperties
<1>2. /\ Flat(a, 0) = <<>> /\ Flat(b, 0) = <<>>
      /\ \A n \in 1 .. Len(a) : Flat(a, n) = Cat(Flat(a, n - 1), a[n])
  BY FlatFacts
<1>3. 0 \in S
  <2>1. 0 * d = 0
    OBVIOUS
  <2> QED
    BY <1>2, <2>1
<1>4. ASSUME NEW n \in Nat, n \in S PROVE n + 1 \in S
  <2> SUFFICES ASSUME n + 1 <= Len(a) PROVE Flat(a, n + 1) = Flat(b, (n + 1) * d)
    OBVIOUS
  <2>1. n + 1 \in 1 .. Len(a) /\ (n + 1) - 1 = n /\ n <= Len(a)
    BY <1>1
  <2>2. PICK m \in Nat : m = n * d /\ (n + 1) * d = m + d /\ m + d <= Len(b)
    <3>1. n * d \in Nat /\ (n + 1) * d = n * d + d
      OBVIOUS
    <3>2. PICK x \in Nat : Len(a) = (n + 1) + x
      <4>1. Len(a) - (n + 1) \in Nat /\ Len(a) = (n + 1) + (Len(a) - (n + 1))
        BY <1>1
      <4> QED
        BY <4>1
    <3>3. Len(a) * d = (n + 1) * d + x * d /\ x * d \in Nat
      BY <3>2
    <3>4. n * d + d <= Len(b)
      <4>1. PICK y \in Nat, z \in Nat : y = n * d /\ z = x * d /\ Len(b) = y + d + z
        BY <1>0, <3>1, <3>2, <3>3
      <4> QED
        BY <4>1
    <3> QED
      BY <3>1, <3>4
  <2>3. PICK h : h = g[n + 1]
    OBVIOUS
  <2>4. /\ h \in Seq(Seq(E)) /\ Len(h) = d /\ a[n + 1] = FlattenSeq(h)
        /\ \A j \in 1 .. d : h[j] = b[m + j]
    BY <1>0, <2>1, <2>2, <2>3
  <2>5. Flat(b, m + Len(h)) = Cat(Flat(b, m), FlattenSeq(h))
    <3>1. Stretch(b, h, m)
      BY <2>2, <2>4 DEF Stretch
    <3>2. h \in Seq(Seq(E))
      BY <2>4
    <3> QED
      BY <3>1, <3>2, FlatStretch
  <2>6. Flat(a, n + 1) = Cat(Flat(a, n), a[n + 1])
    BY <1>2, <2>1
  <2>7. Flat(a, n) = Flat(b, m)
    BY <1>4, <2>1, <2>2
  <2> QED
    BY <2>2, <2>4, <2>5, <2>6, <2>7
<1>5. Nat \subseteq S
  <2> HIDE DEF S
  <2> QED
    BY <1>3, <1>4, Induction
<1>6. Flat(a, Len(a)) = Flat(b, Len(b))
  BY <1>0, <1>1, <1>5
<1> QED
  BY <1>6, FlattenIsFlat

\* one sequence alone
LEMMA FlattenOne ==
    ASSUME NEW E, NEW x \in Seq(E), NEW q \in Seq(Seq(E)), Len(q) = 1, q[1] = x
    PROVE  FlattenSeq(q) = x
<1>1. Flat(q, 1) = Cat(Flat(q, 0), q[1]) /\ Flat(q, 0) = <<>>
  <2>1. \A n \in 1 .. Len(q) : Flat(q, n) = Cat(Flat(q, n - 1), q[n])
    BY FlatFacts
  <2>2. Flat(q, 0) = <<>>
    BY FlatFacts
  <2>3. 1 \in 1 .. Len(q) /\ 1 - 1 = 0
    OBVIOUS
  <2> QED
    BY <2>1, <2>2, <2>3
<1>2. Cat(<<>>, x) = x
  BY CatEmpty
<1> QED
  BY <1>1, <1>2, FlattenIsFlat

-----------------------------------------------------------------------------
(* The arrays                                                               *)

Reaches(s, q, l) == l \in 1 .. Len(q) => Flat(q, l) = SubSeq(Array(s), 1, Ends(s, l))

\* the parts for all its receivers make a sender's array
LEMMA PartsMakeArray ==
    ASSUME NEW s \in Senders, NEW q \in Seq(Seq(Elements)), Len(q) = Len(SenderRanks(s)),
           \A l \in 1 .. Len(q) : q[l] = Part(s, l)
    PROVE  FlattenSeq(q) = Array(s)
<1> DEFINE S == {l \in Nat : Reaches(s, q, l)}
<1>1. Len(q) \in Nat /\ Len(q) >= 1
  BY RanksTypes, LenProperties
<1>2. /\ Flat(q, 0) = <<>>
      /\ \A l \in 1 .. Len(q) : Flat(q, l) = Cat(Flat(q, l - 1), q[l])
  BY FlatFacts
<1>3. PICK x : x = Array(s)
  OBVIOUS
<1>4. x \in Seq(Elements) /\ Len(x) = Count(s) /\ Count(s) \in Nat
  BY <1>3, ArrayFacts
<1>5. ASSUME NEW l \in 1 .. Len(q)
      PROVE  /\ q[l] = SubSeq(x, Begins(s, l), Ends(s, l)) /\ q[l] \in Seq(Elements)
             /\ Begins(s, l) \in Nat /\ Ends(s, l) \in 0 .. Len(x) /\ Begins(s, l) <= Ends(s, l) + 1
             /\ Begins(s, 1) = 1
             /\ l < Len(q) => Begins(s, l + 1) = Ends(s, l) + 1
  <2>1. q[l] \in Seq(Elements)
    BY ElementOfSeq
  <2>2. l \in 1 .. Len(SenderRanks(s)) /\ q[l] = Part(s, l)
    OBVIOUS
  <2>3. /\ Part(s, l) = SubSeq(x, Begins(s, l), Ends(s, l))
        /\ Begins(s, 1) = 1
        /\ l < Len(SenderRanks(s)) => Begins(s, l + 1) = Ends(s, l) + 1
    BY <1>3, <2>2, PartBounds
  <2>4. /\ Begins(s, l) \in Nat /\ Ends(s, l) \in Nat
        /\ Ends(s, l) <= Count(s) /\ Begins(s, l) <= Ends(s, l) + 1
    BY <2>2, PartBounds
  <2>5. Ends(s, l) \in 0 .. Len(x)
    BY <1>4, <2>4
  <2> QED
    BY <2>1, <2>2, <2>3, <2>4, <2>5
<1>6. 0 \in S
  BY DEF Reaches
<1>7. ASSUME NEW l \in Nat, l \in S PROVE l + 1 \in S
  <2> SUFFICES ASSUME l + 1 \in 1 .. Len(q)
               PROVE  Flat(q, l + 1) = SubSeq(x, 1, Ends(s, l + 1))
    BY <1>3 DEF Reaches
  <2>1. Flat(q, l + 1) = Cat(Flat(q, l), q[l + 1])
    <3>1. (l + 1) - 1 = l
      OBVIOUS
    <3> QED
      BY <1>2, <3>1
  <2>2. q[l + 1] = SubSeq(x, Begins(s, l + 1), Ends(s, l + 1)) /\ q[l + 1] \in Seq(Elements)
    BY <1>5
  <2>3. CASE l = 0
    <3>1. Begins(s, l + 1) = 1 /\ Flat(q, l) = <<>>
      BY <1>2, <1>5, <2>3
    <3>2. Cat(<<>>, q[l + 1]) = q[l + 1]
      BY <2>2, CatEmpty
    <3> QED
      BY <2>1, <2>2, <3>1, <3>2
  <2>4. CASE l # 0
    <3>1. l \in 1 .. Len(q) /\ l < Len(q)
      BY <1>1, <2>4
    <3>2. Flat(q, l) = SubSeq(x, 1, Ends(s, l))
      BY <1>3, <1>7, <3>1 DEF Reaches
    <3>3. PICK b, e : b = Ends(s, l) /\ e = Ends(s, l + 1)
      OBVIOUS
    <3>4. /\ b \in 1 - 1 .. Len(x) /\ e \in b .. Len(x) /\ 1 \in 1 .. Len(x) + 1
          /\ Begins(s, l + 1) = b + 1
      <4>1. Begins(s, l + 1) = b + 1 /\ b \in 0 .. Len(x)
        BY <1>5, <3>1, <3>3
      <4>2. e \in 0 .. Len(x) /\ Begins(s, l + 1) <= e + 1
        BY <1>5, <3>3
      <4>3. Len(x) \in Nat
        BY <1>4
      <4> QED
        BY <4>1, <4>2, <4>3
    <3>5. SubSeq(x, 1, b) \o SubSeq(x, b + 1, e) = SubSeq(x, 1, e)
      BY <1>4, <3>4, ConcatAdjacentSubSeq
    <3>6. Cat(SubSeq(x, 1, b), SubSeq(x, b + 1, e)) = SubSeq(x, 1, e)
      BY <3>5 DEF Cat
    <3> QED
      BY <2>1, <2>2, <3>2, <3>3, <3>4, <3>6
  <2> QED
    BY <2>3, <2>4
<1>8. Nat \subseteq S
  <2> HIDE DEF S
  <2> QED
    BY <1>6, <1>7, Induction
<1>9. Flat(q, Len(q)) = SubSeq(x, 1, Ends(s, Len(q)))
  BY <1>1, <1>3, <1>8 DEF Reaches
<1>10. Ends(s, Len(q)) = Len(x)
  BY <1>4 DEF Ends
<1>11. SubSeq(x, 1, Len(x)) = x
  BY <1>4, SubSeqFull
<1> QED
  BY <1>3, <1>9, <1>10, <1>11, FlattenIsFlat

\* the buffers that a receiver gets in every step
Buffers(r) == [i \in 1 .. Len(ReceiverRanks(r)) |->
                 Part(ReceiverRanks(r)[i], At(ReceiverRanks(r)[i], r))]

LEMMA BuffersFacts ==
    ASSUME NEW r \in Receivers
    PROVE  /\ Buffers(r) \in Seq(Seq(Elements)) /\ Len(Buffers(r)) = Len(ReceiverRanks(r))
           /\ FlattenSeq(Buffers(r)) \in Seq(Elements)
<1>1. PICK n : n = Len(ReceiverRanks(r))
  OBVIOUS
<1>2. n \in Nat
  BY <1>1, RanksTypes, LenProperties
<1>3. ASSUME NEW i \in 1 .. n PROVE Buffers(r)[i] \in Seq(Elements)
  <2>1. PICK s : s = ReceiverRanks(r)[i]
    OBVIOUS
  <2>2. s \in Senders
    BY <1>1, <2>1, RootsMeet, LinkFacts
  <2>3. At(s, r) \in 1 .. Len(SenderRanks(s))
    BY <1>1, <2>1, <2>2, LinkFacts
  <2> QED
    BY <1>1, <2>1, <2>2, <2>3, PartType DEF Buffers
<1>4. Buffers(r) \in [1 .. n -> Seq(Elements)] /\ DOMAIN Buffers(r) = 1 .. n
  BY <1>1, <1>3 DEF Buffers
<1>5. Buffers(r) \in Seq(Seq(Elements))
  BY <1>2, <1>4, SeqDef
<1>6. Len(Buffers(r)) = n
  BY <1>2, <1>4, <1>5, LenProperties
<1>7. FlattenSeq(Buffers(r)) \in Seq(Elements)
  <2>1. FlattenSeq(Buffers(r)) = Flat(Buffers(r), n)
    BY <1>5, <1>6, FlattenIsFlat
  <2>2. n \in 0 .. n
    BY <1>2
  <2> QED
    BY <1>5, <1>6, <2>1, <2>2, FlatFacts
<1> QED
  BY <1>1, <1>5, <1>6, <1>7

LEMMA SavedIs ==
    ASSUME Types, NEW G, NEW c, Matches(G, c), NEW r \in Receivers, NEW k \in 1 .. Len(got[r])
    PROVE  Saved(r, k) = FlattenSeq(Buffers(r))
<1>1. /\ DOMAIN got[r][k] = 1 .. Len(ReceiverRanks(r))
      /\ \A i \in 1 .. Len(ReceiverRanks(r)) :
            got[r][k][i] = Buffer(ReceiverRanks(r)[i], r, G[k])
  BY SavedFacts
<1>2. ASSUME NEW i \in 1 .. Len(ReceiverRanks(r))
      PROVE  got[r][k][i].part = Part(ReceiverRanks(r)[i], At(ReceiverRanks(r)[i], r))
  <2>1. got[r][k][i] = Data(G[k], Part(ReceiverRanks(r)[i], At(ReceiverRanks(r)[i], r)))
    BY <1>1 DEF Buffer
  <2> QED
    BY <2>1, MessageFacts
<1>3. [i \in DOMAIN got[r][k] |-> got[r][k][i].part] = Buffers(r)
  BY <1>1, <1>2 DEF Buffers
<1> QED
  BY <1>3 DEF Saved

\* the arrays of the producer ranks, and what the receivers make of their buffers
Sources == [i \in 1 .. SendSize |-> Array(i - 1)]
Copies  == [i \in 1 .. RecvSize |-> FlattenSeq(Buffers(i - 1))]

LEMMA FamilyFacts ==
    ASSUME NEW S, NEW n \in Nat, NEW f, f \in [1 .. n -> S]
    PROVE  f \in Seq(S) /\ Len(f) = n
<1>1. f \in Seq(S)
  BY SeqDef
<1>2. DOMAIN f = 1 .. n
  OBVIOUS
<1> QED
  BY <1>1, <1>2, LenProperties

LEMMA SidesFacts ==
    /\ Sources \in Seq(Seq(Elements)) /\ Len(Sources) = SendSize
    /\ \A i \in 1 .. SendSize : i - 1 \in Senders /\ Sources[i] = Array(i - 1)
    /\ Copies \in Seq(Seq(Elements)) /\ Len(Copies) = RecvSize
    /\ \A i \in 1 .. RecvSize : i - 1 \in Receivers /\ Copies[i] = FlattenSeq(Buffers(i - 1))
<1>1. SendSize \in Nat /\ RecvSize \in Nat
  BY SizesAssumption
<1>2. ASSUME NEW i \in 1 .. SendSize PROVE i - 1 \in Senders /\ Array(i - 1) \in Seq(Elements)
  <2>1. i - 1 \in Senders
    BY <1>1 DEF Senders
  <2> QED
    BY <2>1, ArrayFacts
<1>3. ASSUME NEW i \in 1 .. RecvSize
      PROVE  i - 1 \in Receivers /\ FlattenSeq(Buffers(i - 1)) \in Seq(Elements)
  <2>1. i - 1 \in Receivers
    BY <1>1 DEF Receivers
  <2> QED
    BY <2>1, BuffersFacts
<1>4. Sources \in [1 .. SendSize -> Seq(Elements)]
  BY <1>2 DEF Sources
<1>5. Copies \in [1 .. RecvSize -> Seq(Elements)]
  BY <1>3 DEF Copies
<1>6. Sources \in Seq(Seq(Elements)) /\ Len(Sources) = SendSize
  BY <1>1, <1>4, FamilyFacts
<1>7. Copies \in Seq(Seq(Elements)) /\ Len(Copies) = RecvSize
  BY <1>1, <1>5, FamilyFacts
<1> QED
  BY <1>2, <1>3, <1>6, <1>7 DEF Sources, Copies

\* several senders to a receiver: each sends all it has
LEMMA GatherWhole ==
    ASSUME NEW d \in Nat \ {0}, ManySenders(d)
    PROVE  FlattenSeq(Copies) = FlattenSeq(Sources)
<1>1. PICK g : g = [n \in 1 .. RecvSize |-> Buffers(n - 1)]
  OBVIOUS
<1>2. RecvSize \in Nat /\ SendSize = RecvSize * d
  BY SizesAssumption DEF ManySenders
<1>3. ASSUME NEW n \in 1 .. RecvSize
      PROVE  /\ g[n] \in Seq(Seq(Elements)) /\ Len(g[n]) = d
             /\ \A j \in 1 .. d : g[n][j] = Sources[(n - 1) * d + j]
             /\ Copies[n] = FlattenSeq(g[n])
  <2>1. PICK r \in Receivers : r = n - 1 /\ Copies[n] = FlattenSeq(Buffers(r))
    BY SidesFacts
  <2>2. g[n] = Buffers(r)
    BY <1>1, <2>1
  <2>3. ReceiverRanks(r) = [i \in 1 .. d |-> r * d + i - 1]
    BY DEF ManySenders
  <2>4. Len(ReceiverRanks(r)) = d /\ \A i \in 1 .. d : ReceiverRanks(r)[i] = r * d + i - 1
    BY <2>3
  <2>5. ASSUME NEW j \in 1 .. d PROVE g[n][j] = Sources[(n - 1) * d + j]
    <3>1. PICK s : s = ReceiverRanks(r)[j]
      OBVIOUS
    <3>2. s \in Senders /\ Linked(s, r)
      <4>1. s \in Senders
        BY <2>4, <3>1, RootsMeet, LinkFacts
      <4> QED
        BY <2>4, <3>1, <4>1, LinkFacts
    <3>3. Len(SenderRanks(s)) = 1 /\ At(s, r) = 1
      <4>1. SenderRanks(s) = <<s \div d>>
        BY <3>2 DEF ManySenders
      <4>2. Len(SenderRanks(s)) = 1
        BY <4>1
      <4>3. At(s, r) \in 1 .. Len(SenderRanks(s))
        BY <3>2, LinkFacts
      <4> QED
        BY <4>2, <4>3
    <3>4. g[n][j] = Part(s, 1)
      BY <2>2, <2>4, <3>1, <3>3 DEF Buffers
    <3>5. Part(s, 1) = Array(s)
      <4>1. Part(s, 1) = SubSeq(Array(s), Begins(s, 1), Ends(s, 1)) /\ Begins(s, 1) = 1
        <5>1. 1 \in 1 .. Len(SenderRanks(s))
          BY <3>3
        <5> QED
          BY <3>2, <5>1, PartBounds
      <4>2. Ends(s, 1) = Count(s)
        BY <3>3 DEF Ends
      <4>3. SubSeq(Array(s), 1, Len(Array(s))) = Array(s) /\ Len(Array(s)) = Count(s)
        BY <3>2, ArrayFacts, SubSeqFull
      <4> QED
        BY <4>1, <4>2, <4>3
    <3>6. PICK b \in Nat : b = (n - 1) * d
      <4>1. (n - 1) * d \in Nat
        BY <1>2
      <4> QED
        BY <4>1
    <3>7. s = b + j - 1
      BY <2>1, <2>4, <3>1, <3>6
    <3>8. b + j \in 1 .. SendSize /\ (b + j) - 1 = s
      BY <1>2, <3>2, <3>7 DEF Senders
    <3>9. Sources[b + j] = Array(s)
      BY <3>8, SidesFacts
    <3> QED
      BY <3>4, <3>5, <3>6, <3>9
  <2> QED
    BY <2>1, <2>2, <2>4, <2>5, BuffersFacts
<1>4. /\ Copies \in Seq(Seq(Elements)) /\ Sources \in Seq(Seq(Elements))
      /\ Len(Sources) = Len(Copies) * d
  BY <1>2, SidesFacts
<1>5. Groups(Elements, Copies, Sources, d, g)
  BY <1>2, <1>3, <1>4, SidesFacts DEF Groups
<1> QED
  BY <1>4, <1>5, Regroup

\* several receivers to a sender: each gets one of its parts
LEMMA ScatterWhole ==
    ASSUME NEW d \in Nat \ {0}, ManyReceivers(d)
    PROVE  FlattenSeq(Sources) = FlattenSeq(Copies)
<1>1. PICK g : g = [n \in 1 .. SendSize |-> [j \in 1 .. d |-> Part(n - 1, j)]]
  OBVIOUS
<1>2. SendSize \in Nat /\ RecvSize = SendSize * d
  BY SizesAssumption DEF ManyReceivers
<1>3. ASSUME NEW n \in 1 .. SendSize
      PROVE  /\ g[n] \in Seq(Seq(Elements)) /\ Len(g[n]) = d
             /\ \A j \in 1 .. d : g[n][j] = Copies[(n - 1) * d + j]
             /\ Sources[n] = FlattenSeq(g[n])
  <2>1. PICK s \in Senders : s = n - 1 /\ Sources[n] = Array(s)
    BY SidesFacts
  <2>2. g[n] = [j \in 1 .. d |-> Part(s, j)]
    BY <1>1, <2>1
  <2>3. SenderRanks(s) = [i \in 1 .. d |-> s * d + i - 1]
    BY DEF ManyReceivers
  <2>4. Len(SenderRanks(s)) = d /\ \A i \in 1 .. d : SenderRanks(s)[i] = s * d + i - 1
    BY <2>3
  <2>5. g[n] \in Seq(Seq(Elements)) /\ Len(g[n]) = d /\ \A j \in 1 .. d : g[n][j] = Part(s, j)
    <3>1. \A j \in 1 .. d : Part(s, j) \in Seq(Elements)
      BY <2>4, PartType
    <3>2. g[n] \in [1 .. d -> Seq(Elements)]
      BY <2>2, <3>1
    <3>3. g[n] \in Seq(Seq(Elements)) /\ Len(g[n]) = d
      BY <3>2, FamilyFacts
    <3> QED
      BY <2>2, <3>3
  <2>6. ASSUME NEW j \in 1 .. d PROVE g[n][j] = Copies[(n - 1) * d + j]
    <3>1. PICK r : r = SenderRanks(s)[j]
      OBVIOUS
    <3>2. r \in Receivers /\ Linked(s, r) /\ At(s, r) = j
      <4>1. r \in Receivers
        BY <2>4, <3>1, RootsMeet, LinkFacts
      <4> QED
        BY <2>4, <3>1, <4>1, LinkFacts
    <3>3. Len(ReceiverRanks(r)) = 1 /\ ReceiverRanks(r)[1] = s
      <4>1. ReceiverRanks(r) = <<r \div d>>
        BY <3>2 DEF ManyReceivers
      <4>2. Len(ReceiverRanks(r)) = 1
        BY <4>1
      <4>3. From(r, s) \in 1 .. Len(ReceiverRanks(r)) /\ ReceiverRanks(r)[From(r, s)] = s
        BY <3>2, LinkFacts
      <4> QED
        BY <4>2, <4>3
    <3>4. FlattenSeq(Buffers(r)) = Part(s, j)
      <4>1. Len(Buffers(r)) = 1 /\ Buffers(r) \in Seq(Seq(Elements))
        BY <3>2, <3>3, BuffersFacts
      <4>3. Buffers(r)[1] = Part(s, j)
        BY <3>2, <3>3 DEF Buffers
      <4>2. Part(s, j) \in Seq(Elements)
        BY <2>4, PartType
      <4> QED
        BY <4>1, <4>2, <4>3, FlattenOne
    <3>5. PICK b \in Nat : b = (n - 1) * d
      <4>1. (n - 1) * d \in Nat
        BY <1>2
      <4> QED
        BY <4>1
    <3>6. r = b + j - 1
      BY <2>1, <2>4, <3>1, <3>5
    <3>7. b + j \in 1 .. RecvSize /\ (b + j) - 1 = r
      BY <1>2, <3>2, <3>6 DEF Receivers
    <3>8. Copies[b + j] = FlattenSeq(Buffers(r))
      BY <3>7, SidesFacts
    <3> QED
      BY <2>5, <3>4, <3>5, <3>8
  <2>7. FlattenSeq(g[n]) = Array(s)
    BY <2>4, <2>5, PartsMakeArray
  <2> QED
    BY <2>1, <2>5, <2>6, <2>7
<1>4. /\ Sources \in Seq(Seq(Elements)) /\ Copies \in Seq(Seq(Elements))
      /\ Len(Copies) = Len(Sources) * d
  BY <1>2, SidesFacts
<1>5. Groups(Elements, Sources, Copies, d, g)
  BY <1>2, <1>3, <1>4, SidesFacts DEF Groups
<1> QED
  BY <1>4, <1>5, Regroup

LEMMA InvWholeArrays == Inv => WholeArrays
<1> SUFFICES ASSUME Types, NEW G, NEW c, Matches(G, c), NEW k \in 1 .. Steps,
                    \A r \in Receivers : k \in DOMAIN got[r]
             PROVE  FlattenSeq([i \in 1 .. RecvSize |-> Saved(i - 1, k)])
                       = FlattenSeq([i \in 1 .. SendSize |-> Array(i - 1)])
  BY DEF Inv, WholeArrays
<1>1. ASSUME NEW i \in 1 .. RecvSize PROVE Saved(i - 1, k) = FlattenSeq(Buffers(i - 1))
  <2>1. PICK r \in Receivers : r = i - 1
    BY SidesFacts
  <2>2. k \in 1 .. Len(got[r])
    BY SavedFacts
  <2> QED
    BY <2>1, <2>2, SavedIs
<1>2. [i \in 1 .. RecvSize |-> Saved(i - 1, k)] = Copies
  BY <1>1 DEF Copies
<1>3. [i \in 1 .. SendSize |-> Array(i - 1)] = Sources
  BY DEF Sources
<1>4. PICK d \in Nat \ {0} : ManySenders(d) \/ ManyReceivers(d)
  BY TwoWays
<1>5. FlattenSeq(Copies) = FlattenSeq(Sources)
  BY <1>4, GatherWhole, ScatterWhole
<1> QED
  BY <1>2, <1>3, <1>5

-----------------------------------------------------------------------------
(* Theorems                                                                 *)

\* Every variable keeps its type: in particular never are two requests under way, and
\* nothing but data is ever taken for data.
THEOREM TypeCorrect == Spec => []TypeOK
BY Invariance, InvTypeOK, PTL

\* A receiver never combines the data of two steps: all its senders heed the flag that
\* rank 0 broadcasts in the same step.
THEOREM NeverMixed == Spec => []SameStep
BY Invariance, InvSameStep, PTL

\* On request there is at most one message from any sender to receiver 0.
THEOREM NeverAhead == Spec => []Backpressure
BY Invariance, InvBackpressure, PTL

\* Once both groups have ended nothing is left under way, if MPI_Send waits or the data
\* was requested: the stop answers the last request, and flags are broadcast in pairs.
THEOREM NothingIsLost == Spec => []NothingLost
BY Invariance, InvNothingLost, PTL

\* Without requests, and if MPI_Send waits, every receiver ends with every step.
THEOREM AllAreReceived == Spec => []AllReceived
BY Invariance, InvAllReceived, PTL

\* The arrays that the receivers save of a step are those of all producer ranks, in
\* order and with no element missing or doubled, for any sizes and any lengths.
THEOREM ArraysAreWhole == Spec => []WholeArrays
BY Invariance, InvWholeArrays, PTL

\* What the two programs do is the stream that they promise: every receiver gets the
\* steps of one log in its order, and stops where the others stop.
THEOREM ImplementsTheStream == Spec => ImplementsStream
<1>1. Init => Stream!StreamInit
  BY InitStream
<1>2. Inv /\ Inv' /\ [Next]_vars => [Stream!StreamNext]_(Stream!streamVars)
  <2> SUFFICES ASSUME Inv, Inv', [Next]_vars
               PROVE  Stream!StreamNext \/ UNCHANGED Stream!streamVars
    OBVIOUS
  <2>1. PICK G, c : Types /\ Matches(G, c)
    BY DEF Inv
  <2>2. Types'
    BY DEF Inv
  <2>3. ASSUME async' = async, step' = step, got' = got, Closed' = Closed
        PROVE  UNCHANGED Stream!streamVars
    BY <2>3 DEF Stream!streamVars, Produced, StepsGot
  <2>4. ASSUME NEW s \in Senders, Sender(s)
        PROVE  Stream!StreamNext \/ UNCHANGED Stream!streamVars
    <3>1. async' = async
      BY <2>4 DEF Sender
    <3>2. CASE NextStep(s)
      BY <2>1, <2>2, <3>1, <3>2, NextStepStream DEF Stream!StreamNext
    <3>3. CASE \/ CheckReady(s) \/ Proceed(s) \/ SendData(s) \/ DataSent(s) \/ StopCall(s)
               \/ TakeRequest(s) \/ SendStop(s) \/ StopSent(s)
      <4>1. step' = step /\ rpc' = rpc /\ got' = got
        BY <3>3 DEF CheckReady, Proceed, SendData, DataSent, StopCall, TakeRequest, SendStop,
                    StopSent, receiverVars
      <4> QED
        BY <2>3, <3>1, <4>1 DEF Closed
    <3> QED
      BY <2>4, <3>2, <3>3 DEF Sender
  <2>5. ASSUME NEW r \in Receivers, Receiver(r)
        PROVE  Stream!StreamNext \/ UNCHANGED Stream!streamVars
    <3>1. async' = async
      BY <2>5 DEF Receiver
    <3>2. CASE Loop(r) \/ RequestSent(r) \/ CheckStop(r)
      <4>1. PICK place : rpc' = [rpc EXCEPT ![r] = place] /\ place # "done" /\ rpc[r] # "done"
        BY <3>2 DEF Loop, RequestSent, CheckStop
      <4>2. step' = step /\ got' = got
        BY <3>2 DEF Loop, RequestSent, CheckStop, senderVars
      <4>3. Closed' = Closed
        BY <2>1, <4>1 DEF Closed, Types
      <4> QED
        BY <2>3, <3>1, <4>2, <4>3
    <3>3. CASE Obey(r)
      BY <2>1, <3>1, <3>3, ObeyStream DEF Stream!StreamNext
    <3>4. CASE ReceiveData(r)
      BY <2>1, <3>1, <3>4, ReceiveStream DEF Stream!StreamNext
    <3> QED
      BY <2>5, <3>2, <3>3, <3>4 DEF Receiver
  <2>6. ASSUME UNCHANGED vars PROVE UNCHANGED Stream!streamVars
    BY <2>3, <2>6 DEF vars, senderVars, receiverVars, Closed
  <2> QED
    BY <2>4, <2>5, <2>6 DEF Next
<1> QED
  BY <1>1, <1>2, Invariance, PTL DEF Spec, ImplementsStream, Stream!StreamSpec
==============================================================================
