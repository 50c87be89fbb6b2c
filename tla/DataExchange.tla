---------------------------- MODULE DataExchange ----------------------------
(***************************************************************************)
(* tools/send.cpp and tools/receive.cpp: a group of producer ranks hands the *)
(* data of its time steps to a group of consumer ranks over an               *)
(* intercommunicator.                                                        *)
(*                                                                          *)
(* send is a puppet in the producer's loop: it runs once for every step, and *)
(* once more when the group stops.  receive controls the consumer's loop: it *)
(* yields after every step it received, and returns when told to stop.       *)
(*                                                                          *)
(* MPI matches messages by their tag: between two ranks those of one tag     *)
(* keep their order, but a later message with another tag may be received    *)
(* first.  MPI_Bcast hands the root's value to the other ranks of the group. *)
(***************************************************************************)
EXTENDS Integers, Sequences, SequencesExt

CONSTANTS
    SendSize, RecvSize,  \* ranks of the two groups
    Steps,               \* bound: how many steps the producer makes
    Modes,               \* whether both run with -a: data is only sent on request
    Buffered,            \* whether MPI calls copy their data or wait for the peer
    Count(_)             \* how many elements each producer rank's array has

Senders   == 0 .. SendSize - 1
Receivers == 0 .. RecvSize - 1

\* both programs return at once unless one size divides the other
ASSUME SizesAssumption ==
    /\ SendSize \in Nat \ {0} /\ RecvSize \in Nat \ {0}
    /\ SendSize % RecvSize = 0 \/ RecvSize % SendSize = 0
    /\ Steps \in Nat
ASSUME ModesAssumption == Modes \subseteq BOOLEAN /\ Buffered \in BOOLEAN
ASSUME CountAssumption == \A s \in Senders : Count(s) \in Nat

\* the i-th element of producer rank s's array, and the whole of it
Element(s, i) == <<s, i>>
Array(s)      == [i \in 1 .. Count(s) |-> Element(s, i)]

Elements == UNION {Range(Array(s)) : s \in Senders}

Data(step, part) == [tag |-> "data", step |-> step, part |-> part]
Stop             == [tag |-> "stop"]

VARIABLES
    async,   \* async, the same in both programs
    step,    \* the step each producer rank is in
    spc,     \* where each producer rank is in send
    sidx,    \* its index in ranks
    ready,   \* what rank 0 found in receiver_ready()
    sbcast,  \* flags broadcast to each producer rank, not yet taken
    net,     \* data and stop messages from each sender to each receiver
    requests,\* how many request_data messages are on their way
    rpc,     \* where each consumer rank is in receive
    ridx,    \* its index in ranks
    stop,    \* what rank 0 found when it looked for the stop message
    rbcast,  \* flags broadcast to each consumer rank, not yet taken
    parts,   \* the buffers received for the current step
    got      \* the steps received: the buffers of each

senderVars   == <<step, spc, sidx, ready, sbcast>>
receiverVars == <<rpc, ridx, stop, rbcast, parts, got>>
vars == <<async, senderVars, receiverVars, net, requests>>

\* the partner ranks of a rank of a group of the given size (the same code in
\* both programs)
RanksOf(rank, size, remote) ==
    IF size >= remote
    THEN <<rank \div (size \div remote)>>
    ELSE LET fraction == remote \div size
         IN [i \in 1 .. fraction |-> rank * fraction + i - 1]

SenderRanks(s)   == RanksOf(s, SendSize, RecvSize)
ReceiverRanks(r) == RanksOf(r, RecvSize, SendSize)

\* a message with data
IsBuffer(m) == m = Data(m.step, m.part) /\ m.step \in 1 .. Steps /\ m.part \in Seq(Elements)

TypeOK ==
    /\ async \in Modes
    /\ step \in [Senders -> 0 .. Steps]
    /\ spc \in [Senders -> {"main", "ready", "told", "send", "posted", "await",
                            "stop", "stopped", "done"}]
    /\ \A s \in Senders : sidx[s] \in 1 .. Len(SenderRanks(s))
    /\ ready \in BOOLEAN /\ stop \in BOOLEAN
    /\ sbcast \in [Senders -> Seq(BOOLEAN)] /\ rbcast \in [Receivers -> Seq(BOOLEAN)]
    /\ \A s \in Senders, r \in Receivers : \A k \in DOMAIN net[s][r] :
          net[s][r][k] = Stop \/ IsBuffer(net[s][r][k])
    /\ requests \in 0 .. 1
    /\ rpc \in [Receivers -> {"loop", "requested", "check", "told", "receive", "done"}]
    /\ \A r \in Receivers : ridx[r] \in 1 .. Len(ReceiverRanks(r))
    /\ \A r \in Receivers : /\ \A k \in DOMAIN parts[r] : IsBuffer(parts[r][k])
                           /\ \A n \in DOMAIN got[r] :
                                 \A k \in DOMAIN got[r][n] : IsBuffer(got[r][n][k])

Init ==
    /\ async \in Modes
    /\ step = [s \in Senders |-> 0] /\ spc = [s \in Senders |-> "main"]
    /\ sidx = [s \in Senders |-> 1] /\ ready = FALSE
    /\ sbcast = [s \in Senders |-> <<>>]
    /\ net = [s \in Senders |-> [r \in Receivers |-> <<>>]]
    /\ requests = 0
    /\ rpc = [r \in Receivers |-> "loop"] /\ ridx = [r \in Receivers |-> 1]
    /\ stop = FALSE /\ rbcast = [r \in Receivers |-> <<>>]
    /\ parts = [r \in Receivers |-> <<>>] /\ got = [r \in Receivers |-> <<>>]

\* the root's flag goes to every other rank of its group
Bcast(queues, flag) ==
    [p \in DOMAIN queues |-> IF p = 0 THEN queues[p] ELSE Append(queues[p], flag)]

\* the messages under way that carry the tag
Tagged(channel, tag) == {k \in DOMAIN channel : channel[k].tag = tag}

\* (a mutant: the newest of them is taken)
Oldest_Newest(channel, tag) ==
    CHOOSE k \in Tagged(channel, tag) : \A l \in Tagged(channel, tag) : l <= k

\* MPI_Probe and MPI_Recv with a tag take the one that was sent first
Oldest(channel, tag) ==
    CHOOSE k \in Tagged(channel, tag) : \A l \in Tagged(channel, tag) : k <= l

\* a collective call may also hold its root until the others have come
BcastDone(queues) == Buffered \/ \A p \in DOMAIN queues : queues[p] = <<>>

\* (mutants: the loop over the partner ranks goes too far, or ends too early)
MoreRanks_Past(i, ranks)  == i <= Len(ranks)
MoreRanks_Short(i, ranks) == i < Len(ranks) - 1

\* the loop over the partner ranks goes on after the i-th
MoreRanks(i, ranks) == i < Len(ranks)

-----------------------------------------------------------------------------
(* send                                                                     *)

\* (a mutant: the group stops while its last step is still to come)
Stopping_Early(s) == step[s] >= Steps - 1

\* henson_stop(): the producer has made all its steps
Stopping(s) == step[s] = Steps

\* the producer makes a step and send's main begins
NextStep(s) ==
    /\ spc[s] = "main" /\ step[s] < Steps
    /\ step' = [step EXCEPT ![s] = @ + 1]
    /\ spc' = [spc EXCEPT ![s] = IF async THEN "ready" ELSE "send"]
    /\ UNCHANGED <<sidx, ready, sbcast, receiverVars, net, requests>>

\* receiver_ready() on rank 0: MPI_Iprobe may miss a request in transit
CheckReady(s) ==
    /\ s = 0 /\ spc[s] = "ready"
    /\ \/ ready' = FALSE /\ UNCHANGED requests
       \/ requests > 0 /\ requests' = requests - 1 /\ ready' = TRUE
    /\ sbcast' = Bcast(sbcast, ready')
    /\ spc' = [spc EXCEPT ![s] = "told"]
    /\ UNCHANGED <<step, sidx, receiverVars, net>>

\* (a mutant: the ranks above 0 do not heed the flag)
Heeded_Always(flag) == TRUE

\* what the broadcast says
Heeded(flag) == flag

\* receiver_ready() returns; send returns if the receiver is not ready
Proceed(s) ==
    /\ \/ s = 0 /\ spc[s] = "told" /\ BcastDone(sbcast)
          /\ spc' = [spc EXCEPT ![s] = IF ready THEN "send" ELSE "main"]
          /\ UNCHANGED sbcast
       \/ s # 0 /\ spc[s] = "ready" /\ sbcast[s] # <<>>
          /\ spc' = [spc EXCEPT ![s] = IF Heeded(Head(sbcast[s])) THEN "send" ELSE "main"]
          /\ sbcast' = [sbcast EXCEPT ![s] = Tail(@)]
    /\ UNCHANGED <<step, sidx, ready, receiverVars, net, requests>>

\* (a mutant: the last receiver gets no more than the others)
Part_Even(s, r) ==
    LET share == Count(s) \div Len(SenderRanks(s))
    IN SubSeq(Array(s), (r - 1) * share + 1, r * share)

\* the elements from r * (count / fraction) on that go to the r-th receiver (from 1);
\* the last one gets all the rest
Part(s, r) ==
    LET share == Count(s) \div Len(SenderRanks(s))
    IN SubSeq(Array(s), (r - 1) * share + 1,
              IF r = Len(SenderRanks(s)) THEN Count(s) ELSE r * share)

\* MPI_Send of the part of the data for one receiver ...
SendData(s) ==
    /\ spc[s] = "send"
    /\ net' = [net EXCEPT ![s][SenderRanks(s)[sidx[s]]] =
                                  Append(@, Data(step[s], Part(s, sidx[s])))]
    /\ spc' = [spc EXCEPT ![s] = "posted"]
    /\ UNCHANGED <<step, sidx, ready, sbcast, receiverVars, requests>>

\* ... and its return
DataSent(s) ==
    /\ spc[s] = "posted"
    /\ Buffered \/ net[s][SenderRanks(s)[sidx[s]]] = <<>>
    /\ IF MoreRanks(sidx[s], SenderRanks(s))
       THEN sidx' = [sidx EXCEPT ![s] = @ + 1] /\ spc' = [spc EXCEPT ![s] = "send"]
       ELSE sidx' = [sidx EXCEPT ![s] = 1] /\ spc' = [spc EXCEPT ![s] = "main"]
    /\ UNCHANGED <<step, ready, sbcast, receiverVars, net, requests>>

\* (a mutant: the pending request is left alone)
AwaitRequest_Never == FALSE

\* whether a stopping rank 0 first unblocks the root's data request
AwaitRequest == async

\* the producer has ended: send's main begins with henson_stop() set
StopCall(s) ==
    /\ spc[s] = "main" /\ Stopping(s)
    /\ spc' = [spc EXCEPT ![s] = IF s # 0 THEN "done"
                                 ELSE IF AwaitRequest THEN "await" ELSE "stop"]
    /\ UNCHANGED <<step, sidx, ready, sbcast, receiverVars, net, requests>>

TakeRequest(s) ==
    /\ spc[s] = "await" /\ requests > 0
    /\ requests' = requests - 1
    /\ spc' = [spc EXCEPT ![s] = "stop"]
    /\ UNCHANGED <<step, sidx, ready, sbcast, receiverVars, net>>

SendStop(s) ==
    /\ spc[s] = "stop"
    /\ net' = [net EXCEPT ![s][0] = Append(@, Stop)]
    /\ spc' = [spc EXCEPT ![s] = "stopped"]
    /\ UNCHANGED <<step, sidx, ready, sbcast, receiverVars, requests>>

StopSent(s) ==
    /\ spc[s] = "stopped" /\ (Buffered \/ Tagged(net[s][0], "stop") = {})
    /\ spc' = [spc EXCEPT ![s] = "done"]
    /\ UNCHANGED <<step, sidx, ready, sbcast, receiverVars, net, requests>>

-----------------------------------------------------------------------------
(* receive                                                                  *)

\* the loop begins: in asynchronous mode rank 0 requests data
Loop(r) ==
    /\ rpc[r] = "loop"
    /\ IF async /\ r = 0
       THEN requests' = requests + 1 /\ rpc' = [rpc EXCEPT ![r] = "requested"]
       ELSE UNCHANGED requests /\ rpc' = [rpc EXCEPT ![r] = "check"]
    /\ UNCHANGED <<ridx, stop, rbcast, parts, got, senderVars, net>>

RequestSent(r) ==
    /\ rpc[r] = "requested" /\ (Buffered \/ requests = 0)
    /\ rpc' = [rpc EXCEPT ![r] = "check"]
    /\ UNCHANGED <<ridx, stop, rbcast, parts, got, senderVars, net, requests>>

\* MPI_Probe waits for any message of sender 0; MPI_Iprobe finds the stop message
\* when it is that one, and may find it behind data
CheckStop(r) ==
    /\ r = 0 /\ rpc[r] = "check" /\ net[0][0] # <<>>
    /\ \/ /\ Tagged(net[0][0], "stop") # {}
          /\ stop' = TRUE
          /\ net' = [net EXCEPT ![0][0] = RemoveAt(@, Oldest(@, "stop"))]
       \/ /\ Head(net[0][0]) # Stop
          /\ stop' = FALSE /\ UNCHANGED net
    /\ rbcast' = Bcast(rbcast, stop')
    /\ rpc' = [rpc EXCEPT ![r] = "told"]
    /\ UNCHANGED <<ridx, parts, got, senderVars, requests>>

\* every rank returns if told to stop, and receives otherwise
Obey(r) ==
    /\ \/ r = 0 /\ rpc[r] = "told" /\ BcastDone(rbcast)
          /\ rpc' = [rpc EXCEPT ![r] = IF stop THEN "done" ELSE "receive"]
          /\ UNCHANGED rbcast
       \/ r # 0 /\ rpc[r] = "check" /\ rbcast[r] # <<>>
          /\ rpc' = [rpc EXCEPT ![r] = IF Head(rbcast[r]) THEN "done" ELSE "receive"]
          /\ rbcast' = [rbcast EXCEPT ![r] = Tail(@)]
    /\ UNCHANGED <<ridx, stop, parts, got, senderVars, net, requests>>

\* (a mutant: what comes later is put first)
Combined_Front(buffers, m) == <<m>> \o buffers

\* the data is copied behind that of the senders before
Combined(buffers, m) == Append(buffers, m)

\* the buffer of one sender; after the last one the step is saved and receive
\* yields to the other puppets of the consumer
ReceiveData(r) ==
    /\ rpc[r] = "receive"
    /\ LET s == ReceiverRanks(r)[ridx[r]]
           k == Oldest(net[s][r], "data")
           m == net[s][r][k]
       IN /\ Tagged(net[s][r], "data") # {}
          /\ net' = [net EXCEPT ![s][r] = RemoveAt(@, k)]
          /\ IF MoreRanks(ridx[r], ReceiverRanks(r))
             THEN /\ parts' = [parts EXCEPT ![r] = Combined(@, m)]
                  /\ ridx' = [ridx EXCEPT ![r] = @ + 1]
                  /\ UNCHANGED <<rpc, got>>
             ELSE /\ got' = [got EXCEPT ![r] = Append(@, Combined(parts[r], m))]
                  /\ parts' = [parts EXCEPT ![r] = <<>>]
                  /\ ridx' = [ridx EXCEPT ![r] = 1]
                  /\ rpc' = [rpc EXCEPT ![r] = "loop"]
    /\ UNCHANGED <<stop, rbcast, senderVars, requests>>

-----------------------------------------------------------------------------
Sender(s) ==
    /\ \/ NextStep(s) \/ CheckReady(s) \/ Proceed(s) \/ SendData(s) \/ DataSent(s)
       \/ StopCall(s) \/ TakeRequest(s) \/ SendStop(s) \/ StopSent(s)
    /\ UNCHANGED async

Receiver(r) ==
    /\ \/ Loop(r) \/ RequestSent(r) \/ CheckStop(r) \/ Obey(r) \/ ReceiveData(r)
    /\ UNCHANGED async

\* both groups have left their loops
Done == /\ \A s \in Senders : spc[s] = "done"
        /\ \A r \in Receivers : rpc[r] = "done"

Next ==
    \/ \E s \in Senders : Sender(s)
    \/ \E r \in Receivers : Receiver(r)
    \/ Done /\ UNCHANGED vars

Spec == Init /\ [][Next]_vars

\* every rank keeps running: MPI makes progress and the producer's steps end
Fairness == /\ \A s \in Senders : WF_vars(Sender(s))
            /\ \A r \in Receivers : WF_vars(Receiver(r))

FairSpec == Spec /\ Fairness

-----------------------------------------------------------------------------
(* Properties                                                               *)

\* What a receiver combines into one step was sent in one step by all its
\* senders, although these only agree on what rank 0 saw of the requests.
SameStep == \A r \in Receivers : \A k \in 1 .. Len(got[r]) :
                \A i, j \in DOMAIN got[r][k] : got[r][k][i].step = got[r][k][j].step

\* what receiver r has of the k-th step, its senders' parts one behind the other
Saved(r, k) == FlattenSeq([i \in DOMAIN got[r][k] |-> got[r][k][i].part])

\* Whatever the sizes of the groups and of the arrays: the arrays the receivers have
\* saved of one step are, in the order of their ranks, the arrays of all producer
\* ranks in the order of theirs, with no element missing, doubled or out of place.
WholeArrays ==
    \A k \in 1 .. Steps :
        (\A r \in Receivers : k \in DOMAIN got[r]) =>
            FlattenSeq([i \in 1 .. RecvSize |-> Saved(i - 1, k)])
                = FlattenSeq([i \in 1 .. SendSize |-> Array(i - 1)])

\* In asynchronous mode the producer never runs ahead of receiver 0: a step is
\* only sent when the one before was received.
Backpressure == async => \A s \in Senders : Len(net[s][0]) <= 1

\* nothing is under way any more
Quiet == /\ \A s \in Senders, r \in Receivers : net[s][r] = <<>>
         /\ requests = 0
         /\ \A s \in Senders : sbcast[s] = <<>>
         /\ \A r \in Receivers : rbcast[r] = <<>>

\* Once both groups have ended, no data, request or flag is left behind, if MPI_Send
\* waits or the data was requested.
NothingLost == Done /\ (async \/ ~Buffered) => Quiet

\* README.md: receive is told to stop when "no more data will arrive", whatever MPI
\* buffers; see README, "Findings".
StopIsLast == Done => Quiet

\* In synchronous mode every receiver gets every step, when MPI_Send waits.
AllReceived == Done /\ ~async /\ ~Buffered => \A r \in Receivers : Len(got[r]) = Steps

\* Both groups leave their loops, whatever waits for whom.
Termination == <>Done

\* what the programs around see: the steps made, the steps each receiver got, and
\* who was told to stop
Produced == CHOOSE n \in 0 .. Steps : /\ \E s \in Senders : step[s] = n
                                      /\ \A s \in Senders : step[s] <= n
StepsGot == [r \in Receivers |-> [k \in 1 .. Len(got[r]) |-> got[r][k][1].step]]
Closed   == {r \in Receivers : rpc[r] = "done"}

Stream == INSTANCE DataStream WITH
    Consumers <- Receivers, complete <- ~async, produced <- Produced,
    got <- StepsGot, closed <- Closed

\* The receivers get the same steps in the same order, none skipped in
\* synchronous mode, and stop after the same step.
ImplementsStream == Stream!StreamSpec
=============================================================================
