# Henson in TLA+

TLA+ specifications of [Henson](../src/README.md), a library that runs several
MPI programs ("puppets") as coroutines of one process, exchanges data between
them, and schedules jobs on groups of ranks. The specifications are translated
from the C++ source; TLC checks them on small instances and TLAPS proves
theorems about them for all values of their constants.

    tlc  -workers 2 -config Scheduler_service.cfg MCScheduler.tla
    tlapm Pool_proofs.tla

## Inventory

| Component | State | Operations | Modelled by |
|---|---|---|---|
| Scheduler (`include/henson/scheduler.hpp`, with the ChaiScript and Python front ends) | job queue, active jobs, available ranks, results; per rank a position in `listen()` | `schedule`, `control`, `finish`, `pop`, `listen` | `Scheduler` |
| Communicator creation (`mpi-noncollective-comm.h`) | a communicator that grows each round | `non_collective_comm_create` | `CommCreate`; as one collective wait in `Scheduler` |
| Process map (`procs.hpp`, division of ranks in `chai/scheduler.cpp`) | a stack of levels, each with groups and cached intercommunicators | `extend`, `pop_back`, `intercomm`, `parse_procs`, division in `schedule` | `ProcMap` |
| Data exchange (`tools/send.cpp`, `tools/receive.cpp`) | messages between two groups of ranks | send a step, request a step, stop; division of arrays | `DataExchange` |
| HWL executor (`henson-hwl.cpp`) | the stop flag, the puppets to revisit | run the group loop, bodies of statements, revisit | `Executor` |
| Puppets (`puppet.hpp`, `coroutine.hpp`, `context.cpp`) | running, stop and result of each puppet | `proceed`, `yield`, restart, destructor | `Executor` |
| Storage example (`examples/storage/`) | requests, replies and connections between a storage group and jobs | request, connect, send data, stop | `Storage` |
| Name map (`data.hpp`) | values and queues by name | `add`, `get`, `create_queue` | not modelled |
| HWL parser (`hwl.hpp`, generated from `hwl.egg`) | - | `indent_to_tokens`, the grammar | not modelled |
| Serialization, front ends, MPI wrappers, utilities, vendored libraries | - | - | not modelled |

How they interact. `henson-hwl` parses a script, splits the world with a process
map, loads the puppets of its group and drives them with the executor. Puppets
exchange data inside a process through the name map, between groups through the
`send` and `receive` puppets and an intercommunicator of the process map.
`henson-chai` and the Python module expose the same parts to a script, and add
the scheduler: the controller script schedules functions on worker ranks, every
rank of a job creates a communicator, pushes a level on its process map, runs
the function and pops the level again.

What is hard about it, and what makes each part correct:

* Scheduler: rank 0 and the workers only share messages. Rank 0 gives the ranks
  of a job away when the *first* of them answers, and any rank may answer, or
  none. Correct means: a rank is never given to two jobs, ranks enter shared
  communicators in the same order, each job is answered once and its answer
  reaches the script, everybody leaves at the end, nothing is left in transit.
* Communicator creation: ranks of one job meet pairwise under one tag. Correct
  means: all rounds match up, for every group size, and all get the same group.
* Process map: every rank computes the division alone, and remembers the
  communicators it has created. Correct means: the sizes add up to the world,
  color, group and leader agree with what MPI has made, a communicator found in a
  cache is the one of the group asked for, and nobody creates or frees one alone.
* Data exchange: data, requests and the stop message cross. Correct means: the
  receiver sees the sender's steps in order, all of them in synchronous mode,
  and both sides stop.
* Executor and puppets: control jumps between coroutines. Correct means: each
  statement is executed when the bodies around it run, the loop ends when its control
  puppet does, and who is called after that is told to stop. Puppets that are revisited
  at the end of a turn are where the code falls short of this (see Findings).
* Storage example: requests of several jobs, the stop message and new connections
  share a communicator and tags. Correct means: each job gets its data over a
  connection of its own, and the storage group leaves after all of them.

## Modules

| Module | Role |
|---|---|
| `Scheduler`, `JobPool` | the scheduler, and the abstract promise it implements |
| `MCScheduler` | the sets of functions its instances schedule |
| `Scheduler_proofs`, `Answers_proofs`, `Pool_proofs` | theorems about `Scheduler`: ranks and assignments; answers; refinement of `JobPool` |
| `CommCreate`, `JobComms` | the creation of job communicators, and the collective wait it implements |
| `CommCreate_proofs` | theorems about `CommCreate` |
| `MCCommCreate` | pairs of jobs that overlap in every way |
| `ProcMap`, `MCProcMap` | process maps, and the plans of programs that use them |
| `ProcMap_proofs` | theorems about `ProcMap` |
| `DataExchange`, `DataStream` | `send` and `receive`, and the stream they implement |
| `MCDataExchange` | the arrays of its instances |
| `DataExchange_proofs` | theorems about `DataExchange` |
| `Executor` | the loop of an execution group and its puppets |
| `MCExecutor` | the scripts its instances run |
| `Executor_proofs` | theorems about `Executor` |
| `Storage` | the storage example |
| `Storage_proofs` | theorems about `Storage` |

The modules meet in three places. `Scheduler` takes the creation of a job's
communicator for a collective wait (`AllEntered`); `JobComms` states that wait, and
`CommCreate` implements it with the messages of the code. `ProcMap` carries out
what `listen()` does around a job, `extend()` and `pop_back()`. `Storage` runs jobs on
what `Scheduler` is shown to give: free blocks, assignments in order, the first
answer ends the job.

### Scheduler

| Variables | Code |
|---|---|
| `jobs`, `nextId`, `active`, `results` | `jobs_`, `job_id_`, `active_jobs_`, `results_` |
| `available` | `available_procs_`, as the set of ranks whose entry is true |
| `popped` | what the script got from `pop()` |
| `ctl`, `cursor`, `current`, `posted` | where rank 0 is: the script (`body`), `check_for_complete_jobs` (`check`, `finishCheck`), the loop of `control()` (`dispatch`), the sending loop of `run_job` (`send`), `finish`, `signal_stop` (`stop`); its loop index, its job, and whether it is inside `MPI_Send` |
| `inbox`, `answers` | messages on their way, one sequence per sender and receiver |
| `pc`, `task` | where a worker is in `listen()`, and the assignment it carries out |
| `entered` | who has called `non_collective_comm_create` for a job |

| Action | Code |
|---|---|
| `Schedule`, `CallControl`, `FinishEarly`, `PopRest`, `Leave` | the controller's script, as in the examples: `"poll"` is `examples/simple/simple-sched.chai` (pops inside the loop), `"any"` pops now or after `finish()`, as `examples/intercomm/intercomm-sched.chai` does, `"early"` may call `finish()` at any time |
| `ReceiveAnswer`, `ProbeFails` | one turn, and the end, of the loop in `check_for_complete_jobs` |
| `RunJob`, `SendJob`, `SendJobReturns`, `ControlReturns` | `control()` and `run_job()`; each `MPI_Send` is two steps, so that it can block |
| `Finish`, `SendStop`, `SendStopReturns` | `finish()` and `signal_stop()` |
| `ReceiveJob`, `CommCreated`, `RunnerReturns`, `ReplyReturns`, `ReceiveStop` | `listen()` |

What is abstracted. A job's name, function, argument and groups are one element
of `Functions`: how many ranks it asks for, which of its ranks return a value,
and what the others return. Results are reduced to their kind, since only that
decides whether they are sent. `RunJob` uses what `find_available_procs` is
to find, the first block of free ranks (`FirstFit`); its one pass over the ranks is
`FindAvailableProcs`, and `ScanIsFirstFit` compares the two. A size of 0 is excluded
(`FunctionsAssumption`): the scan then stops at the first busy rank and the job is
started on no rank. Creating the communicator and extending
the process map is one wait until all ranks of the block have entered. Controller
ranks above 0 only hold an inbox (they never call `listen()`).

Messages. MPI keeps messages of one sender and receiver in order, so a channel
is a sequence, one per worker and direction. `MPI_Iprobe` may miss a message in
transit, so `ProbeFails` is always possible. `Buffered` says whether `MPI_Send`
returns at once or only when its message has been received; MPI allows both.

Properties of `Scheduler`:

* `ScanIsFirstFit`: the scan finds the lowest block of free ranks if there is any,
  whatever ranks earlier jobs have left free.
* `NoRankShared`: the blocks of active jobs and of the job being sent are
  disjoint, lie among the workers, and `available` is exactly the other workers.
* `OneJobWaiting`, `WaitingJobsActive`: although ranks are given away on the
  first answer, no worker ever has two assignments waiting and whatever waits
  belongs to a job still active. The reason is that nobody answers before all
  ranks of the job have created the communicator together.
* `JobsInOrder`: ranks take up jobs in the order of their ids, so jobs that share
  ranks never wait for each other in a cycle.
* `AnsweredOnce`, `CleanShutdown`: with one answering rank per job, each job
  started is answered exactly once (`AtMostOneAnswer`, and `NoJobForgotten`, which
  holds whoever answers) and nothing is in transit at the end.
* `JobServed`, `Termination`: each scheduled job is answered; everybody leaves.
* `ImplementsPool`, `ImplementsFairPool`: with one answering rank per job, the
  scheduler is a `JobPool`: jobs start in order on free ranks, complete once, and
  are popped in the order they complete.

### CommCreate

| Variables | Code |
|---|---|
| `jobs`, `job` | the blocks of ranks that are assigned, and the one a rank is in |
| `mergeSize`, `comm` | `merge_size` and `new_comm`, as the sequence of its ranks |
| `pc` | in `listen()`, in the loop, or in `MPI_Intercomm_create` |
| `mail` | what leaders send each other under the tag, by sender and receiver |
| `bridges` | what a leader has told the others of its side |
| `entered`, `created` | who has begun, and what each rank came back with (history) |

`Begin` is `listen()` taking up the next job; `Skip` a round without a partner;
`Meet`, `Hear` and `Follow` are `MPI_Intercomm_create` with `MPI_Intercomm_merge`: a
leader writes, takes the first message from the remote leader, and its side follows;
`Return` ends the loop. Messages carry job and round for `NoMixUp` only; the code
receives whatever comes first.

* `NoMixUp`: with one tag for all jobs and rounds, a waiting leader takes the message
  of its own round and job, although the other side may be rounds or a job ahead.
* `SidesAgree`: ranks of one communicator agree on its order in every round.
* `ImplementsComms`: nobody leaves before all ranks of the job have come, and all get
  the job's ranks in order. `Termination`: overlapping jobs do not block each other.

### ProcMap

| Variables | Code |
|---|---|
| `plan`, `todo` | the program: the division of its ranks, and the calls each rank has still to make |
| `levels` | `levels_` of each rank: world and local communicator, group map, color, group, cache |
| `waiting`, `refused` | ranks inside an MPI call; ranks whose `extend()` threw |

A call that involves several ranks is entered by each (`Enter`) and left by all
together when the last has come (`Extend`, `Connect`, `Free`, `PopBack`): the most an MPI
library may make them wait, so what cannot block here cannot block anywhere.
`Cached` is `intercomm()` that finds its answer in a level's cache, `Throw` is
`extend()` with sizes that do not add up. `ParseProcs` and `Divide` are
`parse_procs` and the division in `schedule()`; `GroupMap`, `Color` and `Group` are what
`extend()` computes from the sizes.

* `LayoutSound`: the group map agrees with what `MPI_Comm_split` made: sizes, leaders,
  every rank of the world in the range of exactly one group, and the color as an index
  into the procs.
* `SidesMatch`: what the cache of any level returns leads to the group asked for; its
  ranks have the same under the asking group's name, with the ranks in one order.
* `Termination`: all calls return, those of `pop_back()` included: both sides of a
  communicator free it at the same place of their own order.

`PlansAssumption` says what a plan may be. A group asks for other groups only, and for
groups that have ranks: `leader()` dereferences what `find()` returns unchecked, and for
a group without ranks it gives the leader of the next one. A group of a job may also ask
for what its outer group has asked for: it finds that in the cache of the level below.
No level has two groups of one name. Left out of the instances are a group of a job that
has the name of an outer group (the search through all levels then returns the outer
communicator; the theorems do not exclude it), and a job all of whose groups have a size
(the division divides by their number, zero).

### Storage

The ranks of the compute group (0 is the controller) and of the storage group, the
messages of `storage.cpp` and `compute.cpp`, and the controller of `storage.chai`. One
action per MPI call: `Request`, `TakeReply`, `TakePeer`, `MeetServer`, `FollowLeader`,
`ReceiveData`, `ReturnFromJob` in a job, `TakeRequest`, `TakeStop`, `TakeOrder`,
`MeetJob`, `HearJob`, `FollowServer`, `SendData`, `SendReturns` in the storage group,
`StartJob` and `SendStop` in the controller.

* `TotalsComplete`: a job's total is the sum of what all storage ranks sent it, over a
  connection no other job has, although all are created with one tag.
* `StopIsLast`: when the stop message is found nobody is left waiting for a reply, a
  connection or data.
* `Termination`: everybody leaves.

Requests, replies and the stop message are a few bytes and taken to be copied by
`MPI_Send` (the stop message is probed and never received, `storage.cpp:81`: an
`MPI_Send` that waits would keep the controller for ever); the data may be copied
or not. The controller takes a job for finished when any of its ranks returns, as
`Scheduler` does.

### DataExchange

| Variables | Code |
|---|---|
| `async` | the `-a` option, the same in both programs |
| `step` | the producer's steps: how often its loop called `send` |
| `spc`, `sidx` | where a producer rank is in `send.cpp`, and the index of its loop over `ranks` |
| `ready`, `sbcast` | the flag of `receiver_ready()` on rank 0, and its copies on the way to the other ranks |
| `rpc`, `ridx`, `stop`, `rbcast` | the same for `receive.cpp` and its stop flag |
| `net`, `requests` | messages with the data and stop tags, and with the request tag |
| `parts`, `got` | the buffers of the current step, and all steps received so far |

| Action | Code |
|---|---|
| `NextStep`, `CheckReady`, `Proceed`, `SendData`, `DataSent` | one call of `send` while the producer runs: `receiver_ready()` in asynchronous mode, then one `MPI_Send` for each partner rank |
| `StopCall`, `TakeRequest`, `SendStop`, `StopSent` | the call in which `henson_stop()` is set |
| `Loop`, `RequestSent`, `CheckStop`, `Obey`, `ReceiveData` | one turn of the loop of `receive`: request, look for the stop message, broadcast, receive a buffer from each partner |

A step's data is its number and a part of the producer's array, as the sequence of
its elements: `Part` divides an array as `send` does, and `Saved` puts the parts
together as `receive` does. Scalars are left out: each receiver keeps that of its last
sender. MPI keeps the order of messages with the same tag only, so the
probes select by tag from the channel. `MPI_Iprobe` may miss a message in
transit, except the one a preceding `MPI_Probe` returned. `Buffered` chooses
whether sends and the root of a broadcast return at once or wait for their
peers. What runs between two calls of `send`, or of `receive`, is not modelled:
the producer makes `Steps` steps, every rank the same number.

`DataStream` is the promise: receivers get steps in order, the same on every rank,
no step skipped (`Complete`, synchronous mode), and they close together once the
producer has stopped. `ImplementsStream` is the refinement.

* `SameStep`: asynchronous receivers never combine parts of two steps, although
  only rank 0 of the producer sees the requests.
* `Backpressure`: at most one step is on its way to receiver 0.
* `NothingLost`: at the end no data, request or flag is left behind, if the data was
  requested or `MPI_Send` waits (otherwise see `overtaking`).
* `WholeArrays`: the arrays saved of a step are together the producer's arrays, no
  element missing, doubled or out of place, for lengths that do not divide evenly.
* `AllReceived`, `Termination`: every step arrives; both groups end.

### Executor

| Variables | Code |
|---|---|
| `script`, `pos`, `phase` | the group's `ControlFlow`, flattened: a statement knows where its body ends; the statement to execute; the part of `main` |
| `revisit`, `stop` | `revisit`, `stop_execution` |
| `running`, `told`, `result` | `running_`, `stop_`, `result_` of each puppet |
| `left` | puppets whose destructor has not run |
| `yields` | a bound on how long the control puppet runs |
| `calls`, `revisits` | history that only the properties read: this turn's calls of statements, and those of its loop over `revisit`, each with the stop flag the puppet was continued with, whether its `main` returned, and (statements) its result after the call |

| Action | Code |
|---|---|
| `Statement` | `Executor::statement` with `exec`: note a starred puppet, tell it to stop, continue it, look whether the control puppet has returned, choose the next statement from its result |
| `Revisit` | one pass of the loop over `revisit`: `proceed()` alone, no stop flag is passed on and nobody looks whether the control puppet returned |
| `EndOfCommands`, `EndOfTurn`, `Finish` | the rest of the loop of `main` |
| `Destroy` | `~Puppet()`, in any order |
| `Yield`, `Return` (in these actions) | what a puppet does with control: yield in the middle of its main, or return 0 or an error |

Puppets are programs of others: any of them may yield or return at any call. Only
the control puppet is bounded, to `MaxYields` yields before it returns. The scripts
of `MCExecutor` have the shapes of `examples/`: a plain loop, bodies, a body in a
body with the control puppet at its head, starred statements before and after
the control puppet, and a starred control puppet.

* `LoopInOrder`: every turn calls its statements in order, each at most once, and
  calls a statement exactly if every body around it runs, that is, if the puppet
  before the body has the result 0 after its call. So a body that is entered runs to
  its end, and what decides on it is the result after this call. (Which may be one of an
  earlier run of `main`: that is what the code does.)
* `RestIsTold`: a statement tells its puppet to stop exactly if the control puppet
  has returned in a statement before it in this turn; a revisited puppet is told exactly
  if a statement of this turn has told it. So nobody is told too early, and the
  property also says who is not told: a starred puppet whose statement came before
  the return, which is revisited all the same, and everybody, if it is when revisited
  that the control puppet returns.
* `LastTurn`: no turn begins after one in which the control puppet returned in a
  statement; nor after one in which it returned when it was revisited, but only in
  scripts whose control puppet is not starred, which leaves out the case in which
  the code does begin another turn (see Findings).
* `NobodyAbandoned`: whoever is still in the middle of its main at the end has been
  told to stop and continued.
* `Termination`: the group ends, unless the control puppet is starred (see Findings).

### Runs

| Run | Instance | Shows |
|---|---|---|
| `service` | 4 ranks, 3 jobs, one answering rank anywhere in a block, "poll" | types, `AnsweredOnce`, `CleanShutdown`, refinement |
| `duplicates` | 5 ranks of which 2 controllers, 3 jobs, all ranks answer, "early" | resource safety and order under duplicate and unknown answers; the scan |
| `rendezvous` | 4 ranks, 3 jobs, ChaiScript runner, other ranks return booleans, "any", `MPI_Send` blocks | every job is served, termination, the pool's liveness |
| `comm_create` | 2 jobs on all pairs of blocks of 4 ranks, and of up to 6 ranks with an overlap of two | `NoMixUp`, `SidesAgree`, refinement of `JobComms`, termination |
| `procmap` | 3 groups that connect in every order, 4 in a ring, 2 levels with 3 jobs, groups without ranks, refused divisions | `LayoutSound`, `SidesMatch`, termination |
| `storage` | 2 storage ranks, 2 jobs of 2 ranks on 4 workers, data copied or not | `TotalsComplete`, `StopIsLast`, termination |
| `exchange_buffered` | 4 senders, 2 receivers, 2 steps, both modes, buffered | types, `SameStep`, `Backpressure`, `NothingLost`, `WholeArrays`, refinement of the stream |
| `exchange_blocking` | 2 senders, 4 receivers, 3 steps, both modes, blocking | `AllReceived`, `WholeArrays`, both groups end, refinement with skipped steps |
| `hwl_loop` | five scripts, 2 yields | order of calls, who is told to stop in statements and in the loop over `revisit`, the last turn, termination |
| `lostvalue` | 3 ranks, 2 jobs | finding: the run ends in a counterexample |
| `overtaking` | 1 sender, 1 receiver, 2 steps, buffered | finding |
| `division` | jobs with one group of given size and two without | finding |

The bounds: three workers hold two jobs side by side, or one of two ranks and a
rank to spare, so blocks of different places and sizes get reused in every
order; with three jobs a third one reuses ranks of two others, or of one whose
ranks are still busy. Two controllers distinguish rank 0 from the last rank that
is no worker. The theorems hold without these bounds. In `DataExchange` each side
has two ranks to every rank of the other in one of the runs, and both groups have a rank above
rank 0, so flags are broadcast; two steps let one rank be a step ahead of another
and a third lets an asynchronous step be skipped between two received ones. Two
yields give the control puppet a first, a middle and a last turn. The arrays have
`2 s + 1` elements on producer rank `s`, so they differ, and none is a multiple of the number of
receivers. Blocks of up to six ranks have three rounds, and groups whose last
communicator finds no partner in a round, or a smaller one; an overlap of two ranks lets a pair
go on to the second job while the first one's other ranks still merge. In `procmap`
three groups in every order, and four in a ring, are the smallest cases in which the order of freeing could close a
cycle; one group is divided in two with equal and with unequal shares, or empty. Four workers run two jobs of `storage` side by side or, on the same block, one
after the other.

Fairness. `FairSpec` assumes that rank 0 and each worker keep taking steps (MPI
progress, functions of jobs return) and that an answer is received if rank 0
probes again and again (`MPI_Iprobe` sees a message that has arrived). Nothing
forces a script to schedule or to finish early. In `DataExchange` every rank keeps
taking steps: both groups run their loops, and the producer stops after `Steps`
steps; no fairness is needed for `MPI_Iprobe`, since `TakeRequest` receives with a
blocking call. In `CommCreate` and `Storage` every rank keeps taking steps. In `ProcMap`
fairness is of `Next` as a whole: a plan has only so many calls, so some step
always being taken is enough for all to return. In `Executor` fairness says that `proceed()` comes back: puppets
yield or return.

## Proofs

Eight modules hold theorems, for all values of the constants. The assumptions are
those of the modelled modules: at least one controller rank, jobs ask for at least
one rank, a statement's body lies within its script, the sizes of two groups that
exchange data divide one another (both programs give up at once otherwise), a storage
group is not larger than the compute group has workers, and what `PlansAssumption` says
of the programs that use a process map.

| Theorem | States |
|---|---|
| `Scheduler_proofs`: `TypeCorrect`, `RanksNeverShared`, `AssignmentsInOrder`, `WaitingForActiveJob`, `AtMostOneWaits` | `TypeOK`, `NoRankShared`, `JobsInOrder`, `WaitingJobsActive`, `OneJobWaiting`: for every number of ranks, controllers and jobs, every set of functions (also where all or no ranks answer), all scripts, both kinds of `MPI_Send` |
| `Scheduler_proofs`: `LowestBlockFound` | `ScanIsFirstFit`, under the same assumptions |
| `Answers_proofs`: `NobodyForgotten` | `NoJobForgotten`, under the same assumptions |
| `Answers_proofs`: `ExactlyOnce`, `NoMessageLeft` | `AnsweredOnce`, `CleanShutdown`, if `OneReplier`: one rank of each job sends a result, at most |
| `Pool_proofs`: `ImplementsJobPool` | `ImplementsPool`, if `OneReplier` |
| `Executor_proofs`: `TypeCorrect`, `InTheOrderOfTheText`, `WhoIsTold`, `NobodyLeftBehind`, `NoTurnAfter` | `TypeOK`, `LoopInOrder`, `RestIsTold`, `NobodyAbandoned`, `LastTurn`: for every script and whatever puppets do |
| `CommCreate_proofs`: `TypeCorrect`, `NeverMixedUp`, `SidesAlwaysAgree`, `ImplementsTheWait` | `TypeOK`, `NoMixUp`, `SidesAgree`, `ImplementsComms`: for every number of ranks and jobs, all sizes of the blocks and all their overlaps |
| `DataExchange_proofs`: `TypeCorrect`, `NeverMixed`, `NeverAhead`, `NothingIsLost`, `AllAreReceived`, `ArraysAreWhole`, `ImplementsTheStream` | `TypeOK`, `SameStep`, `Backpressure`, `NothingLost`, `AllReceived`, `WholeArrays`, `ImplementsStream`: for all sizes of the groups, numbers of steps and lengths of arrays, both modes, calls that copy or wait |
| `Storage_proofs`: `EveryTotalIsComplete`, `StopComesLast` | `TotalsComplete`, `StopIsLast`: for every number of storage ranks, workers and jobs, data that is copied or not |
| `ProcMap_proofs`: `TypeCorrect`, `LayoutIsSound`, `SidesAlwaysMatch` | `TypeOK`, `LayoutSound`, `SidesMatch`: for every number of ranks, groups and jobs, worlds in any order and any calls for intercommunicators, if `NaturalSizes`: no group is given less than 0 ranks |
| `ProcMap_proofs`: `ParsedSizesAreNatural` | `parse_procs()` gives natural sizes if those on the command line are |

`Scheduler_proofs` has three layers, each inductive on top of the previous one.

1. `TypeInv` adds to `TypeOK` what the control state says of the loop variables:
   rank 0 has a current job exactly inside `run_job()`, and its index lies in the
   job's block.
2. `PoolInv` adds `IdsInOrder` (ids leave the queue in order, so the current job
   is newer than all active ones and `active_jobs_[id]` never overwrites an
   entry) and `OnlyWorkersAvailable`. `NoRankShared` is then inductive: an answer
   frees either the block of an active job, disjoint from all others, or, for an
   unknown job, rank 0 alone.
3. `FullInv` adds `MessageInv`: a waiting assignment belongs to the current or an
   active job of that rank; who entered a job was sent it, and everything that
   still waits for that rank is newer; an answer is only sent when the whole block
   has entered. When rank 0 receives the first answer of a job, none of its ranks
   still has the assignment waiting, so freeing the ranks is safe for the order of
   messages as well. `OneJobWaiting` follows: two waiting assignments would be two
   jobs, both current or active, whose blocks share the worker.

`Answers_proofs` goes on from `FullInv`.

4. `LogInv`: a job that has left the queue is being sent, active, or answered, and
   an answered one is neither of the others; `finish()` goes on to stop the workers
   only without active jobs. With `IdsInOrder` nothing is forgotten.
5. `SameAssignment`: the ranks of a job hold the same assignment, which is why they
   agree on who answers. `OnceInv`, under `OneReplier`: while the answering rank is
   in the job no answer of it is on its way or received, an answer is on its way
   once, and then not received. That alone is inductive only together with layer 3:
   a rank that takes up a job must find it unanswered, which holds since a job is
   answered after all its ranks have entered.
6. `StoppedOnce`: the stop message is the last one in an inbox, and who is gone has
   taken it. At the end the queue of active jobs is empty, so by layer 3 no
   assignment can wait, and by layer 5 no answer.

`Pool_proofs` maps every step: `Schedule` to `Submit`, `RunJob` to `StartFront` (the block
it found is free because `available` holds no rank of an active job),
`ReceiveAnswer` to `Complete` (by layers 4 and 5 the job of an answer on its way is
still active), a pop to `Take`, and everything else to a stutter; `SendJobReturns`
moves the job from `current` to `active`, which the pool does not tell apart. The
lemmas on `Mapped` carry `Append`, `Head` and `Tail` through the refinement mapping.

`LowestBlockFound` needs no invariant beyond the types. The scan is a recursive
function over the ranks that counts the free ones in a row; `RowFacts` says what the
count is, the distance to the last rank that is not free (`RowLength`, the smallest
element of a set and not a recursion), and `CountIsLength` shows by induction that the
scan computes it. A block is found at the first rank where the row is long enough, and
no block of free ranks can begin before that.

`Executor_proofs` has one invariant: `TypeOK`, `RestIsTold`, `StopNoted` (until the
puppets are destroyed, the stop flag is set exactly if the control puppet has returned in
a statement of this turn), `ToldNoted` (the puppets told are those a statement of this
turn has told), `StarredOnly` (only puppets of starred statements are revisited, and
only after the statements) and `GoneWereTold` (the destructor told whoever was in the
middle of its main). The two that note what the turn has done are needed because a new
turn forgets its history: it begins with nobody told. `LoopInOrder` has an invariant of its
own, `Order`: calls go onward in the text, what has been passed was called exactly if
the bodies around it run (`Decided`), and the bodies around the next statement do run
(`Inside`). It is inductive because bodies are nested: whoever jumps over a body
lands outside of every body that lies in it.

`CommCreate_proofs`. Who meets whom, and in which round, is settled by the block alone
(`Meets`), and two ranks meet at most once in a job: this is number theory about the
offsets of communicators in the block, for which the powers of two are taken as the
least set that holds 1 and is closed under doubling. The invariant then says of every
rank that its communicator is the one its place and round give (`Place`), of every two
leaders that exactly one message is under way for each job in which the one has
written and the other not heard, in the order of the jobs (`Mailbox`), and of all that
carries ranks that they have entered the job (`Entered`). `NoMixUp` follows: a leader
that waits has heard what was sent in earlier jobs, so the oldest message is that of its
own. The theorem on `JobComms` needs `Created` besides, and `Entered` for "all have come".

`DataExchange_proofs`. There is one log of the steps that are sent; rank 0 of the
producer extends it when it finds a request, or in synchronous mode it is all steps from
the beginning. Every sender is at some place of the log (`Cursor`), the flags on their way to it say what the
log has further on (`Flags`), a receiver has a prefix of it (`Received`), and a
channel holds exactly what its sender has given and its receiver not taken, with the
stop message behind it (`Channel`); requests and the log are counted against each
other in `Answered`. The invariant says that such a log and such places exist, so no
variable had to be added to the module for them. `WholeArrays` is arithmetic
about parts of arrays and blocks of ranks, and an induction over `FlattenSeq`
(`Regroup`): whoever flattens groups of sequences may flatten the sequences at once. In the
refinement `Produced` is the step of the rank that is furthest, and a receiver
that has left has as many steps as rank 0.

`Storage_proofs`. At any time the leader of a job and the storage leader are at one of
seven places of their dialog (`Entering` to `Linked`), which fix the messages between
them, and a worker that leads no job has none (`Quiet`). The storage leader deals with
one worker at a time: the steps of all others leave its dialog as it is
(`DialogSame`), and its own leave all other dialogs as they are (`DialogKept`).
`Clients` says that a job's connection is one that the storage group has too, or is about to
have; `Counts` that the orders are connected one after the other, and each one sent
its part before the next; `Parts` that only what was received is added up. A stop message is
sent when every job was answered, hence added up, hence connected: no leader
can then be asking.

`ProcMap_proofs`. But for its cache, a level is what rank and call make of it (`Made`),
and what a cache has under a name is what level and name make of it (`Shared`). The
invariant says this of all levels (`Stack`, `Entries`), and where in its programme a rank
is (`Come`): how many levels it has is decided by the calls it has made. Entries are
mutual in one direction only: a rank has one for another group as long as *all ranks of
that group* have one for its own (`Has`). That is inductive since both sides of a
communicator leave `Connect` and `Free` together, and since a level is popped with an
empty cache; that the ranks of a group are at the same call is not needed. Two facts carry it.
Inside a job a rank may ask for what its outer group asks for because it has asked before,
or else the name is a group of the job (`Asked`); and the ranks waiting in
`MPI_Intercomm_create` have no entry for the name on any level (`Inside`), so that none is
replaced. For `LayoutSound` nothing but `Stack` is needed: it is arithmetic on running
totals (`SideFacts`), where a group without ranks lies between two others with an empty
range, and the "repeatedly overwritten" loop of `extend()` passes it over
(`ColorAndGroup`). In `SidesMatch` the order of both sides in the merged communicator
is that of their first ranks, which differ (`LeadsDiffer`). `NaturalSizes` is what the
finding `division` violates: `schedule()` may give a group a negative size, and
`LayoutSound` is then false.

Induction. The library states induction over numbers and sequences with operators as parameters,
which the provers cannot instantiate. It is proved here for sets of numbers instead
(`Induction`, from the well-foundedness of `Nat`), which is enough for a recursive function
over an interval and for `FlattenSeq`.

Only model-checked: all liveness under fairness, which is beyond the prover, and with it
`ImplementsFairPool`. That `schedule()` gives natural sizes to a job all of whose groups
are left open is not proved (its sums are folds with operators as parameters); TLC
evaluates `NaturalSizes` on the plans of the instances. The invariants of the proofs were checked with TLC before they were
proved, where TLC can evaluate them (that of `DataExchange_proofs` quantifies over
all logs: its consequences were).

## Findings

* `lostvalue`: the ChaiScript runner keeps only booleans back. The undefined value
  of a function that returns nothing is serialized and sent by every rank, so the
  empty answer of a fast rank completes the job, and the value computed by another
  rank may arrive after the controller has stopped everybody; it is never popped.
* `overtaking`: `receive` waits for any message and then looks for the stop tag
  first. When MPI buffers the data of the last step, the stop message is found
  before it and that data is never received. (It does not happen in asynchronous
  mode, where `send` waits for the next request before it stops.)
* `division`: `schedule()` divides the size of the job, not what is left of it, among
  groups without a size. With a given group of 3 and two others on 4 ranks one gets
  2 ranks and the last one 1 - 2 = -1; the sum is right, so `extend()` accepts it.

More effects are modelled, without a run of their own.

* `check_for_complete_jobs()` queues every answer before it looks for the job, so
  with several answering ranks the script pops several results of one job;
  `doc/scheduler.md` says that only one of the answers will be accepted. `ExactlyOnce`
  needs `OneReplier` for this reason.
* An answer of a job that is no longer active marks rank 0 as available. Nothing
  comes of it, because `find_available_procs` starts at rank 1, which `NoRankShared`
  and its proof confirm.
* `README.md` of the repository (136-141) says that henson cycles through the
  coroutines until the controlling one terminates, that every remaining coroutine is
  then called once, and that `henson_stop()` tells a coroutine that the controlling
  one is done. The loop over `revisit` (`henson-hwl.cpp`, 304-308) departs from this
  twice, because it calls `proceed()` alone. In `StarredPuppet` of `MCExecutor`,
  when `sim` returns in the second statement, `io`, called before it, is revisited after
  it with `henson_stop()` still false; `RestIsTold` says exactly this of every such
  puppet, and that its destructor tells it in the end is `NobodyAbandoned`. In
  `StarredControl`, when `sim` yields in its statement and returns when it is revisited,
  `stop_execution` stays false, and the next turn calls its `main` again; `LastTurn`
  and `Termination` leave scripts with a starred control puppet out for this reason.
  `hwl_loop` reaches both.
* The result that decides on a body is the one of the puppet's last return: a puppet
  that returned 0 once and yields ever since has its body run on each call.
* Controller ranks above 0 are sent a stop message that nobody receives.

## Not modelled

* Name map (`data.hpp`): two maps used by one thread; each operation is one call of
  the standard library, and no order of calls is promised to work.
* HWL parser: a translation of text into the nested statements that `Executor` starts
  from, without state; the grammar is generated.
* Serialization, command lines, logging and clocks: straight-line code without state
  that a property here depends on.
* Registration with ChaiScript and Python, and the MPI wrappers: one forwarding
  function per operation.
* Loading of puppets (`dlopen`) and switching of stacks (libcoro): what they do is
  the step from one coroutine to the next in `Executor`.
* Third-party code under `src/ext/` (fmt, spdlog, pybind11, backward-cpp, ChaiScript, libcoro and others) and generated
  files (`restrict-world.c`, `hwl.hpp`). They are the bulk of the source tree, more than
  nine lines in ten; Henson's own code is about 6000 lines. The share of the whole tree that is
  mapped is small for this reason: the modules cover what of Henson's own code keeps
  state or exchanges messages, and a model of a formatting library would say
  nothing about it.

What is left to do: a composition of two execution groups with `send` and `receive`,
so that `henson_stop()` in `DataExchange` is the stop flag of `Executor`; what the division
of `schedule()` computes, for all groups.
