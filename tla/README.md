# A verification project for Beginning_Linux_Programming

The repository is a collection of exercises. Its own core logic is one theme in
four variations - producers and consumers around a bounded queue, as threads,
as processes over shared memory, as processes over a kernel message queue, and
as clients and a server over sockets - and an unfinished thread pool. This
directory holds TLA+ models of the four variations and of the pool, TLC runs
that check them on small instances, and TLAPS proofs of every safety property of
the passing runs for every value of the parameters.

## Inventory

| Component | State | Operations | What makes it correct |
|---|---|---|---|
| `Queue<T>` (`Chapter12/Queue/Queue.h`, `Chapter14/SharedMemory/Queue/Queue.h`) | ring `m_arr`, `m_front`, `m_cur_count`, totals, three semaphores | `push`, `pop` (timed), report | counters consistent, no token lost, FIFO, nothing torn |
| `ScheduledObject`, `Producer`, `Consumer` | thread, `m_run`, `m_next_item_id`, saved item | constructor (starts the thread), `run`, `work`, destructor (stops and joins) | every item pushed once, destructor ends |
| `Chapter12/Sim` main | arrays of objects, queues | create, sleep, delete producers, drain, delete consumers, delete queue | nothing freed while used, report exact, termination |
| `Chapter14/*/Sim/ProducerConsumerSim.cpp` | child pids | create queue, fork/exec twice, wait twice, clean up | cleans up last, once, whatever fails |
| `Chapter14/MessageQueue` | kernel queue and its name, descriptors, counts | open, timed send and receive, close, unlink | runs do not see each other's items, reports right, ends |
| `Chapter14/SharedMemory` | region and its name, the queue in it | attach, work, detach, unlink | final report, region freed |
| `Chapter15` server and clients | sockets, epoll set, byte streams | connect, write, accept, recv, close | framing, no descriptor confusion or leak, all items checked |
| `Chapter15/Common/WorkItem.h` | data, checksum | generate, validate | which corruptions are noticed |
| `AdaptiveThreadPool` | configuration, queue and worker arrays, statistics, timer | configure, assign queues, add a job by six policies, stop | indices in range, every worker has a queue, round robin fair |
| `Chapter03/dir.c` | working directory | recursive scan | comes back to where it was |
| `Chapter10`, chapters 1, 2, 4, 8 | - | stubs, straight-line programs, data | nothing to check |

Interaction: threads meet in the semaphores and counters of `Queue`; `main` and
a thread meet in `m_run` and `pthread_join`; processes meet in names
(`mq_open`, `shm_open`), in the objects behind them and in `waitpid`; clients
and server meet in byte streams. What is hard to test is in `PROJECT.json` under
`hazards`: the copies outside `m_lock`, time-outs racing tokens, joining a
thread that waits, reports read while others still run, a failed `exec` that
leaves a second coordinator, names removed while others need them, processes
killed with the shared lock in their hands, streams that arrive in pieces or
changed, descriptors reused within one batch of events, statistics read without
a lock, a pool deleted under its timer thread.

## Modules

| Module | Models |
|---|---|
| `FifoQueue` | what a bounded queue promises: the abstract specification |
| `Queue` | `push` and `pop` step by step, for any sets of producers and consumers |
| `MCQueue` | `Queue` with a bound on the number of pushes |
| `Workers` | `ScheduledObject`, `Producer`, `Consumer` around `Queue` (extends it) |
| `ProducerConsumerSim` | `main` of Chapter12 around `Workers` |
| `Coordinator` | fork, exec, wait of both Chapter14 coordinators, `itoa`, killed workers |
| `MessageQueueSim` | Chapter14/MessageQueue (extends `Coordinator`) |
| `SharedMemSim` | Chapter14/SharedMemory (extends `Workers` and `Coordinator`) |
| `SocketServer` | server and clients of Chapter15 |
| `WorkItem` | the checksum of Chapter15, from the client through the network to the server |
| `AdaptiveThreadPool` | the thread pool: construction, `addJob`, timer thread, destruction |
| `MCAdaptiveThreadPool` | the configurations of the pool that are checked |
| `Queue_proofs`, `Queue_fifo_proofs` | proofs about `Queue` |
| `Sim_proofs`, `MessageQueue_proofs`, `SharedMem_proofs`, `Socket_proofs`, `WorkItem_proofs`, `Pool_proofs` | proofs about the module they extend |

Variables keep the names of the members they model. Beyond those there are
program counters (`ppc`, `cpc`, `thread`, `proc`, `work`, `main`), the local
variables that live across steps (`pslot`, `pcount`, `cslot`, `ccount`, `arg`)
and histories used only by properties (`sent`, `received`, `moved`, `checked`).
Operators whose comment begins "Mutant of" are deliberately wrong versions of
the definition that follows them; no specification uses them.

**Queue.** A call goes through `idle, timedwait, lock, crit, copy, post`. The
timed wait ends with a token or, if there is none, with a time-out. `sem_wait`
on `m_lock` is merged with the reads that follow it and `sem_post` with the
writes before it; what was read is kept (`pcount`, `ccount`, `cslot`) and used
for the write, so that a lost update would show. Among threads nobody sees what
lies between the merged steps; a process killed there is part of `SharedMemSim`.
The copy of the item happens
after the lock is released, as in the code, and a copy that overlaps another
access of the same slot may yield neither item (`Garbage`).

**Workers, ProducerConsumerSim.** `m_saved_work_item` is `push`'s argument
`arg`. `Stop` and `Join` are the two halves of `~ScheduledObject`. `main`'s
sleeps may end at any time: no property relies on a duration, except that the
thread's `sleep(2)` outlasts the constructors. The cores share nothing, so one
core stands for all.

**Coordinator.** `execl` returns only on failure and there is no `_exit` after
it, so the child continues in `main` as a second coordinator (`p_clone`,
`c_clone`, and `pc_clone` for the child of the first). `Failures` says whether
the coordinator's `mq_open` or `shm_open`, fork and exec may fail and workers may
be killed, and `MaxFailures` bounds how often. The id of a run reaches the workers through `itoa`, the command line and
`atoi`; `Itoa` builds the digits from the lowest on and turns them round, as the
code does, and a worker finds the queue or the region only if its id is right:
the digits are there because a wrong conversion is a way to lose the queue.

**MessageQueueSim.** The name denotes the queue object of some run or nothing;
an object outlives its name as long as a descriptor is open. `Close` (mq_close
and the printed count) precedes `Stop`, as the derived destructor runs first.
A call that is already in the kernel when the descriptor is closed goes on; one
that is not fails. With a process, whether it ends or is killed, its thread, its
memory and its descriptors go. The thread's first `sleep(2)` has no step of its
own: a thread that sleeps is one that has not moved yet.

**SharedMemSim.** Each worker attaches by name or exits; each of them and the
coordinator unlink the name at the end; the coordinator and its clones report.
A killed worker stops where it is, in the middle of `push` or `pop` too, and the
region stays as it left it: semaphores in shared memory are not released when
their holder dies. A worker killed inside the critical section has made any of
its stores to the counters (`HalfPush`, `HalfPop`). One killed while it copies an
item into its slot may leave the slot torn; that is not told apart from a slot
not written, since the token for it is never posted and nobody reads it.

**SocketServer.** An item is `ItemSize` units of a stream, which arrive one at
a time. `recv` takes a whole item, or a part and closes, or sees the end and
closes. The events of one `epoll_wait` are worked through one by one while
clients go on; each event remembers the client it was reported for.
`WORK_TIMES_TO_CHECK_TIME` is scaled down. A write waits for room for all of its
item: the part of an item that a blocked write has stored is, for the server, a
part that has arrived of an item written as a whole. A write to a connection the server
closed may succeed for a while; then SIGPIPE ends the client.

**WorkItem.** A word is the set of its one bits, so that exclusive or is
symmetric difference and the width is a parameter. The loop, the rotation and
the folding into half a word are separate operators. On the way any set of up to
`MaxErrors` bits of data and checksum changes.

**AdaptiveThreadPool.** The code does not compile; where it does not, it is read
as it is evidently meant (`getQueueShareFactor` called, `mJobWorkerCount` and
`workersPerCore` of the pool in the timer thread, the member in `mStatCtrl`).
What is legal but undefined stays undefined: `checkAndAjustConfig` ends without
a return, so that a legal configuration may be taken for a bad one. The six
policies are three ways to pick a worker (round robin, least jobs, random) in
one of two scopes (the pool, the core of the caller), and each pair of members
(`mNextGlobalJobWorker`, `mNextJobWorkerOnEachCoreArr`, and so on) is one
function of the scope. The timer thread reads one job count per step. The pool
is destroyed at any time when no thread is in `addJob`. `JobWorker` is external:
it takes or refuses a job, and may or may not finish it.

## Runs

| Run | Shows |
|---|---|
| `queue_spsc` | 1 and 1, 2 slots, 6 pushes (three times round the ring): no race, FIFO, delivery, refinement of `FifoQueue` |
| `queue_mpsc` | 2 producers, 1 consumer: **violated**, pop hands out what nobody stored |
| `sim_2p2c` | 2 producers, 2 consumers, 2 slots, 3 items: lock, tokens, counters, deletion, report, items, termination |
| `mq_runs` | 2 runs in a row; one open, fork or exec fails or one worker is killed, anywhere: reports, order, what the runs see of each other, who loses the queue, termination |
| `mq_unlink` | exec may fail: **violated**, queue unlinked before the producer opened it |
| `shm_runs` | `shm_open`, fork and exec may fail, workers may be killed or late: reports, order, region freed, refinement of `Queue` |
| `shm_attach` | nothing fails: **violated**, a late worker cannot attach |
| `socket_clients` | 3 clients, 2 descriptors, 1 or 2 items each: framing, fresh events, items lost only with a connection the server dropped, every client accepted and released |
| `socket_checked` | 1 client: **violated**, items are dropped when they arrive in pieces |
| `workitem_checksum` | 2 words of 4 bits, up to 4 changed bits: exactly the errors that cancel out are missed |
| `pool_jobs` | 2 cores, 5 configurations, 2 callers, 3 jobs: queues, round robin, picks, priority, statistics, destruction |
| `pool_config` | share factors 1 to 3: **violated**, queues assigned to workers that do not exist |

The five violations are described, with the lines they contradict, under
`findings` in `PROJECT.json`.

What the failures can do, by `mq_runs` and `shm_runs`. Over the message queue a
consumer gets an item of another run only if a fork failed in one of the two
runs (the coordinator then leaves its queue, or its worker, behind); a worker
misses its queue only if a clone of a coordinator removed it, or its own
coordinator failed; and everything ends whoever is killed. Over shared memory
the same holds with one exception: a worker killed between `sem_wait` and
`sem_post` of `m_lock` leaves the lock taken for good, and the other worker, and
with it the coordinator, may hang in a `sem_wait` without a timeout.
`RegionFreed` says that this is the only way to hang; for its sake `shm_runs`
does not count the hanging processes as a deadlock.

*Bounds.* Two threads of a kind are enough for every pairwise interleaving, and
a third slot or thread adds no new pair; 6 pushes on 2 slots wrap the ring
three times. Three items for two slots and two consumers make full and empty
queues, hence time-outs, in `sim_2p2c`. Two runs are the least in which one can
leave something for the next. In `mq_runs` the queue holds two messages, the
least that can come out in the wrong order, and a producer cooks three items in
the first run, so that a consumer also gets two between which one was dropped;
one item in the second run is enough to meet what the first has left. `MaxFailures` is 1 in `mq_runs`: one failure and its
consequences in both runs; in `shm_runs` it is 3, which includes a clone of a
clone and a killed worker beside one. The id 120 has digits that differ when
turned round, and a zero. Three clients and two descriptors are the least in
which `accept` can run out while two connections share a batch of events. Items
of two units can arrive in part, and a buffer of an item and a half lets parts
of two items meet. A client looks at its clock after every item in that run, so
that one that waits in the backlog may have disconnected already, or be blocked
in the write of its second item until it is accepted. Words of four bits are the least in which the bits of the two
halves, the rotation and the folding differ; four errors make pairs of pairs.
Two cores with two workers each, or with one each on a shared queue, are the
least with an order among the workers of a core and between cores; two more
configurations are refused, and two ask for priorities above and below the range
8 .. 9, in which the highest less two is below the lowest. Three jobs wrap a core's round robin around.
`MaxPush`, `Items`, `MaxItems`, `MaxLater`, `NumRuns`, `MaxCalls` and `MaxErrors` bound what
the code leaves open; a producer out of items simply stays in its loop until it
is stopped.

*Fairness.* Weak fairness of every thread and process: the system schedules
them (with SCHED_RR on core 0 this presumes that the threads of equal priority
take turns, which RR does). Timed waits and sleeps end. Strong fairness of
taking `m_lock`: a waiter sleeps on the futex that each `sem_post` wakes, and
others keep taking the lock in between. Delivery of what was written to a
socket. The clients' clock runs out. The timer thread of the pool is scheduled
and its sleeps end; nothing is assumed of the threads that add jobs or of the
workers. Nobody is obliged to kill or to fail. Nothing else is assumed; in
particular no lower bound on any sleep of `main`.

## Proofs

Every invariant and every action property that a passing run checks is also a
theorem; `PROJECT.json` lists them under `theorems`. The runs show the
properties on small instances, the theorems for every value of the constants
that satisfies the named assumptions of the modules. Each inductive invariant
was first checked by TLC on the instance of the run.

**`Queue_proofs`**, for any finite sets of producers and consumers and any
`Size > 0` (`QueueAssumption`): `TypeOK`, `MutualExclusion`,
`TokenConservation`, `CountersAgree`, `CountIsTokens`. The last four are not
inductive one by one: `CountersAgree` needs that a push that holds a token finds
a free slot, which needs the tokens, which need the lock. The inductive
invariant `Accounting` is their conjunction. The threads at a stage of a call
are counted with `Cardinality`; `PushersMove` and `PoppersMove` say how the
counts change when one thread moves, and every action is then arithmetic.

**`Queue_fifo_proofs`**: `NoSlotRace`, `FifoOrder` and that `Queue` implements
`FifoQueue`, with one producer and one consumer. The invariant is that the slots
behind `m_front` hold exactly the items stored and not yet handed out
(`WindowHolds`), with the two threads' slots at its two ends; that these differ
follows from `TokenConservation` and injectivity of `% Size` on a window. The
steps are stated for one producer and one consumer *at work* (`OneAtWork`), so
that they also serve where further consumers exist and are idle. With two
threads of a kind at work the properties are false: run `queue_mpsc`.

**`Sim_proofs`**, for any number of threads: the simulation implements `Queue`
(so that the theorems about `Queue` carry over), `SimTypeOK`,
`NoUseAfterDelete`, `ReportIsExact`, `NothingPushedAfterProducers` and
`EachItemOnce`. The invariant `Lifecycle` ties calls in progress to looping
threads and `main`'s progress to joined ones; the action property follows from
it, since storing an item needs a producer that is not joined. `ItemsInv` says
of each producer that what it stored is exactly its ids up to the one it is
about to store, in order. `EachItemOnce` has the hypothesis `StrideSuffices`: no
producer cooks so many items that it reaches the ids of the next. The code
checks this nowhere; with 300000 ids for each producer it holds in every
simulation of a reasonable length, and the bound on `Items` provides it in
`sim_2p2c`.

**`MessageQueue_proofs`**, for any number of runs, items and failures, whoever
fails or is killed: `TypeOK`, `ReportOffByOneAtMost`, `DeliveredInOrder`,
`StaleOnlyAfterFailedFork`, `QueueLostOnlyToClone`. `MqInv` is common to all. Its part
`Family` relates the states of the seven processes a run can have: a worker and
the clone a failed exec makes in its place exclude each other, and a coordinator
is past a `waitpid` only if that child has ended. `InTurn` says that a run
begins when the one before has ended, and `Reports` how count, report and calls
of a worker hang together. On top of it

- `InOrder`: whatever a producer has in a queue, or a consumer has of it, has a
  smaller id than what it sends next; its messages are in one queue only, in
  order, and behind those already received;
- `KeptApart`: a queue that a worker has open, and every message in a queue, is
  *apart* from all earlier and later runs in which no fork failed. The key fact
  is that a run whose coordinators all got through leaves the name removed or
  taken by a later run (`MainEnds`), and that it waits for all its workers
  before that (`RunOver`);
- `Named`: while a coordinator is at it and no clone has existed so far, the
  name exists. `QueueLostOnlyToClone` follows under the hypothesis
  `WorkerId = Id`: the id reaches the workers unchanged. That `Itoa` followed by
  `Atoi` is the identity is an induction over the digits, which is out of the
  prover's reach; TLC evaluates it for the id of the run, and the mutant of
  `Itoa` shows that the property depends on it.

**`SharedMem_proofs`**, for any queue size and any number of failures:
`ImplementsQueue`, `ShmTypeOK`, `FinalReport`, `FifoOrder`. The refinement
mapping `Whole` is the identity but for the counters after a kill inside the
critical section: there it takes back the stores that the killed worker made,
from what it had loaded under the lock (`pcount`, `ccount`, `cslot`). Such a kill
is then a stutter of `Queue` (`KillIsStutter`), and since `m_lock` stays taken
nobody loads or stores the counters afterwards (`Torn`), so that every later step
is the same in `Queue` as in the region. Without the mapping the claim is false:
between `++m_cur_count` and `++m_pushed_count` a kill leaves counters that
disagree for good, and only `report` reads them. The theorems about `Queue` are
used through the instance `W`. `ShmInv` has the relations between the
processes of the run as above, `Life` (a call in progress belongs to a running
or a killed process) and `LastWord` (the report equals the counters once it is
made). `FinalReport` then counts: after the report only killed workers are
inside a call, so that each counter is off by at most their number, by
`Accounting` of the mapped queue. The clones exist in place of the producer or of
the consumer, so that what they report as popped is nothing. `FifoOrder` is not
an instance of the theorem for one consumer, as a clone of the coordinator may
start a second one. But the clone exists only in place of the producer: without
a clone the second consumer never works and the pipeline invariant of
`Queue_fifo_proofs` holds; with one there is no producer and nothing was ever
stored.

**`Socket_proofs`**, for any number of clients and descriptors and any sizes
(`SocketAssumption`; the one condition with content is that a socket buffer
holds at least one item): `TypeOK`, `EventsFresh`, `Framing`,
`OnlyDroppedLoseItems`. `SocketInv` says that a client is in one place only (one
descriptor or one place of the backlog) and that each descriptor has at most one
event left in the batch: the server closes only the descriptor of the event at
hand, so that no later event of the batch can meet a reused descriptor. For the
items, `Boundaries` says that the stream of a client that was not dropped holds
exactly the whole items after those validated; a read of a whole item then takes
the next one. `Drained` adds that a connection that is over and was not dropped
ended with its stream.

**`WorkItem_proofs`**, for any number and width of words, any pattern and any
errors: `TypeOK`, and `DetectsAllButCancelling`, which states exactly which
errors `validate` misses. The loop invariant is that a bit of `result` is one if
an odd number of the words so far have it; parities of unions of disjoint sets
do the rest.

**`Pool_proofs`**, for any number of cores, configurations and callers:
`TypeOK`, `PicksInScope`, `RoundRobinBalanced`, `PriorityReserved`,
`QueuesAssigned`. `PoolInv` has the ranges of the indices that are kept from one
call or round to the next, among them those the timer thread publishes without a
lock; the index with which `assignQueuesToWorkers` runs over the workers is not
bounded by it. `Given` says which queues that function has given to whom. For round robin, `Rounds` says that the
workers before the next one have been picked once more than the others, and
`OneAdvances` that the semaphore of a scope lets one caller at a time move on.
`QueuesAssigned` has the hypothesis `ExactShares` (the share factor is 1 for
exclusive queues and divides the number of workers for shared ones), which is
exactly what the code does not check: without it the property is false, as run
`pool_config` shows.

Only model-checked:

- Liveness (`EveryItemDelivered`, `Terminates`, `EveryRunEnds`, `RegionFreed`,
  `ClientsReleased`, `LeastJobsConverges`, `DestructorEnds`): it needs fairness
  and `ENABLED`, which the prover does not handle.
- `Itoa` and `Atoi`, see above.
- The five properties that are expected to be violated.

## The plan from here

What is left is to state more, not to prove what is stated: the refinement of
`FifoQueue`, not only of `Queue`, by the shared memory simulation (its `FifoOrder` is proved, the step
simulation is that of `Queue_fifo_proofs` with the same case distinction); and
for `RegionFreed`, the safety half of its argument, that processes hang only
after a worker was killed with `m_lock` in its hands.

## Not modelled

- `cancelJobs`, `pause` and `resume` of the thread pool, which are declared and
  nowhere defined, and `JobQueue` and `JobWorker`, of which there is no source.
- A `ScheduledObject` whose thread overtakes its constructor: the thread would
  call the base class's `work` or read uninitialised members, and the code relies
  on `sleep(2)` against that. The models take it to be long enough.
- A second run over shared memory under the id of one that is going on: it
  truncates the region under the other's feet. Nothing in the code guards
  against it and no defined behaviour is left to check.
- `dir.c`: one process, one recursive scan; its only state is the working
  directory, and what it does there depends on the file system alone.
- Option parsing, printing, makefiles and run scripts, binaries and index files;
  `Chapter10`, whose `serialize` and `deserialize` are empty; the
  single-system-call exercises of chapters 1, 2, 3, 4 and 8.
- Scheduling policies and CPU affinity (`set_scheduler`), which enter only
  through fairness; of the pool's policy and priority only the adjustment of the
  configuration is modelled.
- Failing `sem_init`, `mmap`, `bind` and name lookup, which end the program at
  once, and an `mq_open` or `shm_open` of a worker that fails although the name
  is there: the worker does as if the name were gone. Signed overflow of the totals in `Queue`: only the printed report depends
  on them. Core numbers of more than three digits, which do not fit `core_str`.
