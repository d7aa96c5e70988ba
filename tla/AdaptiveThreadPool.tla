-------------------------- MODULE AdaptiveThreadPool --------------------------
(***************************************************************************)
(* AdaptiveThreadPool: a pool of WorkersPerCore job workers on each core.  *)
(* The constructor checks the configuration, creates queues and workers,   *)
(* gives every worker a queue, and starts the workers and a timer thread.  *)
(* addJob picks a worker by one of six policies; the timer keeps looking   *)
(* for the workers with the least jobs; the destructor stops the timer and *)
(* deletes the rest.  JobWorker and JobQueue are not in the repository:    *)
(* they are external, and modelled by what the pool asks of them.          *)
(*                                                                         *)
(* The six policies are three ways to pick from one of two scopes: the     *)
(* whole pool or the core of the calling thread.  Each of the members      *)
(* mNextGlobalJobWorker and mNextJobWorkerOnEachCoreArr, and likewise the  *)
(* two locks and the two mJobWorkerWithLeastJob, is one function here.     *)
(***************************************************************************)
EXTENDS Integers, FiniteSets

CONSTANTS
    CoreCount,         \* getCoreCount()
    MAX_WORKER_COUNT,
    Configs,           \* the configurations a pool may be constructed with
    MinPriority,       \* sched_get_priority_min and _max of the realtime
    MaxPriority,       \*   policies; both are 0 for THREADSCHED_DEFAULT
    Callers,           \* the threads that call addJob
    MaxCalls           \* bound: calls of addJob

Cores == 0 .. CoreCount - 1
Pool == -1                      \* the scope of the policies without SAME_CORE
Scopes == {Pool} \cup Cores

Config == [workersPerCore : Nat \ {0}, queueType : {"EXCLUSIVE", "SHARED"},
           queueShareFactor : Nat \ {0}, root : BOOLEAN, threadPriority : Int,
           schedulePolicy : {"DEFAULT", "WITH_SLICE", "NO_SLICE"}]

ASSUME PoolAssumption ==
    /\ CoreCount \in Nat \ {0} /\ MAX_WORKER_COUNT \in Nat
    /\ Configs \subseteq Config
    /\ MinPriority \in Nat /\ MaxPriority \in Nat /\ MinPriority <= MaxPriority
    /\ MaxCalls \in Nat

VARIABLES
    pool,             \* how far constructor and destructor are
    mConfig,
    mJobWorkerCount,
    mJobQueueCount,
    queueOf,          \* the queue assigned to mJobWorkerArr[i], for each i assigned to
    mNextJobWorker,   \* per scope
    mLock_Next,       \* per scope: the semaphore that guards it
    mLeast,           \* per scope: mJobWorkerWithLeastJob
    mTimerRun,
    timer,            \* the timer thread: pc, the scope and worker it is at, the least found
    jobs,             \* JobWorker::getJobCount() of each worker
    caller,           \* each caller: pc, scope of its policy, whichWorker
    calls,            \* history: the calls of addJob, for the bound
    picked            \* history: how often round robin picked each worker in a scope

statistics == <<mNextJobWorker, mLock_Next, mLeast>>
layout == <<mConfig, mJobWorkerCount, mJobQueueCount, queueOf>>
vars == <<pool, layout, statistics, mTimerRun, timer, jobs, caller, calls, picked>>

Workers == 0 .. mJobWorkerCount - 1

(* The workers of a scope are First(s) .. Limit(s) - 1.                    *)
First(s) == IF s = Pool THEN 0 ELSE s * mConfig.workersPerCore
Limit(s) == IF s = Pool THEN mJobWorkerCount ELSE (s + 1) * mConfig.workersPerCore
InScope(s) == First(s) .. Limit(s) - 1

-----------------------------------------------------------------------------
(* The constructor.                                                        *)

TimerAt(pc, s, at) == [pc |-> pc, scope |-> s, at |-> at, least |-> 0, worker |-> 0]
Idle == [pc |-> "idle", scope |-> Pool, worker |-> 0]

(* initializeStatistics, before the configuration is looked at.            *)
Init ==
    /\ pool = "new"
    /\ mConfig \in Configs
    /\ mJobWorkerCount = 0 /\ mJobQueueCount = 0
    /\ queueOf = << >>
    /\ mNextJobWorker = [s \in Scopes |-> IF s = Pool THEN 0 ELSE s * mConfig.workersPerCore]
    /\ mLeast = mNextJobWorker
    /\ mLock_Next = [s \in Scopes |-> 1]
    /\ mTimerRun = FALSE
    /\ timer = TimerAt("none", Pool, 0)
    /\ jobs = << >>
    /\ caller = [c \in Callers |-> Idle]
    /\ calls = 0
    /\ picked = [s \in Scopes |-> << >>]

(* Clamped to what the policy allows; the maximum of NO_SLICE is left to   *)
(* the timer thread.                                                       *)
Clamp(x, min, max) == IF x < min THEN min ELSE IF x > max THEN max ELSE x

(* Mutant of AdjustedPriority: nothing is left to the timer thread.        *)
AdjustedPriorityUnreserved(policy, priority) ==
    Clamp(priority, IF policy = "DEFAULT" THEN 0 ELSE MinPriority,
                    IF policy = "DEFAULT" THEN 0 ELSE MaxPriority)

AdjustedPriority(policy, priority) ==
    LET min == IF policy = "DEFAULT" THEN 0 ELSE MinPriority
        max == IF policy = "DEFAULT" THEN 0 ELSE MaxPriority
        clamped == Clamp(priority, min, max)
    IN  IF policy = "NO_SLICE" /\ clamped = max THEN Clamp(max - 2, min, max) ELSE clamped

QueueCount(workers) ==
    IF mConfig.queueType = "EXCLUSIVE" THEN workers
    ELSE (workers + mConfig.queueShareFactor - 1) \div mConfig.queueShareFactor

(* checkAndAjustConfig.  A legal configuration ends in the closing brace   *)
(* of a function that should return a value: what the constructor makes of *)
(* it is undefined.                                                        *)
CheckConfig ==
    LET workers == CoreCount * mConfig.workersPerCore
        legal == /\ workers <= MAX_WORKER_COUNT
                 /\ mConfig.schedulePolicy = "DEFAULT" \/ mConfig.root
    IN  /\ pool = "new"
        /\ mJobWorkerCount' = workers
        /\ \/ /\ ~legal
              /\ pool' = "failed"
              /\ UNCHANGED <<mConfig, mJobQueueCount>>
           \/ /\ legal
              /\ pool' \in {"checked", "failed"}
              /\ mConfig' = [mConfig EXCEPT !.threadPriority =
                                AdjustedPriority(mConfig.schedulePolicy, @)]
              /\ mJobQueueCount' = QueueCount(workers)
        /\ UNCHANGED <<queueOf, statistics, mTimerRun, timer, jobs, caller, calls, picked>>

(* Mutant of CreateAndAssign: every queue gets one worker only.            *)
CreateAndAssignOneEach ==
    /\ pool = "checked"
    /\ jobs' = [w \in Workers |-> 0]
    /\ picked' = [s \in Scopes |-> [w \in InScope(s) |-> 0]]
    /\ queueOf' = [i \in 0 .. mJobQueueCount - 1 |-> i]
    /\ pool' = "assigned"
    /\ UNCHANGED <<mConfig, mJobWorkerCount, mJobQueueCount, statistics, mTimerRun, timer, caller, calls>>

(* createJobQueues, createJobWorkers and assignQueuesToWorkers: the next   *)
(* queueShareFactor workers for each queue, whether they exist or not.     *)
CreateAndAssign ==
    /\ pool = "checked"
    /\ jobs' = [w \in Workers |-> 0]
    /\ picked' = [s \in Scopes |-> [w \in InScope(s) |-> 0]]
    /\ queueOf' = [i \in 0 .. mJobQueueCount * mConfig.queueShareFactor - 1 |->
                      i \div mConfig.queueShareFactor]
    /\ pool' = "assigned"
    /\ UNCHANGED <<mConfig, mJobWorkerCount, mJobQueueCount, statistics, mTimerRun, timer, caller, calls>>

(* JobWorker::start for each worker, and createTimer.                      *)
StartAll ==
    /\ pool = "assigned"
    /\ mTimerRun' = TRUE
    /\ timer' = [timer EXCEPT !.pc = "testing"]
    /\ pool' = "up"
    /\ UNCHANGED <<layout, statistics, jobs, caller, calls, picked>>

-----------------------------------------------------------------------------
(* The destructor, called when nobody is in addJob any more.               *)

StopTimer ==
    /\ pool = "up"
    /\ \A c \in Callers : caller[c].pc = "idle"
    /\ mTimerRun' = FALSE
    /\ pool' = "stopping"
    /\ UNCHANGED <<layout, statistics, timer, jobs, caller, calls, picked>>

(* Mutant of JoinAndDelete: the timer thread is not waited for.            *)
DeleteUnjoined ==
    /\ pool = "stopping"
    /\ pool' = "gone"
    /\ UNCHANGED <<layout, statistics, mTimerRun, timer, jobs, caller, calls, picked>>

JoinAndDelete ==
    /\ pool = "stopping"
    /\ timer.pc = "exited"
    /\ pool' = "gone"
    /\ UNCHANGED <<layout, statistics, mTimerRun, timer, jobs, caller, calls, picked>>

(* The constructor only prints that it failed.  Its owner will call addJob *)
(* or the destructor, which work on a thread and workers never created.    *)
UseUnbuilt ==
    /\ pool = "failed"
    /\ pool' = "undefined"
    /\ UNCHANGED <<layout, statistics, mTimerRun, timer, jobs, caller, calls, picked>>

-----------------------------------------------------------------------------
(* The timer thread: in each round it reads the job counts of the pool,    *)
(* then those of each core, one worker after the other, while jobs come    *)
(* and go.                                                                 *)

(* Mutant of TimerTests: mTimerRun is not looked at.                       *)
TimerTestsNothing ==
    /\ timer.pc = "testing"
    /\ timer' = [timer EXCEPT !.pc = "sleeping"]
    /\ UNCHANGED <<pool, layout, statistics, mTimerRun, jobs, caller, calls, picked>>

TimerTests ==
    /\ timer.pc = "testing"
    /\ timer' = [timer EXCEPT !.pc = IF mTimerRun THEN "sleeping" ELSE "exited"]
    /\ UNCHANGED <<pool, layout, statistics, mTimerRun, jobs, caller, calls, picked>>

TimerWakes ==
    /\ timer.pc = "sleeping"
    /\ timer' = TimerAt("reading", Pool, First(Pool))
    /\ UNCHANGED <<pool, layout, statistics, mTimerRun, jobs, caller, calls, picked>>

(* Mutant of TimerReads: the comparison is the wrong way round.            *)
TimerReadsMost ==
    /\ timer.pc = "reading" /\ timer.at < Limit(timer.scope)
    /\ timer' = IF timer.at = First(timer.scope) \/ jobs[timer.at] > timer.least
                THEN [timer EXCEPT !.at = @ + 1, !.least = jobs[timer.at], !.worker = timer.at]
                ELSE [timer EXCEPT !.at = @ + 1]
    /\ UNCHANGED <<pool, layout, statistics, mTimerRun, jobs, caller, calls, picked>>

TimerReads ==
    /\ timer.pc = "reading" /\ timer.at < Limit(timer.scope)
    /\ timer' = IF timer.at = First(timer.scope) \/ jobs[timer.at] < timer.least
                THEN [timer EXCEPT !.at = @ + 1, !.least = jobs[timer.at], !.worker = timer.at]
                ELSE [timer EXCEPT !.at = @ + 1]
    /\ UNCHANGED <<pool, layout, statistics, mTimerRun, jobs, caller, calls, picked>>

TimerPublishes ==
    /\ timer.pc = "reading" /\ timer.at = Limit(timer.scope)
    /\ mLeast' = [mLeast EXCEPT ![timer.scope] = timer.worker]
    /\ timer' = IF timer.scope + 1 < CoreCount
                THEN TimerAt("reading", timer.scope + 1, First(timer.scope + 1))
                ELSE TimerAt("testing", Pool, 0)
    /\ UNCHANGED <<pool, layout, mNextJobWorker, mLock_Next, mTimerRun, jobs, caller, calls, picked>>

Timer == TimerTests \/ TimerWakes \/ TimerReads \/ TimerPublishes

-----------------------------------------------------------------------------
(* addJob, by any thread, from any core.                                   *)

Calls(c, s, pc, worker) ==
    /\ pool = "up"
    /\ caller[c].pc = "idle" /\ calls < MaxCalls
    /\ caller' = [caller EXCEPT ![c] = [pc |-> pc, scope |-> s, worker |-> worker]]
    /\ calls' = calls + 1
    /\ UNCHANGED <<pool, layout, statistics, mTimerRun, timer, jobs, picked>>

(* JOB_ASSIGN_ROUND_ROBIN and JOB_ASSIGN_SAME_CORE_ROUND_ROBIN.            *)
CallRoundRobin(c, s) == Calls(c, s, "lock", 0)

(* JOB_ASSIGN_LEAST_JOBS and JOB_ASSIGN_SAME_CORE_LEAST_JOBS: the worker   *)
(* the timer found last, without a lock.                                   *)
CallLeastJobs(c, s) == Calls(c, s, "add", mLeast[s])

(* JOB_ASSIGN_RANDOM and JOB_ASSIGN_SAME_CORE_RANDOM.                      *)
CallRandom(c, s) == \E w \in InScope(s) : Calls(c, s, "add", w)

(* Mutant of LockNext: the semaphore starts so high that nobody waits.     *)
LockNextNoWait(c) ==
    /\ caller[c].pc = "lock"
    /\ caller' = [caller EXCEPT ![c].pc = "advance", ![c].worker = mNextJobWorker[caller[c].scope]]
    /\ UNCHANGED <<pool, layout, statistics, mTimerRun, timer, jobs, calls, picked>>

LockNext(c) ==
    LET s == caller[c].scope
    IN  /\ caller[c].pc = "lock"
        /\ mLock_Next[s] = 1
        /\ mLock_Next' = [mLock_Next EXCEPT ![s] = 0]
        /\ caller' = [caller EXCEPT ![c].pc = "advance", ![c].worker = mNextJobWorker[s]]
        /\ UNCHANGED <<pool, layout, mNextJobWorker, mLeast, mTimerRun, timer, jobs, calls, picked>>

(* Mutant of AdvanceNext: no wrap-around after the last worker.            *)
AdvanceNextNoWrap(c) ==
    LET s == caller[c].scope
        w == caller[c].worker
    IN  /\ caller[c].pc = "advance"
        /\ mNextJobWorker' = [mNextJobWorker EXCEPT ![s] = w + 1]
        /\ mLock_Next' = [mLock_Next EXCEPT ![s] = 1]
        /\ picked' = [picked EXCEPT ![s][w] = @ + 1]
        /\ caller' = [caller EXCEPT ![c].pc = "add"]
        /\ UNCHANGED <<pool, layout, mLeast, mTimerRun, timer, jobs, calls>>

(* The increment, the wrap-around and the post: the lock keeps the value   *)
(* between the first two, one past the last worker, from everybody else.   *)
AdvanceNext(c) ==
    LET s == caller[c].scope
        w == caller[c].worker
    IN  /\ caller[c].pc = "advance"
        /\ mNextJobWorker' = [mNextJobWorker EXCEPT ![s] = IF w + 1 = Limit(s) THEN First(s) ELSE w + 1]
        /\ mLock_Next' = [mLock_Next EXCEPT ![s] = 1]
        /\ picked' = [picked EXCEPT ![s][w] = @ + 1]
        /\ caller' = [caller EXCEPT ![c].pc = "add"]
        /\ UNCHANGED <<pool, layout, mLeast, mTimerRun, timer, jobs, calls>>

(* JobWorker::addJob takes the job or refuses it.                          *)
AddToWorker(c) ==
    /\ caller[c].pc = "add"
    /\ jobs' \in {jobs, [jobs EXCEPT ![caller[c].worker] = @ + 1]}
    /\ caller' = [caller EXCEPT ![c] = Idle]
    /\ UNCHANGED <<pool, layout, statistics, mTimerRun, timer, calls, picked>>

addJob(c) ==
    \/ \E s \in Scopes : CallRoundRobin(c, s) \/ CallLeastJobs(c, s) \/ CallRandom(c, s)
    \/ LockNext(c) \/ AdvanceNext(c) \/ AddToWorker(c)

(* A worker is done with a job.  It need not ever be.                      *)
WorkerDone(w) ==
    /\ pool \in {"up", "stopping"}
    /\ jobs[w] > 0
    /\ jobs' = [jobs EXCEPT ![w] = @ - 1]
    /\ UNCHANGED <<pool, layout, statistics, mTimerRun, timer, caller, calls, picked>>

Finished == pool \in {"undefined", "gone"} /\ UNCHANGED vars

Construct == CheckConfig \/ CreateAndAssign \/ StartAll

Next ==
    \/ Construct \/ StopTimer \/ JoinAndDelete \/ UseUnbuilt
    \/ Timer
    \/ \E c \in Callers : addJob(c)
    \/ \E w \in Workers : WorkerDone(w)
    \/ Finished

Spec == Init /\ [][Next]_vars

(* The constructor and the destructor, once called, go on, the timer       *)
(* thread is scheduled and its sleeps end.  Nothing is assumed of callers  *)
(* and workers.                                                            *)
Fairness == WF_vars(Construct) /\ WF_vars(JoinAndDelete) /\ WF_vars(Timer)

FairSpec == Spec /\ Fairness

-----------------------------------------------------------------------------
(* Properties.                                                             *)

Built == pool \in {"assigned", "up", "stopping"}

(* Every variable has its type, the arrays from when they are filled until *)
(* they are deleted: an assigned queue is one of those created, and        *)
(* whenever nobody is in the middle of advancing it, the index of a worker *)
(* that the pool keeps from one call to the next, the next one and the one *)
(* with the least jobs, is below MAX_WORKER_COUNT.  How far                *)
(* assignQueuesToWorkers gets in the array of workers is QueuesAssigned.   *)
TypeOK ==
    /\ pool \in {"new", "checked", "failed", "assigned", "up", "stopping", "gone", "undefined"}
    /\ mConfig \in Config
    /\ mJobWorkerCount \in Nat /\ mJobQueueCount \in Nat
    /\ mNextJobWorker \in [Scopes -> Nat] /\ mLeast \in [Scopes -> Nat]
    /\ mLock_Next \in [Scopes -> {0, 1}]
    /\ mTimerRun \in BOOLEAN
    /\ timer \in [pc : {"none", "testing", "sleeping", "reading", "exited"}, scope : Scopes,
                  at : Nat, least : Nat, worker : Nat]
    /\ DOMAIN picked = Scopes
    /\ Built => /\ jobs \in [Workers -> Nat]
                /\ \A s \in Scopes : picked[s] \in [InScope(s) -> Nat]
                /\ queueOf \in [0 .. mJobQueueCount * mConfig.queueShareFactor - 1 -> 0 .. mJobQueueCount - 1]
                /\ \A s \in Scopes : mNextJobWorker[s] < MAX_WORKER_COUNT /\ mLeast[s] < MAX_WORKER_COUNT
    /\ caller \in [Callers -> [pc : {"idle", "lock", "advance", "add"}, scope : Scopes,
                               worker : Nat]]
    /\ calls \in 0 .. MaxCalls

(* "Every mQueueShareFactor job workers share one same queue", and an      *)
(* exclusive queue "is only consumed by one job worker": every worker has  *)
(* a queue, every queue its workers, and no queue is given to a worker     *)
(* that does not exist (assignQueuesToWorkers).                            *)
QueuesAssigned ==
    Built => /\ DOMAIN queueOf = Workers
             /\ \A q \in 0 .. mJobQueueCount - 1 :
                   Cardinality({w \in Workers : queueOf[w] = q}) \in
                       1 .. (IF mConfig.queueType = "EXCLUSIVE" THEN 1 ELSE mConfig.queueShareFactor)

(* However many threads add jobs, round robin never favours a worker: in   *)
(* each scope no worker has been picked more than once more than another,  *)
(* and those ahead come first (the locks in addJob).                       *)
RoundRobinBalanced ==
    Built => \A s \in Scopes : \A v, w \in InScope(s) :
                 v < w => picked[s][v] - picked[s][w] \in {0, 1}

(* Every worker that addJob has picked, or the timer thread is about to    *)
(* read, exists, and is one of those the policy or the statistic asks for: *)
(* a SAME_CORE policy never picks a worker of another core (addJob,        *)
(* timer_thread_func, stopWorkers).                                        *)
PicksInScope ==
    /\ \A c \in Callers : caller[c].pc \in {"advance", "add"} =>
           pool = "up" /\ caller[c].worker \in InScope(caller[c].scope) \cap Workers
    /\ timer.pc = "reading" =>
           Built /\ timer.at \in First(timer.scope) .. Limit(timer.scope)

(* "The max priority in THREADSCHED_REALTIME_NO_SLICE is reserved for the  *)
(* timer thread": no worker gets it, unless there is no other, whatever    *)
(* priority was asked for (checkAndAjustConfig).                           *)
PriorityReserved ==
    Built /\ mConfig.schedulePolicy = "NO_SLICE" =>
        /\ mConfig.threadPriority \in MinPriority .. MaxPriority
        /\ MinPriority < MaxPriority => mConfig.threadPriority < MaxPriority

(* The statistics catch up: when no more jobs come and go, the workers     *)
(* that the timer thread names are ones with the least jobs, in the pool   *)
(* and on each core, unless the pool is destroyed first.                   *)
LeastJobsConverges ==
    \/ <>[](Built /\ \A s \in Scopes : \A w \in InScope(s) : jobs[mLeast[s]] <= jobs[w])
    \/ <>[](pool \in {"undefined", "gone", "failed"})

(* The destructor returns: the timer thread sees mTimerRun, whatever round *)
(* it is in (stopWorkers).                                                 *)
DestructorEnds == pool = "stopping" ~> pool = "gone"
=============================================================================
