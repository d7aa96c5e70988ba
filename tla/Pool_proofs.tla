----------------------------- MODULE Pool_proofs -----------------------------
(***************************************************************************)
(* The thread pool, for any number of cores, workers and callers: where    *)
(* the indices into the arrays of workers stay, and that the locks make    *)
(* round robin fair among the workers.                                     *)
(***************************************************************************)
EXTENDS AdaptiveThreadPool, FiniteSetTheorems, TLAPS

TimerStates ==
    [pc : {"none", "testing", "sleeping", "reading", "exited"}, scope : Scopes,
     at : Nat, least : Nat, worker : Nat]

CallerStates == [pc : {"idle", "lock", "advance", "add"}, scope : Scopes, worker : Nat]

(* The types that do not depend on how far the pool is.                    *)
Typing ==
    /\ pool \in {"new", "checked", "failed", "assigned", "up", "stopping", "gone", "undefined"}
    /\ mConfig \in Config
    /\ mJobWorkerCount \in Nat /\ mJobQueueCount \in Nat
    /\ mNextJobWorker \in [Scopes -> Nat] /\ mLeast \in [Scopes -> Nat]
    /\ mLock_Next \in [Scopes -> {0, 1}]
    /\ mTimerRun \in BOOLEAN
    /\ timer \in TimerStates
    /\ caller \in [Callers -> CallerStates]
    /\ calls \in 0 .. MaxCalls
    /\ picked = [s \in Scopes |-> picked[s]]
    /\ Built => /\ jobs \in [Workers -> Nat]
                /\ \A s \in Scopes : picked[s] \in [InScope(s) -> Nat]

(* There are as many workers as the configuration asks for, and an index   *)
(* into the workers of a scope is one of them; before there are workers it *)
(* is that of the first.                                                   *)
Ranges ==
    /\ pool = "new" => mJobWorkerCount = 0
    /\ pool # "new" => mJobWorkerCount = CoreCount * mConfig.workersPerCore
    /\ pool = "checked" \/ Built => mJobWorkerCount <= MAX_WORKER_COUNT
    /\ \A s \in Scopes :
          /\ pool \in {"new", "checked"} => mNextJobWorker[s] = First(s) /\ mLeast[s] = First(s)
          /\ pool # "new" => mNextJobWorker[s] \in InScope(s) /\ mLeast[s] \in InScope(s)

(* A call of addJob is in progress, and the timer thread is running, only  *)
(* while there are workers; what they have picked or are about to read is  *)
(* in their scope, and the timer has a worker to name after the first.     *)
Activity ==
    /\ \A c \in Callers :
          /\ caller[c].pc # "idle" => pool = "up"
          /\ caller[c].pc \in {"advance", "add"} => caller[c].worker \in InScope(caller[c].scope)
    /\ timer.pc \in {"testing", "sleeping", "reading"} => pool \in {"up", "stopping"}
    /\ timer.pc = "reading" =>
          /\ timer.at \in First(timer.scope) .. Limit(timer.scope)
          /\ timer.at # First(timer.scope) => timer.worker \in InScope(timer.scope)

PoolInv == Typing /\ Ranges /\ Activity

(* At most one caller is between the lock and its release in a scope, and  *)
(* it holds the worker to be picked next.                                  *)
OneAdvances ==
    /\ \A c \in Callers : caller[c].pc = "advance" =>
          /\ mLock_Next[caller[c].scope] = 0
          /\ caller[c].worker = mNextJobWorker[caller[c].scope]
    /\ \A c, d \in Callers :
          caller[c].pc = "advance" /\ caller[d].pc = "advance" /\ caller[c].scope = caller[d].scope => c = d

(* The workers before the one to be picked next have been picked once more *)
(* than the others, all of which have been picked as often as the last.    *)
Rounds ==
    Built => \A s \in Scopes : \A w \in InScope(s) :
                 picked[s][w] = picked[s][Limit(s) - 1] + (IF w < mNextJobWorker[s] THEN 1 ELSE 0)

RoundsInv == OneAdvances /\ Rounds

-----------------------------------------------------------------------------
(* The workers of the cores lie one after the other, and there are some on *)
(* each.                                                                   *)
LEMMA CoreRange ==
    ASSUME NEW n \in Nat \ {0}, NEW k \in Nat \ {0}, NEW s \in 0 .. k - 1
    PROVE  s * n \in Nat /\ (s + 1) * n \in Nat /\ s * n < (s + 1) * n /\ (s + 1) * n <= k * n
  <1>1. s * n \in Nat /\ (s + 1) * n = s * n + n
    OBVIOUS
  <1>2. PICK d \in Nat : k = (s + 1) + d
    <2>1. k - (s + 1) \in Nat /\ k = (s + 1) + (k - (s + 1))
      OBVIOUS
    <2>2. QED
      BY <2>1
  <1>3. d * n \in Nat /\ k * n = (s + 1) * n + d * n
    BY <1>2
  <1>4. QED
    BY <1>1, <1>3

(* The same for a scope of a pool with n workers on each core.             *)
LEMMA ScopeBounds ==
    ASSUME NEW n \in Nat \ {0}, NEW s \in Scopes
    PROVE  LET first == IF s = Pool THEN 0 ELSE s * n
               limit == IF s = Pool THEN CoreCount * n ELSE (s + 1) * n
           IN  first \in Nat /\ limit \in Nat /\ first < limit /\ limit <= CoreCount * n
  <1>1. CoreCount \in Nat \ {0}
    BY PoolAssumption
  <1>2. CASE s = Pool
    <2>1. CoreCount * n \in Nat \ {0}
      BY <1>1
    <2>2. QED
      BY <1>2, <2>1
  <1>3. CASE s \in Cores
    <2>1. s # Pool
      BY <1>1, <1>3 DEF Cores, Pool
    <2>2. s * n \in Nat /\ (s + 1) * n \in Nat /\ s * n < (s + 1) * n /\ (s + 1) * n <= CoreCount * n
      BY <1>1, <1>3, CoreRange DEF Cores
    <2>3. QED
      BY <2>1, <2>2
  <1>4. QED
    BY <1>2, <1>3 DEF Scopes

(* The workers of a scope are workers of the pool, and there is one.       *)
LEMMA ScopeRange ==
    ASSUME mConfig \in Config, mJobWorkerCount = CoreCount * mConfig.workersPerCore, NEW s \in Scopes
    PROVE  /\ First(s) \in Nat /\ Limit(s) \in Nat
           /\ First(s) < Limit(s) /\ Limit(s) <= mJobWorkerCount
           /\ InScope(s) \subseteq Workers
  <1>1. mConfig.workersPerCore \in Nat \ {0}
    BY DEF Config
  <1>2. /\ First(s) \in Nat /\ Limit(s) \in Nat
        /\ First(s) < Limit(s) /\ Limit(s) <= mJobWorkerCount
    BY <1>1, ScopeBounds DEF First, Limit
  <1>3. mJobWorkerCount \in Nat
    BY <1>1, PoolAssumption
  <1>4. QED
    BY <1>2, <1>3 DEF InScope, Workers

(* Rounding up, as for the number of queues, gives a natural number.       *)
LEMMA RoundUp ==
    ASSUME NEW n \in Nat, NEW f \in Nat \ {0} PROVE (n + f - 1) \div f \in Nat
  OBVIOUS

-----------------------------------------------------------------------------
(* PoolInv holds when the constructor begins ...                           *)
LEMMA PoolInvInit == Init => PoolInv
  <1> SUFFICES ASSUME Init PROVE PoolInv
    OBVIOUS
  <1>1. mConfig \in Config /\ Pool \in Scopes
    BY PoolAssumption DEF Init, Scopes
  <1>2. \A s \in Scopes : (IF s = Pool THEN 0 ELSE s * mConfig.workersPerCore) \in Nat
    BY PoolAssumption, <1>1 DEF Scopes, Cores, Config
  <1>3. Typing
    <2>1. mNextJobWorker \in [Scopes -> Nat] /\ mLeast \in [Scopes -> Nat]
      BY <1>2 DEF Init
    <2>2. picked = [s \in Scopes |-> picked[s]]
      BY DEF Init
    <2>3. /\ timer \in TimerStates
          /\ caller \in [Callers -> CallerStates]
      BY <1>1 DEF Init, TimerAt, Idle, TimerStates, CallerStates
    <2>4. mLock_Next \in [Scopes -> {0, 1}] /\ calls \in 0 .. MaxCalls
      BY PoolAssumption DEF Init
    <2>5. QED
      BY <1>1, <2>1, <2>2, <2>3, <2>4 DEF Init, Typing, Built
  <1>4. Ranges
    BY DEF Init, Ranges, Built, First
  <1>5. Activity
    BY DEF Init, Activity, TimerAt, Idle
  <1>6. QED
    BY <1>3, <1>4, <1>5 DEF PoolInv

(* ... through the steps of constructor and destructor ...                 *)
LEMMA PoolInvConstruct ==
    ASSUME PoolInv, Construct \/ StopTimer \/ JoinAndDelete \/ UseUnbuilt PROVE PoolInv'
  <1> USE DEF PoolInv
  <1> DEFINE n == mConfig.workersPerCore
  <1>1. CASE CheckConfig
    <2>1. mConfig' \in Config /\ mConfig'.workersPerCore = n /\ CoreCount * n \in Nat
      BY <1>1, PoolAssumption DEF CheckConfig, AdjustedPriority, Clamp, Config, Typing
    <2>2. mJobQueueCount' \in Nat
      BY <1>1, <2>1, RoundUp DEF CheckConfig, QueueCount, Config, Typing
    <2>3. pool' \in {"checked", "failed"} /\ mJobWorkerCount' = CoreCount * mConfig'.workersPerCore
      BY <1>1, <2>1 DEF CheckConfig
    <2>4. Typing'
      BY <1>1, <2>1, <2>2, <2>3 DEF CheckConfig, Typing, Built, statistics
    <2>5. Ranges'
      <3>1. \A s \in Scopes : First(s)' = First(s)
        BY <2>1 DEF First
      <3>2. ASSUME NEW s \in Scopes
            PROVE  /\ mNextJobWorker'[s] = First(s)' /\ mLeast'[s] = First(s)'
                   /\ First(s)' \in InScope(s)'
        <4>1. mNextJobWorker'[s] = First(s)' /\ mLeast'[s] = First(s)'
          BY <1>1, <2>1 DEF CheckConfig, Ranges, statistics, First
        <4>2. First(s)' \in Nat /\ Limit(s)' \in Nat /\ First(s)' < Limit(s)'
          <5>1. mConfig'.workersPerCore \in Nat \ {0}
            BY <2>1 DEF Config
          <5>2. QED
            BY <2>3, <5>1, ScopeBounds DEF First, Limit
        <4>3. QED
          BY <4>1, <4>2 DEF InScope
      <3>3. pool' = "checked" => mJobWorkerCount' <= MAX_WORKER_COUNT
        BY <1>1, <2>3 DEF CheckConfig
      <3>4. QED
        BY <2>3, <3>2, <3>3 DEF Ranges, Built
    <2>6. Activity'
      BY <1>1, <2>3 DEF CheckConfig, Activity, Typing
    <2>7. QED
      BY <2>4, <2>5, <2>6
  <1>2. CASE CreateAndAssign
    <2>1. Typing'
      BY <1>2 DEF CreateAndAssign, Typing, Built, statistics, Workers, InScope, First, Limit
    <2>2. Ranges'
      BY <1>2 DEF CreateAndAssign, Ranges, Built, statistics, InScope, First, Limit
    <2>3. Activity'
      BY <1>2 DEF CreateAndAssign, Activity, InScope, First, Limit
    <2>4. QED
      BY <2>1, <2>2, <2>3
  <1>3. CASE StartAll
    <2>1. Typing'
      BY <1>3 DEF StartAll, Typing, TimerStates, Built, statistics, layout, Workers, InScope, First, Limit
    <2>2. Ranges'
      BY <1>3 DEF StartAll, Ranges, Built, statistics, layout, InScope, First, Limit
    <2>3. Activity'
      BY <1>3 DEF StartAll, Activity, layout, InScope, First, Limit, Typing, TimerStates
    <2>4. QED
      BY <2>1, <2>2, <2>3
  <1>4. CASE StopTimer \/ JoinAndDelete \/ UseUnbuilt
    <2>1. Typing'
      BY <1>4 DEF StopTimer, JoinAndDelete, UseUnbuilt, Typing, Built, statistics, layout, Workers, InScope, First, Limit
    <2>2. Ranges'
      BY <1>4 DEF StopTimer, JoinAndDelete, UseUnbuilt, Ranges, Built, statistics, layout, InScope, First, Limit
    <2>3. Activity'
      BY <1>4 DEF StopTimer, JoinAndDelete, UseUnbuilt, Activity, layout, InScope, First, Limit, Typing, TimerStates
    <2>4. QED
      BY <2>1, <2>2, <2>3
  <1>5. QED
    BY <1>1, <1>2, <1>3, <1>4 DEF Construct

(* ... those of the timer thread ...                                       *)
LEMMA PoolInvTimer == ASSUME PoolInv, Timer PROVE PoolInv'
  <1> USE DEF PoolInv
  <1>0. \A s \in Scopes : pool # "new" =>
            /\ First(s) \in Nat /\ Limit(s) \in Nat /\ First(s) < Limit(s)
            /\ InScope(s) \subseteq Workers
    BY ScopeRange DEF Typing, Ranges
  <1>1. CASE TimerTests
    <2>1. Typing'
      BY <1>1 DEF TimerTests, Typing, TimerStates, Built, statistics, layout, Workers, InScope, First, Limit
    <2>2. Ranges'
      BY <1>1 DEF TimerTests, Ranges, Built, statistics, layout, InScope, First, Limit
    <2>3. Activity'
      BY <1>1 DEF TimerTests, Activity, layout, InScope, First, Limit, Typing, TimerStates
    <2>4. QED
      BY <2>1, <2>2, <2>3
  <1>2. CASE TimerWakes
    <2>1. pool \in {"up", "stopping"} /\ Pool \in Scopes
      BY <1>2 DEF TimerWakes, Activity, Scopes
    <2>2. Typing'
      BY <1>2, <2>1 DEF TimerWakes, TimerAt, Typing, TimerStates, Built, statistics, layout, Workers, InScope, First, Limit
    <2>3. Ranges'
      BY <1>2 DEF TimerWakes, Ranges, Built, statistics, layout, InScope, First, Limit
    <2>4. Activity'
      <3>1. timer'.pc = "reading" /\ timer'.at = First(Pool) /\ timer'.scope = Pool
        BY <1>2 DEF TimerWakes, TimerAt
      <3>2. First(Pool) \in First(Pool) .. Limit(Pool)
        BY <1>0, <2>1
      <3>3. QED
        BY <1>2, <2>1, <3>1, <3>2 DEF TimerWakes, Activity, layout, InScope, First, Limit
    <2>5. QED
      BY <2>2, <2>3, <2>4
  <1>3. CASE TimerReads
    <2>0. /\ pool \in {"up", "stopping"} /\ timer.scope \in Scopes /\ timer.at \in InScope(timer.scope)
          /\ timer.at \in Workers /\ jobs[timer.at] \in Nat
      <3>1. pool \in {"up", "stopping"} /\ timer.scope \in Scopes
        BY <1>3 DEF TimerReads, Activity, Typing, TimerStates
      <3>2. timer.at \in InScope(timer.scope)
        BY <1>0, <1>3, <3>1 DEF TimerReads, Activity, InScope
      <3>3. timer.at \in Workers
        BY <1>0, <3>1, <3>2
      <3>4. QED
        BY <3>1, <3>2, <3>3 DEF Typing, Built
    <2>1. /\ timer' \in [pc : {"reading"}, scope : {timer.scope}, at : {timer.at + 1}, least : Nat, worker : Nat]
          /\ timer'.worker \in {timer.worker, timer.at}
          /\ timer.at = First(timer.scope) => timer'.worker = timer.at
      BY <1>3, <2>0 DEF TimerReads, Typing, TimerStates
    <2>2. Typing'
      <3>1. timer' \in TimerStates
        BY <2>0, <2>1 DEF TimerStates, Typing
      <3>2. QED
        BY <1>3, <3>1 DEF TimerReads, Typing, Built, statistics, layout, Workers, InScope, First, Limit
    <2>3. Ranges'
      BY <1>3 DEF TimerReads, Ranges, Built, statistics, layout, InScope, First, Limit
    <2>4. Activity'
      <3>1. timer'.at \in First(timer.scope) .. Limit(timer.scope)
        BY <1>0, <2>0, <2>1 DEF InScope
      <3>2. timer'.worker \in InScope(timer.scope)
        BY <1>3, <2>0, <2>1 DEF Activity, TimerReads
      <3>3. timer'.pc = "reading" /\ timer'.scope = timer.scope
        BY <2>1
      <3>4. QED
        BY <1>3, <2>0, <3>1, <3>2, <3>3 DEF TimerReads, Activity, layout, InScope, First, Limit
    <2>5. QED
      BY <2>2, <2>3, <2>4
  <1>4. CASE TimerPublishes
    <2>0. pool \in {"up", "stopping"} /\ timer.scope \in Scopes /\ timer.worker \in InScope(timer.scope)
      <3>1. pool \in {"up", "stopping"} /\ timer.scope \in Scopes
        BY <1>4 DEF TimerPublishes, Activity, Typing, TimerStates
      <3>2. timer.at # First(timer.scope)
        BY <1>0, <1>4, <3>1 DEF TimerPublishes
      <3>3. QED
        BY <1>4, <3>1, <3>2 DEF TimerPublishes, Activity
    <2>1. PICK s \in Scopes : timer' = TimerAt("reading", s, First(s)) \/ timer' = TimerAt("testing", s, 0)
      <3>1. Pool \in Scopes /\ (timer.scope + 1 < CoreCount => timer.scope + 1 \in Scopes)
        BY <2>0, PoolAssumption DEF Scopes, Cores, Pool
      <3>2. QED
        BY <1>4, <3>1 DEF TimerPublishes
    <2>2. First(s) \in Nat /\ First(s) \in First(s) .. Limit(s)
      BY <1>0, <2>0
    <2>3. Typing'
      <3>1. timer' \in TimerStates
        BY <2>1, <2>2 DEF TimerAt, TimerStates
      <3>2. mLeast' \in [Scopes -> Nat]
        BY <1>4, <2>0 DEF TimerPublishes, Typing, TimerStates
      <3>3. QED
        BY <1>4, <3>1, <3>2 DEF TimerPublishes, Typing, Built, layout, Workers, InScope, First, Limit
    <2>4. Ranges'
      BY <1>4, <2>0 DEF TimerPublishes, Ranges, Typing, Built, layout, InScope, First, Limit
    <2>5. Activity'
      <3>1. timer'.pc \in {"testing", "reading"} /\ timer'.scope = s
        BY <2>1 DEF TimerAt
      <3>2. timer'.pc = "reading" => timer'.at = First(s)
        BY <2>1 DEF TimerAt
      <3>3. QED
        BY <1>4, <2>0, <2>2, <3>1, <3>2 DEF TimerPublishes, Activity, layout, InScope, First, Limit
    <2>6. QED
      BY <2>3, <2>4, <2>5
  <1>5. QED
    BY <1>1, <1>2, <1>3, <1>4 DEF Timer

(* ... those of a caller of addJob ...                                     *)
LEMMA PoolInvAddJob == ASSUME PoolInv, NEW c \in Callers, addJob(c) PROVE PoolInv'
  <1> USE DEF PoolInv
  <1>0. \A s \in Scopes : pool # "new" =>
            /\ First(s) \in Nat /\ Limit(s) \in Nat /\ First(s) < Limit(s)
            /\ InScope(s) \subseteq Workers
    BY ScopeRange DEF Typing, Ranges
  <1>1. ASSUME NEW s \in Scopes, NEW pc \in {"lock", "add"}, NEW w \in Nat,
               pc = "add" => w \in InScope(s),
               Calls(c, s, pc, w)
        PROVE  PoolInv'
    <2>1. Typing'
      <3>1. caller' \in [Callers -> CallerStates] /\ calls' \in 0 .. MaxCalls
        BY <1>1, PoolAssumption DEF Calls, Typing, CallerStates
      <3>2. QED
        BY <1>1, <3>1 DEF Calls, Typing, Built, statistics, layout, Workers, InScope, First, Limit
    <2>2. Ranges'
      BY <1>1 DEF Calls, Ranges, Built, statistics, layout, InScope, First, Limit
    <2>3. Activity'
      BY <1>1 DEF Calls, Activity, Typing, layout, InScope, First, Limit
    <2>4. QED
      BY <2>1, <2>2, <2>3
  <1>2. ASSUME NEW s \in Scopes, CallRoundRobin(c, s) \/ CallLeastJobs(c, s) \/ CallRandom(c, s)
        PROVE  PoolInv'
    <2>1. CASE CallRoundRobin(c, s)
      BY <1>1, <2>1 DEF CallRoundRobin
    <2>2. CASE CallLeastJobs(c, s)
      <3>1. mLeast[s] \in Nat /\ mLeast[s] \in InScope(s)
        BY <2>2 DEF CallLeastJobs, Calls, Ranges, Typing
      <3>2. QED
        BY <1>1, <2>2, <3>1 DEF CallLeastJobs
    <2>3. CASE CallRandom(c, s)
      <3>1. PICK w \in InScope(s) : Calls(c, s, "add", w)
        BY <2>3 DEF CallRandom
      <3>2. w \in Nat
        BY <1>0, <3>1 DEF Calls, Workers, Typing
      <3>3. QED
        BY <1>1, <3>1, <3>2
    <2>4. QED
      BY <1>2, <2>1, <2>2, <2>3
  <1>3. CASE LockNext(c)
    <2>0. caller[c].scope \in Scopes /\ pool = "up"
      BY <1>3 DEF LockNext, Typing, CallerStates, Activity
    <2>1. mNextJobWorker[caller[c].scope] \in Nat /\ mNextJobWorker[caller[c].scope] \in InScope(caller[c].scope)
      BY <2>0 DEF Typing, Ranges
    <2>2. Typing'
      <3>1. caller' \in [Callers -> CallerStates] /\ mLock_Next' \in [Scopes -> {0, 1}]
        BY <1>3, <2>0, <2>1, ZenonT(40) DEF LockNext, Typing, CallerStates
      <3>2. QED
        BY <1>3, <3>1 DEF LockNext, Typing, Built, layout, Workers, InScope, First, Limit
    <2>3. Ranges'
      BY <1>3 DEF LockNext, Ranges, Built, layout, InScope, First, Limit
    <2>4. Activity'
      BY <1>3, <2>0, <2>1 DEF LockNext, Activity, Typing, CallerStates, layout, InScope, First, Limit
    <2>5. QED
      BY <2>2, <2>3, <2>4
  <1>4. CASE AdvanceNext(c)
    <2> DEFINE s == caller[c].scope
               w == caller[c].worker
               next == IF w + 1 = Limit(s) THEN First(s) ELSE w + 1
    <2>0. s \in Scopes /\ pool = "up" /\ w \in InScope(s) /\ w \in Nat
      BY <1>4 DEF AdvanceNext, Typing, CallerStates, Activity
    <2>1. next \in Nat /\ next \in InScope(s)
      BY <1>0, <2>0 DEF InScope
    <2> HIDE DEF next
    <2>2. mNextJobWorker' = [mNextJobWorker EXCEPT ![s] = next]
      BY <1>4 DEF AdvanceNext, next
    <2>3. Typing'
      <3>1. caller' \in [Callers -> CallerStates] /\ mLock_Next' \in [Scopes -> {0, 1}]
        BY <1>4, <2>0 DEF AdvanceNext, Typing, CallerStates
      <3>2. mNextJobWorker' \in [Scopes -> Nat]
        BY <2>0, <2>1, <2>2 DEF Typing
      <3>3. \A r \in Scopes : picked'[r] = IF r = s THEN [picked[s] EXCEPT ![w] = @ + 1] ELSE picked[r]
        BY <1>4, <2>0 DEF AdvanceNext, Typing
      <3>4. picked' = [r \in Scopes |-> picked'[r]]
        BY <1>4 DEF AdvanceNext, Typing
      <3>5. \A r \in Scopes : picked'[r] \in [InScope(r) -> Nat]
        <4>1. \A r \in Scopes : picked[r] \in [InScope(r) -> Nat]
          BY <2>0 DEF Typing, Built
        <4>2. [picked[s] EXCEPT ![w] = @ + 1] \in [InScope(s) -> Nat]
          BY <2>0, <4>1
        <4>3. QED
          BY <3>3, <4>1, <4>2
      <3>6. QED
        BY <1>4, <3>1, <3>2, <3>4, <3>5 DEF AdvanceNext, Typing, Built, layout, Workers, InScope, First, Limit
    <2>4. Ranges'
      <3>1. \A r \in Scopes : mNextJobWorker'[r] \in InScope(r)
        BY <2>0, <2>1, <2>2 DEF Ranges, Typing
      <3>2. QED
        BY <1>4, <2>0, <3>1 DEF AdvanceNext, Ranges, Built, layout, InScope, First, Limit
    <2>5. Activity'
      BY <1>4, <2>0 DEF AdvanceNext, Activity, Typing, CallerStates, layout, InScope, First, Limit
    <2>6. QED
      BY <2>3, <2>4, <2>5
  <1>5. CASE AddToWorker(c)
    <2>0. pool = "up" /\ caller[c].worker \in Workers
      BY <1>0, <1>5 DEF AddToWorker, Typing, CallerStates, Activity
    <2>1. Typing'
      <3>1. caller' \in [Callers -> CallerStates]
        BY <1>5 DEF AddToWorker, Typing, CallerStates, Idle, Scopes
      <3>2. jobs' \in [Workers -> Nat]
        BY <1>5, <2>0 DEF AddToWorker, Typing, Built
      <3>3. QED
        BY <1>5, <3>1, <3>2 DEF AddToWorker, Typing, Built, statistics, layout, Workers, InScope, First, Limit
    <2>2. Ranges'
      BY <1>5 DEF AddToWorker, Ranges, Built, statistics, layout, InScope, First, Limit
    <2>3. Activity'
      BY <1>5 DEF AddToWorker, Activity, Typing, Idle, layout, InScope, First, Limit
    <2>4. QED
      BY <2>1, <2>2, <2>3
  <1>6. QED
    BY <1>2, <1>3, <1>4, <1>5 DEF addJob

(* ... and those of everybody: PoolInv is an inductive invariant.          *)
LEMMA PoolInvNext == PoolInv /\ [Next]_vars => PoolInv'
  <1> SUFFICES ASSUME PoolInv, [Next]_vars PROVE PoolInv'
    OBVIOUS
  <1> USE DEF PoolInv
  <1>1. ASSUME NEW w \in Workers, WorkerDone(w) PROVE PoolInv'
    <2>1. jobs' \in [Workers -> Nat]
      BY <1>1 DEF WorkerDone, Typing, Built
    <2>2. Typing'
      BY <1>1, <2>1 DEF WorkerDone, Typing, Built, statistics, layout, Workers, InScope, First, Limit
    <2>3. Ranges'
      BY <1>1 DEF WorkerDone, Ranges, Built, statistics, layout, InScope, First, Limit
    <2>4. Activity'
      BY <1>1 DEF WorkerDone, Activity, layout, InScope, First, Limit
    <2>5. QED
      BY <2>2, <2>3, <2>4
  <1>2. CASE UNCHANGED vars
    BY <1>2 DEF vars, Typing, Ranges, Activity, Built, statistics, layout, Workers, InScope, First, Limit
  <1>3. QED
    BY <1>1, <1>2, PoolInvConstruct, PoolInvTimer, PoolInvAddJob DEF Next, Finished

(* The inductive invariant of the pool holds throughout.                   *)
LEMMA PoolInvariant == Spec => []PoolInv
  BY PoolInvInit, PoolInvNext, PTL DEF Spec

-----------------------------------------------------------------------------
(* What PoolInv is for.                                                    *)

(* The queues are given to groups of workers of the same size, the last of *)
(* which may reach beyond the workers there are.                           *)
Given ==
    Built => queueOf = [i \in 0 .. mJobQueueCount * mConfig.queueShareFactor - 1 |->
                           i \div mConfig.queueShareFactor]

(* Queues are assigned once, and the layout is left as it is afterwards.   *)
LEMMA GivenInvariant == Spec => []Given
  <1>1. Init => Given
    BY DEF Init, Given, Built
  <1>2. Given /\ [Next]_vars => Given'
    <2> SUFFICES ASSUME Given, [Next]_vars PROVE Given'
      OBVIOUS
    <2>1. CASE CheckConfig
      BY <2>1 DEF CheckConfig, Given, Built
    <2>2. CASE CreateAndAssign
      BY <2>2 DEF CreateAndAssign, Given, Built
    <2>3. CASE UNCHANGED layout /\ (Built' => Built)
      BY <2>3 DEF Given, layout
    <2>4. ASSUME NEW c \in Callers, addJob(c) PROVE UNCHANGED layout /\ pool' = pool
      BY <2>4 DEF addJob, CallRoundRobin, CallLeastJobs, CallRandom, Calls, LockNext, AdvanceNext,
         AddToWorker
    <2>5. ASSUME Timer \/ (\E w \in Workers : WorkerDone(w)) \/ UNCHANGED vars
          PROVE  UNCHANGED layout /\ pool' = pool
      BY <2>5 DEF Timer, TimerTests, TimerWakes, TimerReads, TimerPublishes, WorkerDone, vars
    <2>6. ASSUME StartAll \/ StopTimer \/ JoinAndDelete \/ UseUnbuilt
          PROVE  UNCHANGED layout /\ (Built' => Built)
      BY <2>6 DEF StartAll, StopTimer, JoinAndDelete, UseUnbuilt, Built
    <2>7. QED
      BY <2>1, <2>2, <2>3, <2>4, <2>5, <2>6 DEF Next, Construct, Finished, Built
  <1>3. QED
    BY <1>1, <1>2, PTL DEF Spec

(* The queue of a worker is a quotient: the workers of queue q are the     *)
(* q-th group of f workers.                                                *)
LEMMA QuotientRange ==
    ASSUME NEW f \in Nat \ {0}, NEW q \in Nat, NEW w \in Nat
    PROVE  w \div f = q <=> q * f <= w /\ w < q * f + f
  OBVIOUS

(* Every variable has its type, for any configuration: an assigned queue   *)
(* is one of those created, and the two indices of workers that the pool   *)
(* keeps between calls, mNextJobWorker and mLeast, are below               *)
(* MAX_WORKER_COUNT (AdaptiveThreadPool).                                  *)
THEOREM PoolTypeCorrect == Spec => []TypeOK
  <1>1. PoolInv /\ Given => TypeOK
    <2> SUFFICES ASSUME PoolInv, Given PROVE TypeOK
      OBVIOUS
    <2>1. ASSUME Built, NEW s \in Scopes
          PROVE  mNextJobWorker[s] < MAX_WORKER_COUNT /\ mLeast[s] < MAX_WORKER_COUNT
      <3>1. mJobWorkerCount \in Nat /\ mJobWorkerCount <= MAX_WORKER_COUNT /\ MAX_WORKER_COUNT \in Nat
        BY <2>1, PoolAssumption DEF PoolInv, Typing, Ranges
      <3>2. mNextJobWorker[s] \in Workers /\ mLeast[s] \in Workers
        BY <2>1, ScopeRange DEF PoolInv, Typing, Ranges, Built
      <3>3. QED
        BY <3>1, <3>2 DEF Workers
    <2>2. ASSUME Built
          PROVE  queueOf \in [0 .. mJobQueueCount * mConfig.queueShareFactor - 1 -> 0 .. mJobQueueCount - 1]
      <3> DEFINE f == mConfig.queueShareFactor
                 limit == mJobQueueCount * f
                 q(i) == i \div f
      <3>1. f \in Nat \ {0} /\ mJobQueueCount \in Nat /\ limit \in Nat
        BY DEF PoolInv, Typing, Config
      <3>2. ASSUME NEW i \in 0 .. limit - 1 PROVE q(i) \in 0 .. mJobQueueCount - 1
        <4>1. i \in Nat /\ i < limit /\ q(i) \in Nat
          BY <3>1
        <4>2. q(i) * f <= i
          BY <3>1, <4>1, QuotientRange
        <4>3. CASE q(i) >= mJobQueueCount
          <5>1. PICK d \in Nat : q(i) = mJobQueueCount + d
            <6>1. q(i) - mJobQueueCount \in Nat /\ q(i) = mJobQueueCount + (q(i) - mJobQueueCount)
              BY <3>1, <4>1, <4>3
            <6>2. QED
              BY <6>1
          <5>2. d * f \in Nat /\ q(i) * f = limit + d * f
            BY <3>1, <5>1
          <5>3. QED
            BY <3>1, <4>1, <4>2, <5>2
        <4>4. QED
          BY <3>1, <4>1, <4>3
      <3>3. queueOf = [i \in 0 .. limit - 1 |-> q(i)]
        BY <2>2 DEF Given
      <3> HIDE DEF q, limit
      <3>4. queueOf \in [0 .. limit - 1 -> 0 .. mJobQueueCount - 1]
        BY <3>2, <3>3
      <3>5. QED
        BY <3>4 DEF limit
    <2>3. DOMAIN picked = Scopes
      BY DEF PoolInv, Typing
    <2>4. QED
      BY <2>1, <2>2, <2>3 DEF PoolInv, Typing, TypeOK, TimerStates, CallerStates
  <1>2. QED
    BY <1>1, PoolInvariant, GivenInvariant, PTL

(* Whichever policy addJob is called with, and however the timer thread    *)
(* and the destructor interleave with it, the worker it picks exists and   *)
(* is in the scope that the policy asks for (addJob, timer_thread_func).   *)
THEOREM PicksInScopeCorrect == Spec => []PicksInScope
  <1>1. PoolInv => PicksInScope
    <2> SUFFICES ASSUME PoolInv PROVE PicksInScope
      OBVIOUS
    <2>1. ASSUME NEW c \in Callers, caller[c].pc \in {"advance", "add"}
          PROVE  pool = "up" /\ caller[c].worker \in InScope(caller[c].scope) \cap Workers
      <3>1. pool = "up" /\ caller[c].worker \in InScope(caller[c].scope) /\ caller[c].scope \in Scopes
        BY <2>1 DEF PoolInv, Activity, Typing, CallerStates
      <3>2. QED
        BY <3>1, ScopeRange DEF PoolInv, Typing, Ranges
    <2>2. QED
      BY <2>1 DEF PoolInv, Activity, PicksInScope, Built
  <1>2. QED
    BY <1>1, PoolInvariant, PTL

-----------------------------------------------------------------------------
(* Round robin.                                                            *)

(* Before there are workers nothing has been picked.                       *)
LEMMA RoundsInit == Init => RoundsInv
  BY DEF Init, RoundsInv, OneAdvances, Rounds, Built, Idle

(* A caller that has taken the lock holds the next worker until it has     *)
(* advanced it; advancing past the last worker begins a new round.         *)
LEMMA RoundsNext == PoolInv /\ RoundsInv /\ [Next]_vars => RoundsInv'
  <1> SUFFICES ASSUME PoolInv, RoundsInv, [Next]_vars PROVE RoundsInv'
    OBVIOUS
  <1> USE DEF RoundsInv
  <1>0. \A s \in Scopes : pool # "new" =>
            First(s) \in Nat /\ Limit(s) \in Nat /\ First(s) < Limit(s)
    BY ScopeRange DEF PoolInv, Typing, Ranges
  <1>1. CASE CheckConfig
    <2>1. ~Built' /\ caller' = caller /\ mNextJobWorker' = mNextJobWorker /\ mLock_Next' = mLock_Next
      BY <1>1 DEF CheckConfig, Built, statistics
    <2>2. QED
      BY <2>1 DEF OneAdvances, Rounds
  <1>2. CASE CreateAndAssign
    <2>1. OneAdvances'
      BY <1>2 DEF CreateAndAssign, statistics, OneAdvances
    <2>2. \A s \in Scopes : /\ mNextJobWorker'[s] = First(s)
                            /\ First(s)' = First(s) /\ Limit(s)' = Limit(s) /\ InScope(s)' = InScope(s)
      BY <1>2 DEF CreateAndAssign, PoolInv, Ranges, statistics, First, Limit, InScope
    <2>3. \A s \in Scopes : Limit(s) - 1 \in InScope(s) /\ \A w \in InScope(s) : ~(w < First(s))
      BY <1>0, <1>2 DEF CreateAndAssign, InScope
    <2>4. \A s \in Scopes : \A w \in InScope(s) : picked'[s][w] = 0
      BY <1>2 DEF CreateAndAssign
    <2>5. Rounds'
      BY <2>2, <2>3, <2>4 DEF Rounds
    <2>6. QED
      BY <2>1, <2>5
  <1>3. CASE UNCHANGED <<layout, mNextJobWorker, mLock_Next, caller, picked>> /\ (Built' => Built)
    BY <1>3 DEF OneAdvances, Rounds, layout, InScope, First, Limit
  <1>4. ASSUME NEW c \in Callers, NEW s \in Scopes, NEW pc \in {"lock", "add"}, NEW w, Calls(c, s, pc, w)
        PROVE  RoundsInv'
    <2>1. OneAdvances'
      BY <1>4 DEF Calls, statistics, OneAdvances, PoolInv, Typing
    <2>2. Rounds'
      BY <1>4 DEF Calls, Rounds, Built, statistics, layout, InScope, First, Limit
    <2>3. QED
      BY <2>1, <2>2
  <1>5. ASSUME NEW c \in Callers, LockNext(c) PROVE RoundsInv'
    <2>0. caller[c].scope \in Scopes
      BY DEF PoolInv, Typing, CallerStates
    <2>1. OneAdvances'
      BY <1>5, <2>0 DEF LockNext, OneAdvances, PoolInv, Typing, CallerStates
    <2>2. Rounds'
      BY <1>5 DEF LockNext, Rounds, Built, layout, InScope, First, Limit
    <2>3. QED
      BY <2>1, <2>2
  <1>6. ASSUME NEW c \in Callers, AddToWorker(c) PROVE RoundsInv'
    <2>1. OneAdvances'
      BY <1>6 DEF AddToWorker, statistics, Idle, OneAdvances, PoolInv, Typing
    <2>2. Rounds'
      BY <1>6 DEF AddToWorker, Rounds, Built, statistics, layout, InScope, First, Limit
    <2>3. QED
      BY <2>1, <2>2
  <1>7. ASSUME NEW c \in Callers, AdvanceNext(c) PROVE RoundsInv'
    <2> DEFINE s == caller[c].scope
               w == caller[c].worker
    <2>0. /\ s \in Scopes /\ pool = "up" /\ w = mNextJobWorker[s] /\ w \in InScope(s)
          /\ \A d \in Callers : caller[d].pc = "advance" /\ caller[d].scope = s => d = c
      BY <1>7 DEF AdvanceNext, PoolInv, Typing, CallerStates, Activity, OneAdvances
    <2>1. OneAdvances'
      BY <1>7, <2>0 DEF AdvanceNext, OneAdvances, PoolInv, Typing, CallerStates
    <2>2. ASSUME NEW r \in Scopes, NEW v \in InScope(r)
          PROVE  picked'[r][v] = picked'[r][Limit(r) - 1] + (IF v < mNextJobWorker'[r] THEN 1 ELSE 0)
      <3>0. /\ Limit(r) - 1 \in InScope(r) /\ First(r) \in Nat /\ Limit(r) \in Nat /\ v \in Nat
            /\ picked[r] \in [InScope(r) -> Nat]
            /\ picked[r][v] = picked[r][Limit(r) - 1] + (IF v < mNextJobWorker[r] THEN 1 ELSE 0)
        <4>1. Limit(r) - 1 \in InScope(r) /\ First(r) \in Nat /\ Limit(r) \in Nat /\ v \in Nat
          BY <1>0, <2>0 DEF InScope
        <4>2. picked[r] \in [InScope(r) -> Nat]
          BY <2>0 DEF Built, PoolInv, Typing
        <4>3. picked[r][v] = picked[r][Limit(r) - 1] + (IF v < mNextJobWorker[r] THEN 1 ELSE 0)
          BY <2>0 DEF Rounds, Built
        <4>4. QED
          BY <4>1, <4>2, <4>3
      <3>1. CASE r # s
        BY <1>7, <2>0, <3>0, <3>1 DEF AdvanceNext, PoolInv, Typing
      <3>2. CASE r = s
        <4>1. picked'[s] = [picked[s] EXCEPT ![w] = @ + 1]
          BY <1>7, <2>0 DEF AdvanceNext, PoolInv, Typing
        <4>2. mNextJobWorker'[s] = IF w + 1 = Limit(s) THEN First(s) ELSE w + 1
          BY <1>7, <2>0 DEF AdvanceNext, PoolInv, Typing
        <4>3. picked'[s][v] = IF v = w THEN picked[s][v] + 1 ELSE picked[s][v]
          BY <3>0, <3>2, <4>1
        <4>4. picked'[s][Limit(s) - 1] = IF Limit(s) - 1 = w THEN picked[s][Limit(s) - 1] + 1
                                        ELSE picked[s][Limit(s) - 1]
          BY <3>0, <3>2, <4>1
        <4>5. picked[s][v] \in Nat /\ picked[s][Limit(s) - 1] \in Nat
          BY <3>0, <3>2
        <4>6. v \in First(s) .. Limit(s) - 1 /\ w \in First(s) .. Limit(s) - 1
          BY <2>0, <3>2 DEF InScope
        <4>7. QED
          BY <2>0, <3>0, <3>2, <4>2, <4>3, <4>4, <4>5, <4>6
      <3>3. QED
        BY <3>1, <3>2
    <2>3. Rounds'
      BY <1>7, <2>2 DEF AdvanceNext, Rounds, layout, InScope, First, Limit
    <2>4. QED
      BY <2>1, <2>3
  <1>8. ASSUME StartAll \/ StopTimer \/ JoinAndDelete \/ UseUnbuilt \/ Timer
               \/ (\E w \in Workers : WorkerDone(w)) \/ UNCHANGED vars
        PROVE  UNCHANGED <<layout, mNextJobWorker, mLock_Next, caller, picked>> /\ (Built' => Built)
    BY <1>8 DEF StartAll, StopTimer, JoinAndDelete, UseUnbuilt, Timer, TimerTests, TimerWakes, TimerReads,
       TimerPublishes, WorkerDone, vars, statistics, Built
  <1>9. ASSUME NEW c \in Callers, addJob(c) PROVE RoundsInv'
    BY <1>9, <1>4, <1>5, <1>6, <1>7 DEF addJob, CallRoundRobin, CallLeastJobs, CallRandom
  <1>10. QED
    BY <1>1, <1>2, <1>3, <1>8, <1>9 DEF Next, Construct, Finished

(* However many threads call addJob, round robin is fair to the workers of *)
(* each scope: the semaphores make the read of the next worker and its     *)
(* advance one step (addJob).                                              *)
THEOREM RoundRobinFair == Spec => []RoundRobinBalanced
  <1>1. Spec => []RoundsInv
    BY RoundsInit, RoundsNext, PoolInvariant, PTL DEF Spec
  <1>2. PoolInv /\ RoundsInv => RoundRobinBalanced
    <2> SUFFICES ASSUME PoolInv, RoundsInv, Built, NEW s \in Scopes,
                        NEW v \in InScope(s), NEW w \in InScope(s), v < w
                 PROVE  picked[s][v] - picked[s][w] \in {0, 1}
      BY DEF RoundRobinBalanced
    <2>1. First(s) \in Nat /\ Limit(s) \in Nat /\ First(s) < Limit(s)
      BY ScopeRange DEF PoolInv, Typing, Ranges, Built
    <2>2. v \in Nat /\ w \in Nat /\ Limit(s) - 1 \in InScope(s)
      BY <2>1 DEF InScope
    <2>3. /\ picked[s][Limit(s) - 1] \in Nat /\ mNextJobWorker[s] \in Nat
          /\ picked[s][v] = picked[s][Limit(s) - 1] + (IF v < mNextJobWorker[s] THEN 1 ELSE 0)
          /\ picked[s][w] = picked[s][Limit(s) - 1] + (IF w < mNextJobWorker[s] THEN 1 ELSE 0)
      BY <2>2 DEF PoolInv, Typing, RoundsInv, Rounds
    <2>4. QED
      BY <2>2, <2>3
  <1>3. QED
    BY <1>1, <1>2, PoolInvariant, PTL

-----------------------------------------------------------------------------
(* What checkAndAjustConfig leaves of the configuration.                   *)

(* The priority of the workers is adjusted once, before any is created.    *)
Adjusted ==
    pool \in {"checked", "assigned", "up", "stopping"} /\ mConfig.schedulePolicy = "NO_SLICE" =>
        /\ mConfig.threadPriority \in MinPriority .. MaxPriority
        /\ MinPriority < MaxPriority => mConfig.threadPriority < MaxPriority

(* An adjusted priority is in range and below the highest, whatever was    *)
(* asked for.                                                              *)
LEMMA AdjustedInRange ==
    ASSUME NEW p \in Int
    PROVE  LET q == AdjustedPriority("NO_SLICE", p)
           IN  q \in MinPriority .. MaxPriority /\ (MinPriority < MaxPriority => q < MaxPriority)
  BY PoolAssumption DEF AdjustedPriority, Clamp

(* "The max priority in THREADSCHED_REALTIME_NO_SLICE is reserved for the  *)
(* timer thread", whatever range of priorities the system has and whatever *)
(* priority was asked for (checkAndAjustConfig).                           *)
THEOREM PriorityIsReserved == Spec => []PriorityReserved
  <1>1. Init => Adjusted
    BY DEF Init, Adjusted
  <1>2. PoolInv /\ Adjusted /\ [Next]_vars => Adjusted'
    <2> SUFFICES ASSUME PoolInv, Adjusted, [Next]_vars PROVE Adjusted'
      OBVIOUS
    <2>1. CASE CheckConfig
      <3> SUFFICES ASSUME pool' = "checked", mConfig'.schedulePolicy = "NO_SLICE"
                   PROVE  /\ mConfig'.threadPriority \in MinPriority .. MaxPriority
                          /\ MinPriority < MaxPriority => mConfig'.threadPriority < MaxPriority
        BY <2>1 DEF CheckConfig, Adjusted
      <3>1. mConfig.threadPriority \in Int
        BY DEF PoolInv, Typing, Config
      <3>2. mConfig' = [mConfig EXCEPT !.threadPriority = AdjustedPriority(mConfig.schedulePolicy, @)]
        BY <2>1 DEF CheckConfig
      <3>3. mConfig'.threadPriority = AdjustedPriority("NO_SLICE", mConfig.threadPriority)
        BY <3>2 DEF PoolInv, Typing, Config
      <3>4. QED
        BY <3>1, <3>3, AdjustedInRange
    <2>2. CASE mConfig' = mConfig /\ (pool' = pool \/ pool \in {"checked", "assigned", "up"}
                                        \/ pool' \in {"gone", "undefined"})
      BY <2>2 DEF Adjusted
    <2>3. ASSUME NEW c \in Callers, addJob(c) PROVE mConfig' = mConfig /\ pool' = pool
      BY <2>3 DEF addJob, CallRoundRobin, CallLeastJobs, CallRandom, Calls, LockNext, AdvanceNext,
         AddToWorker, layout
    <2>4. ASSUME Timer \/ (\E w \in Workers : WorkerDone(w)) \/ UNCHANGED vars
          PROVE  mConfig' = mConfig /\ pool' = pool
      BY <2>4 DEF Timer, TimerTests, TimerWakes, TimerReads, TimerPublishes, WorkerDone, layout, vars
    <2>5. ASSUME CreateAndAssign \/ StartAll \/ StopTimer \/ JoinAndDelete \/ UseUnbuilt
          PROVE  mConfig' = mConfig /\ (pool \in {"checked", "assigned", "up"} \/ pool' \in {"gone", "undefined"})
      BY <2>5 DEF CreateAndAssign, StartAll, StopTimer, JoinAndDelete, UseUnbuilt, layout
    <2>6. QED
      BY <2>1, <2>2, <2>3, <2>4, <2>5 DEF Next, Construct, Finished
  <1>3. Adjusted => PriorityReserved
    BY DEF Adjusted, PriorityReserved, Built
  <1>4. QED
    BY <1>1, <1>2, <1>3, PoolInvariant, PTL DEF Spec

-----------------------------------------------------------------------------
(* How the queues are given to the workers.                                *)

(* What assignQueuesToWorkers needs of a configuration and no code checks: *)
(* exclusive queues are each given to one worker, and shared queues to     *)
(* groups of workers of the same size.                                     *)
ExactShares ==
    \A k \in Configs :
        /\ k.queueType = "EXCLUSIVE" => k.queueShareFactor = 1
        /\ k.queueType = "SHARED" => (CoreCount * k.workersPerCore) % k.queueShareFactor = 0

(* If f divides n, n / f rounded up is n / f.                              *)
LEMMA ExactQuotient ==
    ASSUME NEW n \in Nat, NEW f \in Nat \ {0}, n % f = 0
    PROVE  (n + f - 1) \div f \in Nat /\ ((n + f - 1) \div f) * f = n
  <1>1. n \div f \in Nat /\ n = (n \div f) * f
    OBVIOUS
  <1>2. n + f - 1 \in Nat /\ (n \div f) * f <= n + f - 1 /\ n + f - 1 < (n \div f) * f + f
    BY <1>1
  <1>3. (n + f - 1) \div f = n \div f
    BY <1>1, <1>2, QuotientRange
  <1>4. QED
    BY <1>1, <1>3

(* Queue q of count queues, each given to f workers, has exactly f.        *)
LEMMA GroupSize ==
    ASSUME NEW f \in Nat \ {0}, NEW count \in Nat, NEW q \in 0 .. count - 1
    PROVE  Cardinality({w \in 0 .. count * f - 1 : w \div f = q}) = f
  <1>1. q * f \in Nat /\ q * f + f <= count * f /\ count * f \in Nat
    BY CoreRange
  <1>2. {w \in 0 .. count * f - 1 : w \div f = q} = q * f .. q * f + f - 1
    <2>1. \A w \in Nat : w \div f = q <=> q * f <= w /\ w < q * f + f
      BY QuotientRange
    <2> DEFINE g(w) == w \div f
    <2> HIDE DEF g
    <2>2. \A w \in Nat : g(w) = q <=> q * f <= w /\ w < q * f + f
      BY <2>1 DEF g
    <2>3. {w \in 0 .. count * f - 1 : g(w) = q} = q * f .. q * f + f - 1
      BY <1>1, <2>2
    <2>4. QED
      BY <2>3 DEF g
  <1>3. Cardinality(q * f .. q * f + f - 1) = f
    <2> DEFINE a == q * f
    <2>1. a \in Int /\ a + f - 1 \in Int /\ ~(a > a + f - 1) /\ (a + f - 1) - a + 1 = f
      BY <1>1
    <2> HIDE DEF a
    <2>2. Cardinality(a .. a + f - 1) = f
      BY <2>1, FS_Interval
    <2>3. QED
      BY <2>2 DEF a
  <1>4. QED
    BY <1>2, <1>3

(* The configuration keeps its shares, and the queues make them exact.     *)
SharesInv ==
    /\ mConfig.queueType = "EXCLUSIVE" => mConfig.queueShareFactor = 1
    /\ mConfig.queueType = "SHARED" =>
          (CoreCount * mConfig.workersPerCore) % mConfig.queueShareFactor = 0
    /\ pool = "checked" \/ Built => mJobQueueCount * mConfig.queueShareFactor = mJobWorkerCount

(* With exact shares every worker is given one queue, every queue as many  *)
(* workers as the configuration says, and no queue goes to a worker beyond *)
(* the last (assignQueuesToWorkers).  Without them it is not so: see the   *)
(* run pool_config.                                                        *)
THEOREM QueuesAssignedExactly == ASSUME ExactShares PROVE Spec => []QueuesAssigned
  <1>1. Init => SharesInv
    BY DEF Init, SharesInv, Built, ExactShares
  <1>2. PoolInv /\ SharesInv /\ [Next]_vars => SharesInv'
    <2> SUFFICES ASSUME PoolInv, SharesInv, [Next]_vars PROVE SharesInv'
      OBVIOUS
    <2>1. CASE CheckConfig
      <3> DEFINE f == mConfig.queueShareFactor
                 n == CoreCount * mConfig.workersPerCore
      <3>1. /\ f \in Nat \ {0} /\ n \in Nat
            /\ mConfig'.queueShareFactor = f /\ mConfig'.queueType = mConfig.queueType
            /\ mConfig'.workersPerCore = mConfig.workersPerCore
            /\ mConfig.queueType \in {"EXCLUSIVE", "SHARED"}
        BY <2>1, PoolAssumption DEF CheckConfig, PoolInv, Typing, Config
      <3>2. ASSUME pool' = "checked" PROVE mJobQueueCount' * f = mJobWorkerCount'
        <4>1. mJobQueueCount' = QueueCount(n) /\ mJobWorkerCount' = n
          BY <2>1, <3>2 DEF CheckConfig
        <4>2. CASE mConfig.queueType = "EXCLUSIVE"
          BY <3>1, <4>1, <4>2 DEF QueueCount, SharesInv
        <4>3. CASE mConfig.queueType = "SHARED"
          BY <3>1, <4>1, <4>3, ExactQuotient DEF QueueCount, SharesInv
        <4>4. QED
          BY <3>1, <4>2, <4>3
      <3>3. QED
        BY <2>1, <3>1, <3>2 DEF CheckConfig, SharesInv, Built
    <2>2. CASE CreateAndAssign
      BY <2>2 DEF CreateAndAssign, SharesInv, Built
    <2>3. CASE UNCHANGED layout /\ (Built' => Built) /\ (pool' = "checked" => pool = "checked")
      BY <2>3 DEF SharesInv, layout
    <2>4. ASSUME NEW c \in Callers, addJob(c) PROVE UNCHANGED layout /\ pool' = pool
      BY <2>4 DEF addJob, CallRoundRobin, CallLeastJobs, CallRandom, Calls, LockNext, AdvanceNext,
         AddToWorker
    <2>5. ASSUME Timer \/ (\E w \in Workers : WorkerDone(w)) \/ UNCHANGED vars
          PROVE  UNCHANGED layout /\ pool' = pool
      BY <2>5 DEF Timer, TimerTests, TimerWakes, TimerReads, TimerPublishes, WorkerDone, vars
    <2>6. ASSUME StartAll \/ StopTimer \/ JoinAndDelete \/ UseUnbuilt
          PROVE  UNCHANGED layout /\ (Built' => Built) /\ pool' # "checked"
      BY <2>6 DEF StartAll, StopTimer, JoinAndDelete, UseUnbuilt, Built
    <2>7. QED
      BY <2>1, <2>2, <2>3, <2>4, <2>5, <2>6 DEF Next, Construct, Finished, Built
  <1>3. PoolInv /\ Given /\ SharesInv => QueuesAssigned
    <2> SUFFICES ASSUME PoolInv, Given, SharesInv, Built PROVE QueuesAssigned
      BY DEF QueuesAssigned
    <2> DEFINE f == mConfig.queueShareFactor
    <2>1. f \in Nat \ {0} /\ mJobQueueCount \in Nat
      BY DEF PoolInv, Typing, Config
    <2>2. Workers = 0 .. mJobQueueCount * f - 1 /\ queueOf = [i \in Workers |-> i \div f]
      BY DEF SharesInv, Given, Workers
    <2>3. ASSUME NEW q \in 0 .. mJobQueueCount - 1
          PROVE  Cardinality({w \in Workers : queueOf[w] = q}) = f
      <3>1. {w \in Workers : queueOf[w] = q} = {w \in 0 .. mJobQueueCount * f - 1 : w \div f = q}
        BY <2>2
      <3>2. Cardinality({w \in 0 .. mJobQueueCount * f - 1 : w \div f = q}) = f
        BY <2>1, GroupSize
      <3>3. QED
        BY <3>1, <3>2
    <2>4. f \in 1 .. (IF mConfig.queueType = "EXCLUSIVE" THEN 1 ELSE f)
      BY <2>1 DEF SharesInv
    <2>5. QED
      BY <2>2, <2>3, <2>4 DEF QueuesAssigned
  <1>4. QED
    BY <1>1, <1>2, <1>3, PoolInvariant, GivenInvariant, PTL DEF Spec

=============================================================================
