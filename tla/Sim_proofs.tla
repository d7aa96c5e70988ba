----------------------------- MODULE Sim_proofs -----------------------------
(***************************************************************************)
(* The threads of the simulation use the queue as Queue says it is used,   *)
(* so that what is proved about Queue holds in the simulation; and main    *)
(* frees nothing that a thread still uses.                                 *)
(***************************************************************************)
EXTENDS ProducerConsumerSim, Queue_proofs

(* The item a producer would push again is an item.                        *)
SavedIsItem ==
    /\ arg \in [Producers -> Items \cup {Garbage}]
    /\ m_valid_saved_work_item \in [Producers -> BOOLEAN]
    /\ \A p \in Producers : m_valid_saved_work_item[p] => arg[p] \in Items

(* Only Produce changes the saved item.                                    *)
LEMMA SavedInductive == SavedIsItem /\ [SimNext]_simvars => SavedIsItem'
  <1> SUFFICES ASSUME SavedIsItem, [SimNext]_simvars PROVE SavedIsItem'
    OBVIOUS
  <1> USE DEF SavedIsItem
  <1>1. CASE UNCHANGED <<arg, m_valid_saved_work_item>>
    BY <1>1
  <1>2. ASSUME NEW p \in Producers, Produce(p) PROVE SavedIsItem'
    BY <1>2 DEF Produce, PushCall
  <1>3. ASSUME NEW p \in Producers, Pushing(p) PROVE UNCHANGED <<arg, m_valid_saved_work_item>>
    BY <1>3 DEF Pushing, PushClaim, PushLock, PushUnlock, PushCopy, PushTimedOut
  <1>4. ASSUME NEW p \in Producers, Pushed(p) PROVE SavedIsItem'
    BY <1>4 DEF Pushed, PushPost
  <1>5. ASSUME NEW c \in Consumers, Consume(c) \/ Popping(c)
        PROVE  UNCHANGED <<arg, m_valid_saved_work_item>>
    BY <1>5 DEF Consume, Popping, PopStep, PopCall, PopTimedOut, PopClaim, PopLock, PopUnlock,
       PopCopy, PopPost, pvars
  <1>6. ASSUME NEW t, Wake(t) \/ Exit(t) PROVE UNCHANGED <<arg, m_valid_saved_work_item>>
    BY <1>6 DEF Wake, Exit, vars, pvars
  <1>7. ASSUME Main PROVE SavedIsItem'
    <2>1. UNCHANGED vars /\ (UNCHANGED m_valid_saved_work_item \/ \E p \in Producers : NewProducer(p))
      BY <1>7 DEF Main, NewConsumer, NewProducer, ConstructConsumer, ConstructProducer, DeleteConsumer,
         DeleteProducer, Stop, Join, StartRun, RunOver, ProducersDeleted, DrainOver, ConsumersDeleted, DeleteQueue, MainMoves, wvars
    <2>2. QED
      BY <2>1 DEF vars, pvars, NewProducer, ConstructProducer
  <1>8. CASE UNCHANGED simvars
    BY <1>8 DEF simvars, wvars, vars, pvars
  <1>9. QED
    BY <1>1, <1>2, <1>3, <1>4, <1>5, <1>6, <1>7, <1>8
    DEF SimNext, ProducerThread, ConsumerThread, Finished

(* A step of the simulation is a step of the queue or does not touch it.   *)
LEMMA SimStepIsQueueStep == SavedIsItem /\ [SimNext]_simvars => [Next]_vars
  <1> SUFFICES ASSUME SavedIsItem, SimNext PROVE Next \/ UNCHANGED vars
    BY DEF simvars, wvars
  <1>1. ASSUME NEW p \in Producers, Produce(p) PROVE Next
    BY <1>1 DEF Produce, Next, SavedIsItem
  <1>2. ASSUME NEW p \in Producers, Pushing(p) \/ Pushed(p) PROVE Next
    BY <1>2 DEF Pushing, Pushed, Next, PushStep
  <1>3. ASSUME NEW c \in Consumers, Consume(c) \/ Popping(c) PROVE Next
    BY <1>3 DEF Consume, Popping, Next
  <1>4. ASSUME NEW t, Wake(t) \/ Exit(t) PROVE UNCHANGED vars
    BY <1>4 DEF Wake, Exit
  <1>5. ASSUME Main PROVE UNCHANGED vars
    BY <1>5 DEF Main, NewConsumer, NewProducer, ConstructConsumer, ConstructProducer, DeleteConsumer,
       DeleteProducer, Stop, Join, StartRun, RunOver, ProducersDeleted, DrainOver,
       ConsumersDeleted, DeleteQueue, MainMoves, wvars
  <1>6. QED
    BY <1>1, <1>2, <1>3, <1>4, <1>5 DEF SimNext, ProducerThread, ConsumerThread, Finished, simvars, wvars

(* The threads of the simulation call push and pop only in ways Queue      *)
(* allows: the simulation implements Queue.                                *)
THEOREM SimImplementsQueue == SimSpec => Spec
  <1>1. SimInit => Init /\ SavedIsItem
    BY DEF SimInit, WorkersInit, Init, SavedIsItem
  <1>2. QED
    BY <1>1, SavedInductive, SimStepIsQueueStep, PTL DEF SimSpec, Spec

-----------------------------------------------------------------------------
(* The life of the threads.                                                *)

(* A call of push or pop is in progress only while its thread loops, and   *)
(* main moves on from an array only when all of its threads are joined.    *)
Lifecycle ==
    /\ thread \in [Threads -> {"none", "sleeping", "looping", "exited", "joined"}]
    /\ ppc \in [Producers -> PC] /\ cpc \in [Consumers -> PC]
    /\ \A p \in Producers : thread[P(p)] # "looping" => ppc[p] = "idle"
    /\ \A c \in Consumers : thread[C(c)] # "looping" => cpc[c] = "idle"
    /\ main \in {"drain", "delete_consumers", "delete_queue", "done"} => AllJoined(ProducerThreads)
    /\ main \in {"delete_queue", "done"} => AllJoined(ConsumerThreads)

(* Every step of main and of the threads respects the life of the threads. *)
LEMMA LifecycleInductive == Lifecycle /\ [SimNext]_simvars => Lifecycle'
  <1> SUFFICES ASSUME Lifecycle, [SimNext]_simvars PROVE Lifecycle'
    OBVIOUS
  <1>0. /\ \A p \in Producers : P(p) \in Threads /\ P(p) \in ProducerThreads
        /\ \A c \in Consumers : C(c) \in Threads /\ C(c) \in ConsumerThreads
        /\ \A p, q \in Producers : P(p) = P(q) => p = q
        /\ \A c, d \in Consumers : C(c) = C(d) => c = d
        /\ \A p \in Producers, c \in Consumers : P(p) # C(c)
    BY DEF Threads, ProducerThreads, ConsumerThreads, P, C
  <1>t. ProducerThreads \subseteq Threads /\ ConsumerThreads \subseteq Threads
    BY DEF Threads
  (* A thread that is not in a call, or goes on looping, changes its state. *)
  <1>m. ASSUME NEW t \in Threads, NEW s \in {"sleeping", "looping", "exited", "joined"},
               thread[t] # "joined",
               \/ s = "looping"
               \/ thread[t] # "looping"
               \/ /\ \A p \in Producers : t = P(p) => ppc[p] = "idle"
                  /\ \A c \in Consumers : t = C(c) => cpc[c] = "idle",
               thread' = [thread EXCEPT ![t] = s], UNCHANGED <<ppc, cpc, main>>
        PROVE  Lifecycle'
    <2>1. \A u \in Threads : thread'[u] = IF u = t THEN s ELSE thread[u]
      BY <1>m DEF Lifecycle
    <2>2. \A p \in Producers : thread'[P(p)] # "looping" => ppc'[p] = "idle"
      BY <1>0, <1>m, <2>1 DEF Lifecycle
    <2>3. \A c \in Consumers : thread'[C(c)] # "looping" => cpc'[c] = "idle"
      BY <1>0, <1>m, <2>1 DEF Lifecycle
    <2>4. \A u \in Threads : thread[u] = "joined" => thread'[u] = "joined"
      BY <1>m, <2>1
    <2>5. QED
      BY <1>m, <1>t, <2>2, <2>3, <2>4 DEF Lifecycle, AllJoined
  <1>1. ASSUME NEW t \in Threads, Wake(t), UNCHANGED main PROVE Lifecycle'
    BY <1>1, <1>m DEF Wake, vars, pvars, cvars
  <1>2. ASSUME NEW p \in Producers, ppc[p] = "idle", Exit(P(p)), UNCHANGED main PROVE Lifecycle'
    BY <1>0, <1>2, <1>m DEF Exit, vars, pvars, cvars
  <1>3. ASSUME NEW c \in Consumers, cpc[c] = "idle", Exit(C(c)), UNCHANGED main PROVE Lifecycle'
    BY <1>0, <1>3, <1>m DEF Exit, vars, pvars, cvars
  (* A thread that takes a step of its call. *)
  <1>4. ASSUME NEW p \in Producers, Produce(p) \/ Pushing(p) \/ Pushed(p), UNCHANGED main PROVE Lifecycle'
    <2>1. /\ \E v \in PC : ppc' = [ppc EXCEPT ![p] = v]
          /\ UNCHANGED <<cpc, thread, main>>
          /\ thread[P(p)] = "looping"
      BY <1>4 DEF Produce, Pushing, Pushed, PushCall, PushClaim, PushLock, PushUnlock, PushCopy,
         PushTimedOut, PushPost, cvars, PC, Lifecycle
    <2>2. QED
      BY <1>0, <2>1 DEF Lifecycle, AllJoined
  <1>5. ASSUME NEW c \in Consumers, Consume(c) \/ Popping(c), UNCHANGED main PROVE Lifecycle'
    <2>1. /\ \E v \in PC : cpc' = [cpc EXCEPT ![c] = v]
          /\ UNCHANGED <<ppc, thread, main>>
          /\ thread[C(c)] = "looping"
      BY <1>5 DEF Consume, Popping, PopStep, PopCall, PopTimedOut, PopClaim, PopLock, PopUnlock,
         PopCopy, PopPost, pvars, PC, Lifecycle
    <2>2. QED
      BY <1>0, <2>1 DEF Lifecycle, AllJoined
  <1>6. ASSUME NEW c \in Consumers, NewConsumer(c) PROVE Lifecycle'
    BY <1>0, <1>6, <1>m DEF NewConsumer, ConstructConsumer, StartThread, vars, pvars, cvars
  <1>7. ASSUME NEW p \in Producers, NewProducer(p) PROVE Lifecycle'
    BY <1>0, <1>7, <1>m DEF NewProducer, ConstructProducer, StartThread, vars, pvars, cvars
  <1>8. ASSUME NEW p \in Producers, DeleteProducer(p) PROVE Lifecycle'
    <2>1. CASE Join(P(p))
      BY <1>0, <1>8, <2>1, <1>m DEF Join, DeleteProducer, DeleteConsumer, vars, pvars, cvars
    <2>2. CASE UNCHANGED <<thread, ppc, cpc, main>>
      BY <2>2 DEF Lifecycle, AllJoined
    <2>3. QED
      BY <1>8, <2>1, <2>2 DEF DeleteProducer, Stop, vars, pvars, cvars
  <1>9. ASSUME NEW c \in Consumers, DeleteConsumer(c) PROVE Lifecycle'
    <2>1. CASE Join(C(c))
      BY <1>0, <1>9, <2>1, <1>m DEF Join, DeleteProducer, DeleteConsumer, vars, pvars, cvars
    <2>2. CASE UNCHANGED <<thread, ppc, cpc, main>>
      BY <2>2 DEF Lifecycle, AllJoined
    <2>3. QED
      BY <1>9, <2>1, <2>2 DEF DeleteConsumer, Stop, vars, pvars, cvars
  <1>10. CASE StartRun \/ RunOver \/ ProducersDeleted \/ DrainOver \/ ConsumersDeleted \/ DeleteQueue
    BY <1>10 DEF StartRun, RunOver, ProducersDeleted, DrainOver, ConsumersDeleted, DeleteQueue,
       MainMoves, wvars, vars, pvars, cvars, Lifecycle, AllJoined
  <1>11. CASE UNCHANGED simvars
    BY <1>11 DEF simvars, wvars, vars, pvars, cvars, Lifecycle, AllJoined
  <1>12. QED
    BY <1>0, <1>1, <1>2, <1>3, <1>4, <1>5, <1>6, <1>7, <1>8, <1>9, <1>10, <1>11
    DEF SimNext, Main, ProducerThread, ConsumerThread, Finished

(* The life of the threads is respected in every reachable state.          *)
LEMMA LifecycleInvariant == SimSpec => []Lifecycle
  <1>1. SimInit => Lifecycle
    BY DEF SimInit, WorkersInit, Init, Lifecycle, PC, Threads, ProducerThreads, ConsumerThreads
  <1>2. QED
    BY <1>1, LifecycleInductive, PTL DEF SimSpec

(* When every thread is joined no call is in progress.                     *)
LEMMA NobodyLeft ==
    ASSUME Lifecycle, main \in {"delete_queue", "done"}
    PROVE  /\ AllJoined(Threads)
           /\ PushersInside = 0 /\ PushersHolding = 0 /\ PushersCounted = 0 /\ PushersCopying = 0
           /\ PoppersInside = 0 /\ PoppersHolding = 0 /\ PoppersCounted = 0 /\ PoppersCopying = 0
  <1>1. AllJoined(ProducerThreads) /\ AllJoined(ConsumerThreads)
    BY DEF Lifecycle
  <1>2. AllJoined(Threads)
    BY <1>1 DEF AllJoined, Threads
  <1>3. /\ \A p \in Producers : ppc[p] = "idle"
        /\ \A c \in Consumers : cpc[c] = "idle"
    BY <1>1 DEF AllJoined, ProducerThreads, ConsumerThreads, Lifecycle
  <1>4. \A S \in {{"crit"}, {"copy"}, {"lock", "crit"}, {"copy", "post"}, {"lock", "crit", "copy", "post"}} :
           Among(ppc, S) = {} /\ Among(cpc, S) = {}
    BY <1>3 DEF Among, Lifecycle
  <1>5. QED
    BY <1>2, <1>4, FS_EmptySet DEF PushersInside, PushersHolding, PushersCounted, PushersCopying,
       PoppersInside, PoppersHolding, PoppersCounted, PoppersCopying

(* main frees an object, and in the end the queue, only when no thread     *)
(* uses it any more, for any number of threads.                            *)
THEOREM DeleteIsSafe == SimSpec => []NoUseAfterDelete
  <1>1. Lifecycle /\ Accounting => NoUseAfterDelete
    <2> SUFFICES ASSUME Lifecycle, Accounting PROVE NoUseAfterDelete
      OBVIOUS
    <2>1. /\ \A p \in Producers : thread[P(p)] = "joined" => ppc[p] = "idle"
          /\ \A c \in Consumers : thread[C(c)] = "joined" => cpc[c] = "idle"
      BY DEF Lifecycle
    <2>2. ASSUME main \in {"delete_queue", "done"} PROVE AllJoined(Threads) /\ m_lock = 1
      BY <2>2, NobodyLeft DEF Accounting, MutualExclusion, TypeOK
    <2>3. QED
      BY <2>1, <2>2 DEF NoUseAfterDelete
  <1>2. QED
    BY <1>1, LifecycleInvariant, SimImplementsQueue, AccountingInvariant, PTL

(* The numbers ~Queue prints are the numbers of items stored and handed    *)
(* out, and the tokens are all back, for any number of threads.            *)
THEOREM ReportCorrect == SimSpec => []ReportIsExact
  <1>1. Lifecycle /\ Accounting /\ CountsMatchHistories => ReportIsExact
    <2> SUFFICES ASSUME Lifecycle, Accounting, CountsMatchHistories, main \in {"delete_queue", "done"}
                 PROVE  /\ m_pushed_count = Len(sent) /\ m_popped_count = Len(received)
                        /\ m_pop_sem = Len(sent) - Len(received)
                        /\ m_push_sem + m_pop_sem = Size
      BY DEF ReportIsExact
    <2>1. /\ PushersHolding = 0 /\ PushersCounted = 0 /\ PushersCopying = 0
          /\ PoppersHolding = 0 /\ PoppersCounted = 0 /\ PoppersCopying = 0
      BY NobodyLeft
    <2>2. Len(sent) \in Nat /\ Len(received) \in Nat
      BY DEF Accounting, TypeOK
    <2>3. QED
      BY <2>1, <2>2, QueueAssumption
      DEF Accounting, TypeOK, TokenConservation, CountIsTokens, CountsMatchHistories
  <1>2. QED
    BY <1>1, LifecycleInvariant, SimImplementsQueue, AccountingInvariant, HistoriesInvariant, PTL

-----------------------------------------------------------------------------
(* Types.                                                                  *)

(* The part of WorkersTypeOK that is not about the queue.                  *)
SimTypes ==
    /\ thread \in [Threads -> {"none", "sleeping", "looping", "exited", "joined"}]
    /\ m_run \in [Threads -> BOOLEAN]
    /\ m_next_item_id \in [Producers -> Nat]
    /\ m_valid_saved_work_item \in [Producers -> BOOLEAN]
    /\ main \in Stages

(* Every step keeps the types of main, the threads and the producers.      *)
LEMMA SimTypesInductive == SimTypes /\ [SimNext]_simvars => SimTypes'
  <1> SUFFICES ASSUME SimTypes, [SimNext]_simvars PROVE SimTypes'
    OBVIOUS
  <1> USE DEF SimTypes
  <1>0. \A p \in Producers : IdStride * p \in Nat
    BY WorkersAssumption
  <1>1. ASSUME NEW t, Wake(t) \/ Exit(t) \/ Stop(t) \/ Join(t), UNCHANGED main PROVE SimTypes'
    BY <1>1 DEF Wake, Exit, Stop, Join
  <1>2. ASSUME NEW p \in Producers, Produce(p), UNCHANGED main PROVE SimTypes'
    <2>1. UNCHANGED <<thread, m_run>>
      BY <1>2 DEF Produce
    <2>2. m_next_item_id' \in [Producers -> Nat]
      BY <1>2 DEF Produce
    <2>3. m_valid_saved_work_item' \in [Producers -> BOOLEAN]
      BY <1>2, Zenon DEF Produce
    <2>4. QED
      BY <1>2, <2>1, <2>2, <2>3
  <1>3. ASSUME NEW p \in Producers, Pushing(p) \/ Pushed(p), UNCHANGED main PROVE SimTypes'
    BY <1>3 DEF Pushing, Pushed
  <1>4. ASSUME NEW c \in Consumers, Consume(c) \/ Popping(c), UNCHANGED main PROVE SimTypes'
    BY <1>4 DEF Consume, Popping
  <1>5. ASSUME NEW c \in Consumers, NewConsumer(c) PROVE SimTypes'
    BY <1>5 DEF NewConsumer, ConstructConsumer, StartThread
  <1>6. ASSUME NEW p \in Producers, NewProducer(p) PROVE SimTypes'
    BY <1>0, <1>6 DEF NewProducer, ConstructProducer, StartThread
  <1>7. ASSUME NEW from \in Stages, NEW to \in Stages, MainMoves(from, to) PROVE SimTypes'
    BY <1>7 DEF MainMoves, wvars
  <1>8. CASE StartRun \/ RunOver \/ ProducersDeleted \/ DrainOver \/ ConsumersDeleted \/ DeleteQueue
    BY <1>7, <1>8 DEF StartRun, RunOver, ProducersDeleted, DrainOver, ConsumersDeleted, DeleteQueue, Stages
  <1>9. CASE UNCHANGED simvars
    BY <1>9 DEF simvars, wvars
  <1>10. QED
    BY <1>1, <1>2, <1>3, <1>4, <1>5, <1>6, <1>8, <1>9
    DEF SimNext, Main, DeleteProducer, DeleteConsumer, ProducerThread, ConsumerThread, Finished

(* main, the threads and the producers keep their types throughout.        *)
LEMMA SimTypesInvariant == SimSpec => []SimTypes
  <1>1. SimInit => SimTypes
    BY DEF SimInit, WorkersInit, SimTypes, Stages
  <1>2. QED
    BY <1>1, SimTypesInductive, PTL DEF SimSpec

(* main, the threads, the producers' own state and the queue keep their    *)
(* types, for any number of threads; no semaphore goes below zero.         *)
THEOREM SimTypeCorrect == SimSpec => []SimTypeOK
  <1>1. SimTypes /\ TypeOK => SimTypeOK
    BY DEF SimTypes, SimTypeOK, WorkersTypeOK
  <1>2. QED
    BY <1>1, SimTypesInvariant, SimImplementsQueue, TypeCorrect, PTL

-----------------------------------------------------------------------------
(* The drain.                                                              *)

(* What a step of the queue does to it once no push is in progress: a pop  *)
(* has decremented the count it loaded, which is still the count.          *)
LEMMA PopOnlyEmpties ==
    ASSUME Accounting, NEW c \in Consumers, PopCall(c) \/ PopStep(c)
    PROVE  UNCHANGED <<m_pushed_count, sent, m_arr>> /\ m_cur_count' <= m_cur_count
  <1>1. m_cur_count \in Int
    BY DEF Accounting, TypeOK
  <1>2. CASE PopUnlock(c)
    BY <1>1, <1>2 DEF PopUnlock, Accounting, MutualExclusion
  <1>3. CASE PopCall(c) \/ PopTimedOut(c) \/ PopClaim(c) \/ PopLock(c) \/ PopCopy(c) \/ PopPost(c)
    BY <1>1, <1>3 DEF PopCall, PopTimedOut, PopClaim, PopLock, PopCopy, PopPost, shared
  <1>4. QED
    BY <1>2, <1>3 DEF PopStep

(* Once the producers are deleted the queue only empties: no push is in    *)
(* progress and none begins, for any number of threads.                    *)
THEOREM DrainOnlyEmpties == SimSpec => NothingPushedAfterProducers
  <1>1. ASSUME Lifecycle, SimTypes, Accounting, [SimNext]_simvars,
               main \notin {"create", "run", "delete_producers"}
        PROVE  UNCHANGED <<m_pushed_count, sent, m_arr>> /\ m_cur_count' <= m_cur_count
    <2> DEFINE Goal == UNCHANGED <<m_pushed_count, sent, m_arr>> /\ m_cur_count' <= m_cur_count
    <2>1. \A p \in Producers : thread[P(p)] = "joined" /\ ppc[p] = "idle"
      BY <1>1 DEF Lifecycle, SimTypes, Stages, AllJoined, ProducerThreads
    <2>2. m_cur_count \in Int
      BY <1>1 DEF Accounting, TypeOK
    <2>3. ASSUME UNCHANGED vars PROVE Goal
      BY <2>2, <2>3 DEF vars, shared
    <2>4. ASSUME NEW p \in Producers, ProducerThread(p) PROVE Goal
      BY <2>1, <2>4 DEF ProducerThread, Wake, Exit, Produce, Pushing, Pushed, PushClaim, PushLock,
         PushUnlock, PushCopy, PushTimedOut, PushPost
    <2>5. ASSUME NEW c \in Consumers, ConsumerThread(c) PROVE Goal
      <3>1. CASE Wake(C(c)) \/ Exit(C(c))
        BY <2>3, <3>1 DEF Wake, Exit
      <3>2. CASE Consume(c) \/ Popping(c)
        BY <1>1, <3>2, PopOnlyEmpties DEF Consume, Popping
      <3>3. QED
        BY <2>5, <3>1, <3>2 DEF ConsumerThread
    <2>6. ASSUME Main PROVE UNCHANGED vars
      BY <2>6 DEF Main, NewConsumer, NewProducer, ConstructConsumer, ConstructProducer, DeleteConsumer,
         DeleteProducer, Stop, Join, StartRun, RunOver, ProducersDeleted, DrainOver,
         ConsumersDeleted, DeleteQueue, MainMoves, wvars
    <2>7. CASE UNCHANGED simvars
      BY <2>3, <2>7 DEF simvars, wvars
    <2>8. QED
      BY <1>1, <2>3, <2>4, <2>5, <2>6, <2>7 DEF SimNext, Finished
  <1>2. QED
    BY <1>1, SimTypesInvariant, LifecycleInvariant, SimImplementsQueue, AccountingInvariant, PTL
    DEF SimSpec, NothingPushedAfterProducers

-----------------------------------------------------------------------------
(* Every item once.                                                        *)

(* No producer cooks its way into the ids of the next one: one of the ids  *)
(* up to there is beyond the bound.                                        *)
StrideSuffices == \A p \in Producers : \E n \in IdStride * p .. IdStride * (p + 1) : n \notin Items

Ids(p) == IdStride * p .. IdStride * (p + 1) - 1

(* The id up to which the items of a producer are in the queue.            *)
Stored(p) ==
    IF m_valid_saved_work_item[p] /\ ppc[p] # "post" THEN m_next_item_id[p] - 1 ELSE m_next_item_id[p]

(* The ids of two producers are apart.                                     *)
LEMMA IdsApart ==
    ASSUME NEW p \in Producers, NEW q \in Producers, p # q
    PROVE  \A n \in Ids(p) : n \notin Ids(q)
  <1>1. p \in Nat /\ q \in Nat /\ IdStride \in Nat
    BY WorkersAssumption
  <1>2. ASSUME NEW a \in Nat, NEW b \in Nat, a < b PROVE IdStride * (a + 1) <= IdStride * b
    <2>1. PICK d \in Nat : b = a + 1 + d
      <3>1. b - a - 1 \in Nat /\ b = a + 1 + (b - a - 1)
        BY <1>2
      <3>2. QED
        BY <3>1
    <2>2. IdStride * d \in Nat /\ IdStride * b = IdStride * (a + 1) + IdStride * d
      BY <1>1, <2>1
    <2>3. IdStride * (a + 1) \in Nat /\ IdStride * b \in Nat
      BY <1>1, <1>2
    <2>4. QED
      BY <2>2, <2>3
  <1>3. IdStride * (p + 1) <= IdStride * q \/ IdStride * (q + 1) <= IdStride * p
    BY <1>1, <1>2
  <1>4. /\ IdStride * p \in Nat /\ IdStride * (p + 1) \in Nat
        /\ IdStride * q \in Nat /\ IdStride * (q + 1) \in Nat
    BY <1>1
  <1>5. QED
    BY <1>3, <1>4 DEF Ids

(* What is known of one producer: nothing of it is in the queue before it  *)
(* is constructed; later its items are, in order, up to the one it is      *)
(* about to store.                                                         *)
ItemsOf(p) ==
    /\ IdStride * p \in Nat /\ IdStride * (p + 1) \in Nat
    /\ thread[P(p)] = "none" =>
          /\ ~m_valid_saved_work_item[p] /\ ppc[p] = "idle"
          /\ \A k \in DOMAIN sent : sent[k] \notin Ids(p)
    /\ thread[P(p)] # "none" =>
          /\ IdStride * p <= m_next_item_id[p] /\ m_next_item_id[p] <= IdStride * (p + 1)
          /\ IdStride * p .. m_next_item_id[p] - 1 \subseteq Items
          /\ m_valid_saved_work_item[p] =>
                 IdStride * p < m_next_item_id[p] /\ arg[p] = m_next_item_id[p] - 1
          /\ ppc[p] # "idle" => m_valid_saved_work_item[p]
          /\ \A k \in DOMAIN sent : sent[k] \in Ids(p) => sent[k] < Stored(p)
          /\ \A n \in IdStride * p .. Stored(p) - 1 : \E k \in DOMAIN sent : sent[k] = n
          /\ \A k, l \in DOMAIN sent :
                 sent[k] \in Ids(p) /\ sent[l] \in Ids(p) /\ k < l => sent[k] < sent[l]

ItemsInv == \A p \in Producers : ItemsOf(p)

(* A step that changes neither the items stored nor what p is about to     *)
(* store leaves ItemsOf(p) alone, once p is constructed.                   *)
LEMMA ItemsKept ==
    ASSUME NEW p \in Producers, ItemsOf(p), UNCHANGED sent,
           thread'[P(p)] = "none" <=> thread[P(p)] = "none",
           m_next_item_id'[p] = m_next_item_id[p],
           m_valid_saved_work_item'[p] <=> m_valid_saved_work_item[p],
           arg'[p] = arg[p], Stored(p)' = Stored(p),
           ppc'[p] = ppc[p] \/ (ppc[p] # "idle" /\ thread[P(p)] # "none")
    PROVE  ItemsOf(p)'
  BY DEF ItemsOf, Ids

(* Every step keeps what is known of the items of each producer.           *)
LEMMA ItemsInductive ==
    ASSUME StrideSuffices, TypeOK, Lifecycle, SimTypes, ItemsInv, [SimNext]_simvars
    PROVE  ItemsInv'
  <1> SUFFICES ASSUME NEW q \in Producers PROVE ItemsOf(q)'
    BY DEF ItemsInv
  <1>0. ItemsOf(q)
    BY DEF ItemsInv
  <1>t. /\ \A p \in Producers : P(p) \in Threads
        /\ \A c \in Consumers : C(c) \in Threads
        /\ \A p \in Producers : P(p) = P(q) => p = q
        /\ \A c \in Consumers : P(q) # C(c)
    BY DEF Threads, ProducerThreads, ConsumerThreads, P, C
  (* Steps that concern neither q nor what is stored. *)
  <1>k. ASSUME UNCHANGED <<sent, arg, ppc, m_next_item_id, m_valid_saved_work_item>>,
               thread'[P(q)] = "none" <=> thread[P(q)] = "none"
        PROVE  ItemsOf(q)'
    BY <1>0, <1>k, ItemsKept DEF Stored
  <1>1. ASSUME NEW t \in Threads, Wake(t) \/ Exit(t) \/ Stop(t) \/ Join(t) PROVE ItemsOf(q)'
    BY <1>k, <1>1, <1>t DEF Wake, Exit, Stop, Join, vars, pvars, SimTypes
  <1>2. ASSUME NEW c \in Consumers, Consume(c) \/ Popping(c) PROVE ItemsOf(q)'
    BY <1>k, <1>2 DEF Consume, Popping, PopStep, PopCall, PopTimedOut, PopClaim, PopLock,
       PopUnlock, PopCopy, PopPost, pvars
  <1>3. ASSUME NEW c \in Consumers, NewConsumer(c) PROVE ItemsOf(q)'
    BY <1>k, <1>3, <1>t DEF NewConsumer, ConstructConsumer, StartThread, vars, pvars, SimTypes
  <1>4. ASSUME NEW p \in Producers, NewProducer(p) PROVE ItemsOf(q)'
    <2>1. UNCHANGED <<sent, arg, ppc>> /\ thread[P(p)] = "none"
      BY <1>4 DEF NewProducer, ConstructProducer, StartThread, vars, pvars
    <2>2. /\ thread' = [thread EXCEPT ![P(p)] = "sleeping"]
          /\ m_next_item_id' = [m_next_item_id EXCEPT ![p] = IdStride * p]
          /\ m_valid_saved_work_item' = [m_valid_saved_work_item EXCEPT ![p] = FALSE]
      BY <1>4 DEF NewProducer, ConstructProducer, StartThread
    <2>3. CASE p = q
      <3>1. /\ thread'[P(q)] = "sleeping" /\ m_next_item_id'[q] = IdStride * q
            /\ ~m_valid_saved_work_item'[q] /\ ppc'[q] = "idle" /\ thread[P(q)] = "none"
        BY <1>0, <1>t, <2>1, <2>2, <2>3 DEF SimTypes, ItemsOf
      <3>2. Stored(q)' = IdStride * q
        BY <3>1 DEF Stored
      <3>3. \A k \in DOMAIN sent' : sent'[k] \notin Ids(q)
        BY <1>0, <2>1, <3>1 DEF ItemsOf
      <3>4. IdStride * q \in Nat /\ IdStride * (q + 1) \in Nat /\ IdStride * q <= IdStride * (q + 1)
        <4>1. IdStride \in Nat /\ q \in Nat
          BY WorkersAssumption
        <4>2. IdStride * (q + 1) = IdStride * q + IdStride /\ IdStride * q \in Nat
          BY <4>1
        <4>3. QED
          BY <4>1, <4>2
      <3>5. QED
        BY <3>1, <3>2, <3>3, <3>4 DEF ItemsOf, Ids
    <2>4. CASE p # q
      <3>1. /\ thread'[P(q)] = thread[P(q)] /\ m_next_item_id'[q] = m_next_item_id[q]
            /\ m_valid_saved_work_item'[q] = m_valid_saved_work_item[q]
        BY <1>t, <2>2, <2>4 DEF SimTypes
      <3>2. QED
        BY <1>0, <2>1, <3>1, ItemsKept DEF Stored
    <2>5. QED
      BY <2>3, <2>4
  <1>5. ASSUME NEW p \in Producers, Produce(p) PROVE ItemsOf(q)'
    <2>1. /\ UNCHANGED <<sent, thread>> /\ ppc[p] = "idle" /\ thread[P(p)] = "looping"
          /\ ppc' = [ppc EXCEPT ![p] = "timedwait"]
      BY <1>5 DEF Produce, PushCall
    <2>2. CASE p # q
      <3>1. /\ m_next_item_id'[q] = m_next_item_id[q] /\ ppc'[q] = ppc[q] /\ arg'[q] = arg[q]
            /\ m_valid_saved_work_item'[q] <=> m_valid_saved_work_item[q]
        BY <1>5, <2>2 DEF Produce, PushCall, SimTypes, TypeOK
      <3>2. QED
        BY <1>0, <2>1, <3>1, ItemsKept DEF Stored
    <2>3. CASE p = q /\ m_valid_saved_work_item[q]
      <3>1. UNCHANGED m_next_item_id /\ UNCHANGED m_valid_saved_work_item /\ arg'[q] = arg[q]
        BY <1>5, <2>3 DEF Produce, PushCall, TypeOK
      <3>2. ppc'[q] = "timedwait" /\ ppc[q] = "idle"
        BY <2>1, <2>3 DEF TypeOK
      <3>3. Stored(q)' = Stored(q)
        BY <2>3, <3>1, <3>2 DEF Stored
      <3>4. QED
        BY <1>0, <2>1, <2>3, <3>1, <3>2, <3>3 DEF ItemsOf, Ids
    <2>4. CASE p = q /\ ~m_valid_saved_work_item[q]
      <3>1. /\ m_next_item_id[q] \in Items /\ m_next_item_id'[q] = m_next_item_id[q] + 1
            /\ m_valid_saved_work_item'[q] /\ arg'[q] = m_next_item_id[q]
        BY <1>5, <2>4 DEF Produce, PushCall, TypeOK, SimTypes
      <3>2. ppc'[q] = "timedwait" /\ ppc[q] = "idle"
        BY <2>1, <2>4 DEF TypeOK
      <3>3. m_next_item_id[q] \in Nat
        BY DEF SimTypes
      <3>4. Stored(q)' = Stored(q)
        BY <2>4, <3>1, <3>2, <3>3 DEF Stored
      <3>5. /\ IdStride * q \in Nat /\ IdStride * (q + 1) \in Nat
            /\ IdStride * q <= m_next_item_id[q] /\ m_next_item_id[q] <= IdStride * (q + 1)
            /\ IdStride * q .. m_next_item_id[q] - 1 \subseteq Items
        BY <1>0, <2>1, <2>4 DEF ItemsOf
      <3>6. PICK n \in IdStride * q .. IdStride * (q + 1) : n \notin Items
        BY DEF StrideSuffices
      <3>7. m_next_item_id[q] < IdStride * (q + 1)
        BY <3>1, <3>3, <3>5, <3>6
      <3>8. IdStride * q .. m_next_item_id'[q] - 1 \subseteq Items
        BY <3>1, <3>3, <3>5
      <3>9. QED
        BY <1>0, <2>1, <2>4, <3>1, <3>2, <3>3, <3>4, <3>5, <3>7, <3>8 DEF ItemsOf, Ids
    <2>5. QED
      BY <2>2, <2>3, <2>4
  <1>6. ASSUME NEW p \in Producers,
               PushClaim(p) \/ PushLock(p) \/ PushUnlock(p) \/ PushTimedOut(p),
               UNCHANGED <<thread, m_next_item_id, m_valid_saved_work_item>>
        PROVE  ItemsOf(q)'
    <2>1. /\ UNCHANGED <<sent, arg>> /\ ppc[p] # "idle" /\ ppc[p] # "post"
          /\ \E v \in PC \ {"post"} : ppc' = [ppc EXCEPT ![p] = v]
      BY <1>6 DEF PushClaim, PushLock, PushUnlock, PushTimedOut, PC
    <2>2. thread[P(p)] # "none"
      BY <2>1 DEF Lifecycle
    <2>3. Stored(q)' = Stored(q)
      BY <1>6, <2>1 DEF Stored, TypeOK
    <2>4. ppc'[q] = ppc[q] \/ (ppc[q] # "idle" /\ thread[P(q)] # "none")
      BY <2>1, <2>2 DEF TypeOK
    <2>5. QED
      BY <1>0, <1>6, <2>1, <2>3, <2>4, ItemsKept
  <1>7. ASSUME NEW p \in Producers, Pushed(p) PROVE ItemsOf(q)'
    <2>1. /\ UNCHANGED <<sent, arg, thread, m_next_item_id>> /\ ppc[p] = "post"
          /\ ppc' = [ppc EXCEPT ![p] = "idle"]
          /\ m_valid_saved_work_item' = [m_valid_saved_work_item EXCEPT ![p] = FALSE]
      BY <1>7 DEF Pushed, PushPost
    <2>2. CASE p # q
      <3>1. ppc'[q] = ppc[q] /\ m_valid_saved_work_item'[q] = m_valid_saved_work_item[q]
        BY <2>1, <2>2 DEF TypeOK, SimTypes
      <3>2. QED
        BY <1>0, <2>1, <3>1, ItemsKept DEF Stored
    <2>3. CASE p = q
      <3>1. ppc'[q] = "idle" /\ ~m_valid_saved_work_item'[q] /\ thread[P(q)] # "none"
        BY <2>1, <2>3 DEF TypeOK, SimTypes, Lifecycle
      <3>2. Stored(q)' = Stored(q)
        BY <2>1, <2>3, <3>1 DEF Stored
      <3>3. QED
        BY <1>0, <2>1, <3>1, <3>2 DEF ItemsOf, Ids
    <2>4. QED
      BY <2>2, <2>3
  (* The item goes into its slot. *)
  <1>8. ASSUME NEW p \in Producers, PushCopy(p),
               UNCHANGED <<thread, m_next_item_id, m_valid_saved_work_item>>
        PROVE  ItemsOf(q)'
    <2>1. /\ ppc[p] = "copy" /\ UNCHANGED arg
          /\ ppc' = [ppc EXCEPT ![p] = "post"]
          /\ sent' = Append(sent, arg[p])
      BY <1>8 DEF PushCopy
    <2> DEFINE n == Len(sent)
    <2>2. /\ n \in Nat /\ DOMAIN sent = 1 .. n /\ DOMAIN sent' = 1 .. n + 1
          /\ \A k \in 1 .. n : sent'[k] = sent[k]
          /\ sent'[n + 1] = arg[p]
      BY <2>1 DEF TypeOK
    <2> HIDE DEF n
    <2>3. ItemsOf(p) /\ thread[P(p)] # "none" /\ m_next_item_id[p] \in Nat
      BY <2>1 DEF ItemsInv, Lifecycle, SimTypes
    <2>4. /\ m_valid_saved_work_item[p] /\ arg[p] = m_next_item_id[p] - 1 /\ arg[p] \in Ids(p)
          /\ arg[p] \in Int
      BY <2>1, <2>3 DEF ItemsOf, Ids
    <2>5. CASE p # q
      <3>1. arg[p] \notin Ids(q)
        BY <2>4, <2>5, IdsApart
      <3>2. ppc'[q] = ppc[q] /\ Stored(q)' = Stored(q) /\ Ids(q)' = Ids(q)
        BY <1>8, <2>1, <2>5 DEF TypeOK, Stored, Ids
      <3>3. QED
        BY <1>0, <1>8, <2>1, <2>2, <3>1, <3>2 DEF ItemsOf
    <2>6. CASE p = q
      <3>1. /\ ppc'[q] = "post" /\ Stored(q) = m_next_item_id[q] - 1 /\ Ids(q)' = Ids(q)
            /\ Stored(q)' = m_next_item_id[q] /\ Stored(q) = arg[q]
        BY <1>8, <2>1, <2>4, <2>6 DEF TypeOK, Stored, Ids
      <3>2. \A k \in DOMAIN sent' : sent'[k] \in Ids(q) => sent'[k] < Stored(q)'
        BY <2>2, <2>3, <2>4, <2>6, <3>1 DEF ItemsOf, Ids
      <3>3. \A m \in IdStride * q .. Stored(q)' - 1 : \E k \in DOMAIN sent' : sent'[k] = m
        <4> SUFFICES ASSUME NEW m \in IdStride * q .. Stored(q)' - 1
                     PROVE  \E k \in DOMAIN sent' : sent'[k] = m
          OBVIOUS
        <4>1. CASE m = arg[q]
          BY <2>2, <2>6, <4>1
        <4>2. CASE m # arg[q]
          <5>1. m \in IdStride * q .. Stored(q) - 1
            BY <2>3, <2>6, <3>1, <4>2 DEF ItemsOf
          <5>2. PICK k \in DOMAIN sent : sent[k] = m
            BY <2>3, <2>6, <5>1 DEF ItemsOf
          <5>3. QED
            BY <2>2, <5>2
        <4>3. QED
          BY <4>1, <4>2
      <3>4. \A k, l \in DOMAIN sent' :
               sent'[k] \in Ids(q) /\ sent'[l] \in Ids(q) /\ k < l => sent'[k] < sent'[l]
        <4> SUFFICES ASSUME NEW k \in 1 .. n + 1, NEW l \in 1 .. n + 1, k < l,
                            sent'[k] \in Ids(q), sent'[l] \in Ids(q)
                     PROVE  sent'[k] < sent'[l]
          BY <2>2
        <4>1. k \in 1 .. n /\ sent'[k] = sent[k] /\ sent[k] \in Ids(q) /\ sent[k] < arg[q]
          BY <2>2, <2>3, <2>6, <3>1 DEF ItemsOf
        <4>2. CASE l = n + 1
          BY <2>2, <2>6, <4>1, <4>2
        <4>3. CASE l \in 1 .. n
          BY <2>2, <2>3, <2>6, <4>1, <4>3 DEF ItemsOf
        <4>4. QED
          BY <2>2, <4>2, <4>3
      <3>5. QED
        BY <1>0, <1>8, <2>1, <2>3, <2>4, <2>6, <3>1, <3>2, <3>3, <3>4 DEF ItemsOf
    <2>7. QED
      BY <2>5, <2>6
  <1>9. CASE StartRun \/ RunOver \/ ProducersDeleted \/ DrainOver \/ ConsumersDeleted \/ DeleteQueue
    BY <1>k, <1>9 DEF StartRun, RunOver, ProducersDeleted, DrainOver, ConsumersDeleted, DeleteQueue,
       MainMoves, wvars, vars, pvars
  <1>10. CASE UNCHANGED simvars
    BY <1>k, <1>10 DEF simvars, wvars, vars, pvars
  <1>11. ASSUME NEW p \in Producers, Pushing(p) PROVE ItemsOf(q)'
    BY <1>6, <1>8, <1>11 DEF Pushing
  <1>12. QED
    BY <1>t, <1>1, <1>2, <1>3, <1>4, <1>5, <1>7, <1>9, <1>10, <1>11
    DEF SimNext, Main, DeleteProducer, DeleteConsumer, ProducerThread, ConsumerThread, Finished

(* Whatever pushes time out and however the producers interleave, each     *)
(* item goes into the queue once and in order, for any number of producers *)
(* that stay within their ids (Producer::work).                            *)
THEOREM ItemsPushedOnce == ASSUME StrideSuffices PROVE SimSpec => []EachItemOnce
  <1>1. SimInit => ItemsInv
    <2> SUFFICES ASSUME SimInit, NEW p \in Producers PROVE ItemsOf(p)
      BY DEF ItemsInv
    <2>1. P(p) \in Threads
      BY DEF Threads, ProducerThreads
    <2>2. IdStride * p \in Nat /\ IdStride * (p + 1) \in Nat
      BY WorkersAssumption
    <2>3. QED
      BY <2>1, <2>2 DEF SimInit, WorkersInit, Init, ItemsOf
  <1>2. TypeOK /\ SimTypes /\ ItemsInv => EachItemOnce
    <2> SUFFICES ASSUME TypeOK, SimTypes, ItemsInv, NEW p \in Producers, thread[P(p)] # "none"
                 PROVE  LET mine == {k \in DOMAIN sent : sent[k] \in Ids(p)}
                        IN  /\ {sent[k] : k \in mine} = IdStride * p .. Stored(p) - 1
                            /\ \A k, l \in mine : k < l => sent[k] < sent[l]
      BY DEF EachItemOnce, Ids, Stored
    <2>1. ItemsOf(p) /\ Stored(p) \in Int /\ Stored(p) <= m_next_item_id[p] /\ m_next_item_id[p] \in Nat
      BY DEF ItemsInv, Stored, SimTypes
    <2> DEFINE mine == {k \in DOMAIN sent : sent[k] \in Ids(p)}
    <2>2. \A k \in mine : sent[k] \in IdStride * p .. Stored(p) - 1
      BY <2>1 DEF ItemsOf, Ids
    <2>3. \A n \in IdStride * p .. Stored(p) - 1 : \E k \in mine : sent[k] = n
      BY <2>1 DEF ItemsOf, Ids
    <2>4. QED
      BY <2>1, <2>2, <2>3 DEF ItemsOf
  <1>3. QED
    BY <1>1, <1>2, ItemsInductive, SimTypesInvariant, LifecycleInvariant, SimImplementsQueue,
       TypeCorrect, PTL DEF SimSpec
=============================================================================
