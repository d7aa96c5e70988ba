-------------------------- MODULE SharedMem_proofs --------------------------
(***************************************************************************)
(* What holds in a run of Chapter14/SharedMemory whatever fails and        *)
(* whoever is killed: the processes use the queue as Queue says it is      *)
(* used, up to the stores of a worker killed inside the critical section,  *)
(* the coordinator's report is the last word, and the items come out in    *)
(* order.                                                                  *)
(***************************************************************************)
EXTENDS SharedMemSim, Queue_fifo_proofs

WorkerRoles == {"producer", "consumer", "consumer2"}
Roles == CoordinatorRoles \cup WorkerRoles

CoordinatorStates ==
    {"none", "fork_producer", "fork_consumer", "wait_producer", "wait_consumer", "unlink", "ended", "failed"}
WorkerStates == {"none", "starting", "running", "ended", "killed"}

(* There are seven processes at most, and three threads.                   *)
LEMMA Actors ==
    /\ Coordinators \cup WorkerProcesses = {Process(k) : k \in Roles}
    /\ WorkerProcesses = {Process(k) : k \in WorkerRoles}
    /\ \A j, k \in Roles : Process(j) = Process(k) => j = k
    /\ Producers = {0} /\ Consumers = {0, 1}
    /\ ProducerProcess[0] = Process("producer")
    /\ ConsumerProcess[0] = Process("consumer") /\ ConsumerProcess[1] = Process("consumer2")
    /\ Threads = {P(0), C(0), C(1)} /\ P(0) # C(0) /\ P(0) # C(1) /\ C(0) # C(1)
  BY OneEach DEF Coordinators, WorkerProcesses, WorkerRoles, Roles, Process, ProducerProcess, ConsumerProcess,
     Threads, ProducerThreads, ConsumerThreads, P, C

-----------------------------------------------------------------------------
(* What the processes do to the queue.                                     *)

(* Worker k runs thread t.                                                 *)
Runs(k, t) ==
    \/ k = "producer" /\ t = P(0)
    \/ k = "consumer" /\ t = C(0)
    \/ k = "consumer2" /\ t = C(1)

(* A step is one of the coordinators, of the main of a worker, of its      *)
(* thread, or a kill.                                                      *)
LEMMA StepsOf ==
    ASSUME ShmNext
    PROVE  \/ Coordinate
           \/ \E k \in WorkerRoles : \E t \in Threads : Runs(k, t) /\ Worker(Process(k), t)
           \/ \E k \in WorkerRoles : \E t \in Threads : Runs(k, t) /\ Killed(Process(k), t)
           \/ ShmProducerThread(0)
           \/ \E c \in {0, 1} : ShmConsumerThread(c)
           \/ UNCHANGED shmvars
  BY Actors DEF ShmNext, Finished, Runs, WorkerRoles

(* The item the producer would push again is an item.                      *)
SavedIsItem ==
    /\ arg \in [Producers -> Items \cup {Garbage}]
    /\ m_valid_saved_work_item \in [Producers -> BOOLEAN]
    /\ \A p \in Producers : m_valid_saved_work_item[p] => arg[p] \in Items

(* What the coordinator and the main of a process do to the queue and its  *)
(* users: at most they construct or destroy one.                           *)
LEMMA MainsLeaveQueue ==
    ASSUME NEW w, NEW t, Coordinate \/ Worker(w, t)
    PROVE  /\ UNCHANGED vars
           /\ UNCHANGED m_valid_saved_work_item \/ \E p \in Producers : ConstructProducer(p)
  BY DEF Coordinate, ForkOrWait, ReportAndUnlink, Worker, AttachFails, AttachAndConstruct, Delete,
     DetachAndUnlink, Stop, Join, ConstructProducer, ConstructConsumer, wvars

(* No step of any process leaves something else than an item to be pushed  *)
(* again.                                                                  *)
LEMMA SavedInductive == SavedIsItem /\ [ShmNext]_shmvars => SavedIsItem'
  <1> SUFFICES ASSUME SavedIsItem, [ShmNext]_shmvars PROVE SavedIsItem'
    OBVIOUS
  <1> USE DEF SavedIsItem
  <1>1. CASE UNCHANGED <<arg, m_valid_saved_work_item>>
    BY <1>1
  <1>2. ASSUME NEW p \in Producers, Produce(p) PROVE SavedIsItem'
    BY <1>2 DEF Produce, PushCall
  <1>3. ASSUME NEW p \in Producers, Pushing(p) PROVE UNCHANGED <<arg, m_valid_saved_work_item>>
    BY <1>3 DEF Pushing, PushClaim, PushLock, PushUnlock, PushCopy, PushTimedOut
  <1>4. ASSUME NEW p \in Producers, Pushed(p) PROVE SavedIsItem'
    BY <1>4 DEF Pushed, PushPost
  <1>5. ASSUME NEW c \in Consumers, Consume(c) \/ Popping(c)
        PROVE  UNCHANGED <<arg, m_valid_saved_work_item>>
    BY <1>5 DEF Consume, Popping, PopStep, PopCall, PopTimedOut, PopClaim, PopLock, PopUnlock,
       PopCopy, PopPost, pvars
  <1>6. ASSUME NEW t, Wake(t) \/ Exit(t) PROVE UNCHANGED <<arg, m_valid_saved_work_item>>
    BY <1>6 DEF Wake, Exit, vars, pvars
  <1>7. ASSUME NEW w, NEW t, Coordinate \/ Worker(w, t) PROVE SavedIsItem'
    <2>1. UNCHANGED vars /\ (UNCHANGED m_valid_saved_work_item \/ \E p \in Producers : ConstructProducer(p))
      BY <1>7, MainsLeaveQueue
    <2>2. QED
      BY <2>1 DEF vars, pvars, ConstructProducer
  <1>8. CASE UNCHANGED shmvars
    BY <1>8 DEF shmvars, wvars, vars, pvars
  <1>9. ASSUME NEW w, NEW t, Killed(w, t) PROVE UNCHANGED <<arg, m_valid_saved_work_item>>
    BY <1>9 DEF Killed, pvars
  <1>10. QED
    BY <1>1, <1>2, <1>3, <1>4, <1>5, <1>6, <1>7, <1>8, <1>9
    DEF ShmNext, ShmProducerThread, ShmConsumerThread, ShmPush, ShmPop, Finished

(* What a process does to the queue while it lives is a step of Queue.     *)
LEMMA ShmStepIsQueueStep ==
    ASSUME SavedIsItem, [ShmNext]_shmvars
    PROVE  \/ [Next]_vars
           \/ \E k \in WorkerRoles : \E t \in Threads : Runs(k, t) /\ Killed(Process(k), t)
  <1>1. ASSUME NEW p \in Producers, Produce(p) PROVE Next
    BY <1>1 DEF Produce, Next, SavedIsItem
  <1>2. ASSUME NEW p \in Producers, Pushing(p) \/ Pushed(p) PROVE Next
    BY <1>2 DEF Pushing, Pushed, Next, PushStep
  <1>3. ASSUME NEW c \in Consumers, Consume(c) \/ Popping(c) PROVE Next
    BY <1>3 DEF Consume, Popping, Next
  <1>4. ASSUME NEW t, Wake(t) \/ Exit(t) PROVE UNCHANGED vars
    BY <1>4 DEF Wake, Exit
  <1>5. ASSUME NEW w, NEW t, Coordinate \/ Worker(w, t) PROVE UNCHANGED vars
    BY <1>5, MainsLeaveQueue
  <1>6. ASSUME UNCHANGED shmvars PROVE UNCHANGED vars
    BY <1>6 DEF shmvars, wvars
  <1>7. QED
    BY <1>1, <1>2, <1>3, <1>4, <1>5, <1>6, StepsOf, Actors
    DEF ShmProducerThread, ShmConsumerThread, ShmPush, ShmPop

(* Also a kill leaves the queue with its types.                            *)
LEMMA ShmTypeInductive ==
    ASSUME TypeOK, SavedIsItem, [ShmNext]_shmvars
    PROVE  TypeOK'
  <1>1. CASE [Next]_vars
    BY <1>1, TypeInductive
  <1>2. ASSUME NEW w, NEW t, Killed(w, t) PROVE TypeOK'
    <2>1. UNCHANGED <<m_arr, sems, pvars, cvars, sent, received>>
      BY <1>2 DEF Killed
    <2>2. m_front' \in Slots /\ m_cur_count' \in Int /\ m_pushed_count' \in Nat /\ m_popped_count' \in Nat
      <3>1. CASE UNCHANGED shared
        BY <3>1 DEF shared, TypeOK
      <3>2. ASSUME NEW p \in Producers, HalfPush(p) PROVE m_front' \in Slots /\ m_cur_count' \in Int /\ m_pushed_count' \in Nat /\ m_popped_count' \in Nat
        BY <3>2 DEF HalfPush, TypeOK
      <3>3. ASSUME NEW c \in Consumers, HalfPop(c) PROVE m_front' \in Slots /\ m_cur_count' \in Int /\ m_pushed_count' \in Nat /\ m_popped_count' \in Nat
        BY <3>3, QueueAssumption DEF HalfPop, TypeOK, Slots
      <3>4. QED
        BY <1>2, <3>1, <3>2, <3>3 DEF Killed
    <2>3. QED
      BY <2>1, <2>2 DEF TypeOK, sems, pvars, cvars
  <1>3. QED
    BY <1>1, <1>2, ShmStepIsQueueStep

-----------------------------------------------------------------------------
(* The processes.                                                          *)

ProcTyped == proc \in [Coordinators \cup WorkerProcesses -> CoordinatorStates \cup WorkerStates]

Over(s) == s \in {"ended", "failed", "killed"}

(* What main, its clones and its workers know of each other.  A process    *)
(* and the clone that a failed exec makes in its place exclude each other, *)
(* and a coordinator is past a waitpid only if the child has ended.        *)
Related(main, producer, p_clone, consumer, c_clone, consumer2, pc_clone) ==
    /\ {main, p_clone, c_clone, pc_clone} \subseteq CoordinatorStates
    /\ {producer, consumer, consumer2} \subseteq WorkerStates
    /\ main # "none"
    /\ main = "fork_producer" => producer = "none" /\ p_clone = "none"
    /\ main \in {"fork_producer", "fork_consumer"} => consumer = "none" /\ c_clone = "none"
    /\ p_clone \in {"none", "fork_consumer", "failed"} => consumer2 = "none" /\ pc_clone = "none"
    /\ producer = "none" \/ p_clone = "none"
    /\ consumer = "none" \/ c_clone = "none"
    /\ consumer2 = "none" \/ pc_clone = "none"
    /\ main \in {"wait_consumer", "unlink", "ended"} => Over(producer) \/ Over(p_clone)
    /\ main \in {"unlink", "ended"} => Over(consumer) \/ Over(c_clone)
    /\ p_clone \in {"unlink", "ended"} => Over(consumer2) \/ Over(pc_clone)

State(k) == proc[Process(k)]

Family ==
    Related(State("main"), State("producer"), State("p_clone"), State("consumer"),
            State("c_clone"), State("consumer2"), State("pc_clone"))

(* When main has waited for its children, and they for theirs, no worker   *)
(* is left.                                                                *)
LEMMA NobodyWorks ==
    ASSUME Family, State("main") \in {"unlink", "ended"}
    PROVE  \A k \in WorkerRoles : State(k) \in {"none", "ended", "killed"}
  BY DEF Family, Related, Over, WorkerRoles, CoordinatorStates, WorkerStates

(* One process changes its state, or two do at once.                       *)
Becomes(k, s) == \A j \in Roles : State(j)' = IF j = k THEN s ELSE State(j)
BecomesBoth(k, s, l, t) ==
    \A j \in Roles : State(j)' = IF j = k THEN s ELSE IF j = l THEN t ELSE State(j)

(* An update of proc at one process is a move of that process alone.       *)
LEMMA OneMoves ==
    ASSUME ProcTyped, NEW k \in Roles, NEW s, proc' = [proc EXCEPT ![Process(k)] = s]
    PROVE  Becomes(k, s)
  <1>1. \A j \in Roles : Process(j) \in DOMAIN proc
    BY Actors DEF ProcTyped
  <1>2. QED
    BY <1>1, Actors DEF ProcTyped, Becomes, State

(* An update of proc at two processes is a move of those two.              *)
LEMMA TwoMove ==
    ASSUME ProcTyped, NEW k \in Roles, NEW l \in Roles, NEW s, NEW t, k # l,
           proc' = [proc EXCEPT ![Process(k)] = s, ![Process(l)] = t]
    PROVE  BecomesBoth(k, s, l, t)
  <1>1. \A j \in Roles : Process(j) \in DOMAIN proc
    BY Actors DEF ProcTyped
  <1>2. QED
    BY <1>1, Actors DEF ProcTyped, BecomesBoth, State

(* The steps of the coordinators, as far as proc is concerned.             *)
CoordinatorMove ==
    \/ /\ State("main") = "fork_producer"
       /\ \/ BecomesBoth("main", "fork_consumer", "producer", "starting")
          \/ BecomesBoth("main", "fork_consumer", "p_clone", "fork_consumer")
          \/ Becomes("main", "failed")
    \/ /\ State("main") = "fork_consumer"
       /\ \/ BecomesBoth("main", "wait_producer", "consumer", "starting")
          \/ BecomesBoth("main", "wait_producer", "c_clone", "wait_producer")
          \/ Becomes("main", "failed")
    \/ /\ State("p_clone") = "fork_consumer"
       /\ \/ BecomesBoth("p_clone", "wait_producer", "consumer2", "starting")
          \/ BecomesBoth("p_clone", "wait_producer", "pc_clone", "wait_producer")
          \/ Becomes("p_clone", "failed")
    \/ \E k \in CoordinatorRoles :
          /\ State(k) = "wait_producer" /\ Becomes(k, "wait_consumer")
          /\ k = "main" => Over(State("producer")) \/ Over(State("p_clone"))
    \/ \E k \in CoordinatorRoles :
          /\ State(k) = "wait_consumer" /\ Becomes(k, "unlink")
          /\ k = "main" => Over(State("consumer")) \/ Over(State("c_clone"))
          /\ k = "p_clone" => Over(State("consumer2")) \/ Over(State("pc_clone"))
    \/ \E k \in CoordinatorRoles : State(k) = "unlink" /\ Becomes(k, "ended")

(* A worker goes on, ends or is killed.                                    *)
WorkerMove(k) ==
    \/ State(k) = "starting" /\ (Becomes(k, "running") \/ Becomes(k, "ended"))
    \/ State(k) = "running" /\ Becomes(k, "ended")
    \/ State(k) \in {"starting", "running"} /\ Becomes(k, "killed")

(* The three outcomes of fork and exec: the child starts, the child        *)
(* carries on as a clone of its parent, or the parent gives up.            *)
LEMMA ForkIs ==
    ASSUME ProcTyped, NEW k \in Roles, NEW l \in Roles, NEW m \in Roles, NEW s,
           k # l, k # m, Fork(<<1, k>>, s, <<1, l>>, <<1, m>>)
    PROVE  BecomesBoth(k, s, l, "starting") \/ BecomesBoth(k, s, m, s) \/ Becomes(k, "failed")
  BY OneMoves, TwoMove DEF Fork, Process

(* Every step of a coordinator or of a clone is one of CoordinatorMove.    *)
LEMMA CoordinatorMoves ==
    ASSUME ProcTyped, Coordinate
    PROVE  CoordinatorMove
  <1>r. CoordinatorRoles \subseteq Roles
    BY DEF Roles
  <1>1. CASE ForkProducer(1)
    <2>1. \/ BecomesBoth("main", "fork_consumer", "producer", "starting")
          \/ BecomesBoth("main", "fork_consumer", "p_clone", "fork_consumer")
          \/ Becomes("main", "failed")
      BY <1>1, ForkIs DEF ForkProducer, Roles, CoordinatorRoles, WorkerRoles
    <2>2. QED
      BY <1>1, <2>1 DEF ForkProducer, CoordinatorMove, State, Process
  <1>2. CASE ForkConsumer(1)
    <2>1. \/ /\ State("main") = "fork_consumer"
             /\ \/ BecomesBoth("main", "wait_producer", "consumer", "starting")
                \/ BecomesBoth("main", "wait_producer", "c_clone", "wait_producer")
                \/ Becomes("main", "failed")
          \/ /\ State("p_clone") = "fork_consumer"
             /\ \/ BecomesBoth("p_clone", "wait_producer", "consumer2", "starting")
                \/ BecomesBoth("p_clone", "wait_producer", "pc_clone", "wait_producer")
                \/ Becomes("p_clone", "failed")
      BY <1>2, ForkIs DEF ForkConsumer, Roles, CoordinatorRoles, WorkerRoles, State, Process
    <2>2. QED
      BY <2>1 DEF CoordinatorMove
  <1>3. ASSUME NEW k \in CoordinatorRoles, WaitProducer(1, k) PROVE CoordinatorMove
    <2>1. Becomes(k, "wait_consumer")
      BY <1>3, <1>r, OneMoves DEF WaitProducer, Moves, Process
    <2>2. QED
      BY <1>3, <2>1 DEF WaitProducer, Moves, CoordinatorMove, State, Process, Ended, Over
  <1>4. ASSUME NEW k \in CoordinatorRoles, WaitConsumer(1, k) PROVE CoordinatorMove
    <2>1. Becomes(k, "unlink")
      BY <1>4, <1>r, OneMoves DEF WaitConsumer, Moves, Process
    <2>2. QED
      BY <1>4, <2>1 DEF WaitConsumer, Moves, CoordinatorMove, State, Process, Ended, Over
  <1>5. ASSUME NEW k \in CoordinatorRoles, ReportAndUnlink(k) PROVE CoordinatorMove
    <2>1. Becomes(k, "ended")
      BY <1>5, <1>r, OneMoves DEF ReportAndUnlink, Moves
    <2>2. QED
      BY <1>5, <2>1 DEF ReportAndUnlink, Moves, CoordinatorMove, State
  <1>6. QED
    BY <1>1, <1>2, <1>3, <1>4, <1>5 DEF Coordinate, ForkOrWait, ForkAndWait

(* What the main of worker k does: its own state, and that of its thread.  *)
LEMMA WorkerMoves ==
    ASSUME ProcTyped, NEW k \in WorkerRoles, NEW t, Worker(Process(k), t)
    PROVE  \/ UNCHANGED proc /\ State(k) = "running" /\ (UNCHANGED thread \/ Join(t))
           \/ State(k) = "starting" /\ Becomes(k, "ended") /\ UNCHANGED thread
           \/ State(k) = "starting" /\ Becomes(k, "running") /\ StartThread(t)
           \/ State(k) = "running" /\ Becomes(k, "ended") /\ UNCHANGED thread /\ thread[t] = "joined"
  <1>r. k \in Roles
    BY DEF Roles
  <1>1. CASE AttachFails(Process(k))
    BY <1>1, <1>r, OneMoves DEF AttachFails, Moves, State, wvars
  <1>2. CASE AttachAndConstruct(Process(k), t)
    BY <1>2, <1>r, OneMoves DEF AttachAndConstruct, Moves, State, ConstructProducer, ConstructConsumer
  <1>3. CASE Delete(Process(k), t)
    BY <1>3 DEF Delete, State, Stop
  <1>4. CASE DetachAndUnlink(Process(k), t)
    BY <1>4, <1>r, OneMoves DEF DetachAndUnlink, Moves, State, wvars
  <1>5. QED
    BY <1>1, <1>2, <1>3, <1>4 DEF Worker

(* A kill changes the state of its process and, if that was updating them, *)
(* counters of the queue.                                                  *)
LEMMA KilledMoves ==
    ASSUME ProcTyped, Family, NEW k \in WorkerRoles, NEW t, Runs(k, t), Killed(Process(k), t)
    PROVE  /\ State(k) \in {"starting", "running"} /\ Becomes(k, "killed")
           /\ UNCHANGED <<name, reported, m_arr, sems, pvars, cvars, sent, received,
                          thread, m_run, m_next_item_id, m_valid_saved_work_item>>
           /\ \/ UNCHANGED shared
              \/ k = "producer" /\ HalfPush(0)
              \/ k = "consumer" /\ HalfPop(0)
              \/ k = "consumer2" /\ HalfPop(1)
  <1>1. k \in Roles /\ State(k) \in WorkerStates
    BY DEF Roles, Family, Related, WorkerRoles
  <1>2. State(k) \in {"starting", "running"} /\ Becomes(k, "killed")
    BY <1>1, OneMoves DEF Killed, Kill, State, Ended, WorkerStates
  <1>3. \A p \in Producers : P(0) = P(p) => p = 0
    BY DEF P
  <1>4. \A c, d \in Consumers : C(c) = C(d) => c = d
    BY DEF C
  <1>5. \A p \in Producers : \A c \in Consumers : P(p) # C(c)
    BY DEF P, C
  <1>6. QED
    BY <1>2, <1>3, <1>4, <1>5, Actors DEF Killed, Runs

(* Every step of a process keeps the family in order.                      *)
LEMMA FamilyKept ==
    ASSUME Family, CoordinatorMove \/ \E k \in WorkerRoles : WorkerMove(k)
    PROVE  Family'
  <1> DEFINE m == State("main")      p == State("producer")
             pk == State("p_clone")  c == State("consumer")
             ck == State("c_clone")  d == State("consumer2")
             dk == State("pc_clone")
  <1>f. Related(m, p, pk, c, ck, d, dk)
    BY DEF Family
  <1>g. SUFFICES Related(m', p', pk', c', ck', d', dk')
    BY DEF Family
  <1>b. ASSUME NEW k, NEW s, Becomes(k, s)
        PROVE  /\ m'  = IF k = "main" THEN s ELSE m
               /\ p'  = IF k = "producer" THEN s ELSE p
               /\ pk' = IF k = "p_clone" THEN s ELSE pk
               /\ c'  = IF k = "consumer" THEN s ELSE c
               /\ ck' = IF k = "c_clone" THEN s ELSE ck
               /\ d'  = IF k = "consumer2" THEN s ELSE d
               /\ dk' = IF k = "pc_clone" THEN s ELSE dk
    BY <1>b DEF Becomes, CoordinatorRoles, WorkerRoles, Roles
  <1>bb. ASSUME NEW k, NEW s, NEW l, NEW t, BecomesBoth(k, s, l, t)
        PROVE  /\ m'  = IF k = "main" THEN s ELSE IF l = "main" THEN t ELSE m
               /\ p'  = IF k = "producer" THEN s ELSE IF l = "producer" THEN t ELSE p
               /\ pk' = IF k = "p_clone" THEN s ELSE IF l = "p_clone" THEN t ELSE pk
               /\ c'  = IF k = "consumer" THEN s ELSE IF l = "consumer" THEN t ELSE c
               /\ ck' = IF k = "c_clone" THEN s ELSE IF l = "c_clone" THEN t ELSE ck
               /\ d'  = IF k = "consumer2" THEN s ELSE IF l = "consumer2" THEN t ELSE d
               /\ dk' = IF k = "pc_clone" THEN s ELSE IF l = "pc_clone" THEN t ELSE dk
    BY <1>bb DEF BecomesBoth, CoordinatorRoles, WorkerRoles, Roles
  <1>s. /\ State("main") = m /\ State("producer") = p /\ State("p_clone") = pk /\ State("consumer") = c
        /\ State("c_clone") = ck /\ State("consumer2") = d /\ State("pc_clone") = dk
    OBVIOUS
  <1> HIDE DEF m, p, pk, c, ck, d, dk
  <1> USE DEF Related, Over, CoordinatorStates, WorkerStates
  <1>1. CASE /\ State("main") = "fork_producer"
             /\ \/ BecomesBoth("main", "fork_consumer", "producer", "starting")
                \/ BecomesBoth("main", "fork_consumer", "p_clone", "fork_consumer")
                \/ Becomes("main", "failed")
    <2>1. /\ m = "fork_producer" /\ c' = c /\ ck' = ck /\ d' = d /\ dk' = dk
          /\ \/ m' = "fork_consumer" /\ p' = "starting" /\ pk' = pk
             \/ m' = "fork_consumer" /\ p' = p /\ pk' = "fork_consumer"
             \/ m' = "failed" /\ p' = p /\ pk' = pk
      BY <1>b, <1>bb, <1>s, <1>1
    <2>2. QED
      BY <1>f, <2>1
  <1>2. CASE /\ State("main") = "fork_consumer"
             /\ \/ BecomesBoth("main", "wait_producer", "consumer", "starting")
                \/ BecomesBoth("main", "wait_producer", "c_clone", "wait_producer")
                \/ Becomes("main", "failed")
    <2>1. /\ m = "fork_consumer" /\ p' = p /\ pk' = pk /\ d' = d /\ dk' = dk
          /\ \/ m' = "wait_producer" /\ c' = "starting" /\ ck' = ck
             \/ m' = "wait_producer" /\ c' = c /\ ck' = "wait_producer"
             \/ m' = "failed" /\ c' = c /\ ck' = ck
      BY <1>b, <1>bb, <1>s, <1>2
    <2>2. QED
      BY <1>f, <2>1
  <1>3. CASE /\ State("p_clone") = "fork_consumer"
             /\ \/ BecomesBoth("p_clone", "wait_producer", "consumer2", "starting")
                \/ BecomesBoth("p_clone", "wait_producer", "pc_clone", "wait_producer")
                \/ Becomes("p_clone", "failed")
    <2>1. /\ pk = "fork_consumer" /\ m' = m /\ p' = p /\ c' = c /\ ck' = ck
          /\ \/ pk' = "wait_producer" /\ d' = "starting" /\ dk' = dk
             \/ pk' = "wait_producer" /\ d' = d /\ dk' = "wait_producer"
             \/ pk' = "failed" /\ d' = d /\ dk' = dk
      BY <1>b, <1>bb, <1>s, <1>3
    <2>2. QED
      BY <1>f, <2>1
  <1>4. ASSUME NEW k \in CoordinatorRoles, NEW s, Becomes(k, s),
               \/ /\ State(k) = "wait_producer" /\ s = "wait_consumer"
                  /\ k = "main" => Over(State("producer")) \/ Over(State("p_clone"))
               \/ /\ State(k) = "wait_consumer" /\ s = "unlink"
                  /\ k = "main" => Over(State("consumer")) \/ Over(State("c_clone"))
                  /\ k = "p_clone" => Over(State("consumer2")) \/ Over(State("pc_clone"))
               \/ State(k) = "unlink" /\ s = "ended"
        PROVE  Related(m', p', pk', c', ck', d', dk')
    <2>1. CASE k = "main"
      <3>1. /\ m' = s /\ p' = p /\ pk' = pk /\ c' = c /\ ck' = ck /\ d' = d /\ dk' = dk
            /\ \/ m = "wait_producer" /\ s = "wait_consumer" /\ (Over(p) \/ Over(pk))
               \/ m = "wait_consumer" /\ s = "unlink" /\ (Over(c) \/ Over(ck))
               \/ m = "unlink" /\ s = "ended"
        BY <1>b, <1>s, <1>4, <2>1
      <3>2. QED
        BY <1>f, <3>1
    <2>2. CASE k = "p_clone"
      <3>1. /\ m' = m /\ p' = p /\ pk' = s /\ c' = c /\ ck' = ck /\ d' = d /\ dk' = dk
            /\ \/ pk = "wait_producer" /\ s = "wait_consumer"
               \/ pk = "wait_consumer" /\ s = "unlink" /\ (Over(d) \/ Over(dk))
               \/ pk = "unlink" /\ s = "ended"
        BY <1>b, <1>s, <1>4, <2>2
      <3>2. QED
        BY <1>f, <3>1
    <2>3. CASE k \in {"c_clone", "pc_clone"}
      <3>1. /\ m' = m /\ p' = p /\ pk' = pk /\ c' = c /\ d' = d
            /\ s \in CoordinatorStates \ {"none"}
            /\ \/ ck' = s /\ dk' = dk /\ ck # "none" /\ ~Over(ck)
               \/ ck' = ck /\ dk' = s /\ dk # "none" /\ ~Over(dk)
        BY <1>b, <1>s, <1>4, <2>3
      <3>2. QED
        BY <1>f, <3>1
    <2>4. QED
      BY <2>1, <2>2, <2>3 DEF CoordinatorRoles
  <1>5. ASSUME NEW k \in WorkerRoles, NEW s \in {"running", "ended", "killed"},
               State(k) \in {"starting", "running"}, Becomes(k, s)
        PROVE  Related(m', p', pk', c', ck', d', dk')
    <2>1. CASE k = "producer"
      <3>1. m' = m /\ p' = s /\ pk' = pk /\ c' = c /\ ck' = ck /\ d' = d /\ dk' = dk /\ p \in {"starting", "running"}
        BY <1>b, <1>s, <1>5, <2>1
      <3>2. QED
        BY <1>f, <3>1
    <2>2. CASE k = "consumer"
      <3>1. m' = m /\ p' = p /\ pk' = pk /\ c' = s /\ ck' = ck /\ d' = d /\ dk' = dk /\ c \in {"starting", "running"}
        BY <1>b, <1>s, <1>5, <2>2
      <3>2. QED
        BY <1>f, <3>1
    <2>3. CASE k = "consumer2"
      <3>1. m' = m /\ p' = p /\ pk' = pk /\ c' = c /\ ck' = ck /\ d' = s /\ dk' = dk /\ d \in {"starting", "running"}
        BY <1>b, <1>s, <1>5, <2>3
      <3>2. QED
        BY <1>f, <3>1
    <2>4. QED
      BY <2>1, <2>2, <2>3 DEF WorkerRoles
  <1>6. ASSUME NEW k \in WorkerRoles, WorkerMove(k) PROVE Related(m', p', pk', c', ck', d', dk')
    <2>1. \E s \in {"running", "ended", "killed"} : State(k) \in {"starting", "running"} /\ Becomes(k, s)
      BY <1>6 DEF WorkerMove
    <2>2. QED
      BY <1>5, <2>1
  <1>7. CASE CoordinatorMove
    BY <1>1, <1>2, <1>3, <1>4, <1>7 DEF CoordinatorMove
  <1>8. QED
    BY <1>6, <1>7

-----------------------------------------------------------------------------
(* The threads of the workers, and what the coordinator has reported.      *)

(* A thread lives inside its process: it is created by it, a process that  *)
(* ends has joined it, and a call of push or pop is in progress only while *)
(* the thread loops.                                                       *)
InLife(state, th, stage) ==
    /\ state \in {"none", "starting"} => th = "none"
    /\ state = "ended" => th \in {"none", "joined"}
    /\ th # "looping" => stage = "idle"

Life ==
    /\ InLife(State("producer"), thread[P(0)], ppc[0])
    /\ InLife(State("consumer"), thread[C(0)], cpc[0])
    /\ InLife(State("consumer2"), thread[C(1)], cpc[1])

WorkersTypes ==
    /\ thread \in [Threads -> {"none", "sleeping", "looping", "exited", "joined"}]
    /\ m_run \in [Threads -> BOOLEAN]
    /\ m_next_item_id \in [Producers -> Nat]
    /\ m_valid_saved_work_item \in [Producers -> BOOLEAN]
    /\ name \in BOOLEAN

(* main reports when it is done, and nobody counts any more.               *)
LastWord ==
    /\ reported \in [CoordinatorRoles -> {<< >>} \cup (Nat \X Nat)]
    /\ reported["main"] # << >> =>
          State("main") = "ended" /\ reported["main"] = <<m_pushed_count, m_popped_count>>

(* Without a producer nothing is pushed, and nothing can be popped.        *)
NoProducerNoItems == State("producer") = "none" => sent = << >> /\ m_pushed_count = 0

(* Without a consumer nothing is popped.                                   *)
NoConsumerNoPops == State("consumer") = "none" /\ State("consumer2") = "none" => m_popped_count = 0

ShmInv ==
    /\ ProcTyped
    /\ Family
    /\ WorkersTypes
    /\ Life
    /\ LastWord
    /\ NoProducerNoItems
    /\ NoConsumerNoPops

(* The inductive invariant holds once the region is set up.                *)
LEMMA ShmInvInit == ShmInit => ShmInv
  <1> SUFFICES ASSUME ShmInit PROVE ShmInv
    OBVIOUS
  <1>1. /\ \A k \in Roles \ {"main"} : State(k) = "none"
        /\ State("main") \in {"fork_producer", "failed"}
    BY Actors DEF ShmInit, State, Roles, CoordinatorRoles
  <1>2. ProcTyped
    BY DEF ShmInit, ProcTyped, CoordinatorStates, WorkerStates
  <1>3. Family
    BY <1>1 DEF Family, Related, Over, CoordinatorStates, WorkerStates, Roles, CoordinatorRoles, WorkerRoles
  <1>4. WorkersTypes
    BY DEF ShmInit, QueueInPlace, WorkersInit, WorkersTypes
  <1>5. Life
    BY Actors DEF ShmInit, QueueInPlace, WorkersInit, Init, Life, InLife
  <1>6. LastWord /\ NoProducerNoItems /\ NoConsumerNoPops
    BY DEF ShmInit, QueueInPlace, WorkersInit, Init, LastWord, NoProducerNoItems, NoConsumerNoPops, CoordinatorRoles
  <1>7. QED
    BY <1>2, <1>3, <1>4, <1>5, <1>6 DEF ShmInv

(* All a coordinator does to a worker is to start it, and main stays ended *)
(* when it has.                                                            *)
LEMMA CoordinatorStarts ==
    ASSUME Family, CoordinatorMove
    PROVE  /\ \A k \in WorkerRoles : State(k)' = State(k) \/ (State(k) = "none" /\ State(k)' = "starting")
           /\ State("main") = "ended" => State("main")' = "ended"
           /\ State("p_clone") # "none" => State("p_clone")' # "none"
  <1> USE DEF Roles, CoordinatorRoles, WorkerRoles
  <1>1. CASE State("main") = "fork_producer"
             /\ (\/ BecomesBoth("main", "fork_consumer", "producer", "starting")
                 \/ BecomesBoth("main", "fork_consumer", "p_clone", "fork_consumer")
                 \/ Becomes("main", "failed"))
    BY <1>1 DEF Family, Related, Becomes, BecomesBoth
  <1>2. CASE State("main") = "fork_consumer"
             /\ (\/ BecomesBoth("main", "wait_producer", "consumer", "starting")
                 \/ BecomesBoth("main", "wait_producer", "c_clone", "wait_producer")
                 \/ Becomes("main", "failed"))
    BY <1>2 DEF Family, Related, Becomes, BecomesBoth
  <1>3. CASE State("p_clone") = "fork_consumer"
             /\ (\/ BecomesBoth("p_clone", "wait_producer", "consumer2", "starting")
                 \/ BecomesBoth("p_clone", "wait_producer", "pc_clone", "wait_producer")
                 \/ Becomes("p_clone", "failed"))
    BY <1>3 DEF Family, Related, Becomes, BecomesBoth
  <1>4. ASSUME NEW k \in CoordinatorRoles, NEW s \in {"wait_consumer", "unlink", "ended"},
               State(k) \in {"wait_producer", "wait_consumer", "unlink"}, Becomes(k, s)
        PROVE  /\ \A j \in WorkerRoles : State(j)' = State(j)
               /\ State("main") = "ended" => State("main")' = "ended"
               /\ State("p_clone") # "none" => State("p_clone")' # "none"
    BY <1>4 DEF Becomes
  <1>5. QED
    BY <1>1, <1>2, <1>3, <1>4 DEF CoordinatorMove

(* The states of the processes stay such.                                  *)
LEMMA ProcTypedKept ==
    ASSUME ProcTyped, [ShmNext]_shmvars
    PROVE  ProcTyped'
  <1> USE DEF ProcTyped, CoordinatorStates, WorkerStates
  <1>1. ASSUME NEW x, NEW s \in CoordinatorStates \cup WorkerStates, proc' = [proc EXCEPT ![x] = s]
        PROVE  ProcTyped'
    BY <1>1
  <1>2. ASSUME NEW x, NEW y, NEW z, NEW s \in CoordinatorStates, Fork(x, s, y, z) PROVE ProcTyped'
    BY <1>2 DEF Fork
  <1>3. ASSUME Coordinate PROVE ProcTyped'
    BY <1>1, <1>2, <1>3 DEF Coordinate, ForkOrWait, ForkAndWait, ForkProducer, ForkConsumer, WaitProducer,
       WaitConsumer, ReportAndUnlink, Moves
  <1>4. ASSUME NEW w, NEW t, Killed(w, t) PROVE ProcTyped'
    BY <1>4 DEF Killed, Kill
  <1>5. ASSUME NEW w, NEW t, Worker(w, t) PROVE ProcTyped'
    BY <1>5 DEF Worker, AttachFails, AttachAndConstruct, Delete, DetachAndUnlink, Moves
  <1>6. ASSUME UNCHANGED proc PROVE ProcTyped'
    BY <1>6
  <1>7. QED
    BY <1>3, <1>4, <1>5, <1>6
    DEF ShmNext, ShmProducerThread, ShmConsumerThread, ShmPush, ShmPop, InProcess, Finished, shmvars

(* The state of the threads and of the producer keeps its types.           *)
LEMMA WorkersTypesKept ==
    ASSUME WorkersTypes, [ShmNext]_shmvars
    PROVE  WorkersTypes'
  <1> USE DEF WorkersTypes
  <1>0. \A p \in Producers : IdStride * p \in Nat
    BY WorkersAssumption
  <1>1. ASSUME NEW t, Wake(t) \/ Exit(t) \/ Stop(t) \/ Join(t), name' \in BOOLEAN PROVE WorkersTypes'
    BY <1>1 DEF Wake, Exit, Stop, Join
  <1>2. ASSUME NEW p \in Producers, Produce(p), UNCHANGED name PROVE WorkersTypes'
    <2>1. UNCHANGED <<thread, m_run>>
      BY <1>2 DEF Produce
    <2>2. m_next_item_id' \in [Producers -> Nat]
      BY <1>2 DEF Produce
    <2>3. m_valid_saved_work_item' \in [Producers -> BOOLEAN]
      BY <1>2, Zenon DEF Produce
    <2>4. QED
      BY <1>2, <2>1, <2>2, <2>3
  <1>3. ASSUME NEW p \in Producers, Pushing(p) \/ Pushed(p), UNCHANGED name PROVE WorkersTypes'
    BY <1>3 DEF Pushing, Pushed
  <1>4. ASSUME NEW c \in Consumers, Consume(c) \/ Popping(c), UNCHANGED name PROVE WorkersTypes'
    BY <1>4 DEF Consume, Popping
  <1>5. ASSUME NEW c \in Consumers, ConstructConsumer(c), UNCHANGED name PROVE WorkersTypes'
    BY <1>5 DEF ConstructConsumer, StartThread
  <1>6. ASSUME NEW p \in Producers, ConstructProducer(p), UNCHANGED name PROVE WorkersTypes'
    BY <1>0, <1>6 DEF ConstructProducer, StartThread
  <1>7. ASSUME UNCHANGED wvars, name' \in BOOLEAN PROVE WorkersTypes'
    BY <1>7 DEF wvars
  <1>8. ASSUME NEW w, NEW t, Worker(w, t) PROVE WorkersTypes'
    BY <1>1, <1>5, <1>6, <1>7, <1>8 DEF Worker, AttachFails, AttachAndConstruct, Delete, DetachAndUnlink
  <1>9. ASSUME NEW w, NEW t, Coordinate \/ Killed(w, t) PROVE WorkersTypes'
    BY <1>7, <1>9 DEF Coordinate, ForkOrWait, ReportAndUnlink, Killed, wvars
  <1>10. CASE UNCHANGED shmvars
    BY <1>7, <1>10 DEF shmvars
  <1>11. QED
    BY <1>1, <1>2, <1>3, <1>4, <1>8, <1>9, <1>10
    DEF ShmNext, ShmProducerThread, ShmConsumerThread, ShmPush, ShmPop, InProcess, Finished

(* A step of the producer's thread is made in a running process; it keeps  *)
(* its hands off the consumers, and leaves its loop only between calls.    *)
LEMMA ProducerSteps ==
    ASSUME TypeOK, WorkersTypes, Life, ShmProducerThread(0)
    PROVE  /\ State("producer") = "running" /\ UNCHANGED <<proc, name, reported, cpc, m_popped_count>>
           /\ thread'[C(0)] = thread[C(0)] /\ thread'[C(1)] = thread[C(1)]
           /\ thread'[P(0)] # "looping" => ppc'[0] = "idle"
  <1>0. 0 \in Producers /\ ppc \in [Producers -> PC] /\ P(0) \in Threads /\ P(0) # C(0) /\ P(0) # C(1)
    BY Actors DEF TypeOK
  <1>1. State("producer") = "running" /\ UNCHANGED <<proc, name, reported>>
    BY Actors DEF ShmProducerThread, ShmPush, InProcess, State
  <1>2. CASE Wake(P(0)) \/ (ppc[0] = "idle" /\ Exit(P(0)))
    <2>1. UNCHANGED vars /\ \E s \in {"looping", "exited"} :
             thread' = [thread EXCEPT ![P(0)] = s] /\ (s = "exited" => ppc[0] = "idle")
      BY <1>2 DEF Wake, Exit
    <2>2. QED
      BY <1>0, <1>1, <2>1, Actors DEF WorkersTypes, vars, pvars, cvars, shared
  <1>3. CASE Produce(0)
    BY <1>1, <1>3 DEF Produce, PushCall, cvars, shared
  <1>4. CASE Pushing(0) \/ Pushed(0)
    <2>1. ppc[0] # "idle" /\ UNCHANGED <<thread, cpc, m_popped_count>>
      BY <1>4 DEF Pushing, Pushed, PushClaim, PushLock, PushUnlock, PushCopy, PushTimedOut, PushPost, cvars, shared
    <2>2. thread[P(0)] = "looping"
      BY <2>1 DEF Life, InLife
    <2>3. QED
      BY <1>1, <2>1, <2>2
  <1>5. QED
    BY <1>2, <1>3, <1>4 DEF ShmProducerThread, ShmPush

(* What a step of a consumer's thread leaves alone, and that the thread    *)
(* leaves its loop only between two calls.                                 *)
LEMMA ConsumerSteps ==
    ASSUME TypeOK, WorkersTypes, Life, NEW c \in {0, 1}, ShmConsumerThread(c)
    PROVE  /\ State(IF c = 0 THEN "consumer" ELSE "consumer2") = "running"
           /\ UNCHANGED <<proc, name, reported, ppc, sent, m_pushed_count>>
           /\ thread'[P(0)] = thread[P(0)]
           /\ thread'[C(1 - c)] = thread[C(1 - c)] /\ cpc'[1 - c] = cpc[1 - c]
           /\ thread'[C(c)] # "looping" => cpc'[c] = "idle"
  <1>0. /\ c \in Consumers /\ 1 - c \in Consumers /\ c # 1 - c
        /\ cpc \in [Consumers -> PC] /\ C(c) \in Threads /\ P(0) # C(c) /\ C(c) # C(1 - c)
        /\ P(0) \in Threads /\ C(1 - c) \in Threads
    BY Actors DEF TypeOK
  <1>1. State(IF c = 0 THEN "consumer" ELSE "consumer2") = "running" /\ UNCHANGED <<proc, name, reported>>
    BY Actors DEF ShmConsumerThread, ShmPop, InProcess, State
  <1>2. CASE Wake(C(c)) \/ (cpc[c] = "idle" /\ Exit(C(c)))
    <2>1. UNCHANGED vars /\ \E s \in {"looping", "exited"} :
             thread' = [thread EXCEPT ![C(c)] = s] /\ (s = "exited" => cpc[c] = "idle")
      BY <1>2 DEF Wake, Exit
    <2>2. /\ \A t \in Threads \ {C(c)} : thread'[t] = thread[t]
          /\ thread'[C(c)] # "looping" => cpc[c] = "idle"
      BY <1>0, <2>1 DEF WorkersTypes
    <2>3. QED
      BY <1>0, <1>1, <2>1, <2>2 DEF vars, pvars, cvars, shared
  <1>3. CASE Consume(c) \/ Popping(c)
    <2>1. /\ \E s \in PC : cpc' = [cpc EXCEPT ![c] = s]
          /\ UNCHANGED <<thread, ppc, sent, m_pushed_count>>
          /\ cpc[c] # "idle" \/ thread[C(c)] = "looping"
      BY <1>3 DEF Consume, Popping, PopStep, PopCall, PopTimedOut, PopClaim, PopLock, PopUnlock, PopCopy,
         PopPost, pvars, shared, PC
    <2>2. thread[C(c)] = "looping"
      <3>1. c = 0 \/ c = 1
        OBVIOUS
      <3>2. QED
        BY <2>1, <3>1 DEF Life, InLife
    <2>3. cpc'[1 - c] = cpc[1 - c]
      BY <1>0, <2>1
    <2>4. QED
      BY <1>1, <2>1, <2>2, <2>3
  <1>4. QED
    BY <1>2, <1>3 DEF ShmConsumerThread, ShmPop

(* While a worker starts or runs main has not reported.                    *)
LEMMA NotYetReported ==
    ASSUME Family, LastWord, NEW k \in WorkerRoles, State(k) \in {"starting", "running"}
    PROVE  reported["main"] = << >> /\ State("main") # "ended"
  BY NobodyWorks DEF LastWord

(* Steps of the coordinator and its clones keep the invariant.             *)
LEMMA ShmInvCoordinate ==
    ASSUME ShmInv, TypeOK, Coordinate
    PROVE  Family' /\ Life' /\ LastWord' /\ NoProducerNoItems' /\ NoConsumerNoPops'
  <1>1. CoordinatorMove /\ Family
    BY CoordinatorMoves DEF ShmInv
  <1>2. UNCHANGED wvars
    BY DEF Coordinate, ForkOrWait, ReportAndUnlink
  <1>3. UNCHANGED <<thread, ppc, cpc, sent, m_pushed_count, m_popped_count>>
    BY <1>2 DEF wvars, vars, pvars, cvars, shared
  <1>4. Family'
    BY <1>1, FamilyKept
  <1>5. Life'
    BY <1>1, <1>3, CoordinatorStarts DEF ShmInv, Life, InLife, WorkerRoles
  <1>6. LastWord'
    <2>1. CASE UNCHANGED reported
      BY <1>1, <1>3, <2>1, CoordinatorStarts DEF ShmInv, LastWord
    <2>2. ASSUME NEW k \in CoordinatorRoles, ReportAndUnlink(k) PROVE LastWord'
      <3>1. Becomes(k, "ended")
        BY <2>2, OneMoves DEF ReportAndUnlink, Moves, ShmInv, Roles
      <3>2. reported' \in [CoordinatorRoles -> {<< >>} \cup (Nat \X Nat)]
        BY <2>2 DEF ReportAndUnlink, ShmInv, LastWord, TypeOK
      <3>3. CASE k = "main"
        BY <1>3, <2>2, <3>1, <3>2, <3>3 DEF ShmInv, LastWord, ReportAndUnlink, Becomes, Roles, CoordinatorRoles
      <3>4. CASE k # "main"
        BY <1>3, <2>2, <3>1, <3>2, <3>4 DEF ShmInv, LastWord, ReportAndUnlink, Becomes, Roles, CoordinatorRoles
      <3>5. QED
        BY <3>3, <3>4
    <2>3. QED
      BY <2>1, <2>2 DEF Coordinate, ForkOrWait
  <1>7. NoProducerNoItems' /\ NoConsumerNoPops'
    BY <1>1, <1>3, CoordinatorStarts DEF ShmInv, NoProducerNoItems, NoConsumerNoPops, WorkerRoles
  <1>8. QED
    BY <1>4, <1>5, <1>6, <1>7

(* A kill keeps the invariant, wherever it strikes.                        *)
LEMMA ShmInvKilled ==
    ASSUME ShmInv, NEW k \in WorkerRoles, NEW t, Runs(k, t), Killed(Process(k), t)
    PROVE  Family' /\ Life' /\ LastWord' /\ NoProducerNoItems' /\ NoConsumerNoPops'
  <1>1. /\ Family /\ Life /\ LastWord /\ NoProducerNoItems /\ NoConsumerNoPops
        /\ State(k) \in {"starting", "running"} /\ Becomes(k, "killed")
        /\ UNCHANGED <<reported, thread, pvars, cvars, sent>>
        /\ \/ UNCHANGED shared
           \/ k = "producer" /\ HalfPush(0)
           \/ k \in {"consumer", "consumer2"} /\ \E c \in {0, 1} : HalfPop(c)
    BY KilledMoves DEF ShmInv
  <1>2. /\ UNCHANGED <<reported, thread, ppc, cpc, sent>>
        /\ k # "producer" => UNCHANGED m_pushed_count
        /\ k \notin {"consumer", "consumer2"} => UNCHANGED m_popped_count
    BY <1>1 DEF pvars, cvars, shared, HalfPush, HalfPop
  <1>3. Family'
    BY <1>1, FamilyKept DEF WorkerMove
  <1>4. Life'
    BY <1>1, <1>2 DEF Life, InLife, Becomes, Roles, WorkerRoles, CoordinatorRoles
  <1>5. LastWord'
    BY <1>1, <1>2, NotYetReported DEF LastWord
  <1>6. State("producer")' = "none" => k # "producer" /\ State("producer") = "none"
    BY <1>1 DEF Becomes, Roles, WorkerRoles, CoordinatorRoles
  <1>7. State("consumer")' = "none" /\ State("consumer2")' = "none" =>
           k \notin {"consumer", "consumer2"} /\ State("consumer") = "none" /\ State("consumer2") = "none"
    BY <1>1 DEF Becomes, Roles, WorkerRoles, CoordinatorRoles
  <1>8. NoProducerNoItems' /\ NoConsumerNoPops'
    BY <1>1, <1>2, <1>6, <1>7 DEF NoProducerNoItems, NoConsumerNoPops
  <1>9. QED
    BY <1>3, <1>4, <1>5, <1>8

(* Steps of a worker's main keep the invariant.                            *)
LEMMA ShmInvWorker ==
    ASSUME ShmInv, NEW k \in WorkerRoles, NEW t, Runs(k, t), Worker(Process(k), t)
    PROVE  Family' /\ Life' /\ LastWord' /\ NoProducerNoItems' /\ NoConsumerNoPops'
  <1>r. \/ k = "producer" /\ t = P(0)
        \/ k = "consumer" /\ t = C(0)
        \/ k = "consumer2" /\ t = C(1)
    BY DEF Runs
  <1>1. /\ Family /\ Life /\ LastWord /\ NoProducerNoItems /\ NoConsumerNoPops
        /\ \/ UNCHANGED proc /\ State(k) = "running" /\ (UNCHANGED thread \/ Join(t))
           \/ State(k) = "starting" /\ Becomes(k, "ended") /\ UNCHANGED thread
           \/ State(k) = "starting" /\ Becomes(k, "running") /\ StartThread(t)
           \/ State(k) = "running" /\ Becomes(k, "ended") /\ UNCHANGED thread /\ thread[t] = "joined"
    BY WorkerMoves DEF ShmInv
  <1>2. UNCHANGED <<ppc, cpc, sent, m_pushed_count, m_popped_count>>
    BY MainsLeaveQueue DEF vars, pvars, cvars, shared
  <1>3. Family'
    <2>1. CASE UNCHANGED proc
      BY <1>1, <2>1 DEF Family, State
    <2>2. CASE WorkerMove(k)
      BY <1>1, <2>2, FamilyKept
    <2>3. QED
      BY <1>1, <2>1, <2>2 DEF WorkerMove
  <1>4. thread \in [Threads -> {"none", "sleeping", "looping", "exited", "joined"}]
    BY DEF ShmInv, WorkersTypes
  <1>5. InLife(State("producer"), thread[P(0)], ppc[0])'
    <2>1. CASE k # "producer"
      <3>1. State("producer")' = State("producer") /\ thread'[P(0)] = thread[P(0)]
        BY <1>r, <1>1, <1>4, <2>1, Actors DEF Becomes, State, Join, StartThread, Roles, WorkerRoles
      <3>2. QED
        BY <1>1, <1>2, <3>1 DEF Life, InLife
    <2>2. CASE k = "producer"
      BY <1>r, <1>1, <1>2, <1>4, <2>2, Actors DEF Becomes, State, Join, StartThread, Roles, WorkerRoles, Life, InLife
    <2>3. QED
      BY <2>1, <2>2
  <1>6. InLife(State("consumer"), thread[C(0)], cpc[0])'
    <2>1. CASE k # "consumer"
      <3>1. State("consumer")' = State("consumer") /\ thread'[C(0)] = thread[C(0)]
        BY <1>r, <1>1, <1>4, <2>1, Actors DEF Becomes, State, Join, StartThread, Roles, WorkerRoles
      <3>2. QED
        BY <1>1, <1>2, <3>1 DEF Life, InLife
    <2>2. CASE k = "consumer"
      BY <1>r, <1>1, <1>2, <1>4, <2>2, Actors DEF Becomes, State, Join, StartThread, Roles, WorkerRoles, Life, InLife
    <2>3. QED
      BY <2>1, <2>2
  <1>7. InLife(State("consumer2"), thread[C(1)], cpc[1])'
    <2>1. CASE k # "consumer2"
      <3>1. State("consumer2")' = State("consumer2") /\ thread'[C(1)] = thread[C(1)]
        BY <1>r, <1>1, <1>4, <2>1, Actors DEF Becomes, State, Join, StartThread, Roles, WorkerRoles
      <3>2. QED
        BY <1>1, <1>2, <3>1 DEF Life, InLife
    <2>2. CASE k = "consumer2"
      BY <1>r, <1>1, <1>2, <1>4, <2>2, Actors DEF Becomes, State, Join, StartThread, Roles, WorkerRoles, Life, InLife
    <2>3. QED
      BY <2>1, <2>2
  <1>8. LastWord'
    <2>1. UNCHANGED reported
      BY DEF Worker, AttachFails, AttachAndConstruct, Delete, DetachAndUnlink
    <2>2. QED
      BY <1>1, <2>1, NotYetReported DEF LastWord
  <1>9. NoProducerNoItems' /\ NoConsumerNoPops'
    BY <1>1, <1>2 DEF NoProducerNoItems, NoConsumerNoPops, Becomes, State, Roles, WorkerRoles
  <1>10. QED
    BY <1>3, <1>5, <1>6, <1>7, <1>8, <1>9 DEF Life

(* Steps of the threads keep the invariant.                                *)
LEMMA ShmInvThread ==
    ASSUME ShmInv, TypeOK, ShmProducerThread(0) \/ \E c \in {0, 1} : ShmConsumerThread(c)
    PROVE  Family' /\ Life' /\ LastWord' /\ NoProducerNoItems' /\ NoConsumerNoPops'
  <1>0. Family /\ WorkersTypes /\ Life /\ LastWord /\ NoProducerNoItems /\ NoConsumerNoPops
    BY DEF ShmInv
  <1>1. UNCHANGED <<proc, reported>> /\ \E k \in WorkerRoles : State(k) = "running"
    BY <1>0, ProducerSteps, ConsumerSteps DEF WorkerRoles
  <1>2. Family'
    BY <1>0, <1>1 DEF Family, State
  <1>3. LastWord'
    BY <1>0, <1>1, NotYetReported DEF LastWord
  <1>4. CASE ShmProducerThread(0)
    <2>1. Life'
      BY <1>0, <1>1, <1>4, ProducerSteps DEF Life, InLife, State
    <2>2. NoProducerNoItems' /\ NoConsumerNoPops'
      BY <1>0, <1>1, <1>4, ProducerSteps DEF NoProducerNoItems, NoConsumerNoPops, State
    <2>3. QED
      BY <1>2, <1>3, <2>1, <2>2
  <1>5. ASSUME NEW c \in {0, 1}, ShmConsumerThread(c) PROVE Life' /\ NoProducerNoItems' /\ NoConsumerNoPops'
    <2>1. /\ UNCHANGED <<ppc, sent, m_pushed_count>> /\ thread'[P(0)] = thread[P(0)]
          /\ thread'[C(1 - c)] = thread[C(1 - c)] /\ cpc'[1 - c] = cpc[1 - c]
          /\ thread'[C(c)] # "looping" => cpc'[c] = "idle"
          /\ State(IF c = 0 THEN "consumer" ELSE "consumer2") = "running"
      BY <1>0, <1>5, ConsumerSteps
    <2>2. NoProducerNoItems' /\ NoConsumerNoPops'
      BY <1>0, <1>1, <2>1 DEF NoProducerNoItems, NoConsumerNoPops, State
    <2>3. \A k \in WorkerRoles : State(k)' = State(k)
      BY <1>1 DEF State
    <2>4. CASE c = 0
      BY <1>0, <2>1, <2>2, <2>3, <2>4 DEF Life, InLife, WorkerRoles
    <2>5. CASE c = 1
      BY <1>0, <2>1, <2>2, <2>3, <2>5 DEF Life, InLife, WorkerRoles
    <2>6. QED
      BY <2>4, <2>5
  <1>6. QED
    BY <1>2, <1>3, <1>4, <1>5

(* Every step keeps the inductive invariant.                               *)
LEMMA ShmInvNext == ShmInv /\ TypeOK /\ [ShmNext]_shmvars => ShmInv'
  <1> SUFFICES ASSUME ShmInv, TypeOK, [ShmNext]_shmvars PROVE ShmInv'
    OBVIOUS
  <1> DEFINE Kept == Family' /\ Life' /\ LastWord' /\ NoProducerNoItems' /\ NoConsumerNoPops'
  <1>1. ASSUME Coordinate PROVE Kept
    BY <1>1, ShmInvCoordinate
  <1>2. ASSUME NEW k \in WorkerRoles, NEW t, Runs(k, t), Killed(Process(k), t) PROVE Kept
    BY <1>2, ShmInvKilled
  <1>3. ASSUME NEW k \in WorkerRoles, NEW t, Runs(k, t), Worker(Process(k), t) PROVE Kept
    BY <1>3, ShmInvWorker
  <1>4. ASSUME ShmProducerThread(0) \/ \E c \in {0, 1} : ShmConsumerThread(c) PROVE Kept
    BY <1>4, ShmInvThread
  <1>5. ASSUME UNCHANGED shmvars PROVE Kept
    BY <1>5 DEF shmvars, wvars, vars, pvars, cvars, shared, ShmInv, Family, Life, LastWord, NoProducerNoItems,
       NoConsumerNoPops, State
  <1> HIDE DEF Kept
  <1>6. Kept
    BY <1>1, <1>2, <1>3, <1>4, <1>5, StepsOf
  <1>7. QED
    BY <1>6, ProcTypedKept, WorkersTypesKept DEF ShmInv, Kept

(* The inductive invariant holds throughout, and with it the types of the  *)
(* queue.                                                                  *)
LEMMA ShmInvariant == ShmSpec => [](ShmInv /\ TypeOK /\ SavedIsItem)
  <1>1. ShmInit => TypeOK /\ SavedIsItem
    BY QueueAssumption DEF ShmInit, QueueInPlace, WorkersInit, Init, TypeOK, SavedIsItem, Slots, PC
  <1>2. ShmInv /\ TypeOK /\ SavedIsItem /\ [ShmNext]_shmvars => (ShmInv /\ TypeOK /\ SavedIsItem)'
    BY ShmInvNext, ShmTypeInductive, SavedInductive
  <1>3. QED
    BY <1>1, <1>2, ShmInvInit, PTL DEF ShmSpec

(* The processes, their threads and the queue they share keep their types, *)
(* whatever fails and wherever a worker is killed; no semaphore goes below *)
(* zero.                                                                   *)
THEOREM ShmTypeCorrect == ShmSpec => []ShmTypeOK
  <1>1. ShmInv /\ TypeOK => ShmTypeOK
    <2> SUFFICES ASSUME ShmInv, TypeOK PROVE ShmTypeOK
      OBVIOUS
    <2>1. WorkersTypeOK /\ name \in BOOLEAN
      BY DEF ShmInv, WorkersTypes, WorkersTypeOK
    <2>2. reported \in [CoordinatorRoles -> {<< >>} \cup (Nat \X Nat)]
      BY DEF ShmInv, LastWord
    <2>3. /\ \A x \in Coordinators : proc[x] \in CoordinatorStates
          /\ \A w \in WorkerProcesses : proc[w] \in WorkerStates
      BY DEF ShmInv, Family, Related, State, Coordinators, WorkerProcesses, CoordinatorRoles
    <2>4. QED
      BY <2>1, <2>2, <2>3 DEF ShmTypeOK, CoordinatorStates, WorkerStates
  <1>2. QED
    BY <1>1, ShmInvariant, PTL

-----------------------------------------------------------------------------
(* The processes implement Queue, apart from the counters that a worker    *)
(* killed with m_lock in hand leaves half updated.                         *)

(* What is proved about Queue, for the queue without such updates.         *)
W == INSTANCE Queue_fifo_proofs WITH m_front <- WholeFront, m_cur_count <- WholeCount,
                                     m_pushed_count <- WholePushed, m_popped_count <- WholePopped

(* That queue meets the assumptions of Queue.                              *)
LEMMA WholeAssumption ==
    W!IsFiniteSet(Producers) /\ W!IsFiniteSet(Consumers) /\ Size \in Nat \ {0} /\ Garbage \notin Items
  <1>1. W!IsFiniteSet({0})
    <2> DEFINE s == <<0>>
    <2>1. s \in Seq({0}) /\ \A x \in {0} : \E n \in 1 .. Len(s) : s[n] = x
      OBVIOUS
    <2> HIDE DEF s
    <2>2. QED
      BY <2>1 DEF W!IsFiniteSet
  <1>2. W!IsFiniteSet({0, 1})
    <2> DEFINE s == <<0, 1>>
    <2>1. s \in Seq({0, 1}) /\ \A x \in {0, 1} : \E n \in 1 .. Len(s) : s[n] = x
      OBVIOUS
    <2> HIDE DEF s
    <2>2. QED
      BY <2>1 DEF W!IsFiniteSet
  <1>3. QED
    BY <1>1, <1>2, QueueAssumption, OneEach

(* The two instances of Queue are the same.                                *)
LEMMA WholeIsW ==
    /\ W!Init => Whole!Init
    /\ [W!Next]_(W!vars) => [Whole!Next]_(Whole!vars)
  <1>1. W!Init => Whole!Init
    BY DEF W!Init, Whole!Init, W!Slots, Whole!Slots
  <1>2. W!vars = Whole!vars /\ W!vars' = Whole!vars'
    BY DEF W!vars, Whole!vars, W!shared, Whole!shared, W!sems, Whole!sems, W!pvars, Whole!pvars,
       W!cvars, Whole!cvars
  <1>3. W!Next => Whole!Next
    BY DEF
       W!Next, W!PushStep, W!PopStep, W!PushCall, W!PushTimedOut, W!PushClaim, W!PushLock, W!PushUnlock,
       W!PushCopy, W!PushPost, W!PopCall, W!PopTimedOut, W!PopClaim, W!PopLock, W!PopUnlock, W!PopCopy,
       W!PopPost, Whole!Next, Whole!PushStep, Whole!PopStep, Whole!PushCall, Whole!PushTimedOut,
       Whole!PushClaim, Whole!PushLock, Whole!PushUnlock, Whole!PushCopy, Whole!PushPost, Whole!PopCall,
       Whole!PopTimedOut, Whole!PopClaim, Whole!PopLock, Whole!PopUnlock, Whole!PopCopy, Whole!PopPost,
       W!vars, Whole!vars, W!shared, Whole!shared, W!sems, Whole!sems, W!pvars, Whole!pvars, W!cvars,
       Whole!cvars
  <1>4. QED
    BY <1>1, <1>2, <1>3

(* The counts of the calls by where the three threads are.                 *)
LEMMA WholeCalls ==
    ASSUME W!TypeOK
    PROVE  /\ W!PushersInside = Bit(ppc[0] \in {"crit"})
           /\ W!PushersHolding = Bit(ppc[0] \in {"lock", "crit", "copy", "post"})
           /\ W!PushersCopying = Bit(ppc[0] \in {"copy"})
           /\ W!PoppersInside = Bit(cpc[0] \in {"crit"}) + Bit(cpc[1] \in {"crit"})
           /\ W!PoppersHolding = Bit(cpc[0] \in {"lock", "crit", "copy", "post"})
                                   + Bit(cpc[1] \in {"lock", "crit", "copy", "post"})
           /\ W!PoppersCopying = Bit(cpc[0] \in {"copy"}) + Bit(cpc[1] \in {"copy"})
           /\ W!PoppersCounted = Bit(cpc[0] \in {"lock", "crit"}) + Bit(cpc[1] \in {"lock", "crit"})
  <1>1. Producers = {0} /\ Consumers = {0, 1} /\ 0 # 1
    BY Actors
  <1>2. QED
    BY <1>1, W!InCalls, WholeAssumption DEF W!Bit, Bit

(* One thread at most is between sem_wait and sem_post of m_lock, and then *)
(* m_lock is taken.                                                        *)
LEMMA OneInside ==
    ASSUME W!Accounting
    PROVE  /\ ppc[0] = "crit" => m_lock = 0 /\ cpc[0] # "crit" /\ cpc[1] # "crit"
           /\ cpc[0] = "crit" => m_lock = 0 /\ ppc[0] # "crit" /\ cpc[1] # "crit"
           /\ cpc[1] = "crit" => m_lock = 0 /\ ppc[0] # "crit" /\ cpc[0] # "crit"
  <1>1. W!TypeOK
    BY DEF W!Accounting
  <1>2. m_lock \in Nat /\ m_lock + W!PushersInside + W!PoppersInside = 1
    BY DEF W!Accounting, W!TypeOK, W!MutualExclusion
  <1>3. QED
    BY <1>1, <1>2, WholeCalls DEF Bit

(* Who was killed with m_lock in hand, by the states of the processes.     *)
LEMMA CutIs ==
    /\ CutPush(0) <=> State("producer") = "killed" /\ ppc[0] = "crit"
    /\ CutPop(0) <=> State("consumer") = "killed" /\ cpc[0] = "crit"
    /\ CutPop(1) <=> State("consumer2") = "killed" /\ cpc[1] = "crit"
  BY Actors DEF CutPush, CutPop, State

Clear == ~CutPush(0) /\ ~CutPop(0) /\ ~CutPop(1)

(* While nobody was killed there, the counters are what they are.          *)
LEMMA WholeWhenClear ==
    ASSUME Clear
    PROVE  WholeFront = m_front /\ WholeCount = m_cur_count /\ WholePushed = m_pushed_count
           /\ WholePopped = m_popped_count
  BY DEF Clear, WholeFront, WholeCount, WholePushed, WholePopped

wholes == <<WholeFront, WholeCount, WholePushed, WholePopped>>

SameCut ==
    /\ CutPush(0)' <=> CutPush(0)
    /\ CutPop(0)' <=> CutPop(0)
    /\ CutPop(1)' <=> CutPop(1)
    /\ CutPush(0) => pcount'[0] = pcount[0]
    /\ CutPop(0) => cslot'[0] = cslot[0] /\ ccount'[0] = ccount[0]
    /\ CutPop(1) => cslot'[1] = cslot[1] /\ ccount'[1] = ccount[1]

(* A step that leaves the counters and the killed alone leaves the         *)
(* counters without half-made updates alone.                               *)
LEMMA WholeUnchanged ==
    ASSUME SameCut, UNCHANGED shared
    PROVE  UNCHANGED wholes
  BY DEF SameCut, shared, wholes, WholeFront, WholeCount, WholePushed, WholePopped

(* Who kills nobody changes nothing about who was killed where.            *)
LEMMA SameCutUnless ==
    ASSUME TypeOK, NEW t \in {"producer", "consumer", "consumer2", "none"},
           \A k \in WorkerRoles : State(k)' = "killed" <=> State(k) = "killed",
           t # "none" => State(t) # "killed",
           t # "producer" => ppc'[0] = ppc[0] /\ pcount'[0] = pcount[0],
           t # "consumer" => cpc'[0] = cpc[0] /\ cslot'[0] = cslot[0] /\ ccount'[0] = ccount[0],
           t # "consumer2" => cpc'[1] = cpc[1] /\ cslot'[1] = cslot[1] /\ ccount'[1] = ccount[1]
    PROVE  SameCut
  <1>1. /\ CutPush(0)' <=> State("producer")' = "killed" /\ ppc'[0] = "crit"
        /\ CutPop(0)' <=> State("consumer")' = "killed" /\ cpc'[0] = "crit"
        /\ CutPop(1)' <=> State("consumer2")' = "killed" /\ cpc'[1] = "crit"
    BY Actors DEF CutPush, CutPop, State
  <1>2. QED
    BY <1>1, CutIs DEF SameCut, WorkerRoles

(* A step of Queue is one of the queue without half-made updates, if these *)
(* are left alone when the counters are, and are none of them if it reads  *)
(* or stores counters.                                                     *)
LEMMA PushIsWhole ==
    ASSUME NEW p \in Producers, UNCHANGED shared => UNCHANGED wholes,
           ppc[p] \in {"lock", "crit"} => Clear /\ Clear'
    PROVE  /\ \A t \in Items : PushCall(p, t) => W!PushCall(p, t)
           /\ PushStep(p) => W!PushStep(p)
  <1> USE DEF wholes, shared, sems, cvars, W!shared, W!sems, W!cvars
  <1>1. ASSUME NEW t \in Items, PushCall(p, t) PROVE W!PushCall(p, t)
    BY <1>1 DEF PushCall, W!PushCall
  <1>2. PushTimedOut(p) => W!PushTimedOut(p)
    BY DEF PushTimedOut, W!PushTimedOut
  <1>3. PushClaim(p) => W!PushClaim(p)
    BY DEF PushClaim, W!PushClaim
  <1>4. ASSUME ppc[p] \in {"lock", "crit"}
        PROVE  /\ WholeFront = m_front /\ WholeCount = m_cur_count /\ WholePushed = m_pushed_count
               /\ WholePopped = m_popped_count
               /\ WholeFront' = m_front' /\ WholeCount' = m_cur_count' /\ WholePushed' = m_pushed_count'
               /\ WholePopped' = m_popped_count'
    <2>1. Clear /\ Clear'
      BY <1>4
    <2>2. QED
      BY <2>1, WholeWhenClear DEF Clear, WholeFront, WholeCount, WholePushed, WholePopped
  <1>5. PushLock(p) => W!PushLock(p)
    BY <1>4 DEF PushLock, W!PushLock
  <1>6. PushUnlock(p) => W!PushUnlock(p)
    BY <1>4 DEF PushUnlock, W!PushUnlock
  <1>7. PushCopy(p) => W!PushCopy(p)
    BY DEF PushCopy, W!PushCopy
  <1>8. PushPost(p) => W!PushPost(p)
    BY DEF PushPost, W!PushPost
  <1>9. QED
    BY <1>1, <1>2, <1>3, <1>5, <1>6, <1>7, <1>8 DEF PushStep, W!PushStep

(* The same for pop.                                                       *)
LEMMA PopIsWhole ==
    ASSUME NEW c \in Consumers, UNCHANGED shared => UNCHANGED wholes,
           cpc[c] \in {"lock", "crit"} => Clear /\ Clear'
    PROVE  /\ PopCall(c) => W!PopCall(c)
           /\ PopStep(c) => W!PopStep(c)
  <1> USE DEF wholes, shared, sems, pvars, W!shared, W!sems, W!pvars
  <1>1. PopCall(c) => W!PopCall(c)
    BY DEF PopCall, W!PopCall
  <1>2. PopTimedOut(c) => W!PopTimedOut(c)
    BY DEF PopTimedOut, W!PopTimedOut
  <1>3. PopClaim(c) => W!PopClaim(c)
    BY DEF PopClaim, W!PopClaim
  <1>4. ASSUME cpc[c] \in {"lock", "crit"}
        PROVE  /\ WholeFront = m_front /\ WholeCount = m_cur_count /\ WholePushed = m_pushed_count
               /\ WholePopped = m_popped_count
               /\ WholeFront' = m_front' /\ WholeCount' = m_cur_count' /\ WholePushed' = m_pushed_count'
               /\ WholePopped' = m_popped_count'
    <2>1. Clear /\ Clear'
      BY <1>4
    <2>2. QED
      BY <2>1, WholeWhenClear DEF Clear, WholeFront, WholeCount, WholePushed, WholePopped
  <1>5. PopLock(c) => W!PopLock(c)
    BY <1>4 DEF PopLock, W!PopLock
  <1>6. PopUnlock(c) => W!PopUnlock(c)
    BY <1>4 DEF PopUnlock, W!PopUnlock
  <1>7. PopCopy(c) => W!PopCopy(c)
    BY DEF PopCopy, W!PopCopy
  <1>8. PopPost(c) => W!PopPost(c)
    BY DEF PopPost, W!PopPost
  <1>9. QED
    BY <1>1, <1>2, <1>3, <1>5, <1>6, <1>7, <1>8 DEF PopStep, W!PopStep

(* The counts that report prints are ahead by one update at most.          *)
Torn == m_pushed_count \in {WholePushed, WholePushed + 1} /\ m_popped_count \in {WholePopped, WholePopped + 1}

(* A step that has nothing to do with half-made updates.                   *)
Quiet == Clear' \/ UNCHANGED <<shared, wholes>>

(* A quiet step puts the counts no further ahead.                          *)
LEMMA QuietKeepsTorn ==
    ASSUME TypeOK', Torn, Quiet
    PROVE  Torn'
  <1>1. CASE Clear'
    BY <1>1 DEF Clear, Torn, WholePushed, WholePopped
  <1>2. CASE UNCHANGED <<shared, wholes>>
    BY <1>2 DEF Torn, shared, wholes
  <1>3. QED
    BY <1>1, <1>2 DEF Quiet

(* A killed worker leaves the queue without half-made updates as it is.    *)
LEMMA KillIsStutter ==
    ASSUME ShmInv, TypeOK, W!Accounting, NEW k \in WorkerRoles, NEW t, Runs(k, t), Killed(Process(k), t)
    PROVE  UNCHANGED W!vars /\ (Torn => Torn')
  <1>1. /\ State(k) \in {"starting", "running"} /\ Becomes(k, "killed")
        /\ UNCHANGED <<m_arr, sems, pvars, cvars, sent, received>>
        /\ \/ UNCHANGED shared
           \/ k = "producer" /\ HalfPush(0)
           \/ k = "consumer" /\ HalfPop(0)
           \/ k = "consumer2" /\ HalfPop(1)
    BY KilledMoves DEF ShmInv
  <1>2. /\ UNCHANGED <<ppc, pcount, cpc, cslot, ccount>>
        /\ \A j \in WorkerRoles : State(j)' = IF j = k THEN "killed" ELSE State(j)
    BY <1>1 DEF pvars, cvars, Becomes, Roles
  <1>3. /\ CutPush(0)' <=> State("producer")' = "killed" /\ ppc[0] = "crit"
        /\ CutPop(0)' <=> State("consumer")' = "killed" /\ cpc[0] = "crit"
        /\ CutPop(1)' <=> State("consumer2")' = "killed" /\ cpc[1] = "crit"
    BY <1>2, Actors DEF CutPush, CutPop, State
  <1>4. /\ m_cur_count \in Int /\ m_pushed_count \in Nat /\ m_popped_count \in Nat
        /\ ppc[0] = "crit" => pcount[0] = WholeCount
        /\ cpc[0] = "crit" => ccount[0] = WholeCount /\ cslot[0] = WholeFront
        /\ cpc[1] = "crit" => ccount[1] = WholeCount /\ cslot[1] = WholeFront
        /\ WholeCount = WholePushed - WholePopped
    BY Actors DEF TypeOK, W!Accounting, W!MutualExclusion
  <1>5. UNCHANGED wholes
    <2>1. CASE k = "producer" /\ ppc[0] = "crit"
      <3>1. Clear /\ CutPush(0)' /\ ~CutPop(0)' /\ ~CutPop(1)'
        BY <1>1, <1>2, <1>3, <2>1, CutIs, OneInside DEF Clear
      <3>2. m_front' = m_front /\ m_popped_count' = m_popped_count
        BY <1>1, <2>1 DEF shared, HalfPush
      <3>3. /\ WholeFront' = m_front /\ WholeCount' = pcount[0]
            /\ WholePushed' = pcount[0] + m_popped_count /\ WholePopped' = m_popped_count
        BY <1>2, <3>1, <3>2 DEF WholeFront, WholeCount, WholePushed, WholePopped
      <3>4. QED
        BY <1>4, <2>1, <3>1, <3>3, WholeWhenClear DEF wholes
    <2>2. CASE k = "consumer" /\ cpc[0] = "crit"
      <3>1. Clear /\ CutPop(0)' /\ ~CutPush(0)' /\ ~CutPop(1)'
        BY <1>1, <1>2, <1>3, <2>2, CutIs, OneInside DEF Clear
      <3>2. m_pushed_count' = m_pushed_count
        BY <1>1, <2>2 DEF shared, HalfPop
      <3>3. /\ WholeFront' = cslot[0] /\ WholeCount' = ccount[0]
            /\ WholePushed' = m_pushed_count /\ WholePopped' = m_pushed_count - ccount[0]
        BY <1>2, <3>1, <3>2 DEF WholeFront, WholeCount, WholePushed, WholePopped
      <3>4. QED
        BY <1>4, <2>2, <3>1, <3>3, WholeWhenClear DEF wholes
    <2>3. CASE k = "consumer2" /\ cpc[1] = "crit"
      <3>1. Clear /\ CutPop(1)' /\ ~CutPush(0)' /\ ~CutPop(0)'
        BY <1>1, <1>2, <1>3, <2>3, CutIs, OneInside DEF Clear
      <3>2. m_pushed_count' = m_pushed_count
        BY <1>1, <2>3 DEF shared, HalfPop
      <3>3. /\ WholeFront' = cslot[1] /\ WholeCount' = ccount[1]
            /\ WholePushed' = m_pushed_count /\ WholePopped' = m_pushed_count - ccount[1]
        BY <1>2, <3>1, <3>2 DEF WholeFront, WholeCount, WholePushed, WholePopped
      <3>4. QED
        BY <1>4, <2>3, <3>1, <3>3, WholeWhenClear DEF wholes
    <2>4. CASE /\ k = "producer" => ppc[0] # "crit"
               /\ k = "consumer" => cpc[0] # "crit"
               /\ k = "consumer2" => cpc[1] # "crit"
      <3>1. UNCHANGED shared
        BY <1>1, <2>4 DEF HalfPush, HalfPop
      <3>2. SameCut
        BY <1>2, <1>3, <2>4, CutIs DEF SameCut, WorkerRoles
      <3>3. QED
        BY <3>1, <3>2, WholeUnchanged
    <2>5. QED
      BY <2>1, <2>2, <2>3, <2>4
  <1>6. UNCHANGED W!vars
    BY <1>1, <1>5 DEF wholes, sems, pvars, cvars, W!vars, W!shared, W!sems, W!pvars, W!cvars
  <1>7. ASSUME Torn PROVE Torn'
    <2>1. CASE UNCHANGED shared
      BY <1>5, <1>7, <2>1 DEF Torn, shared, wholes
    <2>2. CASE ~UNCHANGED shared
      <3>1. Clear
        BY <1>1, <2>2, CutIs, OneInside DEF Clear, HalfPush, HalfPop
      <3>2. /\ m_pushed_count' \in {m_pushed_count, m_pushed_count + 1}
            /\ m_popped_count' \in {m_popped_count, m_popped_count + 1}
        BY <1>1, <2>2 DEF HalfPush, HalfPop
      <3>3. QED
        BY <1>5, <3>1, <3>2, WholeWhenClear DEF Torn, wholes
    <2>3. QED
      BY <2>1, <2>2
  <1>8. QED
    BY <1>6, <1>7

(* A step that leaves the queue alone and kills nobody.                    *)
LEMMA OthersStutter ==
    ASSUME UNCHANGED vars, TypeOK, \A k \in WorkerRoles : State(k)' = "killed" <=> State(k) = "killed"
    PROVE  UNCHANGED W!vars /\ Quiet
  <1>1. UNCHANGED <<m_arr, shared, sems, pvars, cvars, sent, received>>
    BY DEF vars
  <1>2. SameCut
    BY <1>1, SameCutUnless DEF pvars, cvars
  <1>3. UNCHANGED wholes
    BY <1>1, <1>2, WholeUnchanged
  <1>4. QED
    BY <1>1, <1>3 DEF wholes, sems, pvars, cvars, W!vars, W!shared, W!sems, W!pvars, W!cvars, Quiet

(* Steps of the producer's thread.                                         *)
LEMMA ProducerIsWhole ==
    ASSUME ShmInv, TypeOK, SavedIsItem, W!Accounting, ShmProducerThread(0)
    PROVE  [W!Next]_(W!vars) /\ Quiet
  <1>1. /\ State("producer") = "running" /\ UNCHANGED <<proc, cpc>> /\ 0 \in Producers
    BY ProducerSteps, Actors DEF ShmInv
  <1>2. \A k \in WorkerRoles : State(k)' = "killed" <=> State(k) = "killed"
    BY <1>1 DEF State
  <1>3. CASE Wake(P(0)) \/ Exit(P(0))
    <2>1. UNCHANGED vars
      BY <1>3 DEF Wake, Exit
    <2>2. QED
      BY <1>2, <2>1, OthersStutter
  <1>4. CASE (\E t \in Items : PushCall(0, t)) \/ PushStep(0)
    <2>1. UNCHANGED cvars
      BY <1>4 DEF PushCall, PushStep, PushTimedOut, PushClaim, PushLock, PushUnlock, PushCopy, PushPost
    <2>2. SameCut
      BY <1>1, <1>2, <2>1, SameCutUnless DEF cvars
    <2>3. UNCHANGED shared => UNCHANGED wholes
      BY <2>2, WholeUnchanged
    <2>4. ppc[0] \in {"lock", "crit"} => Clear
      <3>1. ASSUME ppc[0] = "lock" PROVE m_lock # 0
        BY <1>4, <3>1 DEF PushCall, PushStep, PushTimedOut, PushClaim, PushLock, PushUnlock, PushCopy, PushPost
      <3>2. QED
        BY <1>1, <3>1, CutIs, OneInside DEF Clear
    <2>5. ppc[0] \in {"lock", "crit"} => Clear'
      BY <2>2, <2>4 DEF SameCut, Clear
    <2>6. (\E t \in Items : W!PushCall(0, t)) \/ W!PushStep(0)
      BY <1>1, <1>4, <2>3, <2>4, <2>5, PushIsWhole
    <2>7. ppc[0] \notin {"lock", "crit"} => UNCHANGED shared
      BY <1>4 DEF PushCall, PushStep, PushTimedOut, PushClaim, PushLock, PushUnlock, PushCopy, PushPost
    <2>8. QED
      BY <1>1, <2>3, <2>5, <2>6, <2>7 DEF W!Next, Quiet
  <1>5. ShmProducerThread(0) => \/ Wake(P(0)) \/ Exit(P(0))
                                \/ (\E t \in Items : PushCall(0, t)) \/ PushStep(0)
    BY <1>1 DEF ShmProducerThread, ShmPush, Produce, Pushing, Pushed, PushStep, SavedIsItem
  <1>6. QED
    BY <1>3, <1>4, <1>5

(* Steps of a consumer's thread.                                           *)
LEMMA ConsumerIsWhole ==
    ASSUME ShmInv, TypeOK, W!Accounting, NEW c \in {0, 1}, ShmConsumerThread(c)
    PROVE  [W!Next]_(W!vars) /\ Quiet
  <1> DEFINE k == IF c = 0 THEN "consumer" ELSE "consumer2"
  <1>1. State(k) = "running" /\ UNCHANGED proc /\ c \in Consumers
    BY ConsumerSteps, Actors DEF ShmInv
  <1>2. \A j \in WorkerRoles : State(j)' = "killed" <=> State(j) = "killed"
    BY <1>1 DEF State
  <1>3. CASE Wake(C(c)) \/ Exit(C(c))
    <2>1. UNCHANGED vars
      BY <1>3 DEF Wake, Exit
    <2>2. QED
      BY <1>2, <2>1, OthersStutter
  <1>4. CASE PopCall(c) \/ PopStep(c)
    <2>1. /\ UNCHANGED pvars
          /\ \A d \in Consumers \ {c} : cpc'[d] = cpc[d] /\ cslot'[d] = cslot[d] /\ ccount'[d] = ccount[d]
      BY <1>1, <1>4 DEF PopCall, PopStep, PopTimedOut, PopClaim, PopLock, PopUnlock, PopCopy, PopPost, TypeOK
    <2>2. SameCut
      <3>1. CASE c = 0
        BY <1>1, <1>2, <2>1, <3>1, SameCutUnless, Actors DEF pvars
      <3>2. CASE c = 1
        BY <1>1, <1>2, <2>1, <3>2, SameCutUnless, Actors DEF pvars
      <3>3. QED
        BY <3>1, <3>2
    <2>3. UNCHANGED shared => UNCHANGED wholes
      BY <2>2, WholeUnchanged
    <2>4. cpc[c] \in {"lock", "crit"} => Clear
      <3>1. ASSUME cpc[c] = "lock" PROVE m_lock # 0
        BY <1>4, <3>1 DEF PopCall, PopStep, PopTimedOut, PopClaim, PopLock, PopUnlock, PopCopy, PopPost
      <3>2. c = 0 \/ c = 1
        OBVIOUS
      <3>3. QED
        BY <1>1, <3>1, <3>2, CutIs, OneInside DEF Clear
    <2>5. cpc[c] \in {"lock", "crit"} => Clear'
      BY <2>2, <2>4 DEF SameCut, Clear
    <2>6. W!PopCall(c) \/ W!PopStep(c)
      BY <1>1, <1>4, <2>3, <2>4, <2>5, PopIsWhole
    <2>7. cpc[c] \notin {"lock", "crit"} => UNCHANGED shared
      BY <1>4 DEF PopCall, PopStep, PopTimedOut, PopClaim, PopLock, PopUnlock, PopCopy, PopPost
    <2>8. QED
      BY <1>1, <2>3, <2>5, <2>6, <2>7 DEF W!Next, Quiet
  <1>5. ShmConsumerThread(c) => Wake(C(c)) \/ Exit(C(c)) \/ PopCall(c) \/ PopStep(c)
    BY <1>1 DEF ShmConsumerThread, ShmPop, Consume, Popping
  <1>6. QED
    BY <1>3, <1>4, <1>5

(* What a process does to the queue, apart from half-made updates, is a    *)
(* step of Queue, and makes no second such update.                         *)
LEMMA StepIsWhole ==
    ASSUME ShmInv, TypeOK, TypeOK', SavedIsItem, W!Accounting, [ShmNext]_shmvars
    PROVE  [W!Next]_(W!vars) /\ (Torn => Torn')
  <1>0. ProcTyped /\ Family
    BY DEF ShmInv
  <1>1. CASE Coordinate
    <2>1. \A k \in WorkerRoles : State(k)' = "killed" <=> State(k) = "killed"
      BY <1>0, <1>1, CoordinatorMoves, CoordinatorStarts
    <2>2. QED
      BY <1>1, <2>1, MainsLeaveQueue, OthersStutter, QuietKeepsTorn
  <1>2. ASSUME NEW k \in WorkerRoles, NEW t, Worker(Process(k), t) PROVE UNCHANGED W!vars /\ (Torn => Torn')
    <2>1. \A j \in WorkerRoles : State(j)' = "killed" <=> State(j) = "killed"
      BY <1>0, <1>2, WorkerMoves DEF Becomes, Roles, State
    <2>2. QED
      BY <1>2, <2>1, MainsLeaveQueue, OthersStutter, QuietKeepsTorn
  <1>3. ASSUME NEW k \in WorkerRoles, NEW t, Runs(k, t), Killed(Process(k), t)
        PROVE  UNCHANGED W!vars /\ (Torn => Torn')
    BY <1>3, KillIsStutter
  <1>4. CASE UNCHANGED shmvars
    <2>1. UNCHANGED vars /\ UNCHANGED proc
      BY <1>4 DEF shmvars, wvars
    <2>2. QED
      BY <2>1, OthersStutter, QuietKeepsTorn DEF State
  <1>5. CASE ShmProducerThread(0) \/ \E c \in {0, 1} : ShmConsumerThread(c)
    BY <1>5, ProducerIsWhole, ConsumerIsWhole, QuietKeepsTorn
  <1>6. QED
    BY <1>1, <1>2, <1>3, <1>4, <1>5, StepsOf

(* The queue without half-made updates is one of Queue, and what report    *)
(* prints at most one update ahead of it.                                  *)
LEMMA ShmIsWhole == ShmSpec => W!Spec /\ [](W!Accounting /\ Torn)
  <1>1. ShmInit => W!Init /\ Torn
    <2> SUFFICES ASSUME ShmInit PROVE W!Init /\ Torn
      OBVIOUS
    <2>1. Clear
      BY CutIs, Actors DEF ShmInit, QueueInPlace, WorkersInit, Init, Clear
    <2>2. QED
      BY <2>1, WholeWhenClear DEF ShmInit, QueueInPlace, WorkersInit, Init, W!Init, Slots, W!Slots, Torn
  <1>2. W!Init => W!Accounting
    BY W!AccountingInit, WholeAssumption
  <1>3. (ShmInv /\ TypeOK /\ SavedIsItem) /\ TypeOK' /\ W!Accounting /\ Torn /\ [ShmNext]_shmvars
           => [W!Next]_(W!vars) /\ Torn'
    BY StepIsWhole
  <1>4. W!Accounting /\ [W!Next]_(W!vars) => W!Accounting'
    BY W!AccountingInductive, WholeAssumption
  <1>5. QED
    BY <1>1, <1>2, <1>3, <1>4, ShmInvariant, PTL DEF ShmSpec, W!Spec

(* However the coordinator, its clones and its workers start, fail or get  *)
(* killed, they use the queue in the region as Queue allows (push and pop  *)
(* over shared memory), but for the counters: a worker killed inside the   *)
(* critical section leaves them with some of its stores made, and m_lock   *)
(* taken for good.  Without those stores the counters are Queue's too.     *)
THEOREM ShmImplementsQueue == ShmSpec => ImplementsQueue
  <1>1. W!Spec => Whole!Spec
    BY WholeIsW, PTL DEF W!Spec, Whole!Spec
  <1>2. QED
    BY <1>1, ShmIsWhole, PTL DEF ImplementsQueue

-----------------------------------------------------------------------------
(* The report.                                                             *)

(* When main has reported, only a killed worker is in a call.              *)
LEMMA KilledInCall ==
    ASSUME ShmInv, reported["main"] # << >>
    PROVE  /\ ppc[0] # "idle" => State("producer") = "killed"
           /\ cpc[0] # "idle" => State("consumer") = "killed"
           /\ cpc[1] # "idle" => State("consumer2") = "killed"
  <1>1. \A k \in WorkerRoles : State(k) \in {"none", "ended", "killed"}
    BY NobodyWorks DEF ShmInv, LastWord
  <1>2. QED
    BY <1>1 DEF ShmInv, Life, InLife, WorkerRoles

(* The counts are ahead of the histories by what was cut short, in the     *)
(* critical section or on the way from there to the slot.                  *)
LEMMA CutShort ==
    ASSUME TypeOK, W!TypeOK, W!CountsMatchHistories, Torn
    PROVE  /\ m_pushed_count - Len(sent) \in 0 .. Bit(ppc[0] # "idle")
           /\ m_popped_count - Len(received) \in 0 .. Bit(cpc[0] # "idle") + Bit(cpc[1] # "idle")
  <1> DEFINE i == Bit(ppc[0] \in {"copy"})
             j == Bit(cpc[0] \in {"copy"})
             k == Bit(cpc[1] \in {"copy"})
             m == m_pushed_count - WholePushed
             n == m_popped_count - WholePopped
  <1>1. /\ Len(sent) \in Nat /\ Len(received) \in Nat /\ WholePushed \in Nat /\ WholePopped \in Nat
        /\ m_pushed_count \in Nat /\ m_popped_count \in Nat
    BY DEF TypeOK, W!TypeOK
  <1>2. WholePushed = Len(sent) + i /\ WholePopped = Len(received) + j + k
    <2>1. WholePushed = Len(sent) + W!PushersCopying /\ WholePopped = Len(received) + W!PoppersCopying
      BY DEF W!CountsMatchHistories
    <2>2. W!PushersCopying = i /\ W!PoppersCopying = j + k
      BY WholeCalls
    <2>3. i \in {0, 1} /\ j \in {0, 1} /\ k \in {0, 1}
      BY DEF Bit
    <2> HIDE DEF i, j, k
    <2>4. QED
      BY <1>1, <2>1, <2>2, <2>3
  <1>3. m \in {0, 1} /\ n \in {0, 1}
    BY <1>1 DEF Torn
  <1>4. /\ m = 1 => ppc[0] = "crit"
        /\ n = 1 => cpc[0] = "crit" \/ cpc[1] = "crit"
    BY <1>1, CutIs DEF WholePushed, WholePopped
  <1>5. /\ i + m \in 0 .. Bit(ppc[0] # "idle")
        /\ j + k + n \in 0 .. Bit(cpc[0] # "idle") + Bit(cpc[1] # "idle")
    <2> HIDE DEF m, n
    <2>1. QED
      BY <1>3, <1>4 DEF Bit
  <1>6. m_pushed_count - Len(sent) = i + m /\ m_popped_count - Len(received) = j + k + n
    <2>1. i \in {0, 1} /\ j \in {0, 1} /\ k \in {0, 1}
      BY DEF Bit
    <2> HIDE DEF i, j, k
    <2>2. QED
      BY <1>1, <1>2, <2>1
  <1> HIDE DEF i, j, k, m, n
  <1>7. QED
    BY <1>5, <1>6

(* Where a failed exec has put a clone in the producer's place nothing is  *)
(* pushed and nothing is popped.                                           *)
LEMMA NothingPopped ==
    ASSUME ShmInv, W!Accounting, State("p_clone") # "none"
    PROVE  WholePopped = 0 /\ m_popped_count = 0 /\ sent = << >>
  <1>1. sent = << >> /\ m_pushed_count = 0 /\ State("producer") = "none"
    BY DEF ShmInv, Family, Related, NoProducerNoItems
  <1>2. WholePushed = 0
    BY <1>1, CutIs DEF WholePushed
  <1>3. /\ W!TypeOK /\ WholePopped \in Nat /\ m_pop_sem \in Nat /\ WholeCount \in Int
        /\ WholeCount = WholePushed - WholePopped
        /\ WholeCount = m_pop_sem + W!PushersCounted + W!PoppersCounted
    BY DEF W!Accounting, W!TypeOK, W!CountIsTokens
  <1>4. W!PushersCounted \in Nat /\ W!PoppersCounted \in Nat
    BY <1>3, W!Counts, WholeAssumption DEF W!CountsOK
  <1>5. WholePopped = 0 /\ W!PoppersCounted = 0
    BY <1>2, <1>3, <1>4
  <1>6. cpc[0] # "crit" /\ cpc[1] # "crit"
    BY <1>3, <1>5, WholeCalls DEF Bit
  <1>7. m_popped_count = WholePopped
    BY <1>6, CutIs DEF WholePopped
  <1>8. QED
    BY <1>1, <1>5, <1>7

(* The reports of the clones of the coordinator.                           *)
ClonesReport == \A k \in CoordinatorRoles \ {"main"} : reported[k] # << >> => reported[k][2] = 0

(* A clone exists in the place of the producer or of the consumer, and in  *)
(* neither case there is anything popped to report.                        *)
LEMMA ClonesReportNothing ==
    ASSUME ShmInv, W!Accounting, ClonesReport, [ShmNext]_shmvars
    PROVE  ClonesReport'
  <1>1. CASE UNCHANGED reported
    BY <1>1 DEF ClonesReport
  <1>2. ASSUME NEW k \in CoordinatorRoles, ReportAndUnlink(k) PROVE ClonesReport'
    <2>1. State(k) = "unlink" /\ reported' = [reported EXCEPT ![k] = <<m_pushed_count, m_popped_count>>]
      BY <1>2 DEF ReportAndUnlink, Moves, State
    <2>2. k # "main" => m_popped_count = 0
      <3>1. CASE State("p_clone") # "none"
        BY <3>1, NothingPopped
      <3>2. CASE State("p_clone") = "none"
        <4>1. k # "main" => k = "c_clone"
          BY <2>1, <3>2 DEF CoordinatorRoles, ShmInv, Family, Related
        <4>2. k # "main" => State("consumer") = "none" /\ State("consumer2") = "none"
          BY <2>1, <3>2, <4>1 DEF ShmInv, Family, Related
        <4>3. QED
          BY <4>2 DEF ShmInv, NoConsumerNoPops
      <3>3. QED
        BY <3>1, <3>2
    <2>3. QED
      BY <2>1, <2>2 DEF ClonesReport, ShmInv, LastWord
  <1>3. UNCHANGED reported \/ \E k \in CoordinatorRoles : ReportAndUnlink(k)
    BY DEF ShmNext, Coordinate, ForkOrWait, Worker, AttachFails, AttachAndConstruct, Delete, DetachAndUnlink,
       Killed, ShmProducerThread, ShmConsumerThread, ShmPush, ShmPop, InProcess, Finished, shmvars
  <1>4. QED
    BY <1>1, <1>2, <1>3

(* The coordinator reports when the last worker has ended, so that its     *)
(* numbers are final and exact, and every killed worker takes one item,    *)
(* one token and m_lock with it at most, wherever in push or pop it was;   *)
(* whichever open, fork or exec fails (waitpid before Queue::report).  Its *)
(* clones, which a failed exec leaves behind, never report a popped item.  *)
THEOREM ReportIsFinal == ShmSpec => []FinalReport
  <1>1. ShmInv /\ TypeOK /\ W!Accounting /\ W!CountsMatchHistories /\ Torn /\ ClonesReport => FinalReport
    <2> SUFFICES ASSUME ShmInv, TypeOK, W!Accounting, W!CountsMatchHistories, Torn, ClonesReport
                 PROVE  FinalReport
      OBVIOUS
    <2> DEFINE killed == {w \in WorkerProcesses : proc[w] = "killed"}
               p == Bit(State("producer") = "killed")
               c == Bit(State("consumer") = "killed")
               d == Bit(State("consumer2") = "killed")
    <2>1. Cardinality(killed) = p + c + d
      <3>1. killed \subseteq {Process("producer"), Process("consumer"), Process("consumer2")}
        BY DEF WorkerProcesses
      <3>2. /\ Process("producer") \in killed <=> State("producer") = "killed"
            /\ Process("consumer") \in killed <=> State("consumer") = "killed"
            /\ Process("consumer2") \in killed <=> State("consumer2") = "killed"
        BY DEF WorkerProcesses, State
      <3>3. /\ Process("producer") # Process("consumer") /\ Process("producer") # Process("consumer2")
            /\ Process("consumer") # Process("consumer2")
        BY DEF Process
      <3> HIDE DEF killed
      <3>4. Cardinality(killed) = Bit(Process("producer") \in killed) + Bit(Process("consumer") \in killed)
                                     + Bit(Process("consumer2") \in killed)
        BY <3>1, <3>3, OfThree
      <3>5. QED
        BY <3>2, <3>4 DEF Bit
    <2>2. p \in {0, 1} /\ c \in {0, 1} /\ d \in {0, 1}
      BY DEF Bit
    <2>3. ASSUME reported["main"] # << >>
          PROVE  /\ reported["main"][1] - Len(sent) \in 0 .. p + c + d
                 /\ reported["main"][2] - Len(received) \in 0 .. p + c + d
                 /\ Size - (m_push_sem + m_pop_sem) \in 0 .. p + c + d
                 /\ p + c + d = 0 => m_lock = 1
      <3> DEFINE x == Bit(ppc[0] # "idle")
                 y == Bit(cpc[0] # "idle")
                 z == Bit(cpc[1] # "idle")
      <3>1. W!TypeOK /\ m_push_sem \in Nat /\ m_pop_sem \in Nat /\ m_lock \in Nat /\ Size \in Nat
        BY QueueAssumption DEF W!Accounting, TypeOK
      <3>2. x \in 0 .. p /\ y \in 0 .. c /\ z \in 0 .. d
        BY <2>3, KilledInCall DEF Bit
      <3>3. reported["main"][1] = m_pushed_count /\ reported["main"][2] = m_popped_count
        BY <2>3 DEF ShmInv, LastWord
      <3>4. m_pushed_count - Len(sent) \in 0 .. x /\ m_popped_count - Len(received) \in 0 .. y + z
        BY <3>1, CutShort
      <3>5. /\ W!PushersHolding \in 0 .. x /\ W!PushersInside \in 0 .. x
            /\ W!PoppersHolding \in 0 .. y + z /\ W!PoppersInside \in 0 .. y + z
        BY <3>1, WholeCalls DEF Bit
      <3>6. /\ m_push_sem + m_pop_sem + W!PushersHolding + W!PoppersHolding = Size
            /\ m_lock + W!PushersInside + W!PoppersInside = 1
        BY DEF W!Accounting, W!TokenConservation, W!MutualExclusion
      <3> HIDE DEF p, c, d, x, y, z
      <3>7. x \in 0 .. 1 /\ y \in 0 .. 1 /\ z \in 0 .. 1 /\ x <= p /\ y <= c /\ z <= d
        BY <2>2, <3>2
      <3>8. x <= p + c + d /\ y + z <= p + c + d /\ x + y + z <= p + c + d
        BY <2>2, <3>7
      <3>9. Size - (m_push_sem + m_pop_sem) \in 0 .. p + c + d
        BY <2>2, <3>1, <3>5, <3>6, <3>7, <3>8
      <3>10. p + c + d = 0 => m_lock = 1
        BY <2>2, <3>1, <3>5, <3>6, <3>7, <3>8
      <3>11. /\ reported["main"][1] - Len(sent) \in 0 .. p + c + d
             /\ reported["main"][2] - Len(received) \in 0 .. p + c + d
        BY <2>2, <3>3, <3>4, <3>7, <3>8
      <3>12. QED
        BY <3>9, <3>10, <3>11
    <2>4. killed = {} => p + c + d = 0
      BY <2>1, FS_EmptySet
    <2> HIDE DEF p, c, d
    <2>5. QED
      BY <2>1, <2>3, <2>4 DEF FinalReport, ClonesReport
  <1>2. ShmInit => ClonesReport
    BY DEF ShmInit, ClonesReport
  <1>3. (ShmInv /\ TypeOK /\ SavedIsItem) /\ (W!Accounting /\ Torn) /\ ClonesReport /\ [ShmNext]_shmvars
           => ClonesReport'
    BY ClonesReportNothing
  <1>4. W!Spec => []W!CountsMatchHistories
    BY W!HistoriesInvariant, WholeAssumption
  <1>5. QED
    BY <1>1, <1>2, <1>3, <1>4, ShmInvariant, ShmIsWhole, PTL DEF ShmSpec

-----------------------------------------------------------------------------
(* The order of the items.                                                 *)

(* While no failed exec has cloned main in the producer's place there is   *)
(* one producer and one consumer at work.                                  *)
LEMMA PairAtWork ==
    ASSUME ShmInv, State("p_clone") = "none"
    PROVE  W!OneAtWork(0, 0)
  <1>1. State("consumer2") = "none"
    BY DEF ShmInv, Family, Related
  <1>2. cpc[1] = "idle"
    BY <1>1 DEF ShmInv, Life, InLife
  <1>3. QED
    BY <1>2, Actors DEF W!OneAtWork

(* Once p_clone exists it does not vanish.                                 *)
LEMMA CloneStays ==
    ASSUME ShmInv, TypeOK, [ShmNext]_shmvars, State("p_clone")' = "none"
    PROVE  State("p_clone") = "none"
  <1>0. ProcTyped /\ Family /\ WorkersTypes /\ Life /\ "p_clone" \in Roles /\ "p_clone" \notin WorkerRoles
    BY DEF ShmInv, Roles, CoordinatorRoles, WorkerRoles
  <1>1. ASSUME Coordinate PROVE State("p_clone") = "none"
    BY <1>0, <1>1, CoordinatorMoves, CoordinatorStarts
  <1>2. ASSUME NEW k \in WorkerRoles, NEW t, Runs(k, t), Killed(Process(k), t) \/ Worker(Process(k), t)
        PROVE  State("p_clone") = "none"
    <2>1. UNCHANGED proc \/ \E s : Becomes(k, s)
      BY <1>0, <1>2, KilledMoves, WorkerMoves
    <2>2. QED
      BY <1>0, <2>1 DEF Becomes, State
  <1>3. ASSUME UNCHANGED proc PROVE State("p_clone") = "none"
    BY <1>3 DEF State
  <1>4. QED
    BY <1>1, <1>2, <1>3, StepsOf
    DEF ShmProducerThread, ShmConsumerThread, ShmPush, ShmPop, InProcess, shmvars

(* Although the queue keeps no order among several consumers, the items    *)
(* come out of the region as they went in, nothing lost, repeated or torn: *)
(* a second consumer exists only after the exec of the producer failed,    *)
(* and then there is no item (push and pop over shared memory).            *)
THEOREM ShmFifo == ShmSpec => []FifoOrder
  <1> DEFINE Paired == State("p_clone") = "none" => W!Pipeline(0, 0)
  <1>1. W!Init => Paired
    <2> SUFFICES ASSUME W!Init PROVE W!Pipeline(0, 0)
      OBVIOUS
    <2>1. /\ ppc[0] = "idle" /\ cpc[0] = "idle"
          /\ WholePushed = 0 /\ WholePopped = 0
          /\ sent = << >> /\ received = << >>
      BY Actors DEF W!Init
    <2>2. Len(sent) = 0 /\ Len(received) = 0
      BY <2>1
    <2>3. 1 .. 0 = {} /\ 0 .. 0 - 1 = {}
      OBVIOUS
    <2>4. QED
      BY <2>1, <2>2, <2>3 DEF W!Pipeline
  <1>2. ASSUME ShmInv, ShmInv', TypeOK, TypeOK', SavedIsItem, W!Accounting, Paired, [ShmNext]_shmvars
        PROVE  Paired'
    <2> SUFFICES ASSUME State("p_clone")' = "none" PROVE W!Pipeline(0, 0)'
      OBVIOUS
    <2>1. State("p_clone") = "none"
      BY <1>2, CloneStays
    <2>2. W!OneAtWork(0, 0)
      BY <1>2, <2>1, PairAtWork
    <2>3. W!OneAtWork(0, 0)'
      <3>1. State("consumer2")' = "none"
        BY <1>2 DEF ShmInv, Family, Related
      <3>2. cpc'[1] = "idle"
        BY <1>2, <3>1 DEF ShmInv, Life, InLife
      <3>3. QED
        BY <3>2, Actors DEF W!OneAtWork
    <2>4. [W!Next]_(W!vars)
      BY <1>2, StepIsWhole
    <2>5. QED
      BY <1>2, <2>1, <2>2, <2>3, <2>4, W!PipelineInductive, WholeAssumption
  <1>3. ShmInv /\ W!Accounting /\ W!CountsMatchHistories /\ Paired => FifoOrder
    <2> SUFFICES ASSUME ShmInv, W!Accounting, W!CountsMatchHistories, Paired PROVE FifoOrder
      OBVIOUS
    <2>1. CASE State("p_clone") = "none"
      <3>1. W!OneAtWork(0, 0) /\ W!Pipeline(0, 0)
        BY <2>1, PairAtWork
      <3>2. W!Window(0, 0)
        BY <3>1, W!WindowHolds, WholeAssumption
      <3>3. QED
        BY <3>1, <3>2 DEF W!Window, W!Pipeline, FifoOrder
    <2>2. CASE State("p_clone") # "none"
      <3>1. sent = << >> /\ WholePopped = 0
        BY <2>2, NothingPopped
      <3>2. W!TypeOK /\ Len(received) \in Nat
        BY DEF W!Accounting, W!TypeOK
      <3>3. W!PoppersCopying \in Nat
        BY <3>2, W!Counts, WholeAssumption DEF W!CountsOK
      <3>4. Len(received) = 0 /\ Len(sent) = 0
        BY <3>1, <3>2, <3>3 DEF W!CountsMatchHistories
      <3>5. QED
        BY <3>4 DEF FifoOrder
    <2>3. QED
      BY <2>1, <2>2
  <1>4. W!Spec => []W!CountsMatchHistories
    BY W!HistoriesInvariant, WholeAssumption
  <1>5. W!Spec => W!Init
    BY DEF W!Spec
  <1> HIDE DEF Paired
  <1>6. QED
    BY <1>1, <1>2, <1>3, <1>4, <1>5, ShmInvariant, ShmIsWhole, PTL DEF ShmSpec
=============================================================================
