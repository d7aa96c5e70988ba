---------------------------- MODULE SharedMemSim ----------------------------
(***************************************************************************)
(* A run of Chapter14/SharedMemory on one core.  The coordinator creates a *)
(* shared memory region and a Queue in it, and forks a ProducerSim and a   *)
(* ConsumerSim process.  Each of those attaches the region by its name,    *)
(* runs a Producer or a Consumer for a while, deletes it, and removes the  *)
(* name, as the coordinator does in the end.  The Queue, Producer and      *)
(* Consumer are those of Workers.  The name and the region behind it are   *)
(* external: a region lives on, unnamed, for as long as it is mapped.      *)
(***************************************************************************)
EXTENDS Workers, Coordinator

VARIABLES
    name,        \* whether the region has a name
    reported     \* what Queue::report printed in main and in its clones: pushed, popped

shmvars == <<name, proc, reported, wvars>>

Process(role) == <<1, role>>

Coordinators == {Process(k) : k \in CoordinatorRoles}

(* consumer2 is the one a clone of the coordinator forks.                  *)
ProducerProcess == [p \in Producers |-> Process("producer")]
ConsumerProcess == [c \in Consumers |-> Process(IF c = 0 THEN "consumer" ELSE "consumer2")]

ASSUME OneEach == Producers = {0} /\ Consumers = {0, 1}

WorkerProcesses == {Process(k) : k \in {"producer", "consumer", "consumer2"}}

(* The queue is constructed in the region; no worker exists yet.           *)
QueueInPlace == WorkersInit

(* shm_open, ftruncate, mmap and the construction of the queue in place,   *)
(* or main gives up because shm_open fails.                                *)
ShmInit ==
    /\ QueueInPlace
    /\ name \in BOOLEAN
    /\ ~name => "open" \in Failures /\ MaxFailures > 0
    /\ proc = [x \in Coordinators \cup WorkerProcesses |->
                  IF x # Process("main") THEN "none" ELSE IF name THEN "fork_producer" ELSE "failed"]
    /\ reported = [k \in CoordinatorRoles |-> << >>]

-----------------------------------------------------------------------------
ForkOrWait ==
    /\ ForkAndWait(1)
    /\ UNCHANGED <<name, reported, wvars>>

(* report, which reads the counters without m_lock, munmap and shm_unlink; *)
(* that the name may be gone already goes unnoticed.                       *)
ReportAndUnlink(k) ==
    /\ Moves(Process(k), "unlink", "ended")
    /\ name' = FALSE
    /\ reported' = [reported EXCEPT ![k] = <<m_pushed_count, m_popped_count>>]
    /\ UNCHANGED wvars

Coordinate == ForkOrWait \/ \E k \in CoordinatorRoles : ReportAndUnlink(k)

-----------------------------------------------------------------------------
(* main of ProducerSim and ConsumerSim: w is the process, t its thread.    *)

(* shm_open finds no such name.                                            *)
AttachFails(w) ==
    /\ ~(name /\ WorkerId = Id)
    /\ Moves(w, "starting", "ended")
    /\ UNCHANGED <<name, reported, wvars>>

(* Mutant of AttachAndConstruct: the queue is constructed once more.       *)
AttachReconstructing(w, t) ==
    /\ name /\ WorkerId = Id
    /\ Moves(w, "starting", "running")
    /\ StartThread(t)
    /\ m_lock' = 1 /\ m_push_sem' = Size /\ m_pop_sem' = 0
    /\ UNCHANGED <<name, reported, m_arr, shared, pvars, cvars, sent, received,
                   m_next_item_id, m_valid_saved_work_item>>

AttachAndConstruct(w, t) ==
    /\ name /\ WorkerId = Id
    /\ Moves(w, "starting", "running")
    /\ \/ \E p \in Producers : t = P(p) /\ ConstructProducer(p)
       \/ \E c \in Consumers : t = C(c) /\ ConstructConsumer(c)
    /\ UNCHANGED <<name, reported>>

Delete(w, t) ==
    /\ proc[w] = "running"
    /\ Stop(t) \/ Join(t)
    /\ UNCHANGED <<name, proc, reported>>

(* Mutant of DetachAndUnlink: the name is left to the coordinator.         *)
DetachOnly(w, t) ==
    /\ thread[t] = "joined"
    /\ Moves(w, "running", "ended")
    /\ UNCHANGED <<name, reported, wvars>>

DetachAndUnlink(w, t) ==
    /\ thread[t] = "joined"
    /\ Moves(w, "running", "ended")
    /\ name' = FALSE
    /\ UNCHANGED <<reported, wvars>>

Worker(w, t) == AttachFails(w) \/ AttachAndConstruct(w, t) \/ Delete(w, t) \/ DetachAndUnlink(w, t)

(* The counters as a worker killed with m_lock in hand leaves them: some   *)
(* of its stores are made, in whatever order they are compiled to.         *)
HalfPush(p) ==
    /\ ppc[p] = "crit"
    /\ m_cur_count' \in {m_cur_count, pcount[p] + 1}
    /\ m_pushed_count' \in {m_pushed_count, m_pushed_count + 1}
    /\ UNCHANGED <<m_front, m_popped_count>>

HalfPop(c) ==
    /\ cpc[c] = "crit"
    /\ m_front' \in {m_front, (cslot[c] + 1) % Size}
    /\ m_cur_count' \in {m_cur_count, ccount[c] - 1}
    /\ m_popped_count' \in {m_popped_count, m_popped_count + 1}
    /\ UNCHANGED m_pushed_count

(* A killed worker stops where it is; the region stays as it left it, and  *)
(* nobody posts the semaphores it has claimed.                             *)
Killed(w, t) ==
    /\ Kill(w)
    /\ \/ UNCHANGED shared
       \/ \E p \in Producers : t = P(p) /\ HalfPush(p)
       \/ \E c \in Consumers : t = C(c) /\ HalfPop(c)
    /\ UNCHANGED <<name, reported, m_arr, sems, pvars, cvars, sent, received,
                   thread, m_run, m_next_item_id, m_valid_saved_work_item>>

AllEnded == \A x \in Coordinators \cup WorkerProcesses : proc[x] = "none" \/ Ended(x)

Finished == AllEnded /\ UNCHANGED shmvars

(* The threads of the workers: ScheduledObject::run, and push and pop on   *)
(* the queue in the region, for as long as the process lives.              *)
InProcess(w) ==
    /\ proc[w] = "running"
    /\ UNCHANGED <<name, proc, reported>>

ShmPush(p) == InProcess(ProducerProcess[p]) /\ (Pushing(p) \/ Pushed(p))

ShmPop(c) == InProcess(ConsumerProcess[c]) /\ Popping(c)

ShmProducerThread(p) ==
    \/ /\ InProcess(ProducerProcess[p])
       /\ Wake(P(p)) \/ (ppc[p] = "idle" /\ Exit(P(p))) \/ Produce(p)
    \/ ShmPush(p)

ShmConsumerThread(c) ==
    \/ /\ InProcess(ConsumerProcess[c])
       /\ Wake(C(c)) \/ (cpc[c] = "idle" /\ Exit(C(c))) \/ Consume(c)
    \/ ShmPop(c)

ShmNext ==
    \/ Coordinate
    \/ \E p \in Producers :
          \/ Worker(ProducerProcess[p], P(p)) \/ ShmProducerThread(p)
          \/ Killed(ProducerProcess[p], P(p))
    \/ \E c \in Consumers :
          \/ Worker(ConsumerProcess[c], C(c)) \/ ShmConsumerThread(c)
          \/ Killed(ConsumerProcess[c], C(c))
    \/ Finished

ShmSpec == ShmInit /\ [][ShmNext]_shmvars

(* As in ProducerConsumerSim: processes and threads get to run, sleeps and *)
(* timed waits end, and a thread waiting for m_lock gets it if it is free  *)
(* over and over.                                                          *)
ShmFairness ==
    /\ WF_shmvars(Coordinate)
    /\ \A p \in Producers :
          /\ WF_shmvars(Worker(ProducerProcess[p], P(p))) /\ WF_shmvars(ShmProducerThread(p))
          /\ SF_shmvars(ShmPush(p) /\ PushLock(p))
    /\ \A c \in Consumers :
          /\ WF_shmvars(Worker(ConsumerProcess[c], C(c))) /\ WF_shmvars(ShmConsumerThread(c))
          /\ SF_shmvars(ShmPop(c) /\ PopLock(c))

ShmFairSpec == ShmSpec /\ ShmFairness

-----------------------------------------------------------------------------
(* Properties.                                                             *)

(* The processes, the queue they share and the reports have their types;   *)
(* the counters also when the worker that updates them is killed.          *)
ShmTypeOK ==
    /\ WorkersTypeOK
    /\ name \in BOOLEAN
    /\ reported \in [CoordinatorRoles -> {<< >>} \cup (Nat \X Nat)]
    /\ \A x \in Coordinators : proc[x] \in
          {"none", "fork_producer", "fork_consumer", "wait_producer", "wait_consumer", "unlink", "ended",
           "failed"}
    /\ \A w \in WorkerProcesses : proc[w] \in {"none", "starting", "running", "ended", "killed"}

(* The report of the coordinator is the last word: it counts exactly the   *)
(* items stored and handed out, no process changes them any more and none  *)
(* has left m_lock or a token behind, whichever process failed to start.   *)
(* A killed worker takes with it one item, one token and m_lock at most    *)
(* (waitpid before Queue::report).  A clone of the coordinator is there in *)
(* the place of the producer or of the consumer, so that whenever it       *)
(* reports, it reports that nothing was popped.                            *)
FinalReport ==
    LET killed == {w \in WorkerProcesses : proc[w] = "killed"}
        lost   == 0 .. Cardinality(killed)
        final  == reported["main"]
    IN  /\ final # << >> =>
              /\ final[1] - Len(sent) \in lost /\ final[2] - Len(received) \in lost
              /\ Size - (m_push_sem + m_pop_sem) \in lost
              /\ killed = {} => m_lock = 1
        /\ \A k \in CoordinatorRoles \ {"main"} : reported[k] # << >> => reported[k][2] = 0

(* A killed worker holds m_lock: sem_wait knows no timeout, so nobody gets *)
(* it any more.                                                            *)
CutPush(p) == proc[ProducerProcess[p]] = "killed" /\ ppc[p] = "crit"
CutPop(c)  == proc[ConsumerProcess[c]] = "killed" /\ cpc[c] = "crit"

LockLost == (\E p \in Producers : CutPush(p)) \/ (\E c \in Consumers : CutPop(c))

(* The counters without the stores of a worker killed with m_lock in hand: *)
(* what it had loaded, and the number of items that goes with that.        *)
WholeCount ==
    IF CutPush(0) THEN pcount[0] ELSE
    IF CutPop(0) THEN ccount[0] ELSE IF CutPop(1) THEN ccount[1] ELSE m_cur_count
WholeFront  == IF CutPop(0) THEN cslot[0] ELSE IF CutPop(1) THEN cslot[1] ELSE m_front
WholePushed == IF CutPush(0) THEN pcount[0] + m_popped_count ELSE m_pushed_count
WholePopped == IF CutPop(0) \/ CutPop(1) THEN m_pushed_count - WholeCount ELSE m_popped_count

Whole == INSTANCE Queue WITH m_front <- WholeFront, m_cur_count <- WholeCount,
                             m_pushed_count <- WholePushed, m_popped_count <- WholePopped

(* The processes use the queue as Queue says, however they start, fail or  *)
(* are killed (push and pop over shared memory).  A kill inside the        *)
(* critical section is the one thing Queue does not know: it leaves the    *)
(* counters out of step, but with them m_lock taken for good, so that      *)
(* nobody but report ever reads what the killed worker has stored there.   *)
ImplementsQueue == Whole!Spec

(* The region is freed: every process ends, and the name is gone unless a  *)
(* fork of the coordinator failed and no worker lived to remove it         *)
(* (shm_unlink in all three programs).  Nobody hangs, but for the users of *)
(* a lock that a killed worker held.                                       *)
RegionFreed ==
    \/ <>[]LockLost
    \/ <>[](/\ AllEnded
            /\ name => /\ proc[Process("main")] = "failed"
                       /\ \A w \in WorkerProcesses : proc[w] \in {"none", "killed"})

(* "Producer and Consumer share memory, where the queue on this core is    *)
(* stored": each of them gets to attach the region.                        *)
WorkersAttach ==
    \A t \in Threads :
        LET w == IF t \in ProducerThreads THEN ProducerProcess[t[2]] ELSE ConsumerProcess[t[2]]
        IN  Ended(w) => thread[t] # "none"
=============================================================================
