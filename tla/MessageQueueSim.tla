-------------------------- MODULE MessageQueueSim --------------------------
(***************************************************************************)
(* The simulation of Chapter14/MessageQueue on one core, run again and     *)
(* again under the same id.  Each run has a coordinator (main of           *)
(* Sim/ProducerConsumerSim.cpp) that opens the message queue and forks a   *)
(* ProducerSim and a ConsumerSim process; each of those has a main and a   *)
(* ScheduledObject thread that sends or receives.  They meet only in the   *)
(* kernel: the name and the queue object behind it are external and        *)
(* modelled by what the code relies on.                                    *)
(***************************************************************************)
EXTENDS Coordinator

CONSTANTS
    NumRuns,     \* the runs made one after the other
    QUEUE_SIZE,  \* mq_maxmsg
    MaxItems,    \* bound: items a producer cooks in the first run
    MaxLater     \* bound: items a producer cooks in a later run

ASSUME MessageQueueAssumption ==
    /\ NumRuns \in Nat
    /\ QUEUE_SIZE \in Nat \ {0} /\ MaxItems \in Nat /\ MaxLater \in Nat

VARIABLES
    name,      \* the run whose queue object the name denotes, 0 if there is none
    mq,        \* the messages in the object created by each run
    thread,    \* where the thread of each worker process is
    m_mqd,     \* the worker's descriptor: an object, or "none", "failed", "closed"
    queue,     \* the object the call in progress is working on
    m_next_item_id,
    count,     \* m_produced_count, m_consumed_count
    reported,  \* what the destructor printed
    moved      \* history: the messages the worker got into or out of a queue

vars == <<name, mq, proc, thread, m_mqd, queue, m_next_item_id, count, reported, moved>>

Runs == 1 .. NumRuns

Producers == Runs \X {"producer"}
Consumers == Runs \X {"consumer", "consumer2"}
Workers == Producers \cup Consumers
Coordinators == Runs \X CoordinatorRoles

Init ==
    /\ name = 0
    /\ mq = [r \in Runs |-> << >>]
    /\ proc = [x \in Workers \cup Coordinators |-> "none"]
    /\ thread = [w \in Workers |-> "none"]
    /\ m_mqd = [w \in Workers |-> "none"]
    /\ queue = [w \in Workers |-> 0]
    /\ m_next_item_id = [w \in Workers |-> 0]
    /\ count = [w \in Workers |-> 0]
    /\ reported = [w \in Workers |-> 0]
    /\ moved = [w \in Workers |-> << >>]

-----------------------------------------------------------------------------
(* The coordinator.                                                        *)

(* mq_open with O_CREAT and without O_EXCL: a queue that is still there is *)
(* used as it is.  A run is started when the last one has ended.           *)
OpenQueue(r) ==
    /\ proc[<<r, "main">>] = "none"
    /\ r > 1 => Ended(<<r - 1, "main">>)
    /\ name' = IF name = 0 THEN r ELSE name
    /\ proc' = [proc EXCEPT ![<<r, "main">>] = "fork_producer"]
    /\ UNCHANGED <<mq, thread, m_mqd, queue, m_next_item_id, count, reported, moved>>

(* mq_open fails, and main returns -1.                                     *)
OpenFails(r) ==
    /\ MayFail("open")
    /\ r > 1 => Ended(<<r - 1, "main">>)
    /\ Moves(<<r, "main">>, "none", "failed")
    /\ UNCHANGED <<name, mq, thread, m_mqd, queue, m_next_item_id, count, reported, moved>>

(* Mutant of Unlink: the queue is closed but stays.                        *)
UnlinkForgotten(r, k) ==
    /\ proc[<<r, k>>] = "unlink"
    /\ proc' = [proc EXCEPT ![<<r, k>>] = "ended"]
    /\ UNCHANGED <<name, mq, thread, m_mqd, queue, m_next_item_id, count, reported, moved>>

(* mq_close and mq_unlink; a failing unlink is only reported.              *)
Unlink(r, k) ==
    /\ proc[<<r, k>>] = "unlink"
    /\ name' = 0
    /\ proc' = [proc EXCEPT ![<<r, k>>] = "ended"]
    /\ UNCHANGED <<mq, thread, m_mqd, queue, m_next_item_id, count, reported, moved>>

Coordinate(r) ==
    \/ OpenQueue(r) \/ OpenFails(r)
    \/ /\ ForkAndWait(r)
       /\ UNCHANGED <<name, mq, thread, m_mqd, queue, m_next_item_id, count, reported, moved>>
    \/ \E k \in CoordinatorRoles : Unlink(r, k)

-----------------------------------------------------------------------------
(* main of ProducerSim and ConsumerSim.                                    *)

(* The constructor starts the thread, and opens the queue while the thread *)
(* sleeps.                                                                 *)
Construct(w) ==
    /\ proc[w] = "starting"
    /\ m_mqd' = [m_mqd EXCEPT ![w] = IF name # 0 /\ WorkerId = Id THEN "open" ELSE "failed"]
    /\ queue' = [queue EXCEPT ![w] = name]
    /\ thread' = [thread EXCEPT ![w] = "looping"]
    /\ proc' = [proc EXCEPT ![w] = "running"]
    /\ UNCHANGED <<name, mq, m_next_item_id, count, reported, moved>>

(* Mutant of Close: the destructor reports but does not close.             *)
CloseForgotten(w) ==
    /\ proc[w] = "running"
    /\ reported' = [reported EXCEPT ![w] = count[w]]
    /\ proc' = [proc EXCEPT ![w] = "closed"]
    /\ UNCHANGED <<name, mq, thread, m_mqd, queue, m_next_item_id, count, moved>>

(* ~Producer and ~Consumer: mq_close and the report, before the thread is  *)
(* told to stop.                                                           *)
Close(w) ==
    /\ proc[w] = "running"
    /\ m_mqd' = [m_mqd EXCEPT ![w] = IF @ = "open" THEN "closed" ELSE @]
    /\ reported' = [reported EXCEPT ![w] = count[w]]
    /\ proc' = [proc EXCEPT ![w] = "closed"]
    /\ UNCHANGED <<name, mq, thread, queue, m_next_item_id, count, moved>>

(* ~ScheduledObject: m_run = false, then the join, then _exit.             *)
Stop(w) ==
    /\ proc[w] = "closed"
    /\ proc' = [proc EXCEPT ![w] = "stopped"]
    /\ UNCHANGED <<name, mq, thread, m_mqd, queue, m_next_item_id, count, reported, moved>>

(* With the process its thread, its memory and its descriptors are gone.   *)
MemoryFreed(w) ==
    /\ thread' = [thread EXCEPT ![w] = "exited"]
    /\ m_mqd' = [m_mqd EXCEPT ![w] = "none"]
    /\ queue' = [queue EXCEPT ![w] = 0]
    /\ m_next_item_id' = [m_next_item_id EXCEPT ![w] = 0]
    /\ count' = [count EXCEPT ![w] = 0]

JoinAndExit(w) ==
    /\ proc[w] = "stopped" /\ thread[w] = "exited"
    /\ proc' = [proc EXCEPT ![w] = "ended"]
    /\ MemoryFreed(w)
    /\ UNCHANGED <<name, mq, reported, moved>>

-----------------------------------------------------------------------------
(* The thread of a worker: ScheduledObject::run.                           *)

ThreadMoves(w, from, to) ==
    /\ thread[w] = from
    /\ thread' = [thread EXCEPT ![w] = to]
    /\ UNCHANGED <<name, mq, proc, m_mqd, queue, reported>>

Running(w) == proc[w] \in {"running", "closed"}

Exit(w) ==
    /\ ~Running(w)
    /\ ThreadMoves(w, "looping", "exited")
    /\ UNCHANGED <<m_next_item_id, count, moved>>

(* mq_timedsend and mq_timedreceive look the descriptor up when they start *)
(* and fail with EBADF if the destructor has closed it; a call that is in  *)
(* the kernel by then goes on undisturbed.                                 *)
EnterKernel(w) ==
    /\ m_mqd[w] = "open"
    /\ ThreadMoves(w, "calling", "blocked")
    /\ UNCHANGED <<m_next_item_id, count, moved>>

CallFails(w) ==
    /\ m_mqd[w] = "closed"
    /\ ThreadMoves(w, "calling", "looping")
    /\ UNCHANGED <<m_next_item_id, count, moved>>

(* Producer::work: a new item every time; one that cannot be sent is gone. *)
Cook(w) ==
    /\ Running(w)
    /\ m_mqd[w] \in {"open", "closed"}
    /\ m_next_item_id[w] < IF w[1] = 1 THEN MaxItems ELSE MaxLater
    /\ m_next_item_id' = [m_next_item_id EXCEPT ![w] = @ + 1]
    /\ ThreadMoves(w, "looping", IF m_mqd[w] = "open" THEN "calling" ELSE "looping")
    /\ UNCHANGED <<count, moved>>

(* Mutant of Send: one message too many goes in.                           *)
SendOverfull(w) ==
    /\ thread[w] = "blocked"
    /\ Len(mq[queue[w]]) <= QUEUE_SIZE
    /\ LET item == <<w, m_next_item_id[w] - 1>>
       IN  /\ mq' = [mq EXCEPT ![queue[w]] = Append(@, item)]
           /\ moved' = [moved EXCEPT ![w] = Append(@, item)]
    /\ thread' = [thread EXCEPT ![w] = "counting"]
    /\ UNCHANGED <<name, proc, m_mqd, queue, m_next_item_id, count, reported>>

Send(w) ==
    /\ thread[w] = "blocked"
    /\ Len(mq[queue[w]]) < QUEUE_SIZE
    /\ LET item == <<w, m_next_item_id[w] - 1>>
       IN  /\ mq' = [mq EXCEPT ![queue[w]] = Append(@, item)]
           /\ moved' = [moved EXCEPT ![w] = Append(@, item)]
    /\ thread' = [thread EXCEPT ![w] = "counting"]
    /\ UNCHANGED <<name, proc, m_mqd, queue, m_next_item_id, count, reported>>

SendTimedOut(w) ==
    /\ ThreadMoves(w, "blocked", "looping")
    /\ Len(mq[queue[w]]) = QUEUE_SIZE
    /\ UNCHANGED <<m_next_item_id, count, moved>>

Count(w) ==
    /\ ThreadMoves(w, "counting", "looping")
    /\ count' = [count EXCEPT ![w] = @ + 1]
    /\ UNCHANGED <<m_next_item_id, moved>>

(* Consumer::work.                                                         *)
CallReceive(w) ==
    /\ Running(w)
    /\ m_mqd[w] = "open"
    /\ ThreadMoves(w, "looping", "calling")
    /\ UNCHANGED <<m_next_item_id, count, moved>>

(* Mutant of Receive: the message that was sent last is taken first.       *)
ReceiveLast(w) ==
    /\ thread[w] = "blocked"
    /\ mq[queue[w]] # << >>
    /\ mq' = [mq EXCEPT ![queue[w]] = SubSeq(@, 1, Len(@) - 1)]
    /\ moved' = [moved EXCEPT ![w] = Append(@, mq[queue[w]][Len(mq[queue[w]])])]
    /\ thread' = [thread EXCEPT ![w] = "counting"]
    /\ UNCHANGED <<name, proc, m_mqd, queue, m_next_item_id, count, reported>>

Receive(w) ==
    /\ thread[w] = "blocked"
    /\ mq[queue[w]] # << >>
    /\ mq' = [mq EXCEPT ![queue[w]] = Tail(@)]
    /\ moved' = [moved EXCEPT ![w] = Append(@, Head(mq[queue[w]]))]
    /\ thread' = [thread EXCEPT ![w] = "counting"]
    /\ UNCHANGED <<name, proc, m_mqd, queue, m_next_item_id, count, reported>>

(* Mutant of ReceiveTimedOut: mq_receive instead of mq_timedreceive.       *)
ReceiveTimedOutNever(w) == FALSE

ReceiveTimedOut(w) ==
    /\ ThreadMoves(w, "blocked", "looping")
    /\ mq[queue[w]] = << >>
    /\ UNCHANGED <<m_next_item_id, count, moved>>

Worker(w) == Construct(w) \/ Close(w) \/ Stop(w) \/ JoinAndExit(w)

Killed(w) ==
    /\ Kill(w)
    /\ MemoryFreed(w)
    /\ UNCHANGED <<name, mq, reported, moved>>

Thread(w) ==
    \/ Exit(w) \/ Count(w) \/ EnterKernel(w) \/ CallFails(w)
    \/ w \in Producers /\ (Cook(w) \/ Send(w) \/ SendTimedOut(w))
    \/ w \in Consumers /\ (CallReceive(w) \/ Receive(w) \/ ReceiveTimedOut(w))

AllEnded ==
    /\ \A x \in Coordinators \cup Workers : proc[x] = "none" \/ Ended(x)
    /\ \A r \in Runs : Ended(<<r, "main">>)

Finished ==
    /\ AllEnded
    /\ UNCHANGED vars

Next ==
    \/ \E r \in Runs : Coordinate(r)
    \/ \E w \in Workers : Worker(w) \/ Thread(w) \/ Killed(w)
    \/ Finished

Spec == Init /\ [][Next]_vars

(* Processes and threads get to run, and sleeps and timed calls end.       *)
Fairness ==
    /\ \A r \in Runs : WF_vars(Coordinate(r))
    /\ \A w \in Workers : WF_vars(Worker(w)) /\ WF_vars(Thread(w))

FairSpec == Spec /\ Fairness

-----------------------------------------------------------------------------
(* Properties.                                                             *)

CoordinatorStates ==
    {"none", "fork_producer", "fork_consumer", "wait_producer", "wait_consumer", "unlink", "ended", "failed"}
WorkerStates == {"none", "starting", "running", "closed", "stopped", "ended", "killed"}

ThreadStates == {"none", "looping", "calling", "blocked", "counting", "exited"}
DescriptorStates == {"none", "open", "failed", "closed"}

Messages == Producers \X Nat

(* Every variable has its type, and the queue never holds more than        *)
(* mq_maxmsg messages (mq_timedsend).                                      *)
TypeOK ==
    /\ name \in {0} \cup Runs
    /\ mq \in [Runs -> Seq(Messages)]
    /\ \A r \in Runs : Len(mq[r]) <= QUEUE_SIZE
    /\ DOMAIN proc = Workers \cup Coordinators
    /\ \A w \in Workers : proc[w] \in WorkerStates
    /\ \A c \in Coordinators : proc[c] \in CoordinatorStates
    /\ thread \in [Workers -> ThreadStates]
    /\ m_mqd \in [Workers -> DescriptorStates]
    /\ queue \in [Workers -> {0} \cup Runs]
    /\ m_next_item_id \in [Workers -> Nat]
    /\ count \in [Workers -> Nat]
    /\ reported \in [Workers -> Nat]
    /\ moved \in [Workers -> Seq(Messages)]

(* The destructors print their count while the thread still runs: the      *)
(* count of a process that ended regularly is off by the one call that was *)
(* in progress when the descriptor was closed, and never by more.          *)
ReportOffByOneAtMost ==
    \A w \in Workers : proc[w] = "ended" => Len(moved[w]) - reported[w] \in {0, 1}

(* A consumer gets an item of another run only if a fork failed in one of  *)
(* the two: the coordinator of that run left without removing the queue,   *)
(* or without waiting for its consumer.  Neither a failed exec nor a       *)
(* killed worker mixes two runs (mq_unlink at the end of the coordinator). *)
StaleOnlyAfterFailedFork ==
    \A w \in Consumers : \A n \in DOMAIN moved[w] :
        LET r == moved[w][n][1][1]
        IN  r = w[1] \/ \E q \in {r, w[1]}, k \in CoordinatorRoles : proc[<<q, k>>] = "failed"

(* A consumer gets the items of a producer in the order of their ids and   *)
(* none twice, although an item whose sending timed out is dropped and     *)
(* its id skipped (Producer::work cooks a new one every time).             *)
DeliveredInOrder ==
    \A w \in Consumers : \A m, n \in DOMAIN moved[w] :
        m < n /\ moved[w][m][1] = moved[w][n][1] => moved[w][m][2] < moved[w][n][2]

(* A worker fails to open its queue only if an exec failed, in its run or  *)
(* one before it, and the clone of the coordinator removed the name, or if *)
(* its own coordinator failed and did not wait for it: in every other case *)
(* the coordinator outlives its workers, and they have the name right.     *)
QueueLostOnlyToClone ==
    \A w \in Workers : m_mqd[w] = "failed" =>
        \/ \E r \in 1 .. w[1] : \E k \in CoordinatorRoles \ {"main"} : proc[<<r, k>>] # "none"
        \/ proc[<<w[1], "main">>] = "failed"

(* "Wait for consumer and producer process to finish": whoever removes the *)
(* name has outlived the workers of the run, so that each of them found    *)
(* the queue.                                                              *)
WorkersFindQueue ==
    \A w \in Workers : m_mqd[w] # "failed"

(* Every run ends, whatever fails and whoever is killed on the way, and if *)
(* the coordinator of the last one did not fail, no queue is left.         *)
EveryRunEnds ==
    <>[](AllEnded /\ (proc[<<NumRuns, "main">>] # "failed" => name = 0))
=============================================================================
