------------------------ MODULE MessageQueue_proofs ------------------------
(***************************************************************************)
(* What holds in the runs of Chapter14/MessageQueue whatever fails and     *)
(* whoever is killed: the reports are off by one call at most, a consumer  *)
(* gets the items of a producer in order, two runs get mixed up only after *)
(* a failed fork, and a worker misses its queue only because of a failed   *)
(* exec or a failed coordinator.                                           *)
(***************************************************************************)
EXTENDS MessageQueueSim, SequenceTheorems, TLAPS

WorkerRoles == {"producer", "consumer", "consumer2"}
Roles == CoordinatorRoles \cup WorkerRoles

(* The processes are the pairs of a run and a role.                        *)
LEMMA Processes ==
    /\ Workers = Runs \X WorkerRoles
    /\ Coordinators = Runs \X CoordinatorRoles
    /\ Workers \cup Coordinators = Runs \X Roles
    /\ Producers \subseteq Workers /\ Consumers \subseteq Workers
    /\ \A x \in Workers : x \notin Coordinators
  BY DEF Workers, Producers, Consumers, Coordinators, WorkerRoles, Roles, CoordinatorRoles

-----------------------------------------------------------------------------
(* Types.                                                                  *)

Typing ==
    /\ name \in {0} \cup Runs
    /\ mq \in [Runs -> Seq(Messages)]
    /\ proc \in [Workers \cup Coordinators -> CoordinatorStates \cup WorkerStates]
    /\ thread \in [Workers -> ThreadStates]
    /\ m_mqd \in [Workers -> DescriptorStates]
    /\ queue \in [Workers -> {0} \cup Runs]
    /\ m_next_item_id \in [Workers -> Nat]
    /\ count \in [Workers -> Nat]
    /\ reported \in [Workers -> Nat]
    /\ moved \in [Workers -> Seq(Messages)]

(* A thread that is in a call, or about to make one, has a queue to work   *)
(* on, and a producer's thread an item to send.                            *)
Calls ==
    \A w \in Workers :
        /\ m_mqd[w] = "open" => queue[w] \in Runs
        /\ thread[w] \in {"calling", "blocked", "counting"} => queue[w] \in Runs
        /\ thread[w] \in {"calling", "blocked"} /\ w \in Producers => m_next_item_id[w] # 0

Bounded == \A r \in Runs : Len(mq[r]) <= QUEUE_SIZE

(* What a step of a thread may change, and how far.                        *)
LEMMA ThreadTypes ==
    ASSUME Typing, Calls, NEW w \in Workers, Thread(w)
    PROVE  Typing'
  <1> USE DEF Typing, ThreadStates
  <1>1. CASE Exit(w) \/ Count(w) \/ EnterKernel(w) \/ CallFails(w) \/ SendTimedOut(w)
             \/ CallReceive(w) \/ ReceiveTimedOut(w)
    <2>1. UNCHANGED <<name, mq, proc, m_mqd, queue, reported, m_next_item_id, moved>>
      BY <1>1 DEF Exit, Count, EnterKernel, CallFails, SendTimedOut, CallReceive, ReceiveTimedOut, ThreadMoves
    <2>2. \E s \in ThreadStates : thread' = [thread EXCEPT ![w] = s]
      BY <1>1 DEF Exit, Count, EnterKernel, CallFails, SendTimedOut, CallReceive, ReceiveTimedOut, ThreadMoves
    <2>3. count' = count \/ count' = [count EXCEPT ![w] = count[w] + 1]
      BY <1>1 DEF Exit, Count, EnterKernel, CallFails, SendTimedOut, CallReceive, ReceiveTimedOut, ThreadMoves
    <2>4. thread' \in [Workers -> ThreadStates]
      BY <2>2
    <2>5. count' \in [Workers -> Nat]
      <3>1. count \in [Workers -> Nat] /\ count[w] + 1 \in Nat
        OBVIOUS
      <3>2. [count EXCEPT ![w] = count[w] + 1] \in [Workers -> Nat]
        BY <3>1
      <3>3. QED
        BY <2>3, <3>1, <3>2
    <2>6. QED
      BY <2>1, <2>4, <2>5
  <1>2. CASE Cook(w)
    BY <1>2 DEF Cook, ThreadMoves
  <1>3. CASE w \in Producers /\ Send(w)
    <2> DEFINE item == <<w, m_next_item_id[w] - 1>>
    <2>1. item \in Messages /\ queue[w] \in Runs
      BY <1>3 DEF Send, Calls, Messages
    <2> HIDE DEF item
    <2>2. /\ mq' = [mq EXCEPT ![queue[w]] = Append(@, item)]
          /\ moved' = [moved EXCEPT ![w] = Append(@, item)]
          /\ thread' = [thread EXCEPT ![w] = "counting"]
          /\ UNCHANGED <<name, proc, m_mqd, queue, m_next_item_id, count, reported>>
      BY <1>3 DEF Send, item
    <2>3. Append(mq[queue[w]], item) \in Seq(Messages) /\ Append(moved[w], item) \in Seq(Messages)
      BY <2>1
    <2>4. mq' \in [Runs -> Seq(Messages)] /\ moved' \in [Workers -> Seq(Messages)]
      BY <2>2, <2>3
    <2>5. QED
      BY <2>2, <2>4
  <1>4. CASE Receive(w)
    <2>1. queue[w] \in Runs /\ mq[queue[w]] # << >>
      BY <1>4 DEF Receive, Calls
    <2>2. Tail(mq[queue[w]]) \in Seq(Messages) /\ Head(mq[queue[w]]) \in Messages
      BY <2>1
    <2>3. Append(moved[w], Head(mq[queue[w]])) \in Seq(Messages)
      BY <2>2
    <2>4. mq' \in [Runs -> Seq(Messages)] /\ moved' \in [Workers -> Seq(Messages)]
      BY <1>4, <2>2, <2>3 DEF Receive
    <2>5. QED
      BY <1>4, <2>4 DEF Receive
  <1>5. QED
    BY <1>1, <1>2, <1>3, <1>4 DEF Thread

(* A step of a worker's main, or its death, keeps the types.               *)
LEMMA WorkerTypes ==
    ASSUME Typing, NEW w \in Workers, Worker(w) \/ Killed(w)
    PROVE  Typing'
  <1> USE DEF Typing, ThreadStates, WorkerStates, DescriptorStates
  <1>1. CASE Construct(w)
    BY <1>1 DEF Construct
  <1>2. CASE Close(w)
    BY <1>2 DEF Close
  <1>3. CASE Stop(w)
    BY <1>3 DEF Stop
  <1>4. CASE JoinAndExit(w)
    BY <1>4 DEF JoinAndExit, MemoryFreed
  <1>5. CASE Killed(w)
    BY <1>5 DEF Killed, Kill, MemoryFreed
  <1>6. QED
    BY <1>1, <1>2, <1>3, <1>4, <1>5 DEF Worker

-----------------------------------------------------------------------------
(* The processes of a run.                                                 *)

Over(s) == s \in {"ended", "failed", "killed"}

(* What main, its clones and its workers know of each other.  A process    *)
(* and the clone that a failed exec makes in its place exclude each other, *)
(* and a coordinator is past a waitpid only if the child has ended.        *)
Related(main, producer, p_clone, consumer, c_clone, consumer2, pc_clone) ==
    /\ {main, p_clone, c_clone, pc_clone} \subseteq CoordinatorStates
    /\ {producer, consumer, consumer2} \subseteq WorkerStates
    /\ main \in {"none", "fork_producer"} => producer = "none" /\ p_clone = "none"
    /\ main \in {"none", "fork_producer", "fork_consumer"} => consumer = "none" /\ c_clone = "none"
    /\ p_clone \in {"none", "fork_consumer"} => consumer2 = "none" /\ pc_clone = "none"
    /\ producer = "none" \/ p_clone = "none"
    /\ consumer = "none" \/ c_clone = "none"
    /\ consumer2 = "none" \/ pc_clone = "none"
    /\ main \in {"wait_consumer", "unlink", "ended"} => Over(producer) \/ Over(p_clone)
    /\ main \in {"unlink", "ended"} => Over(consumer) \/ Over(c_clone)
    /\ p_clone \in {"unlink", "ended"} => Over(consumer2) \/ Over(pc_clone)

Family(r) ==
    Related(proc[<<r, "main">>], proc[<<r, "producer">>], proc[<<r, "p_clone">>], proc[<<r, "consumer">>],
            proc[<<r, "c_clone">>], proc[<<r, "consumer2">>], proc[<<r, "pc_clone">>])

(* A run is started when the one before it has ended.                      *)
InTurn ==
    \A r, q \in Runs : r < q /\ proc[<<q, "main">>] # "none" => Ended(<<r, "main">>)

FailedIn(r) == \E k \in CoordinatorRoles : proc[<<r, k>>] = "failed"

(* When the coordinator of a run has ended and no fork failed, everybody   *)
(* of the run has ended: main has waited for its children, and they for    *)
(* theirs.                                                                 *)
LEMMA RunOver ==
    ASSUME NEW r, Family(r), ~FailedIn(r), Ended(<<r, "main">>)
    PROVE  \A k \in WorkerRoles : proc[<<r, k>>] = "none" \/ Ended(<<r, k>>)
  BY DEF Family, Related, FailedIn, Ended, Over, CoordinatorRoles, WorkerRoles, CoordinatorStates, WorkerStates

(* One process changes its state, or two do at once.                       *)
Becomes(r, k, s) == \A q \in Runs : \A j \in Roles :
    proc'[<<q, j>>] = IF q = r /\ j = k THEN s ELSE proc[<<q, j>>]
BecomesBoth(r, k, s, l, t) == \A q \in Runs : \A j \in Roles :
    proc'[<<q, j>>] = IF q = r /\ j = k THEN s ELSE IF q = r /\ j = l THEN t ELSE proc[<<q, j>>]

(* An update of proc at one process is a move of that process alone.       *)
LEMMA OneMoves ==
    ASSUME Typing, NEW r \in Runs, NEW k \in Roles, NEW s, proc' = [proc EXCEPT ![<<r, k>>] = s]
    PROVE  Becomes(r, k, s)
  BY Processes DEF Typing, Becomes

(* An update of proc at two processes of a run is a move of those two.     *)
LEMMA TwoMove ==
    ASSUME Typing, NEW r \in Runs, NEW k \in Roles, NEW l \in Roles, NEW s, NEW t, k # l,
           proc' = [proc EXCEPT ![<<r, k>>] = s, ![<<r, l>>] = t]
    PROVE  BecomesBoth(r, k, s, l, t)
  <1>1. proc \in [Runs \X Roles -> CoordinatorStates \cup WorkerStates]
    BY Processes DEF Typing
  <1>2. QED
    BY <1>1 DEF BecomesBoth

(* The steps of the processes of run r, as far as proc is concerned.       *)
ProcessMoves(r) ==
    \/ /\ proc[<<r, "main">>] = "none"
       /\ r > 1 => Ended(<<r - 1, "main">>)
       /\ Becomes(r, "main", "fork_producer") \/ Becomes(r, "main", "failed")
    \/ /\ proc[<<r, "main">>] = "fork_producer"
       /\ \/ BecomesBoth(r, "main", "fork_consumer", "producer", "starting")
          \/ BecomesBoth(r, "main", "fork_consumer", "p_clone", "fork_consumer")
          \/ Becomes(r, "main", "failed")
    \/ /\ proc[<<r, "main">>] = "fork_consumer"
       /\ \/ BecomesBoth(r, "main", "wait_producer", "consumer", "starting")
          \/ BecomesBoth(r, "main", "wait_producer", "c_clone", "wait_producer")
          \/ Becomes(r, "main", "failed")
    \/ /\ proc[<<r, "p_clone">>] = "fork_consumer"
       /\ \/ BecomesBoth(r, "p_clone", "wait_producer", "consumer2", "starting")
          \/ BecomesBoth(r, "p_clone", "wait_producer", "pc_clone", "wait_producer")
          \/ Becomes(r, "p_clone", "failed")
    \/ \E k \in CoordinatorRoles :
          /\ proc[<<r, k>>] = "wait_producer"
          /\ k = "main" => Ended(<<r, "producer">>) \/ Ended(<<r, "p_clone">>)
          /\ Becomes(r, k, "wait_consumer")
    \/ \E k \in CoordinatorRoles :
          /\ proc[<<r, k>>] = "wait_consumer"
          /\ k = "main" => Ended(<<r, "consumer">>) \/ Ended(<<r, "c_clone">>)
          /\ k = "p_clone" => Ended(<<r, "consumer2">>) \/ Ended(<<r, "pc_clone">>)
          /\ Becomes(r, k, "unlink")
    \/ \E k \in CoordinatorRoles : proc[<<r, k>>] = "unlink" /\ Becomes(r, k, "ended")
    \/ \E k \in WorkerRoles : \E s \in WorkerStates \ {"none", "starting"} :
          /\ proc[<<r, k>>] # "none" /\ ~Ended(<<r, k>>)
          /\ Becomes(r, k, s)

(* The three outcomes of fork and exec: the child starts, the child        *)
(* carries on as a clone of its parent, or the parent gives up.            *)
LEMMA ForkIs ==
    ASSUME Typing, NEW r \in Runs, NEW k \in Roles, NEW l \in Roles, NEW m \in Roles, NEW s,
           k # l, k # m, Fork(<<r, k>>, s, <<r, l>>, <<r, m>>)
    PROVE  BecomesBoth(r, k, s, l, "starting") \/ BecomesBoth(r, k, s, m, s) \/ Becomes(r, k, "failed")
  BY OneMoves, TwoMove DEF Fork

(* Every step of a coordinator or of a clone is one of ProcessMoves.       *)
LEMMA CoordinatorMoves ==
    ASSUME Typing, NEW r \in Runs, Coordinate(r)
    PROVE  ProcessMoves(r)
  <1> USE DEF Roles, CoordinatorRoles, WorkerRoles
  <1>1. CASE OpenQueue(r) \/ OpenFails(r)
    <2>1. Becomes(r, "main", "fork_producer") \/ Becomes(r, "main", "failed")
      BY <1>1, OneMoves DEF OpenQueue, OpenFails, Moves
    <2>2. QED
      BY <1>1, <2>1 DEF OpenQueue, OpenFails, Moves, ProcessMoves
  <1>2. ASSUME NEW k \in CoordinatorRoles, Unlink(r, k) PROVE ProcessMoves(r)
    <2>1. Becomes(r, k, "ended")
      BY <1>2, OneMoves DEF Unlink
    <2>2. QED
      BY <1>2, <2>1 DEF Unlink, ProcessMoves
  <1>3. CASE ForkProducer(r)
    <2>1. \/ BecomesBoth(r, "main", "fork_consumer", "producer", "starting")
          \/ BecomesBoth(r, "main", "fork_consumer", "p_clone", "fork_consumer")
          \/ Becomes(r, "main", "failed")
      BY <1>3, ForkIs DEF ForkProducer
    <2>2. QED
      BY <1>3, <2>1 DEF ForkProducer, ProcessMoves
  <1>4. CASE ForkConsumer(r)
    <2>1. \/ /\ proc[<<r, "main">>] = "fork_consumer"
             /\ \/ BecomesBoth(r, "main", "wait_producer", "consumer", "starting")
                \/ BecomesBoth(r, "main", "wait_producer", "c_clone", "wait_producer")
                \/ Becomes(r, "main", "failed")
          \/ /\ proc[<<r, "p_clone">>] = "fork_consumer"
             /\ \/ BecomesBoth(r, "p_clone", "wait_producer", "consumer2", "starting")
                \/ BecomesBoth(r, "p_clone", "wait_producer", "pc_clone", "wait_producer")
                \/ Becomes(r, "p_clone", "failed")
      BY <1>4, ForkIs DEF ForkConsumer
    <2>2. QED
      BY <2>1 DEF ProcessMoves
  <1>5. ASSUME NEW k \in CoordinatorRoles, WaitProducer(r, k) PROVE ProcessMoves(r)
    <2>1. Becomes(r, k, "wait_consumer")
      BY <1>5, OneMoves DEF WaitProducer, Moves
    <2>2. QED
      BY <1>5, <2>1 DEF WaitProducer, Moves, ProcessMoves
  <1>6. ASSUME NEW k \in CoordinatorRoles, WaitConsumer(r, k) PROVE ProcessMoves(r)
    <2>1. Becomes(r, k, "unlink")
      BY <1>6, OneMoves DEF WaitConsumer, Moves
    <2>2. QED
      BY <1>6, <2>1 DEF WaitConsumer, Moves, ProcessMoves
  <1>7. QED
    BY <1>1, <1>2, <1>3, <1>4, <1>5, <1>6 DEF Coordinate, ForkAndWait

(* So is every step of a worker's main, and its death.                     *)
LEMMA WorkerMoves ==
    ASSUME Typing, NEW r \in Runs, NEW k \in WorkerRoles, Worker(<<r, k>>) \/ Killed(<<r, k>>)
    PROVE  ProcessMoves(r)
  <1>1. \E s \in WorkerStates \ {"none", "starting"} :
           /\ proc[<<r, k>>] # "none" /\ ~Ended(<<r, k>>)
           /\ proc' = [proc EXCEPT ![<<r, k>>] = s]
    BY DEF Worker, Construct, Close, Stop, JoinAndExit, Killed, Kill, Ended, WorkerStates
  <1>2. \E s \in WorkerStates \ {"none", "starting"} :
           /\ proc[<<r, k>>] # "none" /\ ~Ended(<<r, k>>)
           /\ Becomes(r, k, s)
    BY <1>1, OneMoves DEF Roles
  <1>3. QED
    BY <1>2 DEF ProcessMoves

(* Every step of a process keeps its run in order.                         *)
LEMMA FamilyKept ==
    ASSUME NEW r \in Runs, NEW q \in Runs, Family(r), ProcessMoves(q)
    PROVE  Family(r)'
  <1> DEFINE m == proc[<<r, "main">>]      p == proc[<<r, "producer">>]
             pk == proc[<<r, "p_clone">>]  c == proc[<<r, "consumer">>]
             ck == proc[<<r, "c_clone">>]  d == proc[<<r, "consumer2">>]
             dk == proc[<<r, "pc_clone">>]
  <1>f. Related(m, p, pk, c, ck, d, dk)
    BY DEF Family
  <1>g. SUFFICES Related(m', p', pk', c', ck', d', dk')
    BY DEF Family
  <1>b. ASSUME NEW k \in Roles, NEW s, Becomes(r, k, s)
        PROVE  /\ m'  = IF k = "main" THEN s ELSE m
               /\ p'  = IF k = "producer" THEN s ELSE p
               /\ pk' = IF k = "p_clone" THEN s ELSE pk
               /\ c'  = IF k = "consumer" THEN s ELSE c
               /\ ck' = IF k = "c_clone" THEN s ELSE ck
               /\ d'  = IF k = "consumer2" THEN s ELSE d
               /\ dk' = IF k = "pc_clone" THEN s ELSE dk
    BY <1>b DEF Becomes, CoordinatorRoles, WorkerRoles, Roles
  <1>bb. ASSUME NEW k \in Roles, NEW s, NEW l \in Roles, NEW t, BecomesBoth(r, k, s, l, t)
        PROVE  /\ m'  = IF k = "main" THEN s ELSE IF l = "main" THEN t ELSE m
               /\ p'  = IF k = "producer" THEN s ELSE IF l = "producer" THEN t ELSE p
               /\ pk' = IF k = "p_clone" THEN s ELSE IF l = "p_clone" THEN t ELSE pk
               /\ c'  = IF k = "consumer" THEN s ELSE IF l = "consumer" THEN t ELSE c
               /\ ck' = IF k = "c_clone" THEN s ELSE IF l = "c_clone" THEN t ELSE ck
               /\ d'  = IF k = "consumer2" THEN s ELSE IF l = "consumer2" THEN t ELSE d
               /\ dk' = IF k = "pc_clone" THEN s ELSE IF l = "pc_clone" THEN t ELSE dk
    BY <1>bb DEF BecomesBoth, CoordinatorRoles, WorkerRoles, Roles
  <1>1. CASE q # r
    <2>1. \A k \in Roles : proc'[<<r, k>>] = proc[<<r, k>>]
      BY <1>1 DEF ProcessMoves, Becomes, BecomesBoth
    <2>2. QED
      BY <1>f, <2>1 DEF Roles, WorkerRoles, CoordinatorRoles
  <1>2. CASE q = r
    <2>r. /\ \A k \in CoordinatorRoles : k \in Roles /\ k \notin WorkerRoles
          /\ \A k \in WorkerRoles : k \in Roles /\ k \notin CoordinatorRoles
          /\ {"main", "p_clone", "c_clone", "pc_clone"} = CoordinatorRoles
          /\ {"producer", "consumer", "consumer2"} = WorkerRoles
      BY DEF Roles, WorkerRoles, CoordinatorRoles
    <2>1. CASE proc[<<r, "main">>] = "none" /\ (Becomes(r, "main", "fork_producer") \/ Becomes(r, "main", "failed"))
      <3>1. m = "none" /\ m' \in {"fork_producer", "failed"} /\ p' = p /\ pk' = pk /\ c' = c /\ ck' = ck /\ d' = d /\ dk' = dk
        BY <1>b, <2>1, <2>r
      <3> HIDE DEF m, p, pk, c, ck, d, dk
      <3>2. QED
        BY <1>f, <3>1 DEF Related, Over, CoordinatorStates, WorkerStates
    <2>2. CASE /\ proc[<<r, "main">>] = "fork_producer"
               /\ \/ BecomesBoth(r, "main", "fork_consumer", "producer", "starting")
                  \/ BecomesBoth(r, "main", "fork_consumer", "p_clone", "fork_consumer")
                  \/ Becomes(r, "main", "failed")
      <3>1. /\ m = "fork_producer" /\ c' = c /\ ck' = ck /\ d' = d /\ dk' = dk
            /\ \/ m' = "fork_consumer" /\ p' = "starting" /\ pk' = pk
               \/ m' = "fork_consumer" /\ p' = p /\ pk' = "fork_consumer"
               \/ m' = "failed" /\ p' = p /\ pk' = pk
        BY <1>b, <1>bb, <2>2, <2>r
      <3> HIDE DEF m, p, pk, c, ck, d, dk
      <3>2. QED
        BY <1>f, <3>1 DEF Related, Over, CoordinatorStates, WorkerStates
    <2>3. CASE /\ proc[<<r, "main">>] = "fork_consumer"
               /\ \/ BecomesBoth(r, "main", "wait_producer", "consumer", "starting")
                  \/ BecomesBoth(r, "main", "wait_producer", "c_clone", "wait_producer")
                  \/ Becomes(r, "main", "failed")
      <3>1. /\ m = "fork_consumer" /\ p' = p /\ pk' = pk /\ d' = d /\ dk' = dk
            /\ \/ m' = "wait_producer" /\ c' = "starting" /\ ck' = ck
               \/ m' = "wait_producer" /\ c' = c /\ ck' = "wait_producer"
               \/ m' = "failed" /\ c' = c /\ ck' = ck
        BY <1>b, <1>bb, <2>3, <2>r
      <3> HIDE DEF m, p, pk, c, ck, d, dk
      <3>2. QED
        BY <1>f, <3>1 DEF Related, Over, CoordinatorStates, WorkerStates
    <2>4. CASE /\ proc[<<r, "p_clone">>] = "fork_consumer"
               /\ \/ BecomesBoth(r, "p_clone", "wait_producer", "consumer2", "starting")
                  \/ BecomesBoth(r, "p_clone", "wait_producer", "pc_clone", "wait_producer")
                  \/ Becomes(r, "p_clone", "failed")
      <3>1. /\ pk = "fork_consumer" /\ m' = m /\ p' = p /\ c' = c /\ ck' = ck
            /\ \/ pk' = "wait_producer" /\ d' = "starting" /\ dk' = dk
               \/ pk' = "wait_producer" /\ d' = d /\ dk' = "wait_producer"
               \/ pk' = "failed" /\ d' = d /\ dk' = dk
        BY <1>b, <1>bb, <2>4, <2>r
      <3> HIDE DEF m, p, pk, c, ck, d, dk
      <3>2. QED
        BY <1>f, <3>1 DEF Related, Over, CoordinatorStates, WorkerStates
    <2>5. ASSUME NEW k \in CoordinatorRoles, proc[<<r, k>>] = "wait_producer",
                 k = "main" => Ended(<<r, "producer">>) \/ Ended(<<r, "p_clone">>),
                 Becomes(r, k, "wait_consumer")
          PROVE  Related(m', p', pk', c', ck', d', dk')
      <3>1. /\ m' = (IF k = "main" THEN "wait_consumer" ELSE m) /\ (k = "main" => m = proc[<<r, k>>])
            /\ p' = (IF k = "producer" THEN "wait_consumer" ELSE p) /\ (k = "producer" => p = proc[<<r, k>>])
            /\ pk' = (IF k = "p_clone" THEN "wait_consumer" ELSE pk) /\ (k = "p_clone" => pk = proc[<<r, k>>])
            /\ c' = (IF k = "consumer" THEN "wait_consumer" ELSE c) /\ (k = "consumer" => c = proc[<<r, k>>])
            /\ ck' = (IF k = "c_clone" THEN "wait_consumer" ELSE ck) /\ (k = "c_clone" => ck = proc[<<r, k>>])
            /\ d' = (IF k = "consumer2" THEN "wait_consumer" ELSE d) /\ (k = "consumer2" => d = proc[<<r, k>>])
            /\ dk' = (IF k = "pc_clone" THEN "wait_consumer" ELSE dk) /\ (k = "pc_clone" => dk = proc[<<r, k>>])
        BY <1>b, <2>5, <2>r
      <3>2. k = "main" => Over(p) \/ Over(pk)
        BY <2>5 DEF Ended, Over
      <3> HIDE DEF m, p, pk, c, ck, d, dk
      <3>3. QED
        BY <1>f, <2>5, <3>1, <3>2
        DEF Related, Over, Ended, CoordinatorStates, WorkerStates, CoordinatorRoles, WorkerRoles
    <2>6. ASSUME NEW k \in CoordinatorRoles, proc[<<r, k>>] = "wait_consumer",
                 k = "main" => Ended(<<r, "consumer">>) \/ Ended(<<r, "c_clone">>),
                 k = "p_clone" => Ended(<<r, "consumer2">>) \/ Ended(<<r, "pc_clone">>),
                 Becomes(r, k, "unlink")
          PROVE  Related(m', p', pk', c', ck', d', dk')
      <3>1. /\ m' = (IF k = "main" THEN "unlink" ELSE m) /\ (k = "main" => m = proc[<<r, k>>])
            /\ p' = (IF k = "producer" THEN "unlink" ELSE p) /\ (k = "producer" => p = proc[<<r, k>>])
            /\ pk' = (IF k = "p_clone" THEN "unlink" ELSE pk) /\ (k = "p_clone" => pk = proc[<<r, k>>])
            /\ c' = (IF k = "consumer" THEN "unlink" ELSE c) /\ (k = "consumer" => c = proc[<<r, k>>])
            /\ ck' = (IF k = "c_clone" THEN "unlink" ELSE ck) /\ (k = "c_clone" => ck = proc[<<r, k>>])
            /\ d' = (IF k = "consumer2" THEN "unlink" ELSE d) /\ (k = "consumer2" => d = proc[<<r, k>>])
            /\ dk' = (IF k = "pc_clone" THEN "unlink" ELSE dk) /\ (k = "pc_clone" => dk = proc[<<r, k>>])
        BY <1>b, <2>6, <2>r
      <3>2. (k = "main" => Over(c) \/ Over(ck)) /\ (k = "p_clone" => Over(d) \/ Over(dk))
        BY <2>6 DEF Ended, Over
      <3> HIDE DEF m, p, pk, c, ck, d, dk
      <3>3. QED
        BY <1>f, <2>6, <3>1, <3>2
        DEF Related, Over, Ended, CoordinatorStates, WorkerStates, CoordinatorRoles, WorkerRoles
    <2>7. ASSUME NEW k \in CoordinatorRoles, proc[<<r, k>>] = "unlink", Becomes(r, k, "ended")
          PROVE  Related(m', p', pk', c', ck', d', dk')
      <3>1. /\ m' = (IF k = "main" THEN "ended" ELSE m) /\ (k = "main" => m = proc[<<r, k>>])
            /\ p' = (IF k = "producer" THEN "ended" ELSE p) /\ (k = "producer" => p = proc[<<r, k>>])
            /\ pk' = (IF k = "p_clone" THEN "ended" ELSE pk) /\ (k = "p_clone" => pk = proc[<<r, k>>])
            /\ c' = (IF k = "consumer" THEN "ended" ELSE c) /\ (k = "consumer" => c = proc[<<r, k>>])
            /\ ck' = (IF k = "c_clone" THEN "ended" ELSE ck) /\ (k = "c_clone" => ck = proc[<<r, k>>])
            /\ d' = (IF k = "consumer2" THEN "ended" ELSE d) /\ (k = "consumer2" => d = proc[<<r, k>>])
            /\ dk' = (IF k = "pc_clone" THEN "ended" ELSE dk) /\ (k = "pc_clone" => dk = proc[<<r, k>>])
        BY <1>b, <2>7, <2>r
      <3> HIDE DEF m, p, pk, c, ck, d, dk
      <3>3. QED
        BY <1>f, <2>7, <3>1
        DEF Related, Over, Ended, CoordinatorStates, WorkerStates, CoordinatorRoles, WorkerRoles
    <2>8. ASSUME NEW k \in WorkerRoles, NEW s \in WorkerStates \ {"none", "starting"},
                 proc[<<r, k>>] # "none", ~Ended(<<r, k>>), Becomes(r, k, s)
          PROVE  Related(m', p', pk', c', ck', d', dk')
      <3>1. /\ m' = (IF k = "main" THEN s ELSE m) /\ (k = "main" => m = proc[<<r, k>>])
            /\ p' = (IF k = "producer" THEN s ELSE p) /\ (k = "producer" => p = proc[<<r, k>>])
            /\ pk' = (IF k = "p_clone" THEN s ELSE pk) /\ (k = "p_clone" => pk = proc[<<r, k>>])
            /\ c' = (IF k = "consumer" THEN s ELSE c) /\ (k = "consumer" => c = proc[<<r, k>>])
            /\ ck' = (IF k = "c_clone" THEN s ELSE ck) /\ (k = "c_clone" => ck = proc[<<r, k>>])
            /\ d' = (IF k = "consumer2" THEN s ELSE d) /\ (k = "consumer2" => d = proc[<<r, k>>])
            /\ dk' = (IF k = "pc_clone" THEN s ELSE dk) /\ (k = "pc_clone" => dk = proc[<<r, k>>])
        BY <1>b, <2>8, <2>r
      <3> HIDE DEF m, p, pk, c, ck, d, dk
      <3>3. QED
        BY <1>f, <2>8, <3>1
        DEF Related, Over, Ended, CoordinatorStates, WorkerStates, CoordinatorRoles, WorkerRoles
    <2>9. QED
      BY <1>2, <2>1, <2>2, <2>3, <2>4, <2>5, <2>6, <2>7, <2>8 DEF ProcessMoves
  <1>3. QED
    BY <1>1, <1>2

(* In a step of a run one process goes on, or starts another with it.      *)
LEMMA WhoMoves ==
    ASSUME NEW r \in Runs, Family(r), ProcessMoves(r)
    PROVE  \/ \E k \in Roles, s \in (CoordinatorStates \cup WorkerStates) \ {"none"} :
                 /\ Becomes(r, k, s) /\ ~Ended(<<r, k>>)
                 /\ proc[<<r, k>>] = "none" =>
                       /\ k = "main" /\ s \in {"fork_producer", "failed"}
                       /\ r > 1 => Ended(<<r - 1, "main">>)
           \/ \E k, l \in Roles, s, t \in (CoordinatorStates \cup WorkerStates) \ {"none"} :
                 /\ BecomesBoth(r, k, s, l, t) /\ k # l /\ l # "main"
                 /\ ~Ended(<<r, k>>) /\ proc[<<r, k>>] # "none" /\ ~Ended(<<r, l>>)
                 /\ proc[<<r, "main">>] # "none"
  <1> DEFINE One == \E k \in Roles, s \in (CoordinatorStates \cup WorkerStates) \ {"none"} :
                 /\ Becomes(r, k, s) /\ ~Ended(<<r, k>>)
                 /\ proc[<<r, k>>] = "none" =>
                       /\ k = "main" /\ s \in {"fork_producer", "failed"}
                       /\ r > 1 => Ended(<<r - 1, "main">>)
             Two == \E k, l \in Roles, s, t \in (CoordinatorStates \cup WorkerStates) \ {"none"} :
                 /\ BecomesBoth(r, k, s, l, t) /\ k # l /\ l # "main"
                 /\ ~Ended(<<r, k>>) /\ proc[<<r, k>>] # "none" /\ ~Ended(<<r, l>>)
                 /\ proc[<<r, "main">>] # "none"
  <1> USE DEF CoordinatorRoles, WorkerRoles, Roles, CoordinatorStates, WorkerStates
  <1>1. ASSUME NEW k \in Roles, NEW s \in (CoordinatorStates \cup WorkerStates) \ {"none"},
               Becomes(r, k, s), ~Ended(<<r, k>>), proc[<<r, k>>] # "none"
        PROVE  One
    BY <1>1
  <1>2. ASSUME NEW k \in Roles, NEW l \in Roles, k # l, l # "main", BecomesBoth(r, k, "fork_consumer", l, "starting")
                  \/ BecomesBoth(r, k, "fork_consumer", l, "fork_consumer")
                  \/ BecomesBoth(r, k, "wait_producer", l, "starting")
                  \/ BecomesBoth(r, k, "wait_producer", l, "wait_producer"),
               proc[<<r, k>>] \in {"fork_producer", "fork_consumer"}, proc[<<r, l>>] = "none",
               proc[<<r, "main">>] # "none"
        PROVE  Two
    <2>1. ~Ended(<<r, k>>) /\ proc[<<r, k>>] # "none" /\ ~Ended(<<r, l>>)
      BY <1>2 DEF Ended
    <2>2. QED
      BY <1>2, <2>1
  <1>3. CASE /\ proc[<<r, "main">>] = "none"
             /\ r > 1 => Ended(<<r - 1, "main">>)
             /\ Becomes(r, "main", "fork_producer") \/ Becomes(r, "main", "failed")
    <2>1. ~Ended(<<r, "main">>)
      BY <1>3 DEF Ended
    <2>2. One
      BY <1>3, <2>1
    <2>3. QED
      BY <2>2
  <1>4. CASE /\ proc[<<r, "main">>] = "fork_producer"
             /\ \/ BecomesBoth(r, "main", "fork_consumer", "producer", "starting")
                \/ BecomesBoth(r, "main", "fork_consumer", "p_clone", "fork_consumer")
                \/ Becomes(r, "main", "failed")
    BY <1>1, <1>2, <1>4 DEF Family, Related, Ended
  <1>5. CASE /\ proc[<<r, "main">>] = "fork_consumer"
             /\ \/ BecomesBoth(r, "main", "wait_producer", "consumer", "starting")
                \/ BecomesBoth(r, "main", "wait_producer", "c_clone", "wait_producer")
                \/ Becomes(r, "main", "failed")
    BY <1>1, <1>2, <1>5 DEF Family, Related, Ended
  <1>6. CASE /\ proc[<<r, "p_clone">>] = "fork_consumer"
             /\ \/ BecomesBoth(r, "p_clone", "wait_producer", "consumer2", "starting")
                \/ BecomesBoth(r, "p_clone", "wait_producer", "pc_clone", "wait_producer")
                \/ Becomes(r, "p_clone", "failed")
    BY <1>1, <1>2, <1>6 DEF Family, Related, Ended
  <1>7. ASSUME NEW k \in CoordinatorRoles, NEW s \in {"wait_consumer", "unlink", "ended"},
               proc[<<r, k>>] \in {"wait_producer", "wait_consumer", "unlink"}, Becomes(r, k, s)
        PROVE  One
    BY <1>1, <1>7 DEF Ended
  <1>8. ASSUME NEW k \in WorkerRoles, NEW s \in WorkerStates \ {"none", "starting"},
               proc[<<r, k>>] # "none", ~Ended(<<r, k>>), Becomes(r, k, s)
        PROVE  One
    BY <1>1, <1>8
  <1>9. One \/ Two
    BY <1>3, <1>4, <1>5, <1>6, <1>7, <1>8 DEF ProcessMoves
  <1>10. QED
    BY <1>9

(* A process that has started stays started, and one that has ended stays  *)
(* as it is; a run starts with its main, when the one before has ended.    *)
LEMMA Lasting ==
    ASSUME NEW q \in Runs, ProcessMoves(q), NEW r \in Runs, Family(r), NEW k \in Roles
    PROVE  /\ proc[<<r, k>>] # "none" => proc'[<<r, k>>] # "none"
           /\ Ended(<<r, k>>) => proc'[<<r, k>>] = proc[<<r, k>>]
           /\ k = "main" /\ proc[<<r, k>>] = "none" /\ proc'[<<r, k>>] # "none" =>
                 r = q /\ (r > 1 => Ended(<<r - 1, "main">>)) /\ proc'[<<r, k>>] \in {"fork_producer", "failed"}
           /\ proc[<<r, "main">>] = "none" => k = "main" \/ proc'[<<r, k>>] = proc[<<r, k>>]
  <1>1. CASE q # r
    BY <1>1 DEF ProcessMoves, Becomes, BecomesBoth
  <1>2. CASE q = r
    <2>m. "main" \in Roles
      BY DEF Roles, CoordinatorRoles
    <2>1. ASSUME NEW j \in Roles, NEW s \in (CoordinatorStates \cup WorkerStates) \ {"none"},
                 Becomes(r, j, s), ~Ended(<<r, j>>),
                 proc[<<r, j>>] = "none" =>
                       /\ j = "main" /\ s \in {"fork_producer", "failed"}
                       /\ r > 1 => Ended(<<r - 1, "main">>)
          PROVE  /\ proc[<<r, k>>] # "none" => proc'[<<r, k>>] # "none"
                 /\ Ended(<<r, k>>) => proc'[<<r, k>>] = proc[<<r, k>>]
                 /\ k = "main" /\ proc[<<r, k>>] = "none" /\ proc'[<<r, k>>] # "none" =>
                       (r > 1 => Ended(<<r - 1, "main">>)) /\ proc'[<<r, k>>] \in {"fork_producer", "failed"}
                 /\ proc[<<r, "main">>] = "none" => k = "main" \/ proc'[<<r, k>>] = proc[<<r, k>>]
      <3>1. proc'[<<r, k>>] = IF k = j THEN s ELSE proc[<<r, k>>]
        BY <2>1 DEF Becomes
      <3>2. proc[<<r, "main">>] = "none" => \A i \in Roles : i # "main" => proc[<<r, i>>] = "none"
        BY DEF Family, Related, Roles, CoordinatorRoles, WorkerRoles
      <3>3. QED
        BY <2>m, <2>1, <3>1, <3>2
    <2>2. ASSUME NEW j \in Roles, NEW l \in Roles,
                 NEW s \in (CoordinatorStates \cup WorkerStates) \ {"none"},
                 NEW t \in (CoordinatorStates \cup WorkerStates) \ {"none"},
                 BecomesBoth(r, j, s, l, t), j # l, l # "main",
                 ~Ended(<<r, j>>), proc[<<r, j>>] # "none", ~Ended(<<r, l>>),
                 proc[<<r, "main">>] # "none"
          PROVE  /\ proc[<<r, k>>] # "none" => proc'[<<r, k>>] # "none"
                 /\ Ended(<<r, k>>) => proc'[<<r, k>>] = proc[<<r, k>>]
      <3>1. proc'[<<r, k>>] = IF k = j THEN s ELSE IF k = l THEN t ELSE proc[<<r, k>>]
        BY <2>2 DEF BecomesBoth
      <3>2. QED
        BY <2>2, <3>1
    <2>3. QED
      BY <1>2, <2>1, <2>2, WhoMoves
  <1>3. QED
    BY <1>1, <1>2

Families == \A r \in Runs : Family(r)

(* Every step of the system is one of the processes, or does not concern   *)
(* where they are.                                                         *)
LEMMA ProcessSteps ==
    ASSUME Typing, [Next]_vars
    PROVE  UNCHANGED proc \/ \E r \in Runs : ProcessMoves(r)
  <1>1. ASSUME NEW r \in Runs, Coordinate(r) PROVE ProcessMoves(r)
    BY <1>1, CoordinatorMoves
  <1>2. ASSUME NEW w \in Workers, Worker(w) \/ Killed(w) PROVE \E r \in Runs : ProcessMoves(r)
    <2>1. PICK r \in Runs, k \in WorkerRoles : w = <<r, k>>
      BY Processes
    <2>2. QED
      BY <1>2, <2>1, WorkerMoves
  <1>3. ASSUME NEW w \in Workers, Thread(w) PROVE UNCHANGED proc
    BY <1>3 DEF Thread, Exit, Count, EnterKernel, CallFails, Cook, Send, SendTimedOut, CallReceive,
       Receive, ReceiveTimedOut, ThreadMoves
  <1>4. QED
    BY <1>1, <1>2, <1>3 DEF Next, Finished, vars

(* The relations within a run, and the order of the runs, are inductive.   *)
LEMMA FamiliesInductive ==
    ASSUME Typing, Families, InTurn, [Next]_vars
    PROVE  Families' /\ InTurn'
  <1>1. CASE UNCHANGED proc
    BY <1>1 DEF Families, Family, InTurn, Ended
  <1>2. ASSUME NEW q \in Runs, ProcessMoves(q) PROVE Families' /\ InTurn'
    <2>1. Families'
      BY <1>2, FamilyKept DEF Families
    <2>2. ASSUME NEW r \in Runs, NEW t \in Runs, r < t, proc'[<<t, "main">>] # "none"
          PROVE  Ended(<<r, "main">>)'
      <3>m. "main" \in Roles /\ Family(r) /\ Family(t)
        BY DEF Roles, CoordinatorRoles, Families
      <3>1. Ended(<<r, "main">>)
        <4>1. CASE proc[<<t, "main">>] # "none"
          BY <2>2, <4>1 DEF InTurn
        <4>2. CASE proc[<<t, "main">>] = "none"
          <5>1. t > 1 => Ended(<<t - 1, "main">>)
            BY <1>2, <2>2, <3>m, <4>2, Lasting
          <5>2. t - 1 \in Runs /\ t > 1 /\ (r = t - 1 \/ r < t - 1)
            BY <2>2, MessageQueueAssumption DEF Runs
          <5>3. proc[<<t - 1, "main">>] # "none"
            BY <5>1, <5>2 DEF Ended
          <5>4. QED
            BY <5>1, <5>2, <5>3 DEF InTurn
        <4>3. QED
          BY <4>1, <4>2
      <3>2. proc'[<<r, "main">>] = proc[<<r, "main">>]
        BY <1>2, <3>m, <3>1, Lasting
      <3>3. QED
        BY <3>1, <3>2 DEF Ended
    <2>3. QED
      BY <2>1, <2>2 DEF InTurn
  <1>3. QED
    BY <1>1, <1>2, ProcessSteps

-----------------------------------------------------------------------------
(* The reports of the workers.                                             *)

(* The life of a worker.  After the descriptor is closed at most one       *)
(* message is moved: by the call that was in the kernel then.              *)
Reports(w) ==
    /\ proc[w] \in {"none", "starting"} =>
          thread[w] = "none" /\ m_mqd[w] = "none" /\ queue[w] = 0 /\ count[w] = 0 /\ moved[w] = << >>
    /\ proc[w] = "running" => m_mqd[w] \in {"open", "failed"}
    /\ proc[w] \in {"closed", "stopped"} =>
          /\ m_mqd[w] \in {"closed", "failed"}
          /\ Len(moved[w]) - reported[w] \in {0, 1}
          /\ thread[w] = "blocked" => Len(moved[w]) = reported[w]
    /\ proc[w] \in {"running", "closed", "stopped"} =>
          /\ thread[w] # "none"
          /\ Len(moved[w]) = IF thread[w] = "counting" THEN count[w] + 1 ELSE count[w]
    /\ proc[w] \in {"ended", "killed"} => thread[w] = "exited"
    /\ proc[w] = "ended" => Len(moved[w]) - reported[w] \in {0, 1}

(* The state of v is left alone.                                           *)
LeavesAlone(v) ==
    /\ proc'[v] = proc[v] /\ thread'[v] = thread[v] /\ m_mqd'[v] = m_mqd[v] /\ queue'[v] = queue[v]
    /\ m_next_item_id'[v] = m_next_item_id[v]
    /\ count'[v] = count[v] /\ reported'[v] = reported[v] /\ moved'[v] = moved[v]

(* A worker leaves the private state of every other worker alone.          *)
LEMMA OthersLeftAlone ==
    ASSUME Typing, NEW w \in Workers, Worker(w) \/ Killed(w) \/ Thread(w), NEW v \in Workers, v # w
    PROVE  LeavesAlone(v)
  <1> USE DEF LeavesAlone, Typing
  <1>1. CASE Construct(w)
    BY <1>1 DEF Construct
  <1>2. CASE Close(w) \/ Stop(w)
    BY <1>2 DEF Close, Stop
  <1>3. CASE JoinAndExit(w) \/ Killed(w)
    BY <1>3 DEF JoinAndExit, Killed, Kill, MemoryFreed
  <1>4. CASE Exit(w) \/ Count(w) \/ EnterKernel(w) \/ CallFails(w) \/ SendTimedOut(w)
             \/ CallReceive(w) \/ ReceiveTimedOut(w) \/ Cook(w)
    BY <1>4 DEF Exit, Count, EnterKernel, CallFails, SendTimedOut, CallReceive, ReceiveTimedOut, Cook, ThreadMoves
  <1>5. CASE Send(w) \/ Receive(w)
    BY <1>5 DEF Send, Receive
  <1>6. QED
    BY <1>1, <1>2, <1>3, <1>4, <1>5 DEF Worker, Thread

(* All a coordinator does to a worker is to start it.                      *)
LEMMA CoordinatorStarts ==
    ASSUME Typing, Families, NEW r \in Runs, Coordinate(r), NEW v \in Workers
    PROVE  /\ proc'[v] = proc[v] \/ (proc[v] = "none" /\ proc'[v] = "starting")
           /\ UNCHANGED <<mq, thread, m_mqd, queue, m_next_item_id, count, reported, moved>>
  <1>1. UNCHANGED <<mq, thread, m_mqd, queue, m_next_item_id, count, reported, moved>>
    BY DEF Coordinate, OpenQueue, OpenFails, Unlink
  <1>2. PICK q \in Runs, j \in WorkerRoles : v = <<q, j>>
    BY Processes
  <1>r. /\ j \in Roles /\ j \notin CoordinatorRoles
        /\ "main" \in CoordinatorRoles /\ "p_clone" \in CoordinatorRoles
        /\ "c_clone" \in CoordinatorRoles /\ "pc_clone" \in CoordinatorRoles
        /\ CoordinatorRoles \subseteq Roles /\ WorkerRoles \subseteq Roles
        /\ "producer" \in WorkerRoles /\ "consumer" \in WorkerRoles /\ "consumer2" \in WorkerRoles
    BY DEF Roles, CoordinatorRoles, WorkerRoles
  <1>3. ASSUME NEW k \in CoordinatorRoles, NEW s, proc' = [proc EXCEPT ![<<r, k>>] = s]
        PROVE  proc'[v] = proc[v]
    BY <1>2, <1>3, <1>r, OneMoves DEF Becomes
  <1>4. ASSUME NEW k \in CoordinatorRoles, NEW l \in WorkerRoles, NEW m \in CoordinatorRoles, NEW s, k # m,
               Fork(<<r, k>>, s, <<r, l>>, <<r, m>>), proc[<<r, l>>] = "none"
        PROVE  proc'[v] = proc[v] \/ (proc[v] = "none" /\ proc'[v] = "starting")
    <2>1. k # l /\ k \in Roles /\ l \in Roles /\ m \in Roles
      BY <1>r DEF Roles, CoordinatorRoles, WorkerRoles
    <2>2. BecomesBoth(r, k, s, l, "starting") \/ BecomesBoth(r, k, s, m, s) \/ Becomes(r, k, "failed")
      BY <1>4, <2>1, ForkIs
    <2>3. QED
      BY <1>2, <1>r, <1>4, <2>2 DEF BecomesBoth, Becomes
  <1>5. Family(r)
    BY DEF Families
  <1>6. CASE ForkProducer(r)
    <2>1. Fork(<<r, "main">>, "fork_consumer", <<r, "producer">>, <<r, "p_clone">>)
      BY <1>6 DEF ForkProducer
    <2>2. proc[<<r, "producer">>] = "none"
      BY <1>5, <1>6 DEF ForkProducer, Family, Related
    <2>3. "main" # "p_clone"
      OBVIOUS
    <2>4. QED
      BY <1>1, <1>4, <1>r, <2>1, <2>2, <2>3
  <1>7. CASE ForkConsumer(r)
    <2>1. \/ /\ Fork(<<r, "main">>, "wait_producer", <<r, "consumer">>, <<r, "c_clone">>)
             /\ proc[<<r, "consumer">>] = "none"
          \/ /\ Fork(<<r, "p_clone">>, "wait_producer", <<r, "consumer2">>, <<r, "pc_clone">>)
             /\ proc[<<r, "consumer2">>] = "none"
      BY <1>5, <1>7 DEF ForkConsumer, Family, Related
    <2>2. "main" # "c_clone" /\ "p_clone" # "pc_clone"
      OBVIOUS
    <2>3. QED
      BY <1>1, <1>4, <1>r, <2>1, <2>2
  <1>8. ASSUME NEW k \in CoordinatorRoles,
               OpenQueue(r) \/ OpenFails(r) \/ Unlink(r, k) \/ WaitProducer(r, k) \/ WaitConsumer(r, k)
        PROVE  proc'[v] = proc[v]
    BY <1>3, <1>8, <1>r DEF OpenQueue, OpenFails, Unlink, WaitProducer, WaitConsumer, Moves
  <1>9. QED
    BY <1>1, <1>6, <1>7, <1>8, <1>r DEF Coordinate, ForkAndWait

(* The invariant.                                                          *)
MqInv ==
    /\ Typing
    /\ Calls
    /\ Bounded
    /\ Families
    /\ InTurn
    /\ \A w \in Workers : Reports(w)

(* What a worker's own steps do to its reports.                            *)
LEMMA ReportsKept ==
    ASSUME MqInv, NEW w \in Workers, Worker(w) \/ Killed(w) \/ Thread(w)
    PROVE  Reports(w)'
  <1>0. /\ Typing /\ Calls /\ Reports(w)
        /\ count[w] \in Nat /\ reported[w] \in Nat /\ Len(moved[w]) \in Nat
        /\ thread[w] \in ThreadStates /\ proc[w] \in WorkerStates
    <2>1. PICK r \in Runs, k \in WorkerRoles : w = <<r, k>>
      BY Processes
    <2>2. Family(r)
      BY DEF MqInv, Families
    <2>3. proc[w] \in WorkerStates
      BY <2>1, <2>2 DEF Family, Related, WorkerRoles
    <2>4. QED
      BY <2>3 DEF MqInv, Typing
  <1>1. CASE Construct(w)
    <2>1. /\ proc[w] = "starting" /\ proc'[w] = "running" /\ thread'[w] = "looping"
          /\ m_mqd'[w] \in {"open", "failed"} /\ UNCHANGED <<count, moved>>
      BY <1>0, <1>1, Processes DEF Construct, Typing
    <2>2. QED
      BY <1>0, <2>1 DEF Reports
  <1>2. CASE Close(w)
    <2>1. /\ proc[w] = "running" /\ proc'[w] = "closed" /\ UNCHANGED <<thread, count, moved>>
          /\ reported'[w] = count[w] /\ m_mqd'[w] = IF m_mqd[w] = "open" THEN "closed" ELSE m_mqd[w]
      BY <1>0, <1>2, Processes DEF Close, Typing
    <2>2. QED
      BY <1>0, <2>1 DEF Reports
  <1>3. CASE Stop(w)
    <2>1. /\ proc[w] = "closed" /\ proc'[w] = "stopped"
          /\ UNCHANGED <<thread, count, moved, reported, m_mqd>>
      BY <1>0, <1>3, Processes DEF Stop, Typing
    <2>2. QED
      BY <1>0, <2>1 DEF Reports
  <1>4. CASE JoinAndExit(w) \/ Killed(w)
    <2>1. /\ (proc[w] = "stopped" /\ proc'[w] = "ended") \/ proc'[w] = "killed"
          /\ thread'[w] = "exited" /\ UNCHANGED <<moved, reported>>
      BY <1>0, <1>4, Processes DEF JoinAndExit, Killed, Kill, MemoryFreed, Typing
    <2>2. QED
      BY <1>0, <2>1 DEF Reports
  <1>5. CASE Exit(w) \/ EnterKernel(w) \/ CallFails(w) \/ SendTimedOut(w)
             \/ CallReceive(w) \/ ReceiveTimedOut(w) \/ Cook(w)
    <2>1. /\ UNCHANGED <<proc, m_mqd, queue, count, reported, moved>>
          /\ thread[w] \in {"looping", "calling", "blocked"}
          /\ thread'[w] \in {"looping", "calling", "blocked", "exited"}
          /\ thread'[w] = "blocked" => m_mqd[w] = "open"
      BY <1>0, <1>5 DEF Exit, EnterKernel, CallFails, SendTimedOut, CallReceive, ReceiveTimedOut,
         Cook, ThreadMoves, Typing
    <2>2. proc[w] \in {"running", "closed", "stopped"}
      BY <1>0, <2>1 DEF Reports, WorkerStates
    <2>3. QED
      BY <1>0, <2>1, <2>2 DEF Reports
  <1>6. CASE Count(w)
    <2>1. /\ UNCHANGED <<proc, m_mqd, queue, reported, moved>>
          /\ thread[w] = "counting" /\ thread'[w] = "looping" /\ count'[w] = count[w] + 1
      BY <1>0, <1>6 DEF Count, ThreadMoves, Typing
    <2>2. proc[w] \in {"running", "closed", "stopped"}
      BY <1>0, <2>1 DEF Reports, WorkerStates
    <2>3. QED
      BY <1>0, <2>1, <2>2 DEF Reports
  <1>7. CASE Send(w) \/ Receive(w)
    <2>1. /\ UNCHANGED <<proc, m_mqd, queue, reported, count>>
          /\ thread[w] = "blocked" /\ thread'[w] = "counting"
          /\ \E item : moved'[w] = Append(moved[w], item)
      BY <1>0, <1>7 DEF Send, Receive, Typing
    <2>2. proc[w] \in {"running", "closed", "stopped"}
      BY <1>0, <2>1 DEF Reports, WorkerStates
    <2>3. Len(moved'[w]) = Len(moved[w]) + 1
      BY <1>0, <2>1 DEF Typing
    <2>4. QED
      BY <1>0, <2>1, <2>2, <2>3 DEF Reports
  <1>8. QED
    BY <1>1, <1>2, <1>3, <1>4, <1>5, <1>6, <1>7 DEF Worker, Thread

(* No step gives a thread a call without a queue or without an item.       *)
LEMMA CallsKept ==
    ASSUME MqInv, NEW w \in Workers, Worker(w) \/ Killed(w) \/ Thread(w)
    PROVE  Calls'
  <1> SUFFICES ASSUME NEW v \in Workers
               PROVE  /\ m_mqd'[v] = "open" => queue'[v] \in Runs
                      /\ thread'[v] \in {"calling", "blocked", "counting"} => queue'[v] \in Runs
                      /\ thread'[v] \in {"calling", "blocked"} /\ v \in Producers => m_next_item_id'[v] # 0
    BY DEF Calls
  <1>0. /\ Typing /\ (m_mqd[v] = "open" => queue[v] \in Runs)
        /\ thread[v] \in {"calling", "blocked", "counting"} => queue[v] \in Runs
        /\ thread[v] \in {"calling", "blocked"} /\ v \in Producers => m_next_item_id[v] # 0
    BY DEF MqInv, Calls
  <1>1. CASE v # w
    BY <1>0, <1>1, OthersLeftAlone DEF LeavesAlone
  <1>2. CASE v = w
    <2>1. CASE Construct(w)
      BY <1>0, <1>2, <2>1 DEF Construct, Typing
    <2>2. CASE Close(w) \/ Stop(w)
      BY <1>0, <1>2, <2>2 DEF Close, Stop, Typing
    <2>3. CASE JoinAndExit(w) \/ Killed(w)
      BY <1>0, <1>2, <2>3 DEF JoinAndExit, Killed, MemoryFreed, Typing
    <2>4. CASE Exit(w) \/ Count(w) \/ EnterKernel(w) \/ CallFails(w) \/ SendTimedOut(w) \/ ReceiveTimedOut(w)
      BY <1>0, <1>2, <2>4 DEF Exit, Count, EnterKernel, CallFails, SendTimedOut, ReceiveTimedOut,
         ThreadMoves, Typing
    <2>5. CASE Cook(w)
      BY <1>0, <1>2, <2>5 DEF Cook, ThreadMoves, Typing
    <2>6. CASE w \in Consumers /\ CallReceive(w)
      <3>1. w \notin Producers
        BY <2>6 DEF Consumers, Producers
      <3>2. QED
        BY <1>0, <1>2, <2>6, <3>1 DEF CallReceive, ThreadMoves, Typing
    <2>7. CASE Send(w) \/ Receive(w)
      BY <1>0, <1>2, <2>7 DEF Send, Receive, Typing
    <2>8. QED
      BY <2>1, <2>2, <2>3, <2>4, <2>5, <2>6, <2>7 DEF Worker, Thread
  <1>3. QED
    BY <1>1, <1>2

(* The kernel's queue never holds more than QUEUE_SIZE messages.           *)
LEMMA BoundedKept ==
    ASSUME MqInv, NEW w \in Workers, Worker(w) \/ Killed(w) \/ Thread(w)
    PROVE  Bounded'
  <1>0. Typing /\ Calls /\ Bounded /\ QUEUE_SIZE \in Nat
    BY MessageQueueAssumption DEF MqInv
  <1>1. CASE UNCHANGED mq
    BY <1>0, <1>1 DEF Bounded
  <1>2. CASE Send(w)
    <2>1. PICK item : mq' = [mq EXCEPT ![queue[w]] = Append(@, item)]
      BY <1>2 DEF Send
    <2>2. queue[w] \in Runs /\ Len(mq[queue[w]]) < QUEUE_SIZE
      BY <1>0, <1>2 DEF Send, Calls
    <2>3. ASSUME NEW r \in Runs PROVE Len(mq'[r]) <= QUEUE_SIZE
      <3>1. mq[r] \in Seq(Messages) /\ Len(mq[r]) \in Nat
        BY <1>0 DEF Typing
      <3>2. mq'[r] = IF r = queue[w] THEN Append(mq[r], item) ELSE mq[r]
        BY <1>0, <2>1, <2>2 DEF Typing
      <3>3. Len(Append(mq[r], item)) = Len(mq[r]) + 1
        BY <3>1
      <3>4. QED
        BY <1>0, <2>2, <3>1, <3>2, <3>3 DEF Bounded
    <2>4. QED
      BY <2>3 DEF Bounded
  <1>3. CASE Receive(w)
    <2>1. queue[w] \in Runs /\ mq[queue[w]] # << >> /\ mq' = [mq EXCEPT ![queue[w]] = Tail(@)]
      BY <1>0, <1>3 DEF Receive, Calls
    <2>2. ASSUME NEW r \in Runs PROVE Len(mq'[r]) <= QUEUE_SIZE
      <3>1. mq[r] \in Seq(Messages) /\ Len(mq[r]) \in Nat
        BY <1>0 DEF Typing
      <3>2. mq'[r] = IF r = queue[w] THEN Tail(mq[r]) ELSE mq[r]
        BY <1>0, <2>1 DEF Typing
      <3>3. r = queue[w] => Len(Tail(mq[r])) = Len(mq[r]) - 1
        BY <2>1, <3>1
      <3>4. QED
        BY <1>0, <3>1, <3>2, <3>3 DEF Bounded
    <2>3. QED
      BY <2>2 DEF Bounded
  <1>4. QED
    BY <1>1, <1>2, <1>3 DEF Worker, Construct, Close, Stop, JoinAndExit, Killed, Thread, Exit, Count,
       EnterKernel, CallFails, SendTimedOut, CallReceive, ReceiveTimedOut, Cook, ThreadMoves

(* The inductive invariant holds at the start.                             *)
LEMMA MqInvInit == Init => MqInv
  <1> SUFFICES ASSUME Init PROVE MqInv
    OBVIOUS
  <1>1. Typing
    BY DEF Init, Typing, ThreadStates, DescriptorStates, WorkerStates
  <1>2. Calls /\ Bounded
    BY MessageQueueAssumption DEF Init, Calls, Bounded
  <1>3. \A x \in Workers \cup Coordinators : proc[x] = "none"
    BY DEF Init
  <1>4. \A r \in Runs : \A k \in Roles : proc[<<r, k>>] = "none"
    BY <1>3, Processes
  <1>5. Families
    BY <1>4 DEF Families, Family, Related, Roles, CoordinatorRoles, WorkerRoles, CoordinatorStates, WorkerStates
  <1>6. InTurn
    BY <1>4 DEF InTurn, Roles, CoordinatorRoles
  <1>7. \A w \in Workers : Reports(w)
    BY <1>3 DEF Init, Reports
  <1>8. QED
    BY <1>1, <1>2, <1>5, <1>6, <1>7 DEF MqInv

(* Every step keeps the inductive invariant.                               *)
LEMMA MqInvNext == MqInv /\ [Next]_vars => MqInv'
  <1> SUFFICES ASSUME MqInv, [Next]_vars PROVE MqInv'
    OBVIOUS
  <1>0. Families' /\ InTurn'
    BY FamiliesInductive DEF MqInv
  <1>1. ASSUME NEW r \in Runs, Coordinate(r) PROVE MqInv'
    <2>1. UNCHANGED <<mq, thread, m_mqd, queue, m_next_item_id, count, reported, moved>>
      BY <1>1 DEF Coordinate, OpenQueue, OpenFails, Unlink
    <2>2. Typing'
      <3>1. name' \in {0} \cup Runs
        BY <1>1 DEF Coordinate, OpenQueue, OpenFails, Unlink, MqInv, Typing
      <3>2. proc' \in [Workers \cup Coordinators -> CoordinatorStates \cup WorkerStates]
        BY <1>1, ZenonT(40) DEF Coordinate, OpenQueue, OpenFails, Unlink, ForkAndWait, ForkProducer, ForkConsumer, Fork,
           WaitProducer, WaitConsumer, Moves, MqInv, Typing, CoordinatorStates, WorkerStates
      <3>3. QED
        BY <2>1, <3>1, <3>2 DEF MqInv, Typing
    <2>3. Calls' /\ Bounded'
      BY <2>1 DEF MqInv, Calls, Bounded
    <2>4. ASSUME NEW v \in Workers PROVE Reports(v)'
      <3>1. proc'[v] = proc[v] \/ (proc[v] = "none" /\ proc'[v] = "starting")
        BY <1>1, CoordinatorStarts DEF MqInv
      <3>2. QED
        BY <2>1, <3>1 DEF MqInv, Reports
    <2>5. QED
      BY <1>0, <2>2, <2>3, <2>4 DEF MqInv
  <1>2. ASSUME NEW w \in Workers, Worker(w) \/ Killed(w) \/ Thread(w) PROVE MqInv'
    <2>1. Typing'
      BY <1>2, ThreadTypes, WorkerTypes DEF MqInv
    <2>2. ASSUME NEW v \in Workers PROVE Reports(v)'
      <3>1. CASE v = w
        BY <1>2, <3>1, ReportsKept
      <3>2. CASE v # w
        <4>1. LeavesAlone(v)
          BY <1>2, <3>2, OthersLeftAlone DEF MqInv
        <4>2. QED
          BY <4>1 DEF LeavesAlone, MqInv, Reports
      <3>3. QED
        BY <3>1, <3>2
    <2>3. Calls' /\ Bounded'
      BY <1>2, CallsKept, BoundedKept
    <2>4. QED
      BY <1>0, <2>1, <2>2, <2>3 DEF MqInv
  <1>3. CASE UNCHANGED vars
    BY <1>0, <1>3 DEF vars, MqInv, Typing, Calls, Bounded, Reports
  <1>4. QED
    BY <1>1, <1>2, <1>3 DEF Next, Finished

(* The inductive invariant holds throughout.                               *)
LEMMA MqInvariant == Spec => []MqInv
  BY MqInvInit, MqInvNext, PTL DEF Spec

(* Every variable has its type, and the queue never holds more than        *)
(* mq_maxmsg messages, however many runs there are.                        *)
THEOREM MqTypeCorrect == Spec => []TypeOK
  <1>1. ASSUME MqInv PROVE TypeOK
    <2>1. ASSUME NEW w \in Workers PROVE proc[w] \in WorkerStates
      <3>1. PICK r \in Runs, k \in WorkerRoles : w = <<r, k>>
        BY Processes
      <3>2. Family(r)
        BY <1>1 DEF MqInv, Families
      <3>3. QED
        BY <3>1, <3>2 DEF Family, Related, WorkerRoles
    <2>2. ASSUME NEW c \in Coordinators PROVE proc[c] \in CoordinatorStates
      <3>1. PICK r \in Runs, k \in CoordinatorRoles : c = <<r, k>>
        BY Processes
      <3>2. Family(r)
        BY <1>1 DEF MqInv, Families
      <3>3. QED
        BY <3>1, <3>2 DEF Family, Related, CoordinatorRoles
    <2>3. QED
      BY <1>1, <2>1, <2>2 DEF MqInv, Typing, Bounded, TypeOK
  <1>2. QED
    BY <1>1, MqInvariant, PTL

(* The report of a worker that ended regularly misses at most the one call *)
(* that was in progress when the descriptor was closed (~Producer and      *)
(* ~Consumer), whatever else happens in the system.                        *)
THEOREM ReportsOffByOne == Spec => []ReportOffByOneAtMost
  <1>1. MqInv => ReportOffByOneAtMost
    BY DEF MqInv, Reports, ReportOffByOneAtMost
  <1>2. QED
    BY <1>1, MqInvariant, PTL

-----------------------------------------------------------------------------
(* The order of delivery.                                                  *)

(* A producer that lives may still send; its next item has this id.        *)
Alive(p) == thread[p] \notin {"none", "exited"}
NextId(p) == IF thread[p] \in {"calling", "blocked"} THEN m_next_item_id[p] - 1 ELSE m_next_item_id[p]

(* An item under way was sent by a producer that has started, before the   *)
(* next one it will send.                                                  *)
SentBefore(m) == thread[m[1]] # "none" /\ (Alive(m[1]) => m[2] < NextId(m[1]))

InOrder ==
    /\ \A r \in Runs : \A i \in DOMAIN mq[r] :
          SentBefore(mq[r][i]) /\ (Alive(mq[r][i][1]) => queue[mq[r][i][1]] = r)
    /\ \A c \in Consumers : \A k \in DOMAIN moved[c] : SentBefore(moved[c][k])
    /\ \A r, q \in Runs : \A i \in DOMAIN mq[r], j \in DOMAIN mq[q] :
          mq[r][i][1] = mq[q][j][1] => r = q /\ (i < j => mq[r][i][2] < mq[q][j][2])
    /\ \A c \in Consumers, r \in Runs : \A k \in DOMAIN moved[c], i \in DOMAIN mq[r] :
          moved[c][k][1] = mq[r][i][1] => moved[c][k][2] < mq[r][i][2]
    /\ DeliveredInOrder

(* What a step does to a producer: its next id never goes back while it    *)
(* lives, and it keeps to its queue.                                       *)
Onward(p) ==
    thread[p] # "none" =>
        /\ thread'[p] # "none"
        /\ Alive(p)' => Alive(p) /\ NextId(p) <= NextId(p)' /\ queue'[p] = queue[p]

(* A producer's item ids only go up, whatever times out or is dropped.     *)
LEMMA ProducersGoOn ==
    ASSUME MqInv, [Next]_vars, NEW p \in Producers
    PROVE  Onward(p)
  <1>0. /\ Typing /\ p \in Workers /\ Reports(p) /\ m_next_item_id[p] \in Nat
        /\ thread[p] \in {"calling", "blocked"} => m_next_item_id[p] # 0
    BY Processes DEF MqInv, Typing, Calls
  <1>1. CASE UNCHANGED <<thread, m_next_item_id, queue>>
    BY <1>0, <1>1 DEF Onward, Alive, NextId
  <1>2. ASSUME NEW w \in Workers, w # p, Worker(w) \/ Killed(w) \/ Thread(w) PROVE Onward(p)
    <2>1. LeavesAlone(p)
      BY <1>0, <1>2, OthersLeftAlone
    <2>2. QED
      BY <1>0, <2>1 DEF LeavesAlone, Onward, Alive, NextId
  <1>3. CASE Construct(p)
    BY <1>0, <1>3 DEF Construct, Reports, Onward
  <1>4. CASE JoinAndExit(p) \/ Killed(p) \/ Exit(p)
    <2>1. thread'[p] = "exited"
      BY <1>0, <1>4 DEF JoinAndExit, Killed, MemoryFreed, Exit, ThreadMoves, Typing
    <2>2. QED
      BY <2>1 DEF Onward, Alive
  <1>5. CASE Count(p) \/ EnterKernel(p) \/ CallFails(p) \/ SendTimedOut(p) \/ Send(p)
    <2>1. /\ UNCHANGED <<m_next_item_id, queue>>
          /\ \/ thread[p] = "counting" /\ thread'[p] = "looping"
             \/ thread[p] = "calling" /\ thread'[p] \in {"blocked", "looping"}
             \/ thread[p] = "blocked" /\ thread'[p] \in {"looping", "counting"}
      BY <1>0, <1>5 DEF Count, EnterKernel, CallFails, SendTimedOut, Send, ThreadMoves, Typing
    <2>2. QED
      BY <1>0, <2>1 DEF Onward, Alive, NextId
  <1>6. CASE Cook(p)
    <2>1. /\ UNCHANGED queue /\ m_next_item_id'[p] = m_next_item_id[p] + 1
          /\ thread[p] = "looping" /\ thread'[p] \in {"calling", "looping"}
      BY <1>0, <1>6 DEF Cook, ThreadMoves, Typing
    <2>2. QED
      BY <1>0, <2>1 DEF Onward, Alive, NextId
  <1>7. p \notin Consumers
    BY DEF Producers, Consumers
  <1>8. ASSUME Worker(p) \/ Killed(p) \/ Thread(p) PROVE Onward(p)
    BY <1>1, <1>3, <1>4, <1>5, <1>6, <1>7, <1>8 DEF Worker, Thread, Close, Stop
  <1>9. ASSUME NEW r \in Runs, Coordinate(r) PROVE Onward(p)
    BY <1>1, <1>9 DEF Coordinate, OpenQueue, OpenFails, Unlink
  <1>10. QED
    BY <1>0, <1>1, <1>2, <1>8, <1>9 DEF Next, Finished, vars

(* A message under way keeps its place behind the next one of its sender.  *)
LEMMA SentBeforeKept ==
    ASSUME MqInv, [Next]_vars, NEW m \in Messages, SentBefore(m)
    PROVE  SentBefore(m)'
  <1>1. m[1] \in Producers /\ m[2] \in Nat
    BY DEF Messages
  <1>2. Onward(m[1]) /\ MqInv'
    BY <1>1, ProducersGoOn, MqInvNext
  <1>3. /\ m[1] \in Workers
        /\ m_next_item_id[m[1]] \in Nat /\ m_next_item_id'[m[1]] \in Nat
    BY <1>1, <1>2, Processes DEF MqInv, Typing
  <1>4. NextId(m[1]) \in Int /\ NextId(m[1])' \in Int
    BY <1>3 DEF NextId
  <1>5. QED
    BY <1>1, <1>2, <1>4 DEF SentBefore, Onward

(* Steps that move no message.                                             *)
LEMMA InOrderQuiet ==
    ASSUME MqInv, InOrder, [Next]_vars, UNCHANGED <<mq, moved>>
    PROVE  InOrder'
  <1>1. /\ \A r \in Runs : \A i \in DOMAIN mq[r] : mq[r][i] \in Messages
        /\ \A c \in Consumers : \A k \in DOMAIN moved[c] : moved[c][k] \in Messages
    BY Processes DEF MqInv, Typing
  <1>2. ASSUME NEW r \in Runs, NEW i \in DOMAIN mq[r]
        PROVE  SentBefore(mq[r][i])' /\ (Alive(mq[r][i][1])' => queue'[mq[r][i][1]] = r)
    <2> DEFINE m == mq[r][i]
    <2>1. m \in Messages /\ m[1] \in Producers
      BY <1>1 DEF Messages
    <2>2. SentBefore(m) /\ (Alive(m[1]) => queue[m[1]] = r)
      BY DEF InOrder
    <2>3. UNCHANGED m
      OBVIOUS
    <2> HIDE DEF m
    <2>4. Onward(m[1])
      BY <2>1, ProducersGoOn
    <2>5. \A x \in Messages : SentBefore(x) => SentBefore(x)'
      BY SentBeforeKept
    <2>6. SentBefore(m)' /\ (Alive(m[1])' => queue'[m[1]] = r)
      BY <2>1, <2>2, <2>3, <2>4, <2>5 DEF Onward, SentBefore, Alive, NextId
    <2>7. QED
      BY <2>6 DEF m
  <1>3. ASSUME NEW c \in Consumers, NEW k \in DOMAIN moved[c] PROVE SentBefore(moved[c][k])'
    <2> DEFINE m == moved[c][k]
    <2>1. m \in Messages /\ SentBefore(m) /\ UNCHANGED m
      BY <1>1 DEF InOrder
    <2> HIDE DEF m
    <2>2. \A x \in Messages : SentBefore(x) => SentBefore(x)'
      BY SentBeforeKept
    <2>3. SentBefore(m)'
      BY <2>1, <2>2 DEF SentBefore, Alive, NextId
    <2>4. QED
      BY <2>3 DEF m
  <1>4. QED
    BY <1>2, <1>3 DEF InOrder, DeliveredInOrder, SentBefore, Alive, NextId

(* What is under way are messages.                                         *)
LEMMA MessagesTyped ==
    ASSUME MqInv
    PROVE  /\ \A r \in Runs : \A i \in DOMAIN mq[r] :
                 mq[r][i] \in Messages /\ mq[r][i][2] \in Nat /\ DOMAIN mq[r] \subseteq Nat
           /\ \A c \in Consumers : \A k \in DOMAIN moved[c] :
                 moved[c][k] \in Messages /\ moved[c][k][2] \in Nat
  <1>1. \A m \in Messages : m[2] \in Nat
    BY DEF Messages
  <1>2. \A s \in Seq(Messages) : DOMAIN s \subseteq Nat /\ \A i \in DOMAIN s : s[i] \in Messages
    OBVIOUS
  <1>3. /\ \A r \in Runs : mq[r] \in Seq(Messages)
        /\ \A c \in Consumers : moved[c] \in Seq(Messages)
    BY Processes DEF MqInv, Typing
  <1>4. QED
    BY <1>1, <1>2, <1>3

(* What Send does to the queue.                                            *)
LEMMA SendAppends ==
    ASSUME MqInv, NEW w \in Producers, Send(w)
    PROVE  LET o == queue[w]
               item == <<w, m_next_item_id[w] - 1>>
           IN  /\ o \in Runs /\ item \in Messages
               /\ \A r \in Runs : DOMAIN mq'[r] = IF r = o THEN 1 .. Len(mq[o]) + 1 ELSE DOMAIN mq[r]
               /\ \A r \in Runs : \A i \in DOMAIN mq[r] : mq'[r][i] = mq[r][i]
               /\ DOMAIN mq[o] = 1 .. Len(mq[o]) /\ Len(mq[o]) \in Nat
               /\ mq'[o][Len(mq[o]) + 1] = item
               /\ \A c \in Consumers : moved'[c] = moved[c]
  <1> DEFINE o == queue[w]
             item == <<w, m_next_item_id[w] - 1>>
  <1>0. w \in Workers /\ Typing /\ Calls
    BY Processes DEF MqInv
  <1>1. o \in Runs /\ item \in Messages
    BY <1>0 DEF Send, Calls, Typing, Messages
  <1>2. mq' = [mq EXCEPT ![o] = Append(@, item)] /\ moved' = [moved EXCEPT ![w] = Append(@, item)]
    BY DEF Send
  <1>3. \A c \in Consumers : moved'[c] = moved[c]
    <2>1. w \notin Consumers
      BY DEF Producers, Consumers
    <2>2. QED
      BY <1>0, <1>2, <2>1, Processes DEF Typing
  <1> HIDE DEF item, o
  <1>4. mq[o] \in Seq(Messages)
    BY <1>0, <1>1 DEF Typing
  <1> DEFINE n == Len(mq[o])
             t == Append(mq[o], item)
  <1>5. /\ n \in Nat /\ DOMAIN mq[o] = 1 .. n /\ DOMAIN t = 1 .. n + 1
        /\ \A i \in 1 .. n : t[i] = mq[o][i]
        /\ t[n + 1] = item
    BY <1>1, <1>4
  <1>6. \A r \in Runs : mq'[r] = IF r = o THEN t ELSE mq[r]
    BY <1>0, <1>1, <1>2 DEF Typing
  <1> HIDE DEF n, t
  <1>7. /\ \A r \in Runs : DOMAIN mq'[r] = IF r = o THEN 1 .. n + 1 ELSE DOMAIN mq[r]
        /\ \A r \in Runs : \A i \in DOMAIN mq[r] : mq'[r][i] = mq[r][i]
        /\ DOMAIN mq[o] = 1 .. n /\ n \in Nat
        /\ mq'[o][n + 1] = item
    BY <1>1, <1>5, <1>6
  <1>8. QED
    BY <1>1, <1>3, <1>7 DEF n, o, item

(* A message appended to a queue is later than all that its producer sent  *)
(* before, so that the order is kept.                                      *)
LEMMA InOrderSend ==
    ASSUME MqInv, InOrder, NEW w \in Producers, Send(w)
    PROVE  InOrder'
  <1>n. [Next]_vars
    BY Processes DEF Next, Thread
  <1> DEFINE o == queue[w]
             item == <<w, m_next_item_id[w] - 1>>
             n == Len(mq[o])
  <1>1. /\ o \in Runs /\ item \in Messages
        /\ \A r \in Runs : DOMAIN mq'[r] = IF r = o THEN 1 .. n + 1 ELSE DOMAIN mq[r]
        /\ \A r \in Runs : \A i \in DOMAIN mq[r] : mq'[r][i] = mq[r][i]
        /\ DOMAIN mq[o] = 1 .. n /\ n \in Nat
        /\ mq'[o][n + 1] = item
        /\ \A c \in Consumers : moved'[c] = moved[c]
    BY SendAppends
  <1>2. /\ thread[w] = "blocked" /\ thread'[w] = "counting" /\ UNCHANGED <<queue, m_next_item_id>>
        /\ m_next_item_id[w] \in Nat /\ w \in Workers
    BY Processes DEF Send, MqInv, Typing
  <1>3. item[1] = w /\ item[2] = NextId(w) /\ NextId(w)' = NextId(w) + 1 /\ NextId(w) \in Int
    BY <1>2 DEF NextId
  <1>4. item' = item /\ SentBefore(item)' /\ Alive(w) /\ queue'[w] = o
    <2>1. UNCHANGED item
      BY <1>2
    <2>2. Alive(w) /\ Alive(w)'
      BY <1>2 DEF Alive
    <2>3. item' = item /\ item[2] < NextId(w)' /\ item[1] = w
      BY <1>3, <2>1
    <2>4. thread'[w] # "none" /\ queue'[w] = o
      BY <1>2
    <2> HIDE DEF item
    <2>5. SentBefore(item)'
      BY <2>2, <2>3, <2>4 DEF SentBefore, Alive, NextId
    <2>6. QED
      BY <2>2, <2>3, <2>4, <2>5
  (* The messages that were under way before. *)
  <1>5. ASSUME NEW m \in Messages, SentBefore(m)
        PROVE  /\ SentBefore(m)'
               /\ Alive(m[1])' => Alive(m[1]) /\ queue'[m[1]] = queue[m[1]]
               /\ m[1] = w => m[2] < item[2]
    <2>1. SentBefore(m)' /\ m[1] \in Producers
      BY <1>n, <1>5, SentBeforeKept DEF Messages
    <2>2. Onward(m[1])
      BY <1>n, <2>1, ProducersGoOn
    <2>3. m[1] = w => m[2] < item[2]
      BY <1>3, <1>4, <1>5 DEF SentBefore
    <2>4. QED
      BY <1>5, <2>1, <2>2, <2>3 DEF Onward, SentBefore
  <1>6. /\ \A r \in Runs : \A i \in DOMAIN mq[r] :
              mq[r][i] \in Messages /\ mq[r][i][2] \in Nat /\ DOMAIN mq[r] \subseteq Nat
        /\ \A c \in Consumers : \A k \in DOMAIN moved[c] :
              moved[c][k] \in Messages /\ moved[c][k][2] \in Nat
    BY MessagesTyped
  <1>7. /\ \A r \in Runs : \A i \in DOMAIN mq[r] :
              SentBefore(mq[r][i]) /\ (Alive(mq[r][i][1]) => queue[mq[r][i][1]] = r)
        /\ \A c \in Consumers : \A k \in DOMAIN moved[c] : SentBefore(moved[c][k])
    BY DEF InOrder
  <1> HIDE DEF item, o, n
  <1>8. \A r \in Runs : \A i \in DOMAIN mq'[r] :
            (i \in DOMAIN mq[r] /\ mq'[r][i] = mq[r][i]) \/ (r = o /\ i = n + 1 /\ mq'[r][i] = item)
    BY <1>1
  <1>9. ASSUME NEW r \in Runs, NEW i \in DOMAIN mq'[r]
        PROVE  SentBefore(mq[r][i])' /\ (Alive(mq[r][i][1])' => queue'[mq'[r][i][1]] = r)
    <2>1. PICK m : m = mq'[r][i]
      OBVIOUS
    <2>2. SentBefore(m)' /\ (Alive(m[1])' => queue'[m[1]] = r)
      <3>1. CASE i \in DOMAIN mq[r] /\ m = mq[r][i]
        BY <1>5, <1>6, <1>7, <3>1
      <3>2. CASE r = o /\ m = item
        <4>1. SentBefore(m)'
          BY <1>4, <3>2 DEF SentBefore, Alive, NextId
        <4>2. QED
          BY <1>3, <1>4, <3>2, <4>1
      <3>3. QED
        BY <1>8, <2>1, <3>1, <3>2
    <2>3. QED
      BY <2>1, <2>2 DEF SentBefore, Alive, NextId
  <1>10. ASSUME NEW c \in Consumers, NEW k \in DOMAIN moved'[c] PROVE SentBefore(moved[c][k])'
    <2>1. PICK m : m = moved'[c][k] /\ m = moved[c][k] /\ k \in DOMAIN moved[c]
      BY <1>1
    <2>2. SentBefore(m)'
      BY <1>5, <1>6, <1>7, <2>1
    <2>3. QED
      BY <2>1, <2>2 DEF SentBefore, Alive, NextId
  <1>11. ASSUME NEW r \in Runs, NEW q \in Runs, NEW i \in DOMAIN mq'[r], NEW j \in DOMAIN mq'[q],
                mq'[r][i][1] = mq'[q][j][1]
         PROVE  r = q /\ (i < j => mq'[r][i][2] < mq'[q][j][2])
    <2>1. CASE i \in DOMAIN mq[r] /\ j \in DOMAIN mq[q]
      BY <1>1, <1>11, <2>1 DEF InOrder
    <2>2. CASE i \in DOMAIN mq[r] /\ q = o /\ j = n + 1
      <3>1. mq[r][i][1] = w /\ mq'[r][i] = mq[r][i] /\ mq'[q][j] = item
        BY <1>1, <1>3, <1>11, <2>2
      <3>2. r = o
        BY <1>4, <1>7, <2>2, <3>1 DEF o
      <3>3. mq[r][i][2] < item[2]
        BY <1>5, <1>6, <1>7, <2>2, <3>1
      <3>4. QED
        BY <2>2, <3>1, <3>2, <3>3
    <2>3. CASE r = o /\ i = n + 1 /\ j \in DOMAIN mq[q]
      <3>1. mq[q][j][1] = w /\ mq'[q][j] = mq[q][j]
        BY <1>1, <1>3, <1>11, <2>3
      <3>2. q = o
        BY <1>4, <1>7, <2>3, <3>1 DEF o
      <3>3. ~(i < j)
        BY <1>1, <2>3, <3>2
      <3>4. QED
        BY <2>3, <3>2, <3>3
    <2>4. CASE r = o /\ i = n + 1 /\ q = o /\ j = n + 1
      BY <1>1, <2>4
    <2>5. QED
      BY <1>8, <2>1, <2>2, <2>3, <2>4
  <1>12. ASSUME NEW c \in Consumers, NEW r \in Runs, NEW k \in DOMAIN moved'[c], NEW i \in DOMAIN mq'[r],
                moved'[c][k][1] = mq'[r][i][1]
         PROVE  moved'[c][k][2] < mq'[r][i][2]
    <2>1. CASE i \in DOMAIN mq[r] /\ mq'[r][i] = mq[r][i]
      BY <1>1, <1>12, <2>1 DEF InOrder
    <2>2. CASE mq'[r][i] = item
      BY <1>1, <1>3, <1>5, <1>6, <1>7, <1>12, <2>2
    <2>3. QED
      BY <1>8, <2>1, <2>2
  <1>13. DeliveredInOrder'
    BY <1>1 DEF InOrder, DeliveredInOrder
  <1>14. QED
    BY <1>9, <1>10, <1>11, <1>12, <1>13 DEF InOrder

(* What Receive does to the queue: its first message is the receiver's     *)
(* last, the others move up.                                               *)
LEMMA ReceiveTakesFirst ==
    ASSUME MqInv, NEW w \in Consumers, Receive(w)
    PROVE  LET o == queue[w]
           IN  /\ o \in Runs /\ 1 \in DOMAIN mq[o]
               /\ \A r \in Runs \ {o} : mq'[r] = mq[r]
               /\ \A i \in DOMAIN mq'[o] : i + 1 \in DOMAIN mq[o] /\ mq'[o][i] = mq[o][i + 1]
               /\ \A c \in Consumers \ {w} : moved'[c] = moved[c]
               /\ DOMAIN moved[w] = 1 .. Len(moved[w]) /\ Len(moved[w]) \in Nat
               /\ DOMAIN moved'[w] = 1 .. Len(moved[w]) + 1
               /\ \A k \in DOMAIN moved[w] : moved'[w][k] = moved[w][k]
               /\ moved'[w][Len(moved[w]) + 1] = mq[o][1]
  <1> DEFINE o == queue[w]
             s == mq[o]
             v == moved[w]
  <1>0. w \in Workers /\ Typing /\ Calls
    BY Processes DEF MqInv
  <1>1. o \in Runs /\ s # << >> /\ s \in Seq(Messages) /\ v \in Seq(Messages)
    BY <1>0 DEF Receive, Calls, Typing
  <1>2. mq' = [mq EXCEPT ![o] = Tail(s)] /\ moved' = [moved EXCEPT ![w] = Append(v, Head(s))]
    BY DEF Receive
  <1>3. /\ mq'[o] = Tail(s) /\ moved'[w] = Append(v, Head(s))
        /\ \A r \in Runs \ {o} : mq'[r] = mq[r]
        /\ \A c \in Consumers \ {w} : moved'[c] = moved[c]
    BY <1>0, <1>1, <1>2, Processes DEF Typing
  <1> HIDE DEF o, s, v
  <1>4. /\ Len(s) \in Nat /\ Len(s) # 0 /\ DOMAIN s = 1 .. Len(s) /\ Head(s) = s[1]
        /\ DOMAIN Tail(s) = 1 .. Len(s) - 1 /\ \A i \in 1 .. Len(s) - 1 : Tail(s)[i] = s[i + 1]
    BY <1>1
  <1>5. /\ Len(v) \in Nat /\ DOMAIN v = 1 .. Len(v) /\ DOMAIN Append(v, Head(s)) = 1 .. Len(v) + 1
        /\ \A k \in 1 .. Len(v) : Append(v, Head(s))[k] = v[k]
        /\ Append(v, Head(s))[Len(v) + 1] = Head(s)
    BY <1>1
  <1>6. /\ 1 \in DOMAIN s
        /\ \A i \in DOMAIN mq'[o] : i + 1 \in DOMAIN s /\ mq'[o][i] = s[i + 1]
    BY <1>3, <1>4
  <1>7. /\ DOMAIN v = 1 .. Len(v) /\ Len(v) \in Nat
        /\ DOMAIN moved'[w] = 1 .. Len(v) + 1
        /\ \A k \in DOMAIN v : moved'[w][k] = v[k]
        /\ moved'[w][Len(v) + 1] = s[1]
    BY <1>3, <1>4, <1>5
  <1>8. QED
    BY <1>1, <1>3, <1>6, <1>7 DEF o, s, v

(* The head of a queue is later than what the consumer has of its          *)
(* producer, so that receiving it keeps the order.                         *)
LEMMA InOrderReceive ==
    ASSUME MqInv, InOrder, NEW w \in Consumers, Receive(w)
    PROVE  InOrder'
  <1>n. [Next]_vars
    BY Processes DEF Next, Thread
  <1> DEFINE o == queue[w]
             n == Len(moved[w])
             item == mq[o][1]
  <1>1. /\ o \in Runs /\ 1 \in DOMAIN mq[o]
        /\ \A r \in Runs \ {o} : mq'[r] = mq[r]
        /\ \A i \in DOMAIN mq'[o] : i + 1 \in DOMAIN mq[o] /\ mq'[o][i] = mq[o][i + 1]
        /\ \A c \in Consumers \ {w} : moved'[c] = moved[c]
        /\ DOMAIN moved[w] = 1 .. n /\ n \in Nat
        /\ DOMAIN moved'[w] = 1 .. n + 1
        /\ \A k \in DOMAIN moved[w] : moved'[w][k] = moved[w][k]
        /\ moved'[w][n + 1] = item
    BY ReceiveTakesFirst
  <1> HIDE DEF o, n, item
  <1>2. /\ \A r \in Runs : \A i \in DOMAIN mq[r] :
              mq[r][i] \in Messages /\ mq[r][i][2] \in Nat /\ DOMAIN mq[r] \subseteq Nat
        /\ \A c \in Consumers : \A k \in DOMAIN moved[c] :
              moved[c][k] \in Messages /\ moved[c][k][2] \in Nat
    BY MessagesTyped
  <1>3. MqInv'
    BY <1>n, MqInvNext
  <1>4. /\ \A r \in Runs : \A i \in DOMAIN mq[r] :
              SentBefore(mq[r][i]) /\ (Alive(mq[r][i][1]) => queue[mq[r][i][1]] = r)
        /\ \A c \in Consumers : \A k \in DOMAIN moved[c] : SentBefore(moved[c][k])
    BY DEF InOrder
  <1>5. ASSUME NEW m \in Messages, SentBefore(m)
        PROVE  /\ SentBefore(m)'
               /\ Alive(m[1])' => Alive(m[1]) /\ queue'[m[1]] = queue[m[1]]
    <2>1. SentBefore(m)' /\ m[1] \in Producers
      BY <1>n, <1>5, SentBeforeKept DEF Messages
    <2>2. Onward(m[1])
      BY <1>n, <2>1, ProducersGoOn
    <2>3. QED
      BY <1>5, <2>1, <2>2 DEF Onward, SentBefore
  (* Where a message is now, and where it was. *)
  <1>6. \A r \in Runs : \A i \in DOMAIN mq'[r] :
            \E j \in DOMAIN mq[r] : mq'[r][i] = mq[r][j] /\ j = (IF r = o THEN i + 1 ELSE i)
    BY <1>1
  <1>7. \A c \in Consumers : \A k \in DOMAIN moved'[c] :
            \/ k \in DOMAIN moved[c] /\ moved'[c][k] = moved[c][k]
            \/ c = w /\ k = n + 1 /\ moved'[c][k] = item
    BY <1>1
  <1>8. \A r \in Runs : \A i \in DOMAIN mq'[r] : i \in Nat /\ i # 0
    <2>1. \A t \in Seq(Messages) : \A i \in DOMAIN t : i \in Nat /\ i # 0
      OBVIOUS
    <2>2. QED
      BY <1>3, <2>1 DEF MqInv, Typing
  <1>9. ASSUME NEW r \in Runs, NEW i \in DOMAIN mq'[r]
        PROVE  SentBefore(mq[r][i])' /\ (Alive(mq[r][i][1])' => queue'[mq'[r][i][1]] = r)
    <2>1. PICK j \in DOMAIN mq[r] : mq'[r][i] = mq[r][j]
      BY <1>6
    <2>2. PICK m : m = mq'[r][i] /\ m = mq[r][j]
      BY <2>1
    <2>3. SentBefore(m)' /\ (Alive(m[1])' => queue'[m[1]] = r)
      BY <1>2, <1>4, <1>5, <2>2
    <2>4. QED
      BY <2>2, <2>3 DEF SentBefore, Alive, NextId
  <1>10. ASSUME NEW c \in Consumers, NEW k \in DOMAIN moved'[c] PROVE SentBefore(moved[c][k])'
    <2>1. PICK m : m = moved'[c][k]
      OBVIOUS
    <2>2. m \in Messages /\ SentBefore(m)
      BY <1>1, <1>2, <1>4, <1>7, <2>1 DEF item
    <2>3. SentBefore(m)'
      BY <1>5, <2>2
    <2>4. QED
      BY <2>1, <2>3 DEF SentBefore, Alive, NextId
  <1>11. ASSUME NEW r \in Runs, NEW q \in Runs, NEW i \in DOMAIN mq'[r], NEW j \in DOMAIN mq'[q],
                mq'[r][i][1] = mq'[q][j][1]
         PROVE  r = q /\ (i < j => mq'[r][i][2] < mq'[q][j][2])
    <2>1. PICK a \in DOMAIN mq[r] : mq'[r][i] = mq[r][a] /\ a = (IF r = o THEN i + 1 ELSE i)
      BY <1>6
    <2>2. PICK b \in DOMAIN mq[q] : mq'[q][j] = mq[q][b] /\ b = (IF q = o THEN j + 1 ELSE j)
      BY <1>6
    <2>3. r = q /\ (a < b => mq[r][a][2] < mq[q][b][2])
      BY <1>11, <2>1, <2>2 DEF InOrder
    <2>4. i < j => a < b
      BY <1>8, <2>1, <2>2, <2>3
    <2>5. QED
      BY <2>1, <2>2, <2>3, <2>4
  <1>12. ASSUME NEW c \in Consumers, NEW r \in Runs, NEW k \in DOMAIN moved'[c], NEW i \in DOMAIN mq'[r],
                moved'[c][k][1] = mq'[r][i][1]
         PROVE  moved'[c][k][2] < mq'[r][i][2]
    <2>1. PICK a \in DOMAIN mq[r] : mq'[r][i] = mq[r][a] /\ a = (IF r = o THEN i + 1 ELSE i)
      BY <1>6
    <2>2. CASE k \in DOMAIN moved[c] /\ moved'[c][k] = moved[c][k]
      BY <1>12, <2>1, <2>2 DEF InOrder
    <2>3. CASE c = w /\ k = n + 1 /\ moved'[c][k] = item
      <3>1. mq[o][1][1] = mq[r][a][1]
        BY <1>12, <2>1, <2>3 DEF item
      <3>2. r = o /\ (1 < a => mq[o][1][2] < mq[r][a][2])
        BY <1>1, <3>1 DEF InOrder
      <3>3. 1 < a
        BY <1>8, <2>1, <3>2
      <3>4. QED
        BY <2>1, <2>3, <3>2, <3>3 DEF item
    <2>4. QED
      BY <1>7, <2>2, <2>3
  <1>13. ASSUME NEW c \in Consumers, NEW k \in DOMAIN moved'[c], NEW l \in DOMAIN moved'[c],
                k < l, moved'[c][k][1] = moved'[c][l][1]
         PROVE  moved'[c][k][2] < moved'[c][l][2]
    <2>1. CASE k \in DOMAIN moved[c] /\ moved'[c][k] = moved[c][k]
               /\ l \in DOMAIN moved[c] /\ moved'[c][l] = moved[c][l]
      BY <1>13, <2>1 DEF InOrder, DeliveredInOrder
    <2>2. CASE k \in DOMAIN moved[c] /\ moved'[c][k] = moved[c][k]
               /\ c = w /\ l = n + 1 /\ moved'[c][l] = item
      BY <1>1, <1>13, <2>2, SMTT(30) DEF InOrder, item
    <2>3. CASE c = w /\ k = n + 1
      <3>1. ~(k < l)
        BY <1>1, <1>13, <2>3
      <3>2. QED
        BY <1>13, <3>1
    <2>4. QED
      BY <1>7, <2>1, <2>2, <2>3
  <1>14. DeliveredInOrder'
    BY <1>13 DEF DeliveredInOrder
  <1>15. QED
    BY <1>9, <1>10, <1>11, <1>12, <1>14 DEF InOrder

(* Only Send and Receive move messages.                                    *)
LEMMA MessageMoves ==
    ASSUME [Next]_vars
    PROVE  \/ UNCHANGED <<mq, moved>>
           \/ \E w \in Producers : Send(w)
           \/ \E w \in Consumers : Receive(w)
  <1>1. ASSUME NEW r \in Runs, Coordinate(r) PROVE UNCHANGED <<mq, moved>>
    BY <1>1 DEF Coordinate, OpenQueue, OpenFails, Unlink
  <1>2. ASSUME NEW w \in Workers, Worker(w) \/ Killed(w) \/ Thread(w)
        PROVE  UNCHANGED <<mq, moved>> \/ (w \in Producers /\ Send(w)) \/ (w \in Consumers /\ Receive(w))
    BY <1>2 DEF Worker, Construct, Close, Stop, JoinAndExit, Killed, Thread, Exit, Count, EnterKernel,
       CallFails, SendTimedOut, CallReceive, ReceiveTimedOut, Cook, ThreadMoves
  <1>3. QED
    BY <1>1, <1>2 DEF Next, Finished, vars

(* A consumer gets the items of a producer in the order of their ids and   *)
(* none twice, whatever times out, fails or is killed, and whichever runs  *)
(* share a queue (Producer::work, Consumer::work).                         *)
THEOREM DeliveryInOrder == Spec => []DeliveredInOrder
  <1>1. Init => InOrder
    <2> SUFFICES ASSUME Init PROVE InOrder
      OBVIOUS
    <2>1. /\ \A r \in Runs : DOMAIN mq[r] = {}
          /\ \A c \in Consumers : DOMAIN moved[c] = {}
      BY Processes DEF Init
    <2>2. QED
      BY <2>1 DEF InOrder, DeliveredInOrder
  <1>2. MqInv /\ InOrder /\ [Next]_vars => InOrder'
    <2> SUFFICES ASSUME MqInv, InOrder, [Next]_vars PROVE InOrder'
      OBVIOUS
    <2>1. CASE UNCHANGED <<mq, moved>>
      BY <2>1, InOrderQuiet
    <2>2. QED
      BY <2>1, MessageMoves, InOrderSend, InOrderReceive
  <1>3. InOrder => DeliveredInOrder
    BY DEF InOrder
  <1>4. QED
    BY <1>1, <1>2, <1>3, MqInvariant, PTL DEF Spec

-----------------------------------------------------------------------------
(* Which runs meet in a queue.                                             *)

(* A run without a failed fork uses none of the queues of later runs, and  *)
(* leaves none for them.                                                   *)
Apart(o, r) ==
    /\ FailedIn(r) \/ o <= r
    /\ \A q \in Runs : q < r => FailedIn(q) \/ o > q

KeptApart ==
    /\ name # 0 => proc[<<name, "main">>] # "none"
    /\ \A r \in Runs : Ended(<<r, "main">>) /\ ~FailedIn(r) => name = 0 \/ name > r
    /\ \A w \in Workers : queue[w] # 0 => Apart(queue[w], w[1])
    /\ \A o \in Runs : \A i \in DOMAIN mq[o] : Apart(o, mq[o][i][1][1])
    /\ StaleOnlyAfterFailedFork

(* A coordinator that failed stays so, and with it the excuse.             *)
LEMMA FailedStays ==
    ASSUME MqInv, [Next]_vars, NEW r \in Runs, FailedIn(r)
    PROVE  FailedIn(r)'
  <1>1. PICK k \in CoordinatorRoles : proc[<<r, k>>] = "failed"
    BY DEF FailedIn
  <1>2. k \in Roles /\ Family(r) /\ Ended(<<r, k>>)
    BY <1>1 DEF Roles, MqInv, Families, Ended
  <1>3. proc'[<<r, k>>] = "failed"
    BY <1>1, <1>2, ProcessSteps, Lasting DEF MqInv
  <1>4. QED
    BY <1>3 DEF FailedIn

(* What two runs may see of each other they may still see later.           *)
LEMMA StaysApart ==
    ASSUME MqInv, [Next]_vars, NEW o \in Runs, NEW r \in Runs, Apart(o, r)
    PROVE  Apart(o, r)'
  BY FailedStays DEF Apart

(* The name a process finds while it lives is that of a queue its run may  *)
(* use.                                                                    *)
LEMMA NameApart ==
    ASSUME MqInv, KeptApart, NEW r \in Runs, NEW k \in WorkerRoles,
           proc[<<r, k>>] # "none", ~Ended(<<r, k>>), name # 0
    PROVE  Apart(name, r)
  <1>0. name \in Runs /\ name \in Nat /\ r \in Nat /\ Family(r) /\ InTurn
    BY MessageQueueAssumption DEF MqInv, Typing, Runs, Families
  <1>1. FailedIn(r) \/ name <= r
    <2> SUFFICES ASSUME ~FailedIn(r), name > r PROVE FALSE
      BY <1>0
    <2>1. proc[<<name, "main">>] # "none"
      BY DEF KeptApart
    <2>2. Ended(<<r, "main">>)
      BY <1>0, <2>1 DEF InTurn
    <2>3. QED
      BY <1>0, <2>2, RunOver
  <1>2. ASSUME NEW q \in Runs, q < r PROVE FailedIn(q) \/ name > q
    <2>1. proc[<<r, "main">>] # "none"
      BY <1>0 DEF Family, Related, WorkerRoles
    <2>2. Ended(<<q, "main">>)
      BY <1>0, <1>2, <2>1 DEF InTurn
    <2>3. QED
      BY <2>2 DEF KeptApart
  <1>3. QED
    BY <1>1, <1>2 DEF Apart

(* The main of a run goes on without ending, fails, or ends removing the   *)
(* name.                                                                   *)
LEMMA MainEnds ==
    ASSUME MqInv, [Next]_vars, NEW r \in Runs, ~Ended(<<r, "main">>), Ended(<<r, "main">>)', ~FailedIn(r)'
    PROVE  name' = 0
  <1> SUFFICES ASSUME name' # 0 PROVE FALSE
    OBVIOUS
  <1> DEFINE m == <<r, "main">>
  <1>t. Typing /\ "main" \in CoordinatorRoles /\ m \in Coordinators
    BY DEF MqInv, CoordinatorRoles, Coordinators
  <1>0. proc'[m] # proc[m] /\ proc'[m] # "failed"
    BY <1>t DEF Ended, FailedIn
  <1>1. ASSUME NEW q \in Runs, Coordinate(q) PROVE FALSE
    <2>1. CASE OpenQueue(q) \/ OpenFails(q)
      <3>1. proc'[m] \in {proc[m], "fork_producer", "failed"}
        BY <1>t, <2>1 DEF OpenQueue, OpenFails, Moves, Typing
      <3>2. QED
        BY <1>0, <3>1 DEF Ended
    <2>2. ASSUME NEW k \in CoordinatorRoles, Unlink(q, k) PROVE FALSE
      BY <2>2 DEF Unlink
    <2>3. CASE ForkProducer(q)
      <3>1. proc'[m] \in {proc[m], "fork_consumer", "failed"}
        BY <1>t, <2>3 DEF ForkProducer, Fork, Typing
      <3>2. QED
        BY <1>0, <3>1 DEF Ended
    <2>4. CASE ForkConsumer(q)
      <3>1. proc'[m] \in {proc[m], "wait_producer", "failed"}
        BY <1>t, <2>4 DEF ForkConsumer, Fork, Typing
      <3>2. QED
        BY <1>0, <3>1 DEF Ended
    <2>5. ASSUME NEW k \in CoordinatorRoles, WaitProducer(q, k) \/ WaitConsumer(q, k) PROVE FALSE
      <3>1. proc'[m] \in {proc[m], "wait_consumer", "unlink"}
        BY <1>t, <2>5 DEF WaitProducer, WaitConsumer, Moves, Typing
      <3>2. QED
        BY <1>0, <3>1 DEF Ended
    <2>6. QED
      BY <1>1, <2>1, <2>2, <2>3, <2>4, <2>5 DEF Coordinate, ForkAndWait
  <1>2. ASSUME NEW w \in Workers, Worker(w) \/ Killed(w) \/ Thread(w) PROVE FALSE
    <2>1. w # m
      BY <1>t, Processes
    <2>2. proc' = proc \/ \E s : proc' = [proc EXCEPT ![w] = s]
      BY <1>2 DEF Worker, Construct, Close, Stop, JoinAndExit, Killed, Kill, Thread, Exit, Count,
         EnterKernel, CallFails, Cook, Send, SendTimedOut, CallReceive, Receive, ReceiveTimedOut, ThreadMoves
    <2>3. QED
      BY <1>0, <1>t, <2>1, <2>2 DEF Typing
  <1>3. QED
    BY <1>0, <1>1, <1>2 DEF Next, Finished, vars

(* What a step may make of the name.                                       *)
LEMMA NameMoves ==
    ASSUME MqInv, [Next]_vars
    PROVE  \/ name' \in {name, 0}
           \/ \E q \in Runs : OpenQueue(q) /\ name = 0 /\ name' = q
  <1>1. ASSUME NEW q \in Runs, Coordinate(q)
        PROVE  name' \in {name, 0} \/ (OpenQueue(q) /\ name = 0 /\ name' = q)
    BY <1>1 DEF Coordinate, OpenQueue, OpenFails, Unlink
  <1>2. ASSUME NEW w \in Workers, Worker(w) \/ Killed(w) \/ Thread(w) PROVE name' = name
    BY <1>2 DEF Worker, Construct, Close, Stop, JoinAndExit, Killed, Thread, Exit, Count,
       EnterKernel, CallFails, Cook, Send, SendTimedOut, CallReceive, Receive, ReceiveTimedOut, ThreadMoves
  <1>3. QED
    BY <1>1, <1>2 DEF Next, Finished, vars

(* No step brings something of a run into another one unless a fork failed *)
(* in one of them.                                                         *)
LEMMA KeptApartNext == MqInv /\ KeptApart /\ [Next]_vars => KeptApart'
  <1> SUFFICES ASSUME MqInv, KeptApart, [Next]_vars PROVE KeptApart'
    OBVIOUS
  <1>t. Typing /\ Families /\ InTurn /\ MqInv' /\ Runs \subseteq Nat /\ 0 \notin Runs
    BY MqInvNext, MessageQueueAssumption DEF MqInv, Runs
  <1>m. "main" \in Roles /\ "main" \in CoordinatorRoles
    BY DEF Roles, CoordinatorRoles
  <1>l. ASSUME NEW r \in Runs, NEW k \in Roles
        PROVE  /\ proc[<<r, k>>] # "none" => proc'[<<r, k>>] # "none"
               /\ Ended(<<r, k>>) => proc'[<<r, k>>] = proc[<<r, k>>]
    BY <1>t, ProcessSteps, Lasting DEF Families
  <1>1. name' # 0 => proc'[<<name', "main">>] # "none"
    <2>1. CASE name' = name
      BY <1>l, <1>m, <1>t, <2>1 DEF KeptApart, Typing
    <2>2. ASSUME NEW q \in Runs, OpenQueue(q), name' = q PROVE proc'[<<q, "main">>] # "none"
      <3>1. <<q, "main">> \in Coordinators
        BY <1>m DEF Coordinators
      <3>2. QED
        BY <1>t, <2>2, <3>1 DEF OpenQueue, Typing
    <2>3. QED
      BY <2>1, <2>2, NameMoves
  <1>2. ASSUME NEW r \in Runs, Ended(<<r, "main">>)', ~FailedIn(r)' PROVE name' = 0 \/ name' > r
    <2>1. CASE ~Ended(<<r, "main">>)
      BY <1>2, <2>1, MainEnds
    <2>2. CASE Ended(<<r, "main">>)
      <3>1. ~FailedIn(r)
        BY <1>2, FailedStays
      <3>2. name = 0 \/ name > r
        BY <2>2, <3>1 DEF KeptApart
      <3>3. ASSUME NEW q \in Runs, OpenQueue(q), name' = q PROVE name' > r
        <4>1. proc[<<q, "main">>] = "none"
          BY <3>3 DEF OpenQueue
        <4>2. ~Ended(<<q, "main">>) /\ proc[<<r, "main">>] # "none"
          BY <2>2, <4>1 DEF Ended
        <4>3. ~(q < r) /\ q # r
          BY <1>t, <4>1, <4>2 DEF InTurn
        <4>4. QED
          BY <1>t, <3>3, <4>3
      <3>4. QED
        BY <3>2, <3>3, NameMoves
    <2>3. QED
      BY <2>1, <2>2
  <1>3. ASSUME NEW w \in Workers, queue'[w] # 0 PROVE Apart(queue[w], w[1])'
    <2>0. PICK r \in Runs, k \in WorkerRoles : w = <<r, k>>
      BY Processes
    <2>1. CASE queue'[w] = queue[w]
      <3>1. Apart(queue[w], r) /\ queue[w] \in Runs
        BY <1>3, <1>t, <2>0, <2>1 DEF KeptApart, Typing
      <3>2. PICK o \in Runs : o = queue[w]
        BY <3>1
      <3>3. Apart(o, r)'
        BY <3>1, <3>2, StaysApart
      <3>4. QED
        BY <2>0, <2>1, <3>2, <3>3 DEF Apart, FailedIn
    <2>2. CASE Construct(w)
      <3>1. queue'[w] = name /\ proc[w] = "starting"
        BY <1>t, <2>2 DEF Construct, Typing
      <3>2. name \in Runs /\ name # 0
        BY <1>3, <1>t, <3>1 DEF Typing
      <3>3. Apart(name, r)
        BY <2>0, <3>1, <3>2, NameApart DEF Ended
      <3>4. PICK o \in Runs : o = name
        BY <3>2
      <3>5. Apart(o, r)'
        BY <3>3, <3>4, StaysApart
      <3>6. QED
        BY <2>0, <3>1, <3>4, <3>5 DEF Apart, FailedIn
    <2>3. Construct(w) \/ queue'[w] = queue[w]
      <3>1. ASSUME NEW q \in Runs, Coordinate(q) PROVE queue'[w] = queue[w]
        BY <3>1 DEF Coordinate, OpenQueue, OpenFails, Unlink
      <3>2. ASSUME NEW v \in Workers, v # w, Worker(v) \/ Killed(v) \/ Thread(v) PROVE queue'[w] = queue[w]
        BY <1>t, <3>2, OthersLeftAlone DEF LeavesAlone
      <3>3. ASSUME JoinAndExit(w) \/ Killed(w) PROVE queue'[w] = 0
        BY <1>t, <3>3 DEF JoinAndExit, Killed, MemoryFreed, Typing
      <3>4. ASSUME Close(w) \/ Stop(w) \/ Thread(w) PROVE queue'[w] = queue[w]
        BY <3>4 DEF Close, Stop, Thread, Exit, Count, EnterKernel, CallFails, Cook, Send, SendTimedOut,
           CallReceive, Receive, ReceiveTimedOut, ThreadMoves
      <3>5. QED
        BY <1>3, <3>1, <3>2, <3>3, <3>4 DEF Next, Finished, vars, Worker
    <2>4. QED
      BY <2>1, <2>2, <2>3
  <1>4. ASSUME NEW o \in Runs, NEW i \in DOMAIN mq'[o] PROVE Apart(o, mq[o][i][1][1])'
    <2>1. \E r \in Runs : mq'[o][i][1][1] = r /\ Apart(o, r)
      <3>1. ASSUME NEW j \in DOMAIN mq[o] PROVE mq[o][j][1][1] \in Runs /\ Apart(o, mq[o][j][1][1])
        <4>1. mq[o][j] \in Messages
          BY MessagesTyped
        <4>2. QED
          BY <4>1 DEF KeptApart, Messages, Producers
      <3>2. CASE UNCHANGED mq
        BY <3>1, <3>2
      <3>3. ASSUME NEW w \in Producers, Send(w) PROVE \E r \in Runs : mq'[o][i][1][1] = r /\ Apart(o, r)
        <4>1. /\ queue[w] \in Runs
              /\ DOMAIN mq'[o] = IF o = queue[w] THEN 1 .. Len(mq[queue[w]]) + 1 ELSE DOMAIN mq[o]
              /\ \A j \in DOMAIN mq[o] : mq'[o][j] = mq[o][j]
              /\ DOMAIN mq[queue[w]] = 1 .. Len(mq[queue[w]]) /\ Len(mq[queue[w]]) \in Nat
              /\ mq'[queue[w]][Len(mq[queue[w]]) + 1] = <<w, m_next_item_id[w] - 1>>
          BY <3>3, SendAppends
        <4>2. Apart(queue[w], w[1]) /\ w[1] \in Runs
          BY <1>t, <4>1, Processes DEF KeptApart, Producers
        <4>3. CASE i \in DOMAIN mq[o]
          BY <3>1, <4>1, <4>3
        <4>4. CASE o = queue[w] /\ mq'[o][i] = <<w, m_next_item_id[w] - 1>>
          BY <4>2, <4>4
        <4>5. QED
          BY <4>1, <4>3, <4>4
      <3>4. ASSUME NEW w \in Consumers, Receive(w) PROVE \E r \in Runs : mq'[o][i][1][1] = r /\ Apart(o, r)
        <4>1. /\ \A r \in Runs \ {queue[w]} : mq'[r] = mq[r]
              /\ \A j \in DOMAIN mq'[queue[w]] :
                    j + 1 \in DOMAIN mq[queue[w]] /\ mq'[queue[w]][j] = mq[queue[w]][j + 1]
          BY <3>4, ReceiveTakesFirst
        <4>2. \E j \in DOMAIN mq[o] : mq'[o][i] = mq[o][j]
          BY <4>1
        <4>3. QED
          BY <3>1, <4>2
      <3>5. UNCHANGED mq \/ (\E w \in Producers : Send(w)) \/ (\E w \in Consumers : Receive(w))
        BY MessageMoves
      <3>6. QED
        BY <3>2, <3>3, <3>4, <3>5
    <2>2. PICK r \in Runs : mq'[o][i][1][1] = r /\ Apart(o, r)
      BY <2>1
    <2>3. Apart(o, r)'
      BY <2>2, StaysApart
    <2>4. QED
      BY <2>2, <2>3 DEF Apart, FailedIn
  <1>5. ASSUME NEW w \in Consumers, NEW n \in DOMAIN moved'[w]
        PROVE  LET r == moved'[w][n][1][1]
               IN  r = w[1] \/ \E q \in {r, w[1]}, k \in CoordinatorRoles : proc'[<<q, k>>] = "failed"
    <2> DEFINE Excused(r) == r = w[1] \/ FailedIn(r) \/ FailedIn(w[1])
    <2>0. w[1] \in Runs /\ w \in Workers
      BY Processes DEF Consumers
    <2>1. \E r \in Runs : moved'[w][n][1][1] = r /\ Excused(r)
      <3>1. ASSUME NEW j \in DOMAIN moved[w] PROVE moved[w][j][1][1] \in Runs /\ Excused(moved[w][j][1][1])
        <4>1. moved[w][j] \in Messages
          BY MessagesTyped
        <4>2. QED
          BY <4>1 DEF KeptApart, StaleOnlyAfterFailedFork, FailedIn, Messages, Producers
      <3>2. CASE UNCHANGED moved
        BY <3>1, <3>2
      <3>3. CASE \E v \in Producers : Send(v)
        <4>1. moved'[w] = moved[w]
          BY <3>3, SendAppends
        <4>2. QED
          BY <3>1, <4>1
      <3>4. ASSUME NEW v \in Consumers, Receive(v) PROVE \E r \in Runs : moved'[w][n][1][1] = r /\ Excused(r)
        <4>1. /\ queue[v] \in Runs /\ 1 \in DOMAIN mq[queue[v]]
              /\ \A c \in Consumers \ {v} : moved'[c] = moved[c]
              /\ DOMAIN moved[v] = 1 .. Len(moved[v]) /\ Len(moved[v]) \in Nat
              /\ DOMAIN moved'[v] = 1 .. Len(moved[v]) + 1
              /\ \A k \in DOMAIN moved[v] : moved'[v][k] = moved[v][k]
              /\ moved'[v][Len(moved[v]) + 1] = mq[queue[v]][1]
          BY <3>4, ReceiveTakesFirst
        <4>2. CASE w # v \/ n \in DOMAIN moved[w]
          BY <3>1, <4>1, <4>2
        <4>3. CASE w = v /\ n = Len(moved[v]) + 1
          <5>1. PICK r : r = mq[queue[w]][1][1][1]
            OBVIOUS
          <5>2. r \in Runs
            <6>1. mq[queue[w]][1] \in Messages
              BY <4>1, <4>3, MessagesTyped
            <6>2. QED
              BY <5>1, <6>1 DEF Messages, Producers
          <5>3. Apart(queue[w], r) /\ Apart(queue[w], w[1])
            BY <1>t, <2>0, <4>1, <4>3, <5>1 DEF KeptApart
          <5>4. Excused(r)
            <6>0. PICK o \in Runs, q \in Runs : o = queue[w] /\ q = w[1]
              BY <2>0, <4>1, <4>3
            <6>1. Apart(o, r) /\ Apart(o, q) /\ o \in Nat /\ q \in Nat /\ r \in Nat
              BY <1>t, <5>2, <5>3, <6>0
            <6>2. CASE r < q
              <7>1. (FailedIn(r) \/ o <= r) /\ (FailedIn(r) \/ o > r)
                BY <5>2, <6>1, <6>2 DEF Apart
              <7>2. QED
                BY <6>1, <7>1
            <6>3. CASE q < r
              <7>1. (FailedIn(q) \/ o <= q) /\ (FailedIn(q) \/ o > q)
                BY <6>0, <6>1, <6>3 DEF Apart
              <7>2. QED
                BY <6>0, <6>1, <7>1
            <6>4. QED
              BY <6>0, <6>1, <6>2, <6>3
          <5>5. QED
            BY <4>1, <4>3, <5>1, <5>2, <5>4
        <4>4. QED
          BY <4>1, <4>2, <4>3
      <3>5. UNCHANGED moved \/ (\E v \in Producers : Send(v)) \/ (\E v \in Consumers : Receive(v))
        BY MessageMoves
      <3>6. QED
        BY <3>2, <3>3, <3>4, <3>5
    <2>2. PICK r \in Runs : moved'[w][n][1][1] = r /\ Excused(r)
      BY <2>1
    <2>3. r = w[1] \/ FailedIn(r)' \/ FailedIn(w[1])'
      BY <2>0, <2>2, FailedStays
    <2>4. QED
      BY <2>2, <2>3 DEF FailedIn
  <1>6. StaleOnlyAfterFailedFork'
    BY <1>5 DEF StaleOnlyAfterFailedFork
  <1>7. QED
    BY <1>1, <1>2, <1>3, <1>4, <1>6 DEF KeptApart

(* Two runs meet in a queue only after a failed fork in one of them:       *)
(* however many runs there are and whatever else fails, a coordinator that *)
(* could fork waits for its family and removes the name (mq_unlink).       *)
THEOREM RunsMixOnlyAfterFailedFork == Spec => []StaleOnlyAfterFailedFork
  <1>1. Init => KeptApart
    <2> SUFFICES ASSUME Init PROVE KeptApart
      OBVIOUS
    <2>1. /\ \A r \in Runs : DOMAIN mq[r] = {}
          /\ \A c \in Consumers : DOMAIN moved[c] = {}
          /\ \A w \in Workers : queue[w] = 0
          /\ name = 0
      BY Processes DEF Init
    <2>2. QED
      BY <2>1 DEF KeptApart, StaleOnlyAfterFailedFork
  <1>2. KeptApart => StaleOnlyAfterFailedFork
    BY DEF KeptApart
  <1>3. QED
    BY <1>1, <1>2, KeptApartNext, MqInvariant, PTL DEF Spec

-----------------------------------------------------------------------------
(* Who misses the queue.                                                   *)

(* No exec has failed up to run q.                                         *)
NoClone(q) == \A r \in 1 .. q : \A k \in CoordinatorRoles \ {"main"} : proc[<<r, k>>] = "none"

(* While main is at work and there has been no clone, the name is there.   *)
Named ==
    \A q \in Runs :
        proc[<<q, "main">>] # "none" /\ ~Ended(<<q, "main">>) /\ NoClone(q) => name # 0

(* A run starts with mq_open, and ends at once if that fails.              *)
LEMMA StartsNamed ==
    ASSUME MqInv, [Next]_vars, NEW r \in Runs,
           proc[<<r, "main">>] = "none", proc'[<<r, "main">>] \notin {"none", "failed"}
    PROVE  name' # 0
  <1> DEFINE m == <<r, "main">>
  <1>t. Typing /\ "main" \in Roles /\ Family(r) /\ m \in Coordinators /\ 0 \notin Runs
    BY MessageQueueAssumption DEF MqInv, Families, Roles, CoordinatorRoles, Coordinators, Runs
  <1>0. proc'[m] = "fork_producer"
    BY <1>t, ProcessSteps, Lasting, ZenonT(40)
  <1>1. ASSUME NEW q \in Runs, Coordinate(q) PROVE name' # 0
    <2>1. CASE OpenQueue(q)
      BY <1>t, <2>1 DEF OpenQueue, Typing
    <2>7. CASE OpenFails(q)
      BY <1>0, <1>t, <2>7 DEF OpenFails, Moves, Typing
    <2>2. ASSUME NEW k \in CoordinatorRoles, Unlink(q, k) PROVE FALSE
      BY <1>0, <1>t, <2>2 DEF Unlink, Typing
    <2>3. CASE ForkProducer(q)
      <3>1. proc'[m] \in {proc[m], "fork_consumer", "failed"}
        BY <1>t, <2>3 DEF ForkProducer, Fork, Typing
      <3>2. QED
        BY <1>0, <3>1
    <2>4. CASE ForkConsumer(q)
      <3>1. proc'[m] \in {proc[m], "wait_producer", "failed"}
        BY <1>t, <2>4 DEF ForkConsumer, Fork, Typing
      <3>2. QED
        BY <1>0, <3>1
    <2>5. ASSUME NEW k \in CoordinatorRoles, WaitProducer(q, k) \/ WaitConsumer(q, k) PROVE FALSE
      <3>1. proc'[m] \in {proc[m], "wait_consumer", "unlink"}
        BY <1>t, <2>5 DEF WaitProducer, WaitConsumer, Moves, Typing
      <3>2. QED
        BY <1>0, <3>1
    <2>6. QED
      BY <1>1, <2>1, <2>2, <2>3, <2>4, <2>5, <2>7 DEF Coordinate, ForkAndWait
  <1>2. ASSUME NEW w \in Workers, Worker(w) \/ Killed(w) \/ Thread(w) PROVE FALSE
    <2>1. w # m
      BY <1>t, Processes
    <2>2. proc' = proc \/ \E s : proc' = [proc EXCEPT ![w] = s]
      BY <1>2 DEF Worker, Construct, Close, Stop, JoinAndExit, Killed, Kill, Thread, Exit, Count,
         EnterKernel, CallFails, Cook, Send, SendTimedOut, CallReceive, Receive, ReceiveTimedOut, ThreadMoves
    <2>3. QED
      BY <1>0, <1>t, <2>1, <2>2 DEF Typing
  <1>3. QED
    BY <1>0, <1>1, <1>2 DEF Next, Finished, vars

(* Only a coordinator at its end removes the name.                         *)
LEMMA NameRemoved ==
    ASSUME MqInv, [Next]_vars, name # 0, name' = 0
    PROVE  \E r \in Runs, k \in CoordinatorRoles :
              proc[<<r, k>>] = "unlink" /\ proc'[<<r, k>>] = "ended"
  <1>t. Typing
    BY DEF MqInv
  <1>1. ASSUME NEW r \in Runs, Coordinate(r)
        PROVE  \E k \in CoordinatorRoles : proc[<<r, k>>] = "unlink" /\ proc'[<<r, k>>] = "ended"
    <2>1. PICK k \in CoordinatorRoles : Unlink(r, k)
      BY <1>1 DEF Coordinate, OpenQueue, OpenFails
    <2>2. <<r, k>> \in Coordinators
      BY DEF Coordinators
    <2>3. QED
      BY <1>t, <2>1, <2>2 DEF Unlink, Typing
  <1>2. ASSUME NEW w \in Workers, Worker(w) \/ Killed(w) \/ Thread(w) PROVE name' = name
    BY <1>2 DEF Worker, Construct, Close, Stop, JoinAndExit, Killed, Thread, Exit, Count,
       EnterKernel, CallFails, Cook, Send, SendTimedOut, CallReceive, Receive, ReceiveTimedOut, ThreadMoves
  <1>3. QED
    BY <1>1, <1>2 DEF Next, Finished, vars

(* Without clones the only coordinator that could remove the name is the   *)
(* one main at work, and it then has ended.                                *)
LEMMA NamedNext == MqInv /\ Named /\ [Next]_vars => Named'
  <1> SUFFICES ASSUME MqInv, Named, [Next]_vars,
                      NEW q \in Runs, proc'[<<q, "main">>] # "none", ~Ended(<<q, "main">>)', NoClone(q)'
               PROVE  name' # 0
    BY DEF Named
  <1>t. Typing /\ Families /\ InTurn /\ Runs \subseteq Nat /\ 0 \notin Runs /\ "main" \in Roles
    BY MessageQueueAssumption DEF MqInv, Runs, Roles, CoordinatorRoles
  <1>l. ASSUME NEW r \in Runs, NEW k \in Roles
        PROVE  /\ proc[<<r, k>>] # "none" => proc'[<<r, k>>] # "none"
               /\ Ended(<<r, k>>) => proc'[<<r, k>>] = proc[<<r, k>>]
    BY <1>t, ProcessSteps, Lasting DEF Families
  <1>1. CASE proc[<<q, "main">>] = "none"
    BY <1>1, StartsNamed DEF Ended
  <1>2. CASE proc[<<q, "main">>] # "none"
    <2>1. ~Ended(<<q, "main">>)
      BY <1>l, <1>t DEF Ended
    <2>2. ASSUME NEW r \in 1 .. q, NEW k \in CoordinatorRoles \ {"main"} PROVE proc[<<r, k>>] = "none"
      <3>1. r \in Runs /\ k \in Roles
        BY MessageQueueAssumption DEF Runs, Roles
      <3>2. QED
        BY <1>l, <3>1 DEF NoClone
    <2>3. name # 0
      BY <1>2, <2>1, <2>2 DEF Named, NoClone
    <2>4. ASSUME NEW r \in Runs, NEW k \in CoordinatorRoles,
                 proc[<<r, k>>] = "unlink", proc'[<<r, k>>] = "ended"
          PROVE  FALSE
      <3>1. proc[<<r, "main">>] # "none"
        <4>1. Family(r)
          BY <1>t DEF Families
        <4>2. QED
          BY <2>4, <4>1 DEF Family, Related, CoordinatorRoles
      <3>2. ~(q < r)
        BY <1>t, <2>1, <3>1 DEF InTurn
      <3>3. r \in 1 .. q
        BY <1>t, <3>2, MessageQueueAssumption DEF Runs
      <3>4. k = "main"
        BY <2>2, <2>4, <3>3
      <3>5. r # q
        BY <2>4, <3>4 DEF Ended
      <3>6. r < q
        <4>1. r \in Nat /\ q \in Nat
          BY <1>t
        <4>2. QED
          BY <3>2, <3>5, <4>1
      <3>7. Ended(<<r, "main">>)
        BY <1>2, <1>t, <3>6 DEF InTurn
      <3>8. QED
        BY <2>4, <3>4, <3>7 DEF Ended
    <2>5. QED
      BY <2>3, <2>4, NameRemoved
  <1>3. QED
    BY <1>1, <1>2

(* The two reasons for which a worker of run q may miss its queue.         *)
MayMiss(q) == ~NoClone(q) \/ proc[<<q, "main">>] = "failed"

(* A worker finds no queue only if a clone took it away or its own         *)
(* coordinator failed.                                                     *)
LEMMA MissesFor ==
    ASSUME MqInv, Named, NEW q \in Runs, NEW k \in WorkerRoles,
           proc[<<q, k>>] = "starting", name = 0
    PROVE  MayMiss(q)
  <1> SUFFICES ASSUME NoClone(q), proc[<<q, "main">>] # "failed" PROVE FALSE
    BY DEF MayMiss
  <1>1. Family(q) /\ q \in 1 .. q
    BY MessageQueueAssumption DEF MqInv, Families, Runs
  <1>2. proc[<<q, "main">>] # "none"
    BY <1>1 DEF Family, Related, WorkerRoles
  <1>3. Ended(<<q, "main">>)
    BY <1>2 DEF Named
  <1>4. ~FailedIn(q)
    BY <1>1 DEF NoClone, FailedIn
  <1>5. QED
    BY <1>1, <1>3, <1>4, RunOver DEF Ended

(* That reason stays: neither a clone nor a failure is undone.             *)
LEMMA MayMissStays ==
    ASSUME MqInv, [Next]_vars, NEW q \in Runs, MayMiss(q)
    PROVE  MayMiss(q)'
  <1>t. Typing /\ Families
    BY DEF MqInv
  <1>l. ASSUME NEW r \in Runs, NEW k \in Roles
        PROVE  /\ proc[<<r, k>>] # "none" => proc'[<<r, k>>] # "none"
               /\ Ended(<<r, k>>) => proc'[<<r, k>>] = proc[<<r, k>>]
    BY <1>t, ProcessSteps, Lasting DEF Families
  <1>1. CASE proc[<<q, "main">>] = "failed"
    BY <1>l, <1>1 DEF MayMiss, Ended, Roles, CoordinatorRoles
  <1>2. ASSUME NEW r \in 1 .. q, NEW k \in CoordinatorRoles \ {"main"}, proc[<<r, k>>] # "none"
        PROVE  MayMiss(q)'
    <2>1. r \in Runs /\ k \in Roles
      BY MessageQueueAssumption DEF Runs, Roles
    <2>2. proc'[<<r, k>>] # "none"
      BY <1>l, <1>2, <2>1
    <2>3. QED
      BY <1>2, <2>2 DEF MayMiss, NoClone
  <1>3. QED
    BY <1>1, <1>2 DEF MayMiss, NoClone

(* A worker's descriptor turns "failed" only in its constructor, and as it *)
(* has the name right, only if the name is gone.                           *)
LEMMA FailsToOpen ==
    ASSUME MqInv, [Next]_vars, WorkerId = Id, NEW w \in Workers, m_mqd'[w] = "failed"
    PROVE  m_mqd[w] = "failed" \/ (proc[w] = "starting" /\ name = 0)
  <1>t. Typing /\ Families
    BY DEF MqInv
  <1>1. ASSUME NEW q \in Runs, Coordinate(q) PROVE m_mqd'[w] = m_mqd[w]
    BY <1>1, <1>t, CoordinatorStarts
  <1>2. ASSUME NEW v \in Workers, v # w, Worker(v) \/ Killed(v) \/ Thread(v) PROVE m_mqd'[w] = m_mqd[w]
    BY <1>2, <1>t, OthersLeftAlone DEF LeavesAlone
  <1>3. ASSUME Construct(w) PROVE proc[w] = "starting" /\ name = 0
    BY <1>3, <1>t DEF Construct, Typing
  <1>4. ASSUME Close(w) PROVE m_mqd[w] = "failed"
    BY <1>4, <1>t DEF Close, Typing
  <1>5. ASSUME JoinAndExit(w) \/ Killed(w) PROVE FALSE
    BY <1>5, <1>t DEF JoinAndExit, Killed, MemoryFreed, Typing
  <1>6. ASSUME Stop(w) \/ Thread(w) PROVE m_mqd'[w] = m_mqd[w]
    BY <1>6 DEF Stop, Thread, Exit, Count, EnterKernel, CallFails, Cook, Send, SendTimedOut,
       CallReceive, Receive, ReceiveTimedOut, ThreadMoves
  <1>7. QED
    BY <1>1, <1>2, <1>3, <1>4, <1>5, <1>6 DEF Next, Finished, vars, Worker

(* A worker that has the name right (WorkerId = Id: atoi undoes itoa, an   *)
(* induction over the digits that TLC checks on the ids of its runs) finds *)
(* its queue (Producer, Consumer: mq_open), unless a failed exec has made  *)
(* a second coordinator that removes the name, or its own coordinator did  *)
(* not wait for it.                                                        *)
THEOREM QueueLostOnlyToClones ==
    ASSUME WorkerId = Id
    PROVE  Spec => []QueueLostOnlyToClone
  <1> DEFINE Lost == \A w \in Workers : m_mqd[w] = "failed" => MayMiss(w[1])
  <1>1. Init => Named /\ Lost
    <2> SUFFICES ASSUME Init PROVE Named /\ Lost
      OBVIOUS
    <2>1. \A q \in Runs : proc[<<q, "main">>] = "none"
      <3>1. \A q \in Runs : <<q, "main">> \in Workers \cup Coordinators
        BY Processes DEF Roles, CoordinatorRoles
      <3>2. QED
        BY <3>1 DEF Init
    <2>2. \A w \in Workers : m_mqd[w] = "none"
      BY DEF Init
    <2>3. QED
      BY <2>1, <2>2 DEF Named
  <1>2. MqInv /\ Named /\ Lost /\ [Next]_vars => Lost'
    <2> SUFFICES ASSUME MqInv, Named, Lost, [Next]_vars, NEW w \in Workers, m_mqd'[w] = "failed"
                 PROVE  MayMiss(w[1])'
      OBVIOUS
    <2>1. PICK q \in Runs, k \in WorkerRoles : w = <<q, k>>
      BY Processes
    <2>2. MayMiss(q)
      BY <2>1, FailsToOpen, MissesFor
    <2>3. MayMiss(q)'
      BY <2>2, MayMissStays
    <2>4. QED
      BY <2>1, <2>3
  <1>3. Lost => QueueLostOnlyToClone
    BY DEF QueueLostOnlyToClone, MayMiss, NoClone
  <1>4. QED
    BY <1>1, <1>2, <1>3, NamedNext, MqInvariant, PTL DEF Spec
=============================================================================
