------------------------ MODULE ProducerConsumerSim ------------------------
(***************************************************************************)
(* The simulation of Chapter12/Sim/ProducerConsumerSim.cpp on one core:    *)
(* main creates the consumers and the producers of the core's queue, lets  *)
(* them run, deletes the producers, waits, deletes the consumers and       *)
(* deletes the queue.  The cores share nothing, so one stands for all.  No *)
(* sleep of main is taken to outlast anything.                             *)
(***************************************************************************)
EXTENDS Workers

VARIABLE main      \* where main is

simvars == <<main, wvars>>

Stages == {"create", "run", "delete_producers", "drain", "delete_consumers", "delete_queue", "done"}

SimInit == WorkersInit /\ main = "create"

(* Objects are numbered as in producer_arr and consumer_arr, and created   *)
(* and deleted in that order.                                              *)
NewConsumer(c) ==
    /\ main = "create"
    /\ \A d \in Consumers : d < c => thread[C(d)] # "none"
    /\ ConstructConsumer(c)
    /\ UNCHANGED main

NewProducer(p) ==
    /\ main = "create"
    /\ \A c \in Consumers : thread[C(c)] # "none"
    /\ \A q \in Producers : q < p => thread[P(q)] # "none"
    /\ ConstructProducer(p)
    /\ UNCHANGED main

DeleteProducer(p) ==
    /\ main = "delete_producers"
    /\ \A q \in Producers : q < p => thread[P(q)] = "joined"
    /\ Stop(P(p)) \/ Join(P(p))
    /\ UNCHANGED main

DeleteConsumer(c) ==
    /\ main = "delete_consumers"
    /\ \A d \in Consumers : d < c => thread[C(d)] = "joined"
    /\ Stop(C(c)) \/ Join(C(c))
    /\ UNCHANGED main

MainMoves(from, to) ==
    /\ main = from
    /\ main' = to
    /\ UNCHANGED wvars

(* Mutants of ProducersDeleted and ConsumersDeleted: main does not wait    *)
(* for the threads.                                                        *)
ProducersDeletedUnjoined ==
    (\A p \in Producers : ~m_run[P(p)]) /\ MainMoves("delete_producers", "drain")
ConsumersDeletedUnjoined ==
    (\A c \in Consumers : ~m_run[C(c)]) /\ MainMoves("delete_consumers", "delete_queue")

StartRun == (\A t \in Threads : thread[t] # "none") /\ MainMoves("create", "run")
RunOver == MainMoves("run", "delete_producers")
ProducersDeleted == AllJoined(ProducerThreads) /\ MainMoves("delete_producers", "drain")
DrainOver == MainMoves("drain", "delete_consumers")
ConsumersDeleted == AllJoined(ConsumerThreads) /\ MainMoves("delete_consumers", "delete_queue")
DeleteQueue == MainMoves("delete_queue", "done")

Main ==
    \/ \E c \in Consumers : NewConsumer(c) \/ DeleteConsumer(c)
    \/ \E p \in Producers : NewProducer(p) \/ DeleteProducer(p)
    \/ StartRun \/ RunOver \/ ProducersDeleted \/ DrainOver \/ ConsumersDeleted \/ DeleteQueue

Finished == main = "done" /\ UNCHANGED simvars

SimNext ==
    \/ Main
    \/ \E p \in Producers : ProducerThread(p) /\ UNCHANGED main
    \/ \E c \in Consumers : ConsumerThread(c) /\ UNCHANGED main
    \/ Finished

SimSpec == SimInit /\ [][SimNext]_simvars

(* Threads and main get to run; a sleep and a timed wait end; a thread     *)
(* waiting for m_lock is woken by its sem_post, and gets it if it is free  *)
(* over and over.                                                          *)
SimFairness ==
    /\ WF_simvars(Main)
    /\ \A p \in Producers :
          /\ WF_simvars(ProducerThread(p) /\ UNCHANGED main)
          /\ SF_simvars(Pushing(p) /\ PushLock(p) /\ UNCHANGED main)
    /\ \A c \in Consumers :
          /\ WF_simvars(ConsumerThread(c) /\ UNCHANGED main)
          /\ SF_simvars(Popping(c) /\ PopLock(c) /\ UNCHANGED main)

SimFairSpec == SimSpec /\ SimFairness

-----------------------------------------------------------------------------
(* Properties.                                                             *)

(* main and everything it starts have their types.                         *)
SimTypeOK == WorkersTypeOK /\ main \in Stages

(* The queue and the producers outlive their users: an object is freed     *)
(* (its thread joined) or the queue deleted only when its thread, or every *)
(* thread, has left push or pop, with m_lock free at the end               *)
(* (~ScheduledObject and the end of main).                                 *)
NoUseAfterDelete ==
    /\ \A p \in Producers : thread[P(p)] = "joined" => ppc[p] = "idle"
    /\ \A c \in Consumers : thread[C(c)] = "joined" => cpc[c] = "idle"
    /\ main \in {"delete_queue", "done"} => AllJoined(Threads) /\ m_lock = 1

(* What ~Queue reports is exact: every counted push has stored its item,   *)
(* every counted pop has handed one out, the rest is still published, and  *)
(* every token is back in a semaphore.                                     *)
ReportIsExact ==
    main \in {"delete_queue", "done"} =>
        /\ m_pushed_count = Len(sent) /\ m_popped_count = Len(received)
        /\ m_pop_sem = Len(sent) - Len(received)
        /\ m_push_sem + m_pop_sem = Size

(* Once the producers are deleted nothing is pushed any more: during the   *)
(* drain the queue only empties.                                           *)
NothingPushedAfterProducers ==
    [][main \notin {"create", "run", "delete_producers"} =>
          UNCHANGED <<m_pushed_count, sent, m_arr>> /\ m_cur_count' <= m_cur_count]_simvars

(* The simulation ends: no delete waits for ever for a thread, whatever is *)
(* in the queue when it is told to stop.                                   *)
Terminates == <>(main = "done")
=============================================================================
