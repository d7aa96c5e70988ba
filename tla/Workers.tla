------------------------------ MODULE Workers ------------------------------
(***************************************************************************)
(* The producers and consumers of a Queue: each is a ScheduledObject       *)
(* (Chapter12/Schedule) with a thread that sleeps, then calls work() for   *)
(* as long as m_run is true.  Producer::work pushes m_saved_work_item,     *)
(* cooking a new item only when the last one went in; Consumer::work pops. *)
(* ~ScheduledObject clears m_run and joins the thread.  (The same classes  *)
(* are used over shared memory in Chapter14/SharedMemory.)                 *)
(*                                                                         *)
(* The thread is created by the base class constructor, and sleep(2) is    *)
(* taken to outlast the rest of the construction.  A call of the base      *)
(* class's work() while the object is being destroyed only prints.         *)
(***************************************************************************)
EXTENDS Queue

CONSTANT
    IdStride     \* ITEM_STARTING_ID_EACH_PRODUCER

(* Items are the item ids that fit the bound: a producer out of them no    *)
(* longer gets scheduled until it is told to stop.                         *)
ASSUME WorkersAssumption ==
    /\ Producers \subseteq Nat /\ Consumers \subseteq Nat /\ Items \subseteq Nat
    /\ IdStride \in Nat

VARIABLES
    thread,                   \* what became of each ScheduledObject and its thread
    m_run,                    \* ScheduledObject::m_run
    m_next_item_id,           \* Producer::m_next_item_id
    m_valid_saved_work_item   \* m_saved_work_item itself is arg, push's argument

wvars == <<thread, m_run, m_next_item_id, m_valid_saved_work_item, vars>>

P(p) == <<"producer", p>>
C(c) == <<"consumer", c>>

ProducerThreads == {P(p) : p \in Producers}
ConsumerThreads == {C(c) : c \in Consumers}
Threads == ProducerThreads \cup ConsumerThreads

WorkersInit ==
    /\ Init
    /\ thread = [t \in Threads |-> "none"]
    /\ m_run = [t \in Threads |-> FALSE]
    /\ m_next_item_id = [p \in Producers |-> 0]
    /\ m_valid_saved_work_item = [p \in Producers |-> FALSE]

-----------------------------------------------------------------------------
(* Construction and destruction, by the owner of the object.               *)

StartThread(t) ==
    /\ thread[t] = "none"
    /\ thread' = [thread EXCEPT ![t] = "sleeping"]
    /\ m_run' = [m_run EXCEPT ![t] = TRUE]

ConstructConsumer(c) ==
    /\ StartThread(C(c))
    /\ UNCHANGED <<m_next_item_id, m_valid_saved_work_item, vars>>

ConstructProducer(p) ==
    /\ StartThread(P(p))
    /\ m_next_item_id' = [m_next_item_id EXCEPT ![p] = IdStride * p]
    /\ m_valid_saved_work_item' = [m_valid_saved_work_item EXCEPT ![p] = FALSE]
    /\ UNCHANGED vars

Stop(t) ==
    /\ m_run[t]
    /\ m_run' = [m_run EXCEPT ![t] = FALSE]
    /\ UNCHANGED <<thread, m_next_item_id, m_valid_saved_work_item, vars>>

(* Mutant of Join: the object is freed without waiting for its thread.     *)
JoinNoWait(t) ==
    /\ ~m_run[t]
    /\ thread[t] # "joined"
    /\ thread' = [thread EXCEPT ![t] = "joined"]
    /\ UNCHANGED <<m_run, m_next_item_id, m_valid_saved_work_item, vars>>

Join(t) ==
    /\ ~m_run[t]
    /\ thread[t] = "exited"
    /\ thread' = [thread EXCEPT ![t] = "joined"]
    /\ UNCHANGED <<m_run, m_next_item_id, m_valid_saved_work_item, vars>>

AllJoined(T) == \A t \in T : thread[t] = "joined"

-----------------------------------------------------------------------------
(* The thread of a ScheduledObject.                                        *)

Wake(t) ==
    /\ thread[t] = "sleeping"
    /\ thread' = [thread EXCEPT ![t] = "looping"]
    /\ UNCHANGED <<m_run, m_next_item_id, m_valid_saved_work_item, vars>>

Exit(t) ==
    /\ thread[t] = "looping"
    /\ ~m_run[t]
    /\ thread' = [thread EXCEPT ![t] = "exited"]
    /\ UNCHANGED <<m_run, m_next_item_id, m_valid_saved_work_item, vars>>

(* Producer::work up to the call of push: cook an item unless the last one *)
(* is still there to be pushed again.                                      *)
Produce(p) ==
    /\ thread[P(p)] = "looping" /\ m_run[P(p)]
    /\ \/ /\ m_valid_saved_work_item[p]
          /\ PushCall(p, arg[p])
          /\ UNCHANGED <<m_next_item_id, m_valid_saved_work_item>>
       \/ /\ ~m_valid_saved_work_item[p]
          /\ m_next_item_id[p] \in Items
          /\ PushCall(p, m_next_item_id[p])
          /\ m_next_item_id' = [m_next_item_id EXCEPT ![p] = @ + 1]
          /\ m_valid_saved_work_item' = [m_valid_saved_work_item EXCEPT ![p] = TRUE]
    /\ UNCHANGED <<thread, m_run>>

(* push, and what Producer::work makes of its result.                      *)
Pushing(p) ==
    /\ \/ PushClaim(p) \/ PushLock(p) \/ PushUnlock(p) \/ PushCopy(p) \/ PushTimedOut(p)
    /\ UNCHANGED <<thread, m_run, m_next_item_id, m_valid_saved_work_item>>

(* Mutant of Pushed: the pushed item stays the saved one.                  *)
PushedKeepsItem(p) ==
    /\ PushPost(p)
    /\ UNCHANGED <<thread, m_run, m_next_item_id, m_valid_saved_work_item>>

Pushed(p) ==
    /\ PushPost(p)
    /\ m_valid_saved_work_item' = [m_valid_saved_work_item EXCEPT ![p] = FALSE]
    /\ UNCHANGED <<thread, m_run, m_next_item_id>>

(* Consumer::work.                                                         *)
Consume(c) ==
    /\ thread[C(c)] = "looping" /\ m_run[C(c)]
    /\ PopCall(c)
    /\ UNCHANGED <<thread, m_run, m_next_item_id, m_valid_saved_work_item>>

Popping(c) ==
    /\ PopStep(c)
    /\ UNCHANGED <<thread, m_run, m_next_item_id, m_valid_saved_work_item>>

(* A thread leaves the loop only between two calls of work.                *)
ProducerThread(p) ==
    Wake(P(p)) \/ (ppc[p] = "idle" /\ Exit(P(p))) \/ Produce(p) \/ Pushing(p) \/ Pushed(p)

ConsumerThread(c) ==
    Wake(C(c)) \/ (cpc[c] = "idle" /\ Exit(C(c))) \/ Consume(c) \/ Popping(c)

WorkersNext ==
    \/ \E p \in Producers : ConstructProducer(p) \/ Stop(P(p)) \/ Join(P(p)) \/ ProducerThread(p)
    \/ \E c \in Consumers : ConstructConsumer(c) \/ Stop(C(c)) \/ Join(C(c)) \/ ConsumerThread(c)

WorkersSpec == WorkersInit /\ [][WorkersNext]_wvars

-----------------------------------------------------------------------------
(* Properties.                                                             *)

(* The threads and the producers' own state have their types.              *)
WorkersTypeOK ==
    /\ TypeOK
    /\ thread \in [Threads -> {"none", "sleeping", "looping", "exited", "joined"}]
    /\ m_run \in [Threads -> BOOLEAN]
    /\ m_next_item_id \in [Producers -> Nat]
    /\ m_valid_saved_work_item \in [Producers -> BOOLEAN]

(* The items of a producer go into the queue in the order of their ids,    *)
(* none skipped and none twice, whatever push timed out in between; only   *)
(* the last one cooked may still be in m_saved_work_item                   *)
(* (Producer::work).                                                       *)
EachItemOnce ==
    \A p \in Producers : thread[P(p)] # "none" =>
        LET mine   == {k \in DOMAIN sent : sent[k] \in IdStride * p .. IdStride * (p + 1) - 1}
            stored == IF m_valid_saved_work_item[p] /\ ppc[p] # "post"
                      THEN m_next_item_id[p] - 1 ELSE m_next_item_id[p]
        IN  /\ {sent[k] : k \in mine} = IdStride * p .. stored - 1
            /\ \A k, l \in mine : k < l => sent[k] < sent[l]
=============================================================================
