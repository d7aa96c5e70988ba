------------------------------- MODULE Queue -------------------------------
(***************************************************************************)
(* The bounded queue of Chapter12/Queue/Queue.h: a ring m_arr of Size      *)
(* slots, a binary semaphore m_lock, and two counting semaphores:          *)
(* m_push_sem counts the free slots a push may claim, m_pop_sem the        *)
(* published items a pop may claim.  (Chapter14/SharedMemory/Queue/Queue.h *)
(* has the same push and pop over shared memory.)                          *)
(*                                                                         *)
(* push and pop claim a token (sem_timedwait, which may time out), then,   *)
(* under m_lock, work out their slot and update the counters.  The item    *)
(* itself is copied into or out of the slot AFTER m_lock is released, and  *)
(* the other semaphore is posted last.  Each thread runs one call at a     *)
(* time; ppc and cpc say where it is in the call:                          *)
(*                                                                         *)
(*   idle -> timedwait -> lock -> crit -> copy -> post -> idle             *)
(*                                                                         *)
(* sem_wait(&m_lock) is merged with the reads that follow it and           *)
(* sem_post(&m_lock) with the writes that precede it: no other thread gets *)
(* to see what lies between.  A process killed between them is another     *)
(* matter, and the business of SharedMemSim.                               *)
(***************************************************************************)
EXTENDS Integers, Sequences, FiniteSets

CONSTANTS
    Producers,   \* the threads that call push
    Consumers,   \* the threads that call pop
    Size,        \* m_size, the number of slots
    Items,       \* the work items
    Garbage      \* what a slot nobody stored to holds, and a torn copy

ASSUME QueueAssumption ==
    /\ IsFiniteSet(Producers)
    /\ IsFiniteSet(Consumers)
    /\ Size \in Nat \ {0}
    /\ Garbage \notin Items

VARIABLES
    m_arr, m_front, m_cur_count, m_pushed_count, m_popped_count,
    m_lock, m_pop_sem, m_push_sem,
    ppc,         \* where each producer is in push
    pslot,       \* push's local variable slot
    pcount,      \* the m_cur_count a push has loaded
    arg,         \* push's parameter t
    cpc,         \* where each consumer is in pop
    cslot,       \* pop's local variable slot
    ccount,      \* the m_cur_count a pop has loaded
    sent,        \* history: the items copied into a slot, in that order
    received     \* history: the values copied out of a slot, in that order

shared == <<m_front, m_cur_count, m_pushed_count, m_popped_count>>
sems   == <<m_lock, m_pop_sem, m_push_sem>>
pvars  == <<ppc, pslot, pcount, arg>>
cvars  == <<cpc, cslot, ccount>>
vars   == <<m_arr, shared, sems, pvars, cvars, sent, received>>

Slots == 0 .. Size - 1

PC == {"idle", "timedwait", "lock", "crit", "copy", "post"}

-----------------------------------------------------------------------------
(* Mutant of Init: m_push_sem starts one too high.                         *)
InitOneTooMany ==
    /\ m_arr = [s \in Slots |-> Garbage]
    /\ m_front = 0 /\ m_cur_count = 0
    /\ m_pushed_count = 0 /\ m_popped_count = 0
    /\ m_lock = 1 /\ m_push_sem = Size + 1 /\ m_pop_sem = 0
    /\ ppc = [p \in Producers |-> "idle"]
    /\ pslot = [p \in Producers |-> 0]
    /\ pcount = [p \in Producers |-> 0]
    /\ arg = [p \in Producers |-> Garbage]
    /\ cpc = [c \in Consumers |-> "idle"]
    /\ cslot = [c \in Consumers |-> 0]
    /\ ccount = [c \in Consumers |-> 0]
    /\ sent = << >> /\ received = << >>

Init ==
    /\ m_arr = [s \in Slots |-> Garbage]
    /\ m_front = 0 /\ m_cur_count = 0
    /\ m_pushed_count = 0 /\ m_popped_count = 0
    /\ m_lock = 1 /\ m_push_sem = Size /\ m_pop_sem = 0
    /\ ppc = [p \in Producers |-> "idle"]
    /\ pslot = [p \in Producers |-> 0]
    /\ pcount = [p \in Producers |-> 0]
    /\ arg = [p \in Producers |-> Garbage]
    /\ cpc = [c \in Consumers |-> "idle"]
    /\ cslot = [c \in Consumers |-> 0]
    /\ ccount = [c \in Consumers |-> 0]
    /\ sent = << >> /\ received = << >>

-----------------------------------------------------------------------------
(* bool push(const T &t)                                                   *)

PushCall(p, t) ==
    /\ ppc[p] = "idle"
    /\ ppc' = [ppc EXCEPT ![p] = "timedwait"]
    /\ arg' = [arg EXCEPT ![p] = t]
    /\ UNCHANGED <<m_arr, shared, sems, pslot, pcount, cvars, sent, received>>

(* Mutant of PushTimedOut: the result of sem_timedwait is not looked at.   *)
PushTimedOutIgnored(p) ==
    /\ ppc[p] = "timedwait"
    /\ m_push_sem = 0
    /\ ppc' = [ppc EXCEPT ![p] = "lock"]
    /\ UNCHANGED <<m_arr, shared, sems, pslot, pcount, arg, cvars, sent, received>>

(* sem_timedwait fails only when no token came within WAIT_TIME; push      *)
(* returns false and the queue is as it was.                               *)
PushTimedOut(p) ==
    /\ ppc[p] = "timedwait"
    /\ m_push_sem = 0
    /\ ppc' = [ppc EXCEPT ![p] = "idle"]
    /\ UNCHANGED <<m_arr, shared, sems, pslot, pcount, arg, cvars, sent, received>>

(* Mutant of PushClaim: a slot more than there are may be claimed.         *)
PushClaimOffByOne(p) ==
    /\ ppc[p] = "timedwait"
    /\ m_push_sem >= 0
    /\ m_push_sem' = m_push_sem - 1
    /\ ppc' = [ppc EXCEPT ![p] = "lock"]
    /\ UNCHANGED <<m_arr, shared, m_lock, m_pop_sem, pslot, pcount, arg, cvars, sent, received>>

PushClaim(p) ==
    /\ ppc[p] = "timedwait"
    /\ m_push_sem > 0
    /\ m_push_sem' = m_push_sem - 1
    /\ ppc' = [ppc EXCEPT ![p] = "lock"]
    /\ UNCHANGED <<m_arr, shared, m_lock, m_pop_sem, pslot, pcount, arg, cvars, sent, received>>

(* Mutant of PushLock: push does not wait for m_lock.                      *)
PushLockNoWait(p) ==
    /\ ppc[p] = "lock"
    /\ pslot' = [pslot EXCEPT ![p] = (m_front + m_cur_count) % Size]
    /\ pcount' = [pcount EXCEPT ![p] = m_cur_count]
    /\ ppc' = [ppc EXCEPT ![p] = "crit"]
    /\ UNCHANGED <<m_arr, shared, sems, arg, cvars, sent, received>>

PushLock(p) ==
    /\ ppc[p] = "lock"
    /\ m_lock > 0
    /\ m_lock' = m_lock - 1
    /\ pslot' = [pslot EXCEPT ![p] = (m_front + m_cur_count) % Size]
    /\ pcount' = [pcount EXCEPT ![p] = m_cur_count]
    /\ ppc' = [ppc EXCEPT ![p] = "crit"]
    /\ UNCHANGED <<m_arr, shared, m_pop_sem, m_push_sem, arg, cvars, sent, received>>

PushUnlock(p) ==
    /\ ppc[p] = "crit"
    /\ m_cur_count' = pcount[p] + 1
    /\ m_pushed_count' = m_pushed_count + 1
    /\ m_lock' = m_lock + 1
    /\ ppc' = [ppc EXCEPT ![p] = "copy"]
    /\ UNCHANGED <<m_arr, m_front, m_popped_count, m_pop_sem, m_push_sem, pslot,
                   pcount, arg, cvars, sent, received>>

(* m_arr[slot] = t is many stores.  If another push is storing into the    *)
(* same slot the two may mix, and the slot may end up with neither item.   *)
PushCopy(p) ==
    /\ ppc[p] = "copy"
    /\ \E v \in {arg[p], Garbage} :
          /\ v # arg[p] => \E q \in Producers \ {p} : ppc[q] = "copy" /\ pslot[q] = pslot[p]
          /\ m_arr' = [m_arr EXCEPT ![pslot[p]] = v]
    /\ sent' = Append(sent, arg[p])
    /\ ppc' = [ppc EXCEPT ![p] = "post"]
    /\ UNCHANGED <<shared, sems, pslot, pcount, arg, cvars, received>>

(* Mutant of PushPost: the stored item is not published.                   *)
PushPostForgotten(p) ==
    /\ ppc[p] = "post"
    /\ ppc' = [ppc EXCEPT ![p] = "idle"]
    /\ UNCHANGED <<m_arr, shared, sems, pslot, pcount, arg, cvars, sent, received>>

PushPost(p) ==
    /\ ppc[p] = "post"
    /\ m_pop_sem' = m_pop_sem + 1
    /\ ppc' = [ppc EXCEPT ![p] = "idle"]
    /\ UNCHANGED <<m_arr, shared, m_lock, m_push_sem, pslot, pcount, arg, cvars, sent, received>>

-----------------------------------------------------------------------------
(* bool pop(T& target)                                                     *)

PopCall(c) ==
    /\ cpc[c] = "idle"
    /\ cpc' = [cpc EXCEPT ![c] = "timedwait"]
    /\ UNCHANGED <<m_arr, shared, sems, pvars, cslot, ccount, sent, received>>

(* Mutants of PopTimedOut: the result of sem_timedwait is not looked at,   *)
(* and sem_wait in its place.                                              *)
PopTimedOutIgnored(c) ==
    /\ cpc[c] = "timedwait"
    /\ m_pop_sem = 0
    /\ cpc' = [cpc EXCEPT ![c] = "lock"]
    /\ UNCHANGED <<m_arr, shared, sems, pvars, cslot, ccount, sent, received>>

PopTimedOutNever(c) == FALSE

PopTimedOut(c) ==
    /\ cpc[c] = "timedwait"
    /\ m_pop_sem = 0
    /\ cpc' = [cpc EXCEPT ![c] = "idle"]
    /\ UNCHANGED <<m_arr, shared, sems, pvars, cslot, ccount, sent, received>>

PopClaim(c) ==
    /\ cpc[c] = "timedwait"
    /\ m_pop_sem > 0
    /\ m_pop_sem' = m_pop_sem - 1
    /\ cpc' = [cpc EXCEPT ![c] = "lock"]
    /\ UNCHANGED <<m_arr, shared, m_lock, m_push_sem, pvars, cslot, ccount, sent, received>>

PopLock(c) ==
    /\ cpc[c] = "lock"
    /\ m_lock > 0
    /\ m_lock' = m_lock - 1
    /\ cslot' = [cslot EXCEPT ![c] = m_front]
    /\ ccount' = [ccount EXCEPT ![c] = m_cur_count]
    /\ cpc' = [cpc EXCEPT ![c] = "crit"]
    /\ UNCHANGED <<m_arr, shared, m_pop_sem, m_push_sem, pvars, sent, received>>

(* Mutants of PopUnlock: m_front does not wrap around, does not advance,   *)
(* and m_cur_count is not decremented.                                     *)
PopUnlockNoWrap(c) ==
    /\ cpc[c] = "crit"
    /\ m_front' = cslot[c] + 1
    /\ m_cur_count' = ccount[c] - 1
    /\ m_popped_count' = m_popped_count + 1
    /\ m_lock' = m_lock + 1
    /\ cpc' = [cpc EXCEPT ![c] = "copy"]
    /\ UNCHANGED <<m_arr, m_pushed_count, m_pop_sem, m_push_sem, pvars, cslot, ccount,
                   sent, received>>

PopUnlockFrontStuck(c) ==
    /\ cpc[c] = "crit"
    /\ m_cur_count' = ccount[c] - 1
    /\ m_popped_count' = m_popped_count + 1
    /\ m_lock' = m_lock + 1
    /\ cpc' = [cpc EXCEPT ![c] = "copy"]
    /\ UNCHANGED <<m_arr, m_front, m_pushed_count, m_pop_sem, m_push_sem, pvars, cslot,
                   ccount, sent, received>>

PopUnlockNotCounted(c) ==
    /\ cpc[c] = "crit"
    /\ m_front' = (cslot[c] + 1) % Size
    /\ m_popped_count' = m_popped_count + 1
    /\ m_lock' = m_lock + 1
    /\ cpc' = [cpc EXCEPT ![c] = "copy"]
    /\ UNCHANGED <<m_arr, m_cur_count, m_pushed_count, m_pop_sem, m_push_sem, pvars, cslot,
                   ccount, sent, received>>

PopUnlock(c) ==
    /\ cpc[c] = "crit"
    /\ m_front' = (cslot[c] + 1) % Size
    /\ m_cur_count' = ccount[c] - 1
    /\ m_popped_count' = m_popped_count + 1
    /\ m_lock' = m_lock + 1
    /\ cpc' = [cpc EXCEPT ![c] = "copy"]
    /\ UNCHANGED <<m_arr, m_pushed_count, m_pop_sem, m_push_sem, pvars, cslot, ccount,
                   sent, received>>

(* target = m_arr[slot] read while a push stores into the slot may return  *)
(* a mixture of the old and the new item.                                  *)
PopCopy(c) ==
    /\ cpc[c] = "copy"
    /\ \E v \in {m_arr[cslot[c]], Garbage} :
          /\ v # m_arr[cslot[c]] => \E p \in Producers : ppc[p] = "copy" /\ pslot[p] = cslot[c]
          /\ received' = Append(received, v)
    /\ cpc' = [cpc EXCEPT ![c] = "post"]
    /\ UNCHANGED <<m_arr, shared, sems, pvars, cslot, ccount, sent>>

PopPost(c) ==
    /\ cpc[c] = "post"
    /\ m_push_sem' = m_push_sem + 1
    /\ cpc' = [cpc EXCEPT ![c] = "idle"]
    /\ UNCHANGED <<m_arr, shared, m_lock, m_pop_sem, pvars, cslot, ccount, sent, received>>

-----------------------------------------------------------------------------
(* The steps of a call once it is made.                                    *)
PushStep(p) ==
    PushTimedOut(p) \/ PushClaim(p) \/ PushLock(p) \/ PushUnlock(p) \/ PushCopy(p) \/ PushPost(p)

PopStep(c) ==
    PopTimedOut(c) \/ PopClaim(c) \/ PopLock(c) \/ PopUnlock(c) \/ PopCopy(c) \/ PopPost(c)

Next ==
    \/ \E p \in Producers : (\E t \in Items : PushCall(p, t)) \/ PushStep(p)
    \/ \E c \in Consumers : PopCall(c) \/ PopStep(c)

Spec == Init /\ [][Next]_vars

(* Fairness.  A thread that can take a step of its call takes it (the      *)
(* timed waits end one way or the other within WAIT_TIME), a consumer      *)
(* thread loops on pop (ScheduledObject::run), and a thread waiting for    *)
(* m_lock gets it if it is released over and over: waiters sleep on a      *)
(* futex that each sem_post wakes, so this is SF and not WF.               *)
Fairness ==
    /\ \A p \in Producers : WF_vars(PushStep(p)) /\ SF_vars(PushLock(p))
    /\ \A c \in Consumers : WF_vars(PopCall(c) \/ PopStep(c)) /\ SF_vars(PopLock(c))

-----------------------------------------------------------------------------
(* Properties.                                                             *)

Among(pc, S) == {t \in DOMAIN pc : pc[t] \in S}

(* The calls that hold m_lock; the calls that hold a token; and those that *)
(* hold one after (push) or before (pop) they update m_cur_count.          *)
PushersInside  == Cardinality(Among(ppc, {"crit"}))
PoppersInside  == Cardinality(Among(cpc, {"crit"}))
PushersHolding == Cardinality(Among(ppc, {"lock", "crit", "copy", "post"}))
PoppersHolding == Cardinality(Among(cpc, {"lock", "crit", "copy", "post"}))
PushersCounted == Cardinality(Among(ppc, {"copy", "post"}))
PoppersCounted == Cardinality(Among(cpc, {"lock", "crit"}))

(* Every variable of the queue and of the calls in progress has its type;  *)
(* in particular no semaphore ever goes below zero (push and pop, all      *)
(* steps).                                                                 *)
TypeOK ==
    /\ m_arr \in [Slots -> Items \cup {Garbage}]
    /\ m_front \in Slots
    /\ m_cur_count \in Int /\ m_pushed_count \in Nat /\ m_popped_count \in Nat
    /\ m_lock \in Nat /\ m_pop_sem \in Nat /\ m_push_sem \in Nat
    /\ ppc \in [Producers -> PC] /\ cpc \in [Consumers -> PC]
    /\ pslot \in [Producers -> Slots] /\ cslot \in [Consumers -> Slots]
    /\ pcount \in [Producers -> Int] /\ ccount \in [Consumers -> Int]
    /\ arg \in [Producers -> Items \cup {Garbage}]
    /\ sent \in Seq(Items \cup {Garbage}) /\ received \in Seq(Items \cup {Garbage})

(* m_lock serialises the counter updates of push and pop: it is held by    *)
(* exactly the one thread that is between sem_wait and sem_post, and what  *)
(* that thread loaded from the counters is still what they hold when it    *)
(* stores, so that no update is lost.                                      *)
MutualExclusion ==
    /\ m_lock + PushersInside + PoppersInside = 1
    /\ \A p \in Producers : ppc[p] = "crit" => pcount[p] = m_cur_count
    /\ \A c \in Consumers : cpc[c] = "crit" => ccount[c] = m_cur_count /\ cslot[c] = m_front

(* Tokens are conserved: a slot is free (m_push_sem), published            *)
(* (m_pop_sem) or in the hands of one call of push or pop; no timeout,     *)
(* return or interleaving loses or invents one.                            *)
TokenConservation ==
    m_push_sem + m_pop_sem + PushersHolding + PoppersHolding = Size

(* m_cur_count never leaves 0..m_size and is what the report of ~Queue     *)
(* says remains, pushed minus popped; and m_front stays at the slot of the *)
(* next item to pop, however push and pop interleave.                      *)
CountersAgree ==
    /\ m_cur_count \in 0 .. Size
    /\ m_cur_count = m_pushed_count - m_popped_count
    /\ m_front = m_popped_count % Size

(* The accounting behind CountersAgree: an item counted by m_cur_count is  *)
(* published, being stored by a push that has counted it, or claimed by a  *)
(* pop that has not uncounted it yet.                                      *)
CountIsTokens ==
    m_cur_count = m_pop_sem + PushersCounted + PoppersCounted

(* No slot of m_arr is being stored to by one thread while another thread  *)
(* stores to it or reads it (the copies outside m_lock in push and pop).   *)
NoSlotRace ==
    \A p \in Producers : ppc[p] = "copy" =>
        /\ \A q \in Producers \ {p} : ppc[q] = "copy" => pslot[q] # pslot[p]
        /\ \A c \in Consumers : cpc[c] = "copy" => cslot[c] # pslot[p]

(* First in, first out, nothing lost, repeated or torn: what pop has       *)
(* handed out is what push has stored, in the same order.                  *)
FifoOrder ==
    /\ Len(received) <= Len(sent)
    /\ \A i \in 1 .. Len(received) : received[i] = sent[i]

(* Every value pop hands out was stored by a push, and is handed out no    *)
(* more often than it was stored.                                          *)
PoppedWerePushed ==
    \A v \in Items \cup {Garbage} :
        Cardinality({i \in DOMAIN received : received[i] = v})
            <= Cardinality({i \in DOMAIN sent : sent[i] = v})

(* The queue as its users see it: stored and not yet handed out.           *)
InQueue == SubSeq(sent, Len(received) + 1, Len(sent))

Abstract == INSTANCE FifoQueue WITH contents <- InQueue, delivered <- received

(* One producer and one consumer: push and pop implement a bounded FIFO    *)
(* queue, push taking effect when the item is copied into its slot and pop *)
(* when it is copied out.                                                  *)
ImplementsFifo == Abstract!FifoSpec
=============================================================================
