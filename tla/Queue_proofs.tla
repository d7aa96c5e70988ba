---------------------------- MODULE Queue_proofs ----------------------------
(***************************************************************************)
(* Proofs about Queue, for every number of slots, producers and consumers. *)
(*                                                                         *)
(* The counters of the queue are right because of three facts that only    *)
(* hold together: the lock is held by one thread, tokens are conserved,    *)
(* and m_cur_count is the number of tokens of certain kinds.               *)
(***************************************************************************)
EXTENDS Queue, FiniteSetTheorems, TLAPS

-----------------------------------------------------------------------------
(* Counting the threads that are in one of the stages S.                   *)

(* The number of threads in S is a natural number, zero when nobody is     *)
(* there, and at most one only if two threads there are the same.          *)
LEMMA AmongCount ==
    ASSUME NEW T, IsFiniteSet(T), NEW pc \in [T -> PC], NEW S
    PROVE  /\ IsFiniteSet(Among(pc, S))
           /\ Cardinality(Among(pc, S)) \in Nat
           /\ Cardinality(Among(pc, S)) = 0 => \A t \in T : pc[t] \notin S
           /\ Cardinality(Among(pc, S)) <= 1 =>
                 \A t, u \in T : pc[t] \in S /\ pc[u] \in S => t = u
  <1> DEFINE A == Among(pc, S)
  <1>1. A \in SUBSET T /\ \A t \in T : t \in A <=> pc[t] \in S
    BY DEF Among
  <1> HIDE DEF A
  <1>2. IsFiniteSet(A) /\ Cardinality(A) \in Nat
    BY <1>1, FS_Subset, FS_CardinalityType
  <1>3. Cardinality(A) = 0 => A = {}
    BY <1>2, FS_EmptySet
  <1>4. Cardinality(A) = 1 => \E x : A = {x}
    BY <1>2, FS_Singleton
  <1>5. Cardinality(A) <= 1 => Cardinality(A) = 0 \/ Cardinality(A) = 1
    BY <1>2
  <1>6. Cardinality(A) <= 1 => \A t, u \in T : t \in A /\ u \in A => t = u
    BY <1>3, <1>4, <1>5, Zenon
  <1>7. QED
    BY <1>1, <1>2, <1>3, <1>6 DEF A

(* More stages, at least as many threads.                                  *)
LEMMA AmongMonotone ==
    ASSUME NEW T, IsFiniteSet(T), NEW pc \in [T -> PC], NEW R, NEW S, R \subseteq S
    PROVE  Cardinality(Among(pc, R)) <= Cardinality(Among(pc, S))
  <1>1. IsFiniteSet(Among(pc, S))
    BY AmongCount
  <1>2. Among(pc, R) \in SUBSET Among(pc, S)
    BY DEF Among
  <1>3. QED
    BY <1>1, <1>2, FS_Subset

-----------------------------------------------------------------------------
(* Arithmetic of the ring.                                                 *)

(* Division with remainder.                                                *)
LEMMA DivMod ==
    ASSUME NEW n \in Nat, NEW s \in Nat \ {0}
    PROVE  /\ n \div s \in Nat
           /\ n % s \in 0 .. s - 1
           /\ n = s * (n \div s) + (n % s)
  BY Z3

(* Stepping an index round the ring steps the counter it stands for.       *)
LEMMA ModSucc ==
    ASSUME NEW n \in Nat, NEW s \in Nat \ {0}
    PROVE  ((n % s) + 1) % s = (n + 1) % s
  <1> DEFINE q == n \div s
             r == n % s
  <1>1. q \in Nat /\ r \in 0 .. s - 1 /\ n = s * q + r
    BY DivMod
  <1> HIDE DEF q, r
  <1>2. CASE r + 1 < s
    BY <1>1, <1>2, Z3
  <1>3. CASE r + 1 = s
    BY <1>1, <1>3, Z3
  <1>4. QED
    BY <1>1, <1>2, <1>3

-----------------------------------------------------------------------------
(* The type invariant.                                                     *)

(* Every step of push and pop keeps every variable in its type.            *)
LEMMA TypeInductive == TypeOK /\ [Next]_vars => TypeOK'
  <1> USE QueueAssumption DEF TypeOK, Slots, PC
  <1> SUFFICES ASSUME TypeOK, [Next]_vars PROVE TypeOK'
    OBVIOUS
  <1>1. ASSUME NEW p \in Producers, NEW t \in Items, PushCall(p, t) PROVE TypeOK'
    BY <1>1 DEF PushCall, shared, sems, cvars
  <1>2. ASSUME NEW p \in Producers, PushTimedOut(p) PROVE TypeOK'
    BY <1>2 DEF PushTimedOut, shared, sems, cvars
  <1>3. ASSUME NEW p \in Producers, PushClaim(p) PROVE TypeOK'
    BY <1>3 DEF PushClaim, shared, cvars
  <1>4. ASSUME NEW p \in Producers, PushLock(p) PROVE TypeOK'
    <2>1. (m_front + m_cur_count) % Size \in 0 .. Size - 1
      BY Z3
    <2>2. QED
      BY <1>4, <2>1 DEF PushLock, shared, cvars
  <1>5. ASSUME NEW p \in Producers, PushUnlock(p) PROVE TypeOK'
    BY <1>5 DEF PushUnlock, cvars
  <1>6. ASSUME NEW p \in Producers, PushCopy(p) PROVE TypeOK'
    BY <1>6 DEF PushCopy, shared, sems, cvars
  <1>7. ASSUME NEW p \in Producers, PushPost(p) PROVE TypeOK'
    BY <1>7 DEF PushPost, shared, cvars
  <1>8. ASSUME NEW c \in Consumers, PopCall(c) PROVE TypeOK'
    BY <1>8 DEF PopCall, shared, sems, pvars
  <1>9. ASSUME NEW c \in Consumers, PopTimedOut(c) PROVE TypeOK'
    BY <1>9 DEF PopTimedOut, shared, sems, pvars
  <1>10. ASSUME NEW c \in Consumers, PopClaim(c) PROVE TypeOK'
    BY <1>10 DEF PopClaim, shared, pvars
  <1>11. ASSUME NEW c \in Consumers, PopLock(c) PROVE TypeOK'
    BY <1>11 DEF PopLock, shared, pvars
  <1>12. ASSUME NEW c \in Consumers, PopUnlock(c) PROVE TypeOK'
    <2>1. (cslot[c] + 1) % Size \in 0 .. Size - 1
      BY Z3
    <2>2. QED
      BY <1>12, <2>1 DEF PopUnlock, pvars
  <1>13. ASSUME NEW c \in Consumers, PopCopy(c) PROVE TypeOK'
    BY <1>13 DEF PopCopy, shared, sems, pvars
  <1>14. ASSUME NEW c \in Consumers, PopPost(c) PROVE TypeOK'
    BY <1>14 DEF PopPost, shared, pvars
  <1>15. CASE UNCHANGED vars
    BY <1>15 DEF vars, shared, sems, pvars, cvars
  <1>16. QED
    BY <1>1, <1>2, <1>3, <1>4, <1>5, <1>6, <1>7, <1>8, <1>9, <1>10, <1>11,
       <1>12, <1>13, <1>14, <1>15 DEF Next, PushStep, PopStep

(* Every variable has its type in every reachable state; in particular     *)
(* push and pop never take a semaphore below zero and only ever index      *)
(* m_arr with a slot of the ring.                                          *)
THEOREM TypeCorrect == Spec => []TypeOK
  <1>1. Init => TypeOK
    BY QueueAssumption DEF Init, TypeOK, Slots, PC
  <1>2. QED
    BY <1>1, TypeInductive, PTL DEF Spec

-----------------------------------------------------------------------------
(* Mutual exclusion and the accounting of tokens and counters.             *)

(* The inductive invariant: no conjunct is inductive without the others.   *)
Accounting ==
    /\ TypeOK
    /\ MutualExclusion
    /\ TokenConservation
    /\ CountIsTokens
    /\ m_cur_count = m_pushed_count - m_popped_count
    /\ m_front = m_popped_count % Size

(* The calls that have counted their item and not yet copied it.           *)
PushersCopying == Cardinality(Among(ppc, {"copy"}))
PoppersCopying == Cardinality(Among(cpc, {"copy"}))

(* How the number of threads in the stages S changes when one of them      *)
(* moves from one stage to another.                                        *)
Change(S, from, to) == (IF to \in S THEN 1 ELSE 0) - (IF from \in S THEN 1 ELSE 0)

PushersMoved(from, to) ==
    /\ PushersInside' = PushersInside + Change({"crit"}, from, to)
    /\ PushersHolding' = PushersHolding + Change({"lock", "crit", "copy", "post"}, from, to)
    /\ PushersCounted' = PushersCounted + Change({"copy", "post"}, from, to)
    /\ PushersCopying' = PushersCopying + Change({"copy"}, from, to)

PoppersMoved(from, to) ==
    /\ PoppersInside' = PoppersInside + Change({"crit"}, from, to)
    /\ PoppersHolding' = PoppersHolding + Change({"lock", "crit", "copy", "post"}, from, to)
    /\ PoppersCounted' = PoppersCounted + Change({"lock", "crit"}, from, to)
    /\ PoppersCopying' = PoppersCopying + Change({"copy"}, from, to)

(* The counts are natural numbers, and they say who is between sem_wait    *)
(* and sem_post.                                                           *)
CountsOK ==
    /\ PushersInside \in Nat /\ PushersHolding \in Nat /\ PushersCounted \in Nat
    /\ PoppersInside \in Nat /\ PoppersHolding \in Nat /\ PoppersCounted \in Nat
    /\ PushersCopying \in Nat /\ PoppersCopying \in Nat
    /\ PushersInside = 0 => \A p \in Producers : ppc[p] # "crit"
    /\ PoppersInside = 0 => \A c \in Consumers : cpc[c] # "crit"
    /\ PushersInside <= 1 =>
          \A p, q \in Producers : ppc[p] = "crit" /\ ppc[q] = "crit" => p = q
    /\ PoppersInside <= 1 =>
          \A c, d \in Consumers : cpc[c] = "crit" /\ cpc[d] = "crit" => c = d

(* A producer that moves to stage v changes these counts, and only by one. *)
LEMMA PushersMove ==
    ASSUME TypeOK, NEW p \in Producers, NEW v \in PC, ppc' = [ppc EXCEPT ![p] = v]
    PROVE  PushersMoved(ppc[p], v)
  <1>1. ASSUME NEW S
        PROVE  Cardinality(Among(ppc', S)) = Cardinality(Among(ppc, S))
                  + Change(S, ppc[p], v)
    <2> DEFINE A == Among(ppc, S)
               B == Among(ppc', S)
    <2>1. ppc \in [Producers -> PC] /\ IsFiniteSet(Producers)
      BY QueueAssumption DEF TypeOK
    <2>2. IsFiniteSet(A) /\ Cardinality(A) \in Nat
      BY <2>1, AmongCount
    <2>3. p \in A <=> ppc[p] \in S
      BY <2>1 DEF Among
    <2>4. /\ v \in S => B = A \cup {p}
          /\ v \notin S => B = A \ {p}
      BY <2>1 DEF Among
    <2> HIDE DEF A, B
    <2>5. /\ Cardinality(A \cup {p}) = IF p \in A THEN Cardinality(A) ELSE Cardinality(A) + 1
          /\ Cardinality(A \ {p}) = IF p \in A THEN Cardinality(A) - 1 ELSE Cardinality(A)
      BY <2>2, FS_AddElement, FS_RemoveElement
    <2>6. /\ v \in S => Cardinality(B) = Cardinality(A \cup {p})
          /\ v \notin S => Cardinality(B) = Cardinality(A \ {p})
      BY <2>4, Zenon
    <2>7. Cardinality(B) = Cardinality(A) + (IF v \in S THEN 1 ELSE 0)
                           - (IF p \in A THEN 1 ELSE 0)
      BY <2>2, <2>5, <2>6
    <2>8. QED
      BY <2>3, <2>7 DEF A, B, Change
  <1>2. QED
    BY <1>1 DEF PushersMoved, PushersInside, PushersHolding, PushersCounted, PushersCopying

(* A consumer that moves to stage v changes these counts, and only by one. *)
LEMMA PoppersMove ==
    ASSUME TypeOK, NEW c \in Consumers, NEW v \in PC, cpc' = [cpc EXCEPT ![c] = v]
    PROVE  PoppersMoved(cpc[c], v)
  <1>1. ASSUME NEW S
        PROVE  Cardinality(Among(cpc', S)) = Cardinality(Among(cpc, S))
                  + Change(S, cpc[c], v)
    <2> DEFINE A == Among(cpc, S)
               B == Among(cpc', S)
    <2>1. cpc \in [Consumers -> PC] /\ IsFiniteSet(Consumers)
      BY QueueAssumption DEF TypeOK
    <2>2. IsFiniteSet(A) /\ Cardinality(A) \in Nat
      BY <2>1, AmongCount
    <2>3. c \in A <=> cpc[c] \in S
      BY <2>1 DEF Among
    <2>4. /\ v \in S => B = A \cup {c}
          /\ v \notin S => B = A \ {c}
      BY <2>1 DEF Among
    <2> HIDE DEF A, B
    <2>5. /\ Cardinality(A \cup {c}) = IF c \in A THEN Cardinality(A) ELSE Cardinality(A) + 1
          /\ Cardinality(A \ {c}) = IF c \in A THEN Cardinality(A) - 1 ELSE Cardinality(A)
      BY <2>2, FS_AddElement, FS_RemoveElement
    <2>6. /\ v \in S => Cardinality(B) = Cardinality(A \cup {c})
          /\ v \notin S => Cardinality(B) = Cardinality(A \ {c})
      BY <2>4, Zenon
    <2>7. Cardinality(B) = Cardinality(A) + (IF v \in S THEN 1 ELSE 0)
                           - (IF c \in A THEN 1 ELSE 0)
      BY <2>2, <2>5, <2>6
    <2>8. QED
      BY <2>3, <2>7 DEF A, B, Change
  <1>2. QED
    BY <1>1 DEF PoppersMoved, PoppersInside, PoppersHolding, PoppersCounted, PoppersCopying

(* Counting is all there is to it.                                         *)
LEMMA Counts == TypeOK => CountsOK
  <1> SUFFICES ASSUME TypeOK PROVE CountsOK
    OBVIOUS
  <1>1. /\ ppc \in [Producers -> PC] /\ IsFiniteSet(Producers)
        /\ cpc \in [Consumers -> PC] /\ IsFiniteSet(Consumers)
    BY QueueAssumption DEF TypeOK
  <1>2. /\ PushersInside \in Nat /\ PushersHolding \in Nat /\ PushersCounted \in Nat
        /\ PoppersInside \in Nat /\ PoppersHolding \in Nat /\ PoppersCounted \in Nat
        /\ PushersCopying \in Nat /\ PoppersCopying \in Nat
    BY <1>1, AmongCount DEF PushersInside, PushersHolding, PushersCounted,
       PoppersInside, PoppersHolding, PoppersCounted, PushersCopying, PoppersCopying
  <1>3. /\ PushersInside = 0 => \A p \in Producers : ppc[p] \notin {"crit"}
        /\ PushersInside <= 1 =>
              \A p, q \in Producers : ppc[p] \in {"crit"} /\ ppc[q] \in {"crit"} => p = q
    BY <1>1, AmongCount DEF PushersInside
  <1>4. /\ PoppersInside = 0 => \A c \in Consumers : cpc[c] \notin {"crit"}
        /\ PoppersInside <= 1 =>
              \A c, d \in Consumers : cpc[c] \in {"crit"} /\ cpc[d] \in {"crit"} => c = d
    BY <1>1, AmongCount DEF PoppersInside
  <1>5. QED
    BY <1>2, <1>3, <1>4 DEF CountsOK

(* Every step of push and pop keeps the accounting right.                  *)
LEMMA AccountingInductive == Accounting /\ [Next]_vars => Accounting'
  <1> SUFFICES ASSUME Accounting, [Next]_vars PROVE Accounting'
    OBVIOUS
  <1> USE DEF Accounting
  <1>0. TypeOK /\ TypeOK' /\ CountsOK
    BY TypeInductive, Counts
  <1>1. ASSUME NEW p \in Producers, NEW t \in Items, PushCall(p, t) PROVE Accounting'
    <2>1. ppc' = [ppc EXCEPT ![p] = "timedwait"] /\ "timedwait" \in PC /\ ppc[p] = "idle"
      BY <1>1 DEF PushCall, PC
    <2>2. PushersMoved("idle", "timedwait")
      BY <1>0, <2>1, PushersMove
    <2>3. UNCHANGED <<PoppersInside, PoppersHolding, PoppersCounted>>
      BY <1>1 DEF PushCall, cvars, PoppersInside, PoppersHolding, PoppersCounted
    <2>4. MutualExclusion'
      BY <1>0, <1>1, <2>1, <2>2, <2>3 DEF CountsOK, PushersMoved, Change, MutualExclusion, TypeOK, PushCall, shared, sems, cvars
    <2>5. TokenConservation'
      BY <1>0, <1>1, <2>2, <2>3, QueueAssumption
      DEF CountsOK, PushersMoved, Change, TokenConservation, TypeOK, PushCall, sems
    <2>6. CountIsTokens'
      BY <1>0, <1>1, <2>2, <2>3
      DEF CountsOK, PushersMoved, Change, CountIsTokens, TypeOK, PushCall, shared, sems
    <2>7. QED
      BY <1>0, <1>1, <2>4, <2>5, <2>6 DEF PushCall, shared
  <1>2. ASSUME NEW p \in Producers, PushTimedOut(p) PROVE Accounting'
    <2>1. ppc' = [ppc EXCEPT ![p] = "idle"] /\ "idle" \in PC /\ ppc[p] = "timedwait"
      BY <1>2 DEF PushTimedOut, PC
    <2>2. PushersMoved("timedwait", "idle")
      BY <1>0, <2>1, PushersMove
    <2>3. UNCHANGED <<PoppersInside, PoppersHolding, PoppersCounted>>
      BY <1>2 DEF PushTimedOut, cvars, PoppersInside, PoppersHolding, PoppersCounted
    <2>4. MutualExclusion'
      BY <1>0, <1>2, <2>1, <2>2, <2>3 DEF CountsOK, PushersMoved, Change, MutualExclusion, TypeOK, PushTimedOut, shared, sems, cvars
    <2>5. TokenConservation'
      BY <1>0, <1>2, <2>2, <2>3, QueueAssumption
      DEF CountsOK, PushersMoved, Change, TokenConservation, TypeOK, PushTimedOut, sems
    <2>6. CountIsTokens'
      BY <1>0, <1>2, <2>2, <2>3
      DEF CountsOK, PushersMoved, Change, CountIsTokens, TypeOK, PushTimedOut, shared, sems
    <2>7. QED
      BY <1>0, <1>2, <2>4, <2>5, <2>6 DEF PushTimedOut, shared
  <1>3. ASSUME NEW p \in Producers, PushClaim(p) PROVE Accounting'
    <2>1. ppc' = [ppc EXCEPT ![p] = "lock"] /\ "lock" \in PC /\ ppc[p] = "timedwait"
      BY <1>3 DEF PushClaim, PC
    <2>2. PushersMoved("timedwait", "lock")
      BY <1>0, <2>1, PushersMove
    <2>3. UNCHANGED <<PoppersInside, PoppersHolding, PoppersCounted>>
      BY <1>3 DEF PushClaim, cvars, PoppersInside, PoppersHolding, PoppersCounted
    <2>4. MutualExclusion'
      BY <1>0, <1>3, <2>1, <2>2, <2>3 DEF CountsOK, PushersMoved, Change, MutualExclusion, TypeOK, PushClaim, shared, sems, cvars
    <2>5. TokenConservation'
      BY <1>0, <1>3, <2>2, <2>3, QueueAssumption
      DEF CountsOK, PushersMoved, Change, TokenConservation, TypeOK, PushClaim, sems
    <2>6. CountIsTokens'
      BY <1>0, <1>3, <2>2, <2>3
      DEF CountsOK, PushersMoved, Change, CountIsTokens, TypeOK, PushClaim, shared, sems
    <2>7. QED
      BY <1>0, <1>3, <2>4, <2>5, <2>6 DEF PushClaim, shared
  <1>4. ASSUME NEW p \in Producers, PushLock(p) PROVE Accounting'
    <2>1. ppc' = [ppc EXCEPT ![p] = "crit"] /\ "crit" \in PC /\ ppc[p] = "lock"
      BY <1>4 DEF PushLock, PC
    <2>2. PushersMoved("lock", "crit")
      BY <1>0, <2>1, PushersMove
    <2>3. UNCHANGED <<PoppersInside, PoppersHolding, PoppersCounted>>
      BY <1>4 DEF PushLock, cvars, PoppersInside, PoppersHolding, PoppersCounted
    <2>4. /\ m_lock = 1 /\ PushersInside = 0 /\ PoppersInside = 0
          /\ \A q \in Producers : ppc[q] # "crit"
          /\ \A d \in Consumers : cpc[d] # "crit"
      BY <1>0, <1>4 DEF CountsOK, PushLock, MutualExclusion, TypeOK
    <2>5. MutualExclusion'
      BY <1>0, <1>4, <2>1, <2>2, <2>3, <2>4 DEF CountsOK, PushersMoved, Change, MutualExclusion, TypeOK, PushLock, shared, sems, cvars
    <2>6. TokenConservation'
      BY <1>0, <1>4, <2>2, <2>3, QueueAssumption
      DEF CountsOK, PushersMoved, Change, TokenConservation, TypeOK, PushLock, sems
    <2>7. CountIsTokens'
      BY <1>0, <1>4, <2>2, <2>3
      DEF CountsOK, PushersMoved, Change, CountIsTokens, TypeOK, PushLock, shared, sems
    <2>8. QED
      BY <1>0, <1>4, <2>5, <2>6, <2>7 DEF PushLock, shared
  <1>5. ASSUME NEW p \in Producers, PushUnlock(p) PROVE Accounting'
    <2>1. ppc' = [ppc EXCEPT ![p] = "copy"] /\ "copy" \in PC /\ ppc[p] = "crit"
      BY <1>5 DEF PushUnlock, PC
    <2>2. PushersMoved("crit", "copy")
      BY <1>0, <2>1, PushersMove
    <2>3. UNCHANGED <<PoppersInside, PoppersHolding, PoppersCounted>>
      BY <1>5 DEF PushUnlock, cvars, PoppersInside, PoppersHolding, PoppersCounted
    <2>4. /\ m_lock = 0 /\ PushersInside = 1 /\ PoppersInside = 0
          /\ \A q \in Producers : ppc[q] = "crit" => q = p
          /\ \A d \in Consumers : cpc[d] = "crit" => FALSE
      <3>1. PushersInside # 0
        BY <1>0, <2>1 DEF CountsOK
      <3>2. /\ m_lock \in Nat /\ PushersInside \in Nat /\ PoppersInside \in Nat
            /\ m_lock + PushersInside + PoppersInside = 1
        BY <1>0 DEF CountsOK, MutualExclusion, TypeOK
      <3>3. m_lock = 0 /\ PushersInside = 1 /\ PoppersInside = 0
        BY <3>1, <3>2
      <3>4. QED
        BY <1>0, <2>1, <3>3 DEF CountsOK
    <2>5. pcount[p] = m_cur_count
      BY <2>1 DEF MutualExclusion
    <2>6. MutualExclusion'
      BY <1>0, <1>5, <2>1, <2>2, <2>3, <2>4 DEF CountsOK, PushersMoved, Change, MutualExclusion, TypeOK, PushUnlock, shared, sems, cvars
    <2>7. TokenConservation'
      BY <1>0, <1>5, <2>2, <2>3, QueueAssumption
      DEF CountsOK, PushersMoved, Change, TokenConservation, TypeOK, PushUnlock, sems
    <2>8. CountIsTokens'
      BY <1>0, <1>5, <2>2, <2>3, <2>5
      DEF CountsOK, PushersMoved, Change, CountIsTokens, TypeOK, PushUnlock, shared, sems
    <2>9. QED
      BY <1>0, <1>5, <2>5, <2>6, <2>7, <2>8 DEF PushUnlock, shared, TypeOK
  <1>6. ASSUME NEW p \in Producers, PushCopy(p) PROVE Accounting'
    <2>1. ppc' = [ppc EXCEPT ![p] = "post"] /\ "post" \in PC /\ ppc[p] = "copy"
      BY <1>6 DEF PushCopy, PC
    <2>2. PushersMoved("copy", "post")
      BY <1>0, <2>1, PushersMove
    <2>3. UNCHANGED <<PoppersInside, PoppersHolding, PoppersCounted>>
      BY <1>6 DEF PushCopy, cvars, PoppersInside, PoppersHolding, PoppersCounted
    <2>4. MutualExclusion'
      BY <1>0, <1>6, <2>1, <2>2, <2>3 DEF CountsOK, PushersMoved, Change, MutualExclusion, TypeOK, PushCopy, shared, sems, cvars
    <2>5. TokenConservation'
      BY <1>0, <1>6, <2>2, <2>3, QueueAssumption
      DEF CountsOK, PushersMoved, Change, TokenConservation, TypeOK, PushCopy, sems
    <2>6. CountIsTokens'
      BY <1>0, <1>6, <2>2, <2>3
      DEF CountsOK, PushersMoved, Change, CountIsTokens, TypeOK, PushCopy, shared, sems
    <2>7. QED
      BY <1>0, <1>6, <2>4, <2>5, <2>6 DEF PushCopy, shared
  <1>7. ASSUME NEW p \in Producers, PushPost(p) PROVE Accounting'
    <2>1. ppc' = [ppc EXCEPT ![p] = "idle"] /\ "idle" \in PC /\ ppc[p] = "post"
      BY <1>7 DEF PushPost, PC
    <2>2. PushersMoved("post", "idle")
      BY <1>0, <2>1, PushersMove
    <2>3. UNCHANGED <<PoppersInside, PoppersHolding, PoppersCounted>>
      BY <1>7 DEF PushPost, cvars, PoppersInside, PoppersHolding, PoppersCounted
    <2>4. MutualExclusion'
      BY <1>0, <1>7, <2>1, <2>2, <2>3 DEF CountsOK, PushersMoved, Change, MutualExclusion, TypeOK, PushPost, shared, sems, cvars
    <2>5. TokenConservation'
      BY <1>0, <1>7, <2>2, <2>3, QueueAssumption
      DEF CountsOK, PushersMoved, Change, TokenConservation, TypeOK, PushPost, sems
    <2>6. CountIsTokens'
      BY <1>0, <1>7, <2>2, <2>3, SMTT(30)
      DEF CountsOK, PushersMoved, Change, CountIsTokens, TypeOK, PushPost, shared, sems
    <2>7. QED
      BY <1>0, <1>7, <2>4, <2>5, <2>6 DEF PushPost, shared
  <1>8. ASSUME NEW c \in Consumers, PopCall(c) PROVE Accounting'
    <2>1. cpc' = [cpc EXCEPT ![c] = "timedwait"] /\ "timedwait" \in PC /\ cpc[c] = "idle"
      BY <1>8 DEF PopCall, PC
    <2>2. PoppersMoved("idle", "timedwait")
      BY <1>0, <2>1, PoppersMove
    <2>3. UNCHANGED <<PushersInside, PushersHolding, PushersCounted>>
      BY <1>8 DEF PopCall, pvars, PushersInside, PushersHolding, PushersCounted
    <2>4. MutualExclusion'
      BY <1>0, <1>8, <2>1, <2>2, <2>3 DEF CountsOK, PoppersMoved, Change, MutualExclusion, TypeOK, PopCall, shared, sems, pvars
    <2>5. TokenConservation'
      BY <1>0, <1>8, <2>2, <2>3, QueueAssumption
      DEF CountsOK, PoppersMoved, Change, TokenConservation, TypeOK, PopCall, sems
    <2>6. CountIsTokens'
      BY <1>0, <1>8, <2>2, <2>3
      DEF CountsOK, PoppersMoved, Change, CountIsTokens, TypeOK, PopCall, shared, sems
    <2>7. QED
      BY <1>0, <1>8, <2>4, <2>5, <2>6 DEF PopCall, shared
  <1>9. ASSUME NEW c \in Consumers, PopTimedOut(c) PROVE Accounting'
    <2>1. cpc' = [cpc EXCEPT ![c] = "idle"] /\ "idle" \in PC /\ cpc[c] = "timedwait"
      BY <1>9 DEF PopTimedOut, PC
    <2>2. PoppersMoved("timedwait", "idle")
      BY <1>0, <2>1, PoppersMove
    <2>3. UNCHANGED <<PushersInside, PushersHolding, PushersCounted>>
      BY <1>9 DEF PopTimedOut, pvars, PushersInside, PushersHolding, PushersCounted
    <2>4. MutualExclusion'
      BY <1>0, <1>9, <2>1, <2>2, <2>3 DEF CountsOK, PoppersMoved, Change, MutualExclusion, TypeOK, PopTimedOut, shared, sems, pvars
    <2>5. TokenConservation'
      BY <1>0, <1>9, <2>2, <2>3, QueueAssumption
      DEF CountsOK, PoppersMoved, Change, TokenConservation, TypeOK, PopTimedOut, sems
    <2>6. CountIsTokens'
      BY <1>0, <1>9, <2>2, <2>3
      DEF CountsOK, PoppersMoved, Change, CountIsTokens, TypeOK, PopTimedOut, shared, sems
    <2>7. QED
      BY <1>0, <1>9, <2>4, <2>5, <2>6 DEF PopTimedOut, shared
  <1>10. ASSUME NEW c \in Consumers, PopClaim(c) PROVE Accounting'
    <2>1. cpc' = [cpc EXCEPT ![c] = "lock"] /\ "lock" \in PC /\ cpc[c] = "timedwait"
      BY <1>10 DEF PopClaim, PC
    <2>2. PoppersMoved("timedwait", "lock")
      BY <1>0, <2>1, PoppersMove
    <2>3. UNCHANGED <<PushersInside, PushersHolding, PushersCounted>>
      BY <1>10 DEF PopClaim, pvars, PushersInside, PushersHolding, PushersCounted
    <2>4. MutualExclusion'
      BY <1>0, <1>10, <2>1, <2>2, <2>3 DEF CountsOK, PoppersMoved, Change, MutualExclusion, TypeOK, PopClaim, shared, sems, pvars
    <2>5. TokenConservation'
      BY <1>0, <1>10, <2>2, <2>3, QueueAssumption
      DEF CountsOK, PoppersMoved, Change, TokenConservation, TypeOK, PopClaim, sems
    <2>6. CountIsTokens'
      BY <1>0, <1>10, <2>2, <2>3
      DEF CountsOK, PoppersMoved, Change, CountIsTokens, TypeOK, PopClaim, shared, sems
    <2>7. QED
      BY <1>0, <1>10, <2>4, <2>5, <2>6 DEF PopClaim, shared
  <1>11. ASSUME NEW c \in Consumers, PopLock(c) PROVE Accounting'
    <2>1. cpc' = [cpc EXCEPT ![c] = "crit"] /\ "crit" \in PC /\ cpc[c] = "lock"
      BY <1>11 DEF PopLock, PC
    <2>2. PoppersMoved("lock", "crit")
      BY <1>0, <2>1, PoppersMove
    <2>3. UNCHANGED <<PushersInside, PushersHolding, PushersCounted>>
      BY <1>11 DEF PopLock, pvars, PushersInside, PushersHolding, PushersCounted
    <2>4. /\ m_lock = 1 /\ PushersInside = 0 /\ PoppersInside = 0
          /\ \A q \in Producers : ppc[q] # "crit"
          /\ \A d \in Consumers : cpc[d] # "crit"
      BY <1>0, <1>11 DEF CountsOK, PopLock, MutualExclusion, TypeOK
    <2>5. MutualExclusion'
      BY <1>0, <1>11, <2>1, <2>2, <2>3, <2>4 DEF CountsOK, PoppersMoved, Change, MutualExclusion, TypeOK, PopLock, shared, sems, pvars
    <2>6. TokenConservation'
      BY <1>0, <1>11, <2>2, <2>3, QueueAssumption
      DEF CountsOK, PoppersMoved, Change, TokenConservation, TypeOK, PopLock, sems
    <2>7. CountIsTokens'
      BY <1>0, <1>11, <2>2, <2>3
      DEF CountsOK, PoppersMoved, Change, CountIsTokens, TypeOK, PopLock, shared, sems
    <2>8. QED
      BY <1>0, <1>11, <2>5, <2>6, <2>7 DEF PopLock, shared
  <1>12. ASSUME NEW c \in Consumers, PopUnlock(c) PROVE Accounting'
    <2>1. cpc' = [cpc EXCEPT ![c] = "copy"] /\ "copy" \in PC /\ cpc[c] = "crit"
      BY <1>12 DEF PopUnlock, PC
    <2>2. PoppersMoved("crit", "copy")
      BY <1>0, <2>1, PoppersMove
    <2>3. UNCHANGED <<PushersInside, PushersHolding, PushersCounted>>
      BY <1>12 DEF PopUnlock, pvars, PushersInside, PushersHolding, PushersCounted
    <2>4. /\ m_lock = 0 /\ PushersInside = 0 /\ PoppersInside = 1
          /\ \A q \in Producers : ppc[q] = "crit" => FALSE
          /\ \A d \in Consumers : cpc[d] = "crit" => d = c
      <3>1. PoppersInside # 0
        BY <1>0, <2>1 DEF CountsOK
      <3>2. /\ m_lock \in Nat /\ PushersInside \in Nat /\ PoppersInside \in Nat
            /\ m_lock + PushersInside + PoppersInside = 1
        BY <1>0 DEF CountsOK, MutualExclusion, TypeOK
      <3>3. m_lock = 0 /\ PushersInside = 0 /\ PoppersInside = 1
        BY <3>1, <3>2
      <3>4. QED
        BY <1>0, <2>1, <3>3 DEF CountsOK
    <2>5. ccount[c] = m_cur_count /\ cslot[c] = m_front
      BY <2>1 DEF MutualExclusion
    <2>6. MutualExclusion'
      BY <1>0, <1>12, <2>1, <2>2, <2>3, <2>4 DEF CountsOK, PoppersMoved, Change, MutualExclusion, TypeOK, PopUnlock, shared, sems, pvars
    <2>7. TokenConservation'
      BY <1>0, <1>12, <2>2, <2>3, QueueAssumption
      DEF CountsOK, PoppersMoved, Change, TokenConservation, TypeOK, PopUnlock, sems
    <2>8. CountIsTokens'
      BY <1>0, <1>12, <2>2, <2>3, <2>5
      DEF CountsOK, PoppersMoved, Change, CountIsTokens, TypeOK, PopUnlock, shared, sems
    <2>9. m_front' = m_popped_count' % Size
      <3>1. ((m_popped_count % Size) + 1) % Size = (m_popped_count + 1) % Size
        BY <1>0, ModSucc, QueueAssumption DEF TypeOK
      <3>2. QED
        BY <1>12, <2>5, <3>1 DEF PopUnlock
    <2>10. QED
      BY <1>0, <1>12, <2>5, <2>6, <2>7, <2>8, <2>9 DEF PopUnlock, TypeOK
  <1>13. ASSUME NEW c \in Consumers, PopCopy(c) PROVE Accounting'
    <2>1. cpc' = [cpc EXCEPT ![c] = "post"] /\ "post" \in PC /\ cpc[c] = "copy"
      BY <1>13 DEF PopCopy, PC
    <2>2. PoppersMoved("copy", "post")
      BY <1>0, <2>1, PoppersMove
    <2>3. UNCHANGED <<PushersInside, PushersHolding, PushersCounted>>
      BY <1>13 DEF PopCopy, pvars, PushersInside, PushersHolding, PushersCounted
    <2>4. MutualExclusion'
      BY <1>0, <1>13, <2>1, <2>2, <2>3 DEF CountsOK, PoppersMoved, Change, MutualExclusion, TypeOK, PopCopy, shared, sems, pvars
    <2>5. TokenConservation'
      BY <1>0, <1>13, <2>2, <2>3, QueueAssumption
      DEF CountsOK, PoppersMoved, Change, TokenConservation, TypeOK, PopCopy, sems
    <2>6. CountIsTokens'
      BY <1>0, <1>13, <2>2, <2>3
      DEF CountsOK, PoppersMoved, Change, CountIsTokens, TypeOK, PopCopy, shared, sems
    <2>7. QED
      BY <1>0, <1>13, <2>4, <2>5, <2>6 DEF PopCopy, shared
  <1>14. ASSUME NEW c \in Consumers, PopPost(c) PROVE Accounting'
    <2>1. cpc' = [cpc EXCEPT ![c] = "idle"] /\ "idle" \in PC /\ cpc[c] = "post"
      BY <1>14 DEF PopPost, PC
    <2>2. PoppersMoved("post", "idle")
      BY <1>0, <2>1, PoppersMove
    <2>3. UNCHANGED <<PushersInside, PushersHolding, PushersCounted>>
      BY <1>14 DEF PopPost, pvars, PushersInside, PushersHolding, PushersCounted
    <2>4. MutualExclusion'
      BY <1>0, <1>14, <2>1, <2>2, <2>3 DEF CountsOK, PoppersMoved, Change, MutualExclusion, TypeOK, PopPost, shared, sems, pvars
    <2>5. TokenConservation'
      BY <1>0, <1>14, <2>2, <2>3, QueueAssumption
      DEF CountsOK, PoppersMoved, Change, TokenConservation, TypeOK, PopPost, sems
    <2>6. CountIsTokens'
      BY <1>0, <1>14, <2>2, <2>3
      DEF CountsOK, PoppersMoved, Change, CountIsTokens, TypeOK, PopPost, shared, sems
    <2>7. QED
      BY <1>0, <1>14, <2>4, <2>5, <2>6 DEF PopPost, shared
  <1>15. CASE UNCHANGED vars
    BY <1>0, <1>15 DEF vars, shared, sems, pvars, cvars, MutualExclusion, TokenConservation,
       CountIsTokens, PushersInside, PushersHolding, PushersCounted,
       PoppersInside, PoppersHolding, PoppersCounted
  <1>16. QED
    BY <1>1, <1>2, <1>3, <1>4, <1>5, <1>6, <1>7, <1>8, <1>9, <1>10, <1>11,
       <1>12, <1>13, <1>14, <1>15 DEF Next, PushStep, PopStep

(* The accounting holds when the queue is constructed.                     *)
LEMMA AccountingInit == Init => Accounting
  <1> SUFFICES ASSUME Init PROVE Accounting
    OBVIOUS
  <1>1. TypeOK
    BY QueueAssumption DEF Init, TypeOK, Slots, PC
  <1>2. \A S \in {{"crit"}, {"lock", "crit"}, {"copy", "post"}, {"lock", "crit", "copy", "post"}} :
           Among(ppc, S) = {} /\ Among(cpc, S) = {}
    BY DEF Init, Among
  <1>3. /\ PushersInside = 0 /\ PushersHolding = 0 /\ PushersCounted = 0
        /\ PoppersInside = 0 /\ PoppersHolding = 0 /\ PoppersCounted = 0
    BY <1>2, FS_EmptySet DEF PushersInside, PushersHolding, PushersCounted,
       PoppersInside, PoppersHolding, PoppersCounted
  <1>4. 0 % Size = 0
    BY QueueAssumption, Z3
  <1>5. QED
    BY <1>1, <1>3, <1>4, QueueAssumption
    DEF Init, Accounting, MutualExclusion, TokenConservation, CountIsTokens

(* The accounting holds in every reachable state.                          *)
LEMMA AccountingInvariant == Spec => []Accounting
  BY AccountingInit, AccountingInductive, PTL DEF Spec

(* m_lock serialises the counter updates of any number of pushes and pops, *)
(* and none of the updates is lost.                                        *)
THEOREM MutualExclusionCorrect == Spec => []MutualExclusion
  <1>1. Accounting => MutualExclusion
    BY DEF Accounting
  <1>2. QED
    BY <1>1, AccountingInvariant, PTL

(* No interleaving, timeout or early return of push and pop loses or       *)
(* invents a token of m_push_sem and m_pop_sem.                            *)
THEOREM TokensConserved == Spec => []TokenConservation
  <1>1. Accounting => TokenConservation
    BY DEF Accounting
  <1>2. QED
    BY <1>1, AccountingInvariant, PTL

(* What m_cur_count counts is exactly what is published, about to be       *)
(* published or about to be taken out, at every point of every push and    *)
(* pop.                                                                    *)
THEOREM CountOfTokens == Spec => []CountIsTokens
  <1>1. Accounting => CountIsTokens
    BY DEF Accounting
  <1>2. QED
    BY <1>1, AccountingInvariant, PTL

(* The counters are in range because the calls that a counter counts are   *)
(* among those that hold a token.                                          *)
LEMMA CountersFromAccounting == Accounting => CountersAgree
  <1> SUFFICES ASSUME Accounting PROVE CountersAgree
    OBVIOUS
  <1>1. /\ ppc \in [Producers -> PC] /\ IsFiniteSet(Producers)
        /\ cpc \in [Consumers -> PC] /\ IsFiniteSet(Consumers)
    BY QueueAssumption DEF Accounting, TypeOK
  <1>2. PushersCounted <= PushersHolding
    BY <1>1, AmongMonotone DEF PushersCounted, PushersHolding
  <1>3. PoppersCounted <= PoppersHolding
    BY <1>1, AmongMonotone DEF PoppersCounted, PoppersHolding
  <1>4. CountsOK
    BY Counts DEF Accounting
  <1>5. m_cur_count \in 0 .. Size
    BY <1>2, <1>3, <1>4, QueueAssumption
    DEF CountsOK, Accounting, TypeOK, TokenConservation, CountIsTokens
  <1>6. QED
    BY <1>5 DEF Accounting, CountersAgree

(* For any number of producers and consumers and any Size, m_cur_count is  *)
(* pushed minus popped and between 0 and m_size, and m_front is the slot   *)
(* of the next pop.                                                        *)
THEOREM CountersCorrect == Spec => []CountersAgree
  BY AccountingInvariant, CountersFromAccounting, PTL

-----------------------------------------------------------------------------
(* The counters against the histories.                                     *)

(* An item counted as pushed has been stored or is about to be, an item    *)
(* counted as popped has been handed out or is about to be.                *)
CountsMatchHistories ==
    /\ m_pushed_count = Len(sent) + PushersCopying
    /\ m_popped_count = Len(received) + PoppersCopying

(* PushUnlock counts and PushCopy stores; PopUnlock counts and PopCopy     *)
(* hands out.                                                              *)
LEMMA HistoriesInductive ==
    TypeOK /\ CountsMatchHistories /\ [Next]_vars => CountsMatchHistories'
  <1> SUFFICES ASSUME TypeOK, CountsMatchHistories, [Next]_vars PROVE CountsMatchHistories'
    OBVIOUS
  <1>0. CountsOK /\ Len(sent) \in Nat /\ Len(received) \in Nat
    BY Counts DEF TypeOK
  <1> USE DEF CountsMatchHistories
  <1>1. ASSUME NEW p \in Producers, NEW t \in Items, PushCall(p, t) PROVE CountsMatchHistories'
    <2>1. ppc' = [ppc EXCEPT ![p] = "timedwait"] /\ "timedwait" \in PC /\ ppc[p] = "idle"
      BY <1>1 DEF PushCall, PC
    <2>2. PushersMoved("idle", "timedwait")
      BY <2>1, PushersMove
    <2>3. UNCHANGED PoppersCopying
      BY <1>1 DEF PushCall, cvars, PoppersCopying
    <2>4. QED
      BY <1>0, <1>1, <2>2, <2>3 DEF CountsOK, PushersMoved, Change, TypeOK, PushCall, shared
  <1>2. ASSUME NEW p \in Producers, PushTimedOut(p) PROVE CountsMatchHistories'
    <2>1. ppc' = [ppc EXCEPT ![p] = "idle"] /\ "idle" \in PC /\ ppc[p] = "timedwait"
      BY <1>2 DEF PushTimedOut, PC
    <2>2. PushersMoved("timedwait", "idle")
      BY <2>1, PushersMove
    <2>3. UNCHANGED PoppersCopying
      BY <1>2 DEF PushTimedOut, cvars, PoppersCopying
    <2>4. QED
      BY <1>0, <1>2, <2>2, <2>3 DEF CountsOK, PushersMoved, Change, TypeOK, PushTimedOut, shared
  <1>3. ASSUME NEW p \in Producers, PushClaim(p) PROVE CountsMatchHistories'
    <2>1. ppc' = [ppc EXCEPT ![p] = "lock"] /\ "lock" \in PC /\ ppc[p] = "timedwait"
      BY <1>3 DEF PushClaim, PC
    <2>2. PushersMoved("timedwait", "lock")
      BY <2>1, PushersMove
    <2>3. UNCHANGED PoppersCopying
      BY <1>3 DEF PushClaim, cvars, PoppersCopying
    <2>4. QED
      BY <1>0, <1>3, <2>2, <2>3 DEF CountsOK, PushersMoved, Change, TypeOK, PushClaim, shared
  <1>4. ASSUME NEW p \in Producers, PushLock(p) PROVE CountsMatchHistories'
    <2>1. ppc' = [ppc EXCEPT ![p] = "crit"] /\ "crit" \in PC /\ ppc[p] = "lock"
      BY <1>4 DEF PushLock, PC
    <2>2. PushersMoved("lock", "crit")
      BY <2>1, PushersMove
    <2>3. UNCHANGED PoppersCopying
      BY <1>4 DEF PushLock, cvars, PoppersCopying
    <2>4. QED
      BY <1>0, <1>4, <2>2, <2>3 DEF CountsOK, PushersMoved, Change, TypeOK, PushLock, shared
  <1>5. ASSUME NEW p \in Producers, PushUnlock(p) PROVE CountsMatchHistories'
    <2>1. ppc' = [ppc EXCEPT ![p] = "copy"] /\ "copy" \in PC /\ ppc[p] = "crit"
      BY <1>5 DEF PushUnlock, PC
    <2>2. PushersMoved("crit", "copy")
      BY <2>1, PushersMove
    <2>3. UNCHANGED PoppersCopying
      BY <1>5 DEF PushUnlock, cvars, PoppersCopying
    <2>4. QED
      BY <1>0, <1>5, <2>2, <2>3 DEF CountsOK, PushersMoved, Change, TypeOK, PushUnlock, shared
  <1>6. ASSUME NEW p \in Producers, PushCopy(p) PROVE CountsMatchHistories'
    <2>1. ppc' = [ppc EXCEPT ![p] = "post"] /\ "post" \in PC /\ ppc[p] = "copy"
      BY <1>6 DEF PushCopy, PC
    <2>2. PushersMoved("copy", "post")
      BY <2>1, PushersMove
    <2>3. UNCHANGED PoppersCopying
      BY <1>6 DEF PushCopy, cvars, PoppersCopying
    <2>4. QED
      BY <1>0, <1>6, <2>2, <2>3 DEF CountsOK, PushersMoved, Change, TypeOK, PushCopy, shared
  <1>7. ASSUME NEW p \in Producers, PushPost(p) PROVE CountsMatchHistories'
    <2>1. ppc' = [ppc EXCEPT ![p] = "idle"] /\ "idle" \in PC /\ ppc[p] = "post"
      BY <1>7 DEF PushPost, PC
    <2>2. PushersMoved("post", "idle")
      BY <2>1, PushersMove
    <2>3. UNCHANGED PoppersCopying
      BY <1>7 DEF PushPost, cvars, PoppersCopying
    <2>4. QED
      BY <1>0, <1>7, <2>2, <2>3 DEF CountsOK, PushersMoved, Change, TypeOK, PushPost, shared
  <1>8. ASSUME NEW c \in Consumers, PopCall(c) PROVE CountsMatchHistories'
    <2>1. cpc' = [cpc EXCEPT ![c] = "timedwait"] /\ "timedwait" \in PC /\ cpc[c] = "idle"
      BY <1>8 DEF PopCall, PC
    <2>2. PoppersMoved("idle", "timedwait")
      BY <2>1, PoppersMove
    <2>3. UNCHANGED PushersCopying
      BY <1>8 DEF PopCall, pvars, PushersCopying
    <2>4. QED
      BY <1>0, <1>8, <2>2, <2>3 DEF CountsOK, PoppersMoved, Change, TypeOK, PopCall, shared
  <1>9. ASSUME NEW c \in Consumers, PopTimedOut(c) PROVE CountsMatchHistories'
    <2>1. cpc' = [cpc EXCEPT ![c] = "idle"] /\ "idle" \in PC /\ cpc[c] = "timedwait"
      BY <1>9 DEF PopTimedOut, PC
    <2>2. PoppersMoved("timedwait", "idle")
      BY <2>1, PoppersMove
    <2>3. UNCHANGED PushersCopying
      BY <1>9 DEF PopTimedOut, pvars, PushersCopying
    <2>4. QED
      BY <1>0, <1>9, <2>2, <2>3 DEF CountsOK, PoppersMoved, Change, TypeOK, PopTimedOut, shared
  <1>10. ASSUME NEW c \in Consumers, PopClaim(c) PROVE CountsMatchHistories'
    <2>1. cpc' = [cpc EXCEPT ![c] = "lock"] /\ "lock" \in PC /\ cpc[c] = "timedwait"
      BY <1>10 DEF PopClaim, PC
    <2>2. PoppersMoved("timedwait", "lock")
      BY <2>1, PoppersMove
    <2>3. UNCHANGED PushersCopying
      BY <1>10 DEF PopClaim, pvars, PushersCopying
    <2>4. QED
      BY <1>0, <1>10, <2>2, <2>3 DEF CountsOK, PoppersMoved, Change, TypeOK, PopClaim, shared
  <1>11. ASSUME NEW c \in Consumers, PopLock(c) PROVE CountsMatchHistories'
    <2>1. cpc' = [cpc EXCEPT ![c] = "crit"] /\ "crit" \in PC /\ cpc[c] = "lock"
      BY <1>11 DEF PopLock, PC
    <2>2. PoppersMoved("lock", "crit")
      BY <2>1, PoppersMove
    <2>3. UNCHANGED PushersCopying
      BY <1>11 DEF PopLock, pvars, PushersCopying
    <2>4. QED
      BY <1>0, <1>11, <2>2, <2>3 DEF CountsOK, PoppersMoved, Change, TypeOK, PopLock, shared
  <1>12. ASSUME NEW c \in Consumers, PopUnlock(c) PROVE CountsMatchHistories'
    <2>1. cpc' = [cpc EXCEPT ![c] = "copy"] /\ "copy" \in PC /\ cpc[c] = "crit"
      BY <1>12 DEF PopUnlock, PC
    <2>2. PoppersMoved("crit", "copy")
      BY <2>1, PoppersMove
    <2>3. UNCHANGED PushersCopying
      BY <1>12 DEF PopUnlock, pvars, PushersCopying
    <2>4. QED
      BY <1>0, <1>12, <2>2, <2>3 DEF CountsOK, PoppersMoved, Change, TypeOK, PopUnlock, shared
  <1>13. ASSUME NEW c \in Consumers, PopCopy(c) PROVE CountsMatchHistories'
    <2>1. cpc' = [cpc EXCEPT ![c] = "post"] /\ "post" \in PC /\ cpc[c] = "copy"
      BY <1>13 DEF PopCopy, PC
    <2>2. PoppersMoved("copy", "post")
      BY <2>1, PoppersMove
    <2>3. UNCHANGED PushersCopying
      BY <1>13 DEF PopCopy, pvars, PushersCopying
    <2>4. QED
      BY <1>0, <1>13, <2>2, <2>3 DEF CountsOK, PoppersMoved, Change, TypeOK, PopCopy, shared
  <1>14. ASSUME NEW c \in Consumers, PopPost(c) PROVE CountsMatchHistories'
    <2>1. cpc' = [cpc EXCEPT ![c] = "idle"] /\ "idle" \in PC /\ cpc[c] = "post"
      BY <1>14 DEF PopPost, PC
    <2>2. PoppersMoved("post", "idle")
      BY <2>1, PoppersMove
    <2>3. UNCHANGED PushersCopying
      BY <1>14 DEF PopPost, pvars, PushersCopying
    <2>4. QED
      BY <1>0, <1>14, <2>2, <2>3 DEF CountsOK, PoppersMoved, Change, TypeOK, PopPost, shared
  <1>15. CASE UNCHANGED vars
    BY <1>15 DEF vars, shared, pvars, cvars, PushersCopying, PoppersCopying
  <1>16. QED
    BY <1>1, <1>2, <1>3, <1>4, <1>5, <1>6, <1>7, <1>8, <1>9, <1>10, <1>11,
       <1>12, <1>13, <1>14, <1>15 DEF Next, PushStep, PopStep

(* The counters match the histories in every reachable state.              *)
LEMMA HistoriesInvariant == Spec => []CountsMatchHistories
  <1>1. Init => CountsMatchHistories
    <2> SUFFICES ASSUME Init PROVE CountsMatchHistories
      OBVIOUS
    <2>1. Among(ppc, {"copy"}) = {} /\ Among(cpc, {"copy"}) = {}
      BY DEF Init, Among
    <2>2. PushersCopying = 0 /\ PoppersCopying = 0
      BY <2>1, FS_EmptySet DEF PushersCopying, PoppersCopying
    <2>3. QED
      BY <2>2 DEF Init, CountsMatchHistories
  <1>2. QED
    BY <1>1, HistoriesInductive, TypeCorrect, PTL DEF Spec
=============================================================================
