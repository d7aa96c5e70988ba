-------------------------- MODULE Queue_fifo_proofs --------------------------
(***************************************************************************)
(* One producer and one consumer, any number of slots: Queue is a FIFO     *)
(* queue, although push and pop copy the items outside m_lock.             *)
(***************************************************************************)
EXTENDS Queue_proofs, SequenceTheorems

-----------------------------------------------------------------------------
(* More arithmetic of the ring.                                            *)

(* Quotient and remainder are unique.                                      *)
LEMMA DivModUnique ==
    ASSUME NEW q \in Int, NEW r \in Int, NEW k \in Int, NEW t \in Int, NEW s \in Nat \ {0},
           0 <= r, r < s, 0 <= t, t < s, s * q + r = s * k + t
    PROVE  q = k /\ r = t
  <1>1. s * (q - k) = t - r
    BY Z3
  <1>2. q - k < 1
    <2> SUFFICES ASSUME q - k >= 1 PROVE FALSE
      BY Z3
    <2>1. s * (q - k) >= s
      BY Z3
    <2>2. QED
      BY <1>1, <2>1, Z3
  <1>3. q - k > -1
    <2> SUFFICES ASSUME k - q >= 1 PROVE FALSE
      BY Z3
    <2>1. s * (k - q) >= s
      BY Z3
    <2>2. s * (k - q) = r - t
      BY Z3
    <2>3. QED
      BY <2>1, <2>2, Z3
  <1>4. q = k
    BY <1>2, <1>3, Z3
  <1>5. QED
    BY <1>4, Z3

(* Two counters less than one turn apart are in different slots.           *)
LEMMA ModInjective ==
    ASSUME NEW a \in Nat, NEW b \in Nat, NEW s \in Nat \ {0}, a < b, b - a < s
    PROVE  a % s # b % s
  <1> SUFFICES ASSUME a % s = b % s PROVE FALSE
    OBVIOUS
  <1> DEFINE q == a \div s
             k == b \div s
             r == a % s
  <1>1. /\ q \in Nat /\ k \in Nat /\ r \in 0 .. s - 1
        /\ a = s * q + r /\ b = s * k + r
    BY DivMod
  <1> HIDE DEF q, k, r
  <1>2. s * (k - q) = b - a
    BY <1>1, Z3
  <1>3. k - q >= 1
    <2> SUFFICES ASSUME k - q <= 0 PROVE FALSE
      BY <1>1, Z3
    <2>1. s * (k - q) <= 0
      BY <1>1, Z3
    <2>2. QED
      BY <1>2, <2>1, Z3
  <1>4. s * (k - q) >= s
    BY <1>1, <1>3, Z3
  <1>5. QED
    BY <1>2, <1>4, Z3

(* The slot push works out from m_front and m_cur_count.                   *)
LEMMA ModPlus ==
    ASSUME NEW a \in Nat, NEW b \in Nat, NEW s \in Nat \ {0}
    PROVE  ((a % s) + b) % s = (a + b) % s
  <1> DEFINE q == a \div s
             r == a % s
             n == a + b
             m == r + b
             k == n \div s
             t == n % s
             j == m \div s
             u == m % s
             i == q + j
  <1>1. q \in Nat /\ r \in 0 .. s - 1 /\ a = s * q + r
    BY DivMod
  <1>2. n \in Nat /\ n = a + b /\ m \in Nat /\ m = r + b
    BY <1>1
  <1> HIDE DEF q, r, n, m
  <1>3. k \in Nat /\ t \in 0 .. s - 1 /\ n = s * k + t
    BY <1>2, DivMod
  <1>4. j \in Nat /\ u \in 0 .. s - 1 /\ m = s * j + u
    BY <1>2, DivMod
  <1> HIDE DEF k, t, j, u
  <1>5. i \in Nat /\ i = q + j
    BY <1>1, <1>4
  <1> HIDE DEF i
  <1>6. s * i + u = s * k + t
    BY <1>1, <1>2, <1>3, <1>4, <1>5, Z3
  <1>7. u = t
    <2>1. /\ i \in Int /\ u \in Int /\ k \in Int /\ t \in Int
          /\ 0 <= u /\ u < s /\ 0 <= t /\ t < s
      BY <1>3, <1>4, <1>5
    <2>2. QED
      BY <1>6, <2>1, DivModUnique
  <1>8. QED
    BY <1>7 DEF r, n, m, t, u

-----------------------------------------------------------------------------
(* The pipeline from push to pop: where the slots, the counters and the    *)
(* contents of the ring are, relative to what was stored and handed out.   *)
Pipeline(p, c) ==
    /\ Len(sent) = m_pushed_count - (IF ppc[p] = "copy" THEN 1 ELSE 0)
    /\ Len(received) = m_popped_count - (IF cpc[c] = "copy" THEN 1 ELSE 0)
    /\ ppc[p] = "crit" => pslot[p] = m_pushed_count % Size
    /\ ppc[p] = "copy" => pslot[p] = Len(sent) % Size
    /\ cpc[c] = "copy" => cslot[c] = Len(received) % Size
    /\ ppc[p] # "idle" => arg[p] \in Items
    /\ \A k \in Len(received) .. Len(sent) - 1 : m_arr[k % Size] = sent[k + 1]
    /\ \A i \in 1 .. Len(received) : received[i] = sent[i]

(* The items in the ring, and room for the one being copied.               *)
Window(p, c) ==
    /\ Len(sent) \in Nat /\ Len(received) \in Nat
    /\ Len(received) <= Len(sent)
    /\ Len(sent) - Len(received) <= Size
    /\ cpc[c] = "copy" => Len(received) < Len(sent)
    /\ ppc[p] = "copy" => Len(sent) - Len(received) < Size

(* One producer, and one consumer at work.                                 *)
OneAtWork(p, c) ==
    /\ Producers = {p} /\ c \in Consumers
    /\ \A d \in Consumers \ {c} : cpc[d] = "idle"

(* With one thread of a kind at work, the counts say in which stages it    *)
(* is.                                                                     *)
LEMMA OneThread ==
    ASSUME NEW T, NEW x \in T, NEW pc \in [T -> PC], \A y \in T \ {x} : pc[y] = "idle", NEW S, "idle" \notin S
    PROVE  Cardinality(Among(pc, S)) = IF pc[x] \in S THEN 1 ELSE 0
  <1>1. CASE pc[x] \in S
    <2>1. Among(pc, S) = {x}
      BY <1>1 DEF Among
    <2>2. QED
      BY <1>1, <2>1, FS_Singleton
  <1>2. CASE pc[x] \notin S
    <2>1. Among(pc, S) = {}
      BY <1>2 DEF Among
    <2>2. QED
      BY <1>2, <2>1, FS_EmptySet
  <1>3. QED
    BY <1>1, <1>2

Bit(b) == IF b THEN 1 ELSE 0

(* How many of two things are in a set, and how many of three.             *)
LEMMA OfTwo ==
    ASSUME NEW x, NEW y, x # y, NEW S, S \subseteq {x, y}
    PROVE  IsFiniteSet(S) /\ Cardinality(S) = Bit(x \in S) + Bit(y \in S)
  <1> DEFINE T == S \cap {x}
  <1>1. IsFiniteSet(T) /\ Cardinality(T) = Bit(x \in S)
    <2>1. CASE x \in S
      <3>1. T = {x}
        BY <2>1
      <3>2. IsFiniteSet({x}) /\ Cardinality({x}) = 1
        BY FS_Singleton
      <3>3. QED
        BY <2>1, <3>1, <3>2 DEF Bit
    <2>2. CASE x \notin S
      <3>1. T = {}
        BY <2>2
      <3>2. QED
        BY <2>2, <3>1, FS_EmptySet DEF Bit
    <2>3. QED
      BY <2>1, <2>2
  <1>2. CASE y \in S
    <2>1. S = T \cup {y} /\ y \notin T
      BY <1>2
    <2>2. QED
      BY <1>1, <1>2, <2>1, FS_AddElement DEF Bit
  <1>3. CASE y \notin S
    <2>1. S = T
      BY <1>3
    <2>2. QED
      BY <1>1, <1>3, <2>1 DEF Bit
  <1>4. QED
    BY <1>2, <1>3

(* The same for three elements.                                            *)
LEMMA OfThree ==
    ASSUME NEW x, NEW y, NEW z, x # y, x # z, y # z, NEW S, S \subseteq {x, y, z}
    PROVE  Cardinality(S) = Bit(x \in S) + Bit(y \in S) + Bit(z \in S)
  <1> DEFINE T == S \cap {x, y}
  <1>1. IsFiniteSet(T) /\ Cardinality(T) = Bit(x \in S) + Bit(y \in S)
    <2>1. T \subseteq {x, y} /\ (x \in T <=> x \in S) /\ (y \in T <=> y \in S)
      OBVIOUS
    <2> HIDE DEF T
    <2>2. IsFiniteSet(T) /\ Cardinality(T) = Bit(x \in T) + Bit(y \in T)
      BY <2>1, OfTwo
    <2>3. QED
      BY <2>1, <2>2 DEF Bit
  <1>2. CASE z \in S
    <2>1. S = T \cup {z} /\ z \notin T
      BY <1>2
    <2>2. QED
      BY <1>1, <1>2, <2>1, FS_AddElement DEF Bit
  <1>3. CASE z \notin S
    <2>1. S = T
      BY <1>3
    <2>2. QED
      BY <1>1, <1>3, <2>1 DEF Bit
  <1>4. QED
    BY <1>2, <1>3

(* With one producer and two consumers, how many calls hold what follows   *)
(* from where the three threads are.                                       *)
LEMMA InCalls ==
    ASSUME NEW p, NEW c, NEW d, Producers = {p}, Consumers = {c, d}, c # d, TypeOK
    PROVE  /\ PushersInside = Bit(ppc[p] \in {"crit"})
           /\ PushersHolding = Bit(ppc[p] \in {"lock", "crit", "copy", "post"})
           /\ PushersCopying = Bit(ppc[p] \in {"copy"})
           /\ PoppersInside = Bit(cpc[c] \in {"crit"}) + Bit(cpc[d] \in {"crit"})
           /\ PoppersHolding = Bit(cpc[c] \in {"lock", "crit", "copy", "post"})
                                 + Bit(cpc[d] \in {"lock", "crit", "copy", "post"})
           /\ PoppersCopying = Bit(cpc[c] \in {"copy"}) + Bit(cpc[d] \in {"copy"})
           /\ PoppersCounted = Bit(cpc[c] \in {"lock", "crit"}) + Bit(cpc[d] \in {"lock", "crit"})
  <1>0. ppc \in [{p} -> PC] /\ cpc \in [{c, d} -> PC]
    BY DEF TypeOK
  <1>1. ASSUME NEW S, "idle" \notin S
        PROVE  /\ Cardinality(Among(ppc, S)) = Bit(ppc[p] \in S)
               /\ Cardinality(Among(cpc, S)) = Bit(cpc[c] \in S) + Bit(cpc[d] \in S)
    <2>1. Cardinality(Among(ppc, S)) = Bit(ppc[p] \in S)
      BY <1>0, <1>1, OneThread DEF Bit
    <2> DEFINE A == Among(cpc, S)
    <2>2. A \subseteq {c, d} /\ (c \in A <=> cpc[c] \in S) /\ (d \in A <=> cpc[d] \in S)
      BY <1>0 DEF Among
    <2> HIDE DEF A
    <2>3. Cardinality(A) = Bit(c \in A) + Bit(d \in A)
      BY <2>2, OfTwo
    <2>4. Cardinality(Among(cpc, S)) = Bit(cpc[c] \in S) + Bit(cpc[d] \in S)
      BY <2>2, <2>3 DEF A, Bit
    <2>5. QED
      BY <2>1, <2>4
  <1>2. /\ "idle" \notin {"crit"} /\ "idle" \notin {"copy"} /\ "idle" \notin {"lock", "crit"}
        /\ "idle" \notin {"lock", "crit", "copy", "post"}
    OBVIOUS
  <1>3. QED
    BY <1>1, <1>2
    DEF PushersInside, PushersHolding, PushersCopying, PoppersInside, PoppersHolding, PoppersCopying,
        PoppersCounted

(* The tokens keep the producer less than one turn ahead of the consumer.  *)
LEMMA WindowHolds ==
    ASSUME NEW P, NEW C, OneAtWork(P, C), Accounting, Pipeline(P, C)
    PROVE  Window(P, C)
  <1>1. /\ TypeOK /\ ppc \in [{P} -> PC] /\ cpc \in [Consumers -> PC] /\ C \in Consumers
        /\ m_push_sem \in Nat /\ m_pop_sem \in Nat
        /\ m_pushed_count \in Nat /\ m_popped_count \in Nat
        /\ Len(sent) \in Nat /\ Len(received) \in Nat
    BY DEF Accounting, TypeOK, OneAtWork
  <1>2. /\ PushersHolding = IF ppc[P] \in {"lock", "crit", "copy", "post"} THEN 1 ELSE 0
        /\ PushersCounted = IF ppc[P] \in {"copy", "post"} THEN 1 ELSE 0
    <2>1. ASSUME NEW S, "idle" \notin S PROVE Cardinality(Among(ppc, S)) = IF ppc[P] \in S THEN 1 ELSE 0
      BY <1>1, <2>1, OneThread
    <2>2. QED
      BY <2>1 DEF PushersHolding, PushersCounted
  <1>3. /\ PoppersHolding = IF cpc[C] \in {"lock", "crit", "copy", "post"} THEN 1 ELSE 0
        /\ PoppersCounted = IF cpc[C] \in {"lock", "crit"} THEN 1 ELSE 0
    <2>1. ASSUME NEW S, "idle" \notin S PROVE Cardinality(Among(cpc, S)) = IF cpc[C] \in S THEN 1 ELSE 0
      BY <1>1, <2>1, OneThread DEF OneAtWork
    <2>2. QED
      BY <2>1 DEF PoppersHolding, PoppersCounted
  <1>4. /\ m_push_sem + m_pop_sem + PushersHolding + PoppersHolding = Size
        /\ m_pushed_count - m_popped_count = m_pop_sem + PushersCounted + PoppersCounted
    BY DEF Accounting, TokenConservation, CountIsTokens
  <1>5. /\ Len(sent) = m_pushed_count - (IF ppc[P] = "copy" THEN 1 ELSE 0)
        /\ Len(received) = m_popped_count - (IF cpc[C] = "copy" THEN 1 ELSE 0)
    BY DEF Pipeline
  <1>6. QED
    BY <1>1, <1>2, <1>3, <1>4, <1>5, QueueAssumption DEF Window

(* pop hands out the oldest item: its slot is not one being stored to.     *)
LEMMA HandsOutOldest ==
    ASSUME NEW P, NEW C, OneAtWork(P, C),
           TypeOK, Pipeline(P, C), Window(P, C), PopCopy(C)
    PROVE  /\ received' = Append(received, sent[Len(received) + 1])
           /\ Len(received) < Len(sent)
  <1>1. /\ Len(sent) \in Nat /\ Len(received) \in Nat
        /\ Len(received) < Len(sent)
        /\ cslot[C] = Len(received) % Size
    BY DEF Window, Pipeline, PopCopy
  <1>2. ppc[P] = "copy" => pslot[P] # cslot[C]
    <2> SUFFICES ASSUME ppc[P] = "copy" PROVE pslot[P] # cslot[C]
      OBVIOUS
    <2>1. pslot[P] = Len(sent) % Size /\ Len(sent) - Len(received) < Size
      BY DEF Pipeline, Window
    <2>2. Len(received) % Size # Len(sent) % Size
      BY <1>1, <2>1, ModInjective, QueueAssumption
    <2>3. QED
      BY <1>1, <2>1, <2>2
  <1>3. received' = Append(received, m_arr[cslot[C]])
    BY <1>2 DEF PopCopy, OneAtWork
  <1>4. m_arr[Len(received) % Size] = sent[Len(received) + 1]
    BY <1>1 DEF Pipeline
  <1>5. QED
    BY <1>1, <1>3, <1>4

(* A step of the only producer or of the only consumer at work keeps the   *)
(* pipeline.                                                               *)
LEMMA PipelineInductive ==
    ASSUME NEW P, NEW C, OneAtWork(P, C), OneAtWork(P, C)',
           Accounting, Pipeline(P, C), [Next]_vars
    PROVE  Pipeline(P, C)'
  <1>0. /\ TypeOK /\ Window(P, C) /\ P \in Producers /\ C \in Consumers
        /\ Size \in Nat \ {0} /\ Producers = {P}
    BY WindowHolds, QueueAssumption DEF Accounting, OneAtWork
  <1>1. ASSUME NEW t \in Items, PushCall(P, t) PROVE Pipeline(P, C)'
    BY <1>0, <1>1 DEF Pipeline, TypeOK, PushCall, shared, sems, cvars
  <1>2. ASSUME PushTimedOut(P) PROVE Pipeline(P, C)'
    BY <1>0, <1>2 DEF Pipeline, TypeOK, PushTimedOut, shared, sems, cvars
  <1>3. ASSUME PushClaim(P) PROVE Pipeline(P, C)'
    BY <1>0, <1>3 DEF Pipeline, TypeOK, PushClaim, shared, cvars
  <1>4. ASSUME PushLock(P) PROVE Pipeline(P, C)'
    <2>1. ((m_popped_count % Size) + m_cur_count) % Size = (m_popped_count + m_cur_count) % Size
      <3>1. m_cur_count \in Nat
        BY <1>0, CountersFromAccounting DEF CountersAgree
      <3>2. QED
        BY <1>0, <3>1, ModPlus DEF TypeOK
    <2>2. (m_front + m_cur_count) % Size = m_pushed_count % Size
      <3>1. m_front = m_popped_count % Size /\ m_cur_count = m_pushed_count - m_popped_count
        BY DEF Accounting
      <3>2. m_popped_count + m_cur_count = m_pushed_count
        BY <1>0, <3>1 DEF TypeOK
      <3>3. QED
        BY <2>1, <3>1, <3>2
    <2>3. QED
      BY <1>0, <1>4, <2>2 DEF Pipeline, TypeOK, PushLock, shared, cvars
  <1>5. ASSUME PushUnlock(P) PROVE Pipeline(P, C)'
    <2>1. /\ Len(sent) = m_pushed_count /\ pslot[P] = m_pushed_count % Size
          /\ m_pushed_count \in Nat /\ ppc'[P] = "copy"
      BY <1>0, <1>5 DEF Pipeline, TypeOK, PushUnlock
    <2>2. UNCHANGED <<sent, received, m_arr, pslot, arg, cpc, cslot, m_popped_count>>
      BY <1>5 DEF PushUnlock, cvars
    <2>3. m_pushed_count' = m_pushed_count + 1 /\ ppc[P] = "crit"
      BY <1>5 DEF PushUnlock
    <2>4. QED
      BY <2>1, <2>2, <2>3 DEF Pipeline
  <1>6. ASSUME PushCopy(P) PROVE Pipeline(P, C)'
    <2> DEFINE n == Len(sent)
               m == Len(received)
    <2>1. /\ m_arr' = [m_arr EXCEPT ![n % Size] = arg[P]]
          /\ n % Size \in Slots
      BY <1>0, <1>6, ZenonT(40) DEF PushCopy, Pipeline, TypeOK
    <2>2. /\ Len(sent') = n + 1
          /\ sent'[n + 1] = arg[P]
          /\ \A i \in 1 .. n : sent'[i] = sent[i]
      BY <1>0, <1>6 DEF PushCopy, TypeOK
    <2>3. n \in Nat /\ m \in Nat /\ m <= n /\ n - m < Size
      BY <1>0, <1>6 DEF Window, PushCopy
    <2>4. \A k \in m .. n - 1 : m_arr[k % Size] = sent[k + 1]
      BY DEF Pipeline
    <2>5. received' = received /\ \A i \in 1 .. m : received[i] = sent[i]
      BY <1>6 DEF PushCopy, Pipeline
    <2>6. m_arr \in [Slots -> Items \cup {Garbage}]
      BY <1>0 DEF TypeOK
    <2> HIDE DEF n, m
    <2>7. ASSUME NEW k \in m .. n PROVE m_arr'[k % Size] = sent'[k + 1]
      <3>1. CASE k = n
        BY <2>1, <2>2, <2>6, <3>1
      <3>2. CASE k # n
        <4>1. k \in Nat /\ k < n /\ n - k < Size
          BY <1>0, <2>3, <3>2
        <4>2. k % Size # n % Size
          BY <1>0, <2>3, <4>1, ModInjective
        <4>3. k % Size \in Slots
          BY <1>0, <4>1, DivMod DEF Slots
        <4>4. m_arr'[k % Size] = m_arr[k % Size]
          BY <2>1, <2>6, <4>2, <4>3
        <4>5. m_arr[k % Size] = sent[k + 1]
          BY <2>3, <2>4, <4>1
        <4>6. sent'[k + 1] = sent[k + 1]
          BY <2>2, <2>3, <4>1
        <4>7. QED
          BY <4>4, <4>5, <4>6
      <3>3. QED
        BY <3>1, <3>2
    <2>8. \A k \in Len(received') .. Len(sent') - 1 : m_arr'[k % Size] = sent'[k + 1]
      BY <2>2, <2>3, <2>5, <2>7 DEF m
    <2>9. \A i \in 1 .. Len(received') : received'[i] = sent'[i]
      BY <2>2, <2>3, <2>5 DEF m
    <2>10. /\ ppc[P] = "copy" /\ ppc'[P] = "post"
           /\ UNCHANGED <<m_pushed_count, m_popped_count, arg, cpc, cslot>>
      BY <1>0, <1>6 DEF PushCopy, TypeOK, shared, cvars
    <2>11. n + 1 = m_pushed_count
      BY <1>0, <2>3, <2>10 DEF Pipeline, TypeOK, n
    <2>12. QED
      BY <2>2, <2>5, <2>8, <2>9, <2>10, <2>11 DEF Pipeline
  <1>7. ASSUME PushPost(P) PROVE Pipeline(P, C)'
    BY <1>0, <1>7 DEF Pipeline, TypeOK, PushPost, shared, cvars
  <1>8. ASSUME PopCall(C) PROVE Pipeline(P, C)'
    BY <1>0, <1>8 DEF Pipeline, TypeOK, PopCall, shared, sems, pvars
  <1>9. ASSUME PopTimedOut(C) PROVE Pipeline(P, C)'
    BY <1>0, <1>9 DEF Pipeline, TypeOK, PopTimedOut, shared, sems, pvars
  <1>10. ASSUME PopClaim(C) PROVE Pipeline(P, C)'
    BY <1>0, <1>10 DEF Pipeline, TypeOK, PopClaim, shared, pvars
  <1>11. ASSUME PopLock(C) PROVE Pipeline(P, C)'
    BY <1>0, <1>11 DEF Pipeline, TypeOK, PopLock, shared, pvars
  <1>12. ASSUME PopUnlock(C) PROVE Pipeline(P, C)'
    <2>1. cslot[C] = m_popped_count % Size
      BY <1>0, <1>12 DEF PopUnlock, Accounting, MutualExclusion
    <2>2. /\ Len(received) = m_popped_count /\ m_popped_count \in Nat
          /\ cpc[C] = "crit" /\ cpc'[C] = "copy"
      BY <1>0, <1>12 DEF Pipeline, TypeOK, PopUnlock
    <2>3. /\ UNCHANGED <<sent, received, m_arr, ppc, pslot, arg, cslot, m_pushed_count>>
          /\ m_popped_count' = m_popped_count + 1
      BY <1>12 DEF PopUnlock, pvars
    <2>4. QED
      BY <2>1, <2>2, <2>3 DEF Pipeline
  <1>13. ASSUME PopCopy(C) PROVE Pipeline(P, C)'
    <2>1. /\ received' = Append(received, sent[Len(received) + 1])
          /\ Len(received) < Len(sent)
      BY <1>0, <1>13, HandsOutOldest
    <2>2. /\ Len(received') = Len(received) + 1
          /\ received'[Len(received) + 1] = sent[Len(received) + 1]
          /\ \A i \in 1 .. Len(received) : received'[i] = received[i]
      BY <1>0, <2>1 DEF TypeOK
    <2>3. \A k \in Len(received') .. Len(sent') - 1 : m_arr'[k % Size] = sent'[k + 1]
      <3>1. \A k \in Len(received) + 1 .. Len(sent) - 1 : k \in Len(received) .. Len(sent) - 1
        BY <1>0 DEF Window
      <3>2. UNCHANGED <<m_arr, sent>>
        BY <1>13 DEF PopCopy
      <3>3. QED
        BY <2>2, <3>1, <3>2 DEF Pipeline
    <2>4. \A i \in 1 .. Len(received') : received'[i] = sent'[i]
      BY <1>0, <1>13, <2>2 DEF Pipeline, PopCopy, Window
    <2>5. /\ cpc[C] = "copy" /\ cpc'[C] = "post"
          /\ UNCHANGED <<m_pushed_count, m_popped_count, sent, ppc, pslot, arg>>
      BY <1>0, <1>13 DEF PopCopy, TypeOK, shared, pvars
    <2>6. Len(received) + 1 = m_popped_count
      BY <1>0, <2>5 DEF Pipeline, TypeOK, Window
    <2>7. QED
      BY <2>2, <2>3, <2>4, <2>5, <2>6 DEF Pipeline
  <1>14. ASSUME PopPost(C) PROVE Pipeline(P, C)'
    BY <1>0, <1>14 DEF Pipeline, TypeOK, PopPost, shared, pvars
  <1>15. CASE UNCHANGED vars
    BY <1>15 DEF Pipeline, vars, shared, sems, pvars, cvars
  <1>16. ASSUME NEW d \in Consumers, d # C, PopCall(d) \/ PopStep(d) PROVE FALSE
    <2>1. cpc[d] = "idle" /\ cpc'[d] = "idle"
      BY <1>16 DEF OneAtWork
    <2>2. cpc \in [Consumers -> PC]
      BY <1>0 DEF TypeOK
    <2>3. QED
      BY <1>16, <2>1, <2>2 DEF PopCall, PopStep, PopTimedOut, PopClaim, PopLock, PopUnlock, PopCopy, PopPost
  <1>17. QED
    BY <1>0, <1>1, <1>2, <1>3, <1>4, <1>5, <1>6, <1>7, <1>8, <1>9, <1>10, <1>11,
       <1>12, <1>13, <1>14, <1>15, <1>16 DEF Next, PushStep, PopStep

(* The accounting and the pipeline hold in every reachable state.          *)
LEMMA PipelineInvariant ==
    ASSUME NEW P, NEW C, Producers = {P}, Consumers = {C}
    PROVE  Spec => [](Accounting /\ Pipeline(P, C))
  <1>1. Init => Pipeline(P, C)
    <2> SUFFICES ASSUME Init PROVE Pipeline(P, C)
      OBVIOUS
    <2>1. /\ ppc[P] = "idle" /\ cpc[C] = "idle"
          /\ m_pushed_count = 0 /\ m_popped_count = 0
          /\ sent = << >> /\ received = << >>
      BY DEF Init
    <2>2. Len(sent) = 0 /\ Len(received) = 0
      BY <2>1
    <2>3. 1 .. 0 = {} /\ 0 .. 0 - 1 = {}
      OBVIOUS
    <2>4. QED
      BY <2>1, <2>2, <2>3 DEF Pipeline
  <1>2. Accounting /\ Pipeline(P, C) /\ [Next]_vars => Pipeline(P, C)'
    BY PipelineInductive DEF OneAtWork
  <1>3. QED
    BY <1>1, <1>2, AccountingInvariant, PTL DEF Spec

-----------------------------------------------------------------------------
(* With one producer and one consumer no slot is stored to by push while   *)
(* pop reads it, although neither holds m_lock: the claimed tokens keep    *)
(* them in different slots.                                                *)
THEOREM NoRaceOneToOne ==
    ASSUME NEW P, NEW C, Producers = {P}, Consumers = {C}
    PROVE  Spec => []NoSlotRace
  <1>1. Accounting /\ Pipeline(P, C) => NoSlotRace
    <2> SUFFICES ASSUME Accounting, Pipeline(P, C), ppc[P] = "copy", cpc[C] = "copy"
                 PROVE  cslot[C] # pslot[P]
      BY DEF NoSlotRace
    <2>1. Window(P, C)
      BY WindowHolds DEF OneAtWork
    <2>2. /\ Len(sent) \in Nat /\ Len(received) \in Nat
          /\ Len(received) < Len(sent) /\ Len(sent) - Len(received) < Size
      BY <2>1 DEF Window
    <2>3. Len(received) % Size # Len(sent) % Size
      BY <2>2, ModInjective, QueueAssumption
    <2>4. QED
      BY <2>3 DEF Pipeline
  <1>2. QED
    BY <1>1, PipelineInvariant, PTL

(* With one producer and one consumer pop hands out what push stored, in   *)
(* that order, for every number of slots.                                  *)
THEOREM FifoOneToOne ==
    ASSUME NEW P, NEW C, Producers = {P}, Consumers = {C}
    PROVE  Spec => []FifoOrder
  <1>1. Accounting /\ Pipeline(P, C) => FifoOrder
    <2> SUFFICES ASSUME Accounting, Pipeline(P, C) PROVE FifoOrder
      OBVIOUS
    <2>1. Window(P, C)
      BY WindowHolds DEF OneAtWork
    <2>2. QED
      BY <2>1 DEF Window, Pipeline, FifoOrder
  <1>2. QED
    BY <1>1, PipelineInvariant, PTL

-----------------------------------------------------------------------------
(* Appending to the stored items appends to those still in the queue.      *)
LEMMA SubSeqAppend ==
    ASSUME NEW T, NEW s \in Seq(T), NEW e \in T, NEW m \in 0 .. Len(s)
    PROVE  SubSeq(Append(s, e), m + 1, Len(s) + 1) = Append(SubSeq(s, m + 1, Len(s)), e)
  <1> DEFINE n == Len(s)
             a == Append(s, e)
             x == SubSeq(a, m + 1, n + 1)
             y == SubSeq(s, m + 1, n)
             z == Append(y, e)
  <1>1. /\ n \in Nat /\ m \in Nat /\ m <= n
        /\ \A i \in 1 .. n : a[i] = s[i] /\ s[i] \in T
        /\ a[n + 1] = e
    OBVIOUS
  <1> HIDE DEF n, a
  <1>2. \A i \in m + 1 .. n + 1 : a[i] \in T
    BY <1>1
  <1>3. /\ x \in Seq(T) /\ Len(x) = n - m + 1
        /\ \A i \in 1 .. n - m + 1 : x[i] = a[m + i]
    BY <1>1, <1>2, SubSeqProperties
  <1>4. /\ y \in Seq(T) /\ Len(y) = n - m
        /\ \A i \in 1 .. n - m : y[i] = s[m + i]
    BY <1>1, SubSeqProperties
  <1> HIDE DEF x, y
  <1>5. /\ z \in Seq(T) /\ Len(z) = n - m + 1
        /\ \A i \in 1 .. n - m : z[i] = y[i]
        /\ z[n - m + 1] = e
    <2>1. /\ z \in Seq(T) /\ Len(z) = Len(y) + 1
          /\ \A i \in 1 .. Len(y) : z[i] = y[i]
          /\ z[Len(y) + 1] = e
      BY <1>4, AppendProperties
    <2> HIDE DEF z
    <2>2. QED
      BY <1>4, <2>1
  <1> HIDE DEF z
  <1>6. ASSUME NEW i \in 1 .. n - m + 1 PROVE x[i] = z[i]
    <2>1. CASE i = n - m + 1
      BY <1>1, <1>3, <1>5, <2>1
    <2>2. CASE i # n - m + 1
      BY <1>1, <1>3, <1>4, <1>5, <2>2
    <2>3. QED
      BY <2>1, <2>2
  <1>7. x = z
    BY <1>1, <1>3, <1>5, <1>6, SeqEqual
  <1>8. QED
    BY <1>7 DEF x, y, z, a, n

(* What the abstract queue sees of a push that stores its item.            *)
LEMMA StoreIsPut ==
    ASSUME NEW P, NEW C, Producers = {P}, Consumers = {C},
           Accounting, Pipeline(P, C), PushCopy(P)
    PROVE  Abstract!Put(arg[P]) /\ arg[P] \in Items
  <1>1. TypeOK /\ Window(P, C) /\ Size \in Nat
    BY WindowHolds, QueueAssumption DEF Accounting, OneAtWork
  <1> DEFINE T == Items \cup {Garbage}
             n == Len(sent)
             m == Len(received)
  <1>2. /\ n \in Nat /\ m \in Nat /\ m <= n /\ n - m < Size
        /\ sent \in Seq(T) /\ arg[P] \in T /\ arg[P] \in Items
    BY <1>1 DEF Window, TypeOK, PushCopy, Pipeline
  <1>3. sent' = Append(sent, arg[P]) /\ received' = received
    BY DEF PushCopy
  <1>4. InQueue = SubSeq(sent, m + 1, n) /\ Len(InQueue) = n - m
    BY <1>2 DEF InQueue
  <1>5. InQueue' = Append(InQueue, arg[P])
    <2>1. m \in 0 .. n
      BY <1>2
    <2>2. SubSeq(Append(sent, arg[P]), m + 1, n + 1) = Append(SubSeq(sent, m + 1, n), arg[P])
      BY <1>2, <2>1, SubSeqAppend
    <2>3. Len(sent') = n + 1
      BY <1>2, <1>3
    <2>4. InQueue' = SubSeq(sent', m + 1, Len(sent'))
      BY <1>3 DEF InQueue
    <2>5. QED
      BY <1>3, <1>4, <2>2, <2>3, <2>4
  <1>6. QED
    BY <1>1, <1>2, <1>3, <1>4, <1>5 DEF Abstract!Put

(* What the abstract queue sees of a pop that copies its item out.         *)
LEMMA HandOutIsGet ==
    ASSUME NEW P, NEW C, Producers = {P}, Consumers = {C},
           Accounting, Pipeline(P, C), PopCopy(C)
    PROVE  Abstract!Get
  <1>1. TypeOK /\ Window(P, C)
    BY WindowHolds DEF Accounting, OneAtWork
  <1> DEFINE T == Items \cup {Garbage}
             n == Len(sent)
             m == Len(received)
  <1>2. /\ n \in Nat /\ m \in Nat /\ m < n
        /\ sent \in Seq(T) /\ received \in Seq(T)
        /\ received' = Append(received, sent[m + 1]) /\ sent' = sent
    BY <1>1, HandsOutOldest DEF OneAtWork, Window, TypeOK, PopCopy
  <1>3. InQueue = SubSeq(sent, m + 1, n) /\ Len(InQueue) = n - m
    BY <1>2 DEF InQueue
  <1>4. InQueue # << >>
    <2>1. Len(InQueue) # 0 /\ Len(<< >>) = 0
      BY <1>2, <1>3
    <2>2. QED
      BY <2>1, Zenon
  <1>5. Len(received') = m + 1
    BY <1>2
  <1>6. InQueue' = SubSeq(sent, m + 1 + 1, n)
    BY <1>2, <1>5 DEF InQueue
  <1>7. /\ Head(SubSeq(sent, m + 1, n)) = sent[m + 1]
        /\ Tail(SubSeq(sent, m + 1, n)) = SubSeq(sent, m + 1 + 1, n)
    <2>1. m + 1 \in 1 .. Len(sent) /\ n \in m + 1 .. Len(sent)
      BY <1>2
    <2>2. QED
      BY <1>2, <2>1, HeadTailOfSubSeq
  <1>8. QED
    BY <1>2, <1>3, <1>4, <1>6, <1>7 DEF Abstract!Get

(* With one producer and one consumer Queue implements a bounded FIFO      *)
(* queue of Size items, for every Size: a push takes effect when its item  *)
(* is copied in, a pop when its item is copied out, and nothing else the   *)
(* threads do can be seen.                                                 *)
THEOREM ImplementsFifoOneToOne ==
    ASSUME NEW P, NEW C, Producers = {P}, Consumers = {C}
    PROVE  Spec => ImplementsFifo
  <1>1. Init => Abstract!FifoInit
    BY DEF Init, Abstract!FifoInit, InQueue
  <1>2. Accounting /\ Pipeline(P, C) /\ [Next]_vars => [Abstract!FifoNext]_<<InQueue, received>>
    <2> SUFFICES ASSUME Accounting, Pipeline(P, C), [Next]_vars
                 PROVE  Abstract!FifoNext \/ UNCHANGED <<InQueue, received>>
      OBVIOUS
    <2>1. ASSUME PushCopy(P) PROVE Abstract!FifoNext
      BY <2>1, StoreIsPut DEF Abstract!FifoNext
    <2>2. ASSUME PopCopy(C) PROVE Abstract!FifoNext
      BY <2>2, HandOutIsGet DEF Abstract!FifoNext
    <2>3. ASSUME UNCHANGED <<sent, received>> PROVE UNCHANGED <<InQueue, received>>
      BY <2>3 DEF InQueue
    <2>4. \/ PushCopy(P) \/ PopCopy(C) \/ UNCHANGED <<sent, received>>
      BY DEF Next, PushStep, PopStep, PushCall, PushTimedOut, PushClaim, PushLock, PushUnlock,
         PushPost, PopCall, PopTimedOut, PopClaim, PopLock, PopUnlock, PopPost, vars
    <2>5. QED
      BY <2>1, <2>2, <2>3, <2>4
  <1>3. QED
    BY <1>1, <1>2, PipelineInvariant, PTL DEF Spec, ImplementsFifo, Abstract!FifoSpec
=============================================================================
