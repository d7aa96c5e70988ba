--------------------------- MODULE WorkItem_proofs ---------------------------
(***************************************************************************)
(* The checksum of a work item, for any number of words, any width, any    *)
(* pattern and any number of changed bits: what validate accepts.          *)
(*                                                                         *)
(* The argument counts: a bit of an exclusive or of words is one if it is  *)
(* one in an odd number of the words, and a bit of the checksum depends on *)
(* two bits of that.                                                       *)
(***************************************************************************)
EXTENDS WorkItem, FiniteSetTheorems, TLAPS

(* The two bits of a word, before the rotation, that bit b of the checksum *)
(* is made of.                                                             *)
Low(b) == IF b = 0 THEN 2 * HalfWidth - 1 ELSE b - 1
High(b) == b + HalfWidth - 1

(* The words of d before word n in which bit p is one.                     *)
Ones(d, p, n) == {s \in Segments : s < n /\ p \in d[s]}

(* Bit p of the exclusive or of all the words and the pattern.             *)
ColumnOdd(d, p) == Odd(Ones(d, p, DATA_SEG_COUNT)) # (p \in CHECKSUM_PATTERN)

(* Bit b of the checksum of d.                                             *)
LaneOdd(d, b) == ColumnOdd(d, Low(b)) # ColumnOdd(d, High(b))

(* The data as it was before the bits changed.                             *)
Original == [s \in Segments |-> Xor(m_data[s], {b \in Bits : <<s, b>> \in errors})]

(* result is the exclusive or of the words before i.                       *)
LoopInv == \A p \in Bits : p \in result <=> Odd(Ones(m_data, p, i))

(* What arrives as the checksum is that of the original data, but for the  *)
(* bits of it that have changed.                                           *)
ChecksumInv ==
    /\ pc = "transit" => i = DATA_SEG_COUNT /\ \A b \in ChecksumBits : b \in m_checksum <=> LaneOdd(m_data, b)
    /\ pc \in {"validate", "done"} =>
          \A b \in ChecksumBits : b \in m_checksum <=> (LaneOdd(Original, b) # (<<DATA_SEG_COUNT, b>> \in errors))
    /\ pc = "done" =>
          (valid <=> \A b \in ChecksumBits : b \in m_checksum <=> LaneOdd(m_data, b))

WorkItemInv == TypeOK /\ LoopInv /\ ChecksumInv

-----------------------------------------------------------------------------
(* Parity.                                                                 *)

(* A union of sets that have nothing in common.                            *)
LEMMA DisjointUnion ==
    ASSUME NEW S, NEW T, IsFiniteSet(S), IsFiniteSet(T), S \cap T = {}
    PROVE  IsFiniteSet(S \cup T) /\ Cardinality(S \cup T) = Cardinality(S) + Cardinality(T)
  <1>1. Cardinality({}) = 0 /\ Cardinality(S) \in Nat /\ Cardinality(T) \in Nat
    BY FS_EmptySet, FS_CardinalityType
  <1>2. IsFiniteSet(S \cup T) /\ Cardinality(S \cup T) = Cardinality(S) + Cardinality(T) - Cardinality(S \cap T)
    BY FS_Union
  <1>3. Cardinality(S \cap T) = 0
    BY <1>1
  <1>4. QED
    BY <1>1, <1>2, <1>3

(* Exclusive or adds the parities.                                         *)
LEMMA OddXor ==
    ASSUME NEW S, NEW T, IsFiniteSet(S), IsFiniteSet(T)
    PROVE  IsFiniteSet(Xor(S, T)) /\ (Odd(Xor(S, T)) <=> (Odd(S) # Odd(T)))
  <1> DEFINE a == Cardinality(S \ T)
             b == Cardinality(T \ S)
             k == Cardinality(S \cap T)
  <1>1. IsFiniteSet(S \ T) /\ IsFiniteSet(T \ S) /\ IsFiniteSet(S \cap T)
    BY FS_Difference, FS_Intersection
  <1>2. a \in Nat /\ b \in Nat /\ k \in Nat
    BY <1>1, FS_CardinalityType
  <1>3. Cardinality(S) = a + k /\ Cardinality(T) = b + k
    <2>1. /\ S = (S \ T) \cup (S \cap T) /\ (S \ T) \cap (S \cap T) = {}
          /\ T = (T \ S) \cup (S \cap T) /\ (T \ S) \cap (S \cap T) = {}
      OBVIOUS
    <2>2. Cardinality((S \ T) \cup (S \cap T)) = a + k /\ Cardinality((T \ S) \cup (S \cap T)) = b + k
      BY <1>1, <2>1, DisjointUnion
    <2>3. QED
      BY <2>1, <2>2
  <1>4. IsFiniteSet(Xor(S, T)) /\ Cardinality(Xor(S, T)) = a + b
    BY <1>1, DisjointUnion DEF Xor
  <1>5. QED
    BY <1>2, <1>3, <1>4 DEF Odd

(* Words, places and errors are finite.                                    *)
LEMMA Finite ==
    /\ IsFiniteSet(Segments)
    /\ \A e \in SUBSET (DataPlaces \cup ChecksumPlaces) : IsFiniteSet(e)
  <1>1. IsFiniteSet(Segments) /\ IsFiniteSet(Bits) /\ IsFiniteSet(ChecksumBits)
    <2>1. 0 \in Int /\ DATA_SEG_COUNT - 1 \in Int /\ 2 * HalfWidth - 1 \in Int /\ HalfWidth - 1 \in Int
      BY WorkItemAssumption
    <2>2. QED
      BY <2>1, FS_Interval DEF Segments, Bits, ChecksumBits
  <1>2. IsFiniteSet(DataPlaces) /\ IsFiniteSet(ChecksumPlaces)
    BY <1>1, FS_Product, FS_Singleton DEF DataPlaces, ChecksumPlaces
  <1>3. IsFiniteSet(DataPlaces \cup ChecksumPlaces)
    BY <1>2, FS_Union
  <1>4. QED
    BY <1>1, <1>3, FS_Subset

(* The set Ones is finite, empty before the first word, and each word      *)
(* with a one adds to it.                                                  *)
LEMMA OnesFinite ==
    ASSUME NEW d, NEW p, NEW n \in Nat
    PROVE  /\ IsFiniteSet(Ones(d, p, n)) /\ ~Odd(Ones(d, p, 0))
           /\ n < DATA_SEG_COUNT => (Odd(Ones(d, p, n + 1)) <=> (Odd(Ones(d, p, n)) # (p \in d[n])))
  <1>1. IsFiniteSet(Ones(d, p, n))
    BY Finite, FS_Subset DEF Ones
  <1>2. ~Odd(Ones(d, p, 0))
    <2>1. Ones(d, p, 0) = {}
      BY WorkItemAssumption DEF Ones, Segments
    <2>2. QED
      BY <2>1, FS_EmptySet DEF Odd
  <1>3. ASSUME n < DATA_SEG_COUNT PROVE Odd(Ones(d, p, n + 1)) <=> (Odd(Ones(d, p, n)) # (p \in d[n]))
    <2>1. n \in Segments /\ n \notin Ones(d, p, n)
      BY <1>3, WorkItemAssumption DEF Segments, Ones
    <2>2. CASE p \in d[n]
      <3>1. Ones(d, p, n + 1) = Ones(d, p, n) \cup {n}
        BY <2>1, <2>2, WorkItemAssumption DEF Ones, Segments
      <3>2. Cardinality(Ones(d, p, n + 1)) = Cardinality(Ones(d, p, n)) + 1
        BY <1>1, <2>1, <3>1, FS_AddElement
      <3>3. Cardinality(Ones(d, p, n)) \in Nat
        BY <1>1, FS_CardinalityType
      <3>4. QED
        BY <2>2, <3>2, <3>3 DEF Odd
    <2>3. CASE p \notin d[n]
      <3>1. Ones(d, p, n + 1) = Ones(d, p, n)
        BY <2>1, <2>3, WorkItemAssumption DEF Ones, Segments
      <3>2. QED
        BY <2>3, <3>1 DEF Odd
    <2>4. QED
      BY <2>2, <2>3
  <1>4. QED
    BY <1>1, <1>2, <1>3

-----------------------------------------------------------------------------
(* What the end of generateChecksum computes.                              *)

(* The two bits of a lane are bits of a word, and different ones.          *)
LEMMA LaneBits ==
    ASSUME NEW b \in ChecksumBits
    PROVE  Low(b) \in Bits /\ High(b) \in Bits /\ Low(b) # High(b)
  BY WorkItemAssumption DEF ChecksumBits, Bits, Low, High

(* After rotation and folding, bit b depends on the two bits of its lane.  *)
LEMMA ChecksumBit ==
    ASSUME NEW x \in SUBSET Bits, NEW b \in ChecksumBits
    PROVE  b \in Checksum(x) <=> ((Low(b) \in Xor(x, CHECKSUM_PATTERN)) # (High(b) \in Xor(x, CHECKSUM_PATTERN)))
  <1> DEFINE y == Xor(x, CHECKSUM_PATTERN)
  <1>1. y \in SUBSET Bits
    BY WorkItemAssumption DEF Xor
  <1> HIDE DEF y
  <1>2. \A q \in Bits : q \in RotateLeft(y) <=> (IF q = 0 THEN 2 * HalfWidth - 1 \in y ELSE q - 1 \in y)
    BY <1>1, WorkItemAssumption DEF RotateLeft, Bits
  <1>3. b \in RotateLeft(y) <=> Low(b) \in y
    BY <1>2, WorkItemAssumption DEF Low, ChecksumBits, Bits
  <1>4. b + HalfWidth \in RotateLeft(y) <=> High(b) \in y
    BY <1>2, WorkItemAssumption DEF High, ChecksumBits, Bits
  <1>5. b \in Checksum(x) <=> ((b \in RotateLeft(y)) # (b + HalfWidth \in RotateLeft(y)))
    BY DEF Checksum, FoldHalves, y
  <1>6. QED
    BY <1>3, <1>4, <1>5 DEF y

(* After the loop, the checksum of result is that of the data.             *)
LEMMA ChecksumIsLane ==
    ASSUME TypeOK, LoopInv, i = DATA_SEG_COUNT, NEW b \in ChecksumBits
    PROVE  b \in Checksum(result) <=> LaneOdd(m_data, b)
  <1>1. \A p \in Bits : p \in Xor(result, CHECKSUM_PATTERN) <=> ColumnOdd(m_data, p)
    <2> SUFFICES ASSUME NEW p \in Bits PROVE p \in Xor(result, CHECKSUM_PATTERN) <=> ColumnOdd(m_data, p)
      OBVIOUS
    <2>1. p \in result <=> Odd(Ones(m_data, p, DATA_SEG_COUNT))
      BY DEF LoopInv
    <2>2. p \in Xor(result, CHECKSUM_PATTERN) <=> ((p \in result) # (p \in CHECKSUM_PATTERN))
      BY DEF Xor
    <2>3. QED
      BY <2>1, <2>2 DEF ColumnOdd, Odd
  <1>2. Low(b) \in Bits /\ High(b) \in Bits
    BY LaneBits
  <1>3. ColumnOdd(m_data, Low(b)) \in BOOLEAN /\ ColumnOdd(m_data, High(b)) \in BOOLEAN
    BY DEF ColumnOdd
  <1>4. b \in Checksum(result) <=> ((Low(b) \in Xor(result, CHECKSUM_PATTERN)) # (High(b) \in Xor(result, CHECKSUM_PATTERN)))
    BY ChecksumBit DEF TypeOK
  <1>5. QED
    BY <1>1, <1>2, <1>3, <1>4 DEF LaneOdd

-----------------------------------------------------------------------------
(* The item is constructed, sent, changed and validated.                   *)

LEMMA WorkItemInvInit == Init => WorkItemInv
  <1> SUFFICES ASSUME Init PROVE WorkItemInv
    OBVIOUS
  <1>1. TypeOK
    <2>1. m_data \in [Segments -> SUBSET Bits] /\ {} \in SUBSET Bits /\ {} \in SUBSET ChecksumBits
      BY DEF Init
    <2>2. 0 \in 0 .. DATA_SEG_COUNT
      BY WorkItemAssumption
    <2>3. QED
      BY <2>1, <2>2 DEF Init, TypeOK
  <1>2. LoopInv
    BY OnesFinite DEF Init, LoopInv
  <1>3. ChecksumInv
    BY DEF Init, ChecksumInv
  <1>4. QED
    BY <1>1, <1>2, <1>3 DEF WorkItemInv

(* Changing the same bits once more gives back the original.               *)
LEMMA WorkItemInvTransit == ASSUME WorkItemInv, Transit PROVE WorkItemInv'
  <1> USE DEF WorkItemInv
  <1>1. PICK e \in SUBSET (DataPlaces \cup ChecksumPlaces) :
            /\ errors' = e
            /\ m_data' = [s \in Segments |-> Xor(m_data[s], {b \in Bits : <<s, b>> \in e})]
            /\ m_checksum' = Xor(m_checksum, {b \in ChecksumBits : <<DATA_SEG_COUNT, b>> \in e})
    BY DEF Transit
  <1>2. TypeOK'
    <2>1. m_data' \in [Segments -> SUBSET Bits] /\ m_checksum' \in SUBSET ChecksumBits
      BY <1>1 DEF TypeOK, Xor
    <2>2. QED
      BY <1>1, <2>1, WorkItemAssumption DEF Transit, TypeOK
  <1>3. LoopInv'
    <2>1. i' = 0 /\ result' = {}
      BY DEF Transit
    <2>2. \A p \in Bits : ~Odd(Ones(m_data', p, 0))
      BY OnesFinite
    <2>3. QED
      BY <2>1, <2>2 DEF LoopInv
  <1>4. Original' = m_data
    <2>1. \A s \in Segments : Xor(m_data'[s], {b \in Bits : <<s, b>> \in errors'}) = m_data[s]
      <3> SUFFICES ASSUME NEW s \in Segments
                   PROVE  Xor(m_data'[s], {b \in Bits : <<s, b>> \in errors'}) = m_data[s]
        OBVIOUS
      <3> DEFINE c == {b \in Bits : <<s, b>> \in e}
      <3>1. m_data'[s] = Xor(m_data[s], c) /\ {b \in Bits : <<s, b>> \in errors'} = c
        BY <1>1
      <3> HIDE DEF c
      <3>2. Xor(Xor(m_data[s], c), c) = m_data[s]
        BY DEF Xor
      <3>3. QED
        BY <3>1, <3>2
    <2>2. QED
      BY <2>1 DEF Original, TypeOK
  <1>5. ASSUME NEW b \in ChecksumBits
        PROVE  b \in m_checksum' <=> (LaneOdd(m_data, b) # (<<DATA_SEG_COUNT, b>> \in e))
    <2>1. b \in m_checksum <=> LaneOdd(m_data, b)
      BY DEF ChecksumInv, Transit
    <2>2. b \in m_checksum' <=> ((b \in m_checksum) # (<<DATA_SEG_COUNT, b>> \in e))
      BY <1>1 DEF Xor
    <2>3. QED
      BY <2>1, <2>2 DEF LaneOdd
  <1>6. ChecksumInv'
    BY <1>1, <1>4, <1>5 DEF Transit, ChecksumInv
  <1>7. QED
    BY <1>2, <1>3, <1>6

(* WorkItemInv is an inductive invariant.                                  *)
LEMMA WorkItemInvNext == WorkItemInv /\ [Next]_vars => WorkItemInv'
  <1> SUFFICES ASSUME WorkItemInv, [Next]_vars PROVE WorkItemInv'
    OBVIOUS
  <1> USE DEF WorkItemInv
  <1>1. CASE XorSegment
    <2>0. i \in Nat /\ i \in Segments /\ i < DATA_SEG_COUNT /\ m_data[i] \in SUBSET Bits
      BY <1>1, WorkItemAssumption DEF XorSegment, TypeOK, Segments
    <2>1. TypeOK'
      <3>1. result' \in SUBSET Bits /\ i' \in 0 .. DATA_SEG_COUNT
        BY <1>1, <2>0, WorkItemAssumption DEF XorSegment, TypeOK, Xor
      <3>2. QED
        BY <1>1, <3>1 DEF XorSegment, TypeOK
    <2>2. LoopInv'
      <3> SUFFICES ASSUME NEW p \in Bits PROVE p \in result' <=> Odd(Ones(m_data, p, i + 1))
        BY <1>1 DEF XorSegment, LoopInv
      <3>1. Odd(Ones(m_data, p, i + 1)) <=> (Odd(Ones(m_data, p, i)) # (p \in m_data[i]))
        BY <2>0, OnesFinite
      <3>2. p \in result' <=> ((p \in result) # (p \in m_data[i]))
        BY <1>1 DEF XorSegment, Xor
      <3>3. QED
        BY <3>1, <3>2 DEF LoopInv, Odd
    <2>3. ChecksumInv'
      <3>1. Original' = Original
        BY <1>1 DEF XorSegment, Original
      <3>2. QED
        BY <1>1, <3>1 DEF XorSegment, ChecksumInv
    <2>4. QED
      BY <2>1, <2>2, <2>3
  <1>2. CASE Send
    <2>1. \A b \in ChecksumBits : b \in m_checksum' <=> LaneOdd(m_data, b)
      BY <1>2, ChecksumIsLane DEF Send
    <2>2. m_checksum' \in SUBSET ChecksumBits
      BY <1>2 DEF Send, Checksum, FoldHalves
    <2>3. TypeOK'
      BY <1>2, <2>2 DEF Send, TypeOK
    <2>4. LoopInv'
      BY <1>2 DEF Send, LoopInv
    <2>5. ChecksumInv'
      BY <1>2, <2>1 DEF Send, ChecksumInv
    <2>6. QED
      BY <2>3, <2>4, <2>5
  <1>3. CASE Validate
    <2>1. \A b \in ChecksumBits : b \in Checksum(result) <=> LaneOdd(m_data, b)
      BY <1>3, ChecksumIsLane DEF Validate
    <2>2. Checksum(result) \in SUBSET ChecksumBits /\ m_checksum \in SUBSET ChecksumBits
      BY DEF Checksum, FoldHalves, TypeOK
    <2>3. valid' <=> \A b \in ChecksumBits : b \in m_checksum <=> LaneOdd(m_data, b)
      <3>1. valid' = (Checksum(result) = m_checksum)
        BY <1>3 DEF Validate
      <3>2. Checksum(result) = m_checksum <=> \A b \in ChecksumBits : b \in Checksum(result) <=> b \in m_checksum
        BY <2>2
      <3>3. QED
        BY <2>1, <3>1, <3>2 DEF LaneOdd
    <2>4. TypeOK'
      BY <1>3 DEF Validate, TypeOK
    <2>5. LoopInv'
      BY <1>3 DEF Validate, LoopInv
    <2>6. ChecksumInv'
      <3>1. Original' = Original
        BY <1>3 DEF Validate, Original
      <3>2. QED
        BY <1>3, <2>3, <3>1 DEF Validate, ChecksumInv
    <2>7. QED
      BY <2>4, <2>5, <2>6
  <1>4. CASE UNCHANGED vars
    <2>1. Original' = Original
      BY <1>4 DEF vars, Original
    <2>2. QED
      BY <1>4, <2>1 DEF vars, TypeOK, LoopInv, ChecksumInv
  <1>5. QED
    BY <1>1, <1>2, <1>3, <1>4, WorkItemInvTransit DEF Next, Finished

(* The inductive invariant of the checksum loop holds throughout.          *)
LEMMA WorkItemInvariant == Spec => []WorkItemInv
  BY WorkItemInvInit, WorkItemInvNext, PTL DEF Spec

(* Every variable has its type; the checksum fits its half word.           *)
THEOREM WorkItemTypeCorrect == Spec => []TypeOK
  BY WorkItemInvariant, PTL DEF WorkItemInv

-----------------------------------------------------------------------------
(* Which changes cancel out.                                               *)

(* The words of the data in which bit p has changed, and those places.     *)
Changed(p) == {s \in Segments : <<s, p>> \in errors}
ChangedPlaces(p) == {e \in errors : e[1] # DATA_SEG_COUNT /\ e[2] = p}

(* The places are as many as the words.                                    *)
LEMMA PlacesCount ==
    ASSUME TypeOK, NEW p \in Bits
    PROVE  /\ IsFiniteSet(Changed(p)) /\ IsFiniteSet(ChangedPlaces(p))
           /\ Odd(ChangedPlaces(p)) <=> Odd(Changed(p))
  <1>1. IsFiniteSet(Changed(p))
    BY Finite, FS_Subset DEF Changed
  <1>2. DATA_SEG_COUNT \notin Segments
    BY WorkItemAssumption DEF Segments
  <1>3. \A e \in ChangedPlaces(p) : e[1] \in Changed(p) /\ e = <<e[1], p>>
    BY DEF ChangedPlaces, Changed, TypeOK, DataPlaces, ChecksumPlaces
  <1>4. \A s \in Changed(p) : <<s, p>> \in ChangedPlaces(p)
    BY <1>2 DEF ChangedPlaces, Changed
  <1> DEFINE h == [s \in Changed(p) |-> <<s, p>>]
  <1>5. h \in Bijection(Changed(p), ChangedPlaces(p))
    <2>1. h \in [Changed(p) -> ChangedPlaces(p)]
      BY <1>4
    <2>2. \A s, r \in Changed(p) : h[s] = h[r] => s = r
      OBVIOUS
    <2>3. \A e \in ChangedPlaces(p) : \E s \in Changed(p) : h[s] = e
      BY <1>3
    <2> HIDE DEF h
    <2>4. QED
      BY <2>1, <2>2, <2>3 DEF Bijection, Injection, IsInjective, Surjection
  <1>6. ExistsBijection(Changed(p), ChangedPlaces(p))
    BY <1>5 DEF ExistsBijection
  <1>7. IsFiniteSet(ChangedPlaces(p)) /\ Cardinality(ChangedPlaces(p)) = Cardinality(Changed(p))
    BY <1>1, <1>6, FS_Bijection
  <1>8. QED
    BY <1>1, <1>7 DEF Odd

(* A column of the original differs from that of the data if an odd number *)
(* of its bits has changed.                                                *)
LEMMA ColumnChange ==
    ASSUME TypeOK, NEW p \in Bits
    PROVE  ColumnOdd(Original, p) <=> (ColumnOdd(m_data, p) # Odd(Changed(p)))
  <1> DEFINE S == Ones(m_data, p, DATA_SEG_COUNT)
             T == Changed(p)
  <1>1. Ones(Original, p, DATA_SEG_COUNT) = Xor(S, T)
    <2>1. \A s \in Segments : s < DATA_SEG_COUNT
      BY WorkItemAssumption DEF Segments
    <2>2. \A s \in Segments : p \in Original[s] <=> ((p \in m_data[s]) # (<<s, p>> \in errors))
      BY DEF Original, Xor
    <2>3. \A s : s \in Ones(Original, p, DATA_SEG_COUNT) <=> s \in Xor(S, T)
      BY <2>1, <2>2 DEF Ones, Changed, Xor
    <2>4. QED
      BY <2>3
  <1>2. IsFiniteSet(S) /\ IsFiniteSet(T)
    BY OnesFinite, PlacesCount, WorkItemAssumption
  <1> HIDE DEF S, T
  <1>3. Odd(Xor(S, T)) <=> (Odd(S) # Odd(T))
    BY <1>2, OddXor
  <1>4. QED
    BY <1>1, <1>3 DEF ColumnOdd, S, T, Odd

(* The lane of a place of the data, as Lane computes it.                   *)
LEMMA LaneOfBit ==
    ASSUME NEW p \in Bits, NEW b \in ChecksumBits
    PROVE  (p + 1) % HalfWidth = b <=> p = Low(b) \/ p = High(b)
  <1>1. p \in Nat /\ b \in Nat /\ HalfWidth \in Nat \ {0} /\ b < HalfWidth /\ p < 2 * HalfWidth
    BY WorkItemAssumption DEF Bits, ChecksumBits
  <1>2. CASE p + 1 < HalfWidth
    <2>1. (p + 1) % HalfWidth = p + 1
      BY <1>1, <1>2
    <2>2. QED
      BY <1>1, <1>2, <2>1 DEF Low, High
  <1>3. CASE p + 1 >= HalfWidth /\ p + 1 < 2 * HalfWidth
    <2>1. (p + 1) % HalfWidth = p + 1 - HalfWidth
      BY <1>1, <1>3
    <2>2. QED
      BY <1>1, <1>3, <2>1 DEF Low, High
  <1>4. CASE p + 1 = 2 * HalfWidth
    <2>1. (p + 1) % HalfWidth = 0
      BY <1>1, <1>4
    <2>2. QED
      BY <1>1, <1>4, <2>1 DEF Low, High
  <1>5. QED
    BY <1>1, <1>2, <1>3, <1>4

(* The changed bits of a lane: those of its two columns, and the one of    *)
(* the checksum itself.                                                    *)
LEMMA LaneCount ==
    ASSUME TypeOK, NEW b \in ChecksumBits
    PROVE  Odd({e \in errors : Lane(e) = b}) <=>
               ((Odd(Changed(Low(b))) # Odd(Changed(High(b)))) # (<<DATA_SEG_COUNT, b>> \in errors))
  <1> DEFINE A == ChangedPlaces(Low(b))
             B == ChangedPlaces(High(b))
             C == {e \in errors : e = <<DATA_SEG_COUNT, b>>}
  <1>0. Low(b) \in Bits /\ High(b) \in Bits /\ Low(b) # High(b)
    BY LaneBits
  <1>1. {e \in errors : Lane(e) = b} = Xor(Xor(A, B), C)
    <2>1. ASSUME NEW e \in errors PROVE Lane(e) = b <=> (e \in A \/ e \in B \/ e \in C)
      <3>1. e \in DataPlaces \/ e \in ChecksumPlaces
        BY <2>1 DEF TypeOK
      <3>2. CASE e \in DataPlaces
        <4>1. e[1] # DATA_SEG_COUNT /\ e[2] \in Bits
          BY <3>2, WorkItemAssumption DEF DataPlaces, Segments
        <4>2. Lane(e) = (e[2] + 1) % HalfWidth
          BY <4>1 DEF Lane
        <4>3. e \notin C
          BY <4>1
        <4>4. (e \in A <=> e[2] = Low(b)) /\ (e \in B <=> e[2] = High(b))
          BY <2>1, <4>1 DEF ChangedPlaces
        <4>5. QED
          BY <4>1, <4>2, <4>3, <4>4, LaneOfBit
      <3>3. CASE e \in ChecksumPlaces
        <4>1. e = <<DATA_SEG_COUNT, e[2]>> /\ e[1] = DATA_SEG_COUNT
          BY <3>3 DEF ChecksumPlaces
        <4>2. e \notin A /\ e \notin B
          BY <4>1 DEF ChangedPlaces
        <4>3. Lane(e) = b <=> e \in C
          BY <2>1, <4>1 DEF Lane
        <4>4. QED
          BY <4>2, <4>3
      <3>4. QED
        BY <3>1, <3>2, <3>3
    <2>2. A \cap B = {} /\ A \cap C = {} /\ B \cap C = {}
      BY <1>0 DEF ChangedPlaces
    <2>3. A \subseteq errors /\ B \subseteq errors /\ C \subseteq errors
      BY DEF ChangedPlaces
    <2>4. Xor(Xor(A, B), C) = A \cup B \cup C
      <3> HIDE DEF A, B, C
      <3>1. QED
        BY <2>2 DEF Xor
    <2>5. QED
      <3> HIDE DEF A, B, C
      <3>1. QED
        BY <2>1, <2>3, <2>4
  <1>2. /\ IsFiniteSet(A) /\ (Odd(A) <=> Odd(Changed(Low(b))))
        /\ IsFiniteSet(B) /\ (Odd(B) <=> Odd(Changed(High(b))))
    BY <1>0, PlacesCount
  <1>3. IsFiniteSet(C) /\ (Odd(C) <=> <<DATA_SEG_COUNT, b>> \in errors)
    <2>1. CASE <<DATA_SEG_COUNT, b>> \in errors
      <3>1. C = {<<DATA_SEG_COUNT, b>>}
        BY <2>1
      <3>2. QED
        <4>1. IsFiniteSet(C) /\ Cardinality(C) = 1
          BY <3>1, FS_Singleton
        <4>2. QED
          BY <2>1, <4>1 DEF Odd
    <2>2. CASE <<DATA_SEG_COUNT, b>> \notin errors
      <3>1. C = {}
        BY <2>2
      <3>2. QED
        BY <2>2, <3>1, FS_EmptySet DEF Odd
    <2>3. QED
      BY <2>1, <2>2
  <1> HIDE DEF A, B, C
  <1>4. IsFiniteSet(Xor(A, B)) /\ (Odd(Xor(A, B)) <=> (Odd(A) # Odd(B)))
    BY <1>2, OddXor
  <1>5. Odd(Xor(Xor(A, B), C)) <=> (Odd(Xor(A, B)) # Odd(C))
    BY <1>3, <1>4, OddXor
  <1>6. QED
    BY <1>1, <1>2, <1>3, <1>4, <1>5 DEF Odd

(* validate accepts an item exactly if in every bit of the checksum an     *)
(* even number of changes meet: no unchanged item is rejected, and no odd  *)
(* number of changed bits goes unnoticed, whatever the data, the pattern   *)
(* and the widths are (generateChecksum, validate).                        *)
THEOREM ChecksumDetects == Spec => []DetectsAllButCancelling
  <1>1. WorkItemInv => DetectsAllButCancelling
    <2> SUFFICES ASSUME WorkItemInv, pc = "done"
                 PROVE  valid <=> \A b \in ChecksumBits : ~Odd({e \in errors : Lane(e) = b})
      BY DEF DetectsAllButCancelling
    <2> USE DEF WorkItemInv
    <2>1. ASSUME NEW b \in ChecksumBits
          PROVE  (b \in m_checksum <=> LaneOdd(m_data, b)) <=> ~Odd({e \in errors : Lane(e) = b})
      <3>1. b \in m_checksum <=> (LaneOdd(Original, b) # (<<DATA_SEG_COUNT, b>> \in errors))
        BY DEF ChecksumInv
      <3>2. /\ ColumnOdd(Original, Low(b)) <=> (ColumnOdd(m_data, Low(b)) # Odd(Changed(Low(b))))
            /\ ColumnOdd(Original, High(b)) <=> (ColumnOdd(m_data, High(b)) # Odd(Changed(High(b))))
        BY ColumnChange, LaneBits
      <3>3. Odd({e \in errors : Lane(e) = b}) <=>
               ((Odd(Changed(Low(b))) # Odd(Changed(High(b)))) # (<<DATA_SEG_COUNT, b>> \in errors))
        BY LaneCount
      <3>4. /\ ColumnOdd(Original, Low(b)) \in BOOLEAN /\ ColumnOdd(Original, High(b)) \in BOOLEAN
            /\ ColumnOdd(m_data, Low(b)) \in BOOLEAN /\ ColumnOdd(m_data, High(b)) \in BOOLEAN
            /\ Odd(Changed(Low(b))) \in BOOLEAN /\ Odd(Changed(High(b))) \in BOOLEAN
        BY DEF ColumnOdd, Odd
      <3>5. QED
        BY <3>1, <3>2, <3>3, <3>4 DEF LaneOdd
    <2>2. valid <=> \A b \in ChecksumBits : b \in m_checksum <=> LaneOdd(m_data, b)
      BY DEF ChecksumInv
    <2>3. QED
      BY <2>1, <2>2
  <1>2. QED
    BY <1>1, WorkItemInvariant, PTL

=============================================================================
