------------------------------ MODULE WorkItem ------------------------------
(***************************************************************************)
(* The checksum of Chapter15/Common/WorkItem.h: a client constructs an     *)
(* item, which generates the checksum of its data; some bits change on the *)
(* way; the server generates it again and compares (validate).             *)
(*                                                                         *)
(* A word is the set of the positions of its one bits, so that exclusive   *)
(* or is symmetric difference.  The name of the item is not protected and  *)
(* left out.                                                               *)
(***************************************************************************)
EXTENDS Naturals, FiniteSets

CONSTANTS
    DATA_SEG_COUNT,    \* words in the data
    HalfWidth,         \* bits of the checksum, half of those of a word
    CHECKSUM_PATTERN,
    MaxErrors          \* bound: bits that change on the way

Segments == 0 .. DATA_SEG_COUNT - 1
Bits == 0 .. 2 * HalfWidth - 1
ChecksumBits == 0 .. HalfWidth - 1

ASSUME WorkItemAssumption ==
    /\ DATA_SEG_COUNT \in Nat /\ HalfWidth \in Nat \ {0}
    /\ CHECKSUM_PATTERN \subseteq Bits
    /\ MaxErrors \in Nat

VARIABLES
    m_data,       \* the item: on the client, then as it arrives on the server
    m_checksum,
    pc,           \* "generate" on the client, "transit", "validate" on the server, "done"
    i, result,    \* the locals of generateChecksum
    valid,        \* what validate returned
    errors        \* history: the bits that changed, <<segment, bit>>, in m_checksum
                  \*   those of the segment after the last

vars == <<m_data, m_checksum, pc, i, result, valid, errors>>

DataPlaces == Segments \X Bits
ChecksumPlaces == {DATA_SEG_COUNT} \X ChecksumBits

Xor(x, y) == (x \ y) \cup (y \ x)

-----------------------------------------------------------------------------
(* The constructor has copied the data and filled up with zeros.           *)
Init ==
    /\ m_data \in [Segments -> SUBSET Bits]
    /\ m_checksum = {}
    /\ pc = "generate"
    /\ i = 0 /\ result = {}
    /\ valid = FALSE
    /\ errors = {}

(* The loop of generateChecksum.                                           *)
XorSegment ==
    /\ pc \in {"generate", "validate"}
    /\ i < DATA_SEG_COUNT
    /\ result' = Xor(result, m_data[i])
    /\ i' = i + 1
    /\ UNCHANGED <<m_data, m_checksum, pc, valid, errors>>

(* Mutant of RotateLeft: the highest bit is shifted out.                   *)
ShiftLeft(x) == {b + 1 : b \in x \ {2 * HalfWidth - 1}}

(* Shifted by one, the highest bit coming in again below.                  *)
RotateLeft(x) ==
    LET top == 2 * HalfWidth - 1
    IN  {b + 1 : b \in x \ {top}} \cup (IF top \in x THEN {0} ELSE {})

(* Mutant of FoldHalves: both halves are kept.                             *)
FoldHalvesUnmasked(x) == {b \in Bits : (b \in x) # (b + HalfWidth \in x)}

(* (result >> 16) ^ result, of which the lower half is kept.               *)
FoldHalves(x) == {b \in ChecksumBits : (b \in x) # (b + HalfWidth \in x)}

(* What generateChecksum does after its loop.                              *)
Checksum(x) == FoldHalves(RotateLeft(Xor(x, CHECKSUM_PATTERN)))

Send ==
    /\ pc = "generate" /\ i = DATA_SEG_COUNT
    /\ m_checksum' = Checksum(result)
    /\ pc' = "transit"
    /\ UNCHANGED <<m_data, i, result, valid, errors>>

(* External: any few bits of data and checksum change.                     *)
Transit ==
    /\ pc = "transit"
    /\ \E e \in SUBSET (DataPlaces \cup ChecksumPlaces) :
          /\ Cardinality(e) <= MaxErrors
          /\ errors' = e
          /\ m_data' = [s \in Segments |-> Xor(m_data[s], {b \in Bits : <<s, b>> \in e})]
          /\ m_checksum' = Xor(m_checksum, {b \in ChecksumBits : <<DATA_SEG_COUNT, b>> \in e})
    /\ pc' = "validate" /\ i' = 0 /\ result' = {}
    /\ UNCHANGED valid

Validate ==
    /\ pc = "validate" /\ i = DATA_SEG_COUNT
    /\ valid' = (Checksum(result) = m_checksum)
    /\ pc' = "done"
    /\ UNCHANGED <<m_data, m_checksum, i, result, errors>>

Finished == pc = "done" /\ UNCHANGED vars

Next == XorSegment \/ Send \/ Transit \/ Validate \/ Finished

Spec == Init /\ [][Next]_vars

-----------------------------------------------------------------------------
(* Properties.                                                             *)

(* Every variable has its type: checksum and loop variable stay in range.  *)
TypeOK ==
    /\ m_data \in [Segments -> SUBSET Bits]
    /\ m_checksum \in SUBSET ChecksumBits
    /\ pc \in {"generate", "transit", "validate", "done"}
    /\ i \in 0 .. DATA_SEG_COUNT /\ result \in SUBSET Bits
    /\ valid \in BOOLEAN
    /\ errors \in SUBSET (DataPlaces \cup ChecksumPlaces)

(* Where a changed bit shows: the bit of the checksum it can flip.         *)
Lane(e) == IF e[1] = DATA_SEG_COUNT THEN e[2] ELSE (e[2] + 1) % HalfWidth

Odd(S) == Cardinality(S) % 2 = 1

(* validate() accepts exactly the items in which the changed bits cancel   *)
(* out in every bit of the checksum: it never rejects an unchanged item,   *)
(* it notices any single changed bit and any odd number of them, and what  *)
(* it misses comes in pairs that show in the same bit of the checksum: two *)
(* bits of the data a multiple of HalfWidth apart, or a bit of the data    *)
(* and the bit of the checksum it flips.                                   *)
DetectsAllButCancelling ==
    pc = "done" =>
        (valid <=> \A b \in ChecksumBits : ~Odd({e \in errors : Lane(e) = b}))
=============================================================================
