-------------------------- MODULE BloomRingProofs --------------------------
(***************************************************************************)
(* Proofs about BloomRing for every number of slots, every capacity and    *)
(* every set of goroutines.                                                *)
(***************************************************************************)
EXTENDS BloomRing, SequenceTheorems, TLAPS

(***************************************************************************)
(* The inductive invariant.  Remembered and Forgets follow from two facts  *)
(* about each slot, in terms of its age: how many moves ago it was the     *)
(* current one.  With L salts added and c of them in the current slot, a   *)
(* slot of age a holds salts numbered above L - c - a * PerSlot, and every *)
(* recent salt is in a slot that is young enough to outlive it.            *)
(***************************************************************************)
Age(i) == IF i <= slotPosition THEN slotPosition - i
                               ELSE slotPosition + SlotCount - i

LockInv ==
  /\ \A t \in Threads : pc[t] \in {"move", "insert"} <=> lock = t
  /\ \A t \in Threads : pc[t] = "scan" <=> t \in readers
  /\ lock # None => readers = {}

(* the local variables of Add and Test agree with the ring *)
LocalInv ==
  \A t \in Threads :
    /\ pc[t] \in {"move", "insert"} => cur[t] = slotPosition
    /\ pc[t] = "insert" => entryCounter <= SlotCapacity
    /\ pc[t] = "scan" => \A i \in Slot : i < cur[t] => arg[t] \notin slots[i]

Oldest == Len(hist) - entryCounter

HeldInv ==
  \A i \in Slot : \A b \in slots[i] :
    \E j \in 1 .. Len(hist) : hist[j] = b /\ j > Oldest - Age(i) * PerSlot

CoverInv ==
  \A j \in 1 .. Len(hist) :
    j > Oldest - (SlotCount - 1) * PerSlot =>
      \E i \in Slot : hist[j] \in slots[i] /\ j <= Oldest - Age(i) * PerSlot + PerSlot

Inv == TypeOK /\ LockInv /\ LocalInv /\ HeldInv /\ CoverInv

-----------------------------------------------------------------------------
(* Arithmetic of the ring.                                                 *)

(* The share of a slot is a number, and a slot takes at least one entry.   *)
LEMMA ShareIsNat == SlotCapacity \in Nat /\ PerSlot \in Nat \ {0}
BY SlotAssumption, CapacityAssumption DEF SlotCapacity, PerSlot

(* The next slot is the one after the current one, or the first.           *)
LEMMA NextSlotIs ==
  ASSUME slotPosition \in Slot
  PROVE  /\ NextSlot \in Slot
         /\ NextSlot = IF slotPosition + 1 = SlotCount THEN 0 ELSE slotPosition + 1
BY SlotAssumption DEF Slot, NextSlot

(* Ages run from 0, the current slot, to SlotCount - 1.                    *)
LEMMA AgeRange ==
  ASSUME slotPosition \in Slot, NEW i \in Slot
  PROVE  Age(i) \in 0 .. SlotCount - 1 /\ (Age(i) = 0 <=> i = slotPosition)
BY SlotAssumption DEF Slot, Age

(* A move makes every slot one move older, but for the one it resets,      *)
(* which was the oldest.                                                   *)
LEMMA AgeAfterMove ==
  ASSUME slotPosition \in Slot, slotPosition' = NextSlot, NEW i \in Slot
  PROVE  /\ i # NextSlot => Age(i)' = Age(i) + 1
         /\ i = NextSlot => Age(i) = SlotCount - 1 /\ Age(i)' = 0
BY NextSlotIs, SlotAssumption DEF Slot, Age

(* Multiples of the share, one factor more.                                *)
LEMMA OneMore ==
  ASSUME NEW a \in Int
  PROVE  a * PerSlot \in Int /\ (a + 1) * PerSlot = a * PerSlot + PerSlot
<1>1. \A x, y \in Int : x * y \in Int /\ (x + 1) * y = x * y + y
  OBVIOUS
<1>2. QED
  BY <1>1, ShareIsNat

(* A younger slot covers no more than the oldest one.                      *)
LEMMA AgeTimesShare ==
  ASSUME NEW a \in 0 .. SlotCount - 1
  PROVE  a * PerSlot <= (SlotCount - 1) * PerSlot
<1>1. \A x, y, z \in Nat : x <= y => x * z <= y * z
  OBVIOUS
<1>2. QED
  BY <1>1, ShareIsNat, SlotAssumption

-----------------------------------------------------------------------------
(* One lemma per action that changes the ring.                             *)

(* Moving to the next slot loses only salts that are no longer recent.     *)
LEMMA MoveStep ==
  ASSUME Inv, NEW t \in Threads, Move(t)
  PROVE  Inv'
<1>. /\ PerSlot = SlotCapacity + 1 /\ PerSlot \in Nat /\ SlotCapacity \in Nat
  BY ShareIsNat DEF PerSlot
<1>1. /\ TypeOK /\ lock = t /\ pc[t] = "move" /\ Len(hist) \in Nat
      /\ slotPosition \in Slot /\ entryCounter \in 0 .. PerSlot
      /\ slots \in [Slot -> SUBSET Salts]
  BY LenProperties DEF Inv, TypeOK, LockInv, Move, Advanced, Cleared
<1>2. /\ pc' = [pc EXCEPT ![t] = "insert"]
      /\ hist' = hist /\ lock' = lock /\ readers' = readers /\ arg' = arg
  BY DEF Move, Advanced, Cleared
<1>3. LockInv'
  BY <1>1, <1>2 DEF Inv, TypeOK, LockInv
<1>4. \A u \in Threads : u # t => pc[u] \notin {"move", "insert", "scan"}
  BY <1>1, NoneAssumption DEF Inv, LockInv
<1>5. CASE entryCounter <= SlotCapacity
  <2>1. UNCHANGED <<slots, slotPosition, entryCounter, cur>>
    BY <1>1, <1>5 DEF Move, Advanced, Cleared, ring
  <2>2. TypeOK'
    BY <1>2, <2>1 DEF Inv, TypeOK
  <2>3. LocalInv'
    BY <1>1, <1>2, <1>4, <1>5, <2>1 DEF Inv, TypeOK, LocalInv
  <2>4. HeldInv' /\ CoverInv'
    BY <1>2, <2>1 DEF Inv, HeldInv, CoverInv, Oldest, Age
  <2>5. QED
    BY <1>3, <2>2, <2>3, <2>4 DEF Inv
<1>6. CASE entryCounter > SlotCapacity
  <2>1. /\ slotPosition' = NextSlot /\ slots' = [slots EXCEPT ![NextSlot] = {}]
        /\ entryCounter' = 0 /\ cur' = [cur EXCEPT ![t] = NextSlot]
        /\ entryCounter = PerSlot /\ NextSlot \in Slot
    BY <1>1, <1>6, NextSlotIs DEF Move, Advanced, Cleared, ring
  <2>2. TypeOK'
    <3>1. NextSlot \in 0 .. SlotCount
      BY <2>1, SlotAssumption DEF Slot
    <3>2. QED
      BY <1>2, <2>1, <3>1 DEF Inv, TypeOK
  <2>3. LocalInv'
    BY <1>1, <1>2, <1>4, <2>1 DEF Inv, TypeOK, LocalInv
  <2>4. /\ Oldest \in Int /\ Oldest' = Oldest + PerSlot
    BY <1>1, <1>2, <2>1 DEF Oldest
  <2>5. ASSUME NEW i \in Slot, i # NextSlot
        PROVE  /\ slots'[i] = slots[i] /\ Age(i) \in Int /\ Age(i) * PerSlot \in Int
               /\ Oldest' - Age(i)' * PerSlot = Oldest - Age(i) * PerSlot
    <3>1. Age(i)' = Age(i) + 1 /\ Age(i) \in Int
      BY <1>1, <2>1, <2>5, AgeAfterMove, AgeRange, SlotAssumption
    <3>2. (Age(i) + 1) * PerSlot = Age(i) * PerSlot + PerSlot /\ Age(i) * PerSlot \in Int
      BY <3>1, OneMore
    <3>3. QED
      BY <1>1, <2>1, <2>4, <2>5, <3>1, <3>2
  <2>6. HeldInv'
    <3>1. SUFFICES ASSUME NEW i \in Slot, NEW b \in slots'[i]
                   PROVE  \E j \in 1 .. Len(hist) :
                            hist[j] = b /\ j > Oldest' - Age(i)' * PerSlot
      BY <1>2 DEF HeldInv, Oldest, PerSlot
    <3>2. i # NextSlot
      BY <1>1, <2>1
    <3>3. PICK j \in 1 .. Len(hist) : hist[j] = b /\ j > Oldest - Age(i) * PerSlot
      BY <2>5, <3>2 DEF Inv, HeldInv
    <3>4. QED
      BY <2>5, <3>2, <3>3
  <2>7. CoverInv'
    <3>1. SUFFICES ASSUME NEW j \in 1 .. Len(hist),
                          j > Oldest' - (SlotCount - 1) * PerSlot
                   PROVE  \E i \in Slot : /\ hist[j] \in slots'[i]
                                         /\ j <= Oldest' - Age(i)' * PerSlot + PerSlot
      BY <1>2 DEF CoverInv, Oldest, PerSlot
    <3>2. (SlotCount - 1) * PerSlot \in Int
      BY OneMore, SlotAssumption
    <3>3. j > Oldest - (SlotCount - 1) * PerSlot
      BY <2>4, <3>1, <3>2
    <3>4. PICK i \in Slot : hist[j] \in slots[i] /\ j <= Oldest - Age(i) * PerSlot + PerSlot
      BY <3>3 DEF Inv, CoverInv
    <3>5. i # NextSlot
      <4>1. SUFFICES ASSUME i = NextSlot PROVE FALSE
        OBVIOUS
      <4>2. Age(i) = SlotCount - 1
        BY <1>1, <2>1, <4>1, AgeAfterMove
      <4>3. j <= Oldest - (SlotCount - 1) * PerSlot + PerSlot
        BY <3>4, <4>2
      <4>4. QED
        BY <2>4, <3>1, <3>2, <4>3
    <3>6. QED
      BY <2>5, <3>4, <3>5
  <2>8. QED
    BY <1>3, <2>2, <2>3, <2>6, <2>7 DEF Inv
<1>7. QED
  BY <1>1, <1>5, <1>6

(* Inserting puts the new salt into the youngest slot, whose share has     *)
(* room for it.                                                            *)
LEMMA InsertStep ==
  ASSUME Inv, NEW t \in Threads, Insert(t)
  PROVE  Inv'
<1>. /\ PerSlot = SlotCapacity + 1 /\ PerSlot \in Nat /\ SlotCapacity \in Nat
  BY ShareIsNat DEF PerSlot
<1>1. /\ TypeOK /\ lock = t /\ pc[t] = "insert" /\ Len(hist) \in Nat
      /\ slotPosition \in Slot /\ entryCounter \in 0 .. SlotCapacity
      /\ slots \in [Slot -> SUBSET Salts] /\ cur[t] = slotPosition
      /\ arg[t] \in Salts /\ hist \in Seq(Salts)
  BY LenProperties DEF Inv, TypeOK, LockInv, LocalInv, Insert, Unlocked
<1>2. /\ pc' = [pc EXCEPT ![t] = "idle"] /\ lock' = None
      /\ readers' = readers /\ arg' = arg /\ cur' = cur
      /\ slotPosition' = slotPosition /\ entryCounter' = entryCounter + 1
      /\ slots' = [slots EXCEPT ![slotPosition] = @ \union {arg[t]}]
      /\ hist' = Append(hist, arg[t])
  BY <1>1 DEF Insert, Unlocked
<1>3. \A u \in Threads : u # t => pc[u] \notin {"move", "insert", "scan"}
  BY <1>1, NoneAssumption DEF Inv, LockInv
<1>4. LockInv'
  BY <1>1, <1>2, <1>3, NoneAssumption DEF Inv, TypeOK, LockInv
<1>5. LocalInv'
  BY <1>1, <1>2, <1>3 DEF Inv, TypeOK, LocalInv
<1>6. /\ hist' \in Seq(Salts) /\ Len(hist') = Len(hist) + 1
      /\ \A j \in 1 .. Len(hist) : hist'[j] = hist[j]
      /\ hist'[Len(hist) + 1] = arg[t]
  BY <1>1, <1>2, AppendProperties
<1>7. TypeOK'
  <2>1. entryCounter' \in 0 .. SlotCapacity + 1
    BY <1>1, <1>2
  <2>2. QED
    BY <1>1, <1>2, <1>6, <2>1 DEF TypeOK
<1>8. /\ Oldest \in Int /\ Oldest' = Oldest /\ PerSlot' = PerSlot
      /\ \A i \in Slot : Age(i)' = Age(i) /\ Age(i) \in Int /\ Age(i) * PerSlot \in Int
      /\ Age(slotPosition) = 0 /\ 0 * PerSlot = 0
  <2>1. \A i \in Slot : Age(i) \in Int /\ Age(i) * PerSlot \in Int
    BY <1>1, AgeRange, OneMore, SlotAssumption
  <2>2. QED
    BY <1>1, <1>2, <1>6, <2>1, AgeRange DEF Oldest, Age, PerSlot
<1>9. HeldInv'
  <2>1. SUFFICES ASSUME NEW i \in Slot, NEW b \in slots'[i]
                 PROVE  \E j \in 1 .. Len(hist) + 1 :
                          hist'[j] = b /\ j > Oldest - Age(i) * PerSlot
    BY <1>6, <1>8 DEF HeldInv
  <2>2. CASE b \in slots[i]
    <3>1. PICK j \in 1 .. Len(hist) : hist[j] = b /\ j > Oldest - Age(i) * PerSlot
      BY <2>2 DEF Inv, HeldInv
    <3>2. QED
      BY <1>1, <1>6, <3>1
  <2>3. CASE b \notin slots[i]
    <3>1. i = slotPosition /\ b = arg[t]
      BY <1>1, <1>2, <2>3
    <3>2. Len(hist) + 1 > Oldest - Age(i) * PerSlot
      BY <1>1, <1>8, <3>1 DEF Oldest
    <3>3. QED
      BY <1>1, <1>6, <3>1, <3>2
  <2>4. QED
    BY <2>2, <2>3
<1>10. CoverInv'
  <2>1. SUFFICES ASSUME NEW j \in 1 .. Len(hist) + 1,
                        j > Oldest - (SlotCount - 1) * PerSlot
                 PROVE  \E i \in Slot : /\ hist'[j] \in slots'[i]
                                       /\ j <= Oldest - Age(i) * PerSlot + PerSlot
    BY <1>6, <1>8 DEF CoverInv
  <2>2. CASE j \in 1 .. Len(hist)
    <3>1. PICK i \in Slot : hist[j] \in slots[i] /\ j <= Oldest - Age(i) * PerSlot + PerSlot
      BY <2>1, <2>2 DEF Inv, CoverInv
    <3>2. hist'[j] \in slots'[i]
      BY <1>1, <1>2, <1>6, <2>2, <3>1
    <3>3. QED
      BY <3>1, <3>2
  <2>3. CASE j = Len(hist) + 1
    <3>1. hist'[j] \in slots'[slotPosition]
      BY <1>1, <1>2, <1>6, <2>3
    <3>2. j <= Oldest - Age(slotPosition) * PerSlot + PerSlot
      BY <1>1, <1>8, <2>3 DEF Oldest
    <3>3. QED
      BY <1>1, <3>1, <3>2
  <2>4. QED
    BY <1>1, <2>2, <2>3
<1>11. QED
  BY <1>4, <1>5, <1>7, <1>9, <1>10 DEF Inv

-----------------------------------------------------------------------------
(***************************************************************************)
(* Inv is an invariant of BloomRing: Move and Insert by the lemmas above,  *)
(* the other actions because they leave the ring alone and the mutex keeps *)
(* scans and additions apart.                                              *)
(***************************************************************************)
THEOREM Invariance == Spec => []Inv
<1>1. Init => Inv
  <2>. SUFFICES ASSUME Init PROVE Inv
    OBVIOUS
  <2>1. TypeOK
    <3>1. 0 \in Slot /\ 0 \in 0 .. SlotCapacity + 1 /\ 0 \in 0 .. SlotCount
      BY ShareIsNat, SlotAssumption DEF Slot
    <3>2. << >> \in Seq(Salts)
      BY EmptySeq
    <3>3. QED
      BY <3>1, <3>2 DEF Init, TypeOK
  <2>2. LockInv /\ LocalInv
    BY NoneAssumption DEF Init, LockInv, LocalInv
  <2>3. HeldInv /\ CoverInv
    BY EmptySeq DEF Init, HeldInv, CoverInv
  <2>4. QED
    BY <2>1, <2>2, <2>3 DEF Inv
<1>2. Inv /\ [Next]_vars => Inv'
  <2>. SUFFICES ASSUME Inv, [Next]_vars PROVE Inv'
    OBVIOUS
  <2>0. ASSUME UNCHANGED <<slots, slotPosition, entryCounter, hist>>
        PROVE  HeldInv' /\ CoverInv'
    BY <2>0 DEF Inv, HeldInv, CoverInv, Oldest, Age
  <2>. USE DEF ring, Ready
  <2>1. ASSUME NEW t \in Threads, NEW b \in Salts, CallAdd(t, b) \/ CallTest(t, b)
        PROVE  Inv'
    <3>1. TypeOK' /\ LockInv' /\ LocalInv'
      <4>1. TypeOK'
        BY <2>1 DEF Inv, TypeOK, CallAdd, CallTest
      <4>2. LockInv'
        BY <2>1 DEF Inv, TypeOK, LockInv, CallAdd, CallTest
      <4>3. LocalInv'
        BY <2>1 DEF Inv, TypeOK, LocalInv, CallAdd, CallTest
      <4>4. QED
        BY <4>1, <4>2, <4>3
    <3>2. QED
      BY <2>1, <2>0, <3>1 DEF Inv, CallAdd, CallTest
  <2>2. ASSUME NEW t \in Threads, AddLock(t)
        PROVE  Inv'
    <3>0. slotPosition \in 0 .. SlotCount
      BY SlotAssumption DEF Inv, TypeOK, Slot
    <3>1. TypeOK' /\ LockInv' /\ LocalInv'
      BY <2>2, <3>0, NoneAssumption DEF Inv, TypeOK, LockInv, LocalInv, AddLock, Quiet
    <3>2. QED
      BY <2>2, <2>0, <3>1 DEF Inv, AddLock, Quiet
  <2>3. ASSUME NEW t \in Threads, Move(t)
        PROVE  Inv'
    BY <2>3, MoveStep
  <2>4. ASSUME NEW t \in Threads, Insert(t)
        PROVE  Inv'
    BY <2>4, InsertStep
  <2>5. ASSUME NEW t \in Threads, TestLock(t)
        PROVE  Inv'
    <3>0. 0 \in 0 .. SlotCount
      BY SlotAssumption
    <3>1. TypeOK' /\ LockInv' /\ LocalInv'
      <4>1. TypeOK' /\ LockInv'
        BY <2>5, <3>0, NoneAssumption DEF Inv, TypeOK, LockInv, TestLock
      <4>2. LocalInv'
        BY <2>5, SlotAssumption DEF Inv, TypeOK, LocalInv, TestLock, Slot
      <4>3. QED
        BY <4>1, <4>2
    <3>2. QED
      BY <2>5, <2>0, <3>1 DEF Inv, TestLock
  <2>6. ASSUME NEW t \in Threads, Scan(t)
        PROVE  Inv'
    <3>1. cur[t] + 1 \in 0 .. SlotCount
      BY <2>6, SlotAssumption DEF Inv, TypeOK, Scan
    <3>2. TypeOK' /\ LockInv'
      BY <2>6, <3>1 DEF Inv, TypeOK, LockInv, Scan
    <3>3. LocalInv'
      <4>1. \A i \in Slot : i < cur[t] + 1 => i < cur[t] \/ i = cur[t]
        BY SlotAssumption DEF Inv, TypeOK, Slot
      <4>2. QED
        BY <2>6, <4>1 DEF Inv, TypeOK, LocalInv, Scan
    <3>4. QED
      BY <2>6, <2>0, <3>2, <3>3 DEF Inv, Scan
  <2>7. ASSUME NEW t \in Threads, TestYes(t) \/ TestNo(t)
        PROVE  Inv'
    <3>1. TypeOK' /\ LockInv' /\ LocalInv'
      BY <2>7, NoneAssumption, ZenonT(40) DEF Inv, TypeOK, LockInv, LocalInv, TestYes, TestNo
    <3>2. QED
      BY <2>7, <2>0, <3>1 DEF Inv, TestYes, TestNo
  <2>8. CASE UNCHANGED vars
    <3>1. TypeOK' /\ LockInv' /\ LocalInv'
      BY <2>8 DEF Inv, TypeOK, LockInv, LocalInv, vars
    <3>2. QED
      BY <2>8, <2>0, <3>1 DEF Inv, vars
  <2>9. QED
    BY <2>1, <2>2, <2>3, <2>4, <2>5, <2>6, <2>7, <2>8 DEF Next, Add, Test
<1>3. QED
  BY <1>1, <1>2, PTL DEF Spec

(* The ring's fields and the goroutines' locals keep their types; in       *)
(* particular slotPosition always names a slot.                            *)
THEOREM TypeCorrect == Spec => []TypeOK
<1>1. Inv => TypeOK
  BY DEF Inv
<1>2. QED
  BY <1>1, Invariance, PTL

(* The slots cover the recent salts.                                       *)
LEMMA CoverImpliesRemembered == Inv => Remembered
<1>. SUFFICES ASSUME Inv, NEW b \in Recent PROVE b \in Held
  BY DEF Remembered
<1>1. PICK j \in 1 .. Len(hist) :
        b = hist[j] /\ j > Len(hist) - (SlotCount - 1) * PerSlot - entryCounter
  BY DEF Recent
<1>2. Len(hist) \in Nat /\ entryCounter \in Int /\ (SlotCount - 1) * PerSlot \in Int
  BY LenProperties, OneMore, ShareIsNat, SlotAssumption DEF Inv, TypeOK
<1>3. j > Oldest - (SlotCount - 1) * PerSlot
  BY <1>1, <1>2 DEF Oldest
<1>4. PICK i \in Slot : hist[j] \in slots[i]
  BY <1>3 DEF Inv, CoverInv
<1>5. QED
  BY <1>1, <1>4 DEF Held

(***************************************************************************)
(* For every ring the most recent salts, at least the last                 *)
(* (SlotCount - 1) * (SlotCapacity + 1) added, are in some slot.           *)
(***************************************************************************)
THEOREM Memory == Spec => []Remembered
BY CoverImpliesRemembered, Invariance, PTL

(* For every ring, nothing older than SlotCount shares is still held.      *)
THEOREM Forgetting == Spec => []Forgets
<1>1. Inv => Forgets
  <2>. SUFFICES ASSUME Inv, NEW b \in Held
                PROVE  \E j \in 1 .. Len(hist) :
                         b = hist[j] /\ j > Len(hist) - SlotCount * PerSlot
    BY DEF Forgets
  <2>1. PICK i \in Slot : b \in slots[i]
    BY DEF Held
  <2>2. PICK j \in 1 .. Len(hist) : hist[j] = b /\ j > Oldest - Age(i) * PerSlot
    BY <2>1 DEF Inv, HeldInv
  <2>3. /\ Age(i) * PerSlot <= (SlotCount - 1) * PerSlot /\ Age(i) * PerSlot \in Int
        /\ (SlotCount - 1) * PerSlot \in Int
        /\ SlotCount * PerSlot = (SlotCount - 1) * PerSlot + PerSlot
    <3>1. Age(i) \in 0 .. SlotCount - 1 /\ SlotCount - 1 \in Int
      BY AgeRange, SlotAssumption DEF Inv, TypeOK
    <3>2. (SlotCount - 1) + 1 = SlotCount
      BY SlotAssumption
    <3>3. QED
      BY <3>1, <3>2, AgeTimesShare, OneMore
  <2>4. Len(hist) \in Nat /\ entryCounter \in Int /\ entryCounter <= PerSlot /\ PerSlot \in Nat
    BY LenProperties, ShareIsNat DEF Inv, TypeOK, PerSlot
  <2>5. j > Len(hist) - SlotCount * PerSlot
    BY <2>2, <2>3, <2>4 DEF Oldest
  <2>6. QED
    BY <2>2, <2>5
<1>2. QED
  BY <1>1, Invariance, PTL

(***************************************************************************)
(* A Test that answers no is right about every recent salt, however many   *)
(* goroutines add and test at the same time.                               *)
(***************************************************************************)
THEOREM NegativeAnswers == Spec => NoIsRight
<1>1. Inv /\ [Next]_vars =>
        [\A t \in Threads : pc[t] # "no" /\ pc'[t] = "no" => arg[t] \notin Recent]_vars
  <2>. SUFFICES ASSUME Inv, Next, NEW t \in Threads, pc[t] # "no", pc'[t] = "no"
                PROVE  arg[t] \notin Recent
    BY DEF vars
  <2>1. TestNo(t)
    BY DEF Inv, TypeOK, Next, CallAdd, CallTest, Add, AddLock, Quiet, Move,
           Advanced, Cleared, Insert, Unlocked, Test, TestLock, Scan, TestYes,
           TestNo
  <2>2. \A i \in Slot : arg[t] \notin slots[i]
    <3>1. \A i \in Slot : i < cur[t]
      BY <2>1, SlotAssumption DEF TestNo, Slot
    <3>2. QED
      BY <2>1, <3>1 DEF TestNo, Inv, LocalInv
  <2>3. arg[t] \notin Held
    BY <2>2 DEF Held
  <2>4. QED
    BY <2>3, CoverImpliesRemembered DEF Remembered
<1>2. QED
  BY <1>1, Invariance, PTL DEF Spec, NoIsRight
=============================================================================
