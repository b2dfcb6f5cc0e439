----------------------------- MODULE BloomRing -----------------------------
(***************************************************************************)
(* The salt filter of m_internal: a ring of Bloom filters that every       *)
(* connection of the process shares.  streamConn.initWriter adds the salt  *)
(* it has sent (AddSalt), streamConn.initReader tests the salt it has      *)
(* received (CheckSalt), each in its own goroutine, under one RWMutex.     *)
(*                                                                         *)
(* A Bloom filter (github.com/riobard/go-bloom) is the set of what was     *)
(* added since its last Reset; its Test may also answer yes for something  *)
(* that was never added.  Of the RWMutex only the exclusion is modelled:   *)
(* its preference for waiting writers only removes behaviours.             *)
(***************************************************************************)
EXTENDS Integers, Sequences, FiniteSets

CONSTANTS
  Threads,   \* goroutines that use the filter
  Salts,     \* the salts they use
  SlotCount, \* slots of the ring (10 by default)
  Capacity,  \* capacity of the ring (1e6 by default)
  MaxAdds,   \* bound on the salts added
  None       \* no thread: the mutex is not held for writing

ASSUME SlotAssumption == SlotCount \in Nat \ {0}
ASSUME CapacityAssumption == Capacity \in Nat /\ MaxAdds \in Nat
ASSUME NoneAssumption == None \notin Threads

VARIABLES
  slots,        \* slots[i]: what filter i holds
  slotPosition, \* the slot that takes the next entries
  entryCounter, \* entries added to that slot
  lock,         \* the thread holding mutex for writing, or None
  readers,      \* the threads holding it for reading
  pc,           \* where each thread is
  arg,          \* the salt it adds or tests
  cur,          \* add: its local slot; test: the slot it looks at next
  hist          \* history: every salt added, oldest first

ring == <<slots, slotPosition, entryCounter>>
vars == <<slots, slotPosition, entryCounter, lock, readers, pc, arg, cur, hist>>

Slot == 0 .. SlotCount - 1
SlotCapacity == Capacity \div SlotCount

(* a thread that is not inside Add or Test; "yes" and "no" are the answers of Test *)
Ready == {"idle", "yes", "no"}

(* NewBloomRing *)
Init ==
  /\ slots = [i \in Slot |-> {}]
  /\ slotPosition = 0
  /\ entryCounter = 0
  /\ lock = None
  /\ readers = {}
  /\ pc = [t \in Threads |-> "idle"]
  /\ arg \in [Threads -> Salts]
  /\ cur = [t \in Threads |-> 0]
  /\ hist = << >>

-----------------------------------------------------------------------------
(* Add *)

CallAdd(t, b) ==
  /\ pc[t] \in Ready /\ Len(hist) < MaxAdds
  /\ pc' = [pc EXCEPT ![t] = "addLock"]
  /\ arg' = [arg EXCEPT ![t] = b]
  /\ UNCHANGED <<ring, lock, readers, cur, hist>>

(* fault: an Add does not wait for the tests in progress *)
QuietAlways == TRUE

Quiet == readers = {}

(* mutex.Lock(), then slot := r.slots[r.slotPosition] *)
AddLock(t) ==
  /\ pc[t] = "addLock" /\ lock = None /\ Quiet
  /\ lock' = t
  /\ pc' = [pc EXCEPT ![t] = "move"]
  /\ cur' = [cur EXCEPT ![t] = slotPosition]
  /\ UNCHANGED <<ring, readers, arg, hist>>

(* fault: the ring is not closed *)
NextSlotUnwrapped == slotPosition + 1

NextSlot == (slotPosition + 1) % SlotCount

(* faults: the local slot is not advanced; the new slot is not reset *)
AdvancedNot(t) == cur[t]

ClearedNot(s) == slots[s]

Advanced(t) == NextSlot

Cleared(s) == {}

(* a slot that has more than its share is left for the next one, which is reset *)
Move(t) ==
  /\ pc[t] = "move"
  /\ \/ /\ entryCounter > SlotCapacity
        /\ slotPosition' = NextSlot
        /\ slots' = [slots EXCEPT ![NextSlot] = Cleared(NextSlot)]
        /\ entryCounter' = 0
        /\ cur' = [cur EXCEPT ![t] = Advanced(t)]
     \/ /\ entryCounter <= SlotCapacity
        /\ UNCHANGED <<ring, cur>>
  /\ pc' = [pc EXCEPT ![t] = "insert"]
  /\ UNCHANGED <<lock, readers, arg, hist>>

(* fault: no Unlock *)
UnlockedNot == lock

Unlocked == None

(* entryCounter++, slot.Add(b), deferred Unlock *)
Insert(t) ==
  /\ pc[t] = "insert"
  /\ entryCounter' = entryCounter + 1
  /\ slots' = [slots EXCEPT ![cur[t]] = @ \union {arg[t]}]
  /\ hist' = Append(hist, arg[t])
  /\ lock' = Unlocked
  /\ pc' = [pc EXCEPT ![t] = "idle"]
  /\ UNCHANGED <<slotPosition, readers, arg, cur>>

-----------------------------------------------------------------------------
(* Test: the slots are looked at one by one, under mutex.RLock()           *)

CallTest(t, b) ==
  /\ pc[t] \in Ready
  /\ pc' = [pc EXCEPT ![t] = "testLock"]
  /\ arg' = [arg EXCEPT ![t] = b]
  /\ UNCHANGED <<ring, lock, readers, cur, hist>>

TestLock(t) ==
  /\ pc[t] = "testLock" /\ lock = None
  /\ readers' = readers \union {t}
  /\ pc' = [pc EXCEPT ![t] = "scan"]
  /\ cur' = [cur EXCEPT ![t] = 0]
  /\ UNCHANGED <<ring, lock, arg, hist>>

(* s.Test(b) of one slot is false: on to the next slot *)
Scan(t) ==
  /\ pc[t] = "scan" /\ cur[t] < SlotCount
  /\ arg[t] \notin slots[cur[t]]
  /\ cur' = [cur EXCEPT ![t] = @ + 1]
  /\ UNCHANGED <<ring, lock, readers, pc, arg, hist>>

(* s.Test(b) is true, for an entry or for a false positive; deferred RUnlock *)
TestYes(t) ==
  /\ pc[t] = "scan" /\ cur[t] < SlotCount
  /\ readers' = readers \ {t}
  /\ pc' = [pc EXCEPT ![t] = "yes"]
  /\ UNCHANGED <<ring, lock, arg, cur, hist>>

(* no slot holds b; deferred RUnlock *)
TestNo(t) ==
  /\ pc[t] = "scan" /\ cur[t] = SlotCount
  /\ readers' = readers \ {t}
  /\ pc' = [pc EXCEPT ![t] = "no"]
  /\ UNCHANGED <<ring, lock, arg, cur, hist>>

Add(t) == AddLock(t) \/ Move(t) \/ Insert(t)
Test(t) == TestLock(t) \/ Scan(t) \/ TestYes(t) \/ TestNo(t)

Next ==
  \E t \in Threads :
    \/ \E b \in Salts : CallAdd(t, b) \/ CallTest(t, b)
    \/ Add(t) \/ Test(t)

Spec == Init /\ [][Next]_vars

(***************************************************************************)
(* A goroutine inside Add or Test keeps running, and an RWMutex starves    *)
(* neither side: a waiting writer holds new readers back, and the readers  *)
(* that waited for a writer are let in when it unlocks.                    *)
(***************************************************************************)
Fairness ==
  \A t \in Threads :
    /\ SF_vars(AddLock(t)) /\ SF_vars(TestLock(t))
    /\ WF_vars(Move(t)) /\ WF_vars(Insert(t))
    /\ WF_vars(Scan(t) \/ TestYes(t) \/ TestNo(t))

FairSpec == Spec /\ Fairness

-----------------------------------------------------------------------------
TypeOK ==
  /\ slots \in [Slot -> SUBSET Salts]
  /\ slotPosition \in Slot
  /\ entryCounter \in 0 .. SlotCapacity + 1
  /\ lock \in Threads \union {None}
  /\ readers \in SUBSET Threads
  /\ pc \in [Threads -> {"idle", "addLock", "move", "insert",
                         "testLock", "scan", "yes", "no"}]
  /\ arg \in [Threads -> Salts]
  /\ cur \in [Threads -> 0 .. SlotCount]
  /\ hist \in Seq(Salts)

(* what one slot takes before the ring moves on *)
PerSlot == SlotCapacity + 1

(* the salts the ring must still know: those in the current slot and those
   of the SlotCount - 1 slots before it *)
Recent ==
  {hist[j] : j \in {k \in 1 .. Len(hist) :
                      k > Len(hist) - (SlotCount - 1) * PerSlot - entryCounter}}

Held == UNION {slots[i] : i \in Slot}

(***************************************************************************)
(* Whatever the number of moves around the ring, and in the middle of an   *)
(* Add as well, the most recent salts are all still in some slot: a reset  *)
(* only ever drops the oldest slot.                                        *)
(***************************************************************************)
Remembered == Recent \subseteq Held

(***************************************************************************)
(* The ring forgets: nothing older than SlotCount full slots is held, so   *)
(* the false positives do not grow with the life of the process.           *)
(***************************************************************************)
Forgets ==
  Held \subseteq {hist[j] : j \in {k \in 1 .. Len(hist) :
                                     k > Len(hist) - SlotCount * PerSlot}}

(***************************************************************************)
(* A Test that answers no is right about every recent salt, also about one *)
(* that another goroutine added while the Test was waiting or scanning.    *)
(***************************************************************************)
NoIsRight ==
  [][\A t \in Threads : pc[t] # "no" /\ pc'[t] = "no" => arg[t] \notin Recent]_vars

(* Every Add and every Test returns.                                       *)
Returns ==
  \A t \in Threads : pc[t] \notin Ready ~> pc[t] \in Ready

(***************************************************************************)
(* "A shared instance used for checking salt repeat", "TestSalt returns    *)
(* true if salt is repeated": while one reader goes on with the salt it    *)
(* was let through with, another that brings the same salt is refused.     *)
(***************************************************************************)
RepeatDetected ==
  [][\A t, u \in Threads :
       pc[t] = "no" /\ pc[u] = "scan" /\ pc'[u] = "no" => arg[u] # arg[t]]_vars
=============================================================================
