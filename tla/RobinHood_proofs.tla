-------------------------- MODULE RobinHood_proofs --------------------------
(***************************************************************************)
(* Proofs about RobinHood, for every directory size, bucket size, key set, *)
(* hash function and both probing functions.                               *)
(*                                                                         *)
(* The argument: stored entries only get farther from their homes          *)
(* (StoreEffect), so what a walk has passed once it would always pass      *)
(* again; an insert that meets a richer entry or an empty slot has         *)
(* therefore not missed its own key (NotBeyond), and the entry it takes    *)
(* out can walk on from where it stood.                                    *)
(***************************************************************************)
EXTENDS RobinHood, TLAPS

-----------------------------------------------------------------------------
(* What both probing functions of probing.hpp have in common, for every    *)
(* directory size: the rest of the proofs never uses their formulas.       *)

\* The remainder is a bucket of the directory.
LEMMA ModInDirectory ==
  ASSUME NEW a \in Nat
  PROVE  a % N \in Directory
BY DirectoryAssumption DEF Directory

\* The probing functions never leave the directory.
THEOREM ProbeInDirectory ==
  ASSUME NEW index \in Directory, NEW step \in Nat
  PROVE  probingfn(index, step) \in Directory
<1>1. index \in Nat
  BY DirectoryAssumption DEF Directory
<1>2. step * step \in Nat
  OBVIOUS
<1>3. index + step \in Nat /\ index + step * step \in Nat
  BY <1>1, <1>2
<1> QED
  BY <1>3, ModInDirectory
     DEF probingfn, LinearProbingFunc, QuadraticProbingFunc

\* Adding multiples of N does not change a bucket.
LEMMA ModPeriodic ==
  ASSUME NEW index \in Directory, NEW q \in Nat
  PROVE  (index + N * q) % N = index
BY DirectoryAssumption DEF Directory

\* After N steps the walk is back at its first bucket, so no call probes more
\* than N times.
THEOREM ProbeReturns ==
  ASSUME NEW index \in Directory
  PROVE  probingfn(index, N) = index
<1>1. (index + N * 1) % N = index
  BY ModPeriodic
<1>2. (index + N * N) % N = index
  BY ModPeriodic, DirectoryAssumption
<1> QED
  BY <1>1, <1>2, DirectoryAssumption
     DEF probingfn, LinearProbingFunc, QuadraticProbingFunc, Directory

\* A bucket on the way of a key is in the directory.
LEMMA WayInDirectory ==
  ASSUME NEW h \in Directory, NEW s \in Nat
  PROVE  BucketAt(h, s) \in Directory
BY ProbeInDirectory DEF BucketAt

\* A walk that has not returned has taken fewer than N steps.
LEMMA WalkIsShort ==
  ASSUME NEW h \in Directory, NEW s \in Nat, NoReturnUpTo(h, s)
  PROVE  s \in 0 .. (N - 1)
<1> SUFFICES ASSUME s > N - 1 PROVE FALSE
  BY DirectoryAssumption
<1>1. N \in 1 .. s
  BY DirectoryAssumption
<1> QED
  BY <1>1, ProbeReturns DEF NoReturnUpTo

\* The bucket after c on the ring.
Succ(c) == IF c = N - 1 THEN 0 ELSE c + 1

LEMMA ModSuccessor ==
  ASSUME NEW a \in Nat
  PROVE  (a + 1) % N = Succ(a % N)
<1>1. PICK r \in Directory, q \in Nat : r = a % N /\ a = r + N * q
  <2>1. a % N \in Directory /\ a \div N \in Nat /\ a = (a % N) + N * (a \div N)
    BY DirectoryAssumption DEF Directory
  <2> QED
    BY <2>1
<1>2. CASE r = N - 1
  <2>1. 0 \in Directory /\ q + 1 \in Nat
    BY DirectoryAssumption DEF Directory
  <2>2. N * (q + 1) = N * q + N
    BY DirectoryAssumption
  <2>3. a + 1 = 0 + N * (q + 1)
    BY <1>1, <1>2, <2>2, DirectoryAssumption DEF Directory
  <2>4. (0 + N * (q + 1)) % N = 0
    BY <2>1, ModPeriodic
  <2> QED
    BY <1>1, <1>2, <2>3, <2>4 DEF Succ
<1>3. CASE r # N - 1
  <2>1. r + 1 \in Directory
    BY <1>1, <1>3, DirectoryAssumption DEF Directory
  <2>2. a + 1 = (r + 1) + N * q
    BY <1>1, DirectoryAssumption DEF Directory
  <2>3. ((r + 1) + N * q) % N = r + 1
    BY <2>1, ModPeriodic
  <2> QED
    BY <1>1, <1>3, <2>2, <2>3 DEF Succ
<1> QED
  BY <1>2, <1>3

\* A linear walk visits the buckets in the order of the ring.
LEMMA LinearStep ==
  ASSUME ~Quadratic, NEW h \in Directory, NEW s \in Nat
  PROVE  probingfn(h, s + 1) = Succ(BucketAt(h, s))
<1>1. h + s \in Nat /\ h + (s + 1) = (h + s) + 1
  BY DirectoryAssumption DEF Directory
<1>2. ((h + s) + 1) % N = Succ((h + s) % N)
  BY <1>1, ModSuccessor
<1>3. (h + s) % N = BucketAt(h, s)
  <2>1. CASE s = 0
    <3>1. (h + N * 0) % N = h /\ h + N * 0 = h /\ h + 0 = h
      BY ModPeriodic, DirectoryAssumption DEF Directory
    <3> QED
      BY <2>1, <3>1 DEF BucketAt
  <2>2. CASE s # 0
    BY <2>2 DEF BucketAt, probingfn, LinearProbingFunc
  <2> QED
    BY <2>1, <2>2
<1> QED
  BY <1>1, <1>2, <1>3 DEF probingfn, LinearProbingFunc

-----------------------------------------------------------------------------

\* Payloads come from inserts, whether stored or carried.
PayloadsGiven ==
  /\ Inserting => call.payload \in Payloads
  /\ \A b \in Directory, i \in Slots :
       ~Holds(b, i, Sentinel) => buckets[b][i].payload \in Payloads

\* What the call under way has passed: occupied slots of other keys, and when
\* inserting of entries as far from their homes as the carried one was there.
WalkSoFar ==
  call # NoCall =>
    /\ call.orig_slot_index = home[call.key]
    /\ call.slot_index = BucketAt(home[call.key], call.probing_step)
    /\ NoReturnUpTo(home[call.key], call.probing_step)
    /\ \A t \in 0 .. (call.probing_step - 1), j \in Slots :
         LET b == BucketAt(home[call.key], t)
         IN  ~Holds(b, j, Sentinel) /\ ~Holds(b, j, call.key)
    /\ \A j \in 0 .. (call.i - 1) :
         ~Holds(call.slot_index, j, Sentinel) /\ ~Holds(call.slot_index, j, call.key)
    /\ Inserting =>
         PassedPoorer(call.key, call.probing_step, call.slot_index, call.i)

\* The parts of RobinHoodOrder: every entry is on its way, in one slot, and an
\* entry that was displaced is in none.
EntriesInOrder ==
  \A b \in Directory, i \in Slots :
    ~Holds(b, i, Sentinel) =>
      PassedPoorer(buckets[b][i].key, buckets[b][i].psl, b, i)
KeysUnique ==
  \A b, c \in Directory, i, j \in Slots :
    /\ ~Holds(b, i, Sentinel)
    /\ buckets[b][i].key = buckets[c][j].key
    => b = c /\ i = j
CarriedAlone ==
  Displaced => \A b \in Directory, i \in Slots : ~Holds(b, i, call.key)

\* An insert that carries a displaced entry has stored its own; a lookup looks
\* for the key it was called with.
NewStored ==
  /\ Displaced => Stored(call.orig_key)
  /\ call.op = "lookup" => call.key = call.orig_key

OrderInv ==
  /\ TypeOK /\ PayloadsGiven
  /\ EntriesInOrder /\ KeysUnique /\ CarriedAlone
  /\ WalkSoFar /\ NewStored

-----------------------------------------------------------------------------
\* Every variable keeps its type.
LEMMA InitTypeOK == Init => TypeOK
BY TableAssumption, DirectoryAssumption
   DEF Init, TypeOK, Directory, Slots, Slot, Calls, NoCall, EmptySlot, Outcome

\* In a call, the locals have their types.
LEMMA CallTyped ==
  ASSUME TypeOK, call # NoCall
  PROVE  /\ call \in Calls
         /\ call.op \in {"insert", "lookup"}
         /\ call.key \in Keys /\ call.orig_key \in Keys
         /\ home[call.key] \in Directory
         /\ call.slot_index \in Directory
         /\ call.orig_slot_index \in Directory
         /\ call.probing_step \in Nat
         /\ call.i \in 0 .. BucketSize
         /\ call.payload \in Payloads \cup {Absent}
BY DEF TypeOK, Calls

LEMMA SlotTyped ==
  ASSUME TypeOK, call # NoCall, call.i < BucketSize
  PROVE  /\ call.i \in Slots
         /\ SlotSeen \in Slot
BY CallTyped, TableAssumption DEF TypeOK, Slots, SlotSeen

LEMMA StoreCarriedType ==
  ASSUME TypeOK, call # NoCall, call.i < BucketSize, StoreCarried
  PROVE  buckets' \in [Directory -> [Slots -> Slot]]
<1>1. Carried \in Slot
  BY CallTyped DEF Carried, Slot
<1> QED
  BY <1>1, SlotTyped, CallTyped DEF StoreCarried, TypeOK

\* The locals after a step of the loops.
LEMMA TakeOverType ==
  ASSUME TypeOK, call # NoCall, call.i < BucketSize, SlotSeen.key \in Keys
  PROVE  /\ TakeOver \in Calls
         /\ TakeOver.op = call.op /\ TakeOver.orig_key = call.orig_key
         /\ TakeOver.key = SlotSeen.key /\ TakeOver.payload = SlotSeen.payload
         /\ TakeOver.probing_step = SlotSeen.psl
         /\ TakeOver.orig_slot_index = home[SlotSeen.key]
         /\ TakeOver.slot_index = call.slot_index
         /\ TakeOver.i = call.i + 1
<1>1. /\ call \in Calls
      /\ SlotSeen \in Slot /\ home[SlotSeen.key] \in Directory
      /\ call.i + 1 \in 0 .. BucketSize
  BY CallTyped, SlotTyped, TableAssumption DEF TypeOK
<1>2. /\ \A c \in Calls, k \in Keys : [c EXCEPT !.key = k] \in Calls
      /\ \A c \in Calls, p \in Payloads \cup {Absent} :
           [c EXCEPT !.payload = p] \in Calls
      /\ \A c \in Calls, s \in Nat : [c EXCEPT !.probing_step = s] \in Calls
      /\ \A c \in Calls, b \in Directory :
           [c EXCEPT !.orig_slot_index = b] \in Calls
      /\ \A c \in Calls, n \in 0 .. BucketSize : [c EXCEPT !.i = n] \in Calls
  BY DEF Calls
<1>3. TakeOver = [[[[[call EXCEPT !.key = SlotSeen.key]
                           EXCEPT !.payload = SlotSeen.payload]
                           EXCEPT !.probing_step = SlotSeen.psl]
                           EXCEPT !.orig_slot_index = home[SlotSeen.key]]
                           EXCEPT !.i = call.i + 1]
  BY <1>1 DEF TakeOver, Calls
<1>4. SlotSeen.payload \in Payloads \cup {Absent} /\ SlotSeen.psl \in Nat
  BY <1>1 DEF Slot
<1>5. TakeOver \in Calls
  BY <1>1, <1>2, <1>3, <1>4
<1> QED
  BY <1>1, <1>5 DEF TakeOver, Calls

LEMMA AdvanceType ==
  ASSUME TypeOK, call # NoCall
  PROVE  /\ Advance \in Calls
         /\ Advance.op = call.op /\ Advance.orig_key = call.orig_key
         /\ Advance.key = call.key /\ Advance.payload = call.payload
         /\ Advance.orig_slot_index = call.orig_slot_index
         /\ Advance.slot_index = NextIndex
         /\ Advance.probing_step = call.probing_step + 1 /\ Advance.i = 0
<1>1. /\ call \in Calls /\ NextIndex \in Directory
      /\ call.probing_step + 1 \in Nat /\ 0 \in 0 .. BucketSize
  BY CallTyped, ProbeInDirectory, TableAssumption DEF NextIndex
<1>2. /\ \A c \in Calls, b \in Directory : [c EXCEPT !.slot_index = b] \in Calls
      /\ \A c \in Calls, s \in Nat : [c EXCEPT !.probing_step = s] \in Calls
      /\ \A c \in Calls, n \in 0 .. BucketSize : [c EXCEPT !.i = n] \in Calls
  BY DEF Calls
<1>3. Advance = [[[call EXCEPT !.slot_index = NextIndex]
                        EXCEPT !.probing_step = call.probing_step + 1]
                        EXCEPT !.i = 0]
  BY <1>1 DEF Advance, Calls
<1>4. Advance \in Calls
  BY <1>1, <1>2, <1>3
<1> QED
  BY <1>1, <1>4 DEF Advance, Calls

LEMMA PassSlotType ==
  ASSUME TypeOK, call # NoCall, call.i < BucketSize,
         call' = [call EXCEPT !.i = @ + 1]
  PROVE  /\ call' \in Calls
         /\ call'.op = call.op /\ call'.orig_key = call.orig_key
         /\ call'.key = call.key /\ call'.payload = call.payload
         /\ call'.orig_slot_index = call.orig_slot_index
         /\ call'.slot_index = call.slot_index
         /\ call'.probing_step = call.probing_step /\ call'.i = call.i + 1
<1>1. call \in Calls /\ call.i + 1 \in 0 .. BucketSize
  BY CallTyped, TableAssumption
<1> QED
  BY <1>1 DEF Calls

LEMMA ReturnType ==
  ASSUME TypeOK, call # NoCall,
         NEW res \in Payloads \cup {Absent, "inserted", "rejected", "thrown"},
         Return(res), buckets' \in [Directory -> [Slots -> Slot]], home' = home
  PROVE  TypeOK'
BY CallTyped DEF Return, Outcome, TypeOK

LEMMA NextTypeOK == TypeOK /\ [Next]_vars => TypeOK'
<1> SUFFICES ASSUME TypeOK, [Next]_vars PROVE TypeOK'
  OBVIOUS
<1> USE TableAssumption, DirectoryAssumption
<1>0. buckets \in [Directory -> [Slots -> Slot]]
  BY DEF TypeOK
<1>1. ASSUME NEW op \in {"insert", "lookup"}, NEW k \in Keys,
             NEW p \in Payloads \cup {Absent}, Start(op, k, p)
      PROVE  TypeOK'
  BY <1>1 DEF Start, TypeOK, Calls
<1>2. ASSUME SentinelCall PROVE TypeOK'
  BY <1>2 DEF SentinelCall, TypeOK, Outcome
<1>3. ASSUME InsertEmpty PROVE TypeOK'
  <2>1. call # NoCall
    BY <1>3 DEF InsertEmpty, NoCall
  <2> QED
    BY <1>3, <2>1, StoreCarriedType, ReturnType DEF InsertEmpty
<1>4. ASSUME InsertExisting \/ LoopDetected PROVE TypeOK'
  <2>1. call # NoCall
    BY <1>4 DEF InsertExisting, LoopDetected, Richer, NoCall
  <2> QED
    BY <1>0, <1>4, <2>1, ReturnType DEF InsertExisting, LoopDetected
<1>5. ASSUME LookupHit PROVE TypeOK'
  <2>1. call # NoCall
    BY <1>5 DEF LookupHit, NoCall
  <2>2. SlotSeen.payload \in Payloads \cup {Absent}
    BY <1>5, <2>1, SlotTyped DEF LookupHit, Slot
  <2> QED
    BY <1>0, <1>5, <2>1, <2>2, ReturnType DEF LookupHit
<1>6. ASSUME LookupMiss PROVE TypeOK'
  <2>1. call # NoCall
    BY <1>6 DEF LookupMiss, NoCall
  <2> QED
    BY <1>0, <1>6, <2>1, ReturnType DEF LookupMiss
<1>7. ASSUME NextSlot PROVE TypeOK'
  BY <1>7, PassSlotType DEF NextSlot, TypeOK
<1>8. ASSUME NextBucket PROVE TypeOK'
  BY <1>8, AdvanceType DEF NextBucket, BucketDone, TypeOK
<1>9. ASSUME WayExhausted PROVE TypeOK'
  <2> DEFINE res == IF call.op = "insert" THEN "thrown" ELSE Absent
  <2>1. call # NoCall /\ Return(res) /\ UNCHANGED <<home, buckets>>
    BY <1>9 DEF WayExhausted, BucketDone
  <2>2. res \in Payloads \cup {Absent, "inserted", "rejected", "thrown"}
    OBVIOUS
  <2> HIDE DEF res
  <2> QED
    BY <1>0, <2>1, <2>2, ReturnType
<1>10. ASSUME Displace PROVE TypeOK'
  <2>1. call # NoCall /\ call.i < BucketSize
    BY <1>10 DEF Displace, Richer, NoCall
  <2>2. SlotSeen.key \in Keys
    BY <1>10, <2>1, SlotTyped DEF Displace, Richer, OtherKey, Slot
  <2> QED
    BY <1>10, <2>1, <2>2, TakeOverType, StoreCarriedType DEF Displace, TypeOK
<1>11. ASSUME Clear PROVE TypeOK'
  <2>1. \A e \in Slot : [e EXCEPT !.key = Sentinel] \in Slot
    BY DEF Slot
  <2>2. buckets' \in [Directory -> [Slots -> Slot]]
    BY <1>0, <1>11, <2>1 DEF Clear
  <2> QED
    BY <1>11, <2>2 DEF Clear, Outcome, TypeOK
<1>12. CASE UNCHANGED vars
  BY <1>12 DEF vars, TypeOK
<1> QED
  BY <1>1, <1>2, <1>3, <1>4, <1>5, <1>6, <1>7, <1>8, <1>9, <1>10, <1>11, <1>12
     DEF Next, Step

\* Every reachable state is well typed.
THEOREM TypeCorrect == Spec => []TypeOK
BY InitTypeOK, NextTypeOK, PTL DEF Spec

-----------------------------------------------------------------------------
(* What a store does: one slot, empty or held by a richer entry, gets the    *)
(* carried one.  What a walk has passed, it would pass again.                *)

\* The slot in the way of the call is empty or holds a richer entry.
GivesWay ==
  /\ call # NoCall /\ call.i < BucketSize
  /\ ~AtLeastAsPoor(call.slot_index, call.i, call.probing_step)

LEMMA EmptyGivesWay ==
  ASSUME call # NoCall, call.i < BucketSize, SlotSeen.key = Sentinel
  PROVE  GivesWay
BY DEF GivesWay, AtLeastAsPoor, Holds, SlotSeen

LEMMA RicherGivesWay ==
  ASSUME TypeOK, Richer
  PROVE  /\ GivesWay /\ Inserting
         /\ SlotSeen.key \in Keys /\ SlotSeen.key # Sentinel
         /\ SlotSeen.key # call.key
         /\ SlotSeen.psl \in Nat /\ SlotSeen.psl < call.probing_step
         /\ ~Holds(call.slot_index, call.i, Sentinel)
<1>1. call # NoCall /\ call.i < BucketSize
  BY DEF Richer, NoCall
<1>2. /\ SlotSeen.psl \in Nat /\ call.probing_step \in Nat
      /\ SlotSeen.key \in Keys \cup {Sentinel}
  BY <1>1, SlotTyped, CallTyped DEF Slot
<1> QED
  BY <1>1, <1>2 DEF Richer, IsRicher, OtherKey, GivesWay, AtLeastAsPoor, Holds,
                    SlotSeen, Inserting

LEMMA StoreEffect ==
  ASSUME TypeOK, call # NoCall, call.i < BucketSize, StoreCarried
  PROVE  /\ call.key \in Keys /\ call.key # Sentinel
         /\ call.slot_index \in Directory /\ call.i \in Slots
         /\ buckets'[call.slot_index][call.i].key = call.key
         /\ buckets'[call.slot_index][call.i].psl = call.probing_step
         /\ buckets'[call.slot_index][call.i].payload = call.payload
         /\ \A b \in Directory, i \in Slots :
              b # call.slot_index \/ i # call.i =>
                buckets'[b][i] = buckets[b][i]
<1>1. /\ call.key \in Keys /\ call.key # Sentinel
      /\ call.slot_index \in Directory /\ call.i \in Slots
  BY CallTyped, SlotTyped, TableAssumption
<1>2. /\ buckets \in [Directory -> [Slots -> Slot]]
      /\ buckets' = [buckets EXCEPT ![call.slot_index][call.i] = Carried]
  BY DEF TypeOK, StoreCarried
<1>3. /\ buckets'[call.slot_index][call.i] = Carried
      /\ \A b \in Directory, i \in Slots :
           b # call.slot_index \/ i # call.i =>
             buckets'[b][i] = buckets[b][i]
  BY <1>1, <1>2
<1> QED
  BY <1>1, <1>3 DEF Carried

LEMMA PoorerStays ==
  ASSUME TypeOK, GivesWay, StoreCarried,
         NEW b \in Directory, NEW i \in Slots, NEW step \in Nat,
         AtLeastAsPoor(b, i, step)
  PROVE  AtLeastAsPoor(b, i, step)'
<1>1. /\ call # NoCall /\ call.i < BucketSize
      /\ call.probing_step \in Nat
  BY CallTyped DEF GivesWay
<1>2. CASE b = call.slot_index /\ i = call.i
  <2>1. buckets[b][i].psl \in Nat
    BY DEF TypeOK, Slot
  <2>2. call.probing_step >= step
    BY <1>1, <1>2, <2>1 DEF GivesWay, AtLeastAsPoor
  <2> QED
    BY <1>1, <1>2, <2>2, StoreEffect DEF AtLeastAsPoor, Holds
<1>3. CASE ~(b = call.slot_index /\ i = call.i)
  BY <1>1, <1>3, StoreEffect DEF AtLeastAsPoor, Holds
<1> QED
  BY <1>2, <1>3

LEMMA PassedPoorerStays ==
  ASSUME TypeOK, GivesWay, StoreCarried, home' = home,
         NEW k \in Keys, NEW step \in Nat, NEW b \in Directory,
         NEW i \in 0 .. BucketSize, PassedPoorer(k, step, b, i)
  PROVE  PassedPoorer(k, step, b, i)'
<1>1. home[k] \in Directory
  BY DEF TypeOK
<1>2. \A t \in 0 .. (step - 1) : t \in Nat /\ BucketAt(home[k], t) \in Directory
  BY <1>1, WayInDirectory
<1>3. \A j \in 0 .. (i - 1) : j \in Slots
  BY TableAssumption DEF Slots
<1>4. \A t \in 0 .. (step - 1), j \in Slots :
        AtLeastAsPoor(BucketAt(home[k], t), j, t)'
  BY <1>2, PoorerStays DEF PassedPoorer
<1>5. \A j \in 0 .. (i - 1) : AtLeastAsPoor(b, j, step)'
  BY <1>3, PoorerStays DEF PassedPoorer
<1> QED
  BY <1>4, <1>5 DEF PassedPoorer

\* Where a walk meets an empty slot or a richer entry, its key is in no slot:
\* from where it stands the key would have taken the slot in question.
LEMMA NotBeyond ==
  ASSUME OrderInv, GivesWay, SlotSeen.key # call.key,
         NEW c \in Directory, NEW j \in Slots
  PROVE  ~Holds(c, j, call.key)
<1> SUFFICES ASSUME Holds(c, j, call.key) PROVE FALSE
  OBVIOUS
<1> DEFINE h == home[call.key]
           s == buckets[c][j].psl
           step == call.probing_step
<1>1. /\ call # NoCall
      /\ call.key \in Keys /\ call.key # Sentinel
      /\ step \in Nat /\ call.i \in Slots
      /\ ~AtLeastAsPoor(call.slot_index, call.i, step)
  BY CallTyped, SlotTyped, TableAssumption DEF OrderInv, GivesWay
<1>2. s \in Nat
  BY DEF OrderInv, TypeOK, Slot
<1>3. PassedPoorer(call.key, s, c, j)
  BY <1>1 DEF OrderInv, EntriesInOrder, Holds
<1>4. /\ call.slot_index = BucketAt(h, step)
      /\ \A t \in 0 .. (step - 1), n \in Slots : ~Holds(BucketAt(h, t), n, call.key)
      /\ \A n \in 0 .. (call.i - 1) : ~Holds(call.slot_index, n, call.key)
  BY <1>1 DEF OrderInv, WalkSoFar
<1>5. /\ c = BucketAt(h, s)
      /\ \A t \in 0 .. (s - 1), n \in Slots : AtLeastAsPoor(BucketAt(h, t), n, t)
      /\ \A n \in 0 .. (j - 1) : AtLeastAsPoor(c, n, s)
  BY <1>3 DEF PassedPoorer
<1> HIDE DEF h, s, step
<1>6. CASE s < step
  BY <1>1, <1>2, <1>4, <1>5, <1>6
<1>7. CASE s = step
  <2>1. c = call.slot_index
    BY <1>4, <1>5, <1>7
  <2>2. j \in Int /\ call.i \in Int /\ j >= 0 /\ call.i >= 0
    BY <1>1, TableAssumption DEF Slots
  <2>3. CASE j < call.i
    BY <1>4, <2>1, <2>2, <2>3
  <2>4. CASE j = call.i
    BY <2>1, <2>4 DEF Holds, SlotSeen
  <2>5. CASE j > call.i
    BY <1>1, <1>5, <1>7, <2>1, <2>2, <2>5
  <2> QED
    BY <2>2, <2>3, <2>4, <2>5
<1>8. CASE s > step
  BY <1>1, <1>2, <1>4, <1>5, <1>8
<1> QED
  BY <1>1, <1>2, <1>6, <1>7, <1>8

\* A walk that ends at its starting bucket has seen every slot its key could
\* be in.
LEMMA NotBeyondReturn ==
  ASSUME OrderInv, BucketDone, WayEnds,
         NEW c \in Directory, NEW j \in Slots
  PROVE  ~Holds(c, j, call.key)
<1> SUFFICES ASSUME Holds(c, j, call.key) PROVE FALSE
  OBVIOUS
<1> DEFINE h == home[call.key]
           s == buckets[c][j].psl
           step == call.probing_step
<1>1. /\ call # NoCall /\ call.i = BucketSize
      /\ call.key \in Keys /\ call.key # Sentinel
      /\ step \in Nat
  BY CallTyped, TableAssumption DEF OrderInv, BucketDone
<1>2. s \in Nat
  BY DEF OrderInv, TypeOK, Slot
<1>3. PassedPoorer(call.key, s, c, j)
  BY <1>1 DEF OrderInv, EntriesInOrder, Holds
<1>4. /\ call.slot_index = BucketAt(h, step) /\ call.orig_slot_index = h
      /\ \A t \in 0 .. (step - 1), n \in Slots : ~Holds(BucketAt(h, t), n, call.key)
      /\ \A n \in 0 .. (call.i - 1) : ~Holds(call.slot_index, n, call.key)
  BY <1>1 DEF OrderInv, WalkSoFar
<1>5. c = BucketAt(h, s) /\ \A t \in 1 .. s : probingfn(h, t) # h
  BY <1>3 DEF PassedPoorer, NoReturnUpTo
<1>6. probingfn(h, step + 1) = h
  BY <1>4 DEF WayEnds, NextIndex
<1> HIDE DEF h, s, step
<1>7. s < step + 1
  <2>1. CASE step + 1 \in 1 .. s
    BY <1>5, <1>6, <2>1
  <2> QED
    BY <1>1, <1>2, <2>1
<1>8. CASE s < step
  BY <1>1, <1>2, <1>4, <1>5, <1>8
<1>9. CASE s = step
  <2>1. j \in 0 .. (call.i - 1)
    BY <1>1 DEF Slots
  <2> QED
    BY <1>4, <1>5, <1>9, <2>1
<1> QED
  BY <1>1, <1>2, <1>7, <1>8, <1>9

-----------------------------------------------------------------------------
(* Preservation of OrderInv.  InsertEmpty and Displace store, only Clear     *)
(* removes entries; the other actions move or end the call.                  *)

LEMMA InitOrderInv == Init => OrderInv
<1> SUFFICES ASSUME Init PROVE OrderInv
  OBVIOUS
<1>1. TypeOK
  BY InitTypeOK
<1>2. call = NoCall /\ ~Inserting /\ ~Displaced /\ call.op # "lookup"
  BY DEF Init, NoCall, Inserting, Displaced
<1>3. \A b \in Directory, i \in Slots : Holds(b, i, Sentinel)
  BY DEF Init, Holds, EmptySlot
<1> QED
  BY <1>1, <1>2, <1>3
     DEF OrderInv, PayloadsGiven, EntriesInOrder, KeysUnique, CarriedAlone,
         WalkSoFar, NewStored

\* Steps that leave the buckets alone.
LEMMA TableUntouched ==
  ASSUME OrderInv, UNCHANGED <<home, buckets>>
  PROVE  EntriesInOrder' /\ KeysUnique'
BY SMTT(30) DEF OrderInv, EntriesInOrder, KeysUnique, Holds, PassedPoorer, AtLeastAsPoor

\* Without a call nothing is carried.
LEMMA Idle ==
  ASSUME call' = NoCall
  PROVE  ~Inserting' /\ ~Displaced' /\ WalkSoFar' /\ CarriedAlone' /\ NewStored'
BY DEF NoCall, Inserting, Displaced, WalkSoFar, CarriedAlone, NewStored

\* The walk of the carried entry takes the slot, on its own way and once.
LEMMA StoreKeepsOrder ==
  ASSUME OrderInv, GivesWay, Inserting, StoreCarried, home' = home,
         SlotSeen.key # call.key
  PROVE  EntriesInOrder' /\ KeysUnique'
<1>1. call # NoCall /\ call.i < BucketSize /\ TypeOK
  BY DEF GivesWay, OrderInv
<1>2. \A d \in Directory, n \in Slots : ~Holds(d, n, call.key)
  BY NotBeyond
<1>3. \A d \in Directory, n \in Slots :
        IF d = call.slot_index /\ n = call.i
        THEN /\ buckets'[d][n].key = call.key
             /\ buckets'[d][n].psl = call.probing_step
        ELSE buckets'[d][n] = buckets[d][n] /\ buckets[d][n].key # call.key
  BY <1>1, <1>2, StoreEffect DEF Holds
<1>4. ASSUME NEW b \in Directory, NEW i \in Slots, ~Holds(b, i, Sentinel)'
      PROVE  PassedPoorer(buckets[b][i].key, buckets[b][i].psl, b, i)'
  <2>1. i \in 0 .. BucketSize
    BY TableAssumption DEF Slots
  <2>2. CASE b = call.slot_index /\ i = call.i
    <3>1. /\ buckets'[b][i].key = call.key
          /\ buckets'[b][i].psl = call.probing_step
      BY <1>3, <2>2
    <3>2. PassedPoorer(call.key, call.probing_step, b, i)
      BY <1>1, <2>2 DEF OrderInv, WalkSoFar
    <3>3. call.key \in Keys /\ call.probing_step \in Nat
      BY <1>1, CallTyped
    <3>4. PICK k \in Keys, step \in Nat : k = call.key /\ step = call.probing_step
      BY <3>3
    <3>5. PassedPoorer(k, step, b, i)'
      BY <1>1, <2>1, <3>2, <3>4, PassedPoorerStays
    <3> QED
      BY <3>1, <3>4, <3>5
  <2>3. CASE ~(b = call.slot_index /\ i = call.i)
    <3>1. buckets'[b][i] = buckets[b][i] /\ ~Holds(b, i, Sentinel)
      BY <1>3, <1>4, <2>3 DEF Holds
    <3>2. buckets[b][i].key \in Keys /\ buckets[b][i].psl \in Nat
      BY <1>1, <3>1 DEF TypeOK, Slot, Holds
    <3>3. PassedPoorer(buckets[b][i].key, buckets[b][i].psl, b, i)
      BY <3>1 DEF OrderInv, EntriesInOrder
    <3> QED
      BY <1>1, <2>1, <3>1, <3>2, <3>3, PassedPoorerStays
  <2> QED
    BY <2>2, <2>3
<1>5. ASSUME NEW b \in Directory, NEW c \in Directory,
             NEW i \in Slots, NEW j \in Slots,
             ~Holds(b, i, Sentinel)',
             buckets'[b][i].key = buckets'[c][j].key
      PROVE  b = c /\ i = j
  <2>1. CASE b = call.slot_index /\ i = call.i
    BY <1>3, <1>5, <2>1
  <2>2. CASE c = call.slot_index /\ j = call.i
    BY <1>3, <1>5, <2>2
  <2>3. CASE ~(b = call.slot_index /\ i = call.i)
               /\ ~(c = call.slot_index /\ j = call.i)
    BY <1>3, <1>5, <2>3 DEF OrderInv, KeysUnique, Holds
  <2> QED
    BY <2>1, <2>2, <2>3
<1> QED
  BY <1>4, <1>5 DEF EntriesInOrder, KeysUnique

LEMMA StoreKeepsPayloads ==
  ASSUME OrderInv, GivesWay, Inserting, StoreCarried,
         Inserting' => call'.payload \in Payloads
  PROVE  PayloadsGiven'
<1>1. call # NoCall /\ call.i < BucketSize /\ TypeOK
  BY DEF GivesWay, OrderInv
<1>2. call.payload \in Payloads
  BY DEF OrderInv, PayloadsGiven
<1> QED
  BY <1>1, <1>2, StoreEffect DEF OrderInv, PayloadsGiven, Holds

\* Displace leaves the victim to the call alone, on its own way, past the slot
\* it gave up.
LEMMA DisplaceWalk ==
  ASSUME OrderInv, Displace
  PROVE  /\ call' # NoCall /\ call'.op = "insert"
         /\ call'.orig_key = call.orig_key
         /\ call'.key = SlotSeen.key /\ call'.payload = SlotSeen.payload
         /\ \A b \in Directory, i \in Slots : buckets'[b][i].key # SlotSeen.key
         /\ WalkSoFar'
<1>1. /\ call # NoCall /\ call.i < BucketSize /\ TypeOK
      /\ GivesWay /\ Inserting /\ StoreCarried /\ home' = home
      /\ SlotSeen.key \in Keys /\ SlotSeen.key # Sentinel
      /\ SlotSeen.key # call.key
      /\ SlotSeen.psl \in Nat /\ SlotSeen.psl < call.probing_step
      /\ ~Holds(call.slot_index, call.i, Sentinel)
  BY RicherGivesWay DEF Displace, GivesWay, OrderInv
<1>2. /\ call.slot_index \in Directory /\ call.i \in Slots
      /\ call.probing_step \in Nat
  BY <1>1, CallTyped, SlotTyped
<1>3. PICK k \in Keys, s \in Nat, b \in Directory, i \in Slots, n \in Nat :
        /\ k = SlotSeen.key /\ s = SlotSeen.psl /\ b = call.slot_index
        /\ i = call.i /\ n = i + 1
  <2>1. call.i + 1 \in Nat
    BY <1>2 DEF Slots
  <2> QED
    BY <1>1, <1>2, <2>1
<1>4. /\ call' \in Calls /\ call'.op = "insert"
      /\ call'.orig_key = call.orig_key /\ call'.payload = SlotSeen.payload
      /\ call'.key = k /\ call'.probing_step = s
      /\ call'.orig_slot_index = home[k]
      /\ call'.slot_index = b /\ call'.i = n
  BY <1>1, <1>3, TakeOverType DEF Displace, Inserting
<1>5. buckets[b][i].key = k /\ buckets[b][i].psl = s
  BY <1>3 DEF SlotSeen
<1>6. /\ buckets'[b][i].key = call.key
      /\ buckets'[b][i].psl = call.probing_step
      /\ \A c \in Directory, j \in Slots :
           b # c \/ i # j => buckets'[c][j] = buckets[c][j]
      /\ call.key # Sentinel
  BY <1>1, <1>3, StoreEffect
<1>7. PassedPoorer(k, s, b, i)
  BY <1>1, <1>3, <1>5 DEF OrderInv, EntriesInOrder
<1>8. \A c \in Directory, j \in Slots : buckets'[c][j].key # k
  <2>1. \A c \in Directory, j \in Slots : buckets[c][j].key = k => b = c /\ i = j
    BY <1>1, <1>3, <1>5 DEF OrderInv, KeysUnique, Holds
  <2> QED
    BY <1>1, <1>3, <1>6, <2>1
<1>9. PassedPoorer(k, s, b, n)'
  <2>1. i \in 0 .. BucketSize /\ \A j \in 0 .. (n - 1) : j \in 0 .. (i - 1) \/ j = i
    BY <1>3, TableAssumption DEF Slots
  <2>2. PassedPoorer(k, s, b, i)'
    BY <1>1, <1>7, <2>1, PassedPoorerStays
  <2>3. AtLeastAsPoor(b, i, s)'
    BY <1>1, <1>2, <1>3, <1>6 DEF AtLeastAsPoor, Holds
  <2> QED
    BY <2>1, <2>2, <2>3 DEF PassedPoorer
<1>10. WalkSoFar'
  <2>1. home[k] \in Directory /\ home' = home
    BY <1>1 DEF TypeOK
  <2>2. /\ b = BucketAt(home'[k], s)
        /\ NoReturnUpTo(home'[k], s)
    BY <1>7, <2>1 DEF PassedPoorer
  <2>3. \A t \in 0 .. (s - 1) : BucketAt(home'[k], t) \in Directory
    BY <2>1, WayInDirectory
  <2>4. \A t \in 0 .. (s - 1), j \in Slots :
          LET c == BucketAt(home[k], t)
          IN  ~Holds(c, j, Sentinel)' /\ ~Holds(c, j, k)'
    BY <1>8, <1>9, <2>1, <2>3 DEF PassedPoorer, AtLeastAsPoor, Holds
  <2>5. \A j \in 0 .. (n - 1) : ~Holds(b, j, Sentinel)' /\ ~Holds(b, j, k)'
    <3>1. \A j \in 0 .. (n - 1) : j \in Slots
      BY <1>3, TableAssumption DEF Slots
    <3>2. (\A j \in 0 .. (n - 1) : AtLeastAsPoor(b, j, s))'
      BY <1>9 DEF PassedPoorer
    <3>3. \A j \in 0 .. (n - 1) : ~Holds(b, j, Sentinel)'
      BY <3>2 DEF AtLeastAsPoor
    <3> QED
      BY <1>8, <3>1, <3>3 DEF Holds
  <2>6. PassedPoorer(call.key, call.probing_step, call.slot_index, call.i)'
    BY <1>4, <1>9
  <2>7. (\A t \in 0 .. (call.probing_step - 1), j \in Slots :
          LET c == BucketAt(home[call.key], t)
          IN  ~Holds(c, j, Sentinel) /\ ~Holds(c, j, call.key))'
    BY <1>4, <2>4
  <2>8. (\A j \in 0 .. (call.i - 1) :
          ~Holds(call.slot_index, j, Sentinel) /\ ~Holds(call.slot_index, j, call.key))'
    BY <1>4, <2>5 DEF Holds
  <2>9. (/\ call.orig_slot_index = home[call.key]
         /\ call.slot_index = BucketAt(home[call.key], call.probing_step)
         /\ NoReturnUpTo(home[call.key], call.probing_step))'
    BY <1>4, <2>1, <2>2
       DEF NoReturnUpTo, BucketAt, probingfn, LinearProbingFunc,
           QuadraticProbingFunc
  <2> QED
    BY <2>6, <2>7, <2>8, <2>9 DEF WalkSoFar
<1> QED
  BY <1>3, <1>4, <1>8, <1>10 DEF Calls, NoCall

\* The next slot of the same bucket: the one passed is held by another entry,
\* and when inserting by one at least as poor.
LEMMA NextSlotWalk ==
  ASSUME OrderInv, NextSlot
  PROVE  WalkSoFar'
<1>1. /\ call # NoCall /\ call.i < BucketSize /\ call.i \in Nat
      /\ ~Holds(call.slot_index, call.i, Sentinel)
      /\ ~Holds(call.slot_index, call.i, call.key)
      /\ UNCHANGED <<home, buckets>>
  BY CallTyped DEF OrderInv, NextSlot, OtherKey, Holds, SlotSeen
<1>2. Inserting => AtLeastAsPoor(call.slot_index, call.i, call.probing_step)
  <2>1. SlotSeen.psl \in Nat /\ call.probing_step \in Nat
    BY <1>1, CallTyped, SlotTyped DEF OrderInv, Slot
  <2> QED
    BY <1>1, <2>1
       DEF NextSlot, Richer, IsRicher, AtLeastAsPoor, Inserting, SlotSeen
<1>3. /\ call'.op = call.op /\ call'.key = call.key
      /\ call'.orig_slot_index = call.orig_slot_index
      /\ call'.probing_step = call.probing_step
      /\ call'.slot_index = call.slot_index /\ call'.i = call.i + 1
  BY <1>1, PassSlotType DEF OrderInv, NextSlot
<1>4. \A j \in 0 .. (call.i + 1 - 1) : j \in 0 .. (call.i - 1) \/ j = call.i
  BY <1>1
<1>5. Inserting' =>
        PassedPoorer(call.key, call.probing_step, call.slot_index, call.i)'
  BY <1>1, <1>2, <1>3, <1>4
     DEF OrderInv, WalkSoFar, PassedPoorer, AtLeastAsPoor, Holds, Inserting
<1> QED
  BY <1>1, <1>3, <1>4, <1>5 DEF OrderInv, WalkSoFar, Holds

\* The next bucket: the one left behind is full of other, poorer entries.
LEMMA NextBucketWalk ==
  ASSUME OrderInv, NextBucket
  PROVE  WalkSoFar'
<1>1. /\ call # NoCall /\ call.i = BucketSize /\ TypeOK
      /\ call.probing_step \in Nat
      /\ call.orig_slot_index = home[call.key]
      /\ call.slot_index = BucketAt(home[call.key], call.probing_step)
      /\ UNCHANGED <<home, buckets>>
  BY CallTyped DEF OrderInv, NextBucket, BucketDone, WalkSoFar
<1>2. PICK k \in Keys, s \in Nat, n \in Nat :
        k = call.key /\ s = call.probing_step /\ n = s + 1
  BY <1>1, CallTyped
<1> DEFINE h == home[k]
<1>3. /\ call'.op = call.op /\ call'.key = k
      /\ call'.orig_slot_index = h
      /\ call'.probing_step = n
      /\ call'.slot_index = BucketAt(h, n) /\ call'.i = 0
      /\ probingfn(h, n) # h
  <2>1. NextIndex = probingfn(h, n) /\ n # 0
    BY <1>1, <1>2 DEF NextIndex
  <2> QED
    BY <1>1, <1>2, <2>1, AdvanceType DEF NextBucket, WayEnds, BucketAt
<1>4. Slots = 0 .. (call.i - 1)
  BY <1>1 DEF Slots
<1>5. /\ \A t \in 0 .. (s - 1), j \in Slots :
           ~Holds(BucketAt(h, t), j, Sentinel) /\ ~Holds(BucketAt(h, t), j, k)
      /\ \A j \in Slots :
           ~Holds(BucketAt(h, s), j, Sentinel) /\ ~Holds(BucketAt(h, s), j, k)
      /\ NoReturnUpTo(h, s)
  BY <1>1, <1>2, <1>4 DEF OrderInv, WalkSoFar
<1>6. Inserting =>
        /\ \A t \in 0 .. (s - 1), j \in Slots : AtLeastAsPoor(BucketAt(h, t), j, t)
        /\ \A j \in Slots : AtLeastAsPoor(BucketAt(h, s), j, s)
  BY <1>1, <1>2, <1>4 DEF OrderInv, WalkSoFar, PassedPoorer
<1>7. /\ \A t \in 0 .. (n - 1) : t \in 0 .. (s - 1) \/ t = s
      /\ \A t \in 1 .. n : t \in 1 .. s \/ t = n
      /\ \A j : j \notin 0 .. (0 - 1)
  BY <1>2
<1>8. NoReturnUpTo(h, n)
  BY <1>3, <1>5, <1>7 DEF NoReturnUpTo
<1>9. \A t \in 0 .. (n - 1), j \in Slots :
        ~Holds(BucketAt(h, t), j, Sentinel) /\ ~Holds(BucketAt(h, t), j, k)
  BY <1>5, <1>7
<1>10. Inserting =>
         \A t \in 0 .. (n - 1), j \in Slots : AtLeastAsPoor(BucketAt(h, t), j, t)
  BY <1>6, <1>7
<1>11. home' = home /\ buckets' = buckets
  BY <1>1
<1>12. (/\ call.orig_slot_index = home[call.key]
        /\ call.slot_index = BucketAt(home[call.key], call.probing_step)
        /\ NoReturnUpTo(home[call.key], call.probing_step))'
  BY <1>3, <1>8, <1>11
     DEF NoReturnUpTo, BucketAt, probingfn, LinearProbingFunc,
         QuadraticProbingFunc
<1>13. (\A t \in 0 .. (call.probing_step - 1), j \in Slots :
          LET b == BucketAt(home[call.key], t)
          IN  ~Holds(b, j, Sentinel) /\ ~Holds(b, j, call.key))'
  BY <1>3, <1>9, <1>11
     DEF Holds, BucketAt, probingfn, LinearProbingFunc, QuadraticProbingFunc
<1>14. Inserting' =>
         PassedPoorer(call.key, call.probing_step, call.slot_index, call.i)'
  <2>1. Inserting' =>
          (\A t \in 0 .. (call.probing_step - 1), j \in Slots :
             AtLeastAsPoor(BucketAt(home[call.key], t), j, t))'
    BY <1>3, <1>10, <1>11
       DEF Inserting, AtLeastAsPoor, Holds, BucketAt, probingfn,
           LinearProbingFunc, QuadraticProbingFunc
  <2> QED
    BY <1>3, <1>7, <1>12, <2>1 DEF PassedPoorer
<1>15. (\A j \in 0 .. (call.i - 1) :
          ~Holds(call.slot_index, j, Sentinel) /\ ~Holds(call.slot_index, j, call.key))'
  BY <1>3, <1>7
<1> QED
  BY <1>12, <1>13, <1>14, <1>15 DEF WalkSoFar

LEMMA StartOrderInv ==
  ASSUME OrderInv,
         NEW op \in {"insert", "lookup"}, NEW k \in Keys,
         NEW p \in Payloads \cup {Absent},
         op = "insert" => p \in Payloads,
         Start(op, k, p)
  PROVE  PayloadsGiven' /\ CarriedAlone' /\ WalkSoFar' /\ NewStored'
<1>1. /\ call'.op = op /\ call'.orig_key = k /\ call'.key = k /\ call'.payload = p
      /\ call'.orig_slot_index = home[k] /\ call'.slot_index = home[k]
      /\ call'.probing_step = 0 /\ call'.i = 0
      /\ home' = home /\ buckets' = buckets
  BY DEF Start
<1>2. PayloadsGiven'
  BY <1>1 DEF OrderInv, PayloadsGiven, Inserting, Holds
<1>3. ~Displaced'
  BY <1>1 DEF Displaced
<1>4. WalkSoFar'
  <2>1. /\ \A j : j \notin 0 .. (0 - 1)
        /\ \A j : j \notin 1 .. 0
    OBVIOUS
  <2>2. PassedPoorer(call.key, call.probing_step, call.slot_index, call.i)'
    BY <1>1, <2>1 DEF PassedPoorer, NoReturnUpTo, BucketAt
  <2> QED
    BY <1>1, <2>1, <2>2 DEF WalkSoFar, NoReturnUpTo, BucketAt
<1> QED
  BY <1>1, <1>2, <1>3, <1>4 DEF CarriedAlone, NewStored

LEMMA InsertEmptyOrderInv ==
  ASSUME OrderInv, InsertEmpty
  PROVE  PayloadsGiven' /\ EntriesInOrder' /\ KeysUnique'
<1>1. /\ call # NoCall /\ call.i < BucketSize /\ GivesWay /\ Inserting
      /\ StoreCarried /\ home' = home /\ ~Inserting'
  BY EmptyGivesWay, Idle DEF InsertEmpty, Return, Inserting, NoCall
<1>2. SlotSeen.key # call.key
  BY <1>1, CallTyped, TableAssumption DEF OrderInv, InsertEmpty
<1> QED
  BY <1>1, <1>2, StoreKeepsOrder, StoreKeepsPayloads

LEMMA DisplaceOrderInv ==
  ASSUME OrderInv, Displace
  PROVE  /\ PayloadsGiven' /\ EntriesInOrder' /\ KeysUnique'
         /\ CarriedAlone' /\ NewStored'
<1>1. /\ GivesWay /\ Inserting /\ StoreCarried /\ home' = home
      /\ call # NoCall /\ call.i < BucketSize
      /\ SlotSeen.key \in Keys /\ SlotSeen.key # call.key
      /\ call.slot_index \in Directory /\ call.i \in Slots
      /\ ~Holds(call.slot_index, call.i, Sentinel)
  BY RicherGivesWay, CallTyped, SlotTyped DEF Displace, GivesWay, OrderInv
<1>2. call'.payload \in Payloads
  BY <1>1, DisplaceWalk DEF OrderInv, PayloadsGiven, SlotSeen
<1>3. CarriedAlone'
  BY DisplaceWalk DEF CarriedAlone, Holds
<1>4. Stored(call.orig_key)'
  <2>1. CASE call.key = call.orig_key
    <3>1. buckets'[call.slot_index][call.i].key = call'.orig_key
      BY <1>1, <2>1, StoreEffect, DisplaceWalk DEF OrderInv
    <3> QED
      BY <1>1, <3>1 DEF Stored, Holds
  <2>2. CASE call.key # call.orig_key
    <3>1. PICK b \in Directory, i \in Slots : Holds(b, i, call.orig_key)
      BY <1>1, <2>2 DEF OrderInv, NewStored, Displaced, Stored
    <3>2. b # call.slot_index \/ i # call.i
      BY <3>1 DEF Displace, Holds, SlotSeen
    <3>3. buckets'[b][i].key = call'.orig_key
      BY <1>1, <3>1, <3>2, StoreEffect, DisplaceWalk DEF OrderInv, Holds
    <3> QED
      BY <3>3 DEF Stored, Holds
  <2> QED
    BY <2>1, <2>2
<1>5. NewStored'
  BY <1>4, DisplaceWalk DEF NewStored
<1> QED
  BY <1>1, <1>2, <1>3, <1>5, StoreKeepsOrder, StoreKeepsPayloads

LEMMA ClearEffect ==
  ASSUME TypeOK, Clear
  PROVE  \A b \in Directory, i \in Slots : Holds(b, i, Sentinel)'
<1>1. \A b \in Directory, i \in Slots : buckets[b][i] \in Slot
  BY DEF TypeOK
<1>2. \A e \in Slot : [e EXCEPT !.key = Sentinel].key = Sentinel
  BY DEF Slot
<1> QED
  BY <1>1, <1>2 DEF Clear, Holds

\* The walk goes on with the same entry.
LEMMA CallGoesOn ==
  ASSUME TypeOK, NextSlot \/ NextBucket
  PROVE  /\ call' # NoCall
         /\ call'.op = call.op /\ call'.payload = call.payload
         /\ call'.key = call.key /\ call'.orig_key = call.orig_key
         /\ UNCHANGED <<home, buckets, ret>>
<1>1. CASE NextSlot
  BY <1>1, PassSlotType DEF NextSlot, Calls, NoCall
<1>2. CASE NextBucket
  BY <1>2, AdvanceType DEF NextBucket, BucketDone, Calls, NoCall
<1> QED
  BY <1>1, <1>2

LEMMA NextOrderInv == OrderInv /\ [Next]_vars => OrderInv'
<1> SUFFICES ASSUME OrderInv, [Next]_vars PROVE OrderInv'
  OBVIOUS
<1>1. TypeOK'
  BY NextTypeOK DEF OrderInv
<1>2. ASSUME UNCHANGED <<home, buckets>>,
             Inserting' => call'.payload \in Payloads
      PROVE  PayloadsGiven'
  BY <1>2 DEF OrderInv, PayloadsGiven, Holds
<1>3. ASSUME NEW op \in {"insert", "lookup"}, NEW k \in Keys,
             NEW p \in Payloads \cup {Absent},
             op = "insert" => p \in Payloads,
             Start(op, k, p)
      PROVE  OrderInv'
  <2>1. UNCHANGED <<home, buckets>>
    BY <1>3 DEF Start
  <2> QED
    BY <1>1, <1>3, <2>1, StartOrderInv, TableUntouched DEF OrderInv
<1>4. ASSUME InsertEmpty PROVE OrderInv'
  <2>1. call' = NoCall
    BY <1>4 DEF InsertEmpty, Return
  <2> QED
    BY <1>1, <1>4, <2>1, InsertEmptyOrderInv, Idle DEF OrderInv
<1>5. ASSUME InsertExisting \/ LoopDetected \/ WayExhausted
               \/ LookupHit \/ LookupMiss
      PROVE  OrderInv'
  <2>1. call' = NoCall /\ UNCHANGED <<home, buckets>>
    BY <1>5 DEF InsertExisting, LoopDetected, WayExhausted, LookupHit,
                LookupMiss, Return
  <2> QED
    BY <1>1, <1>2, <2>1, Idle, TableUntouched DEF OrderInv
<1>6. ASSUME Displace PROVE OrderInv'
  BY <1>1, <1>6, DisplaceOrderInv, DisplaceWalk DEF OrderInv
<1>7. ASSUME NextSlot \/ NextBucket PROVE OrderInv'
  <2>1. /\ call'.op = call.op /\ call'.payload = call.payload
        /\ call'.key = call.key /\ call'.orig_key = call.orig_key
        /\ UNCHANGED <<home, buckets>>
    BY <1>7, CallGoesOn DEF OrderInv
  <2>2. PayloadsGiven'
    BY <1>2, <2>1 DEF OrderInv, PayloadsGiven, Inserting
  <2>3. CarriedAlone' /\ NewStored'
    BY <2>1 DEF OrderInv, CarriedAlone, NewStored, Displaced, Inserting,
                Stored, Holds
  <2> QED
    BY <1>1, <1>7, <2>1, <2>2, <2>3, NextSlotWalk, NextBucketWalk,
       TableUntouched DEF OrderInv
<1>8. ASSUME Clear PROVE OrderInv'
  <2>1. \A b \in Directory, i \in Slots : Holds(b, i, Sentinel)'
    BY <1>8, ClearEffect DEF OrderInv
  <2>2. call' = NoCall
    BY <1>8 DEF Clear
  <2>3. PayloadsGiven' /\ EntriesInOrder' /\ KeysUnique'
    BY <2>1, <2>2, Idle DEF PayloadsGiven, EntriesInOrder, KeysUnique
  <2> QED
    BY <1>1, <2>2, <2>3, Idle DEF OrderInv
<1>9. ASSUME SentinelCall \/ UNCHANGED vars PROVE OrderInv'
  <2>1. UNCHANGED <<home, buckets, call>>
    BY <1>9 DEF SentinelCall, vars
  <2>2. PayloadsGiven'
    BY <1>2, <2>1 DEF OrderInv, PayloadsGiven, Inserting
  <2>3. WalkSoFar' /\ CarriedAlone' /\ NewStored'
    BY <2>1 DEF OrderInv, WalkSoFar, PassedPoorer, AtLeastAsPoor, Holds,
                CarriedAlone, NewStored, Displaced, Inserting, Stored
  <2> QED
    BY <1>1, <2>1, <2>2, <2>3, TableUntouched DEF OrderInv
<1> QED
  BY <1>3, <1>4, <1>5, <1>6, <1>7, <1>8, <1>9, TableAssumption DEF Next, Step

THEOREM OrderInvariant == Spec => []OrderInv
BY InitOrderInv, NextOrderInv, PTL DEF Spec

\* Every entry stands where its walk first met somebody richer, in one slot,
\* and one that is carried in none (probing.hpp, RobinhoodProbing::insert).
THEOREM AlwaysRobinHoodOrder == Spec => []RobinHoodOrder
<1>1. OrderInv => RobinHoodOrder
  BY DEF OrderInv, EntriesInOrder, KeysUnique, CarriedAlone, Displaced,
         RobinHoodOrder
<1> QED
  BY <1>1, OrderInvariant, PTL

\* An insert of a present key leaves every slot alone (probing.hpp, insert's
\* "key already exists").
THEOREM PresentKeyUntouched == Spec => ExistingUntouched
<1> DEFINE A == Inserting /\ buckets' # buckets /\ call.key = call.orig_key =>
                  \A b \in Directory, i \in Slots : ~Holds(b, i, call.key)
<1>1. OrderInv /\ [Next]_vars => [A]_vars
  <2> SUFFICES ASSUME OrderInv, [Next]_vars, Inserting, buckets' # buckets,
                      NEW b \in Directory, NEW i \in Slots
               PROVE  ~Holds(b, i, call.key)
    OBVIOUS
  <2>1. call # NoCall
    BY DEF Inserting, NoCall
  <2>2. InsertEmpty \/ Displace
    BY <2>1 DEF Next, Step, Start, SentinelCall, Clear, InsertExisting,
                LoopDetected, NextSlot, NextBucket, WayExhausted, LookupHit,
                LookupMiss, vars
  <2>3. GivesWay /\ SlotSeen.key # call.key
    BY <2>1, <2>2, EmptyGivesWay, RicherGivesWay, CallTyped, TableAssumption
       DEF OrderInv, InsertEmpty, Displace
  <2> QED
    BY <2>3, NotBeyond
<1> QED
  BY <1>1, OrderInvariant, PTL DEF Spec, ExistingUntouched

-----------------------------------------------------------------------------
(* When insert throws.  A way that ends has been seen whole.  A linear       *)
(* insert that finds the entry it has stored itself has gone once around the *)
(* ring since, whichever entries it carried on the way.                      *)

\* The buckets from b up to c, without c, in the order of the ring.
Between(b, c) == IF b <= c THEN b .. (c - 1) ELSE (b .. (N - 1)) \cup (0 .. (c - 1))

AllFull == \A c \in Directory : Full(c)

\* The new entry is in slot j of bucket b, and the call has gone on from there.
GoneOnFrom(b, j) ==
  /\ Holds(b, j, call.orig_key)
  /\ \/ AllFull
     \/ b = call.slot_index /\ j < call.i
     \/ b # call.slot_index /\ \A c \in Between(b, call.slot_index) : Full(c)

RingInv ==
  Displaced /\ ~Quadratic =>
    \E b \in Directory, j \in Slots : GoneOnFrom(b, j)

LEMMA FullStays ==
  ASSUME TypeOK, call # NoCall, call.i < BucketSize, StoreCarried,
         NEW c \in Directory, Full(c)
  PROVE  Full(c)'
BY StoreEffect DEF Full, Holds

LEMMA BetweenInDirectory ==
  ASSUME NEW b \in Directory, NEW c \in Directory
  PROVE  Between(b, c) \subseteq Directory
BY DirectoryAssumption DEF Between, Directory

LEMMA DisplaceRing ==
  ASSUME OrderInv, RingInv, Displace
  PROVE  RingInv'
<1> SUFFICES ASSUME ~Quadratic
             PROVE  \E b \in Directory, j \in Slots : GoneOnFrom(b, j)'
  BY DEF RingInv
<1>1. /\ call # NoCall /\ call.i < BucketSize /\ TypeOK
      /\ StoreCarried /\ Inserting
      /\ SlotSeen.key \in Keys
      /\ call.slot_index \in Directory /\ call.i \in Slots
  BY RicherGivesWay, CallTyped, SlotTyped DEF Displace, GivesWay, OrderInv
<1>2. /\ call'.orig_key = call.orig_key
      /\ call'.slot_index = call.slot_index /\ call'.i = call.i + 1
  BY <1>1, TakeOverType DEF Displace
<1>3. CASE call.key = call.orig_key
  <2>1. PICK b \in Directory, j \in Slots : b = call.slot_index /\ j = call.i
    BY <1>1
  <2>2. buckets'[b][j].key = call.orig_key
    BY <1>1, <1>3, <2>1, StoreEffect
  <2>3. j < call'.i /\ b = call'.slot_index
    BY <1>2, <2>1, TableAssumption DEF Slots
  <2> QED
    BY <1>2, <2>2, <2>3 DEF GoneOnFrom, Holds
<1>4. CASE call.key # call.orig_key
  <2>1. PICK b \in Directory, j \in Slots : GoneOnFrom(b, j)
    BY <1>1, <1>4 DEF RingInv, Displaced
  <2>2. b # call.slot_index \/ j # call.i
    BY <2>1 DEF GoneOnFrom, Displace, Holds, SlotSeen
  <2>3. Holds(b, j, call.orig_key)'
    BY <1>1, <1>2, <2>1, <2>2, StoreEffect DEF GoneOnFrom, Holds
  <2>4. \A c \in Directory : Full(c) => Full(c)'
    BY <1>1, FullStays
  <2>5. \A c \in Between(b, call.slot_index) : c \in Directory
    BY <1>1, BetweenInDirectory
  <2>6. CASE AllFull
    BY <2>3, <2>4, <2>6 DEF AllFull, GoneOnFrom
  <2>7. CASE b = call.slot_index /\ j < call.i
    <3>1. j < call'.i /\ b = call'.slot_index
      BY <1>1, <1>2, <2>7, TableAssumption DEF Slots
    <3> QED
      BY <2>3, <3>1 DEF GoneOnFrom
  <2>8. CASE b # call.slot_index /\ \A c \in Between(b, call.slot_index) : Full(c)
    <3>1. \A c \in Between(b, call.slot_index) : Full(c)'
      BY <2>4, <2>5, <2>8
    <3>2. b # call'.slot_index /\ (\A c \in Between(b, call.slot_index) : Full(c))'
      BY <1>2, <2>8, <3>1 DEF Between, Full, Holds
    <3> QED
      BY <2>3, <3>2 DEF GoneOnFrom
  <2> QED
    BY <2>1, <2>6, <2>7, <2>8 DEF GoneOnFrom
<1> QED
  BY <1>3, <1>4

LEMMA NextSlotRing ==
  ASSUME OrderInv, RingInv, NextSlot
  PROVE  RingInv'
<1>1. /\ call # NoCall /\ call.i \in 0 .. BucketSize /\ TypeOK
      /\ call'.op = call.op /\ call'.key = call.key
      /\ call'.orig_key = call.orig_key /\ call'.slot_index = call.slot_index
      /\ call'.i = call.i + 1
      /\ UNCHANGED <<home, buckets>>
  BY CallTyped, PassSlotType DEF OrderInv, NextSlot
<1>2. ASSUME NEW b \in Directory, NEW j \in Slots, GoneOnFrom(b, j)
      PROVE  GoneOnFrom(b, j)'
  <2>1. j < call.i => j < call'.i
    BY <1>1, TableAssumption DEF Slots
  <2> QED
    BY <1>1, <1>2, <2>1 DEF GoneOnFrom, AllFull, Between, Full, Holds
<1>3. Displaced' = Displaced
  BY <1>1 DEF Displaced, Inserting
<1> QED
  BY <1>2, <1>3 DEF RingInv

LEMMA NextBucketRing ==
  ASSUME OrderInv, RingInv, NextBucket
  PROVE  RingInv'
<1> SUFFICES ASSUME Displaced', ~Quadratic
             PROVE  \E b \in Directory, j \in Slots : GoneOnFrom(b, j)'
  BY DEF RingInv
<1>1. /\ call # NoCall /\ call.i = BucketSize /\ TypeOK
      /\ call.slot_index \in Directory
      /\ call'.op = call.op /\ call'.key = call.key
      /\ call'.orig_key = call.orig_key /\ call'.slot_index = NextIndex
      /\ UNCHANGED <<home, buckets>>
  BY CallTyped, AdvanceType DEF OrderInv, NextBucket, BucketDone
<1>2. NextIndex = Succ(call.slot_index)
  <2>1. /\ call.orig_slot_index \in Directory /\ call.probing_step \in Nat
        /\ call.slot_index = BucketAt(call.orig_slot_index, call.probing_step)
    BY <1>1, CallTyped DEF OrderInv, WalkSoFar
  <2> QED
    BY <2>1, LinearStep DEF NextIndex
<1>3. Full(call.slot_index)
  BY <1>1 DEF OrderInv, WalkSoFar, Full, Slots
<1>4. PICK b \in Directory, j \in Slots : GoneOnFrom(b, j)
  BY <1>1 DEF RingInv, Displaced, Inserting
<1>5. PICK c \in Directory, d \in Directory :
        c = call.slot_index /\ d = Succ(c) /\ call'.slot_index = d
  BY <1>1, <1>2, DirectoryAssumption DEF Succ, Directory
<1>6. Holds(b, j, call.orig_key)'
  BY <1>1, <1>4 DEF GoneOnFrom, Holds
<1>7. CASE AllFull
  BY <1>1, <1>6, <1>7 DEF AllFull, Full, Holds, GoneOnFrom
<1>8. CASE ~AllFull
  <2>1. b = c \/ \A e \in Between(b, c) : Full(e)
    BY <1>4, <1>5, <1>8 DEF GoneOnFrom
  <2>2. CASE d = b
    <3>1. \A e \in Directory : e = c \/ (b # c /\ e \in Between(b, c))
      BY <1>5, <2>2, DirectoryAssumption DEF Succ, Between, Directory
    <3>2. AllFull
      BY <1>3, <1>5, <2>1, <3>1 DEF AllFull
    <3> QED
      BY <1>8, <3>2
  <2>3. CASE d # b
    <3>1. \A e \in Between(b, d) : e = c \/ (b # c /\ e \in Between(b, c))
      BY <1>5, <2>3, DirectoryAssumption DEF Succ, Between, Directory
    <3>2. \A e \in Between(b, d) : Full(e)
      BY <1>3, <1>5, <2>1, <3>1
    <3>3. (\A e \in Between(b, call.slot_index) : Full(e))'
      BY <1>1, <1>5, <3>2 DEF Between, Full, Holds
    <3> QED
      BY <1>5, <1>6, <2>3, <3>3 DEF GoneOnFrom
  <2> QED
    BY <2>2, <2>3
<1> QED
  BY <1>7, <1>8

LEMMA NextRingInv == OrderInv /\ RingInv /\ [Next]_vars => RingInv'
<1> SUFFICES ASSUME OrderInv, RingInv, [Next]_vars PROVE RingInv'
  OBVIOUS
<1>1. ASSUME NEW op, NEW k, NEW p, Start(op, k, p) PROVE RingInv'
  BY <1>1 DEF Start, RingInv, Displaced
<1>2. ASSUME call' = NoCall PROVE RingInv'
  BY <1>2, Idle DEF RingInv
<1>3. CASE SentinelCall \/ Clear
  BY <1>2, <1>3 DEF SentinelCall, Clear
<1>4. CASE InsertEmpty \/ InsertExisting \/ LoopDetected \/ WayExhausted
             \/ LookupHit \/ LookupMiss
  BY <1>2, <1>4 DEF InsertEmpty, InsertExisting, LoopDetected, WayExhausted,
                    LookupHit, LookupMiss, Return
<1>5. CASE UNCHANGED vars
  BY <1>5 DEF vars, RingInv, Displaced, Inserting, GoneOnFrom, AllFull, Between,
              Full, Holds
<1> QED
  BY <1>1, <1>3, <1>4, <1>5, DisplaceRing, NextSlotRing, NextBucketRing
     DEF Next, Step

LEMMA RingInvariant == Spec => []RingInv
<1>1. Init => RingInv
  BY DEF Init, NoCall, RingInv, Displaced, Inserting
<1> QED
  BY <1>1, NextRingInv, OrderInvariant, PTL DEF Spec

LEMMA WayIsFull ==
  ASSUME OrderInv, BucketDone, WayEnds
  PROVE  \E s \in 1 .. N : NoRoomFor(call.key, s)
<1>1. /\ call # NoCall /\ call.i = BucketSize
      /\ home[call.key] \in Directory /\ call.probing_step \in Nat
      /\ call.orig_slot_index = home[call.key]
      /\ call.slot_index = BucketAt(home[call.key], call.probing_step)
  BY CallTyped DEF OrderInv, BucketDone, WalkSoFar
<1>2. PICK h \in Directory, s \in Nat, n \in Nat :
        h = home[call.key] /\ s = call.probing_step /\ n = s + 1
  BY <1>1
<1>3. /\ NoReturnUpTo(h, s)
      /\ \A t \in 0 .. (s - 1), j \in Slots : ~Holds(BucketAt(h, t), j, Sentinel)
      /\ \A j \in 0 .. (call.i - 1) : ~Holds(call.slot_index, j, Sentinel)
  BY <1>1, <1>2 DEF OrderInv, WalkSoFar
<1>4. n \in 1 .. N
  BY <1>2, <1>3, WalkIsShort, DirectoryAssumption
<1>5. probingfn(h, n) = h
  BY <1>1, <1>2 DEF WayEnds, NextIndex
<1>6. \A t \in 0 .. (s - 1) : Full(BucketAt(h, t))
  BY <1>3 DEF Full
<1>7. Full(BucketAt(h, s))
  BY <1>1, <1>2, <1>3 DEF Full, Slots
<1>8. \A t \in 0 .. (n - 1) : t \in 0 .. (s - 1) \/ t = s
  BY <1>2
<1>9. NoRoomFor(call.key, n)
  BY <1>2, <1>5, <1>6, <1>7, <1>8 DEF NoRoomFor
<1> QED
  BY <1>4, <1>9

LEMMA LoopIsFull ==
  ASSUME OrderInv, RingInv, LoopDetected, ~Quadratic
  PROVE  \E s \in 1 .. N : NoRoomFor(call.key, s)
<1>1. /\ call # NoCall /\ call.i < BucketSize
      /\ Inserting /\ SlotSeen.key # call.key /\ SlotSeen.key # Sentinel
      /\ call.slot_index \in Directory /\ call.i \in Slots
      /\ home[call.key] \in Directory
  BY RicherGivesWay, CallTyped, SlotTyped DEF LoopDetected, GivesWay, OrderInv
<1>2. PICK b \in Directory, j \in Slots : GoneOnFrom(b, j)
  BY <1>1 DEF RingInv, Displaced, LoopDetected
<1>3. b = call.slot_index /\ j = call.i
  BY <1>1, <1>2 DEF OrderInv, KeysUnique, GoneOnFrom, LoopDetected, Holds, SlotSeen
<1>4. AllFull
  BY <1>2, <1>3, TableAssumption DEF GoneOnFrom, Slots
<1>5. \A t \in 0 .. (N - 1) : BucketAt(home[call.key], t) \in Directory
  BY <1>1, WayInDirectory
<1>6. probingfn(home[call.key], N) = home[call.key] /\ N \in 1 .. N
  BY <1>1, ProbeReturns, DirectoryAssumption
<1> QED
  BY <1>4, <1>5, <1>6 DEF AllFull, NoRoomFor

\* insert throws only with the whole way of the entry it carries full.
THEOREM ThrowsRightly == Spec => ThrowsOnFullWay
<1> DEFINE A == Throws /\ (Quadratic => BucketDone) =>
                  \E s \in 1 .. N : NoRoomFor(call.key, s)
<1>1. OrderInv /\ RingInv /\ [Next]_vars => [A]_vars
  <2> SUFFICES ASSUME OrderInv, RingInv, [Next]_vars, Throws,
                      Quadratic => BucketDone
               PROVE  \E s \in 1 .. N : NoRoomFor(call.key, s)
    OBVIOUS
  <2>1. Step
    BY DEF Throws, Next, Start, SentinelCall, Clear, vars
  <2>2. ~InsertEmpty /\ ~InsertExisting /\ ~LookupHit /\ ~LookupMiss
    BY DEF Throws, InsertEmpty, InsertExisting, LookupHit, LookupMiss, Return,
           Outcome
  <2>3. ~NextSlot /\ ~NextBucket
    BY CallGoesOn DEF Throws, OrderInv
  <2>4. ~Displace
    BY DisplaceWalk DEF Throws
  <2>5. CASE WayExhausted
    BY <2>5, WayIsFull DEF WayExhausted
  <2>6. CASE LoopDetected
    <3>1. ~BucketDone
      BY <2>6, CallTyped, TableAssumption
         DEF OrderInv, LoopDetected, Richer, BucketDone
    <3> QED
      BY <2>6, <3>1, LoopIsFull
  <2> QED
    BY <2>1, <2>2, <2>3, <2>4, <2>5, <2>6 DEF Step
<1> QED
  BY <1>1, OrderInvariant, RingInvariant, PTL DEF Spec, ThrowsOnFullWay

-----------------------------------------------------------------------------
(* The refinement: an insert has its effect on the map when it ends, whether *)
(* it has displaced entries or not; while it carries an entry, that entry is *)
(* in the map and the new one is not.                                        *)

\* What the slots and the call say about the abstract map.
MapAgrees ==
  /\ AbstractMap = [k \in Keys |-> AbstractMap[k]]
  /\ Displaced => /\ AbstractMap[call.key] = call.payload
                  /\ AbstractMap[call.orig_key] = Absent
  /\ \A k \in Keys :
       ~Stored(k) /\ ~(Displaced /\ k = call.key) => AbstractMap[k] = Absent
  /\ \A b \in Directory, i \in Slots, k \in Keys :
       Holds(b, i, k) /\ ~(Displaced /\ k = call.orig_key) =>
         AbstractMap[k] = buckets[b][i].payload

LEMMA DisplacedTyped ==
  ASSUME OrderInv, Displaced
  PROVE  /\ call # NoCall /\ call.op = "insert"
         /\ call.key \in Keys /\ call.orig_key \in Keys
         /\ call.key # call.orig_key
         /\ call.payload \in Payloads /\ call.payload # Absent
         /\ \A b \in Directory, i \in Slots : ~Holds(b, i, call.key)
         /\ Stored(call.orig_key)
<1>1. call # NoCall /\ call.op = "insert"
  BY DEF Displaced, Inserting, NoCall
<1>2. call.payload \in Payloads
  BY DEF OrderInv, PayloadsGiven, Displaced
<1> QED
  BY <1>1, <1>2, CallTyped, TableAssumption
     DEF OrderInv, CarriedAlone, NewStored, Displaced

LEMMA TableAgrees == OrderInv => MapAgrees
<1> SUFFICES ASSUME OrderInv PROVE MapAgrees
  OBVIOUS
<1>1. AbstractMap = [k \in Keys |-> AbstractMap[k]]
  BY DEF AbstractMap
<1>2. Displaced => /\ AbstractMap[call.key] = call.payload
                   /\ AbstractMap[call.orig_key] = Absent
  BY DisplacedTyped DEF AbstractMap
<1>3. \A k \in Keys :
        ~Stored(k) /\ ~(Displaced /\ k = call.key) => AbstractMap[k] = Absent
  BY DEF AbstractMap
<1>4. ASSUME NEW b \in Directory, NEW i \in Slots, NEW k \in Keys,
             Holds(b, i, k), ~(Displaced /\ k = call.orig_key)
      PROVE  AbstractMap[k] = buckets[b][i].payload
  <2> DEFINE at == CHOOSE at \in Directory \X Slots : Holds(at[1], at[2], k)
  <2>1. <<b, i>> \in Directory \X Slots /\ Holds(<<b, i>>[1], <<b, i>>[2], k)
    BY <1>4
  <2>2. at \in Directory \X Slots /\ Holds(at[1], at[2], k)
    BY <2>1
  <2>3. PayloadOf(k) = buckets[at[1]][at[2]].payload
    BY DEF PayloadOf
  <2> HIDE DEF at
  <2>4. at[1] \in Directory /\ at[2] \in Slots
    BY <2>2
  <2>5. ~Holds(b, i, Sentinel)
    BY <1>4, TableAssumption DEF Holds
  <2>6. b = at[1] /\ i = at[2]
    BY <1>4, <2>2, <2>4, <2>5 DEF OrderInv, KeysUnique, Holds
  <2>7. Stored(k) /\ ~(Displaced /\ k = call.key)
    BY <1>4, DisplacedTyped DEF Stored
  <2> QED
    BY <1>4, <2>3, <2>6, <2>7 DEF AbstractMap
<1> QED
  BY <1>1, <1>2, <1>3, <1>4 DEF MapAgrees

\* A step that stores nothing, with nothing carried before or after it.
LEMMA SameSlotsSameMap ==
  ASSUME MapAgrees, MapAgrees', UNCHANGED buckets, ~Displaced, ~Displaced'
  PROVE  UNCHANGED AbstractMap
<1>1. ASSUME NEW k \in Keys PROVE AbstractMap'[k] = AbstractMap[k]
  <2>1. CASE Stored(k)
    <3>1. PICK b \in Directory, i \in Slots : Holds(b, i, k)
      BY <2>1 DEF Stored
    <3>2. Holds(b, i, k)'
      BY <3>1 DEF Holds
    <3> QED
      BY <3>1, <3>2 DEF MapAgrees
  <2>2. CASE ~Stored(k)
    <3>1. ~Stored(k)'
      BY <2>2 DEF Stored, Holds
    <3> QED
      BY <2>2, <3>1 DEF MapAgrees
  <2> QED
    BY <2>1, <2>2
<1>2. /\ AbstractMap = [k \in Keys |-> AbstractMap[k]]
      /\ AbstractMap' = [k \in Keys |-> AbstractMap'[k]]
  BY DEF MapAgrees
<1> QED
  BY <1>1, <1>2

\* The walk goes on with what it carried.
LEMMA SameCallSameMap ==
  ASSUME UNCHANGED buckets, Displaced' = Displaced,
         Displaced => /\ call'.key = call.key /\ call'.payload = call.payload
                      /\ call'.orig_key = call.orig_key
  PROVE  UNCHANGED AbstractMap
<1>1. ASSUME NEW k \in Keys
      PROVE  Stored(k)' = Stored(k) /\ PayloadOf(k)' = PayloadOf(k)
  BY DEF Stored, PayloadOf, Holds
<1>2. CASE Displaced
  BY <1>1, <1>2 DEF AbstractMap
<1>3. CASE ~Displaced
  BY <1>1, <1>3 DEF AbstractMap
<1> QED
  BY <1>2, <1>3

LEMMA InitIsMapInit == Init => Map!Init
<1> SUFFICES ASSUME Init PROVE Map!Init
  OBVIOUS
<1>1. MapAgrees
  BY InitOrderInv, TableAgrees
<1>2. (\A k \in Keys : ~Stored(k)) /\ ~Displaced
  BY TableAssumption
     DEF Init, Stored, Holds, EmptySlot, Displaced, Inserting, NoCall
<1>3. AbstractMap = [k \in Keys |-> Absent]
  BY <1>1, <1>2 DEF MapAgrees
<1> QED
  BY <1>3 DEF Init, Map!Init, Outcome, Map!Outcome

\* A displacement changes neither the map nor the answer.
LEMMA DisplaceKeepsMap ==
  ASSUME OrderInv, MapAgrees, MapAgrees', Displace
  PROVE  UNCHANGED AbstractMap
<1>1. /\ GivesWay /\ Inserting /\ StoreCarried
      /\ call # NoCall /\ call.i < BucketSize
      /\ SlotSeen.key \in Keys /\ SlotSeen.key # call.key
      /\ SlotSeen.key # call.orig_key
      /\ call.slot_index \in Directory /\ call.i \in Slots
      /\ call.key \in Keys /\ call.orig_key \in Keys
  BY RicherGivesWay, CallTyped, SlotTyped DEF Displace, GivesWay, OrderInv
<1>2. PICK b \in Directory, i \in Slots : b = call.slot_index /\ i = call.i
  BY <1>1
<1>3. /\ buckets'[b][i].key = call.key /\ buckets'[b][i].payload = call.payload
      /\ \A c \in Directory, j \in Slots :
           b # c \/ i # j => buckets'[c][j] = buckets[c][j]
  BY <1>1, <1>2, StoreEffect DEF OrderInv
<1>4. /\ call'.key = SlotSeen.key /\ call'.payload = SlotSeen.payload
      /\ call'.orig_key = call.orig_key /\ Displaced'
  BY <1>1, DisplaceWalk DEF Displaced, Inserting
<1>5. \A c \in Directory, j \in Slots : ~Holds(c, j, call.key)
  BY <1>1, NotBeyond
<1>6. ASSUME NEW k \in Keys PROVE AbstractMap'[k] = AbstractMap[k]
  <2>1. CASE k = SlotSeen.key
    <3>1. Holds(b, i, k) /\ SlotSeen.payload = buckets[b][i].payload
      BY <1>2, <2>1 DEF Holds, SlotSeen
    <3>2. AbstractMap[k] = SlotSeen.payload
      BY <1>1, <2>1, <3>1 DEF MapAgrees
    <3> QED
      BY <1>4, <2>1, <3>2 DEF MapAgrees
  <2>2. CASE k = call.orig_key
    <3>1. AbstractMap'[k] = Absent
      BY <1>4, <2>2 DEF MapAgrees
    <3>2. CASE Displaced
      BY <2>2, <3>1, <3>2 DEF MapAgrees
    <3>3. CASE ~Displaced
      <4>1. k = call.key
        BY <1>1, <2>2, <3>3 DEF Displaced
      <4>2. ~Stored(k)
        BY <1>5, <4>1 DEF Stored
      <4> QED
        BY <3>1, <3>3, <4>2 DEF MapAgrees
    <3> QED
      BY <3>2, <3>3
  <2>3. CASE k = call.key /\ k # call.orig_key
    <3>1. Holds(b, i, k)' /\ ~(k = call'.orig_key)
      BY <1>3, <1>4, <2>3 DEF Holds
    <3>2. AbstractMap'[k] = call.payload
      BY <1>3, <3>1 DEF MapAgrees
    <3> QED
      BY <1>1, <2>3, <3>2 DEF MapAgrees, Displaced
  <2>4. CASE k \notin {SlotSeen.key, call.orig_key, call.key}
    <3>1. CASE Stored(k)
      <4>1. PICK c \in Directory, j \in Slots : Holds(c, j, k)
        BY <3>1 DEF Stored
      <4>2. b # c \/ i # j
        BY <1>2, <2>4, <4>1 DEF Holds, SlotSeen
      <4>3. buckets'[c][j] = buckets[c][j] /\ Holds(c, j, k)'
        BY <1>3, <4>1, <4>2 DEF Holds
      <4> QED
        BY <1>4, <2>4, <4>1, <4>3 DEF MapAgrees
    <3>2. CASE ~Stored(k)
      <4>1. ~Stored(k)'
        BY <1>3, <2>4, <3>2 DEF Stored, Holds
      <4> QED
        BY <1>4, <2>4, <3>2, <4>1 DEF MapAgrees
    <3> QED
      BY <3>1, <3>2
  <2> QED
    BY <2>1, <2>2, <2>3, <2>4
<1>7. /\ AbstractMap = [k \in Keys |-> AbstractMap[k]]
      /\ AbstractMap' = [k \in Keys |-> AbstractMap'[k]]
  BY DEF MapAgrees
<1> QED
  BY <1>6, <1>7

\* The store into an empty slot ends the insert: its key is now in the map.
LEMMA StoreIsMapInsert ==
  ASSUME OrderInv, MapAgrees, MapAgrees', InsertEmpty
  PROVE  \E p \in Payloads : Map!Insert(call.orig_key, p)
<1>1. /\ GivesWay /\ Inserting /\ StoreCarried
      /\ call # NoCall /\ call.i < BucketSize
      /\ call.slot_index \in Directory /\ call.i \in Slots
      /\ call.key \in Keys /\ call.orig_key \in Keys
      /\ call.payload \in Payloads
      /\ SlotSeen.key = Sentinel /\ call.key # Sentinel
      /\ ~Displaced'
  BY EmptyGivesWay, CallTyped, SlotTyped, TableAssumption, Idle
     DEF InsertEmpty, Return, NoCall, Inserting, OrderInv, PayloadsGiven
<1>2. PICK b \in Directory, i \in Slots : b = call.slot_index /\ i = call.i
  BY <1>1
<1>3. /\ buckets'[b][i].key = call.key /\ buckets'[b][i].payload = call.payload
      /\ \A c \in Directory, j \in Slots :
           b # c \/ i # j => buckets'[c][j] = buckets[c][j]
  BY <1>1, <1>2, StoreEffect DEF OrderInv
<1>4. \A c \in Directory, j \in Slots : ~Holds(c, j, call.key)
  BY <1>1, NotBeyond
<1>5. AbstractMap[call.orig_key] = Absent
  BY <1>1, <1>4 DEF MapAgrees, Displaced, Stored
<1>6. \A k \in Keys : k = call.key => AbstractMap'[k] = call.payload
  BY <1>1, <1>3 DEF MapAgrees, Holds
<1>7. ASSUME NEW k \in Keys, k # call.key, k # call.orig_key
      PROVE  AbstractMap'[k] = AbstractMap[k]
  <2>1. CASE Stored(k)
    <3>1. PICK c \in Directory, j \in Slots : Holds(c, j, k)
      BY <2>1 DEF Stored
    <3>2. b # c \/ i # j
      BY <1>1, <1>2, <3>1, TableAssumption DEF Holds, SlotSeen
    <3>3. buckets'[c][j] = buckets[c][j] /\ Holds(c, j, k)'
      BY <1>3, <3>1, <3>2 DEF Holds
    <3> QED
      BY <1>1, <1>7, <3>1, <3>3 DEF MapAgrees
  <2>2. CASE ~Stored(k)
    <3>1. ~Stored(k)'
      BY <1>3, <1>7, <2>2 DEF Stored, Holds
    <3> QED
      BY <1>1, <1>7, <2>2, <3>1 DEF MapAgrees
  <2> QED
    BY <2>1, <2>2
<1>8. Displaced => AbstractMap'[call.key] = AbstractMap[call.key]
  BY <1>1, <1>6 DEF MapAgrees
<1>9. AbstractMap'[call.orig_key] \in Payloads
  <2>1. CASE Displaced
    <3>1. PICK k \in Keys : k = call.orig_key
      BY <1>1
    <3>2. PICK c \in Directory, j \in Slots : Holds(c, j, k)
      BY <2>1, <3>1, DisplacedTyped DEF Stored
    <3>3. b # c \/ i # j
      BY <1>1, <1>2, <3>2, TableAssumption DEF Holds, SlotSeen
    <3>4. buckets'[c][j] = buckets[c][j] /\ Holds(c, j, k)'
      BY <1>3, <3>2, <3>3 DEF Holds
    <3>5. buckets[c][j].payload \in Payloads
      BY <3>2, TableAssumption DEF OrderInv, PayloadsGiven, Holds
    <3> QED
      BY <1>1, <3>1, <3>4, <3>5 DEF MapAgrees
  <2>2. CASE ~Displaced
    BY <1>1, <1>6, <2>2 DEF Displaced
  <2> QED
    BY <2>1, <2>2
<1>10. AbstractMap' =
         [AbstractMap EXCEPT ![call.orig_key] = AbstractMap'[call.orig_key]]
  <2>1. \A k \in Keys : k # call.orig_key => AbstractMap'[k] = AbstractMap[k]
    BY <1>1, <1>7, <1>8 DEF Displaced
  <2> QED
    BY <1>1, <2>1 DEF MapAgrees
<1> QED
  BY <1>1, <1>5, <1>9, <1>10
     DEF InsertEmpty, Return, Outcome, Inserting, Map!Insert, Map!Outcome

\* An insert that throws while it carries another entry has exchanged that
\* entry for its own.
LEMMA LossIsMapThrow ==
  ASSUME OrderInv, MapAgrees, MapAgrees', Displaced, UNCHANGED buckets,
         call' = NoCall, ret' = Outcome("insert", call.orig_key, "thrown")
  PROVE  \E p \in Payloads : Map!Throw(call.orig_key, p)
<1>1. /\ call.key \in Keys /\ call.orig_key \in Keys /\ call.key # call.orig_key
      /\ call.payload # Absent
      /\ \A b \in Directory, i \in Slots : ~Holds(b, i, call.key)
      /\ Stored(call.orig_key) /\ ~Displaced'
  BY DisplacedTyped, Idle
<1>2. PICK k \in Keys, lost \in Keys :
        k = call.orig_key /\ lost = call.key /\ k # lost
  BY <1>1
<1>3. AbstractMap[k] = Absent /\ AbstractMap[lost] # Absent
  BY <1>1, <1>2 DEF MapAgrees
<1>4. AbstractMap'[k] \in Payloads
  <2>1. PICK c \in Directory, j \in Slots : Holds(c, j, k)
    BY <1>1, <1>2 DEF Stored
  <2>2. buckets[c][j].payload \in Payloads
    BY <2>1, TableAssumption DEF OrderInv, PayloadsGiven, Holds
  <2>3. Holds(c, j, k)'
    BY <2>1 DEF Holds
  <2> QED
    BY <1>1, <2>2, <2>3 DEF MapAgrees
<1>5. AbstractMap'[lost] = Absent
  <2>1. ~Stored(lost)'
    BY <1>1, <1>2 DEF Stored, Holds
  <2> QED
    BY <1>1, <2>1 DEF MapAgrees
<1>6. ASSUME NEW x \in Keys, x # k, x # lost
      PROVE  AbstractMap'[x] = AbstractMap[x]
  <2>1. CASE Stored(x)
    <3>1. PICK c \in Directory, j \in Slots : Holds(c, j, x)
      BY <2>1 DEF Stored
    <3>2. Holds(c, j, x)'
      BY <3>1 DEF Holds
    <3> QED
      BY <1>1, <1>2, <1>6, <3>1, <3>2 DEF MapAgrees
  <2>2. CASE ~Stored(x)
    <3>1. ~Stored(x)'
      BY <2>2 DEF Stored, Holds
    <3> QED
      BY <1>1, <1>2, <1>6, <2>2, <3>1 DEF MapAgrees
  <2> QED
    BY <2>1, <2>2
<1>7. AbstractMap' =
        [AbstractMap EXCEPT ![k] = AbstractMap'[k], ![lost] = Absent]
  BY <1>2, <1>5, <1>6 DEF MapAgrees
<1>8. Map!Throw(k, AbstractMap'[k])
  BY <1>2, <1>3, <1>7 DEF Outcome, Map!Throw, Map!Outcome
<1> QED
  BY <1>2, <1>4, <1>8

\* Every step of the table is a step of the map or leaves it as it is.
LEMMA StepIsMapStep ==
  ASSUME OrderInv, MapAgrees, MapAgrees', [Next]_vars
  PROVE  [Map!Next]_(Map!mapVars)
<1>1. ASSUME UNCHANGED <<AbstractMap, ret>> PROVE UNCHANGED Map!mapVars
  BY <1>1 DEF Map!mapVars
<1>2. ASSUME NEW op, NEW k \in Keys, NEW p, Start(op, k, p)
      PROVE  UNCHANGED Map!mapVars
  <2>1. ~Displaced /\ ~Displaced' /\ UNCHANGED <<buckets, ret>>
    BY <1>2 DEF Start, Displaced, Inserting, NoCall
  <2> QED
    BY <1>1, <2>1, SameSlotsSameMap
<1>3. CASE NextSlot \/ NextBucket
  <2>1. UNCHANGED AbstractMap
    BY <1>3, CallGoesOn, SameCallSameMap DEF OrderInv, Displaced, Inserting
  <2> QED
    BY <1>1, <1>3, <2>1 DEF NextSlot, NextBucket
<1>4. CASE UNCHANGED vars
  BY <1>1, <1>4, SameCallSameMap DEF vars, Displaced, Inserting
<1>5. CASE SentinelCall
  <2>1. UNCHANGED AbstractMap
    BY <1>5, SameCallSameMap DEF SentinelCall, Displaced, Inserting
  <2> QED
    BY <1>5, <2>1
       DEF SentinelCall, Outcome, Map!Next, Map!SentinelCall, Map!Outcome
<1>6. CASE Clear
  <2>1. (\A k \in Keys : ~Stored(k)') /\ ~Displaced'
    BY <1>6, ClearEffect, TableAssumption, Idle DEF OrderInv, Stored, Holds, Clear
  <2>2. AbstractMap' = [k \in Keys |-> Absent]
    BY <2>1 DEF MapAgrees
  <2> QED
    BY <1>6, <2>2 DEF Clear, Outcome, Map!Next, Map!Clear, Map!Outcome
<1>7. CASE Displace
  BY <1>1, <1>7, DisplaceKeepsMap DEF Displace
<1>8. CASE InsertEmpty
  <2>1. call.orig_key \in Keys
    BY <1>8, CallTyped DEF InsertEmpty, NoCall, OrderInv
  <2> QED
    BY <1>8, <2>1, StoreIsMapInsert DEF Map!Next
<1>9. CASE InsertExisting
  <2>1. /\ call # NoCall /\ call.key \in Keys /\ call.key # Sentinel
        /\ call.slot_index \in Directory /\ call.i \in Slots
        /\ Holds(call.slot_index, call.i, call.key)
        /\ ~Displaced'
    BY <1>9, CallTyped, SlotTyped, TableAssumption, Idle
       DEF OrderInv, InsertExisting, Return, NoCall, Holds, SlotSeen
  <2>2. ~Displaced /\ call.key = call.orig_key
    BY <1>9, <2>1, DisplacedTyped DEF Displaced, Inserting, InsertExisting
  <2>3. AbstractMap[call.key] \in Payloads
    BY <2>1, <2>2 DEF MapAgrees, OrderInv, PayloadsGiven, Holds
  <2>4. call.payload \in Payloads
    BY <1>9 DEF InsertExisting, OrderInv, PayloadsGiven, Inserting
  <2>5. UNCHANGED AbstractMap
    BY <1>9, <2>1, <2>2, SameSlotsSameMap DEF InsertExisting
  <2>6. Map!Insert(call.key, call.payload)
    BY <1>9, <2>2, <2>3, <2>5, TableAssumption
       DEF InsertExisting, Return, Outcome, Map!Insert, Map!Outcome
  <2> QED
    BY <2>1, <2>4, <2>6 DEF Map!Next
<1>10. ASSUME UNCHANGED buckets, ~Displaced, ~Displaced', call.orig_key \in Keys,
              ret' = Outcome("lookup", call.orig_key, AbstractMap[call.orig_key])
       PROVE  Map!Next
  BY <1>10, SameSlotsSameMap DEF Outcome, Map!Next, Map!Lookup, Map!Outcome
<1>11. ASSUME call.op = "lookup", call # NoCall, call' = NoCall
       PROVE  /\ ~Displaced /\ ~Displaced'
              /\ call.orig_key \in Keys /\ call.key \in Keys
              /\ call.key = call.orig_key
  BY <1>11, CallTyped, Idle DEF OrderInv, NewStored, Displaced, Inserting
<1>12. CASE LookupHit
  <2>1. /\ call.op = "lookup" /\ call # NoCall /\ call' = NoCall
        /\ UNCHANGED buckets
        /\ ret' = Outcome("lookup", call.orig_key, SlotSeen.payload)
    BY <1>12 DEF LookupHit, Return, NoCall
  <2>2. /\ call.slot_index \in Directory /\ call.i \in Slots
        /\ Holds(call.slot_index, call.i, call.key)
    BY <1>12, <2>1, CallTyped, SlotTyped DEF OrderInv, LookupHit, Holds, SlotSeen
  <2>3. AbstractMap[call.orig_key] = SlotSeen.payload
    BY <1>11, <2>1, <2>2 DEF MapAgrees, SlotSeen
  <2> QED
    BY <1>10, <1>11, <2>1, <2>3
<1>13. CASE LookupMiss
  <2>1. /\ call.op = "lookup" /\ call # NoCall /\ call' = NoCall
        /\ UNCHANGED buckets /\ call.i < BucketSize
        /\ ret' = Outcome("lookup", call.orig_key, Absent)
        /\ SlotSeen.key = Sentinel
    BY <1>13 DEF LookupMiss, Return, NoCall
  <2>2. ~Stored(call.key)
    BY <2>1, EmptyGivesWay, CallTyped, TableAssumption, NotBeyond
       DEF OrderInv, Stored
  <2>3. AbstractMap[call.orig_key] = Absent
    BY <1>11, <2>1, <2>2 DEF MapAgrees
  <2> QED
    BY <1>10, <1>11, <2>1, <2>3
<1>14. CASE LoopDetected
  <2>1. /\ Displaced /\ call' = NoCall /\ UNCHANGED buckets
        /\ ret' = Outcome("insert", call.orig_key, "thrown")
    BY <1>14, RicherGivesWay
       DEF LoopDetected, Richer, Return, OrderInv, Displaced, Inserting
  <2> QED
    BY <2>1, DisplacedTyped, LossIsMapThrow DEF Map!Next
<1>15. CASE WayExhausted
  <2>1. /\ call # NoCall /\ call' = NoCall /\ UNCHANGED buckets
        /\ call.key \in Keys /\ call.op \in {"insert", "lookup"}
        /\ ~Displaced'
    BY <1>15, CallTyped, Idle DEF WayExhausted, BucketDone, Return, OrderInv
  <2>2. ~Stored(call.key)
    BY <1>15, NotBeyondReturn DEF WayExhausted, Stored
  <2>3. CASE call.op = "lookup"
    <3>1. AbstractMap[call.orig_key] = Absent
      BY <1>11, <2>1, <2>2, <2>3 DEF MapAgrees
    <3>2. ret' = Outcome("lookup", call.orig_key, Absent)
      BY <1>15, <2>3 DEF WayExhausted, Return
    <3> QED
      BY <1>10, <1>11, <2>1, <2>3, <3>1, <3>2
  <2>4. CASE call.op = "insert" /\ Displaced
    <3>1. ret' = Outcome("insert", call.orig_key, "thrown")
      BY <1>15, <2>4 DEF WayExhausted, Return
    <3> QED
      BY <2>1, <2>4, <3>1, DisplacedTyped, LossIsMapThrow DEF Map!Next
  <2>5. CASE call.op = "insert" /\ ~Displaced
    <3>1. call.key = call.orig_key /\ call.payload \in Payloads
      BY <2>5 DEF Displaced, Inserting, OrderInv, PayloadsGiven
    <3>2. AbstractMap[call.key] = Absent /\ UNCHANGED AbstractMap
      BY <2>1, <2>2, <2>5, SameSlotsSameMap DEF MapAgrees
    <3>3. Map!Throw(call.key, call.payload)
      BY <1>15, <2>5, <3>1, <3>2
         DEF WayExhausted, Return, Outcome, Map!Throw, Map!Outcome
    <3> QED
      BY <2>1, <3>1, <3>3 DEF Map!Next
  <2> QED
    BY <2>1, <2>3, <2>4, <2>5
<1> QED
  BY <1>2, <1>3, <1>4, <1>5, <1>6, <1>7, <1>8, <1>9, <1>12, <1>13, <1>14, <1>15
     DEF Next, Step

\* The table keeps the promise of its interface (probing.hpp, the comments of
\* insert and lookup) whatever an insert displaces on its way: it is a map, and
\* an insert that throws has at most exchanged one entry for its own.
THEOREM Refinement == Spec => ImplementsMap
<1>1. OrderInv => MapAgrees
  BY TableAgrees
<1>2. OrderInv /\ MapAgrees /\ MapAgrees' /\ [Next]_vars
        => [Map!Next]_(Map!mapVars)
  BY StepIsMapStep
<1> QED
  BY <1>1, <1>2, InitIsMapInit, OrderInvariant, PTL
     DEF Spec, ImplementsMap, Map!Spec
=============================================================================
