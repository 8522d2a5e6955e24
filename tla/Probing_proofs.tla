--------------------------- MODULE Probing_proofs ---------------------------
(***************************************************************************)
(* Proofs about Probing, for every directory size, bucket size, key set,   *)
(* hash function and both probing functions.                               *)
(*                                                                         *)
(* The argument: a call only passes occupied slots of other keys           *)
(* (WalkSoFar), slots are emptied only all together, and so the slot where *)
(* an insert stores is both the first empty one on the key's way           *)
(* (Reachable) and proof that the key is nowhere else (KeysUnique).        *)
(***************************************************************************)
EXTENDS Probing, TLAPS

-----------------------------------------------------------------------------
(* What both probing functions of probing.hpp have in common, for every    *)
(* directory size: the rest of the proofs never uses their formulas.       *)

\* The remainder is a bucket of the directory.
LEMMA ModInDirectory ==
  ASSUME NEW a \in Nat
  PROVE  a % N \in Directory
BY DirectoryAssumption DEF Directory

\* The probing functions never leave the directory.
THEOREM ProbeInDirectory ==
  ASSUME NEW index \in Directory, NEW step \in Nat
  PROVE  probingfn(index, step) \in Directory
<1>1. index \in Nat
  BY DirectoryAssumption DEF Directory
<1>2. step * step \in Nat
  OBVIOUS
<1>3. index + step \in Nat /\ index + step * step \in Nat
  BY <1>1, <1>2
<1> QED
  BY <1>3, ModInDirectory
     DEF probingfn, LinearProbingFunc, QuadraticProbingFunc

\* Adding multiples of N does not change a bucket.
LEMMA ModPeriodic ==
  ASSUME NEW index \in Directory, NEW q \in Nat
  PROVE  (index + N * q) % N = index
BY DirectoryAssumption DEF Directory

\* After N steps the walk is back at its first bucket, so no call probes more
\* than N times.
THEOREM ProbeReturns ==
  ASSUME NEW index \in Directory
  PROVE  probingfn(index, N) = index
<1>1. (index + N * 1) % N = index
  BY ModPeriodic
<1>2. (index + N * N) % N = index
  BY ModPeriodic, DirectoryAssumption
<1> QED
  BY <1>1, <1>2, DirectoryAssumption
     DEF probingfn, LinearProbingFunc, QuadraticProbingFunc, Directory

\* A bucket on the way of a key is in the directory.
LEMMA WayInDirectory ==
  ASSUME NEW h \in Directory, NEW s \in Nat
  PROVE  BucketAt(h, s) \in Directory
BY ProbeInDirectory DEF BucketAt

\* A walk that has not returned has taken fewer than N steps.
LEMMA WalkIsShort ==
  ASSUME NEW h \in Directory, NEW s \in Nat, NoReturnUpTo(h, s)
  PROVE  s \in 0 .. (N - 1)
<1> SUFFICES ASSUME s > N - 1 PROVE FALSE
  BY DirectoryAssumption
<1>1. N \in 1 .. s
  BY DirectoryAssumption
<1> QED
  BY <1>1, ProbeReturns DEF NoReturnUpTo

-----------------------------------------------------------------------------
\* Every variable keeps its type.
LEMMA InitTypeOK == Init => TypeOK
BY TableAssumption, DirectoryAssumption
   DEF Init, TypeOK, Directory, Slots, Slot, Calls, NoCall, Outcome

\* In a call, the locals have their types.
LEMMA CallTyped ==
  ASSUME TypeOK, call # NoCall
  PROVE  /\ call \in Calls
         /\ call.key \in Keys
         /\ home[call.key] \in Directory
         /\ call.slot_index \in Directory
         /\ call.probing_step \in Nat
         /\ call.i \in 0 .. BucketSize
BY DEF TypeOK, Calls

LEMMA SlotTyped ==
  ASSUME TypeOK, call # NoCall, call.i < BucketSize
  PROVE  /\ call.i \in Slots
         /\ SlotSeen \in Slot
BY CallTyped, TableAssumption DEF TypeOK, Slots, SlotSeen

LEMMA NextTypeOK == TypeOK /\ [Next]_vars => TypeOK'
<1> SUFFICES ASSUME TypeOK, [Next]_vars PROVE TypeOK'
  OBVIOUS
<1> USE TableAssumption, DirectoryAssumption
<1>1. ASSUME NEW op \in {"insert", "lookup"}, NEW k \in Keys,
             NEW p \in Payloads \cup {Absent}, Start(op, k, p)
      PROVE  TypeOK'
  BY <1>1 DEF Start, TypeOK, Calls
<1>2. ASSUME SentinelCall PROVE TypeOK'
  BY <1>2 DEF SentinelCall, TypeOK, Outcome
<1>3. ASSUME InsertEmpty PROVE TypeOK'
  <2>1. call # NoCall
    BY <1>3 DEF InsertEmpty, NoCall
  <2>2. NewEntry \in Slot
    BY <2>1, CallTyped DEF NewEntry, Slot, Calls
  <2>3. buckets' \in [Directory -> [Slots -> Slot]]
    BY <1>3, <2>1, <2>2, SlotTyped, CallTyped DEF InsertEmpty, TypeOK
  <2> QED
    BY <1>3, <2>1, <2>3, CallTyped DEF InsertEmpty, Return, Outcome, TypeOK
<1>4. ASSUME InsertExisting PROVE TypeOK'
  <2>1. call # NoCall
    BY <1>4 DEF InsertExisting, NoCall
  <2> QED
    BY <1>4, <2>1, CallTyped DEF InsertExisting, Return, Outcome, TypeOK
<1>5. ASSUME LookupHit PROVE TypeOK'
  <2>1. call # NoCall
    BY <1>5 DEF LookupHit, NoCall
  <2>2. SlotSeen.payload \in Payloads \cup {Absent}
    BY <1>5, <2>1, SlotTyped DEF LookupHit, Slot
  <2> QED
    BY <1>5, <2>1, <2>2, CallTyped DEF LookupHit, Return, Outcome, TypeOK
<1>6. ASSUME LookupMiss PROVE TypeOK'
  <2>1. call # NoCall
    BY <1>6 DEF LookupMiss, NoCall
  <2> QED
    BY <1>6, <2>1, CallTyped DEF LookupMiss, Return, Outcome, TypeOK
<1>7. ASSUME NextSlot PROVE TypeOK'
  <2>1. call' \in Calls
    BY <1>7, CallTyped DEF NextSlot, Calls
  <2> QED
    BY <1>7, <2>1 DEF NextSlot, TypeOK
<1>8. ASSUME NextBucket PROVE TypeOK'
  <2>1. call # NoCall
    BY <1>8 DEF NextBucket, BucketDone
  <2>2. NextIndex \in Directory
    BY <2>1, CallTyped, ProbeInDirectory DEF NextIndex
  <2>3. call' \in Calls
    <3>1. call \in Calls /\ call' = Advance
      BY <1>8, <2>1, CallTyped DEF NextBucket
    <3>2. 0 \in 0 .. BucketSize /\ call.probing_step + 1 \in Nat
      BY <2>1, CallTyped
    <3>3. call' = [op |-> call.op, key |-> call.key, payload |-> call.payload,
                   slot_index |-> NextIndex,
                   probing_step |-> call.probing_step + 1, i |-> 0]
      BY <3>1 DEF Advance, Calls
    <3> QED
      BY <2>2, <3>1, <3>2, <3>3 DEF Calls
  <2> QED
    BY <1>8, <2>3 DEF NextBucket, TypeOK
<1>9. ASSUME WayExhausted PROVE TypeOK'
  <2>1. call # NoCall
    BY <1>9 DEF WayExhausted, BucketDone
  <2> DEFINE res == IF call.op = "insert" THEN "thrown" ELSE Absent
  <2>2. res \in Payloads \cup {Absent, "inserted", "rejected", "thrown"}
    OBVIOUS
  <2>3. call.op \in {"insert", "lookup"} /\ call.key \in Keys
    BY <2>1, CallTyped DEF Calls
  <2>4. call' = NoCall /\ ret' = [op |-> call.op, key |-> call.key, res |-> res]
    BY <1>9 DEF WayExhausted, Return, Outcome
  <2> HIDE DEF res
  <2>5. ret' \in [op : {"none", "insert", "lookup", "clear"},
                  key : Keys \cup {Sentinel},
                  res : Payloads \cup {Absent, "inserted", "rejected", "thrown"}]
    BY <2>2, <2>3, <2>4
  <2> QED
    BY <1>9, <2>4, <2>5 DEF WayExhausted, TypeOK
<1>10. ASSUME Clear PROVE TypeOK'
  <2>1. ASSUME NEW b \in Directory, NEW i \in Slots
        PROVE  [buckets[b][i] EXCEPT !.key = Sentinel] \in Slot
    <3>1. buckets[b][i] \in Slot
      BY DEF TypeOK
    <3> QED
      BY <3>1 DEF Slot
  <2>2. Cleared \in [Directory -> [Slots -> Slot]]
    BY <2>1 DEF Cleared
  <2> QED
    BY <1>10, <2>2 DEF Clear, Outcome, TypeOK
<1>11. CASE UNCHANGED vars
  BY <1>11 DEF vars, TypeOK
<1> QED
  BY <1>1, <1>2, <1>3, <1>4, <1>5, <1>6, <1>7, <1>8, <1>9, <1>10, <1>11
     DEF Next, Step

\* Every reachable state is well typed.
THEOREM TypeCorrect == Spec => []TypeOK
BY InitTypeOK, NextTypeOK, PTL DEF Spec

-----------------------------------------------------------------------------
(* Preservation of TableInv.  Only InsertEmpty stores an entry and only      *)
(* Clear removes any; the other actions move or end the call.                *)

LEMMA InitTableInv == Init => TableInv
<1> SUFFICES ASSUME Init PROVE TableInv
  OBVIOUS
<1>1. TypeOK
  BY InitTypeOK
<1>2. call = NoCall /\ call.op # "insert"
  BY DEF Init, NoCall
<1>3. \A b \in Directory, i \in Slots : Holds(b, i, Sentinel)
  BY DEF Init, Holds
<1> QED
  BY <1>1, <1>2, <1>3
     DEF TableInv, PayloadsGiven, Reachable, WalkSoFar, KeysUnique, Holds

\* Where a walk stands, the key it looks for is in none of the slots it would
\* have to pass next: if it were stored at all outside the current slot, its
\* own way there would lead through the current, empty slot.
LEMMA NotBeyondEmpty ==
  ASSUME TableInv, call # NoCall, call.i < BucketSize,
         SlotSeen.key = Sentinel,
         NEW c \in Directory, NEW j \in Slots
  PROVE  ~Holds(c, j, call.key)
<1> SUFFICES ASSUME Holds(c, j, call.key) PROVE FALSE
  OBVIOUS
<1> DEFINE h == home[call.key]
<1>1. /\ call.key \in Keys /\ call.key # Sentinel
      /\ call.probing_step \in Nat
      /\ call.i \in Slots
      /\ Holds(call.slot_index, call.i, Sentinel)
  BY CallTyped, SlotTyped, TableAssumption DEF TableInv, Holds, SlotSeen
<1>2. PICK s \in 0 .. (N - 1) : PassedFull(call.key, s, c, j)
  BY <1>1 DEF TableInv, Reachable, Holds
<1>3. /\ call.slot_index = BucketAt(h, call.probing_step)
      /\ \A t \in 0 .. (call.probing_step - 1), n \in Slots :
           ~Holds(BucketAt(h, t), n, call.key)
      /\ \A n \in 0 .. (call.i - 1) : ~Holds(call.slot_index, n, call.key)
  BY DEF TableInv, WalkSoFar, PassedFull
<1>4. /\ c = BucketAt(h, s)
      /\ \A t \in 0 .. (s - 1) : Full(BucketAt(h, t))
      /\ \A n \in 0 .. (j - 1) : ~Holds(c, n, Sentinel)
  BY <1>2 DEF PassedFull
<1> HIDE DEF h
<1>5. CASE s < call.probing_step
  <2>1. s \in 0 .. (call.probing_step - 1)
    BY <1>1, <1>5
  <2> QED
    BY <1>3, <1>4, <2>1
<1>6. CASE s = call.probing_step
  <2>1. c = call.slot_index
    BY <1>3, <1>4, <1>6
  <2>2. j \in Int /\ call.i \in Int /\ j >= 0 /\ call.i >= 0
    BY <1>1, TableAssumption DEF Slots
  <2>3. CASE j < call.i
    BY <1>3, <2>1, <2>2, <2>3
  <2>4. CASE j = call.i
    BY <1>1, <2>1, <2>4 DEF Holds
  <2>5. CASE j > call.i
    BY <1>1, <1>4, <2>1, <2>2, <2>5
  <2> QED
    BY <2>2, <2>3, <2>4, <2>5
<1>7. CASE s > call.probing_step
  <2>1. call.probing_step \in 0 .. (s - 1)
    BY <1>1, <1>7
  <2> QED
    BY <1>1, <1>3, <1>4, <2>1 DEF Full
<1> QED
  BY <1>1, <1>5, <1>6, <1>7

\* A walk that ends at its starting bucket has seen every slot its key could
\* be in.
LEMMA NotBeyondReturn ==
  ASSUME TableInv, BucketDone, WayEnds,
         NEW c \in Directory, NEW j \in Slots
  PROVE  ~Holds(c, j, call.key)
<1> SUFFICES ASSUME Holds(c, j, call.key) PROVE FALSE
  OBVIOUS
<1> DEFINE h == home[call.key]
<1>1. /\ call # NoCall /\ call.i = BucketSize
      /\ call.key \in Keys /\ call.key # Sentinel
      /\ call.probing_step \in Nat
  BY CallTyped, TableAssumption DEF TableInv, BucketDone
<1>2. PICK s \in 0 .. (N - 1) : PassedFull(call.key, s, c, j)
  BY <1>1 DEF TableInv, Reachable, Holds
<1>3. /\ call.slot_index = BucketAt(h, call.probing_step)
      /\ \A t \in 0 .. (call.probing_step - 1), n \in Slots :
           ~Holds(BucketAt(h, t), n, call.key)
      /\ \A n \in 0 .. (call.i - 1) : ~Holds(call.slot_index, n, call.key)
  BY <1>1 DEF TableInv, WalkSoFar, PassedFull
<1>4. c = BucketAt(h, s) /\ \A t \in 1 .. s : probingfn(h, t) # h
  BY <1>2 DEF PassedFull, NoReturnUpTo
<1>5. probingfn(h, call.probing_step + 1) = h
  BY DEF WayEnds, NextIndex
<1> HIDE DEF h
<1>6. s < call.probing_step + 1
  <2>1. CASE call.probing_step + 1 \in 1 .. s
    BY <1>4, <1>5, <2>1
  <2> QED
    BY <1>1, <2>1
<1>7. CASE s < call.probing_step
  BY <1>1, <1>3, <1>4, <1>7
<1>8. CASE s = call.probing_step
  <2>1. j \in 0 .. (call.i - 1)
    BY <1>1 DEF Slots
  <2> QED
    BY <1>3, <1>4, <1>8, <2>1
<1> QED
  BY <1>1, <1>6, <1>7, <1>8

\* A step that leaves the buckets alone leaves what is said of them alone.
LEMMA TableUntouched ==
  ASSUME TableInv, UNCHANGED <<home, buckets>>
  PROVE  Reachable' /\ KeysUnique'
BY DEF TableInv, Reachable, KeysUnique, Holds, PassedFull, Full

\* What InsertEmpty does to the slots: one empty slot gets the new key.
LEMMA InsertEmptyEffect ==
  ASSUME TableInv, InsertEmpty
  PROVE  /\ call # NoCall /\ call.key \in Keys /\ call.key # Sentinel
         /\ call.slot_index \in Directory /\ call.i \in Slots
         /\ SlotSeen.key = Sentinel
         /\ buckets'[call.slot_index][call.i] = NewEntry
         /\ \A b \in Directory, i \in Slots :
              b # call.slot_index \/ i # call.i =>
                buckets'[b][i] = buckets[b][i]
         /\ \A b \in Directory, i \in Slots :
              Holds(b, i, Sentinel)' => Holds(b, i, Sentinel)
         /\ home' = home /\ call' = NoCall
<1>1. call # NoCall
  BY DEF InsertEmpty, NoCall
<1>2. /\ call.key \in Keys /\ call.key # Sentinel
      /\ call.slot_index \in Directory /\ call.i \in Slots
      /\ SlotSeen.key = Sentinel
  BY <1>1, CallTyped, SlotTyped, TableAssumption DEF TableInv, InsertEmpty
<1>3. /\ buckets \in [Directory -> [Slots -> Slot]]
      /\ buckets' = [buckets EXCEPT ![call.slot_index][call.i] = NewEntry]
  BY DEF TableInv, TypeOK, InsertEmpty
<1>4. /\ buckets'[call.slot_index][call.i] = NewEntry
      /\ \A b \in Directory, i \in Slots :
           b # call.slot_index \/ i # call.i =>
             buckets'[b][i] = buckets[b][i]
  BY <1>2, <1>3
<1>5. NewEntry.key = call.key
  BY DEF NewEntry
<1> QED
  BY <1>1, <1>2, <1>4, <1>5 DEF Holds, InsertEmpty, Return

LEMMA InsertEmptyReachable ==
  ASSUME TableInv, InsertEmpty
  PROVE  Reachable'
<1> SUFFICES ASSUME NEW b \in Directory, NEW i \in Slots,
                    ~Holds(b, i, Sentinel)'
             PROVE  \E s \in 0 .. (N - 1) :
                      PassedFull(buckets[b][i].key, s, b, i)'
  BY DEF Reachable
<1>1. \A c \in Directory : Full(c) => Full(c)'
  BY InsertEmptyEffect DEF Full
<1>2. \A k \in Keys, s \in Nat, j \in Slots :
        PassedFull(k, s, b, j) => PassedFull(k, s, b, j)'
  <2> SUFFICES ASSUME NEW k \in Keys, NEW s \in Nat, NEW j \in Slots,
                      PassedFull(k, s, b, j)
               PROVE  PassedFull(k, s, b, j)'
    OBVIOUS
  <2>1. home' = home /\ home[k] \in Directory
    BY InsertEmptyEffect DEF TableInv, TypeOK
  <2>2. \A t \in 0 .. (s - 1) : BucketAt(home[k], t) \in Directory
    BY <2>1, WayInDirectory
  <2>3. \A t \in 0 .. (s - 1) : Full(BucketAt(home[k], t))'
    BY <1>1, <2>1, <2>2 DEF PassedFull
  <2>4. \A n \in 0 .. (j - 1) : ~Holds(b, n, Sentinel)'
    <3>1. \A n \in 0 .. (j - 1) : n \in Slots
      BY TableAssumption DEF Slots
    <3> QED
      BY <3>1, InsertEmptyEffect DEF PassedFull
  <2> QED
    BY <2>1, <2>3, <2>4 DEF PassedFull
<1>3. CASE b = call.slot_index /\ i = call.i
  <2>1. PassedFull(call.key, call.probing_step, b, i)
    BY <1>3, InsertEmptyEffect DEF TableInv, WalkSoFar
  <2>2. call.probing_step \in 0 .. (N - 1)
    <3>1. /\ home[call.key] \in Directory /\ call.probing_step \in Nat
          /\ NoReturnUpTo(home[call.key], call.probing_step)
      BY <2>1, CallTyped, InsertEmptyEffect DEF TableInv, PassedFull
    <3> QED
      BY <3>1, WalkIsShort
  <2>3. buckets'[b][i].key = call.key
    BY <1>3, InsertEmptyEffect DEF NewEntry
  <2> QED
    BY <1>2, <2>1, <2>2, <2>3, InsertEmptyEffect
<1>4. CASE ~(b = call.slot_index /\ i = call.i)
  <2>1. /\ buckets'[b][i] = buckets[b][i]
        /\ ~Holds(b, i, Sentinel)
    BY <1>4, InsertEmptyEffect DEF Holds
  <2>2. buckets[b][i].key \in Keys
    <3>1. buckets[b][i] \in Slot
      BY DEF TableInv, TypeOK
    <3> QED
      BY <2>1, <3>1 DEF Slot, Holds
  <2>3. PICK s \in 0 .. (N - 1) : PassedFull(buckets[b][i].key, s, b, i)
    BY <2>1 DEF TableInv, Reachable
  <2>4. PassedFull(buckets[b][i].key, s, b, i)'
    BY <1>2, <2>1, <2>2, <2>3
  <2> QED
    BY <2>4
<1> QED
  BY <1>3, <1>4

LEMMA InsertEmptyKeysUnique ==
  ASSUME TableInv, InsertEmpty
  PROVE  KeysUnique'
<1> SUFFICES ASSUME NEW b \in Directory, NEW c \in Directory,
                    NEW i \in Slots, NEW j \in Slots,
                    ~Holds(b, i, Sentinel)',
                    buckets'[b][i].key = buckets'[c][j].key
             PROVE  b = c /\ i = j
  BY DEF KeysUnique
<1>1. \A d \in Directory, n \in Slots : ~Holds(d, n, call.key)
  BY NotBeyondEmpty, InsertEmptyEffect DEF InsertEmpty
<1>2. \A d \in Directory, n \in Slots :
        IF d = call.slot_index /\ n = call.i
        THEN buckets'[d][n].key = call.key
        ELSE buckets'[d][n] = buckets[d][n] /\ buckets[d][n].key # call.key
  BY <1>1, InsertEmptyEffect DEF NewEntry, Holds
<1>3. CASE b = call.slot_index /\ i = call.i
  BY <1>2, <1>3
<1>4. CASE c = call.slot_index /\ j = call.i
  BY <1>2, <1>4
<1>5. CASE ~(b = call.slot_index /\ i = call.i)
             /\ ~(c = call.slot_index /\ j = call.i)
  BY <1>2, <1>5 DEF TableInv, KeysUnique, Holds
<1> QED
  BY <1>3, <1>4, <1>5

LEMMA ClearEffect ==
  ASSUME TypeOK, Clear
  PROVE  \A b \in Directory, i \in Slots : Holds(b, i, Sentinel)'
<1>1. buckets' = Cleared
  BY DEF Clear
<1>2. \A b \in Directory, i \in Slots : buckets[b][i] \in Slot
  BY DEF TypeOK
<1>3. \A e \in Slot : [e EXCEPT !.key = Sentinel].key = Sentinel
  BY DEF Slot
<1>4. \A b \in Directory, i \in Slots : Cleared[b][i].key = Sentinel
  BY <1>2, <1>3 DEF Cleared
<1> QED
  BY <1>1, <1>4 DEF Holds

\* The next slot of the same bucket: the one passed is taken by another key.
LEMMA NextSlotWalk ==
  ASSUME TableInv, NextSlot
  PROVE  WalkSoFar'
<1>1. /\ call # NoCall /\ call.i < BucketSize /\ call.i \in Nat
      /\ ~Holds(call.slot_index, call.i, Sentinel)
      /\ ~Holds(call.slot_index, call.i, call.key)
      /\ call \in Calls
  BY CallTyped DEF TableInv, NextSlot, OtherKey, Holds, SlotSeen
<1>2. /\ call'.key = call.key /\ call'.probing_step = call.probing_step
      /\ call'.slot_index = call.slot_index /\ call'.i = call.i + 1
      /\ home' = home /\ buckets' = buckets
  BY <1>1 DEF NextSlot, Calls
<1>3. \A j \in 0 .. (call.i + 1 - 1) : j \in 0 .. (call.i - 1) \/ j = call.i
  BY <1>1
<1> QED
  BY <1>1, <1>2, <1>3 DEF TableInv, WalkSoFar, PassedFull, Full, Holds

\* The next bucket: the one left behind is full of other keys.
LEMMA NextBucketWalk ==
  ASSUME TableInv, NextBucket
  PROVE  WalkSoFar'
<1> DEFINE h == home[call.key]
           s == call.probing_step
<1>1. /\ call # NoCall /\ call.i = BucketSize /\ call \in Calls
      /\ s \in Nat
      /\ call.slot_index = BucketAt(h, s)
      /\ NextIndex # h
  BY CallTyped
     DEF TableInv, NextBucket, BucketDone, WayEnds, WalkSoFar, PassedFull
<1>2. /\ call'.key = call.key /\ call'.probing_step = s + 1
      /\ call'.slot_index = NextIndex /\ call'.i = 0
      /\ home' = home /\ buckets' = buckets
  BY <1>1 DEF NextBucket, Advance, Calls
<1>3. Slots = 0 .. (call.i - 1)
  BY <1>1 DEF Slots
<1>4. Full(BucketAt(h, s)) /\ \A j \in Slots : ~Holds(BucketAt(h, s), j, call.key)
  BY <1>1, <1>3 DEF TableInv, WalkSoFar, PassedFull, Full
<1>5. \A t \in 0 .. (s + 1 - 1) : t \in 0 .. (s - 1) \/ t = s
  BY <1>1
<1>6. \A t \in 1 .. (s + 1) : t \in 1 .. s \/ t = s + 1
  BY <1>1
<1>7. NextIndex = BucketAt(h, s + 1) /\ NextIndex = probingfn(h, s + 1)
  BY <1>1 DEF NextIndex, BucketAt
<1>8. NoReturnUpTo(h, s + 1)
  BY <1>1, <1>6, <1>7 DEF TableInv, WalkSoFar, PassedFull, NoReturnUpTo
<1>9. /\ \A t \in 0 .. (s + 1 - 1) : Full(BucketAt(h, t))
      /\ \A t \in 0 .. (s + 1 - 1), j \in Slots :
           ~Holds(BucketAt(h, t), j, call.key)
  BY <1>1, <1>4, <1>5 DEF TableInv, WalkSoFar, PassedFull
<1>10. /\ home'[call'.key] = h
       /\ \A t : BucketAt(home[call.key], t)' = BucketAt(h, t)
       /\ \A t : probingfn(home[call.key], t)' = probingfn(h, t)
  BY <1>2 DEF BucketAt, probingfn, LinearProbingFunc, QuadraticProbingFunc
<1>11. s \in Nat /\ \A j : j \notin 0 .. (0 - 1)
  BY <1>1
<1> HIDE DEF h, s
<1>12. PassedFull(call.key, call.probing_step, call.slot_index, call.i)'
  <2>1. (call.slot_index = BucketAt(home[call.key], call.probing_step))'
    BY <1>2, <1>7, <1>11
       DEF BucketAt, probingfn, LinearProbingFunc, QuadraticProbingFunc, h
  <2>2. NoReturnUpTo(home[call.key], call.probing_step)'
    BY <1>2, <1>8, <1>10, <1>11 DEF NoReturnUpTo
  <2>3. (\A t \in 0 .. (call.probing_step - 1) :
          Full(BucketAt(home[call.key], t)))'
    BY <1>2, <1>9, <1>10, <1>11 DEF Full, Holds
  <2>4. (\A j \in 0 .. (call.i - 1) : ~Holds(call.slot_index, j, Sentinel))'
    BY <1>2, <1>11
  <2> QED
    BY <2>1, <2>2, <2>3, <2>4 DEF PassedFull
<1>13. (\A t \in 0 .. (call.probing_step - 1), j \in Slots :
          ~Holds(BucketAt(home[call.key], t), j, call.key))'
  BY <1>2, <1>9, <1>10, <1>11 DEF Holds
<1>14. (\A j \in 0 .. (call.i - 1) : ~Holds(call.slot_index, j, call.key))'
  BY <1>2, <1>11
<1> QED
  BY <1>12, <1>13, <1>14 DEF WalkSoFar

LEMMA CallGoesOn ==
  ASSUME TableInv, NextSlot \/ NextBucket
  PROVE  call'.op = call.op /\ call'.payload = call.payload /\ call' # NoCall
<1>1. call \in Calls
  BY CallTyped DEF TableInv, NextSlot, NextBucket, BucketDone
<1>2. call'.op = call.op /\ call'.payload = call.payload
  BY <1>1 DEF NextSlot, NextBucket, Advance, Calls
<1> QED
  BY <1>1, <1>2 DEF Calls, NoCall

LEMMA NextTableInv == TableInv /\ [Next]_vars => TableInv'
<1> SUFFICES ASSUME TableInv, [Next]_vars PROVE TableInv'
  OBVIOUS
<1>1. TypeOK'
  BY NextTypeOK DEF TableInv
<1>2. ASSUME call' = NoCall PROVE WalkSoFar'
  BY <1>2 DEF WalkSoFar
<1>3. ASSUME UNCHANGED <<home, buckets>>,
             call'.op = "insert" => call'.payload \in Payloads
      PROVE  PayloadsGiven'
  BY <1>3 DEF TableInv, PayloadsGiven, Holds
<1>4. NoCall.op # "insert"
  BY DEF NoCall
<1>5. ASSUME NEW op \in {"insert", "lookup"}, NEW k \in Keys,
             NEW p \in Payloads \cup {Absent},
             op = "insert" => p \in Payloads,
             Start(op, k, p)
      PROVE  TableInv'
  <2>1. PayloadsGiven'
    BY <1>3, <1>5 DEF Start
  <2>2. WalkSoFar'
    <3>1. /\ call'.key = k /\ call'.probing_step = 0 /\ call'.i = 0
          /\ call'.slot_index = home[k] /\ home' = home
      BY <1>5 DEF Start
    <3>2. /\ \A j : j \notin 0 .. (0 - 1)
          /\ \A j : j \notin 1 .. 0
      OBVIOUS
    <3> QED
      BY <3>1, <3>2 DEF WalkSoFar, PassedFull, NoReturnUpTo, BucketAt
  <2> QED
    BY <1>1, <1>5, <2>1, <2>2, TableUntouched DEF Start, TableInv
<1>6. ASSUME InsertEmpty PROVE TableInv'
  <2>1. PayloadsGiven'
    <3>1. call'.op # "insert"
      BY <1>4, <1>6, InsertEmptyEffect
    <3>2. NewEntry.payload \in Payloads
      BY <1>6 DEF NewEntry, InsertEmpty, TableInv, PayloadsGiven
    <3> QED
      BY <1>6, <3>1, <3>2, InsertEmptyEffect DEF PayloadsGiven, TableInv, Holds
  <2> QED
    BY <1>1, <1>2, <1>6, <2>1, InsertEmptyEffect, InsertEmptyReachable,
       InsertEmptyKeysUnique DEF TableInv
<1>7. ASSUME InsertExisting \/ LookupHit \/ LookupMiss \/ WayExhausted
      PROVE  TableInv'
  <2>1. call' = NoCall /\ UNCHANGED <<home, buckets>>
    BY <1>7 DEF InsertExisting, LookupHit, LookupMiss, WayExhausted, Return
  <2> QED
    BY <1>1, <1>2, <1>3, <1>4, <2>1, TableUntouched DEF TableInv
<1>8. ASSUME NextSlot \/ NextBucket PROVE TableInv'
  <2>1. call'.op = call.op /\ call'.payload = call.payload
    BY <1>8, CallGoesOn
  <2>2. UNCHANGED <<home, buckets>>
    BY <1>8 DEF NextSlot, NextBucket
  <2>3. PayloadsGiven'
    BY <1>3, <2>1, <2>2 DEF TableInv, PayloadsGiven
  <2> QED
    BY <1>1, <1>8, <2>2, <2>3, NextSlotWalk, NextBucketWalk, TableUntouched
       DEF TableInv
<1>9. ASSUME Clear PROVE TableInv'
  <2>1. \A b \in Directory, i \in Slots : Holds(b, i, Sentinel)'
    BY <1>9, ClearEffect DEF TableInv
  <2>2. call' = NoCall
    BY <1>9 DEF Clear
  <2>3. PayloadsGiven' /\ Reachable' /\ KeysUnique'
    BY <1>4, <2>1, <2>2 DEF PayloadsGiven, Reachable, KeysUnique
  <2> QED
    BY <1>1, <1>2, <2>2, <2>3 DEF TableInv
<1>10. ASSUME SentinelCall \/ UNCHANGED vars PROVE TableInv'
  <2>1. UNCHANGED <<home, buckets, call>>
    BY <1>10 DEF SentinelCall, vars
  <2>2. PayloadsGiven'
    BY <1>3, <2>1 DEF TableInv, PayloadsGiven
  <2>3. WalkSoFar'
    BY <2>1 DEF TableInv, WalkSoFar, PassedFull, Full, Holds
  <2> QED
    BY <1>1, <2>1, <2>2, <2>3, TableUntouched DEF TableInv
<1> QED
  BY <1>5, <1>6, <1>7, <1>8, <1>9, <1>10, TableAssumption DEF Next, Step

THEOREM TableInvariant == Spec => []TableInv
BY InitTableInv, NextTableInv, PTL DEF Spec

\* A stored key is always found from its home bucket (probing.hpp, lookup).
THEOREM AlwaysReachable == Spec => []Reachable
<1>1. TableInv => Reachable
  BY DEF TableInv
<1> QED
  BY <1>1, TableInvariant, PTL

\* No key is ever stored twice (probing.hpp, insert's "key already exists").
THEOREM AlwaysUnique == Spec => []KeysUnique
<1>1. TableInv => KeysUnique
  BY DEF TableInv
<1> QED
  BY <1>1, TableInvariant, PTL

\* insert throws only with its whole way full and its key nowhere.
LEMMA WayIsFull ==
  ASSUME TableInv, BucketDone, WayEnds
  PROVE  \E s \in 1 .. N : NoRoomFor(call.key, s)
<1> DEFINE h == home[call.key]
           s == call.probing_step
<1>1. /\ call # NoCall /\ call.i = BucketSize
      /\ h \in Directory /\ s \in Nat
  BY CallTyped DEF TableInv, BucketDone
<1>2. /\ call.slot_index = BucketAt(h, s)
      /\ NoReturnUpTo(h, s)
      /\ \A t \in 0 .. (s - 1) : Full(BucketAt(h, t))
      /\ \A j \in 0 .. (call.i - 1) : ~Holds(call.slot_index, j, Sentinel)
  BY <1>1 DEF TableInv, WalkSoFar, PassedFull
<1>3. s + 1 \in 1 .. N
  BY <1>1, <1>2, WalkIsShort, DirectoryAssumption
<1>4. probingfn(h, s + 1) = h
  BY DEF WayEnds, NextIndex
<1>5. Full(BucketAt(h, s))
  BY <1>1, <1>2 DEF Full, Slots
<1>6. \A t \in 0 .. (s + 1 - 1) : t \in 0 .. (s - 1) \/ t = s
  BY <1>1
<1>7. \A t \in 0 .. (s + 1 - 1) : Full(BucketAt(h, t))
  BY <1>2, <1>5, <1>6
<1>8. \A b \in Directory, i \in Slots : ~Holds(b, i, call.key)
  BY NotBeyondReturn
<1>9. NoRoomFor(call.key, s + 1)
  BY <1>1, <1>4, <1>7, <1>8 DEF NoRoomFor
<1> QED
  BY <1>3, <1>9

THEOREM ThrowsRightly == Spec => ThrowsOnFullWay
<1> DEFINE A == /\ call # NoCall /\ call' = NoCall
                /\ ret'.op = "insert" /\ ret'.res = "thrown"
                => \E s \in 1 .. N : NoRoomFor(call.key, s)
<1>1. TableInv /\ [Next]_vars => [A]_vars
  <2> SUFFICES ASSUME TableInv, [Next]_vars, call # NoCall, call' = NoCall,
                      ret'.op = "insert", ret'.res = "thrown"
               PROVE  \E s \in 1 .. N : NoRoomFor(call.key, s)
    OBVIOUS
  <2>1. Step
    BY DEF Next, Start, SentinelCall, Clear, vars
  <2>2. ~InsertEmpty /\ ~InsertExisting
    BY DEF InsertEmpty, InsertExisting, Return, Outcome
  <2>3. ~LookupHit /\ ~LookupMiss
    BY DEF LookupHit, LookupMiss, Return, Outcome
  <2>4. ~NextSlot /\ ~NextBucket
    BY CallGoesOn
  <2> QED
    BY <2>1, <2>2, <2>3, <2>4, WayIsFull DEF Step, WayExhausted
<1> QED
  BY <1>1, TableInvariant, PTL DEF Spec, ThrowsOnFullWay

-----------------------------------------------------------------------------
(* The refinement: each insert and lookup that ends has the effect and the   *)
(* answer of one operation of HashMap, and every step before that changes    *)
(* nothing.                                                                  *)

\* What the slots say about the abstract map.
MapAgrees ==
  /\ AbstractMap = [k \in Keys |-> AbstractMap[k]]
  /\ \A k \in Keys : ~Stored(k) => AbstractMap[k] = Absent
  /\ \A b \in Directory, i \in Slots, k \in Keys :
       Holds(b, i, k) => AbstractMap[k] = buckets[b][i].payload

LEMMA TableAgrees == TableInv => MapAgrees
<1> SUFFICES ASSUME TableInv PROVE MapAgrees
  OBVIOUS
<1>1. AbstractMap = [k \in Keys |-> AbstractMap[k]]
  BY DEF AbstractMap
<1>2. \A k \in Keys : ~Stored(k) => AbstractMap[k] = Absent
  BY DEF AbstractMap
<1>3. ASSUME NEW b \in Directory, NEW i \in Slots, NEW k \in Keys,
             Holds(b, i, k)
      PROVE  AbstractMap[k] = buckets[b][i].payload
  <2> DEFINE at == CHOOSE at \in Directory \X Slots : Holds(at[1], at[2], k)
  <2>1. <<b, i>> \in Directory \X Slots /\ Holds(<<b, i>>[1], <<b, i>>[2], k)
    BY <1>3
  <2>2. at \in Directory \X Slots /\ Holds(at[1], at[2], k)
    BY <2>1
  <2>3. PayloadOf(k) = buckets[at[1]][at[2]].payload
    BY DEF PayloadOf
  <2> HIDE DEF at
  <2>4. at[1] \in Directory /\ at[2] \in Slots
    BY <2>2
  <2>5. ~Holds(b, i, Sentinel)
    BY <1>3, TableAssumption DEF Holds
  <2>6. b = at[1] /\ i = at[2]
    BY <1>3, <2>2, <2>4, <2>5 DEF TableInv, KeysUnique, Holds
  <2>7. Stored(k)
    BY <1>3 DEF Stored
  <2> QED
    BY <2>3, <2>6, <2>7 DEF AbstractMap
<1> QED
  BY <1>1, <1>2, <1>3 DEF MapAgrees

\* Slots that keep their entries keep the map.
LEMMA SameSlotsSameMap ==
  ASSUME MapAgrees, MapAgrees', UNCHANGED buckets
  PROVE  UNCHANGED AbstractMap
<1>1. ASSUME NEW k \in Keys PROVE AbstractMap'[k] = AbstractMap[k]
  <2>1. CASE Stored(k)
    <3>1. PICK b \in Directory, i \in Slots : Holds(b, i, k)
      BY <2>1 DEF Stored
    <3>2. Holds(b, i, k)'
      BY <3>1 DEF Holds
    <3> QED
      BY <3>1, <3>2 DEF MapAgrees
  <2>2. CASE ~Stored(k)
    <3>1. ~Stored(k)'
      BY <2>2 DEF Stored, Holds
    <3> QED
      BY <2>2, <3>1 DEF MapAgrees
  <2> QED
    BY <2>1, <2>2
<1>2. /\ AbstractMap = [k \in Keys |-> AbstractMap[k]]
      /\ AbstractMap' = [k \in Keys |-> AbstractMap'[k]]
  BY DEF MapAgrees
<1> QED
  BY <1>1, <1>2

LEMMA InitIsMapInit == Init => Map!Init
<1> SUFFICES ASSUME Init PROVE Map!Init
  OBVIOUS
<1>1. MapAgrees
  BY InitTableInv, TableAgrees
<1>2. \A k \in Keys : ~Stored(k)
  BY TableAssumption DEF Init, Stored, Holds
<1>3. AbstractMap = [k \in Keys |-> Absent]
  BY <1>1, <1>2 DEF MapAgrees
<1> QED
  BY <1>3 DEF Init, Map!Init, Outcome, Map!Outcome

LEMMA StoreIsMapInsert ==
  ASSUME TableInv, MapAgrees, MapAgrees', InsertEmpty
  PROVE  Map!Insert(call.key, call.payload)
<1>1. /\ call.key \in Keys
      /\ \A c \in Directory, j \in Slots : ~Holds(c, j, call.key)
      /\ NewEntry.key = call.key /\ NewEntry.payload = call.payload
  BY NotBeyondEmpty, InsertEmptyEffect DEF InsertEmpty, NewEntry
<1>2. AbstractMap[call.key] = Absent
  BY <1>1 DEF MapAgrees, Stored
<1>3. AbstractMap'[call.key] = call.payload
  <2>1. PICK k \in Keys : k = call.key
    BY <1>1
  <2>2. PICK b \in Directory, i \in Slots : b = call.slot_index /\ i = call.i
    BY InsertEmptyEffect
  <2>3. Holds(b, i, k)' /\ buckets'[b][i].payload = call.payload
    BY <1>1, <2>1, <2>2, InsertEmptyEffect DEF Holds
  <2> QED
    BY <2>1, <2>3 DEF MapAgrees
<1>4. ASSUME NEW k \in Keys, k # call.key
      PROVE  AbstractMap'[k] = AbstractMap[k]
  <2>1. CASE Stored(k)
    <3>1. PICK b \in Directory, i \in Slots : Holds(b, i, k)
      BY <2>1 DEF Stored
    <3>2. buckets'[b][i] = buckets[b][i]
      BY <3>1, InsertEmptyEffect, TableAssumption DEF Holds, SlotSeen
    <3>3. Holds(b, i, k)'
      BY <3>1, <3>2 DEF Holds
    <3> QED
      BY <3>1, <3>2, <3>3 DEF MapAgrees
  <2>2. CASE ~Stored(k)
    <3>1. ~Stored(k)'
      BY <1>1, <1>4, <2>2, InsertEmptyEffect DEF Stored, Holds
    <3> QED
      BY <2>2, <3>1 DEF MapAgrees
  <2> QED
    BY <2>1, <2>2
<1>5. AbstractMap' = [AbstractMap EXCEPT ![call.key] = call.payload]
  BY <1>1, <1>3, <1>4 DEF MapAgrees
<1> QED
  BY <1>2, <1>5
     DEF InsertEmpty, Return, Outcome, Map!Insert, Map!Outcome

\* Every step of the table is a step of the map or leaves it as it is.
LEMMA StepIsMapStep ==
  ASSUME TableInv, MapAgrees, MapAgrees', [Next]_vars
  PROVE  [Map!Next]_(Map!mapVars)
<1>1. ASSUME UNCHANGED <<buckets, ret>> PROVE UNCHANGED Map!mapVars
  BY <1>1, SameSlotsSameMap DEF Map!mapVars
<1>2. ASSUME NEW op, NEW k \in Keys, NEW p, Start(op, k, p)
      PROVE  UNCHANGED Map!mapVars
  BY <1>1, <1>2 DEF Start
<1>3. CASE NextSlot \/ NextBucket \/ UNCHANGED vars
  BY <1>1, <1>3 DEF NextSlot, NextBucket, vars
<1>4. CASE SentinelCall
  <2>1. UNCHANGED AbstractMap
    BY <1>4, SameSlotsSameMap DEF SentinelCall
  <2> QED
    BY <1>4, <2>1
       DEF SentinelCall, Outcome, Map!Next, Map!SentinelCall, Map!Outcome
<1>5. CASE Clear
  <2>1. \A k \in Keys : ~Stored(k)'
    BY <1>5, ClearEffect, TableAssumption DEF TableInv, Stored, Holds
  <2>2. AbstractMap' = [k \in Keys |-> Absent]
    BY <2>1 DEF MapAgrees
  <2> QED
    BY <1>5, <2>2 DEF Clear, Outcome, Map!Next, Map!Clear, Map!Outcome
<1>6. CASE InsertEmpty
  <2>1. call.key \in Keys /\ call.payload \in Payloads
    BY <1>6, InsertEmptyEffect DEF InsertEmpty, TableInv, PayloadsGiven
  <2> QED
    BY <1>6, <2>1, StoreIsMapInsert DEF Map!Next
<1>7. CASE InsertExisting
  <2>1. /\ call # NoCall /\ call.key \in Keys /\ call.key # Sentinel
        /\ call.slot_index \in Directory /\ call.i \in Slots
        /\ Holds(call.slot_index, call.i, call.key)
    BY <1>7, CallTyped, SlotTyped, TableAssumption
       DEF TableInv, InsertExisting, NoCall, Holds, SlotSeen
  <2>2. AbstractMap[call.key] \in Payloads
    BY <2>1 DEF MapAgrees, TableInv, PayloadsGiven, Holds
  <2>3. call.payload \in Payloads
    BY <1>7 DEF InsertExisting, TableInv, PayloadsGiven
  <2>4. UNCHANGED AbstractMap
    BY <1>7, SameSlotsSameMap DEF InsertExisting
  <2>5. Map!Insert(call.key, call.payload)
    BY <1>7, <2>2, <2>4, TableAssumption
       DEF InsertExisting, Return, Outcome, Map!Insert, Map!Outcome
  <2> QED
    BY <2>1, <2>3, <2>5 DEF Map!Next
<1>8. ASSUME UNCHANGED buckets, call.key \in Keys,
             ret' = Outcome("lookup", call.key, AbstractMap[call.key])
      PROVE  Map!Next
  BY <1>8, SameSlotsSameMap DEF Outcome, Map!Next, Map!Lookup, Map!Outcome
<1>9. CASE LookupHit
  <2>1. /\ call # NoCall /\ call.key \in Keys
        /\ call.slot_index \in Directory /\ call.i \in Slots
        /\ Holds(call.slot_index, call.i, call.key)
    BY <1>9, CallTyped, SlotTyped
       DEF TableInv, LookupHit, NoCall, Holds, SlotSeen
  <2>2. AbstractMap[call.key] = SlotSeen.payload
    BY <2>1 DEF MapAgrees, SlotSeen
  <2> QED
    BY <1>8, <1>9, <2>1, <2>2 DEF LookupHit, Return
<1>10. CASE LookupMiss
  <2>1. call # NoCall
    BY <1>10 DEF LookupMiss, NoCall
  <2>2. call.key \in Keys /\ ~Stored(call.key)
    BY <1>10, <2>1, CallTyped, NotBeyondEmpty
       DEF TableInv, LookupMiss, Stored
  <2>3. AbstractMap[call.key] = Absent
    BY <2>2 DEF MapAgrees
  <2> QED
    BY <1>8, <1>10, <2>2, <2>3 DEF LookupMiss, Return
<1>11. CASE WayExhausted
  <2>1. call # NoCall
    BY <1>11 DEF WayExhausted, BucketDone
  <2>2. call.key \in Keys /\ ~Stored(call.key)
    BY <1>11, <2>1, CallTyped, NotBeyondReturn
       DEF TableInv, WayExhausted, Stored
  <2>3. AbstractMap[call.key] = Absent /\ UNCHANGED AbstractMap
    BY <1>11, <2>2, SameSlotsSameMap DEF MapAgrees, WayExhausted
  <2>4. CASE call.op = "insert"
    <3>1. call.payload \in Payloads
      BY <2>4 DEF TableInv, PayloadsGiven
    <3>2. Map!Throw(call.key, call.payload)
      BY <1>11, <2>3, <2>4
         DEF WayExhausted, Return, Outcome, Map!Throw, Map!Outcome
    <3> QED
      BY <2>2, <3>1, <3>2 DEF Map!Next
  <2>5. CASE call.op = "lookup"
    BY <1>8, <1>11, <2>2, <2>3, <2>5 DEF WayExhausted, Return
  <2> QED
    BY <2>1, <2>4, <2>5, CallTyped DEF TableInv, Calls
<1> QED
  BY <1>2, <1>3, <1>4, <1>5, <1>6, <1>7, <1>9, <1>10, <1>11 DEF Next, Step

\* The table keeps the promise of its interface (probing.hpp, the comments of
\* insert and lookup): it is a map, and each call is one operation on it.
THEOREM Refinement == Spec => ImplementsMap
<1>1. TableInv => MapAgrees
  BY TableAgrees
<1>2. TableInv /\ MapAgrees /\ MapAgrees' /\ [Next]_vars
        => [Map!Next]_(Map!mapVars)
  BY StepIsMapStep
<1> QED
  BY <1>1, <1>2, InitIsMapInit, TableInvariant, PTL
     DEF Spec, ImplementsMap, Map!Spec
=============================================================================
