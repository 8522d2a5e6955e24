---------------------------- MODULE Cuckoo_proofs ----------------------------
(***************************************************************************)
(* The cuckoo table for any number of buckets, slots and kicks, and either *)
(* kicking strategy: an entry is in one of its two buckets, the occupied   *)
(* slots of a bucket come first, and kicking never copies an entry.        *)
(***************************************************************************)
EXTENDS Cuckoo, FiniteSetTheorems, TLAPS

\* The inductive invariant.  The slots the calls choose are those of keys that
\* are stored once, so the types need the placement.
CuckooInv == CuckooTypeOK /\ WellPlaced

-----------------------------------------------------------------------------
LEMMA HomeBuckets ==
  ASSUME CuckooTypeOK, NEW k \in Keys
  PROVE  Primary(k) \in Directory /\ Secondary(k) \in Directory
<1>1. home[k].i1 \in 0 .. (N - 1) /\ home[k].i2 \in 0 .. (N - 1) /\ N \in Nat \ {0}
  BY CuckooAssumption DEF CuckooTypeOK, Directory
<1> QED BY <1>1 DEF Primary, Secondary, Directory

\* The slot a key is in, as a pair of a bucket and an index.
LEMMA StoredOnce ==
  ASSUME CuckooInv, NEW k \in Keys,
         NEW b \in Directory, NEW i \in Slots, buckets[b][i].key = k
  PROVE  /\ b \in {Primary(k), Secondary(k)}
         /\ \A c \in Directory, j \in Slots : buckets[c][j].key = k => c = b /\ j = i
         /\ Displaced => call.key # k
BY CuckooAssumption DEF CuckooInv, WellPlaced, Holds

\* One slot of one bucket written.
LEMMA OneSlot ==
  ASSUME CuckooTypeOK, NEW b \in Directory, NEW i \in Slots, NEW e \in Slot,
         buckets' = [buckets EXCEPT ![b][i] = e]
  PROVE  /\ buckets' \in [Directory -> [Slots -> Slot]]
         /\ \A c \in Directory, j \in Slots :
              buckets'[c][j] = IF c = b /\ j = i THEN e ELSE buckets[c][j]
<1>1. buckets \in [Directory -> [Slots -> Slot]]
  BY DEF CuckooTypeOK
<1> QED BY <1>1

\* The occupied slots of a bucket are the first Count of it.
LEMMA CountFirst ==
  ASSUME CuckooInv, NEW b \in Directory
  PROVE  /\ Count(b) \in 0 .. BucketSize
         /\ \A i \in Slots : Holds(b, i, Sentinel) <=> i >= Count(b)
<1> DEFINE O == Occupied(b)
           n == Cardinality(O)
<1>1. BucketSize \in Nat \ {0}
  BY CuckooAssumption
<1>2. IsFiniteSet(Slots) /\ Cardinality(Slots) = BucketSize
  BY <1>1, FS_Interval DEF Slots
<1>3. O \in SUBSET Slots
  BY DEF Occupied
<1>4. IsFiniteSet(O) /\ n \in Nat /\ n <= BucketSize
  BY <1>2, <1>3, FS_Subset, FS_CardinalityType
<1>5. \A i \in O : \A j \in 0 .. (i - 1) : j \in O
  BY <1>1 DEF Occupied, CuckooInv, WellPlaced, Slots
<1>6. ASSUME NEW i \in Slots
      PROVE  i \in O <=> i < n
  <2>1. i \in Nat
    BY <1>1 DEF Slots
  <2>2. ASSUME i \in O PROVE i < n
    <3>1. 0 .. i \in SUBSET O
      BY <1>5, <2>1, <2>2
    <3>2. Cardinality(0 .. i) = i + 1
      BY <2>1, FS_Interval
    <3>3. Cardinality(0 .. i) <= n
      BY <1>4, <3>1, FS_Subset
    <3> QED BY <2>1, <3>2, <3>3, <1>4
  <2>3. ASSUME i \notin O PROVE n <= i
    <3>1. O \in SUBSET (0 .. (i - 1))
      <4> SUFFICES ASSUME NEW j \in O PROVE j \in 0 .. (i - 1)
        OBVIOUS
      <4>1. j \in Nat
        BY <1>3, <1>1 DEF Slots
      <4>2. j > i => i \in 0 .. (j - 1)
        BY <2>1, <4>1
      <4>3. ~(j > i) /\ j # i
        BY <1>5, <2>3, <4>2
      <4> QED BY <2>1, <4>1, <4>3
    <3>2. IsFiniteSet(0 .. (i - 1)) /\ Cardinality(0 .. (i - 1)) = i
      BY <2>1, FS_Interval
    <3>3. n <= Cardinality(0 .. (i - 1))
      BY <3>1, <3>2, FS_Subset
    <3> QED BY <3>2, <3>3
  <2> QED BY <2>1, <2>2, <2>3, <1>4
<1>7. \A i \in Slots : i \in O <=> ~Holds(b, i, Sentinel)
  BY DEF Occupied
<1>8. Count(b) = n
  BY DEF Count
<1> HIDE DEF n, O
<1>9. \A i \in Slots : i \in Nat
  BY <1>1 DEF Slots
<1> QED BY <1>1, <1>4, <1>6, <1>7, <1>8, <1>9

-----------------------------------------------------------------------------
LEMMA InitCuckooInv == CuckooInit => CuckooInv
<1> SUFFICES ASSUME CuckooInit PROVE CuckooInv
  OBVIOUS
<1>1. CuckooTypeOK
  BY CuckooAssumption DEF CuckooInit, CuckooTypeOK, Entry, Slot, Outcome, Directory
<1>2. \A b \in Directory, i \in Slots : Holds(b, i, Sentinel)
  BY DEF CuckooInit, Holds, Entry
<1>3. WellPlaced
  BY <1>2 DEF WellPlaced
<1> QED BY <1>1, <1>3 DEF CuckooInv

\* A call that leaves the buckets alone and carries no victim when it is over.
LEMMA BucketsKept ==
  ASSUME CuckooInv, CuckooTypeOK', UNCHANGED <<home, buckets>>,
         call' = call \/ ~Displaced'
  PROVE  CuckooInv'
<1>1. \A k : Primary(k)' = Primary(k) /\ Secondary(k)' = Secondary(k)
  BY DEF Primary, Secondary
<1>2. \A b, i, k : Holds(b, i, k)' <=> Holds(b, i, k)
  BY DEF Holds
<1>3. WellPlaced'
  BY <1>1, <1>2 DEF CuckooInv, WellPlaced, Displaced
<1> QED BY <1>3 DEF CuckooInv

\* The outcomes of CuckooTypeOK.
LEMMA OutcomeType ==
  ASSUME NEW op \in {"none", "insert", "lookup", "clear"}, NEW k \in Keys \cup {Sentinel},
         NEW res \in Payloads \cup {Absent, "inserted", "thrown"}
  PROVE  Outcome(op, k, res) \in [op : {"none", "insert", "lookup", "clear"},
                                  key : Keys \cup {Sentinel},
                                  res : Payloads \cup {Absent, "inserted", "thrown"}]
BY DEF Outcome

\* A call under way, and its two buckets.
LEMMA CallFacts ==
  ASSUME CuckooTypeOK, call # NoCall
  PROVE  /\ call \in Calls /\ call.key \in Keys /\ call.orig_key \in Keys
         /\ call.payload \in Payloads \cup {Absent} /\ call.kick_count \in Nat
         /\ B1 = Primary(call.key) /\ B2 = Secondary(call.key)
         /\ B1 \in Directory /\ B2 \in Directory
         /\ Entry(call.key, call.payload) \in Slot
<1>1. call \in Calls
  BY DEF CuckooTypeOK
<1>2. /\ call.key \in Keys /\ call.orig_key \in Keys
      /\ call.payload \in Payloads \cup {Absent} /\ call.kick_count \in Nat
  BY <1>1, CuckooAssumption DEF Calls
<1> QED BY <1>1, <1>2, HomeBuckets DEF B1, B2, Entry, Slot

\* An insert that has just begun has kicked nothing out.
LEMMA InsertCallInv ==
  ASSUME CuckooInv, NEW k \in Keys, NEW p \in Payloads, InsertCall(k, p)
  PROVE  CuckooInv'
<1> DEFINE new == [op |-> "insert", orig_key |-> k, key |-> k, payload |-> p, kick_count |-> 0]
<1>1. call' = new /\ UNCHANGED <<kickingfn, home, buckets, ret>>
  BY DEF InsertCall
<1>2. new \in Calls
  BY CuckooAssumption DEF Calls
<1>3. CuckooTypeOK'
  BY <1>1, <1>2 DEF CuckooInv, CuckooTypeOK
<1>4. ~Displaced'
  BY <1>1 DEF Displaced
<1> QED BY <1>1, <1>3, <1>4, BucketsKept

\* The end of an insert.
LEMMA ReturnFacts ==
  ASSUME CuckooTypeOK, call # NoCall, NEW res \in {"inserted", "thrown"}, Return(res)
  PROVE  /\ call' \in Calls \cup {NoCall} /\ ~Displaced'
         /\ ret' \in [op : {"none", "insert", "lookup", "clear"},
                      key : Keys \cup {Sentinel},
                      res : Payloads \cup {Absent, "inserted", "thrown"}]
<1>1. call' = NoCall /\ ret' = Outcome("insert", call.orig_key, res)
  BY DEF Return
<1>2. call.orig_key \in Keys
  BY CallFacts
<1>3. ~Displaced'
  BY <1>1 DEF Displaced
<1> QED BY <1>1, <1>2, <1>3, OutcomeType

\* The key of an insert is in one of the two buckets, at one slot.
LEMMA UpdateInv ==
  ASSUME CuckooInv, Update
  PROVE  CuckooInv'
<1>0. CuckooTypeOK /\ WellPlaced /\ call # NoCall
  BY DEF CuckooInv, Update, InRound
<1>1. PICK at \in {B1, B2} \X Slots : Holds(at[1], at[2], call.key)
  BY DEF Update, Present
<1>2. /\ at = <<at[1], at[2]>> /\ at[1] \in Directory /\ at[2] \in Slots
      /\ buckets[at[1]][at[2]].key = call.key /\ call.key \in Keys
  BY <1>0, <1>1, CallFacts DEF Holds
<1>3. Present = {at}
  <2>1. ASSUME NEW other \in Present PROVE other = at
    <3>1. /\ other = <<other[1], other[2]>> /\ other[1] \in Directory /\ other[2] \in Slots
          /\ buckets[other[1]][other[2]].key = call.key
      BY <1>0, CallFacts DEF Present, Holds
    <3>2. other[1] = at[1] /\ other[2] = at[2]
      BY <1>2, <3>1, StoredOnce
    <3> QED BY <1>2, <3>1, <3>2
  <2> QED BY <1>1, <2>1 DEF Present
<1>4. FirstPresent = at
  <2>1. \A other \in Present :
          at[2] < other[2] \/ (at[2] = other[2] /\ at[1] \in {B1, other[1]})
    BY <1>3
  <2> QED BY <1>3, <2>1 DEF FirstPresent
<1> DEFINE b == at[1]
           i == at[2]
           e == [buckets[b][i] EXCEPT !.payload = call.payload]
<1>5. e \in Slot /\ e.key = call.key
  <2>1. buckets[b][i] \in Slot
    BY <1>0, <1>2 DEF CuckooTypeOK
  <2> QED BY <1>0, <1>2, <2>1, CallFacts DEF Slot
<1>6. buckets' = [buckets EXCEPT ![b][i] = e] /\ UNCHANGED <<kickingfn, home>>
  BY <1>4 DEF Update
<1>7. /\ buckets' \in [Directory -> [Slots -> Slot]]
      /\ \A c \in Directory, j \in Slots : buckets'[c][j].key = buckets[c][j].key
  <2> HIDE DEF e, b, i
  <2>1. b \in Directory /\ i \in Slots /\ buckets[b][i].key = call.key
    BY <1>2 DEF b, i
  <2> QED BY <1>0, <1>5, <1>6, <2>1, OneSlot
<1>8. ~Displaced' /\ CuckooTypeOK'
  BY <1>0, <1>6, <1>7, ReturnFacts DEF Update, CuckooTypeOK
<1>9. WellPlaced'
  <2>1. \A k : \A c \in Directory, j \in Slots : Holds(c, j, k)' <=> Holds(c, j, k)
    BY <1>7 DEF Holds
  <2>2. \A k : Primary(k)' = Primary(k) /\ Secondary(k)' = Secondary(k)
    BY <1>6 DEF Primary, Secondary
  <2>3. \A j \in Slots : \A l \in 0 .. (j - 1) : l \in Slots
    BY CuckooAssumption DEF Slots
  <2> QED BY <1>0, <1>7, <1>8, <2>1, <2>2, <2>3 DEF WellPlaced
<1> QED BY <1>8, <1>9 DEF CuckooInv

\* A key that is in neither of its buckets is nowhere.
LEMMA Nowhere ==
  ASSUME CuckooInv, call # NoCall, Present = {}
  PROVE  \A b \in Directory, i \in Slots : buckets[b][i].key # call.key
<1> SUFFICES ASSUME NEW b \in Directory, NEW i \in Slots, buckets[b][i].key = call.key
             PROVE  FALSE
  OBVIOUS
<1>1. b \in {B1, B2}
  BY CallFacts, StoredOnce DEF CuckooInv
<1>2. <<b, i>> \in Present
  BY <1>1 DEF Present, Holds
<1> QED BY <1>2

\* The entry carried is written to a slot: what holds of the table after it,
\* whether the slot was the first empty one or a victim's.
LEMMA WrittenPlaced ==
  ASSUME CuckooInv, CuckooTypeOK', call # NoCall, Present = {}, home' = home,
         NEW b \in {B1, B2}, NEW i \in Slots, \A j \in 0 .. (i - 1) : ~Holds(b, j, Sentinel),
         buckets' = [buckets EXCEPT ![b][i] = Entry(call.key, call.payload)],
         ~Displaced' \/ (/\ call'.key = buckets[b][i].key
                         /\ buckets[b][i].key # Sentinel)
  PROVE  CuckooInv'
<1>0. CuckooTypeOK /\ WellPlaced /\ call.key \in Keys /\ b \in Directory
  BY CallFacts DEF CuckooInv
<1>1. \A c \in Directory, j \in Slots :
        buckets'[c][j] = IF c = b /\ j = i THEN Entry(call.key, call.payload) ELSE buckets[c][j]
  BY <1>0, CallFacts, OneSlot
<1>2. \A c \in Directory, j \in Slots :
        buckets'[c][j].key = IF c = b /\ j = i THEN call.key ELSE buckets[c][j].key
  BY <1>1 DEF Entry
<1>3. \A c \in Directory, j \in Slots : buckets[c][j].key # call.key
  BY Nowhere
<1>4. \A k : Primary(k)' = Primary(k) /\ Secondary(k)' = Secondary(k)
  BY DEF Primary, Secondary
<1>5. b \in {Primary(call.key), Secondary(call.key)} /\ call.key # Sentinel
  BY <1>0, CuckooAssumption DEF B1, B2
<1>6. ASSUME NEW c \in Directory, NEW j \in Slots, ~Holds(c, j, Sentinel)'
      PROVE  /\ c \in {Primary(buckets[c][j].key)', Secondary(buckets[c][j].key)'}
             /\ \A l \in 0 .. (j - 1) : ~Holds(c, l, Sentinel)'
             /\ \A d \in Directory, l \in Slots :
                  buckets'[c][j].key = buckets'[d][l].key => c = d /\ j = l
             /\ Displaced' => ~Holds(c, j, call.key)'
  <2>0. \A l \in 0 .. (j - 1) : l \in Slots
    BY CuckooAssumption DEF Slots
  <2>1. CASE c = b /\ j = i
    <3>1. buckets'[c][j].key = call.key
      BY <1>2, <2>1
    <3>2. c \in {Primary(buckets[c][j].key)', Secondary(buckets[c][j].key)'}
      BY <1>4, <1>5, <2>1, <3>1
    <3>3. \A l \in 0 .. (j - 1) : ~Holds(c, l, Sentinel)'
      BY <1>0, <1>2, <2>0, <2>1 DEF Holds
    <3>4. \A d \in Directory, l \in Slots :
            buckets'[c][j].key = buckets'[d][l].key => c = d /\ j = l
      BY <1>2, <1>3, <2>1, <3>1
    <3>5. Displaced' => ~Holds(c, j, call.key)'
      BY <1>0, <1>3, <2>1, <3>1 DEF Holds
    <3> QED BY <3>2, <3>3, <3>4, <3>5
  <2>2. CASE ~(c = b /\ j = i)
    <3>1. buckets'[c][j].key = buckets[c][j].key /\ ~Holds(c, j, Sentinel)
      BY <1>2, <2>2, <1>6 DEF Holds
    <3>2. c \in {Primary(buckets[c][j].key), Secondary(buckets[c][j].key)}
      BY <1>0, <3>1 DEF WellPlaced
    <3>3. c \in {Primary(buckets[c][j].key)', Secondary(buckets[c][j].key)'}
      BY <1>4, <3>1, <3>2
    <3>4. \A l \in 0 .. (j - 1) : ~Holds(c, l, Sentinel)'
      BY <1>0, <1>2, <1>5, <2>0, <3>1 DEF WellPlaced, Holds
    <3>5. \A d \in Directory, l \in Slots :
            buckets'[c][j].key = buckets'[d][l].key => c = d /\ j = l
      BY <1>0, <1>2, <1>3, <3>1 DEF WellPlaced
    <3>6. Displaced' => ~Holds(c, j, call.key)'
      <4>1. buckets[c][j].key = buckets[b][i].key => c = b /\ j = i
        BY <1>0, <3>1 DEF WellPlaced
      <4> QED BY <2>2, <3>1, <4>1 DEF Holds
    <3> QED BY <3>3, <3>4, <3>5, <3>6
  <2> QED BY <2>1, <2>2
<1>7. WellPlaced'
  BY <1>6 DEF WellPlaced
<1> QED BY <1>7 DEF CuckooInv

\* The slot behind the occupied ones is empty and has no hole before it.
LEMMA PlaceEffect ==
  ASSUME CuckooInv, Place
  PROVE  \E b \in Directory, i \in Slots :
           /\ b \in {B1, B2} /\ Holds(b, i, Sentinel)
           /\ \A j \in 0 .. (i - 1) : ~Holds(b, j, Sentinel)
           /\ buckets' = [buckets EXCEPT ![b][i] = Entry(call.key, call.payload)]
<1>0. CuckooTypeOK /\ call # NoCall /\ Present = {} /\ B1 \in Directory /\ B2 \in Directory
  BY CallFacts DEF CuckooInv, Place, InRound
<1>1. PICK at \in RoomFor(B1, B2) :
        buckets' = [buckets EXCEPT ![at[1]][at[2]] = Entry(call.key, call.payload)]
  BY DEF Place
<1>2. PICK b \in {B1, B2} : at = <<b, Count(b)>> /\ Count(b) < BucketSize
  BY <1>1 DEF RoomFor
<1> DEFINE i == Count(b)
<1>3. b \in Directory /\ i \in Nat /\ i < BucketSize /\ BucketSize \in Nat
  BY <1>0, <1>2, CountFirst, CuckooAssumption
<1>4. \A j \in Slots : Holds(b, j, Sentinel) <=> j >= i
  BY <1>3, CountFirst
<1>5. buckets' = [buckets EXCEPT ![b][i] = Entry(call.key, call.payload)]
  BY <1>1, <1>2
<1> HIDE DEF i
<1>6. i \in Slots /\ \A j \in 0 .. (i - 1) : ~Holds(b, j, Sentinel)
  BY <1>3, <1>4 DEF Slots
<1>7. Holds(b, i, Sentinel)
  BY <1>3, <1>4, <1>6
<1> QED BY <1>3, <1>5, <1>6, <1>7

LEMMA PlaceInv ==
  ASSUME CuckooInv, Place
  PROVE  CuckooInv'
<1>0. CuckooTypeOK /\ call # NoCall /\ Present = {}
  BY DEF CuckooInv, Place, InRound
<1>1. PICK b \in Directory, i \in Slots :
        /\ b \in {B1, B2} /\ \A j \in 0 .. (i - 1) : ~Holds(b, j, Sentinel)
        /\ buckets' = [buckets EXCEPT ![b][i] = Entry(call.key, call.payload)]
  BY PlaceEffect
<1>2. /\ UNCHANGED <<kickingfn, home>> /\ Return("inserted")
  BY DEF Place
<1>3. CuckooTypeOK' /\ ~Displaced'
  <2>1. buckets' \in [Directory -> [Slots -> Slot]]
    BY <1>0, <1>1, CallFacts, OneSlot
  <2> QED BY <1>0, <1>2, <2>1, ReturnFacts DEF CuckooTypeOK
<1> QED BY <1>0, <1>1, <1>2, <1>3, WrittenPlaced

\* Both buckets are full, so the victim is an entry, and it is carried on.
LEMMA KickEffect ==
  ASSUME CuckooInv, Kick
  PROVE  \E b \in Directory, i \in Slots :
           /\ b \in {B1, B2}
           /\ \A c \in {B1, B2}, j \in Slots : ~Holds(c, j, Sentinel)
           /\ buckets' = [buckets EXCEPT ![b][i] = Entry(call.key, call.payload)]
           /\ call' \in Calls /\ Displaced'
           /\ call'.orig_key = call.orig_key
           /\ call'.key = buckets[b][i].key
           /\ call'.payload = buckets[b][i].payload
<1>0. /\ CuckooTypeOK /\ call # NoCall /\ Present = {} /\ B1 \in Directory /\ B2 \in Directory
      /\ RoomFor(B1, B2) = {} /\ call.kick_count <= MaxKickCycleLength
  BY CallFacts DEF CuckooInv, Kick, InRound
<1>1. BucketSize \in Nat \ {0} /\ Rng \subseteq Nat /\ MaxKickCycleLength \in Nat
  BY CuckooAssumption
<1>2. PICK rng \in Rng :
        LET b == VictimBucket(B1, B2, rng)
            i == rng % BucketSize
        IN  /\ buckets' = [buckets EXCEPT ![b][i] = Entry(call.key, call.payload)]
            /\ call' = NextRound(buckets[b][i])
  BY DEF Kick
<1> DEFINE b == VictimBucket(B1, B2, rng)
           i == rng % BucketSize
<1>3. /\ buckets' = [buckets EXCEPT ![b][i] = Entry(call.key, call.payload)]
      /\ call' = NextRound(buckets[b][i])
  BY <1>2
<1>4. b \in {B1, B2}
  BY DEF VictimBucket
<1>5. i \in Slots
  BY <1>1 DEF Slots
<1> HIDE DEF b, i
<1>6. \A c \in {B1, B2}, j \in Slots : ~Holds(c, j, Sentinel)
  <2>1. Count(B1) \in 0 .. BucketSize /\ Count(B2) \in 0 .. BucketSize
    BY <1>0, CountFirst
  <2>2. Count(B1) = BucketSize /\ Count(B2) = BucketSize
    <3> DEFINE m == Count(B1)
               n == Count(B2)
    <3> HIDE DEF m, n
    <3>1. m \in 0 .. BucketSize /\ n \in 0 .. BucketSize
      BY <2>1 DEF m, n
    <3>2. /\ ~(m < BucketSize /\ (kickingfn = "biased" \/ m <= n))
          /\ ~(n < BucketSize)
      BY <1>0 DEF RoomFor, m, n
    <3>3. m = BucketSize /\ n = BucketSize
      BY <1>1, <3>1, <3>2
    <3> QED BY <3>3 DEF m, n
  <2>3. \A j \in Slots : ~(j >= BucketSize)
    BY <1>1 DEF Slots
  <2> QED BY <1>0, <2>2, <2>3, CountFirst
<1> DEFINE victim == buckets[b][i]
<1>7. victim \in Slot /\ victim.key # Sentinel
  BY <1>0, <1>4, <1>5, <1>6 DEF CuckooTypeOK, Holds
<1> HIDE DEF victim
<1>8. call' = NextRound(victim)
  BY <1>3 DEF victim
<1>9. /\ call' \in Calls /\ call'.key = victim.key /\ call'.payload = victim.payload
      /\ call'.orig_key = call.orig_key /\ call'.kick_count = call.kick_count + 1
  <2>1. /\ victim.key \in Keys /\ victim.payload \in Payloads \cup {Absent}
        /\ call \in Calls /\ call.kick_count + 1 \in 0 .. (MaxKickCycleLength + 1)
    BY <1>0, <1>1, <1>7, CallFacts DEF Slot
  <2> QED BY <1>8, <2>1 DEF NextRound, Calls
<1>10. Displaced'
  <2>1. call.kick_count \in Nat /\ NoCall.kick_count = 0
    BY <1>0, CallFacts DEF NoCall
  <2> QED BY <1>9, <2>1 DEF Displaced
<1>11. /\ call'.key = buckets[b][i].key /\ call'.payload = buckets[b][i].payload
  BY <1>9 DEF victim
<1>12. b \in Directory
  BY <1>0, <1>4
<1> QED BY <1>3, <1>4, <1>5, <1>6, <1>9, <1>10, <1>11, <1>12

LEMMA KickInv ==
  ASSUME CuckooInv, Kick
  PROVE  CuckooInv'
<1>0. /\ CuckooTypeOK /\ call # NoCall /\ Present = {}
      /\ UNCHANGED <<kickingfn, home, ret>>
  BY DEF CuckooInv, Kick, InRound
<1>1. PICK b \in Directory, i \in Slots :
        /\ b \in {B1, B2}
        /\ \A c \in {B1, B2}, j \in Slots : ~Holds(c, j, Sentinel)
        /\ buckets' = [buckets EXCEPT ![b][i] = Entry(call.key, call.payload)]
        /\ call' \in Calls
        /\ call'.key = buckets[b][i].key
  BY KickEffect
<1>2. buckets[b][i].key # Sentinel /\ \A j \in 0 .. (i - 1) : ~Holds(b, j, Sentinel)
  BY <1>1, CuckooAssumption DEF Slots, Holds
<1>3. CuckooTypeOK'
  <2>1. buckets' \in [Directory -> [Slots -> Slot]]
    BY <1>0, <1>1, CallFacts, OneSlot
  <2> QED BY <1>0, <1>1, <2>1 DEF CuckooTypeOK
<1> QED BY <1>0, <1>1, <1>2, <1>3, WrittenPlaced

LEMMA GiveUpInv ==
  ASSUME CuckooInv, GiveUp
  PROVE  CuckooInv'
<1>1. CuckooTypeOK /\ call # NoCall /\ Return("thrown") /\ UNCHANGED <<kickingfn, home, buckets>>
  BY DEF CuckooInv, GiveUp
<1>2. ~Displaced' /\ CuckooTypeOK'
  BY <1>1, ReturnFacts DEF CuckooTypeOK
<1> QED BY <1>1, <1>2, BucketsKept

LEMMA LookupInv ==
  ASSUME CuckooInv, NEW k \in Keys, Lookup(k)
  PROVE  CuckooInv'
<1>0. CuckooTypeOK /\ UNCHANGED <<kickingfn, home, buckets, call>>
      /\ ret' = Outcome("lookup", k, LookupResult(k))
  BY DEF CuckooInv, Lookup
<1>1. LookupResult(k) \in Payloads \cup {Absent}
  <2> DEFINE b == IF SlotsWith(Primary(k), k) # {} THEN Primary(k) ELSE Secondary(k)
             S == SlotsWith(b, k)
  <2>1. b \in Directory
    BY <1>0, HomeBuckets
  <2>2. ASSUME S # {} PROVE buckets[b][FirstOf(S)].payload \in Payloads \cup {Absent}
    <3>1. PICK i \in Slots : i \in S /\ buckets[b][i].key = k
      BY <2>2 DEF SlotsWith, Holds
    <3> HIDE DEF b
    <3>2. \A j \in S : j = i
      BY <2>1, <3>1, StoredOnce DEF SlotsWith, Holds
    <3>3. i <= i
      BY CuckooAssumption DEF Slots
    <3>4. FirstOf(S) = i
      <4> HIDE DEF S
      <4>1. S = {i}
        BY <3>1, <3>2
      <4> QED BY <3>3, <4>1 DEF FirstOf
    <3> QED BY <1>0, <2>1, <3>1, <3>4 DEF CuckooTypeOK, Slot
  <2> QED BY <2>2 DEF LookupResult
<1>2. CuckooTypeOK'
  BY <1>0, <1>1, OutcomeType DEF CuckooTypeOK
<1> QED BY <1>0, <1>2, BucketsKept

LEMMA ClearInv ==
  ASSUME CuckooInv, Clear
  PROVE  CuckooInv'
<1>0. /\ CuckooTypeOK /\ UNCHANGED <<kickingfn, home, call>> /\ buckets' = Cleared
      /\ ret' = Outcome("clear", Sentinel, Absent)
  BY DEF CuckooInv, Clear
<1>1. ASSUME NEW b \in Directory, NEW i \in Slots
      PROVE  /\ [buckets[b][i] EXCEPT !.key = Sentinel] \in Slot
             /\ [buckets[b][i] EXCEPT !.key = Sentinel].key = Sentinel
  <2>1. buckets[b][i] \in Slot
    BY <1>0 DEF CuckooTypeOK
  <2> QED BY <2>1 DEF Slot
<1>2. buckets' \in [Directory -> [Slots -> Slot]]
  BY <1>0, <1>1 DEF Cleared
<1>3. \A b \in Directory, i \in Slots : Holds(b, i, Sentinel)'
  BY <1>0, <1>1 DEF Cleared, Holds
<1>4. CuckooTypeOK'
  BY <1>0, <1>2, OutcomeType DEF CuckooTypeOK
<1>5. WellPlaced'
  BY <1>3 DEF WellPlaced
<1> QED BY <1>4, <1>5 DEF CuckooInv

LEMMA NextCuckooInv == CuckooInv /\ [CuckooNext]_cuckooVars => CuckooInv'
<1>1. CuckooInv /\ UNCHANGED cuckooVars => CuckooInv'
  <2> SUFFICES ASSUME CuckooInv, UNCHANGED cuckooVars PROVE CuckooInv'
    OBVIOUS
  <2>1. CuckooTypeOK'
    BY DEF cuckooVars, CuckooInv, CuckooTypeOK
  <2> QED BY <2>1, BucketsKept DEF cuckooVars
<1> QED BY <1>1, InsertCallInv, UpdateInv, PlaceInv, KickInv, GiveUpInv, LookupInv, ClearInv
        DEF CuckooNext, Round

-----------------------------------------------------------------------------
LEMMA AlwaysCuckooInv == CuckooSpec => []CuckooInv
BY InitCuckooInv, NextCuckooInv, PTL DEF CuckooSpec

\* Every call of cuckoo.hpp keeps the types; the kicks of an insert are
\* counted and end one above the bound.
THEOREM TypeCorrect == CuckooSpec => []CuckooTypeOK
<1>1. CuckooInv => CuckooTypeOK
  BY DEF CuckooInv
<1> QED BY <1>1, AlwaysCuckooInv, PTL

\* The kicking functions (cuckoo.hpp) store at the number of occupied slots:
\* that slot is empty, since the occupied ones come first, and no sequence of
\* kicks loses track of an entry's buckets or doubles it.
THEOREM AlwaysWellPlaced == CuckooSpec => []WellPlaced
<1>1. CuckooInv => WellPlaced
  BY DEF CuckooInv
<1> QED BY <1>1, AlwaysCuckooInv, PTL

-----------------------------------------------------------------------------
(* What an insert carries.  The new entry can be kicked out again by the     *)
(* entries it has set in motion; it is in a slot or it is the one carried.   *)

\* Payloads come from inserts, whether stored or carried.
PayloadsGiven ==
  /\ call # NoCall => call.payload \in Payloads
  /\ \A b \in Directory, i \in Slots :
       ~Holds(b, i, Sentinel) => buckets[b][i].payload \in Payloads

NewHeld ==
  call # NoCall =>
    call.key = call.orig_key \/ (Displaced /\ Stored(call.orig_key))

TableInv == CuckooInv /\ PayloadsGiven /\ NewHeld

LEMMA WriteEffect ==
  ASSUME CuckooInv, call # NoCall, NEW b \in Directory, NEW i \in Slots,
         buckets' = [buckets EXCEPT ![b][i] = Entry(call.key, call.payload)]
  PROVE  /\ buckets'[b][i].key = call.key /\ buckets'[b][i].payload = call.payload
         /\ \A c \in Directory, j \in Slots :
              c # b \/ j # i => buckets'[c][j] = buckets[c][j]
<1>1. CuckooTypeOK /\ Entry(call.key, call.payload) \in Slot
  BY CallFacts DEF CuckooInv
<1> QED BY ZenonT(30), <1>1, OneSlot DEF Entry

\* Where Update stores, and what it leaves.
LEMMA UpdateEffect ==
  ASSUME CuckooInv, Update
  PROVE  /\ call # NoCall /\ call.key \in Keys /\ ~Displaced
         /\ \A c \in Directory, j \in Slots :
              /\ buckets'[c][j].key = buckets[c][j].key
              /\ buckets[c][j].key # call.key => buckets'[c][j] = buckets[c][j]
              /\ buckets[c][j].key = call.key => buckets'[c][j].payload = call.payload
         /\ \E c \in Directory, j \in Slots : buckets[c][j].key = call.key
<1>1. CuckooTypeOK /\ call # NoCall /\ B1 \in Directory /\ B2 \in Directory
      /\ call.key \in Keys
  BY CallFacts DEF CuckooInv, Update, InRound
<1>2. \A x \in Present : /\ x = <<x[1], x[2]>>
                         /\ x[1] \in Directory /\ x[2] \in Slots
                         /\ buckets[x[1]][x[2]].key = call.key
  BY <1>1 DEF Present, Holds
<1>3. PICK at \in Present : TRUE
  BY DEF Update
<1>4. Present = {at}
  BY <1>1, <1>2, <1>3, StoredOnce
<1>5. FirstPresent = at
  <2>1. \A other \in Present :
          at[2] < other[2] \/ (at[2] = other[2] /\ at[1] \in {B1, other[1]})
    BY <1>4
  <2> QED BY <1>4, <2>1 DEF FirstPresent
<1>6. PICK b \in Directory, i \in Slots : at = <<b, i>>
  BY <1>2, <1>3
<1>7. buckets[b][i].key = call.key /\ buckets[b][i] \in Slot
  BY <1>1, <1>2, <1>3, <1>6 DEF CuckooTypeOK
<1>8. /\ ~Displaced
      /\ \A c \in Directory, j \in Slots :
           buckets[c][j].key = call.key => c = b /\ j = i
  BY <1>1, <1>7, StoredOnce
<1> DEFINE e == [buckets[b][i] EXCEPT !.payload = call.payload]
<1>9. e \in Slot /\ e.key = call.key /\ e.payload = call.payload
  BY <1>1, <1>7, CallFacts DEF Slot
<1>10. buckets' = [buckets EXCEPT ![b][i] = e]
  BY <1>5, <1>6 DEF Update
<1> HIDE DEF e
<1>11. \A c \in Directory, j \in Slots :
         buckets'[c][j] = IF c = b /\ j = i THEN e ELSE buckets[c][j]
  BY <1>1, <1>9, <1>10, OneSlot
<1> QED BY <1>1, <1>7, <1>8, <1>9, <1>11

LEMMA KeptTableInv ==
  ASSUME TableInv, UNCHANGED buckets,
         \/ call' = call
         \/ call' = NoCall
         \/ call'.payload \in Payloads /\ call'.key = call'.orig_key
  PROVE  PayloadsGiven' /\ NewHeld'
BY DEF TableInv, PayloadsGiven, NewHeld, Displaced, Stored, Holds

LEMMA WrittenPayloads ==
  ASSUME TableInv, call # NoCall, NEW b \in Directory, NEW i \in Slots,
         buckets' = [buckets EXCEPT ![b][i] = Entry(call.key, call.payload)],
         call' # NoCall => call'.payload \in Payloads
  PROVE  PayloadsGiven'
<1>1. /\ buckets'[b][i].payload \in Payloads
      /\ \A c \in Directory, j \in Slots :
           c # b \/ j # i => buckets'[c][j] = buckets[c][j]
  BY WriteEffect DEF TableInv, PayloadsGiven
<1>2. ASSUME NEW c \in Directory, NEW j \in Slots, ~Holds(c, j, Sentinel)'
      PROVE  buckets'[c][j].payload \in Payloads
  BY <1>1, <1>2 DEF TableInv, PayloadsGiven, Holds
<1> QED BY <1>2 DEF PayloadsGiven, NoCall

LEMMA NextTableInv == TableInv /\ [CuckooNext]_cuckooVars => TableInv'
<1> SUFFICES ASSUME TableInv, [CuckooNext]_cuckooVars PROVE PayloadsGiven' /\ NewHeld'
  BY NextCuckooInv DEF TableInv
<1>0. CuckooInv
  BY DEF TableInv
<1>1. ASSUME NEW k \in Keys, NEW p \in Payloads, InsertCall(k, p)
      PROVE  PayloadsGiven' /\ NewHeld'
  <2>1. call'.key = k /\ call'.orig_key = k /\ call'.payload = p /\ UNCHANGED buckets
    BY <1>1 DEF InsertCall
  <2> QED BY <2>1, KeptTableInv
<1>2. ASSUME GiveUp PROVE PayloadsGiven' /\ NewHeld'
  BY <1>2, KeptTableInv DEF GiveUp, Return
<1>3. ASSUME NEW k, Lookup(k) PROVE PayloadsGiven' /\ NewHeld'
  BY <1>3, KeptTableInv DEF Lookup
<1>4. CASE UNCHANGED cuckooVars
  BY <1>4, KeptTableInv DEF cuckooVars
<1>5. CASE Update
  <2>1. call' = NoCall
    BY <1>5 DEF Update, Return
  <2>2. call.payload \in Payloads
    BY <1>0, <1>5, UpdateEffect DEF TableInv, PayloadsGiven
  <2>3. ASSUME NEW b \in Directory, NEW i \in Slots, ~Holds(b, i, Sentinel)'
        PROVE  buckets'[b][i].payload \in Payloads
    BY <1>0, <1>5, <2>2, <2>3, UpdateEffect DEF TableInv, PayloadsGiven, Holds
  <2> QED BY <2>1, <2>3 DEF PayloadsGiven, NewHeld
<1>6. CASE Place
  <2>1. call # NoCall /\ call' = NoCall /\ call.payload \in Payloads
    BY <1>6 DEF Place, InRound, Return, TableInv, PayloadsGiven
  <2>2. PICK b \in Directory, i \in Slots :
          buckets' = [buckets EXCEPT ![b][i] = Entry(call.key, call.payload)]
    BY <1>0, <1>6, PlaceEffect
  <2>3. PayloadsGiven'
    BY <2>1, <2>2, WrittenPayloads
  <2> QED BY <2>1, <2>3 DEF NewHeld
<1>7. CASE Kick
  <2>1. call # NoCall /\ call.payload \in Payloads
    BY <1>7 DEF Kick, InRound, TableInv, PayloadsGiven
  <2>2. PICK b \in Directory, i \in Slots :
          /\ b \in {B1, B2}
          /\ \A c \in {B1, B2}, j \in Slots : ~Holds(c, j, Sentinel)
          /\ buckets' = [buckets EXCEPT ![b][i] = Entry(call.key, call.payload)]
          /\ call' \in Calls /\ Displaced'
          /\ call'.orig_key = call.orig_key
          /\ call'.key = buckets[b][i].key
          /\ call'.payload = buckets[b][i].payload
    BY <1>0, <1>7, KickEffect
  <2>3. call'.payload \in Payloads
    BY <2>2 DEF TableInv, PayloadsGiven
  <2>4. PayloadsGiven'
    BY <2>1, <2>2, <2>3, WrittenPayloads
  <2>5. call'.key = call'.orig_key \/ Stored(call.orig_key)'
    <3>1. CASE call.key = call.orig_key
      <4>1. buckets'[b][i].key = call'.orig_key
        BY <1>0, <2>1, <2>2, <3>1, WriteEffect
      <4> QED BY <4>1 DEF Stored, Holds
    <3>2. CASE call.key # call.orig_key /\ call'.key # call'.orig_key
      <4>1. PICK c \in Directory, j \in Slots : buckets[c][j].key = call.orig_key
        BY <2>1, <3>2 DEF TableInv, NewHeld, Stored, Holds
      <4>2. buckets'[c][j].key = call'.orig_key
        BY <1>0, <2>1, <2>2, <3>2, <4>1, WriteEffect
      <4> QED BY <4>2 DEF Stored, Holds
    <3> QED BY <3>1, <3>2
  <2> QED BY <2>2, <2>4, <2>5 DEF NewHeld
<1>8. CASE Clear
  <2>1. ASSUME NEW b \in Directory, NEW i \in Slots
        PROVE  buckets'[b][i].key = Sentinel
    <3>1. buckets[b][i] \in Slot
      BY <1>0 DEF CuckooInv, CuckooTypeOK
    <3> QED BY <1>8, <3>1 DEF Clear, Cleared, Slot
  <2> QED BY <1>8, <2>1 DEF Clear, PayloadsGiven, NewHeld, Holds
<1> QED BY <1>1, <1>2, <1>3, <1>4, <1>5, <1>6, <1>7, <1>8 DEF CuckooNext, Round

LEMMA InitTableInv == CuckooInit => TableInv
<1> SUFFICES ASSUME CuckooInit PROVE TableInv
  OBVIOUS
<1>1. CuckooInv
  BY InitCuckooInv
<1>2. call = NoCall /\ \A b \in Directory, i \in Slots : Holds(b, i, Sentinel)
  BY DEF CuckooInit, Holds, Entry
<1> QED BY <1>1, <1>2 DEF TableInv, PayloadsGiven, NewHeld

LEMMA AlwaysTableInv == CuckooSpec => []TableInv
BY InitTableInv, NextTableInv, PTL DEF CuckooSpec

-----------------------------------------------------------------------------
(* The refinement: an insert has its effect on the map when it ends, however *)
(* many entries it has kicked out by then; while it carries an entry other   *)
(* than its own, that entry is in the map.                                   *)

\* What the slots and the call say about the abstract map.
MapAgrees ==
  /\ AbstractMap = [k \in Keys |-> AbstractMap[k]]
  /\ Displaced =>
       /\ AbstractMap[call.orig_key] = Absent
       /\ call.key # call.orig_key => AbstractMap[call.key] = call.payload
  /\ \A k \in Keys :
       ~Stored(k) /\ ~(Displaced /\ k = call.key /\ k # call.orig_key) =>
         AbstractMap[k] = Absent
  /\ \A b \in Directory, i \in Slots, k \in Keys :
       Holds(b, i, k) /\ ~(Displaced /\ k = call.orig_key) =>
         AbstractMap[k] = buckets[b][i].payload

LEMMA KeyOfEntry ==
  ASSUME NEW k \in Keys
  PROVE  k # Sentinel
BY CuckooAssumption

LEMMA TableAgrees == TableInv => MapAgrees
<1> SUFFICES ASSUME TableInv PROVE MapAgrees
  OBVIOUS
<1>0. CuckooInv /\ CuckooTypeOK
  BY DEF TableInv, CuckooInv
<1>1. AbstractMap = [k \in Keys |-> AbstractMap[k]]
  BY DEF AbstractMap
<1>2. Displaced =>
        /\ AbstractMap[call.orig_key] = Absent
        /\ call.key # call.orig_key => AbstractMap[call.key] = call.payload
  <2>1. Displaced => call.key \in Keys /\ call.orig_key \in Keys
    BY <1>0, CallFacts DEF Displaced
  <2> QED BY <2>1 DEF AbstractMap
<1>3. \A k \in Keys :
        ~Stored(k) /\ ~(Displaced /\ k = call.key /\ k # call.orig_key) =>
          AbstractMap[k] = Absent
  BY DEF AbstractMap
<1>4. ASSUME NEW b \in Directory, NEW i \in Slots, NEW k \in Keys,
             Holds(b, i, k), ~(Displaced /\ k = call.orig_key)
      PROVE  AbstractMap[k] = buckets[b][i].payload
  <2> DEFINE at == CHOOSE at \in Directory \X Slots : Holds(at[1], at[2], k)
  <2>1. <<b, i>> \in Directory \X Slots /\ Holds(<<b, i>>[1], <<b, i>>[2], k)
    BY <1>4
  <2>2. at \in Directory \X Slots /\ Holds(at[1], at[2], k)
    BY <2>1
  <2>3. PayloadOf(k) = buckets[at[1]][at[2]].payload
    BY DEF PayloadOf
  <2> HIDE DEF at
  <2>4. at[1] \in Directory /\ at[2] \in Slots
    BY <2>2
  <2>5. /\ at[1] = b /\ at[2] = i
        /\ Displaced => call.key # k
    BY <1>0, <1>4, <2>2, <2>4, StoredOnce DEF Holds
  <2>6. Stored(k)
    BY <1>4 DEF Stored
  <2> QED BY <1>4, <2>3, <2>5, <2>6 DEF AbstractMap
<1> QED BY <1>1, <1>2, <1>3, <1>4 DEF MapAgrees

\* A step that stores nothing, with nothing carried before or after it.
LEMMA SameSlotsSameMap ==
  ASSUME UNCHANGED buckets, Displaced' <=> Displaced,
         Displaced => call' = call
  PROVE  UNCHANGED AbstractMap
<1>1. ASSUME NEW k \in Keys
      PROVE  Stored(k)' = Stored(k) /\ PayloadOf(k)' = PayloadOf(k)
  BY DEF Stored, PayloadOf, Holds
<1>2. CASE Displaced
  BY <1>1, <1>2 DEF AbstractMap
<1>3. CASE ~Displaced
  BY <1>1, <1>3 DEF AbstractMap
<1> QED BY <1>2, <1>3

LEMMA InitIsMapInit == CuckooInit => Map!Init
<1> SUFFICES ASSUME CuckooInit PROVE Map!Init
  OBVIOUS
<1>1. MapAgrees
  BY InitTableInv, TableAgrees
<1>2. (\A k \in Keys : ~Stored(k)) /\ ~Displaced
  BY CuckooAssumption DEF CuckooInit, Stored, Holds, Entry, Displaced
<1>3. AbstractMap = [k \in Keys |-> Absent]
  BY <1>1, <1>2 DEF MapAgrees
<1> QED BY <1>3 DEF CuckooInit, Map!Init, Outcome, Map!Outcome

\* An entry of another key than the one written stays, or is the victim.
LEMMA OthersStay ==
  ASSUME CuckooInv, call # NoCall, NEW b \in Directory, NEW i \in Slots,
         buckets' = [buckets EXCEPT ![b][i] = Entry(call.key, call.payload)],
         NEW k \in Keys, k # call.key, k # buckets[b][i].key
  PROVE  /\ Stored(k)' <=> Stored(k)
         /\ \A c \in Directory, j \in Slots :
              Holds(c, j, k) => Holds(c, j, k)' /\ buckets'[c][j] = buckets[c][j]
<1>1. /\ buckets'[b][i].key = call.key
      /\ \A c \in Directory, j \in Slots :
           c # b \/ j # i => buckets'[c][j] = buckets[c][j]
  BY WriteEffect
<1>2. ASSUME NEW c \in Directory, NEW j \in Slots, Holds(c, j, k)
      PROVE  Holds(c, j, k)' /\ buckets'[c][j] = buckets[c][j]
  BY <1>1, <1>2 DEF Holds
<1>3. ASSUME NEW c \in Directory, NEW j \in Slots, Holds(c, j, k)'
      PROVE  Holds(c, j, k)
  BY <1>1, <1>3 DEF Holds
<1> QED BY <1>2, <1>3 DEF Stored

\* A kick changes neither the map nor the answer.
LEMMA KickKeepsMap ==
  ASSUME TableInv, MapAgrees, MapAgrees', Kick
  PROVE  UNCHANGED AbstractMap
<1>0. /\ CuckooInv /\ CuckooTypeOK /\ call # NoCall
      /\ call.key \in Keys /\ call.orig_key \in Keys
  BY CallFacts DEF TableInv, CuckooInv, Kick, InRound
<1>1. \A c \in Directory, j \in Slots : buckets[c][j].key # call.key
  BY <1>0, Nowhere DEF Kick
<1>2. PICK b \in Directory, i \in Slots :
        /\ buckets' = [buckets EXCEPT ![b][i] = Entry(call.key, call.payload)]
        /\ Displaced'
        /\ call'.orig_key = call.orig_key
        /\ call'.key = buckets[b][i].key
        /\ call'.payload = buckets[b][i].payload
  BY <1>0, KickEffect
<1>3. buckets'[b][i].key = call.key /\ buckets'[b][i].payload = call.payload
  BY <1>0, <1>2, WriteEffect
<1>4. ASSUME NEW k \in Keys PROVE AbstractMap'[k] = AbstractMap[k]
  <2>1. CASE k = call.orig_key
    <3>1. AbstractMap'[k] = Absent
      BY <1>2, <2>1 DEF MapAgrees
    <3>2. CASE Displaced
      BY <2>1, <3>1, <3>2 DEF MapAgrees
    <3>3. CASE ~Displaced
      <4>1. k = call.key
        BY <1>0, <2>1, <3>3 DEF TableInv, NewHeld
      <4>2. ~Stored(k)
        BY <1>1, <4>1 DEF Stored, Holds
      <4> QED BY <3>1, <3>3, <4>2 DEF MapAgrees
    <3> QED BY <3>2, <3>3
  <2>2. CASE k = buckets[b][i].key /\ k # call.orig_key
    <3>1. AbstractMap[k] = buckets[b][i].payload
      BY <2>2 DEF MapAgrees, Holds
    <3> QED BY <1>2, <2>2, <3>1 DEF MapAgrees
  <2>3. CASE k = call.key /\ k # call.orig_key
    <3>1. Displaced
      BY <1>0, <2>3 DEF TableInv, NewHeld
    <3>2. Holds(b, i, k)' /\ k # call'.orig_key
      BY <1>2, <1>3, <2>3 DEF Holds
    <3>3. AbstractMap'[k] = call.payload
      BY <1>3, <3>2 DEF MapAgrees
    <3> QED BY <2>3, <3>1, <3>3 DEF MapAgrees
  <2>4. CASE k \notin {call.orig_key, buckets[b][i].key, call.key}
    <3>1. /\ Stored(k)' <=> Stored(k)
          /\ \A c \in Directory, j \in Slots :
               Holds(c, j, k) => Holds(c, j, k)' /\ buckets'[c][j] = buckets[c][j]
      BY <1>0, <1>2, <2>4, OthersStay
    <3>2. CASE Stored(k)
      <4>1. PICK c \in Directory, j \in Slots : Holds(c, j, k)
        BY <3>2 DEF Stored
      <4> QED BY <1>2, <2>4, <3>1, <4>1 DEF MapAgrees
    <3>3. CASE ~Stored(k)
      BY <1>2, <2>4, <3>1, <3>3 DEF MapAgrees
    <3> QED BY <3>2, <3>3
  <2> QED BY <2>1, <2>2, <2>3, <2>4
<1>5. /\ AbstractMap = [k \in Keys |-> AbstractMap[k]]
      /\ AbstractMap' = [k \in Keys |-> AbstractMap'[k]]
  BY DEF MapAgrees
<1> QED BY <1>4, <1>5

\* The end of an insert that has found room: its key is now in the map.
LEMMA PlaceIsMapInsert ==
  ASSUME TableInv, MapAgrees, MapAgrees', Place
  PROVE  \E p \in Payloads : Map!Insert(call.orig_key, p)
<1>0. /\ CuckooInv /\ CuckooTypeOK /\ call # NoCall
      /\ call.key \in Keys /\ call.orig_key \in Keys /\ call.payload \in Payloads
      /\ ~Displaced'
  BY CallFacts
     DEF TableInv, CuckooInv, PayloadsGiven, Place, InRound, Return, Displaced
<1>1. \A c \in Directory, j \in Slots : buckets[c][j].key # call.key
  BY <1>0, Nowhere DEF Place
<1>2. PICK b \in Directory, i \in Slots :
        /\ Holds(b, i, Sentinel)
        /\ buckets' = [buckets EXCEPT ![b][i] = Entry(call.key, call.payload)]
  BY <1>0, PlaceEffect
<1>3. buckets'[b][i].key = call.key /\ buckets'[b][i].payload = call.payload
  BY <1>0, <1>2, WriteEffect
<1>4. \A k \in Keys : k = call.key => AbstractMap'[k] = call.payload
  BY <1>0, <1>3 DEF MapAgrees, Holds
<1>5. ASSUME NEW k \in Keys, k # call.key
      PROVE  /\ Stored(k)' <=> Stored(k)
             /\ \A c \in Directory, j \in Slots :
                  Holds(c, j, k) =>
                    Holds(c, j, k)' /\ buckets'[c][j] = buckets[c][j]
  <2>1. k # buckets[b][i].key
    BY <1>2, KeyOfEntry DEF Holds
  <2> QED BY <1>0, <1>2, <1>5, <2>1, OthersStay
<1>6. ASSUME NEW k \in Keys, k # call.orig_key
      PROVE  AbstractMap'[k] = AbstractMap[k]
  <2>1. CASE k = call.key
    <3>1. Displaced
      BY <1>0, <1>6, <2>1 DEF TableInv, NewHeld
    <3> QED BY <1>4, <1>6, <2>1, <3>1 DEF MapAgrees
  <2>2. CASE k # call.key /\ Stored(k)
    <3>1. PICK c \in Directory, j \in Slots : Holds(c, j, k)
      BY <2>2 DEF Stored
    <3> QED BY <1>0, <1>5, <1>6, <2>2, <3>1 DEF MapAgrees
  <2>3. CASE k # call.key /\ ~Stored(k)
    BY <1>0, <1>5, <1>6, <2>3 DEF MapAgrees
  <2> QED BY <2>1, <2>2, <2>3
<1>7. AbstractMap[call.orig_key] = Absent
  <2>1. CASE Displaced
    BY <2>1 DEF MapAgrees
  <2>2. CASE ~Displaced
    <3>1. call.key = call.orig_key
      BY <1>0, <2>2 DEF TableInv, NewHeld
    <3>2. ~Stored(call.orig_key)
      BY <1>1, <3>1 DEF Stored, Holds
    <3> QED BY <1>0, <2>2, <3>2 DEF MapAgrees
  <2> QED BY <2>1, <2>2
<1>8. AbstractMap'[call.orig_key] \in Payloads
  <2>1. PICK k \in Keys : k = call.orig_key
    BY <1>0
  <2>2. CASE call.key = k
    BY <1>0, <1>4, <2>1, <2>2
  <2>3. CASE call.key # k
    <3>1. PICK c \in Directory, j \in Slots : Holds(c, j, k)
      BY <1>0, <2>1, <2>3 DEF TableInv, NewHeld, Stored
    <3>2. buckets[c][j].payload \in Payloads
      BY <3>1, KeyOfEntry DEF TableInv, PayloadsGiven, Holds
    <3>3. Holds(c, j, k)' /\ buckets'[c][j] = buckets[c][j]
      BY <1>5, <2>3, <3>1
    <3>4. AbstractMap'[k] = buckets'[c][j].payload
      BY <1>0, <3>3 DEF MapAgrees
    <3> QED BY <2>1, <3>2, <3>3, <3>4
  <2> QED BY <2>2, <2>3
<1>9. AbstractMap' =
        [AbstractMap EXCEPT ![call.orig_key] = AbstractMap'[call.orig_key]]
  BY <1>0, <1>6 DEF MapAgrees
<1> QED BY <1>0, <1>7, <1>8, <1>9
        DEF Place, Return, Outcome, Map!Insert, Map!Outcome

\* An insert of a present key replaces its payload.
LEMMA UpdateIsMapInsert ==
  ASSUME TableInv, MapAgrees, MapAgrees', Update
  PROVE  /\ call.orig_key \in Keys /\ call.payload \in Payloads
         /\ Map!Insert(call.orig_key, call.payload)
<1>0. CuckooInv
  BY DEF TableInv
<1>1. PICK b \in Directory, i \in Slots : buckets[b][i].key = call.key
  BY <1>0, UpdateEffect
<1>2. /\ call # NoCall /\ call.key \in Keys /\ ~Displaced /\ ~Displaced'
      /\ call.key = call.orig_key /\ call.payload \in Payloads
  BY <1>0, UpdateEffect
     DEF TableInv, NewHeld, PayloadsGiven, Update, Return, Displaced
<1>3. \A k \in Keys : k = call.key => AbstractMap'[k] = call.payload
  BY <1>0, <1>1, <1>2, UpdateEffect DEF MapAgrees, Holds
<1>4. ASSUME NEW k \in Keys, k # call.key
      PROVE  AbstractMap'[k] = AbstractMap[k]
  <2>1. CASE Stored(k)
    <3>1. PICK c \in Directory, j \in Slots : Holds(c, j, k)
      BY <2>1 DEF Stored
    <3>2. Holds(c, j, k)' /\ buckets'[c][j] = buckets[c][j]
      BY <1>0, <1>4, <3>1, UpdateEffect DEF Holds
    <3> QED BY <1>2, <3>1, <3>2 DEF MapAgrees
  <2>2. CASE ~Stored(k)
    <3>1. ~Stored(k)'
      BY <1>0, <2>2, UpdateEffect DEF Stored, Holds
    <3> QED BY <1>2, <2>2, <3>1 DEF MapAgrees
  <2> QED BY <2>1, <2>2
<1>5. AbstractMap' = [AbstractMap EXCEPT ![call.orig_key] = call.payload]
  BY <1>2, <1>3, <1>4 DEF MapAgrees
<1> QED BY <1>2, <1>5 DEF Update, Return, Outcome, Map!Insert, Map!Outcome

\* An insert that throws has its own entry in the table and has lost the one
\* it carries, or it has lost its own and changed nothing.
LEMMA GiveUpIsMapThrow ==
  ASSUME TableInv, MapAgrees, MapAgrees', GiveUp
  PROVE  /\ call.orig_key \in Keys
         /\ \E p \in Payloads : Map!Throw(call.orig_key, p)
<1>0. /\ CuckooInv /\ CuckooTypeOK /\ call # NoCall
      /\ call.key \in Keys /\ call.orig_key \in Keys /\ call.payload \in Payloads
      /\ ~Displaced' /\ UNCHANGED buckets
      /\ ret' = Outcome("insert", call.orig_key, "thrown")
  BY CallFacts DEF TableInv, CuckooInv, PayloadsGiven, GiveUp, Return, Displaced
<1>1. Displaced
  BY <1>0, CuckooAssumption DEF GiveUp, Displaced, CuckooInv, CuckooTypeOK, Calls
<1>2. AbstractMap[call.orig_key] = Absent
  BY <1>1 DEF MapAgrees
<1>3. ASSUME NEW k \in Keys
      PROVE  /\ Stored(k)' <=> Stored(k)
             /\ \A c \in Directory, j \in Slots : Holds(c, j, k)' <=> Holds(c, j, k)
  BY <1>0 DEF Stored, Holds
<1>4. ASSUME NEW k \in Keys, k # call.key, k # call.orig_key
      PROVE  AbstractMap'[k] = AbstractMap[k]
  <2>1. CASE Stored(k)
    <3>1. PICK c \in Directory, j \in Slots : Holds(c, j, k)
      BY <2>1 DEF Stored
    <3> QED BY <1>0, <1>3, <1>4, <3>1 DEF MapAgrees
  <2>2. CASE ~Stored(k)
    BY <1>0, <1>3, <1>4, <2>2 DEF MapAgrees
  <2> QED BY <2>1, <2>2
<1>5. ASSUME NEW k \in Keys, k = call.key
      PROVE  AbstractMap'[k] = Absent
  <2>1. ~Stored(k)
    BY <1>0, <1>1, <1>5, StoredOnce DEF Stored, Holds
  <2> QED BY <1>0, <1>3, <2>1 DEF MapAgrees
<1>6. CASE call.key = call.orig_key
  <2>1. AbstractMap' = AbstractMap
    BY <1>0, <1>2, <1>4, <1>5, <1>6 DEF MapAgrees
  <2>2. Map!Throw(call.orig_key, call.payload)
    BY <1>0, <1>2, <2>1 DEF Outcome, Map!Throw, Map!Outcome
  <2> QED BY <1>0, <2>2
<1>7. CASE call.key # call.orig_key
  <2>1. PICK k \in Keys, lost \in Keys :
          k = call.orig_key /\ lost = call.key /\ k # lost
    BY <1>0, <1>7
  <2>2. PICK c \in Directory, j \in Slots : Holds(c, j, k)
    BY <1>0, <1>7, <2>1 DEF TableInv, NewHeld, Stored
  <2>3. AbstractMap'[k] \in Payloads
    <3>1. buckets[c][j].payload \in Payloads
      BY <2>2, KeyOfEntry DEF TableInv, PayloadsGiven, Holds
    <3> QED BY <1>0, <1>3, <2>2, <3>1 DEF MapAgrees
  <2>4. AbstractMap[lost] # Absent
    BY <1>0, <1>1, <1>7, <2>1, CuckooAssumption DEF MapAgrees
  <2>5. AbstractMap' = [AbstractMap EXCEPT ![k] = AbstractMap'[k], ![lost] = Absent]
    BY <1>4, <1>5, <2>1 DEF MapAgrees
  <2>6. Map!Throw(k, AbstractMap'[k])
    BY <1>0, <1>2, <2>1, <2>4, <2>5 DEF Outcome, Map!Throw, Map!Outcome
  <2> QED BY <1>0, <2>1, <2>3, <2>6
<1> QED BY <1>6, <1>7

\* A lookup between two inserts answers what the map holds.
LEMMA LookupIsMapLookup ==
  ASSUME TableInv, MapAgrees, NEW k \in Keys, Lookup(k)
  PROVE  Map!Lookup(k)
<1>0. /\ CuckooInv /\ CuckooTypeOK /\ ~Displaced
      /\ UNCHANGED <<buckets, call>>
      /\ ret' = Outcome("lookup", k, LookupResult(k))
  BY DEF TableInv, CuckooInv, Lookup, Displaced
<1>1. Primary(k) \in Directory /\ Secondary(k) \in Directory
  BY <1>0, HomeBuckets
<1>2. LookupResult(k) = AbstractMap[k]
  <2>1. CASE ~Stored(k)
    <3>1. SlotsWith(Primary(k), k) = {} /\ SlotsWith(Secondary(k), k) = {}
      BY <1>1, <2>1 DEF SlotsWith, Stored
    <3>2. AbstractMap[k] = Absent
      BY <1>0, <2>1 DEF MapAgrees
    <3> QED BY <3>1, <3>2 DEF LookupResult
  <2>2. CASE Stored(k)
    <3>1. PICK b \in Directory, i \in Slots : buckets[b][i].key = k
      BY <2>2 DEF Stored, Holds
    <3>2. /\ b \in {Primary(k), Secondary(k)}
          /\ \A c \in Directory, j \in Slots : buckets[c][j].key = k => c = b /\ j = i
      BY <1>0, <3>1, StoredOnce
    <3>3. \A c \in Directory : SlotsWith(c, k) = IF c = b THEN {i} ELSE {}
      BY <3>1, <3>2 DEF SlotsWith, Holds
    <3>4. FirstOf({i}) = i
      <4>1. i <= i
        BY CuckooAssumption DEF Slots
      <4> QED BY <4>1 DEF FirstOf
    <3>5. LookupResult(k) = buckets[b][i].payload
      BY <1>1, <3>2, <3>3, <3>4 DEF LookupResult
    <3>6. AbstractMap[k] = buckets[b][i].payload
      BY <1>0, <3>1 DEF MapAgrees, Holds
    <3> QED BY <3>5, <3>6
  <2> QED BY <2>1, <2>2
<1>3. UNCHANGED AbstractMap
  BY <1>0, SameSlotsSameMap DEF Displaced
<1> QED BY <1>0, <1>2, <1>3 DEF Outcome, Map!Lookup, Map!Outcome

\* Every step of the table is a step of the map or leaves it as it is.
LEMMA StepIsMapStep ==
  ASSUME TableInv, MapAgrees, MapAgrees', [CuckooNext]_cuckooVars
  PROVE  [Map!Next]_(Map!mapVars)
<1>1. ASSUME UNCHANGED <<AbstractMap, ret>> PROVE UNCHANGED Map!mapVars
  BY <1>1 DEF Map!mapVars
<1>2. ASSUME NEW k, NEW p, InsertCall(k, p) PROVE UNCHANGED Map!mapVars
  <2>1. ~Displaced /\ ~Displaced' /\ UNCHANGED <<buckets, ret>>
    BY <1>2 DEF InsertCall, Displaced
  <2> QED BY <1>1, <2>1, SameSlotsSameMap
<1>3. CASE UNCHANGED cuckooVars
  BY <1>1, <1>3, SameSlotsSameMap DEF cuckooVars, Displaced
<1>4. CASE Kick
  BY <1>1, <1>4, KickKeepsMap DEF Kick
<1>5. CASE Place
  <2>1. call.orig_key \in Keys
    BY <1>5, CallFacts DEF TableInv, CuckooInv, Place, InRound
  <2> QED BY <1>5, <2>1, PlaceIsMapInsert DEF Map!Next
<1>6. CASE Update
  BY <1>6, UpdateIsMapInsert DEF Map!Next
<1>7. CASE GiveUp
  BY <1>7, GiveUpIsMapThrow DEF Map!Next
<1>8. ASSUME NEW k \in Keys, Lookup(k) PROVE Map!Next
  BY <1>8, LookupIsMapLookup DEF Map!Next
<1>9. CASE Clear
  <2>1. ASSUME NEW b \in Directory, NEW i \in Slots
        PROVE  buckets'[b][i].key = Sentinel
    <3>1. buckets[b][i] \in Slot
      BY DEF TableInv, CuckooInv, CuckooTypeOK
    <3> QED BY <1>9, <3>1 DEF Clear, Cleared, Slot
  <2>2. (\A k \in Keys : ~Stored(k)') /\ ~Displaced'
    BY <1>9, <2>1, KeyOfEntry DEF Clear, Stored, Holds, Displaced
  <2>3. AbstractMap' = [k \in Keys |-> Absent]
    BY <2>2 DEF MapAgrees
  <2> QED BY <1>9, <2>3 DEF Clear, Outcome, Map!Next, Map!Clear, Map!Outcome
<1> QED BY <1>2, <1>3, <1>4, <1>5, <1>6, <1>7, <1>8, <1>9 DEF CuckooNext, Round

\* The cuckoo table is a map and each call one operation on it (cuckoo.hpp,
\* insert and lookup), whichever entries the kicks move in between; an insert
\* that throws has at most exchanged one entry for its own.
THEOREM Refinement == CuckooSpec => ImplementsMap
<1>1. TableInv => MapAgrees
  BY TableAgrees
<1>2. TableInv /\ MapAgrees /\ MapAgrees' /\ [CuckooNext]_cuckooVars
        => [Map!Next]_(Map!mapVars)
  BY StepIsMapStep
<1> QED BY <1>1, <1>2, InitIsMapInit, AlwaysTableInv, PTL
        DEF CuckooSpec, ImplementsMap, Map!Spec
=============================================================================
