------------------------ MODULE HashJoinTuples_proofs ------------------------
(***************************************************************************)
(* What becomes of the tuples in the hash join, for any number of lanes,   *)
(* states, threads, tuples, buckets and repetitions: a build with latches, *)
(* or with vectors by one thread, leaves each of them in one slot, and a   *)
(* probe counts those of its part that are in the table.                   *)
(***************************************************************************)
EXTENDS HashJoin_proofs

-----------------------------------------------------------------------------
(* No tuple is lost.  What a bucket and those behind it store. *)
Stores(h, x) ==
  \/ \E j \in SlotNums : h.tuples[j] = x
  \/ \E c \in CellsIn(h.chain), j \in SlotNums : c.tuples[j] = x
InTable(x) == \E b \in Heads : Stores(heads[b], x)

\* Bucket q stores what h does, and tuple x.
Adds(h, q, x) == \A y : y # NoTuple /\ (Stores(h, y) \/ y = x) => Stores(q, y)

LEMMA PutAdds ==
  ASSUME heads \in [Heads -> Buckets], setup' = setup, NEW b \in Heads, NEW q, HeadsPut(b, q),
         NEW x, Adds(heads[b], q, x)
  PROVE  \A y : y # NoTuple /\ (InTable(y) \/ y = x) => InTable(y)'
<1> SUFFICES ASSUME NEW y, y # NoTuple, InTable(y) \/ y = x PROVE InTable(y)'
  OBVIOUS
<1>1. SlotNums' = SlotNums /\ heads'[b] = q /\ \A e \in Heads \ {b} : heads'[e] = heads[e]
  BY DEF SlotNums, HeadsPut
<1>2. \A e \in Heads : Stores(heads'[e], y) => InTable(y)'
  BY <1>1 DEF InTable, Stores, CellsIn
<1>3. \E e \in Heads : Stores(heads'[e], y)
  BY <1>1 DEF InTable, Adds
<1> QED BY <1>2, <1>3

\* The table stays as it is.
LEMMA SameTable ==
  ASSUME UNCHANGED <<setup, heads>>
  PROVE  \A y : InTable(y) <=> InTable(y)'
BY DEF InTable, Stores, CellsIn, SlotNums

\* The tuple-at-a-time functions fill a bucket, and the first one behind it,
\* from the first slot on; a slot claimed and not stored to yet is empty.
FreeAbove(h) ==
  h.count <= setup.bucketSize /\ \A j \in SlotNums : j > h.count => h.tuples[j] = NoTuple
Unfilled(h) == FreeAbove(h) /\ (h.chain # << >> => FreeAbove(h.chain[1]))
Taken(h, slot) == slot <= h.count /\ h.tuples[slot] = NoTuple
Takes(h, over, slot) ==
  /\ slot \in SlotNums
  /\ over => h.chain # << >> /\ Taken(h.chain[1], slot)
  /\ ~over => Taken(h, slot)

\* A function changed in one place.
Put(f, i, x) == [f EXCEPT ![i] = x]
\* What is stored in c, and what is kept of d in it.
HasTuple(c, x) == \E j \in SlotNums : c.tuples[j] = x
KeepsTuples(c, d) == \A j \in SlotNums : d.tuples[j] # NoTuple => c.tuples[j] = d.tuples[j]

\* What a slot or a count more does to a bucket, of the table or behind one.
LEMMA CountMore ==
  ASSUME setup \in Setups, NEW h, h.count \in Nat, FreeAbove(h), h.count # setup.bucketSize,
         NEW q, q.count = h.count + 1, q.tuples = h.tuples
  PROVE  FreeAbove(q) /\ h.count + 1 \in SlotNums /\ Taken(q, h.count + 1)
<1>1. setup.bucketSize \in Nat \ {0}
  BY SetupsAssumption
<1> QED BY <1>1 DEF FreeAbove, Taken, SlotNums

LEMMA SlotStored ==
  ASSUME NEW h, h.tuples \in [SlotNums -> Nat], h.count \in Nat, FreeAbove(h),
         NEW slot \in SlotNums, Taken(h, slot),
         NEW x, NEW q, q.count = h.count, q.tuples = Put(h.tuples, slot, x)
  PROVE  FreeAbove(q) /\ HasTuple(q, x) /\ KeepsTuples(q, h)
<1>1. \A j \in SlotNums : j > h.count => j # slot
  BY DEF Taken, SlotNums
<1> QED BY <1>1 DEF FreeAbove, Taken, SlotNums, Put, HasTuple, KeepsTuples

\* A bucket whose tuples and overflow buckets stay, or get one more in front.
LEMMA SameAdds ==
  ASSUME NEW h, NEW q, q.tuples = h.tuples, CellsIn(h.chain) \subseteq CellsIn(q.chain)
  PROVE  Adds(h, q, NoTuple)
BY DEF Adds, Stores

\* The first overflow bucket replaced by one that stores what it did.
LEMMA FirstAdds ==
  ASSUME NEW h, NEW q, q.tuples = h.tuples, h.chain \in Chains, h.chain # << >>, NEW c,
         q.chain = Put(h.chain, 1, c), NEW x,
         KeepsTuples(c, h.chain[1]), x # NoTuple => HasTuple(c, x)
  PROVE  Adds(h, q, x) /\ q.chain # << >> /\ q.chain[1] = c
<1>1. 1 \in DOMAIN h.chain
  BY DEF Chains
<1>2. DOMAIN q.chain = DOMAIN h.chain /\ q.chain[1] = c
      /\ \A j \in DOMAIN h.chain : j # 1 => q.chain[j] = h.chain[j]
  BY <1>1 DEF Put
<1>3. c \in CellsIn(q.chain) /\ q.chain # << >>
  BY <1>1, <1>2 DEF CellsIn
<1>4. \A d \in CellsIn(h.chain) : d \in CellsIn(q.chain) \/ d = h.chain[1]
  BY <1>2 DEF CellsIn
<1>5. ASSUME NEW y, y # NoTuple, Stores(h, y) \/ y = x PROVE Stores(q, y)
  <2>1. CASE y = x
    BY <1>3, <1>5, <2>1 DEF Stores, HasTuple
  <2>2. CASE \E j \in SlotNums : h.tuples[j] = y
    BY <2>2 DEF Stores
  <2>3. CASE \E d \in CellsIn(h.chain), j \in SlotNums : d.tuples[j] = y
    <3>1. PICK d, j : d \in CellsIn(h.chain) /\ j \in SlotNums /\ d.tuples[j] = y
      BY <2>3
    <3>2. CASE d \in CellsIn(q.chain)
      BY <3>1, <3>2 DEF Stores
    <3>3. CASE d = h.chain[1]
      <4>1. c.tuples[j] = y
        BY <1>5, <3>1, <3>3 DEF KeepsTuples
      <4> QED BY <1>3, <3>1, <4>1 DEF Stores
    <3> QED BY <1>4, <3>1, <3>2, <3>3
  <2> QED BY <1>5, <2>1, <2>2, <2>3 DEF Stores
<1> QED BY <1>2, <1>3, <1>5 DEF Adds

ClaimsSlot(t, over, slot) ==
  scalar' = [scalar EXCEPT ![t].step = "store", ![t].over = over, ![t].slot = slot]

\* A slot is claimed: nothing stored goes, and the slot claimed is empty.
LEMMA ClaimPuts ==
  ASSUME LinkInv, NEW t \in Threads, Claim(t), NEW b \in Heads, b = Bucket(t), Unfilled(heads[b])
  PROVE  \E q, over, slot :
           /\ HeadsPut(b, q) /\ Adds(heads[b], q, NoTuple) /\ Unfilled(q) /\ Takes(q, over, slot)
           /\ ClaimsSlot(t, over, slot)
<1>0. TableTyped /\ setup \in Setups
  BY DEF LinkInv, ControlOK
<1>1. PICK h : h = heads[b]
  OBVIOUS
<1>2. h \in Buckets /\ h.count \in Nat /\ h.chain \in Chains /\ Unfilled(h)
  BY <1>0, <1>1, BucketTyped DEF TableTyped
<1>3. PICK n : n = NewestBucket(t, GetNewBucket(bufs[t]), 1, NoTuple)
  OBVIOUS
<1>4. PICK sc : sc = scalar'
  OBVIOUS
<1>5. \/ /\ h.count # setup.bucketSize /\ HeadsPut(b, [h EXCEPT !.count = h.count + 1])
         /\ sc = [scalar EXCEPT ![t].step = "store", ![t].over = FALSE, ![t].slot = h.count + 1]
      \/ /\ h.chain # << >> /\ h.chain[1].count # setup.bucketSize
         /\ HeadsPut(b, [h EXCEPT !.chain = [h.chain EXCEPT ![1] =
                               [h.chain[1] EXCEPT !.count = h.chain[1].count + 1]]])
         /\ sc = [scalar EXCEPT ![t].step = "store", ![t].over = TRUE,
                                ![t].slot = h.chain[1].count + 1]
      \/ /\ HeadsPut(b, [h EXCEPT !.chain = <<n>> \o h.chain])
         /\ sc = [scalar EXCEPT ![t].step = "store", ![t].over = TRUE, ![t].slot = 1]
  BY <1>1, <1>3, <1>4 DEF Claim, HeadsPut, Full
<1>6. CASE /\ h.count # setup.bucketSize /\ HeadsPut(b, [h EXCEPT !.count = h.count + 1])
           /\ sc = [scalar EXCEPT ![t].step = "store", ![t].over = FALSE, ![t].slot = h.count + 1]
  <2>1. PICK q, slot : q = [h EXCEPT !.count = h.count + 1] /\ slot = h.count + 1
    OBVIOUS
  <2>2. q.count = h.count + 1 /\ q.tuples = h.tuples /\ q.chain = h.chain
    BY <1>2, <2>1 DEF Buckets
  <2>3. FreeAbove(q) /\ slot \in SlotNums /\ Taken(q, slot)
    BY <1>0, <1>2, <1>6, <2>1, <2>2, CountMore DEF Unfilled
  <2>4. Unfilled(q) /\ Takes(q, FALSE, slot)
    BY <1>2, <2>2, <2>3 DEF Unfilled, Takes
  <2>5. Adds(h, q, NoTuple)
    BY <2>2, SameAdds
  <2>6. ClaimsSlot(t, FALSE, slot)
    BY <1>4, <1>6, <2>1 DEF ClaimsSlot
  <2> QED BY <1>1, <1>6, <2>1, <2>4, <2>5, <2>6
<1>7. CASE /\ h.chain # << >> /\ h.chain[1].count # setup.bucketSize
           /\ HeadsPut(b, [h EXCEPT !.chain = [h.chain EXCEPT ![1] =
                               [h.chain[1] EXCEPT !.count = h.chain[1].count + 1]]])
           /\ sc = [scalar EXCEPT ![t].step = "store", ![t].over = TRUE,
                                  ![t].slot = h.chain[1].count + 1]
  <2>1. PICK d \in Cells : d = h.chain[1]
    BY <1>2, <1>7, ChainFirst
  <2>2. PICK c, slot : c = [d EXCEPT !.count = d.count + 1] /\ slot = d.count + 1
    OBVIOUS
  <2>3. d.count \in Nat /\ c.tuples = d.tuples /\ c.count = d.count + 1
    BY <2>1, <2>2 DEF Cells
  <2>4. FreeAbove(c) /\ slot \in SlotNums /\ Taken(c, slot)
    BY <1>0, <1>2, <1>7, <2>1, <2>2, <2>3, CountMore DEF Unfilled
  <2>5. PICK q : q = [h EXCEPT !.chain = [h.chain EXCEPT ![1] = c]]
    OBVIOUS
  <2>6. q.chain = Put(h.chain, 1, c) /\ q.tuples = h.tuples /\ q.count = h.count
    BY <1>2, <2>5 DEF Buckets, Put
  <2>7. Adds(h, q, NoTuple) /\ q.chain # << >> /\ q.chain[1] = c
    <3>1. KeepsTuples(c, h.chain[1])
      BY <2>1, <2>3 DEF KeepsTuples
    <3> QED BY ZenonT(30), <1>2, <1>7, <2>6, <3>1, FirstAdds
  <2>8. Unfilled(q) /\ Takes(q, TRUE, slot)
    BY <1>2, <2>4, <2>6, <2>7 DEF Unfilled, Takes, FreeAbove
  <2>9. HeadsPut(b, q)
    BY <1>7, <2>1, <2>2, <2>5
  <2>10. ClaimsSlot(t, TRUE, slot)
    BY <1>4, <1>7, <2>1, <2>2 DEF ClaimsSlot
  <2> QED BY <1>1, <2>7, <2>8, <2>9, <2>10
<1>8. CASE /\ HeadsPut(b, [h EXCEPT !.chain = <<n>> \o h.chain])
           /\ sc = [scalar EXCEPT ![t].step = "store", ![t].over = TRUE, ![t].slot = 1]
  <2>1. PICK q : q = [h EXCEPT !.chain = <<n>> \o h.chain]
    OBVIOUS
  <2>2. q.chain = <<n>> \o h.chain /\ q.tuples = h.tuples /\ q.count = h.count
    BY <1>2, <2>1 DEF Buckets
  <2>3. n \in Cells
    BY <1>0, <1>3, NewBufferTyped, NewestTyped, BoundsAssumption DEF TableTyped
  <2>4. q.chain # << >> /\ q.chain[1] = n
    BY <1>2, <2>2, <2>3 DEF Chains
  <2>5. CellsIn(h.chain) \subseteq CellsIn(q.chain)
    BY <1>2, <2>2, <2>3, CellsOfCons
  <2>6. n.count = 1 /\ \A j \in SlotNums : n.tuples[j] = NoTuple
    BY <1>3 DEF NewestBucket, SlotNums
  <2>7. setup.bucketSize \in Nat \ {0}
    BY <1>0, SetupsAssumption
  <2>8. FreeAbove(n) /\ 1 \in SlotNums /\ Taken(n, 1)
    BY <2>6, <2>7 DEF FreeAbove, Taken, SlotNums
  <2>9. Unfilled(q) /\ Takes(q, TRUE, 1)
    BY <1>2, <2>2, <2>4, <2>8 DEF Unfilled, Takes, FreeAbove
  <2>10. Adds(h, q, NoTuple)
    BY <2>2, <2>5, SameAdds
  <2>11. ClaimsSlot(t, TRUE, 1)
    BY <1>4, <1>8 DEF ClaimsSlot
  <2> QED BY <1>1, <1>8, <2>1, <2>9, <2>10, <2>11
<1> QED BY <1>5, <1>6, <1>7, <1>8

\* The tuple is written to the slot claimed, which held none.
LEMMA StorePuts ==
  ASSUME LinkInv, NEW t \in Threads, Store(t), NEW b \in Heads, b = Bucket(t), Unfilled(heads[b]),
         Takes(heads[b], scalar[t].over, scalar[t].slot)
  PROVE  \E q : HeadsPut(b, q) /\ Adds(heads[b], q, Tuple(t)) /\ Unfilled(q)
<1>0. TableTyped
  BY DEF LinkInv
<1>1. PICK h, x : h = heads[b] /\ x = Tuple(t)
  OBVIOUS
<1>2. PICK over, slot : over = scalar[t].over /\ slot = scalar[t].slot
  OBVIOUS
<1>3. /\ h \in Buckets /\ h.count \in Nat /\ h.chain \in Chains /\ Unfilled(h)
      /\ h.tuples \in [SlotNums -> Nat] /\ Takes(h, over, slot)
  BY <1>0, <1>1, <1>2, BucketTyped DEF TableTyped, SlotNums
<1>4. \/ ~over /\ HeadsPut(b, [h EXCEPT !.tuples = [h.tuples EXCEPT ![slot] = x]])
      \/ /\ over
         /\ HeadsPut(b, [h EXCEPT !.chain = [h.chain EXCEPT ![1] =
                        [h.chain[1] EXCEPT !.tuples = [h.chain[1].tuples EXCEPT ![slot] = x]]]])
  BY <1>1, <1>2 DEF Store, HeadsPut
<1>5. CASE ~over /\ HeadsPut(b, [h EXCEPT !.tuples = [h.tuples EXCEPT ![slot] = x]])
  <2>1. PICK q : q = [h EXCEPT !.tuples = [h.tuples EXCEPT ![slot] = x]]
    OBVIOUS
  <2>2. q.chain = h.chain /\ q.tuples = Put(h.tuples, slot, x) /\ q.count = h.count
    BY <1>3, <2>1 DEF Buckets, Put
  <2>3. FreeAbove(q) /\ HasTuple(q, x) /\ KeepsTuples(q, h)
    <3>1. slot \in SlotNums /\ Taken(h, slot) /\ FreeAbove(h)
      BY <1>3, <1>5 DEF Unfilled, Takes
    <3> QED BY <1>3, <2>2, <3>1, SlotStored
  <2>4. Unfilled(q)
    BY <1>3, <2>2, <2>3 DEF Unfilled
  <2>5. Adds(h, q, x)
    BY <2>2, <2>3 DEF Adds, Stores, HasTuple, KeepsTuples
  <2> QED BY <1>1, <1>5, <2>1, <2>4, <2>5
<1>6. CASE /\ over
           /\ HeadsPut(b, [h EXCEPT !.chain = [h.chain EXCEPT ![1] =
                        [h.chain[1] EXCEPT !.tuples = [h.chain[1].tuples EXCEPT ![slot] = x]]]])
  <2>1. h.chain # << >> /\ slot \in SlotNums /\ Taken(h.chain[1], slot) /\ FreeAbove(h.chain[1])
    BY <1>3, <1>6 DEF Takes, Unfilled
  <2>2. PICK d \in Cells : d = h.chain[1]
    BY <1>3, <2>1, ChainFirst
  <2>3. PICK c : c = [d EXCEPT !.tuples = [d.tuples EXCEPT ![slot] = x]]
    OBVIOUS
  <2>4. d.tuples \in [SlotNums -> Nat] /\ d.count \in Nat /\ c.count = d.count
        /\ c.tuples = Put(d.tuples, slot, x)
    BY <2>2, <2>3 DEF Cells, SlotNums, Put
  <2>5. FreeAbove(c) /\ HasTuple(c, x) /\ KeepsTuples(c, d)
    BY <2>1, <2>2, <2>4, SlotStored
  <2>6. PICK q : q = [h EXCEPT !.chain = [h.chain EXCEPT ![1] = c]]
    OBVIOUS
  <2>7. q.chain = Put(h.chain, 1, c) /\ q.tuples = h.tuples /\ q.count = h.count
    BY <1>3, <2>6 DEF Buckets, Put
  <2>8. Adds(h, q, x) /\ q.chain # << >> /\ q.chain[1] = c
    BY <1>3, <2>1, <2>2, <2>5, <2>7, FirstAdds
  <2>9. Unfilled(q)
    BY <1>3, <2>5, <2>7, <2>8 DEF Unfilled, FreeAbove
  <2> QED BY <1>1, <1>6, <2>2, <2>3, <2>6, <2>8, <2>9
<1> QED BY <1>4, <1>5, <1>6

Claimed(t) ==
  scalar[t].step = "store" =>
    scalar[t].i < NumTuples(t) /\ Takes(heads[Bucket(t)], scalar[t].over, scalar[t].slot)
SlotsOK == (\A b \in Heads : Unfilled(heads[b])) /\ \A t \in Threads : Claimed(t)

LEMMA SameSlots ==
  ASSUME setup' = setup
  PROVE  \A h, over, slot :
           (Unfilled(h)' <=> Unfilled(h)) /\ (Takes(h, over, slot)' <=> Takes(h, over, slot))
BY DEF Unfilled, Takes, Taken, FreeAbove, SlotNums

LEMMA SameClaimed ==
  ASSUME setup' = setup, NEW u, scalar'[u] = scalar[u], Claimed(u),
         scalar[u].step = "store" => heads'[Bucket(u)] = heads[Bucket(u)]
  PROVE  Claimed(u)'
<1>1. Bucket(u)' = Bucket(u) /\ NumTuples(u)' = NumTuples(u)
  BY SameSetup, SameSetupTypes
<1>2. PICK h, over, slot : h = heads[Bucket(u)] /\ over = scalar[u].over /\ slot = scalar[u].slot
  OBVIOUS
<1>3. Takes(h, over, slot)' <=> Takes(h, over, slot)
  BY SameSlots
<1> QED BY <1>1, <1>2, <1>3 DEF Claimed, Takes, Taken

\* Two threads past the latch are at two buckets.
LEMMA OtherBucket ==
  ASSUME LatchInv, NEW t \in Threads, NEW u \in Threads, u # t, scalar[t].step # "lock",
         scalar[u].step = "store", Claimed(u)
  PROVE  Bucket(u) \in Heads /\ Bucket(u) # Bucket(t)
<1>1. scalar[u].i < NumTuples(u)
  BY DEF Claimed
<1>2. latch[Bucket(t)] = t /\ latch[Bucket(u)] = u
  BY DEF LatchInv, Latched
<1> QED BY <1>1, <1>2, TupleInPart DEF LatchInv

LEMMA PutUnfilled ==
  ASSUME heads \in [Heads -> Buckets], setup' = setup, NEW b \in Heads, NEW q, HeadsPut(b, q),
         Unfilled(q), \A e \in Heads : Unfilled(heads[e])
  PROVE  \A e \in Heads : Unfilled(heads[e])'
<1> SUFFICES ASSUME NEW e \in Heads PROVE Unfilled(heads[e])'
  OBVIOUS
<1>1. PICK h : h = heads'[e]
  OBVIOUS
<1>2. Unfilled(h)
  BY <1>1 DEF HeadsPut
<1>3. Unfilled(h)'
  BY <1>2, SameSlots
<1> QED BY <1>1, <1>3 DEF Unfilled, FreeAbove

\* A step of a tuple-at-a-time build keeps what is in the table, and adds the
\* tuple it stores.
LEMMA LockingFills ==
  ASSUME LinkInv, LatchInv, SlotsOK, NEW t \in Threads, Locking(t), phase[t].pc = "build"
  PROVE  /\ SlotsOK'
         /\ \A y \in Tuples : InTable(y) \/ (Store(t) /\ y = Tuple(t)) => InTable(y)'
<1>0. /\ heads \in [Heads -> Buckets] /\ setup \in Setups /\ ControlOK /\ ScalarOK
      /\ UNCHANGED <<setup, phase>> /\ Threads' = Threads
  BY SameSetup DEF LinkInv, TableTyped, ControlOK, Locking, Lock, Claim, Store, Unlock, ProbeTuple,
         Inside
<1>1. \A u \in Threads \ {t} : scalar'[u] = scalar[u]
  BY <1>0 DEF Locking, Lock, Claim, Store, Unlock, ProbeTuple, ScalarOK
<1>2. \A y \in Tuples : y # NoTuple
  BY BoundsAssumption DEF Tuples
<1>3. CASE Lock(t) \/ Unlock(t)
  <2>1. heads' = heads /\ ~Store(t)
    BY <1>3 DEF Lock, Unlock, Store, AtStep
  <2>2. scalar'[t].step # "store"
    <3>1. CASE Lock(t)
      <4>1. scalar' = [scalar EXCEPT ![t].step = "claim"]
        BY <3>1 DEF Lock
      <4>2. scalar'[t].step = "claim"
        BY <1>0, <4>1 DEF ScalarOK
      <4> QED BY <4>2
    <3>2. CASE Unlock(t)
      <4>1. scalar' = [scalar EXCEPT ![t] = [ScalarStart EXCEPT !.i = scalar[t].i + 1]]
        BY <3>2 DEF Unlock
      <4>2. scalar'[t].step = "lock"
        BY <1>0, <4>1 DEF ScalarOK, ScalarStart
      <4> QED BY <4>2
    <3> QED BY <1>3, <3>1, <3>2
  <2>3. \A u \in Threads : Claimed(u)'
    <3>1. Claimed(t)'
      BY <2>2 DEF Claimed
    <3>2. ASSUME NEW u \in Threads, u # t PROVE Claimed(u)'
      BY <1>0, <1>1, <2>1, <3>2, SameClaimed DEF SlotsOK
    <3> QED BY <3>1, <3>2
  <2>4. \A e \in Heads : Unfilled(heads[e])'
    <3>1. \A e \in Heads : Unfilled(heads[e])
      BY DEF SlotsOK
    <3> QED BY <1>0, <2>1, <3>1 DEF Unfilled, FreeAbove, SlotNums
  <2> QED BY <1>0, <2>1, <2>3, <2>4, SameTable DEF SlotsOK
<1>4. CASE Claim(t)
  <2>1. PICK b \in Heads : b = Bucket(t)
    BY <1>0, <1>4, TupleInPart DEF Claim, AtStep
  <2>2. PICK q, over, slot :
           /\ HeadsPut(b, q) /\ Adds(heads[b], q, NoTuple) /\ Unfilled(q) /\ Takes(q, over, slot)
           /\ ClaimsSlot(t, over, slot)
    BY <1>4, <2>1, ClaimPuts DEF SlotsOK
  <2>3. scalar[t].step = "claim" /\ scalar[t].i < NumTuples(t) /\ ~Store(t)
    BY <1>4 DEF Claim, AtStep, Store
  <2>4. \A e \in Heads : Unfilled(heads[e])'
    BY <1>0, <2>1, <2>2, PutUnfilled DEF SlotsOK
  <2>5. Claimed(t)'
    <3>1. /\ scalar'[t].i = scalar[t].i /\ scalar'[t].over = over /\ scalar'[t].slot = slot
      <4>1. scalar[t] = [i |-> scalar[t].i, step |-> scalar[t].step,
                         over |-> scalar[t].over, slot |-> scalar[t].slot]
        BY <1>0 DEF ScalarOK
      <4>2. scalar' = [scalar EXCEPT ![t].step = "store", ![t].over = over, ![t].slot = slot]
        BY <2>2 DEF ClaimsSlot
      <4> QED BY <1>0, <4>1, <4>2 DEF ScalarOK
    <3>2. Bucket(t)' = b /\ NumTuples(t)' = NumTuples(t) /\ heads'[b] = q
      BY <1>0, <2>1, <2>2, <3>1, SameSetup, SameSetupTypes DEF HeadsPut
    <3>3. Takes(q, over, slot)'
      BY <1>0, <2>2, SameSlots
    <3> QED BY <2>3, <3>1, <3>2, <3>3 DEF Claimed, Takes, Taken
  <2>6. ASSUME NEW u \in Threads, u # t PROVE Claimed(u)'
    <3>1. scalar[u].step = "store" => heads'[Bucket(u)] = heads[Bucket(u)]
      <4>1. scalar[u].step = "store" => Bucket(u) \in Heads /\ Bucket(u) # b
        BY <2>1, <2>3, <2>6, OtherBucket DEF SlotsOK
      <4> QED BY <1>0, <2>2, <4>1 DEF HeadsPut
    <3> QED BY <1>0, <1>1, <2>6, <3>1, SameClaimed DEF SlotsOK
  <2>7. \A y : y # NoTuple /\ (InTable(y) \/ y = NoTuple) => InTable(y)'
    BY <1>0, <2>1, <2>2, PutAdds
  <2> QED BY <1>0, <1>2, <2>3, <2>4, <2>5, <2>6, <2>7 DEF SlotsOK
<1>5. CASE Store(t)
  <2>1. PICK b \in Heads : b = Bucket(t)
    BY <1>0, <1>5, TupleInPart DEF Store, AtStep
  <2>2. scalar[t].step = "store" /\ scalar' = [scalar EXCEPT ![t].step = "unlock"]
    BY <1>5 DEF Store, AtStep
  <2>3. Takes(heads[b], scalar[t].over, scalar[t].slot)
    BY <2>1, <2>2 DEF SlotsOK, Claimed
  <2>4. PICK q : HeadsPut(b, q) /\ Adds(heads[b], q, Tuple(t)) /\ Unfilled(q)
    BY <1>5, <2>1, <2>3, StorePuts DEF SlotsOK
  <2>5. \A e \in Heads : Unfilled(heads[e])'
    BY <1>0, <2>1, <2>4, PutUnfilled DEF SlotsOK
  <2>6. Claimed(t)'
    <3>1. scalar'[t].step = "unlock"
      BY <1>0, <2>2 DEF ScalarOK
    <3> QED BY <3>1 DEF Claimed
  <2>7. ASSUME NEW u \in Threads, u # t PROVE Claimed(u)'
    <3>1. scalar[u].step = "store" => heads'[Bucket(u)] = heads[Bucket(u)]
      <4>1. scalar[u].step = "store" => Bucket(u) \in Heads /\ Bucket(u) # b
        BY <2>1, <2>2, <2>7, OtherBucket DEF SlotsOK
      <4> QED BY <1>0, <2>4, <4>1 DEF HeadsPut
    <3> QED BY <1>0, <1>1, <2>7, <3>1, SameClaimed DEF SlotsOK
  <2>8. \A y : y # NoTuple /\ (InTable(y) \/ y = Tuple(t)) => InTable(y)'
    BY <1>0, <2>1, <2>4, PutAdds
  <2> QED BY <1>0, <1>2, <2>5, <2>6, <2>7, <2>8 DEF SlotsOK
<1>6. ~ProbeTuple(t)
  BY DEF ProbeTuple, Working
<1> QED BY <1>3, <1>4, <1>5, <1>6 DEF Locking

\* A tuple waits until it is stored.
LEMMA LockingWaitsOn ==
  ASSUME LatchInv, NEW t \in Threads, Locking(t), NEW y \in Tuples, WaitsIn(t, y),
         ~(Store(t) /\ y = Tuple(t))
  PROVE  WaitsIn(t, y)'
<1>0. /\ ControlOK /\ scalar = [u \in Threads |-> scalar[u]] /\ setup \in Setups
      /\ UNCHANGED <<setup, phase>> /\ scalar[t].i \in Nat /\ y \in Nat
      /\ scalar[t] = [i |-> scalar[t].i, step |-> scalar[t].step,
                      over |-> scalar[t].over, slot |-> scalar[t].slot]
  <2>1. UNCHANGED <<setup, phase>>
    BY DEF Locking, Lock, Claim, Store, Unlock, ProbeTuple, Inside
  <2> QED BY <2>1 DEF LatchInv, ControlOK, ScalarOK, Tuples
<1>1. PICK f, i, j : /\ f = First(t) + i /\ f \in Nat /\ i \in Nat
                     /\ i = scalar[t].i /\ j = scalar'[t].i
  BY <1>0, PartFacts
<1>2. Tuple(t) = f + 1 /\ Slice(t)' = Slice(t) /\ First(t)' = First(t)
  BY <1>0, <1>1, SameCarries DEF Tuple, First, numRthr
<1>3. j = i => Tuple(t)' = f + 1
  BY <1>1, <1>2 DEF Tuple
<1>4. j = i + 1 => Tuple(t)' = f + 1 + 1
  <2>1. First(t) \in Nat
    BY <1>0, PartFacts
  <2> QED BY <1>1, <1>2, <2>1 DEF Tuple
<1>5. phase[t].pc = "build" /\ y \in Slice(t) /\ Fid(phase'[t]) = Fid(phase[t])
  BY <1>0 DEF WaitsIn
<1>6. Fid(phase[t]) = 0
  BY <1>5 DEF Locking, Lock, Claim, Store, Unlock, ProbeTuple, AtStep, BuildWith, Working
<1>7. y >= Tuple(t) /\ ~(y = Tuple(t) /\ scalar[t].step = "unlock")
  BY <1>6 DEF WaitsIn
<1>8. y >= Tuple(t)' /\ ~(y = Tuple(t)' /\ scalar'[t].step = "unlock")
  <2>1. CASE Lock(t)
    <3>1. j = i /\ scalar'[t].step = "claim"
      <4>1. scalar' = [scalar EXCEPT ![t].step = "claim"]
        BY <2>1 DEF Lock
      <4> QED BY <1>0, <1>1, <4>1
    <3> QED BY <1>2, <1>3, <1>7, <3>1
  <2>2. CASE Claim(t)
    <3>1. j = i /\ scalar'[t].step = "store"
      <4>1. \E over, slot : scalar' = [scalar EXCEPT ![t].step = "store", ![t].over = over,
                                                    ![t].slot = slot]
        BY <2>2 DEF Claim
      <4> QED BY <1>0, <1>1, <4>1
    <3> QED BY <1>2, <1>3, <1>7, <3>1
  <2>3. CASE Store(t)
    <3>1. j = i /\ y # Tuple(t)
      <4>1. scalar' = [scalar EXCEPT ![t].step = "unlock"]
        BY <2>3 DEF Store
      <4> QED BY <1>0, <1>1, <2>3, <4>1
    <3> QED BY <1>2, <1>3, <1>7, <3>1
  <2>4. CASE Unlock(t)
    <3>1. j = i + 1 /\ scalar[t].step = "unlock" /\ scalar'[t].step = "lock"
      <4>1. /\ scalar[t].step = "unlock"
            /\ scalar' = [scalar EXCEPT ![t] = [ScalarStart EXCEPT !.i = scalar[t].i + 1]]
        BY <2>4 DEF Unlock, AtStep
      <4>2. scalar'[t].i = scalar[t].i + 1 /\ scalar'[t].step = "lock"
        BY <1>0, <4>1 DEF ScalarStart
      <4> QED BY <1>1, <4>1, <4>2
    <3> QED BY <1>0, <1>1, <1>2, <1>4, <1>7, <3>1
  <2>5. ~ProbeTuple(t)
    BY <1>5 DEF ProbeTuple, Working
  <2> QED BY <2>1, <2>2, <2>3, <2>4, <2>5 DEF Locking
<1> QED BY <1>0, <1>2, <1>5, <1>6, <1>8 DEF WaitsIn, Fid

\* A tuple that waits no more has been stored.
There == \A t \in Threads : \A x \in Slice(t) : WaitsIn(t, x) \/ InTable(x)

LEMMA SliceTuples ==
  ASSUME setup \in Setups, NEW t \in Threads, NEW x \in Slice(t)
  PROVE  x \in Tuples
BY PartFacts DEF Slice, Tuples

LEMMA LockingThere ==
  ASSUME LinkInv, LatchInv, SlotsOK, There, NEW t \in Threads, Locking(t), phase[t].pc = "build"
  PROVE  There'
<1>0. /\ setup \in Setups /\ ScalarOK /\ UNCHANGED <<setup, phase, imv>> /\ Threads' = Threads
  BY SameSetup DEF LinkInv, ControlOK, Locking, Lock, Claim, Store, Unlock, ProbeTuple, Inside
<1>1. \A u \in Threads \ {t} : scalar'[u] = scalar[u]
  BY <1>0 DEF Locking, Lock, Claim, Store, Unlock, ProbeTuple, ScalarOK
<1>2. ASSUME NEW u \in Threads, NEW x \in Slice(u) PROVE WaitsIn(u, x)' \/ InTable(x)'
  <2>1. x \in Tuples
    BY <1>0, <1>2, SliceTuples
  <2>2. InTable(x) \/ (Store(t) /\ x = Tuple(t)) => InTable(x)'
    BY <2>1, LockingFills
  <2>3. CASE WaitsIn(u, x) /\ u = t
    BY <2>1, <2>2, <2>3, LockingWaitsOn
  <2>4. CASE WaitsIn(u, x) /\ u # t
    BY <1>0, <1>1, <2>4, SameWaits
  <2> QED BY <1>2, <2>2, <2>3, <2>4 DEF There
<1>3. \A u : Slice(u)' = Slice(u)
  BY <1>0, SameCarries
<1> QED BY <1>0, <1>2, <1>3 DEF There

\* The vectors of the only thread: a head that counts nothing is empty; the
\* lanes chosen are for empty heads or hold what their head points to, and are
\* written to heads of their own.
Uncounted(h) == h.count = 0 => \A j \in SlotNums : h.tuples[j] = NoTuple
LaneHead(m, i) == m.st[m.k].lane[i].head
LaneSound(m, i) ==
  /\ m.st[m.k].stage = "head" => heads[LaneHead(m, i)].count = 0
  /\ m.st[m.k].stage = "chain" => m.next[i] = heads[LaneHead(m, i)].chain
Apart(m, S) == \A i, j \in S : LaneHead(m, i) = LaneHead(m, j) => i = j
Sound(m) ==
  /\ m.op = "gather" => \A i \in m.chosen : LaneSound(m, i)
  /\ m.op = "scatter" => (\A i \in m.left : LaneSound(m, i)) /\ Apart(m, m.left)
VectorSound == (\A b \in Heads : Uncounted(heads[b])) /\ \A t \in Threads : Sound(imv[t])

LEMMA WorkSound ==
  ASSUME LinkInv, NEW t \in Threads, VectorWork(t), ~Scattering(t), phase[t].pc = "build",
         Sound(imv[t])
  PROVE  \E r : Goes(t, r) /\ Sound(r)
<1>0. VectorOK /\ setup \in Setups /\ heads \in [Heads -> Buckets]
  BY DEF LinkInv, ControlOK, TableTyped
<1>1. \A r : r.op = "turn" => Sound(r)
  BY DEF Sound
<1>2. CASE ImvRetire(t) \/ ImvSkip(t) \/ ImvModel(t)
  BY <1>0, <1>1, <1>2, RetireGoes, SkipGoes, ModelGoes
<1>3. CASE ImvLoad(t) \/ LearnedLoad(t)
  BY <1>0, <1>1, <1>3, LoadGoes
<1>4. CASE GatherStart(t)
  <2>1. PICK r : Goes(t, r) /\ GatherStarted(t, r)
    BY <1>0, <1>4, GatherStartGoes
  <2> QED BY <2>1 DEF GatherStarted, Sound
<1>5. ASSUME NEW i \in Lanes, GatherHead(t, i) PROVE \E r : Goes(t, r) /\ Sound(r)
  <2>1. PICK m : m = imv[t]
    OBVIOUS
  <2>2. m.op = "gather" /\ m.st[m.k].stage = "head" /\ Sound(m)
    BY <1>5, <2>1 DEF GatherHead, Running, Current
  <2>3. PICK r : Goes(t, r) /\ HeadGathered(t, i, r)
    BY <1>0, <1>5, GatherHeadGoes
  <2>4. /\ r.st = m.st /\ r.k = m.k /\ r.op = "gather"
        /\ \A j \in r.chosen : j \in m.chosen \/ heads[LaneHead(m, j)].count = 0
    BY <2>1, <2>3 DEF HeadGathered, RegistersIs, HeadOf, Current, LaneHead
  <2>5. \A j \in r.chosen : LaneSound(r, j)
    BY <2>2, <2>4 DEF Sound, LaneSound, LaneHead
  <2> QED BY <2>3, <2>4, <2>5 DEF Sound
<1>6. ASSUME NEW i \in Lanes, GatherNext(t, i) PROVE \E r : Goes(t, r) /\ Sound(r)
  <2>1. PICK m : m = imv[t]
    OBVIOUS
  <2>2. m.op = "gather" /\ m.st[m.k].stage = "chain" /\ Sound(m) /\ m.op # "turn"
    BY <1>6, <2>1 DEF GatherNext, Running, Current
  <2>3. PICK r : Goes(t, r) /\ NextGathered(t, i, r)
    BY <1>0, <1>6, GatherNextGoes
  <2>4. m.next \in [Lanes -> Chains] /\ m.chosen \in SUBSET Lanes
    BY <1>0, <2>1, <2>2, AtGather
  <2>5. /\ r.st = m.st /\ r.k = m.k /\ r.op = "gather" /\ r.chosen = m.chosen \union {i}
        /\ r.next = [m.next EXCEPT ![i] = HeadOf(t, i).chain]
    BY <2>1, <2>3 DEF NextGathered, RegistersIs
  <2>6. r.next[i] = heads[LaneHead(m, i)].chain /\ \A j \in Lanes \ {i} : r.next[j] = m.next[j]
    BY <2>1, <2>4, <2>5 DEF HeadOf, Current, LaneHead
  <2>7. \A j \in r.chosen : LaneSound(r, j)
    BY <2>2, <2>4, <2>5, <2>6 DEF Sound, LaneSound, LaneHead
  <2> QED BY <2>3, <2>5, <2>7 DEF Sound
<1>7. CASE Gathered(t)
  <2>1. PICK m : m = imv[t]
    OBVIOUS
  <2>2. m.op = "gather" /\ Sound(m) /\ m.op # "turn"
    BY <1>7, <2>1 DEF Gathered, Running
  <2>3. PICK r : Goes(t, r) /\ GatherEnded(t, r)
    BY <1>0, <1>7, GatheredGoes
  <2>4. m.chosen \in SUBSET Lanes
    BY <1>0, <2>1, <2>2, AtGather
  <2>5. PICK C : C = NoConflict(t)
    OBVIOUS
  <2>6. C \subseteq m.chosen /\ Apart(m, C)
    <3>1. C = {i \in m.chosen : \A j \in m.chosen : j < i => LaneHead(m, j) # LaneHead(m, i)}
      BY <2>1, <2>4, <2>5 DEF NoConflict, FirstOfEach, Current, LaneHead
    <3>2. ASSUME NEW i \in C, NEW j \in C, LaneHead(m, i) = LaneHead(m, j) PROVE i = j
      <4>1. i \in Int /\ j \in Int /\ i \in m.chosen /\ j \in m.chosen
        BY <2>4, <3>1, LanesAssumption DEF Lanes
      <4>2. ~(i < j) /\ ~(j < i)
        BY <3>1, <3>2, <4>1
      <4> QED BY <4>1, <4>2
    <3> QED BY <3>1, <3>2 DEF Apart
  <2>7. CASE r.op = "turn"
    BY <1>1, <2>3, <2>7
  <2>8. CASE RegistersIs(r, m, "scatter", C, C, m.next)
    <3>1. r.st = m.st /\ r.k = m.k /\ r.op = "scatter" /\ r.left = C /\ r.next = m.next
      BY <2>8 DEF RegistersIs
    <3>2. \A i \in C : LaneSound(m, i)
      BY <2>2, <2>6 DEF Sound
    <3>3. \A i \in r.left : LaneSound(r, i)
      BY <3>1, <3>2 DEF LaneSound, LaneHead
    <3>4. Apart(r, r.left)
      BY <2>6, <3>1 DEF Apart, LaneHead
    <3>5. Sound(r)
      BY <3>1, <3>3, <3>4 DEF Sound
    <3> QED BY <2>3, <3>5
  <2> QED BY <2>1, <2>3, <2>5, <2>7, <2>8 DEF GatherEnded
<1>8. CASE Scattered(t)
  BY <1>0, <1>1, <1>8, ScatteredGoes DEF ScatterEnded
<1>9. ~ProbeHead(t) /\ ~ProbeChain(t)
  BY DEF ProbeHead, ProbeChain
<1> QED BY <1>2, <1>3, <1>4, <1>5, <1>6, <1>7, <1>8, <1>9 DEF VectorWork, Turning, Counting

LEMMA OneThread ==
  ASSUME setup.threads = 1, NEW t \in Threads, NEW u \in Threads
  PROVE  t = u
BY DEF Threads

\* A lane is written: nothing stored goes, and its tuple is stored.
LEMMA ScatterPuts ==
  ASSUME LinkInv, NEW t \in Threads, NEW i \in Lanes, ScatterHead(t, i) \/ ScatterNext(t, i),
         NEW b \in Heads, b = LaneHead(imv[t], i), Uncounted(heads[b]), LaneSound(imv[t], i),
         LaneTuple(t, i) \in Nat
  PROVE  \E q : HeadsPut(b, q) /\ Adds(heads[b], q, LaneTuple(t, i)) /\ Uncounted(q)
<1>0. TableTyped /\ VectorOK /\ setup \in Setups
  BY DEF LinkInv, ControlOK
<1>1. PICK m, x, h : m = imv[t] /\ x = LaneTuple(t, i) /\ h = heads[b]
  OBVIOUS
<1>2. h \in Buckets /\ h.count \in Nat /\ h.chain \in Chains /\ h.tuples \in [SlotNums -> Nat]
  BY <1>0, <1>1, BucketTyped DEF TableTyped, SlotNums
<1>3. 1 \in SlotNums
  <2>1. setup.bucketSize \in Nat \ {0}
    BY <1>0, SetupsAssumption
  <2> QED BY <2>1 DEF SlotNums
<1>4. CASE ScatterHead(t, i)
  <2>1. heads' = [heads EXCEPT ![b].count = 1, ![b].tuples[1] = x]
    BY <1>1, <1>4 DEF ScatterHead, LaneHead, LaneTuple, Current
  <2>2. PICK ts : ts = [h.tuples EXCEPT ![1] = x]
    OBVIOUS
  <2>3. PICK q : q = [h EXCEPT !.count = 1, !.tuples = ts]
    OBVIOUS
  <2>4. q = [h EXCEPT !.count = 1, !.tuples[1] = x]
    BY <1>2, <2>2, <2>3 DEF Buckets
  <2>5. HeadsPut(b, q)
    BY <1>0, <1>1, <2>1, <2>4 DEF TableTyped, HeadsPut
  <2>6. q.chain = h.chain /\ q.tuples = ts /\ q.count = 1
    BY <1>2, <2>3 DEF Buckets
  <2>7. ts[1] = x
    BY <1>2, <1>3, <2>2
  <2>8. h.count = 0
    BY <1>1, <1>4 DEF ScatterHead, LaneSound, Current
  <2>9. \A j \in SlotNums : h.tuples[j] = NoTuple
    BY <1>1, <2>8 DEF Uncounted
  <2>10. Adds(h, q, x)
    BY <1>3, <2>6, <2>7, <2>9 DEF Adds, Stores
  <2>11. Uncounted(q)
    BY <2>6 DEF Uncounted
  <2> QED BY <1>1, <2>5, <2>10, <2>11
<1>5. CASE ScatterNext(t, i)
  <2>1. PICK new : new = GetNewBucket(bufs[t])
    OBVIOUS
  <2>2. PICK n : n = NewestBucket(t, new, 0, x)
    OBVIOUS
  <2>3. m.next[i] = h.chain
    BY <1>1, <1>5 DEF ScatterNext, LaneSound, Current
  <2>4. PICK q : q = [h EXCEPT !.chain = <<n>> \o h.chain]
    OBVIOUS
  <2>5. HeadsPut(b, q)
    BY <1>1, <1>5, <2>1, <2>2, <2>3, <2>4 DEF ScatterNext, NewChain, HeadsPut, LaneHead, LaneTuple, Current
  <2>6. q.chain = <<n>> \o h.chain /\ q.tuples = h.tuples /\ q.count = h.count
    BY <1>2, <2>4 DEF Buckets
  <2>7. n \in Cells
    <3>1. new \in BufValues
      BY <1>0, <2>1, NewBufferTyped DEF TableTyped
    <3> QED BY <1>0, <1>1, <2>2, <3>1, NewestTyped
  <2>8. CellsIn(q.chain) = {n} \union CellsIn(h.chain)
    BY <1>2, <2>6, <2>7, CellsOfCons
  <2>9. n.tuples[1] = x
    BY <1>3, <2>2 DEF NewestBucket, SlotNums
  <2>10. Adds(h, q, x)
    BY <1>3, <2>6, <2>8, <2>9 DEF Adds, Stores
  <2>11. Uncounted(q)
    BY <1>1, <2>6 DEF Uncounted
  <2> QED BY <1>1, <2>5, <2>10, <2>11
<1> QED BY <1>4, <1>5

LEMMA ScatterFills ==
  ASSUME LinkInv, setup.threads = 1, VectorSound, NEW t \in Threads, NEW i \in Lanes,
         ScatterHead(t, i) \/ ScatterNext(t, i)
  PROVE  /\ VectorSound'
         /\ \A y : y # NoTuple /\ (InTable(y) \/ y = LaneTuple(t, i)) => InTable(y)'
<1>0. VectorOK /\ setup \in Setups /\ heads \in [Heads -> Buckets]
  BY DEF LinkInv, ControlOK, TableTyped
<1>1. PICK m : m = imv[t]
  OBVIOUS
<1>2. /\ m.op = "scatter" /\ m.op # "turn" /\ i \in m.left /\ setup' = setup
      /\ Running(t, "scatter") /\ imv' = [imv EXCEPT ![t].left = @ \ {i}]
  BY <1>1 DEF ScatterHead, ScatterNext, Running, Inside
<1>3. /\ m.left \in SUBSET Lanes /\ m.st[m.k].lane \in [Lanes -> LaneValues]
      /\ Sound(m) /\ LaneSound(m, i)
  BY <1>0, <1>1, <1>2, AtGather DEF VectorSound, Sound
<1>4. \A j \in Lanes : LaneHead(m, j) \in Heads /\ m.st[m.k].lane[j].tuple \in Nat
  BY <1>3 DEF LaneHead, LaneValues
<1>5. PICK b \in Heads : b = LaneHead(m, i)
  BY <1>4
<1>6. LaneTuple(t, i) \in Nat
  BY <1>1, <1>4 DEF LaneTuple, Current
<1>7. PICK q : HeadsPut(b, q) /\ Adds(heads[b], q, LaneTuple(t, i)) /\ Uncounted(q)
  BY <1>1, <1>3, <1>5, <1>6, ScatterPuts DEF VectorSound
<1>8. \A y : y # NoTuple /\ (InTable(y) \/ y = LaneTuple(t, i)) => InTable(y)'
  BY <1>0, <1>2, <1>7, PutAdds
<1>9. heads'[b] = q /\ \A e \in Heads \ {b} : heads'[e] = heads[e]
  BY <1>0, <1>7 DEF HeadsPut
<1>10. PICK r : Goes(t, r) /\ LaneScattered(t, i, r)
  BY <1>0, <1>2, ScatterGoes
<1>11. imv'[t] = r /\ r.st = m.st /\ r.k = m.k /\ r.op = "scatter" /\ r.left = m.left \ {i}
       /\ r.next = m.next
  BY <1>0, <1>1, <1>10 DEF LaneScattered, RegistersIs, Goes, VectorOK
<1>12. \A e \in Heads : Uncounted(heads[e])'
  <2>1. ASSUME NEW e \in Heads PROVE Uncounted(heads'[e])
    BY <1>7, <1>9 DEF VectorSound
  <2> QED BY <1>2, <2>1 DEF Uncounted, SlotNums
<1>13. Sound(imv[t])'
  <2>1. \A j \in r.left : LaneHead(m, j) # b
    BY <1>2, <1>3, <1>5, <1>11 DEF Sound, Apart
  <2>2. \A j \in r.left : LaneHead(r, j) = LaneHead(m, j) /\ heads'[LaneHead(m, j)] = heads[LaneHead(m, j)]
    BY <1>3, <1>4, <1>9, <1>11, <2>1 DEF LaneHead
  <2>3. \A j \in r.left : LaneSound(m, j)
    BY <1>2, <1>3, <1>11 DEF Sound
  <2>4. Apart(r, r.left)
    BY <1>2, <1>3, <1>11 DEF Sound, Apart, LaneHead
  <2>5. ASSUME NEW j \in r.left
        PROVE  LaneSound(imv[t], j)'
    <3>1. /\ LaneHead(r, j) = LaneHead(m, j)
          /\ heads'[LaneHead(m, j)] = heads[LaneHead(m, j)]
          /\ LaneSound(m, j)
      BY <2>2, <2>3
    <3>2. imv'[t] = r /\ LaneHead(imv[t], j)' = LaneHead(r, j)
      BY <1>11 DEF LaneHead
    <3>3. r.k = m.k /\ r.st = m.st /\ r.next[j] = m.next[j]
      BY <1>11
    <3> HIDE DEF LaneHead
    <3> QED
      BY <3>1, <3>2, <3>3 DEF LaneSound
  <2>6. Apart(imv[t], imv[t].left)'
    BY <1>11, <2>4 DEF Apart, LaneHead
  <2> QED BY <1>11, <2>5, <2>6 DEF Sound
<1>14. Threads' = Threads
  BY <1>2, SameSetup
<1>15. \A u \in Threads' : Sound(imv[u])'
  BY <1>13, <1>14, OneThread
<1> QED BY <1>8, <1>12, <1>15 DEF VectorSound

LEMMA WorkFills ==
  ASSUME LinkInv, setup.threads = 1, VectorSound, NEW t \in Threads, VectorWork(t), ~Scattering(t),
         phase[t].pc = "build"
  PROVE  VectorSound'
<1>1. UNCHANGED <<setup, heads>> /\ Threads' = Threads
  BY WorkFrame, SameSetup DEF WorkLeaves, VectorWork
<1>2. PICK r : Goes(t, r) /\ Sound(r)
  BY WorkSound DEF VectorSound
<1>3. imv'[t] = r
  BY <1>2 DEF Goes, LinkInv, VectorOK
<1>4. Sound(imv[t])'
  BY <1>1, <1>2, <1>3 DEF Sound, LaneSound, LaneHead, Apart
<1>5. \A u \in Threads : Sound(imv[u])'
  BY <1>4, OneThread
<1>6. \A e \in Heads : Uncounted(heads[e])'
  BY <1>1 DEF VectorSound, Uncounted, SlotNums
<1> QED BY <1>1, <1>5, <1>6 DEF VectorSound

LEMMA WorkThere ==
  ASSUME LinkInv, VectorsCarry, There, NEW t \in Threads, VectorWork(t), ~Scattering(t),
         phase[t].pc = "build"
  PROVE  There'
<1>1. UNCHANGED <<setup, phase, scalar, heads>> /\ Threads' = Threads
  BY WorkFrame, SameSetup DEF WorkLeaves, VectorWork
<1>2. Fid(phase[t]) = 1
  BY WorkPhase
<1>3. PICK r : Goes(t, r) /\ Follows(t, r, imv[t]) /\ Selects(r)
  BY WorkFollows DEF VectorsCarry
<1>4. imv'[t] = r /\ \A u \in Threads \ {t} : imv'[u] = imv[u]
  BY <1>1, <1>3, GoesCarry DEF Follows
<1>5. \A u : Slice(u)' = Slice(u)
  BY <1>1, SameCarries
<1>6. ASSUME NEW u \in Threads, NEW x \in Slice(u), WaitsIn(u, x) PROVE WaitsIn(u, x)'
  <2>1. CASE u # t
    BY <1>1, <1>4, <1>6, <2>1, SameWaits
  <2>2. CASE u = t
    <3>1. Waits(t, r, x)
      BY <1>2, <1>3, <1>6, <2>2 DEF WaitsIn, Follows
    <3>2. Waits(t, r, x)'
      BY <1>1, <3>1, SameCarries
    <3>3. Waits(t, imv[t], x)'
      BY <1>4, <3>2 DEF Waits, Written, Held, LaneOf
    <3> QED BY <1>1, <1>2, <1>5, <1>6, <2>2, <3>3 DEF WaitsIn
  <2> QED BY <2>1, <2>2
<1> QED BY <1>1, <1>5, <1>6, SameTable DEF There

LEMMA ScatterThere ==
  ASSUME LinkInv, VectorsCarry, setup.threads = 1, VectorSound, There, NEW t \in Threads,
         NEW i \in Lanes, ScatterHead(t, i) \/ ScatterNext(t, i)
  PROVE  There'
<1>0. /\ VectorOK /\ setup \in Setups /\ MachineOK(t, imv[t])
  BY DEF LinkInv, ControlOK, VectorOK
<1>1. UNCHANGED <<setup, phase, scalar>> /\ Threads' = Threads
  BY SameSetup DEF ScatterHead, ScatterNext, Inside, ImvOnly
<1>2. /\ phase[t].pc = "build" /\ Fid(phase[t]) = 1 /\ imv[t].op = "scatter" /\ i \in imv[t].left
      /\ Running(t, "scatter") /\ imv' = [imv EXCEPT ![t].left = @ \ {i}]
  BY DEF ScatterHead, ScatterNext, Running
<1>3. PICK r : Goes(t, r) /\ LaneScattered(t, i, r)
  BY <1>0, <1>2, ScatterGoes
<1>4. LaneTuple(t, i) \in Nat
  <2>1. PICK m : m = imv[t]
    OBVIOUS
  <2>2. m.op # "turn"
    BY <1>2, <2>1
  <2>3. m.st[m.k].lane \in [Lanes -> LaneValues]
    BY <1>0, <2>1, <2>2, AtGather
  <2> QED BY <2>1, <2>3 DEF LaneTuple, Current, LaneValues
<1>5. \A x \in Slice(t) : Waits(t, r, x) <=> Waits(t, imv[t], x) /\ x # LaneTuple(t, i)
  BY <1>0, <1>2, <1>3, <1>4, LaneFollows DEF VectorsCarry
<1>6. imv'[t] = r
  BY <1>0, <1>3 DEF Goes, VectorOK
<1>7. \A u : Slice(u)' = Slice(u)
  BY <1>1, SameCarries
<1>8. ASSUME NEW x \in Slice(t) PROVE WaitsIn(t, x)' \/ InTable(x)'
  <2>1. x # NoTuple
    BY <1>0, <1>8, SliceTuples, BoundsAssumption DEF Tuples
  <2>2. InTable(x) \/ x = LaneTuple(t, i) => InTable(x)'
    BY <2>1, ScatterFills
  <2>3. CASE InTable(x) \/ x = LaneTuple(t, i)
    BY <2>2, <2>3
  <2>4. CASE WaitsIn(t, x) /\ x # LaneTuple(t, i)
    <3>1. Waits(t, r, x)
      BY <1>2, <1>5, <1>8, <2>4 DEF WaitsIn
    <3>2. Waits(t, r, x)'
      BY <1>1, <3>1, SameCarries
    <3>3. Waits(t, imv[t], x)'
      BY <1>6, <3>2 DEF Waits, Written, Held, LaneOf
    <3> QED BY <1>1, <1>2, <1>7, <1>8, <3>3 DEF WaitsIn
  <2> QED BY <1>8, <2>3, <2>4 DEF There
<1>9. \A u \in Threads : u = t
  BY OneThread
<1> QED BY <1>1, <1>7, <1>8, <1>9 DEF There

\* At the end of a build no tuple of the thread waits: the loop counter is at
\* the end, or all vector states are done and the residual one is empty.
LEMMA BuildEnds ==
  ASSUME LinkInv, NEW t \in Threads, ScalarBuilt(t) \/ ImvLeave(t), NEW x \in Slice(t)
  PROVE  ~WaitsIn(t, x)
<1>0. VectorOK /\ setup \in Setups /\ MachineOK(t, imv[t])
  BY DEF LinkInv, ControlOK, VectorOK
<1>1. PICK f \in Nat, n \in Nat : f = First(t) /\ n = NumTuples(t)
  BY <1>0, PartFacts
<1>2. x \in Nat /\ x <= f + n
  BY <1>1 DEF Slice
<1>3. CASE ScalarBuilt(t)
  <2>1. Fid(phase[t]) = 0 /\ Tuple(t) = f + n + 1
    BY <1>1, <1>3 DEF ScalarBuilt, BuildWith, Tuple
  <2> QED BY <1>1, <1>2, <2>1 DEF WaitsIn
<1>4. CASE ImvLeave(t)
  <2>1. PICK m, V, C : m = imv[t] /\ V = LaneValues /\ C = Chains
    OBVIOUS
  <2>2. MachineInv(V, C, m)
    BY <1>0, <2>1 DEF MachineOK, LoopInv
  <2>3. m.cur \in Nat /\ m.done \in 0 .. StateSize /\ m.done = Cardinality(DoneStates(m))
    BY <2>2, MachineFields DEF MachineInv
  <2>4. Fid(phase[t]) = 1 /\ m.cur >= n /\ m.done >= StateSize /\ m.st[Residual].have = {}
    BY <1>1, <1>4, <2>1 DEF ImvLeave, InLoop, Leaving, OnlyResidual, Drained
  <2>5. DoneStates(m) = States \ {Residual}
    <3>1. m.done = StateSize
      BY <2>3, <2>4, ResidualIsState
    <3> QED BY <2>3, <3>1, DoneStatesCount
  <2>6. \A s \in States : m.st[s].have = {}
    BY <2>2, <2>4, <2>5 DEF MachineInv, DoneStates
  <2>7. \A p : p \notin Held(m)
    BY <2>6 DEF Held
  <2>8. ~(x > f + m.cur)
    BY <1>1, <1>2, <2>3, <2>4
  <2> QED BY <1>1, <2>1, <2>4, <2>7, <2>8 DEF WaitsIn, Waits
<1> QED BY <1>3, <1>4

BuildsDone == \A t \in Threads : at[t] # "work" => \A x \in Slice(t) : ~WaitsIn(t, x)

\* A step of a build: only the thread whose turn it is changes what waits, and
\* it is still at work.
LEMMA WorkingBuildsDone ==
  ASSUME UNCHANGED <<setup, phase, at>>, BuildsDone, NEW t \in Threads, at[t] = "work",
         \A u \in Threads \ {t} : scalar'[u] = scalar[u] /\ imv'[u] = imv[u]
  PROVE  BuildsDone'
<1>1. Threads' = Threads /\ \A u : Slice(u)' = Slice(u)
  BY SameSetup, SameCarries
<1>2. ASSUME NEW u \in Threads, at'[u] # "work", NEW x \in Slice(u) PROVE ~WaitsIn(u, x)'
  <2>1. u # t /\ ~WaitsIn(u, x)
    BY <1>2 DEF BuildsDone
  <2> QED BY <1>2, <2>1, SameWaits
<1> QED BY <1>1, <1>2 DEF BuildsDone

\* Every tuple is in the part of a thread.
LEMMA PartsCover ==
  ASSUME setup \in Setups, NEW x \in Tuples
  PROVE  \E t \in Threads : x \in Slice(t)
<1>1. PICK q, n \in Nat, k \in Nat : /\ q = setup.n \div setup.threads /\ n = setup.n
                                     /\ k = setup.threads /\ k # 0
  BY SetupsAssumption
<1>2. q \in Nat /\ x \in Nat /\ x # 0 /\ x <= n
  BY <1>1 DEF Tuples
<1>3. PICK last : last = k - 1
  OBVIOUS
<1>4. last \in Threads /\ last \in Nat
  BY <1>1, <1>3 DEF Threads
<1>5. CASE x > q * last
  <2>1. First(last) = q * last /\ NumTuples(last) = n - q * last
    BY <1>1, <1>3 DEF First, NumTuples, numRthr
  <2>2. PICK a \in Nat : a = q * last
    BY <1>2, <1>4
  <2>3. x \in (a + 1) .. (a + (n - a))
    BY <1>1, <1>2, <1>5, <2>2
  <2> QED BY <1>4, <2>1, <2>2, <2>3 DEF Slice
<1>6. CASE ~(x > q * last)
  <2>1. q # 0
    BY <1>2, <1>4, <1>6
  <2>2. PICK t, r \in Nat : t \in Nat /\ x - 1 = q * t + r /\ r < q
    <3>1. x - 1 \in Nat /\ q \in Nat \ {0}
      BY <1>2, <2>1
    <3>2. \A y \in Nat, z \in Nat \ {0} :
            /\ y \div z \in Nat /\ y % z \in Nat /\ y % z < z
            /\ y = z * (y \div z) + (y % z)
      OBVIOUS
    <3> QED BY <3>1, <3>2
  <2>3. t < last
    <3>1. CASE t >= last
      <4>1. PICK d \in Nat : t = last + d
        <5>1. t - last \in Nat /\ t = last + (t - last)
          BY <1>4, <2>2, <3>1
        <5> QED BY <5>1
      <4>2. q * t = q * last + q * d /\ q * last \in Nat /\ q * d \in Nat
        BY <1>2, <1>4, <4>1
      <4> QED BY <1>2, <1>6, <2>2, <4>2
    <3> QED BY <1>4, <2>2, <3>1
  <2>4. t \in Threads /\ t # k - 1
    BY <1>1, <1>3, <2>2, <2>3 DEF Threads
  <2>5. First(t) = q * t /\ NumTuples(t) = q
    BY <1>1, <2>4 DEF First, NumTuples, numRthr
  <2>6. PICK a \in Nat : a = q * t
    BY <1>2, <2>2
  <2>7. x \in (a + 1) .. (a + q)
    BY <1>2, <2>2, <2>6
  <2> QED BY <2>4, <2>5, <2>6, <2>7 DEF Slice
<1> QED BY <1>5, <1>6

\* A build that is exact: with latches, or by one thread.
Exact == setup.threads = 1 \/ Fid(phase[0]) = 0
Building == phase[0].pc = "build"
Numbered ==
  phase[0].pc \in {"fetch", "build"} \/ (phase[0].pc = "allocate" /\ at[0] # "work")
    => ht = phase[0].run + 1
Complete ==
  TableBuilt /\ (setup.threads = 1 \/ ht <= RunNums) => \A x \in Tuples : InTable(x)
BuildInv ==
  /\ BuildsDone /\ (Exact => There)
  /\ Fid(phase[0]) = 0 => SlotsOK
  /\ Fid(phase[0]) = 1 /\ setup.threads = 1 => VectorSound
FillInv == Numbered /\ Complete /\ (Building => BuildInv)

\* Outside a build nothing is put into the table.
LEMMA OutsideFill ==
  ASSUME FillInv, UNCHANGED <<setup, phase>>, ~Building, Numbered',
         TableBuilt => UNCHANGED <<heads, ht>>
  PROVE  FillInv'
<1>1. ~Building' /\ TableBuilt' = TableBuilt /\ Tuples' = Tuples
  BY DEF Building, TableBuilt, Tuples
<1>2. CASE TableBuilt
  BY <1>1, <1>2, SameTable DEF FillInv, Complete
<1>3. CASE ~TableBuilt
  BY <1>1, <1>3 DEF FillInv, Complete
<1> QED BY <1>2, <1>3

\* During one the table is not complete yet.
LEMMA InsideFill ==
  ASSUME FillInv, UNCHANGED <<setup, phase, ht>>, Building, BuildInv'
  PROVE  FillInv'
BY DEF FillInv, Building, Numbered, Complete, TableBuilt

\* A build's locals and table left alone.
LEMMA StillBuild ==
  ASSUME BuildInv, UNCHANGED <<setup, phase, heads, scalar, imv>>, BuildsDone'
  PROVE  BuildInv'
<1>1. Threads' = Threads /\ \A u : Slice(u)' = Slice(u)
  BY SameSetup, SameCarries
<1>2. There => There'
  <2>1. \A u, x : WaitsIn(u, x) <=> WaitsIn(u, x)'
    BY SameWaits
  <2> QED BY <1>1, <2>1, SameTable DEF There
<1>3. SlotsOK => SlotsOK'
  <2> SUFFICES ASSUME SlotsOK PROVE SlotsOK'
    OBVIOUS
  <2>1. \A u \in Threads : Claimed(u)'
    BY SameClaimed DEF SlotsOK
  <2>2. \A e \in Heads : Unfilled(heads[e])'
    BY DEF SlotsOK, Unfilled, FreeAbove, SlotNums
  <2> QED BY <1>1, <2>1, <2>2 DEF SlotsOK
<1>4. VectorSound => VectorSound'
  BY ZenonT(30), <1>1 DEF VectorSound, Uncounted, SlotNums, Sound, LaneSound, LaneHead, Apart
<1> QED BY <1>2, <1>3, <1>4 DEF BuildInv, Exact, Fid

LEMMA StillFill ==
  ASSUME FillInv, UNCHANGED <<setup, phase, at, ht, heads, scalar, imv>>
  PROVE  FillInv'
<1>1. Numbered'
  BY DEF FillInv, Numbered
<1>2. CASE Building
  <2>1. Threads' = Threads /\ \A u : Slice(u)' = Slice(u)
    BY SameSetup, SameCarries
  <2>2. \A u, x : WaitsIn(u, x) <=> WaitsIn(u, x)'
    BY SameWaits
  <2>3. BuildsDone'
    BY <1>2, <2>1, <2>2 DEF FillInv, BuildInv, BuildsDone
  <2>4. BuildInv'
    BY <1>2, <2>3, StillBuild DEF FillInv
  <2> QED BY <1>2, <2>4, InsideFill
<1>3. CASE ~Building
  BY <1>1, <1>3, OutsideFill
<1> QED BY <1>2, <1>3

\* What the steps of a thread start from.
LEMMA FillOK ==
  ASSUME TypesInv, BuffersInv, OnceInv
  PROVE  /\ LinkInv /\ LatchInv /\ VectorsCarry /\ setup \in Setups /\ 0 \in Threads
         /\ ScalarOK /\ VectorOK /\ \A u \in Threads : phase[u] = phase[0]
BY LinkOK DEF BuffersInv, OnceInv, LinkInv, ControlOK

LEMMA LockingFill ==
  ASSUME TypesInv, BuffersInv, OnceInv, FillInv, NEW t \in Threads, Locking(t)
  PROVE  FillInv'
<1>0. LinkInv /\ LatchInv /\ ScalarOK /\ phase[t] = phase[0]
  BY FillOK
<1>1. UNCHANGED <<setup, phase, at, imv, ht>> /\ at[t] = "work"
      /\ \A u \in Threads \ {t} : scalar'[u] = scalar[u]
  <2>1. UNCHANGED <<setup, phase, at, imv, ht>> /\ at[t] = "work"
    BY DEF Locking, Lock, Claim, Store, Unlock, ProbeTuple, Inside, AtStep, BuildWith, Working,
           BuildOnly, ProbeOnly, shared
  <2>2. \A u \in Threads \ {t} : scalar'[u] = scalar[u]
    BY <1>0 DEF Locking, Lock, Claim, Store, Unlock, ProbeTuple, ScalarOK
  <2> QED BY <2>1, <2>2
<1>2. CASE ProbeTuple(t)
  <2>1. phase[0].pc = "probe" /\ heads' = heads
    BY <1>0, <1>2 DEF ProbeTuple, Working, ProbeOnly, table
  <2>2. ~Building /\ Numbered'
    BY <1>1, <2>1 DEF Building, Numbered
  <2> QED BY <1>1, <2>1, <2>2, OutsideFill
<1>3. CASE ~ProbeTuple(t)
  <2>1. phase[t].pc = "build" /\ Fid(phase[t]) = 0
    BY <1>3 DEF Locking, Lock, Claim, Store, Unlock, AtStep, BuildWith, Working
  <2>2. Building /\ BuildsDone /\ There /\ SlotsOK /\ Fid(phase[0]) = 0
    BY <1>0, <2>1 DEF Building, FillInv, BuildInv, Exact
  <2>3. BuildsDone'
    BY <1>1, <2>2, WorkingBuildsDone
  <2>4. There' /\ SlotsOK'
    BY <1>0, <2>1, <2>2, LockingThere, LockingFills
  <2>5. Fid(phase[0])' = 0
    BY <1>1, <2>2 DEF Fid
  <2>6. BuildInv'
    BY <2>3, <2>4, <2>5 DEF BuildInv
  <2> QED BY <1>1, <2>2, <2>6, InsideFill
<1> QED BY <1>2, <1>3

LEMMA WorkFill ==
  ASSUME TypesInv, BuffersInv, OnceInv, FillInv, NEW t \in Threads, VectorWork(t)
  PROVE  FillInv'
<1>0. LinkInv /\ LatchInv /\ VectorOK /\ VectorsCarry /\ setup \in Setups /\ phase[t] = phase[0]
      /\ heads \in [Heads -> Buckets]
  BY FillOK DEF LinkInv, TableTyped
<1>1. UNCHANGED <<setup, phase, at, scalar, ht>> /\ at[t] = "work" /\ Fid(phase[t]) = 1
  BY WorkFrame, WorkPhase DEF WorkLeaves
<1>2. CASE phase[t].pc # "build"
  <2>1. phase[0].pc = "probe"
    BY <1>0, <1>2, WorkPhase
  <2>2. ~Scattering(t)
    BY <1>2 DEF Scattering, ScatterHead, ScatterNext, Running
  <2>3. heads' = heads
    BY <2>2, WorkFrame DEF VectorWork
  <2>4. ~Building /\ Numbered'
    BY <1>1, <2>1 DEF Building, Numbered
  <2> QED BY <1>1, <2>3, <2>4, OutsideFill
<1>3. CASE phase[t].pc = "build"
  <2>1. Building /\ BuildInv /\ Fid(phase[0]) = 1
    BY <1>0, <1>1, <1>3 DEF Building, FillInv
  <2>2. \A u \in Threads \ {t} : scalar'[u] = scalar[u] /\ imv'[u] = imv[u]
    <3>1. PICK r : Goes(t, r)
      BY <1>0, WorkGoes
    <3> QED BY <1>0, <1>1, <3>1 DEF Goes, VectorOK
  <2>3. BuildsDone'
    BY <1>1, <2>1, <2>2, WorkingBuildsDone DEF BuildInv
  <2>4. Fid(phase[0])' = 1 /\ (Exact' <=> setup.threads = 1)
    BY <1>1, <2>1 DEF Exact, Fid
  <2>5. ASSUME setup.threads = 1 PROVE There' /\ VectorSound'
    <3>1. There /\ VectorSound
      BY <2>1, <2>5 DEF BuildInv, Exact
    <3>2. CASE Scattering(t)
      <4>1. PICK i \in Lanes : ScatterHead(t, i) \/ ScatterNext(t, i)
        BY <3>2 DEF Scattering
      <4> QED BY <1>0, <2>5, <3>1, <4>1, ScatterThere, ScatterFills
    <3>3. CASE ~Scattering(t)
      BY <1>0, <1>3, <2>5, <3>1, <3>3, WorkThere, WorkFills
    <3> QED BY <3>2, <3>3
  <2>6. setup'.threads = setup.threads
    BY <1>1
  <2>7. BuildInv'
    BY <2>3, <2>4, <2>5, <2>6 DEF BuildInv
  <2> QED BY <1>1, <2>1, <2>7, InsideFill
<1> QED BY <1>2, <1>3

LEMMA EndingFill ==
  ASSUME TypesInv, BuffersInv, OnceInv, FillInv, NEW t \in Threads, Ending(t)
  PROVE  FillInv'
<1>0. LinkInv /\ 0 \in Threads /\ phase[t] = phase[0] /\ at = [u \in Threads |-> at[u]]
  BY FillOK DEF LinkInv, ControlOK
<1>1. UNCHANGED <<setup, phase, scalar, imv, heads, ht>> /\ at' = [at EXCEPT ![t] = "arrive"]
  BY DEF Ending, ScalarBuilt, ScalarProbed, ImvLeave, Ready, Done, BuildOnly, table, locals, shared
<1>2. CASE phase[t].pc = "build"
  <2>1. Building /\ BuildInv
    BY <1>0, <1>2 DEF Building, FillInv
  <2>2. ScalarBuilt(t) \/ ImvLeave(t)
    BY <1>2 DEF Ending, ScalarProbed, Ready, Working
  <2>3. Threads' = Threads /\ \A u : Slice(u)' = Slice(u)
    BY <1>1, SameSetup, SameCarries
  <2>4. ASSUME NEW u \in Threads, at'[u] # "work", NEW x \in Slice(u) PROVE ~WaitsIn(u, x)'
    <3>1. ~WaitsIn(u, x)
      <4>1. CASE u = t
        BY <1>0, <2>2, <2>4, <4>1, BuildEnds
      <4>2. CASE u # t
        BY <1>0, <1>1, <2>1, <2>4, <4>2 DEF BuildInv, BuildsDone
      <4> QED BY <4>1, <4>2
    <3> QED BY <1>1, <3>1, SameWaits
  <2>5. BuildsDone'
    BY <2>3, <2>4 DEF BuildsDone
  <2>6. BuildInv'
    BY <1>1, <2>1, <2>5, StillBuild
  <2> QED BY <1>1, <2>1, <2>6, InsideFill
<1>3. CASE phase[t].pc # "build"
  <2>1. phase[0].pc \in {"probe", "ready"}
    BY <1>0, <1>3 DEF Ending, ScalarBuilt, ScalarProbed, ImvLeave, Ready, BuildWith, Working, InLoop
  <2>2. ~Building /\ Numbered'
    BY <1>1, <2>1 DEF Building, Numbered
  <2> QED BY <1>1, <2>2, OutsideFill
<1> QED BY <1>2, <1>3

LEMMA PhasingFill ==
  ASSUME TypesInv, BuffersInv, OnceInv, FillInv, NEW t \in Threads, Phasing(t)
  PROVE  FillInv'
<1>0. 0 \in Threads /\ phase[t] = phase[0] /\ at = [u \in Threads |-> at[u]]
  BY FillOK DEF LinkInv, ControlOK
<1>1. UNCHANGED <<setup, phase>> /\ at' = [at EXCEPT ![t] = "arrive"]
  BY DEF Phasing, SetFunctions, Allocate, Fetch, Release, Done
<1>2. CASE Allocate(t)
  <2>1. phase[0].pc = "allocate"
    BY <1>0, <1>2 DEF Allocate, Working
  <2>2. Numbered'
    <3>1. CASE t = 0
      BY <1>1, <1>2, <2>1, <3>1 DEF Allocate, Numbered
    <3>2. CASE t # 0
      BY <1>0, <1>1, <1>2, <2>1, <3>2 DEF Allocate, Numbered, FillInv
    <3> QED BY <3>1, <3>2
  <2>3. ~Building /\ ~TableBuilt
    BY <2>1 DEF Building, TableBuilt
  <2> QED BY <1>1, <2>2, <2>3, OutsideFill
<1>3. CASE SetFunctions(t) \/ Fetch(t) \/ Release(t)
  <2>1. UNCHANGED <<ht, heads>> /\ phase[0].pc \in {"setup", "fetch", "release"}
    BY <1>0, <1>3 DEF SetFunctions, Fetch, Release, Working, table, shared
  <2>2. ~Building /\ Numbered'
    BY <1>1, <2>1 DEF Building, Numbered, FillInv
  <2> QED BY <1>1, <2>1, <2>2, OutsideFill
<1> QED BY <1>2, <1>3 DEF Phasing

\* When all threads are done with an exact build every tuple is in the table.
LEMMA AllBuilt ==
  ASSUME setup \in Setups, BuildsDone, There, \A u \in Threads : at[u] # "work", NEW x \in Tuples
  PROVE  InTable(x)
<1>1. PICK t \in Threads : x \in Slice(t)
  BY PartsCover
<1> QED BY <1>1 DEF BuildsDone, There

\* Of an emptied table nothing is in the way of a build that starts.
LEMMA EmptySlots ==
  ASSUME setup \in Setups
  PROVE  Unfilled(EmptyHead) /\ Uncounted(EmptyHead)
<1>1. setup.bucketSize \in Nat \ {0}
  BY SetupsAssumption
<1>2. EmptyHead.count = 0 /\ EmptyHead.chain = << >>
      /\ \A j \in SlotNums : EmptyHead.tuples[j] = NoTuple
  BY DEF EmptyHead, SlotNums
<1> QED BY <1>1, <1>2 DEF Unfilled, FreeAbove, Uncounted

LEMMA StartFill ==
  ASSUME setup \in Setups, \A e \in Heads : heads[e] = EmptyHead,
         \A u \in Threads : phase[u].pc = "build" /\ at[u] = "work",
         scalar = [u \in Threads |-> ScalarStart], imv = [u \in Threads |-> ImvStart]
  PROVE  BuildInv
<1>1. ASSUME NEW u \in Threads, NEW x \in Slice(u) PROVE WaitsIn(u, x)
  <2>1. PICK f \in Nat, n \in Nat : f = First(u) /\ n = NumTuples(u)
    BY PartFacts
  <2>2. x \in Nat /\ x > f
    BY <1>1, <2>1 DEF Slice
  <2>3. scalar[u].i = 0 /\ scalar[u].step = "lock"
    BY DEF ScalarStart
  <2>4. x >= Tuple(u)
    BY <2>1, <2>2, <2>3 DEF Tuple
  <2>5. Waits(u, imv[u], x)
    <3>1. imv[u].cur = 0
      BY DEF ImvStart
    <3> QED BY <2>1, <2>2, <3>1 DEF Waits
  <2> QED BY <1>1, <2>3, <2>4, <2>5 DEF WaitsIn
<1>2. There
  BY <1>1 DEF There
<1>3. BuildsDone
  BY DEF BuildsDone
<1>4. SlotsOK
  <2>1. \A u \in Threads : Claimed(u)
    BY DEF Claimed, ScalarStart
  <2> QED BY <2>1, EmptySlots DEF SlotsOK
<1>5. VectorSound
  <2>1. \A u \in Threads : Sound(imv[u])
    BY DEF Sound, ImvStart
  <2> QED BY <2>1, EmptySlots DEF VectorSound
<1> QED BY <1>2, <1>3, <1>4, <1>5 DEF BuildInv

Starting ==
  /\ setup \in Setups /\ \A e \in Heads : heads[e] = EmptyHead
  /\ \A u \in Threads : phase[u].pc = "build" /\ at[u] = "work"
  /\ scalar = [u \in Threads |-> ScalarStart] /\ imv = [u \in Threads |-> ImvStart]
LEMMA StartingFills == Starting => BuildInv
BY StartFill DEF Starting

LEMMA ArriveFill ==
  ASSUME TypesInv, BuffersInv, OnceInv, FillInv, NEW t \in Threads, Arrive(t)
  PROVE  FillInv'
<1>0. /\ setup \in Setups /\ 0 \in Threads /\ \A u \in Threads : phase[u] = phase[0]
      /\ at = [u \in Threads |-> at[u]]
  BY FillOK DEF LinkInv, ControlOK
<1>1. UNCHANGED <<setup, heads, ht>> /\ Threads' = Threads /\ Tuples' = Tuples
  BY SameSetup DEF Arrive, table, shared, Tuples
<1>2. CASE called + 1 # setup.threads
  <2>1. UNCHANGED <<phase, scalar, imv>> /\ at' = [at EXCEPT ![t] = "wait"] /\ at[t] = "arrive"
    BY <1>2 DEF Arrive, locals
  <2>2. \A u \in Threads : at'[u] # "work" => at[u] # "work"
    BY <1>0, <2>1
  <2>3. CASE Building
    <3>1. \A u : Slice(u)' = Slice(u)
      BY <1>1, SameCarries
    <3>2. \A u, x : WaitsIn(u, x)' <=> WaitsIn(u, x)
      BY <1>1, <2>1, SameWaits
    <3>3. BuildsDone'
      BY <1>1, <2>2, <2>3, <3>1, <3>2 DEF FillInv, BuildInv, BuildsDone
    <3>4. BuildInv'
      BY <1>1, <2>1, <2>3, <3>3, StillBuild DEF FillInv
    <3> QED BY <1>1, <2>1, <2>3, <3>4, InsideFill
  <2>4. CASE ~Building
    <3>1. Numbered'
      BY <1>0, <1>1, <2>1, <2>2 DEF FillInv, Numbered
    <3> QED BY <1>1, <2>1, <2>4, <3>1, OutsideFill
  <2> QED BY <2>3, <2>4
<1>3. CASE called + 1 = setup.threads
  <2>1. PICK q : OpensTo(t, q)
    BY <1>3, BarrierOpens DEF TypesInv
  <2>2. /\ \A u \in Threads : at[u] # "work" /\ phase'[u] = q /\ at'[u] = "work"
        /\ Passes(phase[0], q.pc, q.run) /\ imv' = [u \in Threads |-> ImvStart]
        /\ scalar' = [u \in Threads |-> ScalarStart]
    BY <1>0, <2>1 DEF OpensTo
  <2>3. phase'[0] = q /\ at'[0] = "work" /\ at[0] # "work"
    BY <1>0, <2>2
  <2>4. Numbered'
    <3>1. ASSUME q.pc \in {"fetch", "build"} PROVE ht = q.run + 1
      <4>1. phase[0].pc \in {"allocate", "fetch"} /\ phase[0].run = q.run
        BY <2>2, <3>1 DEF Passes
      <4> QED BY <2>3, <4>1 DEF FillInv, Numbered
    <3> QED BY <1>1, <2>3, <3>1 DEF Numbered
  <2>5. Complete'
    <3> SUFFICES ASSUME q.pc \in {"release", "ready", "probe", "end"},
                        setup.threads = 1 \/ ht <= RunNums, NEW x \in Tuples
                 PROVE  InTable(x)
      <4>1. \A y : InTable(y) <=> InTable(y)'
        BY <1>1, SameTable
      <4>2. TableBuilt' <=> q.pc \in {"release", "ready", "probe", "end"}
        BY <2>3 DEF TableBuilt
      <4> QED BY <1>1, <4>1, <4>2 DEF Complete
    <3>1. CASE phase[0].pc = "build"
      <4>1. ht = phase[0].run + 1 /\ Building /\ BuildInv
        BY <3>1 DEF FillInv, Numbered, Building
      <4>2. Exact
        <5>1. CASE setup.threads = 1
          BY <5>1 DEF Exact
        <5>2. CASE ht <= RunNums
          <6>1. PICK run \in Nat : run = phase[0].run
            BY <1>0, FillOK DEF LinkInv, ControlOK
          <6>2. run + 1 <= RunNums /\ RunNums \in Nat \ {0}
            BY <4>1, <5>2, <6>1, BoundsAssumption
          <6>3. run \div RunNums = 0
            BY <6>1, <6>2
          <6> QED BY <6>1, <6>3 DEF Exact, Fid
        <5> QED BY <5>1, <5>2
      <4>3. BuildsDone /\ There
        BY <4>1, <4>2 DEF BuildInv
      <4> QED BY <1>0, <2>2, <4>3, AllBuilt
    <3>2. CASE phase[0].pc # "build"
      <4>1. TableBuilt
        BY <2>2, <3>2 DEF Passes, TableBuilt
      <4> QED BY <4>1 DEF FillInv, Complete
    <3> QED BY <3>1, <3>2
  <2>6. Building' => BuildInv'
    <3>1. CASE q.pc = "build"
      <4>1. Emptied
        BY <2>2, <3>1 DEF Passes, Emptied
      <4>2. EmptyHead' = EmptyHead
        BY <1>1 DEF EmptyHead
      <4>3. Starting'
        BY <1>0, <1>1, <2>2, <3>1, <4>1, <4>2 DEF BuffersInv, Starting
      <4> QED BY <4>3, StartingFills, PTL
    <3>2. CASE q.pc # "build"
      BY <2>3, <3>2 DEF Building
    <3> QED BY <3>1, <3>2
  <2> QED BY <2>4, <2>5, <2>6 DEF FillInv
<1> QED BY <1>2, <1>3

LEMMA InitFillInv == Init => FillInv
<1> SUFFICES ASSUME Init PROVE FillInv
  OBVIOUS
<1>1. phase[0].pc = "setup"
  <2>1. 0 \in Threads
    BY InitTypesInv, SetupFacts DEF TypesInv, TableInv, LatchInv
  <2> QED BY <2>1 DEF Init, At
<1> QED BY <1>1 DEF FillInv, Numbered, Complete, TableBuilt, Building

LEMMA NextFillInv ==
  ASSUME TypesInv, BuffersInv, OnceInv, FillInv, [Next]_vars
  PROVE  FillInv'
<1>1. CASE UNCHANGED vars
  BY <1>1, StillFill DEF vars, table, locals, shared
<1>2. ASSUME MainJoins \/ Ended PROVE FillInv'
  <2>1. UNCHANGED <<setup, phase, at, ht, heads, scalar, imv>>
    BY <1>2 DEF MainJoins, Ended, vars, table, locals, shared
  <2> QED BY <2>1, StillFill
<1> QED BY <1>1, <1>2, LockingFill, WorkFill, EndingFill, PhasingFill, ArriveFill, FlatNext

LEMMA AlwaysFillInv == Spec => [](TypesInv /\ BuffersInv /\ OnceInv /\ FillInv)
<1>1. TypesInv /\ BuffersInv /\ OnceInv /\ FillInv /\ [Next]_vars
        => (TypesInv /\ BuffersInv /\ OnceInv /\ FillInv)'
  BY NextTypesInv, NextBuffersInv, NextOnceInv, NextFillInv
<1> QED BY <1>1, InitTypesInv, InitBuffersInv, InitOnceInv, InitFillInv, PTL DEF Spec

\* What is in the table has a place.
LEMMA PlaceInTable ==
  ASSUME TableTyped, NEW x, InTable(x)
  PROVE  PlacesOf(x) # {}
<1>1. PICK b \in Heads : Stores(heads[b], x)
  BY DEF InTable
<1>2. CASE \E j \in SlotNums : heads[b].tuples[j] = x
  <2>1. PICK j \in SlotNums : heads[b].tuples[j] = x
    BY <1>2
  <2>2. PICK s : s = <<b, 0, j>>
    OBVIOUS
  <2>3. s \in SlotsOf(b) /\ InSlot(s) = x
    BY <2>1, <2>2 DEF SlotsOf, SlotNums, InSlot
  <2> QED BY <2>3 DEF PlacesOf
<1>3. CASE \E c \in CellsIn(heads[b].chain), j \in SlotNums : c.tuples[j] = x
  <2>1. PICK c \in DOMAIN heads[b].chain, j \in SlotNums : heads[b].chain[c].tuples[j] = x
    BY <1>3 DEF CellsIn
  <2>2. PICK s : s = <<b, c, j>>
    OBVIOUS
  <2>3. c # 0
    <3>1. PICK chain \in Chains : chain = heads[b].chain
      BY DEF TableTyped, Buckets
    <3> QED BY <2>1, <3>1 DEF Chains
  <2>4. s \in SlotsOf(b) /\ InSlot(s) = x
    BY <2>1, <2>2, <2>3 DEF SlotsOf, SlotNums, InSlot
  <2> QED BY <2>4 DEF PlacesOf
<1> QED BY <1>1, <1>2, <1>3 DEF Stores

\* No build writes a tuple to two slots, and after a build with latches, or with
\* vectors by one thread, every tuple of R is in a slot, whatever the threads,
\* lanes, vector states and overflow buckets.
THEOREM AlwaysTuplesOnce == Spec => []TuplesOnce
<1>1. TypesInv /\ BuffersInv /\ OnceInv /\ FillInv => TuplesOnce
  <2> SUFFICES ASSUME TypesInv, BuffersInv, OnceInv, FillInv PROVE TuplesOnce
    OBVIOUS
  <2>1. TableTyped /\ DistinctChains /\ Owned /\ Single
    BY DEF TypesInv, BuffersInv, OnceInv
  <2>2. ASSUME NEW x \in Tuples
        PROVE  /\ Cardinality(PlacesOf(x)) <= 1
               /\ PlacesOf(x) # {} => Cardinality(PlacesOf(x)) = 1
    <3>1. \A s, u \in PlacesOf(x) : s = u
      BY <2>1, OnePlace
    <3> QED BY <3>1, AtMostOne
  <2>3. ASSUME TableBuilt, setup.threads = 1 \/ ht <= RunNums, NEW x \in Tuples
        PROVE  PlacesOf(x) # {}
    BY <2>1, <2>3, PlaceInTable DEF FillInv, Complete
  <2> QED BY <2>2, <2>3 DEF TuplesOnce
<1> QED BY <1>1, AlwaysFillInv, PTL

-----------------------------------------------------------------------------
(* The table of a vectorised build.  It has tuples in first slots only, each *)
(* behind the bucket the vector functions look in, its latches are free, and *)
(* a head that counts nothing has nothing.                                   *)
Placed(tuples, b) ==
  \A j \in SlotNums :
    tuples[j] = NoTuple \/ (j = 1 /\ tuples[1] \in Tuples /\ setup.vidx[tuples[1]] = b)
AllPlaced ==
  \A e \in Heads :
    Placed(heads[e].tuples, e) /\ \A c : Behind(e, c) => Placed(c.tuples, e)
Counted(h) == h.count = 0 => h.chain = << >> /\ \A j \in SlotNums : h.tuples[j] = NoTuple
VectorTable == AllPlaced /\ \A e \in Heads : latch[e] = Free /\ Counted(heads[e])

LEMMA SamePlaced ==
  ASSUME setup' = setup
  PROVE  /\ Tuples' = Tuples /\ SlotNums' = SlotNums
         /\ \A tuples, b : Placed(tuples, b)' <=> Placed(tuples, b)
         /\ \A h : Counted(h)' <=> Counted(h)
BY DEF Placed, Tuples, SlotNums, Counted

\* A bucket that descends from one behind e, with at most its first slot written.
LEMMA CellPlaced ==
  ASSUME NEW e, NEW c, NEW d, NEW x, NEW s, SameCell(c, d, x, s), Placed(d.tuples, e),
         \A j \in SlotNums : s # CellSpot(PlaceOf(c), j)
  PROVE  Placed(c.tuples, e)
<1>1. \A j \in SlotNums : c.tuples[j] = d.tuples[j]
  BY DEF SameCell
<1> QED BY <1>1 DEF Placed

\* A tuple written to the first slot of its bucket, or of a new one behind it.
LEMMA StepPlaced ==
  ASSUME setup' = setup, AllPlaced, AllGot,
         NEW x \in Tuples, NEW s, NEW b, NEW a, TableStep(x, s, b, a),
         NEW h \in Heads, setup.vidx[x] = h,
         s = HeadSpot(h, 1) \/ (b = h /\ s = CellSpot(a, 1))
  PROVE  AllPlaced'
<1>1. ASSUME NEW e \in Heads PROVE Placed(heads'[e].tuples, e)
  <2>1. Placed(heads[e].tuples, e)
    BY DEF AllPlaced
  <2>2. ASSUME NEW j \in SlotNums, heads'[e].tuples[j] # heads[e].tuples[j]
        PROVE  heads'[e].tuples[j] = x /\ j = 1 /\ h = e
    BY <2>2 DEF TableStep, HeadsStep, HeadSpot, CellSpot
  <2> QED BY <2>1, <2>2 DEF Placed
<1>2. ASSUME NEW e \in Heads, NEW c, Behind(e, c)' PROVE Placed(c.tuples, e)
  <2>1. CASE Descends(e, c, x, s)
    <3>1. PICK d : Behind(e, d) /\ SameCell(c, d, x, s)
      BY <2>1 DEF Descends
    <3>2. ASSUME NEW j \in SlotNums, s = CellSpot(PlaceOf(c), j) PROVE FALSE
      <4>1. b = h /\ PlaceOf(c) = a
        BY <3>2 DEF HeadSpot, CellSpot
      <4>2. Got(PlaceOf(d)) /\ PlaceOf(d) = PlaceOf(c) /\ ~Got(a)
        BY <3>1, <4>1 DEF AllGot, SameCell, TableStep
      <4> QED BY <4>1, <4>2
    <3> QED BY <3>1, <3>2, CellPlaced DEF AllPlaced
  <2>2. CASE e = b /\ FreshCell(c, a, x, s)
    <3>1. ASSUME NEW j \in SlotNums, c.tuples[j] # NoTuple
          PROVE  c.tuples[j] = x /\ j = 1 /\ h = e
      BY <2>2, <3>1 DEF FreshCell, HeadSpot, CellSpot
    <3> QED BY <3>1 DEF Placed
  <2> QED BY <1>2, <2>1, <2>2 DEF TableStep, CellsStep
<1> QED BY <1>1, <1>2, SamePlaced DEF AllPlaced

LEMMA KeptPlaced ==
  ASSUME setup' = setup, AllPlaced, TableKept
  PROVE  AllPlaced'
<1>1. ASSUME NEW e \in Heads PROVE Placed(heads'[e].tuples, e)
  <2>1. \A j \in SlotNums : heads'[e].tuples[j] = heads[e].tuples[j]
    BY DEF TableKept, TableStep, HeadsStep, HeadSpot, NoSpot
  <2> QED BY <2>1 DEF AllPlaced, Placed
<1>2. ASSUME NEW e \in Heads, NEW c, Behind(e, c)' PROVE Placed(c.tuples, e)
  <2>1. Descends(e, c, NoTuple, NoSpot)
    BY <1>2 DEF TableKept, TableStep, CellsStep, NoBucket, Heads
  <2>2. PICK d : Behind(e, d) /\ SameCell(c, d, NoTuple, NoSpot)
    BY <2>1 DEF Descends
  <2>3. \A j \in SlotNums : NoSpot # CellSpot(PlaceOf(c), j)
    BY DEF NoSpot, CellSpot
  <2> QED BY <2>2, <2>3, CellPlaced DEF AllPlaced
<1> QED BY <1>1, <1>2, SamePlaced DEF AllPlaced

\* An emptied table.
LEMMA EmptyPlaced ==
  ASSUME setup \in Setups, EmptyTable, \A e \in Heads : latch[e] = Free
  PROVE  VectorTable
<1>1. EmptyHead.chain = << >> /\ \A j \in SlotNums : EmptyHead.tuples[j] = NoTuple
  BY DEF EmptyHead, SlotNums
<1>2. AllPlaced
  BY <1>1 DEF AllPlaced, Placed, EmptyTable
<1>3. \A e \in Heads : Counted(heads[e])
  BY <1>1 DEF EmptyTable, Counted
<1> QED BY <1>2, <1>3 DEF VectorTable

-----------------------------------------------------------------------------
(* The lanes of the vector functions by the stage of their state: the bucket *)
(* is that of the tuple once the model was asked, its head counts something  *)
(* once the head was seen to, and the chain is not entered before.           *)
Occupied(b) == heads[b].count # 0
InGrade(l, g) ==
  /\ g # "model" => l.head = setup.vidx[l.tuple]
  /\ g = "chain" => Occupied(l.head)
  /\ g # "chain" => l.pos = 0
Graded(m) == \A p \in Held(m) : InGrade(LaneOf(m, p), Level(m, p[1]))
\* Of the lanes whose heads were read those not chosen have one that counts; so
\* have, after the scatter, those that shared the head of a lane chosen.
Settled(m) ==
  m.st[m.k].stage = "head" =>
    /\ m.op = "gather" =>
         \A i \in m.st[m.k].have \ m.left : i \in m.chosen \/ Occupied(LaneHead(m, i))
    /\ m.op = "scatter" =>
         \A i \in m.st[m.k].have :
           Occupied(LaneHead(m, i)) \/ \E j \in m.left : LaneHead(m, j) = LaneHead(m, i)
GoesGraded(t) == \E r : Goes(t, r) /\ Graded(r) /\ Settled(r)

LEMMA WorkGraded ==
  ASSUME NEW m, Graded(m), NEW r, SameWork(r, m)
  PROVE  Graded(r)
BY DEF Graded, SameWork

\* What a case left in hand was graded, or goes on to a head that counts.
LEMMA RegradedIn ==
  ASSUME NEW m, NEW have, NEW r, Graded(m), Regraded(r, m, have),
         \A q \in Kept(m, have) : q[1] = m.k => InGrade(LaneOf(m, q), "chain")
  PROVE  Graded(r)
<1>1. ASSUME NEW p \in Held(r) PROVE InGrade(LaneOf(r, p), Level(r, p[1]))
  <2>1. PICK q \in Kept(m, have) :
          /\ LaneOf(r, p) = LaneOf(m, q)
          /\ Level(r, p[1]) = Level(m, q[1]) \/ (q[1] = m.k /\ Level(r, p[1]) = "chain")
    BY DEF Regraded
  <2>2. InGrade(LaneOf(m, q), Level(m, q[1]))
    BY DEF Graded, Kept
  <2> QED BY <2>1, <2>2
<1> QED BY <1>1 DEF Graded

LEMMA TurnSettled ==
  ASSUME NEW r, r.op = "turn"
  PROVE  Settled(r)
BY DEF Settled

LEMMA LoadsGraded ==
  ASSUME NEW t, NEW r, NEW w, LoadsNext(t, r, w), Graded(imv[t])
  PROVE  Graded(r)
<1>1. Graded(w)
  BY WorkGraded DEF LoadsNext
<1>2. PICK lanes :
        /\ Loads(r, w, NumTuples(t), lanes)
        /\ \A j \in 1 .. NumTuples(t) :
             /\ lanes[j].tuple = First(t) + j /\ lanes[j].pos = 0
             /\ \/ r.st[w.k].stage = "model"
                \/ /\ r.st[w.k].stage = "head"
                   /\ lanes[j].head = setup.vidx[First(t) + j]
  BY DEF LoadsNext
<1>3. w.k \in States /\ w.k # Residual
  BY DEF LoadsNext
<1>4. ASSUME NEW p \in Held(r) PROVE InGrade(LaneOf(r, p), Level(r, p[1]))
  <2>1. p[1] \in States /\ p[2] \in r.st[p[1]].have
    BY DEF Held
  <2>2. CASE p[1] = w.k
    <3>1. PICK j \in 1 .. NumTuples(t) : LaneOf(r, p) = lanes[j]
      BY <1>2, <2>1, <2>2 DEF Loads, LaneOf
    <3>2. Level(r, p[1]) = r.st[w.k].stage
      BY <1>3, <2>2 DEF Level
    <3> QED BY <1>2, <3>1, <3>2 DEF InGrade
  <2>3. CASE p[1] # w.k
    <3>1. r.st[p[1]] = w.st[p[1]]
      BY <1>2, <2>1, <2>3 DEF Loads, SameOthers
    <3>2. p \in Held(w) /\ LaneOf(r, p) = LaneOf(w, p) /\ Level(r, p[1]) = Level(w, p[1])
      BY <2>1, <3>1 DEF Held, LaneOf, Level
    <3> QED BY <1>1, <3>2 DEF Graded
  <2> QED BY <2>2, <2>3
<1> QED BY <1>4 DEF Graded

\* Another machine with the lanes and stages of m but for the state of index k.
LEMMA OthersGraded ==
  ASSUME NEW m, Graded(m), NEW r, NEW k, SameOthers(r, m, {k}),
         \A i \in Lanes : i \in r.st[k].have => InGrade(r.st[k].lane[i], Level(r, k))
  PROVE  Graded(r)
<1>1. ASSUME NEW p \in Held(r), p[1] # k PROVE InGrade(LaneOf(r, p), Level(r, p[1]))
  <2>1. p[1] \in States /\ r.st[p[1]] = m.st[p[1]]
    BY <1>1 DEF Held, SameOthers
  <2>2. p \in Held(m) /\ LaneOf(r, p) = LaneOf(m, p) /\ Level(r, p[1]) = Level(m, p[1])
    BY <2>1 DEF Held, LaneOf, Level
  <2> QED BY <2>2 DEF Graded
<1>2. ASSUME NEW p \in Held(r), p[1] = k PROVE InGrade(LaneOf(r, p), Level(r, p[1]))
  BY <1>2 DEF Held, LaneOf
<1> QED BY <1>1, <1>2 DEF Graded

\* A lane of the state that is worked on.
LEMMA LaneGraded ==
  ASSUME NEW m, Graded(m), m.k \in States, NEW i \in Lanes, i \in m.st[m.k].have
  PROVE  InGrade(m.st[m.k].lane[i], Level(m, m.k))
<1>1. PICK p : p = <<m.k, i>>
  OBVIOUS
<1>2. p \in Held(m) /\ LaneOf(m, p) = m.st[m.k].lane[i] /\ p[1] = m.k
  BY <1>1 DEF Held, LaneOf
<1> QED BY <1>2 DEF Graded

LEMMA ModelGraded ==
  ASSUME NEW t, NEW r, ModelPlaces(t, r), Graded(imv[t])
  PROVE  Graded(r)
<1>1. PICK w : /\ SameWork(w, imv[t]) /\ w.k \in States \ {Residual} /\ SameOthers(r, w, {w.k})
               /\ w.st[w.k].stage = "model" /\ r.st[w.k].stage = "head"
               /\ r.st[w.k].have = w.st[w.k].have
               /\ \A i \in w.st[w.k].have :
                    /\ w.st[w.k].lane[i].tuple \in Slice(t)
                    /\ r.st[w.k].lane[i].tuple = w.st[w.k].lane[i].tuple
                    /\ r.st[w.k].lane[i].pos = w.st[w.k].lane[i].pos
                    /\ r.st[w.k].lane[i].head = setup.vidx[w.st[w.k].lane[i].tuple]
  BY DEF ModelPlaces
<1>2. Graded(w)
  BY <1>1, WorkGraded
<1>3. Level(w, w.k) = "model" /\ Level(r, w.k) = "head"
  BY <1>1 DEF Level
<1>4. ASSUME NEW i \in Lanes, i \in r.st[w.k].have PROVE InGrade(r.st[w.k].lane[i], "head")
  <2>1. InGrade(w.st[w.k].lane[i], "model")
    BY <1>1, <1>2, <1>3, <1>4, LaneGraded
  <2> QED BY <1>1, <1>4, <2>1 DEF InGrade
<1> QED BY <1>1, <1>2, <1>3, <1>4, OthersGraded

\* Of the lanes chosen one is kept for every head.
LEMMA OneForEach ==
  ASSUME NEW S \in SUBSET Lanes, NEW addr, NEW i \in S
  PROVE  \E j \in FirstOfEach(S, addr) : addr[j] = addr[i]
<1>1. PICK m : m = {j \in S : addr[j] = addr[i]}
  OBVIOUS
<1>2. m \in SUBSET Lanes /\ i \in m
  BY <1>1
<1>3. Cardinality(m) \in Nat /\ Cardinality(m) >= 1
  BY <1>2, MaskFinite, LanesAssumption
<1>4. PICK j \in m : Rank(m, j) = 1
  BY <1>2, <1>3, RankReaches
<1>5. ASSUME NEW l \in m, l < j PROVE FALSE
  <2>1. Rank(m, l) < 1 /\ Rank(m, l) \in 1 .. Cardinality(m)
    BY <1>2, <1>4, <1>5, RankGrows
  <2> QED BY <1>3, <2>1
<1> QED BY <1>1, <1>4, <1>5 DEF FirstOfEach

\* Registers leave the lanes and the stages alone.
LEMMA RegistersGraded ==
  ASSUME NEW m, Graded(m), NEW op, NEW left, NEW chosen, NEW next,
         NEW r, RegistersIs(r, m, op, left, chosen, next)
  PROVE  /\ Graded(r) /\ r.k = m.k /\ r.st = m.st /\ r.op = op /\ r.left = left
         /\ r.chosen = chosen /\ \A i : LaneHead(r, i) = LaneHead(m, i)
<1>1. r.st = m.st /\ r.k = m.k
  BY DEF RegistersIs
<1>2. Held(r) = Held(m) /\ \A p : LaneOf(r, p) = LaneOf(m, p) /\ Level(r, p[1]) = Level(m, p[1])
  BY <1>1 DEF Held, LaneOf, Level
<1> QED BY <1>1, <1>2 DEF Graded, RegistersIs, LaneHead

LEMMA HeadGraded ==
  ASSUME VectorOK, NEW t \in Threads, NEW i \in Lanes, NEW r, HeadGathered(t, i, r),
         imv[t].op = "gather", \A e \in Heads : latch[e] = Free,
         LaneHead(imv[t], i) \in Heads, Graded(imv[t]), Settled(imv[t])
  PROVE  Graded(r) /\ Settled(r)
<1>1. PICK m : m = imv[t]
  OBVIOUS
<1>2. PICK chosen :
        /\ RegistersIs(r, m, "gather", m.left \ {i}, chosen, m.next)
        /\ \/ chosen = m.chosen /\ Occupied(LaneHead(m, i))
           \/ chosen = m.chosen \union {i}
  BY <1>1 DEF HeadGathered, HeadOf, Current, LaneHead, Occupied
<1>3. /\ Graded(r) /\ r.k = m.k /\ r.st = m.st /\ r.op = "gather" /\ r.left = m.left \ {i}
      /\ r.chosen = chosen /\ \A j : LaneHead(r, j) = LaneHead(m, j)
  BY <1>1, <1>2, RegistersGraded
<1>4. ASSUME m.st[m.k].stage = "head", NEW j \in m.st[m.k].have \ (m.left \ {i})
      PROVE  j \in chosen \/ Occupied(LaneHead(m, j))
  <2>1. CASE j = i
    BY <1>2, <2>1
  <2>2. CASE j # i
    BY <1>1, <1>2, <1>4, <2>2 DEF Settled
  <2> QED BY <2>1, <2>2
<1>5. Settled(r)
  BY <1>3, <1>4 DEF Settled
<1> QED BY <1>3, <1>5

\* A gather ends: without a lane chosen every head counts something.
LEMMA GatheredGraded ==
  ASSUME VectorOK, NEW t \in Threads, NEW r, GatherEnded(t, r),
         imv[t].op = "gather", imv[t].left = {}, Graded(imv[t]), Settled(imv[t])
  PROVE  Graded(r) /\ Settled(r)
<1>1. PICK m : m = imv[t] /\ m.op = "gather" /\ m.left = {} /\ Graded(m) /\ Settled(m)
  OBVIOUS
<1>2. AtWork(m) /\ m.chosen \in SUBSET Lanes
  BY <1>1, AtGather
<1>3. /\ m.k \in States /\ m.st[m.k].stage \in {"head", "chain"}
      /\ Level(m, m.k) \in {"head", "chain"}
      /\ Level(m, m.k) = "head" => m.st[m.k].stage = "head"
  BY <1>2 DEF AtWork, Level
<1>4. CASE /\ r.op = "turn" /\ m.chosen = {} /\ SameOthers(r, m, {m.k})
           /\ r.st[m.k].stage = "chain" /\ SameMasks(r, m)
  <2>1. ASSUME NEW i \in Lanes, i \in r.st[m.k].have
        PROVE  InGrade(r.st[m.k].lane[i], Level(r, m.k))
    <3>1. i \in m.st[m.k].have /\ r.st[m.k].lane[i] = m.st[m.k].lane[i]
      BY <1>3, <1>4, <2>1 DEF SameMasks
    <3>2. InGrade(m.st[m.k].lane[i], Level(m, m.k))
      BY <1>1, <1>3, <3>1, LaneGraded
    <3>3. Level(m, m.k) = "head" => Occupied(m.st[m.k].lane[i].head)
      BY <1>1, <1>3, <1>4, <3>1 DEF Settled, LaneHead
    <3>4. Level(r, m.k) = "chain"
      BY <1>4 DEF Level
    <3> QED BY <1>3, <3>1, <3>2, <3>3, <3>4 DEF InGrade
  <2> QED BY <1>1, <1>4, <2>1, OthersGraded, TurnSettled
<1>5. CASE RegistersIs(r, m, "scatter", NoConflict(t), NoConflict(t), m.next)
  <2>1. /\ Graded(r) /\ r.k = m.k /\ r.st = m.st /\ r.op = "scatter" /\ r.left = NoConflict(t)
        /\ \A i : LaneHead(r, i) = LaneHead(m, i)
    BY <1>1, <1>5, RegistersGraded
  <2>2. PICK addr : addr = [i \in Lanes |-> LaneHead(m, i)]
    OBVIOUS
  <2>3. NoConflict(t) = FirstOfEach(m.chosen, addr)
    BY <1>1, <2>2 DEF NoConflict, LaneHead, Current
  <2>4. ASSUME m.st[m.k].stage = "head", NEW i \in m.st[m.k].have
        PROVE  \/ Occupied(LaneHead(m, i))
               \/ \E j \in NoConflict(t) : LaneHead(m, j) = LaneHead(m, i)
    <3>1. CASE i \in m.chosen
      <4>1. PICK j \in FirstOfEach(m.chosen, addr) : addr[j] = addr[i]
        BY <1>2, <3>1, OneForEach
      <4>2. j \in Lanes /\ i \in Lanes
        BY <1>2, <3>1, <4>1 DEF FirstOfEach
      <4> QED BY <2>2, <2>3, <4>1, <4>2
    <3>2. CASE i \notin m.chosen
      BY <1>1, <2>4, <3>2 DEF Settled
    <3> QED BY <3>1, <3>2
  <2>5. Settled(r)
    BY <2>1, <2>4 DEF Settled
  <2> QED BY <2>1, <2>5
<1> QED BY <1>1, <1>4, <1>5 DEF GatherEnded

\* After the scatter every head of the state counts something.
LEMMA ScatteredGraded ==
  ASSUME VectorOK, NEW t \in Threads, NEW r, NEW w, ScatterEnded(t, r, w),
         imv[t].op = "scatter", imv[t].left = {}, Graded(imv[t]), Settled(imv[t])
  PROVE  Graded(r) /\ Settled(r)
<1>1. PICK m : m = imv[t] /\ m.op = "scatter" /\ m.left = {} /\ Graded(m) /\ Settled(m)
  OBVIOUS
<1>2. AtWork(m)
  BY <1>1, AtGather
<1>3. /\ m.k \in States /\ Level(m, m.k) \in {"head", "chain"}
      /\ Level(m, m.k) = "head" => m.st[m.k].stage = "head"
  BY <1>2 DEF AtWork, Level
<1>4. PICK have : /\ DroppedIs(w, m) /\ r.op = "turn" /\ Regraded(r, w, have)
  BY <1>1 DEF ScatterEnded
<1>5. w.st = m.st /\ w.k = m.k
  BY <1>4 DEF DroppedIs
<1>6. Held(w) = Held(m) /\ \A p : LaneOf(w, p) = LaneOf(m, p) /\ Level(w, p[1]) = Level(m, p[1])
  BY <1>5 DEF Held, LaneOf, Level
<1>7. Graded(w)
  BY <1>1, <1>6 DEF Graded
<1>8. ASSUME NEW q \in Kept(w, have), q[1] = w.k PROVE InGrade(LaneOf(w, q), "chain")
  <2>1. q \in Held(m) /\ q[1] = m.k /\ q[2] \in m.st[m.k].have
    BY <1>5, <1>6, <1>8 DEF Kept, Held
  <2>2. InGrade(LaneOf(m, q), Level(m, m.k)) /\ LaneOf(m, q) = m.st[m.k].lane[q[2]]
    BY <1>1, <2>1 DEF Graded, LaneOf
  <2>3. Level(m, m.k) = "head" => Occupied(LaneOf(m, q).head)
    BY <1>1, <1>3, <2>1, <2>2 DEF Settled, LaneHead
  <2> QED BY <1>3, <1>6, <2>2, <2>3 DEF InGrade
<1>9. Graded(r)
  BY <1>4, <1>7, <1>8, RegradedIn
<1> QED BY <1>4, <1>9, TurnSettled

LEMMA ProbeHeadGraded ==
  ASSUME NEW t, NEW r, NEW w, HeadProbed(t, r, w), Graded(imv[t])
  PROVE  Graded(r)
<1>1. PICK have : /\ have = {i \in w.st[w.k].have : heads[w.st[w.k].lane[i].head].count # 0}
                  /\ Regraded(r, w, have)
  BY DEF HeadProbed, ContinueGoesTo
<1>2. Graded(w) /\ w.k \in States /\ Level(w, w.k) = "head"
  BY WorkGraded DEF HeadProbed, Level
<1>3. ASSUME NEW q \in Kept(w, have), q[1] = w.k PROVE InGrade(LaneOf(w, q), "chain")
  <2>1. q \in Held(w) /\ q[2] \in have
    BY <1>3 DEF Kept
  <2>2. InGrade(LaneOf(w, q), "head") /\ LaneOf(w, q) = w.st[w.k].lane[q[2]]
    BY <1>2, <1>3, <2>1 DEF Graded, LaneOf
  <2>3. Occupied(LaneOf(w, q).head)
    BY <1>1, <2>1, <2>2 DEF Occupied
  <2> QED BY <2>2, <2>3 DEF InGrade
<1> QED BY <1>1, <1>2, <1>3, RegradedIn

LEMMA ProbeChainGraded ==
  ASSUME NEW t, NEW r, NEW w, NEW a, ChainProbed(t, r, w, a), Graded(imv[t])
  PROVE  Graded(r)
<1>1. PICK have : Regraded(r, a, have)
  BY DEF ChainProbed, ContinueGoesTo
<1>2. /\ Graded(w) /\ w.k \in States /\ Level(w, w.k) = "chain" /\ a.k = w.k
      /\ SameOthers(a, w, {w.k}) /\ a.st[w.k].have = w.st[w.k].have
      /\ \A i \in w.st[w.k].have :
           /\ a.st[w.k].lane[i].tuple = w.st[w.k].lane[i].tuple
           /\ a.st[w.k].lane[i].head = w.st[w.k].lane[i].head
      /\ Level(a, w.k) = "chain"
  BY WorkGraded DEF ChainProbed, Advanced, Level
<1>3. ASSUME NEW i \in Lanes, i \in a.st[w.k].have PROVE InGrade(a.st[w.k].lane[i], "chain")
  <2>1. InGrade(w.st[w.k].lane[i], "chain")
    BY <1>2, <1>3, LaneGraded
  <2> QED BY <1>2, <1>3, <2>1 DEF InGrade
<1>4. Graded(a)
  BY <1>2, <1>3, OthersGraded
<1>5. ASSUME NEW q \in Kept(a, have), q[1] = a.k PROVE InGrade(LaneOf(a, q), "chain")
  <2>1. q \in Held(a)
    BY <1>5 DEF Kept
  <2> QED BY <1>2, <1>4, <1>5, <2>1 DEF Graded
<1> QED BY <1>1, <1>4, <1>5, RegradedIn

\* A step of the vector functions that does not write.
LEMMA StepGraded ==
  ASSUME VectorOK, setup \in Setups, heads \in [Heads -> Buckets], NEW t \in Threads,
         VectorWork(t), ~Scattering(t), \A e \in Heads : latch[e] = Free,
         Graded(imv[t]), Settled(imv[t])
  PROVE  GoesGraded(t)
<1>1. CASE ImvRetire(t) \/ ImvSkip(t)
  <2>1. PICK r : Goes(t, r) /\ r.op = "turn" /\ SameWork(r, imv[t])
    BY <1>1, RetireGoes, SkipGoes
  <2> QED BY <2>1, WorkGraded, TurnSettled DEF GoesGraded
<1>2. CASE ImvLoad(t) \/ LearnedLoad(t)
  <2>1. PICK r, w : Goes(t, r) /\ r.op = "turn" /\ LoadsNext(t, r, w)
    BY <1>2, LoadGoes
  <2> QED BY <2>1, LoadsGraded, TurnSettled DEF GoesGraded
<1>3. CASE ImvModel(t)
  <2>1. PICK r : Goes(t, r) /\ r.op = "turn" /\ ModelPlaces(t, r)
    BY <1>3, ModelGoes
  <2> QED BY <2>1, ModelGraded, TurnSettled DEF GoesGraded
<1>4. CASE GatherStart(t)
  <2>1. PICK r : Goes(t, r) /\ GatherStarted(t, r)
    BY <1>4, GatherStartGoes
  <2>2. Graded(r)
    BY <2>1, WorkGraded DEF GatherStarted
  <2>3. Settled(r)
    BY <2>1 DEF Settled, GatherStarted
  <2> QED BY <2>1, <2>2, <2>3 DEF GoesGraded
<1>5. ASSUME NEW i \in Lanes, GatherHead(t, i) PROVE GoesGraded(t)
  <2>1. PICK r : Goes(t, r) /\ HeadGathered(t, i, r)
    BY <1>5, GatherHeadGoes
  <2>2. PICK m : m = imv[t] /\ m.op = "gather"
    BY <1>5 DEF GatherHead, Running
  <2>3. m.st[m.k].lane \in [Lanes -> LaneValues]
    BY <2>2, AtGather
  <2>4. LaneHead(m, i) \in Heads
    BY <2>3 DEF LaneHead, LaneValues
  <2> QED BY <2>1, <2>2, <2>4, HeadGraded DEF GoesGraded
<1>6. ASSUME NEW i \in Lanes, GatherNext(t, i) PROVE GoesGraded(t)
  <2>1. PICK r : Goes(t, r) /\ NextGathered(t, i, r)
    BY <1>6, GatherNextGoes
  <2>2. PICK m : m = imv[t] /\ m.st[m.k].stage = "chain"
    BY <1>6 DEF GatherNext, Current
  <2>3. Graded(r) /\ r.k = m.k /\ r.st = m.st
    BY <2>1, <2>2, RegistersGraded DEF NextGathered
  <2>4. Settled(r)
    BY <2>2, <2>3 DEF Settled
  <2> QED BY <2>1, <2>3, <2>4 DEF GoesGraded
<1>7. CASE Gathered(t)
  <2>1. PICK r : Goes(t, r) /\ GatherEnded(t, r)
    BY <1>7, GatheredGoes
  <2>2. imv[t].op = "gather" /\ imv[t].left = {}
    BY <1>7 DEF Gathered, Running
  <2> QED BY <2>1, <2>2, GatheredGraded DEF GoesGraded
<1>8. CASE Scattered(t)
  <2>1. PICK r, w : Goes(t, r) /\ ScatterEnded(t, r, w)
    BY <1>8, ScatteredGoes
  <2>2. imv[t].op = "scatter" /\ imv[t].left = {}
    BY <1>8 DEF Scattered, Running
  <2> QED BY <2>1, <2>2, ScatteredGraded DEF GoesGraded
<1>9. CASE ProbeHead(t)
  <2>1. PICK r, w : HeadProbed(t, r, w)
    BY <1>9, ProbeHeadGoes
  <2>2. Goes(t, r) /\ r.op = "turn"
    BY <2>1 DEF HeadProbed, ContinueGoesTo
  <2> QED BY <2>1, <2>2, ProbeHeadGraded, TurnSettled DEF GoesGraded
<1>10. CASE ProbeChain(t)
  <2>1. PICK r, w, a : ChainProbed(t, r, w, a)
    BY <1>10, ProbeChainGoes
  <2>2. Goes(t, r) /\ r.op = "turn"
    BY <2>1 DEF ChainProbed, ContinueGoesTo
  <2> QED BY <2>1, <2>2, ProbeChainGraded, TurnSettled DEF GoesGraded
<1> QED BY <1>1, <1>2, <1>3, <1>4, <1>5, <1>6, <1>7, <1>8, <1>9, <1>10
        DEF VectorWork, Turning, Counting

\* A scatter occupies the head it writes and leaves the others as they are.
LEMMA ScatterCounts ==
  ASSUME heads \in [Heads -> Buckets], NEW t \in Threads, NEW i \in Lanes,
         ScatterHead(t, i) \/ ScatterNext(t, i),
         NEW b \in Heads, b = LaneHead(imv[t], i)
  PROVE  /\ \A e \in Heads \ {b} : heads'[e] = heads[e]
         /\ ScatterHead(t, i) => heads'[b].count # 0
         /\ ScatterNext(t, i) => heads'[b].count = heads[b].count
<1>1. b = Current(t).lane[i].head
  BY DEF LaneHead, Current
<1>2. PICK h \in Buckets : h = heads[b]
  OBVIOUS
<1>3. CASE ScatterHead(t, i)
  <2>1. PICK x : heads' = [heads EXCEPT ![b].count = 1, ![b].tuples[1] = x]
    BY <1>1, <1>3 DEF ScatterHead
  <2>2. heads'[b] = [h EXCEPT !.count = 1, !.tuples[1] = x]
    BY <1>2, <2>1
  <2>3. heads'[b].count = 1
    BY <1>2, <2>2 DEF Buckets
  <2>4. ~ScatterNext(t, i)
    BY <1>3 DEF ScatterHead, ScatterNext
  <2> QED BY <1>3, <2>1, <2>3, <2>4
<1>4. CASE ScatterNext(t, i)
  <2>1. PICK x : heads' = [heads EXCEPT ![b].chain = x]
    BY <1>1, <1>4 DEF ScatterNext
  <2>2. heads'[b] = [h EXCEPT !.chain = x]
    BY <1>2, <2>1
  <2>3. heads'[b].count = h.count
    BY <2>2 DEF Buckets
  <2>4. ~ScatterHead(t, i)
    BY <1>4 DEF ScatterHead, ScatterNext
  <2> QED BY <1>2, <1>4, <2>1, <2>3, <2>4
<1> QED BY <1>3, <1>4

\* A head that counts something goes on doing so.
CountsGrow == \A e \in Heads : heads[e].count # 0 => heads'[e].count # 0

LEMMA GrownGraded ==
  ASSUME setup' = setup, CountsGrow, NEW u \in Threads, NEW m, MachineOK(u, m), Graded(m)
  PROVE  Graded(m)' /\ (Settled(m) => Settled(m)')
<1>1. \A p \in Held(m) : LaneOf(m, p).head \in Heads
  <2>1. \A p \in Held(m) : LaneOf(m, p) \in LaneValues
    BY DEF MachineOK, LoopInv, LanesOf
  <2> QED BY <2>1 DEF LaneValues
<1>2. ASSUME NEW p \in Held(m) PROVE InGrade(LaneOf(m, p), Level(m, p[1]))'
  BY <1>1 DEF Graded, InGrade, Occupied, CountsGrow
<1>3. Held(m)' = Held(m)
  BY DEF Held
<1>4. Graded(m)'
  BY <1>2, <1>3 DEF Graded
<1>5. ASSUME Settled(m) PROVE Settled(m)'
  <2>1. CASE m.op = "turn"
    BY <2>1 DEF Settled
  <2>2. CASE m.op # "turn"
    <3>1. m.k \in States /\ m \in Machines(LaneValues, Chains)
      BY <2>2 DEF MachineOK, LoopInv, MachineInv, AtWork
    <3>2. m.st[m.k].have \in SUBSET Lanes /\ m.st[m.k].lane \in [Lanes -> LaneValues]
      BY <3>1, StateTyped
    <3>3. \A i \in m.st[m.k].have : LaneHead(m, i) \in Heads
      BY <3>2 DEF LaneHead, LaneValues
    <3>4. \A i \in m.st[m.k].have : Occupied(LaneHead(m, i)) => Occupied(LaneHead(m, i))'
      BY <3>3 DEF Occupied, CountsGrow, LaneHead
    <3>5. \A i : LaneHead(m, i)' = LaneHead(m, i)
      BY DEF LaneHead
    <3> QED BY <1>5, <3>4, <3>5 DEF Settled
  <2> QED BY <2>1, <2>2
<1> QED BY <1>4, <1>5

VectorsGraded == \A t \in Threads : Graded(imv[t]) /\ Settled(imv[t])

LEMMA PrimedGraded ==
  ASSUME NEW u, NEW m, imv'[u] = m, Graded(m)', Settled(m)'
  PROVE  (Graded(imv[u]) /\ Settled(imv[u]))'
<1>1. Graded(imv[u])'
  BY DEF Graded
<1>2. Settled(imv[u])'
  BY DEF Settled
<1> QED BY <1>1, <1>2

\* A lane that a scatter writes has its bucket.
LEMMA ScatteredLane ==
  ASSUME VectorOK, setup \in Setups, NEW t \in Threads, NEW i \in Lanes,
         ScatterHead(t, i) \/ ScatterNext(t, i), Graded(imv[t]), Selects(imv[t]),
         NEW b, b = LaneHead(imv[t], i)
  PROVE  /\ LaneTuple(t, i) \in Tuples /\ b \in Heads /\ setup.vidx[LaneTuple(t, i)] = b
         /\ ScatterNext(t, i) => Occupied(b)
<1>1. PICK m : m = imv[t] /\ m.op = "scatter" /\ i \in m.left
  BY DEF ScatterHead, ScatterNext, Running
<1>2. AtWork(m) /\ m.st[m.k].lane \in [Lanes -> LaneValues]
      /\ \A j \in m.st[m.k].have : m.st[m.k].lane[j] \in LanesOf(t)
  BY <1>1, AtGather
<1>3. /\ m.k \in States /\ i \in m.st[m.k].have /\ m.st[m.k].stage \in {"head", "chain"}
      /\ Level(m, m.k) \in {"head", "chain"}
      /\ m.st[m.k].stage = "chain" => Level(m, m.k) = "chain"
  BY <1>1, <1>2 DEF AtWork, Selects, Level
<1>4. PICK l : l = m.st[m.k].lane[i]
  OBVIOUS
<1>5. InGrade(l, Level(m, m.k)) /\ l \in LanesOf(t)
  <2>1. Graded(m)
    BY <1>1
  <2>2. InGrade(l, Level(m, m.k))
    BY <1>3, <1>4, <2>1, LaneGraded
  <2> QED BY <1>2, <1>3, <1>4, <2>2
<1>6. l.tuple \in Tuples /\ l.head \in Heads
  BY <1>5, SliceTuples DEF LanesOf, LaneValues
<1>7. b = l.head /\ LaneTuple(t, i) = l.tuple
  BY <1>1, <1>4 DEF LaneHead, LaneTuple, Current
<1>8. ScatterNext(t, i) => m.st[m.k].stage = "chain"
  BY <1>1 DEF ScatterNext, Current
<1>9. l.head = setup.vidx[l.tuple] /\ (m.st[m.k].stage = "chain" => Occupied(l.head))
  BY <1>3, <1>5 DEF InGrade
<1> QED BY <1>6, <1>7, <1>8, <1>9

LEMMA ScatterTable ==
  ASSUME LinkInv, AllGot, VectorTable, NEW t \in Threads, NEW i \in Lanes,
         ScatterHead(t, i) \/ ScatterNext(t, i), Graded(imv[t]), Selects(imv[t])
  PROVE  VectorTable' /\ CountsGrow
<1>0. VectorOK /\ setup \in Setups /\ heads \in [Heads -> Buckets]
      /\ UNCHANGED <<setup, latch>>
  BY DEF LinkInv, ControlOK, TableTyped, ScatterHead, ScatterNext, Inside, ImvOnly
<1>1. PICK b, x : b = LaneHead(imv[t], i) /\ x = LaneTuple(t, i)
  OBVIOUS
<1>2. x \in Tuples /\ b \in Heads /\ setup.vidx[x] = b /\ (ScatterNext(t, i) => Occupied(b))
  BY <1>0, <1>1, ScatteredLane
<1>3. /\ \A e \in Heads \ {b} : heads'[e] = heads[e]
      /\ heads'[b].count # 0
  BY <1>0, <1>1, <1>2, ScatterCounts DEF Occupied
<1>4. AllPlaced'
  <2>1. PICK s, p, a : TableStep(x, s, p, a) /\ FirstSpot(t, i, s, p, a)
    BY <1>1, ScatterStep
  <2>2. s = HeadSpot(b, 1) \/ (p = b /\ s = CellSpot(a, 1))
    BY <1>1, <2>1 DEF FirstSpot, LaneHead, Current
  <2> QED BY <1>0, <1>2, <2>1, <2>2, StepPlaced DEF VectorTable
<1>5. \A e \in Heads : Counted(heads'[e])
  BY <1>3 DEF VectorTable, Counted
<1>6. \A e \in Heads : Counted(heads[e])'
  BY <1>0, <1>5, SamePlaced DEF Counted
<1>7. \A e \in Heads : latch'[e] = Free
  BY <1>0 DEF VectorTable
<1> QED BY <1>3, <1>4, <1>6, <1>7 DEF VectorTable, CountsGrow

LEMMA ScatterGraded ==
  ASSUME LinkInv, CountsGrow, VectorsGraded, NEW t \in Threads, NEW i \in Lanes,
         ScatterHead(t, i) \/ ScatterNext(t, i)
  PROVE  VectorsGraded'
<1>0. VectorOK /\ setup' = setup /\ Threads' = Threads /\ heads \in [Heads -> Buckets]
  BY SameSetup DEF LinkInv, TableTyped, ScatterHead, ScatterNext, Inside
<1>1. Running(t, "scatter") /\ imv' = [imv EXCEPT ![t].left = @ \ {i}]
  BY DEF ScatterHead, ScatterNext
<1>2. PICK r : Goes(t, r) /\ LaneScattered(t, i, r)
  BY <1>0, <1>1, ScatterGoes
<1>3. imv'[t] = r /\ \A u \in Threads \ {t} : imv'[u] = imv[u]
  BY <1>0, <1>2 DEF VectorOK, Goes
<1>4. PICK m : m = imv[t] /\ m.op = "scatter" /\ Graded(m) /\ Settled(m) /\ MachineOK(t, m)
  BY <1>0, <1>1 DEF VectorsGraded, Running, VectorOK
<1>5. /\ Graded(r) /\ r.k = m.k /\ r.st = m.st /\ r.op = "scatter" /\ r.left = m.left \ {i}
      /\ \A j : LaneHead(r, j) = LaneHead(m, j)
  BY <1>2, <1>4, RegistersGraded DEF LaneScattered
<1>6. Graded(r)' /\ Graded(m)' /\ Settled(m)'
  BY <1>0, <1>2, <1>4, <1>5, GrownGraded DEF Goes
<1>7. ASSUME m.st[m.k].stage = "head", NEW j \in m.st[m.k].have, LaneHead(m, j) = LaneHead(m, i)
      PROVE  Occupied(LaneHead(m, j))'
  <2>1. ScatterHead(t, i)
    BY <1>4, <1>7 DEF ScatterNext, Current
  <2>2. m.st[m.k].lane \in [Lanes -> LaneValues]
    BY <1>0, <1>4, AtGather
  <2>3. PICK b \in Heads : b = LaneHead(m, i)
    BY <2>2 DEF LaneHead, LaneValues
  <2>4. heads'[b].count # 0
    BY <1>0, <1>4, <2>1, <2>3, ScatterCounts
  <2> QED BY <1>7, <2>3, <2>4 DEF Occupied, LaneHead
<1>8. \A j : LaneHead(r, j)' = LaneHead(r, j) /\ LaneHead(m, j)' = LaneHead(m, j)
  BY DEF LaneHead
<1>9. Settled(r)'
  <2>1. ASSUME r.st[r.k].stage = "head", NEW j \in r.st[r.k].have
        PROVE  Occupied(LaneHead(r, j))' \/ \E l \in r.left : LaneHead(r, l) = LaneHead(r, j)
    <3>1. m.st[m.k].stage = "head" /\ j \in m.st[m.k].have
      BY <1>5, <2>1
    <3>2. Occupied(LaneHead(m, j))' \/ \E l \in m.left : LaneHead(m, l) = LaneHead(m, j)
      BY <1>4, <1>6, <1>8, <3>1 DEF Settled
    <3>3. Occupied(LaneHead(m, j))' <=> Occupied(LaneHead(r, j))'
      BY <1>5, <1>8 DEF Occupied
    <3> QED BY <1>5, <1>7, <3>1, <3>2, <3>3
  <2> QED BY <1>5, <1>8, <2>1 DEF Settled
<1>10. ASSUME NEW u \in Threads PROVE (Graded(imv[u]) /\ Settled(imv[u]))'
  <2>1. CASE u = t
    BY <1>3, <1>6, <1>9, <2>1, PrimedGraded
  <2>2. CASE u # t
    <3>1. PICK n : n = imv[u] /\ imv'[u] = n
      BY <1>3, <2>2
    <3>2. Graded(n)' /\ Settled(n)'
      BY <1>0, <3>1, GrownGraded DEF VectorsGraded, VectorOK
    <3> QED BY <3>1, <3>2, PrimedGraded
  <2> QED BY <2>1, <2>2
<1> QED BY <1>0, <1>10 DEF VectorsGraded

-----------------------------------------------------------------------------
(* The invariant.  The tables are numbered, those the vector functions build *)
(* are the last, and the probes use the last of all.                         *)
OnVectors == phase[0].pc \in {"build", "probe"} /\ Fid(phase[0]) = 1
TableNumber ==
  /\ phase[0].pc = "release" => ht = phase[0].run + 1
  /\ phase[0].pc \in {"ready", "probe"} => ht = 2 * RunNums
VectorInv ==
  /\ TableNumber
  /\ ht > RunNums => VectorTable
  /\ OnVectors => VectorsGraded

\* Which function a run is of.
LEMMA FidOf ==
  ASSUME NEW p, p.run \in Nat
  PROVE  Fid(p) = 0 <=> p.run < RunNums
<1>1. PICK run \in Nat : run = p.run
  OBVIOUS
<1>2. PICK n \in Nat \ {0} : n = RunNums
  BY BoundsAssumption
<1>3. run < n => run \div n = 0
  BY <1>1, <1>2
<1>4. run >= n => run \div n # 0
  BY <1>1, <1>2
<1> QED BY <1>1, <1>2, <1>3, <1>4 DEF Fid

LEMMA VectorNumber ==
  ASSUME TypesInv, FillInv, VectorInv, OnVectors
  PROVE  ht > RunNums /\ VectorTable /\ VectorsGraded
<1>1. PICK run \in Nat : run = phase[0].run
  BY SetupFacts DEF TypesInv, TableInv, LatchInv, ControlOK
<1>2. run >= RunNums /\ RunNums \in Nat \ {0}
  BY <1>1, FidOf, BoundsAssumption DEF OnVectors
<1>3. ht = run + 1 \/ ht = 2 * RunNums
  BY <1>1 DEF FillInv, Numbered, VectorInv, TableNumber, OnVectors
<1>4. ht > RunNums
  BY <1>1, <1>2, <1>3
<1> QED BY <1>4 DEF VectorInv

\* The steps that leave the table and the locals of the vector functions alone.
LEMMA SameBehind ==
  ASSUME UNCHANGED <<setup, heads, imv>>
  PROVE  \A e, c : Behind(e, c)' <=> Behind(e, c)
BY SameSetup DEF Behind, Current, CellsIn

LEMMA SameTables ==
  ASSUME UNCHANGED <<setup, heads, latch, imv>>, VectorTable
  PROVE  VectorTable'
<1>1. AllPlaced'
  BY SamePlaced, SameBehind DEF VectorTable, AllPlaced
<1>2. \A e \in Heads : latch'[e] = Free /\ Counted(heads[e])'
  BY SamePlaced DEF VectorTable, Counted
<1> QED BY <1>1, <1>2 DEF VectorTable

LEMMA SameGraded ==
  ASSUME UNCHANGED <<setup, heads, imv>>, VectorOK, VectorsGraded
  PROVE  VectorsGraded'
<1>1. CountsGrow /\ Threads' = Threads
  BY SameSetup DEF CountsGrow
<1>2. ASSUME NEW u \in Threads PROVE (Graded(imv[u]) /\ Settled(imv[u]))'
  <2>1. PICK m : m = imv[u] /\ imv'[u] = m
    OBVIOUS
  <2>2. Graded(m)' /\ Settled(m)'
    BY <1>1, <2>1, GrownGraded DEF VectorsGraded, VectorOK
  <2> QED BY <2>1, <2>2, PrimedGraded
<1> QED BY <1>1, <1>2 DEF VectorsGraded

LEMMA StillVector ==
  ASSUME UNCHANGED <<setup, phase, ht, heads, latch, imv>>, VectorOK, VectorInv
  PROVE  VectorInv'
BY SameTables, SameGraded DEF VectorInv, TableNumber, OnVectors, Fid

\* The steps of the vector functions.
LEMMA GoesAllGraded ==
  ASSUME VectorOK, UNCHANGED <<setup, heads>>, VectorsGraded, NEW t \in Threads, GoesGraded(t)
  PROVE  VectorsGraded'
<1>1. CountsGrow /\ Threads' = Threads
  BY SameSetup DEF CountsGrow
<1>2. PICK r : Goes(t, r) /\ Graded(r) /\ Settled(r)
  BY DEF GoesGraded
<1>3. imv'[t] = r /\ \A u \in Threads \ {t} : imv'[u] = imv[u]
  BY <1>2 DEF VectorOK, Goes
<1>4. ASSUME NEW u \in Threads PROVE (Graded(imv[u]) /\ Settled(imv[u]))'
  <2>1. PICK m : m = imv'[u]
    OBVIOUS
  <2>2. MachineOK(u, m) /\ Graded(m) /\ Settled(m)
    BY <1>2, <1>3, <2>1 DEF VectorsGraded, VectorOK, Goes
  <2>3. Graded(m)' /\ Settled(m)'
    BY <1>1, <2>2, GrownGraded
  <2> QED BY <2>1, <2>3, PrimedGraded
<1> QED BY <1>1, <1>4 DEF VectorsGraded

LEMMA WorkVector ==
  ASSUME TypesInv, BuffersInv, OnceInv, FillInv, VectorInv, NEW t \in Threads, VectorWork(t)
  PROVE  VectorInv'
<1>0. /\ LinkInv /\ VectorOK /\ VectorsCarry /\ setup \in Setups /\ phase[t] = phase[0]
      /\ heads \in [Heads -> Buckets]
  BY FillOK DEF LinkInv, TableTyped
<1>1. UNCHANGED <<setup, phase, ht, latch>> /\ OnVectors
  BY <1>0, WorkFrame, WorkPhase DEF WorkLeaves, OnVectors
<1>2. VectorTable /\ VectorsGraded
  BY <1>1, VectorNumber
<1>3. CASE Scattering(t)
  <2>1. PICK i \in Lanes : ScatterHead(t, i) \/ ScatterNext(t, i)
    BY <1>3 DEF Scattering
  <2>2. phase[t].pc = "build"
    BY <2>1 DEF ScatterHead, ScatterNext, Running
  <2>3. AllGot /\ Selects(imv[t]) /\ Graded(imv[t])
    BY <1>0, <1>2, <2>2 DEF BuffersInv, KeptTable, VectorsCarry, VectorsGraded
  <2>4. VectorTable' /\ CountsGrow
    BY <1>0, <1>2, <2>1, <2>3, ScatterTable
  <2>5. VectorsGraded'
    BY <1>0, <1>2, <2>1, <2>4, ScatterGraded
  <2> QED BY <1>1, <2>4, <2>5 DEF VectorInv, TableNumber
<1>4. CASE ~Scattering(t)
  <2>1. heads' = heads
    BY <1>4, WorkFrame DEF VectorWork
  <2>2. GoesGraded(t)
    BY <1>0, <1>2, <1>4, StepGraded DEF VectorTable, VectorsGraded
  <2>3. VectorsGraded'
    BY <1>0, <1>1, <1>2, <2>1, <2>2, GoesAllGraded
  <2>4. AllPlaced'
    BY <1>0, <1>1, <1>2, <1>4, WorkStep, KeptPlaced DEF VectorTable
  <2>5. \A e \in Heads : latch'[e] = Free /\ Counted(heads[e])'
    BY <1>1, <1>2, <2>1, SamePlaced DEF VectorTable, Counted
  <2>6. VectorTable'
    BY <2>4, <2>5 DEF VectorTable
  <2> QED BY <1>1, <2>3, <2>6 DEF VectorInv, TableNumber
<1> QED BY <1>3, <1>4

\* A tuple-at-a-time build is of a table of a lower number.
LEMMA LockingVector ==
  ASSUME TypesInv, BuffersInv, OnceInv, FillInv, VectorInv, NEW t \in Threads, Locking(t)
  PROVE  VectorInv'
<1>0. VectorOK /\ phase[t] = phase[0] /\ 0 \in Threads /\ phase[0].run \in Nat
  BY FillOK DEF LinkInv, ControlOK
<1>1. UNCHANGED <<setup, phase, imv, ht>> /\ Fid(phase[t]) = 0
  BY DEF Locking, Lock, Claim, Store, Unlock, ProbeTuple, Inside, AtStep, BuildWith, Working,
         BuildOnly, ProbeOnly, shared
<1>2. CASE ProbeTuple(t)
  <2>1. UNCHANGED <<heads, latch>>
    BY <1>2 DEF ProbeTuple, ProbeOnly, table
  <2> QED BY <1>0, <1>1, <2>1, StillVector
<1>3. CASE ~ProbeTuple(t)
  <2>1. phase[t].pc = "build"
    BY <1>3 DEF Locking, Lock, Claim, Store, Unlock, AtStep, BuildWith, Working
  <2>2. PICK run \in Nat : run = phase[0].run
    BY <1>0
  <2>3. ht = run + 1 /\ run < RunNums /\ RunNums \in Nat
    BY <1>0, <1>1, <2>1, <2>2, FidOf, BoundsAssumption DEF FillInv, Numbered
  <2>4. ~(ht > RunNums)
    BY <2>2, <2>3
  <2>5. ~OnVectors'
    BY <1>0, <1>1 DEF OnVectors, Fid
  <2> QED BY <1>1, <2>4, <2>5 DEF VectorInv, TableNumber
<1> QED BY <1>2, <1>3

LEMMA EndingVector ==
  ASSUME VectorOK, VectorInv, NEW t \in Threads, Ending(t)
  PROVE  VectorInv'
<1>1. UNCHANGED <<setup, phase, imv, heads, latch, ht>>
  BY DEF Ending, ScalarBuilt, ScalarProbed, ImvLeave, Ready, Done, BuildOnly, table, locals, shared
<1> QED BY <1>1, StillVector

\* A table allocated is empty.
FreshTable == setup \in Setups /\ EmptyTable /\ \A e \in Heads : latch[e] = Free
LEMMA FreshVector == FreshTable => VectorTable
BY EmptyPlaced DEF FreshTable

LEMMA PhasingVector ==
  ASSUME TypesInv, TypesInv', BuffersInv, OnceInv, VectorInv, NEW t \in Threads, Phasing(t)
  PROVE  VectorInv'
<1>0. LinkInv /\ VectorOK /\ phase[t] = phase[0] /\ \A u \in Threads : phase[u] = phase[0]
      /\ setup \in Setups
  BY FillOK
<1>1. UNCHANGED <<setup, phase, imv>> /\ Threads' = Threads
  BY SameSetup DEF Phasing, SetFunctions, Allocate, Fetch, Release, Done, locals
<1>2. CASE UNCHANGED <<ht, heads, latch>>
  BY <1>0, <1>1, <1>2, StillVector
<1>3. CASE Allocate(t) /\ t = 0
  <2>1. phase[0].pc = "allocate"
    BY <1>0, <1>3 DEF Allocate, Working
  <2>2. heads' = [b \in Heads |-> EmptyHead] /\ EmptyHead' = EmptyHead
        /\ latch' = [b \in Heads |-> Free]
    BY <1>1, <1>3 DEF Allocate, EmptyHead
  <2>3. \A b \in Heads : CellsIn(heads'[b].chain) = {}
    BY <2>2 DEF EmptyHead, CellsIn
  <2>4. \A u \in Threads, i \in Lanes : CellsIn(imv'[u].next[i]) = {}
    <3>1. \A u \in Threads : imv[u].op = "turn"
      BY <1>0, <2>1 DEF VectorOK
    <3> QED BY <1>0, <1>1, <3>1, NothingGathered
  <2>5. \A e \in Heads : \A c : ~Behind(e, c)'
    BY <1>1, <2>3, <2>4 DEF Behind
  <2>6. FreshTable'
    BY <1>0, <1>1, <2>2, <2>5 DEF FreshTable, EmptyTable
  <2>7. VectorTable'
    BY <2>6, FreshVector, PTL
  <2>8. TableNumber' /\ ~OnVectors'
    BY <1>1, <2>1 DEF TableNumber, OnVectors
  <2> QED BY <2>7, <2>8 DEF VectorInv
<1>4. Allocate(t) /\ t # 0 => UNCHANGED <<ht, heads, latch>>
  BY DEF Allocate
<1>5. SetFunctions(t) \/ Fetch(t) \/ Release(t) => UNCHANGED <<ht, heads, latch>>
  BY DEF SetFunctions, Fetch, Release, table, shared
<1> QED BY <1>2, <1>3, <1>4, <1>5 DEF Phasing

\* Nothing is carried when a build or a probe starts.
LEMMA StartHolds == \A p : p \notin Held(ImvStart)
<1>1. \A s \in States : ImvStart.st[s].have = {}
  BY DEF States, ImvStart
<1>2. \A p \in Held(ImvStart) : p[1] \in States /\ p[2] \in ImvStart.st[p[1]].have
  BY DEF Held
<1> QED BY <1>1, <1>2

LEMMA StartGraded == (Graded(ImvStart) /\ Settled(ImvStart))'
<1>1. \A p : p \notin Held(ImvStart)'
  BY StartHolds DEF Held, ImvStart
<1>2. ImvStart.op = "turn"
  BY DEF ImvStart
<1>3. Settled(ImvStart)'
  BY <1>2 DEF Settled
<1> QED BY <1>1, <1>3 DEF Graded

LEMMA ArriveVector ==
  ASSUME TypesInv, BuffersInv, OnceInv, FillInv, VectorInv, NEW t \in Threads, Arrive(t)
  PROVE  VectorInv'
<1>0. /\ LinkInv /\ VectorOK /\ setup \in Setups /\ 0 \in Threads
      /\ \A u \in Threads : phase[u] = phase[0]
  BY FillOK
<1>1. UNCHANGED <<setup, heads, latch, ht>> /\ Threads' = Threads
  BY SameSetup DEF Arrive, table, shared
<1>2. CASE called + 1 # setup.threads
  <2>1. UNCHANGED <<phase, imv>>
    BY <1>2 DEF Arrive, locals
  <2> QED BY <1>0, <1>1, <2>1, StillVector
<1>3. CASE called + 1 = setup.threads
  <2>1. PICK q : OpensTo(t, q)
    BY <1>3, BarrierOpens DEF TypesInv
  <2>2. /\ \A u \in Threads : phase'[u] = q /\ Passes(phase[0], q.pc, q.run)
        /\ imv' = [u \in Threads |-> ImvStart]
        /\ hash_pf_num = 2 /\ phase'[0] = q
    BY <1>0, <2>1 DEF OpensTo
  <2>3. VectorsGraded'
    <3>1. ASSUME NEW u \in Threads PROVE (Graded(imv[u]) /\ Settled(imv[u]))'
      <4>1. PICK m : m = ImvStart /\ imv'[u] = m
        BY <2>2
      <4>2. Graded(m)' /\ Settled(m)'
        BY <4>1, StartGraded DEF Graded, Settled
      <4> QED BY <4>1, <4>2, PrimedGraded
    <3> QED BY <1>1, <3>1 DEF VectorsGraded
  <2>4. VectorTable => VectorTable'
    <3> SUFFICES ASSUME VectorTable PROVE VectorTable'
      OBVIOUS
    <3>1. TableKept
      BY <2>1, OpenKept DEF BuffersInv
    <3>2. AllPlaced'
      BY <1>1, <3>1, KeptPlaced DEF VectorTable
    <3>3. \A e \in Heads : latch'[e] = Free /\ Counted(heads[e])'
      BY <1>1, SamePlaced DEF VectorTable, Counted
    <3> QED BY <3>2, <3>3 DEF VectorTable
  <2>5. TableNumber'
    <3>1. q.pc = "release" => ht = q.run + 1
      <4>1. q.pc = "release" => phase[0].pc = "build" /\ q.run = phase[0].run
        BY <2>2 DEF Passes
      <4> QED BY <4>1 DEF FillInv, Numbered
    <3>2. ASSUME q.pc \in {"ready", "probe"} PROVE ht = 2 * RunNums
      <4>1. CASE phase[0].pc = "release"
        <5>1. ht = LastRun + 1 /\ RunNums \in Nat
          BY <2>2, <3>2, <4>1, BoundsAssumption DEF Passes, VectorInv, TableNumber
        <5>2. LastRun + 1 = 2 * RunNums
          BY <2>2, <5>1 DEF LastRun
        <5> QED BY <5>1, <5>2
      <4>2. CASE phase[0].pc # "release"
        BY <2>2, <3>2, <4>2 DEF Passes, VectorInv, TableNumber
      <4> QED BY <4>1, <4>2
    <3> QED BY <1>1, <2>2, <3>1, <3>2 DEF TableNumber
  <2> QED BY <1>1, <2>3, <2>4, <2>5 DEF VectorInv
<1> QED BY <1>2, <1>3

LEMMA InitVectorInv == Init => VectorInv
<1> SUFFICES ASSUME Init PROVE VectorInv
  OBVIOUS
<1>1. phase[0].pc = "setup" /\ ht = 0
  <2>1. 0 \in Threads
    BY InitTypesInv, SetupFacts DEF TypesInv, TableInv, LatchInv
  <2> QED BY <2>1 DEF Init, At
<1>2. ~(ht > RunNums)
  BY <1>1, BoundsAssumption
<1> QED BY <1>1, <1>2 DEF VectorInv, TableNumber, OnVectors

LEMMA NextVectorInv ==
  ASSUME TypesInv, TypesInv', BuffersInv, OnceInv, FillInv, VectorInv, [Next]_vars
  PROVE  VectorInv'
<1>0. VectorOK
  BY DEF TypesInv
<1>1. CASE UNCHANGED vars
  BY <1>0, <1>1, StillVector DEF vars, table, locals, shared
<1>2. ASSUME MainJoins \/ Ended PROVE VectorInv'
  <2>1. UNCHANGED <<setup, phase, ht, heads, latch, imv>>
    BY <1>2 DEF MainJoins, Ended, vars, table, locals, shared
  <2> QED BY <1>0, <2>1, StillVector
<1> QED BY <1>0, <1>1, <1>2, LockingVector, WorkVector, EndingVector, PhasingVector, ArriveVector,
           FlatNext

-----------------------------------------------------------------------------
(* What a probe finds: the tuple is a first one of its bucket or of one      *)
(* behind it, and that in one place only.                                    *)
Foremost(x, q) ==
  q \in DOMAIN FirstTuples(setup.vidx[x]) /\ FirstTuples(setup.vidx[x])[q] = x
Findable(x) == \E q : Foremost(x, q)

LEMMA FirstTuplesAre ==
  ASSUME heads \in [Heads -> Buckets], NEW b \in Heads
  PROVE  /\ Len(heads[b].chain) \in Nat /\ DOMAIN heads[b].chain = 1 .. Len(heads[b].chain)
         /\ DOMAIN FirstTuples(b) = 1 .. (Len(heads[b].chain) + 1)
         /\ FirstTuples(b)[1] = heads[b].tuples[1]
         /\ \A j \in DOMAIN heads[b].chain :
              FirstTuples(b)[j + 1] = heads[b].chain[j].tuples[1]
<1>1. PICK chain \in Chains : chain = heads[b].chain
  BY BucketTyped
<1>2. Len(chain) \in Nat /\ DOMAIN chain = 1 .. Len(chain)
  BY DEF Chains
<1>3. PICK g : g = [j \in 1 .. Len(chain) |-> chain[j].tuples[1]]
  OBVIOUS
<1>4. PICK y : y = heads[b].tuples[1]
  OBVIOUS
<1>5. FirstTuples(b) = <<y>> \o g
  BY <1>1, <1>3, <1>4 DEF FirstTuples
<1>6. g \in Seq({g[j] : j \in 1 .. Len(chain)}) /\ Len(g) = Len(chain)
  BY <1>2, <1>3
<1>7. PICK f : f = <<y>> \o g
  OBVIOUS
<1>8. /\ DOMAIN f = 1 .. (Len(chain) + 1) /\ f[1] = y
      /\ \A j \in 1 .. Len(chain) : f[j + 1] = g[j]
  BY <1>2, <1>6, <1>7
<1> QED BY <1>1, <1>2, <1>3, <1>4, <1>5, <1>7, <1>8

\* A place of the table in the first slots.
LEMMA ForemostPlace ==
  ASSUME TableTyped, setup \in Setups, NEW b \in Heads, NEW x, NEW q \in DOMAIN FirstTuples(b),
         FirstTuples(b)[q] = x
  PROVE  q \in Nat /\ q >= 1 /\ <<b, q - 1, 1>> \in PlacesOf(x)
<1>1. PICK n \in Nat : n = Len(heads[b].chain)
  BY FirstTuplesAre DEF TableTyped
<1>2. q \in 1 .. (n + 1) /\ DOMAIN heads[b].chain = 1 .. n
  BY <1>1, FirstTuplesAre DEF TableTyped
<1>3. 1 \in 1 .. setup.bucketSize
  BY SetupsAssumption
<1>4. PICK s : s = <<b, q - 1, 1>>
  OBVIOUS
<1>5. CASE q = 1
  <2>1. s = <<b, 0, 1>> /\ heads[b].tuples[1] = x
    BY <1>4, <1>5, FirstTuplesAre DEF TableTyped
  <2>2. s \in SlotsOf(b) /\ InSlot(s) = x
    BY <1>3, <2>1 DEF SlotsOf, InSlot
  <2> QED BY <1>2, <1>4, <2>2 DEF PlacesOf
<1>6. CASE q # 1
  <2>1. PICK c \in 1 .. n : c = q - 1 /\ q = c + 1
    BY <1>2, <1>6
  <2>2. heads[b].chain[c].tuples[1] = x
    BY <1>2, <2>1, FirstTuplesAre DEF TableTyped
  <2>3. s = <<b, c, 1>> /\ c # 0
    BY <1>4, <2>1
  <2>4. s \in SlotsOf(b) /\ InSlot(s) = x
    BY <1>2, <1>3, <2>1, <2>2, <2>3 DEF SlotsOf, InSlot
  <2> QED BY <1>2, <1>4, <2>4 DEF PlacesOf
<1> QED BY <1>5, <1>6

\* A tuple is foremost once.
Unique == \A x \in Tuples : \A p, q : Foremost(x, p) /\ Foremost(x, q) => p = q
LEMMA TupleBucket ==
  ASSUME setup \in Setups, NEW x \in Tuples
  PROVE  setup.vidx[x] \in Heads /\ x \in Nat /\ x # NoTuple
<1>1. setup.vidx \in [1 .. setup.n -> Heads] /\ setup.n \in Nat
  BY SetupsAssumption
<1>2. x \in 1 .. setup.n
  BY DEF Tuples
<1> QED BY <1>1, <1>2, BoundsAssumption

LEMMA ForemostOnce ==
  ASSUME TableTyped, DistinctChains, Owned, Single, setup \in Setups
  PROVE  Unique
<1> SUFFICES ASSUME NEW x \in Tuples, NEW p, NEW q, Foremost(x, p), Foremost(x, q) PROVE p = q
  BY DEF Unique
<1>1. PICK b \in Heads : b = setup.vidx[x]
  BY TupleBucket
<1>2. p \in Nat /\ <<b, p - 1, 1>> \in PlacesOf(x)
  BY <1>1, ForemostPlace DEF Foremost
<1>3. q \in Nat /\ <<b, q - 1, 1>> \in PlacesOf(x)
  BY <1>1, ForemostPlace DEF Foremost
<1>4. <<b, p - 1, 1>> = <<b, q - 1, 1>>
  BY <1>2, <1>3, OnePlace
<1>5. p - 1 = q - 1
  BY <1>4
<1> QED BY <1>2, <1>3, <1>5

\* In a table of the vector functions what has a place can be found.
LEMMA FoundIsPresent ==
  ASSUME TableTyped, setup \in Setups, VectorTable, NEW x \in Tuples
  PROVE  Findable(x) <=> PlacesOf(x) # {}
<1>0. x # NoTuple
  BY TupleBucket
<1>1. ASSUME Findable(x) PROVE PlacesOf(x) # {}
  <2>1. PICK q : Foremost(x, q)
    BY <1>1 DEF Findable
  <2>2. PICK b \in Heads : b = setup.vidx[x]
    BY TupleBucket
  <2> QED BY <2>1, <2>2, ForemostPlace DEF Foremost
<1>2. ASSUME NEW s \in PlacesOf(x) PROVE Findable(x)
  <2>1. PICK b \in Heads, c \in Nat, j \in SlotNums :
          \/ c = 0 /\ heads[b].tuples[j] = x
          \/ c \in DOMAIN heads[b].chain /\ heads[b].chain[c].tuples[j] = x
    BY SlotIs
  <2>2. PICK n \in Nat : n = Len(heads[b].chain)
    BY FirstTuplesAre DEF TableTyped
  <2>3. /\ DOMAIN FirstTuples(b) = 1 .. (n + 1) /\ DOMAIN heads[b].chain = 1 .. n
        /\ FirstTuples(b)[1] = heads[b].tuples[1]
        /\ \A k \in 1 .. n : FirstTuples(b)[k + 1] = heads[b].chain[k].tuples[1]
    BY <2>2, FirstTuplesAre DEF TableTyped
  <2>4. CASE c = 0 /\ heads[b].tuples[j] = x
    <3>1. j = 1 /\ setup.vidx[x] = b
      BY <1>0, <2>4 DEF VectorTable, AllPlaced, Placed
    <3>2. 1 \in 1 .. (n + 1)
      BY <2>2
    <3>3. Foremost(x, 1)
      BY <2>3, <2>4, <3>1, <3>2 DEF Foremost
    <3> QED BY <3>3 DEF Findable
  <2>5. CASE c \in DOMAIN heads[b].chain /\ heads[b].chain[c].tuples[j] = x
    <3>1. PICK d : d = heads[b].chain[c]
      OBVIOUS
    <3>2. Behind(b, d)
      BY <2>5, <3>1 DEF Behind, CellsIn
    <3>3. j = 1 /\ setup.vidx[x] = b
      BY <1>0, <2>5, <3>1, <3>2 DEF VectorTable, AllPlaced, Placed
    <3>4. c + 1 \in 1 .. (n + 1) /\ c \in 1 .. n
      BY <2>2, <2>3, <2>5
    <3>5. Foremost(x, c + 1)
      BY <2>3, <2>5, <3>3, <3>4 DEF Foremost
    <3> QED BY <3>5 DEF Findable
  <2> QED BY <2>1, <2>4, <2>5
<1> QED BY <1>1, <1>2

-----------------------------------------------------------------------------
(* The tuples whose match a vector probe has counted: those loaded that are  *)
(* foremost at a place their lane has gone past, if it still holds them.     *)
Past(m, x, q) == \A p \in Held(m) : LaneOf(m, p).tuple = x => LaneOf(m, p).pos >= q
CountedAt(t, m, x, q) == x <= First(t) + m.cur /\ Foremost(x, q) /\ Past(m, x, q)
FoundBy(t, m) == {x \in Slice(t) : \E q : CountedAt(t, m, x, q)}
\* A lane is at most at the last bucket of its chain.
Reached(m) ==
  \A p \in Held(m) : LaneOf(m, p).pos <= Len(heads[LaneOf(m, p).head].chain)

LEMMA SlicePart ==
  ASSUME setup \in Setups, NEW t \in Threads
  PROVE  /\ First(t) \in Nat /\ NumTuples(t) \in Nat
         /\ \A x : x \in Slice(t) <=> x \in Nat /\ x > First(t) /\ x <= First(t) + NumTuples(t)
         /\ IsFiniteSet(Slice(t)) /\ Cardinality(Slice(t)) = NumTuples(t)
<1>1. PICK f \in Nat, n \in Nat : f = First(t) /\ n = NumTuples(t)
  BY PartFacts
<1>2. Slice(t) = (f + 1) .. (f + n)
  BY <1>1 DEF Slice
<1>3. \A x : x \in (f + 1) .. (f + n) <=> x \in Nat /\ x > f /\ x <= f + n
  OBVIOUS
<1>4. IsFiniteSet((f + 1) .. (f + n)) /\ Cardinality((f + 1) .. (f + n)) = n
  BY FS_Interval
<1> QED BY <1>1, <1>2, <1>3, <1>4

LEMMA FoundFinite ==
  ASSUME setup \in Setups, NEW t \in Threads, NEW S \in SUBSET Slice(t)
  PROVE  IsFiniteSet(S) /\ Cardinality(S) \in Nat
BY SlicePart, FS_Subset, FS_CardinalityType

\* Lanes that stay where they are.
LEMMA SameLanesFound ==
  ASSUME NEW t, NEW m, NEW r, SameLanes(r, m)
  PROVE  /\ Held(r) = Held(m) /\ FoundBy(t, r) = FoundBy(t, m)
         /\ Carries(t, m) => Carries(t, r)
<1>1. Held(r) = Held(m)
  BY DEF SameLanes, Held
<1>2. \A p \in Held(m) : /\ LaneOf(r, p).tuple = LaneOf(m, p).tuple
                         /\ LaneOf(r, p).pos = LaneOf(m, p).pos
  BY DEF SameLanes, Held, LaneOf
<1>3. \A x, q : Past(r, x, q) <=> Past(m, x, q)
  BY <1>1, <1>2 DEF Past
<1>4. r.cur = m.cur
  BY DEF SameLanes
<1>5. \A x, q : CountedAt(t, r, x, q) <=> CountedAt(t, m, x, q)
  BY <1>3, <1>4 DEF CountedAt
<1> QED BY <1>1, <1>2, <1>4, <1>5 DEF FoundBy, Carries

LEMMA SameWorkReached ==
  ASSUME NEW m, NEW r, SameWork(r, m), Reached(m)
  PROVE  Reached(r)
BY DEF SameWork, Reached

\* A lane that is not in a chain yet is at the head.
LEMMA AtHeadReached ==
  ASSUME heads \in [Heads -> Buckets], NEW l \in LaneValues, l.pos = 0
  PROVE  l.pos <= Len(heads[l.head].chain)
<1>1. PICK b \in Heads : b = l.head
  BY DEF LaneValues
<1>2. Len(heads[b].chain) \in Nat
  BY FirstTuplesAre
<1> QED BY <1>1, <1>2

LEMMA LaneTyped ==
  ASSUME NEW t, NEW m, MachineOK(t, m), NEW p \in Held(m)
  PROVE  /\ LaneOf(m, p) \in LaneValues /\ LaneOf(m, p).tuple \in Slice(t)
         /\ LaneOf(m, p).head \in Heads /\ LaneOf(m, p).pos \in Nat
<1>1. LaneOf(m, p) \in LanesOf(t)
  BY DEF MachineOK, LoopInv
<1> QED BY <1>1 DEF LanesOf, LaneValues

LEMMA ForemostNat ==
  ASSUME TableTyped, setup \in Setups, NEW t \in Threads, NEW x \in Slice(t), NEW q, Foremost(x, q)
  PROVE  q \in Nat /\ q >= 1 /\ q <= Len(heads[setup.vidx[x]].chain) + 1
<1>1. PICK b \in Heads : b = setup.vidx[x]
  BY SliceTuples, TupleBucket
<1>2. PICK n \in Nat : n = Len(heads[b].chain) /\ DOMAIN FirstTuples(b) = 1 .. (n + 1)
  BY FirstTuplesAre DEF TableTyped
<1> QED BY <1>1, <1>2 DEF Foremost

\* The lanes loaded are at their heads, so none of their tuples is counted.
LEMMA LoadFound ==
  ASSUME TableTyped, setup \in Setups, NEW t \in Threads, MachineOK(t, imv[t]),
         Carries(t, imv[t]), Reached(imv[t]), NEW w, NEW r, LoadsNext(t, r, w), MachineOK(t, r)
  PROVE  FoundBy(t, r) = FoundBy(t, imv[t]) /\ Reached(r)
<1>1. /\ Carries(t, w) /\ Reached(w) /\ FoundBy(t, w) = FoundBy(t, imv[t]) /\ w.cur = imv[t].cur
      /\ Held(w) = Held(imv[t])
  BY SameLanesFound, SameWorkReached DEF LoadsNext, SameLanes
<1>2. PICK f, n, c : f = First(t) /\ n = NumTuples(t) /\ c = w.cur
  OBVIOUS
<1>3. f \in Nat /\ n \in Nat /\ c \in Nat /\ VectorScale \in Nat \ {0}
  <2>1. imv[t].cur \in Nat
    BY MachineFields DEF MachineOK, LoopInv, MachineInv
  <2> QED BY <1>1, <1>2, <2>1, PartFacts, LanesAssumption
<1>4. /\ w.k \in States /\ w.st[w.k].have = {}
      /\ r.cur = c + VectorScale /\ SameOthers(r, w, {w.k})
      /\ r.st[w.k].have = {i \in Lanes : c + i <= n}
      /\ \A i \in r.st[w.k].have : /\ r.st[w.k].lane[i].tuple = f + (c + i)
                                   /\ r.st[w.k].lane[i].pos = 0
  BY <1>2 DEF LoadsNext, Loads
<1>5. PICK New : New = {p \in Held(r) : p[1] = w.k}
  OBVIOUS
<1>6. /\ New \subseteq Held(r) /\ Held(r) \ New = Held(w)
      /\ \A p \in Held(w) : LaneOf(r, p) = LaneOf(w, p)
  BY <1>4, <1>5 DEF Held, SameOthers, LaneOf
<1>7. \A p \in New : /\ p[2] \in Lanes /\ LaneOf(r, p).tuple = f + (c + p[2])
                     /\ LaneOf(r, p).pos = 0 /\ LaneOf(r, p).tuple > f + c
  <2>1. \A p \in New : /\ p[2] \in Lanes /\ LaneOf(r, p).tuple = f + (c + p[2])
                       /\ LaneOf(r, p).pos = 0
    BY <1>4, <1>5 DEF Held, LaneOf
  <2> QED BY <1>3, <2>1 DEF Lanes
<1>8. \A i \in Lanes : c + i <= n => <<w.k, i>> \in New
  BY <1>4, <1>5 DEF Held
<1>9. Reached(r)
  <2>1. ASSUME NEW p \in New PROVE LaneOf(r, p).pos <= Len(heads[LaneOf(r, p).head].chain)
    BY <1>6, <1>7, LaneTyped, AtHeadReached DEF TableTyped
  <2> QED BY <1>1, <1>6, <2>1 DEF Reached
<1>10. ASSUME NEW x \in Slice(t), NEW q PROVE CountedAt(t, r, x, q) <=> CountedAt(t, w, x, q)
  <2>1. x \in Nat /\ x <= f + n
    BY <1>2, SlicePart
  <2>2. CASE ~(x <= f + c)
    <3>1. ASSUME CountedAt(t, r, x, q) PROVE FALSE
      <4>1. Foremost(x, q) /\ Past(r, x, q) /\ x <= f + (c + VectorScale)
        BY <1>2, <1>4, <3>1 DEF CountedAt
      <4>2. PICK i \in Lanes : x = f + (c + i)
        <5>1. x - (f + c) \in Lanes /\ x = f + (c + (x - (f + c)))
          BY <1>3, <2>1, <2>2, <4>1 DEF Lanes
        <5> QED BY <5>1
      <4>3. c + i <= n
        BY <1>3, <2>1, <4>2 DEF Lanes
      <4>4. <<w.k, i>> \in New /\ LaneOf(r, <<w.k, i>>).tuple = x /\ LaneOf(r, <<w.k, i>>).pos = 0
        BY <1>7, <1>8, <4>2, <4>3
      <4>5. 0 >= q
        BY <1>6, <4>1, <4>4 DEF Past
      <4> QED BY <4>1, <4>5, ForemostNat
    <3> QED BY <1>2, <2>2, <3>1 DEF CountedAt
  <2>3. CASE x <= f + c
    <3>1. x <= First(t) + r.cur /\ x <= First(t) + w.cur
      BY <1>2, <1>3, <1>4, <2>1, <2>3
    <3>2. \A p \in New : LaneOf(r, p).tuple # x
      BY <1>3, <1>7, <2>1, <2>3 DEF Lanes
    <3>3. Past(r, x, q) <=> Past(w, x, q)
      BY <1>6, <3>2 DEF Past
    <3> QED BY <3>1, <3>3 DEF CountedAt
  <2> QED BY <2>2, <2>3
<1>11. FoundBy(t, r) = FoundBy(t, w)
  BY <1>10 DEF FoundBy
<1> QED BY <1>1, <1>9, <1>11

\* The model gives lanes that are at no head yet theirs.
LEMMA ModelReached ==
  ASSUME TableTyped, NEW t \in Threads, Graded(imv[t]), Reached(imv[t]),
         NEW r, ModelPlaces(t, r), MachineOK(t, r)
  PROVE  Reached(r)
<1>1. PICK w :
        /\ SameWork(w, imv[t]) /\ w.k \in States \ {Residual} /\ SameOthers(r, w, {w.k})
        /\ r.st[w.k].stage = "head"
  BY DEF ModelPlaces
<1>2. Graded(r) /\ Reached(w)
  BY <1>1, ModelGraded, SameWorkReached
<1>3. ASSUME NEW p \in Held(r) PROVE LaneOf(r, p).pos <= Len(heads[LaneOf(r, p).head].chain)
  <2>1. CASE p[1] = w.k
    <3>1. Level(r, p[1]) # "chain"
      BY <1>1, <2>1 DEF Level
    <3>2. LaneOf(r, p).pos = 0
      BY <1>2, <3>1 DEF Graded, InGrade
    <3> QED BY <3>2, LaneTyped, AtHeadReached DEF TableTyped
  <2>2. CASE p[1] # w.k
    <3>1. p \in Held(w) /\ LaneOf(r, p) = LaneOf(w, p)
      BY <1>1, <2>2 DEF Held, SameOthers, LaneOf
    <3> QED BY <1>2, <3>1 DEF Reached
  <2> QED BY <2>1, <2>2
<1> QED BY <1>3 DEF Reached

-----------------------------------------------------------------------------
(* The end of a case.                                                        *)
LEMMA MovedCarries ==
  ASSUME NEW t, NEW m, Carries(t, m), NEW have, NEW r, NEW f, Moved(r, m, have, f), r.cur = m.cur
  PROVE  Carries(t, r)
<1>1. \A p \in Held(r) : f[p] \in Held(m) /\ LaneOf(r, p) = LaneOf(m, f[p])
  BY DEF Moved, Kept
<1>2. \A p, q \in Held(r) : f[p] = f[q] => p = q
  BY DEF Moved
<1> QED BY <1>1, <1>2 DEF Carries

\* Which tuples are counted is seen from the lanes kept.
PastKept(m, have, x, q) ==
  \A p \in Kept(m, have) : LaneOf(m, p).tuple = x => LaneOf(m, p).pos >= q
LEMMA MovedPast ==
  ASSUME NEW m, NEW have, NEW r, NEW f, Moved(r, m, have, f), NEW x, NEW q
  PROVE  Past(r, x, q) <=> PastKept(m, have, x, q)
<1>1. \A p \in Held(r) : f[p] \in Kept(m, have) /\ LaneOf(r, p) = LaneOf(m, f[p])
  BY DEF Moved
<1>2. \A s \in Kept(m, have) : \E p \in Held(r) : f[p] = s
  BY DEF Moved
<1> QED BY <1>1, <1>2 DEF Past, PastKept

LEMMA MovedReached ==
  ASSUME NEW m, NEW have, NEW r, NEW f, Moved(r, m, have, f),
         \A p \in Kept(m, have) : LaneOf(m, p).pos <= Len(heads[LaneOf(m, p).head].chain)
  PROVE  Reached(r)
BY DEF Moved, Reached

\* A lane given up at an empty head carries a tuple that is in no place.
LEMMA HeadFound ==
  ASSUME TableTyped, setup \in Setups, VectorTable, NEW t \in Threads, MachineOK(t, imv[t]),
         Graded(imv[t]), Carries(t, imv[t]), Reached(imv[t]), NEW r, NEW w, HeadProbed(t, r, w)
  PROVE  FoundBy(t, r) = FoundBy(t, imv[t]) /\ Reached(r) /\ Carries(t, r)
<1>1. /\ Carries(t, w) /\ Reached(w) /\ FoundBy(t, w) = FoundBy(t, imv[t])
      /\ Graded(w)
  BY SameLanesFound, SameWorkReached, WorkGraded DEF HeadProbed
<1>2. PICK have : have = {i \in w.st[w.k].have : heads[w.st[w.k].lane[i].head].count # 0}
  OBVIOUS
<1>3. PICK f : Moved(r, w, have, f) /\ r.cur = w.cur
  BY <1>2 DEF HeadProbed, ContinueGoesTo, Continued
<1>4. Carries(t, r) /\ Reached(r)
  <2>1. \A p \in Kept(w, have) : LaneOf(w, p).pos <= Len(heads[LaneOf(w, p).head].chain)
    BY <1>1 DEF Reached, Kept
  <2> QED BY <1>1, <1>3, <2>1, MovedCarries, MovedReached
<1>5. ASSUME NEW x \in Slice(t), NEW q, Foremost(x, q), NEW p \in Held(w) \ Kept(w, have),
             LaneOf(w, p).tuple = x
      PROVE  FALSE
  <2>1. p[1] = w.k /\ p[2] \in w.st[w.k].have /\ p[2] \notin have
    BY <1>5 DEF Kept, Held
  <2>2. heads[LaneOf(w, p).head].count = 0
    BY <1>2, <2>1 DEF LaneOf
  <2>3. Level(w, p[1]) = "head"
    BY <2>1 DEF Level, HeadProbed
  <2>4. LaneOf(w, p).head = setup.vidx[x]
    BY <1>1, <1>5, <2>3 DEF Graded, InGrade
  <2>5. PICK b \in Heads : b = setup.vidx[x]
    BY SliceTuples, TupleBucket
  <2>6. heads[b].chain = << >> /\ heads[b].tuples[1] = NoTuple
    <3>1. 1 \in SlotNums
      BY SetupsAssumption DEF SlotNums
    <3> QED BY <2>2, <2>4, <2>5, <3>1 DEF VectorTable, Counted
  <2>7. DOMAIN FirstTuples(b) = 1 .. 1 /\ FirstTuples(b)[1] = NoTuple
    <3>1. PICK n \in Nat : n = Len(heads[b].chain)
      BY FirstTuplesAre DEF TableTyped
    <3>2. n = 0
      BY <2>6, <3>1
    <3>3. DOMAIN FirstTuples(b) = 1 .. (n + 1) /\ FirstTuples(b)[1] = heads[b].tuples[1]
      BY <3>1, FirstTuplesAre DEF TableTyped
    <3>4. n + 1 = 1
      BY <3>2
    <3> QED BY <2>6, <3>3, <3>4
  <2>8. FirstTuples(b)[q] = x /\ q \in 1 .. 1
    BY <1>5, <2>5, <2>7 DEF Foremost
  <2>9. x = NoTuple
    BY <2>7, <2>8
  <2> QED BY <2>9, SliceTuples, TupleBucket
<1>6. ASSUME NEW x \in Slice(t), NEW q PROVE CountedAt(t, r, x, q) <=> CountedAt(t, w, x, q)
  <2>1. Past(r, x, q) <=> PastKept(w, have, x, q)
    BY <1>3, MovedPast
  <2>2. Kept(w, have) \subseteq Held(w)
    BY DEF Kept
  <2>3. Past(w, x, q) => PastKept(w, have, x, q)
    BY <2>2 DEF Past, PastKept
  <2>4. Foremost(x, q) /\ PastKept(w, have, x, q) => Past(w, x, q)
    BY <1>5 DEF Past, PastKept
  <2> QED BY <1>3, <2>1, <2>3, <2>4 DEF CountedAt
<1>7. FoundBy(t, r) = FoundBy(t, w)
  BY <1>6 DEF FoundBy
<1> QED BY <1>1, <1>4, <1>7

-----------------------------------------------------------------------------
(* A comparison of the lanes of a state with the buckets they are at.        *)
\* Of a finite set the image under an injection has as many elements.
LEMMA ImageCount ==
  ASSUME NEW S, IsFiniteSet(S), NEW f, NEW T, f \in [S -> T], \A y \in T : \E i \in S : f[i] = y,
         \A i, j \in S : f[i] = f[j] => i = j
  PROVE  IsFiniteSet(T) /\ Cardinality(T) = Cardinality(S)
<1>1. f \in Surjection(S, T) /\ f \in Injection(S, T)
  BY DEF Surjection, Injection, IsInjective
<1> QED BY <1>1, FS_Surjection

\* What is known of the lanes before and after they are moved on.
ChainLanes(t, w, a) ==
  /\ Held(a) = Held(w) /\ a.cur = w.cur /\ a.k = w.k
  /\ \A i \in w.st[w.k].have : <<w.k, i>> \in Held(w)
  /\ \A p \in Held(w) :
       /\ LaneOf(w, p).tuple \in Slice(t) /\ LaneOf(w, p).tuple <= First(t) + w.cur
       /\ LaneOf(w, p).head \in Heads /\ LaneOf(w, p).pos \in Nat
       /\ Len(heads[LaneOf(w, p).head].chain) \in Nat
       /\ LaneOf(w, p).pos <= Len(heads[LaneOf(w, p).head].chain)
       /\ LaneOf(a, p).tuple = LaneOf(w, p).tuple /\ LaneOf(a, p).head = LaneOf(w, p).head
       /\ p[1] # w.k => LaneOf(a, p) = LaneOf(w, p)
       /\ p[1] = w.k => /\ LaneOf(w, p).head = setup.vidx[LaneOf(w, p).tuple]
                        /\ GoesOn(LaneOf(w, p)) => LaneOf(a, p).pos = LaneOf(w, p).pos + 1
  /\ \A p, q \in Held(w) : LaneOf(w, p).tuple = LaneOf(w, q).tuple => p = q

LEMMA ChainLanesAre ==
  ASSUME TableTyped, setup \in Setups, NEW t \in Threads, MachineOK(t, imv[t]), Graded(imv[t]),
         Carries(t, imv[t]), Reached(imv[t]), NEW r, NEW w, NEW a, ChainProbed(t, r, w, a)
  PROVE  ChainLanes(t, w, a)
<1>1. /\ Carries(t, w) /\ Reached(w) /\ Graded(w)
      /\ w.k \in States /\ w.st[w.k].stage = "chain" /\ Advanced(w, a)
  BY SameLanesFound, SameWorkReached, WorkGraded DEF ChainProbed
<1>2. Held(a) = Held(w) /\ a.cur = w.cur /\ a.k = w.k
  BY <1>1 DEF Advanced, Held, SameOthers
<1>3. ASSUME NEW p \in Held(w)
      PROVE  /\ LaneOf(w, p).tuple \in Slice(t) /\ LaneOf(w, p).head \in Heads
             /\ LaneOf(w, p).pos \in Nat /\ Len(heads[LaneOf(w, p).head].chain) \in Nat
  <2>1. p \in Held(imv[t]) /\ LaneOf(w, p) = LaneOf(imv[t], p)
    BY DEF ChainProbed, SameWork
  <2>2. LaneOf(w, p).tuple \in Slice(t) /\ LaneOf(w, p).head \in Heads /\ LaneOf(w, p).pos \in Nat
    BY <2>1, LaneTyped
  <2> QED BY <2>2, FirstTuplesAre DEF TableTyped
<1>4. ASSUME NEW p \in Held(w)
      PROVE  /\ LaneOf(a, p).tuple = LaneOf(w, p).tuple /\ LaneOf(a, p).head = LaneOf(w, p).head
             /\ p[1] # w.k => LaneOf(a, p) = LaneOf(w, p)
             /\ p[1] = w.k => (GoesOn(LaneOf(w, p)) => LaneOf(a, p).pos = LaneOf(w, p).pos + 1)
  <2>1. CASE p[1] = w.k
    BY <1>1, <2>1 DEF Advanced, Held, LaneOf
  <2>2. CASE p[1] # w.k
    BY <1>1, <2>2 DEF Advanced, Held, LaneOf, SameOthers
  <2> QED BY <2>1, <2>2
<1>5. ASSUME NEW p \in Held(w), p[1] = w.k
      PROVE  LaneOf(w, p).head = setup.vidx[LaneOf(w, p).tuple]
  <2>1. Level(w, p[1]) = "chain"
    BY <1>1, <1>5 DEF Level
  <2> QED BY <1>1, <2>1 DEF Graded, InGrade
<1>6. \A p \in Held(w) : /\ LaneOf(w, p).tuple <= First(t) + w.cur
                         /\ LaneOf(w, p).pos <= Len(heads[LaneOf(w, p).head].chain)
  BY <1>1 DEF Carries, Reached
<1>7. \A p, q \in Held(w) : LaneOf(w, p).tuple = LaneOf(w, q).tuple => p = q
  BY <1>1 DEF Carries
<1>8. ASSUME NEW i \in w.st[w.k].have PROVE <<w.k, i>> \in Held(w)
  <2>1. imv[t].st[w.k].have \in SUBSET Lanes
    BY <1>1, StateTyped DEF MachineOK, LoopInv, MachineInv
  <2>2. w.st[w.k].have = imv[t].st[w.k].have
    BY <1>1 DEF ChainProbed, SameLanes
  <2> QED BY <1>1, <1>8, <2>1, <2>2 DEF Held
<1> QED BY <1>2, <1>3, <1>4, <1>5, <1>6, <1>7, <1>8 DEF ChainLanes

Going(w) == {i \in w.st[w.k].have : GoesOn(w.st[w.k].lane[i])}
Matching(w) == {i \in w.st[w.k].have : Compared(w.st[w.k].lane[i])}
Matched(w) == {w.st[w.k].lane[i].tuple : i \in Matching(w)}

\* The tuple of a lane that is compared is counted if its place is the next,
\* and never again.
LEMMA LaneFound ==
  ASSUME TableTyped, setup \in Setups, Unique, NEW t \in Threads, NEW w, NEW a,
         ChainLanes(t, w, a), NEW i \in w.st[w.k].have,
         NEW x, x = w.st[w.k].lane[i].tuple
  PROVE  /\ (\E q : x <= First(t) + a.cur /\ Foremost(x, q) /\ PastKept(a, Going(w), x, q))
              <=> (\E q : CountedAt(t, w, x, q)) \/ x \in Matched(w)
         /\ ~((\E q : CountedAt(t, w, x, q)) /\ x \in Matched(w))
<1>1. PICK p, l : p = <<w.k, i>> /\ p \in Held(w) /\ l = LaneOf(w, p) /\ l = w.st[w.k].lane[i]
  BY DEF LaneOf, ChainLanes
<1>2. PICK b, n, h : b = l.head /\ n = Len(heads[b].chain) /\ h = l.pos
  OBVIOUS
<1>3. /\ x = l.tuple /\ x \in Slice(t) /\ b \in Heads /\ b = setup.vidx[x]
      /\ h \in Nat /\ n \in Nat /\ h <= n
      /\ x <= First(t) + w.cur /\ a.cur = w.cur /\ a.k = w.k /\ Held(a) = Held(w)
      /\ GoesOn(l) => LaneOf(a, p).pos = h + 1
  BY <1>1, <1>2 DEF ChainLanes
<1>4. GoesOn(l) <=> h < n
  BY <1>2 DEF GoesOn
<1>5. \A s \in Held(w) : LaneOf(w, s).tuple = x => s = p
  BY <1>1, <1>3 DEF ChainLanes
<1>6. \A s \in Held(w) : LaneOf(a, s).tuple = LaneOf(w, s).tuple
  BY DEF ChainLanes
<1>7. \A q : Past(w, x, q) <=> h >= q
  BY <1>1, <1>2, <1>3, <1>5 DEF Past
<1>8. p \in Kept(a, Going(w)) <=> h < n
  BY <1>1, <1>3, <1>4 DEF Kept, Going
<1>9. \A q : PastKept(a, Going(w), x, q) <=> (h < n => h + 1 >= q)
  <2>1. \A s \in Kept(a, Going(w)) : s \in Held(w)
    BY <1>3 DEF Kept
  <2>2. LaneOf(a, p).tuple = x
    BY <1>1, <1>3, <1>6
  <2> QED BY <1>3, <1>4, <1>5, <1>6, <1>8, <2>1, <2>2 DEF PastKept
<1>10. x \in Matched(w) <=> Foremost(x, h + 1)
  <2>1. Compared(l) <=> FirstTuples(b)[h + 1] = x
    BY <1>2, <1>3 DEF Compared
  <2>2. h + 1 \in DOMAIN FirstTuples(b)
    <3>1. DOMAIN FirstTuples(b) = 1 .. (n + 1)
      BY <1>2, <1>3, FirstTuplesAre DEF TableTyped
    <3> QED BY <1>3, <3>1
  <2>3. Foremost(x, h + 1) <=> Compared(l)
    BY <1>3, <2>1, <2>2 DEF Foremost
  <2>4. i \in Matching(w) <=> Compared(l)
    BY <1>1 DEF Matching
  <2>5. ASSUME NEW j \in Matching(w), w.st[w.k].lane[j].tuple = x PROVE j = i
    <3>1. <<w.k, j>> \in Held(w) /\ LaneOf(w, <<w.k, j>>).tuple = x
      BY <2>5 DEF Matching, ChainLanes, LaneOf
    <3>2. <<w.k, j>> = p
      BY <1>5, <3>1
    <3> QED BY <1>1, <3>2
  <2> QED BY <1>1, <1>3, <2>3, <2>4, <2>5 DEF Matched
<1>11. \A q : Foremost(x, q) => q \in Nat /\ q <= n + 1
  BY <1>2, <1>3, ForemostNat
<1>12. (\E q : CountedAt(t, w, x, q)) <=> \E q : Foremost(x, q) /\ h >= q
  BY <1>3, <1>7 DEF CountedAt
<1>13. \A q \in Nat : q <= n + 1 => ((h < n => h + 1 >= q) <=> (h >= q \/ q = h + 1))
  BY <1>3
<1>14. \A q : Foremost(x, q) => (PastKept(a, Going(w), x, q) <=> (h >= q \/ q = h + 1))
  BY <1>9, <1>11, <1>13
<1>15. ASSUME NEW q, Foremost(x, q), h >= q, Foremost(x, h + 1) PROVE FALSE
  <2>1. x \in Tuples
    BY <1>3, SliceTuples
  <2>2. q = h + 1
    BY <1>15, <2>1 DEF Unique
  <2> QED BY <1>3, <1>15, <2>2
<1>16. x <= First(t) + a.cur
  BY <1>3
<1> QED BY <1>10, <1>12, <1>14, <1>15, <1>16

\* Tuples that no lane of the state compared carries.
LEMMA OtherFound ==
  ASSUME NEW t \in Threads, NEW w, NEW a, ChainLanes(t, w, a), NEW x,
         \A i \in w.st[w.k].have : w.st[w.k].lane[i].tuple # x
  PROVE  /\ x \notin Matched(w)
         /\ \A q : PastKept(a, Going(w), x, q) <=> Past(w, x, q)
<1>1. x \notin Matched(w)
  BY DEF Matched, Matching
<1>2. \A s \in Held(w) : s[1] = w.k => LaneOf(w, s).tuple # x
  BY DEF Held, LaneOf
<1>3. ASSUME NEW s \in Held(w), LaneOf(w, s).tuple = x
      PROVE  s \in Kept(a, Going(w)) /\ LaneOf(a, s) = LaneOf(w, s)
  BY <1>2, <1>3 DEF ChainLanes, Kept
<1>4. \A s \in Kept(a, Going(w)) : s \in Held(w) /\ LaneOf(a, s).tuple = LaneOf(w, s).tuple
  BY DEF ChainLanes, Kept
<1> QED BY <1>1, <1>3, <1>4 DEF Past, PastKept

LEMMA MatchedCount ==
  ASSUME setup \in Setups, NEW t \in Threads, NEW w, NEW a, ChainLanes(t, w, a)
  PROVE  /\ Matched(w) \subseteq Slice(t)
         /\ IsFiniteSet(Matched(w)) /\ Cardinality(Matched(w)) = Cardinality(Matching(w))
<1>1. PICK f : f = [i \in Matching(w) |-> w.st[w.k].lane[i].tuple]
  OBVIOUS
<1>2. f \in [Matching(w) -> Matched(w)] /\ \A y \in Matched(w) : \E i \in Matching(w) : f[i] = y
  BY <1>1 DEF Matched
<1>3. \A i \in Matching(w) : /\ <<w.k, i>> \in Held(w)
                             /\ LaneOf(w, <<w.k, i>>).tuple = w.st[w.k].lane[i].tuple
  BY DEF Matching, ChainLanes, LaneOf
<1>4. \A i, j \in Matching(w) : f[i] = f[j] => i = j
  <2>1. SUFFICES ASSUME NEW i \in Matching(w), NEW j \in Matching(w), f[i] = f[j] PROVE i = j
    OBVIOUS
  <2>2. <<w.k, i>> = <<w.k, j>>
    BY <1>1, <1>3, <2>1 DEF ChainLanes
  <2> QED BY <2>2
<1>5. Matched(w) \subseteq Slice(t)
  <2>1. \A p \in Held(w) : LaneOf(w, p).tuple \in Slice(t)
    BY DEF ChainLanes
  <2>2. \A i \in Matching(w) : w.st[w.k].lane[i].tuple \in Slice(t)
    BY <1>3, <2>1
  <2> QED BY <2>2 DEF Matched
<1>6. IsFiniteSet(Matching(w))
  <2>1. \A i \in Matching(w) : i \in Lanes
    BY <1>3 DEF Held
  <2>2. Matching(w) \in SUBSET Lanes
    BY <2>1
  <2> QED BY <2>2, MaskFinite
<1>7. Cardinality(Matched(w)) = Cardinality(Matching(w)) /\ IsFiniteSet(Matched(w))
  <2>1. PICK S, T : S = Matching(w) /\ T = Matched(w)
    OBVIOUS
  <2>2. IsFiniteSet(S) /\ f \in [S -> T] /\ \A y \in T : \E i \in S : f[i] = y
    BY <1>2, <1>6, <2>1
  <2>3. \A i, j \in S : f[i] = f[j] => i = j
    BY <1>4, <2>1
  <2>4. IsFiniteSet(T) /\ Cardinality(T) = Cardinality(S)
    BY <2>2, <2>3, ImageCount
  <2> QED BY <2>1, <2>4
<1> QED BY <1>5, <1>7

\* A comparison adds to the tuples counted those whose place it is at.
LEMMA ChainFound ==
  ASSUME TableTyped, setup \in Setups, Unique, NEW t \in Threads, MachineOK(t, imv[t]),
         Graded(imv[t]), Carries(t, imv[t]), Reached(imv[t]),
         NEW r, NEW w, NEW a, ChainProbed(t, r, w, a)
  PROVE  /\ Reached(r) /\ Carries(t, r)
         /\ Cardinality(FoundBy(t, r)) = Cardinality(FoundBy(t, imv[t])) + Cardinality(Matching(w))
<1>1. ChainLanes(t, w, a)
  BY ChainLanesAre
<1>2. FoundBy(t, w) = FoundBy(t, imv[t])
  BY SameLanesFound DEF ChainProbed
<1>3. PICK f : Moved(r, a, Going(w), f) /\ r.cur = a.cur
  BY DEF ChainProbed, ContinueGoesTo, Continued, Going
<1>4. Carries(t, r)
  <2>1. Carries(t, a)
    BY <1>1 DEF ChainLanes, Carries
  <2> QED BY <1>3, <2>1, MovedCarries
<1>5. Reached(r)
  <2>1. ASSUME NEW p \in Kept(a, Going(w))
        PROVE  LaneOf(a, p).pos <= Len(heads[LaneOf(a, p).head].chain)
    <3>1. PICK l : l = LaneOf(w, p)
      OBVIOUS
    <3>2. p \in Held(w) /\ LaneOf(a, p).head = l.head
      BY <1>1, <3>1 DEF ChainLanes, Kept
    <3>3. PICK n \in Nat, h \in Nat : n = Len(heads[l.head].chain) /\ h = l.pos /\ h <= n
      BY <1>1, <3>1, <3>2 DEF ChainLanes
    <3>4. CASE p[1] = w.k
      <4>1. p[2] \in Going(w)
        BY <1>1, <3>4 DEF Kept, ChainLanes
      <4>2. GoesOn(l)
        BY <3>1, <3>4, <4>1 DEF Going, LaneOf
      <4>3. LaneOf(a, p).pos = h + 1 /\ h < n
        BY <1>1, <3>1, <3>2, <3>3, <3>4, <4>2 DEF ChainLanes, GoesOn
      <4>4. h + 1 <= n
        BY <4>3
      <4> QED BY <3>2, <3>3, <4>3, <4>4
    <3>5. CASE p[1] # w.k
      BY <1>1, <3>1, <3>2, <3>3, <3>5 DEF ChainLanes
    <3> QED BY <3>4, <3>5
  <2> QED BY <1>3, <2>1, MovedReached
<1>6. ASSUME NEW x \in Slice(t)
      PROVE  /\ x \in FoundBy(t, r) <=> x \in FoundBy(t, w) \/ x \in Matched(w)
             /\ ~(x \in FoundBy(t, w) /\ x \in Matched(w))
  <2>1. \A q : Past(r, x, q) <=> PastKept(a, Going(w), x, q)
    BY <1>3, MovedPast
  <2>2. x \in FoundBy(t, w) <=> \E q : CountedAt(t, w, x, q)
    BY DEF FoundBy
  <2>3. x \in FoundBy(t, r) <=>
          \E q : x <= First(t) + a.cur /\ Foremost(x, q) /\ PastKept(a, Going(w), x, q)
    BY <1>3, <2>1 DEF FoundBy, CountedAt
  <2>4. CASE \E i \in w.st[w.k].have : w.st[w.k].lane[i].tuple = x
    BY <1>1, <2>2, <2>3, <2>4, LaneFound
  <2>5. CASE \A i \in w.st[w.k].have : w.st[w.k].lane[i].tuple # x
    <3>1. x \notin Matched(w) /\ \A q : PastKept(a, Going(w), x, q) <=> Past(w, x, q)
      BY <1>1, <2>5, OtherFound
    <3>2. a.cur = w.cur
      BY <1>1 DEF ChainLanes
    <3> QED BY <2>2, <2>3, <3>1, <3>2 DEF CountedAt
  <2> QED BY <2>4, <2>5
<1>7. FoundBy(t, r) \subseteq Slice(t) /\ FoundBy(t, w) \subseteq Slice(t)
  BY DEF FoundBy
<1>8. /\ Matched(w) \subseteq Slice(t)
      /\ IsFiniteSet(Matched(w)) /\ Cardinality(Matched(w)) = Cardinality(Matching(w))
  BY <1>1, MatchedCount
<1>9. FoundBy(t, r) = FoundBy(t, w) \union Matched(w) /\ FoundBy(t, w) \intersect Matched(w) = {}
  BY <1>6, <1>7, <1>8
<1>10. IsFiniteSet(FoundBy(t, w)) /\ Cardinality(FoundBy(t, w)) \in Nat
  BY <1>7, FoundFinite
<1>11. Cardinality(Matched(w)) \in Nat
  BY <1>8, FS_CardinalityType
<1>12. Cardinality(FoundBy(t, r)) = Cardinality(FoundBy(t, w)) + Cardinality(Matched(w))
  <2>1. PICK S, T : S = FoundBy(t, w) /\ T = Matched(w)
    OBVIOUS
  <2>2. Cardinality(S \union T) = Cardinality(S) + Cardinality(T) - Cardinality(S \intersect T)
    BY <1>8, <1>10, <2>1, FS_Union
  <2>3. Cardinality(S \intersect T) = 0
    BY <1>9, <2>1, FS_EmptySet
  <2> QED BY <1>9, <1>10, <1>11, <2>1, <2>2, <2>3
<1> QED BY <1>2, <1>4, <1>5, <1>8, <1>12

-----------------------------------------------------------------------------
(* The end of the probes.                                                    *)
LEMMA LeaveHolds ==
  ASSUME VectorOK, NEW t \in Threads, ImvLeave(t)
  PROVE  imv[t].cur \in Nat /\ imv[t].cur >= NumTuples(t) /\ \A p : p \notin Held(imv[t])
<1>0. MachineOK(t, imv[t])
  BY DEF VectorOK
<1>1. PICK m, V, C : m = imv[t] /\ V = LaneValues /\ C = Chains
  OBVIOUS
<1>2. MachineInv(V, C, m)
  BY <1>0, <1>1 DEF MachineOK, LoopInv
<1>3. m.cur \in Nat /\ m.done \in 0 .. StateSize /\ m.done = Cardinality(DoneStates(m))
  BY <1>2, MachineFields DEF MachineInv
<1>4. m.cur >= NumTuples(t) /\ m.done >= StateSize /\ m.st[Residual].have = {}
  BY <1>1 DEF ImvLeave, InLoop, Leaving, OnlyResidual, Drained
<1>5. DoneStates(m) = States \ {Residual}
  <2>1. m.done = StateSize
    BY <1>3, <1>4, ResidualIsState
  <2> QED BY <1>3, <2>1, DoneStatesCount
<1>6. \A s \in States : m.st[s].have = {}
  BY <1>2, <1>4, <1>5 DEF MachineInv, DoneStates
<1>7. \A p : p \notin Held(m)
  BY <1>6 DEF Held
<1> QED BY <1>1, <1>3, <1>4, <1>7

\* Without lanes every tuple of the part that is in the table is counted.
LEMMA LeaveFound ==
  ASSUME TableTyped, VectorOK, setup \in Setups, VectorTable, NEW t \in Threads, ImvLeave(t)
  PROVE  FoundBy(t, imv[t]) = PresentFor(t)
<1>1. PICK m, f, n, c : m = imv[t] /\ f = First(t) /\ n = NumTuples(t) /\ c = imv[t].cur
  OBVIOUS
<1>2. f \in Nat /\ n \in Nat /\ c \in Nat /\ c >= n /\ \A p : p \notin Held(m)
  BY <1>1, LeaveHolds, SlicePart
<1>3. ASSUME NEW x \in Slice(t) PROVE (\E q : CountedAt(t, m, x, q)) <=> PlacesOf(x) # {}
  <2>1. x \in Nat /\ x <= f + n
    BY <1>1, SlicePart
  <2>2. x <= First(t) + m.cur
    BY <1>1, <1>2, <2>1
  <2>3. \A q : CountedAt(t, m, x, q) <=> Foremost(x, q)
    BY <1>2, <2>2 DEF CountedAt, Past
  <2>4. x \in Tuples
    BY SliceTuples
  <2> QED BY <2>3, <2>4, FoundIsPresent DEF Findable
<1>4. FoundBy(t, m) = PresentFor(t)
  BY <1>3 DEF FoundBy, PresentFor
<1> QED BY <1>1, <1>4

\* The tuples a probe of one tuple at a time has counted.
FoundBelow(t, y) == {x \in Slice(t) : x < y /\ Findable(x)}
LEMMA HitsOne ==
  ASSUME setup \in Setups, Unique, NEW x \in Tuples
  PROVE  Hits(x, setup.vidx[x]) = IF Findable(x) THEN 1 ELSE 0
<1>1. PICK S : S = {q \in DOMAIN FirstTuples(setup.vidx[x]) : FirstTuples(setup.vidx[x])[q] = x}
  OBVIOUS
<1>2. \A q : q \in S <=> Foremost(x, q)
  BY <1>1 DEF Foremost
<1>3. \A p, q \in S : p = q
  BY <1>2 DEF Unique
<1>4. S # {} <=> Findable(x)
  BY <1>2 DEF Findable
<1>5. Cardinality(S) = IF Findable(x) THEN 1 ELSE 0
  BY <1>3, <1>4, AtMostOne, FS_EmptySet
<1> QED BY <1>1, <1>5 DEF Hits

LEMMA BelowNext ==
  ASSUME setup \in Setups, Unique, NEW t \in Threads, NEW y \in Slice(t)
  PROVE  Cardinality(FoundBelow(t, y + 1))
           = Cardinality(FoundBelow(t, y)) + Hits(y, setup.vidx[y])
<1>1. PICK S, T : S = FoundBelow(t, y) /\ T = FoundBelow(t, y + 1)
  OBVIOUS
<1>2. y \in Nat /\ y \in Tuples /\ \A x \in Slice(t) : x \in Nat
  BY SlicePart, SliceTuples
<1>3. IsFiniteSet(S) /\ Cardinality(S) \in Nat
  BY <1>1, FoundFinite DEF FoundBelow
<1>4. y \notin S
  BY <1>1, <1>2 DEF FoundBelow
<1>5. \A x \in Slice(t) : x < y + 1 <=> x < y \/ x = y
  BY <1>2
<1>6. CASE Findable(y)
  <2>1. T = S \union {y}
    BY <1>1, <1>5, <1>6 DEF FoundBelow
  <2>2. Cardinality(T) = Cardinality(S) + 1
    BY <1>3, <1>4, <2>1, FS_AddElement
  <2> QED BY <1>1, <1>2, <1>6, <2>2, HitsOne
<1>7. CASE ~Findable(y)
  <2>1. T = S
    BY <1>1, <1>5, <1>7 DEF FoundBelow
  <2>2. Cardinality(T) = Cardinality(S) + 0
    BY <1>3, <2>1
  <2> QED BY <1>1, <1>2, <1>7, <2>2, HitsOne
<1> QED BY <1>6, <1>7

LEMMA BelowEnds ==
  ASSUME TableTyped, setup \in Setups, VectorTable, NEW t \in Threads
  PROVE  /\ FoundBelow(t, First(t) + 1) = {}
         /\ FoundBelow(t, First(t) + NumTuples(t) + 1) = PresentFor(t)
<1>1. PICK f \in Nat, n \in Nat : f = First(t) /\ n = NumTuples(t)
  BY SlicePart
<1>2. ASSUME NEW x \in Slice(t)
      PROVE  ~(x < f + 1) /\ x < f + n + 1 /\ (Findable(x) <=> PlacesOf(x) # {})
  <2>1. x \in Nat /\ x > f /\ x <= f + n
    BY <1>1, SlicePart
  <2>2. Findable(x) <=> PlacesOf(x) # {}
    BY SliceTuples, FoundIsPresent
  <2> QED BY <1>1, <2>1, <2>2
<1> QED BY <1>1, <1>2 DEF FoundBelow, PresentFor

-----------------------------------------------------------------------------
(* The invariant of the counts.                                              *)
VectorSums(t, m, c) == Reached(m) /\ Carries(t, m) /\ c = Cardinality(FoundBy(t, m))
ScalarSums(t, i, c) == c = Cardinality(FoundBelow(t, First(t) + i + 1))
ResultCounts(t, c) == c = Cardinality(PresentFor(t))
ProbeInv(t) ==
  phase[t].pc = "probe" =>
    /\ at[t] = "work" /\ Fid(phase[t]) = 1 => VectorSums(t, imv[t], matches[t])
    /\ at[t] = "work" /\ Fid(phase[t]) = 0 /\ setup.idx = setup.vidx
         => ScalarSums(t, scalar[t].i, matches[t])
    /\ at[t] # "work" /\ (Fid(phase[t]) = 1 \/ setup.idx = setup.vidx)
         => ResultCounts(t, num_results[t])
EndInv ==
  /\ phase[0].pc = "end" /\ setup.threads = 1 => num_results[0] = setup.n
  /\ result # -1 /\ setup.threads = 1 => result = setup.n
CountInv == (\A t \in Threads : ProbeInv(t)) /\ EndInv

LEMMA SameSums ==
  ASSUME setup' = setup, heads' = heads
  PROVE  \A t, m, c : /\ VectorSums(t, m, c)' <=> VectorSums(t, m, c)
                      /\ ScalarSums(t, m, c)' <=> ScalarSums(t, m, c)
                      /\ ResultCounts(t, c)' <=> ResultCounts(t, c)
<1>1. \A t : Slice(t)' = Slice(t) /\ First(t)' = First(t)
  BY DEF Slice, First, NumTuples, numRthr
<1>2. \A b : FirstTuples(b)' = FirstTuples(b)
  BY DEF FirstTuples
<1>3. \A x, q : Foremost(x, q)' <=> Foremost(x, q)
  BY <1>2 DEF Foremost
<1>4. \A m : Reached(m)' <=> Reached(m)
  BY DEF Reached, LaneOf, Held
<1>5. \A t, m : Carries(t, m)' <=> Carries(t, m)
  BY <1>1 DEF Carries, LaneOf, Held
<1>6. \A m, x, q : Past(m, x, q)' <=> Past(m, x, q)
  BY DEF Past, LaneOf, Held
<1>7. \A t, m : FoundBy(t, m)' = FoundBy(t, m)
  BY <1>1, <1>3, <1>6 DEF FoundBy, CountedAt
<1>8. \A t, y : FoundBelow(t, y)' = FoundBelow(t, y)
  BY <1>1, <1>3 DEF FoundBelow, Findable
<1>9. \A x : PlacesOf(x)' = PlacesOf(x)
  BY DEF PlacesOf, SlotsOf, InSlot
<1>10. \A t : PresentFor(t)' = PresentFor(t)
  BY <1>1, <1>9 DEF PresentFor
<1> QED BY <1>1, <1>4, <1>5, <1>7, <1>8, <1>10 DEF VectorSums, ScalarSums, ResultCounts

LEMMA PrimedVectorSums ==
  ASSUME NEW u, NEW m, NEW c, imv'[u] = m, matches'[u] = c, VectorSums(u, m, c)'
  PROVE  VectorSums(u, imv[u], matches[u])'
<1>1. Reached(imv[u])' <=> Reached(m)'
  BY DEF Reached, Held, LaneOf
<1>2. Carries(u, imv[u])' <=> Carries(u, m)'
  BY DEF Carries, Held, LaneOf
<1>3. FoundBy(u, imv[u])' = FoundBy(u, m)'
  BY DEF FoundBy, CountedAt, Past, Held, LaneOf
<1> QED BY <1>1, <1>2, <1>3 DEF VectorSums

\* What a step that leaves the table alone makes of a thread's counts.
Sums(u, p, working, m, i, c, d) ==
  p.pc = "probe" =>
    /\ working /\ Fid(p) = 1 => VectorSums(u, m, c)
    /\ working /\ Fid(p) = 0 /\ setup.idx = setup.vidx => ScalarSums(u, i, c)
    /\ ~working /\ (Fid(p) = 1 \/ setup.idx = setup.vidx) => ResultCounts(u, d)
LEMMA SumsNow ==
  ASSUME NEW u
  PROVE  ProbeInv(u)
           <=> Sums(u, phase[u], at[u] = "work", imv[u], scalar[u].i, matches[u], num_results[u])
BY DEF ProbeInv, Sums
LEMMA SumsThen ==
  ASSUME UNCHANGED <<setup, heads>>, NEW u, NEW p, NEW w \in BOOLEAN, NEW m, NEW i, NEW c, NEW d,
         phase'[u] = p, (at'[u] = "work") <=> w, imv'[u] = m, scalar'[u].i = i, matches'[u] = c,
         num_results'[u] = d, Sums(u, p, w, m, i, c, d)
  PROVE  ProbeInv(u)'
<1>1. (Fid(p) = 1 => Fid(phase[u])' = 1) /\ (Fid(phase[u])' = 1 => Fid(p) = 1)
      /\ (Fid(p) = 0 <=> Fid(phase[u])' = 0)
  BY DEF Fid
<1>2. VectorSums(u, m, c) => VectorSums(u, imv[u], matches[u])'
  BY SameSums, PrimedVectorSums
<1>3. ScalarSums(u, i, c) => ScalarSums(u, scalar[u].i, matches[u])'
  <2>1. ScalarSums(u, i, c) => ScalarSums(u, i, c)'
    BY SameSums
  <2> QED BY <2>1 DEF ScalarSums
<1>4. ResultCounts(u, d) => ResultCounts(u, num_results[u])'
  <2>1. ResultCounts(u, d) => ResultCounts(u, d)'
    BY SameSums
  <2> QED BY <2>1 DEF ResultCounts
<1> QED BY <1>1, <1>2, <1>3, <1>4 DEF Sums, ProbeInv

\* A thread whose locals and result stay.
LEMMA StillProbe ==
  ASSUME UNCHANGED <<setup, heads, phase>>, NEW u, ProbeInv(u), (at'[u] = "work") <=> (at[u] = "work"),
         imv'[u] = imv[u], scalar'[u] = scalar[u], matches'[u] = matches[u],
         num_results'[u] = num_results[u]
  PROVE  ProbeInv(u)'
<1>1. PICK p, m, i, c, d : /\ p = phase[u] /\ m = imv[u] /\ i = scalar[u].i /\ c = matches[u]
                           /\ d = num_results[u]
  OBVIOUS
<1>2. PICK w \in BOOLEAN : w <=> at[u] = "work"
  OBVIOUS
<1>3. Sums(u, p, w, m, i, c, d)
  BY <1>1, <1>2, SumsNow DEF Sums
<1> QED BY <1>1, <1>2, <1>3, SumsThen

\* Outside the probes there is nothing to count.
LEMMA NotProbing ==
  ASSUME NEW u, phase'[u].pc # "probe"
  PROVE  ProbeInv(u)'
BY DEF ProbeInv

LEMMA StillEnd ==
  ASSUME UNCHANGED <<setup, phase, num_results, result>>, EndInv
  PROVE  EndInv'
BY DEF EndInv

\* What the steps of a probe start from.
LEMMA ProbeOK ==
  ASSUME TypesInv, BuffersInv, OnceInv, FillInv, VectorInv
  PROVE  /\ TableTyped /\ VectorOK /\ setup \in Setups /\ Unique /\ 0 \in Threads
         /\ \A u \in Threads : phase[u] = phase[0]
         /\ phase[0].pc = "probe" => VectorTable
         /\ phase[0].pc = "probe" /\ Fid(phase[0]) = 1 => VectorsGraded
<1>1. /\ TableTyped /\ VectorOK /\ setup \in Setups /\ 0 \in Threads
      /\ \A u \in Threads : phase[u] = phase[0]
  BY FillOK DEF LinkInv
<1>2. Unique
  BY <1>1, ForemostOnce DEF BuffersInv, OnceInv
<1>3. ASSUME phase[0].pc = "probe" PROVE VectorTable
  <2>1. ht = 2 * RunNums /\ RunNums \in Nat \ {0}
    BY <1>3, BoundsAssumption DEF VectorInv, TableNumber
  <2>2. ht > RunNums
    BY <2>1
  <2> QED BY <2>2 DEF VectorInv
<1>4. phase[0].pc = "probe" /\ Fid(phase[0]) = 1 => VectorsGraded
  BY DEF VectorInv, OnVectors
<1> QED BY <1>1, <1>2, <1>3, <1>4

\* The steps of a vector probe.
ProbeTurn(t) ==
  ImvRetire(t) \/ ImvSkip(t) \/ ImvLoad(t) \/ LearnedLoad(t) \/ ImvModel(t) \/ ProbeHead(t)
LEMMA ProbeWork ==
  ASSUME NEW t, VectorWork(t), phase[t].pc = "probe"
  PROVE  /\ ProbeTurn(t) \/ ProbeChain(t)
         /\ ProbeTurn(t) => UNCHANGED matches
<1>1. ~Scattering(t)
  BY DEF Scattering, ScatterHead, ScatterNext, Running
<1>2. ~GatherStart(t) /\ ~Gathered(t) /\ ~Scattered(t)
      /\ \A i \in Lanes : ~(GatherHead(t, i) \/ GatherNext(t, i))
  BY DEF GatherStart, InBuildStage, Gathered, Scattered, GatherHead, GatherNext, Running
<1>3. ProbeTurn(t) => UNCHANGED matches
  <2>1. ProbeTurn(t) => Turning(t)
    BY DEF ProbeTurn, Turning
  <2> QED BY <2>1, WorkFrame
<1> QED BY <1>1, <1>2, <1>3 DEF VectorWork, Turning, Counting, ProbeTurn

LEMMA TurnSums ==
  ASSUME TableTyped, VectorOK, setup \in Setups, VectorTable, VectorsGraded, NEW t \in Threads,
         ProbeTurn(t), NEW c, VectorSums(t, imv[t], c)
  PROVE  \E r : Goes(t, r) /\ VectorSums(t, r, c)
<1>0. /\ MachineOK(t, imv[t]) /\ Graded(imv[t]) /\ Carries(t, imv[t]) /\ Reached(imv[t])
      /\ c = Cardinality(FoundBy(t, imv[t]))
  BY DEF VectorOK, VectorsGraded, VectorSums
<1>1. CASE ImvRetire(t) \/ ImvSkip(t)
  <2>1. PICK r : Goes(t, r) /\ SameLanes(r, imv[t]) /\ SameWork(r, imv[t])
    BY <1>1, RetireGoes, SkipGoes
  <2>2. Reached(r) /\ Carries(t, r) /\ FoundBy(t, r) = FoundBy(t, imv[t])
    BY <1>0, <2>1, SameLanesFound, SameWorkReached
  <2> QED BY <1>0, <2>1, <2>2 DEF VectorSums
<1>2. CASE ImvLoad(t) \/ LearnedLoad(t)
  <2>1. PICK r, w : Goes(t, r) /\ r.op = "turn" /\ LoadsNext(t, r, w)
    BY <1>2, LoadGoes
  <2>2. imv[t].op = "turn"
    BY <1>2 DEF ImvLoad, LearnedLoad, InStage, InLoop
  <2>3. MachineOK(t, r)
    BY <2>1 DEF Goes
  <2>4. Carries(t, r)
    BY <1>0, <2>1, <2>2, <2>3, LoadsFollow DEF Follows
  <2>5. Reached(r) /\ FoundBy(t, r) = FoundBy(t, imv[t])
    BY <1>0, <2>1, <2>3, LoadFound
  <2> QED BY <1>0, <2>1, <2>4, <2>5 DEF VectorSums
<1>3. CASE ImvModel(t)
  <2>1. PICK r : Goes(t, r) /\ SameLanes(r, imv[t]) /\ ModelPlaces(t, r)
    BY <1>3, ModelGoes
  <2>2. Reached(r)
    BY <1>0, <2>1, ModelReached DEF Goes
  <2>3. Carries(t, r) /\ FoundBy(t, r) = FoundBy(t, imv[t])
    BY <1>0, <2>1, SameLanesFound
  <2> QED BY <1>0, <2>1, <2>2, <2>3 DEF VectorSums
<1>4. CASE ProbeHead(t)
  <2>1. PICK r, w : HeadProbed(t, r, w)
    BY <1>4, ProbeHeadGoes
  <2>2. Goes(t, r)
    BY <2>1 DEF HeadProbed, ContinueGoesTo
  <2>3. FoundBy(t, r) = FoundBy(t, imv[t]) /\ Reached(r) /\ Carries(t, r)
    BY <1>0, <2>1, HeadFound
  <2> QED BY <1>0, <2>2, <2>3 DEF VectorSums
<1> QED BY <1>1, <1>2, <1>3, <1>4 DEF ProbeTurn

LEMMA ChainSums ==
  ASSUME TableTyped, VectorOK, ResultsTyped, setup \in Setups, Unique, VectorsGraded,
         NEW t \in Threads, ProbeChain(t), VectorSums(t, imv[t], matches[t])
  PROVE  /\ \E r : Goes(t, r) /\ VectorSums(t, r, matches'[t])
         /\ \A u \in Threads \ {t} : matches'[u] = matches[u]
<1>1. /\ MachineOK(t, imv[t]) /\ Graded(imv[t]) /\ Carries(t, imv[t]) /\ Reached(imv[t])
      /\ matches[t] = Cardinality(FoundBy(t, imv[t]))
  BY DEF VectorOK, VectorsGraded, VectorSums
<1>2. PICK r, w, a : ChainProbed(t, r, w, a)
  BY ProbeChainGoes
<1>3. Goes(t, r) /\ matches' = [matches EXCEPT ![t] = @ + Cardinality(Matching(w))]
  BY <1>2 DEF ChainProbed, ContinueGoesTo, Matching
<1>4. matches'[t] = matches[t] + Cardinality(Matching(w))
      /\ \A u \in Threads \ {t} : matches'[u] = matches[u]
  BY <1>3 DEF ResultsTyped
<1>5. /\ Reached(r) /\ Carries(t, r)
      /\ Cardinality(FoundBy(t, r)) = Cardinality(FoundBy(t, imv[t])) + Cardinality(Matching(w))
  BY <1>1, <1>2, ChainFound
<1> QED BY <1>1, <1>3, <1>4, <1>5 DEF VectorSums

LEMMA WorkCount ==
  ASSUME TypesInv, BuffersInv, OnceInv, FillInv, VectorInv, CountInv,
         NEW t \in Threads, VectorWork(t)
  PROVE  CountInv'
<1>0. /\ TableTyped /\ VectorOK /\ setup \in Setups /\ Unique
      /\ \A u \in Threads : phase[u] = phase[0]
      /\ phase[0].pc = "probe" => VectorTable
      /\ phase[0].pc = "probe" /\ Fid(phase[0]) = 1 => VectorsGraded
  BY ProbeOK
<1>1. UNCHANGED <<setup, phase, at, result, scalar, num_results>> /\ at[t] = "work"
      /\ Fid(phase[t]) = 1 /\ Threads' = Threads
  BY WorkFrame, WorkPhase, SameSetup DEF WorkLeaves
<1>2. EndInv'
  BY <1>1, StillEnd DEF CountInv
<1>3. CASE phase[t].pc # "probe"
  <2>1. \A u \in Threads : ProbeInv(u)'
    BY <1>0, <1>1, <1>3, NotProbing
  <2> QED BY <1>1, <1>2, <2>1 DEF CountInv
<1>4. CASE phase[t].pc = "probe"
  <2>1. ProbeTurn(t) \/ ProbeChain(t)
    BY <1>4, ProbeWork
  <2>2. heads' = heads
    BY <2>1, WorkFrame, ProbeWork, <1>4 DEF Counting, Turning, ProbeTurn
  <2>3. VectorSums(t, imv[t], matches[t])
    BY <1>1, <1>4 DEF CountInv, ProbeInv
  <2>4. VectorTable /\ VectorsGraded /\ ResultsTyped
    BY <1>0, <1>1, <1>4 DEF TypesInv
  <2>5. /\ \E r : Goes(t, r) /\ VectorSums(t, r, matches'[t])
        /\ \A u \in Threads \ {t} : matches'[u] = matches[u]
    <3>1. CASE ProbeTurn(t)
      <4>1. PICK c : c = matches[t] /\ matches'[t] = c /\ matches' = matches
        BY <1>4, <3>1, ProbeWork
      <4> QED BY <1>0, <2>3, <2>4, <3>1, <4>1, TurnSums
    <3>2. CASE ProbeChain(t)
      BY <1>0, <2>3, <2>4, <3>2, ChainSums
    <3> QED BY <2>1, <3>1, <3>2
  <2>6. PICK r, c : Goes(t, r) /\ VectorSums(t, r, c) /\ c = matches'[t]
    BY <2>5
  <2>7. imv'[t] = r /\ \A u \in Threads \ {t} : imv'[u] = imv[u]
    BY <1>0, <2>6 DEF VectorOK, Goes
  <2>8. ProbeInv(t)'
    <3>1. PICK p, i, d : p = phase[t] /\ i = scalar[t].i /\ d = num_results[t]
      OBVIOUS
    <3>2. Sums(t, p, TRUE, r, i, c, d)
      BY <1>1, <2>6, <3>1 DEF Sums
    <3> QED BY <1>1, <2>2, <2>6, <2>7, <3>1, <3>2, SumsThen
  <2>9. ASSUME NEW u \in Threads \ {t} PROVE ProbeInv(u)'
    BY <1>1, <2>2, <2>5, <2>7, StillProbe DEF CountInv
  <2> QED BY <1>1, <1>2, <2>8, <2>9 DEF CountInv
<1> QED BY <1>3, <1>4

\* A tuple is probed for by itself, in the bucket it was put in.
LEMMA TupleSums ==
  ASSUME setup \in Setups, Unique, ScalarOK, NEW t \in Threads, scalar[t].i < NumTuples(t),
         setup.idx = setup.vidx, NEW c, ScalarSums(t, scalar[t].i, c)
  PROVE  ScalarSums(t, scalar[t].i + 1, c + Hits(Tuple(t), Bucket(t)))
<1>1. PICK i \in Nat, f \in Nat, n \in Nat :
        i = scalar[t].i /\ f = First(t) /\ n = NumTuples(t) /\ i < n
  BY SlicePart DEF ScalarOK
<1>2. PICK y \in Nat : y = f + i + 1
  BY <1>1
<1>3. y = Tuple(t) /\ Bucket(t) = setup.vidx[y] /\ y + 1 = f + (i + 1) + 1
  BY <1>1, <1>2 DEF Tuple, Bucket
<1>4. y \in Slice(t)
  BY <1>1, <1>2, SlicePart
<1>5. Cardinality(FoundBelow(t, y + 1)) = Cardinality(FoundBelow(t, y)) + Hits(y, setup.vidx[y])
  BY <1>4, BelowNext
<1> QED BY <1>1, <1>2, <1>3, <1>5 DEF ScalarSums

LEMMA LockingCount ==
  ASSUME TypesInv, BuffersInv, OnceInv, FillInv, VectorInv, CountInv,
         NEW t \in Threads, Locking(t)
  PROVE  CountInv'
<1>0. /\ TableTyped /\ VectorOK /\ setup \in Setups /\ Unique
      /\ \A u \in Threads : phase[u] = phase[0]
      /\ ScalarOK /\ ResultsTyped
  BY ProbeOK, FillOK DEF TypesInv
<1>1. UNCHANGED <<setup, phase, at, result, num_results, imv>> /\ at[t] = "work"
      /\ Fid(phase[t]) = 0 /\ Threads' = Threads
  BY SameSetup DEF Locking, Lock, Claim, Store, Unlock, ProbeTuple, Inside, BuildOnly, ProbeOnly,
     AtStep, BuildWith, Working
<1>2. EndInv'
  BY <1>1, StillEnd DEF CountInv
<1>3. CASE ~ProbeTuple(t)
  <2>1. phase[t].pc = "build"
    BY <1>3 DEF Locking, Lock, Claim, Store, Unlock, AtStep, BuildWith, Working
  <2>2. \A u \in Threads : ProbeInv(u)'
    BY <1>0, <1>1, <2>1, NotProbing
  <2> QED BY <1>1, <1>2, <2>2 DEF CountInv
<1>4. CASE ProbeTuple(t)
  <2>1. /\ phase[t].pc = "probe" /\ scalar[t].i < NumTuples(t) /\ heads' = heads
        /\ matches' = [matches EXCEPT ![t] = @ + Hits(Tuple(t), Bucket(t))]
        /\ scalar' = [scalar EXCEPT ![t].i = @ + 1]
    BY <1>4 DEF ProbeTuple, Working, ProbeOnly, table
  <2>2. /\ matches'[t] = matches[t] + Hits(Tuple(t), Bucket(t))
        /\ \A u \in Threads \ {t} : matches'[u] = matches[u]
    BY <1>0, <2>1 DEF ResultsTyped
  <2>3. /\ scalar'[t].i = scalar[t].i + 1
        /\ \A u \in Threads \ {t} : scalar'[u] = scalar[u]
    <3>1. PICK l : l = scalar[t]
      OBVIOUS
    <3>2. scalar = [u \in Threads |-> scalar[u]] /\ "i" \in DOMAIN l
      BY <1>0, <3>1 DEF ScalarOK
    <3>3. scalar'[t] = [l EXCEPT !.i = l.i + 1] /\ \A u \in Threads \ {t} : scalar'[u] = scalar[u]
      BY <2>1, <3>1, <3>2
    <3> QED BY <3>1, <3>2, <3>3
  <2>4. setup.idx = setup.vidx => ScalarSums(t, scalar'[t].i, matches'[t])
    <3>1. setup.idx = setup.vidx => ScalarSums(t, scalar[t].i, matches[t])
      BY <1>1, <2>1 DEF CountInv, ProbeInv
    <3> QED BY <1>0, <2>1, <2>2, <2>3, <3>1, TupleSums
  <2>5. ProbeInv(t)'
    <3>1. PICK p, m, i, c, d : /\ p = phase[t] /\ m = imv[t] /\ i = scalar'[t].i
                               /\ c = matches'[t] /\ d = num_results[t]
      OBVIOUS
    <3>2. Sums(t, p, TRUE, m, i, c, d)
      BY <1>1, <2>4, <3>1 DEF Sums
    <3> QED BY <1>1, <2>1, <3>1, <3>2, SumsThen
  <2>6. ASSUME NEW u \in Threads \ {t} PROVE ProbeInv(u)'
    BY <1>1, <2>1, <2>2, <2>3, StillProbe DEF CountInv
  <2> QED BY <1>1, <1>2, <2>5, <2>6 DEF CountInv
<1> QED BY <1>3, <1>4

\* A probe ends with the number of the tuples of its part that have a place.
LEMMA ProbeEnds ==
  ASSUME TypesInv, BuffersInv, OnceInv, FillInv, VectorInv, NEW t \in Threads, ProbeInv(t),
         ScalarProbed(t) \/ ImvLeave(t), phase[t].pc = "probe"
  PROVE  Fid(phase[t]) = 1 \/ setup.idx = setup.vidx => ResultCounts(t, matches[t])
<1>0. /\ TableTyped /\ VectorOK /\ setup \in Setups /\ phase[t] = phase[0] /\ VectorTable
  BY ProbeOK
<1>1. at[t] = "work"
  BY DEF ScalarProbed, ImvLeave, InLoop, Working
<1>2. CASE ImvLeave(t)
  <2>1. Fid(phase[t]) = 1
    BY <1>2 DEF ImvLeave, InLoop
  <2>2. matches[t] = Cardinality(FoundBy(t, imv[t]))
    BY <1>1, <2>1 DEF ProbeInv, VectorSums
  <2> QED BY <1>0, <1>2, <2>2, LeaveFound DEF ResultCounts
<1>3. CASE ScalarProbed(t)
  <2>1. Fid(phase[t]) = 0 /\ scalar[t].i = NumTuples(t) /\ 0 # 1
    BY <1>3 DEF ScalarProbed
  <2>2. setup.idx = setup.vidx => matches[t] = Cardinality(FoundBelow(t, First(t) + NumTuples(t) + 1))
    BY <1>1, <2>1 DEF ProbeInv, ScalarSums
  <2> QED BY <1>0, <2>1, <2>2, BelowEnds DEF ResultCounts
<1> QED BY <1>2, <1>3

LEMMA EndingCount ==
  ASSUME TypesInv, BuffersInv, OnceInv, FillInv, VectorInv, CountInv,
         NEW t \in Threads, Ending(t)
  PROVE  CountInv'
<1>0. /\ TableTyped /\ VectorOK /\ setup \in Setups /\ 0 \in Threads
      /\ \A u \in Threads : phase[u] = phase[0]
      /\ at \in [Threads -> {"work", "arrive", "wait"}] /\ num_results \in [Threads -> Nat]
  BY ProbeOK DEF TypesInv, TableInv, LatchInv, ControlOK, ResultsTyped
<1>1. /\ UNCHANGED <<setup, phase, result, imv, scalar, matches, heads>> /\ Threads' = Threads
      /\ at' = [at EXCEPT ![t] = "arrive"] /\ phase[t].pc \in {"build", "probe", "ready"}
  BY SameSetup DEF Ending, ScalarBuilt, ScalarProbed, ImvLeave, Ready, Done, BuildOnly, BuildWith,
     Working, InLoop, table, locals
<1>2. EndInv'
  BY <1>0, <1>1 DEF CountInv, EndInv
<1>3. CASE phase[t].pc # "probe"
  <2>1. \A u \in Threads : ProbeInv(u)'
    BY <1>0, <1>1, <1>3, NotProbing
  <2> QED BY <1>1, <1>2, <2>1 DEF CountInv
<1>4. CASE phase[t].pc = "probe"
  <2>1. ScalarProbed(t) \/ ImvLeave(t)
    BY <1>4 DEF Ending, ScalarBuilt, BuildWith, Working, Ready
  <2>2. num_results' = [num_results EXCEPT ![t] = matches[t]]
    BY <1>4, <2>1 DEF ScalarProbed, ImvLeave
  <2>3. num_results'[t] = matches[t] /\ \A u \in Threads \ {t} : num_results'[u] = num_results[u]
    BY <1>0, <2>2
  <2>4. at'[t] = "arrive" /\ \A u \in Threads \ {t} : at'[u] = at[u]
    BY <1>0, <1>1
  <2>5. Fid(phase[t]) = 1 \/ setup.idx = setup.vidx => ResultCounts(t, matches[t])
    BY <1>4, <2>1, ProbeEnds DEF CountInv
  <2>6. ProbeInv(t)'
    <3>1. PICK p, m, i, c : /\ p = phase[t] /\ m = imv[t] /\ i = scalar[t].i /\ c = matches[t]
      OBVIOUS
    <3>2. Sums(t, p, FALSE, m, i, c, c)
      BY <2>5, <3>1 DEF Sums
    <3> QED BY <1>1, <2>3, <2>4, <3>1, <3>2, SumsThen
  <2>7. ASSUME NEW u \in Threads \ {t} PROVE ProbeInv(u)'
    BY <1>1, <2>3, <2>4, StillProbe DEF CountInv
  <2> QED BY <1>1, <1>2, <2>6, <2>7 DEF CountInv
<1> QED BY <1>3, <1>4

LEMMA PhasingCount ==
  ASSUME TypesInv, BuffersInv, OnceInv, FillInv, VectorInv, CountInv,
         NEW t \in Threads, Phasing(t)
  PROVE  CountInv'
<1>0. \A u \in Threads : phase[u] = phase[t]
  BY ProbeOK
<1>1. UNCHANGED <<setup, phase, result, num_results>> /\ Threads' = Threads
      /\ phase[t].pc # "probe"
  BY SameSetup DEF Phasing, SetFunctions, Allocate, Fetch, Release, Done, Working
<1>2. \A u \in Threads : ProbeInv(u)'
  BY <1>0, <1>1, NotProbing
<1> QED BY <1>1, <1>2, StillEnd DEF CountInv

\* A probe starts with nothing counted.
LEMMA StartSums ==
  ASSUME setup \in Setups, NEW t \in Threads
  PROVE  VectorSums(t, ImvStart, 0) /\ ScalarSums(t, 0, 0)
<1>1. First(t) \in Nat /\ \A x \in Slice(t) : x \in Nat /\ x > First(t)
  BY SlicePart
<1>2. Carries(t, ImvStart) /\ Reached(ImvStart)
  BY <1>1, StartCarries, StartHolds DEF Reached
<1>3. ImvStart.cur = 0
  BY DEF ImvStart
<1>4. FoundBy(t, ImvStart) = {}
  BY <1>1, <1>3 DEF FoundBy, CountedAt
<1>5. FoundBelow(t, First(t) + 0 + 1) = {}
  BY <1>1 DEF FoundBelow
<1>6. Cardinality({}) = 0
  BY FS_EmptySet
<1> QED BY <1>2, <1>4, <1>5, <1>6 DEF VectorSums, ScalarSums

\* With one thread its part is the whole of R, and the last probe found all of it.
LEMMA LastCount ==
  ASSUME TypesInv, BuffersInv, OnceInv, FillInv, VectorInv, CountInv,
         phase[0].pc = "probe", phase[0].run = LastRun, hash_pf_num = 2, at[0] # "work",
         setup.threads = 1
  PROVE  num_results[0] = setup.n
<1>0. /\ TableTyped /\ setup \in Setups /\ 0 \in Threads
  BY ProbeOK
<1>1. Fid(phase[0]) = 1
  <2>1. PICK r \in Nat \ {0} : r = RunNums
    BY BoundsAssumption
  <2>2. phase[0].run = 2 * r - 1
    BY <2>1 DEF LastRun
  <2>3. (2 * r - 1) \div r = 1
    BY <2>1
  <2> QED BY <2>1, <2>2, <2>3 DEF Fid
<1>2. num_results[0] = Cardinality(PresentFor(0))
  BY <1>0, <1>1 DEF CountInv, ProbeInv, ResultCounts
<1>3. setup.n \in Nat /\ First(0) = 0 /\ NumTuples(0) = setup.n
  <2>1. PICK n \in Nat : n = setup.n
    BY <1>0, SetupsAssumption
  <2>2. n \div 1 = n
    BY <2>1
  <2> QED BY <2>1, <2>2 DEF First, NumTuples, numRthr
<1>4. Slice(0) = Tuples /\ Cardinality(Slice(0)) = setup.n
  BY <1>0, <1>3, SlicePart DEF Slice, Tuples
<1>5. \A x \in Tuples : PlacesOf(x) # {}
  BY <1>0, PlaceInTable DEF FillInv, Complete, TableBuilt
<1>6. PresentFor(0) = Slice(0)
  BY <1>4, <1>5 DEF PresentFor
<1> QED BY <1>2, <1>4, <1>6

LEMMA ArriveCount ==
  ASSUME TypesInv, BuffersInv, OnceInv, FillInv, VectorInv, CountInv,
         NEW t \in Threads, Arrive(t)
  PROVE  CountInv'
<1>0. /\ setup \in Setups /\ 0 \in Threads /\ \A u \in Threads : phase[u] = phase[0]
      /\ at \in [Threads -> {"work", "arrive", "wait"}]
  BY ProbeOK DEF TypesInv, TableInv, LatchInv, ControlOK
<1>1. UNCHANGED <<setup, heads, num_results, result>> /\ Threads' = Threads
  BY SameSetup DEF Arrive, table
<1>2. CASE called + 1 # setup.threads
  <2>1. UNCHANGED <<phase, scalar, imv, matches>> /\ at' = [at EXCEPT ![t] = "wait"]
        /\ at[t] = "arrive"
    BY <1>2 DEF Arrive, locals
  <2>2. \A u \in Threads : (at'[u] = "work") <=> (at[u] = "work")
    BY <1>0, <2>1
  <2>3. ASSUME NEW u \in Threads PROVE ProbeInv(u)'
    BY <1>1, <2>1, <2>2, StillProbe DEF CountInv
  <2> QED BY <1>1, <2>1, <2>3, StillEnd DEF CountInv
<1>3. CASE called + 1 = setup.threads
  <2>1. PICK q : OpensTo(t, q)
    BY <1>3, BarrierOpens DEF TypesInv
  <2>2. /\ \A u \in Threads : at[u] # "work" /\ phase'[u] = q /\ at'[u] = "work"
        /\ Passes(phase[0], q.pc, q.run) /\ imv' = [u \in Threads |-> ImvStart]
        /\ scalar' = [u \in Threads |-> ScalarStart] /\ hash_pf_num = 2
    BY <1>0, <2>1 DEF OpensTo
  <2>3. matches' = [u \in Threads |-> 0]
    BY <1>3 DEF Arrive
  <2>4. ASSUME NEW u \in Threads PROVE ProbeInv(u)'
    <3>1. PICK m, d : m = ImvStart /\ d = num_results[u]
      OBVIOUS
    <3>2. Sums(u, q, TRUE, m, 0, 0, d)
      BY <1>0, <3>1, StartSums DEF Sums
    <3>3. imv'[u] = m /\ scalar'[u].i = 0 /\ matches'[u] = 0 /\ num_results'[u] = d
      BY <1>1, <2>2, <2>3, <3>1 DEF ScalarStart
    <3> QED BY <1>1, <2>2, <3>2, <3>3, SumsThen
  <2>5. EndInv'
    <3>1. phase'[0] = q
      BY <1>0, <2>2
    <3>2. ASSUME q.pc = "end", setup.threads = 1 PROVE num_results[0] = setup.n
      <4>1. phase[0].pc = "probe" /\ phase[0].run = LastRun
        BY <2>2, <3>2 DEF Passes
      <4> QED BY <1>0, <2>2, <3>2, <4>1, LastCount
    <3> QED BY <1>1, <3>1, <3>2 DEF EndInv, CountInv
  <2> QED BY <1>1, <2>4, <2>5 DEF CountInv
<1> QED BY <1>2, <1>3

\* What main adds up when there is one thread.
LEMMA SumOfOne ==
  ASSUME MainJoins, Threads = {0}, num_results[0] \in Int
  PROVE  result' = num_results[0]
<1> DEFINE
  pick(s) == CHOOSE x \in s : TRUE
  Is(g) == g = [s \in SUBSET Threads |->
                  IF s = {} THEN 0 ELSE g[s \ {pick(s)}] + num_results[pick(s)]]
  w == [s \in SUBSET Threads |-> IF s = {} THEN 0 ELSE num_results[0]]
<1>s. Threads \ {pick(Threads)} = {} /\ pick(Threads) = 0
  OBVIOUS
<1>1. Is(w)
  <2>1. ASSUME NEW s \in SUBSET Threads
        PROVE  w[s] = IF s = {} THEN 0 ELSE w[s \ {pick(s)}] + num_results[pick(s)]
    <3>1. CASE s = {}
      BY <3>1
    <3>2. CASE s # {}
      <4>1. s = Threads
        BY <3>2
      <4>2. w[{}] = 0 /\ w[Threads] = num_results[0] /\ 0 + num_results[0] = num_results[0]
        OBVIOUS
      <4> HIDE DEF w, pick
      <4>3. w[s \ {pick(s)}] + num_results[pick(s)] = 0 + num_results[0]
        BY <4>1, <4>2, <1>s
      <4> QED  BY <4>1, <4>2, <4>3
    <3> QED  BY <3>1, <3>2
  <2> QED  BY <2>1
<1>2. \A g : Is(g) => g[Threads] = num_results[0]
  <2> SUFFICES ASSUME NEW g, Is(g)
               PROVE  g[Threads] = num_results[0]
    OBVIOUS
  <2>1. g[{}] = 0
    OBVIOUS
  <2>2. g[Threads] = g[Threads \ {pick(Threads)}] + num_results[pick(Threads)]
    OBVIOUS
  <2> HIDE DEF Is, pick
  <2> QED  BY <2>1, <2>2, <1>s
<1>3. Is(CHOOSE g : Is(g))
  BY <1>1
<1>4. result' = (CHOOSE g : Is(g))[Threads]
  BY DEF MainJoins, FoldSet, MapThenFoldSet
<1> QED  BY <1>2, <1>3, <1>4

LEMMA MainCount ==
  ASSUME TypesInv, BuffersInv, OnceInv, FillInv, VectorInv, CountInv, MainJoins
  PROVE  CountInv'
<1>0. 0 \in Threads /\ num_results \in [Threads -> Nat]
  BY ProbeOK DEF TypesInv, ResultsTyped
<1>1. UNCHANGED <<setup, phase, at, heads, imv, scalar, matches, num_results>>
      /\ Threads' = Threads
  BY SameSetup DEF MainJoins, table, locals
<1>2. ASSUME NEW u \in Threads PROVE ProbeInv(u)'
  BY <1>1, StillProbe DEF CountInv
<1>3. ASSUME setup.threads = 1 PROVE result' = setup.n
  <2>1. Threads = {0}
    BY <1>3 DEF Threads
  <2>2. result' = num_results[0]
    BY <1>0, <2>1, SumOfOne
  <2>3. num_results[0] = setup.n
    BY <1>0, <1>3 DEF MainJoins, CountInv, EndInv
  <2> QED BY <2>2, <2>3
<1> QED BY <1>1, <1>2, <1>3 DEF CountInv, EndInv

LEMMA InitCountInv == Init => CountInv
<1> SUFFICES ASSUME Init PROVE CountInv
  OBVIOUS
<1>1. \A u \in Threads : phase[u].pc = "setup"
  BY DEF Init, At
<1>2. 0 \in Threads
  BY InitTypesInv, SetupFacts DEF TypesInv, TableInv, LatchInv
<1>3. result = -1
  BY DEF Init
<1> QED BY <1>1, <1>2, <1>3 DEF CountInv, ProbeInv, EndInv

LEMMA NextCountInv ==
  ASSUME TypesInv, BuffersInv, OnceInv, FillInv, VectorInv, CountInv, [Next]_vars
  PROVE  CountInv'
<1>1. ASSUME UNCHANGED vars PROVE CountInv'
  <2>1. UNCHANGED <<setup, phase, at, heads, imv, scalar, matches, num_results, result>>
        /\ Threads' = Threads
    BY <1>1, SameSetup DEF vars, table, locals
  <2>2. ASSUME NEW u \in Threads PROVE ProbeInv(u)'
    BY <2>1, StillProbe DEF CountInv
  <2> QED BY <2>1, <2>2, StillEnd DEF CountInv
<1>2. Ended => UNCHANGED vars
  BY DEF Ended
<1> QED BY <1>1, <1>2, MainCount, LockingCount, WorkCount, EndingCount, PhasingCount, ArriveCount,
           FlatNext

LEMMA AlwaysCountInv ==
  Spec => [](TypesInv /\ BuffersInv /\ OnceInv /\ FillInv /\ VectorInv /\ CountInv)
<1>1. TypesInv /\ BuffersInv /\ OnceInv /\ FillInv /\ VectorInv /\ CountInv /\ [Next]_vars
        => (TypesInv /\ BuffersInv /\ OnceInv /\ FillInv /\ VectorInv /\ CountInv)'
  BY NextTypesInv, NextBuffersInv, NextOnceInv, NextFillInv, NextVectorInv, NextCountInv
<1> QED BY <1>1, InitTypesInv, InitBuffersInv, InitOnceInv, InitFillInv, InitVectorInv,
           InitCountInv, PTL DEF Spec

\* Whatever the threads, lanes, vector states and overflow buckets, a probe that
\* looks where the build put things counts each tuple of its part that is in the
\* table, and that once (hashing_runner.cpp:884-1624); the join of R with
\* itself by one thread has the result |R| (hashing_runner.cpp:2340-2344).
THEOREM AlwaysProbeCounts == Spec => []ProbeCounts
<1>1. TypesInv /\ CountInv => ProbeCounts
  <2> SUFFICES ASSUME TypesInv, CountInv PROVE ProbeCounts
    OBVIOUS
  <2>1. ASSUME NEW t \in Threads, Probed(t), Fid(phase[t]) = 1 \/ setup.idx = setup.vidx
        PROVE  num_results[t] = Cardinality(PresentFor(t))
    BY <2>1 DEF CountInv, ProbeInv, Probed, ResultCounts
  <2>2. result # -1 /\ setup.threads = 1 => result = setup.n
    BY DEF CountInv, EndInv
  <2> QED BY <2>1, <2>2 DEF ProbeCounts
<1> QED BY <1>1, AlwaysCountInv, PTL
=============================================================================
