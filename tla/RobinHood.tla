------------------------------ MODULE RobinHood -----------------------------
(***************************************************************************)
(* Hashtable::RobinhoodProbing (hashtable/include/probing.hpp): open       *)
(* addressing where an insert that has probed further than the entry in    *)
(* its way takes that entry's slot and goes on inserting the entry.        *)
(*                                                                         *)
(* Every iteration of the loops of insert and lookup is a step.  Between   *)
(* two steps of an insert one entry, at times one that was stored long     *)
(* ago, is only in the local variables of the call.                        *)
(***************************************************************************)
EXTENDS ProbingFuncs

CONSTANTS
  Keys, Payloads,
  Sentinel,        \* the key of an empty slot
  Absent,          \* std::nullopt, and the payload of a slot never written
  BucketSize,
  Homes            \* the hash functions considered

ASSUME TableAssumption ==
  /\ Sentinel \notin Keys
  /\ Absent \notin Payloads
  /\ BucketSize \in Nat \ {0}
  /\ Homes \subseteq [Keys -> Directory]

VARIABLES
  home,      \* reductionfn(hashfn(key))
  buckets,   \* the directory
  call,      \* the insert or lookup under way: its locals.  key and payload
             \* are the entry carried, orig_key the argument of the call
  ret        \* the last call that ended and how

vars == <<home, buckets, call, ret>>

Slots == 0 .. (BucketSize - 1)
EmptySlot == [key |-> Sentinel, psl |-> 0, payload |-> Absent]
NoCall == [op |-> "idle", orig_key |-> Sentinel, key |-> Sentinel,
           payload |-> Absent, orig_slot_index |-> 0, slot_index |-> 0,
           probing_step |-> 0, i |-> 0]
Outcome(op, k, res) == [op |-> op, key |-> k, res |-> res]

Init ==
  /\ home \in Homes
  /\ buckets = [b \in Directory |-> [i \in Slots |-> EmptySlot]]
  /\ call = NoCall
  /\ ret = Outcome("none", Sentinel, Absent)

Start(op, k, p) ==
  /\ call = NoCall
  /\ call' = [op |-> op, orig_key |-> k, key |-> k, payload |-> p,
              orig_slot_index |-> home[k], slot_index |-> home[k],
              probing_step |-> 0, i |-> 0]
  /\ UNCHANGED <<home, buckets, ret>>

\* insert and lookup refuse the reserved key before hashing it.
SentinelCall ==
  /\ call = NoCall
  /\ ret' \in {Outcome("insert", Sentinel, "rejected"),
               Outcome("lookup", Sentinel, Absent)}
  /\ UNCHANGED <<home, buckets, call>>

Return(res) ==
  /\ call' = NoCall
  /\ ret' = Outcome(call.op, call.orig_key, res)

SlotSeen == buckets[call.slot_index][call.i]

OtherKey == SlotSeen.key \notin {Sentinel, call.key}

Carried == [key |-> call.key, psl |-> call.probing_step,
            payload |-> call.payload]
StoreCarried ==
  buckets' = [buckets EXCEPT ![call.slot_index][call.i] = Carried]

InsertEmpty ==
  /\ call.op = "insert" /\ call.i < BucketSize
  /\ SlotSeen.key = Sentinel
  /\ StoreCarried
  /\ Return("inserted")
  /\ UNCHANGED home

InsertExisting ==
  /\ call.op = "insert" /\ call.i < BucketSize
  /\ SlotSeen.key = call.key
  /\ Return("rejected")
  /\ UNCHANGED <<home, buckets>>

\* Mutated form: an equally rich entry gives way as well.
IsRicherOrEqual == SlotSeen.psl <= call.probing_step

\* The entry in the slot is richer (closer to its home) than the carried one.
IsRicher == SlotSeen.psl < call.probing_step

Richer ==
  /\ call.op = "insert" /\ call.i < BucketSize
  /\ OtherKey
  /\ IsRicher

\* Mutated forms: the displaced entry goes on along the way of the entry that
\* displaced it; from the step of that entry; with the payload of that entry.
TakeOverHome ==
  [call EXCEPT !.key = SlotSeen.key, !.payload = SlotSeen.payload,
               !.probing_step = SlotSeen.psl, !.i = @ + 1]
TakeOverStep ==
  [call EXCEPT !.key = SlotSeen.key, !.payload = SlotSeen.payload,
               !.orig_slot_index = home[SlotSeen.key], !.i = @ + 1]
TakeOverPayload ==
  [call EXCEPT !.key = SlotSeen.key, !.probing_step = SlotSeen.psl,
               !.orig_slot_index = home[SlotSeen.key], !.i = @ + 1]

\* The call goes on with the richer entry, from that entry's own probing step
\* and on its own way.
TakeOver ==
  [call EXCEPT !.key = SlotSeen.key, !.payload = SlotSeen.payload,
               !.probing_step = SlotSeen.psl,
               !.orig_slot_index = home[SlotSeen.key], !.i = @ + 1]

\* Swap the carried entry with the richer one.
Displace ==
  /\ Richer
  /\ SlotSeen.key # call.orig_key
  /\ StoreCarried
  /\ call' = TakeOver
  /\ UNCHANGED <<home, ret>>

\* The richer entry is the one this very insert has stored: it gives up, and
\* the entry it carries is in no slot any more.
LoopDetected ==
  /\ Richer
  /\ SlotSeen.key = call.orig_key
  /\ Return("thrown")
  /\ UNCHANGED <<home, buckets>>

\* The inner for loop moves past a slot.
NextSlot ==
  /\ call # NoCall /\ call.i < BucketSize
  /\ OtherKey
  /\ ~Richer
  /\ call' = [call EXCEPT !.i = @ + 1]
  /\ UNCHANGED <<home, buckets, ret>>

NextIndex == probingfn(call.orig_slot_index, call.probing_step + 1)

\* Mutated form: the bucket just searched is tested, not the next one.
WayEndsHere == call.slot_index = call.orig_slot_index

WayEnds == NextIndex = call.orig_slot_index

\* Mutated form: the probing step is not counted.
AdvanceUncounted == [call EXCEPT !.slot_index = NextIndex, !.i = 0]

Advance ==
  [call EXCEPT !.slot_index = NextIndex, !.probing_step = @ + 1, !.i = 0]

BucketDone == call # NoCall /\ call.i = BucketSize

\* The bucket is exhausted: the probing function chooses the next one for the
\* carried entry, and a return to its first bucket ends the call.
NextBucket ==
  /\ BucketDone
  /\ ~WayEnds
  /\ call' = Advance
  /\ UNCHANGED <<home, buckets, ret>>

WayExhausted ==
  /\ BucketDone
  /\ WayEnds
  /\ Return(IF call.op = "insert" THEN "thrown" ELSE Absent)
  /\ UNCHANGED <<home, buckets>>

LookupHit ==
  /\ call.op = "lookup" /\ call.i < BucketSize
  /\ SlotSeen.key = call.key
  /\ Return(SlotSeen.payload)
  /\ UNCHANGED <<home, buckets>>

LookupMiss ==
  /\ call.op = "lookup" /\ call.i < BucketSize
  /\ SlotSeen.key = Sentinel
  /\ Return(Absent)
  /\ UNCHANGED <<home, buckets>>

\* clear resets the keys only.
Clear ==
  /\ call = NoCall
  /\ buckets' = [b \in Directory |->
                   [i \in Slots |-> [buckets[b][i] EXCEPT !.key = Sentinel]]]
  /\ ret' = Outcome("clear", Sentinel, Absent)
  /\ UNCHANGED <<home, call>>

Step == InsertEmpty \/ InsertExisting \/ Displace \/ LoopDetected
          \/ NextSlot \/ NextBucket \/ WayExhausted \/ LookupHit \/ LookupMiss

Next ==
  \/ \E k \in Keys, p \in Payloads : Start("insert", k, p)
  \/ \E k \in Keys : Start("lookup", k, Absent)
  \/ SentinelCall
  \/ Step
  \/ Clear

Spec == Init /\ [][Next]_vars

\* A call that has begun keeps running: nothing in its loop waits.
FairSpec == Spec /\ WF_vars(Step)

-----------------------------------------------------------------------------
Slot == [key : Keys \cup {Sentinel}, psl : Nat,
         payload : Payloads \cup {Absent}]
Calls == [op : {"insert", "lookup"}, orig_key : Keys, key : Keys,
          payload : Payloads \cup {Absent}, orig_slot_index : Directory,
          slot_index : Directory, probing_step : Nat,
          i : 0 .. BucketSize]

TypeOK ==
  /\ home \in [Keys -> Directory]
  /\ buckets \in [Directory -> [Slots -> Slot]]
  /\ call \in Calls \cup {NoCall}
  /\ ret \in [op : {"none", "insert", "lookup", "clear"},
              key : Keys \cup {Sentinel},
              res : Payloads \cup {Absent, "inserted", "rejected", "thrown"}]

Holds(b, i, k) == buckets[b][i].key = k
Full(b) == \A i \in Slots : ~Holds(b, i, Sentinel)
AtLeastAsPoor(b, i, step) == ~Holds(b, i, Sentinel) /\ buckets[b][i].psl >= step

\* A walk for key k that has come to slot i of bucket b at this step has only
\* passed entries at least as far from their home as k was there.
PassedPoorer(k, step, b, i) ==
  /\ b = BucketAt(home[k], step)
  /\ NoReturnUpTo(home[k], step)
  /\ \A t \in 0 .. (step - 1), j \in Slots :
       AtLeastAsPoor(BucketAt(home[k], t), j, t)
  /\ \A j \in 0 .. (i - 1) : AtLeastAsPoor(b, j, step)

Inserting == call.op = "insert"

\* The Robin Hood order: every entry stands where its own walk, at the step
\* its psl field records, first met somebody richer.  It is what makes the
\* stored psl meaningful after any number of displacements, lookup end at the
\* first empty slot, and an insert meet the key itself before it displaces; so
\* no key is stored twice, nor both stored and carried by an insert that has
\* already displaced an entry.
RobinHoodOrder ==
  \A b \in Directory, i \in Slots :
    ~Holds(b, i, Sentinel) =>
      /\ PassedPoorer(buckets[b][i].key, buckets[b][i].psl, b, i)
      /\ \A c \in Directory, j \in Slots :
           buckets[b][i].key = buckets[c][j].key => b = c /\ i = j
      /\ Inserting /\ call.key # call.orig_key => ~Holds(b, i, call.key)

\* An insert of a present key leaves every slot alone: it meets the key before
\* it meets an entry it would displace.
ExistingUntouched ==
  [][Inserting /\ buckets' # buckets /\ call.key = call.orig_key =>
       \A b \in Directory, i \in Slots : ~Holds(b, i, call.key)]_vars

\* Step s of the way of key k is back at its first bucket, and every bucket up
\* to there is full.
NoRoomFor(k, s) ==
  /\ probingfn(home[k], s) = home[k]
  /\ \A t \in 0 .. (s - 1) : Full(BucketAt(home[k], t))

\* insert throws only when the whole way of the entry it then carries, from
\* its home up to the first return to it, is full ("detected cycle during
\* probing, all buckets along the way are full").  Of a richer entry that is
\* the one just stored ("infinite loop detected") only linear probing can say
\* as much; quadratic ways meet again with room ahead on each of them.
Throws == call # NoCall /\ call' = NoCall
            /\ ret'.op = "insert" /\ ret'.res = "thrown"
ThrowsOnFullWay ==
  [][Throws /\ (Quadratic => BucketDone) =>
       \E s \in 1 .. N : NoRoomFor(call.key, s)]_vars

\* Every call ends: each displacement leaves a poorer entry behind, and a
\* carried entry comes back to its first bucket after at most N steps.
CallsEnd == (call # NoCall) ~> (call = NoCall)

\* The map the table stands for while an insert is under way: the entry it
\* displaced and carries is still part of it, the new one not yet.
Displaced == Inserting /\ call.key # call.orig_key
Stored(k) == \E b \in Directory, i \in Slots : Holds(b, i, k)
PayloadOf(k) ==
  LET at == CHOOSE at \in Directory \X Slots : Holds(at[1], at[2], k)
  IN  buckets[at[1]][at[2]].payload
AbstractMap ==
  [k \in Keys |->
     IF Displaced /\ k = call.key THEN call.payload
     ELSE IF Stored(k) /\ ~(Displaced /\ k = call.orig_key) THEN PayloadOf(k)
     ELSE Absent]

Map == INSTANCE HashMap WITH map <- AbstractMap,
                             Overwrite <- FALSE, LossyThrow <- TRUE

\* Each call is one atomic operation on a map; an insert that throws has lost
\* at most one entry, and then stored the new one.
ImplementsMap == Map!Spec
=============================================================================
