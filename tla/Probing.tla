------------------------------- MODULE Probing ------------------------------
(***************************************************************************)
(* Hashtable::Probing (hashtable/include/probing.hpp): open addressing     *)
(* with buckets of BucketSize slots and linear or quadratic probing.       *)
(*                                                                         *)
(* One caller runs insert, lookup and clear one after the other; every     *)
(* iteration of the two probing loops is a step.  The hash function and    *)
(* the reduction are one arbitrary function home, fixed in the initial     *)
(* state.  Calls with the Sentinel are the release build's (the assert of  *)
(* a debug build stops the program).                                       *)
(***************************************************************************)
EXTENDS ProbingFuncs

CONSTANTS
  Keys, Payloads,
  Sentinel,        \* the key of an empty slot
  Absent,          \* std::nullopt, and the payload of a slot never written
  BucketSize,
  Homes            \* the hash functions considered

ASSUME TableAssumption ==
  /\ Sentinel \notin Keys
  /\ Absent \notin Payloads
  /\ BucketSize \in Nat \ {0}
  /\ Homes \subseteq [Keys -> Directory]

VARIABLES
  home,      \* reductionfn(hashfn(key))
  buckets,   \* the directory
  call,      \* the insert or lookup under way: its arguments and locals
  ret        \* the last call that ended and how

vars == <<home, buckets, call, ret>>

Slots == 0 .. (BucketSize - 1)
NoCall == [op |-> "idle", key |-> Sentinel, payload |-> Absent,
           slot_index |-> 0, probing_step |-> 0, i |-> 0]
Outcome(op, k, res) == [op |-> op, key |-> k, res |-> res]

Init ==
  /\ home \in Homes
  /\ buckets = [b \in Directory |->
                  [i \in Slots |-> [key |-> Sentinel, payload |-> Absent]]]
  /\ call = NoCall
  /\ ret = Outcome("none", Sentinel, Absent)

Start(op, k, p) ==
  /\ call = NoCall
  /\ call' = [op |-> op, key |-> k, payload |-> p,
              slot_index |-> home[k], probing_step |-> 0, i |-> 0]
  /\ UNCHANGED <<home, buckets, ret>>

\* insert and lookup refuse the reserved key before hashing it.
SentinelCall ==
  /\ call = NoCall
  /\ ret' \in {Outcome("insert", Sentinel, "rejected"),
               Outcome("lookup", Sentinel, Absent)}
  /\ UNCHANGED <<home, buckets, call>>

Return(res) ==
  /\ call' = NoCall
  /\ ret' = Outcome(call.op, call.key, res)

SlotSeen == buckets[call.slot_index][call.i]

\* Mutated form: the key of an occupied slot is not compared.
OtherKeyUncompared == SlotSeen.key # Sentinel

OtherKey == SlotSeen.key \notin {Sentinel, call.key}

\* Mutated form: the payload of the slot stays.
NewEntryKeepsPayload == [SlotSeen EXCEPT !.key = call.key]

NewEntry == [key |-> call.key, payload |-> call.payload]

InsertEmpty ==
  /\ call.op = "insert" /\ call.i < BucketSize
  /\ SlotSeen.key = Sentinel
  /\ buckets' = [buckets EXCEPT ![call.slot_index][call.i] = NewEntry]
  /\ Return("inserted")
  /\ UNCHANGED home

InsertExisting ==
  /\ call.op = "insert" /\ call.i < BucketSize
  /\ SlotSeen.key = call.key
  /\ Return("rejected")
  /\ UNCHANGED <<home, buckets>>

LookupHit ==
  /\ call.op = "lookup" /\ call.i < BucketSize
  /\ SlotSeen.key = call.key
  /\ Return(SlotSeen.payload)
  /\ UNCHANGED <<home, buckets>>

LookupMiss ==
  /\ call.op = "lookup" /\ call.i < BucketSize
  /\ SlotSeen.key = Sentinel
  /\ Return(Absent)
  /\ UNCHANGED <<home, buckets>>

\* The inner for loop moves past a slot held by another key.
NextSlot ==
  /\ call # NoCall /\ call.i < BucketSize
  /\ OtherKey
  /\ call' = [call EXCEPT !.i = @ + 1]
  /\ UNCHANGED <<home, buckets, ret>>

NextIndex == probingfn(home[call.key], call.probing_step + 1)

\* Mutated form: the bucket just searched is tested, not the next one.
WayEndsHere == call.slot_index = home[call.key]

WayEnds == NextIndex = home[call.key]

\* Mutated form: the probing step is not counted.
AdvanceUncounted == [call EXCEPT !.slot_index = NextIndex, !.i = 0]

Advance ==
  [call EXCEPT !.slot_index = NextIndex, !.probing_step = @ + 1, !.i = 0]

BucketDone == call # NoCall /\ call.i = BucketSize

\* The bucket is exhausted: the probing function chooses the next one for the
\* key, and a return to its first bucket ends the call.
NextBucket ==
  /\ BucketDone
  /\ ~WayEnds
  /\ call' = Advance
  /\ UNCHANGED <<home, buckets, ret>>

WayExhausted ==
  /\ BucketDone
  /\ WayEnds
  /\ Return(IF call.op = "insert" THEN "thrown" ELSE Absent)
  /\ UNCHANGED <<home, buckets>>

\* Mutated form: the last bucket is left out.
ClearedButLast ==
  [b \in Directory |->
     IF b = N - 1 THEN buckets[b]
     ELSE [i \in Slots |-> [buckets[b][i] EXCEPT !.key = Sentinel]]]

\* clear resets the keys only.
Cleared ==
  [b \in Directory |->
     [i \in Slots |-> [buckets[b][i] EXCEPT !.key = Sentinel]]]

Clear ==
  /\ call = NoCall
  /\ buckets' = Cleared
  /\ ret' = Outcome("clear", Sentinel, Absent)
  /\ UNCHANGED <<home, call>>

Step == InsertEmpty \/ InsertExisting \/ LookupHit \/ LookupMiss
          \/ NextSlot \/ NextBucket \/ WayExhausted

Next ==
  \/ \E k \in Keys, p \in Payloads : Start("insert", k, p)
  \/ \E k \in Keys : Start("lookup", k, Absent)
  \/ SentinelCall
  \/ Step
  \/ Clear

Spec == Init /\ [][Next]_vars

\* A call that has begun keeps running: nothing in its loop waits.
FairSpec == Spec /\ WF_vars(Step)

-----------------------------------------------------------------------------
Slot == [key : Keys \cup {Sentinel}, payload : Payloads \cup {Absent}]
Calls == [op : {"insert", "lookup"}, key : Keys,
          payload : Payloads \cup {Absent}, slot_index : Directory,
          probing_step : Nat, i : 0 .. BucketSize]

TypeOK ==
  /\ home \in [Keys -> Directory]
  /\ buckets \in [Directory -> [Slots -> Slot]]
  /\ call \in Calls \cup {NoCall}
  /\ ret \in [op : {"none", "insert", "lookup", "clear"},
              key : Keys \cup {Sentinel},
              res : Payloads \cup {Absent, "inserted", "rejected", "thrown"}]

Holds(b, i, k) == buckets[b][i].key = k
Full(b) == \A i \in Slots : ~Holds(b, i, Sentinel)

\* A walk that has come to slot i of bucket b has only passed occupied slots.
PassedFull(k, step, b, i) ==
  /\ b = BucketAt(home[k], step)
  /\ NoReturnUpTo(home[k], step)
  /\ \A t \in 0 .. (step - 1) : Full(BucketAt(home[k], t))
  /\ \A j \in 0 .. (i - 1) : ~Holds(b, j, Sentinel)

\* Every stored key can be reached: the walk from its own home bucket meets
\* neither an empty slot nor its starting bucket before the slot that holds it.
Reachable ==
  \A b \in Directory, i \in Slots :
    ~Holds(b, i, Sentinel) =>
      \E step \in 0 .. (N - 1) : PassedFull(buckets[b][i].key, step, b, i)

\* No key is stored twice, whatever the order of inserts, failed inserts and
\* clears.
KeysUnique ==
  \A b, c \in Directory, i, j \in Slots :
    /\ ~Holds(b, i, Sentinel)
    /\ buckets[b][i].key = buckets[c][j].key
    => b = c /\ i = j

\* What the call under way has established: the slots it has passed are
\* occupied, and not by its own key.
WalkSoFar ==
  call # NoCall =>
    /\ PassedFull(call.key, call.probing_step, call.slot_index, call.i)
    /\ \A t \in 0 .. (call.probing_step - 1), j \in Slots :
         ~Holds(BucketAt(home[call.key], t), j, call.key)
    /\ \A j \in 0 .. (call.i - 1) : ~Holds(call.slot_index, j, call.key)

\* Every entry has the payload of the insert that stored it.
PayloadsGiven ==
  /\ call.op = "insert" => call.payload \in Payloads
  /\ \A b \in Directory, i \in Slots :
       ~Holds(b, i, Sentinel) => buckets[b][i].payload \in Payloads

\* The inductive invariant.
TableInv == TypeOK /\ PayloadsGiven /\ Reachable /\ WalkSoFar /\ KeysUnique

\* Step s of the walk of key k is back at its first bucket, every bucket up to
\* there is full, and k is in no slot at all.
NoRoomFor(k, s) ==
  /\ probingfn(home[k], s) = home[k]
  /\ \A t \in 0 .. (s - 1) : Full(BucketAt(home[k], t))
  /\ \A b \in Directory, i \in Slots : ~Holds(b, i, k)

\* insert throws only when the new key is in no slot and every bucket from its
\* home up to the first return to it is full (the error message of insert:
\* "detected cycle during probing, all buckets along the way are full").
ThrowsOnFullWay ==
  [][/\ call # NoCall /\ call' = NoCall
     /\ ret'.op = "insert" /\ ret'.res = "thrown"
     => \E s \in 1 .. N : NoRoomFor(call.key, s)]_vars

\* Every insert and every lookup ends: the probe sequence comes back to its
\* first bucket after at most N steps, for both probing functions.
CallsEnd == (call # NoCall) ~> (call = NoCall)

\* The map the table stands for, and the promise it keeps.
Stored(k) == \E b \in Directory, i \in Slots : Holds(b, i, k)
PayloadOf(k) ==
  LET at == CHOOSE at \in Directory \X Slots : Holds(at[1], at[2], k)
  IN  buckets[at[1]][at[2]].payload
AbstractMap == [k \in Keys |-> IF Stored(k) THEN PayloadOf(k) ELSE Absent]

Map == INSTANCE HashMap WITH map <- AbstractMap,
                             Overwrite <- FALSE, LossyThrow <- FALSE

\* Each call is one atomic operation on a map: an insert stores a new key and
\* refuses a present one, a lookup answers what the map holds, an insert that
\* throws changes nothing.
ImplementsMap == Map!Spec
=============================================================================
