-------------------------------- MODULE Cuckoo ------------------------------
(***************************************************************************)
(* Hashtable::Cuckoo (hashtable/include/cuckoo.hpp) with its kicking       *)
(* strategies.  Every round of the goto loop of insert is a step; between  *)
(* two rounds the entry that was kicked out is only in the locals of the   *)
(* call.  The generator rand_ is a nondeterministic choice from Rng.       *)
(*                                                                         *)
(* Callers insert and look up keys other than the Sentinel: the code, which *)
(* checks this in the other tables, relies on it here.                     *)
(***************************************************************************)
EXTENDS Integers, FiniteSets

CONSTANTS
  Keys, Payloads,
  Sentinel,             \* the key of an empty slot
  Absent,               \* std::nullopt, and the payload of a slot never written
  N,                    \* buckets.size()
  BucketSize,
  MaxKickCycleLength,   \* 50000 in the code
  KickingFns,           \* the kicking strategies considered
  Threshold,            \* threshold_ of BiasedKicking, on the scale of Rng
  Rng,                  \* what rand_() returns
  Homes                 \* the pairs of hash functions considered

ASSUME CuckooAssumption ==
  /\ N \in Nat \ {0}
  /\ Sentinel \notin Keys
  /\ Absent \notin Payloads
  /\ BucketSize \in Nat \ {0}
  /\ MaxKickCycleLength \in Nat
  /\ KickingFns \subseteq {"balanced", "biased"}
  /\ Threshold \in Nat
  /\ Rng \subseteq Nat
  /\ Homes \subseteq [Keys -> [i1 : 0 .. (N - 1), i2 : 0 .. (N - 1)]]

VARIABLES
  kickingfn, \* the strategy of this table
  home,      \* reductionfn1(h1) and reductionfn2(hashfn2(key, h1)) of each key
  buckets,   \* the directory
  call,      \* the insert under way: key and payload are the entry carried
  ret        \* the last call that ended and how

cuckooVars == <<kickingfn, home, buckets, call, ret>>

Directory == 0 .. (N - 1)
Slots == 0 .. (BucketSize - 1)
Entry(k, p) == [key |-> k, payload |-> p]
NoCall == [op |-> "idle", orig_key |-> Sentinel, key |-> Sentinel,
           payload |-> Absent, kick_count |-> 0]
Outcome(op, k, res) == [op |-> op, key |-> k, res |-> res]

CuckooInit ==
  /\ kickingfn \in KickingFns
  /\ home \in Homes
  /\ buckets = [b \in Directory |-> [i \in Slots |-> Entry(Sentinel, Absent)]]
  /\ call = NoCall
  /\ ret = Outcome("none", Sentinel, Absent)

Primary(k) == home[k].i1

\* The secondary bucket is moved on by one when both hashes agree.
Secondary(k) ==
  IF home[k].i2 # home[k].i1 THEN home[k].i2
  ELSE IF home[k].i1 = N - 1 THEN 0
  ELSE home[k].i1 + 1

Holds(b, i, k) == buckets[b][i].key = k
Occupied(b) == {i \in Slots : ~Holds(b, i, Sentinel)}
Count(b) == Cardinality(Occupied(b))

-----------------------------------------------------------------------------
\* Where BalancedKicking and BiasedKicking put an entry that finds room: the
\* slot behind the occupied ones of the chosen bucket, counted, not searched.
RoomFor(b1, b2) ==
  IF /\ Count(b1) < BucketSize
     /\ kickingfn = "biased" \/ Count(b1) <= Count(b2)
  THEN {<<b1, Count(b1)>>}
  ELSE IF Count(b2) < BucketSize THEN {<<b2, Count(b2)>>}
  ELSE {}

\* The bucket of the victim: the lowest bit decides in BalancedKicking, the
\* threshold in BiasedKicking.
VictimBucket(b1, b2, rng) ==
  IF (IF kickingfn = "balanced" THEN rng % 2 = 1 ELSE rng > Threshold) THEN b1 ELSE b2

-----------------------------------------------------------------------------
InsertCall(k, p) ==
  /\ call = NoCall
  /\ call' = [op |-> "insert", orig_key |-> k, key |-> k, payload |-> p,
              kick_count |-> 0]
  /\ UNCHANGED <<kickingfn, home, buckets, ret>>

Return(res) ==
  /\ call' = NoCall
  /\ ret' = Outcome("insert", call.orig_key, res)

\* Mutated form: one round more.
InRoundOnceMore ==
  call # NoCall /\ call.kick_count <= MaxKickCycleLength + 1

InRound == call # NoCall /\ call.kick_count <= MaxKickCycleLength
B1 == Primary(call.key)

\* Mutated form: the secondary bucket of the key the call began with.
B2OfOriginal == Secondary(call.orig_key)

B2 == Secondary(call.key)

\* The slots of both buckets that hold the key; the code takes the one with
\* the lowest index, the primary bucket first.
Present == {at \in {B1, B2} \X Slots : Holds(at[1], at[2], call.key)}
FirstPresent ==
  CHOOSE at \in Present :
    \A other \in Present :
      at[2] < other[2] \/ (at[2] = other[2] /\ at[1] \in {B1, other[1]})

Update ==
  /\ InRound
  /\ Present # {}
  /\ buckets' = [buckets EXCEPT
                   ![FirstPresent[1]][FirstPresent[2]].payload = call.payload]
  /\ Return("inserted")
  /\ UNCHANGED <<kickingfn, home>>

Place ==
  /\ InRound
  /\ Present = {}
  /\ \E at \in RoomFor(B1, B2) :
       buckets' = [buckets EXCEPT ![at[1]][at[2]] =
                     Entry(call.key, call.payload)]
  /\ Return("inserted")
  /\ UNCHANGED <<kickingfn, home>>

\* Mutated forms: the victim's payload is not carried; its round is not counted.
NextRoundKeepsPayload(victim) ==
  [call EXCEPT !.key = victim.key, !.kick_count = @ + 1]
NextRoundUncounted(victim) ==
  [call EXCEPT !.key = victim.key, !.payload = victim.payload]

NextRound(victim) ==
  [call EXCEPT !.key = victim.key, !.payload = victim.payload,
               !.kick_count = @ + 1]

\* Both buckets are full: a victim is replaced, and the next round of the loop
\* inserts the victim.
Kick ==
  /\ InRound
  /\ Present = {}
  /\ RoomFor(B1, B2) = {}
  /\ \E rng \in Rng :
       LET b == VictimBucket(B1, B2, rng)
           i == rng % BucketSize
       IN  /\ buckets' = [buckets EXCEPT ![b][i] =
                            Entry(call.key, call.payload)]
           /\ call' = NextRound(buckets[b][i])
  /\ UNCHANGED <<kickingfn, home, ret>>

\* Mutated form: the bound ends the loop without an error.
GiveUpSilently ==
  /\ call # NoCall
  /\ call.kick_count > MaxKickCycleLength
  /\ Return("inserted")
  /\ UNCHANGED <<kickingfn, home, buckets>>

\* The entry carried at this point is in no slot any more.
GiveUp ==
  /\ call # NoCall
  /\ call.kick_count > MaxKickCycleLength
  /\ Return("thrown")
  /\ UNCHANGED <<kickingfn, home, buckets>>

SlotsWith(b, k) == {i \in Slots : Holds(b, i, k)}
FirstOf(S) == CHOOSE i \in S : \A j \in S : i <= j

\* The primary bucket is searched before the secondary one.
LookupResult(k) ==
  LET b == IF SlotsWith(Primary(k), k) # {} THEN Primary(k) ELSE Secondary(k)
  IN  IF SlotsWith(b, k) = {} THEN Absent
      ELSE buckets[b][FirstOf(SlotsWith(b, k))].payload

Lookup(k) ==
  /\ call = NoCall
  /\ ret' = Outcome("lookup", k, LookupResult(k))
  /\ UNCHANGED <<kickingfn, home, buckets, call>>

\* Mutated form: only the first slot of every bucket is cleared.
ClearedFirstSlots ==
  [b \in Directory |-> [buckets[b] EXCEPT ![0].key = Sentinel]]

\* clear resets the keys only.
Cleared ==
  [b \in Directory |->
     [i \in Slots |-> [buckets[b][i] EXCEPT !.key = Sentinel]]]

Clear ==
  /\ call = NoCall
  /\ buckets' = Cleared
  /\ ret' = Outcome("clear", Sentinel, Absent)
  /\ UNCHANGED <<kickingfn, home, call>>

Round == Update \/ Place \/ Kick \/ GiveUp

CuckooNext ==
  \/ \E k \in Keys, p \in Payloads : InsertCall(k, p)
  \/ \E k \in Keys : Lookup(k)
  \/ Round
  \/ Clear

CuckooSpec == CuckooInit /\ [][CuckooNext]_cuckooVars

\* A call that has begun keeps running: nothing in its loop waits.
CuckooFairSpec == CuckooSpec /\ WF_cuckooVars(Round)

-----------------------------------------------------------------------------
Slot == [key : Keys \cup {Sentinel}, payload : Payloads \cup {Absent}]
Calls == [op : {"insert"}, orig_key : Keys, key : Keys,
          payload : Payloads \cup {Absent},
          kick_count : 0 .. (MaxKickCycleLength + 1)]

CuckooTypeOK ==
  /\ kickingfn \in KickingFns
  /\ home \in [Keys -> [i1 : Directory, i2 : Directory]]
  /\ buckets \in [Directory -> [Slots -> Slot]]
  /\ call \in Calls \cup {NoCall}
  /\ ret \in [op : {"none", "insert", "lookup", "clear"},
              key : Keys \cup {Sentinel},
              res : Payloads \cup {Absent, "inserted", "thrown"}]

Displaced == call # NoCall /\ call.kick_count > 0

\* Every stored entry is in one of its own two buckets and the occupied slots
\* of a bucket come first: the kicking functions store at the index that is
\* the number of occupied slots, so a hole would make them overwrite an entry.
\* And no key is stored twice, nor both stored and carried once it has been
\* kicked out: kicking moves entries, it does not copy them.
WellPlaced ==
  \A b \in Directory, i \in Slots :
    ~Holds(b, i, Sentinel) =>
      /\ b \in {Primary(buckets[b][i].key), Secondary(buckets[b][i].key)}
      /\ \A j \in 0 .. (i - 1) : ~Holds(b, j, Sentinel)
      /\ \A c \in Directory, j \in Slots :
           buckets[b][i].key = buckets[c][j].key => b = c /\ i = j
      /\ Displaced => ~Holds(b, i, call.key)

\* Every insert ends, by the bound on kicks if not before.
CallsEnd == (call # NoCall) ~> (call = NoCall)

\* The map the table stands for while an insert kicks entries around: the
\* entry carried is still part of it unless it is the new one.
Stored(k) == \E b \in Directory, i \in Slots : Holds(b, i, k)
PayloadOf(k) ==
  LET at == CHOOSE at \in Directory \X Slots : Holds(at[1], at[2], k)
  IN  buckets[at[1]][at[2]].payload
AbstractMap ==
  [k \in Keys |->
     IF Displaced /\ k = call.orig_key THEN Absent
     ELSE IF Displaced /\ k = call.key THEN call.payload
     ELSE IF Stored(k) THEN PayloadOf(k)
     ELSE Absent]

Map == INSTANCE HashMap WITH map <- AbstractMap,
                             Overwrite <- TRUE, LossyThrow <- TRUE

\* Each call is one atomic operation on a map: an insert stores or replaces, a
\* lookup answers what was last inserted, and an insert that throws after too
\* many kicks has lost at most one entry, and then stored the new one.
ImplementsMap == Map!Spec
=============================================================================
