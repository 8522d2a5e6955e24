------------------------------ MODULE HashMap ------------------------------
(***************************************************************************)
(* What every table of hashtable/include promises its caller: a finite map *)
(* from keys to payloads, where each call has one atomic effect.           *)
(* The tables differ in two points, which are parameters:                  *)
(*   Overwrite    inserting a key that is present replaces its payload     *)
(*                (Cuckoo) or is refused (Probing, RobinhoodProbing);      *)
(*   LossyThrow   an insert that throws may have taken the new key in and  *)
(*                thrown out another one instead (the tables that move     *)
(*                entries: RobinhoodProbing, Cuckoo).                      *)
(***************************************************************************)
CONSTANTS
  Keys,        \* the keys callers use, without the Sentinel
  Payloads,
  Sentinel,    \* the key value that marks an empty slot
  Absent,      \* "no payload": std::nullopt
  Overwrite,
  LossyThrow

VARIABLES
  map,   \* the payload of every key, or Absent
  ret    \* the last call that returned or threw, and its outcome

mapVars == <<map, ret>>

Outcome(op, k, res) == [op |-> op, key |-> k, res |-> res]

Init ==
  /\ map = [k \in Keys |-> Absent]
  /\ ret = Outcome("none", Sentinel, Absent)

Insert(k, p) ==
  /\ \/ /\ map[k] = Absent \/ Overwrite
        /\ map' = [map EXCEPT ![k] = p]
        /\ ret' = Outcome("insert", k, "inserted")
     \/ /\ map[k] # Absent
        /\ ~Overwrite
        /\ ret' = Outcome("insert", k, "rejected")
        /\ UNCHANGED map

\* An insert that throws leaves the map alone, or (LossyThrow) has exchanged
\* one old key for the new one.
Throw(k, p) ==
  /\ map[k] = Absent
  /\ ret' = Outcome("insert", k, "thrown")
  /\ \/ UNCHANGED map
     \/ /\ LossyThrow
        /\ \E lost \in Keys :
             /\ map[lost] # Absent
             /\ map' = [map EXCEPT ![k] = p, ![lost] = Absent]

Lookup(k) ==
  /\ ret' = Outcome("lookup", k, map[k])
  /\ UNCHANGED map

\* The release-build answer to a call with the reserved key.
SentinelCall ==
  /\ ret' \in {Outcome("insert", Sentinel, "rejected"),
               Outcome("lookup", Sentinel, Absent)}
  /\ UNCHANGED map

Clear ==
  /\ map' = [k \in Keys |-> Absent]
  /\ ret' = Outcome("clear", Sentinel, Absent)

Next ==
  \/ \E k \in Keys, p \in Payloads : Insert(k, p) \/ Throw(k, p)
  \/ \E k \in Keys : Lookup(k)
  \/ SentinelCall
  \/ Clear

Spec == Init /\ [][Next]_mapVars
=============================================================================
