------------------------------- MODULE Chained ------------------------------
(***************************************************************************)
(* Hashtable::Chained (hashtable/include/chained.hpp): a directory of      *)
(* first-level slots, each with a chain of buckets of BucketSize slots for *)
(* the entries that collide.  A call is one step.  A bucket fills from the *)
(* left and never has a hole, so it is the sequence of its entries.        *)
(***************************************************************************)
EXTENDS Integers, Sequences

CONSTANTS
  Keys, Payloads,
  Sentinel,        \* the key of an empty slot
  Absent,          \* std::nullopt
  N,               \* the number of first-level slots
  BucketSize,
  Homes            \* the hash functions considered

Directory == 0 .. (N - 1)

ASSUME ChainedAssumption ==
  /\ N \in Nat \ {0}
  /\ Sentinel \notin Keys
  /\ Absent \notin Payloads
  /\ BucketSize \in Nat \ {0}
  /\ Homes \subseteq [Keys -> Directory]

VARIABLES
  home,      \* reductionfn(hashfn(key))
  first,     \* the first-level slots
  chain,     \* the buckets behind each of them
  ret        \* the last call and how it ended

chainVars == <<home, first, chain, ret>>

Entry(k, p) == [key |-> k, payload |-> p]
EmptySlot == Entry(Sentinel, Absent)
Outcome(op, k, res) == [op |-> op, key |-> k, res |-> res]

ChainInit ==
  /\ home \in Homes
  /\ first = [d \in Directory |-> EmptySlot]
  /\ chain = [d \in Directory |-> <<>>]
  /\ ret = Outcome("none", Sentinel, Absent)

Returns(op, k, res) == ret' = Outcome(op, k, res)

\* insert and lookup refuse the reserved key before hashing it.
SentinelCall ==
  /\ \/ Returns("insert", Sentinel, "rejected")
     \/ Returns("lookup", Sentinel, Absent)
  /\ UNCHANGED <<home, first, chain>>

\* The chain behind a slot holds the key in some bucket.
ChainPositions(d, k) ==
  {at \in (1 .. Len(chain[d])) \X (1 .. BucketSize) :
     /\ at[2] <= Len(chain[d][at[1]])
     /\ chain[d][at[1]][at[2]].key = k}

\* Mutated form: only the last bucket is searched.
InChainLast(d, k) == \E at \in ChainPositions(d, k) : at[1] = Len(chain[d])

InChain(d, k) == ChainPositions(d, k) # {}

\* Mutated form: the slot is taken whether or not it is empty.
InsertFirstAlways(k, p) ==
  LET d == home[k]
  IN  /\ first' = [first EXCEPT ![d] = Entry(k, p)]
      /\ Returns("insert", k, "inserted")
      /\ UNCHANGED <<home, chain>>

InsertFirst(k, p) ==
  LET d == home[k]
  IN  /\ first[d].key = Sentinel
      /\ first' = [first EXCEPT ![d] = Entry(k, p)]
      /\ Returns("insert", k, "inserted")
      /\ UNCHANGED <<home, chain>>

\* The scan of the chain meets the key; the first-level slot is not compared.
InsertExisting(k) ==
  LET d == home[k]
  IN  /\ first[d].key # Sentinel
      /\ InChain(d, k)
      /\ Returns("insert", k, "rejected")
      /\ UNCHANGED <<home, first, chain>>

\* Mutated forms: a bucket takes one entry too many; the first slot of a new
\* bucket stays empty.
ExtendedOverfull(c, e) ==
  IF c # <<>> /\ Len(c[Len(c)]) <= BucketSize
  THEN [c EXCEPT ![Len(c)] = Append(@, e)]
  ELSE Append(c, <<e>>)
ExtendedBlank(c, e) ==
  IF c # <<>> /\ Len(c[Len(c)]) < BucketSize
  THEN [c EXCEPT ![Len(c)] = Append(@, e)]
  ELSE Append(c, <<EmptySlot>>)

\* Room in the last bucket, or a new bucket behind it (the first of the chain
\* when there is none).
Extended(c, e) ==
  IF c # <<>> /\ Len(c[Len(c)]) < BucketSize
  THEN [c EXCEPT ![Len(c)] = Append(@, e)]
  ELSE Append(c, <<e>>)

InsertChain(k, p) ==
  LET d == home[k]
  IN  /\ first[d].key # Sentinel
      /\ ~InChain(d, k)
      /\ chain' = [chain EXCEPT ![d] = Extended(@, Entry(k, p))]
      /\ Returns("insert", k, "inserted")
      /\ UNCHANGED <<home, first>>

\* The first-level slot, then the chain in order.
LookupResult(k) ==
  LET d == home[k]
      found == ChainPositions(d, k)
      at == CHOOSE a \in found :
              \A b \in found : a[1] < b[1] \/ (a[1] = b[1] /\ a[2] <= b[2])
  IN  IF first[d].key = k THEN first[d].payload
      ELSE IF found = {} THEN Absent
      ELSE chain[d][at[1]][at[2]].payload

Lookup(k) ==
  /\ Returns("lookup", k, LookupResult(k))
  /\ UNCHANGED <<home, first, chain>>

\* clear resets the keys of the first-level slots and deletes the chains.
Clear ==
  /\ first' = [d \in Directory |-> [first[d] EXCEPT !.key = Sentinel]]
  /\ chain' = [d \in Directory |-> <<>>]
  /\ Returns("clear", Sentinel, Absent)
  /\ UNCHANGED home

ChainNext ==
  \/ \E k \in Keys, p \in Payloads : InsertFirst(k, p) \/ InsertChain(k, p)
  \/ \E k \in Keys : InsertExisting(k) \/ Lookup(k)
  \/ SentinelCall
  \/ Clear

ChainSpec == ChainInit /\ [][ChainNext]_chainVars

-----------------------------------------------------------------------------
Entries == [key : Keys, payload : Payloads]

ChainTypeOK ==
  /\ home \in [Keys -> Directory]
  /\ first \in [Directory -> [key : Keys \cup {Sentinel},
                              payload : Payloads \cup {Absent}]]
  /\ chain \in [Directory -> Seq(Seq(Entries))]
  /\ ret \in [op : {"none", "insert", "lookup", "clear"},
              key : Keys \cup {Sentinel},
              res : Payloads \cup {Absent, "inserted", "rejected"}]

\* The shape the scans of insert and lookup rely on when they stop at the
\* first empty slot: a chain only behind an occupied first-level slot, no
\* empty bucket in it, and every bucket but the last one full.
ChainShape ==
  \A d \in Directory :
    /\ chain[d] # <<>> => first[d].key # Sentinel
    /\ \A n \in 1 .. Len(chain[d]) :
         /\ Len(chain[d][n]) \in 1 .. BucketSize
         /\ n < Len(chain[d]) => Len(chain[d][n]) = BucketSize

\* A key is stored at most twice: once in the chain, and once more only in the
\* first-level slot, which insert does not compare.
AtMostOneShadow ==
  \A d \in Directory, k \in Keys :
    /\ \A a, b \in ChainPositions(d, k) : a = b
    /\ ChainPositions(d, k) # {} \/ first[d].key = k => home[k] = d

\* What lookup answers, over the life of a key: after an insert of any outcome
\* the key is found; it gets found by no other call than an insert of its own
\* that says so; and the first inserted payload stays, whatever is inserted
\* later and whether the key is stored once or twice, until clear.
FirstInsertWins ==
  [][\A k \in Keys :
       /\ LookupResult(k) # Absent /\ ret'.op # "clear" =>
            LookupResult(k)' = LookupResult(k)
       /\ ret'.op = "insert" /\ ret'.key = k => LookupResult(k)' # Absent
       /\ LookupResult(k)' # Absent /\ LookupResult(k) = Absent =>
            ret' = Outcome("insert", k, "inserted")]_chainVars
=============================================================================
