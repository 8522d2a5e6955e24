------------------------------ MODULE Relations ------------------------------
(***************************************************************************)
(* The relations of the join (data_generation.h and io.h): generated with  *)
(* distinct keys or as foreign keys, block by block, each shuffled; written *)
(* to a file and loaded from it again; and the threads of numa_localize,   *)
(* which touch an array part by part.                                      *)
(***************************************************************************)
EXTENDS Integers, Sequences, SequencesExt, FiniteSetsExt

CONSTANTS
  RelationSizes, \* num_tuples to generate
  MaxIds,        \* maxid of foreign keys
  LoadSizes,     \* num_tuples to load: RELATION_R_NUM_TUPLES
  PageTuples,    \* pagesize / sizeof(Tuple)
  LocalThreads,  \* nthreads
  UnsetKey       \* the key of memory nobody wrote

\* Of an empty relation the shuffle would begin at the index 0 - 1, unsigned.
ASSUME RelationsAssumption ==
  /\ RelationSizes \subseteq Nat \ {0} /\ MaxIds \subseteq Nat \ {0}
  /\ LoadSizes \subseteq Nat /\ PageTuples \in Nat \ {0}
  /\ LocalThreads \in Nat \ {0} /\ UnsetKey \notin Nat

VARIABLES
  relPc,     \* what comes next
  tuples,    \* relation->tuples
  maxid,     \* the size of a block
  block,     \* the block being generated
  place,     \* i of knuth_shuffle
  zeroed,    \* ZERO_PAYLOAD
  printable, \* the types of key and payload are among those io.h tells apart
  file,      \* the lines after the header
  touched    \* touched[t]: thread t has cleared its part

relationVars == <<relPc, tuples, maxid, block, place, zeroed, printable, file, touched>>

relationKept == <<maxid, zeroed, printable>>

num_tuples == Len(tuples)

NewTuple(k) == [key |-> k, payload |-> IF zeroed THEN 0 ELSE k]
Unwritten(n) == [i \in 1 .. n |-> [key |-> UnsetKey, payload |-> UnsetKey]]

-----------------------------------------------------------------------------
RelationIdle ==
  /\ relPc = "idle" /\ tuples = <<>> /\ maxid = 1 /\ block = 0 /\ place = 0
  /\ zeroed = TRUE /\ printable = TRUE /\ file = <<>> /\ touched = <<>>

RelationInit ==
  /\ relPc \in {"generate", "localize"}
  /\ \E n \in RelationSizes : tuples = Unwritten(n)
  /\ maxid \in MaxIds \cup {num_tuples}
  /\ block = 0 /\ place = 0
  /\ zeroed \in BOOLEAN /\ printable \in BOOLEAN
  /\ file = <<>> /\ touched = [t \in 1 .. LocalThreads |-> FALSE]

\* Block i holds the tuples from maxid * i on: maxid of them, or in the last
\* block the remainder.  Unique keys are one block of num_tuples.
BlockStart(i) == maxid * i
BlockSize(i) == Min({maxid, num_tuples - BlockStart(i)})

\* create_eth_workload_relation_fk and random_unique_gen: keys from 1 on.
GenerateBlock ==
  /\ relPc = "generate" /\ BlockStart(block) < num_tuples
  /\ tuples' = [i \in DOMAIN tuples |->
                  IF i \in BlockStart(block) + 1 .. BlockStart(block) + BlockSize(block)
                  THEN NewTuple(i - BlockStart(block)) ELSE tuples[i]]
  /\ place' = BlockSize(block) - 1
  /\ relPc' = "shuffle"
  /\ UNCHANGED <<relationKept, block, file, touched>>

\* RAND_RANGE(i) is less than i, so that no tuple is exchanged with itself
\* (math.h:46 says "in range [0,N]").
RAND_RANGE(i) == 0 .. (i - 1)

\* Mutated form: the keys change places, the payloads stay.
ExchangeKeysOnly ==
  /\ relPc = "shuffle" /\ place > 0
  /\ \E j \in RAND_RANGE(place) :
       LET a == BlockStart(block) + place + 1
           b == BlockStart(block) + j + 1
       IN  tuples' = [tuples EXCEPT ![a].key = tuples[b].key, ![b].key = tuples[a].key]
  /\ place' = place - 1
  /\ UNCHANGED <<relPc, relationKept, block, file, touched>>

\* One turn of knuth_shuffle.
Exchange ==
  /\ relPc = "shuffle" /\ place > 0
  /\ \E j \in RAND_RANGE(place) :
       LET a == BlockStart(block) + place + 1
           b == BlockStart(block) + j + 1
       IN  tuples' = [tuples EXCEPT ![a] = tuples[b], ![b] = tuples[a]]
  /\ place' = place - 1
  /\ UNCHANGED <<relPc, relationKept, block, file, touched>>

EndBlock ==
  /\ relPc = "shuffle" /\ place = 0
  /\ block' = block + 1 /\ relPc' = "generate"
  /\ UNCHANGED <<tuples, relationKept, place, file, touched>>

\* write_relation: a line per tuple; nothing for other types than the listed.
WriteRelation ==
  /\ relPc = "generate" /\ BlockStart(block) >= num_tuples
  /\ file' = IF printable THEN tuples ELSE <<>>
  /\ relPc' = "scan"
  /\ UNCHANGED <<tuples, relationKept, block, place, touched>>

\* read_relation looks for a blank in the first line, and never finds the end
\* of a line that is not there.
ScansForever == relPc = "scan" /\ file = <<>>

ScanFirstLine ==
  /\ relPc = "scan" /\ ~ScansForever
  /\ relPc' = "load"
  /\ UNCHANGED <<tuples, relationKept, block, place, file, touched>>

\* load_relation of a number of tuples of its own: key and payload keep their
\* values when the file has no more lines.
LoadRelation ==
  /\ relPc = "load"
  /\ \E n \in LoadSizes : tuples' = [i \in 1 .. n |-> file[Min({i, Len(file)})]]
  /\ relPc' = "done"
  /\ UNCHANGED <<relationKept, block, place, file, touched>>

-----------------------------------------------------------------------------
(* numa_localize: whole pages for every thread, the rest for the last.     *)

ntuples_perthr == (((num_tuples \div PageTuples) + 1) \div LocalThreads) * PageTuples

PartOf(t) ==
  LET offset == ntuples_perthr * (t - 1)
  IN  offset + 1 .. (IF t = LocalThreads THEN num_tuples ELSE offset + ntuples_perthr)

LocalizeThread(t) ==
  /\ relPc = "localize" /\ ~touched[t]
  /\ touched' = [touched EXCEPT ![t] = TRUE]
  /\ tuples' = [i \in DOMAIN tuples |->
                  IF i \in PartOf(t) THEN [tuples[i] EXCEPT !.key = 0] ELSE tuples[i]]
  /\ UNCHANGED <<relPc, relationKept, block, place, file>>

LocalizeEnds ==
  /\ relPc = "localize" /\ \A t \in DOMAIN touched : touched[t]
  /\ relPc' = "done"
  /\ UNCHANGED <<tuples, relationKept, block, place, file, touched>>

RelationNext ==
  \/ GenerateBlock \/ Exchange \/ EndBlock
  \/ WriteRelation \/ ScanFirstLine \/ LoadRelation
  \/ \E t \in 1 .. LocalThreads : LocalizeThread(t)
  \/ LocalizeEnds

\* A run of several components starts all but one of them idle.
RelationSpec == (RelationInit \/ RelationIdle) /\ [][RelationNext]_relationVars

-----------------------------------------------------------------------------
KeyCount(s, k) == Cardinality({i \in DOMAIN s : s[i].key = k})

\* data_generation.h and io.h: a finished block has each of its keys once,
\* with its payload.  Every foreign key from 1 to maxid is there about as often
\* as every other: at least once if there are maxid tuples, while of a shorter
\* relation the larger keys are missing, and the key 0 always is (the comment
\* at data_generation.h:70 has "each key between 0 and maxid" at least once).
\* A relation is loaded as it was written if the file has as many lines; a
\* shorter file is not noticed, its last tuple is repeated.  The threads of
\* numa_localize have parts that leave no tuple out and share none.
RelationWhole ==
  /\ relPc = "generate" =>
       \A i \in 0 .. block - 1 :
         LET s == SubSeq(tuples, BlockStart(i) + 1, BlockStart(i) + BlockSize(i))
         IN  \A k \in DOMAIN s :
               /\ KeyCount(s, k) = 1
               /\ s[k].payload = NewTuple(s[k].key).payload
  /\ relPc = "load" =>
       /\ file = tuples
       /\ \A k \in 1 .. maxid :
            KeyCount(file, k) \in num_tuples \div maxid .. (num_tuples \div maxid) + 1
  /\ relPc = "done" /\ file # <<>> =>
       /\ IsPrefix(SubSeq(tuples, 1, Min({num_tuples, Len(file)})), file)
       /\ \A i \in DOMAIN tuples : i > Len(file) => tuples[i] = Last(file)
  /\ relPc \in {"localize", "done"} /\ file = <<>> =>
       /\ \A t, u \in DOMAIN touched : t # u => PartOf(t) \cap PartOf(u) = {}
       /\ UNION {PartOf(t) : t \in DOMAIN touched} = DOMAIN tuples
       /\ relPc = "done" => \A i \in DOMAIN tuples : tuples[i].key = 0
=============================================================================
