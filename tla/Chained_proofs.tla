--------------------------- MODULE Chained_proofs ---------------------------
(***************************************************************************)
(* The chained table for any number of keys, first-level slots and slots   *)
(* of a bucket: its chains keep the shape the scans rely on, and a key is  *)
(* in a chain at most once, whatever is inserted.                          *)
(***************************************************************************)
EXTENDS Chained, TLAPS

\* The inductive invariant.  The payload lookup answers is that of the first
\* position of the key, so even the types need the key to have one position.
ChainedInv == ChainTypeOK /\ ChainShape /\ AtMostOneShadow

\* A chain as the scans need it, and the positions of a key in it.
GoodChain(c) ==
  \A n \in 1 .. Len(c) :
    /\ Len(c[n]) \in 1 .. BucketSize
    /\ n < Len(c) => Len(c[n]) = BucketSize
Positions(c, k) ==
  {at \in (1 .. Len(c)) \X (1 .. BucketSize) : at[2] <= Len(c[at[1]]) /\ c[at[1]][at[2]].key = k}

-----------------------------------------------------------------------------
\* What Extended makes of a chain: one entry more, behind all the others.
LEMMA ExtendedChain ==
  ASSUME NEW c \in Seq(Seq(Entries)), GoodChain(c), NEW e \in Entries
  PROVE  /\ Extended(c, e) \in Seq(Seq(Entries))
         /\ Extended(c, e) # <<>>
         /\ GoodChain(Extended(c, e))
         /\ \E at : /\ Extended(c, e)[at[1]][at[2]] = e
                    /\ \A k : Positions(Extended(c, e), k) =
                                Positions(c, k) \cup (IF e.key = k THEN {at} ELSE {})
         /\ \A k : \A at \in Positions(c, k) :
              Extended(c, e)[at[1]][at[2]] = c[at[1]][at[2]]
<1> DEFINE n == Len(c)
<1> USE ChainedAssumption
<1>1. CASE c # <<>> /\ Len(c[n]) < BucketSize
  <2> DEFINE x == [c EXCEPT ![n] = Append(c[n], e)]
             i == Len(c[n]) + 1
  <2>1. Extended(c, e) = x
    BY <1>1 DEF Extended
  <2>2. n \in 1 .. Len(c) /\ n \in Nat /\ c[n] \in Seq(Entries) /\ i \in 1 .. BucketSize
    BY <1>1
  <2>3. x \in Seq(Seq(Entries)) /\ Len(x) = n /\ x # <<>>
    BY <2>2
  <2>4. /\ \A j \in 1 .. n : j # n => x[j] = c[j]
        /\ x[n] = Append(c[n], e) /\ Len(x[n]) = i
    BY <2>2
  <2>5. GoodChain(x)
    <3> SUFFICES ASSUME NEW j \in 1 .. n
                 PROVE  /\ Len(x[j]) \in 1 .. BucketSize
                        /\ j < n => Len(x[j]) = BucketSize
      BY <2>3 DEF GoodChain
    <3>1. CASE j = n
      BY <3>1, <2>2, <2>4
    <3>2. CASE j # n
      <4>1. x[j] = c[j]
        BY <3>2, <2>4
      <4>2. Len(c[j]) \in 1 .. BucketSize /\ (j < n => Len(c[j]) = BucketSize)
        BY DEF GoodChain
      <4> QED BY <4>1, <4>2
    <3> QED BY <3>1, <3>2
  <2>6. ASSUME NEW k
        PROVE  Positions(x, k) = Positions(c, k) \cup (IF e.key = k THEN {<<n, i>>} ELSE {})
    <3>1. ASSUME NEW at \in (1 .. n) \X (1 .. BucketSize)
          PROVE  (at[2] <= Len(x[at[1]]) /\ x[at[1]][at[2]].key = k)
                 <=> \/ at[2] <= Len(c[at[1]]) /\ c[at[1]][at[2]].key = k
                     \/ at = <<n, i>> /\ e.key = k
      <4>1. CASE at[1] # n
        BY <4>1, <2>4
      <4>2. CASE at[1] = n /\ at[2] = i
        <5>1. at = <<n, i>>
          BY <4>2
        <5>2. x[at[1]][at[2]] = e
          BY <4>2, <2>4, <2>2
        <5> QED BY <5>1, <5>2, <4>2, <2>4, <2>2
      <4>3. CASE at[1] = n /\ at[2] # i
        <5>1. at[2] <= i => at[2] \in 1 .. Len(c[n])
          BY <4>3, <2>2
        <5>2. at[2] \in 1 .. Len(c[n]) => x[n][at[2]] = c[n][at[2]]
          BY <2>4, <2>2
        <5>3. at # <<n, i>>
          BY <4>3
        <5> QED BY <5>1, <5>2, <5>3, <4>3, <2>4, <2>2
      <4> QED BY <4>1, <4>2, <4>3
    <3>2. <<n, i>> \in (1 .. n) \X (1 .. BucketSize)
      BY <2>2
    <3> QED BY <3>1, <3>2, <2>3 DEF Positions
  <2>7. \E at : /\ x[at[1]][at[2]] = e
               /\ \A k : Positions(x, k) = Positions(c, k) \cup (IF e.key = k THEN {at} ELSE {})
    <3>1. x[n][i] = e
      BY <2>2, <2>4
    <3> HIDE DEF n, x, i
    <3> WITNESS <<n, i>>
    <3> QED BY <3>1, <2>6
  <2>8. ASSUME NEW k, NEW at \in Positions(c, k)
        PROVE  x[at[1]][at[2]] = c[at[1]][at[2]]
    <3>1. at[1] \in 1 .. n /\ at[2] \in 1 .. BucketSize /\ at[2] <= Len(c[at[1]])
      BY DEF Positions
    <3>2. CASE at[1] = n
      <4>1. at[2] \in 1 .. Len(c[n])
        BY <3>1, <3>2, <2>2
      <4> QED BY <4>1, <3>2, <2>2, <2>4
    <3>3. CASE at[1] # n
      BY <3>1, <3>3, <2>4
    <3> QED BY <3>2, <3>3
  <2> HIDE DEF n, x, i
  <2> QED BY <2>1, <2>3, <2>5, <2>7, <2>8
<1>2. CASE ~(c # <<>> /\ Len(c[n]) < BucketSize)
  <2> DEFINE x == Append(c, <<e>>)
             m == n + 1
  <2>1. Extended(c, e) = x
    BY <1>2 DEF Extended
  <2>2. n \in Nat /\ m \in Nat /\ 1 \in 1 .. BucketSize
    OBVIOUS
  <2>3. x \in Seq(Seq(Entries)) /\ Len(x) = m /\ x # <<>>
    OBVIOUS
  <2>4. /\ \A j \in 1 .. n : x[j] = c[j]
        /\ x[m] = <<e>> /\ Len(<<e>>) = 1
    OBVIOUS
  <2>5. GoodChain(x)
    <3>1. \A j \in 1 .. n : Len(c[j]) = BucketSize
      BY <1>2, <2>2 DEF GoodChain
    <3> QED BY <3>1, <2>2, <2>3, <2>4 DEF GoodChain
  <2>6. ASSUME NEW k
        PROVE  Positions(x, k) = Positions(c, k) \cup (IF e.key = k THEN {<<m, 1>>} ELSE {})
    <3>1. ASSUME NEW at \in (1 .. m) \X (1 .. BucketSize)
          PROVE  (at[2] <= Len(x[at[1]]) /\ x[at[1]][at[2]].key = k)
                 <=> \/ at[1] # m /\ at[2] <= Len(c[at[1]]) /\ c[at[1]][at[2]].key = k
                     \/ at = <<m, 1>> /\ e.key = k
      <4>1. CASE at[1] # m
        BY <4>1, <2>4, <2>2
      <4>2. CASE at[1] = m
        <5>1. x[at[1]] = <<e>> /\ at[2] \in 1 .. BucketSize
          BY <4>2, <2>4
        <5>2. at[2] <= 1 <=> at[2] = 1
          BY <5>1
        <5>3. at[2] = 1 <=> at = <<m, 1>>
          BY <4>2
        <5>4. at[2] = 1 => x[at[1]][at[2]] = e
          BY <5>1
        <5> QED BY <4>2, <5>1, <5>2, <5>3, <5>4, <2>4
      <4> QED BY <4>1, <4>2
    <3>2. <<m, 1>> \in (1 .. m) \X (1 .. BucketSize)
      BY <2>2
    <3>3. \A at : at \in (1 .. n) \X (1 .. BucketSize)
                  <=> at \in (1 .. m) \X (1 .. BucketSize) /\ at[1] # m
      BY <2>2
    <3> QED BY <3>1, <3>2, <3>3, <2>3 DEF Positions
  <2>7. \E at : /\ x[at[1]][at[2]] = e
               /\ \A k : Positions(x, k) = Positions(c, k) \cup (IF e.key = k THEN {at} ELSE {})
    <3>1. x[m][1] = e
      BY <2>4
    <3> HIDE DEF n, x, m
    <3> WITNESS <<m, 1>>
    <3> QED BY <3>1, <2>6
  <2>8. ASSUME NEW k, NEW at \in Positions(c, k)
        PROVE  x[at[1]][at[2]] = c[at[1]][at[2]]
    <3>1. at[1] \in 1 .. n
      BY DEF Positions
    <3> QED BY <3>1, <2>4
  <2> HIDE DEF n, x, m
  <2> QED BY <2>1, <2>3, <2>5, <2>7, <2>8
<1> QED BY <1>1, <1>2

\* The parts of it that say where the entries are.
LEMMA ExtendedPlace ==
  ASSUME NEW c \in Seq(Seq(Entries)), GoodChain(c), NEW e \in Entries
  PROVE  \E at : /\ Extended(c, e)[at[1]][at[2]] = e
                 /\ \A k : Positions(Extended(c, e), k) =
                             Positions(c, k) \cup (IF e.key = k THEN {at} ELSE {})
BY ExtendedChain

LEMMA ExtendedKeeps ==
  ASSUME NEW c \in Seq(Seq(Entries)), GoodChain(c), NEW e \in Entries,
         NEW k, NEW at \in Positions(c, k)
  PROVE  Extended(c, e)[at[1]][at[2]] = c[at[1]][at[2]]
BY ExtendedChain

\* An empty chain has no position.
LEMMA EmptyChain ==
  /\ <<>> \in Seq(Seq(Entries))
  /\ GoodChain(<<>>)
  /\ \A k : Positions(<<>>, k) = {}
BY DEF GoodChain, Positions

LEMMA ChainedPositions ==
  /\ \A d, k : ChainPositions(d, k) = Positions(chain[d], k)
  /\ \A d, k : ChainPositions(d, k)' = Positions(chain'[d], k)
BY DEF ChainPositions, Positions

\* The key is at one position of the chain at most.
Alone(c, k) == \A a, b \in Positions(c, k) : a = b

\* The answer of lookup as a function of the first-level slot and its chain.
Answer(f, c, k) ==
  LET found == Positions(c, k)
      at == CHOOSE a \in found :
              \A b \in found : a[1] < b[1] \/ (a[1] = b[1] /\ a[2] <= b[2])
  IN  IF f.key = k THEN f.payload
      ELSE IF found = {} THEN Absent
      ELSE c[at[1]][at[2]].payload

LEMMA LookupIsAnswer ==
  /\ \A k : LookupResult(k) = Answer(first[home[k]], chain[home[k]], k)
  /\ \A k : LookupResult(k)' = Answer(first'[home'[k]], chain'[home'[k]], k)
BY DEF LookupResult, Answer, ChainPositions, Positions

\* With the key at one position of the chain at most, the answer is that of the
\* first-level slot, or of the position, or there is none.
LEMMA AnswerIs ==
  ASSUME NEW c \in Seq(Seq(Entries)), NEW f, NEW k,
         Alone(c, k)
  PROVE  /\ f.key = k => Answer(f, c, k) = f.payload
         /\ f.key # k /\ Positions(c, k) = {} => Answer(f, c, k) = Absent
         /\ f.key # k => \A at \in Positions(c, k) :
              /\ Answer(f, c, k) = c[at[1]][at[2]].payload
              /\ c[at[1]][at[2]].payload \in Payloads
<1> DEFINE found == Positions(c, k)
           at == CHOOSE a \in found :
                   \A b \in found : a[1] < b[1] \/ (a[1] = b[1] /\ a[2] <= b[2])
<1>1. ASSUME NEW a \in found
      PROVE  at = a /\ c[a[1]][a[2]].payload \in Payloads
  <2>0. \A b \in found : a = b
    BY DEF Alone
  <2>1. a \in (1 .. Len(c)) \X (1 .. BucketSize) /\ a[2] <= Len(c[a[1]])
    BY DEF Positions
  <2>2. \A b \in found : a[1] < b[1] \/ (a[1] = b[1] /\ a[2] <= b[2])
    BY <2>0, <2>1, ChainedAssumption
  <2>3. at \in found
    BY <2>2
  <2>4. c[a[1]] \in Seq(Entries) /\ a[2] \in 1 .. Len(c[a[1]])
    BY <2>1, ChainedAssumption
  <2>5. c[a[1]][a[2]] \in Entries
    BY <2>4
  <2> QED BY <2>0, <2>3, <2>5 DEF Entries
<1>2. /\ f.key = k => Answer(f, c, k) = f.payload
      /\ f.key # k /\ found = {} => Answer(f, c, k) = Absent
      /\ f.key # k /\ found # {} => Answer(f, c, k) = c[at[1]][at[2]].payload
  BY DEF Answer
<1> HIDE DEF at
<1> QED BY <1>1, <1>2

LEMMA SlotAnswers ==
  ASSUME NEW c, NEW f, NEW k, f.key = k
  PROVE  Answer(f, c, k) = f.payload
BY DEF Answer

LEMMA NothingAnswers ==
  ASSUME NEW c, NEW f, NEW k, f.key # k, Positions(c, k) = {}
  PROVE  Answer(f, c, k) = Absent
BY DEF Answer

LEMMA PositionAnswers ==
  ASSUME NEW c \in Seq(Seq(Entries)), NEW f, NEW k, f.key # k,
         Alone(c, k), NEW at \in Positions(c, k)
  PROVE  /\ Answer(f, c, k) = c[at[1]][at[2]].payload
         /\ c[at[1]][at[2]].payload \in Payloads
BY AnswerIs

\* What lookup answers is a payload or Absent.
LEMMA LookupAnswers ==
  ASSUME ChainedInv, NEW k \in Keys
  PROVE  LookupResult(k) \in Payloads \cup {Absent}
<1> DEFINE d == home[k]
<1>1. /\ d \in Directory /\ first[d].payload \in Payloads \cup {Absent}
      /\ chain[d] \in Seq(Seq(Entries))
  BY DEF ChainedInv, ChainTypeOK
<1>2. Alone(chain[d], k)
  <2>1. ChainPositions(d, k) = Positions(chain[d], k)
    BY ChainedPositions
  <2>2. \A a, b \in ChainPositions(d, k) : a = b
    BY <1>1 DEF ChainedInv, AtMostOneShadow
  <2> QED BY <2>1, <2>2 DEF Alone
<1>3. LookupResult(k) = Answer(first[d], chain[d], k)
  BY LookupIsAnswer
<1> HIDE DEF d
<1>4. CASE first[d].key = k
  BY <1>1, <1>3, <1>4, SlotAnswers
<1>5. CASE first[d].key # k /\ Positions(chain[d], k) = {}
  BY <1>1, <1>3, <1>5, NothingAnswers
<1>6. CASE first[d].key # k /\ Positions(chain[d], k) # {}
  <2>1. PICK c, f : c = chain[d] /\ f = first[d]
    OBVIOUS
  <2>2. PICK p : p \in Positions(c, k)
    BY <1>6, <2>1
  <2>3. c \in Seq(Seq(Entries)) /\ f.key # k /\ Alone(c, k)
    BY <1>1, <1>2, <1>6, <2>1
  <2>4. Answer(f, c, k) \in Payloads
    <3>1. Answer(f, c, k) = c[p[1]][p[2]].payload
      BY <2>2, <2>3, PositionAnswers
    <3>2. c[p[1]][p[2]].payload \in Payloads
      BY <2>2, <2>3, PositionAnswers
    <3> QED BY <3>1, <3>2
  <2> QED BY <1>3, <2>1, <2>4
<1> QED BY <1>4, <1>5, <1>6

LEMMA InitChainedInv == ChainInit => ChainedInv
<1> SUFFICES ASSUME ChainInit PROVE ChainedInv
  OBVIOUS
<1> USE ChainedAssumption
<1>1. ChainTypeOK
  BY EmptyChain DEF ChainInit, ChainTypeOK, EmptySlot, Entry, Outcome
<1>2. ChainShape
  BY DEF ChainInit, ChainShape
<1>3. AtMostOneShadow
  BY EmptyChain, ChainedPositions DEF ChainInit, AtMostOneShadow, EmptySlot, Entry
<1> QED BY <1>1, <1>2, <1>3 DEF ChainedInv

LEMMA NextChainedInv == ChainedInv /\ [ChainNext]_chainVars => ChainedInv'
<1> SUFFICES ASSUME ChainedInv, [ChainNext]_chainVars PROVE ChainedInv'
  OBVIOUS
<1> USE ChainedAssumption
<1>0. ChainTypeOK /\ ChainShape /\ AtMostOneShadow
  BY DEF ChainedInv
<1>1. ASSUME NEW k \in Keys, NEW p \in Payloads, InsertFirst(k, p)
      PROVE  ChainedInv'
  <2>1. home[k] \in Directory /\ home' = home /\ chain' = chain
    BY <1>0, <1>1 DEF InsertFirst, ChainTypeOK
  <2>2. first' = [first EXCEPT ![home[k]] = Entry(k, p)]
    BY <1>1 DEF InsertFirst
  <2>3. ChainTypeOK'
    BY <1>0, <1>1, <2>1, <2>2 DEF InsertFirst, ChainTypeOK, Entry, Returns, Outcome
  <2>4. ChainShape'
    BY <1>0, <2>1, <2>2 DEF ChainShape, ChainTypeOK, Entry
  <2>5. AtMostOneShadow'
    <3> SUFFICES ASSUME NEW d \in Directory, NEW q \in Keys
                 PROVE  /\ \A a, b \in ChainPositions(d, q)' : a = b
                        /\ ChainPositions(d, q)' # {} \/ first'[d].key = q => home'[q] = d
      BY DEF AtMostOneShadow
    <3>1. ChainPositions(d, q)' = ChainPositions(d, q)
      BY <2>1, ChainedPositions
    <3>2. first'[d] = IF d = home[k] THEN Entry(k, p) ELSE first[d]
      BY <1>0, <2>1, <2>2 DEF ChainTypeOK
    <3> QED BY <1>0, <2>1, <3>1, <3>2 DEF AtMostOneShadow, Entry
  <2> QED BY <2>3, <2>4, <2>5 DEF ChainedInv
<1>2. ASSUME NEW k \in Keys, NEW p \in Payloads, InsertChain(k, p)
      PROVE  ChainedInv'
  <2> DEFINE e == Entry(k, p)
             h == home[k]
             x == Extended(chain[h], e)
  <2>1. /\ h \in Directory /\ home' = home /\ first' = first
        /\ first[h].key # Sentinel /\ e \in Entries /\ e.key = k
    BY <1>0, <1>2 DEF InsertChain, ChainTypeOK, Entry, Entries
  <2>2. chain' = [chain EXCEPT ![h] = x] /\ ChainPositions(h, k) = {}
    BY <1>2 DEF InsertChain, InChain
  <2>3. chain[h] \in Seq(Seq(Entries)) /\ GoodChain(chain[h])
    BY <1>0, <2>1 DEF ChainTypeOK, ChainShape, GoodChain
  <2>4. /\ x \in Seq(Seq(Entries)) /\ x # <<>> /\ GoodChain(x)
        /\ \E at : /\ x[at[1]][at[2]] = e
                   /\ \A q : Positions(x, q) =
                              Positions(chain[h], q) \cup (IF e.key = q THEN {at} ELSE {})
    BY <2>1, <2>3, ExtendedChain
  <2>5. \A d \in Directory : chain'[d] = IF d = h THEN x ELSE chain[d]
    BY <1>0, <2>1, <2>2 DEF ChainTypeOK
  <2> HIDE DEF x, e
  <2>6. ChainTypeOK'
    <3>1. chain' \in [Directory -> Seq(Seq(Entries))]
      BY <1>0, <2>1, <2>2, <2>4 DEF ChainTypeOK
    <3> QED BY <1>0, <1>2, <2>1, <3>1 DEF ChainTypeOK, InsertChain, Returns, Outcome
  <2>7. ChainShape'
    <3> SUFFICES ASSUME NEW d \in Directory
                 PROVE  /\ chain'[d] # <<>> => first'[d].key # Sentinel
                        /\ GoodChain(chain'[d])
      BY DEF ChainShape, GoodChain
    <3> QED BY <1>0, <2>1, <2>4, <2>5 DEF ChainShape, GoodChain
  <2>8. AtMostOneShadow'
    <3> SUFFICES ASSUME NEW d \in Directory, NEW q \in Keys
                 PROVE  /\ \A a, b \in ChainPositions(d, q)' : a = b
                        /\ ChainPositions(d, q)' # {} \/ first'[d].key = q => home'[q] = d
      BY DEF AtMostOneShadow
    <3>0. /\ \A a, b \in ChainPositions(d, q) : a = b
          /\ ChainPositions(d, q) # {} \/ first[d].key = q => home[q] = d
      BY <1>0 DEF AtMostOneShadow
    <3>1. CASE d # h \/ q # k
      <4>1. ChainPositions(d, q)' = ChainPositions(d, q)
        BY <3>1, <2>1, <2>4, <2>5, ChainedPositions
      <4> QED BY <3>0, <4>1, <2>1
    <3>2. CASE d = h /\ q = k
      <4>1. ChainPositions(d, q)' = Positions(x, k) /\ Positions(chain[h], k) = {}
        BY <3>2, <2>1, <2>2, <2>5, ChainedPositions
      <4>2. PICK at : Positions(x, k) = Positions(chain[h], k) \cup {at}
        BY <2>1, <2>4
      <4>3. ChainPositions(d, q)' = {at}
        BY <4>1, <4>2
      <4> QED BY <4>3, <3>2, <2>1
    <3> QED BY <3>1, <3>2
  <2> QED BY <2>6, <2>7, <2>8 DEF ChainedInv
<1>3. ASSUME UNCHANGED <<home, first, chain>>, ret' \in [op : {"none", "insert", "lookup", "clear"},
                key : Keys \cup {Sentinel}, res : Payloads \cup {Absent, "inserted", "rejected"}]
      PROVE  ChainedInv'
  <2>1. ChainTypeOK' /\ ChainShape'
    BY <1>0, <1>3 DEF ChainTypeOK, ChainShape
  <2>2. AtMostOneShadow'
    BY <1>0, <1>3, ChainedPositions DEF AtMostOneShadow
  <2> QED BY <2>1, <2>2 DEF ChainedInv
<1>4. ASSUME NEW k \in Keys, InsertExisting(k)
      PROVE  ChainedInv'
  BY <1>3, <1>4 DEF InsertExisting, Returns, Outcome
<1>5. ASSUME NEW k \in Keys, Lookup(k)
      PROVE  ChainedInv'
  BY <1>3, <1>5, LookupAnswers DEF Lookup, Returns, Outcome
<1>6. ASSUME SentinelCall
      PROVE  ChainedInv'
  BY <1>3, <1>6 DEF SentinelCall, Returns, Outcome
<1>7. ASSUME Clear
      PROVE  ChainedInv'
  <2>1. ChainTypeOK'
    BY ZenonT(30), <1>0, <1>7, EmptyChain DEF Clear, ChainTypeOK, Returns, Outcome
  <2>2. ChainShape'
    BY <1>7 DEF Clear, ChainShape
  <2>3. \A d \in Directory, k \in Keys : ChainPositions(d, k)' = {} /\ first'[d].key # k
    BY <1>0, <1>7, EmptyChain, ChainedPositions DEF Clear, ChainTypeOK
  <2> QED BY <2>1, <2>2, <2>3 DEF ChainedInv, AtMostOneShadow
<1>8. CASE UNCHANGED chainVars
  BY <1>0, <1>3, <1>8 DEF chainVars, ChainTypeOK
<1> QED BY <1>1, <1>2, <1>4, <1>5, <1>6, <1>7, <1>8 DEF ChainNext

-----------------------------------------------------------------------------
\* The invariant of the calls of chained.hpp, in any order.
LEMMA AlwaysChainedInv == ChainSpec => []ChainedInv
BY InitChainedInv, NextChainedInv, PTL DEF ChainSpec

\* insert, lookup and clear of chained.hpp keep the types, and lookup answers
\* a payload or nothing.
THEOREM TypeCorrect == ChainSpec => []ChainTypeOK
<1>1. ChainedInv => ChainTypeOK
  BY DEF ChainedInv
<1> QED BY <1>1, AlwaysChainedInv, PTL

\* The scans of insert and lookup (chained.hpp) may stop at the first empty
\* slot: no chain ever has a hole or stands behind an empty first-level slot.
THEOREM AlwaysChainShape == ChainSpec => []ChainShape
<1>1. ChainedInv => ChainShape
  BY DEF ChainedInv
<1> QED BY <1>1, AlwaysChainedInv, PTL

\* Although insert (chained.hpp) does not compare the first-level slot, a key
\* is never there more than twice: once in a chain and once in that slot.
THEOREM AlwaysOneShadow == ChainSpec => []AtMostOneShadow
<1>1. ChainedInv => AtMostOneShadow
  BY DEF ChainedInv
<1> QED BY <1>1, AlwaysChainedInv, PTL

-----------------------------------------------------------------------------
\* An occupied first-level slot has a given payload, so that a key found there
\* is answered.  (clear resets the key of the slot and leaves its payload.)
FirstGiven == \A d \in Directory : first[d].key # Sentinel => first[d].payload \in Payloads

AnswerInv == ChainedInv /\ FirstGiven

LEMMA InitAnswerInv == ChainInit => AnswerInv
<1>1. ChainInit => FirstGiven
  BY DEF ChainInit, FirstGiven, EmptySlot, Entry
<1> QED BY <1>1, InitChainedInv DEF AnswerInv

LEMMA NextAnswerInv == AnswerInv /\ [ChainNext]_chainVars => AnswerInv'
<1> SUFFICES ASSUME AnswerInv, [ChainNext]_chainVars PROVE FirstGiven'
  BY NextChainedInv DEF AnswerInv
<1>0. FirstGiven /\ ChainTypeOK
  BY DEF AnswerInv, ChainedInv
<1>1. ASSUME NEW k \in Keys, NEW p \in Payloads, InsertFirst(k, p)
      PROVE  FirstGiven'
  <2>1. \A d \in Directory : first'[d] = first[d] \/ first'[d] = Entry(k, p)
    BY <1>0, <1>1 DEF InsertFirst, ChainTypeOK
  <2> QED BY <1>0, <2>1 DEF FirstGiven, Entry
<1>2. CASE Clear
  <2>1. \A d \in Directory : first'[d].key = Sentinel
    BY <1>0, <1>2 DEF Clear, ChainTypeOK
  <2> QED BY <2>1 DEF FirstGiven
<1>3. CASE UNCHANGED first
  BY <1>0, <1>3 DEF FirstGiven
<1> QED BY <1>1, <1>2, <1>3 DEF ChainNext, InsertChain, InsertExisting, Lookup, SentinelCall, chainVars

LEMMA AlwaysAnswerInv == ChainSpec => []AnswerInv
BY InitAnswerInv, NextAnswerInv, PTL DEF ChainSpec

\* The slot does not matter to the answer of a key it does not hold.
LEMMA OtherSlotSameAnswer ==
  ASSUME NEW c, NEW f, NEW g, NEW k, f.key # k, g.key # k
  PROVE  Answer(f, c, k) = Answer(g, c, k)
BY DEF Answer

\* A chain that keeps the positions of a key, and what is there, keeps its answer.
LEMMA SamePositionsSameAnswer ==
  ASSUME NEW c \in Seq(Seq(Entries)), NEW x \in Seq(Seq(Entries)), NEW f, NEW k,
         Positions(x, k) = Positions(c, k),
         Alone(c, k),
         \A at \in Positions(c, k) : x[at[1]][at[2]] = c[at[1]][at[2]]
  PROVE  Answer(f, x, k) = Answer(f, c, k)
<1>1. CASE f.key = k
  BY <1>1, SlotAnswers
<1>2. CASE f.key # k /\ Positions(c, k) = {}
  BY <1>2, NothingAnswers
<1>3. CASE f.key # k /\ Positions(c, k) # {}
  <2>1. PICK at \in Positions(c, k) : TRUE
    BY <1>3
  <2>2. Answer(f, c, k) = c[at[1]][at[2]].payload
    BY <1>3, <2>1, PositionAnswers
  <2>3. Alone(x, k) /\ at \in Positions(x, k)
    BY DEF Alone
  <2>4. Answer(f, x, k) = x[at[1]][at[2]].payload
    BY <1>3, <2>1, <2>3, PositionAnswers
  <2> QED BY <2>1, <2>2, <2>4
<1> QED BY <1>1, <1>2, <1>3

\* One step, for one key: what FirstInsertWins says of it.
AnswerStep(k) ==
  /\ LookupResult(k) # Absent /\ ret'.op # "clear" =>
       LookupResult(k)' = LookupResult(k)
  /\ ret'.op = "insert" /\ ret'.key = k => LookupResult(k)' # Absent
  /\ LookupResult(k)' # Absent /\ LookupResult(k) = Absent =>
       ret' = Outcome("insert", k, "inserted")

LEMMA NextAnswerStep ==
  ASSUME AnswerInv, AnswerInv', ChainNext, NEW k \in Keys
  PROVE  AnswerStep(k)
<1> DEFINE d == home[k]
           f == first[d]
           g == first'[d]
           c == chain[d]
           x == chain'[d]
<1> USE ChainedAssumption
<1>1. /\ ChainTypeOK /\ ChainShape /\ AtMostOneShadow /\ FirstGiven
      /\ ChainTypeOK' /\ AtMostOneShadow' /\ FirstGiven'
  BY DEF AnswerInv, ChainedInv
<1>2. /\ d \in Directory /\ k # Sentinel
      /\ c \in Seq(Seq(Entries)) /\ x \in Seq(Seq(Entries))
  BY <1>1 DEF ChainTypeOK
<1>3. home' = home
  BY DEF ChainNext, InsertFirst, InsertChain, InsertExisting, Lookup, SentinelCall, Clear
<1>4. LookupResult(k) = Answer(f, c, k) /\ LookupResult(k)' = Answer(g, x, k)
  BY <1>3, LookupIsAnswer
<1>5. Alone(c, k) /\ Alone(x, k)
  <2>1. ChainPositions(d, k) = Positions(c, k)
    BY ChainedPositions
  <2>2. Positions(x, k) = Positions(chain'[home[k]], k)
    OBVIOUS
  <2>3. \A e \in Directory, q \in Keys : \A a, b \in ChainPositions(e, q)' : a = b
    BY <1>1 DEF AtMostOneShadow
  <2>4. \A e \in Directory, q \in Keys : \A a, b \in Positions(chain'[e], q) : a = b
    BY <2>3, ChainedPositions
  <2>5. \A a, b \in ChainPositions(d, k) : a = b
    BY <1>1, <1>2 DEF AtMostOneShadow
  <2>6. Alone(c, k)
    BY <2>1, <2>5 DEF Alone
  <2>7. Alone(x, k)
    BY <1>2, <2>4 DEF Alone
  <2> QED BY <2>6, <2>7
<1>6. /\ f.key # Sentinel => f.payload \in Payloads
      /\ c # <<>> => f.key # Sentinel
  BY <1>1, <1>2 DEF FirstGiven, ChainShape
<1> HIDE DEF d, f, g, c, x
<1>7. ASSUME UNCHANGED <<first, chain>>
      PROVE  LookupResult(k)' = LookupResult(k)
  BY <1>4, <1>7 DEF f, g, c, x
<1>8. ASSUME NEW q \in Keys, NEW p \in Payloads, InsertFirst(q, p)
      PROVE  AnswerStep(k)
  <2>1. /\ x = c /\ home[q] \in Directory /\ first[home[q]].key = Sentinel
        /\ ret' = Outcome("insert", q, "inserted")
    BY <1>1, <1>8 DEF InsertFirst, ChainTypeOK, Returns, c, x
  <2>2. g = IF d = home[q] THEN Entry(q, p) ELSE f
    BY <1>1, <1>2, <1>8 DEF InsertFirst, ChainTypeOK, f, g
  <2>3. CASE q = k
    <3>1. f.key = Sentinel /\ c = <<>>
      BY <1>6, <2>1, <2>3 DEF d, f
    <3>2. LookupResult(k) = Absent
      BY <1>2, <1>4, <3>1, EmptyChain, NothingAnswers
    <3>3. g.key = k /\ g.payload = p
      BY <2>2, <2>3 DEF Entry, d
    <3>4. LookupResult(k)' = p
      BY <1>4, <3>3, SlotAnswers
    <3> QED BY <2>1, <2>3, <3>2, <3>4 DEF AnswerStep, Outcome
  <2>4. CASE q # k
    <3>1. CASE d = home[q]
      <4>1. f.key # k /\ g.key # k
        BY <1>2, <2>1, <2>2, <2>4, <3>1 DEF Entry, f
      <4> QED BY <1>4, <2>1, <2>4, <4>1, OtherSlotSameAnswer DEF AnswerStep, Outcome
    <3>2. CASE d # home[q]
      BY <1>4, <2>1, <2>2, <2>4, <3>2 DEF AnswerStep, Outcome
    <3> QED BY <3>1, <3>2
  <2> QED BY <2>3, <2>4
<1>9. ASSUME NEW q \in Keys, NEW p \in Payloads, InsertChain(q, p)
      PROVE  AnswerStep(k)
  <2> DEFINE h == home[q]
             e == Entry(q, p)
  <2>1. /\ h \in Directory /\ g = f
        /\ chain[h] \in Seq(Seq(Entries)) /\ GoodChain(chain[h])
        /\ e \in Entries /\ e.key = q /\ e.payload = p
        /\ ret' = Outcome("insert", q, "inserted")
    BY <1>1, <1>9 DEF InsertChain, ChainTypeOK, ChainShape, GoodChain, Returns, Entry, Entries, f, g
  <2>2. /\ x = IF d = h THEN Extended(chain[h], e) ELSE c
        /\ ChainPositions(h, q) = {}
    BY <1>1, <1>2, <1>9 DEF InsertChain, InChain, ChainTypeOK, c, x
  <2> HIDE DEF e
  <2>3. CASE d # h
    <3>1. q # k
      BY <2>3 DEF d
    <3> QED BY <1>4, <2>1, <2>2, <2>3, <3>1 DEF AnswerStep, Outcome
  <2>4. CASE d = h
    <3>1. x = Extended(c, e) /\ GoodChain(c)
      BY <2>1, <2>2, <2>4 DEF c
    <3>2. PICK at : /\ x[at[1]][at[2]] = e
                    /\ \A r : Positions(x, r) =
                              Positions(c, r) \cup (IF e.key = r THEN {at} ELSE {})
      <4>1. \E at : /\ Extended(c, e)[at[1]][at[2]] = e
                    /\ \A r : Positions(Extended(c, e), r) =
                              Positions(c, r) \cup (IF e.key = r THEN {at} ELSE {})
        BY ZenonT(30), <1>2, <2>1, <3>1, ExtendedPlace
      <4> QED BY <3>1, <4>1
    <3>3. \A r : \A a \in Positions(c, r) : x[a[1]][a[2]] = c[a[1]][a[2]]
      <4>1. \A r : \A a \in Positions(c, r) : Extended(c, e)[a[1]][a[2]] = c[a[1]][a[2]]
        BY <1>2, <2>1, <3>1, ExtendedKeeps
      <4> QED BY <3>1, <4>1
    <3>4. CASE q # k
      <4>1. Positions(x, k) = Positions(c, k)
        BY <2>1, <3>2, <3>4
      <4>2. Answer(f, x, k) = Answer(f, c, k)
        BY <1>2, <1>5, <3>3, <4>1, SamePositionsSameAnswer
      <4> QED BY <1>4, <2>1, <3>4, <4>2 DEF AnswerStep, Outcome
    <3>5. CASE q = k
      <4>1. Positions(c, k) = {} /\ at \in Positions(x, k)
        BY <2>1, <2>2, <2>4, <3>2, <3>5, ChainedPositions DEF c
      <4>2. CASE f.key = k
        <5>1. Answer(f, c, k) = f.payload /\ Answer(f, x, k) = f.payload
          BY <4>2, SlotAnswers
        <5>2. f.payload \in Payloads
          BY <1>2, <1>6, <4>2
        <5> QED BY <1>4, <2>1, <3>5, <5>1, <5>2 DEF AnswerStep, Outcome
      <4>3. CASE f.key # k
        <5>1. Answer(f, c, k) = Absent
          BY <4>1, <4>3, NothingAnswers
        <5>2. Answer(f, x, k) = x[at[1]][at[2]].payload
          BY <1>2, <1>5, <4>1, <4>3, PositionAnswers
        <5>3. Answer(f, x, k) = p
          BY <2>1, <3>2, <5>2
        <5> QED BY <1>4, <2>1, <3>5, <5>1, <5>3 DEF AnswerStep, Outcome
      <4> QED BY <4>2, <4>3
    <3> QED BY <3>4, <3>5
  <2> QED BY <2>3, <2>4
<1>10. ASSUME NEW q \in Keys, InsertExisting(q)
       PROVE  AnswerStep(k)
  <2>1. /\ LookupResult(k)' = LookupResult(k)
        /\ ret' = Outcome("insert", q, "rejected")
    BY <1>7, <1>10 DEF InsertExisting, Returns
  <2>2. ASSUME q = k
        PROVE  LookupResult(k) # Absent
    <3>1. Positions(c, k) # {}
      BY <1>10, <2>2, ChainedPositions DEF InsertExisting, InChain, c, d
    <3>2. CASE f.key = k
      BY <1>2, <1>4, <1>6, <3>2, SlotAnswers
    <3>3. CASE f.key # k
      <4>1. PICK at \in Positions(c, k) : TRUE
        BY <3>1
      <4>2. /\ Answer(f, c, k) = c[at[1]][at[2]].payload
            /\ c[at[1]][at[2]].payload \in Payloads
        BY <1>2, <1>5, <3>3, <4>1, PositionAnswers
      <4> QED BY <1>4, <4>2
    <3> QED BY <3>2, <3>3
  <2> QED BY <2>1, <2>2 DEF AnswerStep, Outcome
<1>11. ASSUME NEW q \in Keys, Lookup(q)
       PROVE  AnswerStep(k)
  <2>1. LookupResult(k)' = LookupResult(k) /\ ret'.op = "lookup"
    BY <1>7, <1>11 DEF Lookup, Returns, Outcome
  <2> QED BY <2>1 DEF AnswerStep
<1>12. CASE SentinelCall
  <2>1. LookupResult(k)' = LookupResult(k) /\ ret'.key = Sentinel
    BY <1>7, <1>12 DEF SentinelCall, Returns, Outcome
  <2> QED BY <1>2, <2>1 DEF AnswerStep
<1>13. CASE Clear
  <2>1. /\ g.key = Sentinel /\ x = <<>> /\ ret'.op = "clear"
    BY <1>1, <1>2, <1>13 DEF Clear, ChainTypeOK, Returns, Outcome, g, x
  <2>2. LookupResult(k)' = Absent
    BY <1>2, <1>4, <2>1, EmptyChain, NothingAnswers
  <2> QED BY <2>1, <2>2 DEF AnswerStep
<1> QED BY <1>8, <1>9, <1>10, <1>11, <1>12, <1>13 DEF ChainNext

\* What lookup (chained.hpp) answers, over the life of a key: although insert
\* may store a key twice, the payload inserted first stays the answer until
\* clear, no insert of the key leaves it unfound, and no other call finds it.
THEOREM FirstInsertIsKept == ChainSpec => FirstInsertWins
<1>1. AnswerInv /\ AnswerInv' /\ [ChainNext]_chainVars => [\A k \in Keys : AnswerStep(k)]_chainVars
  BY NextAnswerStep
<1>2. [\A k \in Keys : AnswerStep(k)]_chainVars =>
      [\A k \in Keys :
         /\ LookupResult(k) # Absent /\ ret'.op # "clear" =>
              LookupResult(k)' = LookupResult(k)
         /\ ret'.op = "insert" /\ ret'.key = k => LookupResult(k)' # Absent
         /\ LookupResult(k)' # Absent /\ LookupResult(k) = Absent =>
              ret' = Outcome("insert", k, "inserted")]_chainVars
  BY DEF AnswerStep
<1> QED BY <1>1, <1>2, AlwaysAnswerInv, PTL DEF ChainSpec, FirstInsertWins
=============================================================================
