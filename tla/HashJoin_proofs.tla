--------------------------- MODULE HashJoin_proofs ---------------------------
(***************************************************************************)
(* The vector states of the IMV loops and the hash join, for any number of *)
(* lanes, states, threads, tuples, buckets and repetitions.  The residual  *)
(* state takes lanes and hands them on without losing or doubling one; a   *)
(* latch keeps its bucket for one thread; the barriers keep every build    *)
(* and probe on a table that has not been destroyed and on overflow        *)
(* buckets no one else has got; and no build writes a tuple to two slots.  *)
(***************************************************************************)
EXTENDS HashJoin, FiniteSetTheorems, TLAPS

-----------------------------------------------------------------------------
(* The lanes of a mask.                                                     *)

LEMMA MaskFinite ==
  ASSUME NEW m \in SUBSET Lanes
  PROVE  /\ IsFiniteSet(m) /\ Cardinality(m) \in 0 .. VectorScale
         /\ Cardinality(m) = VectorScale => m = Lanes
         /\ Cardinality(m) = 0 <=> m = {}
<1>1. IsFiniteSet(Lanes) /\ Cardinality(Lanes) = VectorScale
  BY LanesAssumption, FS_Interval DEF Lanes
<1>2. IsFiniteSet(m) /\ Cardinality(m) <= VectorScale /\ (Cardinality(m) = VectorScale => m = Lanes)
  BY <1>1, FS_Subset
<1> QED BY <1>2, LanesAssumption, FS_CardinalityType, FS_EmptySet

LEMMA LowLanesCount ==
  ASSUME NEW n \in 0 .. VectorScale
  PROVE  LowLanes(n) \in SUBSET Lanes /\ Cardinality(LowLanes(n)) = n
BY LanesAssumption, FS_Interval DEF LowLanes, Lanes

\* The rank grows with the lane, from 1 to the number of lanes.
LEMMA RankGrows ==
  ASSUME NEW m \in SUBSET Lanes, NEW i \in m
  PROVE  /\ Rank(m, i) \in 1 .. Cardinality(m)
         /\ \A j \in m : j < i => Rank(m, j) < Rank(m, i)
<1> DEFINE Below(j) == {a \in m : a <= j}
<1>1. \A j \in m : IsFiniteSet(Below(j)) /\ Cardinality(Below(j)) \in Nat
                   /\ Cardinality(Below(j)) <= Cardinality(m)
  <2> SUFFICES ASSUME NEW j \in m
               PROVE  IsFiniteSet(Below(j)) /\ Cardinality(Below(j)) \in Nat
                      /\ Cardinality(Below(j)) <= Cardinality(m)
    OBVIOUS
  <2>1. Below(j) \in SUBSET m
    OBVIOUS
  <2>2. IsFiniteSet(m)
    BY MaskFinite
  <2> HIDE DEF Below
  <2>3. IsFiniteSet(Below(j)) /\ Cardinality(Below(j)) <= Cardinality(m)
    BY <2>1, <2>2, FS_Subset
  <2> QED BY <2>3, FS_CardinalityType
<1>2. i \in Below(i)
  BY DEF Lanes
<1>3. Cardinality(Below(i)) # 0
  BY <1>1, <1>2, FS_EmptySet
<1>4. ASSUME NEW j \in m, j < i
      PROVE  Cardinality(Below(j)) < Cardinality(Below(i))
  <2>0. \A a \in m : a \in Int
    BY LanesAssumption DEF Lanes
  <2>1. Below(j) \in SUBSET Below(i) /\ i \notin Below(j)
    <3>1. \A a \in m : a <= j => a <= i
      BY <1>4, <2>0
    <3>2. ~(i <= j)
      BY <1>4, <2>0
    <3> QED BY <3>1, <3>2
  <2>2. Cardinality(Below(j)) <= Cardinality(Below(i)) /\ Cardinality(Below(j)) # Cardinality(Below(i))
    BY <1>1, <1>2, <2>1, FS_Subset
  <2> QED BY <1>1, <2>2
<1>5. Cardinality(m) \in Nat
  BY MaskFinite
<1> QED BY <1>1, <1>3, <1>4, <1>5 DEF Rank

\* Every number up to that of the lanes is the rank of one lane.
LEMMA RankReaches ==
  ASSUME NEW m \in SUBSET Lanes
  PROVE  /\ \A r \in 1 .. Cardinality(m) : \E i \in m : Rank(m, i) = r
         /\ \A i, j \in m : Rank(m, i) = Rank(m, j) => i = j
<1> DEFINE n == Cardinality(m)
           f == [i \in m |-> Rank(m, i)]
<1>1. IsFiniteSet(m) /\ n \in Nat /\ IsFiniteSet(1 .. n) /\ Cardinality(1 .. n) = n
  BY MaskFinite, FS_Interval
<1>2. \A i, j \in m : Rank(m, i) = Rank(m, j) => i = j
  <2> SUFFICES ASSUME NEW i \in m, NEW j \in m, i # j PROVE Rank(m, i) # Rank(m, j)
    OBVIOUS
  <2>1. i < j \/ j < i
    BY DEF Lanes
  <2>2. Rank(m, i) \in Nat /\ Rank(m, j) \in Nat
    BY RankGrows
  <2>3. Rank(m, i) < Rank(m, j) \/ Rank(m, j) < Rank(m, i)
    BY <2>1, RankGrows
  <2> QED BY <2>2, <2>3
<1>3. f \in [m -> 1 .. n]
  BY RankGrows
<1>4. f \in Injection(m, 1 .. n)
  BY <1>2, <1>3 DEF Injection, IsInjective
<1>5. f \in Surjection(m, 1 .. n)
  BY <1>1, <1>4, FS_Injection
<1>6. \A r \in 1 .. n : \E i \in m : f[i] = r
  BY <1>5 DEF Surjection
<1> QED BY <1>2, <1>6

\* The lane of a rank.
Nth(m, r) == CHOOSE i \in m : Rank(m, i) = r

LEMMA NthLane ==
  ASSUME NEW m \in SUBSET Lanes
  PROVE  /\ \A r \in 1 .. Cardinality(m) : Nth(m, r) \in m /\ Rank(m, Nth(m, r)) = r
         /\ \A i \in m : Nth(m, Rank(m, i)) = i
<1>1. \A r \in 1 .. Cardinality(m) : Nth(m, r) \in m /\ Rank(m, Nth(m, r)) = r
  BY RankReaches DEF Nth
<1>2. \A i \in m : Rank(m, i) \in 1 .. Cardinality(m)
  BY RankGrows
<1> QED BY <1>1, <1>2, RankReaches

\* In a mask of the lowest lanes each has its number for a rank.
LEMMA RankOfLow ==
  ASSUME NEW n \in 0 .. VectorScale, NEW i \in LowLanes(n)
  PROVE  Rank(LowLanes(n), i) = i
<1>1. {j \in LowLanes(n) : j <= i} = 1 .. i
  BY LanesAssumption DEF LowLanes
<1>2. i \in Nat /\ i >= 1
  BY LanesAssumption DEF LowLanes
<1>3. Cardinality(1 .. i) = i
  BY <1>2, FS_Interval
<1> QED BY <1>1, <1>3 DEF Rank

\* The other lanes have theirs from the first of them on.
LEMMA RankOfHigh ==
  ASSUME NEW n \in 0 .. VectorScale, NEW top \in n .. VectorScale,
         NEW i \in LowLanes(top) \ LowLanes(n)
  PROVE  Rank(LowLanes(top) \ LowLanes(n), i) = i - n
<1>1. {j \in LowLanes(top) \ LowLanes(n) : j <= i} = (n + 1) .. i
  BY LanesAssumption DEF LowLanes
<1>2. i \in Int /\ n + 1 \in Int /\ n + 1 <= i
  BY LanesAssumption DEF LowLanes
<1>3. Cardinality((n + 1) .. i) = i - (n + 1) + 1
  BY <1>2, FS_Interval
<1>4. i - (n + 1) + 1 = i - n
  BY <1>2, LanesAssumption
<1> QED BY <1>1, <1>3, <1>4 DEF Rank

\* Compress and Expand, lane by lane.
LEMMA CompressLane ==
  ASSUME NEW m \in SUBSET Lanes, NEW v, NEW i \in Lanes
  PROVE  Compress(m, v)[i] = IF i <= Cardinality(m) THEN v[Nth(m, i)] ELSE ZeroLane
BY DEF Compress, Nth

LEMMA LanesTyped ==
  ASSUME NEW V, ZeroLane \in V, NEW v \in [Lanes -> V], NEW old \in [Lanes -> V],
         NEW m \in SUBSET Lanes
  PROVE  Compress(m, v) \in [Lanes -> V] /\ Expand(old, m, v) \in [Lanes -> V]
<1>1. Cardinality(m) \in 0 .. VectorScale
  BY MaskFinite
<1>2. ASSUME NEW i \in Lanes PROVE Compress(m, v)[i] \in V
  <2>1. CASE i <= Cardinality(m)
    <3>1. i \in 1 .. Cardinality(m)
      BY <1>1, <2>1, LanesAssumption DEF Lanes
    <3>2. Nth(m, i) \in Lanes
      BY <3>1, NthLane
    <3> QED BY <2>1, <3>2, CompressLane
  <2>2. CASE ~(i <= Cardinality(m))
    BY <2>2, CompressLane
  <2> QED BY <2>1, <2>2
<1>3. ASSUME NEW i \in m PROVE Rank(m, i) \in Lanes
  BY <1>1, RankGrows, LanesAssumption DEF Lanes
<1>4. Compress(m, v) = [i \in Lanes |-> Compress(m, v)[i]]
  BY DEF Compress
<1>5. Compress(m, v) \in [Lanes -> V]
  BY <1>2, <1>4
<1>6. Expand(old, m, v) \in [Lanes -> V]
  BY <1>3 DEF Expand
<1> QED BY <1>5, <1>6

-----------------------------------------------------------------------------
(* The locals of the loop.                                                  *)

\* V are the values of a lane, C what a gather of pointers returns.
Stages == {"load", "model", "head", "chain", "done"}
States == 0 .. Residual
VectorStates(V) == [stage : Stages, have : SUBSET Lanes, lane : [Lanes -> V]]
Machines(V, C) ==
  [k : 0 .. (StateSize + 1), done : 0 .. StateSize, cur : Nat,
   op : {"turn", "gather", "scatter"}, left : SUBSET Lanes, chosen : SUBSET Lanes,
   next : [Lanes -> C], st : [States -> VectorStates(V)]]

\* The same without the types: the records the operations change by fields.
Fields == {"k", "done", "cur", "op", "left", "chosen", "next", "st"}
StateFields == {"stage", "have", "lane"}
Shape(m) ==
  /\ m = [f \in Fields |-> m[f]]
  /\ m.st = [s \in States |-> m.st[s]]
  /\ \A s \in States : m.st[s] = [f \in StateFields |-> m.st[s][f]]

Working4(r, m) ==
  r.op = m.op /\ r.left = m.left /\ r.chosen = m.chosen /\ r.next = m.next
SameLocals(r, m) == r.k = m.k /\ r.done = m.done /\ r.cur = m.cur /\ Working4(r, m)
SameOthers(r, m, S) == \A s \in States \ S : r.st[s] = m.st[s]

LEMMA ResidualIsState == Residual \in States /\ StateSize \in Nat \ {0}
BY StateAssumption DEF Residual, States

LEMMA MachineFields ==
  ASSUME NEW V, NEW C, NEW m \in Machines(V, C)
  PROVE  /\ m.k \in 0 .. (StateSize + 1) /\ m.done \in 0 .. StateSize /\ m.cur \in Nat
         /\ m.op \in {"turn", "gather", "scatter"}
         /\ m.left \in SUBSET Lanes /\ m.chosen \in SUBSET Lanes
         /\ m.next \in [Lanes -> C] /\ m.st \in [States -> VectorStates(V)]
BY DEF Machines

LEMMA StateTyped ==
  ASSUME NEW V, NEW C, NEW m \in Machines(V, C), NEW s \in States
  PROVE  /\ m.st[s].stage \in Stages /\ m.st[s].have \in SUBSET Lanes
         /\ m.st[s].lane \in [Lanes -> V]
<1>1. m.st[s] \in VectorStates(V)
  BY MachineFields
<1> QED BY <1>1 DEF VectorStates

LEMMA MachineShape ==
  ASSUME NEW V, NEW C, NEW m \in Machines(V, C)
  PROVE  Shape(m)
<1>1. m = [f \in Fields |-> m[f]]
  BY DEF Machines, Fields
<1>2. m.st \in [States -> VectorStates(V)]
  BY MachineFields
<1>3. \A s \in States : m.st[s] = [f \in StateFields |-> m.st[s][f]]
  BY <1>2 DEF VectorStates, StateFields
<1> QED BY <1>1, <1>2, <1>3 DEF Shape

LEMMA ShapeMachine ==
  ASSUME NEW V, NEW C, NEW m, Shape(m),
         m.k \in 0 .. (StateSize + 1), m.done \in 0 .. StateSize, m.cur \in Nat,
         m.op \in {"turn", "gather", "scatter"},
         m.left \in SUBSET Lanes, m.chosen \in SUBSET Lanes, m.next \in [Lanes -> C],
         \A s \in States : /\ m.st[s].stage \in Stages /\ m.st[s].have \in SUBSET Lanes
                           /\ m.st[s].lane \in [Lanes -> V]
  PROVE  m \in Machines(V, C)
<1>1. m.st \in [States -> VectorStates(V)]
  BY DEF Shape, VectorStates, StateFields
<1>2. m = [f \in Fields |-> m[f]]
  BY DEF Shape
<1> QED BY <1>1, <1>2 DEF Machines, Fields

\* A vector state replaced, one field of it, or the index of the state.
StatePut(m, s, a, b, c) == [m EXCEPT !.st[s] = [stage |-> a, have |-> b, lane |-> c]]
StagePut(m, s, x) == [m EXCEPT !.st[s].stage = x]
HavePut(m, s, x) == [m EXCEPT !.st[s].have = x]
LanePut(m, s, x) == [m EXCEPT !.st[s].lane = x]
IndexPut(m, x) == [m EXCEPT !.k = x]

\* r is m with another state s, or another index.
StateIs(r, m, s, a, b, c) ==
  /\ Shape(r) /\ SameLocals(r, m) /\ SameOthers(r, m, {s})
  /\ r.st[s].stage = a /\ r.st[s].have = b /\ r.st[s].lane = c
IndexIs(r, m, k) ==
  /\ Shape(r) /\ r.k = k /\ r.done = m.done /\ r.cur = m.cur /\ Working4(r, m)
  /\ r.st = m.st

LEMMA StateSet ==
  ASSUME NEW m, Shape(m), NEW s \in States, NEW a, NEW b, NEW c
  PROVE  StateIs(StatePut(m, s, a, b, c), m, s, a, b, c)
BY DEF StateIs, StatePut, Shape, Fields, StateFields, SameLocals, SameOthers, Working4

LEMMA StageSet ==
  ASSUME NEW m, Shape(m), NEW s \in States, NEW x
  PROVE  StateIs(StagePut(m, s, x), m, s, x, m.st[s].have, m.st[s].lane)
<1>0. PICK r : r = StagePut(m, s, x)
  OBVIOUS
<1>1. PICK p : p = m.st[s]
  OBVIOUS
<1>2. PICK q : q = [p EXCEPT !.stage = x]
  OBVIOUS
<1>3. /\ r = [g \in Fields |-> r[g]] /\ SameLocals(r, m)
      /\ r.st = [m.st EXCEPT ![s] = q]
  BY <1>0, <1>1, <1>2 DEF StagePut, Shape, Fields, SameLocals, Working4
<1>4. /\ r.st = [n \in States |-> r.st[n]] /\ SameOthers(r, m, {s}) /\ r.st[s] = q
  BY <1>3 DEF Shape, SameOthers
<1>5. q = [g \in StateFields |-> q[g]] /\ q.stage = x /\ q.have = p.have /\ q.lane = p.lane
  <2>1. p = [g \in StateFields |-> p[g]]
    BY <1>1 DEF Shape
  <2> QED BY <1>2, <2>1 DEF StateFields
<1>6. \A n \in States : r.st[n] = [g \in StateFields |-> r.st[n][g]]
  BY <1>4, <1>5 DEF Shape, SameOthers
<1> QED BY <1>0, <1>1, <1>3, <1>4, <1>5, <1>6 DEF Shape, StateIs

LEMMA HaveSet ==
  ASSUME NEW m, Shape(m), NEW s \in States, NEW x
  PROVE  StateIs(HavePut(m, s, x), m, s, m.st[s].stage, x, m.st[s].lane)
<1>0. PICK r : r = HavePut(m, s, x)
  OBVIOUS
<1>1. PICK p : p = m.st[s]
  OBVIOUS
<1>2. PICK q : q = [p EXCEPT !.have = x]
  OBVIOUS
<1>3. /\ r = [g \in Fields |-> r[g]] /\ SameLocals(r, m)
      /\ r.st = [m.st EXCEPT ![s] = q]
  BY <1>0, <1>1, <1>2 DEF HavePut, Shape, Fields, SameLocals, Working4
<1>4. /\ r.st = [n \in States |-> r.st[n]] /\ SameOthers(r, m, {s}) /\ r.st[s] = q
  BY <1>3 DEF Shape, SameOthers
<1>5. q = [g \in StateFields |-> q[g]] /\ q.have = x /\ q.stage = p.stage /\ q.lane = p.lane
  <2>1. p = [g \in StateFields |-> p[g]]
    BY <1>1 DEF Shape
  <2> QED BY <1>2, <2>1 DEF StateFields
<1>6. \A n \in States : r.st[n] = [g \in StateFields |-> r.st[n][g]]
  BY <1>4, <1>5 DEF Shape, SameOthers
<1> QED BY <1>0, <1>1, <1>3, <1>4, <1>5, <1>6 DEF Shape, StateIs

LEMMA LaneSet ==
  ASSUME NEW m, Shape(m), NEW s \in States, NEW x
  PROVE  StateIs(LanePut(m, s, x), m, s, m.st[s].stage, m.st[s].have, x)
<1>0. PICK r : r = LanePut(m, s, x)
  OBVIOUS
<1>1. PICK p : p = m.st[s]
  OBVIOUS
<1>2. PICK q : q = [p EXCEPT !.lane = x]
  OBVIOUS
<1>3. /\ r = [g \in Fields |-> r[g]] /\ SameLocals(r, m)
      /\ r.st = [m.st EXCEPT ![s] = q]
  BY <1>0, <1>1, <1>2 DEF LanePut, Shape, Fields, SameLocals, Working4
<1>4. /\ r.st = [n \in States |-> r.st[n]] /\ SameOthers(r, m, {s}) /\ r.st[s] = q
  BY <1>3 DEF Shape, SameOthers
<1>5. q = [g \in StateFields |-> q[g]] /\ q.lane = x /\ q.stage = p.stage /\ q.have = p.have
  <2>1. p = [g \in StateFields |-> p[g]]
    BY <1>1 DEF Shape
  <2> QED BY <1>2, <2>1 DEF StateFields
<1>6. \A n \in States : r.st[n] = [g \in StateFields |-> r.st[n][g]]
  BY <1>4, <1>5 DEF Shape, SameOthers
<1> QED BY <1>0, <1>1, <1>3, <1>4, <1>5, <1>6 DEF Shape, StateIs

LEMMA IndexSet ==
  ASSUME NEW m, Shape(m), NEW x
  PROVE  IndexIs(IndexPut(m, x), m, x)
BY DEF IndexIs, IndexPut, Shape, Fields, Working4

-----------------------------------------------------------------------------
(* What the loop keeps true of its locals: done counts the states that are  *)
(* done, a state without work has no lanes, and as long as lanes are merged *)
(* the residual state has them lowest first.                                *)
DoneStates(m) == {s \in States \ {Residual} : m.st[s].stage = "done"}

\* A gather or scatter works on a state that has lanes in a stage of its own;
\* it is the residual one exactly when all others are done.
AtWork(m) ==
  /\ m.k \in States /\ m.st[m.k].stage \in {"head", "chain"}
  /\ m.k = Residual <=> m.done = StateSize

\* The residual state is worked on in the stage of the chains, whatever its
\* own stage says.
Level(m, s) == IF s = Residual THEN "chain" ELSE m.st[s].stage
SameStages(r, m) == \A s \in States \ {Residual} : r.st[s].stage = m.st[s].stage

MachineInv(V, C, m) ==
  /\ m \in Machines(V, C)
  /\ m.done = Cardinality(DoneStates(m))
  /\ \A s \in States \ {Residual} : m.st[s].stage \in {"load", "done"} => m.st[s].have = {}
  /\ m.st[Residual].stage \in {"load", "chain"}
  /\ m.done < StateSize => m.st[Residual].have = LowLanes(Cardinality(m.st[Residual].have))
  /\ m.op # "turn" => AtWork(m)

LEMMA DoneStatesCount ==
  ASSUME NEW m
  PROVE  /\ IsFiniteSet(DoneStates(m)) /\ Cardinality(DoneStates(m)) \in 0 .. StateSize
         /\ Cardinality(DoneStates(m)) = StateSize <=> DoneStates(m) = States \ {Residual}
<1>1. States \ {Residual} = 0 .. (StateSize - 1)
  BY StateAssumption DEF States, Residual
<1>2. IsFiniteSet(States \ {Residual}) /\ Cardinality(States \ {Residual}) = StateSize
  <2>1. PICK n \in Nat : n = StateSize
    BY StateAssumption
  <2>2. IsFiniteSet(0 .. (n - 1)) /\ Cardinality(0 .. (n - 1)) = n
    BY FS_Interval
  <2> QED BY <1>1, <2>1, <2>2
<1>3. DoneStates(m) \in SUBSET (States \ {Residual})
  BY DEF DoneStates
<1>4. /\ IsFiniteSet(DoneStates(m)) /\ Cardinality(DoneStates(m)) <= StateSize
      /\ Cardinality(DoneStates(m)) = StateSize => DoneStates(m) = States \ {Residual}
  BY <1>2, <1>3, FS_Subset
<1> QED BY SMTT(30), <1>2, <1>4, StateAssumption, FS_CardinalityType

LEMMA StartMachineInv ==
  ASSUME NEW V, NEW C, ZeroLane \in V, << >> \in C
  PROVE  MachineInv(V, C, ImvStart)
<1>1. ImvStart \in Machines(V, C)
  BY StateAssumption DEF ImvStart, Machines, VectorStates, Stages, States, Residual
<1>2. /\ ImvStart.done = 0 /\ ImvStart.op = "turn"
      /\ \A s \in States : ImvStart.st[s].stage = "load" /\ ImvStart.st[s].have = {}
  BY DEF ImvStart, States
<1>3. DoneStates(ImvStart) = {}
  BY <1>2 DEF DoneStates
<1>4. {} = LowLanes(0) /\ Cardinality({}) = 0
  BY FS_EmptySet DEF LowLanes
<1> QED BY <1>1, <1>2, <1>3, <1>4, ResidualIsState DEF MachineInv

\* The state whose turn it is.
LEMMA RotatedIsState ==
  ASSUME NEW V, NEW C, NEW m \in Machines(V, C)
  PROVE  Rotated(m) \in States \ {Residual} /\ Rotated(m) + 1 \in 0 .. (StateSize + 1)
BY MachineFields, StateAssumption DEF Rotated, States, Residual

LEMMA RetireIs ==
  ASSUME NEW V, NEW C, NEW m \in Machines(V, C), NEW r, r = Retire(m)
  PROVE  /\ Shape(r) /\ r.k = Rotated(m) + 1 /\ r.done = m.done + 1 /\ r.cur = m.cur
         /\ Working4(r, m) /\ SameOthers(r, m, {Rotated(m)})
         /\ r.st[Rotated(m)].stage = "done" /\ r.st[Rotated(m)].have = m.st[Rotated(m)].have
         /\ r.st[Rotated(m)].lane = m.st[Rotated(m)].lane
<1>0. Shape(m) /\ Rotated(m) \in States
  BY MachineShape, RotatedIsState
<1>1. PICK s : s = Rotated(m)
  OBVIOUS
<1>2. PICK a : a = [[m EXCEPT !.done = m.done + 1] EXCEPT !.k = s + 1]
  OBVIOUS
<1>3. /\ Shape(a) /\ a.k = s + 1 /\ a.done = m.done + 1 /\ a.cur = m.cur /\ a.st = m.st
      /\ Working4(a, m)
  BY <1>0, <1>2 DEF Shape, Fields, Working4
<1>4. r = StagePut(a, s, "done")
  BY <1>1, <1>2 DEF Retire, StagePut
<1>5. s \in States /\ Shape(a)
  BY <1>0, <1>1, <1>3
<1>6. StateIs(r, a, s, "done", a.st[s].have, a.st[s].lane)
  BY <1>4, <1>5, StageSet
<1> QED BY <1>1, <1>3, <1>6 DEF StateIs, SameLocals, SameOthers, Working4

LEMMA RetireMachineInv ==
  ASSUME NEW V, NEW C, NEW m, MachineInv(V, C, m), m.op = "turn", NEW n, Retiring(m, n)
  PROVE  MachineInv(V, C, Retire(m))
<1> DEFINE s == Rotated(m)
<1>1. PICK r : r = Retire(m)
  OBVIOUS
<1>0. m \in Machines(V, C) /\ s \in States \ {Residual} /\ m.st[s].have = {} /\ m.st[s].stage # "done"
  BY RotatedIsState DEF MachineInv, Retiring
<1>2. /\ Shape(r) /\ r.k = s + 1 /\ r.done = m.done + 1 /\ r.cur = m.cur
      /\ Working4(r, m) /\ SameOthers(r, m, {s})
      /\ r.st[s].stage = "done" /\ r.st[s].have = {} /\ r.st[s].lane = m.st[s].lane
  BY <1>0, <1>1, RetireIs
<1> HIDE DEF s
<1>3. DoneStates(r) = DoneStates(m) \cup {s} /\ s \notin DoneStates(m)
  BY <1>0, <1>2 DEF DoneStates, SameOthers
<1>4. Cardinality(DoneStates(r)) = m.done + 1
  BY ZenonT(30), <1>3, DoneStatesCount, FS_AddElement DEF MachineInv
<1>5. m.done + 1 \in 0 .. StateSize
  BY <1>4, DoneStatesCount
<1>6. r \in Machines(V, C)
  <2>1. \A q \in States : /\ r.st[q].stage \in Stages /\ r.st[q].have \in SUBSET Lanes
                          /\ r.st[q].lane \in [Lanes -> V]
    BY <1>0, <1>2, StateTyped DEF SameOthers, Stages
  <2> QED BY <1>0, <1>2, <1>5, <2>1, MachineFields, RotatedIsState, ShapeMachine DEF Working4, s
<1>7. r.st[Residual] = m.st[Residual]
  BY <1>0, <1>2, ResidualIsState DEF SameOthers
<1>8. \A q \in States \ {Residual} : r.st[q].stage \in {"load", "done"} => r.st[q].have = {}
  BY <1>2 DEF MachineInv, SameOthers
<1>9. r.done < StateSize => m.done < StateSize
  BY <1>2, <1>5, <1>0, MachineFields, StateAssumption
<1> QED BY <1>1, <1>2, <1>4, <1>6, <1>7, <1>8, <1>9 DEF MachineInv, Working4

\* The registers of a gather or scatter, and a change that leaves the number
\* of lanes and of done states alone.
Registers(C, m) ==
  /\ m.op \in {"turn", "gather", "scatter"}
  /\ m.left \in SUBSET Lanes /\ m.chosen \in SUBSET Lanes /\ m.next \in [Lanes -> C]
Middle == {"model", "head", "chain"}
Steady(V, r, m) ==
  /\ r.done = m.done
  /\ \A s \in States : r.st[s].have = m.st[s].have /\ r.st[s].lane \in [Lanes -> V]
  /\ \A s \in States \ {Residual} :
       r.st[s].stage = m.st[s].stage \/ (r.st[s].stage \in Middle /\ m.st[s].stage \in Middle)
  /\ r.st[Residual].stage \in {"load", "chain"}

LEMMA SteadyMachineInv ==
  ASSUME NEW V, NEW C, NEW m, MachineInv(V, C, m), NEW r, Shape(r), Steady(V, r, m),
         Registers(C, r), r.k \in 0 .. (StateSize + 1), r.cur \in Nat,
         r.op # "turn" => AtWork(r)
  PROVE  MachineInv(V, C, r)
<1>0. /\ m \in Machines(V, C) /\ m.done \in 0 .. StateSize /\ Residual \in States
  BY ResidualIsState, MachineFields DEF MachineInv
<1>1. \A s \in States : /\ r.st[s].stage \in Stages /\ r.st[s].have \in SUBSET Lanes
                        /\ r.st[s].lane \in [Lanes -> V]
  <2> SUFFICES ASSUME NEW s \in States
               PROVE  /\ r.st[s].stage \in Stages /\ r.st[s].have \in SUBSET Lanes
                      /\ r.st[s].lane \in [Lanes -> V]
    OBVIOUS
  <2>1. /\ m.st[s].stage \in Stages /\ m.st[s].have \in SUBSET Lanes
    BY <1>0, StateTyped
  <2> QED BY <2>1 DEF Steady, Stages, Middle
<1>2. r \in Machines(V, C)
  <2>1. r.done \in 0 .. StateSize
    BY <1>0 DEF Steady
  <2> QED BY <1>1, <2>1, ShapeMachine DEF Registers
<1>3. DoneStates(r) = DoneStates(m)
  BY DEF DoneStates, Steady, Middle
<1>4. \A s \in States \ {Residual} : r.st[s].stage \in {"load", "done"} => r.st[s].have = {}
  BY DEF MachineInv, Steady, Middle
<1>5. r.done < StateSize => r.st[Residual].have = LowLanes(Cardinality(r.st[Residual].have))
  BY <1>0 DEF MachineInv, Steady
<1> QED BY <1>2, <1>3, <1>4, <1>5 DEF MachineInv, Steady

\* The state whose turn it is has not retired; it is the residual one only
\* when the others have.
LEMMA TurnMachineInv ==
  ASSUME NEW V, NEW C, NEW m, MachineInv(V, C, m), m.op = "turn", NEW n, ~Retiring(m, n),
         NEW w, w = Turn(m, n, "chain")
  PROVE  /\ MachineInv(V, C, w) /\ Working4(w, m) /\ w.cur = m.cur /\ w.done = m.done
         /\ \A s \in States : w.st[s].have = m.st[s].have /\ w.st[s].lane = m.st[s].lane
         /\ w.k \in States /\ SameStages(w, m)
         /\ w.k = Residual => w.done = StateSize /\ w.st[Residual].stage = "chain"
<1>0. /\ m \in Machines(V, C) /\ Shape(m) /\ Residual \in States
      /\ m.done \in 0 .. StateSize /\ StateSize \in Nat /\ m.cur \in Nat
      /\ Rotated(m) \in States /\ Rotated(m) # Residual
  BY MachineShape, ResidualIsState, MachineFields, RotatedIsState DEF MachineInv
<1> DEFINE Kept(r) ==
      /\ Shape(r) /\ r.done = m.done /\ r.cur = m.cur /\ Working4(r, m)
      /\ \A s \in States : r.st[s].have = m.st[s].have /\ r.st[s].lane = m.st[s].lane
      /\ \A s \in States \ {Residual} : r.st[s].stage = m.st[s].stage
      /\ r.st[Residual].stage \in {m.st[Residual].stage, "chain"}
      /\ r.k \in States
      /\ r.k = Residual => r.done = StateSize /\ r.st[Residual].stage = "chain"
<1>1. ASSUME OnlyResidual(m, n) PROVE Kept(w)
  <2>1. PICK a : a = IndexPut(m, Residual)
    OBVIOUS
  <2>2. IndexIs(a, m, Residual)
    BY <1>0, <2>1, IndexSet
  <2>a. Residual \in States /\ Shape(a)
    BY <1>0, <2>2 DEF IndexIs
  <2>3. w = StagePut(a, Residual, "chain")
    BY <1>1, <2>1 DEF Turn, IndexPut, StagePut
  <2>4. StateIs(w, a, Residual, "chain", a.st[Residual].have, a.st[Residual].lane)
    BY <2>a, <2>3, StageSet
  <2>5. w.k = Residual /\ w.done = StateSize
    BY <1>0, <1>1, <2>2, <2>4 DEF StateIs, IndexIs, SameLocals, OnlyResidual
  <2> QED BY <1>0, <2>2, <2>4, <2>5 DEF StateIs, IndexIs, SameLocals, SameOthers, Working4
<1>2. ASSUME ~OnlyResidual(m, n) PROVE Kept(w)
  <2>1. w = IndexPut(m, Rotated(m))
    BY <1>2 DEF Turn, IndexPut
  <2>2. IndexIs(w, m, Rotated(m))
    BY <1>0, <2>1, IndexSet
  <2> QED BY <1>0, <2>2 DEF IndexIs
<1>3. Kept(w)
  BY <1>1, <1>2
<1>4. w.k \in 0 .. (StateSize + 1)
  BY <1>0, <1>3 DEF States, Residual
<1>5. Registers(C, w) /\ w.op = "turn"
  BY <1>0, <1>3, MachineFields DEF Registers, Working4
<1>6. Steady(V, w, m)
  <2>1. \A s \in States : m.st[s].lane \in [Lanes -> V]
    BY <1>0, StateTyped
  <2> QED BY <1>3, <2>1 DEF Steady, MachineInv
<1>7. MachineInv(V, C, w)
  BY <1>0, <1>3, <1>4, <1>5, <1>6, SteadyMachineInv
<1> QED BY <1>3, <1>7 DEF SameStages

\* A gather needs a state with work for the table.
LEMMA TurnAtWork ==
  ASSUME NEW V, NEW C, NEW w, MachineInv(V, C, w), w.k \in States,
         w.k = Residual => w.done = StateSize, w.st[w.k].stage \in {"head", "chain"}
  PROVE  AtWork(w)
<1>1. w.k # Residual => w.k \notin DoneStates(w)
  BY DEF DoneStates
<1>2. w.k # Residual => w.done # StateSize
  BY <1>1, DoneStatesCount DEF MachineInv
<1> QED BY <1>2 DEF AtWork

\* case 1 puts the next tuples into a state without lanes.
Loads(r, w, n, lanes) ==
  /\ SameOthers(r, w, {w.k}) /\ r.cur = w.cur + VectorScale
  /\ r.st[w.k].have = {i \in Lanes : w.cur + i <= n}
  /\ \A i \in r.st[w.k].have : w.cur + i \in 1 .. n /\ r.st[w.k].lane[i] = lanes[w.cur + i]

LEMMA LoadMachineInv ==
  ASSUME NEW V, NEW C, NEW w, MachineInv(V, C, w), w.op = "turn",
         w.k \in States \ {Residual}, w.st[w.k].stage = "load",
         NEW n \in Nat, NEW lanes \in [1 .. n -> V], NEW stage \in {"model", "head"},
         NEW r, r = Load(w, n, lanes, stage)
  PROVE  /\ MachineInv(V, C, r) /\ Working4(r, w) /\ Loads(r, w, n, lanes)
         /\ r.st[w.k].stage = stage
<1>0. /\ w \in Machines(V, C) /\ Shape(w) /\ w.k \in States /\ Residual \in States
      /\ w.cur \in Nat /\ w.done \in 0 .. StateSize /\ w.k + 1 \in 0 .. (StateSize + 1)
  <2>1. w \in Machines(V, C)
    BY DEF MachineInv
  <2>2. w.k + 1 \in 0 .. (StateSize + 1)
    BY StateAssumption DEF States, Residual
  <2> QED BY <2>1, <2>2, MachineShape, ResidualIsState, MachineFields
<1> DEFINE have == {i \in Lanes : w.cur + i <= n}
           New == [i \in Lanes |-> IF i \in have THEN lanes[w.cur + i] ELSE w.st[w.k].lane[i]]
<1>1. PICK s : s = w.k
  OBVIOUS
<1>2. PICK a : a = [w EXCEPT !.cur = w.cur + VectorScale]
  OBVIOUS
<1>3. /\ Shape(a) /\ a.k = w.k /\ a.done = w.done /\ a.cur = w.cur + VectorScale
      /\ Working4(a, w) /\ a.st = w.st
  BY <1>0, <1>2 DEF Shape, Fields, Working4
<1>4. PICK b : b = IndexPut(a, s + 1)
  OBVIOUS
<1>5. IndexIs(b, a, s + 1)
  BY <1>3, <1>4, IndexSet
<1>6. r = StatePut(b, s, stage, have, New)
  BY <1>1, <1>2, <1>4 DEF Load, StatePut, IndexPut
<1>7. /\ \A i \in have : w.cur + i \in 1 .. n /\ New[i] = lanes[w.cur + i]
      /\ have \in SUBSET Lanes /\ New \in [Lanes -> V]
  <2>1. ASSUME NEW i \in have PROVE w.cur + i \in 1 .. n /\ New[i] = lanes[w.cur + i]
    BY <1>0, LanesAssumption DEF Lanes
  <2>2. w.st[w.k].lane \in [Lanes -> V]
    BY <1>0, StateTyped
  <2> QED BY <2>1, <2>2
<1> HIDE DEF have, New
<1>8. StateIs(r, b, s, stage, have, New)
  <2>1. s \in States /\ Shape(b)
    BY <1>0, <1>1, <1>5 DEF IndexIs
  <2> QED BY <2>1, <1>6, StateSet
<1>9. /\ r.k = w.k + 1 /\ r.done = w.done /\ r.cur = w.cur + VectorScale /\ Working4(r, w)
      /\ SameOthers(r, w, {w.k})
  BY <1>1, <1>3, <1>5, <1>8 DEF StateIs, IndexIs, SameLocals, SameOthers, Working4
<1>10. w.cur + VectorScale \in Nat
  BY <1>0, LanesAssumption
<1>11. \A q \in States : /\ r.st[q].stage \in Stages /\ r.st[q].have \in SUBSET Lanes
                         /\ r.st[q].lane \in [Lanes -> V]
  BY <1>0, <1>1, <1>7, <1>8, <1>9, StateTyped DEF StateIs, SameOthers, Stages
<1>12. r \in Machines(V, C)
  BY <1>0, <1>8, <1>9, <1>10, <1>11, MachineFields, ShapeMachine DEF StateIs, Working4
<1>13. DoneStates(r) = DoneStates(w)
  BY <1>1, <1>8, <1>9 DEF StateIs, DoneStates, SameOthers
<1>14. r.st[Residual] = w.st[Residual]
  BY <1>0, <1>9 DEF SameOthers
<1>15. \A q \in States \ {Residual} : r.st[q].stage \in {"load", "done"} => r.st[q].have = {}
  BY <1>1, <1>8, <1>9 DEF StateIs, MachineInv, SameOthers
<1>16. MachineInv(V, C, r)
  BY <1>9, <1>12, <1>13, <1>14, <1>15 DEF MachineInv, Working4
<1>17. Loads(r, w, n, lanes)
  BY <1>1, <1>7, <1>8, <1>9 DEF StateIs, Loads, have
<1>18. r.st[w.k].stage = stage
  BY <1>1, <1>8 DEF StateIs
<1> QED BY <1>9, <1>16, <1>17, <1>18

-----------------------------------------------------------------------------
(* The end of a case.                                                       *)

\* What a case leaves in the state it worked on and in the residual one.
Keeps(r, m, have, stage) ==
  /\ SameOthers(r, m, {m.k})
  /\ r.st[m.k].have = have /\ r.st[m.k].lane = m.st[m.k].lane
  /\ r.st[m.k].stage = stage
Collects(r, m, have) ==
  LET moved == Compress(have, m.st[m.k].lane)
      temp == m.st[Residual]
  IN  /\ SameOthers(r, m, {m.k, Residual})
      /\ r.st[m.k].stage = "load" /\ r.st[m.k].have = {} /\ r.st[m.k].lane = moved
      /\ r.st[Residual].stage = temp.stage
      /\ r.st[Residual].have = LowLanes(Cardinality(have) + Cardinality(temp.have))
      /\ r.st[Residual].lane = Expand(temp.lane, Lanes \ temp.have, moved)
Fills(r, m, have, stage) ==
  LET temp == m.st[Residual]
      free == VectorScale - Cardinality(have)
      rest == temp.have \ LowLanes(free)
  IN  /\ SameOthers(r, m, {m.k, Residual})
      /\ r.st[m.k].stage = stage /\ r.st[m.k].have = Lanes
      /\ r.st[m.k].lane = Expand(m.st[m.k].lane, Lanes \ have, temp.lane)
      /\ r.st[Residual].stage = temp.stage /\ r.st[Residual].have = ShiftDown(rest, free)
      /\ r.st[Residual].lane = Compress(rest, temp.lane)

LEMMA CollectIs ==
  ASSUME NEW m, Shape(m), m.k \in States \ {Residual}, NEW have
  PROVE  /\ Shape(Collect(m, have)) /\ SameLocals(Collect(m, have), m)
         /\ Collects(Collect(m, have), m, have)
<1>1. PICK r, s, temp, moved :
        /\ r = Collect(m, have) /\ s = m.k /\ temp = m.st[Residual]
        /\ moved = Compress(have, m.st[m.k].lane)
  OBVIOUS
<1>2. PICK h, l, none : /\ h = LowLanes(Cardinality(have) + Cardinality(temp.have))
                        /\ l = Expand(temp.lane, Lanes \ temp.have, moved)
                        /\ none = {}
  OBVIOUS
<1>3. s \in States /\ s # Residual
  BY <1>1
<1>4. Residual \in States
  BY ResidualIsState
<1>5. PICK a : a = LanePut(m, Residual, l)
  OBVIOUS
<1>6. StateIs(a, m, Residual, m.st[Residual].stage, m.st[Residual].have, l)
  BY <1>4, <1>5, LaneSet
<1>7. Shape(a)
  BY <1>6 DEF StateIs
<1>8. PICK b : b = HavePut(a, Residual, h)
  OBVIOUS
<1>9. StateIs(b, a, Residual, a.st[Residual].stage, h, a.st[Residual].lane)
  BY <1>4, <1>7, <1>8, HaveSet
<1>10. Shape(b) /\ s \in States
  BY <1>3, <1>9 DEF StateIs
<1>11. r = StatePut(b, s, "load", none, moved)
  BY <1>1, <1>2, <1>5, <1>8 DEF Collect, LanePut, HavePut, StatePut
<1>12. StateIs(r, b, s, "load", none, moved)
  BY <1>10, <1>11, StateSet
<1>13. Shape(r) /\ SameLocals(r, m) /\ SameOthers(r, m, {m.k, Residual})
  BY <1>1, <1>6, <1>9, <1>12 DEF StateIs, SameLocals, SameOthers, Working4
<1>14. r.st[Residual] = b.st[Residual]
  BY <1>3, <1>4, <1>12 DEF StateIs, SameOthers
<1>15. Collects(r, m, have)
  BY <1>1, <1>2, <1>6, <1>9, <1>12, <1>13, <1>14 DEF StateIs, Collects
<1> QED BY <1>1, <1>13, <1>15

LEMMA FillIs ==
  ASSUME NEW m, Shape(m), m.k \in States \ {Residual}, NEW have, NEW stage
  PROVE  /\ Shape(Fill(m, have, stage)) /\ SameLocals(Fill(m, have, stage), m)
         /\ Fills(Fill(m, have, stage), m, have, stage)
<1>1. PICK r, s, temp, free :
        /\ r = Fill(m, have, stage) /\ s = m.k /\ temp = m.st[Residual]
        /\ free = VectorScale - Cardinality(have)
  OBVIOUS
<1>2. PICK rest : rest = temp.have \ LowLanes(free)
  OBVIOUS
<1>3. PICK h, l, x : /\ h = ShiftDown(rest, free) /\ l = Compress(rest, temp.lane)
                     /\ x = Expand(m.st[m.k].lane, Lanes \ have, temp.lane)
  OBVIOUS
<1>4. s \in States /\ s # Residual
  BY <1>1
<1>5. Residual \in States
  BY ResidualIsState
<1>6. PICK a : a = StatePut(m, s, stage, Lanes, x)
  OBVIOUS
<1>7. StateIs(a, m, s, stage, Lanes, x)
  BY <1>4, <1>6, StateSet
<1>8. Shape(a)
  BY <1>7 DEF StateIs
<1>9. PICK b : b = HavePut(a, Residual, h)
  OBVIOUS
<1>10. StateIs(b, a, Residual, a.st[Residual].stage, h, a.st[Residual].lane)
  BY <1>5, <1>8, <1>9, HaveSet
<1>11. Shape(b)
  BY <1>10 DEF StateIs
<1>12. r = LanePut(b, Residual, l)
  BY <1>1, <1>2, <1>3, <1>6, <1>9 DEF Fill, LanePut, HavePut, StatePut
<1>13. StateIs(r, b, Residual, b.st[Residual].stage, b.st[Residual].have, l)
  BY <1>5, <1>11, <1>12, LaneSet
<1>14. Shape(r) /\ SameLocals(r, m) /\ SameOthers(r, m, {m.k, Residual})
  BY <1>1, <1>7, <1>10, <1>13 DEF StateIs, SameLocals, SameOthers, Working4
<1>15. r.st[s] = a.st[s] /\ a.st[Residual] = m.st[Residual]
  BY <1>4, <1>5, <1>7, <1>10, <1>13 DEF StateIs, SameOthers
<1>16. Fills(r, m, have, stage)
  BY <1>1, <1>2, <1>3, <1>7, <1>10, <1>13, <1>14, <1>15 DEF StateIs, Fills
<1> QED BY <1>1, <1>14, <1>16

\* With the lowest lanes of a mask given away the rest, shifted, are the lowest.
LEMMA ShiftedRest ==
  ASSUME NEW n \in 0 .. VectorScale, NEW free \in 0 .. n
  PROVE  ShiftDown(LowLanes(n) \ LowLanes(free), free) = LowLanes(n - free)
<1>1. ASSUME NEW i \in LowLanes(n - free)
      PROVE  i \in ShiftDown(LowLanes(n) \ LowLanes(free), free)
  <2>1. i + free \in LowLanes(n) \ LowLanes(free) /\ i + free > free /\ (i + free) - free = i
    BY LanesAssumption DEF LowLanes
  <2> QED BY <2>1 DEF ShiftDown
<1>2. ASSUME NEW i \in ShiftDown(LowLanes(n) \ LowLanes(free), free)
      PROVE  i \in LowLanes(n - free)
  <2>1. PICK j \in LowLanes(n) \ LowLanes(free) : j > free /\ i = j - free
    BY DEF ShiftDown
  <2> QED BY <2>1, LanesAssumption DEF LowLanes
<1> QED BY <1>1, <1>2

\* A state kept at work, or put back for the next tuples.
KeepPut(m, have, stage, k) ==
  [m EXCEPT !.st[m.k].have = have, !.st[m.k].stage = stage, !.k = k]
KeepIs(r, m, have, stage, k) ==
  /\ Shape(r) /\ r.k = k /\ r.done = m.done /\ r.cur = m.cur /\ Working4(r, m)
  /\ Keeps(r, m, have, stage)

LEMMA KeepSet ==
  ASSUME NEW m, Shape(m), m.k \in States, NEW have, NEW stage, NEW k
  PROVE  KeepIs(KeepPut(m, have, stage, k), m, have, stage, k)
<1>1. PICK s \in States : s = m.k
  OBVIOUS
<1>2. PICK a : a = HavePut(m, s, have)
  OBVIOUS
<1>3. StateIs(a, m, s, m.st[s].stage, have, m.st[s].lane)
  BY <1>2, HaveSet
<1>4. Shape(a)
  BY <1>3 DEF StateIs
<1>5. PICK b : b = StagePut(a, s, stage)
  OBVIOUS
<1>6. StateIs(b, a, s, stage, a.st[s].have, a.st[s].lane)
  BY <1>4, <1>5, StageSet
<1>7. Shape(b)
  BY <1>6 DEF StateIs
<1>8. PICK r : r = IndexPut(b, k)
  OBVIOUS
<1>9. IndexIs(r, b, k)
  BY <1>7, <1>8, IndexSet
<1>10. r = KeepPut(m, have, stage, k)
  BY <1>1, <1>2, <1>5, <1>8 DEF KeepPut, HavePut, StagePut, IndexPut
<1>11. KeepIs(r, m, have, stage, k)
  BY <1>1, <1>3, <1>6, <1>9
     DEF StateIs, IndexIs, SameLocals, SameOthers, Working4, Keeps, KeepIs
<1> QED BY <1>10, <1>11

\* What Continue makes of the locals.
Continues(r, m, have, stage) ==
  \/ Keeps(r, m, have, stage) /\ (m.k # Residual => have = Lanes)
  \/ Keeps(r, m, have, "load") /\ have = {} /\ m.k # Residual
  \/ /\ Collects(r, m, have) /\ m.k # Residual
     /\ Cardinality(have) + Cardinality(m.st[Residual].have) < VectorScale
  \/ /\ Fills(r, m, have, stage) /\ m.k # Residual
     /\ VectorScale - Cardinality(have) <= Cardinality(m.st[Residual].have)

LEMMA ContinueIs ==
  ASSUME NEW V, NEW C, NEW m, MachineInv(V, C, m), AtWork(m),
         NEW have \in SUBSET m.st[m.k].have, NEW stage, NEW step \in {0, 1},
         NEW r, r = Continue(m, have, stage, step)
  PROVE  /\ Shape(r) /\ r.k \in {m.k, m.k + 1} /\ r.done = m.done /\ r.cur = m.cur
         /\ Working4(r, m) /\ Continues(r, m, have, stage)
<1>0. /\ m \in Machines(V, C) /\ m.k \in States /\ Residual \in States
      /\ m.done \in 0 .. StateSize /\ StateSize \in Nat
      /\ m.k = Residual <=> m.done = StateSize
      /\ m.k \in Int /\ m.k + 0 = m.k
  <2>1. m \in Machines(V, C) /\ m.k \in States
    BY DEF MachineInv, AtWork
  <2>2. m.k \in Int /\ m.k + 0 = m.k
    BY <2>1, StateAssumption DEF States
  <2> QED BY <2>1, <2>2, ResidualIsState, MachineFields DEF AtWork
<1>s. Shape(m)
  BY <1>0, MachineShape
<1>k. m.k \in States
  BY <1>0
<1> DEFINE num == Cardinality(have)
           num_temp == Cardinality(m.st[Residual].have)
<1>1. have \in SUBSET Lanes /\ m.st[Residual].have \in SUBSET Lanes
  BY <1>0, StateTyped
<1>2. /\ num \in 0 .. VectorScale /\ num_temp \in 0 .. VectorScale
      /\ num = VectorScale => have = Lanes
      /\ num = 0 => have = {}
  BY <1>1, MaskFinite
<1> HIDE DEF num, num_temp
<1>3. CASE num = VectorScale \/ m.done >= StateSize
  <2>1. r = KeepPut(m, have, stage, m.k + step)
    BY <1>3 DEF Continue, KeepPut, num
  <2>2. KeepIs(r, m, have, stage, m.k + step)
    BY <1>s, <1>k, <2>1, KeepSet
  <2>3. m.k # Residual => have = Lanes
    BY <1>0, <1>2, <1>3
  <2> QED BY <1>0, <2>2, <2>3 DEF KeepIs, Continues
<1>4. CASE ~(num = VectorScale \/ m.done >= StateSize) /\ num = 0
  <2>1. PICK none, load : none = {} /\ load = "load"
    OBVIOUS
  <2>2. r = [m EXCEPT !.st[m.k].have = none, !.st[m.k].stage = load]
    BY <1>4, <2>1 DEF Continue, num
  <2>3. PICK q : q = KeepPut(m, none, load, m.k)
    OBVIOUS
  <2>4. KeepIs(q, m, none, load, m.k)
    BY <1>s, <1>k, <2>3, KeepSet
  <2>5. q = r
    BY <2>2, <2>3, <1>s DEF KeepPut, Shape, Fields
  <2>6. m.k # Residual /\ have = {}
    BY <1>0, <1>2, <1>4
  <2> QED BY <2>1, <2>4, <2>5, <2>6 DEF KeepIs, Continues
<1>5. CASE ~(num = VectorScale \/ m.done >= StateSize) /\ num # 0 /\ num + num_temp < VectorScale
  <2>1. r = Collect(m, have)
    BY <1>5 DEF Continue, num, num_temp
  <2>2. m.k \in States \ {Residual}
    BY <1>0, <1>5
  <2>3. Shape(r) /\ SameLocals(r, m) /\ Collects(r, m, have)
    BY <1>s, <2>1, <2>2, CollectIs
  <2> QED BY <1>5, <2>2, <2>3 DEF Continues, SameLocals, num, num_temp
<1>6. CASE ~(num = VectorScale \/ m.done >= StateSize) /\ num # 0 /\ ~(num + num_temp < VectorScale)
  <2>1. PICK f : f = Fill(m, have, stage)
    OBVIOUS
  <2>2. m.k \in States \ {Residual}
    BY <1>0, <1>6
  <2>3. Shape(f) /\ SameLocals(f, m) /\ Fills(f, m, have, stage)
    BY <1>s, <2>1, <2>2, FillIs
  <2>4. r = IndexPut(f, f.k + step)
    BY <1>6, <2>1 DEF Continue, num, num_temp, IndexPut
  <2>5. Shape(f)
    BY <2>3
  <2>6. IndexIs(r, f, f.k + step)
    BY <2>4, <2>5, IndexSet
  <2>7. VectorScale - num <= num_temp
    BY <1>2, <1>6, LanesAssumption
  <2>8. Fills(r, m, have, stage)
    BY <2>3, <2>6 DEF IndexIs, Fills, SameOthers
  <2>9. r.k \in {m.k, m.k + 1} /\ r.done = m.done /\ r.cur = m.cur /\ Working4(r, m)
    BY <1>0, <2>3, <2>6 DEF IndexIs, SameLocals, Working4
  <2> QED BY <2>2, <2>6, <2>7, <2>8, <2>9 DEF IndexIs, Continues, num, num_temp
<1> QED BY <1>3, <1>4, <1>5, <1>6

LEMMA ContinueIndex ==
  ASSUME NEW k \in States
  PROVE  k \in 0 .. (StateSize + 1) /\ k + 1 \in 0 .. (StateSize + 1)
BY StateAssumption DEF States, Residual

\* The end of a case keeps what the loop keeps.
LEMMA ContinueMachineInv ==
  ASSUME NEW V, NEW C, ZeroLane \in V, NEW m, MachineInv(V, C, m), AtWork(m), m.op = "turn",
         NEW have \in SUBSET m.st[m.k].have, NEW step \in {0, 1},
         NEW r, r = Continue(m, have, "chain", step)
  PROVE  MachineInv(V, C, r) /\ Working4(r, m) /\ r.cur = m.cur
<1>1. /\ Shape(r) /\ r.k \in {m.k, m.k + 1} /\ r.done = m.done /\ r.cur = m.cur
      /\ Working4(r, m) /\ Continues(r, m, have, "chain")
  <2>1. PICK chain : chain = "chain"
    OBVIOUS
  <2>2. /\ Shape(r) /\ r.k \in {m.k, m.k + 1} /\ r.done = m.done /\ r.cur = m.cur
        /\ Working4(r, m) /\ Continues(r, m, have, chain)
    BY <2>1, ContinueIs
  <2> QED BY <2>1, <2>2
<1>0. /\ m \in Machines(V, C) /\ m.k \in States /\ Residual \in States
      /\ m.done \in 0 .. StateSize /\ StateSize \in Nat
      /\ m.k = Residual <=> m.done = StateSize
      /\ m.st[m.k].stage \in {"head", "chain"}
  BY ResidualIsState, MachineFields DEF MachineInv, AtWork
<1> DEFINE num == Cardinality(have)
           temp == m.st[Residual]
           nt == Cardinality(temp.have)
           free == VectorScale - num
           rest == temp.have \ LowLanes(free)
<1>2. /\ have \in SUBSET Lanes
      /\ \A s \in States : /\ m.st[s].stage \in Stages /\ m.st[s].have \in SUBSET Lanes
                           /\ m.st[s].lane \in [Lanes -> V]
  BY <1>0, StateTyped
<1>3. /\ num \in 0 .. VectorScale /\ nt \in 0 .. VectorScale /\ VectorScale \in Nat
      /\ m.done # StateSize => temp.have = LowLanes(nt)
  BY <1>0, <1>2, MaskFinite, LanesAssumption DEF MachineInv
\* The number of the lanes left in the residual state, and its mask.
<1>4. CASE Collects(r, m, have) /\ m.k # Residual /\ num + nt < VectorScale
  <2>1. /\ LowLanes(num + nt) \in SUBSET Lanes
        /\ Cardinality(LowLanes(num + nt)) = num + nt
    <3>1. num + nt \in 0 .. VectorScale
      BY <1>3, <1>4
    <3> QED BY <3>1, LowLanesCount
  <2>2. /\ Compress(have, m.st[m.k].lane) \in [Lanes -> V]
    BY <1>0, <1>2, LanesTyped
  <2>3. Expand(temp.lane, Lanes \ temp.have, Compress(have, m.st[m.k].lane)) \in [Lanes -> V]
    <3>1. temp.lane \in [Lanes -> V] /\ Lanes \ temp.have \in SUBSET Lanes
      BY <1>0, <1>2
    <3> QED BY <2>2, <3>1, LanesTyped
  <2>4. /\ r.st[m.k].stage = "load" /\ r.st[m.k].have = {}
        /\ r.st[m.k].lane \in [Lanes -> V]
        /\ r.st[Residual].stage = temp.stage /\ r.st[Residual].lane \in [Lanes -> V]
        /\ r.st[Residual].have = LowLanes(num + nt)
        /\ SameOthers(r, m, {m.k, Residual})
    BY <1>4, <2>2, <2>3 DEF Collects
  <2> HIDE DEF num, nt, temp
  <2>5. \A s \in States : /\ r.st[s].stage \in Stages /\ r.st[s].have \in SUBSET Lanes
                          /\ r.st[s].lane \in [Lanes -> V]
    BY <1>0, <1>2, <2>1, <2>4 DEF SameOthers, Stages, temp
  <2>6. r \in Machines(V, C)
    BY <1>0, <1>1, <2>5, ContinueIndex, MachineFields, ShapeMachine DEF Working4
  <2>7. DoneStates(r) = DoneStates(m)
    BY <1>0, <1>4, <2>4 DEF DoneStates, SameOthers
  <2>8. \A s \in States \ {Residual} : r.st[s].stage \in {"load", "done"} => r.st[s].have = {}
    BY <2>4 DEF MachineInv, SameOthers
  <2>9. /\ r.st[Residual].stage \in {"load", "chain"}
        /\ r.st[Residual].have = LowLanes(Cardinality(r.st[Residual].have))
    BY <2>1, <2>4 DEF MachineInv, temp
  <2> QED BY <1>1, <2>6, <2>7, <2>8, <2>9 DEF MachineInv, Working4
<1>5. CASE Fills(r, m, have, "chain") /\ m.k # Residual /\ free <= nt
  <2>0. free \in 0 .. nt
    BY <1>3, <1>5
  <2>1. temp.have = LowLanes(nt)
    BY <1>0, <1>3, <1>5
  <2>2. ShiftDown(rest, free) = LowLanes(nt - free)
    BY <1>3, <2>0, <2>1, ShiftedRest
  <2>3. LowLanes(nt - free) \in SUBSET Lanes /\ Cardinality(LowLanes(nt - free)) = nt - free
    <3>1. nt - free \in 0 .. VectorScale
      BY <1>3, <2>0
    <3> QED BY <3>1, LowLanesCount
  <2>4. /\ Expand(m.st[m.k].lane, Lanes \ have, temp.lane) \in [Lanes -> V]
        /\ Compress(rest, temp.lane) \in [Lanes -> V]
    <3>1. /\ temp.lane \in [Lanes -> V] /\ m.st[m.k].lane \in [Lanes -> V]
          /\ Lanes \ have \in SUBSET Lanes /\ rest \in SUBSET Lanes
      BY <1>0, <1>2
    <3> QED BY <3>1, LanesTyped
  <2>5. /\ r.st[m.k].stage = "chain" /\ r.st[m.k].have = Lanes
        /\ r.st[m.k].lane \in [Lanes -> V]
        /\ r.st[Residual].stage = temp.stage /\ r.st[Residual].lane \in [Lanes -> V]
        /\ r.st[Residual].have = LowLanes(nt - free)
        /\ SameOthers(r, m, {m.k, Residual})
    BY <1>5, <2>2, <2>4 DEF Fills
  <2> HIDE DEF num, nt, temp, free, rest
  <2>6. \A s \in States : /\ r.st[s].stage \in Stages /\ r.st[s].have \in SUBSET Lanes
                          /\ r.st[s].lane \in [Lanes -> V]
    BY <1>0, <1>2, <2>3, <2>5 DEF SameOthers, Stages, temp
  <2>7. r \in Machines(V, C)
    BY <1>0, <1>1, <2>6, ContinueIndex, MachineFields, ShapeMachine DEF Working4
  <2>8. DoneStates(r) = DoneStates(m)
    BY <1>0, <1>5, <2>5 DEF DoneStates, SameOthers
  <2>9. \A s \in States \ {Residual} : r.st[s].stage \in {"load", "done"} => r.st[s].have = {}
    BY <2>5 DEF MachineInv, SameOthers
  <2>10. /\ r.st[Residual].stage \in {"load", "chain"}
         /\ r.st[Residual].have = LowLanes(Cardinality(r.st[Residual].have))
    BY <2>3, <2>5 DEF MachineInv, temp
  <2> QED BY <1>1, <2>7, <2>8, <2>9, <2>10 DEF MachineInv, Working4
<1>6. CASE \E stage \in {"load", "chain"} :
             Keeps(r, m, have, stage) /\ (stage = "load" => have = {} /\ m.k # Residual)
  <2>1. PICK stage \in {"load", "chain"} :
          Keeps(r, m, have, stage) /\ (stage = "load" => have = {} /\ m.k # Residual)
    BY <1>6
  <2>2. /\ r.st[m.k].stage = stage /\ r.st[m.k].have = have
        /\ r.st[m.k].lane = m.st[m.k].lane /\ SameOthers(r, m, {m.k})
    BY <2>1 DEF Keeps
  <2>3. \A s \in States : /\ r.st[s].stage \in Stages /\ r.st[s].have \in SUBSET Lanes
                          /\ r.st[s].lane \in [Lanes -> V]
    BY <1>0, <1>2, <2>1, <2>2 DEF SameOthers, Stages
  <2>4. r \in Machines(V, C)
    BY <1>0, <1>1, <2>3, ContinueIndex, MachineFields, ShapeMachine DEF Working4
  <2>5. DoneStates(r) = DoneStates(m)
    BY <1>0, <2>1, <2>2 DEF DoneStates, SameOthers
  <2>6. \A s \in States \ {Residual} : r.st[s].stage \in {"load", "done"} => r.st[s].have = {}
    BY <2>1, <2>2 DEF MachineInv, SameOthers
  <2>7. r.st[Residual].stage \in {"load", "chain"}
    BY <1>0, <2>1, <2>2 DEF MachineInv, SameOthers
  <2>8. r.done < StateSize => r.st[Residual].have = LowLanes(Cardinality(r.st[Residual].have))
    BY <1>0, <1>1, <2>2 DEF MachineInv, SameOthers
  <2> QED BY <1>1, <2>4, <2>5, <2>6, <2>7, <2>8 DEF MachineInv, Working4
<1> QED BY <1>1, <1>4, <1>5, <1>6 DEF Continues

-----------------------------------------------------------------------------
(* No lane is lost and none doubled: the lanes held after a case are, one   *)
(* for one, those held before it that still have work.                      *)
Held(m) == {p \in States \X Lanes : p[2] \in m.st[p[1]].have}
LaneOf(m, p) == m.st[p[1]].lane[p[2]]
Kept(m, have) == {p \in Held(m) : p[1] = m.k => p[2] \in have}

Moved(r, m, have, f) ==
  /\ f \in [Held(r) -> Kept(m, have)]
  /\ \A p, q \in Held(r) : f[p] = f[q] => p = q
  /\ \A q \in Kept(m, have) : \E p \in Held(r) : f[p] = q
  /\ \A p \in Held(r) : LaneOf(r, p) = LaneOf(m, f[p])

LEMMA KeepMoves ==
  ASSUME NEW m, Shape(m), m.k \in States, NEW have \in SUBSET m.st[m.k].have,
         NEW stage, NEW r, Keeps(r, m, have, stage)
  PROVE  Moved(r, m, have, [p \in Held(r) |-> p])
<1>1. \A s \in States : /\ s # m.k => r.st[s] = m.st[s]
                        /\ s = m.k => r.st[s].have = have /\ r.st[s].lane = m.st[s].lane
  BY DEF Keeps, SameOthers
<1>2. Held(r) = Kept(m, have)
  BY <1>1 DEF Held, Kept
<1>3. \A p \in Held(r) : LaneOf(r, p) = LaneOf(m, p)
  BY <1>1 DEF Held, LaneOf
<1> QED BY <1>2, <1>3 DEF Moved

\* The residual state keeps its lanes below those it takes.
LEMMA CollectedLanes ==
  ASSUME NEW m, NEW nt \in 0 .. VectorScale, m.st[Residual].have = LowLanes(nt),
         NEW have \in SUBSET Lanes, Cardinality(have) + nt < VectorScale,
         NEW r, Collects(r, m, have)
  PROVE  /\ r.st[Residual].have = LowLanes(nt + Cardinality(have))
         /\ \A i \in LowLanes(nt) : r.st[Residual].lane[i] = m.st[Residual].lane[i]
         /\ \A j \in 1 .. Cardinality(have) :
              r.st[Residual].lane[nt + j] = m.st[m.k].lane[Nth(have, j)]
<1> DEFINE num == Cardinality(have)
           moved == Compress(have, m.st[m.k].lane)
<1>1. num \in 0 .. VectorScale /\ Cardinality(LowLanes(nt)) = nt
  BY MaskFinite, LowLanesCount
<1>2. r.st[Residual].lane = Expand(m.st[Residual].lane, Lanes \ LowLanes(nt), moved)
  BY DEF Collects
<1>3. num + nt = nt + num
  BY <1>1
<1>4. r.st[Residual].have = LowLanes(nt + num)
  BY <1>1, <1>3 DEF Collects
<1>5. ASSUME NEW i \in LowLanes(nt)
      PROVE  r.st[Residual].lane[i] = m.st[Residual].lane[i]
  <2>1. i \in Lanes
    BY LanesAssumption DEF LowLanes, Lanes
  <2> QED BY <1>2, <2>1 DEF Expand
<1>6. ASSUME NEW j \in 1 .. num
      PROVE  r.st[Residual].lane[nt + j] = m.st[m.k].lane[Nth(have, j)]
  <2>1. nt + j \in LowLanes(VectorScale) \ LowLanes(nt) /\ j \in Lanes /\ j <= num
        /\ (nt + j) - nt = j
    BY <1>1, LanesAssumption DEF LowLanes, Lanes
  <2>2. Lanes = LowLanes(VectorScale) /\ VectorScale \in nt .. VectorScale
    BY LanesAssumption DEF Lanes, LowLanes
  <2>3. Rank(Lanes \ LowLanes(nt), nt + j) = j
    BY <2>1, <2>2, RankOfHigh
  <2>4. r.st[Residual].lane[nt + j] = moved[j]
    BY <1>2, <2>1, <2>2, <2>3 DEF Expand
  <2>5. moved[j] = m.st[m.k].lane[Nth(have, j)]
    BY <2>1, CompressLane
  <2> QED BY <2>4, <2>5
<1> QED BY <1>4, <1>5, <1>6

\* The state gets the lowest lanes of the residual one, which keeps the rest.
Filled(r, m, nt, have, free) ==
  /\ r.st[Residual].have = LowLanes(nt - free) /\ r.st[m.k].have = Lanes
  /\ \A i \in have : r.st[m.k].lane[i] = m.st[m.k].lane[i]
  /\ Cardinality(Lanes \ have) = free
  /\ \A i \in Lanes \ have :
       r.st[m.k].lane[i] = m.st[Residual].lane[Rank(Lanes \ have, i)]
  /\ \A i \in LowLanes(nt - free) : r.st[Residual].lane[i] = m.st[Residual].lane[i + free]

LEMMA FilledLanes ==
  ASSUME NEW m, NEW nt \in 0 .. VectorScale, m.st[Residual].have = LowLanes(nt),
         NEW have \in SUBSET Lanes, NEW free \in 0 .. nt, free = VectorScale - Cardinality(have),
         NEW stage, NEW r, Fills(r, m, have, stage)
  PROVE  Filled(r, m, nt, have, free)
<1> DEFINE rest == LowLanes(nt) \ LowLanes(free)
<1>1. /\ r.st[m.k].have = Lanes
      /\ r.st[m.k].lane = Expand(m.st[m.k].lane, Lanes \ have, m.st[Residual].lane)
      /\ r.st[Residual].have = ShiftDown(rest, free)
      /\ r.st[Residual].lane = Compress(rest, m.st[Residual].lane)
  BY DEF Fills
<1>2. ShiftDown(rest, free) = LowLanes(nt - free)
  BY ShiftedRest
<1>3. \A i \in have : r.st[m.k].lane[i] = m.st[m.k].lane[i]
  BY <1>1 DEF Expand
<1>4. \A i \in Lanes \ have : r.st[m.k].lane[i] = m.st[Residual].lane[Rank(Lanes \ have, i)]
  BY <1>1 DEF Expand
<1>5. Cardinality(Lanes \ have) = free
  <2>1. IsFiniteSet(Lanes) /\ Cardinality(Lanes) = VectorScale
    BY LanesAssumption, FS_Interval DEF Lanes
  <2>2. Cardinality(Lanes \ have) = Cardinality(Lanes) - Cardinality(Lanes \cap have)
    BY <2>1, FS_Difference
  <2>3. Lanes \cap have = have
    OBVIOUS
  <2> QED BY <2>1, <2>2, <2>3
<1>6. ASSUME NEW i \in LowLanes(nt - free)
      PROVE  r.st[Residual].lane[i] = m.st[Residual].lane[i + free]
  <2>1. /\ i \in Lanes /\ i + free \in rest /\ (i + free) - free = i
        /\ nt \in free .. VectorScale /\ free \in 0 .. VectorScale
    BY LanesAssumption DEF LowLanes, Lanes
  <2>2. rest \in SUBSET Lanes
    BY LanesAssumption DEF LowLanes, Lanes
  <2>3. Rank(rest, i + free) = i
    BY <2>1, RankOfHigh
  <2> HIDE DEF rest
  <2>4. Nth(rest, i) = i + free
    BY <2>1, <2>2, <2>3, NthLane
  <2>5. i <= Cardinality(rest)
    <3>1. Rank(rest, i + free) \in 1 .. Cardinality(rest)
      BY <2>1, <2>2, RankGrows
    <3> QED BY <2>3, <3>1
  <2> QED BY <1>1, <2>1, <2>2, <2>4, <2>5, CompressLane
<1> QED BY <1>1, <1>2, <1>3, <1>4, <1>5, <1>6 DEF Filled

LEMMA CollectMoves ==
  ASSUME NEW m, m.k \in States \ {Residual}, NEW nt \in 0 .. VectorScale,
         m.st[Residual].have = LowLanes(nt),
         NEW have \in SUBSET Lanes, have \in SUBSET m.st[m.k].have,
         Cardinality(have) + nt < VectorScale,
         NEW r, Collects(r, m, have)
  PROVE  \E f : Moved(r, m, have, f)
<1> DEFINE num == Cardinality(have)
           New(p) == p[1] = Residual /\ p[2] > nt
           f == [p \in Held(r) |-> IF New(p) THEN <<m.k, Nth(have, p[2] - nt)>> ELSE p]
<1>0. /\ r.st[Residual].have = LowLanes(nt + num)
      /\ \A i \in LowLanes(nt) : r.st[Residual].lane[i] = m.st[Residual].lane[i]
      /\ \A j \in 1 .. num : r.st[Residual].lane[nt + j] = m.st[m.k].lane[Nth(have, j)]
  BY CollectedLanes
<1>1. /\ Residual \in States /\ num \in 0 .. VectorScale /\ VectorScale \in Nat
      /\ r.st[m.k].have = {} /\ \A s \in States \ {m.k, Residual} : r.st[s] = m.st[s]
  BY ResidualIsState, MaskFinite, LanesAssumption DEF Collects, SameOthers
<1>2. /\ \A j \in 1 .. num : Nth(have, j) \in have /\ Rank(have, Nth(have, j)) = j
      /\ \A i \in have : Nth(have, Rank(have, i)) = i /\ Rank(have, i) \in 1 .. num
  BY NthLane, RankGrows
<1> HIDE DEF num
\* Where a lane comes from, and where it goes.
<1>3. \A p \in Held(r) : New(p) => /\ p[2] - nt \in 1 .. num /\ f[p] = <<m.k, Nth(have, p[2] - nt)>>
                                   /\ Nth(have, p[2] - nt) \in have
                                   /\ LaneOf(r, p) = m.st[m.k].lane[Nth(have, p[2] - nt)]
  <2> SUFFICES ASSUME NEW p \in Held(r), New(p)
               PROVE  /\ p[2] - nt \in 1 .. num /\ f[p] = <<m.k, Nth(have, p[2] - nt)>>
                      /\ Nth(have, p[2] - nt) \in have
                      /\ LaneOf(r, p) = m.st[m.k].lane[Nth(have, p[2] - nt)]
    OBVIOUS
  <2>1. p[2] \in LowLanes(nt + num) /\ p[2] > nt /\ p[1] = Residual
    BY <1>0 DEF Held
  <2>2. p[2] - nt \in 1 .. num /\ nt + (p[2] - nt) = p[2]
    BY <1>1, <2>1 DEF LowLanes
  <2>3. r.st[Residual].lane[p[2]] = m.st[m.k].lane[Nth(have, p[2] - nt)]
    BY <1>0, <2>2
  <2> QED BY <1>2, <2>1, <2>2, <2>3 DEF LaneOf
<1>4. \A p \in Held(r) : ~New(p) => /\ f[p] = p /\ p[1] # m.k /\ p \in Held(m)
                                    /\ LaneOf(r, p) = LaneOf(m, p)
  <2> SUFFICES ASSUME NEW p \in Held(r), ~New(p)
               PROVE  /\ f[p] = p /\ p[1] # m.k /\ p \in Held(m) /\ LaneOf(r, p) = LaneOf(m, p)
    OBVIOUS
  <2>1. /\ p \in States \X Lanes /\ p[2] \in r.st[p[1]].have /\ p[1] # m.k /\ p[1] \in States
    BY <1>1 DEF Held
  <2>2. CASE p[1] = Residual
    <3>1. p[2] \in LowLanes(nt)
      BY <1>0, <1>1, <2>1, <2>2 DEF LowLanes
    <3> QED BY <1>0, <2>1, <2>2, <3>1 DEF Held, LaneOf
  <2>3. CASE p[1] # Residual
    BY <1>1, <2>1, <2>3 DEF Held, LaneOf
  <2> QED BY <2>1, <2>2, <2>3
<1>5. f = [p \in Held(r) |-> f[p]]
  OBVIOUS
<1>6. \A p \in Held(r) : p[2] \in Int /\ p = <<p[1], p[2]>>
  BY DEF Held, Lanes
<1> HIDE DEF f
<1>7. ASSUME NEW p \in Held(r) PROVE f[p] \in Kept(m, have) /\ LaneOf(r, p) = LaneOf(m, f[p])
  <2>1. CASE New(p)
    BY <1>1, <1>3, <2>1 DEF Kept, Held, LaneOf
  <2>2. CASE ~New(p)
    BY <1>4, <2>2 DEF Kept
  <2> QED BY <2>1, <2>2
<1>8. ASSUME NEW p \in Held(r), NEW q \in Held(r), f[p] = f[q] PROVE p = q
  <2>1. CASE New(p) /\ New(q)
    <3>1. Nth(have, p[2] - nt) = Nth(have, q[2] - nt)
      BY <1>3, <1>8, <2>1
    <3>2. p[2] - nt = q[2] - nt
      BY <1>2, <1>3, <2>1, <3>1
    <3> QED BY <1>1, <1>6, <2>1, <3>2
  <2>2. CASE ~New(p) /\ ~New(q)
    BY <1>4, <1>8, <2>2
  <2>3. CASE (New(p) /\ ~New(q)) \/ (~New(p) /\ New(q))
    <3>1. \A x \in Held(r) : New(x) => f[x][1] = m.k
      BY <1>3
    <3>2. \A x \in Held(r) : ~New(x) => f[x][1] # m.k
      BY <1>4
    <3> QED BY <1>8, <2>3, <3>1, <3>2
  <2> QED BY <2>1, <2>2, <2>3
<1>9. ASSUME NEW q \in Kept(m, have) PROVE \E p \in Held(r) : f[p] = q
  <2>0. q \in States \X Lanes /\ q[2] \in m.st[q[1]].have /\ q = <<q[1], q[2]>> /\ q[2] \in Lanes
    BY DEF Kept, Held
  <2>1. CASE q[1] = m.k
    <3>1. PICK j : j = Rank(have, q[2])
      OBVIOUS
    <3>2. q[2] \in have /\ j \in 1 .. num /\ Nth(have, j) = q[2]
      BY <1>2, <2>1, <3>1 DEF Kept
    <3>3. /\ nt + j \in LowLanes(nt + num) /\ nt + j \in Lanes /\ nt + j > nt
          /\ (nt + j) - nt = j
      <4>1. num + nt < VectorScale
        BY DEF num
      <4> QED BY <1>1, <3>2, <4>1 DEF LowLanes, Lanes
    <3>4. PICK p : p = <<Residual, nt + j>>
      OBVIOUS
    <3>5. p \in Held(r) /\ New(p)
      BY <1>0, <1>1, <3>3, <3>4 DEF Held
    <3>6. f[p] = <<m.k, Nth(have, p[2] - nt)>> /\ p[2] = nt + j
      BY <1>3, <3>4, <3>5
    <3> QED BY <2>0, <2>1, <3>2, <3>3, <3>5, <3>6
  <2>2. CASE q[1] # m.k
    <3>1. q \in Held(r) /\ ~New(q)
      <4>1. CASE q[1] = Residual
        <5>1. q[2] \in LowLanes(nt)
          BY <2>0, <4>1
        <5>2. q[2] \in LowLanes(nt + num) /\ ~(q[2] > nt)
          BY <1>1, <5>1 DEF LowLanes
        <5> QED BY <1>0, <2>0, <4>1, <5>2 DEF Held
      <4>2. CASE q[1] # Residual
        BY <1>1, <2>0, <2>2, <4>2 DEF Held
      <4> QED BY <4>1, <4>2
    <3> QED BY <1>4, <3>1
  <2> QED BY <2>1, <2>2
<1> QED BY <1>5, <1>7, <1>8, <1>9 DEF Moved

LEMMA FillMoves ==
  ASSUME NEW m, m.k \in States \ {Residual}, NEW nt \in 0 .. VectorScale,
         m.st[Residual].have = LowLanes(nt),
         NEW have \in SUBSET Lanes, have \in SUBSET m.st[m.k].have,
         NEW free \in 0 .. nt, free = VectorScale - Cardinality(have),
         NEW stage, NEW r, Fills(r, m, have, stage)
  PROVE  \E f : Moved(r, m, have, f)
<1> DEFINE gap == Lanes \ have
           Source(p) == IF p[1] = Residual THEN <<Residual, p[2] + free>>
                        ELSE IF p[1] = m.k /\ p[2] \notin have
                        THEN <<Residual, Rank(gap, p[2])>> ELSE p
           f == [p \in Held(r) |-> Source(p)]
<1>0. /\ r.st[Residual].have = LowLanes(nt - free) /\ r.st[m.k].have = Lanes
      /\ \A i \in have : r.st[m.k].lane[i] = m.st[m.k].lane[i]
      /\ Cardinality(gap) = free
      /\ \A i \in gap : r.st[m.k].lane[i] = m.st[Residual].lane[Rank(gap, i)]
      /\ \A i \in LowLanes(nt - free) : r.st[Residual].lane[i] = m.st[Residual].lane[i + free]
  <2>1. Filled(r, m, nt, have, free)
    BY FilledLanes
  <2> QED BY <2>1 DEF Filled
<1>1. /\ Residual \in States /\ m.k \in States /\ m.k # Residual /\ VectorScale \in Nat
      /\ \A s \in States \ {m.k, Residual} : r.st[s] = m.st[s]
  BY ResidualIsState, LanesAssumption DEF Fills, SameOthers
<1>2. /\ gap \in SUBSET Lanes
      /\ \A j \in 1 .. free : Nth(gap, j) \in gap /\ Rank(gap, Nth(gap, j)) = j
      /\ \A i \in gap : Nth(gap, Rank(gap, i)) = i /\ Rank(gap, i) \in 1 .. free
  <2>1. gap \in SUBSET Lanes
    OBVIOUS
  <2> QED BY <1>0, <2>1, NthLane, RankGrows
<1>3. \A i \in Lanes : i \in gap <=> i \notin have
  OBVIOUS
<1> HIDE DEF gap
\* Residual lanes come from higher ones, the gaps from the lowest ones.
<1>4. \A p \in Held(r) : p[1] = Residual =>
        /\ f[p] = <<Residual, p[2] + free>> /\ p[2] + free \in LowLanes(nt) /\ p[2] + free > free
        /\ p[2] + free \in Lanes /\ LaneOf(r, p) = m.st[Residual].lane[p[2] + free]
  <2> SUFFICES ASSUME NEW p \in Held(r), p[1] = Residual
               PROVE  /\ f[p] = <<Residual, p[2] + free>> /\ p[2] + free \in LowLanes(nt)
                      /\ p[2] + free > free /\ p[2] + free \in Lanes
                      /\ LaneOf(r, p) = m.st[Residual].lane[p[2] + free]
    OBVIOUS
  <2>1. p[2] \in LowLanes(nt - free)
    BY <1>0 DEF Held
  <2>2. p[2] + free \in LowLanes(nt) /\ p[2] + free > free /\ p[2] + free \in Lanes
    BY <1>1, <2>1 DEF LowLanes, Lanes
  <2> QED BY <1>0, <2>1, <2>2 DEF LaneOf
<1>5. \A p \in Held(r) : p[1] = m.k /\ p[2] \notin have =>
        /\ f[p] = <<Residual, Rank(gap, p[2])>> /\ p[2] \in gap /\ Rank(gap, p[2]) \in 1 .. free
        /\ LaneOf(r, p) = m.st[Residual].lane[Rank(gap, p[2])]
  BY <1>0, <1>1, <1>2, <1>3 DEF Held, LaneOf
<1>6. \A p \in Held(r) : p[1] # Residual /\ ~(p[1] = m.k /\ p[2] \notin have) =>
        f[p] = p /\ p \in Kept(m, have) /\ LaneOf(r, p) = LaneOf(m, p)
  <2> SUFFICES ASSUME NEW p \in Held(r), p[1] # Residual, ~(p[1] = m.k /\ p[2] \notin have)
               PROVE  f[p] = p /\ p \in Kept(m, have) /\ LaneOf(r, p) = LaneOf(m, p)
    OBVIOUS
  <2>1. p \in States \X Lanes /\ p[2] \in r.st[p[1]].have /\ p[1] \in States
    BY DEF Held
  <2>2. CASE p[1] = m.k
    BY <1>0, <2>1, <2>2 DEF Held, Kept, LaneOf
  <2>3. CASE p[1] # m.k
    BY <1>1, <2>1, <2>3 DEF Held, Kept, LaneOf
  <2> QED BY <2>2, <2>3
<1>7. f = [p \in Held(r) |-> f[p]]
  OBVIOUS
<1>8. \A p \in Held(r) : p[2] \in Int /\ p[2] \in Lanes /\ p = <<p[1], p[2]>>
  BY DEF Held, Lanes
<1>9. \A j \in LowLanes(nt) : j \in Lanes /\ j \in Int
  BY <1>1 DEF LowLanes, Lanes
<1>10. \A j \in 1 .. free : j \in LowLanes(nt) /\ ~(j > free) /\ j \in Int
  BY <1>1 DEF LowLanes
<1> HIDE DEF f
<1>11. ASSUME NEW p \in Held(r) PROVE f[p] \in Kept(m, have) /\ LaneOf(r, p) = LaneOf(m, f[p])
  <2>1. CASE p[1] = Residual
    BY <1>1, <1>4, <2>1 DEF Kept, Held, LaneOf
  <2>2. CASE p[1] = m.k /\ p[2] \notin have
    <3>1. Rank(gap, p[2]) \in LowLanes(nt) /\ Rank(gap, p[2]) \in Lanes
      BY <1>5, <1>9, <1>10, <2>2
    <3> QED BY <1>1, <1>5, <2>2, <3>1 DEF Kept, Held, LaneOf
  <2>3. CASE p[1] # Residual /\ ~(p[1] = m.k /\ p[2] \notin have)
    BY <1>6, <2>3
  <2> QED BY <2>1, <2>2, <2>3
<1>12. ASSUME NEW p \in Held(r), NEW q \in Held(r), f[p] = f[q], p[1] = Residual PROVE p = q
  <2>1. f[p] = <<Residual, p[2] + free>> /\ p[2] + free > free
    BY <1>4, <1>12
  <2>2. CASE q[1] = Residual
    <3>1. f[q][2] = q[2] + free /\ f[p][2] = p[2] + free
      BY <1>4, <1>12, <2>2
    <3>2. p[2] + free = q[2] + free
      BY <1>12, <3>1
    <3>3. p[2] = q[2]
      BY <1>8, <3>2
    <3> QED BY <1>8, <1>12, <2>2, <3>3
  <2>3. CASE q[1] = m.k /\ q[2] \notin have
    <3>1. /\ f[q][2] = Rank(gap, q[2]) /\ Rank(gap, q[2]) \in 1 .. free
          /\ f[p][2] = p[2] + free
      BY <1>4, <1>5, <1>12, <2>3
    <3>2. p[2] + free = Rank(gap, q[2])
      BY <1>12, <3>1
    <3> QED BY <1>10, <2>1, <3>1, <3>2
  <2>4. CASE q[1] # Residual /\ ~(q[1] = m.k /\ q[2] \notin have)
    <3>1. f[q][1] # Residual
      BY <1>6, <2>4
    <3> QED BY <1>12, <2>1, <3>1
  <2> QED BY <2>2, <2>3, <2>4
<1>13. ASSUME NEW p \in Held(r), NEW q \in Held(r), f[p] = f[q], p[1] # Residual, q[1] # Residual
       PROVE  p = q
  <2>1. CASE p[1] = m.k /\ p[2] \notin have /\ q[1] = m.k /\ q[2] \notin have
    <3>1. Rank(gap, p[2]) = Rank(gap, q[2]) /\ p[2] \in gap /\ q[2] \in gap
      BY <1>5, <1>13, <2>1
    <3>2. p[2] = q[2]
      BY <1>2, <3>1
    <3> QED BY <1>8, <2>1, <3>2
  <2>2. CASE ~(p[1] = m.k /\ p[2] \notin have) /\ ~(q[1] = m.k /\ q[2] \notin have)
    BY <1>6, <1>13, <2>2
  <2>3. CASE \/ p[1] = m.k /\ p[2] \notin have /\ ~(q[1] = m.k /\ q[2] \notin have)
             \/ ~(p[1] = m.k /\ p[2] \notin have) /\ q[1] = m.k /\ q[2] \notin have
    <3>1. \/ f[p][1] = Residual /\ f[q][1] # Residual
          \/ f[p][1] # Residual /\ f[q][1] = Residual
      BY <1>5, <1>6, <1>13, <2>3
    <3> QED BY <1>13, <3>1
  <2> QED BY <2>1, <2>2, <2>3
<1>14. ASSUME NEW q \in Kept(m, have) PROVE \E p \in Held(r) : f[p] = q
  <2>0. /\ q \in States \X Lanes /\ q[2] \in m.st[q[1]].have /\ q = <<q[1], q[2]>> /\ q[2] \in Lanes
        /\ q[1] \in States /\ (q[1] = m.k => q[2] \in have) /\ q[2] \in Int
    BY DEF Kept, Held, Lanes
  <2>1. CASE q[1] = Residual /\ q[2] > free
    <3>1. /\ q[2] - free \in LowLanes(nt - free) /\ (q[2] - free) + free = q[2]
          /\ q[2] - free \in Lanes
      BY <1>1, <2>0, <2>1 DEF LowLanes, Lanes
    <3>2. PICK p : p = <<Residual, q[2] - free>>
      OBVIOUS
    <3>3. p \in Held(r) /\ p[1] = Residual /\ p[2] = q[2] - free
      BY <1>0, <1>1, <3>1, <3>2 DEF Held
    <3> QED BY <1>4, <2>0, <2>1, <3>1, <3>3
  <2>2. CASE q[1] = Residual /\ ~(q[2] > free)
    <3>1. q[2] \in 1 .. free
      BY <1>1, <2>0, <2>2 DEF Lanes
    <3>2. PICK i : i = Nth(gap, q[2])
      OBVIOUS
    <3>3. i \in gap /\ Rank(gap, i) = q[2] /\ i \in Lanes /\ i \notin have
      BY <1>2, <1>3, <3>1, <3>2
    <3>4. PICK p : p = <<m.k, i>>
      OBVIOUS
    <3>5. p \in Held(r) /\ p[1] = m.k /\ p[2] = i
      BY <1>0, <1>1, <3>3, <3>4 DEF Held
    <3> QED BY <1>5, <2>0, <2>2, <3>3, <3>5
  <2>3. CASE q[1] # Residual
    <3>1. q \in Held(r)
      BY <1>0, <1>1, <2>0, <2>3 DEF Held
    <3> QED BY <1>6, <2>0, <2>3, <3>1
  <2> QED BY <2>1, <2>2, <2>3
<1> QED BY <1>7, <1>11, <1>12, <1>13, <1>14 DEF Moved

\* At the end of a case the lanes that still have work are, one for one, those
\* held by the vector states: Collect and Fill (hashing_runner.cpp:329-388) lose
\* no tuple and double none.
THEOREM ContinueMoves ==
  ASSUME NEW V, NEW C, NEW m, MachineInv(V, C, m), AtWork(m),
         NEW have \in SUBSET m.st[m.k].have, NEW step \in {0, 1},
         NEW r, r = Continue(m, have, "chain", step)
  PROVE  \E f : Moved(r, m, have, f)
<1>1. Continues(r, m, have, "chain")
  <2>1. PICK chain : chain = "chain"
    OBVIOUS
  <2>2. Continues(r, m, have, chain)
    BY <2>1, ContinueIs
  <2> QED BY <2>1, <2>2
<1>2. /\ m \in Machines(V, C) /\ m.k \in States /\ Residual \in States
      /\ m.done \in 0 .. StateSize /\ StateSize \in Nat
      /\ m.k = Residual <=> m.done = StateSize
  BY ResidualIsState, MachineFields DEF MachineInv, AtWork
<1>3. Shape(m) /\ m.k \in States
  BY <1>2, MachineShape
<1>4. /\ have \in SUBSET Lanes /\ m.st[Residual].have \in SUBSET Lanes
  BY <1>2, StateTyped
<1> DEFINE nt == Cardinality(m.st[Residual].have)
           free == VectorScale - Cardinality(have)
<1>5. /\ Cardinality(have) \in 0 .. VectorScale /\ nt \in 0 .. VectorScale
      /\ m.k # Residual => m.st[Residual].have = LowLanes(nt)
  BY <1>2, <1>4, MaskFinite DEF MachineInv
<1> HIDE DEF nt
<1>6. ASSUME NEW stage, Keeps(r, m, have, stage) PROVE \E f : Moved(r, m, have, f)
  BY <1>3, <1>6, KeepMoves
<1>7. CASE Collects(r, m, have) /\ m.k # Residual /\ Cardinality(have) + nt < VectorScale
  BY <1>2, <1>4, <1>5, <1>7, CollectMoves
<1>8. CASE Fills(r, m, have, "chain") /\ m.k # Residual /\ free <= nt
  <2>1. free \in 0 .. nt
    BY <1>5, <1>8, LanesAssumption
  <2>2. PICK x, stage : x = free /\ stage = "chain"
    OBVIOUS
  <2>3. /\ m.k \in States \ {Residual} /\ nt \in 0 .. VectorScale
        /\ m.st[Residual].have = LowLanes(nt) /\ have \in SUBSET Lanes
        /\ have \in SUBSET m.st[m.k].have /\ x \in 0 .. nt
        /\ x = VectorScale - Cardinality(have) /\ Fills(r, m, have, stage)
    BY <1>2, <1>4, <1>5, <1>8, <2>1, <2>2
  <2> QED BY <2>3, FillMoves
<1> QED BY <1>1, <1>6, <1>7, <1>8 DEF Continues, nt

\* A lane held after a case was held before it, in a state of the same stage or
\* in the one worked on; that goes on to the chains, and so does what it leaves
\* in the residual state.
Regraded(r, m, have) ==
  \A p \in Held(r) : \E q \in Kept(m, have) :
    /\ LaneOf(r, p) = LaneOf(m, q)
    /\ Level(r, p[1]) = Level(m, q[1]) \/ (q[1] = m.k /\ Level(r, p[1]) = "chain")

LEMMA ContinueRegrades ==
  ASSUME NEW V, NEW C, NEW m, MachineInv(V, C, m), AtWork(m),
         NEW have \in SUBSET m.st[m.k].have, NEW step \in {0, 1},
         NEW r, r = Continue(m, have, "chain", step)
  PROVE  Regraded(r, m, have)
<1>1. Continues(r, m, have, "chain")
  <2>1. PICK chain : chain = "chain"
    OBVIOUS
  <2>2. Continues(r, m, have, chain)
    BY <2>1, ContinueIs
  <2> QED BY <2>1, <2>2
<1>2. /\ m \in Machines(V, C) /\ m.k \in States /\ Residual \in States
      /\ m.done \in 0 .. StateSize /\ StateSize \in Nat
      /\ m.k = Residual <=> m.done = StateSize
  BY ResidualIsState, MachineFields DEF MachineInv, AtWork
<1>4. have \in SUBSET Lanes /\ m.st[Residual].have \in SUBSET Lanes
  BY <1>2, StateTyped
<1> DEFINE nt == Cardinality(m.st[Residual].have)
           free == VectorScale - Cardinality(have)
<1>5. /\ Cardinality(have) \in 0 .. VectorScale /\ nt \in 0 .. VectorScale
      /\ m.k # Residual => m.st[Residual].have = LowLanes(nt)
  BY <1>2, <1>4, MaskFinite DEF MachineInv
<1> HIDE DEF nt
<1> DEFINE From(p, q) ==
      /\ q \in Kept(m, have) /\ LaneOf(r, p) = LaneOf(m, q)
      /\ Level(r, p[1]) = Level(m, q[1]) \/ (q[1] = m.k /\ Level(r, p[1]) = "chain")
<1>6. ASSUME Keeps(r, m, have, "chain"), NEW p \in Held(r) PROVE From(p, p)
  BY <1>2, <1>6 DEF Keeps, SameOthers, Held, Kept, LaneOf, Level
<1>7. ASSUME Keeps(r, m, have, "load"), have = {}, NEW p \in Held(r) PROVE From(p, p)
  BY <1>2, <1>7 DEF Keeps, SameOthers, Held, Kept, LaneOf, Level
\* A lane of another state, or one that stays in the residual state.
<1>8. ASSUME m.k # Residual, SameOthers(r, m, {m.k, Residual}), NEW p \in Held(r),
             p[1] \notin {m.k, Residual}
      PROVE  From(p, p)
  BY <1>2, <1>8 DEF SameOthers, Held, Kept, LaneOf, Level
<1>9. ASSUME m.k # Residual, NEW s \in {m.k, Residual}, NEW i \in Lanes, NEW j \in Lanes,
             j \in m.st[s].have, s = m.k => j \in have,
             NEW p \in Held(r), p[1] = Residual \/ r.st[p[1]].stage = "chain",
             p[2] = i, r.st[p[1]].lane[i] = m.st[s].lane[j]
      PROVE  From(p, <<s, j>>)
  BY <1>2, <1>9 DEF Held, Kept, LaneOf, Level
<1>10. ASSUME Collects(r, m, have), m.k # Residual, Cardinality(have) + nt < VectorScale,
              NEW p \in Held(r)
       PROVE  \E q : From(p, q)
  <2>1. /\ r.st[Residual].have = LowLanes(nt + Cardinality(have))
        /\ \A i \in LowLanes(nt) : r.st[Residual].lane[i] = m.st[Residual].lane[i]
        /\ \A j \in 1 .. Cardinality(have) :
             r.st[Residual].lane[nt + j] = m.st[m.k].lane[Nth(have, j)]
    BY <1>4, <1>5, <1>10, CollectedLanes
  <2>2. p[1] \in States /\ p[2] \in Lanes /\ p[2] \in r.st[p[1]].have
        /\ SameOthers(r, m, {m.k, Residual}) /\ r.st[m.k].have = {}
    BY <1>10 DEF Held, Collects
  <2>3. CASE p[1] \notin {m.k, Residual}
    BY <1>8, <1>10, <2>2, <2>3
  <2>4. CASE p[1] = Residual
    <3>1. PICK i \in Lanes : i = p[2] /\ i \in LowLanes(nt + Cardinality(have))
      BY <2>1, <2>2, <2>4
    <3>2. CASE i \in LowLanes(nt)
      <4>1. i \in m.st[Residual].have /\ r.st[p[1]].lane[i] = m.st[Residual].lane[i]
        BY <1>5, <1>10, <2>1, <2>4, <3>2
      <4>2. From(p, <<Residual, i>>)
        BY <1>9, <1>10, <2>4, <3>1, <4>1
      <4> QED BY <4>2
    <3>3. CASE i \notin LowLanes(nt)
      <4>1. PICK j \in 1 .. Cardinality(have) : i = nt + j
        <5>1. i - nt \in 1 .. Cardinality(have) /\ i = nt + (i - nt)
          BY <1>5, <3>1, <3>3 DEF LowLanes, Lanes
        <5> QED BY <5>1
      <4>2. Nth(have, j) \in have /\ Nth(have, j) \in Lanes /\ Nth(have, j) \in m.st[m.k].have
        BY <1>4, NthLane
      <4>3. r.st[p[1]].lane[i] = m.st[m.k].lane[Nth(have, j)]
        BY <2>1, <2>4, <4>1
      <4>4. From(p, <<m.k, Nth(have, j)>>)
        BY <1>9, <1>10, <2>4, <3>1, <4>2, <4>3
      <4> QED BY <4>4
    <3> QED BY <3>2, <3>3
  <2> QED BY <2>2, <2>3, <2>4
<1>11. ASSUME Fills(r, m, have, "chain"), m.k # Residual, free <= nt, NEW p \in Held(r)
       PROVE  \E q : From(p, q)
  <2>1. free \in 0 .. nt
    BY <1>5, <1>11, LanesAssumption
  <2>2. Filled(r, m, nt, have, free)
    <3>1. PICK x, stage : x = free /\ stage = "chain"
      OBVIOUS
    <3>2. /\ nt \in 0 .. VectorScale /\ m.st[Residual].have = LowLanes(nt)
          /\ have \in SUBSET Lanes /\ x \in 0 .. nt
          /\ x = VectorScale - Cardinality(have) /\ Fills(r, m, have, stage)
      BY <1>4, <1>5, <1>11, <2>1, <3>1
    <3>3. Filled(r, m, nt, have, x)
      BY <3>2, FilledLanes
    <3> QED BY <3>1, <3>3
  <2>3. /\ p[1] \in States /\ p[2] \in Lanes /\ p[2] \in r.st[p[1]].have
        /\ SameOthers(r, m, {m.k, Residual}) /\ r.st[m.k].stage = "chain"
    BY <1>11 DEF Held, Fills
  <2>4. CASE p[1] \notin {m.k, Residual}
    BY <1>8, <1>11, <2>3, <2>4
  <2>5. CASE p[1] = Residual
    <3>1. p[2] + free \in LowLanes(nt) /\ p[2] + free \in Lanes
          /\ r.st[p[1]].lane[p[2]] = m.st[Residual].lane[p[2] + free]
      <4>1. PICK i \in Lanes : i = p[2] /\ i \in LowLanes(nt - free)
        BY <2>2, <2>3, <2>5 DEF Filled
      <4>2. r.st[Residual].lane[i] = m.st[Residual].lane[i + free]
        BY <2>2, <4>1 DEF Filled
      <4>3. i + free \in LowLanes(nt) /\ i + free \in Lanes
        BY <1>5, <2>1, <4>1, LanesAssumption DEF LowLanes, Lanes
      <4> QED BY <2>5, <4>1, <4>2, <4>3
    <3>2. p[2] + free \in m.st[Residual].have
      BY <1>5, <1>11, <3>1
    <3>3. From(p, <<Residual, p[2] + free>>)
      BY <1>9, <1>11, <2>3, <2>5, <3>1, <3>2
    <3> QED BY <3>3
  <2>6. CASE p[1] = m.k /\ p[2] \in have
    <3>1. r.st[p[1]].lane[p[2]] = m.st[m.k].lane[p[2]]
      BY <2>2, <2>6 DEF Filled
    <3>2. From(p, <<m.k, p[2]>>)
      BY <1>9, <1>11, <2>3, <2>6, <3>1
    <3> QED BY <3>2
  <2>7. CASE p[1] = m.k /\ p[2] \notin have
    <3>1. PICK gap \in SUBSET Lanes : gap = Lanes \ have
      OBVIOUS
    <3>2. /\ p[2] \in gap /\ Cardinality(gap) = free
          /\ r.st[p[1]].lane[p[2]] = m.st[Residual].lane[Rank(gap, p[2])]
      BY <2>2, <2>3, <2>7, <3>1 DEF Filled
    <3>3. Rank(gap, p[2]) \in 1 .. free
      BY <3>2, RankGrows
    <3>4. Rank(gap, p[2]) \in LowLanes(nt) /\ Rank(gap, p[2]) \in Lanes
      BY <1>5, <2>1, <3>3, LanesAssumption DEF LowLanes, Lanes
    <3>5. Rank(gap, p[2]) \in m.st[Residual].have
      BY <1>5, <1>11, <3>4
    <3>6. From(p, <<Residual, Rank(gap, p[2])>>)
      BY <1>9, <1>11, <2>3, <2>7, <3>2, <3>4, <3>5
    <3> QED BY <3>6
  <2> QED BY <2>3, <2>4, <2>5, <2>6, <2>7
<1>12. \A p \in Held(r) : \E q : From(p, q)
  BY <1>1, <1>6, <1>7, <1>10, <1>11 DEF Continues, nt
<1> QED BY <1>12 DEF Regraded

-----------------------------------------------------------------------------
(* What follows for a property of lanes: it holds of every lane held, and   *)
(* lanes that are told apart by a key stay so.                              *)
LEMMA MovedHolds ==
  ASSUME NEW m, NEW have, NEW r, NEW f, Moved(r, m, have, f),
         NEW W, \A p \in Kept(m, have) : LaneOf(m, p) \in W
  PROVE  \A p \in Held(r) : LaneOf(r, p) \in W
BY DEF Moved

-----------------------------------------------------------------------------
(* The registers of a gather or a scatter, the lanes of one state.          *)
RegistersPut(m, op, left, chosen, next) ==
  [m EXCEPT !.op = op, !.left = left, !.chosen = chosen, !.next = next]
RegistersIs(r, m, op, left, chosen, next) ==
  /\ Shape(r) /\ r.k = m.k /\ r.done = m.done /\ r.cur = m.cur /\ r.st = m.st
  /\ r.op = op /\ r.left = left /\ r.chosen = chosen /\ r.next = next

LEMMA RegistersSet ==
  ASSUME NEW m, Shape(m), NEW op, NEW left, NEW chosen, NEW next
  PROVE  RegistersIs(RegistersPut(m, op, left, chosen, next), m, op, left, chosen, next)
<1>1. PICK r : r = RegistersPut(m, op, left, chosen, next)
  OBVIOUS
<1>2. /\ r = [g \in Fields |-> r[g]] /\ r.k = m.k /\ r.done = m.done /\ r.cur = m.cur
      /\ r.st = m.st /\ r.op = op /\ r.left = left /\ r.chosen = chosen /\ r.next = next
  BY <1>1 DEF RegistersPut, Shape, Fields
<1> QED BY <1>1, <1>2 DEF RegistersIs, Shape

LEMMA RegistersMachineInv ==
  ASSUME NEW V, NEW C, NEW m, MachineInv(V, C, m), NEW op \in {"turn", "gather", "scatter"},
         NEW left \in SUBSET Lanes, NEW chosen \in SUBSET Lanes, NEW next \in [Lanes -> C],
         op = "turn" \/ AtWork(m),
         NEW r, RegistersIs(r, m, op, left, chosen, next)
  PROVE  MachineInv(V, C, r) /\ (AtWork(m) => AtWork(r)) /\ Held(r) = Held(m)
         /\ \A p : LaneOf(r, p) = LaneOf(m, p)
<1>1. m \in Machines(V, C)
  BY DEF MachineInv
<1>2. Steady(V, r, m)
  <2>1. \A s \in States : m.st[s].lane \in [Lanes -> V]
    BY <1>1, StateTyped
  <2> QED BY <2>1 DEF Steady, MachineInv, RegistersIs
<1>3. AtWork(m) => AtWork(r)
  BY DEF AtWork, RegistersIs
<1>4. /\ r.k \in 0 .. (StateSize + 1) /\ r.cur \in Nat /\ Shape(r) /\ Registers(C, r)
      /\ (r.op # "turn" => AtWork(r))
  BY <1>1, <1>3, MachineFields DEF RegistersIs, Registers
<1>5. MachineInv(V, C, r)
  BY <1>2, <1>4, SteadyMachineInv
<1>6. Held(r) = Held(m) /\ \A p : LaneOf(r, p) = LaneOf(m, p)
  BY DEF RegistersIs, Held, LaneOf
<1> QED BY <1>3, <1>5, <1>6

\* The stage, the lanes and the index of a state between load and chain.
LEMMA StageMachineInv ==
  ASSUME NEW V, NEW C, NEW m, MachineInv(V, C, m), m.k \in States, m.st[m.k].stage \in Middle,
         NEW stage \in Middle, m.k = Residual => stage = "chain",
         NEW lane \in [Lanes -> V],
         NEW r, StateIs(r, m, m.k, stage, m.st[m.k].have, lane), m.op = "turn"
  PROVE  MachineInv(V, C, r) /\ Held(r) = Held(m)
<1>1. m \in Machines(V, C) /\ \A s \in States : m.st[s].lane \in [Lanes -> V]
  <2>1. m \in Machines(V, C)
    BY DEF MachineInv
  <2> QED BY <2>1, StateTyped
<1>2. Steady(V, r, m)
  <2>1. /\ r.done = m.done /\ \A s \in States \ {m.k} : r.st[s] = m.st[s]
        /\ r.st[m.k].stage = stage /\ r.st[m.k].have = m.st[m.k].have /\ r.st[m.k].lane = lane
    BY DEF StateIs, SameLocals, SameOthers
  <2>2. \A s \in States : r.st[s].have = m.st[s].have /\ r.st[s].lane \in [Lanes -> V]
    BY <1>1, <2>1
  <2>3. \A s \in States \ {Residual} :
          r.st[s].stage = m.st[s].stage \/ (r.st[s].stage \in Middle /\ m.st[s].stage \in Middle)
    BY <2>1
  <2>4. r.st[Residual].stage \in {"load", "chain"}
    BY <2>1, ResidualIsState DEF MachineInv
  <2> QED BY <2>1, <2>2, <2>3, <2>4 DEF Steady
<1>3. /\ r.k \in 0 .. (StateSize + 1) /\ r.cur \in Nat /\ Shape(r) /\ Registers(C, r)
      /\ r.op = "turn"
  BY <1>1, MachineFields DEF StateIs, SameLocals, Working4, Registers
<1>4. MachineInv(V, C, r)
  BY <1>2, <1>3, SteadyMachineInv
<1>5. Held(r) = Held(m)
  BY <1>2 DEF Steady, Held
<1> QED BY <1>4, <1>5

LEMMA IndexMachineInv ==
  ASSUME NEW V, NEW C, NEW m, MachineInv(V, C, m), m.op = "turn",
         NEW k \in 0 .. (StateSize + 1), NEW r, IndexIs(r, m, k)
  PROVE  MachineInv(V, C, r) /\ Held(r) = Held(m) /\ \A p : LaneOf(r, p) = LaneOf(m, p)
<1>1. m \in Machines(V, C) /\ \A s \in States : m.st[s].lane \in [Lanes -> V]
  <2>1. m \in Machines(V, C)
    BY DEF MachineInv
  <2> QED BY <2>1, StateTyped
<1>2. Steady(V, r, m)
  BY <1>1 DEF Steady, MachineInv, IndexIs
<1>3. /\ r.k \in 0 .. (StateSize + 1) /\ r.cur \in Nat /\ Shape(r) /\ Registers(C, r)
      /\ r.op = "turn"
  BY <1>1, MachineFields DEF IndexIs, Working4, Registers
<1>4. MachineInv(V, C, r)
  BY <1>2, <1>3, SteadyMachineInv
<1> QED BY <1>4 DEF IndexIs, Held, LaneOf

-----------------------------------------------------------------------------
(* The invariant of the loop with the lanes that are held in a set W: the   *)
(* tuples of the thread.                                                    *)
LoopInv(V, C, W, m) == MachineInv(V, C, m) /\ \A p \in Held(m) : LaneOf(m, p) \in W

\* With the same lanes held it is that of MachineInv.
LEMMA SameHeld ==
  ASSUME NEW V, NEW C, NEW W, NEW m, LoopInv(V, C, W, m), NEW r, MachineInv(V, C, r),
         \A s \in States : r.st[s].have = m.st[s].have
                           /\ (r.st[s].have # {} => r.st[s].lane = m.st[s].lane)
  PROVE  LoopInv(V, C, W, r)
<1>1. ASSUME NEW p \in Held(r) PROVE p \in Held(m) /\ LaneOf(r, p) = LaneOf(m, p)
  BY <1>1 DEF Held, LaneOf
<1> QED BY <1>1 DEF LoopInv

LEMMA StartLoopInv ==
  ASSUME NEW V, NEW C, NEW W, ZeroLane \in V, << >> \in C
  PROVE  LoopInv(V, C, W, ImvStart)
<1>1. \A s \in States : ImvStart.st[s].have = {}
  BY DEF ImvStart, States
<1>2. Held(ImvStart) = {}
  BY <1>1 DEF Held
<1> QED BY <1>2, StartMachineInv DEF LoopInv

LEMMA RetireLoopInv ==
  ASSUME NEW V, NEW C, NEW W, NEW m, LoopInv(V, C, W, m), m.op = "turn", NEW n, Retiring(m, n)
  PROVE  LoopInv(V, C, W, Retire(m)) /\ Retire(m).op = "turn"
<1>0. MachineInv(V, C, m) /\ m \in Machines(V, C)
  BY DEF LoopInv, MachineInv
<1>1. PICK r : r = Retire(m)
  OBVIOUS
<1>2. MachineInv(V, C, r)
  BY <1>0, <1>1, RetireMachineInv
<1>3. /\ SameOthers(r, m, {Rotated(m)}) /\ Rotated(m) \in States
      /\ r.st[Rotated(m)].have = m.st[Rotated(m)].have
      /\ r.st[Rotated(m)].lane = m.st[Rotated(m)].lane /\ Working4(r, m)
  BY <1>0, <1>1, RetireIs, RotatedIsState
<1>4. \A s \in States : r.st[s].have = m.st[s].have /\ r.st[s].lane = m.st[s].lane
  BY <1>3 DEF SameOthers
<1> QED BY <1>1, <1>2, <1>3, <1>4, SameHeld DEF Working4

\* The machine at the start of a turn.
LEMMA TurnLoopInv ==
  ASSUME NEW V, NEW C, NEW W, NEW m, LoopInv(V, C, W, m), m.op = "turn",
         NEW n, ~Retiring(m, n), NEW w, w = Turn(m, n, "chain")
  PROVE  /\ LoopInv(V, C, W, w) /\ Working4(w, m) /\ w.cur = m.cur /\ w.done = m.done
         /\ w.k \in States /\ w.k + 1 \in 0 .. (StateSize + 1) /\ w.op = "turn"
         /\ SameStages(w, m)
         /\ \A s \in States : w.st[s].have = m.st[s].have /\ w.st[s].lane = m.st[s].lane
         /\ w.k = Residual => w.done = StateSize /\ w.st[Residual].stage = "chain"
         /\ w.st[w.k].stage \in {"head", "chain"} => AtWork(w)
<1>0. MachineInv(V, C, m)
  BY DEF LoopInv
<1>1. /\ MachineInv(V, C, w) /\ Working4(w, m) /\ w.cur = m.cur /\ w.done = m.done
      /\ \A s \in States : w.st[s].have = m.st[s].have /\ w.st[s].lane = m.st[s].lane
      /\ w.k \in States /\ SameStages(w, m)
      /\ w.k = Residual => w.done = StateSize /\ w.st[Residual].stage = "chain"
  BY <1>0, TurnMachineInv
<1>2. LoopInv(V, C, W, w)
  BY <1>1, SameHeld
<1>3. w.st[w.k].stage \in {"head", "chain"} => AtWork(w)
  BY <1>1, TurnAtWork
<1> QED BY <1>1, <1>2, <1>3, ContinueIndex DEF Working4

LEMMA SkipLoopInv ==
  ASSUME NEW V, NEW C, NEW W, NEW w, LoopInv(V, C, W, w), w.op = "turn",
         NEW k \in 0 .. (StateSize + 1), NEW r, IndexIs(r, w, k)
  PROVE  LoopInv(V, C, W, r) /\ r.op = "turn"
<1>0. MachineInv(V, C, w)
  BY DEF LoopInv
<1>2. MachineInv(V, C, r)
  BY <1>0, IndexMachineInv
<1>3. \A s \in States : r.st[s].have = w.st[s].have /\ r.st[s].lane = w.st[s].lane
  BY DEF IndexIs
<1> QED BY <1>2, <1>3, SameHeld DEF IndexIs, Working4

LEMMA LoadLoopInv ==
  ASSUME NEW V, NEW C, NEW W, NEW w, LoopInv(V, C, W, w), w.op = "turn",
         w.k \in States \ {Residual}, w.st[w.k].stage = "load",
         NEW n \in Nat, NEW lanes \in [1 .. n -> V], \A j \in 1 .. n : lanes[j] \in W,
         NEW stage \in {"model", "head"},
         NEW r, r = Load(w, n, lanes, stage)
  PROVE  LoopInv(V, C, W, r) /\ r.op = "turn"
<1>0. MachineInv(V, C, w)
  BY DEF LoopInv
<1>a. MachineInv(V, C, r) /\ Working4(r, w) /\ Loads(r, w, n, lanes)
  BY <1>0, LoadMachineInv
<1>1. /\ MachineInv(V, C, r) /\ Working4(r, w)
      /\ SameOthers(r, w, {w.k})
      /\ \A i \in r.st[w.k].have : w.cur + i \in 1 .. n /\ r.st[w.k].lane[i] = lanes[w.cur + i]
  BY <1>a DEF Loads
<1>2. ASSUME NEW p \in Held(r) PROVE LaneOf(r, p) \in W
  <2>1. p \in States \X Lanes /\ p[2] \in r.st[p[1]].have
    BY DEF Held
  <2>2. CASE p[1] = w.k
    BY <1>1, <2>1, <2>2 DEF LaneOf
  <2>3. CASE p[1] # w.k
    <3>1. r.st[p[1]] = w.st[p[1]]
      BY <1>1, <2>1, <2>3 DEF SameOthers
    <3>2. p \in Held(w) /\ LaneOf(r, p) = LaneOf(w, p)
      BY <2>1, <3>1 DEF Held, LaneOf
    <3> QED BY <3>2 DEF LoopInv
  <2> QED BY <2>2, <2>3
<1> QED BY <1>1, <1>2 DEF LoopInv, Working4

LEMMA ContinueLoopInv ==
  ASSUME NEW V, NEW C, NEW W, ZeroLane \in V, NEW m, LoopInv(V, C, W, m), AtWork(m), m.op = "turn",
         NEW have \in SUBSET m.st[m.k].have, NEW step \in {0, 1},
         NEW r, r = Continue(m, have, "chain", step)
  PROVE  LoopInv(V, C, W, r) /\ Working4(r, m) /\ r.cur = m.cur
<1>0. MachineInv(V, C, m)
  BY DEF LoopInv
<1>1. MachineInv(V, C, r) /\ Working4(r, m) /\ r.cur = m.cur
  BY <1>0, ContinueMachineInv
<1>2. PICK f : Moved(r, m, have, f)
  BY <1>0, ContinueMoves
<1>3. \A p \in Kept(m, have) : LaneOf(m, p) \in W
  BY DEF LoopInv, Kept
<1>4. \A p \in Held(r) : LaneOf(r, p) \in W
  BY <1>2, <1>3, MovedHolds
<1> QED BY <1>1, <1>4 DEF LoopInv

LEMMA LanesLoopInv ==
  ASSUME NEW V, NEW C, NEW W, NEW w, LoopInv(V, C, W, w), w.op = "turn",
         w.k \in States, w.st[w.k].stage \in Middle,
         NEW stage \in Middle, w.k = Residual => stage = "chain",
         NEW lane \in [Lanes -> V], \A i \in w.st[w.k].have : lane[i] \in W,
         NEW r, StateIs(r, w, w.k, stage, w.st[w.k].have, lane)
  PROVE  LoopInv(V, C, W, r)
<1>0. MachineInv(V, C, w)
  BY DEF LoopInv
<1>1. MachineInv(V, C, r) /\ Held(r) = Held(w)
  BY <1>0, StageMachineInv
<1>2. ASSUME NEW p \in Held(r) PROVE LaneOf(r, p) \in W
  <2>1. p \in Held(w) /\ p[1] \in States /\ p[2] \in w.st[p[1]].have
    BY <1>1 DEF Held
  <2>2. CASE p[1] = w.k
    BY <2>1, <2>2 DEF StateIs, LaneOf
  <2>3. CASE p[1] # w.k
    <3>1. LaneOf(r, p) = LaneOf(w, p)
      BY <2>1, <2>3 DEF StateIs, SameOthers, LaneOf
    <3> QED BY <2>1, <3>1 DEF LoopInv
  <2> QED BY <2>2, <2>3
<1> QED BY <1>1, <1>2 DEF LoopInv

\* The second level of the model gives the lanes their buckets.
ModelPut(w, lane) ==
  [w EXCEPT !.k = w.k + 1, !.st[w.k].stage = "head", !.st[w.k].lane = lane]

LEMMA ModelLoopInv ==
  ASSUME NEW V, NEW C, NEW W, NEW w, LoopInv(V, C, W, w), w.op = "turn",
         w.k \in States \ {Residual}, w.st[w.k].stage = "model",
         NEW lane \in [Lanes -> V], \A i \in w.st[w.k].have : lane[i] \in W,
         NEW r, r = ModelPut(w, lane)
  PROVE  /\ LoopInv(V, C, W, r) /\ r.op = "turn" /\ Working4(r, w)
         /\ r.cur = w.cur /\ SameOthers(r, w, {w.k})
         /\ r.st[w.k].have = w.st[w.k].have /\ r.st[w.k].lane = lane
         /\ r.st[w.k].stage = "head"
<1>0. MachineInv(V, C, w) /\ Shape(w)
  BY MachineShape DEF LoopInv, MachineInv
<1>1. PICK s \in States, head \in Middle : s = w.k /\ head = "head"
  BY DEF Middle
<1>2. PICK a : a = StagePut(w, s, head)
  OBVIOUS
<1>3. StateIs(a, w, s, head, w.st[s].have, w.st[s].lane)
  BY <1>0, <1>2, StageSet
<1>4. Shape(a)
  BY <1>3 DEF StateIs
<1>5. PICK b : b = LanePut(a, s, lane)
  OBVIOUS
<1>6. StateIs(b, a, s, a.st[s].stage, a.st[s].have, lane)
  BY <1>4, <1>5, LaneSet
<1>7. StateIs(b, w, w.k, head, w.st[w.k].have, lane)
  BY <1>1, <1>3, <1>6 DEF StateIs, SameLocals, SameOthers, Working4
<1>8. LoopInv(V, C, W, b)
  BY <1>1, <1>7, LanesLoopInv DEF Middle
<1>9. b.op = "turn" /\ b.k = w.k /\ w.k + 1 \in 0 .. (StateSize + 1)
  BY <1>7, ContinueIndex DEF StateIs, SameLocals, Working4
<1>10. r = [b EXCEPT !.k = w.k + 1]
  BY <1>0, <1>1, <1>2, <1>5 DEF ModelPut, StagePut, LanePut, Shape, Fields
<1>11. PICK k \in 0 .. (StateSize + 1) : k = w.k + 1
  BY <1>9
<1>12. IndexIs(r, b, k)
  <2>1. Shape(b) /\ r = IndexPut(b, k)
    BY <1>7, <1>10, <1>11 DEF StateIs, IndexPut
  <2> QED BY <2>1, IndexSet
<1>13. b.op = "turn"
  BY <1>9
<1>14. LoopInv(V, C, W, r) /\ r.op = "turn"
  BY <1>8, <1>12, <1>13, SkipLoopInv
<1>15. /\ r.cur = w.cur /\ SameOthers(r, w, {w.k})
       /\ r.st[w.k].have = w.st[w.k].have /\ r.st[w.k].lane = lane
       /\ r.st[w.k].stage = "head"
  BY <1>1, <1>7, <1>12 DEF StateIs, SameLocals, SameOthers, IndexIs
<1> QED BY <1>7, <1>12, <1>14, <1>15 DEF StateIs, SameLocals, IndexIs, Working4

LEMMA RegistersLoopInv ==
  ASSUME NEW V, NEW C, NEW W, NEW m, LoopInv(V, C, W, m), NEW op \in {"turn", "gather", "scatter"},
         NEW left \in SUBSET Lanes, NEW chosen \in SUBSET Lanes, NEW next \in [Lanes -> C],
         op = "turn" \/ AtWork(m),
         NEW r, r = RegistersPut(m, op, left, chosen, next)
  PROVE  LoopInv(V, C, W, r) /\ RegistersIs(r, m, op, left, chosen, next) /\ (AtWork(m) => AtWork(r))
<1>0. MachineInv(V, C, m) /\ Shape(m)
  BY MachineShape DEF LoopInv, MachineInv
<1>1. RegistersIs(r, m, op, left, chosen, next)
  BY <1>0, RegistersSet
<1>2. MachineInv(V, C, r) /\ (AtWork(m) => AtWork(r)) /\ Held(r) = Held(m)
      /\ \A p : LaneOf(r, p) = LaneOf(m, p)
  BY <1>0, <1>1, RegistersMachineInv
<1> QED BY <1>1, <1>2 DEF LoopInv

\* A gather that chose no lane ends in the stage of the chains.
SameMasks(r, m) ==
  \A s \in States : r.st[s].have = m.st[s].have /\ r.st[s].lane = m.st[s].lane
NonePut(m) == [m EXCEPT !.op = "turn", !.st[m.k].stage = "chain"]

LEMMA NoneChosenLoopInv ==
  ASSUME NEW V, NEW C, NEW W, NEW m, LoopInv(V, C, W, m), AtWork(m),
         NEW r, r = NonePut(m)
  PROVE  /\ LoopInv(V, C, W, r) /\ r.op = "turn" /\ r.k = m.k /\ r.cur = m.cur
         /\ r.left = m.left /\ r.chosen = m.chosen /\ r.next = m.next
         /\ SameMasks(r, m) /\ SameOthers(r, m, {m.k}) /\ r.st[m.k].stage = "chain"
<1>0. MachineInv(V, C, m) /\ m \in Machines(V, C) /\ Shape(m)
  BY MachineShape DEF LoopInv, MachineInv
<1>1. PICK turn \in {"turn", "gather", "scatter"}, chain \in Middle, s \in States :
        turn = "turn" /\ chain = "chain" /\ s = m.k
  BY DEF AtWork, Middle
<1>2. PICK a : a = RegistersPut(m, turn, m.left, m.chosen, m.next)
  OBVIOUS
<1>3. LoopInv(V, C, W, a) /\ RegistersIs(a, m, turn, m.left, m.chosen, m.next)
  <2>1. m.left \in SUBSET Lanes /\ m.chosen \in SUBSET Lanes /\ m.next \in [Lanes -> C]
    BY <1>0, MachineFields
  <2>2. PICK left \in SUBSET Lanes, chosen \in SUBSET Lanes, next \in [Lanes -> C] :
          left = m.left /\ chosen = m.chosen /\ next = m.next
    BY <2>1
  <2>3. a = RegistersPut(m, turn, left, chosen, next)
    BY <1>2, <2>2
  <2> QED BY <1>1, <2>2, <2>3, RegistersLoopInv
<1>4. a.k = s /\ a.op = "turn" /\ a.st = m.st /\ Shape(a) /\ a.cur = m.cur
      /\ a.left = m.left /\ a.chosen = m.chosen /\ a.next = m.next
  BY <1>1, <1>3 DEF RegistersIs
<1>5. PICK b : b = StagePut(a, s, chain)
  OBVIOUS
<1>6. StateIs(b, a, s, chain, a.st[s].have, a.st[s].lane)
  BY <1>4, <1>5, StageSet
<1>7. /\ a.st[a.k].lane \in [Lanes -> V] /\ a.st[a.k].stage \in Middle
      /\ \A i \in a.st[a.k].have : a.st[a.k].lane[i] \in W
  <2>1. m.st[s].lane \in [Lanes -> V] /\ m.st[s].have \in SUBSET Lanes
    BY <1>0, StateTyped
  <2>2. \A i \in m.st[s].have : <<s, i>> \in Held(m) /\ LaneOf(m, <<s, i>>) = m.st[s].lane[i]
    BY <2>1 DEF Held, LaneOf
  <2> QED BY <1>1, <1>4, <2>1, <2>2 DEF LoopInv, AtWork, Middle
<1>8. LoopInv(V, C, W, b)
  <2>1. PICK lane \in [Lanes -> V] : lane = a.st[a.k].lane
    BY <1>7
  <2>2. StateIs(b, a, a.k, chain, a.st[a.k].have, lane) /\ a.k \in States
    BY <1>4, <1>6, <2>1
  <2> QED BY <1>1, <1>3, <1>4, <1>7, <2>1, <2>2, LanesLoopInv
<1>9. b = [[m EXCEPT !.op = "turn"] EXCEPT !.st[s].stage = "chain"]
  <2>1. a = [m EXCEPT !.op = "turn"]
    BY <1>0, <1>1, <1>2 DEF RegistersPut, Shape, Fields
  <2> QED BY <1>1, <1>5, <2>1 DEF StagePut
<1>10. b = r
  BY <1>1, <1>9 DEF NonePut
<1>11. SameMasks(r, m) /\ SameOthers(r, m, {m.k}) /\ r.st[m.k].stage = "chain"
  BY <1>1, <1>4, <1>6, <1>10 DEF StateIs, SameOthers, SameMasks
<1> QED BY <1>1, <1>4, <1>6, <1>8, <1>10, <1>11 DEF StateIs, SameLocals, Working4

-----------------------------------------------------------------------------
\* What a step does to the part of the state the theorems are about.
UsesOnly == UNCHANGED <<setup, phase, at, called, hash_pf_num, ht, live, args_ht, latch>>

\* A step of a vector loop, or of main.
Quiet == UsesOnly /\ UNCHANGED scalar

\* The end of a build, a probe or the pause before one.
Finish(t) ==
  /\ phase[t].pc \in {"build", "probe", "ready"} /\ at[t] = "work"
  /\ at' = [at EXCEPT ![t] = "arrive"]
  /\ UNCHANGED <<setup, phase, called, hash_pf_num, ht, live, args_ht, latch, scalar>>

Locking(t) == Lock(t) \/ Claim(t) \/ Store(t) \/ Unlock(t) \/ ProbeTuple(t)
Phasing(t) == SetFunctions(t) \/ Allocate(t) \/ Fetch(t) \/ Release(t)

LEMMA StepKinds ==
  Next => \/ Quiet
          \/ \E t \in Threads : Finish(t) \/ Locking(t) \/ Phasing(t) \/ Arrive(t)
<1> SUFFICES ASSUME Next
             PROVE  \/ Quiet
                    \/ \E t \in Threads : Finish(t) \/ Locking(t) \/ Phasing(t) \/ Arrive(t)
  OBVIOUS
<1> USE DEF Quiet, UsesOnly, Finish, shared, table, locals
<1>1. CASE MainJoins
  BY <1>1 DEF MainJoins
<1>2. CASE Ended
  BY <1>2 DEF Ended, vars
<1>3. ASSUME NEW t \in Threads, Loop(t) PROVE Quiet \/ Finish(t)
  <2>1. CASE ImvRetire(t)
    BY <2>1 DEF ImvRetire, Inside, ImvOnly
  <2>2. CASE ImvLeave(t)
    BY <2>2 DEF ImvLeave, InLoop, Done
  <2>3. CASE ImvSkip(t)
    BY <2>3 DEF ImvSkip, Inside, ImvOnly
  <2>4. CASE ImvLoad(t)
    BY <2>4 DEF ImvLoad, Inside, ImvOnly
  <2>5. CASE LearnedLoad(t)
    BY <2>5 DEF LearnedLoad, Inside, ImvOnly
  <2>6. CASE ImvModel(t)
    BY <2>6 DEF ImvModel, Inside, ImvOnly
  <2> QED BY <1>3, <2>1, <2>2, <2>3, <2>4, <2>5, <2>6 DEF Loop
<1>4. ASSUME NEW t \in Threads, VectorBuild(t) PROVE Quiet \/ Finish(t)
  <2>1. CASE GatherStart(t)
    BY <2>1 DEF GatherStart, Inside, ImvOnly
  <2>2. CASE Gathered(t)
    BY <2>2 DEF Gathered, Inside, ImvOnly
  <2>3. CASE Scattered(t)
    BY <2>3 DEF Scattered, Inside, ImvOnly
  <2>4. ASSUME NEW i \in Lanes, GatherHead(t, i) PROVE Quiet
    BY <2>4 DEF GatherHead, Inside, ImvOnly
  <2>5. ASSUME NEW i \in Lanes, GatherNext(t, i) PROVE Quiet
    BY <2>5 DEF GatherNext, Inside, ImvOnly
  <2>6. ASSUME NEW i \in Lanes, ScatterHead(t, i) PROVE Quiet
    BY <2>6 DEF ScatterHead, Inside, ImvOnly
  <2>7. ASSUME NEW i \in Lanes, ScatterNext(t, i) PROVE Quiet
    BY <2>7 DEF ScatterNext, Inside, ImvOnly
  <2> HIDE DEF Quiet, Finish
  <2> QED BY <1>3, <1>4, <2>1, <2>2, <2>3, <2>4, <2>5, <2>6, <2>7 DEF VectorBuild
<1>5. ASSUME NEW t \in Threads, VectorProbe(t) PROVE Quiet \/ Finish(t)
  <2>1. CASE ProbeHead(t)
    BY <2>1 DEF ProbeHead, Inside, ImvOnly
  <2>2. CASE ProbeChain(t)
    BY <2>2 DEF ProbeChain, Inside, ImvOnly
  <2> HIDE DEF Quiet, Finish
  <2> QED BY <1>3, <1>5, <2>1, <2>2 DEF VectorProbe
<1>6. ASSUME NEW t \in Threads, ScalarBuild(t) PROVE Finish(t) \/ Locking(t)
  <2>1. CASE ScalarBuilt(t)
    BY <2>1 DEF ScalarBuilt, BuildWith, Working, BuildOnly, Done
  <2> QED BY <1>6, <2>1 DEF ScalarBuild, Locking
<1>7. ASSUME NEW t \in Threads, ScalarProbe(t) PROVE Finish(t) \/ Locking(t)
  <2>1. CASE ScalarProbed(t)
    BY <2>1 DEF ScalarProbed, Working, Done
  <2> QED BY <1>7, <2>1 DEF ScalarProbe, Locking
<1>8. ASSUME NEW t \in Threads, Ready(t) PROVE Finish(t)
  BY <1>8 DEF Ready, Working, Done
<1> HIDE DEF Quiet, Finish
<1>9. ASSUME NEW t \in Threads, hash_pfun(t) \/ hash_pfun1(t)
      PROVE  Quiet \/ Finish(t) \/ Locking(t)
  BY <1>4, <1>5, <1>6, <1>7, <1>9
     DEF hash_pfun, hash_pfun1, hash_build_rel_r_partition,
         hash_build_rel_r_partition_imv, hash_build_rel_r_partition_learned,
         hash_build_rel_r_partition_learned_imv, hash_probe_rel_s_partition,
         hash_probe_rel_s_partition_imv, hash_probe_rel_s_partition_learned,
         hash_probe_rel_s_partition_learned_imv
<1> QED BY <1>1, <1>2, <1>8, <1>9 DEF Next, hash_thread, Phasing

-----------------------------------------------------------------------------
(* The inductive invariant. *)
PCs == {"setup", "allocate", "fetch", "build", "release", "ready", "probe", "end"}

ControlOK ==
  /\ setup \in Setups
  /\ phase \in [Threads -> [pc : PCs, run : Nat]]
  /\ at \in [Threads -> {"work", "arrive", "wait"}]
  /\ ht \in Nat /\ args_ht \in [Threads -> Nat]
  /\ latch \in [Heads -> Threads \union {Free}]

\* The locals of a tuple-at-a-time loop; a slot may be any.
ScalarOK ==
  /\ scalar = [t \in Threads |-> scalar[t]]
  /\ \A t \in Threads :
       /\ scalar[t].i \in Nat
       /\ scalar[t] = [i |-> scalar[t].i, step |-> scalar[t].step,
                       over |-> scalar[t].over, slot |-> scalar[t].slot]

\* The threads go from barrier to barrier together, and the barrier counts
\* those that wait in it.
Waiting == {t \in Threads : at[t] = "wait"}
Together ==
  /\ \A t, u \in Threads : phase[t] = phase[u]
  /\ called = Cardinality(Waiting)

\* Past the test and set, the latch names the thread.
Latched ==
  \A t \in Threads : scalar[t].step # "lock" =>
    phase[t].pc = "build" /\ latch[Bucket(t)] = t

LatchInv == ControlOK /\ ScalarOK /\ Together /\ Latched

LEMMA SetupFacts ==
  ASSUME ControlOK
  PROVE  /\ setup.threads \in Nat \ {0} /\ setup.n \in Nat
         /\ setup.idx \in [1 .. setup.n -> Heads]
         /\ 0 \in Threads
         /\ IsFiniteSet(Threads) /\ Cardinality(Threads) = setup.threads
<1>1. /\ setup.threads \in Nat \ {0} /\ setup.n \in Nat
      /\ setup.idx \in [1 .. setup.n -> Heads]
  BY SetupsAssumption DEF ControlOK
<1>2. 0 \in Threads
  BY <1>1 DEF Threads
<1>3. IsFiniteSet(Threads) /\ Cardinality(Threads) = setup.threads
  BY SMTT(30), <1>1, FS_Interval DEF Threads
<1> QED BY <1>1, <1>2, <1>3

\* m parts of n \div m elements, and the elements of part t.
LEMMA EqualParts ==
  ASSUME NEW n \in Nat, NEW m \in Nat \ {0}, NEW t \in Nat, t + 1 <= m
  PROVE  /\ n \div m \in Nat /\ (n \div m) * t \in Nat
         /\ (n \div m) * t + (n \div m) <= n
<1> DEFINE q == n \div m
<1>1. q \in Nat /\ q * m <= n
  OBVIOUS
<1> HIDE DEF q
<1>2. q * (t + 1) <= q * m /\ q * (t + 1) = q * t + q /\ q * t \in Nat /\ q * m \in Nat
  BY <1>1
<1>3. q * t + q <= n
  BY <1>1, <1>2
<1> QED BY <1>1, <1>2, <1>3 DEF q

\* The equal parts lie in R, so the tuple a loop is at has a bucket.
LEMMA TupleInPart ==
  ASSUME ControlOK, ScalarOK, NEW t \in Threads, scalar[t].i < NumTuples(t)
  PROVE  Bucket(t) \in Heads
<1> DEFINE q == setup.n \div setup.threads
<1>1. /\ setup.threads \in Nat \ {0} /\ setup.n \in Nat
      /\ setup.idx \in [1 .. setup.n -> Heads]
      /\ t \in Nat /\ t + 1 <= setup.threads /\ scalar[t].i \in Nat
  <2>1. /\ setup.threads \in Nat \ {0} /\ setup.n \in Nat
        /\ setup.idx \in [1 .. setup.n -> Heads]
    BY SetupFacts
  <2>2. t \in Nat /\ t + 1 <= setup.threads
    BY <2>1 DEF Threads
  <2>3. scalar[t].i \in Nat
    BY DEF ScalarOK
  <2> QED BY <2>1, <2>2, <2>3
<1>2. q \in Nat /\ q * t \in Nat /\ q * t + q <= setup.n
  <2> HIDE DEF q
  <2>1. \A n \in Nat, m \in Nat \ {0}, u \in Nat : u + 1 <= m =>
          n \div m \in Nat /\ (n \div m) * u \in Nat /\ (n \div m) * u + (n \div m) <= n
    BY EqualParts
  <2> QED BY <1>1, <2>1 DEF q
<1> HIDE DEF q
<1>3. First(t) = q * t
  BY DEF First, numRthr, q
<1>4. NumTuples(t) = IF t = setup.threads - 1 THEN setup.n - q * t ELSE q
  BY DEF NumTuples, numRthr, q
<1>5. q * t + scalar[t].i + 1 \in 1 .. setup.n
  <2> DEFINE a == q * t
             i == scalar[t].i
             n == setup.n
  <2>1. a \in Nat /\ i \in Nat /\ n \in Nat /\ a + q <= n /\ q \in Nat
    BY <1>1, <1>2
  <2>2. i < n - a \/ i < q
    BY <1>4
  <2> HIDE DEF a, i, n
  <2>3. a + i + 1 \in 1 .. n
    BY <2>1, <2>2
  <2> QED BY <2>3 DEF a, i, n
<1> QED BY <1>1, <1>3, <1>5 DEF Bucket, Tuple

\* The barrier opens only when every thread has done its work.
LEMMA AllDone ==
  ASSUME ControlOK, Together, NEW t \in Threads, at[t] = "arrive",
         called + 1 = setup.threads
  PROVE  \A u \in Threads : at[u] # "work"
<1>1. IsFiniteSet(Threads) /\ Cardinality(Threads) = setup.threads /\ setup.threads \in Nat
  BY SetupFacts
<1>2. IsFiniteSet(Threads \ {t}) /\ Cardinality(Threads \ {t}) = setup.threads - 1
  BY <1>1, FS_RemoveElement
<1>3. Waiting \in SUBSET (Threads \ {t})
  BY DEF Waiting
<1>4. Cardinality(Waiting) = called /\ Cardinality(Waiting) \in Nat
  BY <1>2, <1>3, FS_Subset, FS_CardinalityType DEF Together
<1>5. Waiting = Threads \ {t}
  BY <1>1, <1>2, <1>3, <1>4, FS_Subset
<1> QED BY <1>5 DEF Waiting

-----------------------------------------------------------------------------
\* With the same setup, the threads and the parts are the same.
LEMMA SameSetup ==
  ASSUME setup' = setup
  PROVE  /\ Threads' = Threads
         /\ \A t : scalar'[t].i = scalar[t].i => Bucket(t)' = Bucket(t)
         /\ at' = at => Waiting' = Waiting
BY DEF Threads, Bucket, Tuple, First, numRthr, Waiting

\* A thread that is done with its work is not waiting yet.
LEMMA DoneKeeps ==
  ASSUME ControlOK, NEW t \in Threads, at[t] = "work", setup' = setup,
         at' = [at EXCEPT ![t] = "arrive"]
  PROVE  /\ at' \in [Threads -> {"work", "arrive", "wait"}]
         /\ Waiting' = Waiting
<1>1. at' \in [Threads -> {"work", "arrive", "wait"}]
  BY DEF ControlOK
<1>2. \A u \in Threads : at'[u] = "wait" <=> at[u] = "wait"
  BY DEF ControlOK
<1> QED BY <1>1, <1>2, SameSetup DEF Waiting

LEMMA InitLatchInv == Init => LatchInv
<1> SUFFICES ASSUME Init PROVE LatchInv
  OBVIOUS
<1>1. ControlOK
  BY DEF Init, ControlOK, At, PCs
<1>2. ScalarOK
  BY DEF Init, ScalarOK, ScalarStart
<1>3. Together
  <2>1. Waiting = {}
    BY DEF Init, Waiting
  <2> QED BY <2>1, FS_EmptySet DEF Init, Together
<1>4. Latched
  BY DEF Init, Latched, ScalarStart
<1> QED BY <1>1, <1>2, <1>3, <1>4 DEF LatchInv

\* Steps that leave the locals and the latches alone.
LEMMA QuietLatchInv == LatchInv /\ Quiet => LatchInv'
<1> SUFFICES ASSUME LatchInv, Quiet PROVE LatchInv'
  OBVIOUS
<1> USE DEF Quiet, UsesOnly
<1>1. ControlOK'
  BY SameSetup DEF LatchInv, ControlOK
<1>2. ScalarOK'
  BY SameSetup DEF LatchInv, ScalarOK
<1>3. Together'
  BY SameSetup DEF LatchInv, Together
<1>4. Latched'
  BY SameSetup DEF LatchInv, Latched
<1> QED BY <1>1, <1>2, <1>3, <1>4 DEF LatchInv

LEMMA FinishLatchInv ==
  ASSUME LatchInv, NEW t \in Threads, Finish(t)
  PROVE  LatchInv'
<1> USE DEF Finish
<1>1. at' \in [Threads -> {"work", "arrive", "wait"}] /\ Waiting' = Waiting
  BY DoneKeeps DEF LatchInv
<1>2. ControlOK'
  BY <1>1, SameSetup DEF LatchInv, ControlOK
<1>3. ScalarOK'
  BY SameSetup DEF LatchInv, ScalarOK
<1>4. Together'
  BY <1>1, SameSetup DEF LatchInv, Together
<1>5. Latched'
  BY SameSetup DEF LatchInv, Latched
<1> QED BY <1>2, <1>3, <1>4, <1>5 DEF LatchInv

\* The latches are reset between two barriers, when no thread builds.
LEMMA PhasingLatchInv ==
  ASSUME LatchInv, NEW t \in Threads, Phasing(t)
  PROVE  LatchInv'
<1>0. ControlOK /\ ScalarOK /\ Together /\ Latched
  BY DEF LatchInv
<1>1. /\ at[t] = "work" /\ at' = [at EXCEPT ![t] = "arrive"]
      /\ UNCHANGED <<setup, phase, called, scalar>>
  BY DEF Phasing, SetFunctions, Allocate, Fetch, Release, Working, Done, locals
<1>2. at' \in [Threads -> {"work", "arrive", "wait"}] /\ Waiting' = Waiting
  BY <1>0, <1>1, DoneKeeps
<1>3. ht' \in Nat /\ args_ht' \in [Threads -> Nat]
  <2>1. ht' = ht \/ ht' = phase[t].run + 1
    BY DEF Phasing, SetFunctions, Allocate, Fetch, Release, shared
  <2>2. args_ht' = args_ht \/ args_ht' = [args_ht EXCEPT ![t] = ht]
    BY DEF Phasing, SetFunctions, Allocate, Fetch, Release, shared
  <2> QED BY <1>0, <2>1, <2>2 DEF ControlOK
<1>4. latch' = latch \/ (phase[t].pc = "allocate" /\ latch' = [b \in Heads |-> Free])
  BY DEF Phasing, SetFunctions, Allocate, Fetch, Release, Working, shared, table
<1>5. ControlOK'
  BY <1>0, <1>1, <1>2, <1>3, <1>4, SameSetup DEF ControlOK
<1>6. ScalarOK'
  BY <1>0, <1>1, SameSetup DEF ScalarOK
<1>7. Together'
  BY <1>0, <1>1, <1>2, SameSetup DEF Together
<1>8. Latched'
  <2>1. CASE latch' = latch
    BY <2>1, <1>0, <1>1, SameSetup DEF Latched
  <2>2. CASE phase[t].pc = "allocate"
    <3>1. \A u \in Threads : scalar[u].step = "lock"
      BY <2>2, <1>0 DEF Together, Latched
    <3> QED BY <3>1, <1>1, SameSetup DEF Latched
  <2> QED BY <2>1, <2>2, <1>4
<1> QED BY <1>5, <1>6, <1>7, <1>8 DEF LatchInv

\* The locals as a record.
Rec(i, step, over, slot) == [i |-> i, step |-> step, over |-> over, slot |-> slot]
\* One round of a tuple-at-a-time loop: the latch is taken when it is free and
\* given back by the thread it names.
LEMMA LockingLatchInv ==
  ASSUME LatchInv, NEW t \in Threads, Locking(t)
  PROVE  LatchInv'
<1>0. ControlOK /\ ScalarOK /\ Together /\ Latched
  BY DEF LatchInv
<1>1. UNCHANGED <<setup, phase, at, called, ht, args_ht>>
  BY DEF Locking, Lock, Claim, Store, Unlock, ProbeTuple, Inside, BuildOnly, ProbeOnly, shared
<1>2. Together'
  BY <1>0, <1>1, SameSetup DEF Together
<1>3. /\ scalar = [u \in Threads |-> scalar[u]] /\ scalar[t].i \in Nat
      /\ scalar[t] = [i |-> scalar[t].i, step |-> scalar[t].step,
                      over |-> scalar[t].over, slot |-> scalar[t].slot]
  BY <1>0 DEF ScalarOK
<1>rec. scalar[t] = Rec(scalar[t].i, scalar[t].step, scalar[t].over, scalar[t].slot)
  BY <1>3 DEF Rec
<1>next. scalar[t].i + 1 \in Nat
  BY <1>3
\* How the locals of the thread may change.
<1> DEFINE Locals(r) == scalar' = [scalar EXCEPT ![t] = r]
<1>4. ASSUME NEW r, NEW i \in Nat, NEW step, NEW over, NEW slot,
             r = Rec(i, step, over, slot), Locals(r)
      PROVE  /\ ScalarOK'
             /\ scalar'[t].i = i /\ scalar'[t].step = step
             /\ \A u \in Threads \ {t} : scalar'[u] = scalar[u]
  <2>1. scalar'[t] = r /\ \A u \in Threads \ {t} : scalar'[u] = scalar[u]
    BY <1>3, <1>4 DEF Rec
  <2>2. scalar' = [u \in Threads |-> scalar'[u]]
    BY <1>3, <1>4
  <2>3. r.i = i /\ r.step = step /\ r = [i |-> r.i, step |-> r.step, over |-> r.over, slot |-> r.slot]
    BY <1>4 DEF Rec
  <2>4. Threads' = Threads
    BY <1>1, SameSetup
  <2>5. ScalarOK'
    BY <1>0, <2>1, <2>2, <2>3, <2>4 DEF ScalarOK
  <2> QED BY <2>1, <2>3, <2>5
<1>5. CASE Lock(t)
  <2>1. Locals(Rec(scalar[t].i, "claim", scalar[t].over, scalar[t].slot))
    <3>1. Locals([scalar[t] EXCEPT !.step = "claim"])
      BY <1>5 DEF Lock
    <3>2. [scalar[t] EXCEPT !.step = "claim"]
            = Rec(scalar[t].i, "claim", scalar[t].over, scalar[t].slot)
      BY <1>rec DEF Rec
    <3> QED BY <3>1, <3>2
  <2>2. /\ phase[t].pc = "build" /\ latch[Bucket(t)] = Free /\ Bucket(t) \in Heads
        /\ latch' = [latch EXCEPT ![Bucket(t)] = t]
    BY <1>0, <1>5, TupleInPart DEF Lock, AtStep, BuildWith, Working, TestAndSet
  <2>3. ScalarOK' /\ scalar'[t].i = scalar[t].i /\ \A u \in Threads \ {t} : scalar'[u] = scalar[u]
    BY <1>3, <1>4, <2>1
  <2>4. ControlOK'
    BY <1>0, <1>1, <2>2, SameSetup DEF ControlOK
  <2>5. latch'[Bucket(t)'] = t
    BY <1>0, <1>1, <2>2, <2>3, SameSetup DEF ControlOK
  <2>6. ASSUME NEW u \in Threads \ {t}, scalar[u].step # "lock"
        PROVE  phase'[u].pc = "build" /\ latch'[Bucket(u)'] = u
    <3>1. phase[u].pc = "build" /\ latch[Bucket(u)] = u /\ Bucket(u)' = Bucket(u)
      BY <1>0, <1>1, <2>3, <2>6, SameSetup DEF Latched
    <3>2. u \in Nat
      BY <1>0, SetupFacts DEF Threads
    <3>3. Bucket(u) # Bucket(t)
      BY <2>2, <3>1, <3>2, BoundsAssumption
    <3> QED BY <1>0, <1>1, <2>2, <3>1, <3>3 DEF ControlOK
  <2>7. Latched'
    BY <1>1, <2>2, <2>3, <2>5, <2>6, SameSetup DEF Latched
  <2> QED BY <1>2, <2>3, <2>4, <2>7 DEF LatchInv
<1>6. CASE Unlock(t)
  <2>1. Locals(Rec(scalar[t].i + 1, "lock", FALSE, 1))
    <3> DEFINE n == scalar[t].i + 1
    <3>1. Locals([ScalarStart EXCEPT !.i = n])
      BY <1>6 DEF Unlock
    <3> HIDE DEF n
    <3> DEFINE over == FALSE
    <3>2. ScalarStart = Rec(0, "lock", over, 1)
      BY DEF ScalarStart, Rec
    <3> HIDE DEF over
    <3>3. [ScalarStart EXCEPT !.i = n] = Rec(n, "lock", over, 1)
      BY <3>2 DEF Rec
    <3> QED BY <3>1, <3>3 DEF n, over
  <2>2. latch' = [latch EXCEPT ![Bucket(t)] = Free] /\ scalar[t].step # "lock"
    BY <1>6 DEF Unlock, AtStep
  <2>3. ScalarOK' /\ scalar'[t].step = "lock" /\ \A u \in Threads \ {t} : scalar'[u] = scalar[u]
    <3> DEFINE n == scalar[t].i + 1
    <3>1. n \in Nat /\ Locals(Rec(n, "lock", FALSE, 1))
      BY <1>next, <2>1
    <3> HIDE DEF n, Locals
    <3> QED BY <1>4, <3>1
  <2>4. ControlOK'
    BY <1>0, <1>1, <2>2, SameSetup DEF ControlOK
  <2>5. ASSUME NEW u \in Threads \ {t}, scalar[u].step # "lock"
        PROVE  phase'[u].pc = "build" /\ latch'[Bucket(u)'] = u
    <3>1. /\ phase[u].pc = "build" /\ latch[Bucket(u)] = u /\ Bucket(u)' = Bucket(u)
          /\ latch[Bucket(t)] = t
      BY <1>0, <1>1, <2>2, <2>3, <2>5, SameSetup DEF Latched
    <3> QED BY <1>0, <1>1, <2>2, <3>1 DEF ControlOK
  <2>6. Latched'
    BY <1>1, <2>3, <2>5, SameSetup DEF Latched
  <2> QED BY <1>2, <2>3, <2>4, <2>6 DEF LatchInv
<1>7. CASE Claim(t) \/ Store(t) \/ ProbeTuple(t)
  <2>1. latch' = latch
    BY <1>7 DEF Claim, Store, ProbeTuple, ProbeOnly, table
  <2>2. ControlOK'
    BY <1>0, <1>1, <2>1, SameSetup DEF ControlOK
  <2>3. CASE ProbeTuple(t)
    <3>1. Locals(Rec(scalar[t].i + 1, scalar[t].step, scalar[t].over, scalar[t].slot))
      <4>1. Locals([scalar[t] EXCEPT !.i = scalar[t].i + 1])
        BY <2>3 DEF ProbeTuple
      <4>2. [scalar[t] EXCEPT !.i = scalar[t].i + 1]
              = Rec(scalar[t].i + 1, scalar[t].step, scalar[t].over, scalar[t].slot)
        BY <1>rec DEF Rec
      <4> QED BY <4>1, <4>2
    <3>2. /\ ScalarOK' /\ scalar'[t].step = scalar[t].step
          /\ \A u \in Threads \ {t} : scalar'[u] = scalar[u]
      <4> DEFINE n == scalar[t].i + 1
      <4>1. n \in Nat /\ Locals(Rec(n, scalar[t].step, scalar[t].over, scalar[t].slot))
        BY <1>next, <3>1
      <4> HIDE DEF n, Locals
      <4> QED BY <1>4, <4>1
    <3>3. phase[t].pc # "build"
      BY <2>3 DEF ProbeTuple, Working
    <3>4. Latched'
      BY <1>0, <1>1, <2>1, <3>2, <3>3, SameSetup DEF Latched
    <3> QED BY <1>2, <2>2, <3>2, <3>4 DEF LatchInv
  <2>4. CASE Claim(t) \/ Store(t)
    <3>1. \E step, over, slot : Locals(Rec(scalar[t].i, step, over, slot))
      <4>1. CASE Claim(t)
        <5> DEFINE Dest(over, slot) ==
                     [[[scalar[t] EXCEPT !.step = "store"] EXCEPT !.over = over] EXCEPT !.slot = slot]
        <5>1. PICK over, slot : Locals(Dest(over, slot))
          <6>1. \E over, slot :
                  scalar' = [scalar EXCEPT ![t].step = "store", ![t].over = over, ![t].slot = slot]
            BY <4>1 DEF Claim
          <6>2. PICK over, slot :
                  scalar' = [scalar EXCEPT ![t].step = "store", ![t].over = over, ![t].slot = slot]
            BY <6>1
          <6>3. Locals(Dest(over, slot))
            BY <6>2, <1>3
          <6> QED BY <6>3
        <5> DEFINE r == [scalar[t] EXCEPT !.step = "store"]
                   q == [r EXCEPT !.over = over]
        <5>2. r = Rec(scalar[t].i, "store", scalar[t].over, scalar[t].slot)
          BY <1>rec DEF Rec
        <5> HIDE DEF r
        <5>3. q = Rec(scalar[t].i, "store", over, scalar[t].slot)
          BY <5>2 DEF Rec
        <5> HIDE DEF q
        <5>4. [q EXCEPT !.slot = slot] = Rec(scalar[t].i, "store", over, slot)
          BY <5>3 DEF Rec
        <5> QED BY <5>1, <5>4 DEF r, q
      <4>2. CASE Store(t)
        <5>1. Locals([scalar[t] EXCEPT !.step = "unlock"])
          BY <4>2 DEF Store
        <5>2. [scalar[t] EXCEPT !.step = "unlock"]
                = Rec(scalar[t].i, "unlock", scalar[t].over, scalar[t].slot)
          BY <1>rec DEF Rec
        <5> QED BY <5>1, <5>2
      <4> QED BY <2>4, <4>1, <4>2
    <3>2. PICK step, over, slot : Locals(Rec(scalar[t].i, step, over, slot))
      BY <3>1
    <3>3. /\ ScalarOK' /\ scalar'[t].i = scalar[t].i
          /\ \A u \in Threads \ {t} : scalar'[u] = scalar[u]
      BY <1>3, <1>4, <3>2
    <3>4. scalar[t].step # "lock"
      BY <2>4 DEF Claim, Store, AtStep
    <3>5. Latched'
      BY <1>0, <1>1, <2>1, <3>3, <3>4, SameSetup DEF Latched
    <3> QED BY <1>2, <2>2, <3>3, <3>5 DEF LatchInv
  <2> QED BY <1>7, <2>3, <2>4
<1> QED BY <1>5, <1>6, <1>7 DEF Locking

LEMMA NextPhaseType ==
  ASSUME NEW p \in [pc : PCs, run : Nat], p.pc # "end"
  PROVE  NextPhase(p) \in [pc : PCs, run : Nat]
<1>1. ASSUME NEW pc \in PCs, NEW run \in Nat PROVE At(pc, run) \in [pc : PCs, run : Nat]
  BY DEF At
<1>2. p.run \in Nat /\ p.run + 1 \in Nat /\ p.pc \in PCs
  OBVIOUS
<1> HIDE DEF At
<1> QED BY <1>1, <1>2 DEF NextPhase, PCs

\* The barrier opens for all threads or keeps one more waiting.
LEMMA ArriveLatchInv ==
  ASSUME LatchInv, NEW t \in Threads, Arrive(t)
  PROVE  LatchInv'
<1>0. ControlOK /\ ScalarOK /\ Together /\ Latched
  BY DEF LatchInv
<1>1. /\ at[t] = "arrive" /\ phase[t].pc # "end"
      /\ UNCHANGED <<setup, ht, args_ht, latch>>
  BY DEF Arrive, shared, table
<1>2. CASE called + 1 = setup.threads
  <2>1. /\ called' = 0
        /\ phase' = [u \in Threads |-> NextPhase(phase[u])]
        /\ at' = [u \in Threads |-> "work"]
        /\ scalar' = [u \in Threads |-> ScalarStart]
    BY <1>2 DEF Arrive
  <2>2. \A u \in Threads : NextPhase(phase[u]) \in [pc : PCs, run : Nat]
    <3> SUFFICES ASSUME NEW u \in Threads PROVE NextPhase(phase[u]) \in [pc : PCs, run : Nat]
      OBVIOUS
    <3>1. phase[u] \in [pc : PCs, run : Nat] /\ phase[u].pc # "end"
      BY <1>0, <1>1 DEF ControlOK, Together
    <3> QED BY <3>1, NextPhaseType
  <2>3. ControlOK'
    BY <1>0, <1>1, <2>1, <2>2, SameSetup DEF ControlOK
  <2>4. ScalarOK'
    BY <1>1, <2>1, SameSetup DEF ScalarOK, ScalarStart
  <2>5. Together'
    <3>1. Waiting' = {}
      BY <1>1, <2>1, SameSetup DEF Waiting
    <3>2. \A u, v \in Threads : phase'[u] = phase'[v]
      BY <1>0, <2>1 DEF Together
    <3> QED BY <1>1, <2>1, <3>1, <3>2, FS_EmptySet, SameSetup DEF Together
  <2>6. Latched'
    BY <1>1, <2>1, SameSetup DEF Latched, ScalarStart
  <2> QED BY <2>3, <2>4, <2>5, <2>6 DEF LatchInv
<1>3. CASE called + 1 # setup.threads
  <2>1. /\ called' = called + 1 /\ at' = [at EXCEPT ![t] = "wait"]
        /\ UNCHANGED <<phase, scalar>>
    BY <1>3 DEF Arrive, locals
  <2>2. ControlOK'
    BY <1>0, <1>1, <2>1, SameSetup DEF ControlOK
  <2>3. ScalarOK'
    BY <1>0, <1>1, <2>1, SameSetup DEF ScalarOK
  <2>4. Together'
    <3>1. Waiting' = Waiting \union {t} /\ t \notin Waiting
      BY <1>0, <1>1, <2>1, SameSetup DEF ControlOK, Waiting
    <3>2. IsFiniteSet(Waiting)
      BY <1>0, SetupFacts, FS_Subset DEF Waiting
    <3>3. Cardinality(Waiting \union {t}) = Cardinality(Waiting) + 1
      BY <3>1, <3>2, FS_AddElement
    <3> QED BY <1>0, <1>1, <2>1, <3>1, <3>3, SameSetup DEF Together
  <2>5. Latched'
    BY <1>0, <1>1, <2>1, SameSetup DEF Latched
  <2> QED BY <2>2, <2>3, <2>4, <2>5 DEF LatchInv
<1> QED BY <1>2, <1>3

LEMMA NextLatchInv == LatchInv /\ [Next]_vars => LatchInv'
<1>1. LatchInv /\ UNCHANGED vars => LatchInv'
  BY QuietLatchInv DEF vars, shared, table, locals, Quiet, UsesOnly
<1> QED BY <1>1, StepKinds, QuietLatchInv, FinishLatchInv, PhasingLatchInv,
           LockingLatchInv, ArriveLatchInv

LEMMA AlwaysLatchInv == Spec => []LatchInv
BY InitLatchInv, NextLatchInv, PTL DEF Spec

\* Between lock and unlock of hashing_runner.cpp no other thread is between
\* them at the same bucket.
THEOREM AlwaysExclusive == Spec => []LatchExclusion
<1>1. LatchInv => LatchExclusion
  BY DEF LatchInv, Latched, LatchExclusion, HoldsLatch
<1> QED BY <1>1, AlwaysLatchInv, PTL

-----------------------------------------------------------------------------
(* The table.  Thread 0 sets the functions before the first barrier, so that *)
(* all agree on the last build; it allocates before the threads fetch the    *)
(* pointer, and destroys only what no phase before the next allocation uses. *)
FunctionsSet ==
  /\ hash_pf_num \in {0, 2}
  /\ hash_pf_num = 0 => phase[0].pc = "setup" /\ at[0] = "work"
  /\ \A t \in Threads : phase[t].pc \notin {"setup", "end"} => phase[t].run <= LastRun

TableReady(t) ==
  /\ phase[t].pc = "allocate" /\ at[0] # "work" => ht \in live
  /\ phase[t].pc \in {"fetch", "build", "ready", "probe"} => ht \in live
  /\ phase[t].pc = "release" /\ (at[0] = "work" \/ phase[t].run = LastRun) => ht \in live
  /\ phase[t].pc = "fetch" /\ at[t] # "work" => args_ht[t] = ht
  /\ phase[t].pc \in {"build", "release", "ready", "probe"} => args_ht[t] = ht

TableInv == LatchInv /\ FunctionsSet /\ \A t \in Threads : TableReady(t)

\* The part of NoUseAfterFree that is about the table itself.
TableLive ==
  \A t \in Threads : Working(t, "build") \/ Working(t, "probe") =>
    args_ht[t] = ht /\ ht \in live

LEMMA InitTableInv == Init => TableInv
<1> SUFFICES ASSUME Init PROVE TableInv
  OBVIOUS
<1>1. LatchInv
  BY InitLatchInv
<1>2. 0 \in Threads
  BY <1>1, SetupFacts DEF LatchInv
<1>3. FunctionsSet
  BY <1>2 DEF Init, FunctionsSet, At
<1>4. \A t \in Threads : TableReady(t)
  BY DEF Init, TableReady, At
<1> QED BY <1>1, <1>3, <1>4 DEF TableInv

\* Steps that leave the pointers alone, and at most finish a build or a probe.
LEMMA FrameTableInv ==
  ASSUME TableInv, LatchInv', UNCHANGED <<setup, phase, hash_pf_num, ht, live, args_ht>>,
         \/ at' = at
         \/ \E t \in Threads : phase[t].pc \in {"build", "probe", "ready"}
                               /\ at' = [at EXCEPT ![t] = "arrive"]
  PROVE  TableInv'
<1>0. ControlOK /\ Together /\ FunctionsSet /\ 0 \in Threads
      /\ \A t \in Threads : TableReady(t)
  BY SetupFacts DEF TableInv, LatchInv
<1>1. Threads' = Threads /\ LastRun' = LastRun
  BY SameSetup DEF LastRun
<1>2. \/ at' = at
      \/ \A t \in Threads : phase[t].pc \in {"build", "probe", "ready"}
  BY <1>0 DEF Together
<1>3. FunctionsSet'
  BY <1>0, <1>1, <1>2 DEF FunctionsSet
<1>4. ASSUME NEW t \in Threads PROVE TableReady(t)'
  BY <1>0, <1>1, <1>2 DEF TableReady
<1> QED BY <1>1, <1>3, <1>4 DEF TableInv

\* A thread's work between two barriers, with what it does to the pointers.
LEMMA PhasingTableInv ==
  ASSUME TableInv, LatchInv', NEW t \in Threads, Phasing(t)
  PROVE  TableInv'
<1>0. /\ ControlOK /\ Together /\ FunctionsSet /\ 0 \in Threads
      /\ \A u \in Threads : TableReady(u) /\ phase[u] = phase[t]
  BY SetupFacts DEF TableInv, LatchInv, Together
<1>1. /\ at[t] = "work" /\ at' = [at EXCEPT ![t] = "arrive"]
      /\ UNCHANGED <<setup, phase>> /\ Threads' = Threads
  BY SameSetup DEF Phasing, SetFunctions, Allocate, Fetch, Release, Working, Done
<1>2. \A u \in Threads : at'[u] = IF u = t THEN "arrive" ELSE at[u]
  BY <1>0, <1>1 DEF ControlOK
<1>3. CASE SetFunctions(t)
  <2>1. /\ phase[t].pc = "setup" /\ hash_pf_num' = IF t = 0 THEN 2 ELSE hash_pf_num
        /\ UNCHANGED <<ht, live, args_ht>>
    BY <1>3 DEF SetFunctions, Working
  <2>2. FunctionsSet'
    BY <1>0, <1>1, <1>2, <2>1 DEF FunctionsSet
  <2>3. \A u \in Threads : TableReady(u)'
    BY <1>0, <1>1, <2>1 DEF TableReady
  <2> QED BY <1>1, <2>2, <2>3 DEF TableInv
<1>4. CASE Allocate(t)
  <2>1. /\ phase[t].pc = "allocate" /\ UNCHANGED <<hash_pf_num, args_ht>>
        /\ IF t = 0 THEN ht' \in live' ELSE UNCHANGED <<ht, live>>
    BY <1>4 DEF Allocate, Working
  <2>2. FunctionsSet'
    BY <1>0, <1>1, <1>2, <2>1 DEF FunctionsSet, LastRun
  <2>3. \A u \in Threads : TableReady(u)'
    BY <1>0, <1>1, <1>2, <2>1 DEF TableReady
  <2> QED BY <1>1, <2>2, <2>3 DEF TableInv
<1>5. CASE Fetch(t)
  <2>1. /\ phase[t].pc = "fetch" /\ UNCHANGED <<ht, live, hash_pf_num>>
        /\ args_ht' = [args_ht EXCEPT ![t] = ht]
    BY <1>5 DEF Fetch, Working, shared
  <2>2. \A u \in Threads : args_ht'[u] = IF u = t THEN ht ELSE args_ht[u]
    BY <1>0, <2>1 DEF ControlOK
  <2>3. FunctionsSet'
    BY <1>0, <1>1, <1>2, <2>1 DEF FunctionsSet, LastRun
  <2>4. \A u \in Threads : TableReady(u)'
    BY <1>0, <1>1, <1>2, <2>1, <2>2 DEF TableReady
  <2> QED BY <1>1, <2>3, <2>4 DEF TableInv
<1>6. CASE Release(t)
  <2>1. /\ phase[t].pc = "release" /\ UNCHANGED <<ht, hash_pf_num, args_ht>>
        /\ (t = 0 /\ phase[t].run < LastRun) \/ live' = live
    BY <1>6 DEF Release, Working
  <2>2. FunctionsSet' /\ LastRun' = LastRun
    BY <1>0, <1>1, <1>2, <2>1 DEF FunctionsSet, LastRun
  <2>3. phase[t].run \in Nat /\ LastRun \in Int
    BY <1>0, BoundsAssumption DEF ControlOK, LastRun, FunctionsSet
  <2>4. \A u \in Threads : TableReady(u)'
    BY <1>0, <1>1, <1>2, <2>1, <2>2, <2>3 DEF TableReady
  <2> QED BY <1>1, <2>2, <2>4 DEF TableInv
<1> QED BY <1>3, <1>4, <1>5, <1>6 DEF Phasing

LEMMA ArriveTableInv ==
  ASSUME TableInv, LatchInv', NEW t \in Threads, Arrive(t)
  PROVE  TableInv'
<1>0. /\ ControlOK /\ Together /\ FunctionsSet /\ 0 \in Threads
      /\ \A u \in Threads : TableReady(u) /\ phase[u] = phase[t]
  BY SetupFacts DEF TableInv, LatchInv, Together
<1>1. /\ at[t] = "arrive" /\ phase[t].pc # "end" /\ Threads' = Threads
      /\ UNCHANGED <<setup, ht, live, hash_pf_num, args_ht>> /\ LastRun' = LastRun
  BY SameSetup DEF Arrive, shared, LastRun
<1>2. CASE called + 1 # setup.threads
  <2>1. at' = [at EXCEPT ![t] = "wait"] /\ phase' = phase
    BY <1>2 DEF Arrive
  <2>2. \A u \in Threads : at'[u] = IF u = t THEN "wait" ELSE at[u]
    BY <1>0, <2>1 DEF ControlOK
  <2>3. \A u \in Threads : at'[u] = "work" <=> at[u] = "work"
    BY <1>1, <2>2
  <2>4. FunctionsSet'
    BY <1>0, <1>1, <2>1, <2>3 DEF FunctionsSet
  <2>5. \A u \in Threads : TableReady(u)'
    BY <1>0, <1>1, <2>1, <2>3 DEF TableReady
  <2> QED BY <1>1, <2>4, <2>5 DEF TableInv
<1>3. CASE called + 1 = setup.threads
  <2> DEFINE p == phase[t]
  <2>1. /\ phase' = [u \in Threads |-> NextPhase(p)]
        /\ at' = [u \in Threads |-> "work"]
    BY <1>0, <1>3 DEF Arrive
  <2>2. \A u \in Threads : at[u] # "work"
    BY <1>0, <1>1, <1>3, AllDone
  <2>3. hash_pf_num = 2 /\ LastRun \in Nat
    BY <1>0, <2>2, BoundsAssumption DEF FunctionsSet, LastRun
  <2>4. p \in [pc : PCs, run : Nat] /\ p.pc # "end" /\ (p.pc # "setup" => p.run <= LastRun)
    BY <1>0, <1>1 DEF ControlOK, FunctionsSet
  <2>5. \A u \in Threads : phase'[u] = NextPhase(p) /\ at'[u] = "work"
    BY <2>1
  <2> HIDE DEF p
  <2> DEFINE Enters(pc, run) == NextPhase(p).pc = pc /\ NextPhase(p).run = run
  <2>6. \/ p.pc = "setup" /\ Enters("allocate", 0)
        \/ p.pc = "allocate" /\ Enters("fetch", p.run)
        \/ p.pc = "fetch" /\ Enters("build", p.run)
        \/ p.pc = "build" /\ Enters("release", p.run)
        \/ p.pc = "release" /\ p.run = LastRun /\ Enters("ready", 0)
        \/ p.pc = "release" /\ p.run < LastRun /\ Enters("allocate", p.run + 1)
        \/ p.pc = "ready" /\ Enters("probe", p.run)
        \/ p.pc = "probe" /\ p.run < LastRun /\ Enters("ready", p.run + 1)
        \/ p.pc = "probe" /\ Enters("end", 0)
    <3>1. CASE p.pc = "setup"
      BY <3>1, <2>3 DEF NextPhase, At
    <3>2. CASE p.pc \in {"allocate", "fetch", "build", "ready"}
      BY <3>2 DEF NextPhase, At
    <3>3. CASE p.pc \in {"release", "probe"}
      BY <3>3, <2>3, <2>4 DEF NextPhase, At
    <3> QED BY <3>1, <3>2, <3>3, <2>4 DEF PCs
  <2> HIDE DEF Enters
  <2>7. NextPhase(p).pc \notin {"setup", "end"} => NextPhase(p).run <= LastRun
    BY <2>3, <2>4, <2>6 DEF Enters
  <2>8. FunctionsSet'
    BY <1>0, <1>1, <2>3, <2>5, <2>7 DEF FunctionsSet
  <2>9. ASSUME NEW u \in Threads PROVE TableReady(u)'
    <3>1. /\ p.pc \in {"allocate", "fetch", "build", "ready", "probe"} => ht \in live
          /\ p.pc = "release" /\ p.run = LastRun => ht \in live
          /\ p.pc \in {"fetch", "build", "release", "ready", "probe"} => args_ht[u] = ht
      BY <1>0, <2>2 DEF TableReady, p
    <3>2. /\ NextPhase(p).pc \in {"fetch", "build", "release", "ready", "probe"} => ht \in live
          /\ NextPhase(p).pc \in {"build", "release", "ready", "probe"} => args_ht[u] = ht
      BY <3>1, <2>6 DEF Enters
    <3> QED BY <1>0, <1>1, <2>5, <3>2 DEF TableReady
  <2> QED BY <1>1, <2>8, <2>9 DEF TableInv
<1> QED BY <1>2, <1>3

LEMMA NextTableInv == TableInv /\ [Next]_vars => TableInv'
<1> SUFFICES ASSUME TableInv, [Next]_vars PROVE TableInv'
  OBVIOUS
<1>1. LatchInv'
  BY NextLatchInv DEF TableInv
<1>2. CASE UNCHANGED vars
  BY <1>1, <1>2, FrameTableInv DEF vars, shared
<1>3. CASE Quiet
  BY <1>1, <1>3, FrameTableInv DEF Quiet, UsesOnly
<1>4. ASSUME NEW t \in Threads, Finish(t) PROVE TableInv'
  BY <1>1, <1>4, FrameTableInv DEF Finish
<1>5. ASSUME NEW t \in Threads, Locking(t) PROVE TableInv'
  <2>1. UNCHANGED <<setup, phase, at, hash_pf_num, ht, live, args_ht>>
    BY <1>5 DEF Locking, Lock, Claim, Store, Unlock, ProbeTuple, Inside, BuildOnly,
                ProbeOnly, shared
  <2> QED BY <1>1, <2>1, FrameTableInv
<1> QED BY <1>1, <1>2, <1>3, <1>4, <1>5, PhasingTableInv, ArriveTableInv, StepKinds

LEMMA AlwaysTableInv == Spec => []TableInv
BY InitTableInv, NextTableInv, PTL DEF Spec

\* Thread 0 destroys and allocates tables (hashing_runner.cpp:2004-2077) only
\* while no thread works on one: whoever builds or probes has the pointer to
\* the table allocated last, and that one is live.
THEOREM AlwaysTableLive == Spec => []TableLive
<1>1. TableInv => TableLive
  BY DEF TableInv, TableReady, TableLive, Working
<1> QED BY <1>1, AlwaysTableInv, PTL

-----------------------------------------------------------------------------
(* The types of the table and of the locals.  A machine is what LoopInv     *)
(* says of it, over the lanes that carry tuples of the thread's part.       *)
LaneValues == [tuple : Nat, head : Heads, pos : Nat]
Cells == [thread : Threads, buffer : Nat, slot : Nat, count : Nat,
          tuples : [1 .. setup.bucketSize -> Nat]]
Chains == Seq(Cells)
Buckets == [count : Nat, tuples : [1 .. setup.bucketSize -> Nat], chain : Chains]
LanesOf(t) == {l \in LaneValues : l.tuple \in Slice(t)}

\* What was gathered is dropped before the next turn.
Gathering(m) ==
  /\ m.op = "turn" => m.chosen = {} /\ \A i \in Lanes : m.next[i] = << >>
  /\ m.op = "gather" => \A i \in Lanes : m.next[i] # << >> => i \in m.chosen

MachineOK(t, m) == LoopInv(LaneValues, Chains, LanesOf(t), m) /\ Gathering(m)

VectorOK ==
  /\ imv = [t \in Threads |-> imv[t]]
  /\ \A t \in Threads :
       MachineOK(t, imv[t]) /\ (phase[t].pc # "build" => imv[t].op = "turn")

\* The part of a thread lies in R.
LEMMA PartFacts ==
  ASSUME setup \in Setups, NEW t \in Threads
  PROVE  /\ First(t) \in Nat /\ NumTuples(t) \in Nat
         /\ First(t) + NumTuples(t) <= setup.n /\ setup.n \in Nat
<1> DEFINE q == setup.n \div setup.threads
<1>1. /\ setup.threads \in Nat \ {0} /\ setup.n \in Nat
      /\ t \in Nat /\ t + 1 <= setup.threads
  <2>1. setup.threads \in Nat \ {0} /\ setup.n \in Nat
    BY SetupsAssumption
  <2>2. t \in Nat /\ t + 1 <= setup.threads
    BY <2>1 DEF Threads
  <2> QED BY <2>1, <2>2
<1>2. q \in Nat /\ q * t \in Nat /\ q * t + q <= setup.n
  <2> HIDE DEF q
  <2>1. \A n \in Nat, m \in Nat \ {0}, u \in Nat : u + 1 <= m =>
          n \div m \in Nat /\ (n \div m) * u \in Nat /\ (n \div m) * u + (n \div m) <= n
    BY EqualParts
  <2> QED BY <1>1, <2>1 DEF q
<1> HIDE DEF q
<1>3. First(t) = q * t
  BY DEF First, numRthr, q
<1>4. NumTuples(t) = IF t = setup.threads - 1 THEN setup.n - q * t ELSE q
  BY DEF NumTuples, numRthr, q
<1>5. ASSUME NEW a \in Nat, NEW b \in Nat, NEW n \in Nat, a + b <= n
      PROVE  n - a \in Nat /\ a + (n - a) <= n
  BY <1>5
<1>6. PICK a \in Nat, b \in Nat, n \in Nat : a = q * t /\ b = q /\ n = setup.n /\ a + b <= n
  BY <1>1, <1>2
<1>7. NumTuples(t) = n - a \/ NumTuples(t) = b
  BY <1>4, <1>6
<1>8. NumTuples(t) \in Nat /\ a + NumTuples(t) <= n
  BY <1>5, <1>6, <1>7
<1> QED BY <1>1, <1>3, <1>6, <1>8

LEMMA SliceInTuples ==
  ASSUME setup \in Setups, NEW t \in Threads, NEW j \in 1 .. NumTuples(t)
  PROVE  First(t) + j \in Slice(t) /\ First(t) + j \in Tuples /\ First(t) + j \in Nat
<1>1. PICK a \in Nat, b \in Nat, n \in Nat :
        a = First(t) /\ b = NumTuples(t) /\ n = setup.n /\ a + b <= n
  BY PartFacts
<1>2. j \in 1 .. b
  BY <1>1
<1>3. a + j \in (a + 1) .. (a + b) /\ a + j \in 1 .. n /\ a + j \in Nat
  BY <1>1, <1>2
<1> QED BY <1>1, <1>3 DEF Slice, Tuples

LEMMA ZeroLaneTyped == ZeroLane \in LaneValues /\ 0 \in Heads
BY BoundsAssumption DEF LaneValues, Heads

-----------------------------------------------------------------------------
(* Steps of the vector loops. *)

LEMMA SameSetupTypes ==
  ASSUME setup' = setup
  PROVE  /\ Threads' = Threads /\ Chains' = Chains /\ Buckets' = Buckets
         /\ Cells' = Cells
         /\ \A t : LanesOf(t)' = LanesOf(t) /\ NumTuples(t)' = NumTuples(t)
                   /\ First(t)' = First(t)
BY DEF Threads, Chains, Buckets, Cells, LanesOf, LaneValues, Slice, First, NumTuples, numRthr

LEMMA SameMachineOK ==
  ASSUME setup' = setup, NEW t, NEW m, MachineOK(t, m)
  PROVE  MachineOK(t, m)'
<1>1. PICK C, W : C = Chains /\ W = LanesOf(t)
  OBVIOUS
<1>2. C = Chains' /\ W = LanesOf(t)'
  BY <1>1, SameSetupTypes
<1> QED BY <1>1, <1>2 DEF MachineOK

\* One thread's machine goes to r.
Goes(t, r) ==
  /\ imv' = [imv EXCEPT ![t] = r]
  /\ MachineOK(t, r) /\ (phase[t].pc # "build" => r.op = "turn")

LEMMA VectorGoes ==
  ASSUME VectorOK, UNCHANGED <<setup, phase>>, NEW t \in Threads, NEW r, Goes(t, r)
  PROVE  VectorOK'
<1>1. Threads' = Threads
  BY SameSetup
<1>2. imv' = [u \in Threads |-> imv'[u]] /\ imv'[t] = r
      /\ \A u \in Threads \ {t} : imv'[u] = imv[u]
  BY DEF VectorOK, Goes
<1>3. ASSUME NEW u \in Threads
      PROVE  MachineOK(u, imv[u])' /\ (phase[u].pc # "build" => imv'[u].op = "turn")
  <2>1. PICK m : m = imv'[u]
    OBVIOUS
  <2>2. MachineOK(u, m) /\ (phase[u].pc # "build" => m.op = "turn")
    BY <1>2, <2>1 DEF VectorOK, Goes
  <2>3. MachineOK(u, m)'
    BY <2>2, SameMachineOK
  <2> QED BY <2>1, <2>2, <2>3 DEF MachineOK
<1> QED BY <1>1, <1>2, <1>3 DEF VectorOK

LEMMA VectorStays ==
  ASSUME VectorOK, UNCHANGED <<setup, phase, imv>>
  PROVE  VectorOK'
<1>1. Threads' = Threads
  BY SameSetup
<1>2. ASSUME NEW u \in Threads PROVE MachineOK(u, imv[u])'
  <2>1. PICK m : m = imv'[u]
    OBVIOUS
  <2>2. MachineOK(u, m)'
    BY <2>1, SameMachineOK DEF VectorOK
  <2> QED BY <2>1, <2>2 DEF MachineOK
<1> QED BY <1>1, <1>2 DEF VectorOK

LEMMA AtTurn ==
  ASSUME VectorOK, setup \in Setups, NEW t \in Threads, NEW stage, InStage(t, stage),
         NEW w, w = Machine(t)
  PROVE  /\ MachineOK(t, w) /\ w.op = "turn" /\ Working4(w, imv[t])
         /\ w.k \in States /\ w.k + 1 \in 0 .. (StateSize + 1)
         /\ w.st[w.k].stage = stage /\ (w.k = Residual => stage = "chain")
         /\ (stage \in {"head", "chain"} => AtWork(w))
         /\ w.cur = imv[t].cur /\ SameStages(w, imv[t])
         /\ \A s \in States : w.st[s].have = imv[t].st[s].have
                              /\ w.st[s].lane = imv[t].st[s].lane
<1>1. PICK m, V, C, W, n : m = imv[t] /\ V = LaneValues /\ C = Chains /\ W = LanesOf(t)
                           /\ n = NumTuples(t)
  OBVIOUS
<1>2. LoopInv(V, C, W, m) /\ m.op = "turn" /\ Gathering(m)
  BY <1>1 DEF VectorOK, MachineOK, InStage, InLoop
<1>3. ~Retiring(m, n) /\ w = Turn(m, n, "chain") /\ w.st[w.k].stage = stage
  BY <1>1 DEF InStage, Machine
<1>4. /\ LoopInv(V, C, W, w) /\ Working4(w, m) /\ w.cur = m.cur /\ w.done = m.done
      /\ w.k \in States /\ w.k + 1 \in 0 .. (StateSize + 1) /\ w.op = "turn"
      /\ SameStages(w, m)
      /\ \A s \in States : w.st[s].have = m.st[s].have /\ w.st[s].lane = m.st[s].lane
      /\ w.k = Residual => w.done = StateSize /\ w.st[Residual].stage = "chain"
      /\ w.st[w.k].stage \in {"head", "chain"} => AtWork(w)
  BY <1>2, <1>3, TurnLoopInv
<1>5. Gathering(w)
  BY <1>2, <1>4 DEF Gathering, Working4
<1> QED BY <1>1, <1>3, <1>4, <1>5 DEF MachineOK

\* The lanes of the machine stay where they are, with the tuples they carry and
\* how far these have come.
SameLanes(r, m) ==
  /\ r.cur = m.cur
  /\ \A s \in States :
       /\ r.st[s].have = m.st[s].have
       /\ \A i \in m.st[s].have : /\ r.st[s].lane[i].tuple = m.st[s].lane[i].tuple
                                  /\ r.st[s].lane[i].pos = m.st[s].lane[i].pos
\* They stay as they are, in states of the same stage.
SameWork(r, m) ==
  \A p \in Held(r) : /\ p \in Held(m) /\ LaneOf(r, p) = LaneOf(m, p)
                     /\ Level(r, p[1]) = Level(m, p[1])

LEMMA TurnWork ==
  ASSUME VectorOK, setup \in Setups, NEW t \in Threads, NEW stage, InStage(t, stage),
         NEW w, w = Machine(t)
  PROVE  SameLanes(w, imv[t]) /\ SameWork(w, imv[t]) /\ Held(w) = Held(imv[t])
BY AtTurn DEF SameLanes, SameWork, SameStages, Held, LaneOf, Level

LEMMA RetireGoes ==
  ASSUME VectorOK, NEW t \in Threads, ImvRetire(t)
  PROVE  \E r : /\ Goes(t, r) /\ r.op = "turn" /\ SameLanes(r, imv[t])
               /\ SameWork(r, imv[t])
<1>1. PICK m, V, C, W, n, r : m = imv[t] /\ V = LaneValues /\ C = Chains /\ W = LanesOf(t)
                              /\ n = NumTuples(t) /\ r = Retire(m)
  OBVIOUS
<1>2. LoopInv(V, C, W, m) /\ m.op = "turn" /\ Gathering(m) /\ Retiring(m, n)
      /\ imv' = [imv EXCEPT ![t] = r]
  BY <1>1 DEF VectorOK, MachineOK, ImvRetire, InLoop
<1>3. LoopInv(V, C, W, r) /\ r.op = "turn"
  BY <1>1, <1>2, RetireLoopInv
<1>4. Working4(r, m) /\ SameLanes(r, m) /\ SameWork(r, m)
  <2>1. m \in Machines(V, C)
    BY <1>2 DEF LoopInv, MachineInv
  <2>2. /\ Working4(r, m) /\ r.cur = m.cur /\ SameOthers(r, m, {Rotated(m)})
        /\ r.st[Rotated(m)].have = m.st[Rotated(m)].have
        /\ r.st[Rotated(m)].lane = m.st[Rotated(m)].lane
    BY <1>1, <1>2, <2>1, RetireIs
  <2>3. m.st[Rotated(m)].have = {}
    BY <1>2 DEF Retiring
  <2>4. SameLanes(r, m)
    BY <2>2 DEF SameLanes, SameOthers
  <2>5. SameWork(r, m)
    BY <2>2, <2>3 DEF SameWork, SameOthers, Held, LaneOf, Level
  <2> QED BY <2>2, <2>4, <2>5
<1>5. Gathering(r)
  BY <1>2, <1>4 DEF Gathering, Working4
<1> QED BY <1>1, <1>2, <1>3, <1>4, <1>5 DEF Goes, MachineOK

LEMMA SkipGoes ==
  ASSUME VectorOK, setup \in Setups, NEW t \in Threads, ImvSkip(t)
  PROVE  \E r : /\ Goes(t, r) /\ r.op = "turn" /\ SameLanes(r, imv[t])
               /\ SameWork(r, imv[t])
<1>1. PICK w, V, C, W : w = Machine(t) /\ V = LaneValues /\ C = Chains /\ W = LanesOf(t)
  OBVIOUS
<1>2. InStage(t, "done") /\ imv' = [imv EXCEPT ![t] = [w EXCEPT !.k = w.k + 1]]
  BY <1>1 DEF ImvSkip
<1>3. MachineOK(t, w) /\ w.op = "turn" /\ w.k + 1 \in 0 .. (StateSize + 1)
  BY <1>1, <1>2, AtTurn
<1>k. PICK k \in 0 .. (StateSize + 1) : k = w.k + 1
  BY <1>3
<1>4. PICK r : k = w.k + 1 /\ r = IndexPut(w, k)
  BY <1>k
<1>5. LoopInv(V, C, W, w) /\ Shape(w)
  BY <1>1, <1>3, MachineShape DEF MachineOK, LoopInv, MachineInv
<1>6. IndexIs(r, w, k)
  BY <1>4, <1>5, IndexSet
<1>7. LoopInv(V, C, W, r) /\ r.op = "turn"
  BY <1>3, <1>5, <1>6, SkipLoopInv
<1>8. Gathering(r)
  BY <1>3, <1>6 DEF IndexIs, MachineOK, Gathering, Working4
<1>9. imv' = [imv EXCEPT ![t] = r]
  BY <1>2, <1>4 DEF IndexPut
<1>10. SameLanes(r, imv[t]) /\ SameWork(r, imv[t])
  <2>1. SameLanes(w, imv[t]) /\ SameWork(w, imv[t])
    BY <1>1, <1>2, TurnWork
  <2> QED BY <1>6, <2>1 DEF IndexIs, SameLanes, SameWork, Held, LaneOf, Level
<1> QED BY <1>1, <1>7, <1>8, <1>9, <1>10 DEF Goes, MachineOK

\* The next tuples of the part are put into the lanes of a state without any.
LoadsNext(t, r, w) ==
  /\ SameLanes(w, imv[t]) /\ SameWork(w, imv[t])
  /\ w.op = "turn" /\ w.k \in States \ {Residual} /\ w.st[w.k].have = {}
  /\ \E lanes : /\ Loads(r, w, NumTuples(t), lanes)
                /\ \A j \in 1 .. NumTuples(t) :
                     /\ lanes[j].tuple = First(t) + j /\ lanes[j].pos = 0
                     /\ \/ r.st[w.k].stage = "model"
                        \/ /\ r.st[w.k].stage = "head"
                           /\ lanes[j].head = setup.vidx[First(t) + j]

LEMMA LoadGoes ==
  ASSUME VectorOK, setup \in Setups, NEW t \in Threads, ImvLoad(t) \/ LearnedLoad(t)
  PROVE  \E r, w : Goes(t, r) /\ r.op = "turn" /\ LoadsNext(t, r, w)
<1> DEFINE Loading(f, stage) == [j \in 1 .. NumTuples(t) |->
                                   [tuple |-> First(t) + j, head |-> f[First(t) + j], pos |-> 0]]
<1>1. PICK w, V, C, W, n : w = Machine(t) /\ V = LaneValues /\ C = Chains /\ W = LanesOf(t)
                           /\ n = NumTuples(t)
  OBVIOUS
<1>2. /\ InStage(t, "load")
      /\ \E f \in [Tuples -> Heads], stage \in {"model", "head"} :
           /\ imv' = [imv EXCEPT ![t] = Loaded(t, f, stage)]
           /\ stage = "head" => f = setup.vidx
  <2>1. /\ setup.vidx \in [Tuples -> Heads] /\ [x \in Tuples |-> 0] \in [Tuples -> Heads]
    BY SetupsAssumption, ZeroLaneTyped DEF Tuples
  <2>2. ImvLoad(t) => imv' = [imv EXCEPT ![t] = Loaded(t, setup.vidx, "head")]
    BY DEF ImvLoad
  <2>3. LearnedLoad(t) => \/ imv' = [imv EXCEPT ![t] = Loaded(t, setup.vidx, "head")]
                          \/ imv' = [imv EXCEPT ![t] = Loaded(t, [x \in Tuples |-> 0], "model")]
    BY DEF LearnedLoad
  <2>4. InStage(t, "load")
    BY DEF ImvLoad, LearnedLoad
  <2> QED BY <2>1, <2>2, <2>3, <2>4
<1>3. PICK f \in [Tuples -> Heads], stage \in {"model", "head"} :
        /\ imv' = [imv EXCEPT ![t] = Loaded(t, f, stage)]
        /\ stage = "head" => f = setup.vidx
  BY <1>2
<1>4. PICK lanes : lanes = [j \in 1 .. n |-> [tuple |-> First(t) + j, head |-> f[First(t) + j],
                                               pos |-> 0]]
  OBVIOUS
<1>5. lanes \in [1 .. n -> V] /\ \A j \in 1 .. n : lanes[j] \in W
  <2>1. ASSUME NEW j \in 1 .. n PROVE lanes[j] \in V /\ lanes[j] \in W
    <3>1. First(t) + j \in Slice(t) /\ First(t) + j \in Tuples /\ First(t) + j \in Nat
      BY <1>1, SliceInTuples
    <3>2. f[First(t) + j] \in Heads
      BY <3>1
    <3> QED BY <1>1, <1>4, <3>1, <3>2 DEF LaneValues, LanesOf
  <2> QED BY <1>4, <2>1
<1>6. PICK r : r = Load(w, n, lanes, stage)
  OBVIOUS
<1>7. imv' = [imv EXCEPT ![t] = r]
  BY <1>1, <1>3, <1>4, <1>6 DEF Loaded
<1>8. /\ MachineOK(t, w) /\ w.op = "turn" /\ w.k \in States
      /\ w.st[w.k].stage = "load" /\ (w.k = Residual => "load" = "chain")
  BY <1>1, <1>2, AtTurn
<1>9. LoopInv(V, C, W, w) /\ w.k \in States \ {Residual} /\ n \in Nat
  BY <1>1, <1>8, PartFacts DEF MachineOK
<1>10. LoopInv(V, C, W, r) /\ r.op = "turn"
  BY <1>5, <1>6, <1>8, <1>9, LoadLoopInv
<1>11. MachineInv(V, C, w)
  BY <1>9 DEF LoopInv
<1>12. Working4(r, w) /\ Loads(r, w, n, lanes) /\ r.st[w.k].stage = stage
  BY <1>5, <1>6, <1>8, <1>9, <1>11, LoadMachineInv
<1>13. Gathering(r)
  BY <1>8, <1>12 DEF MachineOK, Gathering, Working4
<1>14. LoadsNext(t, r, w)
  <2>1. SameLanes(w, imv[t]) /\ SameWork(w, imv[t])
    BY <1>1, <1>2, TurnWork
  <2>2. w.st[w.k].have = {}
    BY <1>8, <1>9, <1>11 DEF MachineInv
  <2>3. \A j \in 1 .. NumTuples(t) :
          /\ lanes[j].tuple = First(t) + j /\ lanes[j].pos = 0
          /\ stage = "model" \/ (stage = "head" /\ lanes[j].head = setup.vidx[First(t) + j])
    BY <1>1, <1>3, <1>4
  <2> QED BY <1>1, <1>8, <1>9, <1>12, <2>1, <2>2, <2>3 DEF LoadsNext
<1> QED BY <1>1, <1>7, <1>10, <1>13, <1>14 DEF Goes, MachineOK

\* The second level of the model gives a lane its bucket and leaves its tuple.
ModelPlaces(t, r) ==
  \E w : /\ SameWork(w, imv[t]) /\ w.k \in States \ {Residual} /\ SameOthers(r, w, {w.k})
        /\ w.st[w.k].stage = "model" /\ r.st[w.k].stage = "head"
        /\ r.st[w.k].have = w.st[w.k].have
        /\ \A i \in w.st[w.k].have :
             /\ w.st[w.k].lane[i].tuple \in Slice(t)
             /\ r.st[w.k].lane[i].tuple = w.st[w.k].lane[i].tuple
             /\ r.st[w.k].lane[i].pos = w.st[w.k].lane[i].pos
             /\ r.st[w.k].lane[i].head = setup.vidx[w.st[w.k].lane[i].tuple]

LEMMA ModelGoes ==
  ASSUME VectorOK, setup \in Setups, NEW t \in Threads, ImvModel(t)
  PROVE  \E r : /\ Goes(t, r) /\ r.op = "turn" /\ SameLanes(r, imv[t])
               /\ ModelPlaces(t, r)
<1>1. PICK w, V, C, W, v : w = Machine(t) /\ V = LaneValues /\ C = Chains /\ W = LanesOf(t)
                           /\ v = w.st[w.k]
  OBVIOUS
<1>2. InStage(t, "model")
  BY DEF ImvModel
<1>3. /\ MachineOK(t, w) /\ w.op = "turn" /\ w.k \in States
      /\ w.st[w.k].stage = "model" /\ (w.k = Residual => "model" = "chain")
  BY <1>1, <1>2, AtTurn
<1>4. /\ LoopInv(V, C, W, w) /\ w.k \in States \ {Residual} /\ w \in Machines(V, C)
      /\ Shape(w)
  BY <1>1, <1>3, MachineShape DEF MachineOK, LoopInv, MachineInv
<1>5. v.lane \in [Lanes -> V] /\ v.have \in SUBSET Lanes /\ \A i \in v.have : v.lane[i] \in W
  <2>1. v.lane \in [Lanes -> V] /\ v.have \in SUBSET Lanes
    BY <1>1, <1>3, <1>4, StateTyped
  <2>2. \A i \in v.have : <<w.k, i>> \in Held(w) /\ LaneOf(w, <<w.k, i>>) = v.lane[i]
    BY <1>1, <1>3, <2>1 DEF Held, LaneOf
  <2> QED BY <1>4, <2>1, <2>2 DEF LoopInv
<1>6. PICK lane : lane = [i \in Lanes |-> IF i \in v.have
                                          THEN [v.lane[i] EXCEPT !.head = setup.vidx[v.lane[i].tuple]]
                                          ELSE v.lane[i]]
  OBVIOUS
<1>7. /\ lane \in [Lanes -> V]
      /\ \A i \in v.have :
           /\ lane[i] \in W /\ lane[i].tuple = v.lane[i].tuple /\ v.lane[i].tuple \in Slice(t)
           /\ lane[i].pos = v.lane[i].pos /\ lane[i].head = setup.vidx[v.lane[i].tuple]
  <2>1. \A x \in Slice(t) : setup.vidx[x] \in Heads
    <3>1. Slice(t) \subseteq 1 .. setup.n
      <4>1. PICK a \in Nat, b \in Nat, n \in Nat :
              a = First(t) /\ b = NumTuples(t) /\ n = setup.n /\ a + b <= n
        BY PartFacts
      <4>2. (a + 1) .. (a + b) \subseteq 1 .. n
        BY <4>1
      <4> QED BY <4>1, <4>2 DEF Slice
    <3> QED BY <3>1, SetupsAssumption
  <2>2. ASSUME NEW i \in v.have
        PROVE  /\ lane[i] \in V /\ lane[i] \in W /\ lane[i].tuple = v.lane[i].tuple
               /\ v.lane[i].tuple \in Slice(t)
               /\ lane[i].pos = v.lane[i].pos /\ lane[i].head = setup.vidx[v.lane[i].tuple]
    <3>1. PICK l : l = v.lane[i]
      OBVIOUS
    <3>2. l \in LaneValues /\ l.tuple \in Slice(t) /\ i \in Lanes
      BY <1>1, <1>5, <3>1 DEF LanesOf
    <3>3. PICK h \in Heads : h = setup.vidx[l.tuple]
      BY <2>1, <3>2
    <3>4. lane[i] = [l EXCEPT !.head = h]
      BY <1>6, <3>1, <3>2, <3>3
    <3>5. /\ lane[i] \in LaneValues /\ lane[i].tuple = l.tuple
          /\ lane[i].pos = l.pos /\ lane[i].head = h
      BY <3>2, <3>4 DEF LaneValues
    <3> QED BY <1>1, <3>1, <3>2, <3>3, <3>5 DEF LanesOf
  <2>3. ASSUME NEW i \in Lanes \ v.have PROVE lane[i] \in V
    BY <1>5, <1>6
  <2> QED BY <1>6, <2>2, <2>3
<1>8. PICK r : r = ModelPut(w, lane)
  OBVIOUS
<1>9. imv' = [imv EXCEPT ![t] = r]
  <2>1. v = State(t)
    BY <1>1 DEF State
  <2>2. imv' = [imv EXCEPT ![t] =
                  [w EXCEPT !.k = w.k + 1, !.st[w.k].stage = "head",
                            !.st[w.k].lane =
                               [i \in Lanes |->
                                  IF i \in State(t).have
                                  THEN [v.lane[i] EXCEPT !.head = setup.vidx[v.lane[i].tuple]]
                                  ELSE v.lane[i]]]]
    BY <1>1, <1>3, <1>4 DEF ImvModel, Shape, Fields, StateFields
  <2> QED BY <1>6, <1>8, <2>1, <2>2 DEF ModelPut
<1>10. /\ LoopInv(V, C, W, r) /\ r.op = "turn" /\ Working4(r, w)
       /\ r.cur = w.cur /\ SameOthers(r, w, {w.k})
       /\ r.st[w.k].have = w.st[w.k].have /\ r.st[w.k].lane = lane
       /\ r.st[w.k].stage = "head"
  <2>1. lane \in [Lanes -> V] /\ \A i \in w.st[w.k].have : lane[i] \in W
    BY <1>1, <1>7
  <2> QED BY <1>1, <1>3, <1>4, <1>8, <2>1, ModelLoopInv
<1>11. Gathering(r)
  BY <1>3, <1>10 DEF MachineOK, Gathering, Working4
<1>12. SameLanes(r, imv[t])
  <2>1. /\ w.cur = imv[t].cur
        /\ \A s \in States : w.st[s].have = imv[t].st[s].have /\ w.st[s].lane = imv[t].st[s].lane
    BY <1>1, <1>2, AtTurn
  <2>2. ASSUME NEW s \in States
        PROVE  /\ r.st[s].have = w.st[s].have
               /\ \A i \in w.st[s].have : /\ r.st[s].lane[i].tuple = w.st[s].lane[i].tuple
                                          /\ r.st[s].lane[i].pos = w.st[s].lane[i].pos
    <3>1. CASE s = w.k
      BY <1>1, <1>7, <1>10, <3>1
    <3>2. CASE s # w.k
      BY <1>10, <3>2 DEF SameOthers
    <3> QED BY <3>1, <3>2
  <2> QED BY <1>10, <2>1, <2>2 DEF SameLanes
<1>13. ModelPlaces(t, r)
  <2>1. SameWork(w, imv[t])
    BY <1>1, <1>2, TurnWork
  <2>2. \A i \in w.st[w.k].have :
          /\ w.st[w.k].lane[i].tuple \in Slice(t)
          /\ r.st[w.k].lane[i].tuple = w.st[w.k].lane[i].tuple
          /\ r.st[w.k].lane[i].pos = w.st[w.k].lane[i].pos
          /\ r.st[w.k].lane[i].head = setup.vidx[w.st[w.k].lane[i].tuple]
    BY <1>1, <1>7, <1>10
  <2> QED BY <1>3, <1>4, <1>10, <2>1, <2>2 DEF ModelPlaces
<1> QED BY <1>1, <1>9, <1>10, <1>11, <1>12, <1>13 DEF Goes, MachineOK

-----------------------------------------------------------------------------
(* Gathers and scatters. *)
LEMMA AtGather ==
  ASSUME VectorOK, NEW t \in Threads, NEW m, m = imv[t], m.op # "turn"
  PROVE  /\ LoopInv(LaneValues, Chains, LanesOf(t), m) /\ AtWork(m) /\ Shape(m)
         /\ Gathering(m)
         /\ m.op \in {"turn", "gather", "scatter"}
         /\ m.left \in SUBSET Lanes /\ m.chosen \in SUBSET Lanes /\ m.next \in [Lanes -> Chains]
         /\ m.st[m.k].have \in SUBSET Lanes /\ m.st[m.k].lane \in [Lanes -> LaneValues]
         /\ \A i \in m.st[m.k].have : m.st[m.k].lane[i] \in LanesOf(t)
<1>0. PICK V, C, W : V = LaneValues /\ C = Chains /\ W = LanesOf(t)
  OBVIOUS
<1>1. LoopInv(V, C, W, m) /\ Gathering(m)
  BY <1>0 DEF VectorOK, MachineOK
<1>2. m \in Machines(V, C) /\ AtWork(m) /\ m.k \in States
  BY <1>1 DEF LoopInv, MachineInv, AtWork
<1>3. Shape(m)
  BY <1>2, MachineShape
<1>4. /\ m.op \in {"turn", "gather", "scatter"}
      /\ m.left \in SUBSET Lanes /\ m.chosen \in SUBSET Lanes /\ m.next \in [Lanes -> C]
  BY <1>2, MachineFields
<1>5. m.st[m.k].have \in SUBSET Lanes /\ m.st[m.k].lane \in [Lanes -> V]
  BY <1>2, StateTyped
<1>6. \A i \in m.st[m.k].have : m.st[m.k].lane[i] \in W
  <2>1. \A i \in m.st[m.k].have : <<m.k, i>> \in Held(m)
                                  /\ LaneOf(m, <<m.k, i>>) = m.st[m.k].lane[i]
    BY <1>2, <1>5 DEF Held, LaneOf
  <2> QED BY <1>1, <2>1 DEF LoopInv
<1> QED BY <1>0, <1>1, <1>2, <1>3, <1>4, <1>5, <1>6

\* New registers of a machine that is at work.
LEMMA RegistersGo ==
  ASSUME NEW t \in Threads, NEW m, MachineOK(t, m),
         NEW op \in {"turn", "gather", "scatter"},
         NEW left \in SUBSET Lanes, NEW chosen \in SUBSET Lanes, NEW next \in [Lanes -> Chains],
         op = "turn" \/ AtWork(m),
         op = "turn" => chosen = {} /\ \A i \in Lanes : next[i] = << >>,
         op = "gather" => \A i \in Lanes : next[i] # << >> => i \in chosen,
         NEW r, r = RegistersPut(m, op, left, chosen, next)
  PROVE  MachineOK(t, r) /\ RegistersIs(r, m, op, left, chosen, next) /\ (AtWork(m) => AtWork(r))
<1>0. PICK V, C, W : V = LaneValues /\ C = Chains /\ W = LanesOf(t)
  OBVIOUS
<1>1. LoopInv(V, C, W, m)
  BY <1>0 DEF MachineOK
<1>2. PICK n \in [Lanes -> C] : n = next
  BY <1>0
<1>3. r = RegistersPut(m, op, left, chosen, n)
  BY <1>2
<1>4. LoopInv(V, C, W, r) /\ RegistersIs(r, m, op, left, chosen, n) /\ (AtWork(m) => AtWork(r))
  BY <1>1, <1>3, RegistersLoopInv
<1>5. Gathering(r)
  BY <1>2, <1>4 DEF Gathering, RegistersIs
<1> QED BY <1>0, <1>2, <1>4, <1>5 DEF MachineOK

\* All lanes of the state are to be gathered for.
GatherStarted(t, r) ==
  /\ SameLanes(r, imv[t]) /\ SameWork(r, imv[t])
  /\ r.op = "gather" /\ r.left = r.st[r.k].have /\ r.chosen = {}
  /\ \A i \in Lanes : r.next[i] = << >>

LEMMA GatherStartGoes ==
  ASSUME VectorOK, setup \in Setups, NEW t \in Threads, GatherStart(t)
  PROVE  \E r : Goes(t, r) /\ GatherStarted(t, r)
<1>1. PICK w : w = Machine(t)
  OBVIOUS
<1>2. phase[t].pc = "build" /\ (InStage(t, "head") \/ InStage(t, "chain"))
  BY DEF GatherStart, InBuildStage
<1>3. MachineOK(t, w) /\ w.op = "turn" /\ AtWork(w)
  BY <1>1, <1>2, AtTurn
<1>4. PICK C : C = Chains
  OBVIOUS
<1>5. w \in Machines(LaneValues, C) /\ w.k \in States /\ Gathering(w)
  BY <1>3, <1>4 DEF MachineOK, LoopInv, MachineInv, AtWork
<1>6. /\ w.st[w.k].have \in SUBSET Lanes /\ w.chosen \in SUBSET Lanes
      /\ w.next \in [Lanes -> C] /\ Shape(w)
  BY <1>5, StateTyped, MachineFields, MachineShape
<1>7. PICK op \in {"turn", "gather", "scatter"}, left \in SUBSET Lanes,
           chosen \in SUBSET Lanes, next \in [Lanes -> Chains] :
        op = "gather" /\ left = w.st[w.k].have /\ chosen = w.chosen /\ next = w.next
  BY <1>4, <1>6
<1>8. PICK r : r = RegistersPut(w, op, left, chosen, next)
  OBVIOUS
<1>9. MachineOK(t, r) /\ RegistersIs(r, w, op, left, chosen, next)
  <2>1. /\ op = "turn" => chosen = {} /\ \A i \in Lanes : next[i] = << >>
        /\ op = "gather" => \A i \in Lanes : next[i] # << >> => i \in chosen
    BY <1>3, <1>5, <1>7 DEF Gathering
  <2> QED BY <1>3, <1>8, <2>1, RegistersGo
<1>10. imv' = [imv EXCEPT ![t] = r]
  <2>1. [w EXCEPT !.op = op, !.left = left] = r
    <3>1. w = [f \in Fields |-> w[f]]
      BY <1>6 DEF Shape
    <3> QED BY <1>7, <1>8, <3>1 DEF RegistersPut, Fields
  <2>2. left = State(t).have
    BY <1>1, <1>7 DEF State
  <2> QED BY <1>1, <1>7, <2>1, <2>2 DEF GatherStart
<1>11. SameLanes(r, imv[t]) /\ SameWork(r, imv[t])
  <2>1. SameLanes(w, imv[t]) /\ SameWork(w, imv[t])
    BY <1>1, <1>2, TurnWork
  <2> QED BY <1>9, <2>1 DEF RegistersIs, SameLanes, SameWork, Held, LaneOf, Level
<1>12. /\ r.op = "gather" /\ r.left = r.st[r.k].have /\ r.chosen = {}
       /\ \A i \in Lanes : r.next[i] = << >>
  BY <1>3, <1>5, <1>7, <1>9 DEF RegistersIs, Gathering
<1> QED BY <1>2, <1>9, <1>10, <1>11, <1>12 DEF Goes, GatherStarted

\* A lane whose head was read is chosen if that was empty and not latched.
HeadGathered(t, i, r) ==
  \E chosen : /\ RegistersIs(r, imv[t], "gather", imv[t].left \ {i}, chosen, imv[t].next)
             /\ \/ /\ chosen = imv[t].chosen
                   /\ HeadOf(t, i).count # 0 \/ latch[Current(t).lane[i].head] # Free
                \/ chosen = imv[t].chosen \union {i} /\ HeadOf(t, i).count = 0

LEMMA GatherHeadGoes ==
  ASSUME VectorOK, NEW t \in Threads, NEW i \in Lanes, GatherHead(t, i)
  PROVE  \E r : Goes(t, r) /\ HeadGathered(t, i, r)
<1>1. PICK m : m = imv[t]
  OBVIOUS
<1>2. m.op = "gather" /\ phase[t].pc = "build"
  BY <1>1 DEF GatherHead, Running
<1>3. /\ MachineOK(t, m) /\ AtWork(m) /\ Shape(m) /\ Gathering(m)
      /\ m.left \in SUBSET Lanes /\ m.chosen \in SUBSET Lanes /\ m.next \in [Lanes -> Chains]
  BY <1>1, <1>2, AtGather DEF MachineOK
<1>4. PICK op \in {"turn", "gather", "scatter"}, left \in SUBSET Lanes,
           next \in [Lanes -> Chains] :
        op = "gather" /\ left = m.left \ {i} /\ next = m.next
  BY <1>3
<1>5. \E chosen \in SUBSET Lanes :
        /\ \/ chosen = m.chosen /\ ~(HeadOf(t, i).count = 0 /\ latch[Current(t).lane[i].head] = Free)
           \/ chosen = m.chosen \union {i} /\ HeadOf(t, i).count = 0
        /\ imv' = [imv EXCEPT ![t].left = m.left \ {i}, ![t].chosen = chosen]
  <2>1. \E e \in BOOLEAN :
          (e <=> HeadOf(t, i).count = 0 /\ latch[Current(t).lane[i].head] = Free) /\
          imv' = [imv EXCEPT ![t].left = @ \ {i}, ![t].chosen = IF e THEN @ \union {i} ELSE @]
    <3>1. PICK e : e = (HeadOf(t, i).count = 0 /\ latch[Current(t).lane[i].head] = Free)
      OBVIOUS
    <3>2. e \in BOOLEAN
      BY <3>1
    <3>3. imv' = [imv EXCEPT ![t].left = @ \ {i}, ![t].chosen = IF e THEN @ \union {i} ELSE @]
      BY <3>1 DEF GatherHead
    <3>4. e <=> HeadOf(t, i).count = 0 /\ latch[Current(t).lane[i].head] = Free
      BY <3>1
    <3> QED BY <3>2, <3>3, <3>4
  <2>2. PICK e \in BOOLEAN :
          (e <=> HeadOf(t, i).count = 0 /\ latch[Current(t).lane[i].head] = Free) /\
          imv' = [imv EXCEPT ![t].left = @ \ {i}, ![t].chosen = IF e THEN @ \union {i} ELSE @]
    BY <2>1
  <2>3. PICK chosen \in SUBSET Lanes : chosen = IF e THEN m.chosen \union {i} ELSE m.chosen
    BY <1>3
  <2>4. imv' = [imv EXCEPT ![t].left = m.left \ {i}, ![t].chosen = chosen]
    BY <1>1, <1>3, <2>2, <2>3 DEF Shape, Fields, VectorOK
  <2>5. \/ chosen = m.chosen /\ ~(HeadOf(t, i).count = 0 /\ latch[Current(t).lane[i].head] = Free)
        \/ chosen = m.chosen \union {i} /\ HeadOf(t, i).count = 0
    BY <2>2, <2>3
  <2> QED BY <2>4, <2>5
<1>6. PICK chosen \in SUBSET Lanes :
        /\ \/ chosen = m.chosen /\ ~(HeadOf(t, i).count = 0 /\ latch[Current(t).lane[i].head] = Free)
           \/ chosen = m.chosen \union {i} /\ HeadOf(t, i).count = 0
        /\ imv' = [imv EXCEPT ![t].left = m.left \ {i}, ![t].chosen = chosen]
  BY <1>5
<1>7. PICK r : r = RegistersPut(m, op, left, chosen, next)
  OBVIOUS
<1>8. MachineOK(t, r) /\ RegistersIs(r, m, op, left, chosen, next)
  <2>1. \A j \in Lanes : next[j] # << >> => j \in chosen
    BY <1>2, <1>3, <1>4, <1>6 DEF Gathering
  <2> QED BY <1>3, <1>4, <1>7, <2>1, RegistersGo
<1>9. imv' = [imv EXCEPT ![t] = r]
  <2>0. m = [f \in Fields |-> m[f]]
    BY <1>3 DEF Shape
  <2>1. [m EXCEPT !.left = left, !.chosen = chosen] = r
    BY <1>2, <1>4, <1>7, <2>0 DEF RegistersPut, Fields
  <2>2. [imv EXCEPT ![t].left = left, ![t].chosen = chosen]
          = [imv EXCEPT ![t] = [m EXCEPT !.left = left, !.chosen = chosen]]
    BY <1>1, <1>3 DEF VectorOK
  <2> QED BY <1>4, <1>6, <2>1, <2>2
<1>10. HeadGathered(t, i, r)
  BY <1>1, <1>4, <1>6, <1>8 DEF HeadGathered
<1> QED BY <1>2, <1>8, <1>9, <1>10 DEF Goes

\* A thread's registers are replaced by left, chosen and next of a gather or
\* scatter that goes on or ends.
RegistersStep(t, m, op, left, chosen, next) ==
  imv' = [imv EXCEPT ![t] = RegistersPut(m, op, left, chosen, next)]

LEMMA StepGoes ==
  ASSUME VectorOK, NEW t \in Threads, NEW m, m = imv[t], m.op # "turn", phase[t].pc = "build",
         NEW op \in {"gather", "scatter"},
         NEW left \in SUBSET Lanes, NEW chosen \in SUBSET Lanes, NEW next \in [Lanes -> Chains],
         op = "gather" => \A i \in Lanes : next[i] # << >> => i \in chosen,
         RegistersStep(t, m, op, left, chosen, next)
  PROVE  \E r : Goes(t, r) /\ RegistersIs(r, m, op, left, chosen, next)
<1>1. MachineOK(t, m) /\ AtWork(m)
  BY AtGather DEF MachineOK
<1>2. PICK r : r = RegistersPut(m, op, left, chosen, next)
  OBVIOUS
<1>3. PICK o \in {"turn", "gather", "scatter"} : o = op
  OBVIOUS
<1>4. MachineOK(t, r) /\ RegistersIs(r, m, op, left, chosen, next)
  <2>1. o = "turn" => chosen = {} /\ \A i \in Lanes : next[i] = << >>
    BY <1>3
  <2>2. o = "gather" => \A i \in Lanes : next[i] # << >> => i \in chosen
    BY <1>3
  <2>3. r = RegistersPut(m, o, left, chosen, next)
    BY <1>2, <1>3
  <2>4. MachineOK(t, r) /\ RegistersIs(r, m, o, left, chosen, next)
    BY <1>1, <2>1, <2>2, <2>3, RegistersGo
  <2> QED BY <1>3, <2>4
<1> QED BY <1>2, <1>4 DEF Goes, RegistersStep

NextGathered(t, i, r) ==
  RegistersIs(r, imv[t], "gather", imv[t].left \ {i}, imv[t].chosen \union {i},
              [imv[t].next EXCEPT ![i] = HeadOf(t, i).chain])

LEMMA GatherNextGoes ==
  ASSUME VectorOK, heads \in [Heads -> Buckets], NEW t \in Threads, NEW i \in Lanes,
         GatherNext(t, i)
  PROVE  \E r : Goes(t, r) /\ NextGathered(t, i, r)
<1>1. PICK m : m = imv[t]
  OBVIOUS
<1>2. m.op = "gather" /\ phase[t].pc = "build"
  BY <1>1 DEF GatherNext, Running
<1>3. /\ Shape(m) /\ Gathering(m) /\ m.left \in SUBSET Lanes /\ m.chosen \in SUBSET Lanes
      /\ m.next \in [Lanes -> Chains] /\ m.st[m.k].lane \in [Lanes -> LaneValues]
  BY <1>1, <1>2, AtGather
<1>4. PICK chain \in Chains : chain = HeadOf(t, i).chain
  <2>1. m.st[m.k].lane[i].head \in Heads
    BY <1>3 DEF LaneValues
  <2> QED BY <1>1, <2>1 DEF HeadOf, Current, Buckets
<1>5. PICK op \in {"gather", "scatter"}, left \in SUBSET Lanes, chosen \in SUBSET Lanes,
           next \in [Lanes -> Chains] :
        /\ op = "gather" /\ left = m.left \ {i} /\ chosen = m.chosen \union {i}
        /\ next = [m.next EXCEPT ![i] = chain]
  BY <1>3
<1>6. RegistersStep(t, m, op, left, chosen, next)
  <2>0. m = [f \in Fields |-> m[f]]
    BY <1>3 DEF Shape
  <2>1. [m EXCEPT !.left = left, !.chosen = chosen, !.next = next]
          = RegistersPut(m, op, left, chosen, next)
    BY <1>2, <1>5, <2>0 DEF RegistersPut, Fields
  <2>2. imv' = [imv EXCEPT ![t] = [m EXCEPT !.left = left, !.chosen = chosen, !.next = next]]
    <3>1. imv' = [imv EXCEPT ![t].left = @ \ {i}, ![t].chosen = @ \union {i},
                             ![t].next[i] = chain]
      BY <1>4 DEF GatherNext
    <3>2. imv' = [imv EXCEPT ![t] = [m EXCEPT !.left = @ \ {i}, !.chosen = @ \union {i},
                                              !.next[i] = chain]]
      BY ZenonT(30), <1>1, <3>1 DEF VectorOK
    <3>3. [m EXCEPT !.left = @ \ {i}, !.chosen = @ \union {i}, !.next[i] = chain]
            = [m EXCEPT !.left = left, !.chosen = chosen, !.next = next]
      BY <1>3, <1>5 DEF Shape, Fields
    <3> QED BY <3>2, <3>3
  <2> QED BY <2>1, <2>2 DEF RegistersStep
<1>7. op = "gather" => \A j \in Lanes : next[j] # << >> => j \in chosen
  BY <1>2, <1>3, <1>5 DEF Gathering
<1>8. m.op # "turn"
  BY <1>2
<1>9. \E r : Goes(t, r) /\ RegistersIs(r, m, op, left, chosen, next)
  BY <1>1, <1>2, <1>6, <1>7, <1>8, StepGoes
<1> QED BY <1>1, <1>4, <1>5, <1>9 DEF NextGathered

\* A scatter to one lane.
LaneScattered(t, i, r) ==
  RegistersIs(r, imv[t], "scatter", imv[t].left \ {i}, imv[t].chosen, imv[t].next)

LEMMA ScatterGoes ==
  ASSUME VectorOK, NEW t \in Threads, NEW i \in Lanes, Running(t, "scatter"),
         imv' = [imv EXCEPT ![t].left = @ \ {i}]
  PROVE  \E r : Goes(t, r) /\ LaneScattered(t, i, r)
<1>1. PICK m : m = imv[t]
  OBVIOUS
<1>2. m.op = "scatter" /\ phase[t].pc = "build"
  BY <1>1 DEF Running
<1>3. /\ Shape(m) /\ m.left \in SUBSET Lanes /\ m.chosen \in SUBSET Lanes
      /\ m.next \in [Lanes -> Chains]
  BY <1>1, <1>2, AtGather
<1>4. PICK op \in {"gather", "scatter"}, left \in SUBSET Lanes, chosen \in SUBSET Lanes,
           next \in [Lanes -> Chains] :
        /\ op = "scatter" /\ left = m.left \ {i} /\ chosen = m.chosen /\ next = m.next
  BY <1>3
<1>5. RegistersStep(t, m, op, left, chosen, next)
  <2>0. m = [f \in Fields |-> m[f]]
    BY <1>3 DEF Shape
  <2>1. [m EXCEPT !.left = left] = RegistersPut(m, op, left, chosen, next)
    BY <1>2, <1>4, <2>0 DEF RegistersPut, Fields
  <2>2. imv' = [imv EXCEPT ![t] = [m EXCEPT !.left = left]]
    BY <1>1, <1>4 DEF VectorOK
  <2> QED BY <2>1, <2>2 DEF RegistersStep
<1>6. op = "gather" => \A j \in Lanes : next[j] # << >> => j \in chosen
  BY <1>4
<1>7. m.op # "turn"
  BY <1>2
<1>8. \E r : Goes(t, r) /\ RegistersIs(r, m, op, left, chosen, next)
  BY <1>1, <1>2, <1>5, <1>6, <1>7, StepGoes
<1> QED BY <1>1, <1>4, <1>8 DEF LaneScattered

GatherEnded(t, r) ==
  \/ /\ r.op = "turn" /\ SameLanes(r, imv[t])
     /\ imv[t].chosen = {} /\ SameOthers(r, imv[t], {imv[t].k})
     /\ r.st[imv[t].k].stage = "chain" /\ SameMasks(r, imv[t])
  \/ RegistersIs(r, imv[t], "scatter", NoConflict(t), NoConflict(t), imv[t].next)

LEMMA GatheredGoes ==
  ASSUME VectorOK, NEW t \in Threads, Gathered(t)
  PROVE  \E r : Goes(t, r) /\ GatherEnded(t, r)
<1>1. PICK m : m = imv[t]
  OBVIOUS
<1>2. m.op = "gather" /\ phase[t].pc = "build" /\ m.op # "turn"
  BY <1>1 DEF Gathered, Running
<1>3. /\ Shape(m) /\ m.left \in SUBSET Lanes /\ m.chosen \in SUBSET Lanes /\ AtWork(m)
      /\ m.next \in [Lanes -> Chains] /\ Gathering(m)
      /\ LoopInv(LaneValues, Chains, LanesOf(t), m)
  BY <1>1, <1>2, AtGather
<1>4. CASE m.chosen = {}
  <2>1. PICK V, C, W, r : V = LaneValues /\ C = Chains /\ W = LanesOf(t)
                          /\ r = NonePut(m)
    OBVIOUS
  <2>2. LoopInv(V, C, W, m)
    BY <1>3, <2>1
  <2>3. /\ LoopInv(V, C, W, r) /\ r.op = "turn" /\ r.k = m.k /\ r.cur = m.cur
        /\ r.left = m.left /\ r.chosen = m.chosen /\ r.next = m.next
        /\ SameMasks(r, m) /\ SameOthers(r, m, {m.k}) /\ r.st[m.k].stage = "chain"
    BY <1>3, <2>1, <2>2, NoneChosenLoopInv
  <2>4. Gathering(r)
    BY <1>2, <1>3, <1>4, <2>3 DEF Gathering
  <2>5. imv' = [imv EXCEPT ![t] = r]
    BY <1>1, <1>4, <2>1 DEF Gathered, NonePut
  <2>6. GatherEnded(t, r)
    BY <1>1, <1>4, <2>3 DEF GatherEnded, SameLanes, SameMasks
  <2> QED BY <1>2, <2>1, <2>3, <2>4, <2>5, <2>6 DEF Goes, MachineOK
<1>5. CASE m.chosen # {}
  <2>1. NoConflict(t) \subseteq m.chosen
    BY <1>1 DEF NoConflict, FirstOfEach
  <2>2. PICK op \in {"gather", "scatter"}, left \in SUBSET Lanes, next \in [Lanes -> Chains] :
          op = "scatter" /\ left = NoConflict(t) /\ next = m.next
    BY <1>3, <2>1
  <2>3. RegistersStep(t, m, op, left, left, next)
    <3>0. m = [f \in Fields |-> m[f]]
      BY <1>3 DEF Shape
    <3>1. [m EXCEPT !.op = op, !.chosen = left, !.left = left]
            = RegistersPut(m, op, left, left, next)
      BY <2>2, <3>0 DEF RegistersPut, Fields
    <3>2. imv' = [imv EXCEPT ![t] = [m EXCEPT !.op = op, !.chosen = left, !.left = left]]
      BY <1>1, <1>5, <2>2 DEF Gathered
    <3> QED BY <3>1, <3>2 DEF RegistersStep
  <2>4. op = "gather" => \A j \in Lanes : next[j] # << >> => j \in left
    BY <2>2
  <2>5. \E r : Goes(t, r) /\ RegistersIs(r, m, op, left, left, next)
    BY <1>1, <1>2, <2>3, <2>4, StepGoes
  <2> QED BY <1>1, <2>2, <2>5 DEF GatherEnded
<1> QED BY <1>4, <1>5

\* The end of a case, when the machine is at work and nothing is gathered.
Continued(r, m, have) == \E f : Moved(r, m, have, f)

ContinueGoesTo(t, r, m, have) ==
  /\ Goes(t, r) /\ r.op = "turn" /\ r.cur = m.cur /\ Continued(r, m, have)
  /\ Regraded(r, m, have)

LEMMA ContinueGoes ==
  ASSUME NEW t \in Threads, NEW m, MachineOK(t, m), AtWork(m), m.op = "turn",
         NEW have \in SUBSET m.st[m.k].have, NEW step \in {0, 1},
         NEW r, r = Continue(m, have, "chain", step),
         imv' = [imv EXCEPT ![t] = r]
  PROVE  ContinueGoesTo(t, r, m, have)
<1>0. PICK V, C, W : V = LaneValues /\ C = Chains /\ W = LanesOf(t)
  OBVIOUS
<1>1. LoopInv(V, C, W, m) /\ ZeroLane \in V
  BY <1>0, ZeroLaneTyped DEF MachineOK
<1>2. LoopInv(V, C, W, r) /\ Working4(r, m) /\ r.cur = m.cur
  BY <1>1, ContinueLoopInv
<1>3. Gathering(r) /\ r.op = "turn"
  BY <1>2 DEF MachineOK, Gathering, Working4
<1>4. Continued(r, m, have)
  BY <1>1, ContinueMoves DEF LoopInv, Continued
<1>5. Goes(t, r)
  BY <1>0, <1>2, <1>3 DEF Goes, MachineOK
<1>6. Regraded(r, m, have)
  BY <1>1, ContinueRegrades DEF LoopInv
<1> QED BY <1>2, <1>3, <1>4, <1>5, <1>6 DEF ContinueGoesTo

\* The registers of m with nothing gathered.
Dropped(m) == [m EXCEPT !.op = "turn", !.chosen = {}, !.next = [i \in Lanes |-> << >>]]
DroppedIs(w, m) ==
  /\ w.op = "turn" /\ w.st = m.st /\ w.k = m.k /\ w.cur = m.cur /\ w.done = m.done
  /\ w.chosen = {} /\ w.next = [i \in Lanes |-> << >>]

LEMMA DroppedOK ==
  ASSUME VectorOK, NEW t \in Threads, NEW m, m = imv[t], m.op # "turn",
         NEW w, w = Dropped(m)
  PROVE  MachineOK(t, w) /\ AtWork(w) /\ DroppedIs(w, m)
<1>1. /\ Shape(m) /\ m.left \in SUBSET Lanes /\ AtWork(m) /\ MachineOK(t, m)
  BY AtGather DEF MachineOK
<1>2. PICK op \in {"turn", "gather", "scatter"}, left \in SUBSET Lanes, chosen \in SUBSET Lanes,
           next \in [Lanes -> Chains] :
        /\ op = "turn" /\ left = m.left /\ chosen = {} /\ next = [i \in Lanes |-> << >>]
  <2>1. << >> \in Chains
    BY DEF Chains
  <2> QED BY <1>1, <2>1
<1>3. w = RegistersPut(m, op, left, chosen, next)
  <2>1. m = [f \in Fields |-> m[f]]
    BY <1>1 DEF Shape
  <2> QED BY <1>2, <2>1 DEF RegistersPut, Fields, Dropped
<1>4. \A i \in Lanes : next[i] = << >>
  BY <1>2
<1>5. MachineOK(t, w) /\ RegistersIs(w, m, op, left, chosen, next) /\ AtWork(w)
  <2>1. op = "turn" => chosen = {} /\ \A i \in Lanes : next[i] = << >>
    BY <1>2, <1>4
  <2>2. op = "gather" => \A i \in Lanes : next[i] # << >> => i \in chosen
    BY <1>2
  <2>3. op = "turn" \/ AtWork(m)
    BY <1>1
  <2>4. MachineOK(t, m)
    BY <1>1
  <2>5. MachineOK(t, w) /\ RegistersIs(w, m, op, left, chosen, next) /\ (AtWork(m) => AtWork(w))
    BY <1>3, <2>1, <2>2, <2>3, <2>4, RegistersGo
  <2> QED BY <1>1, <2>5
<1> QED BY <1>2, <1>5 DEF RegistersIs, DroppedIs

\* The lanes that were not written are still to be worked on.
ScatterEnded(t, r, w) ==
  /\ DroppedIs(w, imv[t]) /\ r.op = "turn" /\ r.cur = w.cur
  /\ Continued(r, w, Current(t).have \ imv[t].chosen)
  /\ Regraded(r, w, Current(t).have \ imv[t].chosen)

LEMMA ScatteredGoes ==
  ASSUME VectorOK, NEW t \in Threads, Scattered(t)
  PROVE  \E r, w : Goes(t, r) /\ ScatterEnded(t, r, w)
<1>1. PICK m, w : m = imv[t] /\ w = Dropped(m)
  OBVIOUS
<1>2. m.op = "scatter" /\ phase[t].pc = "build" /\ m.op # "turn"
  BY <1>1 DEF Scattered, Running
<1>3. MachineOK(t, w) /\ AtWork(w) /\ DroppedIs(w, m)
  BY <1>1, <1>2, DroppedOK
<1>4. PICK step \in {0, 1} : step = IF Current(t).stage = "head" THEN 0 ELSE 1
  OBVIOUS
<1>5. PICK have \in SUBSET w.st[w.k].have : have = Current(t).have \ imv[t].chosen
  BY <1>1, <1>3 DEF Current, DroppedIs
<1>6. PICK r : r = Continue(w, have, "chain", step)
  OBVIOUS
<1>7. imv' = [imv EXCEPT ![t] = r]
  BY <1>1, <1>4, <1>5, <1>6 DEF Scattered, Dropped
<1>8. w.op = "turn"
  BY <1>3 DEF DroppedIs
<1>9. ContinueGoesTo(t, r, w, have)
  BY <1>3, <1>6, <1>7, <1>8, ContinueGoes
<1> QED BY <1>1, <1>3, <1>5, <1>9 DEF ScatterEnded, ContinueGoesTo

\* The lanes whose head counts something go on.
HeadProbed(t, r, w) ==
  /\ SameLanes(w, imv[t]) /\ SameWork(w, imv[t]) /\ Held(w) = Held(imv[t])
  /\ w.k \in States \ {Residual} /\ w.st[w.k].stage = "head"
  /\ ContinueGoesTo(t, r, w, {i \in w.st[w.k].have : heads[w.st[w.k].lane[i].head].count # 0})

LEMMA ProbeHeadGoes ==
  ASSUME VectorOK, setup \in Setups, NEW t \in Threads, ProbeHead(t)
  PROVE  \E r, w : HeadProbed(t, r, w)
<1>1. PICK w : w = Machine(t)
  OBVIOUS
<1>2. InStage(t, "head") /\ phase[t].pc = "probe"
  BY DEF ProbeHead
<1>3. MachineOK(t, w) /\ w.op = "turn" /\ AtWork(w)
  BY <1>1, <1>2, AtTurn
<1>4. PICK step \in {0, 1} : step = 1
  OBVIOUS
<1>5. PICK have \in SUBSET w.st[w.k].have :
        /\ have = {i \in State(t).have : heads[Address(t)[i]].count # 0}
        /\ have = {i \in w.st[w.k].have : heads[w.st[w.k].lane[i].head].count # 0}
  <2>1. w.st[w.k].have \in SUBSET Lanes
    <3>1. w \in Machines(LaneValues, Chains) /\ w.k \in States
      BY <1>3 DEF MachineOK, LoopInv, MachineInv, AtWork
    <3> QED BY <3>1, StateTyped
  <2>2. \A i \in Lanes : Address(t)[i] = w.st[w.k].lane[i].head
    BY <1>1 DEF Address, State
  <2> QED BY <1>1, <2>1, <2>2 DEF State
<1>6. PICK r : r = Continue(w, have, "chain", step)
  OBVIOUS
<1>7. imv' = [imv EXCEPT ![t] = r]
  BY <1>1, <1>4, <1>5, <1>6 DEF ProbeHead
<1>9. ContinueGoesTo(t, r, w, have)
  BY <1>3, <1>6, <1>7, ContinueGoes
<1>10. SameLanes(w, imv[t]) /\ SameWork(w, imv[t]) /\ Held(w) = Held(imv[t])
  BY <1>1, <1>2, TurnWork
<1>11. w.k \in States \ {Residual} /\ w.st[w.k].stage = "head"
  BY <1>1, <1>2, AtTurn
<1>12. ContinueGoesTo(t, r, w, {i \in w.st[w.k].have : heads[w.st[w.k].lane[i].head].count # 0})
  BY <1>5, <1>9
<1> QED BY <1>10, <1>11, <1>12 DEF HeadProbed

\* The lanes that have a next bucket move to it, with the tuples they carry.
Compared(l) == FirstTuples(l.head)[l.pos + 1] = l.tuple
GoesOn(l) == l.pos < Len(heads[l.head].chain)
Advanced(w, a) ==
  /\ a.k = w.k /\ a.cur = w.cur /\ SameOthers(a, w, {w.k})
  /\ a.st[w.k].have = w.st[w.k].have /\ a.st[w.k].stage = w.st[w.k].stage
  /\ \A i \in w.st[w.k].have :
       /\ a.st[w.k].lane[i].tuple = w.st[w.k].lane[i].tuple
       /\ a.st[w.k].lane[i].head = w.st[w.k].lane[i].head
       /\ GoesOn(w.st[w.k].lane[i]) => a.st[w.k].lane[i].pos = w.st[w.k].lane[i].pos + 1
ChainProbed(t, r, w, a) ==
  /\ SameLanes(w, imv[t]) /\ SameWork(w, imv[t]) /\ Held(w) = Held(imv[t])
  /\ w.k \in States /\ w.st[w.k].stage = "chain" /\ Advanced(w, a)
  /\ ContinueGoesTo(t, r, a, {i \in w.st[w.k].have : GoesOn(w.st[w.k].lane[i])})
  /\ matches' = [matches EXCEPT
       ![t] = @ + Cardinality({i \in w.st[w.k].have : Compared(w.st[w.k].lane[i])})]

LEMMA ProbeChainGoes ==
  ASSUME VectorOK, setup \in Setups, NEW t \in Threads, ProbeChain(t)
  PROVE  \E r, w, a : ChainProbed(t, r, w, a)
<1>1. PICK w, V, C, W, v : w = Machine(t) /\ V = LaneValues /\ C = Chains /\ W = LanesOf(t)
                           /\ v = w.st[w.k]
  OBVIOUS
<1>2. InStage(t, "chain") /\ phase[t].pc = "probe"
  BY DEF ProbeChain
<1>3. /\ MachineOK(t, w) /\ w.op = "turn" /\ AtWork(w) /\ w.k \in States
      /\ w.st[w.k].stage = "chain"
  BY <1>1, <1>2, AtTurn
<1>4. LoopInv(V, C, W, w) /\ w \in Machines(V, C) /\ Shape(w)
  BY <1>1, <1>3, MachineShape DEF MachineOK, LoopInv, MachineInv
<1>5. v.lane \in [Lanes -> V] /\ v.have \in SUBSET Lanes /\ \A i \in v.have : v.lane[i] \in W
  <2>1. v.lane \in [Lanes -> V] /\ v.have \in SUBSET Lanes
    BY <1>1, <1>3, <1>4, StateTyped
  <2>2. \A i \in v.have : <<w.k, i>> \in Held(w) /\ LaneOf(w, <<w.k, i>>) = v.lane[i]
    BY <1>1, <1>3, <2>1 DEF Held, LaneOf
  <2> QED BY <1>4, <2>1, <2>2 DEF LoopInv
<1>6. PICK have : /\ have = {i \in v.have : HasNext(t, i)}
                  /\ have = {i \in v.have : GoesOn(v.lane[i])}
  <2>1. \A i \in v.have : HasNext(t, i) <=> GoesOn(v.lane[i])
    BY <1>1, <1>5 DEF HasNext, GoesOn, Address, State
  <2> QED BY <2>1
<1>7. PICK lane : lane = [i \in Lanes |-> IF i \in have
                                          THEN [v.lane[i] EXCEPT !.pos = @ + 1]
                                          ELSE v.lane[i]]
  OBVIOUS
<1>8. /\ lane \in [Lanes -> V] /\ \A i \in v.have : lane[i] \in W
      /\ \A i \in v.have : /\ lane[i].tuple = v.lane[i].tuple /\ lane[i].head = v.lane[i].head
                           /\ i \in have => lane[i].pos = v.lane[i].pos + 1
  <2>1. ASSUME NEW i \in Lanes
        PROVE  /\ lane[i] \in V /\ lane[i].tuple = v.lane[i].tuple /\ lane[i].head = v.lane[i].head
               /\ i \in have => lane[i].pos = v.lane[i].pos + 1
    <3>1. PICK l : l = v.lane[i]
      OBVIOUS
    <3>2. l \in LaneValues
      BY <1>1, <1>5, <3>1
    <3>3. lane[i] = [l EXCEPT !.pos = l.pos + 1] \/ (lane[i] = l /\ i \notin have)
      BY <1>7, <3>1
    <3>4. /\ [l EXCEPT !.pos = l.pos + 1] \in LaneValues
          /\ [l EXCEPT !.pos = l.pos + 1].tuple = l.tuple
          /\ [l EXCEPT !.pos = l.pos + 1].head = l.head
          /\ [l EXCEPT !.pos = l.pos + 1].pos = l.pos + 1
      BY <3>2 DEF LaneValues
    <3> QED BY <1>1, <3>1, <3>2, <3>3, <3>4
  <2>2. lane \in [Lanes -> V]
    BY <1>7, <2>1
  <2>3. \A i \in v.have : lane[i] \in W
    <3>1. \A l \in LaneValues : l \in W <=> l.tuple \in Slice(t)
      BY <1>1 DEF LanesOf
    <3> QED BY <1>1, <1>5, <2>1, <3>1
  <2> QED BY <1>5, <2>1, <2>2, <2>3
<1>ch. PICK s \in States, stage \in Middle : s = w.k /\ stage = "chain"
  BY <1>3 DEF Middle
<1>9. PICK a : s = w.k /\ stage = "chain" /\ a = LanePut(w, s, lane)
  BY <1>ch
<1>10. StateIs(a, w, s, w.st[s].stage, w.st[s].have, lane)
  BY <1>4, <1>9, LaneSet
<1>11. StateIs(a, w, w.k, stage, w.st[w.k].have, lane)
  BY <1>3, <1>9, <1>10
<1>12. LoopInv(V, C, W, a)
  BY <1>1, <1>3, <1>4, <1>8, <1>9, <1>11, LanesLoopInv
<1>13. a.op = "turn" /\ a.k = w.k /\ a.st[a.k].have = v.have /\ a.st[a.k].stage = "chain"
       /\ a.done = w.done /\ a.chosen = w.chosen /\ a.next = w.next
  BY <1>1, <1>3, <1>9, <1>11 DEF StateIs, SameLocals, Working4
<1>14. AtWork(a) /\ MachineOK(t, a)
  BY <1>1, <1>3, <1>12, <1>13 DEF AtWork, MachineOK, Gathering
<1>15. PICK hold \in SUBSET a.st[a.k].have : hold = have
  BY <1>6, <1>13
<1>16. PICK step \in {0, 1} : step = 1
  OBVIOUS
<1>17. PICK r : r = Continue(a, hold, "chain", step)
  OBVIOUS
<1>18. imv' = [imv EXCEPT ![t] = r]
  <2>1. v = State(t)
    BY <1>1 DEF State
  <2>2. PICK ahead : ahead = [w EXCEPT !.st[w.k].lane =
                  [i \in Lanes |-> IF i \in have THEN [v.lane[i] EXCEPT !.pos = @ + 1]
                                                 ELSE v.lane[i]]]
    OBVIOUS
  <2>3. imv' = [imv EXCEPT ![t] = Continue(ahead, have, "chain", 1)]
    BY <1>1, <1>6, <2>1, <2>2 DEF ProbeChain
  <2>4. ahead = [w EXCEPT !.st[w.k].lane = lane]
    BY <1>7, <2>2
  <2>5. ahead = a
    BY <1>9, <2>4 DEF LanePut
  <2> QED BY <1>15, <1>16, <1>17, <2>3, <2>5
<1>19. ContinueGoesTo(t, r, a, hold)
  BY <1>13, <1>14, <1>17, <1>18, ContinueGoes
<1>20. SameLanes(w, imv[t]) /\ SameWork(w, imv[t]) /\ Held(w) = Held(imv[t])
  BY <1>1, <1>2, TurnWork
<1>21. Advanced(w, a)
  <2>1. a.cur = w.cur /\ SameOthers(a, w, {w.k}) /\ a.st[w.k].lane = lane
        /\ a.k = w.k /\ a.st[w.k].have = v.have /\ a.st[w.k].stage = w.st[w.k].stage
    BY <1>3, <1>9, <1>11, <1>13 DEF StateIs, SameLocals
  <2> QED BY <1>1, <1>6, <1>8, <2>1 DEF Advanced
<1>22. matches' = [matches EXCEPT ![t] = @ + Cardinality({i \in v.have : Compared(v.lane[i])})]
  <2>1. {i \in v.have : FirstTuples(v.lane[i].head)[v.lane[i].pos + 1] = v.lane[i].tuple}
          = {i \in v.have : Compared(v.lane[i])}
    BY DEF Compared
  <2>2. v = State(t)
    BY <1>1 DEF State
  <2> QED BY <2>1, <2>2 DEF ProbeChain
<1>23. ContinueGoesTo(t, r, a, {i \in w.st[w.k].have : GoesOn(w.st[w.k].lane[i])})
  BY <1>1, <1>6, <1>15, <1>19
<1>24. matches' = [matches EXCEPT
         ![t] = @ + Cardinality({i \in w.st[w.k].have : Compared(w.st[w.k].lane[i])})]
  BY <1>1, <1>22
<1> QED BY <1>3, <1>20, <1>21, <1>23, <1>24 DEF ChainProbed

-----------------------------------------------------------------------------
(* The steps by what they change. *)
Scattering(t) == \E i \in Lanes : ScatterHead(t, i) \/ ScatterNext(t, i)
Counting(t) == ProbeChain(t)
Turning(t) ==
  \/ ImvRetire(t) \/ ImvSkip(t) \/ ImvLoad(t) \/ LearnedLoad(t) \/ ImvModel(t)
  \/ GatherStart(t) \/ Gathered(t) \/ Scattered(t) \/ ProbeHead(t)
  \/ \E i \in Lanes : GatherHead(t, i) \/ GatherNext(t, i)
VectorWork(t) == Turning(t) \/ Scattering(t) \/ Counting(t)
Ending(t) == ScalarBuilt(t) \/ ScalarProbed(t) \/ ImvLeave(t) \/ Ready(t)

LEMMA FlatNext ==
  ASSUME Next
  PROVE  \/ MainJoins \/ Ended
         \/ \E t \in Threads : \/ Phasing(t) \/ Arrive(t) \/ Locking(t) \/ Ending(t)
                               \/ VectorWork(t)
<1>1. ASSUME NEW t \in Threads, Loop(t) PROVE Ending(t) \/ VectorWork(t)
  BY <1>1 DEF Loop, Ending, VectorWork, Turning
<1>2. ASSUME NEW t \in Threads, hash_pfun(t) \/ hash_pfun1(t)
      PROVE  Locking(t) \/ Ending(t) \/ VectorWork(t)
  <2>1. ScalarBuild(t) => Locking(t) \/ Ending(t)
    BY DEF ScalarBuild, Locking, Ending
  <2>2. ScalarProbe(t) => Locking(t) \/ Ending(t)
    BY DEF ScalarProbe, Locking, Ending
  <2>3. VectorBuild(t) => Ending(t) \/ VectorWork(t)
    BY <1>1 DEF VectorBuild, VectorWork, Turning, Scattering
  <2>4. VectorProbe(t) => Ending(t) \/ VectorWork(t)
    BY <1>1 DEF VectorProbe, VectorWork, Turning, Counting
  <2> QED BY <1>2, <2>1, <2>2, <2>3, <2>4
     DEF hash_pfun, hash_pfun1, hash_build_rel_r_partition,
         hash_build_rel_r_partition_imv, hash_build_rel_r_partition_learned,
         hash_build_rel_r_partition_learned_imv, hash_probe_rel_s_partition,
         hash_probe_rel_s_partition_imv, hash_probe_rel_s_partition_learned,
         hash_probe_rel_s_partition_learned_imv
<1>3. Next => MainJoins \/ Ended \/ \E t \in Threads : hash_thread(t)
  BY DEF Next
<1>4. ASSUME NEW t \in Threads, hash_thread(t)
      PROVE  Phasing(t) \/ Arrive(t) \/ Locking(t) \/ Ending(t) \/ VectorWork(t)
  BY <1>2, <1>4 DEF hash_thread, Phasing, Ending
<1> QED BY <1>3, <1>4

LEMMA WorkGoes ==
  ASSUME VectorOK, setup \in Setups, heads \in [Heads -> Buckets], NEW t \in Threads,
         VectorWork(t)
  PROVE  \E r : Goes(t, r)
<1>1. ASSUME Turning(t) PROVE \E r : Goes(t, r)
  BY <1>1, RetireGoes, SkipGoes, LoadGoes, ModelGoes, GatherStartGoes, GatheredGoes,
     ScatteredGoes, ProbeHeadGoes, GatherHeadGoes, GatherNextGoes
     DEF Turning, HeadProbed, ContinueGoesTo
<1>2. ASSUME Scattering(t) PROVE \E r : Goes(t, r)
  <2>1. PICK i \in Lanes : ScatterHead(t, i) \/ ScatterNext(t, i)
    BY <1>2 DEF Scattering
  <2>2. Running(t, "scatter") /\ imv' = [imv EXCEPT ![t].left = @ \ {i}]
    BY <2>1 DEF ScatterHead, ScatterNext
  <2> QED BY <2>2, ScatterGoes
<1>3. ASSUME Counting(t) PROVE \E r : Goes(t, r)
  BY <1>3, ProbeChainGoes DEF Counting, ChainProbed, ContinueGoesTo
<1> QED BY <1>1, <1>2, <1>3 DEF VectorWork

\* What the steps of the vector loops leave alone.
WorkLeaves ==
  UNCHANGED <<setup, phase, at, called, result, hash_pf_num, ht, live, args_ht, scalar,
              num_results, latch>>

LEMMA WorkFrame ==
  ASSUME NEW t, VectorWork(t)
  PROVE  /\ WorkLeaves
         /\ Scattering(t) => UNCHANGED matches
         /\ Turning(t) => UNCHANGED <<heads, bufs, matches>>
         /\ Counting(t) => UNCHANGED <<heads, bufs>>
<1>1. ASSUME Turning(t) PROVE WorkLeaves /\ UNCHANGED <<heads, bufs, matches>>
  <2>1. Turning(t) => Inside /\ ImvOnly /\ UNCHANGED <<table, matches>>
    BY DEF Turning, ImvRetire, ImvSkip, ImvLoad, LearnedLoad, ImvModel, GatherStart, Gathered,
           Scattered, ProbeHead, GatherHead, GatherNext
  <2> QED BY <1>1, <2>1 DEF Inside, ImvOnly, table, shared, WorkLeaves
<1>2. ASSUME Scattering(t) PROVE WorkLeaves /\ UNCHANGED matches
  BY <1>2 DEF Scattering, ScatterHead, ScatterNext, Inside, ImvOnly, shared, WorkLeaves
<1>3. ASSUME Counting(t) PROVE WorkLeaves /\ UNCHANGED <<heads, bufs>>
  BY <1>3 DEF Counting, ProbeChain, Inside, ImvOnly, table, shared, WorkLeaves
<1> QED BY <1>1, <1>2, <1>3 DEF VectorWork

\* What the steps outside the vector loops do to their locals.
LEMMA OthersFrame ==
  ASSUME NEW t, Phasing(t) \/ Locking(t) \/ Ending(t) \/ MainJoins \/ Ended
  PROVE  UNCHANGED <<setup, phase, imv, called>>
<1>1. Phasing(t) => UNCHANGED <<setup, phase, imv, called>>
  BY DEF Phasing, SetFunctions, Allocate, Fetch, Release, locals, Done
<1>2. Locking(t) => UNCHANGED <<setup, phase, imv, called>>
  BY DEF Locking, Lock, Claim, Store, Unlock, ProbeTuple, Inside
<1>3. Ending(t) => UNCHANGED <<setup, phase, imv, called>>
  BY DEF Ending, ScalarBuilt, ScalarProbed, ImvLeave, Ready, locals, Done
<1>4. MainJoins => UNCHANGED <<setup, phase, imv, called>>
  BY DEF MainJoins, locals
<1>5. Ended => UNCHANGED <<setup, phase, imv, called>>
  BY DEF Ended, vars, locals
<1> QED BY <1>1, <1>2, <1>3, <1>4, <1>5

LEMMA StartOK ==
  ASSUME NEW t
  PROVE  MachineOK(t, ImvStart) /\ ImvStart.op = "turn"
<1>1. PICK V, C, W : V = LaneValues /\ C = Chains /\ W = LanesOf(t)
  OBVIOUS
<1>2. ZeroLane \in V /\ << >> \in C
  BY <1>1, ZeroLaneTyped DEF Chains
<1>3. LoopInv(V, C, W, ImvStart)
  BY <1>2, StartLoopInv
<1>4. Gathering(ImvStart) /\ ImvStart.op = "turn"
  BY DEF Gathering, ImvStart
<1> QED BY <1>1, <1>3, <1>4 DEF MachineOK

LEMMA NextVectorOK ==
  ASSUME VectorOK, setup \in Setups, heads \in [Heads -> Buckets], [Next]_vars
  PROVE  VectorOK'
<1>1. CASE UNCHANGED vars
  BY <1>1, VectorStays DEF vars, locals
<1>2. ASSUME NEW t \in Threads, VectorWork(t) PROVE VectorOK'
  <2>1. PICK r : Goes(t, r)
    BY <1>2, WorkGoes
  <2>2. UNCHANGED <<setup, phase>>
    BY <1>2, WorkFrame DEF WorkLeaves
  <2> QED BY <2>1, <2>2, VectorGoes
<1>3. ASSUME NEW t \in Threads, Phasing(t) \/ Locking(t) \/ Ending(t) \/ MainJoins \/ Ended
      PROVE  VectorOK'
  BY <1>3, OthersFrame, VectorStays
<1>4. ASSUME NEW t \in Threads, Arrive(t) PROVE VectorOK'
  <2>1. CASE UNCHANGED <<phase, locals>>
    BY <1>4, <2>1, VectorStays DEF Arrive, locals
  <2>2. CASE imv' = [u \in Threads |-> ImvStart]
    <3>1. setup' = setup /\ Threads' = Threads
      BY <1>4, SameSetup DEF Arrive
    <3>2. ASSUME NEW u \in Threads PROVE MachineOK(u, imv[u])' /\ imv'[u].op = "turn"
      <4>1. PICK m : m = ImvStart
        OBVIOUS
      <4>2. MachineOK(u, m) /\ m.op = "turn"
        BY <4>1, StartOK
      <4>3. MachineOK(u, m)' /\ m = imv'[u]
        BY <2>2, <3>1, <4>1, <4>2, SameMachineOK
      <4> QED BY <4>2, <4>3 DEF MachineOK
    <3>3. imv' = [u \in Threads |-> imv'[u]]
      BY <2>2
    <3> QED BY <3>1, <3>2, <3>3 DEF VectorOK
  <2> QED BY <1>4, <2>1, <2>2 DEF Arrive
<1>5. ASSUME MainJoins \/ Ended PROVE VectorOK'
  <2>1. UNCHANGED <<setup, phase, imv>>
    BY <1>5 DEF MainJoins, Ended, vars, locals
  <2> QED BY <2>1, VectorStays
<1> QED BY <1>1, <1>2, <1>3, <1>4, <1>5, FlatNext

-----------------------------------------------------------------------------
(* What builds write is a table again. *)
HeadsPut(b, q) == heads' = [heads EXCEPT ![b] = q]

LEMMA ChainPut ==
  ASSUME NEW chain \in Chains, NEW q, chain # << >> => q \in Cells
  PROVE  [chain EXCEPT ![1] = q] \in Chains
<1>1. PICK n \in Nat : chain \in [1 .. n -> Cells]
  BY DEF Chains
<1>2. CASE n = 0
  <2>1. chain = << >>
    BY <1>1, <1>2
  <2>2. [chain EXCEPT ![1] = q] = chain
    BY <1>1, <1>2
  <2> QED BY <2>2
<1>3. CASE n # 0
  <2>1. chain # << >>
    BY <1>1, <1>3
  <2>2. [chain EXCEPT ![1] = q] \in [1 .. n -> Cells]
    BY <1>1, <1>3, <2>1
  <2> QED BY <2>2 DEF Chains
<1> QED BY <1>2, <1>3

LEMMA ChainFirst ==
  ASSUME NEW chain \in Chains, chain # << >>
  PROVE  chain[1] \in Cells
BY DEF Chains

LEMMA ChainCons ==
  ASSUME NEW chain \in Chains, NEW q \in Cells
  PROVE  <<q>> \o chain \in Chains
BY DEF Chains

BufValues == [buffers : Nat, count : Nat]

LEMMA NewBufferTyped ==
  ASSUME NEW bs \in BufValues
  PROVE  GetNewBucket(bs) \in BufValues
BY BoundsAssumption DEF GetNewBucket, BufValues

LEMMA NewestTyped ==
  ASSUME setup \in Setups, NEW t \in Threads, NEW bs \in BufValues, NEW count \in Nat,
         NEW tuple \in Nat
  PROVE  NewestBucket(t, bs, count, tuple) \in Cells
BY BoundsAssumption DEF NewestBucket, Cells, BufValues

TableTyped == heads \in [Heads -> Buckets] /\ bufs \in [Threads -> BufValues]

LEMMA HeadsPutTyped ==
  ASSUME heads \in [Heads -> Buckets], setup' = setup, NEW b, NEW q, b \in Heads => q \in Buckets,
         HeadsPut(b, q)
  PROVE  heads' \in [Heads -> Buckets']
<1>1. Buckets' = Buckets
  BY SameSetupTypes
<1> QED BY <1>1 DEF HeadsPut

\* A bucket with one field replaced.
BucketFields(h) ==
  /\ \A x \in Nat : [h EXCEPT !.count = x] \in Buckets
  /\ \A x \in Chains : [h EXCEPT !.chain = x] \in Buckets
  /\ \A x \in [1 .. setup.bucketSize -> Nat] : [h EXCEPT !.tuples = x] \in Buckets

LEMMA BucketTyped ==
  ASSUME NEW h \in Buckets
  PROVE  /\ BucketFields(h)
         /\ h.count \in Nat /\ h.chain \in Chains /\ h.tuples \in [1 .. setup.bucketSize -> Nat]
BY DEF Buckets, BucketFields

LEMMA ClaimTyped ==
  ASSUME TableTyped, ControlOK, ScalarOK, NEW t \in Threads, Claim(t)
  PROVE  TableTyped'
<1>1. PICK b \in Heads : b = Bucket(t)
  BY TupleInPart DEF Claim, AtStep
<1>2. PICK h : h = heads[b]
  OBVIOUS
<1>3. /\ h \in Buckets /\ BucketFields(h) /\ h.count \in Nat /\ h.chain \in Chains
  BY <1>1, <1>2, BucketTyped DEF TableTyped
<1>4. setup' = setup /\ Threads' = Threads /\ setup \in Setups
  BY SameSetup DEF Claim, Inside, ControlOK
<1>5. bufs[t] \in BufValues
  BY DEF TableTyped
<1>6. PICK new \in BufValues : new = GetNewBucket(bufs[t])
  BY <1>5, NewBufferTyped
<1>7. bufs' = bufs \/ bufs' = [bufs EXCEPT ![t] = new]
  BY <1>6 DEF Claim
<1>8. bufs' \in [Threads' -> BufValues]
  BY <1>4, <1>7 DEF TableTyped
<1>9. \/ HeadsPut(b, [h EXCEPT !.count = h.count + 1])
      \/ h.chain # << >> /\ HeadsPut(b, [h EXCEPT !.chain = [h.chain EXCEPT ![1] =
                               [h.chain[1] EXCEPT !.count = h.chain[1].count + 1]]])
      \/ HeadsPut(b, [h EXCEPT !.chain = <<NewestBucket(t, new, 1, NoTuple)>> \o h.chain])
  BY <1>1, <1>2, <1>6 DEF Claim, HeadsPut
<1>10. CASE HeadsPut(b, [h EXCEPT !.count = h.count + 1])
  <2>1. [h EXCEPT !.count = h.count + 1] \in Buckets
    BY <1>3 DEF BucketFields
  <2> QED BY <1>4, <1>8, <1>10, <2>1, HeadsPutTyped DEF TableTyped
<1>11. CASE h.chain # << >> /\ HeadsPut(b, [h EXCEPT !.chain = [h.chain EXCEPT ![1] =
                               [h.chain[1] EXCEPT !.count = h.chain[1].count + 1]]])
  <2>1. [h.chain[1] EXCEPT !.count = h.chain[1].count + 1] \in Cells
    BY <1>3, <1>11, ChainFirst DEF Cells
  <2>2. [h.chain EXCEPT ![1] = [h.chain[1] EXCEPT !.count = h.chain[1].count + 1]] \in Chains
    BY <1>3, <2>1, ChainPut
  <2>3. [h EXCEPT !.chain = [h.chain EXCEPT ![1] =
                              [h.chain[1] EXCEPT !.count = h.chain[1].count + 1]]] \in Buckets
    BY <1>3, <2>2 DEF BucketFields
  <2> QED BY <1>4, <1>8, <1>11, <2>3, HeadsPutTyped DEF TableTyped
<1>12. CASE HeadsPut(b, [h EXCEPT !.chain = <<NewestBucket(t, new, 1, NoTuple)>> \o h.chain])
  <2>1. NewestBucket(t, new, 1, NoTuple) \in Cells
    BY <1>4, NewestTyped, BoundsAssumption
  <2>2. <<NewestBucket(t, new, 1, NoTuple)>> \o h.chain \in Chains
    BY <1>3, <2>1, ChainCons
  <2>3. [h EXCEPT !.chain = <<NewestBucket(t, new, 1, NoTuple)>> \o h.chain] \in Buckets
    BY <1>3, <2>2 DEF BucketFields
  <2> QED BY <1>4, <1>8, <1>12, <2>3, HeadsPutTyped DEF TableTyped
<1> QED BY <1>9, <1>10, <1>11, <1>12

LEMMA TupleTyped ==
  ASSUME ControlOK, ScalarOK, NEW t \in Threads
  PROVE  Tuple(t) \in Nat
<1>1. First(t) \in Nat /\ scalar[t].i \in Nat
  BY PartFacts DEF ControlOK, ScalarOK
<1> QED BY <1>1 DEF Tuple

LEMMA StoreTyped ==
  ASSUME TableTyped, ControlOK, ScalarOK, NEW t \in Threads, Store(t)
  PROVE  TableTyped'
<1>1. PICK b \in Heads : b = Bucket(t)
  BY TupleInPart DEF Store, AtStep
<1>2. PICK h, slot : h = heads[b] /\ slot = scalar[t].slot
  OBVIOUS
<1>3. /\ h \in Buckets /\ BucketFields(h) /\ h.chain \in Chains
      /\ h.tuples \in [1 .. setup.bucketSize -> Nat]
  BY <1>1, <1>2, BucketTyped DEF TableTyped
<1>4. setup' = setup /\ Threads' = Threads
  BY SameSetup DEF Store, Inside
<1>5. bufs' \in [Threads' -> BufValues]
  BY <1>4 DEF Store, TableTyped
<1>6. PICK x \in Nat : x = Tuple(t)
  BY TupleTyped
<1>7. \/ HeadsPut(b, [h EXCEPT !.tuples = [h.tuples EXCEPT ![slot] = x]])
      \/ HeadsPut(b, [h EXCEPT !.chain = [h.chain EXCEPT ![1] =
                        [h.chain[1] EXCEPT !.tuples = [h.chain[1].tuples EXCEPT ![slot] = x]]]])
  BY <1>1, <1>2, <1>6 DEF Store, HeadsPut
<1>8. CASE HeadsPut(b, [h EXCEPT !.tuples = [h.tuples EXCEPT ![slot] = x]])
  <2>1. [h EXCEPT !.tuples = [h.tuples EXCEPT ![slot] = x]] \in Buckets
    BY <1>3 DEF BucketFields
  <2> QED BY <1>4, <1>5, <1>8, <2>1, HeadsPutTyped DEF TableTyped
<1>9. CASE HeadsPut(b, [h EXCEPT !.chain = [h.chain EXCEPT ![1] =
                        [h.chain[1] EXCEPT !.tuples = [h.chain[1].tuples EXCEPT ![slot] = x]]]])
  <2>1. h.chain # << >> =>
          [h.chain[1] EXCEPT !.tuples = [h.chain[1].tuples EXCEPT ![slot] = x]] \in Cells
    BY <1>3, ChainFirst DEF Cells
  <2>2. [h.chain EXCEPT ![1] =
           [h.chain[1] EXCEPT !.tuples = [h.chain[1].tuples EXCEPT ![slot] = x]]] \in Chains
    BY <1>3, <2>1, ChainPut
  <2>3. [h EXCEPT !.chain = [h.chain EXCEPT ![1] =
           [h.chain[1] EXCEPT !.tuples = [h.chain[1].tuples EXCEPT ![slot] = x]]]] \in Buckets
    BY <1>3, <2>2 DEF BucketFields
  <2> QED BY <1>4, <1>5, <1>9, <2>3, HeadsPutTyped DEF TableTyped
<1> QED BY <1>7, <1>8, <1>9

LEMMA ScatterTyped ==
  ASSUME TableTyped, VectorOK, setup \in Setups, NEW t \in Threads, Scattering(t)
  PROVE  TableTyped'
<1>1. PICK i \in Lanes : ScatterHead(t, i) \/ ScatterNext(t, i)
  BY DEF Scattering
<1>2. PICK m : m = imv[t]
  OBVIOUS
<1>3. m.op = "scatter" /\ m.op # "turn" /\ setup' = setup /\ Threads' = Threads
  BY <1>1, <1>2, SameSetup DEF ScatterHead, ScatterNext, Running, Inside
<1>4. m.next \in [Lanes -> Chains] /\ m.st[m.k].lane \in [Lanes -> LaneValues]
  BY <1>2, <1>3, AtGather
<1>5. PICK l \in LaneValues : l = Current(t).lane[i]
  BY <1>2, <1>4 DEF Current
<1>6. PICK b \in Heads, x \in Nat : b = l.head /\ x = l.tuple
  BY <1>5 DEF LaneValues
<1>7. PICK h : h = heads[b]
  OBVIOUS
<1>8. /\ h \in Buckets /\ BucketFields(h) /\ h.tuples \in [1 .. setup.bucketSize -> Nat]
  BY <1>7, BucketTyped DEF TableTyped
<1>9. bufs[t] \in BufValues
  BY DEF TableTyped
<1>10. PICK new \in BufValues : new = GetNewBucket(bufs[t])
  BY <1>9, NewBufferTyped
<1>11. bufs' = bufs \/ bufs' = [bufs EXCEPT ![t] = new]
  BY <1>1, <1>10 DEF ScatterHead, ScatterNext
<1>12. bufs' \in [Threads' -> BufValues]
  BY <1>3, <1>11 DEF TableTyped
<1>13. \/ \E q : /\ q = [h EXCEPT !.count = 1, !.tuples = [h.tuples EXCEPT ![1] = x]]
                 /\ HeadsPut(b, q)
       \/ HeadsPut(b, [h EXCEPT !.chain = NewChain(t, i, new)])
  <2>1. CASE ScatterHead(t, i)
    <3>1. heads' = [heads EXCEPT ![b].count = 1, ![b].tuples[1] = x]
      BY <1>5, <1>6, <2>1 DEF ScatterHead
    <3>2. PICK q : q = [h EXCEPT !.count = 1, !.tuples = [h.tuples EXCEPT ![1] = x]]
      OBVIOUS
    <3>3. q = [h EXCEPT !.count = 1, !.tuples[1] = x]
      BY <1>8, <3>2 DEF Buckets
    <3>4. heads' = [heads EXCEPT ![b] = [h EXCEPT !.count = 1, !.tuples[1] = x]]
      BY <1>7, <3>1 DEF TableTyped
    <3> QED BY <3>2, <3>3, <3>4 DEF HeadsPut
  <2>2. CASE ScatterNext(t, i)
    BY <1>5, <1>6, <1>7, <1>10, <2>2 DEF ScatterNext, HeadsPut
  <2> QED BY <1>1, <2>1, <2>2
<1>14. ASSUME NEW q, q = [h EXCEPT !.count = 1, !.tuples = [h.tuples EXCEPT ![1] = x]],
              HeadsPut(b, q)
       PROVE  TableTyped'
  <2>1. PICK ts \in [1 .. setup.bucketSize -> Nat] : ts = [h.tuples EXCEPT ![1] = x]
    BY <1>8
  <2>2. q = [h EXCEPT !.count = 1, !.tuples = ts]
    BY <1>14, <2>1
  <2>3. q \in Buckets
    BY <1>8, <2>2 DEF Buckets
  <2> QED BY <1>3, <1>12, <1>14, <2>3, HeadsPutTyped DEF TableTyped
<1>15. CASE HeadsPut(b, [h EXCEPT !.chain = NewChain(t, i, new)])
  <2>1. NewestBucket(t, new, 0, x) \in Cells
    BY NewestTyped
  <2>2. m.next[i] \in Chains
    BY <1>4
  <2>3. <<NewestBucket(t, new, 0, x)>> \o m.next[i] \in Chains
    BY <2>1, <2>2, ChainCons
  <2>4. NewChain(t, i, new) \in Chains
    BY <1>2, <1>5, <1>6, <2>3 DEF NewChain
  <2>5. [h EXCEPT !.chain = NewChain(t, i, new)] \in Buckets
    BY <1>8, <2>4 DEF BucketFields
  <2> QED BY <1>3, <1>12, <1>15, <2>5, HeadsPutTyped DEF TableTyped
<1> QED BY <1>13, <1>14, <1>15

LEMMA EmptyTyped ==
  ASSUME setup \in Setups
  PROVE  EmptyHead \in Buckets /\ NoBuffers \in BufValues
         /\ [buffers |-> 1, count |-> 0] \in BufValues
<1>1. << >> \in Chains
  BY DEF Chains
<1>2. [j \in 1 .. setup.bucketSize |-> NoTuple] \in [1 .. setup.bucketSize -> Nat]
  BY BoundsAssumption
<1> QED BY <1>1, <1>2 DEF EmptyHead, Buckets, NoBuffers, BufValues

LEMMA NextTableTyped ==
  ASSUME TableTyped, VectorOK, LatchInv, [Next]_vars
  PROVE  TableTyped'
<1>0. ControlOK /\ ScalarOK /\ setup \in Setups
  BY DEF LatchInv, ControlOK
<1>1. ASSUME UNCHANGED <<setup, heads, bufs>> PROVE TableTyped'
  BY <1>1, SameSetupTypes DEF TableTyped
<1>2. CASE UNCHANGED vars
  BY <1>1, <1>2 DEF vars, table
<1>3. ASSUME NEW t \in Threads, VectorWork(t) PROVE TableTyped'
  <2>1. CASE Scattering(t)
    BY <1>0, <2>1, ScatterTyped
  <2>2. CASE Turning(t) \/ Counting(t)
    BY <1>1, <1>3, <2>2, WorkFrame DEF WorkLeaves
  <2> QED BY <1>3, <2>1, <2>2 DEF VectorWork
<1>4. ASSUME NEW t \in Threads, Locking(t) PROVE TableTyped'
  <2>1. CASE Lock(t) \/ Unlock(t) \/ ProbeTuple(t)
    <3>1. UNCHANGED <<setup, heads, bufs>>
      BY <2>1 DEF Lock, Unlock, ProbeTuple, Inside, ProbeOnly, table
    <3> QED BY <1>1, <3>1
  <2> QED BY <1>0, <1>4, <2>1, ClaimTyped, StoreTyped DEF Locking
<1>5. ASSUME NEW t \in Threads, Ending(t) \/ Arrive(t) PROVE TableTyped'
  <2>1. UNCHANGED <<setup, heads, bufs>>
    BY <1>5 DEF Ending, ScalarBuilt, ScalarProbed, ImvLeave, Ready, Arrive, Done, table
  <2> QED BY <1>1, <2>1
<1>6. ASSUME NEW t \in Threads, Phasing(t) PROVE TableTyped'
  <2>0. setup' = setup /\ Threads' = Threads /\ Buckets' = Buckets
    <3>1. setup' = setup
      BY <1>6, OthersFrame
    <3> QED BY <3>1, SameSetupTypes
  <2>1. CASE SetFunctions(t) \/ Fetch(t)
    <3>1. UNCHANGED <<heads, bufs>>
      BY <2>1 DEF SetFunctions, Fetch, table
    <3> QED BY <1>1, <2>0, <3>1
  <2>2. CASE Allocate(t) \/ Release(t)
    <3>1. PICK x \in BufValues : bufs' = bufs \/ bufs' = [bufs EXCEPT ![t] = x]
      BY <1>0, <2>2, EmptyTyped DEF Allocate, Release
    <3>2. heads' = heads \/ heads' = [b \in Heads |-> EmptyHead]
      BY <2>2 DEF Allocate, Release
    <3>3. heads' \in [Heads -> Buckets]
      BY <1>0, <3>2, EmptyTyped DEF TableTyped
    <3> QED BY <2>0, <3>1, <3>3 DEF TableTyped
  <2> QED BY <1>6, <2>1, <2>2 DEF Phasing
<1>7. ASSUME MainJoins \/ Ended PROVE TableTyped'
  <2>1. UNCHANGED <<setup, heads, bufs>>
    BY <1>7 DEF MainJoins, Ended, vars, table
  <2> QED BY <1>1, <2>1
<1> QED BY <1>2, <1>3, <1>4, <1>5, <1>6, <1>7, FlatNext

-----------------------------------------------------------------------------
(* The counts of the threads. *)
PartsDone == \A t \in Threads : scalar[t].i <= NumTuples(t)
ResultsTyped == matches \in [Threads -> Nat] /\ num_results \in [Threads -> Nat]

LEMMA HitsTyped ==
  ASSUME heads \in [Heads -> Buckets], NEW x, NEW b \in Heads
  PROVE  Hits(x, b) \in Nat
<1>1. PICK chain \in Chains : chain = heads[b].chain
  BY BucketTyped
<1>2. Len(chain) \in Nat
  BY DEF Chains
<1>3. PICK f : f = FirstTuples(b)
  OBVIOUS
<1>4. DOMAIN f = 1 .. (1 + Len(chain))
  <2>1. PICK g : g = [j \in 1 .. Len(chain) |-> chain[j].tuples[1]]
    OBVIOUS
  <2>2. f = <<heads[b].tuples[1]>> \o g
    BY <1>1, <1>3, <2>1 DEF FirstTuples
  <2>3. g \in Seq({g[j] : j \in 1 .. Len(chain)}) /\ Len(g) = Len(chain)
    BY <1>2, <2>1
  <2> QED BY <1>2, <2>2, <2>3
<1>5. IsFiniteSet(1 .. (1 + Len(chain)))
  BY <1>2, FS_Interval
<1>6. PICK S : S = {j \in DOMAIN f : f[j] = x}
  OBVIOUS
<1>7. S \in SUBSET (1 .. (1 + Len(chain)))
  BY <1>4, <1>6
<1>8. Cardinality(S) \in Nat
  BY <1>5, <1>7, FS_Subset, FS_CardinalityType
<1> QED BY <1>3, <1>6, <1>8 DEF Hits

LEMMA NextResultsTyped ==
  ASSUME ResultsTyped, TableTyped, VectorOK, LatchInv, [Next]_vars
  PROVE  ResultsTyped'
<1>0. ControlOK /\ ScalarOK /\ setup \in Setups
  BY DEF LatchInv, ControlOK
<1>1. ASSUME UNCHANGED <<setup, matches, num_results>> PROVE ResultsTyped'
  BY <1>1, SameSetupTypes DEF ResultsTyped
<1>2. CASE UNCHANGED vars
  BY <1>1, <1>2 DEF vars, locals
<1>3. ASSUME NEW t \in Threads, VectorWork(t) PROVE ResultsTyped'
  <2>1. CASE Scattering(t) \/ Turning(t)
    BY <1>1, <1>3, <2>1, WorkFrame DEF WorkLeaves
  <2>2. CASE Counting(t)
    <3>1. InStage(t, "chain") /\ setup' = setup /\ num_results' = num_results
      BY <2>2, <1>3, WorkFrame DEF Counting, ProbeChain, WorkLeaves
    <3>2. PICK w, C : w = Machine(t) /\ C = Chains
      OBVIOUS
    <3>3. w \in Machines(LaneValues, C) /\ w.k \in States
      BY <1>0, <3>1, <3>2, AtTurn DEF MachineOK, LoopInv, MachineInv
    <3>4. State(t).have \in SUBSET Lanes
      BY <3>2, <3>3, StateTyped DEF State
    <3>5. \E found \in SUBSET Lanes :
            matches' = [matches EXCEPT ![t] = @ + Cardinality(found)]
      <4>1. PICK found : found = {i \in State(t).have :
              FirstTuples(State(t).lane[i].head)[State(t).lane[i].pos + 1] = State(t).lane[i].tuple}
        OBVIOUS
      <4>2. matches' = [matches EXCEPT ![t] = @ + Cardinality(found)]
        BY <2>2, <4>1 DEF Counting, ProbeChain
      <4>3. found \in SUBSET Lanes
        BY <3>4, <4>1
      <4> QED BY <4>2, <4>3
    <3>6. PICK found \in SUBSET Lanes : matches' = [matches EXCEPT ![t] = @ + Cardinality(found)]
      BY <3>5
    <3>7. Cardinality(found) \in Nat
      BY MaskFinite
    <3>8. PICK n \in Nat : n = Cardinality(found)
      BY <3>7
    <3>9. matches' = [matches EXCEPT ![t] = matches[t] + n] /\ Threads' = Threads
      BY <3>1, <3>6, <3>8, SameSetup
    <3> QED BY <3>1, <3>9 DEF ResultsTyped
  <2> QED BY <1>3, <2>1, <2>2 DEF VectorWork
<1>4. ASSUME NEW t \in Threads, Locking(t) PROVE ResultsTyped'
  <2>1. CASE ProbeTuple(t)
    <3>1. PICK b \in Heads : b = Bucket(t)
      BY <1>0, <2>1, TupleInPart DEF ProbeTuple
    <3>2. Hits(Tuple(t), b) \in Nat
      BY HitsTyped DEF TableTyped
    <3>3. matches' = [matches EXCEPT ![t] = @ + Hits(Tuple(t), b)]
          /\ UNCHANGED <<setup, num_results>>
      BY <2>1, <3>1 DEF ProbeTuple, Inside, ProbeOnly
    <3>4. PICK n \in Nat : n = Hits(Tuple(t), b)
      BY <3>2
    <3>5. matches' = [matches EXCEPT ![t] = matches[t] + n] /\ Threads' = Threads
      BY <3>3, <3>4, SameSetup
    <3> QED BY <3>3, <3>5 DEF ResultsTyped
  <2>2. CASE Lock(t) \/ Claim(t) \/ Store(t) \/ Unlock(t)
    <3>1. UNCHANGED <<setup, matches, num_results>>
      BY <2>2 DEF Lock, Claim, Store, Unlock, Inside, BuildOnly
    <3> QED BY <1>1, <3>1
  <2> QED BY <1>4, <2>1, <2>2 DEF Locking
<1>5. ASSUME NEW t \in Threads, Ending(t) PROVE ResultsTyped'
  <2>1. UNCHANGED <<setup, matches>>
    BY <1>5 DEF Ending, ScalarBuilt, ScalarProbed, ImvLeave, Ready, Done, BuildOnly, locals
  <2>2. num_results' = num_results \/ num_results' = [num_results EXCEPT ![t] = matches[t]]
    BY <1>5 DEF Ending, ScalarBuilt, ScalarProbed, ImvLeave, Ready, BuildOnly
  <2> QED BY <2>1, <2>2, SameSetupTypes DEF ResultsTyped
<1>6. ASSUME NEW t \in Threads, Arrive(t) PROVE ResultsTyped'
  <2>1. UNCHANGED <<setup, num_results>>
    BY <1>6 DEF Arrive
  <2>2. matches' = matches \/ matches' = [u \in Threads |-> 0]
    BY <1>6 DEF Arrive, locals
  <2> QED BY <2>1, <2>2, SameSetupTypes DEF ResultsTyped
<1>7. ASSUME NEW t \in Threads, Phasing(t) PROVE ResultsTyped'
  <2>1. UNCHANGED <<setup, matches, num_results>>
    BY <1>7 DEF Phasing, SetFunctions, Allocate, Fetch, Release, Done, locals
  <2> QED BY <1>1, <2>1
<1>8. ASSUME MainJoins \/ Ended PROVE ResultsTyped'
  <2>1. UNCHANGED <<setup, matches, num_results>>
    BY <1>8 DEF MainJoins, Ended, vars, locals
  <2> QED BY <1>1, <2>1
<1> QED BY <1>2, <1>3, <1>4, <1>5, <1>6, <1>7, <1>8, FlatNext

LEMMA NextPartsDone ==
  ASSUME PartsDone, LatchInv, [Next]_vars
  PROVE  PartsDone'
<1>0. ControlOK /\ ScalarOK /\ setup \in Setups
  BY DEF LatchInv, ControlOK
<1>1. ASSUME UNCHANGED <<setup, scalar>> PROVE PartsDone'
  BY <1>1, SameSetupTypes DEF PartsDone
<1>2. CASE UNCHANGED vars
  BY <1>1, <1>2 DEF vars, locals
<1>3. ASSUME NEW t \in Threads, VectorWork(t) PROVE PartsDone'
  BY <1>1, <1>3, WorkFrame DEF WorkLeaves
<1>4. ASSUME NEW t \in Threads, Locking(t) PROVE PartsDone'
  <2>1. scalar[t].i \in Nat /\ NumTuples(t) \in Nat /\ scalar[t].i < NumTuples(t)
    BY <1>0, <1>4, PartFacts DEF ScalarOK, Locking, Lock, Claim, Store, Unlock, ProbeTuple, AtStep
  <2>2. setup' = setup
    BY <1>4 DEF Locking, Lock, Claim, Store, Unlock, ProbeTuple, Inside
  <2>3. /\ \A u \in Threads \ {t} : scalar'[u] = scalar[u]
        /\ scalar'[t].i \in {scalar[t].i, scalar[t].i + 1}
    <3>1. PICK s : s = scalar[t]
      OBVIOUS
    <3>2. scalar = [u \in Threads |-> scalar[u]]
          /\ s = [i |-> s.i, step |-> s.step, over |-> s.over, slot |-> s.slot]
      BY <1>0, <3>1 DEF ScalarOK
    <3>3. \E r : scalar' = [scalar EXCEPT ![t] = r] /\ r.i \in {s.i, s.i + 1}
      <4>1. CASE Lock(t)
        <5>1. scalar' = [scalar EXCEPT ![t] = [s EXCEPT !.step = "claim"]]
          BY <3>1, <4>1 DEF Lock
        <5>2. [s EXCEPT !.step = "claim"].i = s.i
          BY <3>2
        <5> QED BY <5>1, <5>2
      <4>2. CASE Claim(t)
        <5>1. \E over, slot : scalar' = [scalar EXCEPT ![t].step = "store",
                                            ![t].over = over, ![t].slot = slot]
          BY <4>2 DEF Claim
        <5>2. PICK over, slot : scalar' = [scalar EXCEPT ![t].step = "store",
                                            ![t].over = over, ![t].slot = slot]
          BY <5>1
        <5>3. scalar' = [scalar EXCEPT ![t] = [s EXCEPT !.step = "store", !.over = over,
                                                        !.slot = slot]]
          BY <3>1, <3>2, <5>2
        <5>4. [s EXCEPT !.step = "store", !.over = over, !.slot = slot].i = s.i
          BY <3>2
        <5> QED BY <5>3, <5>4
      <4>3. CASE Store(t)
        <5>1. scalar' = [scalar EXCEPT ![t] = [s EXCEPT !.step = "unlock"]]
          BY <3>1, <4>3 DEF Store
        <5>2. [s EXCEPT !.step = "unlock"].i = s.i
          BY <3>2
        <5> QED BY <5>1, <5>2
      <4>4. CASE Unlock(t)
        <5>1. scalar' = [scalar EXCEPT ![t] = [ScalarStart EXCEPT !.i = s.i + 1]]
          BY <3>1, <4>4 DEF Unlock
        <5>2. [ScalarStart EXCEPT !.i = s.i + 1].i = s.i + 1
          BY DEF ScalarStart
        <5> QED BY <5>1, <5>2
      <4>5. CASE ProbeTuple(t)
        <5>1. scalar' = [scalar EXCEPT ![t] = [s EXCEPT !.i = s.i + 1]]
          BY <3>1, <4>5 DEF ProbeTuple
        <5>2. [s EXCEPT !.i = s.i + 1].i = s.i + 1
          BY <3>2
        <5> QED BY <5>1, <5>2
      <4> QED BY <1>4, <4>1, <4>2, <4>3, <4>4, <4>5 DEF Locking
    <3> QED BY <3>1, <3>2, <3>3
  <2> QED BY <2>1, <2>2, <2>3, SameSetupTypes DEF PartsDone
<1>5. ASSUME NEW t \in Threads, Phasing(t) \/ Ending(t) PROVE PartsDone'
  <2>1. UNCHANGED <<setup, scalar>>
    BY <1>5 DEF Phasing, SetFunctions, Allocate, Fetch, Release, Ending, ScalarBuilt,
                ScalarProbed, ImvLeave, Ready, Done, locals
  <2> QED BY <1>1, <2>1
<1>6. ASSUME NEW t \in Threads, Arrive(t) PROVE PartsDone'
  <2>1. setup' = setup
    BY <1>6 DEF Arrive
  <2>2. scalar' = scalar \/ scalar' = [u \in Threads |-> ScalarStart]
    BY <1>6 DEF Arrive, locals
  <2>3. CASE scalar' = [u \in Threads |-> ScalarStart]
    <3>1. \A u \in Threads : scalar'[u].i = 0 /\ NumTuples(u) \in Nat
      BY <1>0, <2>3, PartFacts DEF ScalarStart
    <3> QED BY <2>1, <3>1, SameSetupTypes DEF PartsDone
  <2> QED BY <1>1, <2>1, <2>2, <2>3
<1>7. ASSUME MainJoins \/ Ended PROVE PartsDone'
  <2>1. UNCHANGED <<setup, scalar>>
    BY <1>7 DEF MainJoins, Ended, vars, locals
  <2> QED BY <1>1, <2>1
<1> QED BY <1>2, <1>3, <1>4, <1>5, <1>6, <1>7, FlatNext

-----------------------------------------------------------------------------
(* The phases. *)
PhasesOK ==
  /\ called <= setup.threads - 1
  /\ live \subseteq 0 .. (2 * RunNums)
  /\ \A t \in Threads : phase[t].pc \in {"setup", "end"} => phase[t].run = 0

LEMMA RunBound ==
  ASSUME TableInv, NEW t \in Threads, phase[t].pc \notin {"setup", "end"}
  PROVE  phase[t].run \in 0 .. (2 * RunNums - 1)
<1>1. phase[t].run \in Nat /\ phase[t].run <= RunNums * hash_pf_num - 1 /\ hash_pf_num \in {0, 2}
  BY DEF TableInv, LatchInv, ControlOK, FunctionsSet, LastRun
<1>2. RunNums \in Nat
  BY BoundsAssumption
<1>3. CASE hash_pf_num = 0
  <2>1. phase[t].run <= RunNums * 0 - 1
    BY <1>1, <1>3
  <2> QED BY <1>1, <1>2, <2>1
<1>4. CASE hash_pf_num = 2
  <2>1. phase[t].run <= RunNums * 2 - 1
    BY <1>1, <1>4
  <2> QED BY <1>1, <1>2, <2>1
<1> QED BY <1>1, <1>3, <1>4

LEMMA NextPhasesOK ==
  ASSUME PhasesOK, TableInv, [Next]_vars
  PROVE  PhasesOK'
<1>0. ControlOK /\ Together /\ setup.threads \in Nat \ {0} /\ RunNums \in Nat
      /\ called \in Nat
  <2>1. ControlOK /\ Together
    BY DEF TableInv, LatchInv
  <2>2. setup.threads \in Nat \ {0} /\ IsFiniteSet(Threads)
    BY <2>1, SetupFacts
  <2>3. Waiting \in SUBSET Threads
    BY DEF Waiting
  <2>4. Cardinality(Waiting) \in Nat
    BY <2>2, <2>3, FS_Subset, FS_CardinalityType
  <2> QED BY <2>1, <2>2, <2>4, BoundsAssumption DEF Together
<1>1. ASSUME UNCHANGED <<setup, phase, called, live>> PROVE PhasesOK'
  BY <1>1, SameSetupTypes DEF PhasesOK
<1>2. CASE UNCHANGED vars
  BY <1>1, <1>2 DEF vars, shared
<1>3. ASSUME NEW t \in Threads, VectorWork(t) \/ Locking(t) \/ Ending(t) PROVE PhasesOK'
  <2>1. VectorWork(t) => UNCHANGED <<setup, phase, called, live>>
    BY WorkFrame DEF WorkLeaves
  <2>2. Locking(t) => UNCHANGED <<setup, phase, called, live>>
    BY DEF Locking, Lock, Claim, Store, Unlock, ProbeTuple, Inside, BuildOnly, ProbeOnly, shared
  <2>3. Ending(t) => UNCHANGED <<setup, phase, called, live>>
    BY DEF Ending, ScalarBuilt, ScalarProbed, ImvLeave, Ready, Done, BuildOnly, shared
  <2> QED BY <1>1, <1>3, <2>1, <2>2, <2>3
<1>4. ASSUME NEW t \in Threads, Phasing(t) PROVE PhasesOK'
  <2>1. UNCHANGED <<setup, phase, called>>
    BY <1>4, OthersFrame
  <2>2. live' \subseteq 0 .. (2 * RunNums)
    <3>1. CASE SetFunctions(t) \/ Fetch(t)
      BY <3>1 DEF SetFunctions, Fetch, shared, PhasesOK
    <3>2. CASE Release(t)
      BY <3>2 DEF Release, PhasesOK
    <3>3. CASE Allocate(t)
      <4>1. phase[t].run \in 0 .. (2 * RunNums - 1)
        BY <3>3, RunBound DEF Allocate, Working
      <4>2. phase[t].run + 1 \in 0 .. (2 * RunNums)
        BY <1>0, <4>1
      <4>3. live' = live \/ live' = live \union {phase[t].run + 1}
        BY <3>3 DEF Allocate
      <4> QED BY <4>2, <4>3 DEF PhasesOK
    <3> QED BY <1>4, <3>1, <3>2, <3>3 DEF Phasing
  <2> QED BY <2>1, <2>2, SameSetupTypes DEF PhasesOK
<1>5. ASSUME NEW t \in Threads, Arrive(t) PROVE PhasesOK'
  <2>1. UNCHANGED <<setup, live>> /\ Threads' = Threads
    BY <1>5, SameSetup DEF Arrive, shared
  <2>2. CASE called + 1 = setup.threads
    <3>1. called' = 0 /\ phase' = [u \in Threads |-> NextPhase(phase[u])]
      BY <1>5, <2>2 DEF Arrive
    <3>2. ASSUME NEW u \in Threads, NextPhase(phase[u]).pc \in {"setup", "end"}
          PROVE  NextPhase(phase[u]).run = 0
      <4>1. PICK p : p = phase[u]
        OBVIOUS
      <4>2. phase[u] = phase[t] /\ phase[t].pc # "end" /\ phase[t] \in [pc : PCs, run : Nat]
        BY <1>0, <1>5 DEF ControlOK, Together, Arrive
      <4>3. p.pc \in PCs \ {"end"}
        BY <4>1, <4>2
      <4> QED BY <3>2, <4>1, <4>3 DEF NextPhase, At, PCs
    <3> QED BY <1>0, <2>1, <3>1, <3>2 DEF PhasesOK
  <2>3. CASE called + 1 # setup.threads
    <3>1. called' = called + 1 /\ phase' = phase
      BY <1>5, <2>3 DEF Arrive
    <3>2. called + 1 <= setup.threads - 1
      BY <1>0, <2>3 DEF PhasesOK
    <3> QED BY <2>1, <3>1, <3>2 DEF PhasesOK
  <2> QED BY <2>2, <2>3
<1>6. ASSUME MainJoins \/ Ended PROVE PhasesOK'
  <2>1. UNCHANGED <<setup, phase, called, live>>
    BY <1>6 DEF MainJoins, Ended, vars, shared
  <2> QED BY <1>1, <2>1
<1> QED BY <1>2, <1>3, <1>4, <1>5, <1>6, FlatNext

TypesInv == TableInv /\ VectorOK /\ TableTyped /\ ResultsTyped /\ PartsDone /\ PhasesOK

LEMMA InitTypesInv == Init => TypesInv
<1> SUFFICES ASSUME Init PROVE TypesInv
  OBVIOUS
<1>1. TableInv /\ setup \in Setups
  BY InitTableInv DEF Init
<1>2. VectorOK
  <2>1. imv = [t \in Threads |-> ImvStart]
    BY DEF Init
  <2>2. ASSUME NEW u \in Threads PROVE MachineOK(u, imv[u]) /\ imv[u].op = "turn"
    <3>1. PICK m : m = ImvStart
      OBVIOUS
    <3>2. MachineOK(u, m) /\ m.op = "turn" /\ m = imv[u]
      BY <2>1, <3>1, StartOK
    <3> QED BY <3>2
  <2> QED BY <2>1, <2>2 DEF VectorOK
<1>3. TableTyped
  BY <1>1, EmptyTyped DEF Init, TableTyped
<1>4. ResultsTyped
  BY DEF Init, ResultsTyped
<1>5. PartsDone
  <2>1. \A t \in Threads : scalar[t].i = 0 /\ NumTuples(t) \in Nat
    BY <1>1, PartFacts DEF Init, ScalarStart
  <2> QED BY <2>1 DEF PartsDone
<1>6. PhasesOK
  <2>1. setup.threads \in Nat \ {0} /\ RunNums \in Nat
    BY <1>1, SetupsAssumption, BoundsAssumption
  <2>2. 0 <= setup.threads - 1 /\ 0 \in 0 .. (2 * RunNums)
    BY <2>1
  <2> QED BY <2>2 DEF Init, PhasesOK, At
<1> QED BY <1>1, <1>2, <1>3, <1>4, <1>5, <1>6 DEF TypesInv

LEMMA NextTypesInv == TypesInv /\ [Next]_vars => TypesInv'
<1> SUFFICES ASSUME TypesInv, [Next]_vars PROVE TypesInv'
  OBVIOUS
<1>1. /\ TableInv /\ VectorOK /\ TableTyped /\ ResultsTyped /\ PartsDone /\ PhasesOK
      /\ LatchInv /\ setup \in Setups /\ heads \in [Heads -> Buckets]
  BY DEF TypesInv, TableInv, LatchInv, ControlOK, TableTyped
<1>2. TableInv'
  BY <1>1, NextTableInv
<1>3. VectorOK'
  BY <1>1, NextVectorOK
<1>4. TableTyped'
  BY <1>1, NextTableTyped
<1>5. ResultsTyped'
  BY <1>1, NextResultsTyped
<1>6. PartsDone'
  BY <1>1, NextPartsDone
<1>7. PhasesOK'
  BY <1>1, NextPhasesOK
<1> QED BY <1>2, <1>3, <1>4, <1>5, <1>6, <1>7 DEF TypesInv

LEMMA AlwaysTypesInv == Spec => []TypesInv
BY InitTypesInv, NextTypesInv, PTL DEF Spec

\* Every variable of the join has its type, whatever the numbers of threads,
\* tuples, buckets, lanes and vector states: in particular the counter of the
\* states that are done never passes their number.
THEOREM TypeCorrect == Spec => []TypeOK
<1>1. TypesInv => TypeOK
  <2> SUFFICES ASSUME TypesInv PROVE TypeOK
    OBVIOUS
  <2>1. /\ TableInv /\ VectorOK /\ ResultsTyped /\ PartsDone /\ PhasesOK
        /\ ControlOK /\ ScalarOK /\ Together
    BY DEF TypesInv, TableInv, LatchInv
  <2>2. ASSUME NEW t \in Threads
        PROVE  /\ phase[t].pc \in PCs /\ phase[t].run \in 0 .. (2 * RunNums - 1)
               /\ at[t] \in {"work", "arrive", "wait"}
               /\ scalar[t].i \in 0 .. NumTuples(t)
               /\ matches[t] \in Nat /\ num_results[t] \in Nat
               /\ imv[t].done \in 0 .. StateSize /\ imv[t].k \in 0 .. (StateSize + 1)
               /\ \A s \in 0 .. Residual : imv[t].st[s].have \subseteq Lanes
    <3>1. phase[t].pc \in PCs /\ at[t] \in {"work", "arrive", "wait"}
      BY <2>1 DEF ControlOK
    <3>2. phase[t].run \in 0 .. (2 * RunNums - 1)
      <4>1. RunNums \in Nat \ {0}
        BY BoundsAssumption
      <4>2. CASE phase[t].pc \in {"setup", "end"}
        <5>1. phase[t].run = 0
          BY <2>1, <4>2 DEF PhasesOK
        <5> QED BY <4>1, <5>1
      <4> QED BY <2>1, <4>2, RunBound
    <3>3. scalar[t].i \in 0 .. NumTuples(t)
      <4>1. scalar[t].i \in Nat /\ NumTuples(t) \in Nat /\ scalar[t].i <= NumTuples(t)
        BY <2>1, PartFacts DEF ScalarOK, PartsDone, ControlOK
      <4> QED BY <4>1
    <3>4. matches[t] \in Nat /\ num_results[t] \in Nat
      BY <2>1 DEF ResultsTyped
    <3>5. PICK m, C : m = imv[t] /\ C = Chains
      OBVIOUS
    <3>6. m \in Machines(LaneValues, C)
      BY <2>1, <3>5 DEF VectorOK, MachineOK, LoopInv, MachineInv
    <3>7. m.done \in 0 .. StateSize /\ m.k \in 0 .. (StateSize + 1)
      BY <3>6, MachineFields
    <3>8. \A s \in States : m.st[s].have \in SUBSET Lanes
      BY <3>6, StateTyped
    <3> QED BY <3>1, <3>2, <3>3, <3>4, <3>5, <3>7, <3>8 DEF States
  <2>3. called \in 0 .. (setup.threads - 1)
    <3>1. setup.threads \in Nat \ {0} /\ IsFiniteSet(Threads)
      BY <2>1, SetupFacts
    <3>2. Waiting \in SUBSET Threads
      BY DEF Waiting
    <3>3. Cardinality(Waiting) \in Nat
      BY <3>1, <3>2, FS_Subset, FS_CardinalityType
    <3>4. called \in Nat /\ called <= setup.threads - 1
      BY <2>1, <3>3 DEF Together, PhasesOK
    <3> QED BY <3>1, <3>4
  <2>4. live \subseteq 0 .. (2 * RunNums) /\ setup \in Setups
        /\ \A b \in Heads : latch[b] \in Threads \union {Free}
    BY <2>1 DEF PhasesOK, ControlOK
  <2> QED BY <2>2, <2>3, <2>4 DEF TypeOK, PCs
<1> QED BY <1>1, AlwaysTypesInv, PTL

-----------------------------------------------------------------------------
(* The overflow buckets.  One is told from another by its place, the slot   *)
(* of a thread's buffer it was got from.  What is behind a bucket is what    *)
(* its chain holds and what was gathered from it and is not written back.    *)
PlaceOf(c) == [thread |-> c.thread, buffer |-> c.buffer, slot |-> c.slot]
CellsIn(chain) == {chain[j] : j \in DOMAIN chain}
Distinct(chain) == \A j, k \in DOMAIN chain : PlaceOf(chain[j]) = PlaceOf(chain[k]) => j = k

Behind(b, c) ==
  \/ c \in CellsIn(heads[b].chain)
  \/ \E t \in Threads, i \in Lanes :
       Current(t).lane[i].head = b /\ c \in CellsIn(imv[t].next[i])

\* The places a thread has got so far.
Got(a) ==
  \/ a.buffer < bufs[a.thread].buffers
  \/ a.buffer = bufs[a.thread].buffers /\ a.slot <= bufs[a.thread].count

LEMMA CellsOfCons ==
  ASSUME NEW chain \in Chains, NEW q \in Cells
  PROVE  /\ CellsIn(<<q>> \o chain) = {q} \union CellsIn(chain)
         /\ Distinct(chain) /\ (\A c \in CellsIn(chain) : PlaceOf(c) # PlaceOf(q))
              => Distinct(<<q>> \o chain)
<1>1. PICK n \in Nat : chain \in [1 .. n -> Cells] /\ Len(chain) = n
  BY DEF Chains
<1>2. PICK s : s = <<q>> \o chain
  OBVIOUS
<1>3. /\ s \in Chains /\ Len(s) = n + 1 /\ s[1] = q
      /\ \A j \in 1 .. n : s[j + 1] = chain[j]
  BY <1>1, <1>2 DEF Chains
<1>4. DOMAIN s = 1 .. (n + 1) /\ DOMAIN chain = 1 .. n
  BY <1>1, <1>3 DEF Chains
<1>5. \A j \in 1 .. (n + 1) : j # 1 => j - 1 \in 1 .. n /\ s[j] = chain[j - 1]
  <2>1. ASSUME NEW j \in 1 .. (n + 1), j # 1 PROVE j - 1 \in 1 .. n /\ s[j] = chain[j - 1]
    <3>1. PICK k \in 1 .. n : j = k + 1
      BY <1>1, <2>1
    <3> QED BY <1>3, <3>1
  <2> QED BY <2>1
<1>6. CellsIn(s) = {q} \union CellsIn(chain)
  <2>1. ASSUME NEW j \in DOMAIN s PROVE s[j] \in {q} \union CellsIn(chain)
    BY <1>3, <1>4, <1>5 DEF CellsIn
  <2>2. q \in CellsIn(s)
    BY <1>1, <1>3, <1>4 DEF CellsIn
  <2>3. ASSUME NEW j \in DOMAIN chain PROVE chain[j] \in CellsIn(s)
    <3>1. j + 1 \in DOMAIN s /\ s[j + 1] = chain[j]
      BY <1>1, <1>3, <1>4
    <3> QED BY <3>1 DEF CellsIn
  <2> QED BY <2>1, <2>2, <2>3 DEF CellsIn
<1>7. ASSUME Distinct(chain), \A c \in CellsIn(chain) : PlaceOf(c) # PlaceOf(q),
             NEW j \in DOMAIN s, NEW k \in DOMAIN s, PlaceOf(s[j]) = PlaceOf(s[k])
      PROVE  j = k
  <2>1. \A i \in 1 .. n : PlaceOf(chain[i]) # PlaceOf(q)
    BY <1>4, <1>7 DEF CellsIn
  <2>2. CASE j = 1 \/ k = 1
    BY <1>3, <1>4, <1>5, <1>7, <2>1, <2>2
  <2>3. CASE j # 1 /\ k # 1
    <3>1. j - 1 = k - 1
      BY <1>4, <1>5, <1>7, <2>3 DEF Distinct
    <3> QED BY <1>1, <1>4, <3>1
  <2> QED BY <2>2, <2>3
<1> QED BY <1>2, <1>6, <1>7 DEF Distinct

LEMMA CellsOfPut ==
  ASSUME NEW chain \in Chains, chain # << >>, NEW q \in Cells, PlaceOf(q) = PlaceOf(chain[1]),
         NEW s, s = [chain EXCEPT ![1] = q]
  PROVE  /\ 1 \in DOMAIN chain
         /\ CellsIn(s) \subseteq {q} \union CellsIn(chain)
         /\ Distinct(chain) => Distinct(s)
<1>1. PICK n \in Nat : chain \in [1 .. n -> Cells] /\ Len(chain) = n
  BY DEF Chains
<1>2. n # 0
  BY <1>1
<1>3. /\ DOMAIN s = DOMAIN chain /\ 1 \in DOMAIN chain /\ s[1] = q
      /\ \A j \in DOMAIN chain : j # 1 => s[j] = chain[j]
  BY <1>1, <1>2
<1>4. \A j \in DOMAIN chain : PlaceOf(s[j]) = PlaceOf(chain[j])
  BY <1>3
<1> QED BY <1>3, <1>4 DEF CellsIn, Distinct

LEMMA PlaceIs ==
  ASSUME NEW c, NEW d
  PROVE  PlaceOf(c) = PlaceOf(d) <=> c.thread = d.thread /\ c.buffer = d.buffer /\ c.slot = d.slot
BY DEF PlaceOf

\* A bucket got new has a place nobody had.
LEMMA PlaceGot ==
  ASSUME TableTyped, setup \in Setups, setup' = setup, NEW t \in Threads,
         NEW new, new = GetNewBucket(bufs[t]), NEW count, NEW x,
         bufs' = [bufs EXCEPT ![t] = new],
         NEW a, a = PlaceOf(NewestBucket(t, new, count, x))
  PROVE  ~Got(a) /\ Got(a)' /\ \A c \in Cells : Got(PlaceOf(c)) => Got(PlaceOf(c))'
<1>1. PICK p \in Nat, n \in Nat : bufs[t] = [buffers |-> p, count |-> n]
  BY DEF TableTyped, BufValues
<1>2. PICK q \in Nat, k \in Nat : /\ new = [buffers |-> q, count |-> k]
                                  /\ (q = p /\ k = n + 1) \/ (q = p + 1 /\ k = 1)
  <2>0. PICK bs : bs = [buffers |-> p, count |-> n] /\ new = GetNewBucket(bs)
    BY <1>1
  <2>1. CASE n < OverflowBufSize
    <3>1. new = [bs EXCEPT !.count = n + 1]
      BY <2>0, <2>1 DEF GetNewBucket
    <3>2. new = [buffers |-> p, count |-> n + 1]
      BY <2>0, <3>1
    <3> QED BY <3>2
  <2>2. CASE ~(n < OverflowBufSize)
    <3>1. new = [buffers |-> p + 1, count |-> 1]
      BY <2>0, <2>2 DEF GetNewBucket
    <3> QED BY <3>1
  <2> QED BY <2>1, <2>2
<1>3. a = [thread |-> t, buffer |-> q, slot |-> k]
  BY <1>2 DEF PlaceOf, NewestBucket
<1>4. bufs'[t] = [buffers |-> q, count |-> k] /\ \A u \in Threads \ {t} : bufs'[u] = bufs[u]
  BY <1>2 DEF TableTyped
<1>5. ~Got(a)
  BY <1>1, <1>2, <1>3 DEF Got
<1>6. Got(a)'
  BY <1>3, <1>4 DEF Got
<1>7. ASSUME NEW c \in Cells, Got(PlaceOf(c)) PROVE Got(PlaceOf(c))'
  <2>1. c.thread \in Threads /\ c.buffer \in Nat /\ c.slot \in Nat
    BY DEF Cells
  <2>2. CASE c.thread = t
    BY <1>1, <1>2, <1>4, <1>7, <2>1, <2>2 DEF Got, PlaceOf
  <2>3. CASE c.thread # t
    BY <1>4, <1>7, <2>1, <2>3 DEF Got, PlaceOf
  <2> QED BY <2>2, <2>3
<1> QED BY <1>5, <1>6, <1>7

\* What a step of the vector loops gathers is the chain of the lane's bucket.
NextMoves(t, r) ==
  \A i \in Lanes : r.next[i] # << >> =>
    /\ r.k = imv[t].k /\ r.st = imv[t].st
    /\ \/ r.next[i] = imv[t].next[i]
       \/ /\ Current(t).lane[i].head \in Heads
          /\ r.next[i] = HeadOf(t, i).chain

LEMMA TurnMoves ==
  ASSUME NEW t, NEW r, Goes(t, r), r.op = "turn"
  PROVE  NextMoves(t, r)
BY DEF Goes, MachineOK, Gathering, NextMoves

LEMMA SameMoves ==
  ASSUME NEW t, NEW r, NEW op, NEW left, NEW chosen,
         RegistersIs(r, imv[t], op, left, chosen, imv[t].next)
  PROVE  NextMoves(t, r)
BY DEF RegistersIs, NextMoves

LEMMA WorkMoves ==
  ASSUME VectorOK, setup \in Setups, heads \in [Heads -> Buckets], NEW t \in Threads,
         VectorWork(t)
  PROVE  \E r : Goes(t, r) /\ NextMoves(t, r)
<1>1. CASE ImvRetire(t) \/ ImvSkip(t) \/ ImvModel(t)
  <2>1. \E r : Goes(t, r) /\ r.op = "turn"
    BY <1>1, RetireGoes, SkipGoes, ModelGoes
  <2> QED BY <2>1, TurnMoves
<1>2. CASE ImvLoad(t) \/ LearnedLoad(t)
  <2>1. \E r : Goes(t, r) /\ r.op = "turn"
    BY <1>2, LoadGoes
  <2> QED BY <2>1, TurnMoves
<1>3. CASE Scattered(t)
  <2>1. \E r : Goes(t, r) /\ r.op = "turn"
    BY <1>3, ScatteredGoes DEF ScatterEnded
  <2> QED BY <2>1, TurnMoves
<1>4. CASE ProbeHead(t) \/ ProbeChain(t)
  <2>1. \E r : Goes(t, r)
    BY <1>4, ProbeHeadGoes, ProbeChainGoes DEF HeadProbed, ChainProbed, ContinueGoesTo
  <2>2. PICK r : Goes(t, r)
    BY <2>1
  <2>3. r.op = "turn"
    BY <1>4, <2>2 DEF ProbeHead, ProbeChain, Goes
  <2> QED BY <2>2, <2>3, TurnMoves
<1>5. CASE GatherStart(t)
  <2>1. PICK r : Goes(t, r) /\ GatherStarted(t, r)
    BY <1>5, GatherStartGoes
  <2> QED BY <2>1 DEF NextMoves, GatherStarted
<1>6. CASE Gathered(t)
  <2>1. PICK r : Goes(t, r) /\ GatherEnded(t, r)
    BY <1>6, GatheredGoes
  <2>2. NextMoves(t, r)
    BY <2>1, TurnMoves, SameMoves DEF GatherEnded
  <2> QED BY <2>1, <2>2
<1>7. CASE \E i \in Lanes : GatherHead(t, i)
  <2>1. PICK i \in Lanes : GatherHead(t, i)
    BY <1>7
  <2>2. PICK r : Goes(t, r) /\ HeadGathered(t, i, r)
    BY <2>1, GatherHeadGoes
  <2>3. NextMoves(t, r)
    BY <2>2, SameMoves DEF HeadGathered
  <2> QED BY <2>2, <2>3
<1>8. CASE \E i \in Lanes : GatherNext(t, i)
  <2>1. PICK i \in Lanes : GatherNext(t, i)
    BY <1>8
  <2>2. PICK r : Goes(t, r) /\ NextGathered(t, i, r)
    BY <2>1, GatherNextGoes
  <2>3. PICK m : m = imv[t]
    OBVIOUS
  <2>4. m.op = "gather" /\ m.op # "turn"
    BY <2>1, <2>3 DEF GatherNext, Running
  <2>5. m.st[m.k].lane \in [Lanes -> LaneValues] /\ m.next \in [Lanes -> Chains]
    BY <2>3, <2>4, AtGather
  <2>6. Current(t).lane[i].head \in Heads
    BY <2>3, <2>5 DEF Current, LaneValues
  <2>7. NextMoves(t, r)
    BY <2>2, <2>3, <2>5, <2>6 DEF NextGathered, RegistersIs, NextMoves
  <2> QED BY <2>2, <2>7
<1>9. CASE Scattering(t)
  <2>1. PICK i \in Lanes : ScatterHead(t, i) \/ ScatterNext(t, i)
    BY <1>9 DEF Scattering
  <2>2. Running(t, "scatter") /\ imv' = [imv EXCEPT ![t].left = @ \ {i}]
    BY <2>1 DEF ScatterHead, ScatterNext
  <2>3. PICK r : Goes(t, r) /\ LaneScattered(t, i, r)
    BY <2>2, ScatterGoes
  <2>4. NextMoves(t, r)
    BY <2>3, SameMoves DEF LaneScattered
  <2> QED BY <2>3, <2>4
<1> QED BY <1>1, <1>2, <1>3, <1>4, <1>5, <1>6, <1>7, <1>8, <1>9
        DEF VectorWork, Turning, Counting

-----------------------------------------------------------------------------
(* A step, as far as the table is concerned, writes tuple x to the spot s   *)
(* and puts the new bucket of place a behind bucket b; without a new one b   *)
(* is no bucket, without a tuple x is NoTuple.                               *)
SlotNums == 1 .. setup.bucketSize
HeadSpot(b, j) == <<"head", b, j>>
CellSpot(a, j) == <<"cell", a, j>>
NoBucket == -1

NextDistinct == \A t \in Threads, i \in Lanes : Distinct(imv[t].next[i])
DistinctChains == (\A b \in Heads : Distinct(heads[b].chain)) /\ NextDistinct
AllGot == \A e \in Heads : \A c : Behind(e, c) => Got(PlaceOf(c))

SameCell(c, d, x, s) ==
  /\ PlaceOf(c) = PlaceOf(d)
  /\ \A j \in SlotNums : \/ c.tuples[j] = d.tuples[j]
                         \/ c.tuples[j] = x /\ s = CellSpot(PlaceOf(c), j)
Descends(e, c, x, s) == \E d : Behind(e, d) /\ SameCell(c, d, x, s)
FreshCell(c, a, x, s) ==
  /\ PlaceOf(c) = a
  /\ \A j \in SlotNums : \/ c.tuples[j] = NoTuple
                         \/ c.tuples[j] = x /\ s = CellSpot(a, j)

HeadsStep(x, s) ==
  \A e \in Heads, j \in SlotNums :
    \/ heads'[e].tuples[j] = heads[e].tuples[j]
    \/ heads'[e].tuples[j] = x /\ s = HeadSpot(e, j)
CellsStep(x, s, b, a) ==
  \A e \in Heads : \A c : Behind(e, c)' =>
    Descends(e, c, x, s) \/ (e = b /\ FreshCell(c, a, x, s))
TableStep(x, s, b, a) ==
  /\ HeadsStep(x, s) /\ CellsStep(x, s, b, a) /\ DistinctChains'
  /\ b \in Heads => ~Got(a) /\ Got(a)'
  /\ \A c \in Cells : Got(PlaceOf(c)) => Got(PlaceOf(c))'

LEMMA SelfDescends ==
  ASSUME NEW e, NEW c, Behind(e, c), NEW x, NEW s
  PROVE  Descends(e, c, x, s)
BY DEF Descends, SameCell

\* What the vector loops do to what is behind a bucket, but for scattering.
LEMMA MovesBehind ==
  ASSUME VectorOK, setup' = setup, NEW t \in Threads, NEW r, Goes(t, r), NextMoves(t, r),
         NEW e, NEW c, Behind(e, c)'
  PROVE  c \in CellsIn(heads'[e].chain) \/ Behind(e, c)
<1>1. Threads' = Threads
  BY SameSetup
<1>2. imv'[t] = r /\ \A u \in Threads \ {t} : imv'[u] = imv[u]
  BY DEF VectorOK, Goes
<1>3. SUFFICES ASSUME NEW u \in Threads, NEW i \in Lanes,
                      Current(u)'.lane[i].head = e, c \in CellsIn(imv'[u].next[i])
               PROVE  Behind(e, c)
  BY <1>1 DEF Behind
<1>4. CASE u # t
  <2>1. Current(u)' = Current(u) /\ imv'[u] = imv[u]
    BY <1>2, <1>4 DEF Current
  <2> QED BY <1>3, <2>1 DEF Behind
<1>5. CASE u = t
  <2>1. r.next[i] # << >>
    BY <1>2, <1>3, <1>5 DEF CellsIn
  <2>2. Current(u)' = Current(u)
    BY <1>2, <1>5, <2>1 DEF Current, NextMoves
  <2>3. CASE r.next[i] = imv[t].next[i]
    BY <1>2, <1>3, <1>5, <2>2, <2>3 DEF Behind
  <2>4. CASE r.next[i] = HeadOf(t, i).chain
    BY <1>2, <1>3, <1>5, <2>2, <2>4 DEF Behind, HeadOf
  <2> QED BY <2>1, <2>3, <2>4 DEF NextMoves
<1> QED BY <1>4, <1>5

LEMMA MovesDistinct ==
  ASSUME VectorOK, setup' = setup, NEW t \in Threads, NEW r, Goes(t, r), NextMoves(t, r),
         DistinctChains
  PROVE  NextDistinct'
<1>1. Threads' = Threads
  BY SameSetup
<1>2. imv'[t] = r /\ \A u \in Threads \ {t} : imv'[u] = imv[u]
  BY DEF VectorOK, Goes
<1>3. SUFFICES ASSUME NEW i \in Lanes PROVE Distinct(r.next[i])
  BY <1>1, <1>2 DEF DistinctChains, NextDistinct
<1>4. CASE r.next[i] = << >>
  BY <1>4 DEF Distinct
<1>5. CASE r.next[i] # << >>
  BY <1>5 DEF NextMoves, DistinctChains, NextDistinct, HeadOf
<1> QED BY <1>4, <1>5

\* Behind a bucket comes only what is in its chain.
ImvBehind ==
  \A e \in Heads : \A c : Behind(e, c)' => c \in CellsIn(heads'[e].chain) \/ Behind(e, c)
NoSpot == <<"none">>
TableKept == TableStep(NoTuple, NoSpot, NoBucket, NoSpot)
PlacesKept == \A c \in Cells : Got(PlaceOf(c)) => Got(PlaceOf(c))'

LEMMA StayBehind ==
  ASSUME UNCHANGED <<setup, imv>>
  PROVE  ImvBehind /\ (DistinctChains => NextDistinct')
<1>1. Threads' = Threads
  BY SameSetup
<1>2. \A u : Current(u)' = Current(u)
  BY DEF Current
<1> QED BY <1>1, <1>2 DEF ImvBehind, Behind, DistinctChains, NextDistinct

LEMMA PlacesStay ==
  ASSUME bufs' = bufs
  PROVE  PlacesKept
BY DEF PlacesKept, Got

LEMMA KeepStep ==
  ASSUME DistinctChains, UNCHANGED <<setup, heads>>, PlacesKept, ImvBehind, NextDistinct'
  PROVE  TableKept
<1>1. HeadsStep(NoTuple, NoSpot)
  BY DEF HeadsStep
<1>2. DistinctChains'
  BY DEF DistinctChains
<1>3. NoBucket \notin Heads
  BY DEF NoBucket, Heads
<1>4. ASSUME NEW e \in Heads, NEW c, Behind(e, c)' PROVE Behind(e, c)
  BY <1>4 DEF ImvBehind, Behind
<1>5. CellsStep(NoTuple, NoSpot, NoBucket, NoSpot)
  <2>1. ASSUME NEW e \in Heads, NEW c, Behind(e, c)' PROVE Descends(e, c, NoTuple, NoSpot)
    <3>1. Behind(e, c)
      BY <1>4, <2>1
    <3> QED BY <3>1, SelfDescends
  <2> QED BY <2>1 DEF CellsStep
<1> QED BY <1>1, <1>2, <1>3, <1>5 DEF TableKept, TableStep, PlacesKept

\* A bucket is replaced.
CellsCome(q, b, p, a, x, s) ==
  \A c \in CellsIn(q.chain) : Descends(b, c, x, s) \/ (b = p /\ FreshCell(c, a, x, s))
TuplesCome(q, b, x, s) ==
  \A j \in SlotNums : q.tuples[j] = heads[b].tuples[j] \/ (q.tuples[j] = x /\ s = HeadSpot(b, j))

LEMMA PutStep ==
  ASSUME TableTyped, setup' = setup, DistinctChains, ImvBehind, NextDistinct', PlacesKept,
         NEW b \in Heads, NEW q, HeadsPut(b, q), NEW x, NEW s, NEW p, NEW a,
         CellsCome(q, b, p, a, x, s), TuplesCome(q, b, x, s), Distinct(q.chain),
         p \in Heads => ~Got(a) /\ Got(a)'
  PROVE  TableStep(x, s, p, a)
<1>1. heads'[b] = q /\ \A e \in Heads \ {b} : heads'[e] = heads[e]
  BY DEF TableTyped, HeadsPut
<1>2. HeadsStep(x, s)
  BY <1>1 DEF HeadsStep, TuplesCome
<1>3. DistinctChains'
  BY <1>1 DEF DistinctChains
<1>4. CellsStep(x, s, p, a)
  <2>1. ASSUME NEW e \in Heads, NEW c, Behind(e, c)'
        PROVE  Descends(e, c, x, s) \/ (e = p /\ FreshCell(c, a, x, s))
    <3>1. CASE Behind(e, c)
      BY <3>1, SelfDescends
    <3>2. CASE c \in CellsIn(heads'[e].chain) /\ e # b
      <4>1. Behind(e, c)
        BY <1>1, <3>2 DEF Behind
      <4> QED BY <4>1, SelfDescends
    <3>3. CASE c \in CellsIn(heads'[e].chain) /\ e = b
      BY <1>1, <3>3 DEF CellsCome
    <3> QED BY <2>1, <3>1, <3>2, <3>3 DEF ImvBehind
  <2> QED BY <2>1 DEF CellsStep
<1> QED BY <1>2, <1>3, <1>4 DEF TableStep, PlacesKept

\* What a step needs of the state it starts from.
LinkInv == TableTyped /\ VectorOK /\ ControlOK /\ ScalarOK /\ DistinctChains

LEMMA WorkStep ==
  ASSUME LinkInv, NEW t \in Threads, VectorWork(t), ~Scattering(t)
  PROVE  TableKept
<1>0. TableTyped /\ VectorOK /\ ControlOK /\ ScalarOK /\ DistinctChains /\ setup \in Setups
      /\ heads \in [Heads -> Buckets]
  BY DEF LinkInv, ControlOK, TableTyped
<1>1. UNCHANGED <<setup, heads, bufs>>
  BY WorkFrame DEF WorkLeaves, VectorWork
<1>2. PICK r : Goes(t, r) /\ NextMoves(t, r)
  BY <1>0, WorkMoves
<1>3. ImvBehind
  BY <1>0, <1>1, <1>2, MovesBehind DEF ImvBehind
<1>4. NextDistinct'
  BY <1>0, <1>1, <1>2, MovesDistinct
<1> QED BY <1>0, <1>1, <1>3, <1>4, PlacesStay, KeepStep

LEMMA StayStep ==
  ASSUME DistinctChains, UNCHANGED <<setup, imv, heads, bufs>>
  PROVE  TableKept
BY StayBehind, PlacesStay, KeepStep

\* The first overflow bucket of a bucket is replaced by one of its place.
LEMMA PutFirst ==
  ASSUME NEW b \in Heads, heads[b].chain \in Chains, Distinct(heads[b].chain),
         heads[b].chain # << >>, NEW c \in Cells, NEW x, NEW s,
         SameCell(c, heads[b].chain[1], x, s),
         NEW q, q.chain = [heads[b].chain EXCEPT ![1] = c]
  PROVE  Distinct(q.chain) /\ CellsCome(q, b, NoBucket, NoSpot, x, s)
<1>1. PICK chain \in Chains : chain = heads[b].chain
  OBVIOUS
<1>2. PlaceOf(c) = PlaceOf(chain[1])
  BY <1>1 DEF SameCell
<1>3. PICK new : new = [chain EXCEPT ![1] = c]
  OBVIOUS
<1>4. 1 \in DOMAIN chain /\ CellsIn(new) \subseteq {c} \union CellsIn(chain)
      /\ (Distinct(chain) => Distinct(new))
  BY <1>1, <1>2, <1>3, CellsOfPut
<1>5. Descends(b, c, x, s)
  <2>1. Behind(b, chain[1])
    BY <1>1, <1>4 DEF Behind, CellsIn
  <2> QED BY <1>1, <2>1 DEF Descends
<1>6. \A d \in CellsIn(chain) : Descends(b, d, x, s)
  BY <1>1, SelfDescends DEF Behind
<1> QED BY <1>1, <1>3, <1>4, <1>5, <1>6 DEF CellsCome

\* A new bucket goes in front of buckets that were behind the bucket.
LEMMA PutNew ==
  ASSUME LinkInv, AllGot, setup \in Setups, setup' = setup, NEW t \in Threads,
         NEW new, new = GetNewBucket(bufs[t]), bufs' = [bufs EXCEPT ![t] = new],
         NEW count \in Nat, NEW x \in Nat,
         NEW a, a = PlaceOf(NewestBucket(t, new, count, x)),
         NEW b \in Heads, NEW chain \in Chains, Distinct(chain),
         \A c \in CellsIn(chain) : Behind(b, c),
         NEW q, q.chain = <<NewestBucket(t, new, count, x)>> \o chain
  PROVE  /\ Distinct(q.chain) /\ CellsCome(q, b, b, a, x, CellSpot(a, 1))
         /\ ~Got(a) /\ Got(a)' /\ PlacesKept
<1>0. TableTyped
  BY DEF LinkInv
<1>1. new \in BufValues
  BY <1>0, NewBufferTyped DEF TableTyped
<1>2. PICK n \in Cells : n = NewestBucket(t, new, count, x)
  BY <1>1, NewestTyped
<1>3. ~Got(a) /\ Got(a)' /\ PlacesKept
  BY <1>0, PlaceGot DEF PlacesKept
<1>4. \A c \in CellsIn(chain) : PlaceOf(c) # PlaceOf(n)
  BY <1>2, <1>3 DEF AllGot
<1>5. CellsIn(<<n>> \o chain) = {n} \union CellsIn(chain) /\ Distinct(<<n>> \o chain)
  BY <1>4, CellsOfCons
<1>6. FreshCell(n, a, x, CellSpot(a, 1))
  <2>1. n.tuples = [j \in SlotNums |-> IF j = 1 THEN x ELSE NoTuple]
    BY <1>2 DEF NewestBucket, SlotNums
  <2> QED BY <1>2, <2>1 DEF FreshCell
<1>7. \A c \in CellsIn(chain) : Descends(b, c, x, CellSpot(a, 1))
  BY SelfDescends
<1>8. CellsCome(q, b, b, a, x, CellSpot(a, 1))
  BY <1>2, <1>5, <1>6, <1>7 DEF CellsCome
<1> QED BY <1>2, <1>3, <1>5, <1>8

LEMMA ClaimStep ==
  ASSUME LinkInv, AllGot, NEW t \in Threads, Claim(t)
  PROVE  \E s, b, a : TableStep(NoTuple, s, b, a)
<1>0. TableTyped /\ VectorOK /\ ControlOK /\ ScalarOK /\ DistinctChains /\ setup \in Setups
  BY DEF LinkInv, ControlOK
<1>1. PICK b \in Heads : b = Bucket(t)
  BY <1>0, TupleInPart DEF Claim, AtStep
<1>2. PICK h : h = heads[b]
  OBVIOUS
<1>3. /\ h \in Buckets /\ h.count \in Nat /\ h.chain \in Chains /\ Distinct(h.chain)
  BY <1>0, <1>1, <1>2, BucketTyped DEF TableTyped, DistinctChains
<1>4. setup' = setup /\ imv' = imv
  BY DEF Claim, Inside
<1>5. ImvBehind /\ NextDistinct'
  BY <1>0, <1>4, StayBehind
<1>6. PICK new : new = GetNewBucket(bufs[t])
  OBVIOUS
<1>7. PICK n : n = NewestBucket(t, new, 1, NoTuple)
  OBVIOUS
<1>8. \/ HeadsPut(b, [h EXCEPT !.count = h.count + 1]) /\ bufs' = bufs
      \/ /\ h.chain # << >> /\ bufs' = bufs
         /\ HeadsPut(b, [h EXCEPT !.chain = [h.chain EXCEPT ![1] =
                               [h.chain[1] EXCEPT !.count = h.chain[1].count + 1]]])
      \/ /\ HeadsPut(b, [h EXCEPT !.chain = <<n>> \o h.chain])
         /\ bufs' = [bufs EXCEPT ![t] = new]
  BY <1>1, <1>2, <1>6, <1>7 DEF Claim, HeadsPut
<1>9. CASE HeadsPut(b, [h EXCEPT !.count = h.count + 1]) /\ bufs' = bufs
  <2>1. PICK q : q = [h EXCEPT !.count = h.count + 1]
    OBVIOUS
  <2>2. q.chain = h.chain /\ q.tuples = h.tuples
    BY <1>3, <2>1 DEF Buckets
  <2>3. TuplesCome(q, b, NoTuple, NoSpot)
    BY <1>2, <2>2 DEF TuplesCome
  <2>4. \A c \in CellsIn(h.chain) : Descends(b, c, NoTuple, NoSpot)
    BY <1>2, SelfDescends DEF Behind
  <2>5. CellsCome(q, b, NoBucket, NoSpot, NoTuple, NoSpot)
    BY <2>2, <2>4 DEF CellsCome
  <2>6. NoBucket \notin Heads
    BY DEF NoBucket, Heads
  <2> QED BY <1>0, <1>3, <1>4, <1>5, <1>9, <2>1, <2>2, <2>3, <2>5, <2>6, PlacesStay, PutStep
<1>10. CASE /\ h.chain # << >> /\ bufs' = bufs
            /\ HeadsPut(b, [h EXCEPT !.chain = [h.chain EXCEPT ![1] =
                               [h.chain[1] EXCEPT !.count = h.chain[1].count + 1]]])
  <2>1. PICK d \in Cells : d = h.chain[1]
    BY <1>3, <1>10, ChainFirst
  <2>2. PICK c : c = [d EXCEPT !.count = d.count + 1]
    OBVIOUS
  <2>3. c \in Cells /\ c.tuples = d.tuples /\ PlaceOf(c) = PlaceOf(d)
    BY <2>2 DEF Cells, PlaceOf
  <2>4. SameCell(c, d, NoTuple, NoSpot)
    BY <2>3 DEF SameCell
  <2>5. PICK q : q = [h EXCEPT !.chain = [h.chain EXCEPT ![1] = c]]
    OBVIOUS
  <2>6. q.chain = [h.chain EXCEPT ![1] = c] /\ q.tuples = h.tuples /\ HeadsPut(b, q)
    BY <1>3, <1>10, <2>1, <2>2, <2>5 DEF Buckets
  <2>7. TuplesCome(q, b, NoTuple, NoSpot)
    BY <1>2, <2>6 DEF TuplesCome
  <2>8. Distinct(q.chain) /\ CellsCome(q, b, NoBucket, NoSpot, NoTuple, NoSpot)
    BY <1>2, <1>3, <1>10, <2>1, <2>3, <2>4, <2>6, PutFirst
  <2>9. NoBucket \notin Heads
    BY DEF NoBucket, Heads
  <2> QED BY <1>0, <1>4, <1>5, <1>10, <2>6, <2>7, <2>8, <2>9, PlacesStay, PutStep
<1>11. CASE /\ HeadsPut(b, [h EXCEPT !.chain = <<n>> \o h.chain])
            /\ bufs' = [bufs EXCEPT ![t] = new]
  <2>1. PICK q : q = [h EXCEPT !.chain = <<n>> \o h.chain]
    OBVIOUS
  <2>2. q.chain = <<n>> \o h.chain /\ q.tuples = h.tuples
    BY <1>3, <2>1 DEF Buckets
  <2>3. PICK a : a = PlaceOf(n)
    OBVIOUS
  <2>4. \A c \in CellsIn(h.chain) : Behind(b, c)
    BY <1>2 DEF Behind
  <2>5. NoTuple \in Nat
    BY BoundsAssumption
  <2>6. /\ Distinct(q.chain) /\ CellsCome(q, b, b, a, NoTuple, CellSpot(a, 1))
        /\ ~Got(a) /\ Got(a)' /\ PlacesKept
    BY ZenonT(30), <1>0, <1>3, <1>4, <1>6, <1>7, <1>11, <2>2, <2>3, <2>4, <2>5, PutNew
  <2>7. TuplesCome(q, b, NoTuple, CellSpot(a, 1))
    BY <1>2, <2>2 DEF TuplesCome
  <2>8. TableStep(NoTuple, CellSpot(a, 1), b, a)
    BY <1>0, <1>4, <1>5, <1>11, <2>1, <2>6, <2>7, PutStep
  <2> QED BY <2>8
<1> QED BY <1>8, <1>9, <1>10, <1>11 DEF TableKept

\* Tuples with one slot written.
LEMMA SlotPut ==
  ASSUME NEW old \in [SlotNums -> Nat], NEW slot, NEW x, NEW new, new = [old EXCEPT ![slot] = x]
  PROVE  \A j \in SlotNums : new[j] = old[j] \/ (new[j] = x /\ j = slot)
OBVIOUS

LEMMA StoreStep ==
  ASSUME LinkInv, NEW t \in Threads, Store(t)
  PROVE  \E s : TableStep(Tuple(t), s, NoBucket, NoSpot)
<1>0. TableTyped /\ VectorOK /\ ControlOK /\ ScalarOK /\ DistinctChains /\ setup \in Setups
  BY DEF LinkInv, ControlOK
<1>1. PICK b \in Heads : b = Bucket(t)
  BY <1>0, TupleInPart DEF Store, AtStep
<1>2. PICK h, slot, x : h = heads[b] /\ slot = scalar[t].slot /\ x = Tuple(t)
  OBVIOUS
<1>3. /\ h \in Buckets /\ h.chain \in Chains /\ Distinct(h.chain)
      /\ h.tuples \in [SlotNums -> Nat] /\ x \in Nat
  BY <1>0, <1>1, <1>2, BucketTyped, TupleTyped DEF TableTyped, DistinctChains, SlotNums
<1>4. setup' = setup /\ imv' = imv /\ bufs' = bufs
  BY DEF Store, Inside
<1>5. ImvBehind /\ NextDistinct' /\ PlacesKept /\ NoBucket \notin Heads
  BY <1>0, <1>4, StayBehind, PlacesStay DEF NoBucket, Heads
<1>6. \/ HeadsPut(b, [h EXCEPT !.tuples = [h.tuples EXCEPT ![slot] = x]])
      \/ HeadsPut(b, [h EXCEPT !.chain = [h.chain EXCEPT ![1] =
                        [h.chain[1] EXCEPT !.tuples = [h.chain[1].tuples EXCEPT ![slot] = x]]]])
  BY <1>1, <1>2 DEF Store, HeadsPut
<1>7. CASE HeadsPut(b, [h EXCEPT !.tuples = [h.tuples EXCEPT ![slot] = x]])
  <2>1. PICK ts : ts = [h.tuples EXCEPT ![slot] = x]
    OBVIOUS
  <2>2. PICK q : q = [h EXCEPT !.tuples = ts]
    OBVIOUS
  <2>3. q.chain = h.chain /\ q.tuples = ts /\ HeadsPut(b, q)
    BY <1>3, <1>7, <2>1, <2>2 DEF Buckets
  <2>4. \A j \in SlotNums : ts[j] = h.tuples[j] \/ (ts[j] = x /\ j = slot)
    BY <1>3, <2>1, SlotPut
  <2>5. PICK s : s = HeadSpot(b, slot)
    OBVIOUS
  <2>6. TuplesCome(q, b, x, s)
    BY <1>2, <2>3, <2>4, <2>5 DEF TuplesCome
  <2>7. \A c \in CellsIn(h.chain) : Descends(b, c, x, s)
    BY <1>2, SelfDescends DEF Behind
  <2>8. CellsCome(q, b, NoBucket, NoSpot, x, s)
    BY <2>3, <2>7 DEF CellsCome
  <2>9. TableStep(x, s, NoBucket, NoSpot)
    BY <1>0, <1>3, <1>4, <1>5, <2>3, <2>6, <2>8, PutStep
  <2> QED BY <1>2, <2>9
<1>8. CASE HeadsPut(b, [h EXCEPT !.chain = [h.chain EXCEPT ![1] =
                        [h.chain[1] EXCEPT !.tuples = [h.chain[1].tuples EXCEPT ![slot] = x]]]])
  <2>1. PICK d, ts : d = h.chain[1] /\ ts = [d.tuples EXCEPT ![slot] = x]
    OBVIOUS
  <2>2. PICK c : c = [d EXCEPT !.tuples = ts]
    OBVIOUS
  <2>3. PICK q : q = [h EXCEPT !.chain = [h.chain EXCEPT ![1] = c]]
    OBVIOUS
  <2>4. q.chain = [h.chain EXCEPT ![1] = c] /\ q.tuples = h.tuples /\ HeadsPut(b, q)
    BY <1>3, <1>8, <2>1, <2>2, <2>3 DEF Buckets
  <2>5. CASE h.chain = << >>
    <3>1. q.chain = h.chain
      <4>1. h.chain = [j \in {} |-> << >>] /\ 1 \notin {}
        BY <2>5
      <4> QED BY <2>4, <2>5
    <3>2. TuplesCome(q, b, x, NoSpot)
      BY <1>2, <2>4 DEF TuplesCome
    <3>3. \A e \in CellsIn(h.chain) : Descends(b, e, x, NoSpot)
      BY <1>2, SelfDescends DEF Behind
    <3>4. CellsCome(q, b, NoBucket, NoSpot, x, NoSpot)
      BY <3>1, <3>3 DEF CellsCome
    <3>5. TableStep(x, NoSpot, NoBucket, NoSpot)
      BY <1>0, <1>3, <1>4, <1>5, <2>4, <3>1, <3>2, <3>4, PutStep
    <3> QED BY <1>2, <3>5
  <2>6. CASE h.chain # << >>
    <3>1. d \in Cells
      BY <1>3, <2>1, <2>6, ChainFirst
    <3>2. d.tuples \in [SlotNums -> Nat]
      BY <3>1 DEF Cells, SlotNums
    <3>3. ts \in [SlotNums -> Nat]
      BY <1>3, <2>1, <3>2
    <3>4. c \in Cells /\ c.tuples = ts /\ PlaceOf(c) = PlaceOf(d)
      BY <2>2, <3>1, <3>3 DEF Cells, PlaceOf, SlotNums
    <3>5. \A j \in SlotNums : ts[j] = d.tuples[j] \/ (ts[j] = x /\ j = slot)
      BY <2>1, <3>2, SlotPut
    <3>6. PICK s : s = CellSpot(PlaceOf(c), slot)
      OBVIOUS
    <3>7. SameCell(c, d, x, s)
      BY <3>4, <3>5, <3>6 DEF SameCell
    <3>8. Distinct(q.chain) /\ CellsCome(q, b, NoBucket, NoSpot, x, s)
      BY <1>2, <1>3, <2>1, <2>4, <2>6, <3>4, <3>7, PutFirst
    <3>9. TuplesCome(q, b, x, s)
      BY <1>2, <2>4 DEF TuplesCome
    <3>10. TableStep(x, s, NoBucket, NoSpot)
      BY <1>0, <1>4, <1>5, <2>4, <3>8, <3>9, PutStep
    <3> QED BY <1>2, <3>10
  <2> QED BY <2>5, <2>6
<1> QED BY <1>6, <1>7, <1>8

\* The tuple a lane of the scatter carries is written to the lane's bucket.
LaneTuple(t, i) == Current(t).lane[i].tuple
\* It goes to the first slot, of that bucket or of a new one behind it.
FirstSpot(t, i, s, b, a) ==
  LET h == Current(t).lane[i].head
  IN  h \in Heads /\ (s = HeadSpot(h, 1) \/ (b = h /\ s = CellSpot(a, 1)))
LEMMA ScatterStep ==
  ASSUME LinkInv, AllGot, NEW t \in Threads, NEW i \in Lanes, ScatterHead(t, i) \/ ScatterNext(t, i)
  PROVE  \E s, b, a : TableStep(LaneTuple(t, i), s, b, a) /\ FirstSpot(t, i, s, b, a)
<1>0. TableTyped /\ VectorOK /\ ControlOK /\ ScalarOK /\ DistinctChains /\ setup \in Setups
  BY DEF LinkInv, ControlOK
<1>1. PICK m : m = imv[t]
  OBVIOUS
<1>2. /\ m.op = "scatter" /\ m.op # "turn" /\ setup' = setup
      /\ Running(t, "scatter") /\ imv' = [imv EXCEPT ![t].left = @ \ {i}]
  BY <1>1 DEF ScatterHead, ScatterNext, Running, Inside
<1>3. m.next \in [Lanes -> Chains] /\ m.st[m.k].lane \in [Lanes -> LaneValues]
  BY <1>0, <1>1, <1>2, AtGather
<1>4. PICK l \in LaneValues : l = Current(t).lane[i]
  BY <1>1, <1>3 DEF Current
<1>5. PICK b \in Heads, x \in Nat : b = l.head /\ x = l.tuple
  BY <1>4 DEF LaneValues
<1>6. x = LaneTuple(t, i)
  BY <1>4, <1>5 DEF LaneTuple
<1>7. PICK h : h = heads[b]
  OBVIOUS
<1>8. /\ h \in Buckets /\ h.tuples \in [SlotNums -> Nat] /\ Distinct(h.chain)
  BY <1>0, <1>7, BucketTyped DEF TableTyped, SlotNums, DistinctChains
<1>9. PICK r : Goes(t, r) /\ LaneScattered(t, i, r)
  BY <1>0, <1>2, ScatterGoes
<1>10. NextMoves(t, r)
  BY <1>9, SameMoves DEF LaneScattered
<1>11. ImvBehind
  BY <1>0, <1>2, <1>9, <1>10, MovesBehind DEF ImvBehind
<1>12. NextDistinct'
  BY <1>0, <1>2, <1>9, <1>10, MovesDistinct
<1>13. CASE ScatterHead(t, i)
  <2>1. heads' = [heads EXCEPT ![b].count = 1, ![b].tuples[1] = x] /\ bufs' = bufs
    BY <1>4, <1>5, <1>13 DEF ScatterHead
  <2>2. PICK ts : ts = [h.tuples EXCEPT ![1] = x]
    OBVIOUS
  <2>3. PICK q : q = [h EXCEPT !.count = 1, !.tuples = ts]
    OBVIOUS
  <2>4. q = [h EXCEPT !.count = 1, !.tuples[1] = x]
    BY <1>8, <2>2, <2>3 DEF Buckets
  <2>5. HeadsPut(b, q)
    BY <1>0, <1>7, <2>1, <2>4 DEF TableTyped, HeadsPut
  <2>6. q.chain = h.chain /\ q.tuples = ts
    BY <1>8, <2>3 DEF Buckets
  <2>7. \A j \in SlotNums : ts[j] = h.tuples[j] \/ (ts[j] = x /\ j = 1)
    BY <1>8, <2>2, SlotPut
  <2>8. PICK s : s = HeadSpot(b, 1)
    OBVIOUS
  <2>9. TuplesCome(q, b, x, s)
    BY <1>7, <2>6, <2>7, <2>8 DEF TuplesCome
  <2>10. \A c \in CellsIn(h.chain) : Descends(b, c, x, s)
    BY <1>7, SelfDescends DEF Behind
  <2>11. CellsCome(q, b, NoBucket, NoSpot, x, s)
    BY <2>6, <2>10 DEF CellsCome
  <2>12. NoBucket \notin Heads
    BY DEF NoBucket, Heads
  <2>13. TableStep(x, s, NoBucket, NoSpot)
    BY <1>0, <1>2, <1>8, <1>11, <1>12, <2>1, <2>5, <2>6, <2>9, <2>11, <2>12, PlacesStay, PutStep
  <2>14. FirstSpot(t, i, s, NoBucket, NoSpot)
    BY <1>4, <1>5, <2>8 DEF FirstSpot
  <2> QED BY <1>6, <2>13, <2>14
<1>14. CASE ScatterNext(t, i)
  <2>1. PICK new : new = GetNewBucket(bufs[t])
    OBVIOUS
  <2>2. PICK n : n = NewestBucket(t, new, 0, x)
    OBVIOUS
  <2>3. PICK chain \in Chains : chain = m.next[i]
    BY <1>3
  <2>4. PICK q : q = [h EXCEPT !.chain = <<n>> \o chain]
    OBVIOUS
  <2>5. HeadsPut(b, q) /\ bufs' = [bufs EXCEPT ![t] = new]
    BY <1>1, <1>4, <1>5, <1>7, <1>14, <2>1, <2>2, <2>3, <2>4 DEF ScatterNext, NewChain, HeadsPut
  <2>6. q.chain = <<n>> \o chain /\ q.tuples = h.tuples
    BY <1>8, <2>4 DEF Buckets
  <2>7. PICK a : a = PlaceOf(n)
    OBVIOUS
  <2>8. \A c \in CellsIn(chain) : Behind(b, c)
    BY <1>1, <1>4, <1>5, <2>3 DEF Behind
  <2>9. Distinct(chain)
    BY <1>0, <1>1, <2>3 DEF DistinctChains, NextDistinct
  <2>10. /\ Distinct(q.chain) /\ CellsCome(q, b, b, a, x, CellSpot(a, 1))
         /\ ~Got(a) /\ Got(a)' /\ PlacesKept
    BY <1>0, <1>2, <2>1, <2>2, <2>5, <2>6, <2>7, <2>8, <2>9, PutNew
  <2>11. TuplesCome(q, b, x, CellSpot(a, 1))
    BY <1>7, <2>6 DEF TuplesCome
  <2>12. TableStep(x, CellSpot(a, 1), b, a)
    BY <1>0, <1>2, <1>11, <1>12, <2>5, <2>10, <2>11, PutStep
  <2>13. FirstSpot(t, i, CellSpot(a, 1), b, a)
    BY <1>4, <1>5 DEF FirstSpot
  <2> QED BY <1>6, <2>12, <2>13
<1> QED BY <1>13, <1>14

-----------------------------------------------------------------------------
(* Where a barrier leads. *)
Passes(p, pc, run) ==
  \/ p.pc = "setup" /\ pc = "allocate" /\ run = 0
  \/ p.pc = "allocate" /\ pc = "fetch" /\ run = p.run
  \/ p.pc = "fetch" /\ pc = "build" /\ run = p.run
  \/ p.pc = "build" /\ pc = "release" /\ run = p.run
  \/ p.pc = "release" /\ p.run = LastRun /\ pc = "ready" /\ run = 0
  \/ p.pc = "release" /\ p.run < LastRun /\ pc = "allocate" /\ run = p.run + 1
  \/ p.pc = "ready" /\ pc = "probe" /\ run = p.run
  \/ p.pc = "probe" /\ p.run < LastRun /\ pc = "ready" /\ run = p.run + 1
  \/ p.pc = "probe" /\ p.run = LastRun /\ pc = "end" /\ run = 0

OpensTo(t, q) ==
  /\ \A u \in Threads : at[u] # "work"
  /\ called' = 0 /\ Passes(phase[t], q.pc, q.run)
  /\ \A u \in Threads : phase'[u] = q /\ at'[u] = "work"
  /\ scalar' = [u \in Threads |-> ScalarStart] /\ imv' = [u \in Threads |-> ImvStart]
  /\ hash_pf_num = 2

LEMMA BarrierOpens ==
  ASSUME TableInv, NEW t \in Threads, Arrive(t), called + 1 = setup.threads
  PROVE  \E q : OpensTo(t, q)
<1>0. /\ ControlOK /\ Together /\ FunctionsSet /\ 0 \in Threads
      /\ \A u \in Threads : phase[u] = phase[t]
  BY SetupFacts DEF TableInv, LatchInv, Together
<1>1. /\ at[t] = "arrive" /\ phase[t].pc # "end"
      /\ called' = 0 /\ phase' = [u \in Threads |-> NextPhase(phase[u])]
      /\ at' = [u \in Threads |-> "work"]
      /\ scalar' = [u \in Threads |-> ScalarStart] /\ imv' = [u \in Threads |-> ImvStart]
  BY DEF Arrive
<1>2. \A u \in Threads : at[u] # "work"
  BY <1>0, <1>1, AllDone
<1>3. hash_pf_num = 2 /\ LastRun \in Nat
  BY <1>0, <1>2, BoundsAssumption DEF FunctionsSet, LastRun
<1>4. PICK p : p = phase[t]
  OBVIOUS
<1>5. p \in [pc : PCs, run : Nat] /\ p.pc # "end" /\ (p.pc # "setup" => p.run <= LastRun)
  BY <1>0, <1>1, <1>4 DEF ControlOK, FunctionsSet
<1>6. PICK q : q = NextPhase(p)
  OBVIOUS
<1>7. Passes(p, q.pc, q.run)
  <2>1. CASE p.pc = "setup"
    BY <2>1, <1>3, <1>6 DEF NextPhase, At, Passes
  <2>2. CASE p.pc \in {"allocate", "fetch", "build", "ready"}
    BY <2>2, <1>6 DEF NextPhase, At, Passes
  <2>3. CASE p.pc \in {"release", "probe"}
    BY <2>3, <1>3, <1>5, <1>6 DEF NextPhase, At, Passes
  <2> QED BY <2>1, <2>2, <2>3, <1>5 DEF PCs
<1>8. \A u \in Threads : phase'[u] = q /\ at'[u] = "work"
  BY <1>0, <1>1, <1>4, <1>6
<1> QED BY <1>1, <1>2, <1>3, <1>4, <1>7, <1>8 DEF OpensTo

-----------------------------------------------------------------------------
(* The overflow buckets belong to one bucket each.  From a build on, as     *)
(* long as its table is used, they lie in the part of the buffers that has  *)
(* been handed out; the heads are empty when a build starts.                *)
Owned ==
  \A b, d \in Heads : \A c, e :
    Behind(b, c) /\ Behind(d, e) /\ PlaceOf(c) = PlaceOf(e) => b = d
KeptTable ==
  \/ phase[0].pc \in {"build", "ready", "probe"}
  \/ phase[0].pc = "release" /\ phase[0].run = LastRun
Emptied == phase[0].pc = "fetch" \/ (phase[0].pc = "allocate" /\ at[0] # "work")
BuffersInv ==
  /\ DistinctChains /\ Owned
  /\ KeptTable => AllGot
  /\ Emptied => heads = [b \in Heads |-> EmptyHead]

LEMMA BehindTyped ==
  ASSUME TableTyped, VectorOK, NEW e \in Heads, NEW c, Behind(e, c)
  PROVE  c \in Cells
<1>1. ASSUME NEW chain \in Chains, c \in CellsIn(chain) PROVE c \in Cells
  BY <1>1 DEF Chains, CellsIn
<1>2. heads[e].chain \in Chains
  BY DEF TableTyped, Buckets
<1>3. ASSUME NEW t \in Threads, NEW i \in Lanes, c \in CellsIn(imv[t].next[i])
      PROVE  imv[t].next[i] \in Chains
  <2>1. PICK m : m = imv[t] /\ MachineOK(t, m)
    BY DEF VectorOK
  <2>2. m.op # "turn"
    BY <1>3, <2>1 DEF MachineOK, Gathering, CellsIn
  <2>3. m.next \in [Lanes -> Chains]
    BY <2>1, <2>2, AtGather
  <2> QED BY <2>1, <2>3
<1> QED BY <1>1, <1>2, <1>3 DEF Behind

\* Writing a tuple or putting a new bucket behind one keeps them so.
LEMMA StepOwned ==
  ASSUME TableTyped, VectorOK, Owned, AllGot, NEW x, NEW s, NEW b, NEW a, TableStep(x, s, b, a)
  PROVE  DistinctChains' /\ Owned' /\ AllGot'
<1>1. ASSUME NEW e \in Heads, NEW c, Behind(e, c)'
      PROVE  \/ \E d : Behind(e, d) /\ PlaceOf(d) = PlaceOf(c) /\ Got(PlaceOf(c)) /\ Got(PlaceOf(c))'
             \/ e = b /\ PlaceOf(c) = a /\ ~Got(a) /\ Got(a)'
  <2>1. CASE Descends(e, c, x, s)
    <3>1. PICK d : Behind(e, d) /\ PlaceOf(d) = PlaceOf(c)
      BY <2>1 DEF Descends, SameCell
    <3>2. d \in Cells /\ Got(PlaceOf(d))
      BY <3>1, BehindTyped DEF AllGot
    <3>3. Got(PlaceOf(d))'
      BY <3>2 DEF TableStep
    <3> QED BY <3>1, <3>2, <3>3
  <2>2. CASE e = b /\ FreshCell(c, a, x, s)
    BY <2>2 DEF FreshCell, TableStep
  <2> QED BY <1>1, <2>1, <2>2 DEF TableStep, CellsStep
<1>2. AllGot'
  BY <1>1 DEF AllGot
<1>3. Owned'
  <2>1. ASSUME NEW e \in Heads, NEW f \in Heads, NEW c, NEW g, Behind(e, c)', Behind(f, g)',
               PlaceOf(c) = PlaceOf(g)
        PROVE  e = f
    BY <1>1, <2>1 DEF Owned
  <2> QED BY <2>1 DEF Owned
<1> QED BY <1>2, <1>3 DEF TableStep

LEMMA KeptOwned ==
  ASSUME TableTyped, VectorOK, Owned, TableKept
  PROVE  DistinctChains' /\ Owned' /\ (AllGot => AllGot')
<1>1. NoBucket \notin Heads
  BY DEF NoBucket, Heads
<1>2. ASSUME NEW e \in Heads, NEW c, Behind(e, c)'
      PROVE  \E d : Behind(e, d) /\ PlaceOf(d) = PlaceOf(c)
  BY <1>1, <1>2 DEF TableKept, TableStep, CellsStep, Descends, SameCell
<1>3. Owned'
  BY <1>2 DEF Owned
<1>4. AllGot => AllGot'
  BY StepOwned DEF TableKept
<1> QED BY <1>3, <1>4 DEF TableKept, TableStep

LEMMA LinkOK ==
  ASSUME TypesInv, DistinctChains
  PROVE  LinkInv /\ LatchInv /\ Together /\ 0 \in Threads /\ \A u \in Threads : phase[u] = phase[0]
<1>1. LinkInv /\ LatchInv /\ Together
  BY DEF TypesInv, TableInv, LatchInv, LinkInv
<1>2. 0 \in Threads
  BY <1>1, SetupFacts DEF LinkInv
<1> QED BY <1>1, <1>2 DEF Together

\* A step that leaves the table and the phase alone.
LEMMA KeptBuffers ==
  ASSUME TypesInv, BuffersInv, TableKept, heads' = heads, KeptTable' => KeptTable,
         Emptied' => Emptied, setup' = setup
  PROVE  BuffersInv'
<1>1. DistinctChains' /\ Owned' /\ (AllGot => AllGot')
  BY KeptOwned DEF BuffersInv, TypesInv
<1>2. heads = [b \in Heads |-> EmptyHead] => heads' = [b \in Heads |-> EmptyHead']
  BY DEF EmptyHead
<1> QED BY <1>1, <1>2 DEF BuffersInv

\* A step of a build.
LEMMA BuildBuffers ==
  ASSUME TypesInv, BuffersInv, phase[0].pc = "build", phase' = phase,
         NEW x, NEW s, NEW b, NEW a, TableStep(x, s, b, a)
  PROVE  BuffersInv'
<1>1. DistinctChains' /\ Owned' /\ AllGot'
  BY StepOwned DEF BuffersInv, TypesInv, KeptTable
<1> QED BY <1>1 DEF BuffersInv, Emptied

\* With empty locals there is only what is in the chains.
LEMMA NothingGathered ==
  ASSUME VectorOK, NEW t \in Threads, imv[t].op = "turn", NEW i \in Lanes
  PROVE  CellsIn(imv[t].next[i]) = {}
<1>1. PICK m : m = imv[t] /\ MachineOK(t, m)
  BY DEF VectorOK
<1>2. m.next[i] = << >>
  BY <1>1 DEF MachineOK, Gathering
<1> QED BY <1>1, <1>2 DEF CellsIn

LEMMA AllocateBuffers ==
  ASSUME TypesInv, TypesInv', BuffersInv, NEW t \in Threads, Allocate(t)
  PROVE  BuffersInv'
<1>0. LinkInv /\ LatchInv /\ 0 \in Threads /\ \A u \in Threads : phase[u] = phase[0]
  BY LinkOK DEF BuffersInv
<1>1. /\ setup' = setup /\ phase' = phase /\ imv' = imv /\ phase[0].pc = "allocate"
      /\ at' = [at EXCEPT ![t] = "arrive"] /\ Threads' = Threads
  BY <1>0, SameSetup DEF Allocate, Working, Done, locals
<1>2. ~KeptTable'
  BY <1>1 DEF KeptTable
<1>3. CASE t # 0
  <2>1. heads' = heads
    BY <1>3 DEF Allocate
  <2>2. \A e \in Heads : \A c : Behind(e, c)' <=> Behind(e, c)
    BY <1>1, <2>1 DEF Behind, Current
  <2>3. DistinctChains' /\ Owned'
    BY <1>1, <2>1, <2>2 DEF BuffersInv, DistinctChains, NextDistinct, Owned
  <2>4. at'[0] = at[0]
    BY <1>0, <1>1, <1>3 DEF LinkInv, ControlOK
  <2>5. Emptied' => heads' = [b \in Heads |-> EmptyHead']
    BY <1>1, <2>1, <2>4 DEF BuffersInv, Emptied, EmptyHead
  <2> QED BY <1>2, <2>3, <2>5 DEF BuffersInv
<1>4. CASE t = 0
  <2>1. heads' = [b \in Heads |-> EmptyHead] /\ EmptyHead' = EmptyHead
    BY <1>1, <1>4 DEF Allocate, EmptyHead
  <2>2. \A b \in Heads : CellsIn(heads'[b].chain) = {}
    BY <2>1 DEF EmptyHead, CellsIn
  <2>3. VectorOK' /\ \A u \in Threads : imv'[u].op = "turn"
    BY <1>0, <1>1 DEF TypesInv, VectorOK
  <2>4. \A u \in Threads, i \in Lanes : CellsIn(imv'[u].next[i]) = {}
    <3>1. VectorOK /\ \A u \in Threads : imv[u].op = "turn"
      BY <1>1, <2>3 DEF TypesInv
    <3> QED BY <1>1, <3>1, NothingGathered
  <2>5. \A e \in Heads : \A c : ~Behind(e, c)'
    BY <1>1, <2>2, <2>4 DEF Behind
  <2>6. DistinctChains' /\ Owned'
    <3>1. \A chain : CellsIn(chain) = {} => Distinct(chain)
      BY DEF CellsIn, Distinct
    <3> QED BY <1>1, <2>2, <2>4, <2>5, <3>1 DEF DistinctChains, NextDistinct, Owned
  <2> QED BY <1>2, <2>1, <2>6 DEF BuffersInv
<1> QED BY <1>3, <1>4

\* The barrier leaves the table alone and ends what was gathered.
LEMMA OpenKept ==
  ASSUME DistinctChains, NEW t \in Threads, Arrive(t), NEW q, OpensTo(t, q)
  PROVE  TableKept /\ \A e \in Heads : \A c : Behind(e, c)' => c \in CellsIn(heads[e].chain)
<1>1. UNCHANGED <<setup, heads, bufs>> /\ Threads' = Threads
  BY SameSetup DEF Arrive, table
<1>2. \A u \in Threads, i \in Lanes : imv'[u].next[i] = << >>
  BY DEF OpensTo, ImvStart
<1>3. ASSUME NEW e \in Heads, NEW c, Behind(e, c)' PROVE c \in CellsIn(heads[e].chain)
  BY <1>1, <1>2, <1>3 DEF Behind, CellsIn
<1>4. NextDistinct'
  BY <1>1, <1>2 DEF NextDistinct, Distinct
<1>5. ImvBehind
  BY <1>1, <1>3 DEF ImvBehind
<1>6. TableKept
  BY <1>1, <1>4, <1>5, PlacesStay, KeepStep
<1> QED BY <1>3, <1>6

LEMMA ArriveBuffers ==
  ASSUME TypesInv, BuffersInv, NEW t \in Threads, Arrive(t)
  PROVE  BuffersInv'
<1>0. LinkInv /\ LatchInv /\ 0 \in Threads /\ \A u \in Threads : phase[u] = phase[0]
  BY LinkOK DEF BuffersInv
<1>1. /\ UNCHANGED <<setup, heads, bufs, hash_pf_num>> /\ Threads' = Threads
      /\ EmptyHead' = EmptyHead /\ LastRun' = LastRun
  BY SameSetup DEF Arrive, table, shared, EmptyHead, LastRun
<1>2. CASE called + 1 # setup.threads
  <2>1. at[t] = "arrive" /\ at' = [at EXCEPT ![t] = "wait"] /\ UNCHANGED <<phase, imv>>
    BY <1>2 DEF Arrive, locals
  <2>2. TableKept
    BY <1>1, <2>1, StayStep DEF BuffersInv
  <2>3. at'[0] # "work" => at[0] # "work"
    BY <1>0, <2>1 DEF LinkInv, ControlOK
  <2> QED BY <1>1, <2>1, <2>2, <2>3, KeptBuffers DEF KeptTable, Emptied
<1>3. CASE called + 1 = setup.threads
  <2>1. PICK q : OpensTo(t, q)
    BY <1>3, BarrierOpens DEF TypesInv
  <2>2. /\ \A u \in Threads : at[u] # "work"
        /\ \A u \in Threads : phase'[u] = q /\ at'[u] = "work"
        /\ Passes(phase[0], q.pc, q.run)
        /\ imv' = [u \in Threads |-> ImvStart]
    BY <1>0, <2>1 DEF OpensTo
  <2>3. DistinctChains
    BY DEF BuffersInv
  <2>4. TableKept /\ \A e \in Heads : \A c : Behind(e, c)' => c \in CellsIn(heads[e].chain)
    BY <2>1, <2>3, OpenKept
  <2>8. DistinctChains' /\ Owned' /\ (AllGot => AllGot')
    BY <2>4, KeptOwned DEF BuffersInv, TypesInv
  <2>9. Emptied' => Emptied
    BY <1>0, <2>2 DEF Emptied, Passes
  <2>10. KeptTable' => KeptTable \/ Emptied
    BY <1>0, <1>1, <2>2 DEF KeptTable, Emptied, Passes
  <2>11. CASE Emptied
    <3>1. \A e \in Heads : heads[e] = EmptyHead
      BY <2>11 DEF BuffersInv
    <3>2. \A e \in Heads : CellsIn(heads[e].chain) = {}
      BY <3>1 DEF EmptyHead, CellsIn
    <3>3. AllGot'
      BY <2>4, <3>2 DEF AllGot
    <3> QED BY <1>1, <2>8, <2>11, <3>3 DEF BuffersInv
  <2>12. CASE ~Emptied
    BY <2>8, <2>9, <2>10, <2>12 DEF BuffersInv
  <2> QED BY <2>11, <2>12
<1> QED BY <1>2, <1>3

LEMMA ReleaseBuffers ==
  ASSUME TypesInv, BuffersInv, NEW t \in Threads, Release(t)
  PROVE  BuffersInv'
<1>0. LinkInv /\ 0 \in Threads /\ phase[t] = phase[0]
  BY LinkOK DEF BuffersInv
<1>1. /\ UNCHANGED <<setup, heads, phase, imv, hash_pf_num>> /\ phase[0].pc = "release"
      /\ LastRun' = LastRun
  BY <1>0 DEF Release, Working, Done, locals, LastRun
<1>2. ~Emptied'
  BY <1>1 DEF Emptied
<1>3. \A e \in Heads : \A c : Behind(e, c)' <=> Behind(e, c)
  BY <1>1, SameSetup DEF Behind, Current
<1>4. DistinctChains' /\ Owned'
  BY <1>1, <1>3, SameSetup DEF BuffersInv, DistinctChains, NextDistinct, Owned
<1>5. CASE phase[t].run < LastRun
  <2>1. phase[0].run < LastRun /\ phase[0].run \in Nat /\ LastRun \in Int
    <3>1. phase[t].run \in Nat /\ hash_pf_num \in {0, 2}
      BY <1>0 DEF LinkInv, ControlOK, TypesInv, TableInv, FunctionsSet
    <3> QED BY <1>0, <1>5, <3>1, BoundsAssumption DEF LastRun
  <2>2. ~KeptTable'
    BY <1>1, <2>1 DEF KeptTable
  <2> QED BY <1>2, <1>4, <2>2 DEF BuffersInv
<1>6. CASE ~(phase[t].run < LastRun)
  <2>1. bufs' = bufs
    BY <1>6 DEF Release
  <2>2. TableKept
    BY <1>1, <2>1, StayStep DEF BuffersInv
  <2> QED BY <1>1, <1>2, <2>2, KeptBuffers DEF KeptTable
<1> QED BY <1>5, <1>6

LEMMA NextBuffersInv ==
  ASSUME TypesInv, TypesInv', BuffersInv, [Next]_vars
  PROVE  BuffersInv'
<1>0. LinkInv /\ LatchInv /\ 0 \in Threads /\ \A u \in Threads : phase[u] = phase[0]
  BY LinkOK DEF BuffersInv
<1>1. ASSUME UNCHANGED <<setup, phase, at, heads, bufs, imv, hash_pf_num>> PROVE BuffersInv'
  <2>1. TableKept
    BY <1>1, StayStep DEF BuffersInv
  <2> QED BY <1>1, <2>1, KeptBuffers DEF KeptTable, Emptied, LastRun
<1>2. CASE UNCHANGED vars
  BY <1>1, <1>2 DEF vars, shared, table, locals
<1>3. ASSUME MainJoins \/ Ended PROVE BuffersInv'
  <2>1. UNCHANGED <<setup, phase, at, heads, bufs, imv, hash_pf_num>>
    BY <1>3 DEF MainJoins, Ended, vars, shared, table, locals
  <2> QED BY <1>1, <2>1
<1>4. ASSUME NEW t \in Threads, VectorWork(t), ~Scattering(t) PROVE BuffersInv'
  <2>1. UNCHANGED <<setup, phase, at, heads, hash_pf_num>>
    BY <1>4, WorkFrame DEF WorkLeaves, VectorWork
  <2>2. TableKept
    BY <1>0, <1>4, WorkStep
  <2> QED BY <2>1, <2>2, KeptBuffers DEF KeptTable, Emptied, LastRun
<1>5. ASSUME NEW t \in Threads, Scattering(t) PROVE BuffersInv'
  <2>1. PICK i \in Lanes : ScatterHead(t, i) \/ ScatterNext(t, i)
    BY <1>5 DEF Scattering
  <2>2. phase[0].pc = "build" /\ phase' = phase
    BY <1>0, <2>1 DEF ScatterHead, ScatterNext, Running, Inside
  <2>3. AllGot
    BY <2>2 DEF BuffersInv, KeptTable
  <2>4. PICK s, b, a : TableStep(LaneTuple(t, i), s, b, a)
    BY <1>0, <2>1, <2>3, ScatterStep
  <2> QED BY <2>2, <2>4, BuildBuffers
<1>6. ASSUME NEW t \in Threads, Locking(t) PROVE BuffersInv'
  <2>1. CASE Lock(t) \/ Unlock(t) \/ ProbeTuple(t)
    <3>1. UNCHANGED <<setup, phase, at, heads, bufs, imv, hash_pf_num>>
      BY <2>1 DEF Lock, Unlock, ProbeTuple, Inside, BuildOnly, ProbeOnly, shared, table
    <3> QED BY <1>1, <3>1
  <2>2. CASE Claim(t) \/ Store(t)
    <3>1. phase[0].pc = "build" /\ phase' = phase
      BY <1>0, <2>2 DEF Claim, Store, AtStep, BuildWith, Working, Inside
    <3>2. AllGot
      BY <3>1 DEF BuffersInv, KeptTable
    <3>3. \E x, s, b, a : TableStep(x, s, b, a)
      BY <1>0, <2>2, <3>2, ClaimStep, StoreStep
    <3>4. PICK x, s, b, a : TableStep(x, s, b, a)
      BY <3>3
    <3> QED BY <3>1, <3>4, BuildBuffers
  <2> QED BY <1>6, <2>1, <2>2 DEF Locking
<1>7. ASSUME NEW t \in Threads, Ending(t) PROVE BuffersInv'
  <2>1. UNCHANGED <<setup, phase, heads, bufs, imv, hash_pf_num>>
        /\ phase[0].pc \in {"build", "probe", "ready"}
    BY <1>0, <1>7 DEF Ending, ScalarBuilt, ScalarProbed, ImvLeave, InLoop, BuildWith, Working, Ready,
                      Done, BuildOnly, shared, table, locals
  <2>2. TableKept
    BY <2>1, StayStep DEF BuffersInv
  <2> QED BY <2>1, <2>2, KeptBuffers DEF KeptTable, Emptied, LastRun
<1>8. ASSUME NEW t \in Threads, Phasing(t) PROVE BuffersInv'
  <2>1. CASE SetFunctions(t)
    <3>1. UNCHANGED <<setup, phase, heads, bufs, imv>> /\ phase[0].pc = "setup"
      BY <1>0, <2>1 DEF SetFunctions, Working, Done, table, locals
    <3>2. TableKept
      BY <3>1, StayStep DEF BuffersInv
    <3> QED BY <3>1, <3>2, KeptBuffers DEF KeptTable, Emptied
  <2>2. CASE Fetch(t)
    <3>1. UNCHANGED <<setup, phase, heads, bufs, imv>> /\ phase[0].pc = "fetch"
      BY <1>0, <2>2 DEF Fetch, Working, Done, table, locals
    <3>2. TableKept
      BY <3>1, StayStep DEF BuffersInv
    <3> QED BY <3>1, <3>2, KeptBuffers DEF KeptTable, Emptied
  <2> QED BY <1>8, <2>1, <2>2, AllocateBuffers, ReleaseBuffers DEF Phasing
<1> QED BY <1>2, <1>3, <1>4, <1>5, <1>6, <1>7, <1>8, ArriveBuffers, FlatNext

LEMMA InitBuffersInv == Init => BuffersInv
<1> SUFFICES ASSUME Init PROVE BuffersInv
  OBVIOUS
<1>1. 0 \in Threads
  BY InitTypesInv, SetupFacts DEF TypesInv, TableInv, LatchInv
<1>2. heads = [b \in Heads |-> EmptyHead] /\ imv = [t \in Threads |-> ImvStart]
  BY DEF Init
<1>3. \A e \in Heads : CellsIn(heads[e].chain) = {}
  BY <1>2 DEF EmptyHead, CellsIn
<1>4. \A t \in Threads, i \in Lanes : CellsIn(imv[t].next[i]) = {}
  BY <1>2 DEF ImvStart, CellsIn
<1>5. \A e \in Heads : \A c : ~Behind(e, c)
  BY <1>3, <1>4 DEF Behind
<1>6. \A chain : CellsIn(chain) = {} => Distinct(chain)
  BY DEF CellsIn, Distinct
<1> QED BY <1>2, <1>3, <1>4, <1>5, <1>6 DEF BuffersInv, DistinctChains, NextDistinct, Owned, AllGot

LEMMA AlwaysBuffersInv == Spec => [](TypesInv /\ BuffersInv)
<1>1. TypesInv /\ BuffersInv /\ [Next]_vars => (TypesInv /\ BuffersInv)'
  BY NextTypesInv, NextBuffersInv
<1> QED BY <1>1, InitTypesInv, InitBuffersInv, PTL DEF Spec

\* The places of a chain, as many as it is long.
LEMMA LinkedPlaces ==
  ASSUME TableTyped, DistinctChains, NEW b \in Heads
  PROVE  /\ Linked(b) = {PlaceOf(c) : c \in CellsIn(heads[b].chain)}
         /\ Cardinality(Linked(b)) = Len(heads[b].chain)
<1>1. PICK chain \in Chains : chain = heads[b].chain
  BY DEF TableTyped, Buckets
<1>2. Linked(b) = {PlaceOf(c) : c \in CellsIn(chain)}
  BY <1>1 DEF Linked, PlaceOf, CellsIn
<1>3. PICK n \in Nat : chain \in [1 .. n -> Cells] /\ Len(chain) = n
  BY DEF Chains
<1>4. PICK f : f = [j \in 1 .. n |-> PlaceOf(chain[j])]
  OBVIOUS
<1>5. PICK L : L = Linked(b)
  OBVIOUS
<1>6. f \in Bijection(1 .. n, L)
  <2>1. DOMAIN chain = 1 .. n
    BY <1>3
  <2>2. \A a \in L : \E j \in 1 .. n : f[j] = a
    BY <1>2, <1>4, <1>5, <2>1 DEF CellsIn
  <2>3. \A j \in 1 .. n : f[j] \in L
    BY <1>2, <1>4, <1>5, <2>1 DEF CellsIn
  <2>4. \A j, k \in 1 .. n : f[j] = f[k] => j = k
    BY <1>1, <1>4, <2>1 DEF DistinctChains, Distinct
  <2> QED BY <1>4, <2>2, <2>3, <2>4 DEF Bijection, Injection, Surjection, IsInjective
<1>7. Cardinality(L) = Cardinality(1 .. n)
  BY <1>6, FS_Bijection, FS_Interval DEF ExistsBijection
<1>8. Cardinality(1 .. n) = n
  BY FS_Interval
<1> QED BY <1>1, <1>2, <1>3, <1>5, <1>7, <1>8

\* A build or probe works on a live table whose buckets lead only to overflow
\* buckets of buffers that are still allocated, no two to the same one: a
\* place of a thread's buffers is handed out once between two allocations.
THEOREM AlwaysNoUseAfterFree == Spec => []NoUseAfterFree
<1>1. TypesInv /\ BuffersInv /\ TableLive => NoUseAfterFree
  <2> SUFFICES ASSUME TypesInv, BuffersInv, TableLive, NEW t \in Threads,
                      Working(t, "build") \/ Working(t, "probe"), NEW b \in Heads
               PROVE  /\ args_ht[t] = ht /\ ht \in live
                      /\ \A a \in Linked(b) : a.buffer <= bufs[a.thread].buffers
                      /\ Cardinality(Linked(b)) = Len(heads[b].chain)
                      /\ \A c \in Heads \ {b} : Linked(b) \intersect Linked(c) = {}
    <3>1. 0 \in Heads
      BY BoundsAssumption DEF Heads
    <3> QED BY <3>1 DEF NoUseAfterFree
  <2>1. phase[0].pc \in {"build", "probe"} /\ TableTyped /\ DistinctChains /\ VectorOK
    BY LinkOK DEF Working, BuffersInv, TypesInv
  <2>2. AllGot /\ Owned
    BY <2>1 DEF BuffersInv, KeptTable
  <2>3. \A e \in Heads : Linked(e) = {PlaceOf(c) : c \in CellsIn(heads[e].chain)}
    BY <2>1, LinkedPlaces
  <2>4. ASSUME NEW a \in Linked(b) PROVE a.buffer <= bufs[a.thread].buffers
    <3>1. PICK c \in CellsIn(heads[b].chain) : a = PlaceOf(c)
      BY <2>3
    <3>2. c \in Cells /\ Got(a)
      BY <2>1, <2>2, <3>1, BehindTyped DEF Behind, AllGot
    <3>3. a.thread \in Threads /\ a.buffer \in Nat
      BY <3>1, <3>2 DEF PlaceOf, Cells
    <3>4. bufs[a.thread].buffers \in Nat
      BY <2>1, <3>3 DEF TableTyped, BufValues
    <3> QED BY <3>2, <3>3, <3>4 DEF Got
  <2>5. ASSUME NEW d \in Heads \ {b}, NEW a \in Linked(b), a \in Linked(d) PROVE FALSE
    <3>1. PICK c \in CellsIn(heads[b].chain) : a = PlaceOf(c)
      BY <2>3
    <3>2. PICK e \in CellsIn(heads[d].chain) : a = PlaceOf(e)
      BY <2>3, <2>5
    <3> QED BY <2>2, <2>5, <3>1, <3>2 DEF Owned, Behind
  <2>6. args_ht[t] = ht /\ ht \in live
    BY DEF TableLive
  <2> QED BY <2>1, <2>4, <2>5, <2>6, LinkedPlaces
<1> QED BY <1>1, AlwaysBuffersInv, AlwaysTableLive, PTL

-----------------------------------------------------------------------------
(* The tuples the vectors of a thread carry and have not written, and those *)
(* they have not loaded.                                                    *)
Written(m, p) == m.op = "scatter" /\ p[1] = m.k /\ p[2] \in m.chosen \ m.left
Waits(t, m, x) ==
  \/ x > First(t) + m.cur
  \/ \E p \in Held(m) : LaneOf(m, p).tuple = x /\ ~Written(m, p)

\* No two lanes carry the same tuple, and none one that is still to be loaded.
\* A gather or a scatter is for lanes that carry a tuple.
Carries(t, m) ==
  /\ \A p \in Held(m) : LaneOf(m, p).tuple <= First(t) + m.cur
  /\ \A p, q \in Held(m) : LaneOf(m, p).tuple = LaneOf(m, q).tuple => p = q
Selects(m) ==
  /\ m.op # "turn" => m.left \subseteq m.st[m.k].have /\ m.chosen \subseteq m.st[m.k].have
  /\ m.op = "scatter" => m.left \subseteq m.chosen

\* What waits is the same after a step from m to r.
Follows(t, r, m) ==
  /\ Carries(t, r)
  /\ \A x \in Slice(t) : Waits(t, r, x) <=> Waits(t, m, x)

LEMMA SameFollows ==
  ASSUME NEW t, NEW m, Carries(t, m), m.op # "scatter", NEW r, SameLanes(r, m),
         r.op # "scatter" \/ r.left = r.chosen
  PROVE  Follows(t, r, m)
<1>1. Held(r) = Held(m) /\ r.cur = m.cur
  BY DEF SameLanes, Held
<1>2. \A p \in Held(m) : LaneOf(r, p).tuple = LaneOf(m, p).tuple
  BY DEF SameLanes, Held, LaneOf
<1>3. \A p : ~Written(r, p) /\ ~Written(m, p)
  BY DEF Written
<1>4. Carries(t, r)
  BY <1>1, <1>2 DEF Carries
<1>5. \A x : Waits(t, r, x) <=> Waits(t, m, x)
  BY <1>1, <1>2, <1>3 DEF Waits
<1> QED BY <1>4, <1>5 DEF Follows

\* What follows what, follows.
LEMMA FollowsOn ==
  ASSUME NEW t, NEW m, NEW w, NEW r, Follows(t, w, m), Follows(t, r, w)
  PROVE  Follows(t, r, m)
BY DEF Follows

LEMMA RegistersFollow ==
  ASSUME NEW t, NEW m, Carries(t, m), m.op # "scatter", NEW op, NEW left, NEW chosen, NEW next,
         NEW r, RegistersIs(r, m, op, left, chosen, next), op # "scatter" \/ left = chosen
  PROVE  Follows(t, r, m)
<1>1. SameLanes(r, m)
  BY DEF RegistersIs, SameLanes
<1> QED BY <1>1, SameFollows DEF RegistersIs

LEMMA LoadsFollow ==
  ASSUME setup \in Setups, NEW t \in Threads, MachineOK(t, imv[t]), Carries(t, imv[t]),
         imv[t].op = "turn",
         NEW w, NEW r, LoadsNext(t, r, w), r.op = "turn", MachineOK(t, r)
  PROVE  Follows(t, r, imv[t])
<1>1. PICK m : m = imv[t]
  OBVIOUS
<1>2. Follows(t, w, m)
  BY <1>1, SameFollows DEF LoadsNext
<1>3. PICK f, n, c : f = First(t) /\ n = NumTuples(t) /\ c = w.cur
  OBVIOUS
<1>4. f \in Nat /\ n \in Nat /\ c \in Nat /\ VectorScale \in Nat \ {0}
  <2>1. m.cur \in Nat
    BY <1>1, MachineFields DEF MachineOK, LoopInv, MachineInv
  <2> QED BY <1>1, <1>3, <2>1, PartFacts, LanesAssumption DEF LoadsNext, SameLanes
<1>5. /\ w.k \in States /\ w.st[w.k].have = {}
      /\ r.cur = c + VectorScale /\ SameOthers(r, w, {w.k})
      /\ r.st[w.k].have = {i \in Lanes : c + i <= n}
      /\ \A i \in r.st[w.k].have : r.st[w.k].lane[i].tuple = f + (c + i)
  BY <1>3 DEF LoadsNext, Loads
<1>6. PICK New : New = {p \in Held(r) : p[1] = w.k}
  OBVIOUS
<1>7. /\ New \subseteq Held(r) /\ Held(r) \ New = Held(w)
      /\ \A p \in Held(w) : LaneOf(r, p) = LaneOf(w, p)
  BY <1>5, <1>6 DEF Held, SameOthers, LaneOf
<1>8. \A p \in New : p[2] \in Lanes /\ c + p[2] <= n /\ LaneOf(r, p).tuple = f + (c + p[2])
                     /\ p = <<w.k, p[2]>>
  BY <1>5, <1>6 DEF Held, LaneOf
<1>9. \A i \in Lanes : c + i <= n => <<w.k, i>> \in New
  BY <1>5, <1>6 DEF Held
<1>10. Carries(t, w) /\ w.cur = c
  BY <1>2, <1>3 DEF Follows
<1>11. \A p \in Held(w) : LaneOf(w, p).tuple \in Nat /\ LaneOf(w, p).tuple <= f + c
  <2>1. \A p \in Held(w) : LaneOf(r, p) \in LanesOf(t)
    BY <1>7 DEF MachineOK, LoopInv
  <2> QED BY <1>3, <1>7, <1>10, <2>1 DEF Carries, LanesOf, LaneValues
<1>12. ASSUME NEW p \in New
       PROVE  /\ LaneOf(r, p).tuple <= f + (c + VectorScale) /\ LaneOf(r, p).tuple > f + c
              /\ LaneOf(r, p).tuple \in Nat
  BY <1>4, <1>8 DEF Lanes
<1>13. Carries(t, r)
  <2>1. ASSUME NEW p \in Held(r) PROVE LaneOf(r, p).tuple <= First(t) + r.cur
    <3>1. CASE p \in New
      BY <1>3, <1>5, <1>12, <3>1
    <3>2. CASE p \in Held(w)
      BY <1>3, <1>4, <1>5, <1>7, <1>11, <3>2
    <3> QED BY <1>7, <3>1, <3>2
  <2>2. ASSUME NEW p \in Held(r), NEW q \in Held(r), LaneOf(r, p).tuple = LaneOf(r, q).tuple
        PROVE  p = q
    <3>1. CASE p \in New /\ q \in New
      <4>1. p[2] = q[2]
        BY <1>4, <1>8, <2>2, <3>1 DEF Lanes
      <4> QED BY <1>8, <3>1, <4>1
    <3>2. CASE p \in Held(w) /\ q \in Held(w)
      BY <1>7, <1>10, <2>2, <3>2 DEF Carries
    <3>3. CASE p \in New /\ q \in Held(w)
      BY <1>4, <1>7, <1>11, <1>12, <2>2, <3>3
    <3>4. CASE p \in Held(w) /\ q \in New
      BY <1>4, <1>7, <1>11, <1>12, <2>2, <3>4
    <3> QED BY <1>7, <3>1, <3>2, <3>3, <3>4
  <2> QED BY <2>1, <2>2 DEF Carries
<1>14. \A p : ~Written(r, p) /\ ~Written(w, p)
  BY DEF Written, LoadsNext
<1>15. ASSUME NEW x \in Slice(t) PROVE Waits(t, r, x) <=> Waits(t, w, x)
  <2>1. x \in Nat /\ x <= f + n
    BY <1>3, <1>4 DEF Slice
  <2>2. CASE x > f + (c + VectorScale)
    BY <1>3, <1>4, <1>5, <1>10, <2>1, <2>2 DEF Waits
  <2>3. CASE x > f + c /\ ~(x > f + (c + VectorScale))
    <3>1. PICK i \in Lanes : x = f + (c + i)
      <4>1. x - (f + c) \in Lanes /\ x = f + (c + (x - (f + c)))
        BY <1>4, <2>1, <2>3 DEF Lanes
      <4> QED BY <4>1
    <3>2. c + i <= n
      BY <1>4, <2>1, <3>1 DEF Lanes
    <3>3. <<w.k, i>> \in New /\ LaneOf(r, <<w.k, i>>).tuple = x
      BY <1>8, <1>9, <3>1, <3>2
    <3>4. Waits(t, r, x)
      BY <1>7, <1>14, <3>3 DEF Waits
    <3> QED BY <1>3, <1>10, <2>3, <3>4 DEF Waits
  <2>4. CASE ~(x > f + c)
    <3>1. \A p \in New : LaneOf(r, p).tuple # x
      BY <1>4, <1>12, <2>1, <2>4
    <3>2. ~(x > First(t) + r.cur) /\ ~(x > First(t) + w.cur)
      BY <1>3, <1>4, <1>5, <1>10, <2>1, <2>4
    <3> QED BY <1>7, <1>14, <3>1, <3>2 DEF Waits
  <2> QED BY <2>2, <2>3, <2>4
<1>16. Follows(t, r, w)
  BY <1>13, <1>15 DEF Follows
<1> QED BY <1>1, <1>2, <1>16, FollowsOn

\* After a scatter the lanes not written are still to be worked on.
LEMMA ScatteredFollow ==
  ASSUME NEW t, imv[t].op = "scatter", imv[t].left = {}, Carries(t, imv[t]),
         NEW w, NEW r, ScatterEnded(t, r, w)
  PROVE  Follows(t, r, imv[t])
<1>1. PICK m : m = imv[t]
  OBVIOUS
<1>2. PICK have : have = m.st[m.k].have \ m.chosen
  OBVIOUS
<1>3. PICK f : Moved(r, w, have, f)
  BY <1>1, <1>2 DEF ScatterEnded, Continued, Current
<1>4. r.op = "turn" /\ r.cur = m.cur /\ w.st = m.st /\ w.k = m.k
  BY <1>1 DEF ScatterEnded, DroppedIs
<1>5. Held(w) = Held(m) /\ \A p : LaneOf(w, p) = LaneOf(m, p)
  BY <1>4 DEF Held, LaneOf
<1>6. \A p \in Held(m) : p \in Kept(w, have) <=> ~Written(m, p)
  BY <1>1, <1>2, <1>4, <1>5 DEF Kept, Written, Held
<1>7. Kept(w, have) \subseteq Held(m)
  BY <1>5 DEF Kept
<1>8. /\ \A p \in Held(r) : f[p] \in Kept(w, have) /\ LaneOf(r, p) = LaneOf(m, f[p])
      /\ \A p, q \in Held(r) : f[p] = f[q] => p = q
      /\ \A q \in Kept(w, have) : \E p \in Held(r) : f[p] = q
  BY <1>3, <1>5 DEF Moved
<1>9. Carries(t, r)
  BY <1>1, <1>4, <1>7, <1>8 DEF Carries
<1>10. \A p : ~Written(r, p)
  BY <1>4 DEF Written
<1>11. ASSUME NEW x PROVE Waits(t, r, x) <=> Waits(t, m, x)
  <2>1. ASSUME NEW p \in Held(r), LaneOf(r, p).tuple = x
        PROVE  \E q \in Held(m) : LaneOf(m, q).tuple = x /\ ~Written(m, q)
    BY <1>6, <1>7, <1>8, <2>1
  <2>2. ASSUME NEW q \in Held(m), LaneOf(m, q).tuple = x, ~Written(m, q)
        PROVE  \E p \in Held(r) : LaneOf(r, p).tuple = x
    <3>1. PICK p \in Held(r) : f[p] = q
      BY <1>6, <1>8, <2>2
    <3> QED BY <1>8, <2>2, <3>1
  <2> QED BY <1>4, <1>10, <2>1, <2>2 DEF Waits
<1> QED BY <1>1, <1>9, <1>11 DEF Follows

\* A lane that is written no longer waits.
LEMMA LaneFollows ==
  ASSUME NEW t \in Threads, setup \in Setups, MachineOK(t, imv[t]), Carries(t, imv[t]),
         Selects(imv[t]), imv[t].op = "scatter",
         NEW i \in imv[t].left, NEW r, LaneScattered(t, i, r), LaneTuple(t, i) \in Nat
  PROVE  /\ Carries(t, r) /\ Selects(r) /\ LaneTuple(t, i) \in Slice(t)
         /\ Waits(t, imv[t], LaneTuple(t, i)) /\ ~Waits(t, r, LaneTuple(t, i))
         /\ \A x \in Slice(t) : Waits(t, r, x) <=> Waits(t, imv[t], x) /\ x # LaneTuple(t, i)
<1>1. PICK m, x : m = imv[t] /\ x = LaneTuple(t, i)
  OBVIOUS
<1>2. PICK p : p = <<m.k, i>>
  OBVIOUS
<1>3. /\ r.st = m.st /\ r.k = m.k /\ r.cur = m.cur /\ r.op = "scatter"
      /\ r.left = m.left \ {i} /\ r.chosen = m.chosen
  BY <1>1 DEF LaneScattered, RegistersIs
<1>4. Held(r) = Held(m) /\ \A q : LaneOf(r, q) = LaneOf(m, q)
  BY <1>3 DEF Held, LaneOf
<1>5. Carries(t, r) /\ Selects(r)
  BY <1>1, <1>3, <1>4 DEF Carries, Selects
<1>6. p \in Held(m) /\ LaneOf(m, p).tuple = x
  <2>1. i \in m.st[m.k].have
    BY <1>1 DEF Selects
  <2>2. AtWork(m) /\ m.st[m.k].have \in SUBSET Lanes
    <3>1. PICK V, C : V = LaneValues /\ C = Chains
      OBVIOUS
    <3>2. MachineInv(V, C, m)
      BY <1>1, <3>1 DEF MachineOK, LoopInv
    <3>3. AtWork(m) /\ m \in Machines(V, C)
      BY <1>1, <3>2 DEF MachineInv
    <3>4. m.k \in States
      BY <3>3 DEF AtWork
    <3> QED BY <3>3, <3>4, StateTyped
  <2> QED BY <1>1, <1>2, <2>1, <2>2 DEF Held, LaneOf, AtWork, LaneTuple, Current
<1>7. x \in Slice(t)
  BY <1>1, <1>6 DEF MachineOK, LoopInv, LanesOf
<1>8. \A q \in Held(m) : Written(r, q) <=> Written(m, q) \/ q = p
  <2>1. i \in m.chosen
    BY <1>1 DEF Selects
  <2>2. \A q \in Held(m) : q = p <=> q[1] = m.k /\ q[2] = i
    BY <1>2 DEF Held
  <2> QED BY <1>1, <1>3, <2>1, <2>2 DEF Written
<1>9. ~Written(m, p)
  BY <1>1, <1>2 DEF Written
<1>10. \A q \in Held(m) : LaneOf(m, q).tuple = x => q = p
  BY <1>1, <1>6 DEF Carries
<1>11. ~(x > First(t) + m.cur)
  <2>1. First(t) \in Nat /\ m.cur \in Nat /\ x <= First(t) + m.cur
    BY <1>1, <1>6, PartFacts, MachineFields DEF Carries, MachineOK, LoopInv, MachineInv
  <2> QED BY <1>1, <2>1
<1>12. Waits(t, m, x) /\ ~Waits(t, r, x)
  BY <1>3, <1>4, <1>6, <1>8, <1>9, <1>10, <1>11 DEF Waits
<1>13. ASSUME NEW y, y # x PROVE Waits(t, r, y) <=> Waits(t, m, y)
  <2>1. \A q \in Held(m) : LaneOf(m, q).tuple = y => (Written(r, q) <=> Written(m, q))
    BY <1>6, <1>8, <1>13
  <2> QED BY <1>3, <1>4, <2>1 DEF Waits
<1> QED BY <1>1, <1>5, <1>7, <1>12, <1>13

\* A step of a vectorised build that writes nothing.
LEMMA WorkFollows ==
  ASSUME LinkInv, NEW t \in Threads, VectorWork(t), ~Scattering(t), phase[t].pc = "build",
         Carries(t, imv[t]), Selects(imv[t])
  PROVE  \E r : Goes(t, r) /\ Follows(t, r, imv[t]) /\ Selects(r)
<1>0. VectorOK /\ setup \in Setups /\ heads \in [Heads -> Buckets] /\ MachineOK(t, imv[t])
  BY DEF LinkInv, ControlOK, TableTyped, VectorOK
<1>1. \A r : r.op = "turn" => Selects(r)
  BY DEF Selects
<1>2. CASE ImvRetire(t) \/ ImvSkip(t) \/ ImvModel(t)
  <2>1. imv[t].op = "turn"
    BY <1>2 DEF ImvRetire, ImvSkip, ImvModel, InStage, InLoop
  <2>2. PICK r : Goes(t, r) /\ r.op = "turn" /\ SameLanes(r, imv[t])
    BY <1>0, <1>2, RetireGoes, SkipGoes, ModelGoes
  <2> QED BY <1>1, <2>1, <2>2, SameFollows
<1>3. CASE ImvLoad(t) \/ LearnedLoad(t)
  <2>1. imv[t].op = "turn"
    BY <1>3 DEF ImvLoad, LearnedLoad, InStage, InLoop
  <2>2. PICK r, w : Goes(t, r) /\ r.op = "turn" /\ LoadsNext(t, r, w)
    BY <1>0, <1>3, LoadGoes
  <2>3. MachineOK(t, r)
    BY <2>2 DEF Goes
  <2>4. Follows(t, r, imv[t])
    BY <1>0, <2>1, <2>2, <2>3, LoadsFollow
  <2> QED BY <1>1, <2>2, <2>4
<1>4. CASE GatherStart(t)
  <2>1. imv[t].op = "turn"
    BY <1>4 DEF GatherStart, InBuildStage, InStage, InLoop
  <2>2. PICK r : Goes(t, r) /\ GatherStarted(t, r)
    BY <1>0, <1>4, GatherStartGoes
  <2>3. Selects(r)
    BY <2>2 DEF GatherStarted, Selects
  <2> QED BY <2>1, <2>2, <2>3, SameFollows DEF GatherStarted
<1>5. CASE \E i \in Lanes : GatherHead(t, i)
  <2>1. PICK i \in Lanes : GatherHead(t, i)
    BY <1>5
  <2>2. imv[t].op = "gather" /\ i \in imv[t].left
    BY <2>1 DEF GatherHead, Running
  <2>3. PICK r : Goes(t, r) /\ HeadGathered(t, i, r)
    BY <1>0, <2>1, GatherHeadGoes
  <2>4. Follows(t, r, imv[t])
    BY <2>2, <2>3, RegistersFollow DEF HeadGathered
  <2>5. Selects(r)
    BY <2>2, <2>3 DEF HeadGathered, RegistersIs, Selects
  <2> QED BY <2>3, <2>4, <2>5
<1>6. CASE \E i \in Lanes : GatherNext(t, i)
  <2>1. PICK i \in Lanes : GatherNext(t, i)
    BY <1>6
  <2>2. imv[t].op = "gather" /\ i \in imv[t].left
    BY <2>1 DEF GatherNext, Running
  <2>3. PICK r : Goes(t, r) /\ NextGathered(t, i, r)
    BY <1>0, <2>1, GatherNextGoes
  <2>4. Follows(t, r, imv[t])
    BY <2>2, <2>3, RegistersFollow DEF NextGathered
  <2>5. Selects(r)
    BY <2>2, <2>3 DEF NextGathered, RegistersIs, Selects
  <2> QED BY <2>3, <2>4, <2>5
<1>7. CASE Gathered(t)
  <2>1. imv[t].op = "gather" /\ NoConflict(t) \subseteq imv[t].chosen
    BY <1>7 DEF Gathered, Running, NoConflict, FirstOfEach
  <2>2. PICK r : Goes(t, r) /\ GatherEnded(t, r)
    BY <1>0, <1>7, GatheredGoes
  <2>3. CASE r.op = "turn" /\ SameLanes(r, imv[t])
    BY <1>1, <2>1, <2>2, <2>3, SameFollows
  <2>4. CASE RegistersIs(r, imv[t], "scatter", NoConflict(t), NoConflict(t), imv[t].next)
    <3>1. Follows(t, r, imv[t])
      BY <2>1, <2>4, RegistersFollow
    <3>2. Selects(r)
      BY <2>1, <2>4 DEF RegistersIs, Selects
    <3> QED BY <2>2, <3>1, <3>2
  <2> QED BY <2>2, <2>3, <2>4 DEF GatherEnded
<1>8. CASE Scattered(t)
  <2>1. imv[t].op = "scatter" /\ imv[t].left = {}
    BY <1>8 DEF Scattered, Running
  <2>2. PICK r, w : Goes(t, r) /\ ScatterEnded(t, r, w)
    BY <1>0, <1>8, ScatteredGoes
  <2>3. Follows(t, r, imv[t])
    BY <2>1, <2>2, ScatteredFollow
  <2> QED BY <1>1, <2>2, <2>3 DEF ScatterEnded
<1>9. ~ProbeHead(t) /\ ~ProbeChain(t)
  BY DEF ProbeHead, ProbeChain
<1> QED BY <1>2, <1>3, <1>4, <1>5, <1>6, <1>7, <1>8, <1>9 DEF VectorWork, Turning, Counting

-----------------------------------------------------------------------------
(* The spots that hold a tuple, in the table or in what was gathered.       *)
AtHead(x, s) == \E e \in Heads, j \in SlotNums : s = HeadSpot(e, j) /\ heads[e].tuples[j] = x
AtCell(x, s) ==
  \E e \in Heads, j \in SlotNums : \E c :
    Behind(e, c) /\ s = CellSpot(PlaceOf(c), j) /\ c.tuples[j] = x
Has(x, s) == AtHead(x, s) \/ AtCell(x, s)
Nowhere(x) == \A s : ~Has(x, s)

LEMMA StepHas ==
  ASSUME setup' = setup, NEW x, NEW s, NEW b, NEW a, TableStep(x, s, b, a),
         NEW y, y # NoTuple, NEW u, Has(y, u)'
  PROVE  Has(y, u) \/ (y = x /\ u = s)
<1>1. SlotNums' = SlotNums
  BY DEF SlotNums
<1>2. CASE AtHead(y, u)'
  <2>1. PICK e \in Heads, j \in SlotNums : u = HeadSpot(e, j) /\ heads'[e].tuples[j] = y
    BY <1>1, <1>2 DEF AtHead, HeadSpot
  <2>2. CASE heads'[e].tuples[j] = heads[e].tuples[j]
    BY <2>1, <2>2 DEF Has, AtHead
  <2>3. CASE heads'[e].tuples[j] = x /\ s = HeadSpot(e, j)
    BY <2>1, <2>3
  <2> QED BY <2>2, <2>3 DEF TableStep, HeadsStep
<1>3. CASE AtCell(y, u)'
  <2>0. \E e \in Heads, j \in SlotNums : \E c :
          Behind(e, c)' /\ u = CellSpot(PlaceOf(c), j) /\ c.tuples[j] = y
    BY <1>1, <1>3 DEF AtCell, CellSpot, PlaceOf
  <2>a. PICK e \in Heads, j \in SlotNums :
          \E c : Behind(e, c)' /\ u = CellSpot(PlaceOf(c), j) /\ c.tuples[j] = y
    BY <2>0
  <2>1. PICK c : Behind(e, c)' /\ u = CellSpot(PlaceOf(c), j) /\ c.tuples[j] = y
    BY <2>a
  <2>2. CASE Descends(e, c, x, s)
    <3>1. PICK d : Behind(e, d) /\ SameCell(c, d, x, s)
      BY <2>2 DEF Descends
    <3>2. CASE c.tuples[j] = d.tuples[j]
      BY <2>1, <3>1, <3>2 DEF Has, AtCell, SameCell
    <3>3. CASE c.tuples[j] = x /\ s = CellSpot(PlaceOf(c), j)
      BY <2>1, <3>3
    <3> QED BY <3>1, <3>2, <3>3 DEF SameCell
  <2>3. CASE FreshCell(c, a, x, s)
    BY <2>1, <2>3 DEF FreshCell
  <2> QED BY <2>1, <2>2, <2>3 DEF TableStep, CellsStep
<1> QED BY <1>2, <1>3 DEF Has

\* No tuple is at two spots, and one that waits is at none.
WaitsIn(t, x) ==
  /\ phase[t].pc = "build" /\ x \in Slice(t)
  /\ IF Fid(phase[t]) = 0 THEN x >= Tuple(t) /\ ~(x = Tuple(t) /\ scalar[t].step = "unlock")
                          ELSE Waits(t, imv[t], x)
Single == \A x \in Tuples : \A s, u : Has(x, s) /\ Has(x, u) => s = u
Fresh == \A t \in Threads : \A x \in Tuples : WaitsIn(t, x) => Nowhere(x)
VectorsCarry == \A t \in Threads : phase[t].pc = "build" => Carries(t, imv[t]) /\ Selects(imv[t])
OnceInv == Single /\ Fresh /\ VectorsCarry

LEMMA StepSingle ==
  ASSUME setup' = setup, Single, NEW x, NEW s, NEW b, NEW a, TableStep(x, s, b, a),
         x \in Tuples => Nowhere(x)
  PROVE  Single' /\ \A y \in Tuples : y # x /\ Nowhere(y) => Nowhere(y)'
<1>1. Tuples' = Tuples /\ \A y \in Tuples : y # NoTuple
  BY BoundsAssumption DEF Tuples
<1>2. ASSUME NEW y \in Tuples, NEW u, Has(y, u)' PROVE Has(y, u) \/ (y = x /\ u = s)
  BY <1>1, <1>2, StepHas
<1>3. Single'
  <2>1. ASSUME NEW y \in Tuples, NEW u, NEW v, Has(y, u)', Has(y, v)' PROVE u = v
    BY <1>2, <2>1 DEF Single, Nowhere
  <2> QED BY <1>1, <2>1 DEF Single
<1>4. \A y \in Tuples : y # x /\ Nowhere(y) => Nowhere(y)'
  BY <1>2 DEF Nowhere
<1> QED BY <1>3, <1>4

\* The parts of the threads have no tuple in common.
LEMMA PartsApart ==
  ASSUME setup \in Setups, NEW t \in Threads, NEW u \in Threads, NEW x,
         x \in Slice(t), x \in Slice(u)
  PROVE  t = u
<1>0. setup.n \in Nat /\ setup.threads \in Nat \ {0}
  BY SetupsAssumption
<1>1. PICK q, n \in Nat, k \in Nat : /\ q = setup.n \div setup.threads /\ n = setup.n
                                     /\ k = setup.threads /\ k # 0
  BY <1>0
<1>2. q \in Nat /\ t \in 0 .. (k - 1) /\ u \in 0 .. (k - 1)
  BY <1>1 DEF Threads
<1>3. ASSUME NEW v \in 0 .. (k - 1), NEW w \in 0 .. (k - 1), v < w
      PROVE  q * v + q <= q * w
  <2>1. PICK d \in Nat : w = v + 1 + d
    <3>1. w - v - 1 \in Nat /\ w = v + 1 + (w - v - 1)
      BY <1>1, <1>3
    <3> QED BY <3>1
  <2>2. q * w = q * v + q + q * d /\ q * d \in Nat /\ q * v \in Nat
    BY <1>2, <2>1
  <2> QED BY <1>2, <2>2
<1>4. ASSUME NEW v \in 0 .. (k - 1), NEW w \in 0 .. (k - 1), v < w, x \in Slice(v), x \in Slice(w)
      PROVE  FALSE
  <2>1. First(v) = q * v /\ First(w) = q * w /\ NumTuples(v) = q
    BY <1>1, <1>4 DEF First, NumTuples, numRthr
  <2>2. q * v \in Nat /\ q * w \in Nat /\ q * v + q <= q * w
    BY <1>2, <1>3, <1>4
  <2>3. x \in (q * v + 1) .. (q * v + q) /\ x \in Int /\ x >= q * w + 1
    BY <1>4, <2>1 DEF Slice
  <2> QED BY <1>2, <2>2, <2>3
<1> QED BY <1>2, <1>4

LEMMA WorkPhase ==
  ASSUME NEW t, VectorWork(t)
  PROVE  phase[t].pc \in {"build", "probe"} /\ at[t] = "work" /\ Fid(phase[t]) = 1
BY DEF VectorWork, Turning, Scattering, Counting, ImvRetire, ImvSkip, ImvLoad, LearnedLoad,
       ImvModel, GatherStart, InBuildStage, Gathered, Scattered, ProbeHead, ProbeChain,
       GatherHead, GatherNext, ScatterHead, ScatterNext, Running, InStage, InLoop

\* A step of the table writes at most a tuple that was nowhere, and waits no more.
LEMMA TableOnce ==
  ASSUME OnceInv, setup' = setup, NEW x, NEW s, NEW b, NEW a, TableStep(x, s, b, a),
         x \in Tuples => Nowhere(x), VectorsCarry',
         \A u \in Threads : \A y \in Tuples : WaitsIn(u, y)' => WaitsIn(u, y) /\ y # x
  PROVE  OnceInv'
<1>1. Threads' = Threads /\ Tuples' = Tuples
  BY SameSetup DEF Tuples
<1>2. Single' /\ \A y \in Tuples : y # x /\ Nowhere(y) => Nowhere(y)'
  BY StepSingle DEF OnceInv
<1>3. Fresh'
  BY <1>1, <1>2 DEF OnceInv, Fresh
<1> QED BY <1>2, <1>3 DEF OnceInv

\* When the table is left alone.
LEMMA KeptOnce ==
  ASSUME OnceInv, setup' = setup, TableKept, VectorsCarry',
         \A u \in Threads : \A y \in Tuples : WaitsIn(u, y)' => WaitsIn(u, y)
  PROVE  OnceInv'
<1>1. \A y \in Tuples : y # NoTuple
  BY BoundsAssumption DEF Tuples
<1> QED BY <1>1, TableOnce DEF TableKept

LEMMA SameWaits ==
  ASSUME setup' = setup, NEW u, phase'[u] = phase[u], scalar'[u] = scalar[u],
         imv'[u] = imv[u]
  PROVE  \A y : WaitsIn(u, y)' <=> WaitsIn(u, y)
<1>1. First(u)' = First(u) /\ NumTuples(u)' = NumTuples(u) /\ Slice(u)' = Slice(u)
  BY DEF First, NumTuples, numRthr, Slice
<1>2. Tuple(u)' = Tuple(u)
  BY <1>1 DEF Tuple
<1> QED BY <1>1, <1>2 DEF WaitsIn, Waits, Written, Held, LaneOf, Fid

LEMMA SameCarries ==
  ASSUME setup' = setup, NEW u, NEW m
  PROVE  /\ Carries(u, m)' <=> Carries(u, m)
         /\ \A x : Waits(u, m, x)' <=> Waits(u, m, x)
         /\ Slice(u)' = Slice(u)
BY DEF Carries, Waits, Written, First, NumTuples, numRthr, Held, LaneOf, Slice

\* A thread's vector step, when what waits only shrinks.
LEMMA GoesCarry ==
  ASSUME LinkInv, UNCHANGED <<setup, phase>>, VectorsCarry, NEW t \in Threads, NEW r, Goes(t, r),
         phase[t].pc = "build" => Carries(t, r) /\ Selects(r)
  PROVE  /\ VectorsCarry' /\ imv'[t] = r
         /\ \A u \in Threads \ {t} : imv'[u] = imv[u]
<1>1. Threads' = Threads
  BY SameSetup
<1>2. imv'[t] = r /\ \A u \in Threads \ {t} : imv'[u] = imv[u]
  BY DEF LinkInv, VectorOK, Goes
<1>3. \A u, m : Carries(u, m)' <=> Carries(u, m)
  BY SameCarries
<1>4. VectorsCarry'
  <2>1. ASSUME NEW u \in Threads, phase'[u].pc = "build"
        PROVE  (Carries(u, imv[u]) /\ Selects(imv[u]))'
    <3>1. PICK m : m = imv'[u]
      OBVIOUS
    <3>2. Carries(u, m) /\ Selects(m)
      BY <1>2, <2>1, <3>1 DEF VectorsCarry
    <3>3. Carries(u, m)'
      BY <1>3, <3>2
    <3>4. Carries(u, imv[u])'
      BY <3>1, <3>3 DEF Carries
    <3>5. Selects(imv[u])'
      BY <3>1, <3>2 DEF Selects
    <3> QED BY <3>4, <3>5
  <2> QED BY <1>1, <2>1 DEF VectorsCarry
<1> QED BY <1>2, <1>4

\* The locals of the vector functions stay as they are.
LEMMA StayCarry ==
  ASSUME UNCHANGED <<setup, phase, imv>>, VectorsCarry
  PROVE  VectorsCarry'
<1>1. Threads' = Threads
  BY SameSetup
<1>2. \A u, m : Carries(u, m)' <=> Carries(u, m)
  BY SameCarries
<1>3. ASSUME NEW u \in Threads, phase'[u].pc = "build"
      PROVE  (Carries(u, imv[u]) /\ Selects(imv[u]))'
  <2>1. PICK m : m = imv[u]
    OBVIOUS
  <2>2. Carries(u, m) /\ Selects(m)
    BY <1>3, <2>1 DEF VectorsCarry
  <2>3. Carries(u, m)' /\ imv'[u] = m
    BY <1>2, <2>1, <2>2
  <2>4. Carries(u, imv[u])'
    BY <2>3 DEF Carries
  <2>5. Selects(imv[u])'
    BY <2>2, <2>3 DEF Selects
  <2> QED BY <2>4, <2>5
<1> QED BY <1>1, <1>3 DEF VectorsCarry

LEMMA WorkOnce ==
  ASSUME TypesInv, BuffersInv, OnceInv, NEW t \in Threads, VectorWork(t), ~Scattering(t)
  PROVE  OnceInv'
<1>0. LinkInv /\ VectorOK /\ setup \in Setups /\ heads \in [Heads -> Buckets] /\ VectorsCarry
  BY LinkOK DEF BuffersInv, LinkInv, ControlOK, TableTyped, OnceInv
<1>1. UNCHANGED <<setup, phase, scalar>>
  BY WorkFrame DEF WorkLeaves
<1>2. TableKept
  BY <1>0, WorkStep
<1>3. Fid(phase[t]) = 1
  BY WorkPhase
<1>4. CASE phase[t].pc = "build"
  <2>1. PICK r : Goes(t, r) /\ Follows(t, r, imv[t]) /\ Selects(r)
    BY <1>0, <1>4, WorkFollows DEF VectorsCarry
  <2>2. /\ VectorsCarry' /\ imv'[t] = r
        /\ \A u \in Threads \ {t} : imv'[u] = imv[u]
    BY <1>0, <1>1, <2>1, GoesCarry DEF Follows
  <2>3. ASSUME NEW u \in Threads, NEW y \in Tuples, WaitsIn(u, y)' PROVE WaitsIn(u, y)
    <3>1. CASE u # t
      BY <1>1, <2>2, <2>3, <3>1, SameWaits
    <3>2. CASE u = t
      <4>1. y \in Slice(t)' /\ Waits(t, imv[t], y)'
        BY <1>1, <1>3, <2>3, <3>2 DEF WaitsIn
      <4>2. Waits(t, r, y)'
        BY <2>2, <4>1 DEF Waits, Written, Held, LaneOf
      <4>3. y \in Slice(t) /\ Waits(t, r, y)
        BY <1>1, <4>1, <4>2, SameCarries
      <4> QED BY <1>3, <1>4, <2>1, <3>2, <4>3 DEF WaitsIn, Follows
    <3> QED BY <3>1, <3>2
  <2> QED BY <1>1, <1>2, <2>2, <2>3, KeptOnce
<1>5. CASE phase[t].pc # "build"
  <2>1. PICK r : Goes(t, r)
    BY <1>0, WorkGoes
  <2>2. VectorsCarry'
    BY <1>0, <1>1, <1>5, <2>1, GoesCarry
  <2>3. \A u \in Threads : phase'[u] = phase[t]
    BY <1>1 DEF TypesInv, TableInv, LatchInv, Together
  <2> QED BY <1>1, <1>2, <1>5, <2>2, <2>3, KeptOnce DEF WaitsIn
<1> QED BY <1>4, <1>5

\* A scatter to one lane.
LEMMA ScatterOnce ==
  ASSUME TypesInv, BuffersInv, OnceInv, NEW t \in Threads, NEW i \in Lanes,
         ScatterHead(t, i) \/ ScatterNext(t, i)
  PROVE  OnceInv'
<1>0. /\ LinkInv /\ VectorOK /\ setup \in Setups /\ VectorsCarry /\ MachineOK(t, imv[t])
      /\ phase[t] = phase[0]
  BY LinkOK DEF BuffersInv, LinkInv, ControlOK, TableTyped, OnceInv, VectorOK
<1>1. UNCHANGED <<setup, phase, scalar>>
  BY DEF ScatterHead, ScatterNext, Inside, ImvOnly
<1>2. /\ phase[t].pc = "build" /\ Fid(phase[t]) = 1 /\ imv[t].op = "scatter" /\ i \in imv[t].left
      /\ Running(t, "scatter") /\ imv' = [imv EXCEPT ![t].left = @ \ {i}]
  BY DEF ScatterHead, ScatterNext, Running
<1>3. AllGot
  BY <1>0, <1>2 DEF BuffersInv, KeptTable
<1>4. PICK x, s, b, a : x = LaneTuple(t, i) /\ TableStep(x, s, b, a)
  BY <1>0, <1>3, ScatterStep
<1>5. PICK r : Goes(t, r) /\ LaneScattered(t, i, r)
  BY <1>0, <1>2, ScatterGoes
<1>6. x \in Nat
  <2>1. PICK m : m = imv[t]
    OBVIOUS
  <2>2. m.op # "turn"
    BY <1>2, <2>1
  <2>3. m.st[m.k].lane \in [Lanes -> LaneValues]
    BY <1>0, <2>1, <2>2, AtGather
  <2> QED BY <1>4, <2>1, <2>3 DEF LaneTuple, Current, LaneValues
<1>7. /\ Carries(t, r) /\ Selects(r) /\ x \in Slice(t)
      /\ Waits(t, imv[t], x) /\ ~Waits(t, r, x)
      /\ \A y \in Slice(t) : Waits(t, r, y) <=> Waits(t, imv[t], y) /\ y # x
  BY <1>0, <1>2, <1>4, <1>5, <1>6, LaneFollows DEF VectorsCarry
<1>8. /\ VectorsCarry' /\ imv'[t] = r
      /\ \A u \in Threads \ {t} : imv'[u] = imv[u]
  BY <1>0, <1>1, <1>5, <1>7, GoesCarry
<1>9. x \in Tuples => Nowhere(x)
  BY <1>2, <1>7 DEF WaitsIn, OnceInv, Fresh
<1>10. ASSUME NEW u \in Threads, NEW y \in Tuples, WaitsIn(u, y)' PROVE WaitsIn(u, y) /\ y # x
  <2>1. CASE u # t
    <3>1. WaitsIn(u, y) /\ y \in Slice(u)
      BY <1>1, <1>8, <1>10, <2>1, SameWaits DEF WaitsIn
    <3> QED BY <1>0, <1>7, <2>1, <3>1, PartsApart
  <2>2. CASE u = t
    <3>1. y \in Slice(t)' /\ Waits(t, imv[t], y)'
      BY <1>1, <1>2, <1>10, <2>2 DEF WaitsIn
    <3>2. Waits(t, r, y)'
      BY <1>8, <3>1 DEF Waits, Written, Held, LaneOf
    <3>3. y \in Slice(t) /\ Waits(t, r, y)
      BY <1>1, <3>1, <3>2, SameCarries
    <3> QED BY <1>2, <1>7, <2>2, <3>3 DEF WaitsIn
  <2> QED BY <2>1, <2>2
<1> QED BY <1>1, <1>4, <1>8, <1>9, <1>10, TableOnce

\* A tuple-at-a-time build comes to the next tuple after it stored this one.
LEMMA LockingWaits ==
  ASSUME LatchInv, NEW t \in Threads, Locking(t), NEW y \in Tuples, WaitsIn(t, y)'
  PROVE  WaitsIn(t, y) /\ (Store(t) => y # Tuple(t))
<1>0. /\ ControlOK /\ scalar = [u \in Threads |-> scalar[u]] /\ setup \in Setups
      /\ UNCHANGED <<setup, phase>> /\ scalar[t].i \in Nat /\ y \in Nat
      /\ scalar[t] = [i |-> scalar[t].i, step |-> scalar[t].step,
                      over |-> scalar[t].over, slot |-> scalar[t].slot]
  <2>1. UNCHANGED <<setup, phase>>
    BY DEF Locking, Lock, Claim, Store, Unlock, ProbeTuple, Inside
  <2>2. ControlOK /\ setup \in Setups
    BY DEF LatchInv, ControlOK
  <2>3. /\ scalar = [u \in Threads |-> scalar[u]] /\ scalar[t].i \in Nat
        /\ scalar[t] = [i |-> scalar[t].i, step |-> scalar[t].step,
                        over |-> scalar[t].over, slot |-> scalar[t].slot]
    BY DEF LatchInv, ScalarOK
  <2>4. y \in Nat
    BY DEF Tuples
  <2> QED BY <2>1, <2>2, <2>3, <2>4
<1>1. PICK f, i, j : /\ f = First(t) + i /\ f \in Nat /\ i \in Nat
                     /\ i = scalar[t].i /\ j = scalar'[t].i
  BY <1>0, PartFacts
<1>2. Tuple(t) = f + 1 /\ Slice(t)' = Slice(t) /\ First(t)' = First(t)
  BY <1>0, <1>1, SameCarries DEF Tuple, First, numRthr
<1>3. j = i => Tuple(t)' = f + 1
  BY <1>1, <1>2 DEF Tuple
<1>4. j = i + 1 => Tuple(t)' = f + 1 + 1
  <2>1. First(t) \in Nat
    BY <1>0, PartFacts
  <2> QED BY <1>1, <1>2, <2>1 DEF Tuple
<1>5. phase[t].pc = "build" /\ y \in Slice(t) /\ Fid(phase'[t]) = Fid(phase[t])
  BY <1>0, <1>2 DEF WaitsIn
<1>6. Fid(phase[t]) = 0
  BY <1>5 DEF Locking, Lock, Claim, Store, Unlock, ProbeTuple, AtStep, BuildWith, Working
<1>7. y >= Tuple(t)' /\ ~(y = Tuple(t)' /\ scalar'[t].step = "unlock")
  BY <1>0, <1>6 DEF WaitsIn, Fid
<1>8. y >= Tuple(t) /\ ~(y = Tuple(t) /\ scalar[t].step = "unlock") /\ (Store(t) => y # Tuple(t))
  <2>1. CASE Lock(t)
    <3>1. j = i /\ scalar[t].step = "lock" /\ ~Store(t)
      <4>1. scalar[t].step = "lock" /\ scalar' = [scalar EXCEPT ![t].step = "claim"]
        BY <2>1 DEF Lock, AtStep
      <4>2. scalar'[t].i = scalar[t].i
        BY <1>0, <4>1
      <4> QED BY <1>1, <4>1, <4>2 DEF AtStep, Store
    <3> QED BY <1>2, <1>3, <1>7, <3>1
  <2>2. CASE Claim(t)
    <3>1. j = i /\ scalar[t].step = "claim" /\ ~Store(t)
      <4>1. scalar[t].step = "claim"
            /\ \E over, slot : scalar' = [scalar EXCEPT ![t].step = "store", ![t].over = over,
                                                       ![t].slot = slot]
        BY <2>2 DEF Claim, AtStep
      <4>2. scalar'[t].i = scalar[t].i
        BY <1>0, <4>1
      <4> QED BY <1>1, <4>1, <4>2 DEF AtStep, Store
    <3> QED BY <1>2, <1>3, <1>7, <3>1
  <2>3. CASE Store(t)
    <3>1. j = i /\ scalar[t].step = "store" /\ scalar'[t].step = "unlock"
      <4>1. scalar[t].step = "store" /\ scalar' = [scalar EXCEPT ![t].step = "unlock"]
        BY <2>3 DEF Store, AtStep
      <4>2. scalar'[t].i = scalar[t].i /\ scalar'[t].step = "unlock"
        BY <1>0, <4>1
      <4> QED BY <1>1, <4>1, <4>2
    <3> QED BY <1>2, <1>3, <1>7, <3>1
  <2>4. CASE Unlock(t)
    <3>1. j = i + 1 /\ scalar[t].step = "unlock" /\ ~Store(t)
      <4>1. /\ scalar[t].step = "unlock"
            /\ scalar' = [scalar EXCEPT ![t] = [ScalarStart EXCEPT !.i = scalar[t].i + 1]]
        BY <2>4 DEF Unlock, AtStep
      <4>2. scalar'[t].i = scalar[t].i + 1
        BY <1>0, <4>1 DEF ScalarStart
      <4> QED BY <1>1, <4>1, <4>2 DEF AtStep, Store
    <3> QED BY <1>0, <1>1, <1>2, <1>4, <1>7, <3>1
  <2>5. ~ProbeTuple(t)
    BY <1>5 DEF ProbeTuple, Working
  <2> QED BY <2>1, <2>2, <2>3, <2>4, <2>5 DEF Locking
<1> QED BY <1>5, <1>6, <1>8 DEF WaitsIn

LEMMA LockingOnce ==
  ASSUME TypesInv, BuffersInv, OnceInv, NEW t \in Threads, Locking(t)
  PROVE  OnceInv'
<1>0. LinkInv /\ LatchInv /\ setup \in Setups /\ phase[t] = phase[0]
      /\ VectorsCarry /\ DistinctChains
  BY LinkOK DEF BuffersInv, OnceInv, LinkInv, ControlOK
<1>1. UNCHANGED <<setup, phase, imv>> /\ \A u \in Threads \ {t} : scalar'[u] = scalar[u]
  BY <1>0 DEF Locking, Lock, Claim, Store, Unlock, ProbeTuple, Inside, LatchInv, ScalarOK
<1>2. VectorsCarry'
  BY <1>0, <1>1, StayCarry
<1>3. ASSUME NEW u \in Threads, NEW y \in Tuples, WaitsIn(u, y)'
      PROVE  WaitsIn(u, y) /\ (u = t /\ Store(t) => y # Tuple(t))
  <2>1. CASE u = t
    BY <1>0, <1>3, <2>1, LockingWaits
  <2>2. CASE u # t
    BY <1>1, <1>3, <2>2, SameWaits
  <2> QED BY <2>1, <2>2
<1>4. CASE Lock(t) \/ Unlock(t) \/ ProbeTuple(t)
  <2>1. UNCHANGED <<heads, bufs>>
    BY <1>4 DEF Lock, Unlock, ProbeTuple, ProbeOnly, table
  <2>2. TableKept
    BY <1>0, <1>1, <2>1, StayStep
  <2> QED BY <1>1, <1>2, <1>3, <2>2, KeptOnce
<1>5. CASE Claim(t)
  <2>1. phase[0].pc = "build"
    BY <1>0, <1>5 DEF Claim, AtStep, BuildWith, Working
  <2>2. AllGot
    BY <2>1 DEF BuffersInv, KeptTable
  <2>3. PICK s, b, a : TableStep(NoTuple, s, b, a)
    BY <1>0, <1>5, <2>2, ClaimStep
  <2>4. NoTuple \notin Tuples
    BY BoundsAssumption DEF Tuples
  <2> QED BY <1>1, <1>2, <1>3, <2>3, <2>4, TableOnce
<1>6. CASE Store(t)
  <2>1. PICK x, s : x = Tuple(t) /\ TableStep(x, s, NoBucket, NoSpot)
    BY <1>0, <1>6, StoreStep
  <2>2. WaitsIn(t, x)
    <3>1. phase[t].pc = "build" /\ Fid(phase[t]) = 0 /\ scalar[t].step = "store"
          /\ scalar[t].i \in Nat /\ scalar[t].i < NumTuples(t)
      BY <1>0, <1>6 DEF Store, AtStep, BuildWith, Working, LatchInv, ScalarOK
    <3>2. PICK f \in Nat, i \in Nat, n \in Nat :
            f = First(t) /\ i = scalar[t].i /\ n = NumTuples(t) /\ i < n
      BY <1>0, <3>1, PartFacts
    <3>3. x = f + i + 1 /\ x \in (f + 1) .. (f + n)
      BY <2>1, <3>2 DEF Tuple
    <3>4. x \in Slice(t)
      BY <3>2, <3>3 DEF Slice
    <3>5. x >= Tuple(t)
      BY <2>1, <3>3
    <3> QED BY <3>1, <3>4, <3>5 DEF WaitsIn
  <2>3. x \in Tuples => Nowhere(x)
    BY <2>2 DEF OnceInv, Fresh
  <2>4. ASSUME NEW u \in Threads, NEW y \in Tuples, WaitsIn(u, y)' PROVE WaitsIn(u, y) /\ y # x
    <3>1. WaitsIn(u, y) /\ (u = t => y # x)
      BY <1>3, <1>6, <2>1, <2>4
    <3>2. y \in Slice(u) /\ x \in Slice(t)
      BY <2>2, <3>1 DEF WaitsIn
    <3> QED BY <1>0, <3>1, <3>2, PartsApart
  <2> QED BY <1>1, <1>2, <2>1, <2>3, <2>4, TableOnce
<1> QED BY <1>4, <1>5, <1>6 DEF Locking

\* Steps that leave the buckets and what the threads work on alone.
LEMMA StillOnce ==
  ASSUME TypesInv, BuffersInv, OnceInv, UNCHANGED <<setup, phase, heads, scalar, imv>>
  PROVE  OnceInv'
<1>0. LinkInv /\ DistinctChains /\ VectorsCarry
  BY LinkOK DEF BuffersInv, OnceInv
<1>1. \A x, s : Has(x, s)' <=> Has(x, s)
  BY SameSetup DEF Has, AtHead, AtCell, Behind, Current, SlotNums, HeadSpot, CellSpot, PlaceOf
<1>2. VectorsCarry'
  BY <1>0, StayCarry
<1>3. \A u, y : WaitsIn(u, y)' <=> WaitsIn(u, y)
  BY SameWaits
<1>4. Threads' = Threads /\ Tuples' = Tuples
  BY SameSetup DEF Tuples
<1>5. Single' /\ Fresh'
  BY <1>1, <1>3, <1>4 DEF OnceInv, Single, Fresh, Nowhere
<1> QED BY <1>2, <1>5 DEF OnceInv

\* An emptied table holds no tuple.
EmptyTable == \A e \in Heads : heads[e] = EmptyHead /\ \A c : ~Behind(e, c)
NothingIn == \A x \in Tuples : Nowhere(x)
LEMMA EmptyNowhere == EmptyTable => NothingIn
<1> SUFFICES ASSUME EmptyTable PROVE \A x \in Tuples : Nowhere(x)
  BY DEF NothingIn
<1>1. \A x \in Tuples : x # NoTuple
  BY BoundsAssumption DEF Tuples
<1>2. ASSUME NEW e \in Heads, NEW j \in SlotNums PROVE heads[e].tuples[j] = NoTuple
  <2>1. heads[e].tuples = [k \in SlotNums |-> NoTuple]
    <3>1. heads[e] = EmptyHead
      BY DEF EmptyTable
    <3> QED BY <3>1 DEF EmptyHead, SlotNums
  <2> QED BY <2>1
<1>3. \A x \in Tuples : \A s : ~AtHead(x, s)
  BY <1>1, <1>2 DEF AtHead
<1>4. \A x, s : ~AtCell(x, s)
  BY DEF EmptyTable, AtCell
<1> QED BY <1>3, <1>4 DEF Nowhere, Has

LEMMA AllocateOnce ==
  ASSUME TypesInv, TypesInv', BuffersInv, OnceInv, NEW t \in Threads, Allocate(t)
  PROVE  OnceInv'
<1>0. LinkInv /\ VectorOK /\ phase[t] = phase[0] /\ \A u \in Threads : phase[u] = phase[0]
      /\ VectorsCarry
  BY LinkOK DEF BuffersInv, OnceInv, LinkInv
<1>1. UNCHANGED <<setup, phase, scalar, imv>> /\ phase[0].pc = "allocate" /\ Threads' = Threads
  BY <1>0, SameSetup DEF Allocate, Working, Done, locals
<1>2. CASE t # 0
  BY <1>1, <1>2, StillOnce DEF Allocate
<1>3. CASE t = 0
  <2>1. heads' = [b \in Heads |-> EmptyHead] /\ EmptyHead' = EmptyHead
    BY <1>1, <1>3 DEF Allocate, EmptyHead
  <2>2. \A b \in Heads : CellsIn(heads'[b].chain) = {}
    BY <2>1 DEF EmptyHead, CellsIn
  <2>3. \A u \in Threads, i \in Lanes : CellsIn(imv'[u].next[i]) = {}
    <3>1. \A u \in Threads : imv[u].op = "turn"
      BY <1>0, <1>1 DEF VectorOK
    <3> QED BY <1>0, <1>1, <3>1, NothingGathered
  <2>4. \A e \in Heads : \A c : ~Behind(e, c)'
    BY <1>1, <2>2, <2>3 DEF Behind
  <2>5. \A x \in Tuples' : Nowhere(x)'
    <3>1. EmptyTable'
      BY <2>1, <2>4 DEF EmptyTable
    <3>2. NothingIn'
      BY <3>1, EmptyNowhere, PTL
    <3> QED BY <3>2 DEF NothingIn
  <2>6. VectorsCarry'
    BY <1>0, <1>1, StayCarry
  <2> QED BY <2>5, <2>6 DEF OnceInv, Single, Fresh, Nowhere
<1> QED BY <1>2, <1>3

\* The barrier keeps the tuples where they are.
LEMMA KeptHas ==
  ASSUME setup' = setup, TableKept, NEW x \in Tuples, NEW s, Has(x, s)'
  PROVE  Has(x, s)
<1>1. x # NoTuple
  BY BoundsAssumption DEF Tuples
<1> QED BY <1>1, StepHas DEF TableKept

LEMMA StartCarries ==
  ASSUME NEW t, First(t) \in Nat
  PROVE  Carries(t, ImvStart) /\ Selects(ImvStart)
<1>1. \A p \in Held(ImvStart) : FALSE
  <2>1. \A s \in States : ImvStart.st[s].have = {}
    BY DEF States, ImvStart
  <2>2. \A p \in Held(ImvStart) : p[1] \in States /\ p[2] \in ImvStart.st[p[1]].have
    BY DEF Held
  <2> QED BY <2>1, <2>2
<1>2. Carries(t, ImvStart)
  BY <1>1 DEF Carries
<1> QED BY <1>2 DEF Selects, ImvStart

LEMMA ArriveOnce ==
  ASSUME TypesInv, BuffersInv, OnceInv, NEW t \in Threads, Arrive(t)
  PROVE  OnceInv'
<1>0. /\ LinkInv /\ setup \in Setups /\ DistinctChains /\ 0 \in Threads
      /\ \A u \in Threads : phase[u] = phase[0]
  BY LinkOK DEF BuffersInv, LinkInv, ControlOK
<1>1. UNCHANGED <<setup, heads, bufs>> /\ Threads' = Threads /\ Tuples' = Tuples
  BY SameSetup DEF Arrive, table, Tuples
<1>2. CASE called + 1 # setup.threads
  <2>1. UNCHANGED <<phase, scalar, imv>>
    BY <1>2 DEF Arrive, locals
  <2> QED BY <1>1, <2>1, StillOnce
<1>3. CASE called + 1 = setup.threads
  <2>1. PICK q : OpensTo(t, q)
    BY <1>3, BarrierOpens DEF TypesInv
  <2>2. TableKept /\ \A e \in Heads : \A c : Behind(e, c)' => c \in CellsIn(heads[e].chain)
    BY <1>0, <2>1, OpenKept
  <2>3. /\ \A u \in Threads : at[u] # "work" /\ phase'[u] = q
        /\ Passes(phase[0], q.pc, q.run) /\ imv' = [u \in Threads |-> ImvStart]
    BY <1>0, <2>1 DEF OpensTo
  <2>4. Single'
    <3>1. ASSUME NEW x \in Tuples, NEW s, NEW v, Has(x, s)', Has(x, v)' PROVE s = v
      BY <1>1, <2>2, <3>1, KeptHas DEF OnceInv, Single
    <3> QED BY <1>1, <3>1 DEF Single
  <2>5. VectorsCarry'
    <3>1. ASSUME NEW u \in Threads PROVE (Carries(u, imv[u]) /\ Selects(imv[u]))'
      <4>1. PICK m : m = ImvStart /\ imv'[u] = m
        BY <2>3
      <4>2. Carries(u, m) /\ Selects(m)
        BY <1>0, <4>1, PartFacts, StartCarries
      <4>3. Carries(u, m)'
        BY <1>1, <4>2, SameCarries
      <4>4. Carries(u, imv[u])'
        BY <4>1, <4>3 DEF Carries
      <4>5. Selects(imv[u])'
        BY <4>1, <4>2 DEF Selects
      <4> QED BY <4>4, <4>5
    <3> QED BY <1>1, <3>1 DEF VectorsCarry
  <2>6. CASE q.pc # "build"
    <3>1. \A u \in Threads : \A y : ~WaitsIn(u, y)'
      BY <2>3, <2>6 DEF WaitsIn
    <3> QED BY <1>1, <2>4, <2>5, <3>1 DEF OnceInv, Fresh
  <2>7. CASE q.pc = "build"
    <3>1. Emptied
      BY <1>0, <2>3, <2>7 DEF Passes, Emptied
    <3>2. \A e \in Heads : heads[e] = EmptyHead
      BY <3>1 DEF BuffersInv
    <3>3. \A e \in Heads : CellsIn(heads[e].chain) = {}
      BY <3>2 DEF EmptyHead, CellsIn
    <3>4. EmptyHead' = EmptyHead
      BY <1>1 DEF EmptyHead
    <3>5. EmptyTable'
      BY <1>1, <2>2, <3>2, <3>3, <3>4 DEF EmptyTable
    <3>6. NothingIn'
      BY <3>5, EmptyNowhere, PTL
    <3> QED BY <2>4, <2>5, <3>6 DEF OnceInv, Fresh, NothingIn
  <2> QED BY <2>6, <2>7
<1> QED BY <1>2, <1>3

LEMMA InitOnceInv == Init => OnceInv
<1> SUFFICES ASSUME Init PROVE OnceInv
  OBVIOUS
<1>1. heads = [b \in Heads |-> EmptyHead] /\ imv = [t \in Threads |-> ImvStart]
  BY DEF Init
<1>2. \A e \in Heads : CellsIn(heads[e].chain) = {}
  BY <1>1 DEF EmptyHead, CellsIn
<1>3. \A t \in Threads, i \in Lanes : CellsIn(imv[t].next[i]) = {}
  BY <1>1 DEF ImvStart, CellsIn
<1>4. EmptyTable
  BY <1>1, <1>2, <1>3 DEF EmptyTable, Behind
<1>5. \A t \in Threads : phase[t].pc # "build"
  BY DEF Init, At
<1> QED BY <1>4, <1>5, EmptyNowhere DEF NothingIn, OnceInv, Single, Fresh, Nowhere, VectorsCarry

LEMMA NextOnceInv ==
  ASSUME TypesInv, TypesInv', BuffersInv, OnceInv, [Next]_vars
  PROVE  OnceInv'
<1>1. CASE UNCHANGED vars
  BY <1>1, StillOnce DEF vars, table, locals
<1>2. ASSUME MainJoins \/ Ended PROVE OnceInv'
  <2>1. UNCHANGED <<setup, phase, heads, scalar, imv>>
    BY <1>2 DEF MainJoins, Ended, vars, table, locals
  <2> QED BY <2>1, StillOnce
<1>3. ASSUME NEW t \in Threads, VectorWork(t), ~Scattering(t) PROVE OnceInv'
  BY <1>3, WorkOnce
<1>4. ASSUME NEW t \in Threads, Scattering(t) PROVE OnceInv'
  <2>1. PICK i \in Lanes : ScatterHead(t, i) \/ ScatterNext(t, i)
    BY <1>4 DEF Scattering
  <2> QED BY <2>1, ScatterOnce
<1>5. ASSUME NEW t \in Threads, Locking(t) PROVE OnceInv'
  BY <1>5, LockingOnce
<1>6. ASSUME NEW t \in Threads, Ending(t) PROVE OnceInv'
  <2>1. UNCHANGED <<setup, phase, heads, scalar, imv>>
    BY <1>6 DEF Ending, ScalarBuilt, ScalarProbed, ImvLeave, Ready, Done, BuildOnly, table, locals
  <2> QED BY <2>1, StillOnce
<1>7. ASSUME NEW t \in Threads, Phasing(t) PROVE OnceInv'
  <2>1. CASE SetFunctions(t) \/ Fetch(t) \/ Release(t)
    <3>1. UNCHANGED <<setup, phase, heads, scalar, imv>>
      BY <2>1 DEF SetFunctions, Fetch, Release, Done, table, locals
    <3> QED BY <3>1, StillOnce
  <2> QED BY <1>7, <2>1, AllocateOnce DEF Phasing
<1> QED BY <1>1, <1>2, <1>3, <1>4, <1>5, <1>6, <1>7, ArriveOnce, FlatNext

LEMMA AlwaysOnceInv == Spec => [](TypesInv /\ BuffersInv /\ OnceInv)
<1>1. TypesInv /\ BuffersInv /\ OnceInv /\ [Next]_vars => (TypesInv /\ BuffersInv /\ OnceInv)'
  BY NextTypesInv, NextBuffersInv, NextOnceInv
<1> QED BY <1>1, InitTypesInv, InitBuffersInv, InitOnceInv, PTL DEF Spec

-----------------------------------------------------------------------------
(* The slots of the table are spots of their own. *)
SpotOf(s) ==
  IF s[2] = 0 THEN HeadSpot(s[1], s[3]) ELSE CellSpot(PlaceOf(heads[s[1]].chain[s[2]]), s[3])

LEMMA SlotIs ==
  ASSUME TableTyped, NEW x, NEW s, s \in PlacesOf(x)
  PROVE  \E b \in Heads, c \in Nat, j \in SlotNums :
           /\ s = <<b, c, j>> /\ Has(x, SpotOf(s))
           /\ \/ c = 0 /\ heads[b].tuples[j] = x /\ SpotOf(s) = HeadSpot(b, j)
              \/ /\ c # 0 /\ c \in DOMAIN heads[b].chain /\ heads[b].chain[c].tuples[j] = x
                 /\ SpotOf(s) = CellSpot(PlaceOf(heads[b].chain[c]), j)
<1>1. PICK b \in Heads : s \in SlotsOf(b) /\ InSlot(s) = x
  BY DEF PlacesOf
<1>2. CASE \E j \in SlotNums : s = <<b, 0, j>>
  <2>1. PICK j \in SlotNums : s = <<b, 0, j>>
    BY <1>2
  <2>2. heads[b].tuples[j] = x /\ SpotOf(s) = HeadSpot(b, j)
    BY <1>1, <2>1 DEF InSlot, SpotOf
  <2>3. Has(x, SpotOf(s))
    BY <2>2 DEF Has, AtHead
  <2> QED BY <2>1, <2>2, <2>3
<1>3. CASE \E c \in DOMAIN heads[b].chain, j \in SlotNums : s = <<b, c, j>>
  <2>1. PICK c \in DOMAIN heads[b].chain, j \in SlotNums : s = <<b, c, j>>
    BY <1>3
  <2>2. c \in Nat /\ c # 0
    <3>1. PICK chain \in Chains : chain = heads[b].chain
      BY DEF TableTyped, Buckets
    <3> QED BY <2>1, <3>1 DEF Chains
  <2>3. heads[b].chain[c].tuples[j] = x /\ SpotOf(s) = CellSpot(PlaceOf(heads[b].chain[c]), j)
    BY <1>1, <2>1, <2>2 DEF InSlot, SpotOf
  <2>4. PICK d : d = heads[b].chain[c]
    OBVIOUS
  <2>5. Behind(b, d) /\ d.tuples[j] = x /\ SpotOf(s) = CellSpot(PlaceOf(d), j)
    BY <2>1, <2>3, <2>4 DEF Behind, CellsIn
  <2>6. Has(x, SpotOf(s))
    BY <2>5 DEF Has, AtCell
  <2> QED BY <2>1, <2>2, <2>3, <2>6
<1> QED BY <1>1, <1>2, <1>3 DEF SlotsOf, SlotNums

LEMMA OnePlace ==
  ASSUME TableTyped, DistinctChains, Owned, Single, NEW x \in Tuples
  PROVE  \A s, u \in PlacesOf(x) : s = u
<1> SUFFICES ASSUME NEW s \in PlacesOf(x), NEW u \in PlacesOf(x) PROVE s = u
  OBVIOUS
<1>1. PICK b \in Heads, c \in Nat, j \in SlotNums :
        /\ s = <<b, c, j>> /\ Has(x, SpotOf(s))
        /\ \/ c = 0 /\ heads[b].tuples[j] = x /\ SpotOf(s) = HeadSpot(b, j)
           \/ /\ c # 0 /\ c \in DOMAIN heads[b].chain /\ heads[b].chain[c].tuples[j] = x
              /\ SpotOf(s) = CellSpot(PlaceOf(heads[b].chain[c]), j)
  BY SlotIs
<1>2. PICK d \in Heads, e \in Nat, k \in SlotNums :
        /\ u = <<d, e, k>> /\ Has(x, SpotOf(u))
        /\ \/ e = 0 /\ heads[d].tuples[k] = x /\ SpotOf(u) = HeadSpot(d, k)
           \/ /\ e # 0 /\ e \in DOMAIN heads[d].chain /\ heads[d].chain[e].tuples[k] = x
              /\ SpotOf(u) = CellSpot(PlaceOf(heads[d].chain[e]), k)
  BY SlotIs
<1>3. SpotOf(s) = SpotOf(u)
  BY <1>1, <1>2 DEF Single
<1>4. \A v, a : HeadSpot(b, j) # CellSpot(v, a) /\ CellSpot(v, a) # HeadSpot(d, k)
  BY DEF HeadSpot, CellSpot
<1>5. CASE c = 0 /\ e = 0
  <2>1. b = d /\ j = k
    BY <1>1, <1>2, <1>3, <1>5 DEF HeadSpot
  <2> QED BY <1>1, <1>2, <1>5, <2>1
<1>6. CASE c # 0 /\ e # 0
  <2>1. PICK f, g : /\ f = heads[b].chain[c] /\ g = heads[d].chain[e]
                    /\ CellSpot(PlaceOf(f), j) = CellSpot(PlaceOf(g), k)
    BY <1>1, <1>2, <1>3, <1>6
  <2>2. PlaceOf(f) = PlaceOf(g) /\ j = k
    BY <2>1 DEF CellSpot
  <2>3. Behind(b, f) /\ Behind(d, g)
    BY <1>1, <1>2, <1>6, <2>1 DEF Behind, CellsIn
  <2>4. b = d
    BY <2>2, <2>3 DEF Owned
  <2>5. c = e
    BY <1>1, <1>2, <1>6, <2>1, <2>2, <2>4 DEF DistinctChains, Distinct
  <2> QED BY <1>1, <1>2, <2>2, <2>4, <2>5
<1> QED BY <1>1, <1>2, <1>3, <1>4, <1>5, <1>6

\* A set of one element or of none.
LEMMA AtMostOne ==
  ASSUME NEW S, \A s, u \in S : s = u
  PROVE  Cardinality(S) <= 1 /\ (S # {} => Cardinality(S) = 1)
<1>1. CASE S = {}
  BY <1>1, FS_EmptySet
<1>2. CASE S # {}
  <2>1. PICK s : s \in S
    BY <1>2
  <2>2. S = {s}
    BY <2>1
  <2>3. Cardinality({s}) = 1
    BY FS_Singleton
  <2>4. Cardinality(S) = 1
    BY <2>2, <2>3
  <2> QED BY <2>4
<1> QED BY <1>1, <1>2
=============================================================================
