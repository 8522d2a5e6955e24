------------------------------- MODULE Lanes --------------------------------
(***************************************************************************)
(* The AVX-512 operations the interleaved (IMV) loops of                   *)
(* hashing_runner.cpp are written with.  A register is a function on Lanes,*)
(* a mask is a set of lanes; lane 1 is the lowest one.                     *)
(***************************************************************************)
EXTENDS Integers, FiniteSets, FiniteSetsExt

CONSTANTS
  VectorScale,   \* NPJ_VECTOR_SCALE, the lanes of a register
  ZeroLane       \* what a zero-masked operation leaves in a lane

ASSUME LanesAssumption == VectorScale \in Nat \ {0}

Lanes == 1 .. VectorScale

\* mask[n] of the loops: the n lowest lanes.
LowLanes(n) == 1 .. n

\* The rank of lane i among the lanes of mask m.
Rank(m, i) == Cardinality({j \in m : j <= i})

\* _mm512_maskz_compress_epi64: the lanes of m moved to the lowest lanes.
Compress(m, v) ==
  [i \in Lanes |-> IF i <= Cardinality(m)
                   THEN v[CHOOSE j \in m : Rank(m, j) = i]
                   ELSE ZeroLane]

\* _mm512_mask_expand_epi64: the lowest lanes of v, in order, into those of m.
Expand(old, m, v) ==
  [i \in Lanes |-> IF i \in m THEN v[Rank(m, i)] ELSE old[i]]

\* Mutated form: the mask is not shifted.
ShiftNotDown(m, n) == m

\* m >> n on a mask.
ShiftDown(m, n) == {i - n : i \in {j \in m : j > n}}

\* _mm512_conflict_epi64 and _mm512_testn_epi64_mask on the addresses of m:
\* the lanes of m whose address no lower lane of m has.
FirstOfEach(m, addr) ==
  {i \in m : \A j \in m : j < i => addr[j] # addr[i]}
=============================================================================
