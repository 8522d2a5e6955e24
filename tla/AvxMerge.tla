----------------------------- MODULE AvxMerge -------------------------------
(***************************************************************************)
(* The merges of two sorted lists: merge4/8/16_eqlen and _varlen of        *)
(* avxsort_core.h and the scalar and the chosen merge of merge.h.  All of  *)
(* them return the memory after the merge.  The aligned versions differ    *)
(* in the load and store instructions only.                                *)
(***************************************************************************)
EXTENDS BitonicMerge

RECURSIVE EqlenLoop(_, _), EqlenDrain(_, _, _), VarlenLoop(_, _), SerialMerge(_)

\* A merge in progress: memory, read positions and their ends, the write
\* position and the register that holds the items taken but not yet written.
LOCAL Merge(mem, a, endA, b, endB, o) ==
  [mem |-> mem, a |-> a, endA |-> endA, b |-> b, endB |-> endB, o |-> o, reg |-> <<>>]

\* BITONIC_MERGEw of the register with the next block of list `from`; the
\* smaller half is stored, the larger half stays in the register.
LOCAL StoreLow(w, m, from, out) ==
  [m EXCEPT !.mem = Store(@, m.o, out.low), !.o = @ + w, !.reg = out.high, ![from] = @ + w]
LOCAL TakeBlock(w, m, from) ==
  StoreLow(w, m, from, BITONIC_MERGE(m.reg, Load(m.mem, m[from], w)))

\* The two first blocks.
FirstBlocks(w, m) ==
  TakeBlock(w, [m EXCEPT !.reg = Load(m.mem, m.a, w), !.a = @ + w], "b")

\* IFELSECONDMOVE: the list whose next item is smaller.
IFELSECONDMOVE(m) == IF m.mem[m.a + 1] < m.mem[m.b + 1] THEN "a" ELSE "b"

-----------------------------------------------------------------------------
\* Lists of one length that is a multiple of the width.
EqlenLoop(w, m) ==
  IF m.a < m.endA /\ m.b < m.endB
  THEN EqlenLoop(w, TakeBlock(w, m, IFELSECONDMOVE(m)))
  ELSE m

\* The remaining blocks of one list.
EqlenDrain(w, m, from) ==
  IF m[from] < (IF from = "a" THEN m.endA ELSE m.endB)
  THEN EqlenDrain(w, TakeBlock(w, m, from), from)
  ELSE m

LOCAL StoreRegister(m) == Store(m.mem, m.o, m.reg)

EqlenMerge(w, mem, inpA, inpB, out, len) ==
  LET begun == FirstBlocks(w, Merge(mem, inpA, inpA + len, inpB, inpB + len, out))
  IN  StoreRegister(EqlenDrain(w, EqlenDrain(w, EqlenLoop(w, begun), "a"), "b"))

merge4_eqlen(mem, inpA, inpB, out, len) == EqlenMerge(4, mem, inpA, inpB, out, len)
merge8_eqlen(mem, inpA, inpB, out, len) == EqlenMerge(8, mem, inpA, inpB, out, len)
merge16_eqlen(mem, inpA, inpB, out, len) == EqlenMerge(16, mem, inpA, inpB, out, len)
merge4_eqlen_aligned(mem, inpA, inpB, out, len) == EqlenMerge(4, mem, inpA, inpB, out, len)
merge8_eqlen_aligned(mem, inpA, inpB, out, len) == EqlenMerge(8, mem, inpA, inpB, out, len)
merge16_eqlen_aligned(mem, inpA, inpB, out, len) == EqlenMerge(16, mem, inpA, inpB, out, len)

-----------------------------------------------------------------------------
\* Lists of any lengths.  Blocks are merged while both lists have more than
\* one block left.
VarlenLoop(w, m) ==
  IF m.a < m.endA - w /\ m.b < m.endB - w
  THEN VarlenLoop(w, TakeBlock(w, m, IFELSECONDMOVE(m)))
  ELSE m

\* Mutated form: the register is always put back in front of list A.
FlushToA(w, m) ==
  [m EXCEPT !.mem = Store(@, m.a - w, m.reg), !.a = @ - w, !.reg = <<>>]

\* The register goes back in front of the list whose next item is at least
\* its last one.
FlushRegister(w, m) ==
  LET to == IF m.mem[m.a + 1] >= Last(m.reg) THEN "a" ELSE "b"
  IN  [m EXCEPT !.mem = Store(@, m[to] - w, m.reg), ![to] = @ - w, !.reg = <<>>]

\* Item by item until one list is empty; B first among equals.
SerialMerge(m) ==
  IF m.a < m.endA /\ m.b < m.endB
  THEN LET from == IFELSECONDMOVE(m)
       IN  SerialMerge([m EXCEPT !.mem = Store(@, m.o, <<m.mem[m[from] + 1]>>),
                                 !.o = @ + 1, ![from] = @ + 1])
  ELSE m

\* What is left of A, or else of B.
CopyTail(m) ==
  IF m.a < m.endA THEN CopyItems(m.mem, m.a, m.o, m.endA - m.a)
  ELSE IF m.b < m.endB THEN CopyItems(m.mem, m.b, m.o, m.endB - m.b)
  ELSE m.mem

VarlenMerge(w, mem, inpA, inpB, out, lenA, lenB) ==
  LET begun == Merge(mem, inpA, inpA + lenA, inpB, inpB + lenB, out)
      Blocks(len) == (len \div w) * w
  IN  CopyTail(SerialMerge(
        IF Blocks(lenA) > w /\ Blocks(lenB) > w
        THEN FlushRegister(w, VarlenLoop(w, FirstBlocks(w, begun)))
        ELSE begun))

merge4_varlen(mem, inpA, inpB, out, lenA, lenB) == VarlenMerge(4, mem, inpA, inpB, out, lenA, lenB)
merge8_varlen(mem, inpA, inpB, out, lenA, lenB) == VarlenMerge(8, mem, inpA, inpB, out, lenA, lenB)
merge16_varlen(mem, inpA, inpB, out, lenA, lenB) == VarlenMerge(16, mem, inpA, inpB, out, lenA, lenB)
merge4_varlen_aligned(mem, inpA, inpB, out, lenA, lenB) == VarlenMerge(4, mem, inpA, inpB, out, lenA, lenB)
merge8_varlen_aligned(mem, inpA, inpB, out, lenA, lenB) == VarlenMerge(8, mem, inpA, inpB, out, lenA, lenB)
merge16_varlen_aligned(mem, inpA, inpB, out, lenA, lenB) == VarlenMerge(16, mem, inpA, inpB, out, lenA, lenB)

-----------------------------------------------------------------------------
\* merge.h: without registers.
scalar_merge_int64(mem, inA, inB, outp, lenA, lenB) ==
  CopyTail(SerialMerge(Merge(mem, inA, inA + lenA, inB, inB + lenB, outp)))

scalar_merge_tuples(mem, inA, inB, outp, lenA, lenB) ==
  CopyTail(SerialMerge(Merge(mem, inA, inA + lenA, inB, inB + lenB, outp)))

\* merge.h: never the merge for equal lengths; `width` is MERGEBITONICWIDTH.
avx_merge_int64(width, isaligned, mem, inpA, inpB, out, lenA, lenB) ==
  CASE width = 4 /\ isaligned -> merge4_varlen_aligned(mem, inpA, inpB, out, lenA, lenB)
    [] width = 8 /\ isaligned -> merge8_varlen_aligned(mem, inpA, inpB, out, lenA, lenB)
    [] width = 16 /\ isaligned -> merge16_varlen_aligned(mem, inpA, inpB, out, lenA, lenB)
    [] width = 4 /\ ~isaligned -> merge4_varlen(mem, inpA, inpB, out, lenA, lenB)
    [] width = 8 /\ ~isaligned -> merge8_varlen(mem, inpA, inpB, out, lenA, lenB)
    [] width = 16 /\ ~isaligned -> merge16_varlen(mem, inpA, inpB, out, lenA, lenB)

avx_merge_tuples(width, isaligned, mem, inA, inB, outp, lenA, lenB) ==
  avx_merge_int64(width, isaligned, mem, inA, inB, outp, lenA, lenB)
=============================================================================
