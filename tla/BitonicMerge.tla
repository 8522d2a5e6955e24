--------------------------- MODULE BitonicMerge -----------------------------
(***************************************************************************)
(* The merge networks of avxcommon.h and the memory they work on.          *)
(*                                                                         *)
(* A register is a sequence of 64-bit items.  The memory is one sequence   *)
(* that holds the two arrays of a sort one behind the other, so that       *)
(* merges whose output overlaps an input are merges of overlapping         *)
(* addresses here as well; address 0 is the first item.                    *)
(***************************************************************************)
EXTENDS Memory

LOCAL Least(x, y) == IF x < y THEN x ELSE y
LOCAL Greatest(x, y) == IF x < y THEN y ELSE x

RECURSIVE BITONIC(_)

\* BITONIC4, BITONIC8 and level 0 of the wider networks: compare item i with
\* item i + half, then sort the half of the smaller and that of the larger.
BITONIC(s) ==
  IF Len(s) = 1 THEN s
  ELSE LET half == Len(s) \div 2
           cleaned == [i \in 1 .. half |-> Least(s[i], s[i + half])]
                      \o [i \in 1 .. half |-> Greatest(s[i], s[i + half])]
       IN  BITONIC(SubSeq(cleaned, 1, half))
           \o BITONIC(SubSeq(cleaned, half + 1, 2 * half))

\* BITONIC_MERGE4, 8 and 16: both registers in, the second one reversed.
BITONIC_MERGE(a, b) ==
  LET merged == BITONIC(a \o Reverse(b))
      half == Len(a)
  IN  [low |-> SubSeq(merged, 1, half), high |-> SubSeq(merged, half + 1, 2 * half)]

=============================================================================
