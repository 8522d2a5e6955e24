------------------------------- MODULE Memory -------------------------------
(***************************************************************************)
(* The memory the sorting and merging code works on: a sequence of items,  *)
(* of which the one at address 0 is the first.                             *)
(***************************************************************************)
EXTENDS Integers, Sequences, SequencesExt

Load(mem, at, n) == SubSeq(mem, at + 1, at + n)

Store(mem, at, s) ==
  SubSeq(mem, 1, at) \o s \o SubSeq(mem, at + Len(s) + 1, Len(mem))

\* A forward copy in steps of at most 8 items to an address that is not
\* between the items still to be read.
CopyItems(mem, from, to, n) == Store(mem, to, Load(mem, from, n))
=============================================================================
