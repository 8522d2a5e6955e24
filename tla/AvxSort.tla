------------------------------ MODULE AvxSort -------------------------------
(***************************************************************************)
(* avxsort.h and avxsort_core.h: the merge sort of 64-bit items.           *)
(*                                                                         *)
(* Chunks of BLOCKSIZE items are sorted one after the other in the two     *)
(* arrays (in-register sort, then rounds of merges that go from one array  *)
(* to the other and back), the remainder is sorted as blocks of falling    *)
(* powers of two that are merged, and at last all the chunks are merged    *)
(* pairwise.  A chunk ends in the input or in the output array, depending  *)
(* on how often it was merged; ptrs[i] of the code is a record here, the   *)
(* address of its items (cur), the address of its place in the other       *)
(* array (tmp) and its size.                                               *)
(***************************************************************************)
EXTENDS AvxMerge

CONSTANTS
  BLOCKSIZE,        \* items of a chunk, a power of two
  SmallBlock,       \* blocks of at most this many items are not sorted by
                    \* avxsort_block but by std::sort (128 in the code)
  SortInputs        \* the inputs of a call

\* avxsort_block merges runs of 4, 8 and at least twice of 16 or more items.
ASSUME AvxSortAssumption ==
  /\ \E k \in 6 .. 30 : BLOCKSIZE = 2 ^ k
  /\ SmallBlock \in Nat /\ SmallBlock >= 32
  /\ \A s \in SortInputs : s \in Seq(Int)

VARIABLES
  sortPc,      \* which part of avxsort_unaligned or avxsort_aligned runs
  isaligned,   \* both arrays begin at a cache line
  given,       \* the input of the call
  mem,         \* the input array, and the output array behind it
  pos,         \* the items before pos are in chunks
  chunks,      \* ptrs and sizes of avxsort_unaligned
  todo, made,  \* chunks of a round of merges, before and after their merge
  round        \* i of the merge loop

sortVars == <<sortPc, isaligned, given, mem, pos, chunks, todo, made, round>>

nitems == Len(given)

LOCAL Ordered(s) == SortSeq(s, LAMBDA x, y : x < y)

\* A place for the n items at position at of both arrays.
Place(at, n) == [cur |-> at, tmp |-> nitems + at, size |-> n]

\* NEXT_POW_2 and the shifts that follow it: the largest power of two that
\* is at most n, 0 for 0.
nxtpow(n) == IF n = 0 THEN 0 ELSE CHOOSE p \in {2 ^ k : k \in 0 .. 30} : p <= n /\ n < 2 * p

\* ceil(log2(n)), and log2 of a power of two.
logN(n) == CHOOSE k \in 0 .. 30 : n <= 2 ^ k /\ (k = 0 \/ n > 2 ^ (k - 1))

-----------------------------------------------------------------------------
\* The odd-even network on four values, each a lane of four registers.
LOCAL SortFour(a, b, c, d) ==
  LET LeastOf(x, y) == IF x < y THEN x ELSE y
      MostOf(x, y) == IF x < y THEN y ELSE x
      ra1 == LeastOf(a, b)   rb1 == MostOf(a, b)
      rc1 == LeastOf(c, d)   rd1 == MostOf(c, d)
      rb == LeastOf(rb1, rd1)   rd == MostOf(rb1, rd1)
      ra2 == LeastOf(ra1, rc1)  rc2 == MostOf(ra1, rc1)
  IN  <<ra2, LeastOf(rb, rc2), MostOf(rb, rc2), rd>>

\* Four registers of 8 items: sort the lanes, transpose; the result is 8
\* sorted runs of 4.
inregister_sort_keyval32(items) ==
  FlattenSeq([lane \in 1 .. 8 |->
    SortFour(items[lane], items[lane + 8], items[lane + 16], items[lane + 24])])

inregister_sort_keyval32_aligned(items) == inregister_sort_keyval32(items)

RECURSIVE InRegister(_, _), MergeRuns(_, _, _, _), BlockRounds(_, _, _)

LOCAL Pointers(inputptr, outputptr) == [p \in {0, 1} |-> IF p = 0 THEN inputptr ELSE outputptr]

\* 1.a) 32 items at a time, in place.
InRegister(s, end) ==
  IF s.at < end
  THEN InRegister([mem |-> Store(s.mem, s.at, inregister_sort_keyval32(Load(s.mem, s.at, 32))),
                   at |-> s.at + 32], end)
  ELSE s.mem

\* Merges the runs of length inlen at s.inp pairwise into s.out.
MergeRuns(s, width, end, inlen) ==
  IF s.inp < end
  THEN MergeRuns([mem |-> EqlenMerge(width, s.mem, s.inp, s.inp + inlen, s.out, inlen),
                  inp |-> s.inp + 2 * inlen, out |-> s.out + 2 * inlen], width, end, inlen)
  ELSE s.mem

\* 1.b) to 1.d): round j merges runs of 2^j items from ptrs[j & 1] into the
\* other array, with networks of width 4, 8 and then 16.
BlockRounds(s, ptrs, size) ==
  IF 2 ^ s.j < size
  THEN LET inp == ptrs[s.j % 2]
           width == CASE s.j = 2 -> 4 [] s.j = 3 -> 8 [] OTHER -> 16
           runs == [mem |-> s.mem, inp |-> inp, out |-> ptrs[(s.j + 1) % 2]]
       IN  BlockRounds([mem |-> MergeRuns(runs, width, inp + size, 2 ^ s.j), j |-> s.j + 1],
                       ptrs, size)
  ELSE s.mem

LOCAL SortBlock(m, ptrs, size) ==
  LET runs == InRegister([mem |-> m, at |-> ptrs[0]], ptrs[0] + size)
  IN  BlockRounds([mem |-> runs, j |-> 2], ptrs, size)

\* Mutated form: the sorted items are taken to be in the output array
\* whatever the number of rounds.
BlockInOutput(m, inputptr, outputptr, size) ==
  [mem |-> SortBlock(m, Pointers(inputptr, outputptr), size), out |-> outputptr, in |-> inputptr]

\* The memory, and where the sorted block and its free place are: in the
\* array that round log2(size) would read.
avxsort_block(m, inputptr, outputptr, size) ==
  LET ptrs == Pointers(inputptr, outputptr)
      j == logN(size)
  IN  [mem |-> SortBlock(m, ptrs, size), out |-> ptrs[j % 2], in |-> ptrs[(j + 1) % 2]]

avxsort_block_aligned(m, inputptr, outputptr, size) ==
  avxsort_block(m, inputptr, outputptr, size)

\* The place p after avxsort_block and swap.
LOCAL Swapped(p, b) == [mem |-> b.mem, place |-> [p EXCEPT !.cur = b.out, !.tmp = b.in]]
LOCAL SortedBlock(p) ==
  Swapped(p, IF isaligned THEN avxsort_block_aligned(mem, p.cur, p.tmp, p.size)
             ELSE avxsort_block(mem, p.cur, p.tmp, p.size))

-----------------------------------------------------------------------------
SortIdle ==
  /\ sortPc = "idle" /\ isaligned = FALSE /\ given = <<>> /\ mem = <<>>
  /\ pos = 0 /\ chunks = <<>> /\ todo = <<>> /\ made = <<>> /\ round = 0

\* A call of avxsort_int64 or avxsort_tuples; the output array holds anything.
SortInit ==
  /\ isaligned \in BOOLEAN
  /\ given \in SortInputs
  /\ mem = given \o [i \in 1 .. nitems |-> 0]
  /\ sortPc = IF nitems = 0 THEN "done" ELSE "blocks"
  /\ pos = 0 /\ chunks = <<>> /\ todo = <<>> /\ made = <<>>
  /\ round = logN(BLOCKSIZE)

\* 1) One chunk of BLOCKSIZE items.
SortChunk ==
  /\ sortPc = "blocks" /\ nitems - pos >= BLOCKSIZE
  /\ \E s \in {SortedBlock(Place(pos, BLOCKSIZE))} :
       /\ mem' = s.mem
       /\ chunks' = Append(chunks, s.place)
  /\ pos' = pos + BLOCKSIZE
  /\ UNCHANGED <<sortPc, isaligned, given, todo, made, round>>

\* No full chunk is left.
ChunksSorted ==
  /\ sortPc = "blocks" /\ nitems - pos < BLOCKSIZE
  /\ IF pos < nitems THEN sortPc' = "rem" /\ todo' = <<>>
     ELSE sortPc' = "merge" /\ todo' = chunks
  /\ UNCHANGED <<isaligned, given, mem, pos, chunks, made, round>>

-----------------------------------------------------------------------------
\* avxsort_rem: a block as large as the largest power of two that fits.
RemBlock ==
  /\ sortPc = "rem" /\ nxtpow(nitems - pos) > SmallBlock
  /\ \E s \in {SortedBlock(Place(pos, nxtpow(nitems - pos)))} :
       /\ mem' = s.mem
       /\ todo' = Append(todo, s.place)
       /\ pos' = pos + s.place.size
  /\ UNCHANGED <<sortPc, isaligned, given, chunks, made, round>>

\* avxsort_rem: std::sort of the rest, in place.
RemTail ==
  /\ sortPc = "rem" /\ nxtpow(nitems - pos) <= SmallBlock
  /\ LET n == nitems - pos
     IN  IF n > 0
         THEN /\ mem' = Store(mem, pos, Ordered(Load(mem, pos, n)))
              /\ todo' = Append(todo, Place(pos, n))
         ELSE UNCHANGED <<mem, todo>>
  /\ pos' = nitems
  /\ sortPc' = "remMerge"
  /\ UNCHANGED <<isaligned, given, chunks, made, round>>

\* Mutated form: the place of A's items is not remembered as the free one.
KeepPlace(x, y) == [x EXCEPT !.size = x.size + y.size]

\* The pointers after a merge of x and y into the free place of x.
MergedPlace(x, y) == [cur |-> x.tmp, tmp |-> x.cur, size |-> x.size + y.size]

\* One merge of a round, the first two chunks.
LOCAL MergeFirstTwo(Varlen(_, _, _, _, _, _)) ==
  LET x == todo[1]  y == todo[2]
  IN  /\ mem' = Varlen(mem, x.cur, y.cur, x.tmp, x.size, y.size)
      /\ made' = Append(made, MergedPlace(x, y))
      /\ todo' = SubSeq(todo, 3, Len(todo))

\* avxsort_rem: merge two sorted blocks.
RemMerge ==
  /\ sortPc = "remMerge" /\ Len(todo) > 1
  /\ IF isaligned THEN MergeFirstTwo(merge16_varlen_aligned) ELSE MergeFirstTwo(merge16_varlen)
  /\ UNCHANGED <<sortPc, isaligned, given, pos, chunks, round>>

\* avxsort_rem: an odd block moves to the next round; the last block is the
\* last chunk of the sort.
RemRound ==
  /\ sortPc = "remMerge" /\ Len(todo) <= 1
  /\ LET left == made \o todo
     IN  /\ made' = <<>>
         /\ IF Len(left) > 1
            THEN todo' = left /\ UNCHANGED <<sortPc, chunks>>
            ELSE /\ chunks' = chunks \o left
                 /\ todo' = chunks'
                 /\ sortPc' = "merge"
  /\ UNCHANGED <<isaligned, given, mem, pos, round>>

-----------------------------------------------------------------------------
\* 2.a) Two chunks.
MergeChunks ==
  /\ sortPc = "merge" /\ round < logN(nitems) /\ Len(todo) > 1
  /\ IF isaligned THEN MergeFirstTwo(merge8_varlen_aligned) ELSE MergeFirstTwo(merge16_varlen)
  /\ UNCHANGED <<sortPc, isaligned, given, pos, chunks, round>>

\* The end of a round: as many rounds as the sizes say, not until one chunk
\* is left.
MergeRound ==
  /\ sortPc = "merge" /\ round < logN(nitems) /\ Len(todo) <= 1
  /\ todo' = made \o todo
  /\ made' = <<>>
  /\ round' = round + 1
  /\ UNCHANGED <<sortPc, isaligned, given, mem, pos, chunks>>

\* The first chunk is the output.
SortReturn ==
  /\ sortPc = "merge" /\ round >= logN(nitems)
  /\ sortPc' = "done"
  /\ UNCHANGED <<isaligned, given, mem, pos, chunks, todo, made, round>>

SortNext ==
  \/ SortChunk \/ ChunksSorted
  \/ RemBlock \/ RemTail \/ RemMerge \/ RemRound
  \/ MergeChunks \/ MergeRound \/ SortReturn

-----------------------------------------------------------------------------
\* The places that hold items now, in the order of the input positions.
LOCAL LivePlaces ==
  (IF sortPc \in {"rem", "remMerge"} THEN chunks ELSE <<>>)
  \o (IF sortPc = "blocks" THEN chunks ELSE made \o todo)

\* Between any two steps the chunks, each sorted, and the items no chunk has
\* taken yet are the input: a merge whose output runs over its own input, or
\* a chunk looked for in the wrong array, loses items here.  On return the
\* first chunk, which is what outputptr is set to, is all of it (avxsort.h,
\* line 43: "Sorts given array of items"), although the number of rounds is
\* computed from the sizes and not from the chunks that are left.
ChunksWhole ==
  sortPc # "idle" /\ nitems > 0 =>
    LET contents == [i \in DOMAIN LivePlaces |-> Load(mem, LivePlaces[i].cur, LivePlaces[i].size)]
    IN  /\ \A i \in DOMAIN contents : contents[i] = Ordered(contents[i])
        /\ Ordered(FlattenSeq(contents) \o Load(mem, pos, nitems - pos)) = Ordered(given)
        /\ sortPc = "done" => Load(mem, todo[1].cur, nitems) = Ordered(given)
=============================================================================
