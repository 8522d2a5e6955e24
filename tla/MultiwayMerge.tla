--------------------------- MODULE MultiwayMerge ----------------------------
(***************************************************************************)
(* The multi-way merge of avx_multiwaymerge.h and scalar_multiwaymerge.h,  *)
(* as avxsort_multiway.h calls it: sorted blocks go through a tree of ring *)
(* buffers into the output.                                                *)
(*                                                                         *)
(* Node m of the tree has the children 2m+2 and 2m+3; nodes 0 and 1 feed   *)
(* the output; the last nparts/2 nodes are the leaves, which read the      *)
(* parts in pairs.  The code has four versions of the three procedures:    *)
(* with 16-wide merge networks, and scalar ones that cut the rings into    *)
(* linear windows, or take every index modulo the ring's size, or mask it. *)
(*                                                                         *)
(* A part, a window of a ring and the output are sequences of items.  The  *)
(* merge networks put the items still in their register back into a part   *)
(* or a window, as the code does.                                          *)
(***************************************************************************)
EXTENDS AvxMerge

CONSTANTS
  Width,         \* items of a register, 16 in the code
  FifoSize,      \* items a ring holds: the buffer divided by the nodes
  Versions,      \* the versions of the procedures that may be called
  MultiwayInputs \* the sorted blocks of a call, more than 3

ASSUME MultiwayAssumption ==
  /\ Width \in Nat \ {0} /\ \E k \in 0 .. 6 : Width = 2 ^ k
  /\ FifoSize \in Nat \ {0, 1}
  /\ Versions \subseteq {"avx", "decomposed", "modulo", "bitand"}
  /\ \A blocks \in MultiwayInputs : blocks \in Seq(Seq(Int)) /\ Len(blocks) > 3

VARIABLES
  treePc,     \* what the loop of the merge does next
  version,    \* "avx", "decomposed", "modulo" or "bitand"
  blocks,     \* the sorted blocks of the call
  parts,      \* what is left of the parts
  nodes,      \* the tree
  done,       \* done[m]: node m gets no more items
  m,          \* the node the loop is at
  finished,   \* every node looked at in this round was done
  output      \* the items stored

treeVars == <<treePc, version, blocks, parts, nodes, done, m, finished, output>>

LOCAL Ordered(s) == SortSeq(s, LAMBDA x, y : x < y)

\* The memory of a ring as a sequence; index i of the code is i + 1 here.
fifosize == IF version = "bitand" THEN CHOOSE p \in {2 ^ k : k \in 0 .. 20} :
                                           p <= FifoSize /\ FifoSize < 2 * p
            ELSE FifoSize
readthreshold == fifosize \div 2

LOCAL EmptyNode == [buffer |-> [i \in 1 .. fifosize |-> 0], count |-> 0, head |-> 0, tail |-> 0]

LOCAL Wrap(i) == IF i = fifosize THEN 0 ELSE i

-----------------------------------------------------------------------------
(* The kernels: two windows and a number of free slots to an output.       *)

LOCAL Take(k, from) == [k EXCEPT !.out = Append(@, k[from][1]), ![from] = Tail(@), !.slots = @ - 1]

LOCAL Smaller(k) == IF k.a[1] < k.b[1] THEN "a" ELSE "b"

RECURSIVE serialmergekernel(_), KernelBlocks(_)

serialmergekernel(k) ==
  IF k.slots > 0 /\ k.a # <<>> /\ k.b # <<>> THEN serialmergekernel(Take(k, Smaller(k))) ELSE k

\* One block of one window goes through the register.
LOCAL StoreLow(k, from, out) ==
  [k EXCEPT !.out = @ \o out.low, !.reg = out.high, !.slots = @ - Width,
            ![from] = SubSeq(@, Width + 1, Len(@))]
LOCAL TakeBlock(k, from) == StoreLow(k, from, BITONIC_MERGE(k.reg, SubSeq(k[from], 1, Width)))

KernelBlocks(k) ==
  IF k.slots >= Width /\ Len(k.a) > Width /\ Len(k.b) > Width
  THEN KernelBlocks(TakeBlock(k, Smaller(k)))
  ELSE k

\* Mutated form: the items in the register are dropped when the output is full.
FlushNothing(k) == [out |-> k.out, a |-> k.a, b |-> k.b, slots |-> k.slots]

\* The register goes back in front of the window it belongs to.
Flush(k) ==
  LET to == IF k.a[1] >= Last(k.reg) THEN "a" ELSE "b"
      back == [k EXCEPT ![to] = k.reg \o @]
  IN  [out |-> back.out, a |-> back.a, b |-> back.b, slots |-> back.slots]

\* Blocks while both windows have more than one, the rest item by item.
merge16kernel(k) ==
  LET Blocks(s) == (Len(s) \div Width) * Width
      begun == [out |-> k.out, a |-> SubSeq(k.a, Width + 1, Len(k.a)), b |-> k.b,
                slots |-> k.slots, reg |-> SubSeq(k.a, 1, Width)]
  IN  serialmergekernel(
        IF k.slots >= Width /\ Blocks(k.a) > Width /\ Blocks(k.b) > Width
        THEN Flush(KernelBlocks(TakeBlock(begun, "b")))
        ELSE k)

LOCAL Kernel(a, b, slots) ==
  LET k == [out |-> <<>>, a |-> a, b |-> b, slots |-> slots]
  IN  IF version = "avx" THEN merge16kernel(k) ELSE serialmergekernel(k)
-----------------------------------------------------------------------------
(* Rings.  count, head and tail are kept apart, as in the code.            *)

LOCAL RingItems(q, n) ==
  IF q.head + n <= fifosize THEN Load(q.buffer, q.head, n)
  ELSE Load(q.buffer, q.head, fifosize - q.head) \o Load(q.buffer, 0, q.head + n - fifosize)

LOCAL AppendRing(q, s) ==
  LET room == IF Len(s) < fifosize - q.tail THEN Len(s) ELSE fifosize - q.tail
      first == Store(q.buffer, q.tail, SubSeq(s, 1, room))
  IN  [q EXCEPT !.buffer = Store(first, 0, SubSeq(s, room + 1, Len(s))),
                !.count = @ + Len(s), !.tail = (@ + Len(s)) % fifosize]

LOCAL DropRing(q, n) == [q EXCEPT !.count = @ - n, !.head = (@ + n) % fifosize]

\* The slots of direct_copy's blocks, from head and tail alone: the caller
\* makes sure that the destination has space and that the source has items.
LOCAL FreeSlots(q) == IF q.head <= q.tail THEN fifosize - q.tail + q.head ELSE q.head - q.tail
LOCAL HeldSlots(q) == IF q.head >= q.tail THEN fifosize - q.head + q.tail ELSE q.tail - q.head

LOCAL CopyBlocks(dest, src) ==
  LET copied == IF FreeSlots(dest) < HeldSlots(src) THEN FreeSlots(dest) ELSE HeldSlots(src)
  IN  [node |-> AppendRing(dest, RingItems(src, copied)), src |-> DropRing(src, copied)]

LOCAL CopyOut(src) ==
  [out |-> RingItems(src, HeldSlots(src)), src |-> DropRing(src, HeldSlots(src))]

direct_copy_avx(dest, src) == CopyBlocks(dest, src)
direct_copy(dest, src) == CopyBlocks(dest, src)
direct_copy_to_output_avx(src) == CopyOut(src)
direct_copy_to_output(src) == CopyOut(src)

\* A cursor over the items of a ring: up to the end of the buffer first if
\* they wrap around it (rcases, lcases).
LOCAL Cursor(q) ==
  IF q.head >= q.tail THEN [i |-> q.head, end |-> fifosize, wraps |-> TRUE]
  ELSE [i |-> q.head, end |-> q.tail, wraps |-> FALSE]

LOCAL Window(q, c) == SubSeq(q.buffer, c.i + 1, c.end)

\* The ring and the cursor once all of the window but `rest` is consumed;
\* `rest` is what the kernel left in its place.
LOCAL Consume(q, c, rest) ==
  [q EXCEPT !.buffer = Store(@, c.end - Len(rest), rest),
            !.count = @ - (c.end - Len(rest) - c.i), !.head = Wrap(c.end - Len(rest))]
LOCAL Advance(q, c, rest) ==
  IF c.wraps /\ rest = <<>> THEN [i |-> 0, end |-> q.tail, wraps |-> FALSE]
  ELSE [c EXCEPT !.i = c.end - Len(rest)]

-----------------------------------------------------------------------------
(* Reading two parts into a leaf.  Every version returns the leaf and what *)
(* is left of the parts.                                                   *)

\* The rest of a part, once the other one is empty, while there is space.
LOCAL FillUp(q, s) == SubSeq(s, 1, IF Len(s) < fifosize - q.count THEN Len(s) ELSE fifosize - q.count)

LOCAL ReadRest(q, a, b) ==
  LET n == Len(FillUp(q, a))
      filled == AppendRing(q, FillUp(q, a))
  IN  IF q.count < fifosize /\ a # <<>>
      THEN [node |-> filled, a |-> SubSeq(a, n + 1, Len(a)), b |-> b]
      ELSE [node |-> AppendRing(q, FillUp(q, b)), a |-> a,
            b |-> SubSeq(b, Len(FillUp(q, b)) + 1, Len(b))]

LOCAL ReadMerged(q, k) == ReadRest(AppendRing(q, k.out), k.a, k.b)

\* Up to the end of the free window, and on from the start of the buffer if
\* the free slots wrap around.
LOCAL ReadWindows(q, a, b) ==
  LET end == IF q.head > q.tail THEN q.head ELSE fifosize
      end2 == IF q.head > q.tail THEN 0 ELSE q.head
      WrapAround(k) == IF k.slots = 0 /\ end2 # 0
                       THEN [Kernel(k.a, k.b, end2) EXCEPT !.out = k.out \o @] ELSE k
  IN  ReadMerged(q, WrapAround(Kernel(a, b, end - q.tail)))

\* Item by item, the indices modulo the ring's size.
LOCAL ReadItems(q, a, b) ==
  ReadMerged(q, serialmergekernel([out |-> <<>>, a |-> a, b |-> b, slots |-> fifosize - q.count]))

readmerge_parallel_decomposed(q, a, b) == ReadWindows(q, a, b)
readmerge_scalar_decomposed(q, a, b) == ReadWindows(q, a, b)
readmerge_scalar_modulo(q, a, b) == ReadItems(q, a, b)
readmerge_scalar_bitand(q, a, b) == ReadItems(q, a, b)

LOCAL ReadMerge(q, a, b) ==
  CASE version = "avx" -> readmerge_parallel_decomposed(q, a, b)
    [] version = "decomposed" -> readmerge_scalar_decomposed(q, a, b)
    [] version = "modulo" -> readmerge_scalar_modulo(q, a, b)
    [] version = "bitand" -> readmerge_scalar_bitand(q, a, b)

-----------------------------------------------------------------------------
(* Merging two children into their parent.                                 *)

RECURSIVE MergeWindows(_), CopyRest(_), StoreWindows(_)

\* What the kernel made of the windows, and the windows that come next.
LOCAL MergeWindow(s, k) ==
  LET oi == s.oi + Len(k.out)
      over == oi = s.oend
      head == s.node.head
  IN  [node |-> AppendRing(s.node, k.out),
       right |-> Consume(s.right, s.rc, k.a), rc |-> Advance(s.right, s.rc, k.a),
       left |-> Consume(s.left, s.lc, k.b), lc |-> Advance(s.left, s.lc, k.b),
       oi |-> IF over THEN 0 ELSE oi,
       oend |-> IF over THEN head ELSE s.oend,
       slots |-> IF over THEN head ELSE k.slots]

\* Window by window, while the parent has space and both children have items.
MergeWindows(s) ==
  IF s.node.count < fifosize /\ s.right.count > 0 /\ s.left.count > 0
  THEN MergeWindows(MergeWindow(s, Kernel(Window(s.right, s.rc), Window(s.left, s.lc), s.slots)))
  ELSE s

\* What is left of one child, up to the end of the parent's buffer.
CopyRest(s) ==
  LET window == Window(s.src, s.c)
      n == IF Len(window) < s.slots THEN Len(window) ELSE s.slots
      rest == SubSeq(window, n + 1, Len(window))
      t == [node |-> AppendRing(s.node, SubSeq(window, 1, n)), slots |-> s.slots - n,
            src |-> Consume(s.src, s.c, rest), c |-> Advance(s.src, s.c, rest)]
  IN  IF t.slots > 0 /\ t.src.count > 0 THEN CopyRest(t) ELSE t

\* Both children get no more items: the rest of one, once the other is empty.
LOCAL CopyRestOfBoth(s) ==
  LET from == IF s.right.count > 0 THEN "right" ELSE "left"
      Copied(t) == [s EXCEPT !.node = t.node, ![from] = t.src]
  IN  IF s.node.count = fifosize \/ s[from].count = 0 THEN s
      ELSE Copied(CopyRest(
             [node |-> s.node, src |-> s[from], c |-> Cursor(s[from]),
              slots |-> IF s.node.count > s.node.tail THEN fifosize - s.node.count
                        ELSE fifosize - s.node.tail]))

LOCAL MergeDecomposed(node, right, left, bothdone) ==
  LET oend == IF node.head > node.tail THEN node.head ELSE fifosize
      Three(s) == [node |-> s.node, right |-> s.right, left |-> s.left]
      s == Three(MergeWindows([node |-> node, right |-> right, rc |-> Cursor(right),
                               left |-> left, lc |-> Cursor(left),
                               oi |-> node.tail, oend |-> oend, slots |-> oend - node.tail]))
  IN  IF bothdone THEN CopyRestOfBoth(s) ELSE s

LOCAL MergedItems(node, right, left, bothdone, k) ==
  LET rest == k.a \o k.b
      more == IF ~bothdone THEN <<>>
              ELSE SubSeq(rest, 1, IF Len(rest) < k.slots THEN Len(rest) ELSE k.slots)
      fromA == IF Len(more) < Len(k.a) THEN Len(more) ELSE Len(k.a)
  IN  [node |-> AppendRing(node, k.out \o more),
       right |-> DropRing(right, right.count - Len(k.a) + fromA),
       left |-> DropRing(left, left.count - Len(k.b) + Len(more) - fromA)]

\* Item by item with every index taken modulo the ring's size.
LOCAL MergeItems(node, right, left, bothdone) ==
  MergedItems(node, right, left, bothdone,
    serialmergekernel([out |-> <<>>, a |-> RingItems(right, right.count),
                       b |-> RingItems(left, left.count), slots |-> fifosize - node.count]))

merge_parallel_decomposed(node, right, left, bothdone) == MergeDecomposed(node, right, left, bothdone)
merge_scalar_decomposed(node, right, left, bothdone) == MergeDecomposed(node, right, left, bothdone)
merge_scalar_modulo(node, right, left, bothdone) == MergeItems(node, right, left, bothdone)
merge_scalar_bitand(node, right, left, bothdone) == MergeItems(node, right, left, bothdone)

LOCAL MergeChildren(node, right, left, bothdone) ==
  CASE version = "avx" -> merge_parallel_decomposed(node, right, left, bothdone)
    [] version = "decomposed" -> merge_scalar_decomposed(node, right, left, bothdone)
    [] version = "modulo" -> merge_scalar_modulo(node, right, left, bothdone)
    [] version = "bitand" -> merge_scalar_bitand(node, right, left, bothdone)

\* Mutated form: a child that is done and empty is merged as well.
MergeWithoutCopy(node, right, left, rightdone, leftdone) ==
  MergeChildren(node, right, left, rightdone /\ leftdone)

\* One child is done and empty, the other one is not done: its items are
\* copied.  Otherwise the children are merged.
MergeOrCopy(node, right, left, rightdone, leftdone) ==
  LET Copy(src) == IF version = "avx" THEN direct_copy_avx(node, src) ELSE direct_copy(node, src)
  IN  IF rightdone /\ right.count = 0 /\ ~leftdone /\ left.count > 0
      THEN [node |-> Copy(left).node, right |-> right, left |-> Copy(left).src]
      ELSE IF leftdone /\ left.count = 0 /\ ~rightdone /\ right.count > 0
      THEN [node |-> Copy(right).node, right |-> Copy(right).src, left |-> left]
      ELSE MergeChildren(node, right, left, rightdone /\ leftdone)

-----------------------------------------------------------------------------
(* Merging nodes 0 and 1 into the output.                                  *)

\* The kernels without a limit of slots.
mergestore16kernel(k) == merge16kernel(k)
serialmergestorekernel(k) == serialmergekernel(k)

LOCAL StoreKernel(a, b) ==
  LET k == [out |-> <<>>, a |-> a, b |-> b, slots |-> Len(a) + Len(b)]
  IN  IF version = "avx" THEN mergestore16kernel(k) ELSE serialmergestorekernel(k)

StoreWindows(s) ==
  IF s.right.count > 0 /\ s.left.count > 0
  THEN LET Stored(k) ==
             [out |-> s.out \o k.out,
              right |-> Consume(s.right, s.rc, k.a), rc |-> Advance(s.right, s.rc, k.a),
              left |-> Consume(s.left, s.lc, k.b), lc |-> Advance(s.left, s.lc, k.b)]
       IN  StoreWindows(Stored(StoreKernel(Window(s.right, s.rc), Window(s.left, s.lc))))
  ELSE s

LOCAL StoreDecomposed(right, left) ==
  StoreWindows([out |-> <<>>, right |-> right, rc |-> Cursor(right),
                left |-> left, lc |-> Cursor(left)])

LOCAL StoreItems(right, left) ==
  LET Stored(k) == [out |-> k.out, right |-> DropRing(right, right.count - Len(k.a)),
                    left |-> DropRing(left, left.count - Len(k.b))]
  IN  Stored(serialmergekernel([out |-> <<>>, a |-> RingItems(right, right.count),
                                b |-> RingItems(left, left.count),
                                slots |-> right.count + left.count]))

\* Once both are done the rest of them is stored as well.
LOCAL StoreRest(s, bothdone) ==
  IF bothdone
  THEN [out |-> s.out \o RingItems(s.right, s.right.count) \o RingItems(s.left, s.left.count),
        right |-> DropRing(s.right, s.right.count), left |-> DropRing(s.left, s.left.count)]
  ELSE [out |-> s.out, right |-> s.right, left |-> s.left]

mergestore_parallel_decomposed(right, left) == StoreDecomposed(right, left)
mergestore_scalar_decomposed(right, left) == StoreDecomposed(right, left)
mergestore_scalar_modulo(right, left) == StoreItems(right, left)
mergestore_scalar_bitand(right, left) == StoreItems(right, left)

StoreOrCopy(right, left, rightdone, leftdone) ==
  LET Copy(src) == IF version = "avx" THEN direct_copy_to_output_avx(src)
                   ELSE direct_copy_to_output(src)
      s == CASE version = "avx" -> mergestore_parallel_decomposed(right, left)
             [] version = "decomposed" -> mergestore_scalar_decomposed(right, left)
             [] version = "modulo" -> mergestore_scalar_modulo(right, left)
             [] version = "bitand" -> mergestore_scalar_bitand(right, left)
  IN  IF rightdone /\ right.count = 0 /\ ~leftdone /\ left.count > 0
      THEN [out |-> Copy(left).out, right |-> right, left |-> Copy(left).src]
      ELSE IF leftdone /\ left.count = 0 /\ ~rightdone /\ right.count > 0
      THEN [out |-> Copy(right).out, right |-> Copy(right).src, left |-> left]
      ELSE StoreRest(s, rightdone /\ leftdone)

-----------------------------------------------------------------------------
nparts == Len(parts)
nfifos == nparts - 2

TreeIdle ==
  /\ treePc = "idle" /\ version = "avx" /\ blocks = <<>> /\ parts = <<>> /\ nodes = <<>>
  /\ done = <<>> /\ m = 0 /\ finished = FALSE /\ output = <<>>

TreeInit ==
  /\ version \in Versions
  /\ blocks \in MultiwayInputs
  /\ parts = blocks
  /\ treePc = "remainder"
  /\ nodes = <<>> /\ done = <<>> /\ m = 0 /\ finished = FALSE /\ output = <<>>

\* avxsortmultiway_int64: an odd last block is merged into the one before.
MergeRemainder ==
  /\ treePc = "remainder"
  /\ IF nparts % 2 = 1
     THEN LET x == parts[nparts - 1]  y == parts[nparts]  n == Len(x) + Len(y)
              merged == avx_merge_int64(16, TRUE, x \o y \o x \o y, 0, Len(x), n, Len(x), Len(y))
          IN  parts' = Append(SubSeq(parts, 1, nparts - 2), Load(merged, n, n))
     ELSE UNCHANGED parts
  /\ treePc' = "pad"
  /\ UNCHANGED <<version, blocks, nodes, done, m, finished, output>>

\* avxsortmultiway_int64: empty parts up to a power of two, then the merge
\* itself begins with an empty tree.
PadParts ==
  /\ treePc = "pad"
  /\ LET pow2 == CHOOSE p \in {2 ^ k : k \in 1 .. 10} : nparts <= p /\ 2 * nparts > p
     IN  /\ parts' = parts \o [i \in 1 .. pow2 - nparts |-> <<>>]
         /\ nodes' = [i \in 0 .. pow2 - 3 |-> EmptyNode]
         /\ done' = [i \in 0 .. pow2 - 3 |-> FALSE]
         /\ m' = pow2 - 3
  /\ finished' = TRUE
  /\ treePc' = "leaves"
  /\ UNCHANGED <<version, blocks, output>>

\* Leaf m reads its parts, c and c + 1, unless it has enough.
VisitLeaf ==
  /\ treePc = "leaves"
  /\ LET c == 2 * (nfifos - 1 - m)
         NowDone(r) == \/ Len(parts[c + 1]) + Len(parts[c + 2]) = Len(r.a) + Len(r.b)
                       \/ r.a = <<>> /\ r.b = <<>>
     IN  /\ IF ~done[m] /\ nodes[m].count < readthreshold
            THEN \E r \in {ReadMerge(nodes[m], parts[c + 1], parts[c + 2])} :
                   /\ nodes' = [nodes EXCEPT ![m] = r.node]
                   /\ parts' = [parts EXCEPT ![c + 1] = r.a, ![c + 2] = r.b]
                   /\ done' = [done EXCEPT ![m] = NowDone(r)]
                   /\ finished' = (finished /\ NowDone(r))
            ELSE UNCHANGED <<nodes, parts, done, finished>>
         /\ m' = m - 1
         /\ treePc' = IF c + 2 < nparts THEN "leaves" ELSE IF m > 0 THEN "inner" ELSE "root"
  /\ UNCHANGED <<version, blocks, output>>

\* Mutated form: an inner node is done as soon as its children are.
NoWaitForChildren(r, l, t) == done[r] /\ done[l]

\* An inner node is done once its children are done and empty.
InnerDone(r, l, t) == done[r] /\ done[l] /\ t.right.count = 0 /\ t.left.count = 0

\* Inner node m merges its children, if one of them is done or both have
\* enough, and if there is space.
VisitInner ==
  /\ treePc = "inner"
  /\ LET r == 2 * m + 2
         l == r + 1
         ready == /\ done[r] \/ done[l] \/ nodes[m].count < readthreshold
                  /\ nodes[m].count < fifosize
         enough == \/ done[r] \/ done[l]
                   \/ nodes[r].count >= readthreshold /\ nodes[l].count >= readthreshold
         Merged == IF enough THEN MergeOrCopy(nodes[m], nodes[r], nodes[l], done[r], done[l])
                   ELSE [node |-> nodes[m], right |-> nodes[r], left |-> nodes[l]]
     IN  IF ~done[m] /\ ready
         THEN \E t \in {Merged} :
                /\ nodes' = [nodes EXCEPT ![m] = t.node, ![r] = t.right, ![l] = t.left]
                /\ done' = [done EXCEPT ![m] = InnerDone(r, l, t)]
         ELSE UNCHANGED <<nodes, done>>
  /\ finished' = (finished /\ done'[m])
  /\ m' = m - 1
  /\ treePc' = IF m > 0 THEN "inner" ELSE "root"
  /\ UNCHANGED <<version, blocks, parts, output>>

\* Nodes 0 and 1 are merged into the output; the next round, or the end.
StoreRoot ==
  /\ treePc = "root"
  /\ \E s \in {StoreOrCopy(nodes[0], nodes[1], done[0], done[1])} :
       /\ output' = output \o s.out
       /\ nodes' = [nodes EXCEPT ![0] = s.right, ![1] = s.left]
  /\ IF finished THEN treePc' = "done" /\ UNCHANGED <<m, finished>>
     ELSE treePc' = "leaves" /\ m' = nfifos - 1 /\ finished' = TRUE
  /\ UNCHANGED <<version, blocks, parts, done>>

TreeNext == MergeRemainder \/ PadParts \/ VisitLeaf \/ VisitInner \/ StoreRoot

-----------------------------------------------------------------------------
LOCAL AllItems == FlattenSeq(blocks)
LOCAL InTree == FlattenSeq([i \in 1 .. Len(parts) - 2 |-> RingItems(nodes[i - 1], nodes[i - 1].count)])
LOCAL InParts == FlattenSeq(parts)

LOCAL NotAbove(s, t) == \A i \in DOMAIN s, j \in DOMAIN t : s[i] <= t[j]
LOCAL Sorted(s) == \A i \in 2 .. Len(s) : s[i - 1] <= s[i]

\* What node i waits for: the rings of its children, the parts of a leaf.
LOCAL Sources(i) ==
  LET c == 2 * (nfifos - 1 - i)
      Items(k) == RingItems(nodes[k], nodes[k].count)
  IN  IF c < nparts THEN parts[c + 1] \o parts[c + 2]
      ELSE Items(2 * i + 2) \o Items(2 * i + 3)

\* The tree of the multi-way merge: the output, the rings and what is left of
\* the parts are the items of the blocks, each once; the output and every
\* ring is in order and no item overtakes one that has to come out of the
\* same node before it.  At the end all the items are in the output.
TreeOrder ==
  treePc \in {"leaves", "inner", "root", "done"} =>
    /\ Ordered(output \o InTree \o InParts) = Ordered(AllItems)
    /\ Sorted(output)
    /\ NotAbove(output, InTree \o InParts)
    /\ \A i \in DOMAIN nodes :
         /\ Sorted(RingItems(nodes[i], nodes[i].count))
         /\ NotAbove(RingItems(nodes[i], nodes[i].count), Sources(i))
    /\ treePc = "done" => Len(output) = Len(AllItems)

\* avx_multiwaymerge.h, line 47: the merge returns the "total number of
\* tuples", that is it stores all the tuples of the parts.  With two leaves
\* and no inner node the loop may end too early: a leaf passed over because it
\* holds enough (line 174) does not keep it going.
MergedWhole == treePc = "done" => Len(output) = Len(AllItems)
=============================================================================
